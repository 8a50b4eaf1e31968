----------------------------- MODULE MessagePlayer -----------------------------
(***************************************************************************)
(* msgPlay and msgClientPlay: recorded messages are played, file by file   *)
(* in the order of their names, into a computation's IPC socket or through *)
(* the endpoint of a session.  A file becomes one frame: its size is asked *)
(* for first, then it is read to its end; it may change in between, as one *)
(* that is still being recorded does.  An exception that nobody catches,   *)
(* and a return with the thread that reads still joinable, end the process *)
(* abnormally.                                                             *)
(***************************************************************************)
EXTENDS Integers, Sequences

CONSTANTS
    Directories,    \* files in the order of their names: [time, size, data, fault]
    MaxDelay        \* MAX_DELAY, 30 seconds

Faults == {"none", "stat", "open", "read"}
Files == [time : Int, size : Nat, data : Nat, fault : Faults]
ASSUME PlayAssumption == \A directory \in Directories : directory \in Seq(Files)

NoTime == 0
DELAY == 1
Tools == {"msgPlay", "msgClientPlay"}

VARIABLES
    mpTool,
    mpFiles,        \* the directory; time is NoTime when the name holds none
    mpTimestamps,   \* --timestamps is given
    mpPc,           \* connect, ready, list, next, write, close, finished, ended
    mpAt,           \* files played
    mpPrev, mpSlept,
    mpSent,         \* frames on the connection: [file, size, bytes]
    mpPeer,         \* up, lost
    mpReader,       \* msgPlay's receiveMessages: none, joinable, ended, joined
    mpExit          \* none, ok, error, abnormal

playVars == <<mpTool, mpFiles, mpTimestamps, mpPc, mpAt, mpPrev, mpSlept, mpSent, mpPeer, mpReader, mpExit>>
optionVars == <<mpTool, mpFiles, mpTimestamps>>

PlayInit ==
    /\ mpTool \in Tools /\ mpFiles \in Directories /\ mpTimestamps \in BOOLEAN
    /\ mpPc = "connect" /\ mpAt = 0 /\ mpPrev = NoTime /\ mpSlept = 0 /\ mpSent = << >>
    /\ mpPeer = "up" /\ mpReader = "none" /\ mpExit = "none"

PlayGo(pc) == mpPc' = pc /\ UNCHANGED mpExit
PlayEnd(exit) == mpPc' = "ended" /\ mpExit' = exit
\* main returns an error: with the thread still joinable that is std::terminate.
ReturnError == PlayEnd(IF mpReader \in {"joinable", "ended"} THEN "abnormal" ELSE "error")

\* msgPlay connects or throws; msgClientPlay creates a session and waits for its engine.
CreateClientPeer ==
    /\ mpPc = "connect" /\ mpTool = "msgPlay"
    /\ \/ PlayGo("list") /\ mpReader' = "joinable"
       \/ PlayEnd("abnormal") /\ UNCHANGED mpReader
    /\ UNCHANGED <<optionVars, mpAt, mpPrev, mpSlept, mpSent, mpPeer>>

CreateSession ==
    /\ mpPc = "connect" /\ mpTool = "msgClientPlay"
    /\ PlayGo("ready") \/ ReturnError
    /\ UNCHANGED <<optionVars, mpAt, mpPrev, mpSlept, mpSent, mpPeer, mpReader>>

WaitForEngineReady ==
    /\ mpPc = "ready"
    /\ (mpPeer = "up" /\ PlayGo("list")) \/ ReturnError
    /\ UNCHANGED <<optionVars, mpAt, mpPrev, mpSlept, mpSent, mpPeer, mpReader>>

getFilenames ==
    /\ mpPc = "list"
    /\ IF mpFiles = << >> THEN ReturnError ELSE PlayGo("next")
    /\ UNCHANGED <<optionVars, mpAt, mpPrev, mpSlept, mpSent, mpPeer, mpReader>>

\* At most MaxDelay, and not at all for a time that goes back.
doDelay(time) == IF time > MaxDelay THEN MaxDelay ELSE IF time > 0 THEN time ELSE 0

\* The delay before a file: the time since the file before it, when both are known.
Delay(file) ==
    IF mpTimestamps /\ file.time # NoTime /\ mpPrev # NoTime THEN file.time - mpPrev ELSE DELAY
Paced(file) ==
    /\ mpSlept' = doDelay(Delay(file))
    /\ mpPrev' = IF ~mpTimestamps THEN mpPrev ELSE IF file.time # NoTime THEN file.time ELSE mpPrev + Delay(file)

\* playFile: a file that cannot be opened, or read, leaves the frame open.
PlayFile ==
    /\ mpPc = "next" /\ mpAt < Len(mpFiles)
    /\ Paced(mpFiles[mpAt + 1]) /\ mpAt' = mpAt + 1
    /\ IF mpFiles[mpAt + 1].fault = "stat" THEN ReturnError /\ UNCHANGED mpSent
       ELSE IF mpPeer = "lost" THEN PlayEnd("abnormal") /\ UNCHANGED mpSent
       ELSE /\ mpSent' = Append(mpSent, [file |-> mpAt + 1, size |-> mpFiles[mpAt + 1].size, bytes |-> 0])
            /\ IF mpFiles[mpAt + 1].fault = "open" THEN ReturnError ELSE PlayGo("write")
    /\ UNCHANGED <<optionVars, mpPeer, mpReader>>

\* One buffer of the file; the sink refuses more than the frame has room for.
WriteBuffer ==
    /\ mpPc = "write"
    /\ LET f == mpSent[Len(mpSent)]
       IN IF f.bytes = mpFiles[mpAt].data
          THEN (IF mpFiles[mpAt].fault = "read" THEN ReturnError ELSE PlayGo("close")) /\ UNCHANGED mpSent
          ELSE IF mpPeer = "lost" \/ f.bytes = f.size THEN PlayEnd("abnormal") /\ UNCHANGED mpSent
          ELSE PlayGo("write") /\ mpSent' = [mpSent EXCEPT ![Len(mpSent)].bytes = @ + 1]
    /\ UNCHANGED <<optionVars, mpAt, mpPrev, mpSlept, mpPeer, mpReader>>

FrameFilledOrNot(f) == TRUE    \* mutant: closeFrame forgets to look
FrameFilled(f) == f.bytes = f.size

CloseFrame ==
    /\ mpPc = "close"
    /\ IF FrameFilled(mpSent[Len(mpSent)])
       THEN PlayGo(IF mpAt = Len(mpFiles) THEN "finished" ELSE "next") ELSE PlayEnd("abnormal")
    /\ UNCHANGED <<optionVars, mpAt, mpPrev, mpSlept, mpSent, mpPeer, mpReader>>

\* The other end goes away: the reader ends, the session is stopped.
ConnectionLost ==
    /\ mpPeer = "up" /\ mpPc \notin {"connect", "ended"} /\ mpPeer' = "lost"
    /\ mpReader' = IF mpReader = "joinable" THEN "ended" ELSE mpReader
    /\ UNCHANGED <<optionVars, mpPc, mpAt, mpPrev, mpSlept, mpSent, mpExit>>

\* receiveMessages only expects the other end to go away.
ReaderThrows ==
    /\ mpReader = "joinable" /\ mpPc # "ended" /\ PlayEnd("abnormal")
    /\ UNCHANGED <<optionVars, mpAt, mpPrev, mpSlept, mpSent, mpPeer, mpReader>>

\* msgPlay joins its reader.
JoinReader ==
    /\ mpPc = "finished" /\ mpTool = "msgPlay" /\ mpReader = "ended"
    /\ mpReader' = "joined" /\ PlayEnd("ok")
    /\ UNCHANGED <<optionVars, mpAt, mpPrev, mpSlept, mpSent, mpPeer>>

\* msgClientPlay polls; a session that stopped or threw is an error.
WaitForDisconnect ==
    /\ mpPc = "finished" /\ mpTool = "msgClientPlay" /\ mpPeer = "lost"
    /\ PlayEnd("ok") \/ PlayEnd("error")
    /\ UNCHANGED <<optionVars, mpAt, mpPrev, mpSlept, mpSent, mpPeer, mpReader>>

PlayNext ==
    \/ CreateClientPeer \/ CreateSession \/ WaitForEngineReady \/ getFilenames
    \/ PlayFile \/ WriteBuffer \/ CloseFrame
    \/ ConnectionLost \/ ReaderThrows \/ JoinReader \/ WaitForDisconnect

PlaySpec == PlayInit /\ [][PlayNext]_playVars

\* What the other end reads are frames that hold a whole file each, in the order of the
\* files' names and without a gap; only the last frame may be incomplete, and after it
\* nothing is sent.  A player that ends well has sent every file as it was.
FramesAreFiles ==
    /\ \A i \in DOMAIN mpSent :
          /\ mpSent[i].file = i
          /\ i < Len(mpSent) => mpSent[i].bytes = mpSent[i].size /\ mpSent[i].bytes = mpFiles[i].data
    /\ mpExit = "ok" => Len(mpSent) = Len(mpFiles) /\ \A i \in DOMAIN mpSent : mpSent[i].bytes = mpFiles[i].data
=============================================================================
