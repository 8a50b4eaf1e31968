------------------------------- MODULE Logging -------------------------------
(***************************************************************************)
(* arras4_log: an AutoLogger that captures stderr and stdout into a Logger *)
(* (ConsoleLogger or AthenaLogger) that itself writes to the original      *)
(* stderr and stdout.  Per stream there is a pipe, a bounded queue, the    *)
(* thread that empties the pipe and the thread that logs the queue; the    *)
(* main thread builds and destroys the captures while the program prints   *)
(* and logs.                                                               *)
(*                                                                         *)
(* A line is a number; the prefix a logger adds, colours, dates and the    *)
(* copy sent to syslog are left out.  The data race on the logger's stream *)
(* pointers is taken as an atomic read and write.                          *)
(***************************************************************************)
EXTENDS Integers, Sequences, FiniteSets

CONSTANTS
    MAX_QUEUE,       \* of OutputCapture
    PipeSize,        \* what the pipe holds, external
    NumLines,        \* lines the program prints, per stream
    DirectLevels,    \* levels the program logs at, one message each
    Athena,          \* an AthenaLogger, not a ConsoleLogger
    Threshold, TraceThreshold

Streams == {"stderr", "stdout"}
LOG_FATAL == 0
LOG_ERROR == 1
LOG_INFO == 3
LOG_TRACE == 5
ATHENA_TRACE0 == 1000
Blank == -1
Closing == -2

VARIABLES
    lgMain,      \* the main thread: [pc, s]
    lgFd,        \* where the descriptor of each stream leads: terminal or pipe
    lgStream,    \* the logger's mErrStream and mOutStream: std, dup or closed
    lgPipe, lgQueue,
    lgReader,    \* pipeThreadFunc per stream: [pc, line]
    lgWriter,    \* logThreadFunc per stream: [pc, line]
    lgPrinted,   \* lines printed so far, per stream
    lgSpan,      \* lines printed when the logger bypassed the pipe, and when the capture was closed
    lgDirect,    \* levels still to be logged by the program
    lgTerm       \* what has reached the terminal, per stream

logVars == <<lgMain, lgFd, lgStream, lgPipe, lgQueue, lgReader, lgWriter, lgPrinted, lgSpan,
             lgDirect, lgTerm>>

None == [pc |-> "none", line |-> 0]

LogInit ==
    /\ lgMain = [pc |-> "capture", s |-> "stderr"]
    /\ lgFd = [s \in Streams |-> "terminal"] /\ lgStream = [s \in Streams |-> "std"]
    /\ lgPipe = [s \in Streams |-> << >>] /\ lgQueue = [s \in Streams |-> << >>]
    /\ lgReader = [s \in Streams |-> None] /\ lgWriter = [s \in Streams |-> None]
    /\ lgPrinted = [s \in Streams |-> 0] /\ lgSpan = [s \in Streams |-> [from |-> 0, to |-> 0]]
    /\ lgDirect = DirectLevels /\ lgTerm = [s \in Streams |-> << >>]

-----------------------------------------------------------------------------
(* Logger. *)

\* Logger::logMessage and the base logEvent.
Emitted(level) == level <= Threshold

\* AthenaLogger::logEvent has a threshold of its own for trace levels.
EventEmitted(level) ==
    IF Athena /\ level >= ATHENA_TRACE0 THEN level <= TraceThreshold + ATHENA_TRACE0
                                                   ELSE Emitted(level)

StreamOf(level) == IF level > LOG_ERROR THEN "stdout" ELSE "stderr"
LevelOf(s) == IF s = "stderr" THEN LOG_ERROR ELSE LOG_INFO

\* A write to the descriptor of s: straight to the terminal, or into the pipe
\* once there is room.
WriteFd(s, line) ==
    \/ lgFd[s] = "terminal" /\ lgTerm' = [lgTerm EXCEPT ![s] = Append(@, line)] /\ lgPipe' = lgPipe
    \/ /\ lgFd[s] = "pipe" /\ Len(lgPipe[s]) < PipeSize
       /\ lgPipe' = [lgPipe EXCEPT ![s] = Append(@, line)] /\ lgTerm' = lgTerm

\* ConsoleLogger::log: one write to the stream the logger holds for the level.
LogTo(s, line) ==
    \/ lgStream[s] = "dup" /\ lgTerm' = [lgTerm EXCEPT ![s] = Append(@, line)] /\ lgPipe' = lgPipe
    \/ lgStream[s] = "closed" /\ UNCHANGED <<lgTerm, lgPipe>>
    \/ lgStream[s] = "std" /\ WriteFd(s, line)

-----------------------------------------------------------------------------
(* The program. *)

PrintLine(s) ==
    /\ lgMain.pc # "done" /\ lgPrinted[s] < NumLines[s]
    /\ WriteFd(s, lgPrinted[s] + 1)
    /\ lgPrinted' = [lgPrinted EXCEPT ![s] = @ + 1]
    /\ UNCHANGED <<lgMain, lgFd, lgStream, lgQueue, lgReader, lgWriter, lgSpan, lgDirect>>

LogEvent(level) ==
    /\ lgMain.pc # "done" /\ level \in lgDirect
    /\ lgDirect' = lgDirect \ {level}
    /\ \/ EventEmitted(level) /\ LogTo(StreamOf(level), Blank)
       \/ ~EventEmitted(level) /\ UNCHANGED <<lgTerm, lgPipe>>
    /\ UNCHANGED <<lgMain, lgFd, lgStream, lgQueue, lgReader, lgWriter, lgPrinted, lgSpan>>

-----------------------------------------------------------------------------
(* pipeThreadFunc *)

Woken(th) == [th EXCEPT !.pc = IF @ = "sleep" THEN "awake" ELSE @]

ReadPipe(s) ==
    /\ lgReader[s].pc = "read" /\ lgPipe[s] # << >>
    /\ lgReader' = [lgReader EXCEPT ![s] = [pc |-> "awake", line |-> Head(lgPipe[s])]]
    /\ lgPipe' = [lgPipe EXCEPT ![s] = Tail(@)]
    /\ UNCHANGED <<lgMain, lgFd, lgStream, lgQueue, lgWriter, lgPrinted, lgSpan, lgDirect, lgTerm>>

WaitNotFull(s) ==
    /\ lgReader[s].pc = "awake" /\ Len(lgQueue[s]) >= MAX_QUEUE
    /\ lgReader' = [lgReader EXCEPT ![s].pc = "sleep"]
    /\ UNCHANGED <<lgMain, lgFd, lgStream, lgPipe, lgQueue, lgWriter, lgPrinted, lgSpan, lgDirect,
                   lgTerm>>

\* The log thread is woken only when the queue was empty.
PushLine(s) ==
    /\ lgReader[s].pc = "awake" /\ Len(lgQueue[s]) < MAX_QUEUE
    /\ lgQueue' = [lgQueue EXCEPT ![s] = Append(@, lgReader[s].line)]
    /\ lgWriter' = [lgWriter EXCEPT ![s] = IF lgQueue[s] = << >> THEN Woken(@) ELSE @]
    /\ lgReader' = [lgReader EXCEPT ![s].pc = IF lgReader[s].line = Closing THEN "ended" ELSE "read"]
    /\ UNCHANGED <<lgMain, lgFd, lgStream, lgPipe, lgPrinted, lgSpan, lgDirect, lgTerm>>

-----------------------------------------------------------------------------
(* logThreadFunc *)

WaitNotEmpty(s) ==
    /\ lgWriter[s].pc = "awake" /\ lgQueue[s] = << >>
    /\ lgWriter' = [lgWriter EXCEPT ![s].pc = "sleep"]
    /\ UNCHANGED <<lgMain, lgFd, lgStream, lgPipe, lgQueue, lgReader, lgPrinted, lgSpan, lgDirect,
                   lgTerm>>

\* mutant: nobody is told that there is room again
TakeLineQuietly(s) ==
    /\ lgWriter[s].pc = "awake" /\ lgQueue[s] # << >>
    /\ lgWriter' = [lgWriter EXCEPT ![s] = [pc |-> "log", line |-> Head(lgQueue[s])]]
    /\ lgQueue' = [lgQueue EXCEPT ![s] = Tail(@)]
    /\ UNCHANGED <<lgMain, lgFd, lgStream, lgPipe, lgReader, lgPrinted, lgSpan, lgDirect, lgTerm>>

\* The pipe thread is woken only when the queue was full.
TakeLine(s) ==
    /\ lgWriter[s].pc = "awake" /\ lgQueue[s] # << >>
    /\ lgWriter' = [lgWriter EXCEPT ![s] = [pc |-> "log", line |-> Head(lgQueue[s])]]
    /\ lgQueue' = [lgQueue EXCEPT ![s] = Tail(@)]
    /\ lgReader' = [lgReader EXCEPT ![s] = IF Len(lgQueue'[s]) = MAX_QUEUE - 1 THEN Woken(@) ELSE @]
    /\ UNCHANGED <<lgMain, lgFd, lgStream, lgPipe, lgPrinted, lgSpan, lgDirect, lgTerm>>

LogLine(s) ==
    /\ lgWriter[s].pc = "log" /\ lgWriter[s].line # Closing
    /\ \/ Emitted(LevelOf(s)) /\ LogTo(StreamOf(LevelOf(s)), lgWriter[s].line)
       \/ ~Emitted(LevelOf(s)) /\ UNCHANGED <<lgTerm, lgPipe>>
    /\ lgWriter' = [lgWriter EXCEPT ![s].pc = "awake"]
    /\ UNCHANGED <<lgMain, lgFd, lgStream, lgQueue, lgReader, lgPrinted, lgSpan, lgDirect>>

\* The closing line is put back for log threads there are none of.
EndLog(s) ==
    /\ lgWriter[s].pc = "log" /\ lgWriter[s].line = Closing
    /\ lgQueue' = [lgQueue EXCEPT ![s] = Append(@, Closing)]
    /\ lgReader' = [lgReader EXCEPT ![s] = Woken(@)]
    /\ lgWriter' = [lgWriter EXCEPT ![s].pc = "ended"]
    /\ UNCHANGED <<lgMain, lgFd, lgStream, lgPipe, lgPrinted, lgSpan, lgDirect, lgTerm>>

-----------------------------------------------------------------------------
(* The AutoLogger: stderr first, then stdout, in init and in the destructor. *)

At(pc, s) == lgMain.pc = pc /\ lgMain.s = s
Then(s, pc, last) == IF s = "stderr" THEN [pc |-> pc, s |-> "stdout"] ELSE [pc |-> last, s |-> "stderr"]

\* OutputCapture's constructor: from here on the stream leads into the pipe.
Capture(s) ==
    /\ At("capture", s)
    /\ lgFd' = [lgFd EXCEPT ![s] = "pipe"]
    /\ lgReader' = [lgReader EXCEPT ![s].pc = "read"]
    /\ lgWriter' = [lgWriter EXCEPT ![s].pc = "awake"]
    /\ lgMain' = [lgMain EXCEPT !.pc = "set"]
    /\ UNCHANGED <<lgStream, lgPipe, lgQueue, lgPrinted, lgSpan, lgDirect, lgTerm>>

\* The logger is told to bypass the pipe.
SetStream(s) ==
    /\ At("set", s)
    /\ lgStream' = [lgStream EXCEPT ![s] = "dup"]
    /\ lgSpan' = [lgSpan EXCEPT ![s].from = lgPrinted[s]]
    /\ lgMain' = Then(s, "capture", "close")
    /\ UNCHANGED <<lgFd, lgPipe, lgQueue, lgReader, lgWriter, lgPrinted, lgDirect, lgTerm>>

\* ~OutputCapture: one write that ends the current line and says it is over.
CloseCapture(s) ==
    /\ At("close", s) /\ Len(lgPipe[s]) + 2 <= PipeSize
    /\ lgPipe' = [lgPipe EXCEPT ![s] = @ \o <<Blank, Closing>>]
    /\ lgSpan' = [lgSpan EXCEPT ![s].to = lgPrinted[s]]
    /\ lgMain' = [lgMain EXCEPT !.pc = "join"]
    /\ UNCHANGED <<lgFd, lgStream, lgQueue, lgReader, lgWriter, lgPrinted, lgDirect, lgTerm>>

JoinedPipeOnly(s) == lgReader[s].pc = "ended"    \* mutant: the log thread is not joined
Joined(s) == lgReader[s].pc = "ended" /\ lgWriter[s].pc = "ended"

\* The stream leads to the terminal again; the duplicate the logger still uses is closed.
Restore(s) ==
    /\ At("join", s) /\ Joined(s)
    /\ lgFd' = [lgFd EXCEPT ![s] = "terminal"]
    /\ lgStream' = [lgStream EXCEPT ![s] = "closed"]
    /\ lgMain' = [lgMain EXCEPT !.pc = "reset"]
    /\ UNCHANGED <<lgPipe, lgQueue, lgReader, lgWriter, lgPrinted, lgSpan, lgDirect, lgTerm>>

ResetStream(s) ==
    /\ At("reset", s)
    /\ lgStream' = [lgStream EXCEPT ![s] = "std"]
    /\ lgMain' = Then(s, "close", "done")
    /\ UNCHANGED <<lgFd, lgPipe, lgQueue, lgReader, lgWriter, lgPrinted, lgSpan, lgDirect, lgTerm>>

-----------------------------------------------------------------------------
CaptureThreads(s) ==
    \/ ReadPipe(s) \/ WaitNotFull(s) \/ PushLine(s)
    \/ WaitNotEmpty(s) \/ TakeLine(s) \/ LogLine(s) \/ EndLog(s)
AutoLogger(s) == Capture(s) \/ SetStream(s) \/ CloseCapture(s) \/ Restore(s) \/ ResetStream(s)

LogNext ==
    \/ \E s \in Streams : PrintLine(s) \/ CaptureThreads(s) \/ AutoLogger(s)
    \/ \E level \in DirectLevels : LogEvent(level)

\* The program prints what it wants; the main thread and the captures run.
LogFairness ==
    \A s \in Streams : WF_logVars(AutoLogger(s)) /\ WF_logVars(CaptureThreads(s))

LogSpec == LogInit /\ [][LogNext]_logVars /\ LogFairness

-----------------------------------------------------------------------------
(* Properties. *)

\* When the AutoLogger is gone, every line printed to a stream before its capture
\* was closed is on the terminal once, and the lines that were not caught in the
\* loop of the constructor (captured, but the logger not yet redirected) are in the
\* order they were printed: the bounded queue, the two threads and the joins of
\* ~OutputCapture lose and reorder nothing.
CaptureComplete ==
    lgMain.pc = "done" => \A s \in Streams : Emitted(LevelOf(s)) =>
        \E at \in [1 .. lgSpan[s].to -> DOMAIN lgTerm[s]] :
            /\ \A n \in DOMAIN at : {i \in DOMAIN lgTerm[s] : lgTerm[s][i] = n} = {at[n]}
            /\ \A m, n \in DOMAIN at : lgSpan[s].from < m /\ m < n => at[m] < at[n]

\* The destructor returns: neither thread of a capture sleeps while the other one
\* waits for it, although each is notified only at one size of the queue.
CaptureCloses == <>(lgMain.pc = "done")
=============================================================================
