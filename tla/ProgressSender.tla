---------------------------- MODULE ProgressSender ----------------------------
(***************************************************************************)
(* ProgressSender: a queue of progress messages, the thread that sends     *)
(* them over an IPCSocketPeer to a progress GUI, and the destructor that   *)
(* stops it.  The GUI is external: it may be started, by autoexec too, and *)
(* go away.  Times are left out: a timed wait may end at any moment.       *)
(***************************************************************************)
EXTENDS Integers, Sequences

CONSTANTS
    MaxMessages,    \* messages given to progress
    MaxGuis,        \* times the GUI starts
    AutoExec        \* an autoexec command is set

VARIABLES
    psQueue, psShut,      \* mQueue, and whether it has been shut down
    mRun, mIsSending,
    psStop,               \* stopSending: no, joining, returned
    psThread,             \* sendProc: [pc, ok, msg]
    psSocket,             \* peer's mSocket: none, connected, broken
    psGui,                \* the GUI listens
    psGuis,               \* times it has been started
    psPushed, psShown     \* messages given to progress, messages that reached a GUI

progressVars == <<psQueue, psShut, mRun, mIsSending, psStop, psThread, psSocket, psGui, psGuis, psPushed, psShown>>

ProgressInit ==
    /\ psQueue = << >> /\ psShut = FALSE /\ mRun = TRUE /\ mIsSending = FALSE /\ psStop = "no"
    /\ psThread = [pc |-> "none", ok |-> FALSE, msg |-> 0] /\ psSocket = "none"
    /\ psGui = FALSE /\ psGuis = 0 /\ psPushed = 0 /\ psShown = << >>

-----------------------------------------------------------------------------
(* The application: progress and the destructor. *)

\* A push on a queue that is shut down throws, which is only logged.
StartSending(pushed) ==
    /\ psStop # "joining"    \* mThreadMutex is held across the join
    /\ psPushed' = psPushed + 1
    /\ psQueue' = IF psShut THEN psQueue ELSE Append(psQueue, pushed)
    /\ IF ~mIsSending /\ mRun
       THEN mIsSending' = TRUE /\ psThread' = [psThread EXCEPT !.pc = "connect"]
       ELSE UNCHANGED <<mIsSending, psThread>>

Progress ==
    /\ psPushed < MaxMessages
    /\ StartSending(psPushed + 1)
    /\ UNCHANGED <<psShut, mRun, psStop, psSocket, psGui, psGuis, psShown>>

ShutdownQueue == psShut' = TRUE

StopSending ==
    /\ psStop = "no"
    /\ mRun' = FALSE
    /\ IF mIsSending THEN ShutdownQueue /\ psStop' = "joining"
                     ELSE psShut' = psShut /\ psStop' = "returned"
    /\ UNCHANGED <<psQueue, mIsSending, psThread, psSocket, psGui, psGuis, psPushed, psShown>>

JoinSender ==
    /\ psStop = "joining" /\ psThread.pc = "ended"
    /\ mIsSending' = FALSE /\ psStop' = "returned"
    /\ UNCHANGED <<psQueue, psShut, mRun, psThread, psSocket, psGui, psGuis, psPushed, psShown>>

-----------------------------------------------------------------------------
(* sendProc. *)

Go(pc) == psThread' = [psThread EXCEPT !.pc = pc]
SenderOnly == UNCHANGED <<psQueue, psShut, mRun, mIsSending, psStop, psGuis, psPushed, psShown>>

\* connect throws when there is no listener, and also when the peer still has the
\* socket of an earlier connection.
Connects == psSocket = "none" /\ psGui

FirstConnect ==
    /\ psThread.pc = "connect"
    /\ psSocket' = IF Connects THEN "connected" ELSE psSocket
    /\ psThread' = [psThread EXCEPT !.ok = Connects,
                                    !.pc = IF ~mRun THEN "ended" ELSE IF Connects THEN "loop" ELSE "exec"]
    /\ SenderOnly /\ UNCHANGED psGui

\* The progress monitor is spawned, if it can be, and listens.
DoAutoExec ==
    /\ psThread.pc = "exec"
    /\ Go("wait")
    /\ psGui' \in IF AutoExec THEN {psGui, TRUE} ELSE {psGui}
    /\ SenderOnly /\ UNCHANGED psSocket

\* sendWait: the time is over, or stopSending notified in time.
SendWait ==
    /\ psThread.pc = "wait"
    /\ Go("loop")
    /\ SenderOnly /\ UNCHANGED <<psSocket, psGui>>

SendLoop ==
    /\ psThread.pc = "loop"
    /\ Go(IF ~mRun THEN "ended" ELSE IF psThread.ok THEN "pop" ELSE "retry")
    /\ SenderOnly /\ UNCHANGED <<psSocket, psGui>>

RetryConnect ==
    /\ psThread.pc = "retry"
    /\ psSocket' = IF Connects THEN "connected" ELSE psSocket
    /\ psThread' = [psThread EXCEPT !.ok = Connects, !.pc = IF Connects THEN "loop" ELSE "wait"]
    /\ SenderOnly /\ UNCHANGED psGui

\* A queue that is shut down makes pop throw: the wait, then the end of the loop.
PopMessage ==
    /\ psThread.pc = "pop"
    /\ \/ psShut /\ psThread' = [psThread EXCEPT !.pc = "wait", !.ok = FALSE] /\ psQueue' = psQueue
       \/ /\ ~psShut /\ psQueue # << >>
          /\ psThread' = [psThread EXCEPT !.pc = "send", !.msg = Head(psQueue)]
          /\ psQueue' = Tail(psQueue)
    /\ UNCHANGED <<psShut, mRun, mIsSending, psStop, psSocket, psGui, psGuis, psPushed, psShown>>

\* The message that could not be sent is gone; the socket stays with the peer.
SendMessage ==
    /\ psThread.pc = "send"
    /\ IF psSocket = "connected"
       THEN psShown' = Append(psShown, psThread.msg) /\ Go("loop")
       ELSE psShown' = psShown /\ psThread' = [psThread EXCEPT !.pc = "wait", !.ok = FALSE]
    /\ UNCHANGED <<psQueue, psShut, mRun, mIsSending, psStop, psSocket, psGui, psGuis, psPushed>>

-----------------------------------------------------------------------------
(* The GUI. *)

GuiStarts ==
    /\ ~psGui /\ psGuis < MaxGuis
    /\ psGui' = TRUE /\ psGuis' = psGuis + 1
    /\ UNCHANGED <<psQueue, psShut, mRun, mIsSending, psStop, psThread, psSocket, psPushed, psShown>>

GuiEnds ==
    /\ psGui /\ psGuis < MaxGuis
    /\ psGui' = FALSE
    /\ psSocket' = IF psSocket = "connected" THEN "broken" ELSE psSocket
    /\ UNCHANGED <<psQueue, psShut, mRun, mIsSending, psStop, psThread, psGuis, psPushed, psShown>>

Sender == FirstConnect \/ DoAutoExec \/ SendWait \/ SendLoop \/ RetryConnect \/ PopMessage \/ SendMessage

ProgressNext == Progress \/ StopSending \/ JoinSender \/ Sender \/ GuiStarts \/ GuiEnds

\* The thread runs and its timed waits end.
ProgressFairness == WF_progressVars(Sender) /\ WF_progressVars(JoinSender)

-----------------------------------------------------------------------------
(* Properties. *)

\* stopSending returns from wherever the thread is: connecting, waiting for its
\* next try, waiting in pop for a message or sending one.
ProgressStops == psStop = "joining" ~> psStop = "returned"
=============================================================================
