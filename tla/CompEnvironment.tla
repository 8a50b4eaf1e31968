---------------------------- MODULE CompEnvironment ----------------------------
(***************************************************************************)
(* A computation process: ExecComp::run and CompEnvironmentImpl            *)
(* (computation_impl) around a MessageDispatcher.  The main thread sets    *)
(* the computation up, waits for the node's "go", dispatches until the     *)
(* dispatcher exits and tears everything down.  Control messages ("go",    *)
(* "stop", "abort", "update") are taken out of the incoming stream by      *)
(* ControlMessageEndpoint and acted on in the incoming thread.             *)
(* PerformanceMonitor runs in a thread of its own and sends heartbeats.    *)
(*                                                                         *)
(* "update" replaces the routing table, which this module does not hold.   *)
(* Of the outgoing messages only "ready" is tracked: heartbeats and what   *)
(* the computation sends are further calls of MessageDispatcher's Send,    *)
(* whose stream is checked there; nothing here depends on them.            *)
(***************************************************************************)
EXTENDS MessageDispatcher

CONSTANT MaxControl   \* bound: control messages the node sends

ASSUME MaxControlAssumption == MaxControl \in Nat

VARIABLES
    main,           \* where the main thread is
    mGo,            \* the flag waitForGoSignal waits for
    monitor,        \* where the PerformanceMonitor thread is
    mRun,           \* PerformanceMonitor::mRun
    startException, stopException,  \* locals of runComputation
    exitCode,       \* what ExecComp::run returns
    controls,       \* control messages received so far
    stopRequested   \* history: a "stop" or "abort" was received

compVars == <<main, mGo, monitor, mRun, startException, stopException, exitCode,
              controls, stopRequested>>
allVars == <<vars, compVars>>

NoCode == "none"
ExitCodes == {"NORMAL", "DISCONNECTED", "INTERNAL_ERROR", "COMPUTATION_GO_TIMEOUT",
              "EXCEPTION_CAUGHT", "INVALID_CONFIG_DATA", "INITIALIZATION_FAILED",
              "COMPUTATION_LOAD_ERROR"}

CompInit ==
    /\ Init
    /\ main = "load" /\ mGo = FALSE
    /\ monitor = "none" /\ mRun = FALSE
    /\ startException = FALSE /\ stopException = FALSE
    /\ exitCode = NoCode /\ controls = 0 /\ stopRequested = FALSE

\* The process is gone once the main thread has returned from main or aborted.
Running == main \notin {"returned", "aborted"}

------------------------------------------------------------------------------
\* ExecComp::run, up to runComputation.

\* Reading the configuration, loading the dso and setting the routing either
\* succeed or end the process with the code of what went wrong.
Load ==
    /\ main = "load"
    /\ \/ main' = "initialize" /\ UNCHANGED exitCode
       \/ /\ main' = "returned"
          /\ exitCode' \in {"INVALID_CONFIG_DATA", "COMPUTATION_LOAD_ERROR", "EXCEPTION_CAUGHT"}
    /\ UNCHANGED <<vars, mGo, monitor, mRun, startException, stopException, controls, stopRequested>>

\* initializeComputation, then connectToServer: configure("initialize") may
\* answer Invalid, and it or the connection may throw.
Initialize ==
    /\ main = "initialize"
    /\ \/ main' = "launch" /\ UNCHANGED exitCode
       \/ /\ main' = "returned"
          /\ exitCode' \in {"INITIALIZATION_FAILED", "EXCEPTION_CAUGHT"}
    /\ UNCHANGED <<vars, mGo, monitor, mRun, startException, stopException, controls, stopRequested>>

------------------------------------------------------------------------------
\* CompEnvironmentImpl::runComputation

\* mGo is cleared and the performance monitor's thread is created; when that
\* thread first runs is up to the scheduler.
Launch ==
    /\ main = "launch"
    /\ mGo' = FALSE
    /\ monitor' = "created"
    /\ main' = "queue"
    /\ UNCHANGED <<vars, mRun, startException, stopException, exitCode, controls, stopRequested>>

RunQueueing ==
    /\ main = "queue"
    /\ StartQueueing
    /\ main' = "ready"
    /\ UNCHANGED <<mGo, monitor, mRun, startException, stopException, exitCode, controls, stopRequested>>

\* The "ready" message goes on the outgoing queue (send returns false, which is
\* ignored, if the dispatcher is already on its way out).
SendReady ==
    /\ main = "ready"
    /\ Send \/ (outShutdown /\ UNCHANGED vars)
    /\ main' = "waitGo"
    /\ UNCHANGED <<mGo, monitor, mRun, startException, stopException, exitCode, controls, stopRequested>>

\* waitForGoSignal returns None.
GoReceived ==
    /\ main = "waitGo"
    /\ mGo
    /\ main' = "start"
    /\ UNCHANGED <<vars, mGo, monitor, mRun, startException, stopException, exitCode, controls, stopRequested>>

\* waitForGoSignal times out: runComputation returns while monitorThread is
\* joinable, and the destructor of a joinable std::thread calls terminate.
GoTimeout ==
    /\ main = "waitGo"
    /\ main' = "aborted"
    /\ UNCHANGED <<vars, mGo, monitor, mRun, startException, stopException, exitCode, controls, stopRequested>>

\* configure("start"): an exception makes the run quit without dispatching.
ConfigureStart ==
    /\ main = "start"
    /\ \/ main' = "dispatch" /\ UNCHANGED startException
       \/ main' = "quit" /\ startException' = TRUE
    /\ UNCHANGED <<vars, mGo, monitor, mRun, stopException, exitCode, controls, stopRequested>>

\* startDispatching, whose logic_error (the dispatcher is no longer queueing,
\* because it was stopped or failed before "go") is caught and ignored.
RunDispatching ==
    /\ main = "dispatch"
    /\ \/ StartDispatching
       \/ mState # "Queueing" /\ MutexFree /\ UNCHANGED vars
    /\ main' = "waitExit"
    /\ UNCHANGED <<mGo, monitor, mRun, startException, stopException, exitCode, controls, stopRequested>>

\* postQuit after an exception in configure("start").
RunQuit ==
    /\ main = "quit"
    /\ \/ PostQuit
       \/ mState \in {"Exiting", "Exited"} /\ MutexFree /\ UNCHANGED vars
    /\ main' = "waitExit"
    /\ UNCHANGED <<mGo, monitor, mRun, startException, stopException, exitCode, controls, stopRequested>>

\* MUTANT of WaitForExit: the wait ends when the exit has been requested.
WaitForExitRequest ==
    /\ main = "waitExit"
    /\ mState \in {"Exiting", "Exited"}
    /\ main' = IF startException THEN "stopMonitor" ELSE "stop"
    /\ UNCHANGED <<vars, mGo, monitor, mRun, startException, stopException, exitCode, controls, stopRequested>>

\* waitForExit joins the master thread.
WaitForExit ==
    /\ main = "waitExit"
    /\ master = "exited"
    /\ main' = IF startException THEN "stopMonitor" ELSE "stop"
    /\ UNCHANGED <<vars, mGo, monitor, mRun, startException, stopException, exitCode, controls, stopRequested>>

\* configure("stop"), which may throw.
ConfigureStop ==
    /\ main = "stop"
    /\ main' = "stopMonitor"
    /\ stopException' \in BOOLEAN
    /\ UNCHANGED <<vars, mGo, monitor, mRun, startException, exitCode, controls, stopRequested>>

\* PerformanceMonitor::stop
StopMonitor ==
    /\ main = "stopMonitor"
    /\ mRun' = FALSE
    /\ main' = "joinMonitor"
    /\ UNCHANGED <<vars, mGo, monitor, startException, stopException, exitCode, controls, stopRequested>>

\* The exit code ExecComp::run makes of the dispatcher's exit reason.
ExitCodeOf(reason) ==
    CASE reason = "Quit"         -> "NORMAL"
      [] reason = "Disconnected" -> "DISCONNECTED"
      [] OTHER                   -> "INTERNAL_ERROR"

\* MUTANT of ReturnCode: an exception in configure("start") is reported as a normal exit.
ReturnCodeOfReason == IF stopException THEN "EXCEPTION_CAUGHT" ELSE ExitCodeOf(mExitReason)

\* What runComputation returns, as an exit code.
ReturnCode ==
    IF startException \/ stopException THEN "EXCEPTION_CAUGHT" ELSE ExitCodeOf(mExitReason)

\* The monitor thread is joined and run returns.
Return ==
    /\ main = "joinMonitor"
    /\ monitor = "done"
    /\ exitCode' = ReturnCode
    /\ main' = "returned"
    /\ UNCHANGED <<vars, mGo, monitor, mRun, startException, stopException, controls, stopRequested>>

------------------------------------------------------------------------------
\* PerformanceMonitor::run

\* The thread runs for the first time and sets mRun, whatever it was.
MonitorRun ==
    /\ Running
    /\ monitor = "created"
    /\ mRun' = TRUE
    /\ monitor' = "running"
    /\ UNCHANGED <<vars, main, mGo, startException, stopException, exitCode, controls, stopRequested>>

\* The loop sends a heartbeat (not tracked), waits until 5 seconds have passed
\* or mRun is false, and leaves in the latter case.
MonitorStopped ==
    /\ Running
    /\ monitor = "running"
    /\ ~mRun
    /\ monitor' = "done"
    /\ UNCHANGED <<vars, main, mGo, mRun, startException, stopException, exitCode, controls, stopRequested>>

------------------------------------------------------------------------------
\* ControlMessageEndpoint and CompEnvironmentImpl::controlMessage, in the
\* incoming thread.

ControlReceived ==
    /\ Running
    /\ incoming = "reading"
    /\ peerOpen
    /\ controls < MaxControl
    /\ controls' = controls + 1

\* "go": signalGo.  "update" takes the same way through the endpoint and
\* leaves this module's state alone.
ControlGo ==
    /\ ControlReceived
    /\ mGo' \in {TRUE, mGo}
    /\ incoming' = "get"
    /\ UNCHANGED <<stateVars, queueVars, sourceVars, master, inMsg, inReason, outVars, hVars, history,
                   main, monitor, mRun, startException, stopException, exitCode, stopRequested>>

\* MUTANT of ControlStop: the waiting main thread is not released.
ControlStopNoGo ==
    /\ ControlReceived
    /\ incoming' = "control"
    /\ stopRequested' = TRUE
    /\ UNCHANGED <<stateVars, queueVars, sourceVars, master, inMsg, inReason, outVars, hVars, history,
                   main, mGo, monitor, mRun, startException, stopException, exitCode>>

\* "stop" and "abort": signalStop first calls signalGo ...
ControlStop ==
    /\ ControlReceived
    /\ mGo' = TRUE
    /\ incoming' = "control"
    /\ stopRequested' = TRUE
    /\ UNCHANGED <<stateVars, queueVars, sourceVars, master, inMsg, inReason, outVars, hVars, history,
                   main, monitor, mRun, startException, stopException, exitCode>>

\* ... then postQuit, which does nothing if the dispatcher is already exiting.
ControlStopQuit ==
    /\ Running
    /\ incoming = "control"
    /\ MutexFree
    /\ IF mState \in {"Exiting", "Exited"}
       THEN UNCHANGED <<stateVars, happened>>
       ELSE /\ mExitReason' = "Quit" /\ mState' = "Exiting"
            /\ happened' = happened \cup {"Quit"}
    /\ incoming' = "get"
    /\ UNCHANGED <<queueVars, sourceVars, master, inMsg, inReason, outVars, hVars,
                   received, handled, accepted, written, observed, errors, compVars>>

------------------------------------------------------------------------------
MainStep == \/ Load \/ Initialize \/ Launch \/ RunQueueing \/ SendReady \/ GoReceived
            \/ ConfigureStart \/ RunDispatching \/ RunQuit \/ WaitForExit \/ ConfigureStop
            \/ StopMonitor \/ Return
MonitorStep == MonitorRun \/ MonitorStopped

\* The dispatcher's threads and what surrounds them run as they do by themselves.
WithinRun(A) == Running /\ A /\ UNCHANGED compVars

CompNext ==
    \/ MainStep \/ GoTimeout
    \/ MonitorStep
    \/ ControlGo \/ ControlStop \/ ControlStopQuit
    \/ WithinRun(IncomingStep) \/ WithinRun(OutgoingStep)
    \/ WithinRun(HandlerStep) \/ WithinRun(MasterStep)
    \/ WithinRun(Environment)

CompSpec == CompInit /\ [][CompNext]_allVars

\* The threads of the process are scheduled, and callbacks return.
CompFairSpec ==
    /\ CompSpec
    /\ WF_allVars(MainStep)
    /\ WF_allVars(MonitorStep)
    /\ WF_allVars(ControlStopQuit)
    /\ WF_allVars(WithinRun(IncomingStep))
    /\ WF_allVars(WithinRun(OutgoingStep))
    /\ WF_allVars(WithinRun(HandlerStep))
    /\ WF_allVars(WithinRun(MasterStep))

------------------------------------------------------------------------------
\* Types; the process has an exit code exactly when it has returned.
CompTypeOK ==
    /\ TypeOK
    /\ main \in {"load", "initialize", "launch", "queue", "ready", "waitGo", "start", "dispatch",
                 "quit", "waitExit", "stop", "stopMonitor", "joinMonitor", "returned", "aborted"}
    /\ monitor \in {"none", "created", "running", "done"}
    /\ {mGo, mRun, startException, stopException, stopRequested} \subseteq BOOLEAN
    /\ exitCode \in ExitCodes \cup {NoCode}
    /\ (exitCode # NoCode) <=> (main = "returned")
    /\ controls \in 0 .. MaxControl

\* The computation's callbacks never overlap: configure("start") has returned
\* before the first message or idle call, and configure("stop") is not called
\* before the last one has returned.
CallbacksDoNotOverlap ==
    handler \in {"handling", "idling"} => main = "waitExit"

\* The process claims a normal exit only if the node asked it to stop: an
\* exception in a callback, a lost connection or a bad message never ends as
\* NORMAL, although the first of these also goes through postQuit.
NormalOnlyIfStopped == exitCode = "NORMAL" => stopRequested

\* "stop" or "abort", received at any time, gets the main thread past waitForExit
\* to the end of the run, even if "go" was never received; it may still wait
\* for the performance monitor there, or have given up waiting for "go".
StopEndsDispatching ==
    stopRequested ~> (main \in {"joinMonitor", "returned", "aborted"})

===============================================================================
