---------------------------- MODULE ProcessManager ----------------------------
(***************************************************************************)
(* Process and ProcessManager (core_impl/lib/execute): operating system    *)
(* processes started, stopped, waited for and reaped by several threads.   *)
(*   - callers run spawn, terminate, waitForExit, reset and removeProcess; *)
(*   - the exit monitor polls every known pid with waitpid;                *)
(*   - each terminated Process has a termination thread that escalates     *)
(*     from a polite request over SIGTERM to SIGKILL.                      *)
(* Two kinds of mutex are modelled: stateLock[p] is p's mStateMutex,       *)
(* processesLock is mProcessesMutex.  A critical section that takes no     *)
(* other lock and does not wait is one step and only needs its lock free;  *)
(* the sections of spawn and handleChildExit that nest locks are held.     *)
(*                                                                         *)
(* Memory is reserved per process (MemoryTracking, unsigned arithmetic).   *)
(* Memory loans (mLoanMemory) and control groups are off, as they are by   *)
(* default and in the client.  pid reuse is left out: pids are fresh.      *)
(***************************************************************************)
EXTENDS Integers, FiniteSets, FiniteSetsExt

CONSTANTS
    Procs,          \* the Process objects
    Callers,        \* threads that use the library
    NoOne,          \* no process, no lock holder
    Available,      \* MemoryTracking::mAvailableMb
    AssignedMb,     \* SpawnArgs::assignedMb, the same for every process
    Modulus,        \* unsigned int arithmetic is modulo this
    QuietReset,     \* environment: reset is only called on a quiet process
    MaxForks,       \* bound: successful forks
    MaxCalls        \* bound: calls of the library

ASSUME ProcessAssumption ==
    /\ IsFiniteSet(Procs) /\ NoOne \notin Procs \cup Callers
    /\ Available \in Nat /\ AssignedMb \in Nat /\ Modulus \in Nat
    /\ AssignedMb > 0 /\ Modulus > Available + AssignedMb
    /\ QuietReset \in BOOLEAN /\ MaxForks \in Nat /\ MaxCalls \in Nat

Pids == 1..MaxForks

VARIABLES
    mState, mPid, mStatus, mReservedMb,     \* members of each Process
    term,           \* each mTerminationThread: "none" is not joinable
    stateLock,      \* who holds each mStateMutex across steps
    processesLock,  \* the process for which the exit monitor holds mProcessesMutex
    mProcesses,     \* processes the manager knows
    mPidToProcess,  \* pid -> process, NoOne where there is no entry
    mMemory,        \* MemoryTracking::mReservedMb
    child,          \* what the operating system knows of each pid
    call,           \* what each caller is doing
    asleep,         \* callers blocked on mExitCondition
    monitor, exited,    \* the exit monitor and the pid it is handling
    calls,          \* calls made so far
    broken          \* history: what must not happen, and did

processVars == <<mState, mPid, mStatus, mReservedMb>>
managerVars == <<mProcesses, mPidToProcess, mMemory>>
monitorVars == <<monitor, exited>>
callerVars == <<call, asleep, calls>>
vars == <<processVars, term, stateLock, processesLock, managerVars, child,
          callerVars, monitorVars, broken>>

States == {"NotSpawned", "Spawned", "Terminating", "Terminated"}
Statuses == {"UNKNOWN", "Exit", "FORK_FAILED", "NOT_SPAWNED", "UNINTERRUPTABLE"}
Idle == [op |-> "idle", at |-> "idle", proc |-> NoOne, fast |-> FALSE, rest |-> 0]

Init ==
    /\ mState = [p \in Procs |-> "NotSpawned"] /\ mPid = [p \in Procs |-> 0]
    /\ mStatus = [p \in Procs |-> "UNKNOWN"] /\ mReservedMb = [p \in Procs |-> 0]
    /\ term = [p \in Procs |-> "none"]
    /\ stateLock = [p \in Procs |-> NoOne] /\ processesLock = NoOne
    /\ mProcesses = Procs /\ mPidToProcess = [pid \in Pids |-> NoOne]
    /\ mMemory = 0
    /\ child = [pid \in Pids |-> "none"]
    /\ call = [c \in Callers |-> Idle] /\ asleep = {} /\ calls = 0
    /\ monitor = "poll" /\ exited = 0
    /\ broken = {}

StateFree(p) == stateLock[p] = NoOne
ProcessesFree == processesLock = NoOne

\* The environment's side of QuietReset: nothing else is under way on p, its
\* last child has been reaped, and nobody uses p until reset has returned.
Quiet(p) ==
    /\ p \in mProcesses
    /\ \A c \in Callers : call[c].proc # p
    /\ \A pid \in Pids : mPidToProcess[pid] # p
    /\ processesLock # p
    /\ term[p] \in {"none", "done"}

\* A caller begins a call on p, moves on inside it, or returns from it.
Begin(c, p) ==
    /\ call[c] = Idle
    /\ calls < MaxCalls /\ calls' = calls + 1
    /\ QuietReset => \A d \in Callers : call[d].op = "reset" => call[d].proc # p
At(c, op, at) == call[c].op = op /\ call[c].at = at
Goto(c, at) == call' = [call EXCEPT ![c].at = at]
Return(c) == call' = [call EXCEPT ![c] = Idle]

\* notify_all on p's mExitCondition.
Woken(p) == {c \in asleep : call[c].proc = p}

------------------------------------------------------------------------------
\* MemoryTracking and the ends of a process

Fits(amount) == mMemory + amount <= Available
Deficit(amount) == (amount - (Available - mMemory)) % Modulus

\* releaseMemory: what the process holds, then its record of it.
ReleaseMemory(p) ==
    /\ mMemory' = (mMemory - mReservedMb[p]) % Modulus
    /\ mReservedMb' = [mReservedMb EXCEPT ![p] = 0]

\* Process::terminated_internal: state lock held by the caller, no exit_cb.
TerminatedInternal(p, status) ==
    /\ IF mState[p] # "Terminated"
       THEN /\ mStatus' = [mStatus EXCEPT ![p] = status]
            /\ mState' = [mState EXCEPT ![p] = "Terminated"]
            /\ mPid' = [mPid EXCEPT ![p] = 0]
       ELSE UNCHANGED <<mStatus, mState, mPid>>
    /\ asleep' = asleep \ Woken(p)

------------------------------------------------------------------------------
\* Process::spawn

\* The early returns (Achieved, Invalid) and the failure to create a pipe.
SpawnRefused(c, p) ==
    /\ Begin(c, p) /\ StateFree(p)
    /\ mState[p] # "NotSpawned"
    /\ UNCHANGED <<processVars, term, stateLock, processesLock, managerVars, child,
                   call, asleep, monitorVars, broken>>

SpawnPipeFails(c, p) ==
    /\ Begin(c, p) /\ StateFree(p)
    /\ mState[p] = "NotSpawned"
    /\ TerminatedInternal(p, "FORK_FAILED")
    /\ UNCHANGED <<mReservedMb, term, stateLock, processesLock, managerVars, child,
                   call, monitorVars, broken>>

\* preFork_cb -> reserveMemory, first attempt.  The state lock stays held.
SpawnReserve(c, p) ==
    /\ Begin(c, p) /\ StateFree(p)
    /\ mState[p] = "NotSpawned"
    /\ stateLock' = [stateLock EXCEPT ![p] = c]
    /\ \/ /\ Fits(AssignedMb)
          /\ mMemory' = mMemory + AssignedMb
          /\ mReservedMb' = [mReservedMb EXCEPT ![p] = AssignedMb]
          /\ call' = [call EXCEPT ![c] = [Idle EXCEPT !.op = "spawn", !.at = "fork", !.proc = p]]
       \/ /\ ~Fits(AssignedMb)
          /\ call' = [call EXCEPT ![c] = [Idle EXCEPT !.op = "spawn", !.at = "rest", !.proc = p,
                                            !.rest = (AssignedMb - Deficit(AssignedMb)) % Modulus]]
          /\ UNCHANGED <<mMemory, mReservedMb>>
    /\ UNCHANGED <<mState, mPid, mStatus, term, processesLock, mProcesses, mPidToProcess,
                   child, asleep, monitorVars, broken>>

\* The second attempt, for what was left; its result is not looked at.
SpawnReserveRest(c) ==
    LET p == call[c].proc  rest == call[c].rest IN
    /\ At(c, "spawn", "rest")
    /\ mMemory' = IF Fits(rest) THEN mMemory + rest ELSE mMemory
    /\ mReservedMb' = [mReservedMb EXCEPT ![p] = rest]
    /\ Goto(c, "fork")
    /\ UNCHANGED <<mState, mPid, mStatus, term, stateLock, processesLock, mProcesses,
                   mPidToProcess, child, asleep, calls, monitorVars, broken>>

SpawnForkFails(c) ==
    LET p == call[c].proc IN
    /\ At(c, "spawn", "fork")
    /\ TerminatedInternal(p, "FORK_FAILED")
    /\ ReleaseMemory(p)
    /\ stateLock' = [stateLock EXCEPT ![p] = NoOne]
    /\ Return(c)
    /\ UNCHANGED <<term, processesLock, mProcesses, mPidToProcess, child, calls, monitorVars, broken>>

\* fork succeeds: from here on the child runs, and may exit at once.
SpawnFork(c) ==
    LET p == call[c].proc IN
    /\ At(c, "spawn", "fork")
    /\ \E pid \in Pids :
         /\ child[pid] = "none" /\ \A q \in Pids : q < pid => child[q] # "none"
         /\ child' = [child EXCEPT ![pid] = "running"]
         /\ mPid' = [mPid EXCEPT ![p] = pid]
    /\ mState' = [mState EXCEPT ![p] = "Spawned"]
    /\ Goto(c, "postFork")
    /\ UNCHANGED <<mStatus, mReservedMb, term, stateLock, processesLock, managerVars, asleep,
                   calls, monitorVars, broken>>

\* Mutant: the pid is not recorded.
SpawnPostForkUnrecorded(c) ==
    /\ At(c, "spawn", "postFork") /\ ProcessesFree
    /\ stateLock' = [stateLock EXCEPT ![call[c].proc] = NoOne]
    /\ Return(c)
    /\ UNCHANGED <<processVars, term, processesLock, managerVars, child, asleep,
                   calls, monitorVars, broken>>

\* postFork_cb takes mProcessesMutex while spawn holds the state mutex.
SpawnPostFork(c) ==
    LET p == call[c].proc IN
    /\ At(c, "spawn", "postFork") /\ ProcessesFree
    /\ mPidToProcess' = IF p \in mProcesses THEN [mPidToProcess EXCEPT ![mPid[p]] = p]
                                            ELSE mPidToProcess
    /\ stateLock' = [stateLock EXCEPT ![p] = NoOne]
    /\ Return(c)
    /\ UNCHANGED <<processVars, term, processesLock, mProcesses, mMemory, child, asleep,
                   calls, monitorVars, broken>>

------------------------------------------------------------------------------
\* Process::terminate and the termination thread

\* The part of terminate under the state lock; `next` is where the caller goes
\* when there is no thread to start.
TerminateLocked(c, p, fast, next) ==
    /\ StateFree(p)
    /\ \/ /\ mState[p] = "NotSpawned"
          /\ TerminatedInternal(p, "NOT_SPAWNED")
          /\ call' = [call EXCEPT ![c] = next]
       \/ /\ mState[p] \in {"Terminating", "Terminated"}
          /\ call' = [call EXCEPT ![c] = next]
          /\ UNCHANGED <<mState, mPid, mStatus, asleep>>
       \/ /\ mState[p] = "Spawned"
          /\ mState' = [mState EXCEPT ![p] = "Terminating"]
          /\ call' = [call EXCEPT ![c] = [@ EXCEPT !.op = IF next = Idle THEN "terminate" ELSE "remove",
                                            !.at = "assign", !.proc = p, !.fast = fast]]
          /\ UNCHANGED <<mPid, mStatus, asleep>>

Terminate(c, p, fast) ==
    /\ Begin(c, p)
    /\ TerminateLocked(c, p, fast, Idle)
    /\ UNCHANGED <<mReservedMb, term, stateLock, processesLock, managerVars, child,
                   monitorVars, broken>>

\* The thread is assigned after the lock was released.  Assigning over a thread
\* that is joinable ends the program (std::terminate).
StartTerminationThread(c) ==
    LET p == call[c].proc IN
    /\ call[c].at = "assign"
    /\ IF term[p] = "none"
       THEN /\ term' = [term EXCEPT ![p] = IF call[c].fast THEN "fast" ELSE "nice"]
            /\ UNCHANGED broken
       ELSE broken' = broken \cup {"std::terminate"} /\ UNCHANGED term
    /\ IF call[c].op = "remove" THEN Goto(c, "wait") ELSE Return(c)
    /\ UNCHANGED <<processVars, stateLock, processesLock, managerVars, child, asleep, calls,
                   monitorVars>>

\* kill(-mPid, signum), which is the library's own process group if mPid is 0.
SignalGroup(p) == broken' = IF mPid[p] = 0 THEN broken \cup {"own group signalled"} ELSE broken

\* What terminationProc does next: wait for the exit, which is immediate when
\* the process is known to be gone.
AwaitExit(p, at) == term' = [term EXCEPT ![p] = IF mState[p] = "Terminated" THEN "done" ELSE at]

TermStart(p) ==
    /\ term[p] \in {"fast", "nice"} /\ StateFree(p)
    /\ \/ /\ mState[p] # "Terminating" \/ mPid[p] = 0
          /\ term' = [term EXCEPT ![p] = "done"] /\ UNCHANGED broken
       \/ /\ mState[p] = "Terminating" /\ mPid[p] # 0
          /\ IF term[p] = "fast"
             THEN SignalGroup(p) /\ AwaitExit(p, "killWait")
             ELSE \/ AwaitExit(p, "stopWait") /\ UNCHANGED broken  \* controlledStop sent
                  \/ SignalGroup(p) /\ AwaitExit(p, "termWait")    \* it could not be
    /\ UNCHANGED <<processVars, stateLock, processesLock, managerVars, child, callerVars, monitorVars>>

\* A wait ends because the exit was seen.
TermExitSeen(p) ==
    /\ term[p] \in {"stopWait", "termWait", "killWait"} /\ StateFree(p)
    /\ mState[p] = "Terminated"
    /\ term' = [term EXCEPT ![p] = "done"]
    /\ UNCHANGED <<processVars, stateLock, processesLock, managerVars, child, callerVars,
                   monitorVars, broken>>

\* Mutant: what gives up on the process gives up its memory too.
TermTimeoutReleases(p) ==
    /\ StateFree(p) /\ term[p] = "killWait"
    /\ TerminatedInternal(p, "UNINTERRUPTABLE")
    /\ ReleaseMemory(p)
    /\ term' = [term EXCEPT ![p] = "done"]
    /\ UNCHANGED <<stateLock, processesLock, mProcesses, mPidToProcess, child, call, calls,
                   monitorVars, broken>>

\* A wait times out and the next measure is taken, whatever the state is by
\* now: waitUntilExit_wlock does not look again.
TermTimeout(p) ==
    /\ StateFree(p)
    /\ \/ /\ term[p] = "stopWait"
          /\ SignalGroup(p) /\ AwaitExit(p, "termWait")
          /\ UNCHANGED <<mState, mPid, mStatus, asleep>>
       \/ /\ term[p] = "termWait"
          /\ SignalGroup(p) /\ AwaitExit(p, "killWait")
          /\ UNCHANGED <<mState, mPid, mStatus, asleep>>
       \/ /\ term[p] = "killWait"
          /\ TerminatedInternal(p, "UNINTERRUPTABLE")
          /\ term' = [term EXCEPT ![p] = "done"] /\ UNCHANGED broken
    /\ UNCHANGED <<mReservedMb, stateLock, processesLock, managerVars, child, call, calls, monitorVars>>

------------------------------------------------------------------------------
\* waitForExit, reset and removeProcess

WaitForExit(c, p) ==
    /\ Begin(c, p)
    /\ call' = [call EXCEPT ![c] = [Idle EXCEPT !.op = "wait", !.at = "wait", !.proc = p]]
    /\ UNCHANGED <<processVars, term, stateLock, processesLock, managerVars, child, asleep,
                   monitorVars, broken>>

\* waitForExit_wlock: the test, and the block on mExitCondition.
WaitTest(c) ==
    LET p == call[c].proc IN
    /\ call[c].at = "wait" /\ c \notin asleep /\ StateFree(p)
    /\ \/ /\ mState[p] = "Terminated"
          /\ IF call[c].op = "remove" THEN Goto(c, "erase") ELSE Return(c)
          /\ UNCHANGED asleep
       \/ /\ mState[p] # "Terminated"
          /\ asleep' = asleep \cup {c}
          /\ UNCHANGED call
    /\ UNCHANGED <<processVars, term, stateLock, processesLock, managerVars, child, calls,
                   monitorVars, broken>>

\* The forms with a timeout give up; removeProcess waits without one.
WaitTimeout(c) ==
    /\ At(c, "wait", "wait") /\ c \in asleep /\ StateFree(call[c].proc)
    /\ asleep' = asleep \ {c}
    /\ Return(c)
    /\ UNCHANGED <<processVars, term, stateLock, processesLock, managerVars, child, calls,
                   monitorVars, broken>>

\* reset tests the state, releases the lock, joins the termination thread and
\* then moves to NotSpawned without testing again.
Reset(c, p) ==
    /\ Begin(c, p) /\ StateFree(p)
    /\ QuietReset => Quiet(p)
    /\ call' = IF mState[p] = "Terminated"
               THEN [call EXCEPT ![c] = [Idle EXCEPT !.op = "reset", !.at = "join", !.proc = p]]
               ELSE call
    /\ UNCHANGED <<processVars, term, stateLock, processesLock, managerVars, child, asleep,
                   monitorVars, broken>>

ResetJoin(c) ==
    LET p == call[c].proc IN
    /\ At(c, "reset", "join")
    /\ term[p] \in {"none", "done"}
    /\ term' = [term EXCEPT ![p] = "none"]
    /\ Goto(c, "set")
    /\ UNCHANGED <<processVars, stateLock, processesLock, managerVars, child, asleep, calls,
                   monitorVars, broken>>

ResetSet(c) ==
    LET p == call[c].proc IN
    /\ At(c, "reset", "set") /\ StateFree(p)
    /\ mState' = [mState EXCEPT ![p] = "NotSpawned"]
    /\ Return(c)
    /\ UNCHANGED <<mPid, mStatus, mReservedMb, term, stateLock, processesLock, managerVars,
                   child, asleep, calls, monitorVars, broken>>

\* removeProcess finds the process, terminates it fast, waits for its exit
\* (WaitTest) and takes it out of the map.
RemoveProcess(c, p) ==
    /\ Begin(c, p) /\ ProcessesFree
    /\ call' = IF p \in mProcesses
               THEN [call EXCEPT ![c] = [Idle EXCEPT !.op = "remove", !.at = "terminate", !.proc = p]]
               ELSE call
    /\ UNCHANGED <<processVars, term, stateLock, processesLock, managerVars, child, asleep,
                   monitorVars, broken>>

RemoveTerminate(c) ==
    /\ At(c, "remove", "terminate")
    /\ TerminateLocked(c, call[c].proc, TRUE, [call[c] EXCEPT !.at = "wait"])
    /\ UNCHANGED <<mReservedMb, term, stateLock, processesLock, managerVars, child, calls,
                   monitorVars, broken>>

RemoveErase(c) ==
    /\ At(c, "remove", "erase") /\ ProcessesFree
    /\ mProcesses' = mProcesses \ {call[c].proc}
    /\ Return(c)
    /\ UNCHANGED <<processVars, term, stateLock, processesLock, mPidToProcess, mMemory, child,
                   asleep, calls, monitorVars, broken>>

------------------------------------------------------------------------------
\* ProcessManager::exitMonitorProc and handleChildExit

\* Mutant: only processes that have not been removed are polled.
ExitMonitorOfManaged ==
    /\ monitor = "poll"
    /\ \E pid \in Pids :
         /\ mPidToProcess[pid] \in mProcesses /\ child[pid] = "zombie"
         /\ child' = [child EXCEPT ![pid] = "reaped"]
         /\ exited' = pid
    /\ monitor' = "handle"
    /\ UNCHANGED <<processVars, term, stateLock, processesLock, managerVars, callerVars, broken>>

\* One round of the poll finds an exited child (waitpid with WNOHANG collects
\* it).  Only the monitor takes pids out of the map, so polling the map itself
\* finds what polling a copy of it over several rounds does, and a polled pid
\* is always managed.
ExitMonitor ==
    /\ monitor = "poll"
    /\ \E pid \in Pids :
         /\ mPidToProcess[pid] # NoOne /\ child[pid] = "zombie"
         /\ child' = [child EXCEPT ![pid] = "reaped"]
         /\ exited' = pid
    /\ monitor' = "handle"
    /\ UNCHANGED <<processVars, term, stateLock, processesLock, managerVars, callerVars, broken>>

\* handleChildExit up to terminated(): exit_cb without the state lock, and the
\* pid leaves the map.  mProcessesMutex stays held.
HandleChildExit ==
    LET p == mPidToProcess[exited] IN
    /\ monitor = "handle" /\ ProcessesFree
    /\ ReleaseMemory(p)
    /\ mPidToProcess' = [mPidToProcess EXCEPT ![exited] = NoOne]
    /\ processesLock' = p
    /\ monitor' = "terminated"
    /\ UNCHANGED <<mState, mPid, mStatus, term, stateLock, mProcesses, child, callerVars, exited, broken>>

\* Process::terminated, under the state lock.
Terminated ==
    LET p == processesLock IN
    /\ monitor = "terminated" /\ StateFree(p)
    /\ IF mState[p] # "Terminated"
       THEN /\ mStatus' = [mStatus EXCEPT ![p] = "Exit"]
            /\ ReleaseMemory(p)
            /\ mState' = [mState EXCEPT ![p] = "Terminated"]
            /\ mPid' = [mPid EXCEPT ![p] = 0]
       ELSE UNCHANGED <<processVars, mMemory>>
    /\ monitor' = "notify"
    /\ UNCHANGED <<term, stateLock, processesLock, mProcesses, mPidToProcess, child, callerVars,
                   exited, broken>>

\* Mutant: the waiters are not notified.
TerminatedSilently ==
    /\ monitor = "notify"
    /\ processesLock' = NoOne
    /\ monitor' = "poll" /\ exited' = 0
    /\ UNCHANGED <<processVars, term, stateLock, managerVars, child, callerVars, broken>>

\* notify_all and the observer, then handleChildExit returns.
TerminatedNotify ==
    /\ monitor = "notify"
    /\ asleep' = asleep \ Woken(processesLock)
    /\ processesLock' = NoOne
    /\ monitor' = "poll" /\ exited' = 0
    /\ UNCHANGED <<processVars, term, stateLock, managerVars, child, call, calls, broken>>

\* External: the operating system process exits, whether asked to or not.
ChildExits(pid) ==
    /\ child[pid] = "running"
    /\ child' = [child EXCEPT ![pid] = "zombie"]
    /\ UNCHANGED <<processVars, term, stateLock, processesLock, managerVars, callerVars,
                   monitorVars, broken>>

------------------------------------------------------------------------------
CallerStep(c) ==
    \/ SpawnReserveRest(c) \/ SpawnForkFails(c) \/ SpawnFork(c) \/ SpawnPostFork(c)
    \/ StartTerminationThread(c) \/ WaitTest(c)
    \/ ResetJoin(c) \/ ResetSet(c)
    \/ RemoveTerminate(c) \/ RemoveErase(c)
TermStep(p) == TermStart(p) \/ TermExitSeen(p) \/ TermTimeout(p)
MonitorStep == ExitMonitor \/ HandleChildExit \/ Terminated \/ TerminatedNotify

Next ==
    \/ \E c \in Callers :
         \/ CallerStep(c) \/ WaitTimeout(c)
         \/ \E p \in Procs :
              \/ SpawnRefused(c, p) \/ SpawnPipeFails(c, p) \/ SpawnReserve(c, p)
              \/ \E fast \in BOOLEAN : Terminate(c, p, fast)
              \/ WaitForExit(c, p) \/ Reset(c, p) \/ RemoveProcess(c, p)
    \/ \E p \in Procs : TermStep(p)
    \/ MonitorStep
    \/ \E pid \in Pids : ChildExits(pid)

Spec == Init /\ [][Next]_vars

\* Threads that can run do run, and timed waits end.  Nothing is assumed of
\* the child processes or of when calls are made.
FairSpec ==
    /\ Spec
    /\ \A c \in Callers : WF_vars(CallerStep(c))
    /\ \A p \in Procs : WF_vars(TermStep(p))
    /\ WF_vars(MonitorStep)

------------------------------------------------------------------------------
\* Properties

Amounts == 0..(Modulus - 1)

\* Type invariant.  A process object has a pid exactly while it stands for an
\* operating system process (Process.h: "pid is now valid", "pid is invalid").
TypeOK ==
    /\ mState \in [Procs -> States]
    /\ mPid \in [Procs -> Pids \cup {0}]
    /\ mStatus \in [Procs -> Statuses]
    /\ mReservedMb \in [Procs -> Amounts] /\ mMemory \in Amounts
    /\ term \in [Procs -> {"none", "fast", "nice", "stopWait", "termWait", "killWait", "done"}]
    /\ stateLock \in [Procs -> Callers \cup {NoOne}]
    /\ processesLock \in Procs \cup {NoOne}
    /\ mProcesses \subseteq Procs
    /\ mPidToProcess \in [Pids -> Procs \cup {NoOne}]
    /\ child \in [Pids -> {"none", "running", "zombie", "reaped"}]
    /\ asleep \subseteq {c \in Callers : call[c].at = "wait"}
    /\ monitor \in {"poll", "handle", "terminated", "notify"} /\ exited \in Pids \cup {0}
    /\ \A p \in Procs : mPid[p] # 0 <=> mState[p] \in {"Spawned", "Terminating"}

\* A child that has not been collected is still known by pid, or spawn is about
\* to record it: whatever happens to the Process object meanwhile (terminate,
\* UNINTERRUPTABLE, removeProcess), its exit will be found by the exit monitor.
NoOrphans ==
    \A pid \in Pids :
        child[pid] \in {"running", "zombie"} =>
            \/ mPidToProcess[pid] \in Procs
            \/ \E p \in Procs : mPid[p] = pid /\ stateLock[p] # NoOne

\* Every process has at most one termination thread at a time: a second one
\* would be assigned over the first and end the program.
OneTerminationThread == "std::terminate" \notin broken

\* Every process is followed to its end, by the exit monitor and by at most one
\* termination thread.
ProcessesFollowed == NoOrphans /\ OneTerminationThread

\* The exit status is settled by whoever marks the process Terminated first: a
\* late exit after UNINTERRUPTABLE, or a timeout after the exit, leaves it.
StatusIsFinal ==
    [][\A p \in Procs : mState[p] = "Terminated" => mStatus'[p] = mStatus[p]
                                                    \/ mState'[p] # "Terminated"]_vars

\* A child's memory stays set aside for it until its exit has been collected,
\* also when the Process object was given up as UNINTERRUPTABLE or removed.
MemoryHeldUntilExit ==
    [][\A pid \in Pids :
         child[pid] \in {"running", "zombie"} /\ mPidToProcess[pid] # NoOne
           => mReservedMb'[mPidToProcess[pid]] = mReservedMb[mPidToProcess[pid]]]_vars

\* Every exit is noticed, also one that comes before spawn recorded the pid, and
\* what was said about an end is not taken back.
ExitIsNoticed ==
    /\ \A pid \in Pids : (child[pid] = "zombie") ~> (child[pid] = "reaped")
    /\ StatusIsFinal

\* removeProcess "may block for a while" but returns: terminate "will always
\* eventually achieve Terminated", even for a child that never reacts to any
\* signal, and whoever waits for it is woken.
RemoveReturns ==
    \A c \in Callers : (call[c].op = "remove") ~> (call[c].op # "remove")

==============================================================================
