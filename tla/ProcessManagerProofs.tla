------------------------- MODULE ProcessManagerProofs -------------------------
(***************************************************************************)
(* Every child process is followed to its end, for any number of           *)
(* processes, callers and children, if nobody resets a process that        *)
(* somebody else is using (QuietReset).                                    *)
(*                                                                         *)
(* The argument: while spawn holds the state lock nobody else changes the  *)
(* process; a process whose exit is not yet handled is never NotSpawned,   *)
(* so it is not spawned again; and only the caller that took it out of     *)
(* Spawned starts its termination thread.                                  *)
(***************************************************************************)
EXTENDS ProcessManager, TLAPS

\* Where a caller is inside each call.
CallRecord == [op : {"idle", "spawn", "terminate", "wait", "reset", "remove"},
               at : {"idle", "rest", "fork", "postFork", "assign", "wait", "join", "set",
                     "terminate", "erase"},
               proc : Procs \cup {NoOne}, fast : BOOLEAN, rest : Amounts]
Shaped(x) ==
    /\ x.op = "idle" => x.at = "idle"
    /\ x.op = "spawn" => x.at \in {"rest", "fork", "postFork"}
    /\ x.op = "terminate" => x.at = "assign"
    /\ x.op = "wait" => x.at = "wait"
    /\ x.op = "reset" => x.at \in {"join", "set"}
    /\ x.op = "remove" => x.at \in {"terminate", "assign", "wait", "erase"}
    /\ x.op # "idle" => x.proc \in Procs
CallShape == call \in [Callers -> CallRecord] /\ \A c \in Callers : Shaped(call[c])

\* Part of TypeOK: a process has a pid while it stands for a child.
PidWhileChild == \A p \in Procs : mPid[p] # 0 <=> mState[p] \in {"Spawned", "Terminating"}

\* Spawn holds the state lock, and nothing else holds it across steps.
LockHeld ==
    /\ \A c \in Callers : call[c].op = "spawn" => stateLock[call[c].proc] = c
    /\ \A p \in Procs : stateLock[p] # NoOne => call[stateLock[p]].op = "spawn" /\ call[stateLock[p]].proc = p

\* What spawn finds at each of its points.
SpawnPhase ==
    \A c \in Callers : call[c].op = "spawn" =>
        /\ call[c].at \in {"rest", "fork"} => mState[call[c].proc] = "NotSpawned"
        /\ call[c].at = "postFork" => /\ mState[call[c].proc] = "Spawned"
                                      /\ mPidToProcess[mPid[call[c].proc]] = NoOne

\* Nobody else is using a process that is being reset.
ResetAlone ==
    \A c \in Callers : call[c].op = "reset" =>
        /\ mState[call[c].proc] = "Terminated" /\ call[c].proc \in mProcesses
        /\ \A d \in Callers : call[d].proc = call[c].proc => d = c

\* A process that was removed, or is about to be, has ended.
RemovedHasEnded ==
    /\ \A p \in Procs : p \notin mProcesses => mState[p] = "Terminated"
    /\ \A c \in Callers : call[c].at = "erase" => mState[call[c].proc] = "Terminated"

\* The caller that made a process Terminating will start its only termination thread.
OneThread ==
    /\ \A p \in Procs : mState[p] \in {"NotSpawned", "Spawned"} => term[p] = "none"
    /\ \A c \in Callers : call[c].at = "assign" =>
         /\ mState[call[c].proc] \in {"Terminating", "Terminated"} /\ term[call[c].proc] = "none"
         /\ \A d \in Callers : call[d].at = "assign" /\ call[d].proc = call[c].proc => d = c
    /\ \A c \in Callers : call[c].op = "reset" /\ call[c].at = "set" => term[call[c].proc] = "none"

\* No two processes have the same pid.
PidsDiffer ==
    /\ \A p \in Procs : mPid[p] # 0 => child[mPid[p]] # "none"
    /\ \A p, q \in Procs : mPid[p] = mPid[q] /\ mPid[p] # 0 => p = q

\* A process the exit monitor has to deal with: its exit is still to come, or is
\* being handled.  It is not spawned or reset meanwhile.
Followed(p) == processesLock = p \/ \E pid \in Pids : mPidToProcess[pid] = p
FollowedIsKept ==
    \A p \in Procs : Followed(p) =>
        /\ stateLock[p] = NoOne /\ mState[p] # "NotSpawned"
        /\ \A c \in Callers : call[c].op = "reset" => call[c].proc # p

\* Every process is in the map once, and not while its exit is being handled.
MapIsInjective ==
    /\ \A a, b \in Pids : mPidToProcess[a] = mPidToProcess[b] /\ mPidToProcess[a] # NoOne => a = b
    /\ processesLock # NoOne => \A pid \in Pids : mPidToProcess[pid] # processesLock
    /\ \A pid \in Pids : mPidToProcess[pid] # NoOne => child[pid] # "none"

MonitorPhase ==
    /\ monitor = "handle" => exited \in Pids /\ mPidToProcess[exited] # NoOne /\ child[exited] = "reaped"
    /\ (processesLock # NoOne) <=> (monitor \in {"terminated", "notify"})

\* The inductive invariant.
ProcessInv ==
    /\ TypeOK /\ CallShape /\ LockHeld /\ SpawnPhase /\ ResetAlone
    /\ RemovedHasEnded /\ OneThread /\ PidsDiffer /\ FollowedIsKept /\ MapIsInjective /\ MonitorPhase
    /\ ProcessesFollowed

------------------------------------------------------------------------------
\* Arithmetic modulo the width of an unsigned int.
LEMMA ModIsAmount ==
    ASSUME NEW x \in Int
    PROVE  x % Modulus \in Amounts
  BY ProcessAssumption DEF Amounts

LEMMA ZeroIsNoPid == 0 \notin Pids /\ NoOne \notin Procs /\ NoOne \notin Callers
  BY ProcessAssumption DEF Pids

\* c is now at that point of a call on p, and no other caller has moved.
Moves(c, op, at, p) ==
    /\ call'[c].op = op /\ call'[c].at = at /\ call'[c].proc = p
    /\ \A d \in Callers : d # c => call'[d] = call[d]

LEMMA IdleIsRecord == Idle \in CallRecord /\ Idle.op = "idle" /\ Idle.at = "idle" /\ Idle.proc = NoOne
  BY ProcessAssumption DEF Idle, CallRecord, Amounts

LEMMA SetCall ==
    ASSUME CallShape, NEW c \in Callers, NEW x \in CallRecord, Shaped(x), call' = [call EXCEPT ![c] = x]
    PROVE  CallShape' /\ Moves(c, x.op, x.at, x.proc)
  <1>1. call'[c] = x /\ (\A d \in Callers : d # c => call'[d] = call[d]) /\ call' \in [Callers -> CallRecord]
    BY DEF CallShape
  <1>2. \A d \in Callers : Shaped(call'[d])
    BY <1>1, Zenon DEF CallShape
  <1> QED BY <1>1, <1>2, Zenon DEF CallShape, Moves

LEMMA ReturnMoves ==
    ASSUME CallShape, NEW c \in Callers, Return(c)
    PROVE  CallShape' /\ Moves(c, "idle", "idle", NoOne)
  <1>1. Shaped(Idle)
    BY IdleIsRecord DEF Shaped
  <1> QED BY <1>1, SetCall, IdleIsRecord DEF Return

LEMMA GotoMoves ==
    ASSUME CallShape, NEW c \in Callers, NEW at, Goto(c, at),
           \/ call[c].op = "spawn" /\ at \in {"fork", "postFork"}
           \/ call[c].op = "reset" /\ at = "set"
           \/ call[c].op = "remove" /\ at \in {"wait", "erase"}
    PROVE  CallShape' /\ Moves(c, call[c].op, at, call[c].proc)
  <1> DEFINE x == [call[c] EXCEPT !.at = at]
  <1>1. call' = [call EXCEPT ![c] = x]
    BY DEF Goto
  <1>2. call[c] \in CallRecord /\ Shaped(call[c])
    BY DEF CallShape
  <1>3. x \in CallRecord /\ x.op = call[c].op /\ x.at = at /\ x.proc = call[c].proc
    BY <1>2 DEF CallRecord
  <1>4. Shaped(x)
    BY <1>2, <1>3 DEF Shaped
  <1> HIDE DEF x
  <1>5. CallShape' /\ Moves(c, x.op, x.at, x.proc)
    BY <1>1, <1>3, <1>4, SetCall, Zenon
  <1> QED BY <1>3, <1>5

LEMMA EnterMoves ==
    ASSUME CallShape, NEW c \in Callers, NEW p \in Procs, NEW op, NEW at, NEW x \in CallRecord,
           \/ op = "spawn" /\ at \in {"fork", "rest"}
           \/ op = "wait" /\ at = "wait"
           \/ op = "reset" /\ at = "join"
           \/ op = "remove" /\ at = "terminate",
           x.op = op /\ x.at = at /\ x.proc = p,
           call' = [call EXCEPT ![c] = x]
    PROVE  CallShape' /\ Moves(c, op, at, p)
  <1>1. Shaped(x)
    BY DEF Shaped
  <1>2. CallShape' /\ Moves(c, x.op, x.at, x.proc)
    BY <1>1, SetCall, Zenon
  <1> QED BY <1>2

\* What begins a call was idle.
LEMMA BeginsIdle ==
    ASSUME CallShape, NEW c \in Callers, NEW p \in Procs, Begin(c, p)
    PROVE  /\ call[c].op = "idle" /\ call[c].at = "idle" /\ call[c].proc = NoOne
           /\ QuietReset => \A d \in Callers : call[d].op = "reset" => call[d].proc # p
  BY IdleIsRecord DEF Begin

\* Where each step of a caller leads.
LEMMA SpawnReserveMoves ==
    ASSUME TypeOK, CallShape, NEW c \in Callers, NEW p \in Procs, SpawnReserve(c, p)
    PROVE  CallShape' /\ (Moves(c, "spawn", "fork", p) \/ Moves(c, "spawn", "rest", p))
  <1>1. CASE call' = [call EXCEPT ![c] = [Idle EXCEPT !.op = "spawn", !.at = "fork", !.proc = p]]
    <2> DEFINE x == [Idle EXCEPT !.op = "spawn", !.at = "fork", !.proc = p]
    <2>1. call' = [call EXCEPT ![c] = x]
      BY <1>1
    <2>2. x \in CallRecord /\ x.op = "spawn" /\ x.at = "fork" /\ x.proc = p
      BY IdleIsRecord DEF CallRecord
    <2> HIDE DEF x
    <2> QED BY <2>1, <2>2, EnterMoves, Zenon
  <1>2. CASE ~(call' = [call EXCEPT ![c] = [Idle EXCEPT !.op = "spawn", !.at = "fork", !.proc = p]])
    <2> DEFINE x == [Idle EXCEPT !.op = "spawn", !.at = "rest", !.proc = p,
                                 !.rest = (AssignedMb - Deficit(AssignedMb)) % Modulus]
    <2>1. call' = [call EXCEPT ![c] = x]
      BY <1>2 DEF SpawnReserve
    <2>2. Deficit(AssignedMb) \in Amounts
      <3>1. AssignedMb - (Available - mMemory) \in Int
        BY ProcessAssumption DEF TypeOK, Amounts
      <3> QED BY <3>1, ModIsAmount, Zenon DEF Deficit
    <2>3. (AssignedMb - Deficit(AssignedMb)) % Modulus \in Amounts
      <3>1. AssignedMb - Deficit(AssignedMb) \in Int
        BY <2>2, ProcessAssumption DEF Amounts
      <3> QED BY <3>1, ModIsAmount, Zenon
    <2>5. x \in CallRecord /\ x.op = "spawn" /\ x.at = "rest" /\ x.proc = p
      BY <2>3, IdleIsRecord DEF CallRecord
    <2> HIDE DEF x
    <2> QED BY <2>1, <2>5, EnterMoves, Zenon
  <1> QED BY <1>1, <1>2

LEMMA WaitForExitMoves ==
    ASSUME CallShape, NEW c \in Callers, NEW p \in Procs, WaitForExit(c, p)
    PROVE  CallShape' /\ Moves(c, "wait", "wait", p)
  <1> DEFINE x == [Idle EXCEPT !.op = "wait", !.at = "wait", !.proc = p]
  <1>1. call' = [call EXCEPT ![c] = x]
    BY DEF WaitForExit
  <1>2. x \in CallRecord /\ x.op = "wait" /\ x.at = "wait" /\ x.proc = p
    BY IdleIsRecord DEF CallRecord
  <1> HIDE DEF x
  <1> QED BY <1>1, <1>2, EnterMoves, Zenon

LEMMA ResetMoves ==
    ASSUME CallShape, NEW c \in Callers, NEW p \in Procs, Reset(c, p)
    PROVE  CallShape' /\ (UNCHANGED call \/ (mState[p] = "Terminated" /\ Moves(c, "reset", "join", p)))
  <1> DEFINE x == [Idle EXCEPT !.op = "reset", !.at = "join", !.proc = p]
  <1>1. UNCHANGED call \/ (mState[p] = "Terminated" /\ call' = [call EXCEPT ![c] = x])
    BY Zenon DEF Reset
  <1>2. x \in CallRecord /\ x.op = "reset" /\ x.at = "join" /\ x.proc = p
    BY IdleIsRecord DEF CallRecord
  <1> HIDE DEF x
  <1>3. CASE UNCHANGED call
    BY <1>3, Zenon DEF CallShape
  <1>4. CASE mState[p] = "Terminated" /\ call' = [call EXCEPT ![c] = x]
    BY <1>2, <1>4, EnterMoves, Zenon
  <1> QED BY <1>1, <1>3, <1>4

LEMMA RemoveProcessMoves ==
    ASSUME CallShape, NEW c \in Callers, NEW p \in Procs, RemoveProcess(c, p)
    PROVE  CallShape' /\ (UNCHANGED call \/ Moves(c, "remove", "terminate", p))
  <1> DEFINE x == [Idle EXCEPT !.op = "remove", !.at = "terminate", !.proc = p]
  <1>1. UNCHANGED call \/ call' = [call EXCEPT ![c] = x]
    BY DEF RemoveProcess
  <1>2. x \in CallRecord /\ x.op = "remove" /\ x.at = "terminate" /\ x.proc = p
    BY IdleIsRecord DEF CallRecord
  <1> HIDE DEF x
  <1>3. CASE UNCHANGED call
    BY <1>3 DEF CallShape
  <1>4. CASE call' = [call EXCEPT ![c] = x]
    BY <1>2, <1>4, EnterMoves
  <1> QED BY <1>1, <1>3, <1>4

\* terminate, called by the application or by removeProcess.
LEMMA TerminateLockedMoves ==
    ASSUME CallShape, NEW c \in Callers, NEW p \in Procs, NEW fast \in BOOLEAN, NEW next \in CallRecord,
           TerminateLocked(c, p, fast, next), Shaped(next), next.op = "remove" \/ next = Idle
    PROVE  /\ CallShape'
           /\ mState[p] # "Spawned" => Moves(c, next.op, next.at, next.proc)
           /\ mState[p] = "Spawned" =>
                Moves(c, IF next.op = "remove" THEN "remove" ELSE "terminate", "assign", p)
  <1>1. CASE mState[p] = "Spawned"
    <2> DEFINE op == IF next = Idle THEN "terminate" ELSE "remove"
               x == [call[c] EXCEPT !.op = op, !.at = "assign", !.proc = p, !.fast = fast]
    <2>1. call' = [call EXCEPT ![c] = x]
      BY <1>1 DEF TerminateLocked
    <2>2. call[c] \in CallRecord /\ op \in {"terminate", "remove"}
      BY DEF CallShape
    <2>3. op = IF next.op = "remove" THEN "remove" ELSE "terminate"
      BY IdleIsRecord
    <2> HIDE DEF op
    <2>4. x \in CallRecord /\ x.op = op /\ x.at = "assign" /\ x.proc = p
      BY <2>2 DEF CallRecord
    <2>5. Shaped(x)
      BY <2>2, <2>4 DEF Shaped
    <2> HIDE DEF x
    <2>6. CallShape' /\ Moves(c, x.op, x.at, x.proc)
      BY <2>1, <2>4, <2>5, SetCall, Zenon
    <2> QED BY <1>1, <2>3, <2>4, <2>6
  <1>2. CASE mState[p] # "Spawned"
    <2>1. call' = [call EXCEPT ![c] = next]
      BY <1>2 DEF TerminateLocked
    <2>2. CallShape' /\ Moves(c, next.op, next.at, next.proc)
      BY <2>1, SetCall, Zenon
    <2> QED BY <1>2, <2>2
  <1> QED BY <1>1, <1>2

LEMMA TerminateMoves ==
    ASSUME CallShape, NEW c \in Callers, NEW p \in Procs, NEW fast \in BOOLEAN, Terminate(c, p, fast)
    PROVE  /\ CallShape'
           /\ mState[p] # "Spawned" => Moves(c, "idle", "idle", NoOne)
           /\ mState[p] = "Spawned" => Moves(c, "terminate", "assign", p)
  <1>1. Shaped(Idle)
    BY IdleIsRecord DEF Shaped
  <1>2. TerminateLocked(c, p, fast, Idle)
    BY DEF Terminate
  <1> QED BY <1>1, <1>2, TerminateLockedMoves, IdleIsRecord

LEMMA RemoveTerminateMoves ==
    ASSUME CallShape, NEW c \in Callers, RemoveTerminate(c)
    PROVE  /\ CallShape' /\ call[c].proc \in Procs
           /\ mState[call[c].proc] # "Spawned" => Moves(c, "remove", "wait", call[c].proc)
           /\ mState[call[c].proc] = "Spawned" => Moves(c, "remove", "assign", call[c].proc)
  <1> DEFINE p == call[c].proc
             x == [call[c] EXCEPT !.at = "wait"]
  <1>1. TerminateLocked(c, p, TRUE, x) /\ call[c].op = "remove"
    BY DEF RemoveTerminate, At
  <1>2. call[c] \in CallRecord /\ Shaped(call[c])
    BY DEF CallShape
  <1>3. p \in Procs
    BY <1>1, <1>2 DEF Shaped
  <1>4. x \in CallRecord /\ x.op = "remove" /\ x.at = "wait" /\ x.proc = p
    BY <1>1, <1>2 DEF CallRecord
  <1>5. Shaped(x)
    BY <1>3, <1>4 DEF Shaped
  <1> HIDE DEF x, p
  <1>6. /\ CallShape'
        /\ mState[p] # "Spawned" => Moves(c, x.op, x.at, x.proc)
        /\ mState[p] = "Spawned" => Moves(c, IF x.op = "remove" THEN "remove" ELSE "terminate", "assign", p)
    BY <1>1, <1>3, <1>4, <1>5, TerminateLockedMoves
  <1> QED BY <1>3, <1>4, <1>6 DEF p

\* The other steps inside a call.
LEMMA StepMoves ==
    ASSUME CallShape, NEW c \in Callers
    PROVE  /\ call[c].op # "idle" => call[c].proc \in Procs
           /\ SpawnReserveRest(c) => CallShape' /\ Moves(c, "spawn", "fork", call[c].proc)
           /\ SpawnFork(c) => CallShape' /\ Moves(c, "spawn", "postFork", call[c].proc)
           /\ ResetJoin(c) => CallShape' /\ Moves(c, "reset", "set", call[c].proc)
           /\ SpawnForkFails(c) \/ SpawnPostFork(c) \/ WaitTimeout(c) \/ ResetSet(c) \/ RemoveErase(c)
                => CallShape' /\ Moves(c, "idle", "idle", NoOne)
  <1>1. call[c].op # "idle" => call[c].proc \in Procs
    BY DEF CallShape, Shaped
  <1>2. SpawnReserveRest(c) => CallShape' /\ Moves(c, "spawn", "fork", call[c].proc)
    BY GotoMoves DEF SpawnReserveRest, At
  <1>3. SpawnFork(c) => CallShape' /\ Moves(c, "spawn", "postFork", call[c].proc)
    BY GotoMoves DEF SpawnFork, At
  <1>4. ResetJoin(c) => CallShape' /\ Moves(c, "reset", "set", call[c].proc)
    BY GotoMoves DEF ResetJoin, At
  <1>5. SpawnForkFails(c) \/ SpawnPostFork(c) \/ WaitTimeout(c) \/ ResetSet(c) \/ RemoveErase(c)
          => CallShape' /\ Moves(c, "idle", "idle", NoOne)
    BY ReturnMoves DEF SpawnForkFails, SpawnPostFork, WaitTimeout, ResetSet, RemoveErase
  <1> QED BY <1>1, <1>2, <1>3, <1>4, <1>5

LEMMA StartThreadMoves ==
    ASSUME CallShape, NEW c \in Callers, StartTerminationThread(c)
    PROVE  /\ CallShape' /\ call[c].op \in {"terminate", "remove"} /\ call[c].proc \in Procs
           /\ Moves(c, "idle", "idle", NoOne) \/ Moves(c, "remove", "wait", call[c].proc)
  <1>1. call[c] \in CallRecord /\ Shaped(call[c]) /\ call[c].at = "assign"
    BY DEF CallShape, StartTerminationThread
  <1>2. call[c].op \in {"terminate", "remove"} /\ call[c].proc \in Procs
    BY <1>1 DEF CallRecord, Shaped
  <1>3. CASE call[c].op = "remove"
    <2>1. Goto(c, "wait")
      BY <1>3 DEF StartTerminationThread
    <2> QED BY <1>2, <1>3, <2>1, GotoMoves
  <1>4. CASE call[c].op # "remove"
    BY <1>2, <1>4, ReturnMoves DEF StartTerminationThread
  <1> QED BY <1>3, <1>4

LEMMA WaitTestMoves ==
    ASSUME CallShape, NEW c \in Callers, WaitTest(c)
    PROVE  /\ CallShape' /\ call[c].op \in {"wait", "remove"} /\ call[c].proc \in Procs
           /\ \/ UNCHANGED call
              \/ call[c].op = "wait" /\ Moves(c, "idle", "idle", NoOne)
              \/ /\ call[c].op = "remove" /\ mState[call[c].proc] = "Terminated"
                 /\ Moves(c, "remove", "erase", call[c].proc)
  <1>1. call[c] \in CallRecord /\ Shaped(call[c]) /\ call[c].at = "wait"
    BY DEF CallShape, WaitTest
  <1>2. call[c].op \in {"wait", "remove"} /\ call[c].proc \in Procs
    BY <1>1 DEF CallRecord, Shaped
  <1>3. CASE UNCHANGED call
    BY <1>2, <1>3 DEF CallShape
  <1>4. CASE mState[call[c].proc] = "Terminated" /\ call[c].op = "remove" /\ Goto(c, "erase")
    BY <1>2, <1>4, GotoMoves
  <1>5. CASE call[c].op # "remove" /\ Return(c)
    BY <1>2, <1>5, ReturnMoves
  <1> QED BY <1>3, <1>4, <1>5 DEF WaitTest
------------------------------------------------------------------------------
\* What a step does, process by process.

OnlyAt(new, old, x, v, S) == new[x] = v /\ \A y \in S : y # x => new[y] = old[y]

locks == <<stateLock, processesLock>>
maps == <<mProcesses, mPidToProcess>>

\* c begins a call on p, and nobody is resetting p.
Begins(c, p) ==
    /\ call[c].op = "idle" /\ call[c].at = "idle" /\ call[c].proc = NoOne
    /\ \A d \in Callers : call[d].op = "reset" => call[d].proc # p

\* Termination threads may go on, but none begins or is joined.
ThreadsGoOn == \A p \in Procs : (term'[p] = "none") <=> (term[p] = "none")
NoNewBreak == "std::terminate" \in broken' => "std::terminate" \in broken

\* Only the caller moves.
CallerOnly(c, p) ==
    /\ UNCHANGED <<mState, mPid, term, locks, maps, child, monitorVars, broken>>
    /\ \/ UNCHANGED call
       \/ Begins(c, p) /\ (Moves(c, "wait", "wait", p) \/ Moves(c, "remove", "terminate", p))
       \/ Begins(c, p) /\ Quiet(p) /\ mState[p] = "Terminated" /\ Moves(c, "reset", "join", p)
       \/ call[c].op = "spawn" /\ call[c].at = "rest" /\ Moves(c, "spawn", "fork", call[c].proc)
       \/ call[c].op = "remove" /\ Moves(c, "remove", "wait", call[c].proc)
       \/ call[c].op \in {"wait", "idle"} /\ Moves(c, "idle", "idle", NoOne)
       \/ call[c].op = "remove" /\ mState[call[c].proc] = "Terminated" /\ Moves(c, "remove", "erase", call[c].proc)

\* spawn takes the state lock.
Locks(c, p) ==
    /\ Begins(c, p) /\ mState[p] = "NotSpawned" /\ stateLock[p] = NoOne
    /\ OnlyAt(stateLock', stateLock, p, c, Procs)
    /\ Moves(c, "spawn", "fork", p) \/ Moves(c, "spawn", "rest", p)
    /\ UNCHANGED <<mState, mPid, term, processesLock, maps, child, monitorVars, broken>>

\* The process is marked Terminated.
Ends(p) == OnlyAt(mState', mState, p, "Terminated", Procs) /\ OnlyAt(mPid', mPid, p, 0, Procs)

EndsInCall(c, p) ==
    /\ Ends(p) /\ stateLock[p] = NoOne
    /\ \/ Begins(c, p) /\ (UNCHANGED call \/ Moves(c, "idle", "idle", NoOne))
       \/ call[c].op = "remove" /\ call[c].proc = p /\ Moves(c, "remove", "wait", p)
    /\ UNCHANGED <<term, locks, maps, child, monitorVars, broken>>

EndsInThread(p) ==
    /\ Ends(p) /\ stateLock[p] = NoOne /\ ThreadsGoOn
    /\ UNCHANGED <<locks, maps, child, call, monitorVars, broken>>

EndsInMonitor(p) ==
    /\ Ends(p) /\ stateLock[p] = NoOne /\ p = processesLock /\ monitor = "terminated"
    /\ monitor' = "notify" /\ UNCHANGED <<term, locks, maps, child, call, exited, broken>>

ForkFails(c, p) ==
    /\ call[c].op = "spawn" /\ call[c].at = "fork" /\ call[c].proc = p
    /\ Ends(p) /\ OnlyAt(stateLock', stateLock, p, NoOne, Procs) /\ Moves(c, "idle", "idle", NoOne)
    /\ UNCHANGED <<term, processesLock, maps, child, monitorVars, broken>>

Forks(c, p, pid) ==
    /\ call[c].op = "spawn" /\ call[c].at = "fork" /\ call[c].proc = p
    /\ child[pid] = "none" /\ OnlyAt(child', child, pid, "running", Pids)
    /\ OnlyAt(mState', mState, p, "Spawned", Procs) /\ OnlyAt(mPid', mPid, p, pid, Procs)
    /\ Moves(c, "spawn", "postFork", p)
    /\ UNCHANGED <<term, locks, maps, monitorVars, broken>>

Records(c, p) ==
    /\ call[c].op = "spawn" /\ call[c].at = "postFork" /\ call[c].proc = p /\ processesLock = NoOne
    /\ OnlyAt(mPidToProcess', mPidToProcess, mPid[p], p, Pids)
    /\ OnlyAt(stateLock', stateLock, p, NoOne, Procs) /\ Moves(c, "idle", "idle", NoOne)
    /\ UNCHANGED <<mState, mPid, term, processesLock, mProcesses, child, monitorVars, broken>>

Terminates(c, p) ==
    /\ mState[p] = "Spawned" /\ stateLock[p] = NoOne
    /\ OnlyAt(mState', mState, p, "Terminating", Procs)
    /\ \/ Begins(c, p) /\ Moves(c, "terminate", "assign", p)
       \/ call[c].op = "remove" /\ call[c].proc = p /\ Moves(c, "remove", "assign", p)
    /\ UNCHANGED <<mPid, term, locks, maps, child, monitorVars, broken>>

StartsThread(c, p) ==
    /\ call[c].op \in {"terminate", "remove"} /\ call[c].at = "assign" /\ call[c].proc = p
    /\ Moves(c, "idle", "idle", NoOne) \/ Moves(c, "remove", "wait", p)
    /\ \A q \in Procs : q # p => term'[q] = term[q]
    /\ NoNewBreak
    /\ UNCHANGED <<mState, mPid, locks, maps, child, monitorVars>>

ThreadOnly ==
    /\ ThreadsGoOn /\ NoNewBreak
    /\ UNCHANGED <<mState, mPid, locks, maps, child, call, monitorVars>>

Joins(c, p) ==
    /\ call[c].op = "reset" /\ call[c].at = "join" /\ call[c].proc = p
    /\ OnlyAt(term', term, p, "none", Procs) /\ Moves(c, "reset", "set", p)
    /\ UNCHANGED <<mState, mPid, locks, maps, child, monitorVars, broken>>

Resets(c, p) ==
    /\ call[c].op = "reset" /\ call[c].at = "set" /\ call[c].proc = p
    /\ OnlyAt(mState', mState, p, "NotSpawned", Procs) /\ Moves(c, "idle", "idle", NoOne)
    /\ UNCHANGED <<mPid, term, locks, maps, child, monitorVars, broken>>

Erases(c, p) ==
    /\ call[c].op = "remove" /\ call[c].at = "erase" /\ call[c].proc = p
    /\ mProcesses' = mProcesses \ {p} /\ Moves(c, "idle", "idle", NoOne)
    /\ UNCHANGED <<mState, mPid, term, locks, mPidToProcess, child, monitorVars, broken>>

Collects(pid) ==
    /\ monitor = "poll" /\ mPidToProcess[pid] # NoOne /\ child[pid] = "zombie"
    /\ OnlyAt(child', child, pid, "reaped", Pids) /\ exited' = pid /\ monitor' = "handle"
    /\ UNCHANGED <<mState, mPid, term, locks, maps, call, broken>>

Handles(p) ==
    /\ monitor = "handle" /\ processesLock = NoOne /\ p = mPidToProcess[exited]
    /\ OnlyAt(mPidToProcess', mPidToProcess, exited, NoOne, Pids)
    /\ processesLock' = p /\ monitor' = "terminated"
    /\ UNCHANGED <<mState, mPid, term, stateLock, mProcesses, child, call, exited, broken>>

MonitorReturns ==
    /\ monitor = "notify" /\ processesLock' = NoOne /\ monitor' = "poll" /\ exited' = 0
    /\ UNCHANGED <<mState, mPid, term, stateLock, maps, child, call, broken>>

ChildEnds(pid) ==
    /\ child[pid] = "running" /\ OnlyAt(child', child, pid, "zombie", Pids)
    /\ UNCHANGED <<mState, mPid, term, locks, maps, call, monitorVars, broken>>

CallerKind(c, p) ==
    \/ CallerOnly(c, p) \/ Locks(c, p) \/ EndsInCall(c, p) \/ ForkFails(c, p) \/ Records(c, p)
    \/ \E pid \in Pids : Forks(c, p, pid)
    \/ Terminates(c, p) \/ StartsThread(c, p) \/ Joins(c, p) \/ Resets(c, p) \/ Erases(c, p)
OtherKind ==
    \/ \E p \in Procs : EndsInThread(p) \/ EndsInMonitor(p) \/ Handles(p)
    \/ \E pid \in Pids : Collects(pid) \/ ChildEnds(pid)
    \/ ThreadOnly \/ MonitorReturns
Effect == OtherKind \/ \E c \in Callers, p \in Procs : CallerKind(c, p)

LEMMA SpawnRefusedEffect ==
    ASSUME ProcessInv, QuietReset, NEW c \in Callers, NEW p \in Procs, SpawnRefused(c, p)
    PROVE  CallShape' /\ CallerOnly(c, p)
  <1>1. TypeOK /\ CallShape
    BY Zenon DEF ProcessInv
  <1>2. Begins(c, p)
    BY <1>1, BeginsIdle DEF SpawnRefused, Begins
  <1> QED BY <1>1, <1>2, ProcessAssumption DEF ProcessInv, TypeOK, CallerOnly, SpawnRefused,
  StateFree, ProcessesFree, locks, maps, processVars, managerVars, monitorVars, callerVars,
  CallShape

LEMMA SpawnPipeFailsEffect ==
    ASSUME ProcessInv, QuietReset, NEW c \in Callers, NEW p \in Procs, SpawnPipeFails(c, p)
    PROVE  CallShape' /\ EndsInCall(c, p)
  <1>1. TypeOK /\ CallShape
    BY Zenon DEF ProcessInv
  <1>2. Begins(c, p)
    BY <1>1, BeginsIdle DEF SpawnPipeFails, Begins
  <1> QED BY <1>1, <1>2, ProcessAssumption DEF ProcessInv, TypeOK, EndsInCall, SpawnPipeFails,
  StateFree, ProcessesFree, TerminatedInternal, Ends, OnlyAt, locks, maps, processVars,
  managerVars, monitorVars, callerVars, CallShape

LEMMA SpawnReserveEffect ==
    ASSUME ProcessInv, QuietReset, NEW c \in Callers, NEW p \in Procs, SpawnReserve(c, p)
    PROVE  CallShape' /\ Locks(c, p)
  <1>1. TypeOK /\ CallShape
    BY Zenon DEF ProcessInv
  <1>2. Begins(c, p)
    BY <1>1, BeginsIdle DEF SpawnReserve, Begins
  <1> QED BY <1>1, <1>2, SpawnReserveMoves, ProcessAssumption DEF ProcessInv, TypeOK, Locks,
  SpawnReserve, StateFree, ProcessesFree, OnlyAt, locks, maps, processVars, managerVars,
  monitorVars, callerVars

LEMMA WaitForExitEffect ==
    ASSUME ProcessInv, QuietReset, NEW c \in Callers, NEW p \in Procs, WaitForExit(c, p)
    PROVE  CallShape' /\ CallerOnly(c, p)
  <1>1. TypeOK /\ CallShape
    BY Zenon DEF ProcessInv
  <1>2. Begins(c, p)
    BY <1>1, BeginsIdle DEF WaitForExit, Begins
  <1> QED BY <1>1, <1>2, WaitForExitMoves, ProcessAssumption DEF ProcessInv, TypeOK,
  CallerOnly, WaitForExit, StateFree, ProcessesFree, locks, maps, processVars, managerVars,
  monitorVars, callerVars

LEMMA ResetEffect ==
    ASSUME ProcessInv, QuietReset, NEW c \in Callers, NEW p \in Procs, Reset(c, p)
    PROVE  CallShape' /\ CallerOnly(c, p)
  <1>1. TypeOK /\ CallShape
    BY Zenon DEF ProcessInv
  <1>2. Begins(c, p)
    BY <1>1, BeginsIdle DEF Reset, Begins
  <1> QED BY <1>1, <1>2, ResetMoves, ProcessAssumption DEF ProcessInv, TypeOK, CallerOnly,
  Reset, StateFree, ProcessesFree, locks, maps, processVars, managerVars, monitorVars,
  callerVars

LEMMA RemoveProcessEffect ==
    ASSUME ProcessInv, QuietReset, NEW c \in Callers, NEW p \in Procs, RemoveProcess(c, p)
    PROVE  CallShape' /\ CallerOnly(c, p)
  <1>1. TypeOK /\ CallShape
    BY Zenon DEF ProcessInv
  <1>2. Begins(c, p)
    BY <1>1, BeginsIdle DEF RemoveProcess, Begins
  <1> QED BY <1>1, <1>2, RemoveProcessMoves, ProcessAssumption DEF ProcessInv, TypeOK,
  CallerOnly, RemoveProcess, StateFree, ProcessesFree, locks, maps, processVars, managerVars,
  monitorVars, callerVars

LEMMA SpawnReserveRestEffect ==
    ASSUME ProcessInv, QuietReset, NEW c \in Callers, SpawnReserveRest(c)
    PROVE  CallShape' /\ call[c].proc \in Procs /\ CallerOnly(c, call[c].proc)
  <1>1. TypeOK /\ CallShape
    BY Zenon DEF ProcessInv
  <1>2. CallShape' /\ Moves(c, "spawn", "fork", call[c].proc)
    BY <1>1, StepMoves, Zenon
  <1>3. call[c].proc \in Procs
    BY <1>1, StepMoves DEF SpawnReserveRest, At
  <1> QED BY <1>1, <1>2, <1>3, ProcessAssumption DEF ProcessInv, TypeOK, CallerOnly,
  SpawnReserveRest, StateFree, ProcessesFree, At, locks, maps, processVars, managerVars,
  monitorVars, callerVars

LEMMA SpawnForkFailsEffect ==
    ASSUME ProcessInv, QuietReset, NEW c \in Callers, SpawnForkFails(c)
    PROVE  CallShape' /\ call[c].proc \in Procs /\ ForkFails(c, call[c].proc)
  <1>1. TypeOK /\ CallShape
    BY Zenon DEF ProcessInv
  <1>2. CallShape' /\ Moves(c, "idle", "idle", NoOne)
    BY <1>1, StepMoves, Zenon
  <1>3. call[c].proc \in Procs
    BY <1>1, StepMoves DEF SpawnForkFails, At
  <1> QED BY <1>1, <1>2, <1>3, ProcessAssumption DEF ProcessInv, TypeOK, ForkFails,
  SpawnForkFails, StateFree, ProcessesFree, At, TerminatedInternal, Ends, OnlyAt, locks, maps,
  processVars, managerVars, monitorVars, callerVars

LEMMA SpawnPostForkEffect ==
    ASSUME ProcessInv, QuietReset, NEW c \in Callers, SpawnPostFork(c)
    PROVE  CallShape' /\ call[c].proc \in Procs /\ Records(c, call[c].proc)
  <1>1. TypeOK /\ CallShape
    BY Zenon DEF ProcessInv
  <1>2. CallShape' /\ Moves(c, "idle", "idle", NoOne)
    BY <1>1, StepMoves, Zenon
  <1>3. call[c].proc \in Procs
    BY <1>1, StepMoves DEF SpawnPostFork, At
  <1> QED BY <1>1, <1>2, <1>3, ProcessAssumption DEF ProcessInv, TypeOK, Records,
  SpawnPostFork, StateFree, ProcessesFree, At, OnlyAt, SpawnPhase, RemovedHasEnded, locks,
  maps, processVars, managerVars, monitorVars, callerVars

LEMMA WaitTimeoutEffect ==
    ASSUME ProcessInv, QuietReset, NEW c \in Callers, WaitTimeout(c)
    PROVE  CallShape' /\ call[c].proc \in Procs /\ CallerOnly(c, call[c].proc)
  <1>1. TypeOK /\ CallShape
    BY Zenon DEF ProcessInv
  <1>2. CallShape' /\ Moves(c, "idle", "idle", NoOne)
    BY <1>1, StepMoves, Zenon
  <1>3. call[c].proc \in Procs
    BY <1>1, StepMoves DEF WaitTimeout, At
  <1> QED BY <1>1, <1>2, <1>3, ProcessAssumption DEF ProcessInv, TypeOK, CallerOnly,
  WaitTimeout, StateFree, ProcessesFree, At, locks, maps, processVars, managerVars,
  monitorVars, callerVars

LEMMA ResetJoinEffect ==
    ASSUME ProcessInv, QuietReset, NEW c \in Callers, ResetJoin(c)
    PROVE  CallShape' /\ call[c].proc \in Procs /\ Joins(c, call[c].proc)
  <1>1. TypeOK /\ CallShape
    BY Zenon DEF ProcessInv
  <1>2. CallShape' /\ Moves(c, "reset", "set", call[c].proc)
    BY <1>1, StepMoves, Zenon
  <1>3. call[c].proc \in Procs
    BY <1>1, StepMoves DEF ResetJoin, At
  <1> QED BY <1>1, <1>2, <1>3, ProcessAssumption DEF ProcessInv, TypeOK, Joins, ResetJoin,
  StateFree, ProcessesFree, At, OnlyAt, locks, maps, processVars, managerVars, monitorVars,
  callerVars

LEMMA ResetSetEffect ==
    ASSUME ProcessInv, QuietReset, NEW c \in Callers, ResetSet(c)
    PROVE  CallShape' /\ call[c].proc \in Procs /\ Resets(c, call[c].proc)
  <1>1. TypeOK /\ CallShape
    BY Zenon DEF ProcessInv
  <1>2. CallShape' /\ Moves(c, "idle", "idle", NoOne)
    BY <1>1, StepMoves, Zenon
  <1>3. call[c].proc \in Procs
    BY <1>1, StepMoves DEF ResetSet, At
  <1> QED BY <1>1, <1>2, <1>3, ProcessAssumption DEF ProcessInv, TypeOK, Resets, ResetSet,
  StateFree, ProcessesFree, At, OnlyAt, locks, maps, processVars, managerVars, monitorVars,
  callerVars

LEMMA RemoveEraseEffect ==
    ASSUME ProcessInv, QuietReset, NEW c \in Callers, RemoveErase(c)
    PROVE  CallShape' /\ call[c].proc \in Procs /\ Erases(c, call[c].proc)
  <1>1. TypeOK /\ CallShape
    BY Zenon DEF ProcessInv
  <1>2. CallShape' /\ Moves(c, "idle", "idle", NoOne)
    BY <1>1, StepMoves, Zenon
  <1>3. call[c].proc \in Procs
    BY <1>1, StepMoves DEF RemoveErase, At
  <1> QED BY <1>1, <1>2, <1>3, ProcessAssumption DEF ProcessInv, TypeOK, Erases, RemoveErase,
  StateFree, ProcessesFree, At, locks, maps, processVars, managerVars, monitorVars, callerVars

LEMMA StartTerminationThreadEffect ==
    ASSUME ProcessInv, QuietReset, NEW c \in Callers, StartTerminationThread(c)
    PROVE  CallShape' /\ call[c].proc \in Procs /\ StartsThread(c, call[c].proc)
  <1>1. TypeOK /\ CallShape
    BY Zenon DEF ProcessInv
  <1> QED BY <1>1, StartThreadMoves, ProcessAssumption DEF ProcessInv, TypeOK, StartsThread,
  StartTerminationThread, StateFree, ProcessesFree, At, OneThread, NoNewBreak, locks, maps,
  processVars, managerVars, monitorVars, callerVars

LEMMA WaitTestEffect ==
    ASSUME ProcessInv, QuietReset, NEW c \in Callers, WaitTest(c)
    PROVE  CallShape' /\ call[c].proc \in Procs /\ CallerOnly(c, call[c].proc)
  <1>1. TypeOK /\ CallShape
    BY Zenon DEF ProcessInv
  <1> QED BY <1>1, WaitTestMoves, ProcessAssumption DEF ProcessInv, TypeOK, CallerOnly,
  WaitTest, StateFree, ProcessesFree, At, locks, maps, processVars, managerVars, monitorVars,
  callerVars

LEMMA SpawnForkEffect ==
    ASSUME ProcessInv, QuietReset, NEW c \in Callers, SpawnFork(c)
    PROVE  CallShape' /\ call[c].proc \in Procs /\ \E pid \in Pids : Forks(c, call[c].proc, pid)
  <1>1. TypeOK /\ CallShape
    BY Zenon DEF ProcessInv
  <1>2. CallShape' /\ Moves(c, "spawn", "postFork", call[c].proc)
    BY <1>1, StepMoves, Zenon
  <1>3. call[c].proc \in Procs
    BY <1>1, StepMoves DEF SpawnFork, At
  <1>4. PICK pid \in Pids : /\ child[pid] = "none" /\ child' = [child EXCEPT ![pid] = "running"]
                            /\ mPid' = [mPid EXCEPT ![call[c].proc] = pid]
    BY DEF SpawnFork
  <1>5. Forks(c, call[c].proc, pid)
    BY <1>1, <1>2, <1>3, <1>4
    DEF Forks, SpawnFork, At, OnlyAt, TypeOK, locks, maps, managerVars, monitorVars
  <1> QED BY <1>2, <1>3, <1>5

LEMMA TerminateEffect ==
    ASSUME ProcessInv, QuietReset, NEW c \in Callers, NEW p \in Procs, NEW fast \in BOOLEAN, Terminate(c, p, fast)
    PROVE  CallShape' /\ (CallerOnly(c, p) \/ EndsInCall(c, p) \/ Terminates(c, p))
  <1>1. TypeOK /\ CallShape
    BY Zenon DEF ProcessInv
  <1>2. Begins(c, p)
    BY <1>1, BeginsIdle DEF Terminate, Begins
  <1>3. /\ CallShape'
        /\ mState[p] # "Spawned" => Moves(c, "idle", "idle", NoOne)
        /\ mState[p] = "Spawned" => Moves(c, "terminate", "assign", p)
    BY <1>1, TerminateMoves, Zenon
  <1>4. CASE mState[p] = "NotSpawned"
    <2>1. EndsInCall(c, p)
      BY <1>1, <1>2, <1>3, <1>4
      DEF Terminate, TerminateLocked, TerminatedInternal, EndsInCall, Ends, OnlyAt, TypeOK,
          StateFree, locks, maps, processVars, managerVars, monitorVars, callerVars
    <2> QED BY <1>3, <2>1
  <1>5. CASE mState[p] \in {"Terminating", "Terminated"}
    <2>1. CallerOnly(c, p)
      BY <1>1, <1>2, <1>3, <1>5 DEF Terminate, TerminateLocked, CallerOnly, Begins, locks,
      maps, processVars, managerVars, monitorVars, callerVars
    <2> QED BY <1>3, <2>1
  <1>6. CASE mState[p] = "Spawned"
    <2>1. Terminates(c, p)
      BY <1>1, <1>2, <1>3, <1>6 DEF Terminate, TerminateLocked, Terminates, OnlyAt, TypeOK,
      StateFree, locks, maps, processVars, managerVars, monitorVars, callerVars
    <2> QED BY <1>3, <2>1
  <1> QED BY <1>4, <1>5, <1>6 DEF Terminate, TerminateLocked

LEMMA RemoveTerminateEffect ==
    ASSUME ProcessInv, QuietReset, NEW c \in Callers, RemoveTerminate(c)
    PROVE  /\ CallShape' /\ call[c].proc \in Procs
           /\ CallerOnly(c, call[c].proc) \/ EndsInCall(c, call[c].proc) \/ Terminates(c, call[c].proc)
  <1> DEFINE p == call[c].proc
  <1>1. TypeOK /\ CallShape
    BY Zenon DEF ProcessInv
  <1>2. call[c].op = "remove"
    BY DEF RemoveTerminate, At
  <1>3. /\ CallShape' /\ p \in Procs
        /\ mState[p] # "Spawned" => Moves(c, "remove", "wait", p)
        /\ mState[p] = "Spawned" => Moves(c, "remove", "assign", p)
    BY <1>1, RemoveTerminateMoves, Zenon
  <1>4. CASE mState[p] = "NotSpawned"
    <2>1. EndsInCall(c, p)
      BY <1>1, <1>2, <1>3, <1>4
      DEF RemoveTerminate, TerminateLocked, TerminatedInternal, EndsInCall, Ends, OnlyAt,
          TypeOK, StateFree, locks, maps, processVars, managerVars, monitorVars, callerVars
    <2> QED BY <1>3, <2>1
  <1>5. CASE mState[p] \in {"Terminating", "Terminated"}
    <2>1. CallerOnly(c, p)
      BY <1>1, <1>2, <1>3, <1>5 DEF RemoveTerminate, TerminateLocked, CallerOnly, locks, maps,
      processVars, managerVars, monitorVars, callerVars
    <2> QED BY <1>3, <2>1
  <1>6. CASE mState[p] = "Spawned"
    <2>1. Terminates(c, p)
      BY <1>1, <1>2, <1>3, <1>6 DEF RemoveTerminate, TerminateLocked, Terminates, OnlyAt,
      TypeOK, StateFree, locks, maps, processVars, managerVars, monitorVars, callerVars
    <2> QED BY <1>3, <2>1
  <1> QED BY <1>4, <1>5, <1>6 DEF RemoveTerminate, TerminateLocked

LEMMA TermStepEffect ==
    ASSUME ProcessInv, NEW p \in Procs, TermStep(p)
    PROVE  ThreadOnly \/ EndsInThread(p)
  <1>1. TypeOK
    BY DEF ProcessInv
  <1>2. CASE TermStart(p)
    BY <1>1, <1>2
    DEF ThreadOnly, ThreadsGoOn, NoNewBreak, TermStart, AwaitExit, SignalGroup, TypeOK, locks,
        maps, processVars, managerVars, monitorVars, callerVars
  <1>3. CASE TermExitSeen(p)
    BY <1>1, <1>3 DEF ThreadOnly, ThreadsGoOn, NoNewBreak, TermExitSeen, TypeOK, locks, maps,
    processVars, managerVars, monitorVars, callerVars
  <1>4. CASE TermTimeout(p) /\ term[p] = "killWait"
    <2>1. EndsInThread(p)
      BY <1>1, <1>4
      DEF EndsInThread, Ends, ThreadsGoOn, OnlyAt, TermTimeout, TerminatedInternal, StateFree,
          TypeOK, locks, maps, processVars, managerVars, monitorVars, callerVars
    <2> QED BY <2>1
  <1>5. CASE TermTimeout(p) /\ term[p] # "killWait"
    <2>1. ThreadOnly
      BY <1>1, <1>5
      DEF ThreadOnly, ThreadsGoOn, NoNewBreak, TermTimeout, AwaitExit, SignalGroup, TypeOK,
          locks, maps, processVars, managerVars, monitorVars, callerVars
    <2> QED BY <2>1
  <1> QED BY <1>2, <1>3, <1>4, <1>5 DEF TermStep

LEMMA MonitorStepEffect ==
    ASSUME ProcessInv, MonitorStep
    PROVE  OtherKind
  <1>1. TypeOK /\ MonitorPhase
    BY DEF ProcessInv
  <1>2. CASE ExitMonitor
    <2>1. PICK pid \in Pids : /\ mPidToProcess[pid] # NoOne /\ child[pid] = "zombie" /\ exited' = pid
                              /\ child' = [child EXCEPT ![pid] = "reaped"]
      BY <1>2 DEF ExitMonitor
    <2>2. Collects(pid)
      BY <1>1, <1>2, <2>1 DEF Collects, OnlyAt, ExitMonitor, TypeOK, locks, maps, processVars,
      managerVars, monitorVars, callerVars
    <2> QED BY <2>2 DEF OtherKind
  <1>3. CASE HandleChildExit
    <2>1. mPidToProcess[exited] \in Procs
      BY <1>1, <1>3 DEF HandleChildExit, MonitorPhase, TypeOK
    <2>2. Handles(mPidToProcess[exited])
      BY <1>1, <1>3 DEF Handles, OnlyAt, HandleChildExit, MonitorPhase, ProcessesFree, TypeOK,
      locks, maps, processVars, managerVars, monitorVars, callerVars
    <2> QED BY <2>1, <2>2 DEF OtherKind
  <1>4. CASE Terminated
    <2>1. processesLock \in Procs
      BY <1>1, <1>4 DEF Terminated, MonitorPhase, TypeOK
    <2>2. EndsInMonitor(processesLock)
      BY <1>1, <1>4, <2>1 DEF EndsInMonitor, Ends, OnlyAt, Terminated, StateFree, TypeOK,
      locks, maps, processVars, managerVars, monitorVars, callerVars
    <2> QED BY <2>1, <2>2 DEF OtherKind
  <1>5. CASE TerminatedNotify
    BY <1>5 DEF TerminatedNotify, MonitorReturns, OtherKind, locks, maps, processVars,
    managerVars, monitorVars, callerVars
  <1> QED BY <1>2, <1>3, <1>4, <1>5 DEF MonitorStep

LEMMA ChildExitsEffect ==
    ASSUME ProcessInv, NEW pid \in Pids, ChildExits(pid)
    PROVE  ChildEnds(pid)
  BY DEF ProcessInv, TypeOK, ChildExits, ChildEnds, OnlyAt, locks, maps, processVars,
  managerVars, monitorVars, callerVars
\* Only spawn takes and releases a state lock for more than a step.
LEMMA LockHeldStep ==
    ASSUME ProcessInv, CallShape', Effect
    PROVE  LockHeld'
  <1> USE ZeroIsNoPid
      DEF ProcessInv, LockHeld, TypeOK, CallShape, Shaped, OnlyAt, Moves, Begins, Ends, locks,
          maps, monitorVars
  <1>1. ASSUME NEW c \in Callers, NEW p \in Procs, CallerKind(c, p)
        PROVE  LockHeld'
    <2>1. CASE CallerOnly(c, p)
      BY <2>1 DEF CallerOnly, Quiet
    <2>2. CASE EndsInCall(c, p) \/ ForkFails(c, p)
      BY <2>2 DEF EndsInCall, ForkFails
    <2>3. CASE Locks(c, p) \/ Records(c, p)
      BY <2>3 DEF Locks, Records
    <2>4. ASSUME NEW pid \in Pids, Forks(c, p, pid) PROVE LockHeld'
      BY <2>4 DEF Forks
    <2>5. CASE Terminates(c, p)
      BY <2>5 DEF Terminates
    <2>6. CASE StartsThread(c, p) \/ Joins(c, p)
      BY <2>6 DEF StartsThread, Joins, NoNewBreak
    <2>7. CASE Resets(c, p) \/ Erases(c, p)
      BY <2>7 DEF Resets, Erases
    <2> QED BY <1>1, <2>1, <2>2, <2>3, <2>4, <2>5, <2>6, <2>7, Zenon DEF CallerKind
  <1>2. CASE OtherKind
    <2>1. ASSUME NEW p \in Procs, EndsInThread(p) \/ EndsInMonitor(p) \/ Handles(p) PROVE LockHeld'
      BY <2>1 DEF EndsInThread, EndsInMonitor, Handles, ThreadsGoOn
    <2>2. ASSUME NEW pid \in Pids, Collects(pid) \/ ChildEnds(pid) PROVE LockHeld'
      BY <2>2 DEF Collects, ChildEnds
    <2>3. CASE ThreadOnly \/ MonitorReturns
      BY <2>3 DEF ThreadOnly, MonitorReturns, ThreadsGoOn, NoNewBreak
    <2> QED BY <1>2, <2>1, <2>2, <2>3, Zenon DEF OtherKind
  <1> QED BY <1>1, <1>2, Zenon DEF Effect

\* Whoever else changes a process needs its lock, or resets it alone.
LEMMA SpawnPhaseStep ==
    ASSUME ProcessInv, CallShape', Effect
    PROVE  SpawnPhase'
  <1> USE ZeroIsNoPid
      DEF ProcessInv, SpawnPhase, LockHeld, ResetAlone, MapIsInjective, PidsDiffer, TypeOK,
          CallShape, Shaped, OnlyAt, Moves, Begins, Ends, locks, maps, monitorVars
  <1>1. ASSUME NEW c \in Callers, NEW p \in Procs, CallerKind(c, p)
        PROVE  SpawnPhase'
    <2>1. CASE CallerOnly(c, p)
      BY <2>1 DEF CallerOnly, Quiet
    <2>2. CASE EndsInCall(c, p) \/ ForkFails(c, p)
      BY <2>2 DEF EndsInCall, ForkFails
    <2>3. CASE Locks(c, p) \/ Records(c, p)
      BY <2>3 DEF Locks, Records
    <2>4. ASSUME NEW pid \in Pids, Forks(c, p, pid) PROVE SpawnPhase'
      BY <2>4 DEF Forks
    <2>5. CASE Terminates(c, p)
      BY <2>5 DEF Terminates
    <2>6. CASE StartsThread(c, p) \/ Joins(c, p)
      BY <2>6 DEF StartsThread, Joins, NoNewBreak
    <2>7. CASE Resets(c, p) \/ Erases(c, p)
      BY <2>7 DEF Resets, Erases
    <2> QED BY <1>1, <2>1, <2>2, <2>3, <2>4, <2>5, <2>6, <2>7, Zenon DEF CallerKind
  <1>2. CASE OtherKind
    <2>1. ASSUME NEW p \in Procs, EndsInThread(p) \/ EndsInMonitor(p) \/ Handles(p) PROVE SpawnPhase'
      BY <2>1 DEF EndsInThread, EndsInMonitor, Handles, ThreadsGoOn
    <2>2. ASSUME NEW pid \in Pids, Collects(pid) \/ ChildEnds(pid) PROVE SpawnPhase'
      BY <2>2 DEF Collects, ChildEnds
    <2>3. CASE ThreadOnly \/ MonitorReturns
      BY <2>3 DEF ThreadOnly, MonitorReturns, ThreadsGoOn, NoNewBreak
    <2> QED BY <1>2, <2>1, <2>2, <2>3, Zenon DEF OtherKind
  <1> QED BY <1>1, <1>2, Zenon DEF Effect

\* Reset begins when nothing is under way, and nobody begins anything before it has returned.
LEMMA ResetAloneStep ==
    ASSUME ProcessInv, CallShape', Effect
    PROVE  ResetAlone'
  <1> USE ZeroIsNoPid
      DEF ProcessInv, ResetAlone, LockHeld, TypeOK, CallShape, Shaped, OnlyAt, Moves, Begins,
          Ends, locks, maps, monitorVars
  <1>1. ASSUME NEW c \in Callers, NEW p \in Procs, CallerKind(c, p)
        PROVE  ResetAlone'
    <2>1. CASE CallerOnly(c, p)
      BY <2>1 DEF CallerOnly, Quiet
    <2>2. CASE EndsInCall(c, p) \/ ForkFails(c, p)
      BY <2>2 DEF EndsInCall, ForkFails
    <2>3. CASE Locks(c, p) \/ Records(c, p)
      BY <2>3 DEF Locks, Records
    <2>4. ASSUME NEW pid \in Pids, Forks(c, p, pid) PROVE ResetAlone'
      BY <2>4 DEF Forks
    <2>5. CASE Terminates(c, p)
      BY <2>5 DEF Terminates
    <2>6. CASE StartsThread(c, p) \/ Joins(c, p)
      BY <2>6 DEF StartsThread, Joins, NoNewBreak
    <2>7. CASE Resets(c, p) \/ Erases(c, p)
      BY <2>7 DEF Resets, Erases
    <2> QED BY <1>1, <2>1, <2>2, <2>3, <2>4, <2>5, <2>6, <2>7, Zenon DEF CallerKind
  <1>2. CASE OtherKind
    <2>1. ASSUME NEW p \in Procs, EndsInThread(p) \/ EndsInMonitor(p) \/ Handles(p) PROVE ResetAlone'
      BY <2>1 DEF EndsInThread, EndsInMonitor, Handles, ThreadsGoOn
    <2>2. ASSUME NEW pid \in Pids, Collects(pid) \/ ChildEnds(pid) PROVE ResetAlone'
      BY <2>2 DEF Collects, ChildEnds
    <2>3. CASE ThreadOnly \/ MonitorReturns
      BY <2>3 DEF ThreadOnly, MonitorReturns, ThreadsGoOn, NoNewBreak
    <2> QED BY <1>2, <2>1, <2>2, <2>3, Zenon DEF OtherKind
  <1> QED BY <1>1, <1>2, Zenon DEF Effect

\* Only reset takes a process out of Terminated, and it resets no removed process.
LEMMA RemovedHasEndedStep ==
    ASSUME ProcessInv, CallShape', Effect
    PROVE  RemovedHasEnded'
  <1> USE ZeroIsNoPid
      DEF ProcessInv, RemovedHasEnded, LockHeld, SpawnPhase, ResetAlone, TypeOK, CallShape,
          Shaped, OnlyAt, Moves, Begins, Ends, locks, maps, monitorVars
  <1>1. ASSUME NEW c \in Callers, NEW p \in Procs, CallerKind(c, p)
        PROVE  RemovedHasEnded'
    <2>1. CASE CallerOnly(c, p)
      BY <2>1 DEF CallerOnly, Quiet
    <2>2. CASE EndsInCall(c, p) \/ ForkFails(c, p)
      BY <2>2 DEF EndsInCall, ForkFails
    <2>3. CASE Locks(c, p) \/ Records(c, p)
      BY <2>3 DEF Locks, Records
    <2>4. ASSUME NEW pid \in Pids, Forks(c, p, pid) PROVE RemovedHasEnded'
      BY <2>4 DEF Forks
    <2>5. CASE Terminates(c, p)
      BY <2>5 DEF Terminates
    <2>6. CASE StartsThread(c, p) \/ Joins(c, p)
      BY <2>6 DEF StartsThread, Joins, NoNewBreak
    <2>7. CASE Resets(c, p) \/ Erases(c, p)
      BY <2>7 DEF Resets, Erases
    <2> QED BY <1>1, <2>1, <2>2, <2>3, <2>4, <2>5, <2>6, <2>7, Zenon DEF CallerKind
  <1>2. CASE OtherKind
    <2>1. ASSUME NEW p \in Procs, EndsInThread(p) \/ EndsInMonitor(p) \/ Handles(p) PROVE RemovedHasEnded'
      BY <2>1 DEF EndsInThread, EndsInMonitor, Handles, ThreadsGoOn
    <2>2. ASSUME NEW pid \in Pids, Collects(pid) \/ ChildEnds(pid) PROVE RemovedHasEnded'
      BY <2>2 DEF Collects, ChildEnds
    <2>3. CASE ThreadOnly \/ MonitorReturns
      BY <2>3 DEF ThreadOnly, MonitorReturns, ThreadsGoOn, NoNewBreak
    <2> QED BY <1>2, <2>1, <2>2, <2>3, Zenon DEF OtherKind
  <1> QED BY <1>1, <1>2, Zenon DEF Effect

\* Only the step from Spawned to Terminating leads to a new termination thread.
LEMMA OneThreadStep ==
    ASSUME ProcessInv, CallShape', Effect
    PROVE  OneThread'
  <1> USE ZeroIsNoPid
      DEF ProcessInv, OneThread, LockHeld, SpawnPhase, ResetAlone, TypeOK, CallShape, Shaped,
          OnlyAt, Moves, Begins, Ends, locks, maps, monitorVars
  <1>1. ASSUME NEW c \in Callers, NEW p \in Procs, CallerKind(c, p)
        PROVE  OneThread'
    <2>1. CASE CallerOnly(c, p)
      BY <2>1 DEF CallerOnly, Quiet
    <2>2. CASE EndsInCall(c, p) \/ ForkFails(c, p)
      BY <2>2 DEF EndsInCall, ForkFails
    <2>3. CASE Locks(c, p) \/ Records(c, p)
      BY <2>3 DEF Locks, Records
    <2>4. ASSUME NEW pid \in Pids, Forks(c, p, pid) PROVE OneThread'
      BY <2>4 DEF Forks
    <2>5. CASE Terminates(c, p)
      BY <2>5 DEF Terminates
    <2>6. CASE StartsThread(c, p) \/ Joins(c, p)
      BY <2>6 DEF StartsThread, Joins, NoNewBreak
    <2>7. CASE Resets(c, p) \/ Erases(c, p)
      BY <2>7 DEF Resets, Erases
    <2> QED BY <1>1, <2>1, <2>2, <2>3, <2>4, <2>5, <2>6, <2>7, Zenon DEF CallerKind
  <1>2. CASE OtherKind
    <2>1. ASSUME NEW p \in Procs, EndsInThread(p) \/ EndsInMonitor(p) \/ Handles(p) PROVE OneThread'
      BY <2>1 DEF EndsInThread, EndsInMonitor, Handles, ThreadsGoOn
    <2>2. ASSUME NEW pid \in Pids, Collects(pid) \/ ChildEnds(pid) PROVE OneThread'
      BY <2>2 DEF Collects, ChildEnds
    <2>3. CASE ThreadOnly \/ MonitorReturns
      BY <2>3 DEF ThreadOnly, MonitorReturns, ThreadsGoOn, NoNewBreak
    <2> QED BY <1>2, <2>1, <2>2, <2>3, Zenon DEF OtherKind
  <1> QED BY <1>1, <1>2, Zenon DEF Effect

\* fork gives a fresh pid.
LEMMA PidsDifferStep ==
    ASSUME ProcessInv, CallShape', Effect
    PROVE  PidsDiffer'
  <1> USE ZeroIsNoPid
      DEF ProcessInv, PidsDiffer, SpawnPhase, TypeOK, CallShape, Shaped, OnlyAt, Moves, Begins,
          Ends, locks, maps, monitorVars
  <1>1. ASSUME NEW c \in Callers, NEW p \in Procs, CallerKind(c, p)
        PROVE  PidsDiffer'
    <2>1. CASE CallerOnly(c, p)
      BY <2>1 DEF CallerOnly, Quiet
    <2>2. CASE EndsInCall(c, p) \/ ForkFails(c, p)
      BY <2>2 DEF EndsInCall, ForkFails
    <2>3. CASE Locks(c, p) \/ Records(c, p)
      BY <2>3 DEF Locks, Records
    <2>4. ASSUME NEW pid \in Pids, Forks(c, p, pid) PROVE PidsDiffer'
      BY <2>4 DEF Forks
    <2>5. CASE Terminates(c, p)
      BY <2>5 DEF Terminates
    <2>6. CASE StartsThread(c, p) \/ Joins(c, p)
      BY <2>6 DEF StartsThread, Joins, NoNewBreak
    <2>7. CASE Resets(c, p) \/ Erases(c, p)
      BY <2>7 DEF Resets, Erases
    <2> QED BY <1>1, <2>1, <2>2, <2>3, <2>4, <2>5, <2>6, <2>7, Zenon DEF CallerKind
  <1>2. CASE OtherKind
    <2>1. ASSUME NEW p \in Procs, EndsInThread(p) \/ EndsInMonitor(p) \/ Handles(p) PROVE PidsDiffer'
      BY <2>1 DEF EndsInThread, EndsInMonitor, Handles, ThreadsGoOn
    <2>2. ASSUME NEW pid \in Pids, Collects(pid) \/ ChildEnds(pid) PROVE PidsDiffer'
      BY <2>2 DEF Collects, ChildEnds
    <2>3. CASE ThreadOnly \/ MonitorReturns
      BY <2>3 DEF ThreadOnly, MonitorReturns, ThreadsGoOn, NoNewBreak
    <2> QED BY <1>2, <2>1, <2>2, <2>3, Zenon DEF OtherKind
  <1> QED BY <1>1, <1>2, Zenon DEF Effect

\* A process enters the map in state Spawned, when spawn releases its lock.
LEMMA FollowedIsKeptStep ==
    ASSUME ProcessInv, CallShape', Effect
    PROVE  FollowedIsKept'
  <1> USE ZeroIsNoPid
      DEF ProcessInv, FollowedIsKept, Followed, LockHeld, SpawnPhase, ResetAlone, MonitorPhase,
          TypeOK, CallShape, Shaped, OnlyAt, Moves, Begins, Ends, locks, maps, monitorVars
  <1>1. ASSUME NEW c \in Callers, NEW p \in Procs, CallerKind(c, p)
        PROVE  FollowedIsKept'
    <2>1. CASE CallerOnly(c, p)
      BY <2>1 DEF CallerOnly, Quiet
    <2>2. CASE EndsInCall(c, p) \/ ForkFails(c, p)
      BY <2>2 DEF EndsInCall, ForkFails
    <2>3. CASE Locks(c, p) \/ Records(c, p)
      BY <2>3 DEF Locks, Records
    <2>4. ASSUME NEW pid \in Pids, Forks(c, p, pid) PROVE FollowedIsKept'
      BY <2>4 DEF Forks
    <2>5. CASE Terminates(c, p)
      BY <2>5 DEF Terminates
    <2>6. CASE StartsThread(c, p) \/ Joins(c, p)
      BY <2>6 DEF StartsThread, Joins, NoNewBreak
    <2>7. CASE Resets(c, p) \/ Erases(c, p)
      BY <2>7 DEF Resets, Erases
    <2> QED BY <1>1, <2>1, <2>2, <2>3, <2>4, <2>5, <2>6, <2>7, Zenon DEF CallerKind
  <1>2. CASE OtherKind
    <2>1. ASSUME NEW p \in Procs, EndsInThread(p) \/ EndsInMonitor(p) \/ Handles(p) PROVE FollowedIsKept'
      BY <2>1 DEF EndsInThread, EndsInMonitor, Handles, ThreadsGoOn
    <2>2. ASSUME NEW pid \in Pids, Collects(pid) \/ ChildEnds(pid) PROVE FollowedIsKept'
      BY <2>2 DEF Collects, ChildEnds
    <2>3. CASE ThreadOnly \/ MonitorReturns
      BY <2>3 DEF ThreadOnly, MonitorReturns, ThreadsGoOn, NoNewBreak
    <2> QED BY <1>2, <2>1, <2>2, <2>3, Zenon DEF OtherKind
  <1> QED BY <1>1, <1>2, Zenon DEF Effect

\* A process enters the map only when it is not in it, and its exit is not being handled.
LEMMA MapIsInjectiveStep ==
    ASSUME ProcessInv, CallShape', Effect
    PROVE  MapIsInjective'
  <1> USE ZeroIsNoPid
      DEF ProcessInv, MapIsInjective, FollowedIsKept, Followed, SpawnPhase, MonitorPhase,
          LockHeld, PidsDiffer, TypeOK, CallShape, Shaped, OnlyAt, Moves, Begins, Ends, locks,
          maps, monitorVars
  <1>1. ASSUME NEW c \in Callers, NEW p \in Procs, CallerKind(c, p)
        PROVE  MapIsInjective'
    <2>1. CASE CallerOnly(c, p)
      BY <2>1 DEF CallerOnly, Quiet
    <2>2. CASE EndsInCall(c, p) \/ ForkFails(c, p)
      BY <2>2 DEF EndsInCall, ForkFails
    <2>3. CASE Locks(c, p) \/ Records(c, p)
      BY <2>3 DEF Locks, Records
    <2>4. ASSUME NEW pid \in Pids, Forks(c, p, pid) PROVE MapIsInjective'
      BY <2>4 DEF Forks
    <2>5. CASE Terminates(c, p)
      BY <2>5 DEF Terminates
    <2>6. CASE StartsThread(c, p) \/ Joins(c, p)
      BY <2>6 DEF StartsThread, Joins, NoNewBreak
    <2>7. CASE Resets(c, p) \/ Erases(c, p)
      BY <2>7 DEF Resets, Erases
    <2> QED BY <1>1, <2>1, <2>2, <2>3, <2>4, <2>5, <2>6, <2>7, Zenon DEF CallerKind
  <1>2. CASE OtherKind
    <2>1. ASSUME NEW p \in Procs, EndsInThread(p) \/ EndsInMonitor(p) \/ Handles(p) PROVE MapIsInjective'
      BY <2>1 DEF EndsInThread, EndsInMonitor, Handles, ThreadsGoOn
    <2>2. ASSUME NEW pid \in Pids, Collects(pid) \/ ChildEnds(pid) PROVE MapIsInjective'
      BY <2>2 DEF Collects, ChildEnds
    <2>3. CASE ThreadOnly \/ MonitorReturns
      BY <2>3 DEF ThreadOnly, MonitorReturns, ThreadsGoOn, NoNewBreak
    <2> QED BY <1>2, <2>1, <2>2, <2>3, Zenon DEF OtherKind
  <1> QED BY <1>1, <1>2, Zenon DEF Effect

\* Only the monitor takes pids out of the map.
LEMMA MonitorPhaseStep ==
    ASSUME ProcessInv, CallShape', Effect
    PROVE  MonitorPhase'
  <1> USE ZeroIsNoPid
      DEF ProcessInv, MonitorPhase, TypeOK, CallShape, Shaped, OnlyAt, Moves, Begins, Ends,
          locks, maps, monitorVars
  <1>1. ASSUME NEW c \in Callers, NEW p \in Procs, CallerKind(c, p)
        PROVE  MonitorPhase'
    <2>1. CASE CallerOnly(c, p)
      BY <2>1 DEF CallerOnly, Quiet
    <2>2. CASE EndsInCall(c, p) \/ ForkFails(c, p)
      BY <2>2 DEF EndsInCall, ForkFails
    <2>3. CASE Locks(c, p) \/ Records(c, p)
      BY <2>3 DEF Locks, Records
    <2>4. ASSUME NEW pid \in Pids, Forks(c, p, pid) PROVE MonitorPhase'
      BY <2>4 DEF Forks
    <2>5. CASE Terminates(c, p)
      BY <2>5 DEF Terminates
    <2>6. CASE StartsThread(c, p) \/ Joins(c, p)
      BY <2>6 DEF StartsThread, Joins, NoNewBreak
    <2>7. CASE Resets(c, p) \/ Erases(c, p)
      BY <2>7 DEF Resets, Erases
    <2> QED BY <1>1, <2>1, <2>2, <2>3, <2>4, <2>5, <2>6, <2>7, Zenon DEF CallerKind
  <1>2. CASE OtherKind
    <2>1. ASSUME NEW p \in Procs, EndsInThread(p) \/ EndsInMonitor(p) \/ Handles(p) PROVE MonitorPhase'
      BY <2>1 DEF EndsInThread, EndsInMonitor, Handles, ThreadsGoOn
    <2>2. ASSUME NEW pid \in Pids, Collects(pid) \/ ChildEnds(pid) PROVE MonitorPhase'
      BY <2>2 DEF Collects, ChildEnds
    <2>3. CASE ThreadOnly \/ MonitorReturns
      BY <2>3 DEF ThreadOnly, MonitorReturns, ThreadsGoOn, NoNewBreak
    <2> QED BY <1>2, <2>1, <2>2, <2>3, Zenon DEF OtherKind
  <1> QED BY <1>1, <1>2, Zenon DEF Effect

\* The pid is recorded before spawn releases the lock, and taken out after it was collected.
LEMMA ProcessesFollowedStep ==
    ASSUME ProcessInv, CallShape', Effect
    PROVE  ProcessesFollowed'
  <1> USE ZeroIsNoPid
      DEF ProcessInv, ProcessesFollowed, NoOrphans, OneTerminationThread, OneThread,
          MonitorPhase, MapIsInjective, SpawnPhase, LockHeld, RemovedHasEnded, TypeOK,
          CallShape, Shaped, OnlyAt, Moves, Begins, Ends, locks, maps, monitorVars
  <1>1. ASSUME NEW c \in Callers, NEW p \in Procs, CallerKind(c, p)
        PROVE  ProcessesFollowed'
    <2>1. CASE CallerOnly(c, p)
      BY <2>1 DEF CallerOnly, Quiet
    <2>2. CASE EndsInCall(c, p) \/ ForkFails(c, p)
      BY <2>2 DEF EndsInCall, ForkFails
    <2>3. CASE Locks(c, p) \/ Records(c, p)
      BY <2>3 DEF Locks, Records
    <2>4. ASSUME NEW pid \in Pids, Forks(c, p, pid) PROVE ProcessesFollowed'
      BY <2>4 DEF Forks
    <2>5. CASE Terminates(c, p)
      BY <2>5 DEF Terminates
    <2>6. CASE StartsThread(c, p) \/ Joins(c, p)
      BY <2>6 DEF StartsThread, Joins, NoNewBreak
    <2>7. CASE Resets(c, p) \/ Erases(c, p)
      BY <2>7 DEF Resets, Erases
    <2> QED BY <1>1, <2>1, <2>2, <2>3, <2>4, <2>5, <2>6, <2>7, Zenon DEF CallerKind
  <1>2. CASE OtherKind
    <2>1. ASSUME NEW p \in Procs, EndsInThread(p) \/ EndsInMonitor(p) \/ Handles(p) PROVE ProcessesFollowed'
      BY <2>1 DEF EndsInThread, EndsInMonitor, Handles, ThreadsGoOn
    <2>2. ASSUME NEW pid \in Pids, Collects(pid) \/ ChildEnds(pid) PROVE ProcessesFollowed'
      BY <2>2 DEF Collects, ChildEnds
    <2>3. CASE ThreadOnly \/ MonitorReturns
      BY <2>3 DEF ThreadOnly, MonitorReturns, ThreadsGoOn, NoNewBreak
    <2> QED BY <1>2, <2>1, <2>2, <2>3, Zenon DEF OtherKind
  <1> QED BY <1>1, <1>2, Zenon DEF Effect

\* The pid is set when the state becomes Spawned and cleared when it becomes Terminated.
LEMMA PidWhileChildStep ==
    ASSUME ProcessInv, CallShape', Effect
    PROVE  PidWhileChild'
  <1> USE ZeroIsNoPid
      DEF ProcessInv, PidWhileChild, SpawnPhase, ResetAlone, TypeOK, CallShape, Shaped, OnlyAt,
          Moves, Begins, Ends, locks, maps, monitorVars
  <1>1. ASSUME NEW c \in Callers, NEW p \in Procs, CallerKind(c, p)
        PROVE  PidWhileChild'
    <2>1. CASE CallerOnly(c, p)
      BY <2>1 DEF CallerOnly, Quiet
    <2>2. CASE EndsInCall(c, p) \/ ForkFails(c, p)
      BY <2>2 DEF EndsInCall, ForkFails
    <2>3. CASE Locks(c, p) \/ Records(c, p)
      BY <2>3 DEF Locks, Records
    <2>4. ASSUME NEW pid \in Pids, Forks(c, p, pid) PROVE PidWhileChild'
      BY <2>4 DEF Forks
    <2>5. CASE Terminates(c, p)
      BY <2>5 DEF Terminates
    <2>6. CASE StartsThread(c, p) \/ Joins(c, p)
      BY <2>6 DEF StartsThread, Joins, NoNewBreak
    <2>7. CASE Resets(c, p) \/ Erases(c, p)
      BY <2>7 DEF Resets, Erases
    <2> QED BY <1>1, <2>1, <2>2, <2>3, <2>4, <2>5, <2>6, <2>7, Zenon DEF CallerKind
  <1>2. CASE OtherKind
    <2>1. ASSUME NEW p \in Procs, EndsInThread(p) \/ EndsInMonitor(p) \/ Handles(p) PROVE PidWhileChild'
      BY <2>1 DEF EndsInThread, EndsInMonitor, Handles, ThreadsGoOn
    <2>2. ASSUME NEW pid \in Pids, Collects(pid) \/ ChildEnds(pid) PROVE PidWhileChild'
      BY <2>2 DEF Collects, ChildEnds
    <2>3. CASE ThreadOnly \/ MonitorReturns
      BY <2>3 DEF ThreadOnly, MonitorReturns, ThreadsGoOn, NoNewBreak
    <2> QED BY <1>2, <2>1, <2>2, <2>3, Zenon DEF OtherKind
  <1> QED BY <1>1, <1>2, Zenon DEF Effect

------------------------------------------------------------------------------
\* Type correctness, part by part.

Types ==
    /\ mState \in [Procs -> States]
    /\ mPid \in [Procs -> Pids \cup {0}]
    /\ mStatus \in [Procs -> Statuses]
    /\ term \in [Procs -> {"none", "fast", "nice", "stopWait", "termWait", "killWait", "done"}]
    /\ stateLock \in [Procs -> Callers \cup {NoOne}]
    /\ processesLock \in Procs \cup {NoOne}
    /\ mProcesses \subseteq Procs
    /\ mPidToProcess \in [Pids -> Procs \cup {NoOne}]
    /\ child \in [Pids -> {"none", "running", "zombie", "reaped"}]
    /\ monitor \in {"poll", "handle", "terminated", "notify"} /\ exited \in Pids \cup {0}
Memory == mReservedMb \in [Procs -> Amounts] /\ mMemory \in Amounts
SleepersWait == asleep \subseteq {c \in Callers : call[c].at = "wait"}

LEMMA TypeParts == TypeOK <=> Types /\ Memory /\ SleepersWait /\ PidWhileChild
  BY DEF TypeOK, Types, Memory, SleepersWait, PidWhileChild

LEMMA TypesStep ==
    ASSUME ProcessInv, Next
    PROVE  Types'
  <1>0. TypeOK /\ CallShape /\ SpawnPhase /\ MonitorPhase
    BY Zenon DEF ProcessInv
  <1>1. ASSUME NEW c \in Callers, NEW p \in Procs,
               SpawnRefused(c, p) \/ SpawnReserve(c, p) \/ WaitForExit(c, p) \/ Reset(c, p) \/ RemoveProcess(c, p)
        PROVE  Types'
    BY <1>0, <1>1 DEF TypeOK, Types, SpawnRefused, SpawnReserve, WaitForExit, Reset,
    RemoveProcess, processVars, managerVars, monitorVars, callerVars
  <1>2. ASSUME NEW c \in Callers, NEW p \in Procs, NEW fast \in BOOLEAN,
               SpawnPipeFails(c, p) \/ Terminate(c, p, fast)
        PROVE  Types'
    BY <1>0, <1>2
    DEF TypeOK, Types, SpawnPipeFails, Terminate, TerminateLocked, TerminatedInternal, States,
        Statuses, processVars, managerVars, monitorVars, callerVars
  <1>3. ASSUME NEW c \in Callers, SpawnReserveRest(c) \/ SpawnForkFails(c) \/ SpawnFork(c) \/ SpawnPostFork(c)
        PROVE  Types'
    BY <1>0, <1>3, StepMoves
    DEF TypeOK, Types, SpawnReserveRest, SpawnForkFails, SpawnFork, SpawnPostFork, At, SpawnPhase,
        TerminatedInternal, States, Statuses, processVars, managerVars, monitorVars, callerVars
  <1>4. ASSUME NEW c \in Callers, StartTerminationThread(c) \/ WaitTest(c) \/ WaitTimeout(c)
                                    \/ ResetJoin(c) \/ ResetSet(c) \/ RemoveTerminate(c) \/ RemoveErase(c)
        PROVE  Types'
    BY <1>0, <1>4
    DEF TypeOK, Types, StartTerminationThread, WaitTest, WaitTimeout, ResetJoin, ResetSet, RemoveTerminate,
        RemoveErase, TerminateLocked, TerminatedInternal, States, Statuses, processVars,
        managerVars, monitorVars, callerVars
  <1>5. ASSUME NEW p \in Procs, TermStep(p)
        PROVE  Types'
    <2>1. CASE TermStart(p) \/ TermExitSeen(p)
      <3>1. term' = [term EXCEPT ![p] = term'[p]]
              /\ term'[p] \in {"done", "killWait", "stopWait", "termWait"}
        BY <1>0, <2>1 DEF TermStart, TermExitSeen, AwaitExit, TypeOK
      <3> QED BY <1>0, <2>1, <3>1 DEF TypeOK, Types, TermStart, TermExitSeen, processVars,
      managerVars, monitorVars, callerVars
    <2>2. CASE TermTimeout(p)
      <3>1. term' = [term EXCEPT ![p] = term'[p]] /\ term'[p] \in {"done", "killWait", "termWait"}
        BY <1>0, <2>2 DEF TermTimeout, AwaitExit, TypeOK
      <3>2. /\ UNCHANGED <<stateLock, processesLock, managerVars, child, monitorVars>>
            /\ TerminatedInternal(p, "UNINTERRUPTABLE") \/ UNCHANGED <<mState, mPid, mStatus>>
        BY <2>2 DEF TermTimeout
      <3> QED BY <1>0, <3>1, <3>2 DEF TypeOK, Types, TerminatedInternal, States, Statuses,
      processVars, managerVars, monitorVars, callerVars
    <2> QED BY <1>5, <2>1, <2>2 DEF TermStep
  <1>6. CASE MonitorStep
    BY <1>0, <1>6
    DEF TypeOK, Types, MonitorStep, ExitMonitor, HandleChildExit, Terminated, TerminatedNotify, MonitorPhase,
        States, Statuses, processVars, managerVars, monitorVars, callerVars
  <1>7. ASSUME NEW pid \in Pids, ChildExits(pid)
        PROVE  Types'
    BY <1>0, <1>7
    DEF TypeOK, Types, ChildExits, processVars, managerVars, monitorVars, callerVars
  <1> QED BY <1>1, <1>2, <1>3, <1>4, <1>5, <1>6, <1>7, Zenon DEF Next, CallerStep

LEMMA ReleaseIsTyped ==
    ASSUME Memory, NEW p \in Procs, ReleaseMemory(p)
    PROVE  Memory'
  <1>1. mMemory - mReservedMb[p] \in Int /\ 0 \in Amounts
    BY ProcessAssumption DEF Memory, Amounts
  <1>2. mMemory' \in Amounts
    BY <1>1, ModIsAmount, Zenon DEF ReleaseMemory
  <1> QED BY <1>1, <1>2 DEF Memory, ReleaseMemory

\* Only spawn and the exit monitor change what is reserved.
LEMMA MemoryStep ==
    ASSUME ProcessInv, Next
    PROVE  Memory'
  <1>0. TypeOK /\ CallShape /\ SpawnPhase /\ MonitorPhase /\ Memory
    BY TypeParts, Zenon DEF ProcessInv
  <1>1. ASSUME NEW c \in Callers, NEW p \in Procs, SpawnReserve(c, p)
        PROVE  Memory'
    BY <1>0, <1>1, ProcessAssumption DEF Memory, SpawnReserve, Fits, Amounts
  <1>2. ASSUME NEW c \in Callers, SpawnReserveRest(c)
        PROVE  Memory'
    <2>1. call[c].proc \in Procs
      BY <1>0, <1>2, StepMoves DEF SpawnReserveRest, At
    <2>2. call[c].rest \in Amounts
      BY <1>0 DEF CallShape, CallRecord
    <2> QED BY <1>0, <1>2, <2>1, <2>2, ProcessAssumption
        DEF Memory, SpawnReserveRest, Fits, Amounts
  <1>3. ASSUME NEW c \in Callers, SpawnForkFails(c)
        PROVE  Memory'
    <2>1. call[c].proc \in Procs
      BY <1>0, <1>3, StepMoves DEF SpawnForkFails, At
    <2> QED BY <1>0, <1>3, <2>1, ReleaseIsTyped DEF SpawnForkFails
  <1>4. CASE HandleChildExit
    <2>1. mPidToProcess[exited] \in Procs /\ ReleaseMemory(mPidToProcess[exited])
      BY <1>0, <1>4 DEF HandleChildExit, MonitorPhase, TypeOK
    <2> QED BY <1>0, <2>1, ReleaseIsTyped
  <1>5. CASE Terminated
    <2>1. processesLock \in Procs
      BY <1>0, <1>5 DEF Terminated, MonitorPhase, TypeOK
    <2>2. UNCHANGED <<mReservedMb, mMemory>> \/ ReleaseMemory(processesLock)
      BY <1>5 DEF Terminated, processVars
    <2> QED BY <1>0, <2>1, <2>2, ReleaseIsTyped DEF Memory
  <1>6. ASSUME NEW c \in Callers, NEW p \in Procs, NEW fast \in BOOLEAN,
               \/ SpawnRefused(c, p) \/ SpawnPipeFails(c, p) \/ Terminate(c, p, fast) \/ WaitForExit(c, p)
               \/ Reset(c, p) \/ RemoveProcess(c, p)
        PROVE  Memory'
    BY <1>0, <1>6 DEF Memory, SpawnRefused, SpawnPipeFails, Terminate, WaitForExit, Reset,
    RemoveProcess, processVars, managerVars, monitorVars, callerVars
  <1>7. ASSUME NEW c \in Callers,
               \/ SpawnFork(c) \/ SpawnPostFork(c) \/ StartTerminationThread(c) \/ WaitTest(c) \/ WaitTimeout(c)
               \/ ResetJoin(c) \/ ResetSet(c) \/ RemoveTerminate(c) \/ RemoveErase(c)
        PROVE  Memory'
    BY <1>0, <1>7
    DEF Memory, SpawnFork, SpawnPostFork, StartTerminationThread, WaitTest, WaitTimeout, ResetJoin, ResetSet,
        RemoveTerminate, RemoveErase, processVars, managerVars, monitorVars, callerVars
  <1>8. CASE (\E p \in Procs : TermStep(p)) \/ \E pid \in Pids : ChildExits(pid)
    BY <1>0, <1>8 DEF Memory, TermStep, TermStart, TermExitSeen, TermTimeout, ChildExits,
    processVars, managerVars, monitorVars, callerVars
  <1>9. CASE ExitMonitor \/ TerminatedNotify
    BY <1>0, <1>9
    DEF Memory, ExitMonitor, TerminatedNotify, processVars, managerVars, monitorVars,
        callerVars
  <1> QED BY <1>1, <1>2, <1>3, <1>4, <1>5, <1>6, <1>7, <1>8, <1>9, Zenon
      DEF Next, CallerStep, MonitorStep

\* A sleeper is woken, or times out, before it moves.
LEMMA SleepersStay ==
    ASSUME SleepersWait, NEW c \in Callers, asleep' \subseteq asleep,
           c \notin asleep' \/ call[c].at # "wait" \/ UNCHANGED call,
           \A d \in Callers : d # c => call'[d] = call[d]
    PROVE  SleepersWait'
  BY DEF SleepersWait

LEMMA OthersStay ==
    ASSUME NEW c \in Callers, NEW p \in Procs, CallerKind(c, p)
    PROVE  \A d \in Callers : d # c => call'[d] = call[d]
  BY DEF CallerKind, CallerOnly, Locks, EndsInCall, ForkFails, Records, Forks, Terminates,
     StartsThread, Joins,
         Resets, Erases, Moves

LEMMA EffectOfCall ==
    ASSUME ProcessInv, QuietReset, NEW c \in Callers, NEW p \in Procs, NEW fast \in BOOLEAN,
           \/ SpawnRefused(c, p) \/ SpawnPipeFails(c, p) \/ SpawnReserve(c, p) \/ Terminate(c, p, fast)
           \/ WaitForExit(c, p) \/ Reset(c, p) \/ RemoveProcess(c, p)
    PROVE  CallShape' /\ CallerKind(c, p)
  BY SpawnRefusedEffect, SpawnPipeFailsEffect, SpawnReserveEffect, TerminateEffect,
     WaitForExitEffect,
     ResetEffect, RemoveProcessEffect, Zenon DEF CallerKind

LEMMA EffectOfStep ==
    ASSUME ProcessInv, QuietReset, NEW c \in Callers, CallerStep(c) \/ WaitTimeout(c)
    PROVE  CallShape' /\ call[c].proc \in Procs /\ CallerKind(c, call[c].proc)
  BY SpawnReserveRestEffect, SpawnForkFailsEffect, SpawnForkEffect, SpawnPostForkEffect,
     StartTerminationThreadEffect, WaitTestEffect, WaitTimeoutEffect, ResetJoinEffect, ResetSetEffect,
     RemoveTerminateEffect, RemoveEraseEffect, Zenon DEF CallerStep, CallerKind

\* Every step has one of the effects.
LEMMA NextHasEffect ==
    ASSUME ProcessInv, QuietReset, Next
    PROVE  CallShape' /\ Effect
  <1>1. CASE \E c \in Callers : CallerStep(c) \/ WaitTimeout(c)
    BY <1>1, EffectOfStep, Zenon DEF Effect
  <1>2. ASSUME NEW c \in Callers, NEW p \in Procs, NEW fast \in BOOLEAN,
               \/ SpawnRefused(c, p) \/ SpawnPipeFails(c, p) \/ SpawnReserve(c, p) \/ Terminate(c, p, fast)
               \/ WaitForExit(c, p) \/ Reset(c, p) \/ RemoveProcess(c, p)
        PROVE  CallShape' /\ Effect
    BY <1>2, EffectOfCall, Zenon DEF Effect
  <1>3. CASE (\E p \in Procs : TermStep(p)) \/ MonitorStep \/ \E pid \in Pids : ChildExits(pid)
    <2>1. Effect
      BY <1>3, TermStepEffect, MonitorStepEffect, ChildExitsEffect, Zenon DEF Effect, OtherKind
    <2>2. UNCHANGED call
      BY <1>3
      DEF TermStep, TermStart, TermExitSeen, TermTimeout, MonitorStep, ExitMonitor,
          HandleChildExit, Terminated,
          TerminatedNotify, ChildExits, callerVars
    <2> QED BY <2>1, <2>2, Zenon DEF ProcessInv, CallShape
  <1> QED BY <1>1, <1>2, <1>3, Zenon DEF Next

LEMMA SleepersWaitStep ==
    ASSUME ProcessInv, QuietReset, Next
    PROVE  SleepersWait'
  <1>0. TypeOK /\ CallShape /\ SleepersWait
    BY TypeParts, Zenon DEF ProcessInv
  <1>1. ASSUME NEW c \in Callers, NEW p \in Procs, NEW fast \in BOOLEAN,
               \/ SpawnRefused(c, p) \/ SpawnPipeFails(c, p) \/ SpawnReserve(c, p) \/ Terminate(c, p, fast)
               \/ WaitForExit(c, p) \/ Reset(c, p) \/ RemoveProcess(c, p)
        PROVE  SleepersWait'
    <2>1. \A d \in Callers : d # c => call'[d] = call[d]
      BY <1>1, EffectOfCall, OthersStay, Zenon
    <2>2. Begin(c, p)
      BY <1>1
      DEF SpawnRefused, SpawnPipeFails, SpawnReserve, Terminate, WaitForExit, Reset,
          RemoveProcess
    <2>3. call[c].at # "wait"
      BY <1>0, <2>2, BeginsIdle
    <2>4. asleep' \subseteq asleep
      BY <1>1
      DEF SpawnRefused, SpawnPipeFails, SpawnReserve, Terminate, TerminateLocked,
          TerminatedInternal, WaitForExit,
          Reset, RemoveProcess
    <2> QED BY <1>0, <2>1, <2>3, <2>4, SleepersStay
  <1>2. ASSUME NEW c \in Callers, (CallerStep(c) /\ ~WaitTest(c)) \/ WaitTimeout(c)
        PROVE  SleepersWait'
    <2>1. \A d \in Callers : d # c => call'[d] = call[d]
      BY <1>2, EffectOfStep, OthersStay, Zenon
    <2>2. c \notin asleep' \/ call[c].at # "wait"
      BY <1>2
      DEF CallerStep, SpawnReserveRest, SpawnForkFails, SpawnFork, SpawnPostFork, StartTerminationThread,
          ResetJoin, ResetSet, RemoveTerminate, RemoveErase, WaitTimeout, At
    <2>3. asleep' \subseteq asleep
      BY <1>2
      DEF CallerStep, SpawnReserveRest, SpawnForkFails, SpawnFork, SpawnPostFork, StartTerminationThread,
          ResetJoin, ResetSet, RemoveTerminate, RemoveErase, WaitTimeout, TerminateLocked, TerminatedInternal
    <2> QED BY <1>0, <2>1, <2>2, <2>3, SleepersStay
  <1>3. ASSUME NEW c \in Callers, WaitTest(c)
        PROVE  SleepersWait'
    <2>1. \A d \in Callers : d # c => call'[d] = call[d]
      BY <1>3, EffectOfStep, OthersStay, Zenon DEF CallerStep
    <2>2. (UNCHANGED asleep /\ c \notin asleep) \/ (UNCHANGED call /\ asleep' = asleep \cup {c} /\ call[c].at = "wait")
      BY <1>3 DEF WaitTest
    <2> QED BY <1>0, <2>1, <2>2 DEF SleepersWait
  <1>4. CASE (\E p \in Procs : TermStep(p)) \/ MonitorStep \/ \E pid \in Pids : ChildExits(pid)
    <2>1. UNCHANGED call /\ asleep' \subseteq asleep
      BY <1>4
      DEF TermStep, TermStart, TermExitSeen, TermTimeout, TerminatedInternal, MonitorStep, ExitMonitor,
          HandleChildExit, Terminated, TerminatedNotify, ChildExits, callerVars
    <2> QED BY <1>0, <2>1 DEF SleepersWait
  <1> QED BY <1>1, <1>2, <1>3, <1>4, Zenon DEF Next, CallerStep

------------------------------------------------------------------------------
LEMMA InitIsProcessInv == Init => ProcessInv
  <1> SUFFICES ASSUME Init PROVE ProcessInv
    OBVIOUS
  <1>1. \A c \in Callers : call[c] = Idle
    BY DEF Init
  <1>2. CallShape
    <2>1. Shaped(Idle)
      BY IdleIsRecord DEF Shaped
    <2> QED BY <2>1, IdleIsRecord DEF Init, CallShape
  <1>3. \A c \in Callers : call[c].op = "idle" /\ call[c].at = "idle" /\ call[c].proc = NoOne
    BY <1>1, IdleIsRecord
  <1>4. TypeOK
    BY ProcessAssumption DEF Init, TypeOK, States, Statuses, Amounts
  <1>5. LockHeld /\ SpawnPhase /\ ResetAlone /\ RemovedHasEnded /\ OneThread /\ PidsDiffer
    BY <1>3 DEF Init, LockHeld, SpawnPhase, ResetAlone, RemovedHasEnded, OneThread, PidsDiffer
  <1>6. FollowedIsKept /\ MapIsInjective /\ MonitorPhase /\ ProcessesFollowed
    BY <1>3, ZeroIsNoPid
    DEF Init, FollowedIsKept, Followed, MapIsInjective, MonitorPhase, ProcessesFollowed, NoOrphans,
        OneTerminationThread
  <1> QED BY <1>2, <1>4, <1>5, <1>6 DEF ProcessInv

LEMMA NextKeepsProcessInv ==
    ASSUME ProcessInv, QuietReset, Next
    PROVE  ProcessInv'
  <1>1. CallShape' /\ Effect
    BY NextHasEffect
  <1>2. TypeOK'
    <2>1. Types' /\ Memory' /\ SleepersWait' /\ PidWhileChild'
      BY <1>1, TypesStep, MemoryStep, SleepersWaitStep, PidWhileChildStep, Zenon
    <2> QED BY <2>1 DEF TypeOK, Types, Memory, SleepersWait, PidWhileChild
  <1> QED BY <1>1, <1>2, LockHeldStep, SpawnPhaseStep, ResetAloneStep, RemovedHasEndedStep,
             OneThreadStep,
             PidsDifferStep, FollowedIsKeptStep, MapIsInjectiveStep, MonitorPhaseStep, ProcessesFollowedStep,
             Zenon DEF ProcessInv

LEMMA StutterKeepsProcessInv == ProcessInv /\ UNCHANGED vars => ProcessInv'
  <1> SUFFICES ASSUME ProcessInv, UNCHANGED vars PROVE ProcessInv'
    OBVIOUS
  <1>1. /\ UNCHANGED <<mState, mPid, mStatus, mReservedMb, term, stateLock, processesLock, mProcesses, mPidToProcess>>
        /\ UNCHANGED <<mMemory, child, call, asleep, monitor, exited, broken>>
    BY DEF vars, processVars, managerVars, monitorVars, callerVars
  <1>2. TypeOK' /\ CallShape' /\ LockHeld'
    BY <1>1, Zenon DEF ProcessInv, TypeOK, CallShape, LockHeld
  <1>3. SpawnPhase' /\ ResetAlone' /\ RemovedHasEnded' /\ OneThread' /\ PidsDiffer'
    BY <1>1, Zenon
    DEF ProcessInv, SpawnPhase, ResetAlone, RemovedHasEnded, OneThread, PidsDiffer
  <1>4. FollowedIsKept' /\ MapIsInjective' /\ MonitorPhase' /\ ProcessesFollowed'
    BY <1>1, Zenon
    DEF ProcessInv, FollowedIsKept, Followed, MapIsInjective, MonitorPhase, ProcessesFollowed,
       NoOrphans, OneTerminationThread
  <1> QED BY <1>2, <1>3, <1>4, Zenon DEF ProcessInv

LEMMA ProcessInvHolds == ASSUME QuietReset PROVE Spec => []ProcessInv
  <1>1. ProcessInv /\ [Next]_vars => ProcessInv'
    BY NextKeepsProcessInv, StutterKeepsProcessInv, Zenon
  <1> QED BY <1>1, InitIsProcessInv, PTL DEF Spec

\* Type correctness, and with it that a process has a pid exactly while it stands for a child.
THEOREM ProcessesAreTyped == ASSUME QuietReset PROVE Spec => []TypeOK
  <1>1. ProcessInv => TypeOK
    BY DEF ProcessInv
  <1> QED BY <1>1, ProcessInvHolds, PTL

\* Every child is followed to its end: its pid stays known until its exit was collected, and no
\* process gets a second termination thread (ProcessManager.cc, Process::terminate).
THEOREM EveryChildIsFollowed == ASSUME QuietReset PROVE Spec => []ProcessesFollowed
  <1>1. ProcessInv => ProcessesFollowed
    BY DEF ProcessInv
  <1> QED BY <1>1, ProcessInvHolds, PTL

\* The pids of different processes differ, and the exit monitor's map never names a process twice.
THEOREM PidsAreUnique == ASSUME QuietReset PROVE Spec => [](PidsDiffer /\ MapIsInjective)
  <1>1. ProcessInv => PidsDiffer /\ MapIsInjective
    BY DEF ProcessInv
  <1> QED BY <1>1, ProcessInvHolds, PTL

------------------------------------------------------------------------------
\* Two properties of steps.

\* A step that changes what p holds finds no uncollected child of p in the map.
LEMMA HeldIfOthersKeep ==
    ASSUME TypeOK, NEW p \in Procs, \A q \in Procs : q # p => mReservedMb'[q] = mReservedMb[q],
           \A pid \in Pids : mPidToProcess[pid] = p => child[pid] \notin {"running", "zombie"}
    PROVE  \A pid \in Pids : child[pid] \in {"running", "zombie"} /\ mPidToProcess[pid] # NoOne
             => mReservedMb'[mPidToProcess[pid]] = mReservedMb[mPidToProcess[pid]]
  BY DEF TypeOK

LEMMA StepHoldsMemory ==
    ASSUME ProcessInv, Next
    PROVE  \A pid \in Pids : child[pid] \in {"running", "zombie"} /\ mPidToProcess[pid] # NoOne
             => mReservedMb'[mPidToProcess[pid]] = mReservedMb[mPidToProcess[pid]]
  <1> DEFINE Held == \A pid \in Pids : child[pid] \in {"running", "zombie"} /\ mPidToProcess[pid] # NoOne
                       => mReservedMb'[mPidToProcess[pid]] = mReservedMb[mPidToProcess[pid]]
             OnlyOf(p) == \A q \in Procs : q # p => mReservedMb'[q] = mReservedMb[q]
  <1>0. TypeOK /\ CallShape /\ LockHeld /\ SpawnPhase /\ FollowedIsKept /\ MapIsInjective /\ MonitorPhase
    BY Zenon DEF ProcessInv
  <1>1. ASSUME NEW p \in Procs, OnlyOf(p), mState[p] = "NotSpawned" \/ processesLock = p
        PROVE  Held
    <2>1. \A pid \in Pids : mPidToProcess[pid] # p
      BY <1>0, <1>1, ZeroIsNoPid DEF FollowedIsKept, Followed, MapIsInjective
    <2> QED BY <1>0, <1>1, <2>1, HeldIfOthersKeep
  <1>2. ASSUME NEW c \in Callers, NEW p \in Procs, SpawnReserve(c, p)
        PROVE  Held
    <2>1. OnlyOf(p) /\ mState[p] = "NotSpawned"
      BY <1>0, <1>2 DEF SpawnReserve, TypeOK
    <2> QED BY <1>1, <2>1
  <1>3. ASSUME NEW c \in Callers, SpawnReserveRest(c) \/ SpawnForkFails(c)
        PROVE  Held
    <2>1. call[c].proc \in Procs
      BY <1>0, <1>3, StepMoves DEF SpawnReserveRest, SpawnForkFails, At
    <2>2. OnlyOf(call[c].proc) /\ mState[call[c].proc] = "NotSpawned"
      BY <1>0, <1>3, <2>1
      DEF SpawnReserveRest, SpawnForkFails, ReleaseMemory, SpawnPhase, At, TypeOK
    <2> QED BY <1>1, <2>1, <2>2
  <1>4. CASE HandleChildExit
    <2> DEFINE p == mPidToProcess[exited]
    <2>1. p \in Procs /\ exited \in Pids /\ child[exited] = "reaped" /\ p # NoOne
      BY <1>0, <1>4 DEF HandleChildExit, MonitorPhase, TypeOK
    <2>2. OnlyOf(p)
      BY <1>0, <1>4, <2>1 DEF HandleChildExit, ReleaseMemory, TypeOK
    <2>3. \A pid \in Pids : mPidToProcess[pid] = p => child[pid] \notin {"running", "zombie"}
      BY <1>0, <2>1 DEF MapIsInjective
    <2> HIDE DEF p
    <2> QED BY <1>0, <2>1, <2>2, <2>3, HeldIfOthersKeep
  <1>5. CASE Terminated
    <2>1. processesLock \in Procs
      BY <1>0, <1>5 DEF Terminated, MonitorPhase, TypeOK
    <2>2. OnlyOf(processesLock)
      BY <1>0, <1>5, <2>1 DEF Terminated, ReleaseMemory, TypeOK, processVars
    <2> QED BY <1>1, <2>1, <2>2
  <1>6. ASSUME UNCHANGED mReservedMb
        PROVE  Held
    BY <1>6
  <1>7. ASSUME NEW c \in Callers, NEW p \in Procs, NEW fast \in BOOLEAN,
               \/ SpawnRefused(c, p) \/ SpawnPipeFails(c, p) \/ Terminate(c, p, fast) \/ WaitForExit(c, p)
               \/ Reset(c, p) \/ RemoveProcess(c, p)
        PROVE  Held
    <2>1. UNCHANGED mReservedMb
      BY <1>7
      DEF SpawnRefused, SpawnPipeFails, Terminate, WaitForExit, Reset, RemoveProcess,
          processVars
    <2> QED BY <1>6, <2>1
  <1>8. ASSUME NEW c \in Callers,
               \/ SpawnFork(c) \/ SpawnPostFork(c) \/ StartTerminationThread(c) \/ WaitTest(c) \/ WaitTimeout(c)
               \/ ResetJoin(c) \/ ResetSet(c) \/ RemoveTerminate(c) \/ RemoveErase(c)
        PROVE  Held
    <2>1. UNCHANGED mReservedMb
      BY <1>8
      DEF SpawnFork, SpawnPostFork, StartTerminationThread, WaitTest, WaitTimeout, ResetJoin, ResetSet,
          RemoveTerminate, RemoveErase, processVars
    <2> QED BY <1>6, <2>1
  <1>9. CASE \/ \E p \in Procs : TermStep(p)
             \/ \E pid \in Pids : ChildExits(pid)
             \/ ExitMonitor \/ TerminatedNotify
    <2>1. UNCHANGED mReservedMb
      BY <1>9
      DEF TermStep, TermStart, TermExitSeen, TermTimeout, ChildExits, ExitMonitor,
          TerminatedNotify, processVars
    <2> QED BY <1>6, <2>1
  <1> QED BY <1>2, <1>3, <1>4, <1>5, <1>7, <1>8, <1>9, Zenon DEF Next, CallerStep, MonitorStep

\* A child's memory stays reserved until its exit was collected, also when the process was given up as
\* UNINTERRUPTABLE or removed (ProcessManager::releaseMemory is reached from handleChildExit only).
THEOREM MemoryIsHeld == ASSUME QuietReset PROVE Spec => MemoryHeldUntilExit
  <1> DEFINE Step == \A pid \in Pids : child[pid] \in {"running", "zombie"} /\ mPidToProcess[pid] # NoOne
                       => mReservedMb'[mPidToProcess[pid]] = mReservedMb[mPidToProcess[pid]]
  <1>1. ProcessInv /\ [Next]_vars => [Step]_vars
    BY StepHoldsMemory, Zenon
  <1> QED BY <1>1, ProcessInvHolds, PTL DEF Spec, MemoryHeldUntilExit

LEMMA StepKeepsStatus ==
    ASSUME ProcessInv, Next
    PROVE  \A p \in Procs : mState[p] = "Terminated" => mStatus'[p] = mStatus[p] \/ mState'[p] # "Terminated"
  <1> DEFINE Settled == \A p \in Procs : mState[p] = "Terminated" => mStatus'[p] = mStatus[p]
  <1>0. TypeOK /\ CallShape /\ SpawnPhase /\ MonitorPhase
    BY Zenon DEF ProcessInv
  <1>1. ASSUME NEW p \in Procs, NEW status, TerminatedInternal(p, status)
        PROVE  Settled
    BY <1>0, <1>1 DEF TerminatedInternal, TypeOK
  <1>2. ASSUME UNCHANGED mStatus
        PROVE  Settled
    BY <1>2
  <1>3. ASSUME NEW c \in Callers, NEW p \in Procs, NEW fast \in BOOLEAN,
               \/ SpawnRefused(c, p) \/ SpawnPipeFails(c, p) \/ SpawnReserve(c, p) \/ Terminate(c, p, fast)
               \/ WaitForExit(c, p) \/ Reset(c, p) \/ RemoveProcess(c, p)
        PROVE  Settled
    <2>1. \/ UNCHANGED mStatus \/ TerminatedInternal(p, "FORK_FAILED") \/ TerminatedInternal(p, "NOT_SPAWNED")
      BY <1>3
      DEF SpawnRefused, SpawnPipeFails, SpawnReserve, Terminate, TerminateLocked, WaitForExit, Reset,
          RemoveProcess, processVars
    <2> QED BY <1>1, <1>2, <2>1
  <1>4. ASSUME NEW c \in Callers, CallerStep(c) \/ WaitTimeout(c)
        PROVE  Settled
    <2>1. CASE SpawnForkFails(c) \/ RemoveTerminate(c)
      <3>1. call[c].proc \in Procs
        BY <1>0, <2>1, StepMoves DEF SpawnForkFails, RemoveTerminate, At
      <3>2. \/ UNCHANGED mStatus
            \/ TerminatedInternal(call[c].proc, "FORK_FAILED")
            \/ TerminatedInternal(call[c].proc, "NOT_SPAWNED")
        BY <2>1 DEF SpawnForkFails, RemoveTerminate, TerminateLocked
      <3> QED BY <1>1, <1>2, <3>1, <3>2
    <2>2. CASE ~(SpawnForkFails(c) \/ RemoveTerminate(c))
      <3>1. UNCHANGED mStatus
        BY <1>4, <2>2
        DEF CallerStep, SpawnReserveRest, SpawnFork, SpawnPostFork, StartTerminationThread,
            WaitTest, WaitTimeout,
            ResetJoin, ResetSet, RemoveErase, processVars
      <3> QED BY <1>2, <3>1
    <2> QED BY <2>1, <2>2
  <1>5. ASSUME NEW p \in Procs, TermStep(p)
        PROVE  Settled
    <2>1. UNCHANGED mStatus \/ TerminatedInternal(p, "UNINTERRUPTABLE")
      BY <1>5 DEF TermStep, TermStart, TermExitSeen, TermTimeout, processVars
    <2> QED BY <1>1, <1>2, <2>1
  <1>6. ASSUME Terminated
        PROVE  Settled
    <2>1. processesLock \in Procs
      BY <1>0, <1>6 DEF Terminated, MonitorPhase, TypeOK
    <2> QED BY <1>0, <1>6, <2>1 DEF Terminated, TypeOK, processVars
  <1>7. ASSUME ExitMonitor \/ HandleChildExit \/ TerminatedNotify \/ \E pid \in Pids : ChildExits(pid)
        PROVE  Settled
    <2>1. UNCHANGED mStatus
      BY <1>7 DEF ExitMonitor, HandleChildExit, TerminatedNotify, ChildExits, processVars
    <2> QED BY <1>2, <2>1
  <1>8. Settled
    BY <1>3, <1>4, <1>5, <1>6, <1>7, Zenon DEF Next, MonitorStep
  <1> QED BY <1>8

\* The status is settled by whoever marks the process Terminated first (Process::terminated and
\* terminated_internal): a late exit or a late timeout leaves it.
THEOREM StatusIsSettledOnce == ASSUME QuietReset PROVE Spec => StatusIsFinal
  <1> DEFINE Step == \A p \in Procs : mState[p] = "Terminated" => mStatus'[p] = mStatus[p]
                                                                  \/ mState'[p] # "Terminated"
  <1>1. ProcessInv /\ [Next]_vars => [Step]_vars
    BY StepKeepsStatus, Zenon
  <1> QED BY <1>1, ProcessInvHolds, PTL DEF Spec, StatusIsFinal
===============================================================================
