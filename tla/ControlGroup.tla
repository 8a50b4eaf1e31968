----------------------------- MODULE ControlGroup -----------------------------
(***************************************************************************)
(* ControlGroup and the part of ProcessManager that uses it: one control   *)
(* group per process, its memory limit, the thread that watches for groups *)
(* out of memory, and the memory lent to them.  ProcessManager.tla has the *)
(* rest of a process's life; here spawn, termination and exit are only the *)
(* callbacks they make (preFork, failedFork, postForkChild, exit).         *)
(*                                                                         *)
(* The kernel (groups, tasks, oom events, descriptors) is external.        *)
(* Nothing in src/ calls monitorOom(group, true): Monitored is the set of  *)
(* groups a caller of that public operation watches, {} in the program as  *)
(* it stands.  Memory is counted in loans of 128 Mb.                       *)
(***************************************************************************)
EXTENDS Integers, FiniteSets, Sequences, FiniteSetsExt, Functions

CONSTANTS
    NumProcs,     \* processes 1 .. NumProcs, numbered in the order of their ids
    AvailableMb,  \* memory handed to the ProcessManager
    AssignedMb,   \* per process, SpawnArgs::assignedMb
    Monitored,    \* groups watched with monitorOom(group, true)
    CleanedUp     \* processes spawned with cleanupProcessGroup

Processes == 1 .. NumProcs
MaxFd == NumProcs
NoFd == 0
Huge == AvailableMb + 1    \* more memory than there is
Threads == {"reaper", "oom"}
Idle == [pc |-> "idle", p |-> 0, fd |-> NoFd]

\* The coordinator never sends a computation that does not fit: only loans cause
\* a shortfall (MemoryTracking.h).
ASSUME ResourceAssumption ==
    /\ NumProcs \in Nat \ {0} /\ AvailableMb \in Nat
    /\ AssignedMb \in [Processes -> Nat]
    /\ MapThenSumSet(LAMBDA p : AssignedMb[p], Processes) <= AvailableMb
    /\ Monitored \subseteq Processes /\ CleanedUp \subseteq Processes

VARIABLES
    conf,           \* the manager's mode: [phase, cgroups, loan, hierarchy]
    mState,         \* per process
    spawning,       \* per process, the step of spawn: none, await, create, fork, child
    mReservedMb, mBorrowedMb, mCGroupExists,
    mem,            \* MemoryTracking: [reserved, borrowed]
    grp,            \* kernel: the groups that exist
    child,          \* kernel: per process, its child: none, running, dead, reaped
    fdTable,        \* kernel: the oom_control file each descriptor reads, 0 when closed
    event,          \* kernel: mEventFd is readable
    mOomFds, mFastOomCheck,
    call,           \* per thread, the monitorOom(group, false) or destroy in progress
    oom,            \* the oom thread: [pc, groups], the groups it has yet to handle
    aborted         \* how the program ended in std::terminate, "no" while it runs

procVars == <<mState, spawning, mReservedMb, mBorrowedMb, mCGroupExists, mem>>
kernelVars == <<grp, child, fdTable, event>>
groupVars == <<mOomFds, mFastOomCheck, call, oom>>
vars == <<conf, procVars, kernelVars, groupVars, aborted>>

Init ==
    /\ conf \in [phase : {"new"}, cgroups : BOOLEAN, loan : BOOLEAN, hierarchy : BOOLEAN]
    /\ mState = [p \in Processes |-> "NotSpawned"]
    /\ spawning = [p \in Processes |-> "none"]
    /\ mReservedMb = [p \in Processes |-> 0] /\ mBorrowedMb = [p \in Processes |-> 0]
    /\ mCGroupExists = [p \in Processes |-> FALSE]
    /\ mem = [reserved |-> 0, borrowed |-> 0]
    /\ grp = << >> /\ child = [p \in Processes |-> "none"]
    /\ fdTable = [f \in 1 .. MaxFd |-> 0] /\ event = FALSE
    /\ mOomFds = << >> /\ mFastOomCheck = FALSE
    /\ call = [t \in Threads |-> Idle]
    /\ oom = [pc |-> "wait", groups |-> {}]
    /\ aborted = "no"

Groups == DOMAIN grp
Tasks(p) == IF p \in Groups THEN grp[p].tasks ELSE {}
UnderOom(p) == p \in Groups /\ grp[p].oom

-----------------------------------------------------------------------------
(* The manager's constructor. *)

\* setBaseGroup checks the mounted controllers and tries a group out.  A manager
\* without control groups enforces nothing and lends nothing.
SetBaseGroup(works) == [conf EXCEPT !.phase = "ready", !.cgroups = @ /\ works, !.hierarchy = @ /\ works]

InitControlGroups ==
    /\ conf.phase = "new"
    /\ \E works \in BOOLEAN :
          \E c \in {SetBaseGroup(works)} : conf' = [c EXCEPT !.loan = @ /\ c.cgroups]
    /\ UNCHANGED <<procVars, kernelVars, groupVars, aborted>>

-----------------------------------------------------------------------------
(* Spawn: reserveMemory, createControlSubgroup, fork, addChildToSubgroup. *)

Free == AvailableMb - mem.reserved - mem.borrowed
Borrowers == {p \in Processes : mBorrowedMb[p] > 0}
BiggestBorrower ==
    CHOOSE b \in Borrowers : \A q \in Borrowers :
        mBorrowedMb[q] < mBorrowedMb[b] \/ (mBorrowedMb[q] = mBorrowedMb[b] /\ b <= q)

\* terminate(true) as far as this module sees it: SIGKILL is on its way.
Terminating(p) == [mState EXCEPT ![p] = CASE @ = "NotSpawned" -> "Terminated"
                                          [] @ = "Spawned" -> "Terminating"
                                          [] OTHER -> @]

Reserve(p) ==
    /\ mState[p] = "NotSpawned" /\ spawning[p] = "none" /\ AssignedMb[p] <= Free
    /\ mem' = [mem EXCEPT !.reserved = @ + AssignedMb[p]]
    /\ mReservedMb' = [mReservedMb EXCEPT ![p] = AssignedMb[p]]
    /\ spawning' = [spawning EXCEPT ![p] = "create"]
    /\ UNCHANGED <<conf, mState, mBorrowedMb, mCGroupExists, kernelVars, groupVars, aborted>>

\* The borrower is killed and the loop then waits, with the state lock held, for
\* its mBorrowedMb to become 0.  Nothing lowers it, so no action leaves "await".
ReserveFromBorrower(p) ==
    /\ mState[p] = "NotSpawned" /\ spawning[p] = "none" /\ AssignedMb[p] > Free
    /\ conf.loan /\ Borrowers # {}
    /\ mState' = Terminating(BiggestBorrower)
    /\ spawning' = [spawning EXCEPT ![p] = "await"]
    /\ UNCHANGED <<conf, mReservedMb, mBorrowedMb, mCGroupExists, mem, kernelVars, groupVars, aborted>>

\* The group pauses on oom unless the parent group decides (use_hierarchy).
NewGroup(limit) ==
    [real |-> limit, memsw |-> limit, pause |-> ~conf.hierarchy,
     tasks |-> {}, oom |-> FALSE, watched |-> FALSE]

CreateSubgroup(p) ==
    /\ spawning[p] = "create"
    /\ spawning' = [spawning EXCEPT ![p] = "fork"]
    /\ \/ /\ conf.cgroups /\ ~mCGroupExists[p]
          /\ \E limit \in {IF AssignedMb[p] = 0 THEN Huge ELSE AssignedMb[p]} :
                grp' = [q \in Groups \cup {p} |-> IF q = p THEN NewGroup(limit) ELSE grp[q]]
          /\ mCGroupExists' = [mCGroupExists EXCEPT ![p] = TRUE]
       \/ UNCHANGED <<grp, mCGroupExists>>    \* no control groups, or the kernel refuses
    /\ UNCHANGED <<conf, mState, mReservedMb, mBorrowedMb, mem, child, fdTable, event, groupVars, aborted>>

Fork(p) ==
    /\ spawning[p] = "fork"
    /\ mState' = [mState EXCEPT ![p] = "Spawned"]
    /\ child' = [child EXCEPT ![p] = "running"]
    /\ spawning' = [spawning EXCEPT ![p] = "child"]
    /\ UNCHANGED <<conf, mReservedMb, mBorrowedMb, mCGroupExists, mem, grp, fdTable, event, groupVars, aborted>>

ReleaseMemory(p) ==
    /\ mem' = [mem EXCEPT !.reserved = @ - mReservedMb[p]]
    /\ mReservedMb' = [mReservedMb EXCEPT ![p] = 0]

\* failedFork_cb, in the spawning thread; the group has no tasks and is not watched.
ForkFails(p) ==
    /\ spawning[p] = "fork"
    /\ mState' = [mState EXCEPT ![p] = "Terminated"]
    /\ spawning' = [spawning EXCEPT ![p] = "none"]
    /\ ReleaseMemory(p)
    /\ grp' = Restrict(grp, Groups \ {p})
    /\ mCGroupExists' = [mCGroupExists EXCEPT ![p] = FALSE]
    /\ UNCHANGED <<conf, mBorrowedMb, child, fdTable, event, groupVars, aborted>>

AddTask(p) == grp' = [grp EXCEPT ![p].tasks = @ \cup {"child"}]

\* In the child: addSelfSubgroup, whose failure is only logged, then exec.
AddChild(p) ==
    /\ spawning[p] = "child"
    /\ spawning' = [spawning EXCEPT ![p] = "none"]
    /\ \/ mCGroupExists[p] /\ p \in Groups /\ AddTask(p)
       \/ grp' = grp
    /\ UNCHANGED <<conf, mState, mReservedMb, mBorrowedMb, mCGroupExists, mem, child, fdTable, event,
                   groupVars, aborted>>

-----------------------------------------------------------------------------
(* The kernel and the computations (external). *)

\* A task needs more than its group's limit: it is paused, or killed.
OutOfMemory(p) ==
    /\ child[p] = "running" /\ "child" \in Tasks(p) /\ ~grp[p].oom /\ grp[p].real < Huge
    /\ IF grp[p].pause
       THEN /\ grp' = [grp EXCEPT ![p].oom = TRUE]
            /\ event' = (event \/ grp[p].watched)
            /\ child' = child
       ELSE /\ child' = [child EXCEPT ![p] = "dead"]
            /\ grp' = [grp EXCEPT ![p].tasks = @ \ {"child"}]
            /\ event' = event
    /\ UNCHANGED <<conf, procVars, fdTable, groupVars, aborted>>

\* Another thread of the computation gives memory back.
FreesMemory(p) ==
    /\ UnderOom(p)
    /\ grp' = [grp EXCEPT ![p].oom = FALSE]
    /\ UNCHANGED <<conf, procVars, child, fdTable, event, groupVars, aborted>>

\* The child ends by itself or by SIGKILL; a process it started may live on in
\* the group.
Exit(p) ==
    /\ child[p] = "running" /\ spawning[p] = "none"
    /\ UnderOom(p) => mState[p] = "Terminating"
    /\ child' = [child EXCEPT ![p] = "dead"]
    /\ \/ /\ "child" \in Tasks(p)
          /\ \E left \in {{}, {"descendant"}} :
                grp' = [grp EXCEPT ![p].tasks = left, ![p].oom = FALSE]
       \/ "child" \notin Tasks(p) /\ grp' = grp
    /\ UNCHANGED <<conf, procVars, fdTable, event, groupVars, aborted>>

\* groupCleanupProc, started after the exit was handled, kills what is left.
GroupCleanup(p) ==
    /\ mState[p] = "Terminated" /\ p \in CleanedUp /\ "descendant" \in Tasks(p)
    /\ grp' = [grp EXCEPT ![p].tasks = {}]
    /\ UNCHANGED <<conf, procVars, child, fdTable, event, groupVars, aborted>>

-----------------------------------------------------------------------------
(* monitorOom. *)

FreeFd == Min({f \in 1 .. MaxFd : fdTable[f] = 0})

AddOomFd(p, f) == mOomFds' = [q \in DOMAIN mOomFds \cup {p} |-> IF q = p THEN f ELSE mOomFds[q]]

MonitorOom(p) ==
    /\ p \in Monitored \cap Groups /\ p \notin DOMAIN mOomFds /\ ~grp[p].watched
    /\ spawning[p] \in {"child", "none"} /\ child[p] = "running"
    /\ \E f \in {FreeFd} : fdTable' = [fdTable EXCEPT ![f] = p] /\ AddOomFd(p, f)
    /\ grp' = [grp EXCEPT ![p].watched = TRUE]
    /\ event' = (event \/ grp[p].oom)
    /\ UNCHANGED <<conf, procVars, child, mFastOomCheck, call, oom, aborted>>

\* The descriptor is looked up, closed and forgotten in three separate steps.
UnmonitorGet(t) ==
    /\ call[t].pc = "unmonitor"
    /\ \E p \in {call[t].p} :
          call' = [call EXCEPT ![t] = IF p \in DOMAIN mOomFds
                                      THEN [pc |-> "close", p |-> p, fd |-> mOomFds[p]]
                                      ELSE [pc |-> "unmonitored", p |-> p, fd |-> NoFd]]
    /\ UNCHANGED <<conf, procVars, kernelVars, mOomFds, mFastOomCheck, oom, aborted>>

UnmonitorClose(t) ==
    /\ call[t].pc = "close"
    /\ fdTable' = [fdTable EXCEPT ![call[t].fd] = 0]
    /\ call' = [call EXCEPT ![t].pc = "forget"]
    /\ UNCHANGED <<conf, procVars, grp, child, event, mOomFds, mFastOomCheck, oom, aborted>>

UnmonitorForget(t) ==
    /\ call[t].pc = "forget"
    /\ mOomFds' = Restrict(mOomFds, DOMAIN mOomFds \ {call[t].p})
    /\ call' = [call EXCEPT ![t].pc = "unmonitored"]
    /\ UNCHANGED <<conf, procVars, kernelVars, mFastOomCheck, oom, aborted>>

-----------------------------------------------------------------------------
(* The exit monitor: exit_cb, then the process is Terminated. *)

ExitCallback(p) ==
    /\ child[p] = "dead" /\ call["reaper"].pc = "idle"
    /\ child' = [child EXCEPT ![p] = "reaped"]
    /\ ReleaseMemory(p)
    /\ call' = [call EXCEPT !["reaper"] =
                    [pc |-> IF mCGroupExists[p] THEN "unmonitor" ELSE "terminated", p |-> p, fd |-> NoFd]]
    /\ UNCHANGED <<conf, mState, spawning, mBorrowedMb, mCGroupExists, grp, fdTable, event,
                   mOomFds, mFastOomCheck, oom, aborted>>

\* A group with tasks is left as it is: destroy throws.
DestroyGroup(p) == IF Tasks(p) = {} THEN Restrict(grp, Groups \ {p}) ELSE grp

\* The error is caught and logged, and mCGroupExists stays set.
Destroy ==
    LET p == call["reaper"].p IN
    /\ call["reaper"].pc = "unmonitored"
    /\ grp' = DestroyGroup(p)
    /\ mCGroupExists' = [mCGroupExists EXCEPT ![p] = p \in DOMAIN grp']
    /\ call' = [call EXCEPT !["reaper"].pc = "terminated"]
    /\ UNCHANGED <<conf, mState, spawning, mReservedMb, mBorrowedMb, mem, child, fdTable, event,
                   mOomFds, mFastOomCheck, oom, aborted>>

MarkTerminated ==
    /\ call["reaper"].pc = "terminated"
    /\ mState' = [mState EXCEPT ![call["reaper"].p] = "Terminated"]
    /\ call' = [call EXCEPT !["reaper"] = Idle]
    /\ UNCHANGED <<conf, spawning, mReservedMb, mBorrowedMb, mCGroupExists, mem, kernelVars,
                   mOomFds, mFastOomCheck, oom, aborted>>

-----------------------------------------------------------------------------
(* The out-of-memory monitor: waitOomStatus and handleOomCondition. *)

\* Each listed descriptor is read: whatever file it is by now.
ScanOomStatus == {p \in DOMAIN mOomFds : UnderOom(fdTable[mOomFds[p]])}

\* The list is in the order of mOomFds, a std::map: the smallest id comes first.
FirstGroup == Min(oom.groups)
OtherGroups == oom.groups \ {FirstGroup}

Handle(groups) ==
    oom' = IF groups = {} THEN [pc |-> "wait", groups |-> {}]
                          ELSE [pc |-> "group", groups |-> groups]

\* With groups out of memory at the last look the list is read without waiting.
WaitSlow ==
    /\ conf.phase = "ready" /\ conf.cgroups /\ oom.pc = "wait" /\ ~mFastOomCheck
    /\ \E groups \in {ScanOomStatus} : Handle(groups) /\ mFastOomCheck' = (groups = {})
    /\ UNCHANGED <<conf, procVars, kernelVars, mOomFds, call, aborted>>

\* mutant: what was found is not looked at again
WaitEventStaysFast ==
    /\ conf.cgroups /\ oom.pc = "wait" /\ mFastOomCheck /\ event
    /\ event' = FALSE
    /\ Handle(ScanOomStatus)
    /\ UNCHANGED <<conf, procVars, grp, child, fdTable, mOomFds, mFastOomCheck, call, aborted>>

WaitEvent ==
    /\ conf.cgroups /\ oom.pc = "wait" /\ mFastOomCheck /\ event
    /\ event' = FALSE
    /\ \E groups \in {ScanOomStatus} : Handle(groups) /\ mFastOomCheck' = (groups = {})
    /\ UNCHANGED <<conf, procVars, grp, child, fdTable, mOomFds, call, aborted>>

\* The first group whose process is not Spawned ends the whole round.
SkipRound ==
    /\ oom.pc = "group" /\ mState[FirstGroup] # "Spawned"
    /\ Handle({})
    /\ UNCHANGED <<conf, procVars, kernelVars, mOomFds, mFastOomCheck, call, aborted>>

LendsUnchecked == conf.loan    \* mutant: borrow does not test what is left
Lends == conf.loan /\ Free >= 1

Borrow ==
    /\ oom.pc = "group" /\ mState[FirstGroup] = "Spawned" /\ Lends
    /\ mem' = [mem EXCEPT !.borrowed = @ + 1]
    /\ oom' = [oom EXCEPT !.pc = "lend"]
    /\ UNCHANGED <<conf, mState, spawning, mReservedMb, mBorrowedMb, mCGroupExists, kernelVars,
                   mOomFds, mFastOomCheck, call, aborted>>

LimitWritesRealFirst(old, total) == <<"real", "memsw">>    \* mutant: always the same order

\* The two limits in the order they are written.
LimitWrites(old, total) ==
    IF total > old.memsw THEN <<"memsw", "real">> ELSE <<"real", "memsw">>

\* The kernel refuses a limit that would put real above memsw.
Write(g, field, total) == [g EXCEPT ![field] = total]
Accepted(g) == g.real <= g.memsw

\* changeMemoryLimitSubgroup throws when the group is gone by now or a write is
\* refused, and nothing catches it in the oom thread.
Lend ==
    LET p == FirstGroup
        total == mBorrowedMb[p] + 1 + mReservedMb[p]
        order == LimitWrites(grp[p], total)
        g1 == Write(grp[p], order[1], total)
        g2 == Write(g1, order[2], total)
    IN
    /\ oom.pc = "lend"
    /\ mBorrowedMb' = [mBorrowedMb EXCEPT ![p] = @ + 1]
    /\ IF p \notin Groups
       THEN aborted' = "group gone" /\ UNCHANGED <<grp, oom>>
       ELSE IF Accepted(g1) /\ Accepted(g2)
       THEN /\ grp' = [grp EXCEPT ![p] = [g2 EXCEPT !.oom = @ /\ total <= grp[p].real]]
            /\ Handle(OtherGroups) /\ aborted' = aborted
       ELSE aborted' = "refused" /\ UNCHANGED <<grp, oom>>
    /\ UNCHANGED <<conf, mState, spawning, mReservedMb, mCGroupExists, mem, child, fdTable, event,
                   mOomFds, mFastOomCheck, call>>

KillProcess ==
    LET p == FirstGroup IN
    /\ oom.pc = "group" /\ mState[p] = "Spawned" /\ ~Lends
    /\ mState' = Terminating(p)
    /\ call' = [call EXCEPT !["oom"] = [pc |-> "unmonitor", p |-> p, fd |-> NoFd]]
    /\ oom' = [oom EXCEPT !.pc = "unmonitor"]
    /\ UNCHANGED <<conf, spawning, mReservedMb, mBorrowedMb, mCGroupExists, mem, kernelVars,
                   mOomFds, mFastOomCheck, aborted>>

KillDone ==
    /\ oom.pc = "unmonitor" /\ call["oom"].pc = "unmonitored"
    /\ call' = [call EXCEPT !["oom"] = Idle]
    /\ Handle(OtherGroups)
    /\ UNCHANGED <<conf, procVars, kernelVars, mOomFds, mFastOomCheck, aborted>>

-----------------------------------------------------------------------------
OomThread == WaitSlow \/ WaitEvent \/ SkipRound \/ Borrow \/ Lend \/ KillProcess \/ KillDone
Unmonitor(t) == UnmonitorGet(t) \/ UnmonitorClose(t) \/ UnmonitorForget(t)
Reaper == (\E p \in Processes : ExitCallback(p)) \/ Destroy \/ MarkTerminated
Spawn(p) == Reserve(p) \/ ReserveFromBorrower(p) \/ CreateSubgroup(p) \/ Fork(p) \/ ForkFails(p) \/ AddChild(p)
Kernel(p) == OutOfMemory(p) \/ FreesMemory(p) \/ Exit(p) \/ GroupCleanup(p)

Next ==
    /\ aborted = "no"
    /\ \/ InitControlGroups
       \/ conf.phase = "ready" /\ \E p \in Processes : Spawn(p) \/ Kernel(p) \/ MonitorOom(p)
       \/ \E t \in Threads : Unmonitor(t)
       \/ Reaper \/ OomThread

Spec == Init /\ [][Next]_vars

Running(A) == aborted = "no" /\ A

\* The two threads run, a signalled child dies, and a group is watched when a
\* caller watches groups at all.
FairSpec ==
    /\ Spec
    /\ WF_vars(Running(OomThread)) /\ WF_vars(Running(Reaper))
    /\ \A t \in Threads : WF_vars(Running(Unmonitor(t)))
    /\ \A p \in Processes :
          /\ WF_vars(Running(Exit(p)) /\ mState[p] = "Terminating")
          /\ WF_vars(Running(MonitorOom(p))) /\ WF_vars(Running(AddChild(p)))

-----------------------------------------------------------------------------
(* Properties. *)

\* Reservations and loans never add up to more than the memory there is, every
\* reservation is the sum of what the processes hold and every loan to a process
\* was taken from the pool first (MemoryTracking, releaseMemory, handleOomCondition):
\* a loan handed out twice, or memory released twice, breaks it.
NotOversold ==
    /\ mem.reserved + mem.borrowed <= AvailableMb
    /\ mem.reserved = MapThenSumSet(LAMBDA p : mReservedMb[p], Processes)
    /\ mem.borrowed = MapThenSumSet(LAMBDA p : mBorrowedMb[p], Processes)
                      + (IF oom.pc = "lend" /\ aborted = "no" THEN 1 ELSE 0)

\* The kernel never refuses a limit: changeMemoryLimit raises memsw before the
\* real limit, so the first is never below the second, not even between two writes.
LimitsAccepted == aborted # "refused"

Watched(p) == p \in DOMAIN mOomFds /\ fdTable[mOomFds[p]] = p

\* A watched group that is out of memory does not stay so: handleOomCondition
\* lends to its process or kills it, also when several groups are out of memory
\* and a round ends at the first process that is already terminating.
OomIsHandled ==
    \A p \in Processes : UnderOom(p) /\ Watched(p) ~> ~UnderOom(p) \/ ~Watched(p) \/ aborted # "no"

=============================================================================
