---------------------------- MODULE ThreadsafeQueue ----------------------------
(***************************************************************************)
(* impl::ThreadsafeQueue<T>: an unbounded queue guarded by one mutex and   *)
(* two condition variables.  The mutex is never held across a wait, so a   *)
(* step of the model is one critical section, and the places where the     *)
(* mutex is not held (blocked in wait, woken but not yet running, between  *)
(* unlock and notify) are control points of the thread.                    *)
(*                                                                         *)
(* `accepted' and `delivered' are history variables: what push put in the  *)
(* queue and what pop gave back.                                           *)
(***************************************************************************)
EXTENDS Integers, Sequences

CONSTANTS Values,      \* the items
          Producers,   \* threads that call push
          Consumers,   \* threads that call pop
          Observers,   \* threads that call waitUntilEmpty
          Owner,       \* the thread that calls shutdown (also the destructor)
          MaxPush      \* bound on the number of pushes accepted

ASSUME ThreadsAssumption ==
    /\ Consumers # {}
    /\ Owner \notin Producers \cup Consumers \cup Observers
    /\ Producers \cap Consumers = {}
    /\ Producers \cap Observers = {}
    /\ Consumers \cap Observers = {}
ASSUME MaxPushAssumption == MaxPush \in Nat

VARIABLES mQueue, mShutdown,   \* the members of the class
          pc,                  \* where each thread is
          timed,               \* whether its wait has a (non-zero) timeout
          accepted, delivered  \* history

vars == <<mQueue, mShutdown, pc, timed, accepted, delivered>>

Threads == Producers \cup Consumers \cup Observers \cup {Owner}

Points == {"idle",        \* not in a call
           "notify",      \* push: unlocked, notify_one not yet called
           "waiting",     \* blocked in a condition variable
           "woken",       \* notified (or woken spuriously), mutex not yet held
           "closing",     \* shutdown: flag set, first notify_all not yet called
           "closingEmpty"}\* shutdown: second notify_all not yet called

Init ==
    /\ mQueue = <<>>
    /\ mShutdown = FALSE
    /\ pc = [t \in Threads |-> "idle"]
    /\ timed = [t \in Threads |-> FALSE]
    /\ accepted = <<>>
    /\ delivered = <<>>

Goto(t, point) == pc' = [pc EXCEPT ![t] = point]

\* The threads of S blocked in a condition variable are all woken.
WakeAll(S, f) == [t \in Threads |-> IF t \in S /\ f[t] = "waiting" THEN "woken" ELSE f[t]]

------------------------------------------------------------------------------
\* push: throws ShutdownException after shutdown (the caller is idle again),
\* otherwise enqueues and releases the mutex before it notifies.
Push(t, v) ==
    /\ pc[t] = "idle"
    /\ ~mShutdown
    /\ Len(accepted) < MaxPush
    /\ mQueue' = Append(mQueue, v)
    /\ accepted' = Append(accepted, v)
    /\ Goto(t, "notify")
    /\ UNCHANGED <<mShutdown, timed, delivered>>

\* MUTANT of PushNotify: the notification is forgotten.
PushNotifyLost(t) ==
    /\ pc[t] = "notify"
    /\ Goto(t, "idle")
    /\ UNCHANGED <<mQueue, mShutdown, timed, accepted, delivered>>

\* notify_one on mNotEmptyCondition: wakes one consumer, if one is blocked.
PushNotify(t) ==
    /\ pc[t] = "notify"
    /\ \/ \E c \in Consumers :
            /\ pc[c] = "waiting"
            /\ pc' = [pc EXCEPT ![t] = "idle", ![c] = "woken"]
       \/ /\ \A c \in Consumers : pc[c] # "waiting"
          /\ Goto(t, "idle")
    /\ UNCHANGED <<mQueue, mShutdown, timed, accepted, delivered>>

\* The item at the front is returned; whoever waits for the queue to be empty
\* is notified when this was the last one.
TakeFront(t) ==
    /\ mQueue # <<>>
    /\ mQueue' = Tail(mQueue)
    /\ delivered' = Append(delivered, Head(mQueue))
    /\ LET returned == [pc EXCEPT ![t] = "idle"]
       IN  pc' = IF Tail(mQueue) = <<>> THEN WakeAll(Observers, returned) ELSE returned
    /\ UNCHANGED <<mShutdown, accepted>>

\* pop is called: it throws, takes an item at once or blocks.
Pop(t, withTimeout) ==
    /\ pc[t] = "idle"
    /\ ~mShutdown
    /\ timed' = [timed EXCEPT ![t] = withTimeout]
    /\ \/ TakeFront(t)
       \/ /\ mQueue = <<>>
          /\ Goto(t, "waiting")
          /\ UNCHANGED <<mQueue, mShutdown, accepted, delivered>>

\* MUTANT of PopResume: mShutdown is tested only before the first wait.
PopResumeNoTest(t) ==
    /\ pc[t] = "woken"
    /\ UNCHANGED timed
    /\ \/ TakeFront(t)
       \/ /\ mQueue = <<>>
          /\ Goto(t, "waiting")
          /\ UNCHANGED <<mQueue, mShutdown, accepted, delivered>>

\* pop runs again after a wake-up: shutdown is tested first, then the loop
\* condition, so it throws, takes an item or blocks again.
PopResume(t) ==
    /\ pc[t] = "woken"
    /\ UNCHANGED timed
    /\ \/ /\ ~mShutdown
          /\ TakeFront(t)
       \/ /\ \/ mShutdown /\ Goto(t, "idle")
             \/ ~mShutdown /\ mQueue = <<>> /\ Goto(t, "waiting")
          /\ UNCHANGED <<mQueue, mShutdown, accepted, delivered>>

\* waitUntilEmpty is called: it throws, returns at once or blocks.
WaitUntilEmpty(t, withTimeout) ==
    /\ pc[t] = "idle"
    /\ ~mShutdown
    /\ mQueue # <<>>
    /\ timed' = [timed EXCEPT ![t] = withTimeout]
    /\ Goto(t, "waiting")
    /\ UNCHANGED <<mQueue, mShutdown, accepted, delivered>>

\* waitUntilEmpty runs again: it blocks again when the queue was refilled
\* before it could look.
WaitUntilEmptyResume(t) ==
    /\ pc[t] = "woken"
    /\ Goto(t, IF ~mShutdown /\ mQueue # <<>> THEN "waiting" ELSE "idle")
    /\ UNCHANGED <<mQueue, mShutdown, timed, accepted, delivered>>

\* wait_for reports a timeout, which it may also do to a thread that has just
\* been notified (the status compares the clock with the deadline after the
\* thread has run again): the call returns false and looks at nothing else.
Timeout(t) ==
    /\ pc[t] \in {"waiting", "woken"}
    /\ timed[t]
    /\ Goto(t, "idle")
    /\ UNCHANGED <<mQueue, mShutdown, timed, accepted, delivered>>

\* A condition variable may wake a thread that nobody notified.
SpuriousWakeup(t) ==
    /\ pc[t] = "waiting"
    /\ Goto(t, "woken")
    /\ UNCHANGED <<mQueue, mShutdown, timed, accepted, delivered>>

\* shutdown sets the flag under the mutex ...
Shutdown ==
    /\ pc[Owner] = "idle"
    /\ mShutdown' = TRUE
    /\ Goto(Owner, "closing")
    /\ UNCHANGED <<mQueue, timed, accepted, delivered>>

\* MUTANT of ShutdownNotify: notify_one in place of notify_all.
ShutdownNotifyOne ==
    /\ pc[Owner] = "closing"
    /\ \/ \E c \in Consumers :
            /\ pc[c] = "waiting"
            /\ pc' = [pc EXCEPT ![Owner] = "closingEmpty", ![c] = "woken"]
       \/ /\ \A c \in Consumers : pc[c] # "waiting"
          /\ Goto(Owner, "closingEmpty")
    /\ UNCHANGED <<mQueue, mShutdown, timed, accepted, delivered>>

\* ... then calls notify_all on mNotEmptyCondition ...
ShutdownNotify ==
    /\ pc[Owner] = "closing"
    /\ pc' = WakeAll(Consumers, [pc EXCEPT ![Owner] = "closingEmpty"])
    /\ UNCHANGED <<mQueue, mShutdown, timed, accepted, delivered>>

\* ... and on mEmptyCondition.
ShutdownNotifyEmpty ==
    /\ pc[Owner] = "closingEmpty"
    /\ pc' = WakeAll(Observers, [pc EXCEPT ![Owner] = "idle"])
    /\ UNCHANGED <<mQueue, mShutdown, timed, accepted, delivered>>

------------------------------------------------------------------------------
\* The steps by which a call that has been made runs on to its end.
Progress(t) ==
    \/ t \in Producers /\ PushNotify(t)
    \/ t \in Consumers /\ PopResume(t)
    \/ t \in Observers /\ WaitUntilEmptyResume(t)
    \/ t = Owner /\ (ShutdownNotify \/ ShutdownNotifyEmpty)

Next ==
    \/ \E t \in Producers, v \in Values : Push(t, v)
    \/ \E t \in Producers : PushNotify(t)
    \/ \E t \in Consumers, b \in BOOLEAN : Pop(t, b)
    \/ \E t \in Consumers : PopResume(t)
    \/ \E t \in Observers, b \in BOOLEAN : WaitUntilEmpty(t, b)
    \/ \E t \in Observers : WaitUntilEmptyResume(t)
    \/ \E t \in Consumers \cup Observers : Timeout(t) \/ SpuriousWakeup(t)
    \/ Shutdown
    \/ ShutdownNotify
    \/ ShutdownNotifyEmpty

Spec == Init /\ [][Next]_vars

\* A thread that can run is eventually scheduled; nobody has to call anything.
FairSpec == Spec /\ \A t \in Threads : WF_vars(Progress(t))

------------------------------------------------------------------------------
\* Types of the members and of the threads' control state; shutdown notifies
\* only once the flag is set.
TypeOK ==
    /\ mQueue \in Seq(Values)
    /\ mShutdown \in BOOLEAN
    /\ pc \in [Threads -> Points]
    /\ timed \in [Threads -> BOOLEAN]
    /\ accepted \in Seq(Values)
    /\ delivered \in Seq(Values)
    /\ pc[Owner] # "idle" => mShutdown

\* No lost wake-up: while an item is in the queue, either a push still has its
\* notify_one to make or some consumer is not blocked.  So items never sit in
\* the queue with every consumer asleep (push notifies after it has unlocked,
\* and pop returns on a timeout without looking at the queue again).
NoLostWakeup ==
    mQueue # <<>> => \/ \E p \in Producers : pc[p] = "notify"
                     \/ \E c \in Consumers : pc[c] # "waiting"

\* The items in the queue are exactly those accepted and not yet delivered, in
\* their order: nothing is lost, duplicated or overtaken, whatever the
\* interleaving of push, pop, timeouts and shutdown.
Conservation == accepted = delivered \o mQueue

\* The queue is a channel that closes (AcceptAfterShutdown and
\* DeliverAfterShutdown cannot happen, delivery is first in, first out).
Channel == INSTANCE MessageChannel WITH closed <- mShutdown
ImplementsChannel == Channel!Spec

\* shutdown unblocks everybody: each thread blocked in a call when the queue is
\* shut down comes back from it, even if it was entering the wait at the time.
ShutdownReleasesAll ==
    \A t \in Consumers \cup Observers :
        (mShutdown /\ pc[t] # "idle") ~> (pc[t] = "idle")
===============================================================================
