------------------------- MODULE ThreadsafeQueueProofs -------------------------
(***************************************************************************)
(* Proofs about ThreadsafeQueue for any number of threads, items and       *)
(* pushes: the inductive invariant, no lost wake-up, and the implementation*)
(* of MessageChannel.                                                      *)
(***************************************************************************)
EXTENDS ThreadsafeQueue, SequenceTheorems, TLAPS

\* The inductive invariant: the types, the conservation of items (needed to
\* know that what TakeFront returns is the next value of the channel) and the
\* wake-up accounting.
QueueInv == TypeOK /\ Conservation /\ NoLostWakeup

\* Moving the head of a queue to the end of what was delivered changes nothing.
LEMMA TakeFrontConserves ==
    ASSUME NEW d \in Seq(Values), NEW q \in Seq(Values), q # <<>>
    PROVE  /\ Append(d, Head(q)) \o Tail(q) = d \o q
           /\ Head(q) = (d \o q)[Len(d) + 1]
           /\ Len(d) < Len(d \o q)
           /\ Head(q) \in Values
           /\ Tail(q) \in Seq(Values)
  <1>1. Len(q) > 0 /\ Len(q) \in Nat /\ Len(d) \in Nat
    BY EmptySeq
  <1>2. Head(q) = q[1] /\ Head(q) \in Values /\ Tail(q) \in Seq(Values)
    BY <1>1
  <1>3. Append(d, Head(q)) \o Tail(q) = d \o q
    <2> DEFINE l == Append(d, Head(q)) \o Tail(q)
               r == d \o q
    <2>1. l \in Seq(Values) /\ r \in Seq(Values)
      BY <1>2
    <2>2. Len(l) = Len(r) /\ Len(r) = Len(d) + Len(q)
      BY <1>1, <1>2
    <2>3. ASSUME NEW i \in 1 .. Len(r) PROVE l[i] = r[i]
      BY <1>1, <1>2, <2>2
    <2> HIDE DEF l, r
    <2> QED BY <2>1, <2>2, <2>3, SeqEqual DEF l, r
  <1>4. QED BY <1>1, <1>2, <1>3

\* Appending to the queue appends to what the channel has accepted.
LEMMA AppendConserves ==
    ASSUME NEW d \in Seq(Values), NEW q \in Seq(Values), NEW v \in Values
    PROVE  Append(d \o q, v) = d \o Append(q, v)
  <1> DEFINE l == Append(d \o q, v)
             r == d \o Append(q, v)
  <1>1. /\ l \in Seq(Values) /\ r \in Seq(Values)
        /\ Len(l) = Len(r) /\ Len(r) = Len(d) + Len(q) + 1
    OBVIOUS
  <1>2. ASSUME NEW i \in 1 .. Len(r) PROVE l[i] = r[i]
    BY <1>1
  <1> HIDE DEF l, r
  <1> QED BY <1>1, <1>2, SeqEqual DEF l, r

------------------------------------------------------------------------------
\* The control point of one thread changes: types survive.
LEMMA WakeAllType ==
    ASSUME NEW S, NEW f \in [Threads -> Points]
    PROVE  /\ WakeAll(S, f) \in [Threads -> Points]
           /\ \A t \in Threads : f[t] # "waiting" => WakeAll(S, f)[t] = f[t]
           /\ \A t \in Threads : t \notin S => WakeAll(S, f)[t] = f[t]
           /\ \A t \in Threads : WakeAll(S, f)[t] = "waiting" => f[t] = "waiting"
  BY DEF WakeAll, Points

\* The queue starts empty with nobody waiting.
LEMMA InitInv == Init => QueueInv
  <1> SUFFICES ASSUME Init PROVE QueueInv
    OBVIOUS
  <1>1. TypeOK
    <2>1. mShutdown \in BOOLEAN
      BY Zenon DEF Init
    <2>2. /\ mQueue \in Seq(Values) /\ accepted \in Seq(Values) /\ delivered \in Seq(Values)
          /\ pc \in [Threads -> Points]
          /\ pc[Owner] = "idle"
      BY DEF Init, Points, Threads
    <2>3. timed \in [Threads -> BOOLEAN]
      BY Zenon DEF Init
    <2> QED BY <2>1, <2>2, <2>3 DEF TypeOK
  <1>2. Conservation
    BY DEF Init, Conservation
  <1>3. NoLostWakeup
    BY DEF Init, NoLostWakeup
  <1> QED BY <1>1, <1>2, <1>3 DEF QueueInv

\* What TakeFront does to the invariant, whichever call runs it.
LEMMA TakeFrontInv ==
    ASSUME QueueInv, NEW t \in Consumers, TakeFront(t), timed' \in [Threads -> BOOLEAN]
    PROVE  QueueInv'
  <1> USE ThreadsAssumption DEF QueueInv
  <1> DEFINE returned == [pc EXCEPT ![t] = "idle"]
  <1>1. /\ Append(delivered, Head(mQueue)) \o Tail(mQueue) = delivered \o mQueue
        /\ Head(mQueue) \in Values
        /\ Tail(mQueue) \in Seq(Values)
    <2>1. delivered \in Seq(Values) /\ mQueue \in Seq(Values) /\ mQueue # <<>>
      BY Zenon DEF TakeFront, TypeOK
    <2> QED BY <2>1, TakeFrontConserves, Zenon
  <1>2. t \in Threads /\ t # Owner /\ Owner \in Threads /\ Owner \notin Observers
    BY DEF Threads
  <1>3. returned \in [Threads -> Points] /\ returned[t] = "idle" /\ returned[Owner] = pc[Owner]
    BY <1>2 DEF TypeOK, Points
  <1>4. /\ pc' \in [Threads -> Points]
        /\ pc'[t] = "idle"
        /\ pc'[Owner] = pc[Owner]
    <2>1. CASE Tail(mQueue) = <<>>
      <3>1. pc' = WakeAll(Observers, returned)
        BY <2>1 DEF TakeFront
      <3> HIDE DEF returned
      <3> QED BY <1>2, <1>3, <3>1, WakeAllType
    <2>2. CASE Tail(mQueue) # <<>>
      <3>1. pc' = returned
        BY <2>2 DEF TakeFront
      <3> QED BY <1>3, <3>1
    <2> QED BY <2>1, <2>2
  <1>5. TypeOK'
    <2>1. mShutdown' = mShutdown /\ accepted' = accepted
      BY Zenon DEF TakeFront
    <2>2. mQueue' \in Seq(Values) /\ delivered' \in Seq(Values)
      BY <1>1 DEF TakeFront, TypeOK
    <2> QED BY <1>4, <2>1, <2>2, Zenon DEF TypeOK
  <1>6. Conservation'
    BY <1>1 DEF TakeFront, Conservation
  <1>7. NoLostWakeup'
    BY <1>4 DEF NoLostWakeup
  <1> QED BY <1>5, <1>6, <1>7

\* A step that only moves threads about, keeps the queue and the histories, and
\* leaves a consumer awake or a notification pending whenever there is an item.
LEMMA ControlStepInv ==
    ASSUME QueueInv, UNCHANGED <<mQueue, mShutdown, accepted, delivered>>,
           timed' \in [Threads -> BOOLEAN],
           pc' \in [Threads -> Points],
           pc'[Owner] = pc[Owner] \/ mShutdown,
           NoLostWakeup'
    PROVE  QueueInv'
  <1>1. mShutdown' = mShutdown /\ mQueue' = mQueue /\ accepted' = accepted /\ delivered' = delivered
    BY Zenon
  <1>2. Conservation'
    BY <1>1 DEF QueueInv, Conservation
  <1>3. pc[Owner] = "idle" \/ mShutdown
    BY Zenon DEF QueueInv, TypeOK
  <1>4. pc'[Owner] # "idle" => mShutdown'
    <2>1. CASE mShutdown
      BY <1>1, <2>1, SMT
    <2>2. CASE pc'[Owner] = pc[Owner]
      <3>1. pc'[Owner] # "idle" => pc[Owner] # "idle"
        BY <2>2
      <3>2. pc'[Owner] # "idle" => mShutdown
        BY <1>3, <3>1, Zenon
      <3> QED BY <1>1, <3>2, SMT
    <2> QED BY <2>1, <2>2, Zenon
  <1>5. TypeOK'
    BY <1>1, <1>4, Zenon DEF QueueInv, TypeOK
  <1> QED BY <1>2, <1>5 DEF QueueInv

\* Every step of every thread preserves the invariant.
LEMMA StepInv == QueueInv /\ [Next]_vars => QueueInv'
  <1> SUFFICES ASSUME QueueInv, [Next]_vars PROVE QueueInv'
    OBVIOUS
  <1> USE ThreadsAssumption
  <1>0. /\ pc \in [Threads -> Points] /\ timed \in [Threads -> BOOLEAN]
        /\ mQueue \in Seq(Values) /\ delivered \in Seq(Values)
        /\ Owner \in Threads
        /\ \A p \in Producers : p \in Threads /\ p # Owner
        /\ \A c \in Consumers : c \in Threads /\ c # Owner /\ c \notin Producers
        /\ \A o \in Observers : o \in Threads /\ o # Owner /\ o \notin Consumers /\ o \notin Producers
    BY DEF QueueInv, TypeOK, Threads
  <1>1. ASSUME NEW t \in Producers, NEW v \in Values, Push(t, v) PROVE QueueInv'
    <2>1. pc' \in [Threads -> Points] /\ pc'[Owner] = pc[Owner] /\ pc'[t] = "notify"
      BY <1>0, <1>1 DEF Push, Goto, Points
    <2>2. mShutdown' = mShutdown /\ timed' = timed /\ delivered' = delivered
      BY <1>1, Zenon DEF Push
    <2>3. mQueue' = Append(mQueue, v) /\ accepted' = Append(accepted, v)
      BY <1>1 DEF Push
    <2>4. mQueue' \in Seq(Values) /\ accepted' \in Seq(Values)
      BY <1>0, <2>3 DEF QueueInv, TypeOK
    <2>5. Conservation'
      <3>1. Append(delivered \o mQueue, v) = delivered \o Append(mQueue, v)
        <4>1. delivered \in Seq(Values) /\ mQueue \in Seq(Values)
          BY <1>0
        <4> QED BY <4>1, AppendConserves, Zenon
      <3> QED BY <2>2, <2>3, <3>1, Zenon DEF QueueInv, Conservation
    <2>6. TypeOK'
      BY <2>1, <2>2, <2>4, Zenon DEF QueueInv, TypeOK
    <2>7. NoLostWakeup'
      BY <2>1 DEF NoLostWakeup
    <2> QED BY <2>5, <2>6, <2>7 DEF QueueInv
  <1>2. ASSUME NEW t \in Producers, PushNotify(t) PROVE QueueInv'
    <2>1. UNCHANGED <<mQueue, mShutdown, timed, accepted, delivered>>
      BY <1>2, Zenon DEF PushNotify
    <2>2. pc' \in [Threads -> Points] /\ pc'[Owner] = pc[Owner]
      BY <1>0, <1>2 DEF PushNotify, Goto, Points
    <2>3. \E c \in Consumers : pc'[c] # "waiting"
      BY <1>0, <1>2 DEF PushNotify, Goto
    <2>4. NoLostWakeup'
      BY <2>3 DEF NoLostWakeup
    <2> QED BY <1>0, <2>1, <2>2, <2>4, ControlStepInv
  <1>3. ASSUME NEW t \in Consumers, NEW b \in BOOLEAN, Pop(t, b) PROVE QueueInv'
    <2>1. timed' \in [Threads -> BOOLEAN]
      <3>1. timed' = [timed EXCEPT ![t] = b]
        BY <1>3, Zenon DEF Pop
      <3> QED BY <1>0, <3>1
    <2>2. CASE TakeFront(t)
      BY <2>1, <2>2, TakeFrontInv
    <2>3. CASE mQueue = <<>> /\ Goto(t, "waiting")
                 /\ UNCHANGED <<mQueue, mShutdown, accepted, delivered>>
      <3>1. pc' \in [Threads -> Points] /\ pc'[Owner] = pc[Owner]
        BY <1>0, <2>3 DEF Goto, Points
      <3>2. NoLostWakeup'
        BY <2>3 DEF NoLostWakeup
      <3> QED BY <2>1, <2>3, <3>1, <3>2, ControlStepInv
    <2> QED BY <1>3, <2>2, <2>3, Zenon DEF Pop
  <1>4. ASSUME NEW t \in Consumers, PopResume(t) PROVE QueueInv'
    <2>1. timed' = timed
      BY <1>4, Zenon DEF PopResume
    <2>2. CASE TakeFront(t)
      BY <1>0, <2>1, <2>2, TakeFrontInv
    <2>3. CASE /\ \/ Goto(t, "idle")
                  \/ mQueue = <<>> /\ Goto(t, "waiting")
               /\ UNCHANGED <<mQueue, mShutdown, accepted, delivered>>
      <3>1. pc' \in [Threads -> Points] /\ pc'[Owner] = pc[Owner]
        BY <1>0, <2>3 DEF Goto, Points
      <3>2. NoLostWakeup'
        BY <1>0, <2>3 DEF NoLostWakeup, Goto
      <3> QED BY <1>0, <2>1, <2>3, <3>1, <3>2, ControlStepInv
    <2> QED BY <1>4, <2>2, <2>3, Zenon DEF PopResume
  <1>5. ASSUME NEW t \in Observers, NEW b \in BOOLEAN, WaitUntilEmpty(t, b) PROVE QueueInv'
    <2>1. UNCHANGED <<mQueue, mShutdown, accepted, delivered>>
      BY <1>5, Zenon DEF WaitUntilEmpty
    <2>2. timed' = [timed EXCEPT ![t] = b]
      BY <1>5, Zenon DEF WaitUntilEmpty
    <2>3. timed' \in [Threads -> BOOLEAN]
      BY <1>0, <2>2
    <2>4. /\ pc' \in [Threads -> Points] /\ pc'[Owner] = pc[Owner]
          /\ \A x \in Producers \cup Consumers : pc'[x] = pc[x]
      BY <1>0, <1>5 DEF WaitUntilEmpty, Goto, Points
    <2>5. NoLostWakeup'
      BY <2>1, <2>4 DEF NoLostWakeup, QueueInv
    <2> QED BY <2>1, <2>3, <2>4, <2>5, ControlStepInv
  <1>6. ASSUME NEW t \in Observers, WaitUntilEmptyResume(t) PROVE QueueInv'
    <2>1. UNCHANGED <<mQueue, mShutdown, timed, accepted, delivered>>
      BY <1>6, Zenon DEF WaitUntilEmptyResume
    <2>2. pc' = [pc EXCEPT ![t] = "waiting"] \/ pc' = [pc EXCEPT ![t] = "idle"]
      BY <1>6, Zenon DEF WaitUntilEmptyResume, Goto
    <2>3. /\ pc' \in [Threads -> Points] /\ pc'[Owner] = pc[Owner]
          /\ \A x \in Producers \cup Consumers : pc'[x] = pc[x]
      BY <1>0, <2>2 DEF Points
    <2>4. NoLostWakeup'
      BY <2>1, <2>3 DEF NoLostWakeup, QueueInv
    <2> QED BY <1>0, <2>1, <2>3, <2>4, ControlStepInv
  <1>7. ASSUME NEW t \in Consumers \cup Observers, Timeout(t) \/ SpuriousWakeup(t)
        PROVE QueueInv'
    <2>1. UNCHANGED <<mQueue, mShutdown, timed, accepted, delivered>>
      BY <1>7, Zenon DEF Timeout, SpuriousWakeup
    <2>2. pc' = [pc EXCEPT ![t] = "idle"] \/ pc' = [pc EXCEPT ![t] = "woken"]
      BY <1>7, Zenon DEF Timeout, SpuriousWakeup, Goto
    <2>3. /\ pc' \in [Threads -> Points] /\ pc'[Owner] = pc[Owner]
          /\ \A x \in Producers : pc'[x] = pc[x]
          /\ \A x \in Consumers : pc'[x] = "waiting" => pc[x] = "waiting"
      BY <1>0, <2>2 DEF Points
    <2>4. NoLostWakeup'
      BY <2>1, <2>3 DEF NoLostWakeup, QueueInv
    <2> QED BY <1>0, <2>1, <2>3, <2>4, ControlStepInv
  <1>8. CASE Shutdown
    <2>1. mQueue' = mQueue /\ timed' = timed /\ accepted' = accepted /\ delivered' = delivered
      BY <1>8, Zenon DEF Shutdown
    <2>2. mShutdown' /\ mShutdown' \in BOOLEAN
      BY <1>8, Zenon DEF Shutdown
    <2>3. /\ pc' \in [Threads -> Points]
          /\ \A x \in Producers \cup Consumers : pc'[x] = pc[x]
      BY <1>0, <1>8 DEF Shutdown, Goto, Points
    <2>4. NoLostWakeup'
      BY <2>1, <2>3 DEF NoLostWakeup, QueueInv
    <2>5. Conservation'
      BY <2>1 DEF Conservation, QueueInv
    <2>6. TypeOK'
      BY <1>0, <2>1, <2>2, <2>3, Zenon DEF TypeOK, QueueInv
    <2> QED BY <2>4, <2>5, <2>6 DEF QueueInv
  <1>9. CASE ShutdownNotify \/ ShutdownNotifyEmpty
    <2>1. UNCHANGED <<mQueue, mShutdown, timed, accepted, delivered>>
      BY <1>9, Zenon DEF ShutdownNotify, ShutdownNotifyEmpty
    <2>2. PICK point \in {"idle", "closingEmpty"} : \E S : pc' = WakeAll(S, [pc EXCEPT ![Owner] = point])
      <3>1. CASE ShutdownNotify
        <4>1. pc' = WakeAll(Consumers, [pc EXCEPT ![Owner] = "closingEmpty"])
          BY <3>1, Zenon DEF ShutdownNotify
        <4> QED BY <4>1, Zenon
      <3>2. CASE ShutdownNotifyEmpty
        <4>1. pc' = WakeAll(Observers, [pc EXCEPT ![Owner] = "idle"])
          BY <3>2, Zenon DEF ShutdownNotifyEmpty
        <4> QED BY <4>1, Zenon
      <3> QED BY <1>9, <3>1, <3>2, Zenon
    <2>3. pc[Owner] # "idle"
      BY <1>9 DEF ShutdownNotify, ShutdownNotifyEmpty
    <2>4. mShutdown
      BY <2>3, Zenon DEF QueueInv, TypeOK
    <2> DEFINE f == [pc EXCEPT ![Owner] = point]
    <2>5. f \in [Threads -> Points] /\ \A x \in Producers \cup Consumers : f[x] = pc[x]
      BY <1>0 DEF Points
    <2>6. /\ pc' \in [Threads -> Points]
          /\ \A x \in Threads : f[x] # "waiting" => pc'[x] = f[x]
          /\ \A x \in Threads : pc'[x] = "waiting" => f[x] = "waiting"
      <3> HIDE DEF f
      <3>1. PICK S : pc' = WakeAll(S, f)
        BY <2>2, Zenon DEF f
      <3> QED BY <2>5, <3>1, WakeAllType
    <2>7. NoLostWakeup'
      <3> HIDE DEF f
      <3> QED BY <1>0, <2>1, <2>5, <2>6 DEF NoLostWakeup, QueueInv
    <2> HIDE DEF f
    <2> QED BY <1>0, <2>1, <2>4, <2>6, <2>7, ControlStepInv
  <1>10. CASE UNCHANGED vars
    <2>1. /\ mQueue' = mQueue /\ mShutdown' = mShutdown /\ pc' = pc /\ timed' = timed
          /\ accepted' = accepted /\ delivered' = delivered
      BY <1>10, Zenon DEF vars
    <2> QED BY <2>1, Zenon DEF QueueInv, TypeOK, Conservation, NoLostWakeup
  <1> QED
    BY <1>1, <1>2, <1>3, <1>4, <1>5, <1>6, <1>7, <1>8, <1>9, <1>10, Zenon DEF Next

\* The inductive invariant holds in every reachable state.
LEMMA InvariantHolds == Spec => []QueueInv
  <1> QED BY InitInv, StepInv, PTL DEF Spec

\* Type correctness of the queue and of the threads' control state.
THEOREM TypeCorrect == Spec => []TypeOK
  <1>1. QueueInv => TypeOK
    BY DEF QueueInv
  <1> QED BY <1>1, InvariantHolds, PTL

\* No lost wake-up, for any number of producers, consumers and observers, with
\* or without timeouts, and with spurious wake-ups: an item in the queue always
\* has a notification on its way or a consumer that is not blocked.
THEOREM NoWakeupIsLost == Spec => []NoLostWakeup
  <1>1. QueueInv => NoLostWakeup
    BY DEF QueueInv
  <1> QED BY <1>1, InvariantHolds, PTL

\* Nothing is lost, duplicated or reordered.
THEOREM ItemsAreConserved == Spec => []Conservation
  <1>1. QueueInv => Conservation
    BY DEF QueueInv
  <1> QED BY <1>1, InvariantHolds, PTL

------------------------------------------------------------------------------
\* Taking the front item is a Deliver step of the channel.
LEMMA TakeFrontDelivers ==
    ASSUME QueueInv, NEW t, TakeFront(t), ~mShutdown
    PROVE  Channel!Deliver
  <1>1. /\ Head(mQueue) = (delivered \o mQueue)[Len(delivered) + 1]
        /\ Len(delivered) < Len(delivered \o mQueue)
    <2>1. delivered \in Seq(Values) /\ mQueue \in Seq(Values) /\ mQueue # <<>>
      BY Zenon DEF TakeFront, QueueInv, TypeOK
    <2> QED BY <2>1, TakeFrontConserves, Zenon
  <1>2. accepted = delivered \o mQueue
    BY DEF QueueInv, Conservation
  <1>3. Len(delivered) < Len(accepted)
    BY <1>1, <1>2, Zenon
  <1>4. delivered' = Append(delivered, accepted[Len(delivered) + 1])
    <2>1. delivered' = Append(delivered, Head(mQueue))
      BY DEF TakeFront
    <2> QED BY <1>1, <1>2, <2>1, Zenon
  <1>5. UNCHANGED <<accepted, mShutdown>>
    BY Zenon DEF TakeFront
  <1> QED BY <1>3, <1>4, <1>5, Zenon DEF Channel!Deliver

\* Every step of the queue is a step of the channel, or leaves it unchanged.
LEMMA StepSimulates == QueueInv /\ [Next]_vars => [Channel!Next]_Channel!vars
  <1> SUFFICES ASSUME QueueInv, [Next]_vars PROVE Channel!Next \/ UNCHANGED Channel!vars
    BY Zenon
  <1>1. ASSUME NEW t \in Producers, NEW v \in Values, Push(t, v) PROVE Channel!Next
    <2>1. Channel!Accept(v)
      BY <1>1, Zenon DEF Push, Channel!Accept
    <2> QED BY <2>1, Zenon DEF Channel!Next
  <1>2. ASSUME NEW t \in Consumers, NEW b \in BOOLEAN, Pop(t, b)
        PROVE Channel!Next \/ UNCHANGED Channel!vars
    <2>1. CASE TakeFront(t)
      <3>1. ~mShutdown
        BY <1>2, Zenon DEF Pop
      <3> QED BY <2>1, <3>1, TakeFrontDelivers, Zenon DEF Channel!Next
    <2>2. CASE UNCHANGED <<mQueue, mShutdown, accepted, delivered>>
      BY <2>2, Zenon DEF Channel!vars
    <2> QED BY <1>2, <2>1, <2>2, Zenon DEF Pop
  <1>3. ASSUME NEW t \in Consumers, PopResume(t)
        PROVE Channel!Next \/ UNCHANGED Channel!vars
    <2>1. CASE ~mShutdown /\ TakeFront(t)
      BY <2>1, TakeFrontDelivers, Zenon DEF Channel!Next
    <2>2. CASE UNCHANGED <<mQueue, mShutdown, accepted, delivered>>
      BY <2>2, Zenon DEF Channel!vars
    <2> QED BY <1>3, <2>1, <2>2, Zenon DEF PopResume
  <1>4. CASE Shutdown
    BY <1>4, Zenon DEF Shutdown, Channel!Next, Channel!Close
  <1>5. CASE \/ \E t \in Producers : PushNotify(t)
             \/ \E t \in Observers, b \in BOOLEAN : WaitUntilEmpty(t, b)
             \/ \E t \in Observers : WaitUntilEmptyResume(t)
             \/ \E t \in Consumers \cup Observers : Timeout(t) \/ SpuriousWakeup(t)
             \/ ShutdownNotify \/ ShutdownNotifyEmpty
    BY <1>5, Zenon DEF PushNotify, WaitUntilEmpty, WaitUntilEmptyResume, Timeout,
                       SpuriousWakeup, ShutdownNotify, ShutdownNotifyEmpty, Channel!vars
  <1>6. CASE UNCHANGED vars
    BY <1>6, Zenon DEF vars, Channel!vars
  <1> QED BY <1>1, <1>2, <1>3, <1>4, <1>5, <1>6, Zenon DEF Next

\* The queue implements the closable first-in first-out channel.
THEOREM QueueImplementsChannel == Spec => ImplementsChannel
  <1>1. Init => Channel!Init
    BY Zenon DEF Init, Channel!Init
  <1> QED BY <1>1, InvariantHolds, StepSimulates, PTL DEF Spec, ImplementsChannel, Channel!Spec

===============================================================================
