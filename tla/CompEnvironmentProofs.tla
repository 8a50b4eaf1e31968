------------------------- MODULE CompEnvironmentProofs -------------------------
(***************************************************************************)
(* The message dispatcher and the computation process around it.           *)
(*                                                                         *)
(* First the dispatcher alone (Spec): its exit is orderly and its reason   *)
(* is real, for any number of messages and errors, and the two message     *)
(* streams through it are first-in first-out channels.  The argument is    *)
(* about where the master thread is: which threads may be alive, which of  *)
(* the shutdown flags are set and what mState can be are functions of it.  *)
(* The rest (late calls, reasons, streams) follows.                        *)
(*                                                                         *)
(* Then the process (CompSpec): the computation's callbacks do not overlap *)
(* and a normal exit was asked for, whatever the number of control         *)
(* messages.  The dispatcher's own invariant carries over: all a process   *)
(* adds to the dispatcher's steps are the control messages, which leave    *)
(* the incoming thread at the same points.                                 *)
(***************************************************************************)
EXTENDS CompEnvironment, TLAPS

------------------------------------------------------------------------------
(* The dispatcher. *)

\* The master has passed its loop: nothing runs any more.
Over == {"observe", "finish", "exited"}

\* The points after each shutdown call of the master.
InClosed  == {"shutOut", "shutSource", "shutPeer", "join"} \cup Over
OutClosed == {"shutSource", "shutPeer", "join"} \cup Over
SrcClosed == {"shutPeer", "join"} \cup Over

\* A thread that works on a message holds one (0 is none).
HoldsMessage ==
    /\ incoming = "push" => inMsg # 0
    /\ outgoing \in {"put", "writing"} => outMsg # 0
    /\ handler = "handling" => hMsg # 0

\* The threads alive, and the endpoint, at each point of the master.
ThreadsFollowMaster ==
    /\ master \in {"none", "start"} => incoming = "none"
    /\ master \in {"none", "start", "waitDispatch"} => outgoing = "none" /\ handler = "none"
    /\ master \in Over => {incoming, outgoing, handler} \subseteq {"none", "done"}
    /\ (mSource = "set") <=> (master \notin {"none"} \cup Over)

\* mState at each point of the master.
StateFollowsMaster ==
    /\ (mState = "NotStarted") => (master = "none")
    /\ (mState \in {"Queueing", "Dispatching"}) => (master \in {"start", "waitDispatch", "waitExit"})
    /\ (master = "waitExit") => (mState \in {"Dispatching", "Exiting"})
    /\ (mState = "Exited") <=> (master = "exited")

\* The queues and the endpoint are shut down, one after the other, by the master only.
FlagsFollowMaster ==
    /\ inShutdown <=> (master \in InClosed)
    /\ outShutdown <=> (master \in OutClosed)
    /\ srcShutdown <=> (master \in SrcClosed)

\* After a late call the handler thread is on its way out.
LateCallIsLast ==
    \/ lateCalls = 0
    \/ /\ lateCalls = 1
       /\ mState \in {"Exiting", "Exited"}
       /\ handler \in {"handling", "idling", "loop", "post", "done"}

\* What a thread is about to report has happened, and so has what was reported.
ReasonsHappened ==
    /\ ~peerOpen => "Disconnected" \in happened \/ srcShutdown
    /\ incoming = "post" => inReason \in happened
    /\ outgoing = "post" => outReason \in happened \/ (outReason = "MessageError" /\ srcShutdown)
    /\ handler = "post" => hReason \in happened
    /\ ExitReasonHappened

\* The observer was told what waitForExit will return.
ObservedIsFinal == master \in {"finish", "exited"} => observed = mExitReason

Phases == ThreadsFollowMaster /\ StateFollowsMaster /\ FlagsFollowMaster
ControlInv == TypeOK /\ HoldsMessage /\ Phases /\ LateCallIsLast /\ ReasonsHappened /\ ObservedIsFinal

\* Messages are numbered in the order in which they enter a stream.
Counts(s) == \A i \in DOMAIN s : s[i] = i
Continues(q, n) == \A i \in DOMAIN q : q[i] = n + i

\* The incoming stream: handled, the one being handled, the queue, the one being
\* pushed.  Once the queue is shut down what is behind the handler is lost.
Handling == IF handler = "handling" THEN 1 ELSE 0
Pushing  == IF incoming = "push" THEN 1 ELSE 0
InStream ==
    /\ Counts(received) /\ Counts(handled)
    /\ handler = "handling" => hMsg = Len(handled) + 1
    /\ Len(handled) + Handling <= Len(received)
    /\ incoming = "push" => inMsg = Len(received)
    /\ ~inShutdown =>
         /\ Continues(mIncomingQueue, Len(handled) + Handling)
         /\ Len(handled) + Handling + Len(mIncomingQueue) + Pushing = Len(received)

\* The outgoing stream: written, the one being written, the queue.  Once the
\* outgoing thread has lost a message it does not take another.
Writing == IF outgoing \in {"put", "writing"} THEN 1 ELSE 0
OutGivenUp ==
    \/ outShutdown
    \/ outgoing \in {"post", "done"}
    \/ outgoing = "loop" /\ mState \in {"Exiting", "Exited"}
OutStream ==
    /\ Counts(accepted) /\ Counts(written)
    /\ outgoing \in {"put", "writing"} => outMsg = Len(written) + 1
    /\ Len(written) + Writing <= Len(accepted)
    /\ ~OutGivenUp =>
         /\ Continues(mOutgoingQueue, Len(written) + Writing)
         /\ Len(written) + Writing + Len(mOutgoingQueue) = Len(accepted)

\* The inductive invariant.
DispatcherInv == ControlInv /\ InStream /\ OutStream
------------------------------------------------------------------------------
\* Sequences of messages stay sequences of messages.
LEMMA AppendType ==
    ASSUME NEW S, NEW q \in Seq(S), NEW m \in S
    PROVE  Append(q, m) \in Seq(S)
  OBVIOUS

LEMMA TakeType ==
    ASSUME NEW S, NEW q \in Seq(S), q # <<>>
    PROVE  Head(q) \in S /\ Tail(q) \in Seq(S)
  OBVIOUS

\* Types.
LEMMA TypeStep ==
    ASSUME TypeOK, HoldsMessage, [Next]_vars
    PROVE  TypeOK'
  <1> USE BoundsAssumption DEF TypeOK, HoldsMessage, PostError, CountCall, States, Reasons, NoReason,
            ShuttingDown, stateVars, queueVars, sourceVars, inVars, outVars, hVars, history
  <1>1. CASE IncomingStep
    <2>1. CASE InLoop
      BY <2>1 DEF InLoop
    <2>2. CASE InGet
      BY <2>2 DEF InGet
    <2>3. CASE InDisconnected
      BY <2>3 DEF InDisconnected
    <2>4. CASE InPush
      <3>1. mIncomingQueue' \in Seq(1 .. MaxIn)
        <4>1. inMsg \in 1 .. MaxIn
          BY <2>4 DEF InPush
        <4> QED BY <2>4, <4>1, AppendType, Zenon DEF InPush
      <3> QED BY <2>4, <3>1 DEF InPush
    <2>5. CASE InPostError
      BY <2>5 DEF InPostError, PostError
    <2> QED BY <1>1, <2>1, <2>2, <2>3, <2>4, <2>5, Zenon DEF IncomingStep
  <1>2. CASE OutgoingStep
    <2>1. CASE OutLoop
      BY <2>1 DEF OutLoop
    <2>2. CASE OutPop
      <3>1. mOutgoingQueue' \in Seq(1 .. MaxOut) /\ outMsg' \in 0 .. MaxOut
        <4>1. 1 .. MaxOut \subseteq 0 .. MaxOut
          OBVIOUS
        <4>2. CASE mOutgoingQueue # <<>>
          <5>1. Head(mOutgoingQueue) \in 1 .. MaxOut /\ Tail(mOutgoingQueue) \in Seq(1 .. MaxOut)
            BY <4>2, TakeType, Zenon
          <5> QED BY <2>2, <4>1, <5>1, Zenon DEF OutPop
        <4> QED BY <2>2, <4>2, Zenon DEF OutPop
      <3> QED BY <2>2, <3>1 DEF OutPop
    <2>3. CASE OutPut
      BY <2>3 DEF OutPut
    <2>4. CASE OutDisconnected
      BY <2>4 DEF OutDisconnected
    <2>5. CASE OutPostError
      BY <2>5 DEF OutPostError, PostError
    <2> QED BY <1>2, <2>1, <2>2, <2>3, <2>4, <2>5, Zenon DEF OutgoingStep
  <1>3. CASE HandlerStep
    <2>1. CASE HandlerLoop
      BY <2>1 DEF HandlerLoop
    <2>2. CASE HandlerWait
      BY <2>2 DEF HandlerWait
    <2>3. CASE HandlerPop
      <3>1. mIncomingQueue' \in Seq(1 .. MaxIn) /\ hMsg' \in 0 .. MaxIn
        <4>1. 1 .. MaxIn \subseteq 0 .. MaxIn
          OBVIOUS
        <4>2. CASE mIncomingQueue # <<>>
          <5>1. Head(mIncomingQueue) \in 1 .. MaxIn /\ Tail(mIncomingQueue) \in Seq(1 .. MaxIn)
            BY <4>2, TakeType, Zenon
          <5> QED BY <2>3, <4>1, <5>1, Zenon DEF HandlerPop
        <4> QED BY <2>3, <4>2, Zenon DEF HandlerPop
      <3>2. lateCalls' \in Nat
        <4>1. lateCalls' = lateCalls \/ lateCalls' = lateCalls + 1
          BY <2>3, Zenon DEF HandlerPop
        <4>2. lateCalls \in Nat
          OBVIOUS
        <4> HIDE DEF TypeOK
        <4> QED BY <4>1, <4>2
      <3>3. handler' \in {"loop", "handling"}
        BY <2>3, Zenon DEF HandlerPop
      <3>4. UNCHANGED <<stateVars, inShutdown, mOutgoingQueue, outShutdown, sourceVars, master,
                        inVars, outVars, hReason, history>>
        BY <2>3, Zenon DEF HandlerPop
      <3> QED BY <3>1, <3>2, <3>3, <3>4
    <2>4. CASE HandlerReturn
      <3>1. handled' \in Seq(1 .. MaxIn)
        <4>1. handler = "handling" => hMsg \in 1 .. MaxIn
          OBVIOUS
        <4> QED BY <2>4, <4>1, AppendType, Zenon DEF HandlerReturn
      <3> QED BY <2>4, <3>1 DEF HandlerReturn
    <2>5. CASE HandlerPostError
      BY <2>5 DEF HandlerPostError, PostError
    <2> QED BY <1>3, <2>1, <2>2, <2>3, <2>4, <2>5, Zenon DEF HandlerStep
  <1>4. CASE MasterStep
    <2>1. CASE MasterStart
      BY <2>1 DEF MasterStart
    <2>2. CASE MasterDispatch
      <3>1. /\ outgoing' \in {"loop", outgoing} /\ handler' \in {"loop", handler}
            /\ master' \in {"waitExit", "shutIn"}
        BY <2>2, Zenon DEF MasterDispatch
      <3>2. UNCHANGED <<stateVars, queueVars, sourceVars, inVars, outMsg, outReason,
                        hMsg, hReason, lateCalls, history>>
        BY <2>2, Zenon DEF MasterDispatch
      <3> QED BY <3>1, <3>2
    <2>3. CASE MasterExit
      BY <2>3 DEF MasterExit
    <2>4. CASE MasterShutQueues
      <3>1. inShutdown' \in BOOLEAN /\ outShutdown' \in BOOLEAN
        BY <2>4, Zenon DEF MasterShutQueues
      <3> QED BY <2>4, <3>1 DEF MasterShutQueues
    <2>5. CASE MasterShutSource
      <3>1. srcShutdown' \in BOOLEAN /\ peerOpen' \in BOOLEAN
        BY <2>5, Zenon DEF MasterShutSource
      <3> QED BY <2>5, <3>1 DEF MasterShutSource
    <2>6. CASE MasterJoin
      BY <2>6 DEF MasterJoin
    <2>7. CASE MasterObserve
      BY <2>7 DEF MasterObserve
    <2>8. CASE MasterFinish
      BY <2>8 DEF MasterFinish
    <2> QED BY <1>4, <2>1, <2>2, <2>3, <2>4, <2>5, <2>6, <2>7, <2>8, Zenon DEF MasterStep
  <1>5. CASE Environment
    <2>1. CASE InRead
      BY <2>1 DEF InRead
    <2>2. CASE InReadError
      BY <2>2 DEF InReadError
    <2>3. CASE OutWrite
      BY <2>3 DEF OutWrite
    <2>4. CASE OutWriteError
      BY <2>4 DEF OutWriteError
    <2>5. CASE HandlerTimeout
      BY <2>5 DEF HandlerTimeout, CountCall
    <2>6. CASE HandlerThrow
      <3>1. handled' \in Seq(1 .. MaxIn)
        <4>1. handler = "handling" => hMsg \in 1 .. MaxIn
          OBVIOUS
        <4> QED BY <2>6, <4>1, AppendType, Zenon DEF HandlerThrow
      <3> QED BY <2>6, <3>1 DEF HandlerThrow
    <2>7. CASE PeerDisconnects
      <3>1. peerOpen' \in BOOLEAN
        BY <2>7, Zenon DEF PeerDisconnects
      <3> QED BY <2>7, <3>1 DEF PeerDisconnects
    <2> QED BY <1>5, <2>1, <2>2, <2>3, <2>4, <2>5, <2>6, <2>7, Zenon DEF Environment
  <1>6. CASE Application
    <2>1. CASE StartQueueing
      BY <2>1 DEF StartQueueing
    <2>2. CASE StartDispatching
      BY <2>2 DEF StartDispatching
    <2>3. CASE Send
      BY <2>3 DEF Send
    <2>4. CASE PostQuit
      BY <2>4 DEF PostQuit
    <2> QED BY <1>6, <2>1, <2>2, <2>3, <2>4, Zenon DEF Application
  <1>7. CASE UNCHANGED vars
    BY <1>7 DEF vars
  <1> QED BY <1>1, <1>2, <1>3, <1>4, <1>5, <1>6, <1>7, Zenon DEF Next

\* A thread that works on a message holds one.
LEMMA HoldsStep ==
    ASSUME TypeOK, HoldsMessage, [Next]_vars
    PROVE  HoldsMessage'
  <1> USE DEF TypeOK, HoldsMessage, stateVars, queueVars, sourceVars, inVars, outVars,
            hVars, history
  <1>head. /\ mIncomingQueue # <<>> => Head(mIncomingQueue) # 0
           /\ mOutgoingQueue # <<>> => Head(mOutgoingQueue) # 0
    <2>1. 0 \notin 1 .. MaxIn /\ 0 \notin 1 .. MaxOut
      OBVIOUS
    <2> QED BY <2>1, TakeType, Zenon
  <1>1. CASE IncomingStep
    BY <1>1 DEF IncomingStep, InLoop, InGet, InDisconnected, InPush, InPostError, PostError
  <1>2. CASE OutgoingStep
    BY <1>2, <1>head DEF OutgoingStep, OutLoop, OutPop, OutPut, OutDisconnected, OutPostError,
                 PostError
  <1>3. CASE HandlerStep
    BY <1>3, <1>head DEF HandlerStep, HandlerLoop, HandlerWait, HandlerPop, HandlerReturn,
                 HandlerPostError, CountCall, PostError
  <1>4. CASE MasterStep
    BY <1>4 DEF MasterStep, MasterStart, MasterDispatch, MasterExit, MasterShutQueues,
                 MasterShutSource, MasterJoin, MasterObserve, MasterFinish
  <1>5. CASE Environment
    BY <1>5 DEF Environment, InRead, InReadError, OutWrite, OutWriteError, HandlerTimeout,
                 HandlerThrow, PeerDisconnects, CountCall
  <1>6. CASE Application
    BY <1>6 DEF Application, StartQueueing, StartDispatching, Send, PostQuit
  <1>7. CASE UNCHANGED vars
    BY <1>7 DEF vars
  <1> QED BY <1>1, <1>2, <1>3, <1>4, <1>5, <1>6, <1>7, Zenon DEF Next

\* Threads, states and flags follow the master.
LEMMA PhaseStep ==
    ASSUME TypeOK, Phases, [Next]_vars
    PROVE  Phases'
  <1> USE DEF TypeOK, Phases, ThreadsFollowMaster, StateFollowsMaster, FlagsFollowMaster,
            Over, InClosed, OutClosed, SrcClosed, MutexFree, ShuttingDown, stateVars,
            queueVars, sourceVars, inVars, outVars, hVars, history
  <1>1. CASE IncomingStep
    BY <1>1 DEF IncomingStep, InLoop, InGet, InDisconnected, InPush, InPostError, PostError
  <1>2. CASE OutgoingStep
    BY <1>2 DEF OutgoingStep, OutLoop, OutPop, OutPut, OutDisconnected, OutPostError,
                 PostError
  <1>3. CASE HandlerStep
    BY <1>3 DEF HandlerStep, HandlerLoop, HandlerWait, HandlerPop, HandlerReturn,
                 HandlerPostError, CountCall, PostError
  <1>4. CASE MasterStep
    <2>1. CASE MasterStart
      BY <2>1 DEF MasterStart
    <2>2. CASE MasterDispatch
      BY <2>2 DEF MasterDispatch
    <2>3. CASE MasterExit
      BY <2>3 DEF MasterExit
    <2>4. CASE MasterShutQueues
      BY <2>4 DEF MasterShutQueues
    <2>5. CASE MasterShutSource
      BY <2>5 DEF MasterShutSource
    <2>6. CASE MasterJoin
      BY <2>6 DEF MasterJoin
    <2>7. CASE MasterObserve
      BY <2>7 DEF MasterObserve
    <2>8. CASE MasterFinish
      BY <2>8 DEF MasterFinish
    <2> QED BY <1>4, <2>1, <2>2, <2>3, <2>4, <2>5, <2>6, <2>7, <2>8, Zenon DEF MasterStep
  <1>5. CASE Environment
    BY <1>5 DEF Environment, InRead, InReadError, OutWrite, OutWriteError, HandlerTimeout,
                 HandlerThrow, PeerDisconnects, CountCall
  <1>6. CASE Application
    <2>1. CASE StartQueueing
      BY <2>1 DEF StartQueueing
    <2>2. CASE StartDispatching
      BY <2>2 DEF StartDispatching
    <2>3. CASE Send
      BY <2>3 DEF Send
    <2>4. CASE PostQuit
      BY <2>4 DEF PostQuit
    <2> QED BY <1>6, <2>1, <2>2, <2>3, <2>4, Zenon DEF Application
  <1>7. CASE UNCHANGED vars
    BY <1>7 DEF vars
  <1> QED BY <1>1, <1>2, <1>3, <1>4, <1>5, <1>6, <1>7, Zenon DEF Next

\* A late call is the last one.
LEMMA LateStep ==
    ASSUME TypeOK, Phases, LateCallIsLast, [Next]_vars
    PROVE  LateCallIsLast'
  <1> USE DEF TypeOK, Phases, StateFollowsMaster, ThreadsFollowMaster, Over,
            LateCallIsLast, States, stateVars, queueVars, sourceVars, inVars, outVars,
            hVars, history
  <1>1. CASE IncomingStep
    BY <1>1 DEF IncomingStep, InLoop, InGet, InDisconnected, InPush, InPostError, PostError
  <1>2. CASE OutgoingStep
    BY <1>2 DEF OutgoingStep, OutLoop, OutPop, OutPut, OutDisconnected, OutPostError,
                 PostError
  <1>3. CASE HandlerStep
    BY <1>3 DEF HandlerStep, HandlerLoop, HandlerWait, HandlerPop, HandlerReturn,
                 HandlerPostError, CountCall, PostError
  <1>4. CASE MasterStep
    BY <1>4 DEF MasterStep, MasterStart, MasterDispatch, MasterExit, MasterShutQueues,
                 MasterShutSource, MasterJoin, MasterObserve, MasterFinish
  <1>5. CASE Environment
    BY <1>5 DEF Environment, InRead, InReadError, OutWrite, OutWriteError, HandlerTimeout,
                 HandlerThrow, PeerDisconnects, CountCall
  <1>6. CASE Application
    BY <1>6 DEF Application, StartQueueing, StartDispatching, Send, PostQuit
  <1>7. CASE UNCHANGED vars
    BY <1>7 DEF vars
  <1> QED BY <1>1, <1>2, <1>3, <1>4, <1>5, <1>6, <1>7, Zenon DEF Next

\* Reasons have happened.
LEMMA ReasonStep ==
    ASSUME TypeOK, Phases, ReasonsHappened, [Next]_vars
    PROVE  ReasonsHappened'
  <1> USE DEF TypeOK, Phases, StateFollowsMaster, FlagsFollowMaster, SrcClosed, Over,
            ReasonsHappened, ExitReasonHappened, States, stateVars, queueVars, sourceVars,
            inVars, outVars, hVars, history
  <1>1. CASE IncomingStep
    BY <1>1 DEF IncomingStep, InLoop, InGet, InDisconnected, InPush, InPostError, PostError
  <1>2. CASE OutgoingStep
    BY <1>2 DEF OutgoingStep, OutLoop, OutPop, OutPut, OutDisconnected, OutPostError,
                 PostError
  <1>3. CASE HandlerStep
    BY <1>3 DEF HandlerStep, HandlerLoop, HandlerWait, HandlerPop, HandlerReturn,
                 HandlerPostError, CountCall, PostError
  <1>4. CASE MasterStep
    <2>1. CASE MasterStart
      BY <2>1 DEF MasterStart
    <2>2. CASE MasterDispatch
      BY <2>2 DEF MasterDispatch
    <2>3. CASE MasterExit
      BY <2>3 DEF MasterExit
    <2>4. CASE MasterShutQueues
      BY <2>4 DEF MasterShutQueues
    <2>5. CASE MasterShutSource
      BY <2>5 DEF MasterShutSource
    <2>6. CASE MasterJoin
      BY <2>6 DEF MasterJoin
    <2>7. CASE MasterObserve
      BY <2>7 DEF MasterObserve
    <2>8. CASE MasterFinish
      BY <2>8 DEF MasterFinish
    <2> QED BY <1>4, <2>1, <2>2, <2>3, <2>4, <2>5, <2>6, <2>7, <2>8, Zenon DEF MasterStep
  <1>5. CASE Environment
    <2>1. CASE InRead
      BY <2>1 DEF InRead
    <2>2. CASE InReadError
      BY <2>2 DEF InReadError
    <2>3. CASE OutWrite
      BY <2>3 DEF OutWrite
    <2>4. CASE OutWriteError
      BY <2>4 DEF OutWriteError
    <2>5. CASE HandlerTimeout
      BY <2>5 DEF HandlerTimeout, CountCall
    <2>6. CASE HandlerThrow
      BY <2>6 DEF HandlerThrow
    <2>7. CASE PeerDisconnects
      BY <2>7 DEF PeerDisconnects
    <2> QED BY <1>5, <2>1, <2>2, <2>3, <2>4, <2>5, <2>6, <2>7, Zenon DEF Environment
  <1>6. CASE Application
    BY <1>6 DEF Application, StartQueueing, StartDispatching, Send, PostQuit
  <1>7. CASE UNCHANGED vars
    BY <1>7 DEF vars
  <1> QED BY <1>1, <1>2, <1>3, <1>4, <1>5, <1>6, <1>7, Zenon DEF Next

\* The reason does not change any more.
LEMMA ObservedStep ==
    ASSUME TypeOK, Phases, ObservedIsFinal, [Next]_vars
    PROVE  ObservedIsFinal'
  <1> USE DEF TypeOK, Phases, ThreadsFollowMaster, StateFollowsMaster, Over,
            ObservedIsFinal, States, stateVars, queueVars, sourceVars, inVars, outVars,
            hVars, history
  <1>1. CASE IncomingStep
    BY <1>1 DEF IncomingStep, InLoop, InGet, InDisconnected, InPush, InPostError, PostError
  <1>2. CASE OutgoingStep
    BY <1>2 DEF OutgoingStep, OutLoop, OutPop, OutPut, OutDisconnected, OutPostError,
                 PostError
  <1>3. CASE HandlerStep
    BY <1>3 DEF HandlerStep, HandlerLoop, HandlerWait, HandlerPop, HandlerReturn,
                 HandlerPostError, CountCall, PostError
  <1>4. CASE MasterStep
    BY <1>4 DEF MasterStep, MasterStart, MasterDispatch, MasterExit, MasterShutQueues,
                 MasterShutSource, MasterJoin, MasterObserve, MasterFinish
  <1>5. CASE Environment
    BY <1>5 DEF Environment, InRead, InReadError, OutWrite, OutWriteError, HandlerTimeout,
                 HandlerThrow, PeerDisconnects, CountCall
  <1>6. CASE Application
    <2>1. CASE StartQueueing
      BY <2>1 DEF StartQueueing
    <2>2. CASE StartDispatching
      BY <2>2 DEF StartDispatching
    <2>3. CASE Send
      BY <2>3 DEF Send
    <2>4. CASE PostQuit
      BY <2>4 DEF PostQuit
    <2> QED BY <1>6, <2>1, <2>2, <2>3, <2>4, Zenon DEF Application
  <1>7. CASE UNCHANGED vars
    BY <1>7 DEF vars
  <1> QED BY <1>1, <1>2, <1>3, <1>4, <1>5, <1>6, <1>7, Zenon DEF Next

------------------------------------------------------------------------------
\* Numbered streams.  A stream that counts still does with the next number; a
\* queue that continues it is extended at its end and shortened at its front.
LEMMA CountsAppend ==
    ASSUME NEW N \in Nat, NEW s \in Seq(1 .. N), Counts(s)
    PROVE  Counts(Append(s, Len(s) + 1)) /\ Len(Append(s, Len(s) + 1)) = Len(s) + 1
  BY DEF Counts

LEMMA ContinuesAppend ==
    ASSUME NEW N \in Nat, NEW q \in Seq(1 .. N), NEW n \in Nat, Continues(q, n)
    PROVE  /\ Continues(Append(q, n + Len(q) + 1), n)
           /\ Len(Append(q, n + Len(q) + 1)) = Len(q) + 1
  BY DEF Continues

LEMMA ContinuesTail ==
    ASSUME NEW N \in Nat, NEW q \in Seq(1 .. N), NEW n \in Nat, Continues(q, n), q # <<>>
    PROVE  /\ Head(q) = n + 1
           /\ Continues(Tail(q), n + 1)
           /\ Len(Tail(q)) = Len(q) - 1
  <1>1. Len(q) \in Nat /\ Len(q) > 0
    OBVIOUS
  <1>2. Head(q) = q[1]
    OBVIOUS
  <1>3. \A i \in DOMAIN Tail(q) : Tail(q)[i] = q[i + 1] /\ i + 1 \in DOMAIN q
    BY <1>1
  <1>4. Len(Tail(q)) = Len(q) - 1 /\ DOMAIN Tail(q) \subseteq Nat
    BY <1>1
  <1> QED BY <1>1, <1>2, <1>3, <1>4 DEF Continues

\* The steps that neither move a message of the incoming stream nor change who
\* holds one.
InFrame ==
    /\ UNCHANGED <<received, handled, mIncomingQueue>>
    /\ inShutdown => inShutdown'
    /\ (handler' = "handling") <=> (handler = "handling")
    /\ handler = "handling" => hMsg' = hMsg
    /\ (incoming' = "push") <=> (incoming = "push")
    /\ incoming = "push" => inMsg' = inMsg

\* A step within the frame keeps the stream.
LEMMA FrameKeepsInStream ==
    ASSUME InStream, InFrame
    PROVE  InStream'
  <1>1. Handling' = Handling /\ Pushing' = Pushing
    BY DEF InFrame, Handling, Pushing
  <1>2. Counts(received)' /\ Counts(handled)'
    BY DEF InFrame, InStream
  <1>3. ~inShutdown' => Continues(mIncomingQueue, Len(handled) + Handling)'
    BY <1>1 DEF InFrame, InStream
  <1> QED BY <1>1, <1>2, <1>3 DEF InFrame, InStream

\* The incoming stream loses nothing before the queue is shut down, and never
\* the order.
LEMMA InStreamStep ==
    ASSUME TypeOK, Phases, InStream, [Next]_vars
    PROVE  InStream'
  <1> USE BoundsAssumption DEF TypeOK
  <1>len. /\ Len(received) \in Nat /\ Len(handled) \in Nat /\ Len(mIncomingQueue) \in Nat
          /\ Handling \in {0, 1} /\ Pushing \in {0, 1}
    BY DEF Handling, Pushing
  <1>1. CASE InFrame
    BY <1>1, FrameKeepsInStream, Zenon
  <1>2. CASE InRead
    <2>1. /\ Counts(received)' /\ Len(received)' = Len(received) + 1
          /\ UNCHANGED <<handled, mIncomingQueue, inShutdown, handler, hMsg, Handling>>
          /\ Pushing = 0 /\ Pushing' = 1 /\ inMsg' = Len(received) + 1
      BY <1>2, CountsAppend DEF InRead, InStream, Pushing, Handling, queueVars, hVars
    <2>2. Counts(handled)' /\ (~inShutdown' => Continues(mIncomingQueue, Len(handled) + Handling)')
      BY <2>1 DEF InStream
    <2>3. Len(handled)' + Handling' <= Len(received)'
      BY <1>len, <2>1 DEF InStream
    <2>4. ~inShutdown' => Len(handled)' + Handling' + Len(mIncomingQueue)' + Pushing' = Len(received)'
      <3> SUFFICES ASSUME ~inShutdown'
                   PROVE  Len(handled') + Handling' + Len(mIncomingQueue') + Pushing' = Len(received')
        OBVIOUS
      <3>1. Len(handled) + Handling + Len(mIncomingQueue) + Pushing = Len(received)
        BY <2>1, Zenon DEF InStream
      <3>2. handled' = handled /\ mIncomingQueue' = mIncomingQueue /\ Handling' = Handling
        BY <2>1, Zenon
      <3>3. Pushing = 0 /\ Pushing' = 1 /\ Len(received') = Len(received) + 1
        BY <2>1, Zenon
      <3> HIDE DEF TypeOK
      <3> QED BY <1>len, <3>1, <3>2, <3>3
    <2>5. handler' = "handling" => hMsg' = Len(handled)' + 1
      BY <2>1 DEF InStream
    <2> QED BY <2>1, <2>2, <2>3, <2>4, <2>5 DEF InStream
  <1>3. CASE InPush
    <2>1. /\ UNCHANGED <<received, handled, inShutdown, handler, hMsg, Handling>>
          /\ Pushing = 1 /\ Pushing' = 0 /\ incoming' # "push"
          /\ inMsg = Len(received)
      BY <1>3 DEF InPush, InStream, Pushing, Handling, history, hVars
    <2>2. Counts(received)' /\ Counts(handled)'
      BY <2>1 DEF InStream
    <2>3. CASE inShutdown
      BY <1>len, <2>1, <2>2, <2>3 DEF InStream
    <2>4. CASE ~inShutdown
      <3> DEFINE n == Len(handled) + Handling
      <3>1. n \in Nat /\ inMsg = n + Len(mIncomingQueue) + 1 /\ Continues(mIncomingQueue, n)
        BY <1>len, <2>1, <2>4 DEF InStream
      <3>2. mIncomingQueue' = Append(mIncomingQueue, n + Len(mIncomingQueue) + 1)
        BY <1>3, <2>4, <3>1, Zenon DEF InPush
      <3>3. /\ Continues(mIncomingQueue', n)
            /\ Len(mIncomingQueue') = Len(mIncomingQueue) + 1
        <4> HIDE DEF n
        <4> QED BY <3>1, <3>2, ContinuesAppend
      <3>4. n' = n
        BY <2>1
      <3>5. Continues(mIncomingQueue, Len(handled) + Handling)'
        BY <3>3, <3>4
      <3> QED BY <1>len, <2>1, <2>2, <2>4, <3>3, <3>5 DEF InStream
    <2> QED BY <2>3, <2>4
  <1>4. CASE HandlerPop
    <2>1. CASE inShutdown
      <3>1. UNCHANGED <<received, handled, inShutdown, incoming, inMsg>> /\ Handling' = 0 /\ Handling = 0
            /\ handler' # "handling"
        BY <1>4, <2>1 DEF HandlerPop, Handling, history, inVars
      <3>2. Counts(received)' /\ Counts(handled)'
        BY <3>1 DEF InStream
      <3> QED BY <1>len, <2>1, <3>1, <3>2 DEF InStream
    <2>2. CASE ~inShutdown
      <3> DEFINE n == Len(handled)
      <3>1. /\ mIncomingQueue # <<>> /\ mIncomingQueue' = Tail(mIncomingQueue)
            /\ hMsg' = Head(mIncomingQueue)
            /\ UNCHANGED <<received, handled, inShutdown, incoming, inMsg, Pushing>>
            /\ Handling = 0 /\ Handling' = 1
        BY <1>4, <2>2 DEF HandlerPop, Handling, Pushing, history, inVars
      <3>2. Continues(mIncomingQueue, n)
        BY <1>len, <2>2, <3>1 DEF InStream
      <3>3. /\ Head(mIncomingQueue) = n + 1
            /\ Continues(Tail(mIncomingQueue), n + 1)
            /\ Len(Tail(mIncomingQueue)) = Len(mIncomingQueue) - 1
        <4> HIDE DEF n
        <4>1. n \in Nat
          BY <1>len DEF n
        <4> QED BY <3>1, <3>2, <4>1, ContinuesTail
      <3>4. Continues(mIncomingQueue, Len(handled) + Handling)'
        BY <3>1, <3>3
      <3>5. Counts(received)' /\ Counts(handled)'
        BY <3>1 DEF InStream
      <3>6. Len(mIncomingQueue) > 0
        BY <3>1
      <3>7. /\ Len(handled) + Handling <= Len(received)
            /\ incoming = "push" => inMsg = Len(received)
            /\ Len(handled) + Handling + Len(mIncomingQueue) + Pushing = Len(received)
        BY <2>2, Zenon DEF InStream
      <3>8. /\ handler' = "handling" => hMsg' = Len(handled') + 1
            /\ incoming' = "push" => inMsg' = Len(received')
        BY <3>1, <3>3, <3>7
      <3>9. /\ Len(handled') + Handling' <= Len(received')
            /\ Len(handled') + Handling' + Len(mIncomingQueue') + Pushing' = Len(received')
        <4> HIDE DEF TypeOK
        <4> QED BY <1>len, <3>1, <3>3, <3>6, <3>7
      <3> QED BY <3>4, <3>5, <3>8, <3>9, Zenon DEF InStream
    <2> QED BY <2>1, <2>2
  <1>5. CASE HandlerReturn \/ HandlerThrow
    <2>1. CASE handler = "idling"
      <3>1. InFrame
        BY <1>5, <2>1 DEF InFrame, HandlerReturn, HandlerThrow, queueVars, inVars
      <3> QED BY <1>1, <3>1
    <2>2. CASE handler = "handling"
      <3>1. /\ handled' = Append(handled, Len(handled) + 1)
            /\ UNCHANGED <<received, mIncomingQueue, inShutdown, incoming, inMsg, Pushing>>
            /\ Handling = 1 /\ Handling' = 0 /\ handler' # "handling"
        BY <1>5, <2>2 DEF HandlerReturn, HandlerThrow, InStream, Handling, Pushing, queueVars, inVars
      <3>2. Counts(handled)' /\ Len(handled') = Len(handled) + 1
        BY <3>1, CountsAppend DEF InStream
      <3>3. Len(handled') + Handling' = Len(handled) + Handling
        BY <1>len, <3>1, <3>2
      <3>4. ~inShutdown' => Continues(mIncomingQueue, Len(handled) + Handling)'
        BY <3>1, <3>3 DEF InStream
      <3>5. Counts(received)'
        BY <3>1 DEF InStream
      <3> QED BY <1>len, <3>1, <3>2, <3>3, <3>4, <3>5 DEF InStream
    <2> QED BY <1>5, <2>1, <2>2 DEF HandlerReturn, HandlerThrow
  <1>6. CASE \/ InLoop \/ InGet \/ InDisconnected \/ InPostError \/ InReadError
             \/ OutgoingStep \/ OutWrite \/ OutWriteError
             \/ HandlerLoop \/ HandlerWait \/ HandlerTimeout \/ HandlerPostError
             \/ MasterStep \/ PeerDisconnects \/ Application \/ UNCHANGED vars
    <2>1. InFrame
      <3> USE <1>6 DEF InFrame, stateVars, queueVars, sourceVars, inVars, outVars, hVars, history
      <3>1. CASE InLoop \/ InGet \/ InDisconnected \/ InPostError \/ InReadError
        BY <3>1 DEF InLoop, InGet, InDisconnected, InPostError, InReadError
      <3>2. CASE OutgoingStep \/ OutWrite \/ OutWriteError
        BY <3>2 DEF OutgoingStep, OutLoop, OutPop, OutPut, OutDisconnected, OutPostError,
                    OutWrite, OutWriteError
      <3>3. CASE HandlerLoop \/ HandlerWait \/ HandlerTimeout \/ HandlerPostError
        BY <3>3 DEF HandlerLoop, HandlerWait, HandlerTimeout, HandlerPostError
      <3>4. CASE MasterStep
        BY <3>4 DEF MasterStep, MasterStart, MasterDispatch, MasterExit, MasterShutQueues,
                    MasterShutSource, MasterJoin, MasterObserve, MasterFinish,
                    Phases, ThreadsFollowMaster
      <3>5. CASE PeerDisconnects \/ Application \/ UNCHANGED vars
        BY <3>5 DEF PeerDisconnects, Application, StartQueueing, StartDispatching, Send, PostQuit,
                    vars
      <3> QED BY <3>1, <3>2, <3>3, <3>4, <3>5, Zenon
    <2> QED BY <1>1, <2>1
  <1> QED BY <1>2, <1>3, <1>4, <1>5, <1>6, Zenon
      DEF Next, IncomingStep, HandlerStep, Environment

\* The steps that neither move a message of the outgoing stream nor change who
\* holds one, nor take back that the outgoing thread has given up.
OutFrame ==
    /\ UNCHANGED <<accepted, written, mOutgoingQueue, Writing>>
    /\ OutGivenUp => OutGivenUp'
    /\ outgoing' \in {"put", "writing"} => outMsg' = outMsg

\* A step within the frame keeps the stream.
LEMMA FrameKeepsOutStream ==
    ASSUME OutStream, OutFrame
    PROVE  OutStream'
  <1>1. (outgoing' \in {"put", "writing"}) => (outgoing \in {"put", "writing"})
    BY DEF OutFrame, Writing
  <1>2. Counts(accepted)' /\ Counts(written)'
    BY DEF OutFrame, OutStream
  <1>3. ~OutGivenUp' => Continues(mOutgoingQueue, Len(written) + Writing)'
    BY DEF OutFrame, OutStream
  <1>4. ~OutGivenUp' => (Len(written) + Writing + Len(mOutgoingQueue) = Len(accepted))'
    BY Zenon DEF OutFrame, OutStream
  <1>5. (Len(written) + Writing <= Len(accepted))'
    BY Zenon DEF OutFrame, OutStream
  <1>6. outgoing' \in {"put", "writing"} => outMsg' = Len(written') + 1
    BY <1>1, Zenon DEF OutFrame, OutStream
  <1> QED BY <1>2, <1>3, <1>4, <1>5, <1>6, Zenon DEF OutStream

\* The outgoing stream loses nothing before the outgoing thread gives up, and
\* never the order.
LEMMA OutStreamStep ==
    ASSUME TypeOK, Phases, OutStream, [Next]_vars
    PROVE  OutStream'
  <1> USE BoundsAssumption DEF TypeOK
  <1>len. /\ Len(accepted) \in Nat /\ Len(written) \in Nat /\ Len(mOutgoingQueue) \in Nat
          /\ Writing \in {0, 1}
    BY DEF Writing
  <1>1. CASE OutFrame
    BY <1>1, FrameKeepsOutStream, Zenon
  <1>2. CASE Send
    <2>1. /\ accepted' = Append(accepted, Len(accepted) + 1)
          /\ mOutgoingQueue' = Append(mOutgoingQueue, Len(accepted) + 1)
          /\ UNCHANGED <<written, outgoing, outMsg, Writing>>
          /\ OutGivenUp' => OutGivenUp
          /\ OutGivenUp => OutGivenUp'
      BY <1>2 DEF Send, Writing, OutGivenUp, outVars, stateVars
    <2>2. Counts(accepted)' /\ Len(accepted') = Len(accepted) + 1
      BY <2>1, CountsAppend DEF OutStream
    <2>3. Counts(written)' /\ (outgoing' \in {"put", "writing"} => outMsg' = Len(written') + 1)
      BY <2>1 DEF OutStream
    <2>4. Len(written') + Writing' <= Len(accepted')
      BY <1>len, <2>1, <2>2 DEF OutStream
    <2>5. CASE OutGivenUp
      BY <2>1, <2>2, <2>3, <2>4, <2>5, Zenon DEF OutStream
    <2>6. CASE ~OutGivenUp
      <3> DEFINE n == Len(written) + Writing
      <3>1. n \in Nat /\ Len(accepted) = n + Len(mOutgoingQueue) /\ Continues(mOutgoingQueue, n)
        BY <1>len, <2>6 DEF OutStream
      <3>2. /\ Continues(mOutgoingQueue', n)
            /\ Len(mOutgoingQueue') = Len(mOutgoingQueue) + 1
        <4> HIDE DEF n
        <4>1. mOutgoingQueue' = Append(mOutgoingQueue, n + Len(mOutgoingQueue) + 1)
          BY <2>1, <3>1, Zenon
        <4> QED BY <3>1, <4>1, ContinuesAppend
      <3>3. n' = n
        BY <2>1
      <3>4. Continues(mOutgoingQueue, Len(written) + Writing)'
        BY <3>2, <3>3
      <3>5. (Len(written) + Writing + Len(mOutgoingQueue) = Len(accepted))'
        <4> HIDE DEF TypeOK, n
        <4>1. (n + Len(mOutgoingQueue) = Len(accepted))'
          BY <1>len, <2>2, <3>1, <3>2, <3>3
        <4> QED BY <4>1 DEF n
      <3> QED BY <2>2, <2>3, <2>4, <3>4, <3>5, Zenon DEF OutStream
    <2> QED BY <2>5, <2>6
  <1>3. CASE OutPop
    <2>1. CASE outShutdown
      <3>1. OutFrame
        BY <1>3, <2>1 DEF OutPop, OutFrame, Writing, OutGivenUp, history, stateVars
      <3> QED BY <1>1, <3>1
    <2>2. CASE ~outShutdown
      <3> DEFINE n == Len(written)
      <3>1. /\ mOutgoingQueue # <<>> /\ mOutgoingQueue' = Tail(mOutgoingQueue)
            /\ outMsg' = Head(mOutgoingQueue)
            /\ UNCHANGED <<accepted, written>>
            /\ Writing = 0 /\ Writing' = 1
            /\ ~OutGivenUp
        BY <1>3, <2>2 DEF OutPop, Writing, OutGivenUp, history
      <3>2. Continues(mOutgoingQueue, n) /\ n + Len(mOutgoingQueue) = Len(accepted)
        BY <1>len, <3>1 DEF OutStream
      <3>3. /\ Head(mOutgoingQueue) = n + 1
            /\ Continues(Tail(mOutgoingQueue), n + 1)
            /\ Len(Tail(mOutgoingQueue)) = Len(mOutgoingQueue) - 1
        <4> HIDE DEF n
        <4>1. n \in Nat
          BY <1>len DEF n
        <4> QED BY <3>1, <3>2, <4>1, ContinuesTail
      <3>4. Continues(mOutgoingQueue, Len(written) + Writing)'
        BY <3>1, <3>3
      <3>5. Counts(accepted)' /\ Counts(written)'
        BY <3>1 DEF OutStream
      <3>6. Len(mOutgoingQueue) > 0
        BY <3>1
      <3>7. /\ (Len(written) + Writing + Len(mOutgoingQueue) = Len(accepted))'
            /\ (Len(written) + Writing <= Len(accepted))'
        <4> HIDE DEF TypeOK
        <4> QED BY <1>len, <3>1, <3>2, <3>3, <3>6
      <3>8. outMsg' = Len(written') + 1
        BY <3>1, <3>3
      <3> QED BY <3>4, <3>5, <3>7, <3>8, Zenon DEF OutStream
    <2> QED BY <2>1, <2>2
  <1>4. CASE OutWrite
    <2>1. /\ written' = Append(written, Len(written) + 1)
          /\ UNCHANGED <<accepted, mOutgoingQueue>>
          /\ Writing = 1 /\ Writing' = 0 /\ outgoing' \notin {"put", "writing"}
          /\ OutGivenUp => OutGivenUp'
      BY <1>4 DEF OutWrite, OutStream, Writing, OutGivenUp, queueVars
    <2>2. Counts(written)' /\ Len(written') = Len(written) + 1
      BY <2>1, CountsAppend DEF OutStream
    <2>3. Counts(accepted)'
      BY <2>1 DEF OutStream
    <2>4. Len(written') + Writing' = Len(written) + Writing
      BY <1>len, <2>1, <2>2
    <2>5. ~OutGivenUp' => Continues(mOutgoingQueue, Len(written) + Writing)'
      BY <2>1, <2>4 DEF OutStream
    <2>6. ~OutGivenUp' => (Len(written) + Writing + Len(mOutgoingQueue) = Len(accepted))'
      BY <2>1, <2>4, Zenon DEF OutStream
    <2>7. (Len(written) + Writing <= Len(accepted))'
      BY <2>1, <2>4, Zenon DEF OutStream
    <2> QED BY <2>1, <2>2, <2>3, <2>5, <2>6, <2>7, Zenon DEF OutStream
  <1>5. CASE (OutPut /\ srcShutdown) \/ OutDisconnected \/ OutWriteError
    <2>1. /\ UNCHANGED <<accepted, written, mOutgoingQueue>>
          /\ OutGivenUp' /\ outgoing' \notin {"put", "writing"}
          /\ Writing = 1 /\ Writing' = 0
      BY <1>5 DEF OutPut, OutDisconnected, OutWriteError, OutGivenUp, Writing, queueVars, history,
                  Phases, FlagsFollowMaster, SrcClosed, OutClosed, stateVars
    <2>2. Counts(accepted)' /\ Counts(written)'
      BY <2>1 DEF OutStream
    <2>3. (Len(written) + Writing <= Len(accepted))'
      BY <1>len, <2>1 DEF OutStream
    <2> QED BY <2>1, <2>2, <2>3, Zenon DEF OutStream
  <1>6. CASE \/ OutLoop \/ (OutPut /\ ~srcShutdown) \/ OutPostError
             \/ IncomingStep \/ InRead \/ InReadError
             \/ HandlerStep \/ HandlerTimeout \/ HandlerThrow
             \/ MasterStep \/ PeerDisconnects
             \/ StartQueueing \/ StartDispatching \/ PostQuit \/ UNCHANGED vars
    <2>1. OutFrame
      <3> USE <1>6 DEF OutFrame, OutGivenUp, Writing,
                       stateVars, queueVars, sourceVars, inVars, outVars, hVars, history
      <3>1. CASE OutLoop \/ (OutPut /\ ~srcShutdown) \/ OutPostError
        BY <3>1 DEF OutLoop, OutPut, OutPostError, PostError, Phases, ThreadsFollowMaster,
                    StateFollowsMaster, Over, States
      <3>2. CASE IncomingStep \/ InRead \/ InReadError
        BY <3>2 DEF IncomingStep, InLoop, InGet, InDisconnected, InPush, InPostError,
                    InRead, InReadError, PostError
      <3>3. CASE HandlerStep \/ HandlerTimeout \/ HandlerThrow
        BY <3>3 DEF HandlerStep, HandlerLoop, HandlerWait, HandlerPop, HandlerReturn,
                    HandlerPostError, HandlerTimeout, HandlerThrow, PostError
      <3>4. CASE MasterStep
        BY <3>4 DEF MasterStep, MasterStart, MasterDispatch, MasterExit, MasterShutQueues,
                    MasterShutSource, MasterJoin, MasterObserve, MasterFinish,
                    Phases, ThreadsFollowMaster, FlagsFollowMaster, OutClosed
      <3>5. CASE PeerDisconnects \/ StartQueueing \/ StartDispatching \/ PostQuit \/ UNCHANGED vars
        BY <3>5 DEF PeerDisconnects, StartQueueing, StartDispatching, PostQuit, vars
      <3> QED BY <3>1, <3>2, <3>3, <3>4, <3>5, Zenon
    <2> QED BY <1>1, <2>1
  <1> QED BY <1>2, <1>3, <1>4, <1>5, <1>6, Zenon
      DEF Next, OutgoingStep, Environment, Application

------------------------------------------------------------------------------
LEMMA InitInv == Init => DispatcherInv
  <1> SUFFICES ASSUME Init PROVE DispatcherInv
    OBVIOUS
  <1> USE BoundsAssumption DEF Init
  <1>1. TypeOK
    <2>1. /\ mIncomingQueue \in Seq(1 .. MaxIn) /\ mOutgoingQueue \in Seq(1 .. MaxOut)
          /\ received \in Seq(1 .. MaxIn) /\ handled \in Seq(1 .. MaxIn)
          /\ accepted \in Seq(1 .. MaxOut) /\ written \in Seq(1 .. MaxOut)
      OBVIOUS
    <2>2. {inShutdown, outShutdown, srcShutdown, peerOpen} \subseteq BOOLEAN
      BY Zenon
    <2> QED BY <2>1, <2>2 DEF TypeOK, States, Reasons, NoReason, ShuttingDown
  <1>2. HoldsMessage /\ Phases /\ LateCallIsLast /\ ReasonsHappened /\ ObservedIsFinal
    BY DEF HoldsMessage, Phases, ThreadsFollowMaster, StateFollowsMaster, FlagsFollowMaster, Over,
           InClosed, OutClosed, SrcClosed, LateCallIsLast, ReasonsHappened, ExitReasonHappened,
           ObservedIsFinal
  <1>3. InStream /\ OutStream
    BY DEF InStream, OutStream, Handling, Pushing, Writing, Counts, Continues
  <1> QED BY <1>1, <1>2, <1>3 DEF DispatcherInv, ControlInv

LEMMA StepInv == DispatcherInv /\ [Next]_vars => DispatcherInv'
  BY TypeStep, HoldsStep, PhaseStep, LateStep, ReasonStep, ObservedStep, InStreamStep, OutStreamStep,
     Zenon DEF DispatcherInv, ControlInv

LEMMA InvariantHolds == Spec => []DispatcherInv
  BY InitInv, StepInv, PTL DEF Spec

LEMMA InvImpliesOrderly == DispatcherInv => OrderlyExit
  <1> SUFFICES ASSUME DispatcherInv PROVE OrderlyExit
    OBVIOUS
  <1>1. SourceOutlivesThreads
    BY DEF DispatcherInv, ControlInv, TypeOK, ShuttingDown, Phases, ThreadsFollowMaster, Over,
           SourceOutlivesThreads
  <1>2. AtMostOneLateCall
    BY DEF DispatcherInv, ControlInv, LateCallIsLast, AtMostOneLateCall
  <1> QED BY <1>1, <1>2 DEF OrderlyExit

\* The dispatcher's variables keep their types, whatever the threads do.
THEOREM TypeCorrect == Spec => []TypeOK
  <1>1. DispatcherInv => TypeOK
    BY DEF DispatcherInv, ControlInv
  <1> QED BY <1>1, InvariantHolds, PTL

\* The endpoint outlives the threads that use it, and at most one call into the
\* message handler begins after the dispatcher was told to exit.
THEOREM ExitIsOrderly == Spec => []OrderlyExit
  BY InvImpliesOrderly, InvariantHolds, PTL

\* The reason the dispatcher exits with is something that happened, or the write
\* it interrupted itself.
THEOREM ExitReasonIsReal == Spec => []ExitReasonHappened
  <1>1. DispatcherInv => ExitReasonHappened
    BY DEF DispatcherInv, ControlInv, ReasonsHappened
  <1> QED BY <1>1, InvariantHolds, PTL

\* The reason onDispatcherExit was told is the one waitForExit returns.
THEOREM ExitReasonDoesNotChange == Spec => ExitReasonFinal
  <1>1. DispatcherInv /\ [Next]_vars
          => [(master \in {"finish", "exited"}) => (mExitReason' = observed)]_vars
    <2> SUFFICES ASSUME DispatcherInv, [Next]_vars, master \in {"finish", "exited"}
                 PROVE  mExitReason' = observed
      OBVIOUS
    <2>1. observed' = mExitReason'
      <3>1. master' \in {"finish", "exited"}
        BY DEF DispatcherInv, ControlInv, TypeOK, ShuttingDown, Phases, StateFollowsMaster, States,
               Next, IncomingStep, InLoop, InGet, InDisconnected, InPush, InPostError,
               OutgoingStep, OutLoop, OutPop, OutPut, OutDisconnected, OutPostError,
               HandlerStep, HandlerLoop, HandlerWait, HandlerPop, HandlerReturn, HandlerPostError,
               MasterStep, MasterStart, MasterDispatch, MasterExit, MasterShutQueues,
               MasterShutSource, MasterJoin, MasterObserve, MasterFinish,
               Environment, InRead, InReadError, OutWrite, OutWriteError, HandlerTimeout,
               HandlerThrow, PeerDisconnects, Application, StartQueueing, StartDispatching, Send,
               PostQuit, vars
      <3> QED BY <3>1, StepInv, Zenon DEF DispatcherInv, ControlInv, ObservedIsFinal
    <2>2. observed' = observed
      BY DEF Next, IncomingStep, InLoop, InGet, InDisconnected, InPush, InPostError,
             OutgoingStep, OutLoop, OutPop, OutPut, OutDisconnected, OutPostError,
             HandlerStep, HandlerLoop, HandlerWait, HandlerPop, HandlerReturn, HandlerPostError,
             MasterStep, MasterStart, MasterDispatch, MasterExit, MasterShutQueues,
             MasterShutSource, MasterJoin, MasterObserve, MasterFinish,
             Environment, InRead, InReadError, OutWrite, OutWriteError, HandlerTimeout,
             HandlerThrow, PeerDisconnects, Application, StartQueueing, StartDispatching, Send,
             PostQuit, vars, history
    <2> QED BY <2>1, <2>2
  <1> QED BY <1>1, InvariantHolds, PTL DEF Spec, ExitReasonFinal

------------------------------------------------------------------------------
\* The end of the dispatcher closes its channels; it is never taken back.
LEMMA OverStep ==
    ASSUME DispatcherInv, [Next]_vars
    PROVE  /\ (master \in Over) => (master' \in Over) /\ UNCHANGED <<received, handled, accepted, written>>
           /\ (master' \in Over) => UNCHANGED <<received, handled, accepted, written>>
  <1> USE DEF DispatcherInv, ControlInv, TypeOK, ShuttingDown, Over, Phases, ThreadsFollowMaster,
              FlagsFollowMaster, OutClosed, StateFollowsMaster,
              stateVars, queueVars, sourceVars, inVars, outVars, hVars, history
  <1>1. CASE IncomingStep
    BY <1>1 DEF IncomingStep, InLoop, InGet, InDisconnected, InPush, InPostError
  <1>2. CASE OutgoingStep
    BY <1>2 DEF OutgoingStep, OutLoop, OutPop, OutPut, OutDisconnected, OutPostError
  <1>3. CASE HandlerStep
    BY <1>3 DEF HandlerStep, HandlerLoop, HandlerWait, HandlerPop, HandlerReturn, HandlerPostError
  <1>4. CASE MasterStep
    BY <1>4 DEF MasterStep, MasterStart, MasterDispatch, MasterExit, MasterShutQueues,
                MasterShutSource, MasterJoin, MasterObserve, MasterFinish
  <1>5. CASE Environment
    BY <1>5 DEF Environment, InRead, InReadError, OutWrite, OutWriteError, HandlerTimeout,
                HandlerThrow, PeerDisconnects
  <1>6. CASE Application
    BY <1>6 DEF Application, StartQueueing, StartDispatching, Send, PostQuit
  <1>7. CASE UNCHANGED vars
    BY <1>7 DEF vars
  <1> QED BY <1>1, <1>2, <1>3, <1>4, <1>5, <1>6, <1>7, Zenon DEF Next

\* A step that leaves a stream alone is a stutter of its channel, or closes it.
LEMMA CloseOrStutter ==
    ASSUME DispatcherInv, [Next]_vars
    PROVE  /\ UNCHANGED <<received, handled>> => InChannel!Close \/ UNCHANGED InChannel!vars
           /\ UNCHANGED <<accepted, written>> => OutChannel!Close \/ UNCHANGED OutChannel!vars
  <1>1. CASE (master' \in Over) = (master \in Over)
    BY <1>1, Zenon DEF Over, InChannel!vars, OutChannel!vars
  <1>2. CASE master' \in Over
    BY <1>2, Zenon DEF Over, InChannel!Close, OutChannel!Close
  <1> QED BY <1>1, <1>2, OverStep

\* Every step of the dispatcher is one of the incoming channel, or none.
LEMMA InChannelStep == DispatcherInv /\ [Next]_vars => [InChannel!Next]_(InChannel!vars)
  <1> SUFFICES ASSUME DispatcherInv, [Next]_vars PROVE InChannel!Next \/ UNCHANGED InChannel!vars
    BY Zenon
  <1>1. CASE UNCHANGED <<received, handled>>
    BY <1>1, CloseOrStutter, Zenon DEF InChannel!Next
  <1>2. CASE received' # received \/ handled' # handled
    <2>1. master \notin Over /\ master' \notin Over
      BY <1>2, OverStep, Zenon
    <2>open. /\ ~(master \in {"observe", "finish", "exited"})
             /\ (master' \in {"observe", "finish", "exited"}) = (master \in {"observe", "finish", "exited"})
      BY <2>1 DEF Over
    <2>2. CASE InRead
      <3>1. Len(received) + 1 \in 1 .. MaxIn
        BY <2>2, BoundsAssumption DEF InRead, DispatcherInv, ControlInv, TypeOK
      <3>2. received' = Append(received, Len(received) + 1) /\ handled' = handled
        BY <2>2, Zenon DEF InRead
      <3>3. InChannel!Accept(Len(received) + 1)
        BY <2>open, <3>2, Zenon DEF InChannel!Accept
      <3> QED BY <3>1, <3>3, Zenon DEF InChannel!Next
    <2>3. CASE HandlerReturn \/ HandlerThrow
      <3>1. handler = "handling" /\ received' = received /\ handled' = Append(handled, hMsg)
        BY <1>2, <2>3, Zenon DEF HandlerReturn, HandlerThrow
      <3>2. hMsg = Len(handled) + 1 /\ Len(handled) < Len(received)
        BY <3>1 DEF DispatcherInv, ControlInv, TypeOK, InStream, Handling
      <3>3. received[Len(handled) + 1] = Len(handled) + 1
        BY <3>2 DEF DispatcherInv, ControlInv, TypeOK, InStream, Counts
      <3>4. InChannel!Deliver
        BY <2>open, <3>1, <3>2, <3>3, Zenon DEF InChannel!Deliver
      <3> QED BY <3>4, Zenon DEF InChannel!Next
    <2>4. CASE ~InRead /\ ~HandlerReturn /\ ~HandlerThrow
      <3>1. UNCHANGED <<received, handled>>
        BY <2>4 DEF
             Next, IncomingStep, InLoop, InGet, InDisconnected, InPush, InPostError,
             OutgoingStep, OutLoop, OutPop, OutPut, OutDisconnected, OutPostError,
             HandlerStep, HandlerLoop, HandlerWait, HandlerPop, HandlerPostError,
             MasterStep, MasterStart, MasterDispatch, MasterExit, MasterShutQueues,
             MasterShutSource, MasterJoin, MasterObserve, MasterFinish,
             Environment, InReadError, OutWrite, OutWriteError, HandlerTimeout, PeerDisconnects,
             Application, StartQueueing, StartDispatching, Send, PostQuit, vars, history
      <3> QED BY <1>2, <3>1
    <2> QED BY <2>2, <2>3, <2>4
  <1> QED BY <1>1, <1>2, Zenon

\* Every step of the dispatcher is one of the outgoing channel, or none.
LEMMA OutChannelStep == DispatcherInv /\ [Next]_vars => [OutChannel!Next]_(OutChannel!vars)
  <1> SUFFICES ASSUME DispatcherInv, [Next]_vars PROVE OutChannel!Next \/ UNCHANGED OutChannel!vars
    BY Zenon
  <1>1. CASE UNCHANGED <<accepted, written>>
    BY <1>1, CloseOrStutter, Zenon DEF OutChannel!Next
  <1>2. CASE accepted' # accepted \/ written' # written
    <2>1. master \notin Over /\ master' \notin Over
      BY <1>2, OverStep, Zenon
    <2>open. /\ ~(master \in {"observe", "finish", "exited"})
             /\ (master' \in {"observe", "finish", "exited"}) = (master \in {"observe", "finish", "exited"})
      BY <2>1 DEF Over
    <2>2. CASE Send
      <3>1. Len(accepted) + 1 \in 1 .. MaxOut
        BY <2>2, BoundsAssumption DEF Send, DispatcherInv, ControlInv, TypeOK
      <3>2. accepted' = Append(accepted, Len(accepted) + 1) /\ written' = written
        BY <2>2, Zenon DEF Send
      <3>3. OutChannel!Accept(Len(accepted) + 1)
        BY <2>open, <3>2, Zenon DEF OutChannel!Accept
      <3> QED BY <3>1, <3>3, Zenon DEF OutChannel!Next
    <2>3. CASE OutWrite
      <3>1. outgoing = "writing" /\ accepted' = accepted /\ written' = Append(written, outMsg)
        BY <2>3, Zenon DEF OutWrite
      <3>2. outMsg = Len(written) + 1 /\ Len(written) < Len(accepted)
        BY <3>1 DEF DispatcherInv, ControlInv, TypeOK, OutStream, Writing
      <3>3. accepted[Len(written) + 1] = Len(written) + 1
        BY <3>2 DEF DispatcherInv, ControlInv, TypeOK, OutStream, Counts
      <3>4. OutChannel!Deliver
        BY <2>open, <3>1, <3>2, <3>3, Zenon DEF OutChannel!Deliver
      <3> QED BY <3>4, Zenon DEF OutChannel!Next
    <2>4. CASE ~Send /\ ~OutWrite
      <3>1. UNCHANGED <<accepted, written>>
        BY <2>4 DEF
             Next, IncomingStep, InLoop, InGet, InDisconnected, InPush, InPostError,
             OutgoingStep, OutLoop, OutPop, OutPut, OutDisconnected, OutPostError,
             HandlerStep, HandlerLoop, HandlerWait, HandlerPop, HandlerReturn, HandlerPostError,
             MasterStep, MasterStart, MasterDispatch, MasterExit, MasterShutQueues,
             MasterShutSource, MasterJoin, MasterObserve, MasterFinish,
             Environment, InRead, InReadError, OutWriteError, HandlerTimeout, HandlerThrow,
             PeerDisconnects, Application, StartQueueing, StartDispatching, PostQuit, vars, history
      <3> QED BY <1>2, <3>1
    <2> QED BY <2>2, <2>3, <2>4
  <1> QED BY <1>1, <1>2, Zenon

\* What the peer sends reaches the handler, and what send accepted reaches the
\* peer, through a first-in first-out channel that the exit closes.
THEOREM StreamsAreChannels == Spec => MessagesInOrder
  <1>1. Init => InChannel!Init /\ OutChannel!Init
    BY DEF Init, InChannel!Init, OutChannel!Init
  <1> QED BY <1>1, InvariantHolds, InChannelStep, OutChannelStep, PTL
      DEF Spec, MessagesInOrder, InChannel!Spec, OutChannel!Spec
------------------------------------------------------------------------------
(* The computation process. *)

\* The main thread has seen the dispatcher exit.
Stopped == {"stop", "stopMonitor", "joinMonitor"}

\* Where the main thread is limits what the dispatcher does and the other way round.
MainFollows ==
    /\ main \in {"load", "initialize", "launch", "queue"} => mState = "NotStarted"
    /\ mState = "Dispatching" => main = "waitExit"
    /\ handler \notin {"none", "done"} => main = "waitExit"
    /\ main \in Stopped => master = "exited"

\* Whoever asks the dispatcher to quit is known: the node, or the main thread
\* after an exception.
QuitIsAsked ==
    /\ "Quit" \in happened => stopRequested \/ startException
    /\ incoming = "control" => stopRequested
    /\ main = "quit" => startException

CompInv ==
    /\ DispatcherInv /\ CompTypeOK
    /\ MainFollows /\ QuitIsAsked /\ NormalOnlyIfStopped

------------------------------------------------------------------------------
\* A step of the process is one of the dispatcher, or a control message, or none
\* of the dispatcher's business.
LEMMA StepKinds ==
    ASSUME [CompNext]_allVars
    PROVE  [Next]_vars \/ ControlGo \/ ControlStop \/ ControlStopQuit
  <1>1. CASE MainStep \/ GoTimeout
    BY <1>1, Zenon DEF MainStep, Load, Initialize, Launch, RunQueueing, SendReady, GoReceived,
          ConfigureStart, RunDispatching, RunQuit, WaitForExit, ConfigureStop, StopMonitor, Return,
          GoTimeout, Next, Application
  <1>2. CASE MonitorStep
    BY <1>2, Zenon DEF MonitorStep, MonitorRun, MonitorStopped
  <1>3. CASE \/ WithinRun(IncomingStep) \/ WithinRun(OutgoingStep) \/ WithinRun(HandlerStep)
             \/ WithinRun(MasterStep) \/ WithinRun(Environment)
    BY <1>3, Zenon DEF WithinRun, Next
  <1>4. CASE UNCHANGED allVars
    BY <1>4, Zenon DEF allVars
  <1> QED BY <1>1, <1>2, <1>3, <1>4, Zenon DEF CompNext

\* A control message keeps the dispatcher's invariant.
LEMMA ControlKeepsDispatcher ==
    ASSUME DispatcherInv, ControlGo \/ ControlStop \/ ControlStopQuit
    PROVE  DispatcherInv'
  <1> USE DEF DispatcherInv, ControlInv, ControlReceived,
              stateVars, queueVars, sourceVars, inVars, outVars, hVars, history
  <1>1. CASE ControlGo \/ ControlStop
    <2>1. /\ incoming = "reading" /\ incoming' \in {"get", "control"}
          /\ UNCHANGED <<stateVars, queueVars, sourceVars, master, inMsg, inReason, outVars, hVars, history>>
      BY <1>1, Zenon DEF ControlGo, ControlStop
    <2>2. TypeOK'
      BY <2>1 DEF TypeOK
    <2>3. HoldsMessage' /\ LateCallIsLast' /\ ObservedIsFinal'
      BY <2>1 DEF HoldsMessage, LateCallIsLast, ObservedIsFinal
    <2>4. Phases'
      BY <2>1 DEF Phases, ThreadsFollowMaster, StateFollowsMaster, FlagsFollowMaster, Over
    <2>5. ReasonsHappened'
      BY <2>1 DEF ReasonsHappened, ExitReasonHappened
    <2>6. InFrame /\ OutFrame
      BY <2>1 DEF InFrame, OutFrame, OutGivenUp, Writing
    <2> QED BY <2>2, <2>3, <2>4, <2>5, <2>6, FrameKeepsInStream, FrameKeepsOutStream, Zenon
  <1>2. CASE ControlStopQuit
    <2> USE <1>2 DEF ControlStopQuit
    <2>1. /\ incoming = "control" /\ incoming' = "get" /\ master \notin ShuttingDown
          /\ UNCHANGED <<queueVars, sourceVars, master, inMsg, inReason, outVars, hVars,
                         received, handled, accepted, written, observed, errors>>
      BY Zenon DEF MutexFree
    <2>2. CASE mState \in {"Exiting", "Exited"}
      <3>1. UNCHANGED <<stateVars, happened>>
        BY <2>2, Zenon
      <3>2. TypeOK'
        BY <2>1, <3>1 DEF TypeOK
      <3>3. HoldsMessage' /\ LateCallIsLast' /\ ObservedIsFinal'
        BY <2>1, <3>1 DEF HoldsMessage, LateCallIsLast, ObservedIsFinal
      <3>4. Phases'
        BY <2>1, <3>1 DEF Phases, ThreadsFollowMaster, StateFollowsMaster, FlagsFollowMaster, Over
      <3>5. ReasonsHappened'
        BY <2>1, <3>1 DEF ReasonsHappened, ExitReasonHappened
      <3>6. InFrame /\ OutFrame
        BY <2>1, <3>1 DEF InFrame, OutFrame, OutGivenUp, Writing
      <3> QED BY <3>2, <3>3, <3>4, <3>5, <3>6, FrameKeepsInStream, FrameKeepsOutStream, Zenon
    <2>3. CASE mState \notin {"Exiting", "Exited"}
      <3>1. mExitReason' = "Quit" /\ mState' = "Exiting" /\ happened' = happened \cup {"Quit"}
        BY <2>3, Zenon
      <3>2. TypeOK'
        BY <2>1, <3>1 DEF TypeOK, States, Reasons
      <3>3. HoldsMessage' /\ LateCallIsLast'
        BY <2>1, <3>1 DEF HoldsMessage, LateCallIsLast
      <3>4. Phases'
        BY <2>1, <2>3, <3>1 DEF Phases, ThreadsFollowMaster, StateFollowsMaster, FlagsFollowMaster, Over
      <3>5. ReasonsHappened' /\ ObservedIsFinal'
        BY <2>1, <3>1 DEF ReasonsHappened, ExitReasonHappened, ObservedIsFinal, Phases,
                          ThreadsFollowMaster, Over
      <3>6. InFrame /\ OutFrame
        BY <2>1, <2>3, <3>1 DEF InFrame, OutFrame, OutGivenUp, Writing
      <3> QED BY <3>2, <3>3, <3>4, <3>5, <3>6, FrameKeepsInStream, FrameKeepsOutStream, Zenon
    <2> QED BY <2>2, <2>3
  <1> QED BY <1>1, <1>2

LEMMA DispatcherStepInv ==
    ASSUME DispatcherInv, [CompNext]_allVars
    PROVE  DispatcherInv'
  BY StepKinds, StepInv, ControlKeepsDispatcher, Zenon

------------------------------------------------------------------------------
\* Types of the process's own variables.
LEMMA CompTypeStep ==
    ASSUME CompTypeOK, TypeOK', [CompNext]_allVars
    PROVE  CompTypeOK'
  <1> USE MaxControlAssumption DEF CompTypeOK, ExitCodes, NoCode, compVars
  <1>1. CASE MainStep
    BY <1>1 DEF MainStep, Load, Initialize, Launch, RunQueueing, SendReady, GoReceived,
          ConfigureStart, RunDispatching, RunQuit, WaitForExit, ConfigureStop, StopMonitor, Return,
          ReturnCode, ExitCodeOf
  <1>2. CASE GoTimeout \/ MonitorStep
    BY <1>2 DEF GoTimeout, MonitorStep, MonitorRun, MonitorStopped
  <1>3. CASE ControlGo \/ ControlStop \/ ControlStopQuit
    <2>1. {mGo, mRun, startException, stopException, stopRequested}' \subseteq BOOLEAN
      BY <1>3, Zenon DEF ControlGo, ControlStop, ControlStopQuit
    <2>2. UNCHANGED <<main, monitor, exitCode>>
      BY <1>3, Zenon DEF ControlGo, ControlStop, ControlStopQuit
    <2>3. controls' \in 0 .. MaxControl
      <3>1. controls' = controls \/ (controls < MaxControl /\ controls' = controls + 1)
        BY <1>3, Zenon DEF ControlGo, ControlStop, ControlStopQuit, ControlReceived
      <3>2. controls \in 0 .. MaxControl
        BY Zenon
      <3> QED BY <3>1, <3>2
    <2> QED BY <2>1, <2>2, <2>3
  <1>4. CASE UNCHANGED compVars
    BY <1>4
  <1> QED BY <1>1, <1>2, <1>3, <1>4, Zenon DEF CompNext, WithinRun, allVars

\* The main thread and the dispatcher follow each other.
LEMMA MainStepInv ==
    ASSUME DispatcherInv, CompTypeOK, MainFollows, [CompNext]_allVars
    PROVE  MainFollows'
  <1> USE DEF DispatcherInv, ControlInv, TypeOK, MainFollows, Stopped, compVars,
              Phases, ThreadsFollowMaster, StateFollowsMaster, Over, States,
              stateVars, queueVars, sourceVars, inVars, outVars, hVars, history, Running
  <1>1. CASE MainStep
    BY <1>1 DEF MainStep, Load, Initialize, Launch, RunQueueing, SendReady, GoReceived,
          ConfigureStart, RunDispatching, RunQuit, WaitForExit, ConfigureStop, StopMonitor, Return,
          StartQueueing, Send, StartDispatching, PostQuit, vars
  <1>2. CASE GoTimeout \/ MonitorStep
    BY <1>2 DEF GoTimeout, MonitorStep, MonitorRun, MonitorStopped, vars
  <1>3. CASE ControlGo \/ ControlStop \/ ControlStopQuit
    BY <1>3 DEF ControlGo, ControlStop, ControlStopQuit, ControlReceived
  <1>4. CASE WithinRun(IncomingStep)
    BY <1>4 DEF WithinRun, IncomingStep, InLoop, InGet, InDisconnected, InPush, InPostError, PostError
  <1>5. CASE WithinRun(OutgoingStep)
    BY <1>5 DEF WithinRun, OutgoingStep, OutLoop, OutPop, OutPut, OutDisconnected, OutPostError, PostError
  <1>6. CASE WithinRun(HandlerStep)
    BY <1>6 DEF WithinRun, HandlerStep, HandlerLoop, HandlerWait, HandlerPop, HandlerReturn,
          HandlerPostError, PostError
  <1>7. CASE WithinRun(MasterStep)
    BY <1>7 DEF WithinRun, MasterStep, MasterStart, MasterDispatch, MasterExit, MasterShutQueues,
          MasterShutSource, MasterJoin, MasterObserve, MasterFinish
  <1>8. CASE WithinRun(Environment)
    BY <1>8 DEF WithinRun, Environment, InRead, InReadError, OutWrite, OutWriteError, HandlerTimeout,
          HandlerThrow, PeerDisconnects
  <1>9. CASE UNCHANGED allVars
    BY <1>9 DEF allVars, vars
  <1> QED BY <1>1, <1>2, <1>3, <1>4, <1>5, <1>6, <1>7, <1>8, <1>9, Zenon DEF CompNext

\* A quit has been asked for.
LEMMA QuitStepInv ==
    ASSUME CompTypeOK, QuitIsAsked, [CompNext]_allVars
    PROVE  QuitIsAsked'
  <1> USE DEF CompTypeOK, TypeOK, QuitIsAsked, compVars,
              stateVars, queueVars, sourceVars, inVars, outVars, hVars, history
  <1>1. CASE MainStep
    BY <1>1 DEF MainStep, Load, Initialize, Launch, RunQueueing, SendReady, GoReceived,
          ConfigureStart, RunDispatching, RunQuit, WaitForExit, ConfigureStop, StopMonitor, Return,
          StartQueueing, Send, StartDispatching, PostQuit, vars
  <1>2. CASE GoTimeout \/ MonitorStep
    BY <1>2 DEF GoTimeout, MonitorStep, MonitorRun, MonitorStopped, vars
  <1>3. CASE ControlGo \/ ControlStop \/ ControlStopQuit
    BY <1>3 DEF ControlGo, ControlStop, ControlStopQuit, ControlReceived
  <1>4. CASE WithinRun(IncomingStep)
    BY <1>4 DEF WithinRun, IncomingStep, InLoop, InGet, InDisconnected, InPush, InPostError
  <1>5. CASE WithinRun(OutgoingStep)
    BY <1>5 DEF WithinRun, OutgoingStep, OutLoop, OutPop, OutPut, OutDisconnected, OutPostError
  <1>6. CASE WithinRun(HandlerStep)
    BY <1>6 DEF WithinRun, HandlerStep, HandlerLoop, HandlerWait, HandlerPop, HandlerReturn,
          HandlerPostError
  <1>7. CASE WithinRun(MasterStep)
    BY <1>7 DEF WithinRun, MasterStep, MasterStart, MasterDispatch, MasterExit, MasterShutQueues,
          MasterShutSource, MasterJoin, MasterObserve, MasterFinish
  <1>8. CASE WithinRun(Environment)
    BY <1>8 DEF WithinRun, Environment, InRead, InReadError, OutWrite, OutWriteError, HandlerTimeout,
          HandlerThrow, PeerDisconnects
  <1>9. CASE UNCHANGED allVars
    BY <1>9 DEF allVars, vars
  <1> QED BY <1>1, <1>2, <1>3, <1>4, <1>5, <1>6, <1>7, <1>8, <1>9, Zenon DEF CompNext

\* Only Return sets the exit code after the run: by then the dispatcher has exited,
\* and a reason of Quit goes back to somebody who asked.
LEMMA NormalStepInv ==
    ASSUME CompInv, [CompNext]_allVars
    PROVE  NormalOnlyIfStopped'
  <1> USE DEF CompInv, NormalOnlyIfStopped
  <1>1. stopRequested => stopRequested'
    BY DEF CompNext, MainStep, Load, Initialize, Launch, RunQueueing, SendReady, GoReceived,
          ConfigureStart, RunDispatching, RunQuit, WaitForExit, ConfigureStop, StopMonitor, Return,
          GoTimeout, MonitorStep, MonitorRun, MonitorStopped, ControlGo, ControlStop, ControlStopQuit,
          WithinRun, compVars, allVars
  <1>2. CASE Return
    <2>1. exitCode' = "NORMAL" => ~startException /\ mExitReason = "Quit"
      BY <1>2 DEF Return, ReturnCode, ExitCodeOf
    <2>2. mState = "Exited"
      BY <1>2 DEF Return, MainFollows, Stopped, DispatcherInv, ControlInv, Phases, StateFollowsMaster
    <2>3. mExitReason = "Quit" => "Quit" \in happened
      BY <2>2 DEF DispatcherInv, ControlInv, ReasonsHappened, ExitReasonHappened
    <2> QED BY <1>1, <2>1, <2>3 DEF QuitIsAsked
  <1>3. CASE Load \/ Initialize
    BY <1>3 DEF Load, Initialize
  <1>4. CASE ~Return /\ ~Load /\ ~Initialize
    <2>1. exitCode' = exitCode
      BY <1>4 DEF CompNext, MainStep, Launch, RunQueueing, SendReady, GoReceived,
            ConfigureStart, RunDispatching, RunQuit, WaitForExit, ConfigureStop, StopMonitor,
            GoTimeout, MonitorStep, MonitorRun, MonitorStopped, ControlGo, ControlStop, ControlStopQuit,
            WithinRun, compVars, allVars
    <2> QED BY <1>1, <2>1
  <1> QED BY <1>2, <1>3, <1>4

------------------------------------------------------------------------------
LEMMA CompInitInv == CompInit => CompInv
  <1> SUFFICES ASSUME CompInit PROVE CompInv
    OBVIOUS
  <1>1. DispatcherInv
    BY InitInv, Zenon DEF CompInit
  <1>2. CompTypeOK
    <2>1. {mGo, mRun, startException, stopException, stopRequested} \subseteq BOOLEAN
      BY Zenon DEF CompInit
    <2> QED BY <1>1, <2>1, MaxControlAssumption
       DEF CompInit, CompTypeOK, ExitCodes, NoCode, DispatcherInv, ControlInv
  <1>3. MainFollows /\ QuitIsAsked /\ NormalOnlyIfStopped
    BY DEF CompInit, Init, MainFollows, Stopped, QuitIsAsked, NormalOnlyIfStopped, NoCode
  <1> QED BY <1>1, <1>2, <1>3 DEF CompInv

LEMMA CompStepInv == CompInv /\ [CompNext]_allVars => CompInv'
  <1> SUFFICES ASSUME CompInv, [CompNext]_allVars PROVE CompInv'
    OBVIOUS
  <1>1. DispatcherInv'
    BY DispatcherStepInv, Zenon DEF CompInv
  <1>2. CompTypeOK'
    BY <1>1, CompTypeStep, Zenon DEF CompInv, DispatcherInv, ControlInv
  <1>3. MainFollows' /\ QuitIsAsked' /\ NormalOnlyIfStopped'
    BY MainStepInv, QuitStepInv, NormalStepInv, Zenon DEF CompInv
  <1> QED BY <1>1, <1>2, <1>3, Zenon DEF CompInv

LEMMA CompInvariantHolds == CompSpec => []CompInv
  BY CompInitInv, CompStepInv, PTL DEF CompSpec

\* The variables of a computation process keep their types, and it has an exit
\* code exactly when it has returned.
THEOREM CompTypeCorrect == CompSpec => []CompTypeOK
  <1>1. CompInv => CompTypeOK
    BY DEF CompInv
  <1> QED BY <1>1, CompInvariantHolds, PTL

\* Messages and idle calls reach the computation only between configure("start")
\* and configure("stop").
THEOREM CallbacksAreOrdered == CompSpec => []CallbacksDoNotOverlap
  <1>1. CompInv => CallbacksDoNotOverlap
    BY DEF CompInv, MainFollows, CallbacksDoNotOverlap
  <1> QED BY <1>1, CompInvariantHolds, PTL

\* A process that exits as NORMAL was told to stop.
THEOREM NormalExitWasAsked == CompSpec => []NormalOnlyIfStopped
  <1>1. CompInv => NormalOnlyIfStopped
    BY DEF CompInv
  <1> QED BY <1>1, CompInvariantHolds, PTL

\* The dispatcher inside a computation process exits in order and for a reason,
\* control messages included.
THEOREM DispatcherInComputation == CompSpec => [](OrderlyExit /\ ExitReasonHappened)
  <1>1. CompInv => OrderlyExit /\ ExitReasonHappened
    BY InvImpliesOrderly, Zenon DEF CompInv, DispatcherInv, ControlInv, ReasonsHappened
  <1> QED BY <1>1, CompInvariantHolds, PTL
===============================================================================
