--------------------------- MODULE MessageDispatcher ---------------------------
(***************************************************************************)
(* impl::MessageDispatcher on a PeerMessageEndpoint: a master thread, an   *)
(* incoming thread (endpoint -> mIncomingQueue), a handler thread          *)
(* (mIncomingQueue -> MessageHandler) and an outgoing thread               *)
(* (mOutgoingQueue -> endpoint), any of which can end the dispatcher.      *)
(*                                                                         *)
(* The queues are used through the operations of ThreadsafeQueue, which    *)
(* implements MessageChannel: push and pop are atomic here, pop blocks     *)
(* until there is an item or the queue is shut down.  mStateMutex is held  *)
(* across steps only by the master (while it shuts things down); whoever   *)
(* else takes it does so within one step.  A message is identified by its  *)
(* position in the stream it belongs to.  The incoming thread's point      *)
(* "control" is for an endpoint that acts on some messages itself          *)
(* (ControlMessageEndpoint, modelled in CompEnvironment).                  *)
(***************************************************************************)
EXTENDS Integers, Sequences

CONSTANTS MaxIn,     \* bound: messages the peer sends
          MaxOut,    \* bound: messages the application sends
          MaxErrors  \* bound: exceptions thrown by (de)serialisation or handlers

ASSUME BoundsAssumption == MaxIn \in Nat /\ MaxOut \in Nat /\ MaxErrors \in Nat

VARIABLES
    mState, mExitReason,            \* members (mExitReason is not initialised)
    mIncomingQueue, inShutdown,     \* the incoming queue and its mShutdown
    mOutgoingQueue, outShutdown,    \* the outgoing queue and its mShutdown
    mSource,                        \* "null", "set" or "reset"
    srcShutdown,                    \* PeerMessageEndpoint::mShutdown
    peerOpen,                       \* the peer's socket is connected
    master, incoming, outgoing, handler,  \* where each thread is
    inMsg, outMsg, hMsg,            \* the envelope each thread holds
    inReason, outReason, hReason,   \* what it is about to pass to postError
    received, handled, accepted, written, \* history of the four message streams
    observed,                       \* what onDispatcherExit was told
    happened,                       \* causes to exit that really occurred
    errors, lateCalls               \* errors so far; handler calls begun late

stateVars  == <<mState, mExitReason>>
queueVars  == <<mIncomingQueue, inShutdown, mOutgoingQueue, outShutdown>>
sourceVars == <<mSource, srcShutdown, peerOpen>>
inVars     == <<incoming, inMsg, inReason>>
outVars    == <<outgoing, outMsg, outReason>>
hVars      == <<handler, hMsg, hReason, lateCalls>>
history    == <<received, handled, accepted, written, observed, happened, errors>>
vars == <<stateVars, queueVars, sourceVars, master, inVars, outVars, hVars, history>>

States  == {"NotStarted", "Queueing", "Dispatching", "Exiting", "Exited"}
Reasons == {"Quit", "Disconnected", "MessageError", "HandlerError"}
NoReason == "None"

Init ==
    /\ mState = "NotStarted" /\ mExitReason = NoReason
    /\ mIncomingQueue = <<>> /\ inShutdown = FALSE
    /\ mOutgoingQueue = <<>> /\ outShutdown = FALSE
    /\ mSource = "null" /\ srcShutdown = FALSE /\ peerOpen = TRUE
    /\ master = "none" /\ incoming = "none" /\ outgoing = "none" /\ handler = "none"
    /\ inMsg = 0 /\ outMsg = 0 /\ hMsg = 0
    /\ inReason = NoReason /\ outReason = NoReason /\ hReason = NoReason
    /\ received = <<>> /\ handled = <<>> /\ accepted = <<>> /\ written = <<>>
    /\ observed = NoReason /\ happened = {}
    /\ errors = 0 /\ lateCalls = 0

\* The master holds mStateMutex from the moment its wait for Exiting ends until
\* it has shut everything down.
ShuttingDown == {"shutIn", "shutOut", "shutSource", "shutPeer"}
MutexFree == master \notin ShuttingDown

------------------------------------------------------------------------------
\* The application's calls.

\* startQueueing; it throws (and changes nothing) in any other state.
StartQueueing ==
    /\ MutexFree
    /\ mState = "NotStarted"
    /\ mState' = "Queueing"
    /\ mSource' = "set"
    /\ master' = "start"
    /\ UNCHANGED <<mExitReason, queueVars, srcShutdown, peerOpen, inVars, outVars, hVars, history>>

\* startDispatching; it throws in any other state.
StartDispatching ==
    /\ MutexFree
    /\ mState = "Queueing"
    /\ mState' = "Dispatching"
    /\ UNCHANGED <<mExitReason, queueVars, sourceVars, master, inVars, outVars, hVars, history>>

\* send, from the application or from within the message handler.  After the
\* queue has been shut down it returns false and nothing changes.
Send ==
    /\ ~outShutdown
    /\ Len(accepted) < MaxOut
    /\ mOutgoingQueue' = Append(mOutgoingQueue, Len(accepted) + 1)
    /\ accepted' = Append(accepted, Len(accepted) + 1)
    /\ UNCHANGED <<stateVars, mIncomingQueue, inShutdown, outShutdown, sourceVars, master,
                   inVars, outVars, hVars, received, handled, written, observed, happened, errors>>

\* postQuit, from the application, the handler or the destructor.  A request
\* that comes after an error or another quit is ignored.
PostQuit ==
    /\ MutexFree
    /\ mState \notin {"Exiting", "Exited"}
    /\ mExitReason' = "Quit"
    /\ mState' = "Exiting"
    /\ happened' = happened \cup {"Quit"}
    /\ UNCHANGED <<queueVars, sourceVars, master, inVars, outVars, hVars,
                   received, handled, accepted, written, observed, errors>>

\* postError: unlike postQuit it always overwrites the reason and the state.
PostError(reason) ==
    /\ MutexFree
    /\ mExitReason' = reason
    /\ mState' = "Exiting"

------------------------------------------------------------------------------
\* incomingThreadProc

\* The test of mState at the top of the loop.
InLoop ==
    /\ incoming = "loop"
    /\ incoming' = IF mState = "Exiting" THEN "done" ELSE "get"
    /\ UNCHANGED <<stateVars, queueVars, sourceVars, master, inMsg, inReason, outVars, hVars, history>>

\* getEnvelope throws ShutdownException at once, or starts to read.
InGet ==
    /\ incoming = "get"
    /\ incoming' = IF srcShutdown THEN "loop" ELSE "reading"
    /\ UNCHANGED <<stateVars, queueVars, sourceVars, master, inMsg, inReason, outVars, hVars, history>>

\* A message is read.
InRead ==
    /\ incoming = "reading"
    /\ peerOpen
    /\ Len(received) < MaxIn
    /\ inMsg' = Len(received) + 1
    /\ received' = Append(received, Len(received) + 1)
    /\ incoming' = "push"
    /\ UNCHANGED <<stateVars, queueVars, sourceVars, master, inReason, outVars, hVars,
                   handled, accepted, written, observed, happened, errors>>

\* The read fails because the message cannot be read or understood.
InReadError ==
    /\ incoming = "reading"
    /\ peerOpen
    /\ errors < MaxErrors
    /\ errors' = errors + 1
    /\ happened' = happened \cup {"MessageError"}
    /\ incoming' = "post" /\ inReason' = "MessageError"
    /\ UNCHANGED <<stateVars, queueVars, sourceVars, master, inMsg, outVars, hVars,
                   received, handled, accepted, written, observed>>

\* The peer throws PeerDisconnectException, which becomes ShutdownException
\* (and is dropped) once the endpoint has been shut down.
InDisconnected ==
    /\ incoming = "reading"
    /\ ~peerOpen
    /\ IF srcShutdown
       THEN incoming' = "loop" /\ UNCHANGED inReason
       ELSE incoming' = "post" /\ inReason' = "Disconnected"
    /\ UNCHANGED <<stateVars, queueVars, sourceVars, master, inMsg, outVars, hVars, history>>

\* MUTANT of InPush: new messages overtake queued ones.
InPushFront ==
    /\ incoming = "push"
    /\ mIncomingQueue' = IF inShutdown THEN mIncomingQueue ELSE <<inMsg>> \o mIncomingQueue
    /\ incoming' = "loop"
    /\ inMsg' = 0
    /\ UNCHANGED <<stateVars, inShutdown, mOutgoingQueue, outShutdown, sourceVars, master,
                   inReason, outVars, hVars, history>>

\* The envelope goes on the queue, or is lost when the queue has been shut down.
InPush ==
    /\ incoming = "push"
    /\ mIncomingQueue' = IF inShutdown THEN mIncomingQueue ELSE Append(mIncomingQueue, inMsg)
    /\ incoming' = "loop"
    /\ inMsg' = 0
    /\ UNCHANGED <<stateVars, inShutdown, mOutgoingQueue, outShutdown, sourceVars, master,
                   inReason, outVars, hVars, history>>

\* The incoming thread reports its error.
InPostError ==
    /\ incoming = "post"
    /\ PostError(inReason)
    /\ incoming' = "loop" /\ inReason' = NoReason
    /\ UNCHANGED <<queueVars, sourceVars, master, inMsg, outVars, hVars, history>>

------------------------------------------------------------------------------
\* outgoingThreadProc

OutLoop ==
    /\ outgoing = "loop"
    /\ outgoing' = IF mState = "Exiting" THEN "done" ELSE "pop"
    /\ UNCHANGED <<stateVars, queueVars, sourceVars, master, inVars, outMsg, outReason, hVars, history>>

\* pop without a timeout: throws after shutdown, even if there are items left.
OutPop ==
    /\ outgoing = "pop"
    /\ \/ /\ outShutdown
          /\ outgoing' = "loop"
          /\ UNCHANGED <<mOutgoingQueue, outMsg>>
       \/ /\ ~outShutdown
          /\ mOutgoingQueue # <<>>
          /\ outMsg' = Head(mOutgoingQueue)
          /\ mOutgoingQueue' = Tail(mOutgoingQueue)
          /\ outgoing' = "put"
    /\ UNCHANGED <<stateVars, mIncomingQueue, inShutdown, outShutdown, sourceVars, master,
                   inVars, outReason, hVars, history>>

\* putEnvelope throws ShutdownException at once (the envelope is lost), or
\* starts to write.
OutPut ==
    /\ outgoing = "put"
    /\ IF srcShutdown
       THEN outgoing' = "loop" /\ outMsg' = 0
       ELSE outgoing' = "writing" /\ UNCHANGED outMsg
    /\ UNCHANGED <<stateVars, queueVars, sourceVars, master, inVars, outReason, hVars, history>>

\* The message is written.
OutWrite ==
    /\ outgoing = "writing"
    /\ peerOpen
    /\ written' = Append(written, outMsg)
    /\ outgoing' = "loop" /\ outMsg' = 0
    /\ UNCHANGED <<stateVars, queueVars, sourceVars, master, inVars, outReason, hVars,
                   received, handled, accepted, observed, happened, errors>>

\* The write fails for a reason that is not a disconnection.
OutWriteError ==
    /\ outgoing = "writing"
    /\ peerOpen
    /\ errors < MaxErrors
    /\ errors' = errors + 1
    /\ happened' = happened \cup {"MessageError"}
    /\ outgoing' = "post" /\ outReason' = "MessageError" /\ outMsg' = 0
    /\ UNCHANGED <<stateVars, queueVars, sourceVars, master, inVars, hVars,
                   received, handled, accepted, written, observed>>

\* A write on a socket that was shut down, here or at the other end, fails with
\* EPIPE: SocketPeer::send throws a plain PeerException, which putEnvelope does
\* not turn into ShutdownException.  (SocketPeer.tla models the call itself.)
OutDisconnected ==
    /\ outgoing = "writing"
    /\ ~peerOpen
    /\ happened' = IF srcShutdown THEN happened ELSE happened \cup {"MessageError"}
    /\ outgoing' = "post" /\ outReason' = "MessageError" /\ outMsg' = 0
    /\ UNCHANGED <<stateVars, queueVars, sourceVars, master, inVars, hVars,
                   errors, received, handled, accepted, written, observed>>

OutPostError ==
    /\ outgoing = "post"
    /\ PostError(outReason)
    /\ outgoing' = "loop" /\ outReason' = NoReason
    /\ UNCHANGED <<queueVars, sourceVars, master, inVars, outMsg, hVars, history>>

------------------------------------------------------------------------------
\* handlerThreadProc

HandlerLoop ==
    /\ handler = "loop"
    /\ handler' = IF mState = "Exiting" THEN "done" ELSE "pop"
    /\ UNCHANGED <<stateVars, queueVars, sourceVars, master, inVars, outVars, hMsg, hReason,
                   lateCalls, history>>

\* A call into the MessageHandler that begins after the dispatcher was told to exit.
CountCall == lateCalls' = IF mState = "Exiting" THEN lateCalls + 1 ELSE lateCalls

\* pop with the idle interval as its timeout finds the queue empty.
HandlerWait ==
    /\ handler = "pop"
    /\ ~inShutdown
    /\ mIncomingQueue = <<>>
    /\ handler' = "waiting"
    /\ UNCHANGED <<stateVars, queueVars, sourceVars, master, inVars, outVars, hMsg, hReason,
                   lateCalls, history>>

\* MUTANT of HandlerPop: a waiting pop is woken by shutdown only.
HandlerPopNoWake ==
    /\ handler \in {"pop", "waiting"}
    /\ \/ /\ inShutdown
          /\ handler' = "loop"
          /\ UNCHANGED <<mIncomingQueue, hMsg, lateCalls>>
       \/ /\ ~inShutdown
          /\ handler = "pop"
          /\ mIncomingQueue # <<>>
          /\ hMsg' = Head(mIncomingQueue)
          /\ mIncomingQueue' = Tail(mIncomingQueue)
          /\ handler' = "handling"
          /\ CountCall
    /\ UNCHANGED <<stateVars, inShutdown, mOutgoingQueue, outShutdown, sourceVars, master,
                   inVars, outVars, hReason, history>>

\* pop, at once or after a wait, throws or returns the first item.
HandlerPop ==
    /\ handler \in {"pop", "waiting"}
    /\ \/ /\ inShutdown
          /\ handler' = "loop"
          /\ UNCHANGED <<mIncomingQueue, hMsg, lateCalls>>
       \/ /\ ~inShutdown
          /\ mIncomingQueue # <<>>
          /\ hMsg' = Head(mIncomingQueue)
          /\ mIncomingQueue' = Tail(mIncomingQueue)
          /\ handler' = "handling"
          /\ CountCall
    /\ UNCHANGED <<stateVars, inShutdown, mOutgoingQueue, outShutdown, sourceVars, master,
                   inVars, outVars, hReason, history>>

\* The wait gives up after the idle interval, even if an item has just arrived
\* or the queue has just been shut down: onIdle is called.
HandlerTimeout ==
    /\ handler = "waiting"
    /\ handler' = "idling"
    /\ CountCall
    /\ UNCHANGED <<stateVars, queueVars, sourceVars, master, inVars, outVars, hMsg, hReason, history>>

\* handleMessage or onIdle returns.
HandlerReturn ==
    /\ handler \in {"handling", "idling"}
    /\ handled' = IF handler = "handling" THEN Append(handled, hMsg) ELSE handled
    /\ handler' = "loop" /\ hMsg' = 0
    /\ UNCHANGED <<stateVars, queueVars, sourceVars, master, inVars, outVars, hReason, lateCalls,
                   received, accepted, written, observed, happened, errors>>

\* handleMessage or onIdle throws.
HandlerThrow ==
    /\ handler \in {"handling", "idling"}
    /\ errors < MaxErrors
    /\ errors' = errors + 1
    /\ happened' = happened \cup {"HandlerError"}
    /\ handled' = IF handler = "handling" THEN Append(handled, hMsg) ELSE handled
    /\ handler' = "post" /\ hReason' = "HandlerError" /\ hMsg' = 0
    /\ UNCHANGED <<stateVars, queueVars, sourceVars, master, inVars, outVars, lateCalls,
                   received, accepted, written, observed>>

HandlerPostError ==
    /\ handler = "post"
    /\ PostError(hReason)
    /\ handler' = "loop" /\ hReason' = NoReason
    /\ UNCHANGED <<queueVars, sourceVars, master, inVars, outVars, hMsg, lateCalls, history>>

------------------------------------------------------------------------------
\* masterThreadProc

\* Takes the mutex and starts the incoming thread.
MasterStart ==
    /\ master = "start"
    /\ incoming' = "loop"
    /\ master' = "waitDispatch"
    /\ UNCHANGED <<stateVars, queueVars, sourceVars, inMsg, inReason, outVars, hVars, history>>

\* The wait for Dispatching or Exiting ends.
MasterDispatch ==
    /\ master = "waitDispatch"
    /\ \/ /\ mState = "Dispatching"
          /\ outgoing' = "loop" /\ handler' = "loop"
          /\ master' = "waitExit"
       \/ /\ mState = "Exiting"
          /\ master' = "shutIn"
          /\ UNCHANGED <<outgoing, handler>>
    /\ UNCHANGED <<stateVars, queueVars, sourceVars, inVars, outMsg, outReason,
                   hMsg, hReason, lateCalls, history>>

MasterExit ==
    /\ master = "waitExit"
    /\ mState = "Exiting"
    /\ master' = "shutIn"
    /\ UNCHANGED <<stateVars, queueVars, sourceVars, inVars, outVars, hVars, history>>

\* mIncomingQueue.shutdown() and mOutgoingQueue.shutdown()
MasterShutQueues ==
    /\ \/ /\ master = "shutIn"
          /\ inShutdown' = TRUE
          /\ master' = "shutOut"
          /\ UNCHANGED outShutdown
       \/ /\ master = "shutOut"
          /\ outShutdown' = TRUE
          /\ master' = "shutSource"
          /\ UNCHANGED inShutdown
    /\ UNCHANGED <<stateVars, mIncomingQueue, mOutgoingQueue, sourceVars,
                   inVars, outVars, hVars, history>>

\* MUTANT of MasterShutSource: the endpoint closes the peer before it sets its flag.
MasterShutPeerFirst ==
    /\ \/ /\ master = "shutSource"
          /\ peerOpen' = FALSE
          /\ master' = "shutPeer"
          /\ UNCHANGED srcShutdown
       \/ /\ master = "shutPeer"
          /\ srcShutdown' = TRUE
          /\ master' = "join"
          /\ UNCHANGED peerOpen
    /\ UNCHANGED <<stateVars, queueVars, mSource, inVars, outVars, hVars, history>>

\* MUTANT of MasterShutSource: the endpoint is not shut down.
MasterShutNothing ==
    /\ master \in {"shutSource", "shutPeer"}
    /\ master' = "join"
    /\ UNCHANGED <<stateVars, queueVars, sourceVars, inVars, outVars, hVars, history>>

\* mSource->shutdown(): PeerMessageEndpoint sets its flag, then disconnects the
\* peer, which makes every blocked read and write throw.
MasterShutSource ==
    /\ \/ /\ master = "shutSource"
          /\ srcShutdown' = TRUE
          /\ master' = "shutPeer"
          /\ UNCHANGED peerOpen
       \/ /\ master = "shutPeer"
          /\ peerOpen' = FALSE
          /\ master' = "join"
          /\ UNCHANGED srcShutdown
    /\ UNCHANGED <<stateVars, queueVars, mSource, inVars, outVars, hVars, history>>

\* MUTANT of MasterJoin: the endpoint is released before the threads are joined.
MasterJoinNone ==
    /\ master = "join"
    /\ mSource' = "reset"
    /\ master' = "observe"
    /\ UNCHANGED <<stateVars, queueVars, srcShutdown, peerOpen, inVars, outVars, hVars, history>>

\* The mutex is released, the threads are joined and the endpoint is released.
MasterJoin ==
    /\ master = "join"
    /\ {incoming, outgoing, handler} \subseteq {"none", "done"}
    /\ mSource' = "reset"
    /\ master' = "observe"
    /\ UNCHANGED <<stateVars, queueVars, srcShutdown, peerOpen, inVars, outVars, hVars, history>>

\* onDispatcherExit(mExitReason), without the mutex.
MasterObserve ==
    /\ master = "observe"
    /\ observed' = mExitReason
    /\ master' = "finish"
    /\ UNCHANGED <<stateVars, queueVars, sourceVars, inVars, outVars, hVars,
                   received, handled, accepted, written, happened, errors>>

MasterFinish ==
    /\ master = "finish"
    /\ mState' = "Exited"
    /\ master' = "exited"
    /\ UNCHANGED <<mExitReason, queueVars, sourceVars, inVars, outVars, hVars, history>>

------------------------------------------------------------------------------
\* The peer at the other end goes away.
PeerDisconnects ==
    /\ peerOpen
    /\ master # "none"
    /\ peerOpen' = FALSE
    /\ happened' = happened \cup {"Disconnected"}
    /\ UNCHANGED <<stateVars, queueVars, mSource, srcShutdown, master, inVars, outVars, hVars,
                   received, handled, accepted, written, observed, errors>>

IncomingStep == InLoop \/ InGet \/ InDisconnected \/ InPush \/ InPostError
OutgoingStep == OutLoop \/ OutPop \/ OutPut \/ OutDisconnected \/ OutPostError
HandlerStep  == HandlerLoop \/ HandlerWait \/ HandlerPop \/ HandlerReturn \/ HandlerPostError
MasterStep   == \/ MasterStart \/ MasterDispatch \/ MasterExit \/ MasterShutQueues
                \/ MasterShutSource \/ MasterJoin \/ MasterObserve \/ MasterFinish

\* What the peer, the handler code and the clock do; nothing says they will.
Environment == \/ InRead \/ InReadError \/ OutWrite \/ OutWriteError
               \/ HandlerTimeout \/ HandlerThrow \/ PeerDisconnects

\* The application that owns the dispatcher.
Application == StartQueueing \/ StartDispatching \/ Send \/ PostQuit

Next == \/ IncomingStep \/ OutgoingStep \/ HandlerStep \/ MasterStep
        \/ Environment \/ Application

Spec == Init /\ [][Next]_vars

\* Threads that can run are scheduled, and the handler code returns.
Fairness == /\ WF_vars(IncomingStep) /\ WF_vars(OutgoingStep)
            /\ WF_vars(HandlerStep) /\ WF_vars(MasterStep)
FairSpec == Spec /\ Fairness

------------------------------------------------------------------------------
\* Types; and a queue holds only what came before it in its stream.
TypeOK ==
    /\ mState \in States
    /\ mExitReason \in Reasons \cup {NoReason}
    /\ mIncomingQueue \in Seq(1 .. MaxIn) /\ mOutgoingQueue \in Seq(1 .. MaxOut)
    /\ received \in Seq(1 .. MaxIn) /\ handled \in Seq(1 .. MaxIn)
    /\ accepted \in Seq(1 .. MaxOut) /\ written \in Seq(1 .. MaxOut)
    /\ inShutdown \in BOOLEAN /\ outShutdown \in BOOLEAN
    /\ mSource \in {"null", "set", "reset"}
    /\ srcShutdown \in BOOLEAN /\ peerOpen \in BOOLEAN
    /\ master \in {"none", "start", "waitDispatch", "waitExit", "join", "observe", "finish",
                   "exited"} \cup ShuttingDown
    /\ incoming \in {"none", "loop", "get", "reading", "control", "push", "post", "done"}
    /\ outgoing \in {"none", "loop", "pop", "put", "writing", "post", "done"}
    /\ handler \in {"none", "loop", "pop", "waiting", "handling", "idling", "post", "done"}
    /\ inMsg \in 0 .. MaxIn /\ hMsg \in 0 .. MaxIn /\ outMsg \in 0 .. MaxOut
    /\ {inReason, outReason, hReason, observed} \subseteq Reasons \cup {NoReason}
    /\ happened \subseteq Reasons
    /\ errors \in 0 .. MaxErrors /\ lateCalls \in Nat

\* The threads use mSource without a lock ("mSource is valid while thread is
\* running"): it is set before they start and outlives their last use of it.
SourceOutlivesThreads ==
    (incoming \in {"get", "reading", "control"} \/ outgoing \in {"put", "writing"}) => mSource = "set"

\* The reason for exiting is something that happened, with one exception: the
\* write that fails because the dispatcher itself shut the endpoint down is
\* reported as MessageError.  The read that ends for
\* that cause is never reported as the peer's disconnection.
ExitReasonHappened ==
    mState \in {"Exiting", "Exited"} =>
        mExitReason \in happened \cup (IF srcShutdown THEN {"MessageError"} ELSE {})

\* postQuit asks for a prompt exit: the message handler is entered at most once
\* more (by a pop that the handler thread had already decided to make).
AtMostOneLateCall == lateCalls <= 1

\* An exit is orderly: nobody uses the endpoint after the master released it, and
\* the handler is not fed the rest of the queue.
OrderlyExit == SourceOutlivesThreads /\ AtMostOneLateCall

\* The messages from the peer to the handler, and the envelopes from send to the
\* peer, as channels that close when the dispatcher exits.
InChannel == INSTANCE MessageChannel WITH
    Values <- 1 .. MaxIn, accepted <- received, delivered <- handled,
    closed <- (master \in {"observe", "finish", "exited"})
OutChannel == INSTANCE MessageChannel WITH
    Values <- 1 .. MaxOut, delivered <- written,
    closed <- (master \in {"observe", "finish", "exited"})

\* What the peer sends reaches the handler, and what send accepted is written to
\* the peer, in order and without loss or duplication, until the dispatcher exits.
MessagesInOrder == InChannel!Spec /\ OutChannel!Spec

\* Once the observer has been told why the dispatcher exits, the reason that
\* waitForExit returns does not change (postError overwrites it at any time
\* while a thread runs).
ExitReasonFinal ==
    [][(master \in {"finish", "exited"}) => (mExitReason' = observed)]_vars

\* A dispatcher that was started and told to exit, by whomever and at whatever
\* moment, does exit: no thread stays blocked on a queue or on the socket.  The
\* reason it gives is the same for everybody.
EventuallyExits ==
    /\ (master # "none" /\ mState = "Exiting") ~> (mState = "Exited")
    /\ ExitReasonFinal

\* While the dispatcher runs, a received message is eventually handled.
EventuallyHandled ==
    \A m \in 1 .. MaxIn :
        (m \in {mIncomingQueue[i] : i \in DOMAIN mIncomingQueue} /\ master = "waitExit")
            ~> (m \in {handled[i] : i \in DOMAIN handled} \/ mState = "Exiting")
===============================================================================
