-------------------------------- MODULE Client --------------------------------
(***************************************************************************)
(* The client library: SDK objects (each one a Client), the receive and    *)
(* send threads of a Client, the local sessions it can start              *)
(* (LocalSession, on top of ProcessManager) and MultiSession, which        *)
(* creates and shuts down several SDK objects together.                    *)
(*                                                                         *)
(* One application thread makes all the calls.  `app` is its call stack:   *)
(* pairs of the next thing to do and the Client it is about; a call that   *)
(* throws unwinds it.  A connection is what SocketPeer, MessageTransport   *)
(* and MessageDispatcher show it to be: messages in order, then an end.    *)
(***************************************************************************)
EXTENDS Integers, Sequences, FiniteSets, SequencesExt

CONSTANTS
    Clients,          \* the keys of a MultiSession
    Setups,           \* the Clients there are, those of them that called setAsyncSend,
                      \* and the bound on the calls the application makes
    Calls,            \* the calls the application makes, see CallTypes
    MaxSessions,      \* bound: local sessions
    MaxMessages,      \* bound: messages the other end sends
    NoClient

CallTypes == {"createLocal", "createDistributed", "createAll", "send", "sendAll",
              "shutdown", "shutdownAll", "disconnect", "disconnectAll",
              "wait", "destroy"}

ASSUME ClientAssumption ==
    /\ IsFiniteSet(Clients)
    /\ \A u \in Setups : u.added \subseteq Clients /\ u.async \subseteq u.added /\ u.calls \in Nat
    /\ Calls \subseteq CallTypes /\ NoClient \notin Clients
    /\ {MaxSessions, MaxMessages} \subseteq Nat

VARIABLES
    app, calls,       \* the application's stack, and how many calls it may still make
    mSendAsync,
    mState, mConnectionError, mEngineReady, mRun, mIsLocal, mSessionId,
    conn,             \* mPeer: "none", "open", "lost" (the other end is gone), "shut"
    endpoint,         \* mMessageEndpoint is not null
    mOutgoingQueue,   \* what is queued, for an asynchronous Client
    asked,            \* the other end has been sent "disconnect"
    inbox, sent,      \* messages on their way to the Client; how many were sent
    recv, send,       \* where mThread and mSendThread are; "none" if not joinable
    alive,            \* "yes", "noComponent" or "gone" (destroyed, or never added)
    sess,             \* local sessions
    greeted,          \* history: this connection's engine said it is ready
    lostIn,           \* history: mState when the other end went away
    broken            \* undefined behaviour that was met

clientVars == <<mSendAsync, mState, mConnectionError, mEngineReady, mRun, mIsLocal, mSessionId>>
connVars == <<conn, endpoint, mOutgoingQueue, asked, inbox, sent, greeted, lostIn>>
vars == <<app, calls, clientVars, connVars, recv, send, alive, sess, broken>>

SessionIds == 1 .. MaxSessions
NoSession == [owner |-> NoClient, proc |-> "none", connect |-> "none", callback |-> FALSE,
              listed |-> FALSE, returned |-> FALSE, term |-> "idle"]

\* Some Clients have been added.  Their constructor does not initialise mEngineReady.
Init ==
    /\ app = <<>>
    /\ \E u \in Setups :
         /\ alive = [k \in Clients |-> IF k \in u.added THEN "yes" ELSE "gone"]
         /\ mSendAsync = [k \in Clients |-> k \in u.async]
         /\ calls = u.calls
    /\ mState = [k \in Clients |-> "DISCONNECTED"]
    /\ mConnectionError = [k \in Clients |-> FALSE]
    /\ \E b \in BOOLEAN : mEngineReady = [k \in Clients |-> b /\ alive[k] = "yes"]
    /\ mRun = [k \in Clients |-> FALSE]
    /\ mIsLocal = [k \in Clients |-> FALSE]
    /\ mSessionId = [k \in Clients |-> 0]
    /\ conn = [k \in Clients |-> "none"]
    /\ endpoint = [k \in Clients |-> FALSE]
    /\ mOutgoingQueue = [k \in Clients |-> <<>>]
    /\ asked = [k \in Clients |-> FALSE]
    /\ inbox = [k \in Clients |-> <<>>] /\ sent = 0
    /\ greeted = [k \in Clients |-> FALSE]
    /\ lostIn = [k \in Clients |-> "none"]
    /\ recv = [k \in Clients |-> "none"] /\ send = [k \in Clients |-> "none"]
    /\ sess = [s \in SessionIds |-> NoSession]
    /\ broken = {}

\* After undefined behaviour nothing more is said.
Running == broken = {}
At(label, k) == Running /\ app # <<>> /\ app[1] = <<label, k>>
Do(labels, k) == [i \in 1 .. Len(labels) |-> <<labels[i], k>>]
Then(labels, k) == app' = Do(labels, k) \o Tail(app)
Throw == app' = <<>>
Set(f, k, v) == [f EXCEPT ![k] = v]

------------------------------------------------------------------------------
\* The calls of the application.

\* A MultiSession goes through its map in the order of the keys: here, some order.
Present == {k \in Clients : alive[k] = "yes"}
Keys == SetToSeq(Present)
EachKey(label) == [i \in DOMAIN Keys |-> <<label, Keys[i]>>]

CreateDistributed == <<"makeRequest", "submit", "connectSession", "connected", "isRemote">>

CreateSession(local, k) ==
    Do(<<"disconnect">> \o (IF local THEN <<"createLocal">> ELSE CreateDistributed), k)

\* One request for all that are not connected, then each one is connected.
CreateAll ==
    LET new == SetToSeq({k \in Present : mState[k] # "CONNECTED"})
        connect == [i \in 1 .. 2 * Len(new) |->
                      <<IF i % 2 = 1 THEN "connectSession" ELSE "connected", new[(i + 1) \div 2]>>]
    IN  [i \in DOMAIN new |-> <<"makeRequest", new[i]>>]
          \o (IF new = <<>> THEN <<>> ELSE <<<<"submit", new[1]>>>> \o connect)

\* waitForEngineReady, waitForDisconnect, waitForAllReady and
\* waitForAllDisconnected poll, for a limited time, and change nothing.
Waits == <<>>

\* ~Impl and ~Client; removeSession and clear come to this.
Destroy(k) == Do(<<"disconnect", "deleteComponent", "disconnect", "abandon">>, k)

\* What a call does; the rest is in the actions for these labels.
Start(c, k) ==
    CASE c \in {"createLocal", "createDistributed"} -> CreateSession(c = "createLocal", k)
      [] c = "createAll" -> CreateAll
      [] c = "send" -> Do(<<"sendUser">>, k)
      [] c = "sendAll" -> EachKey("sendIfReady")
      [] c = "shutdown" -> Do(<<"shutdown">>, k)
      [] c = "shutdownAll" -> EachKey("shutdown")
      [] c = "disconnect" -> Do(<<"disconnect">>, k)
      [] c = "disconnectAll" -> EachKey("disconnect")
      [] c = "wait" -> Waits
      [] c = "destroy" -> Destroy(k)

Call ==
    /\ Running /\ app = <<>> /\ calls > 0
    /\ \E c \in Calls, k \in Present :
         /\ app' = Start(c, k)
         /\ calls' = IF c = "wait" THEN calls ELSE calls - 1
    /\ UNCHANGED <<clientVars, connVars, recv, send, alive, sess, broken>>

ShutdownSession(k) ==
    /\ At("shutdown", k)
    /\ Then(IF mState[k] # "CONNECTED" THEN <<>>
            ELSE IF mIsLocal[k] THEN <<"stopSession", "setDisconnecting">>
            ELSE <<"sendDisconnect", "setDisconnecting">>, k)
    /\ UNCHANGED <<calls, clientVars, connVars, recv, send, alive, sess, broken>>

SendIfReady(k) ==
    /\ At("sendIfReady", k)
    /\ Then(IF mState[k] = "CONNECTED" /\ mEngineReady[k] THEN <<"sendUser">> ELSE <<>>, k)
    /\ UNCHANGED <<calls, clientVars, connVars, recv, send, alive, sess, broken>>

------------------------------------------------------------------------------
\* Disconnecting.

SetState(label, k, state, then) ==
    /\ At(label, k)
    /\ mState' = Set(mState, k, state)
    /\ Then(then, k)
    /\ UNCHANGED <<calls, mSendAsync, mConnectionError, mEngineReady, mRun, mIsLocal, mSessionId,
                   connVars, recv, send, alive, sess, broken>>

Disconnect(k) == SetState("disconnect", k, "DISCONNECTING", <<"shutdownConnection">>)
SetDisconnecting(k) == SetState("setDisconnecting", k, "DISCONNECTING", <<>>)

\* MUTANT of ShutdownConnection: the threads are not told to stop.
ShutdownConnectionKeepsRunning(k) ==
    /\ At("shutdownConnection", k) /\ conn[k] # "none"
    /\ conn' = Set(conn, k, "shut")
    /\ Then(<<"delete", "join", "reset">>, k)
    /\ mState' = mState /\ mRun' = mRun
    /\ UNCHANGED <<calls, mSendAsync, mConnectionError, mEngineReady, mIsLocal, mSessionId, endpoint,
                   mOutgoingQueue, asked, inbox, sent, greeted, lostIn, recv, send, alive, sess, broken>>

\* shutdownConnection up to the deletes: threads are told to stop and released.
ShutdownConnection(k) ==
    /\ At("shutdownConnection", k)
    /\ IF conn[k] = "none"
       THEN /\ mState' = Set(mState, k, "DISCONNECTED")
            /\ Then(<<>>, k)
            /\ UNCHANGED <<mRun, conn>>
       ELSE /\ mRun' = Set(mRun, k, FALSE)
            /\ conn' = Set(conn, k, "shut")
            /\ Then(<<"delete", "join", "reset">>, k)
            /\ UNCHANGED mState
    /\ UNCHANGED <<calls, mSendAsync, mConnectionError, mEngineReady, mIsLocal, mSessionId, endpoint,
                   mOutgoingQueue, asked, inbox, sent, greeted, lostIn, recv, send, alive, sess, broken>>

\* The endpoint and the queue are deleted whether or not a thread is using them.
DeleteEndpoint(k) ==
    /\ At("delete", k)
    /\ endpoint' = Set(endpoint, k, FALSE)
    /\ mOutgoingQueue' = Set(mOutgoingQueue, k, <<>>)
    /\ Then(<<>>, k)
    /\ UNCHANGED <<calls, clientVars, conn, asked, inbox, sent, greeted, lostIn, recv, send, alive,
                   sess, broken>>

\* MUTANT of Join: the threads are left to end by themselves.
JoinDetached(k) ==
    /\ At("join", k)
    /\ Then(IF mIsLocal[k] THEN <<"stopSession", "setDisconnecting">> ELSE <<>>, k)
    /\ recv' = recv /\ send' = send
    /\ UNCHANGED <<calls, clientVars, connVars, alive, sess, broken>>

\* MUTANT of Join: a session that was stopped before is not stopped again.
JoinNoStop(k) ==
    /\ At("join", k)
    /\ recv[k] \in {"none", "done"} /\ send[k] \in {"none", "done"}
    /\ recv' = Set(recv, k, "none") /\ send' = Set(send, k, "none")
    /\ Then(<<>>, k)
    /\ UNCHANGED <<calls, clientVars, connVars, alive, sess, broken>>

Join(k) ==
    /\ At("join", k)
    /\ recv[k] \in {"none", "done"} /\ send[k] \in {"none", "done"}
    /\ recv' = Set(recv, k, "none") /\ send' = Set(send, k, "none")
    /\ Then(IF mIsLocal[k] THEN <<"stopSession", "setDisconnecting">> ELSE <<>>, k)
    /\ UNCHANGED <<calls, clientVars, connVars, alive, sess, broken>>

\* The end of shutdownConnection and of disconnect.
Reset(k) ==
    /\ At("reset", k)
    /\ conn' = Set(conn, k, "none")
    /\ mConnectionError' = Set(mConnectionError, k, FALSE)
    /\ mState' = Set(mState, k, "DISCONNECTED")
    /\ asked' = Set(asked, k, FALSE) /\ inbox' = Set(inbox, k, <<>>)
    /\ greeted' = Set(greeted, k, FALSE) /\ lostIn' = Set(lostIn, k, "none")
    /\ Then(<<>>, k)
    /\ UNCHANGED <<calls, mSendAsync, mEngineReady, mRun, mIsLocal, mSessionId, endpoint, mOutgoingQueue, sent,
                   recv, send, alive, sess, broken>>

\* LocalSessions::stopSession: terminate is asynchronous.
StopSession(k) ==
    /\ At("stopSession", k)
    /\ LET s == mSessionId[k]
       IN  sess' = IF s # 0 /\ sess[s].listed /\ sess[s].proc = "running"
                   THEN [sess EXCEPT ![s].proc = "terminating"] ELSE sess
    /\ Then(<<>>, k)
    /\ UNCHANGED <<calls, clientVars, connVars, recv, send, alive, broken>>

\* SDK's destructor: after disconnect, the component and then the Client.
DeleteComponent(k) ==
    /\ At("deleteComponent", k)
    /\ alive' = Set(alive, k, "noComponent")
    /\ broken' = IF \E s \in SessionIds : sess[s].owner = k /\ sess[s].term = "status"
                 THEN broken \cup {"component deleted in use"} ELSE broken
    /\ Then(<<>>, k)
    /\ UNCHANGED <<calls, clientVars, connVars, recv, send, sess>>

\* ~Client, the second disconnect done: abandonSession waits for a callback
\* that is under way, and clears it.
Abandon(k) ==
    /\ At("abandon", k)
    /\ LET s == mSessionId[k]
           known == mIsLocal[k] /\ s # 0 /\ sess[s].listed
       IN  /\ known => sess[s].term \notin {"status", "set"}      \* mCallbackMutex
           /\ sess' = IF known THEN [sess EXCEPT ![s].callback = FALSE] ELSE sess
    /\ alive' = Set(alive, k, "gone")
    /\ Then(<<>>, k)
    /\ UNCHANGED <<calls, clientVars, connVars, recv, send, broken>>

------------------------------------------------------------------------------
\* Creating a session and connecting to it.

MakeRequest(k) == SetState("makeRequest", k, "CONNECTING", <<>>)
Connected(k) == SetState("connected", k, "CONNECTED", <<>>)

\* The POST to the coordinator; a failure leaves the Clients CONNECTING.
Submit(k) ==
    /\ At("submit", k)
    /\ Then(<<>>, k) \/ Throw
    /\ UNCHANGED <<calls, clientVars, connVars, recv, send, alive, sess, broken>>

\* The new connection replaces the one there may still be.
ConnectTCP(k) ==
    /\ conn' = Set(conn, k, "open")
    /\ Then(<<"postConnect">>, k)

\* A response that is not complete, or a host that does not answer, throws.
ConnectSession(k) ==
    /\ At("connectSession", k)
    /\ mState' = Set(mState, k, "CONNECTING")
    /\ \/ mSessionId' = Set(mSessionId, k, 0) /\ ConnectTCP(k)
       \/ Throw /\ UNCHANGED <<conn, mSessionId>>
    /\ UNCHANGED <<calls, mSendAsync, mConnectionError, mEngineReady, mRun, mIsLocal, endpoint, mOutgoingQueue,
                   asked, inbox, sent, greeted, lostIn, recv, send, alive, sess, broken>>

SpawnProcess(k) == [NoSession EXCEPT !.owner = k, !.proc = "running", !.connect = "listening",
                                     !.callback = TRUE]

\* LocalSessions::createSession as far as LocalSession::start's spawnProcess;
\* a definition that is not right, or a process that does not start, throws.
CreateLocal(k) ==
    /\ At("createLocal", k)
    /\ \/ Throw /\ UNCHANGED sess
       \/ \E s \in SessionIds :
            /\ sess[s] = NoSession /\ \A t \in 1 .. s - 1 : sess[t] # NoSession
            /\ sess' = Set(sess, s, SpawnProcess(k))
            /\ Then(<<"awaitConnect", "postConnect", "isLocal", "sendGo", "ready">>, k)
    /\ UNCHANGED <<calls, clientVars, connVars, recv, send, alive, broken>>

\* connectProc, which the start of the session waits for.
ConnectProc(s) ==
    /\ Running /\ sess[s].connect = "listening"
    /\ \E r \in {"accepted", "timeout"} :
         /\ r = "accepted" => sess[s].proc # "dead"
         /\ sess' = [sess EXCEPT ![s].connect = r]
    /\ UNCHANGED <<app, calls, clientVars, connVars, recv, send, alive, broken>>

\* The rest of start: without a registered connection the process is left as it is.
AwaitConnect(k) ==
    /\ At("awaitConnect", k)
    /\ \E s \in SessionIds :
         /\ sess[s].owner = k /\ sess[s].connect \in {"accepted", "timeout"}
         /\ \A t \in SessionIds : t > s => sess[t] = NoSession
         /\ \/ /\ Throw /\ sess' = [sess EXCEPT ![s].connect = "none"]
               /\ UNCHANGED <<mSessionId, conn>>
            \/ /\ sess[s].connect = "accepted"
               /\ sess' = [sess EXCEPT ![s].listed = TRUE, ![s].connect = "none"]
               /\ mSessionId' = Set(mSessionId, k, s)
               /\ conn' = Set(conn, k, IF sess[s].proc = "dead" THEN "lost" ELSE "open")
               /\ Then(<<>>, k)
    /\ UNCHANGED <<calls, mSendAsync, mState, mConnectionError, mEngineReady, mRun, mIsLocal, endpoint,
                   mOutgoingQueue, asked, inbox, sent, greeted, lostIn, recv, send, alive, broken>>

\* MUTANT of PostConnect: the flag of the last session is kept.
PostConnectKeepReady(k) ==
    /\ At("postConnect", k)
    /\ recv[k] = "none" /\ send[k] = "none"
    /\ mState' = Set(mState, k, "CONNECTED")
    /\ mRun' = Set(mRun, k, TRUE)
    /\ mEngineReady' = mEngineReady
    /\ endpoint' = Set(endpoint, k, TRUE)
    /\ mOutgoingQueue' = Set(mOutgoingQueue, k, <<>>)
    /\ broken' = broken
    /\ recv' = Set(recv, k, "loop")
    /\ send' = Set(send, k, IF mSendAsync[k] THEN "loop" ELSE "none")
    /\ Then(<<"sendReady">>, k)
    /\ UNCHANGED <<calls, mSendAsync, mConnectionError, mIsLocal, mSessionId, conn, asked, inbox, sent, greeted,
                   lostIn, alive, sess>>

\* Assigning to a std::thread that can still be joined ends the program.
PostConnect(k) ==
    /\ At("postConnect", k)
    /\ IF recv[k] # "none" \/ send[k] # "none"
       THEN /\ broken' = broken \cup {"std::terminate"}
            /\ UNCHANGED <<app, mState, mRun, mEngineReady, endpoint, mOutgoingQueue, recv, send>>
       ELSE /\ mState' = Set(mState, k, "CONNECTED")
            /\ mRun' = Set(mRun, k, TRUE)
            /\ mEngineReady' = Set(mEngineReady, k, FALSE)
            /\ endpoint' = Set(endpoint, k, TRUE)
            /\ mOutgoingQueue' = Set(mOutgoingQueue, k, <<>>)
            /\ recv' = Set(recv, k, "loop")
            /\ send' = Set(send, k, IF mSendAsync[k] THEN "loop" ELSE "none")
            /\ Then(<<"sendReady">>, k)
            /\ UNCHANGED broken
    /\ UNCHANGED <<calls, mSendAsync, mConnectionError, mIsLocal, mSessionId, conn, asked, inbox, sent, greeted,
                   lostIn, alive, sess>>

\* The ends of createLocal and createDistributed.
SetIsLocal(k) ==
    /\ \/ At("isLocal", k) /\ mIsLocal' = Set(mIsLocal, k, TRUE)
       \/ At("isRemote", k) /\ mIsLocal' = Set(mIsLocal, k, FALSE)
    /\ Then(<<>>, k)
    /\ UNCHANGED <<calls, mSendAsync, mState, mConnectionError, mEngineReady, mRun, mSessionId, connVars,
                   recv, send, alive, sess, broken>>

Ready(k) ==
    /\ At("ready", k)
    /\ mEngineReady' = Set(mEngineReady, k, TRUE)
    /\ sess' = [sess EXCEPT ![mSessionId[k]].returned = TRUE]
    /\ Then(<<>>, k)
    /\ UNCHANGED <<calls, mSendAsync, mState, mConnectionError, mRun, mIsLocal, mSessionId, connVars,
                   recv, send, alive, broken>>

------------------------------------------------------------------------------
\* Sending.

Put == [sendReady |-> "putReady", sendGo |-> "putGo", sendUser |-> "putUser",
        sendDisconnect |-> "putDisconnect"]

\* A connection error that was noticed is dealt with by the next send.
Send(k) ==
    /\ mConnectionError[k]
    /\ \E l \in DOMAIN Put : At(l, k) /\ Then(<<"disconnect", Put[l]>>, k)
    /\ UNCHANGED <<calls, clientVars, connVars, recv, send, alive, sess, broken>>

\* sendSync writes to the connection (one that was lost may take the bytes or
\* refuse them); sendAsync leaves the message for the send thread.
PutMessage(k) ==
    /\ \E l \in DOMAIN Put :
         /\ At(Put[l], k) \/ (At(l, k) /\ ~mConnectionError[k])
         /\ IF mState[k] # "CONNECTED"
            THEN Throw /\ UNCHANGED <<mOutgoingQueue, asked>>
            ELSE IF mSendAsync[k]
            THEN /\ mOutgoingQueue' = Set(mOutgoingQueue, k, Append(mOutgoingQueue[k], l))
                 /\ Then(<<>>, k) /\ UNCHANGED asked
            ELSE /\ \/ Then(<<>>, k)
                    \/ conn[k] # "open" /\ Throw
                 /\ asked' = IF l = "sendDisconnect" THEN Set(asked, k, TRUE) ELSE asked
                 /\ UNCHANGED mOutgoingQueue
    /\ UNCHANGED <<calls, clientVars, conn, endpoint, inbox, sent, greeted, lostIn, recv, send,
                   alive, sess, broken>>

\* sendProc.
SendLoop(k) ==
    /\ Running /\ send[k] = "loop"
    /\ send' = Set(send, k, IF mRun[k] THEN "pop" ELSE "done")
    /\ UNCHANGED <<app, calls, clientVars, connVars, recv, alive, sess, broken>>

SendPop(k) ==
    /\ Running /\ send[k] = "pop"
    /\ mOutgoingQueue[k] # <<>> \/ conn[k] = "shut"
    /\ IF mOutgoingQueue[k] = <<>>
       THEN UNCHANGED <<mOutgoingQueue, asked>>
       ELSE /\ mOutgoingQueue' = Set(mOutgoingQueue, k, Tail(mOutgoingQueue[k]))
            /\ asked' = IF Head(mOutgoingQueue[k]) = "sendDisconnect" /\ conn[k] = "open"
                        THEN Set(asked, k, TRUE) ELSE asked
    /\ send' = Set(send, k, "loop")
    /\ UNCHANGED <<app, calls, clientVars, conn, endpoint, inbox, sent, greeted, lostIn, recv,
                   alive, sess, broken>>

------------------------------------------------------------------------------
\* threadProc and deliverMessages.

\* While mRun holds and there is no endpoint, the thread spins.
RecvLoop(k) ==
    /\ Running /\ recv[k] = "loop"
    /\ ~mRun[k] \/ endpoint[k]
    /\ recv' = Set(recv, k, IF mRun[k] THEN "get" ELSE "done")
    /\ UNCHANGED <<app, calls, clientVars, connVars, send, alive, sess, broken>>

Deliver(k) ==
    /\ Running /\ recv[k] = "get" /\ conn[k] \in {"open", "lost"} /\ inbox[k] # <<>>
    /\ inbox' = Set(inbox, k, Tail(inbox[k]))
    /\ IF Head(inbox[k]) = "engineReady"
       THEN mEngineReady' = Set(mEngineReady, k, TRUE) /\ greeted' = Set(greeted, k, TRUE)
       ELSE UNCHANGED <<mEngineReady, greeted>>
    /\ recv' = Set(recv, k, "loop")
    /\ UNCHANGED <<app, calls, mSendAsync, mState, mConnectionError, mRun, mIsLocal, mSessionId, conn, endpoint,
                   mOutgoingQueue, asked, sent, lostIn, send, alive, sess, broken>>

\* The wait for a message ends with a PeerException or a ShutdownException.
GetThrows(k) ==
    /\ Running /\ recv[k] = "get"
    /\ \/ conn[k] = "lost" /\ inbox[k] = <<>> /\ recv' = Set(recv, k, "closed")
       \/ conn[k] = "shut" /\ recv' = Set(recv, k, "loop")
    /\ UNCHANGED <<app, calls, clientVars, connVars, send, alive, sess, broken>>

\* Was it expected?  Then the state is set, later, without being read again.
TestExpected(k) ==
    /\ Running /\ recv[k] = "closed"
    /\ recv' = Set(recv, k, IF mState[k] = "DISCONNECTING" THEN "expected" ELSE "report")
    /\ UNCHANGED <<app, calls, clientVars, connVars, send, alive, sess, broken>>

ExpectedLoss(k) ==
    /\ Running /\ recv[k] = "expected"
    /\ mState' = IF mIsLocal[k] THEN mState ELSE Set(mState, k, "DISCONNECTED")
    /\ recv' = Set(recv, k, "done")
    /\ UNCHANGED <<app, calls, mSendAsync, mConnectionError, mEngineReady, mRun, mIsLocal, mSessionId, connVars,
                   send, alive, sess, broken>>

\* MUTANT of ReportLoss: only the callbacks are told.
ReportLossNoFlag(k) ==
    /\ Running /\ recv[k] = "report"
    /\ mConnectionError' = mConnectionError
    /\ recv' = Set(recv, k, "done")
    /\ UNCHANGED <<app, calls, mSendAsync, mState, mEngineReady, mRun, mIsLocal, mSessionId, connVars,
                   send, alive, sess, broken>>

ReportLoss(k) ==
    /\ Running /\ recv[k] = "report"
    /\ mConnectionError' = Set(mConnectionError, k, TRUE)
    /\ recv' = Set(recv, k, "done")
    /\ UNCHANGED <<app, calls, mSendAsync, mState, mEngineReady, mRun, mIsLocal, mSessionId, connVars,
                   send, alive, sess, broken>>

------------------------------------------------------------------------------
\* The other end: a node, or the process of a local session.

Lose(k) ==
    /\ conn' = Set(conn, k, "lost")
    /\ lostIn' = Set(lostIn, k, mState[k])

Connections == {k \in Clients : conn[k] = "open"}

\* A node says that the engine is ready, a computation sends its messages.
RemoteSend ==
    /\ Running /\ sent < MaxMessages
    /\ \E k \in Connections :
         inbox' = Set(inbox, k, Append(inbox[k], IF mSessionId[k] = 0 THEN "engineReady" ELSE "message"))
    /\ sent' = sent + 1
    /\ UNCHANGED <<app, calls, clientVars, conn, endpoint, mOutgoingQueue, asked, greeted, lostIn,
                   recv, send, alive, sess, broken>>

RemoteClose(k) ==
    /\ Running /\ k \in Connections /\ mSessionId[k] = 0
    /\ Lose(k)
    /\ UNCHANGED <<app, calls, clientVars, endpoint, mOutgoingQueue, asked, inbox, sent, greeted,
                   recv, send, alive, sess, broken>>

\* The process ends, by itself or because it was told to; its socket closes.
Exit(s) ==
    /\ Running /\ sess[s].proc \in {"running", "terminating"}
    /\ sess' = [sess EXCEPT ![s].proc = "dead"]
    /\ LET k == sess[s].owner
       IN  IF k \in Connections /\ mSessionId[k] = s THEN Lose(k) ELSE UNCHANGED <<conn, lostIn>>
    /\ UNCHANGED <<app, calls, clientVars, endpoint, mOutgoingQueue, asked, inbox, sent, greeted,
                   recv, send, alive, broken>>

\* onTerminate, on the thread of ProcessManager, holding mCallbackMutex
\* while the Client's localTermination runs: first the status callback.
OnTerminate(s) ==
    /\ Running /\ sess[s].proc = "dead" /\ sess[s].term = "idle"
    /\ sess' = [sess EXCEPT ![s].term = IF sess[s].callback THEN "status" ELSE "done"]
    /\ broken' = IF sess[s].callback /\ alive[sess[s].owner] # "yes"
                 THEN broken \cup {"deleted client called"} ELSE broken
    /\ UNCHANGED <<app, calls, clientVars, connVars, recv, send, alive>>

LocalTermination(s) ==
    /\ Running
    /\ LET k == sess[s].owner
       IN  \/ /\ sess[s].term = "status"
              /\ sess' = [sess EXCEPT ![s].term = IF mState[k] = "DISCONNECTING" THEN "set" ELSE "done"]
              /\ UNCHANGED mState
           \/ /\ sess[s].term = "set"
              /\ sess' = [sess EXCEPT ![s].term = "done"]
              /\ mState' = Set(mState, k, "DISCONNECTED")
    /\ UNCHANGED <<app, calls, mSendAsync, mConnectionError, mEngineReady, mRun, mIsLocal, mSessionId, connVars,
                   recv, send, alive, broken>>

------------------------------------------------------------------------------
Step(k) ==
    \/ ShutdownSession(k) \/ SendIfReady(k) \/ Disconnect(k) \/ SetDisconnecting(k)
    \/ ShutdownConnection(k) \/ DeleteEndpoint(k) \/ Join(k) \/ Reset(k) \/ StopSession(k)
    \/ DeleteComponent(k) \/ Abandon(k) \/ MakeRequest(k) \/ Connected(k) \/ Submit(k)
    \/ ConnectSession(k) \/ CreateLocal(k) \/ AwaitConnect(k) \/ PostConnect(k) \/ SetIsLocal(k)
    \/ Ready(k) \/ Send(k) \/ PutMessage(k)

Receive(k) == RecvLoop(k) \/ Deliver(k) \/ GetThrows(k) \/ TestExpected(k) \/ ExpectedLoss(k)
                \/ ReportLoss(k)
SendThread(k) == SendLoop(k) \/ SendPop(k)
Terminates(s) == OnTerminate(s) \/ LocalTermination(s)

Next ==
    \/ Call \/ RemoteSend
    \/ \E k \in Clients : Step(k) \/ Receive(k) \/ SendThread(k) \/ RemoteClose(k)
    \/ \E s \in SessionIds : ConnectProc(s) \/ Exit(s) \/ Terminates(s)

\* The threads run, the accept has a timeout, a node that is asked to
\* disconnect does, and a process that is told to terminate is killed in the end.
Fairness ==
    /\ WF_vars(\E k \in Clients : Step(k))
    /\ \A k \in Clients : WF_vars(Receive(k)) /\ WF_vars(SendThread(k))
    /\ \A k \in Clients : WF_vars(asked[k] /\ RemoteClose(k))
    /\ \A s \in SessionIds : /\ WF_vars(ConnectProc(s)) /\ WF_vars(Terminates(s))
                             /\ WF_vars(sess[s].proc = "terminating" /\ Exit(s))

Spec == Init /\ [][Next]_vars
FairSpec == Spec /\ Fairness

------------------------------------------------------------------------------
\* What the application may rely on.

Idle == app = <<>>
Live == {"loop", "get", "closed", "expected", "report"}

\* The variables keep their types; a Client's threads and endpoint exist only
\* with a connection.
ClientTypeOK ==
    /\ calls \in Nat /\ sent \in 0 .. MaxMessages
    /\ mState \in [Clients -> {"DISCONNECTED", "CONNECTING", "CONNECTED", "DISCONNECTING"}]
    /\ {mSendAsync, mConnectionError, mEngineReady, mRun, mIsLocal, endpoint, asked, greeted}
         \subseteq [Clients -> BOOLEAN]
    /\ mSessionId \in [Clients -> 0 .. MaxSessions]
    /\ conn \in [Clients -> {"none", "open", "lost", "shut"}]
    /\ recv \in [Clients -> Live \cup {"none", "done"}]
    /\ send \in [Clients -> {"none", "loop", "pop", "done"}]
    /\ \A k \in Clients : send[k] # "none" => mSendAsync[k] /\ recv[k] # "none"

\* Client::disconnect leaves nothing behind: once a call is over and there is no
\* connection, no thread of the Client can still call into the application, and
\* the endpoint is gone.
QuietWhenDisconnected ==
    \A k \in Clients : Idle /\ conn[k] = "none" => recv[k] = "none" /\ send[k] = "none" /\ ~endpoint[k]

\* No computation is left running by a Client that goes on to something else:
\* a local session that createSession returned, and that is not its Client's
\* current connection any more, has ended or has been told to.
LocalStopped ==
    \A s \in SessionIds :
        sess[s].returned /\ Idle /\ (mSessionId[sess[s].owner] # s \/ conn[sess[s].owner] = "none")
            => sess[s].proc # "running"

\* isEngineReady of a connected Client is about the session it is connected to,
\* not the one before.
EngineReadyIsCurrent ==
    \A k \in Clients : Idle /\ conn[k] # "none" /\ mEngineReady[k] => mIsLocal[k] \/ greeted[k]

\* abandonSession keeps its promise for the session the Client knows: when the
\* Client is gone, that session is not, and will not be, inside its callback.
AbandonedIsSilent ==
    \A k \in Clients : alive[k] = "gone" /\ mIsLocal[k] /\ mSessionId[k] # 0
        => ~sess[mSessionId[k]].callback /\ sess[mSessionId[k]].term \notin {"status", "set"}

\* The application is not called by a Client it has disconnected, nor by the
\* sessions of one it has deleted.
CallbacksEnd == QuietWhenDisconnected /\ AbandonedIsSilent

\* A connection that is lost while the Client is CONNECTED does not stay
\* unnoticed: isErrored becomes true, or the state changes.
LossIsReported ==
    \A k \in Clients : Running /\ conn[k] = "lost" /\ mState[k] = "CONNECTED"
        ~> mConnectionError[k] \/ mState[k] # "CONNECTED" \/ ~Running

\* Every call of the application returns or throws; disconnect's join and the
\* destructor's wait for mCallbackMutex included.
CallsReturn == ~Idle ~> (Idle \/ ~Running)

\* "if we were expecting a disconnection, don't report an error" (threadProc):
\* a connection that ends while the Client is DISCONNECTING is not reported.
ExpectedIsNotAnError ==
    \A k \in Clients : recv[k] = "report" => lostIn[k] # "DISCONNECTING"
=============================================================================
