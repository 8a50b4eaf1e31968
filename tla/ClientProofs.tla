------------------------------ MODULE ClientProofs ------------------------------
(***************************************************************************)
(* Proofs about Client: for any number of Clients and of sessions,         *)
(*   - a Client without a connection has no thread that could call back,   *)
(*     and an abandoned session never reports its end (CallbacksEnd);      *)
(*   - a local session that createSession returned is not left running by  *)
(*     a Client that has lost sight of it (LocalStopped);                  *)
(*   - mEngineReady of a connected Client is about the session it is       *)
(*     connected to (EngineReadyIsCurrent).                                *)
(*                                                                         *)
(* All three depend on what the application's thread still has to do, so   *)
(* the inductive invariant ClientInv says where each instruction can stand *)
(* on its stack app (StackInv) and what holds while it stands there        *)
(* (StateInv).  Two facts of the code carry the argument:                  *)
(*   - a put that waits behind a disconnect finds a state other than       *)
(*     CONNECTED and throws, so that "ready", the end of createSession, is *)
(*     only reached by a Client that is joined to a session of its own;    *)
(*   - a connection made over a running one meets its live thread in       *)
(*     postConnect (std::terminate: broken) before anything else happens.  *)
(*                                                                         *)
(* A step of a thread other than the application's does not touch app and  *)
(* is Tame; a step of the application's thread pops its instruction, puts  *)
(* others in its place or throws: one lemma for each of these effects      *)
(* (PopPlaces, PushPlaces, TameThrow, TameStay), then one for each action. *)
(***************************************************************************)
EXTENDS Client, FiniteSetTheorems, SequenceTheorems, TLAPS

\* The instructions of the application's thread.
Labels == {"disconnect", "shutdownConnection", "delete", "join", "reset", "stopSession",
           "setDisconnecting", "deleteComponent", "abandon", "makeRequest", "submit", "connectSession",
           "connected", "isRemote", "createLocal", "awaitConnect", "postConnect", "isLocal", "ready",
           "shutdown", "sendIfReady", "sendReady", "sendGo", "sendUser", "sendDisconnect",
           "putReady", "putGo", "putUser", "putDisconnect"}
\* The rest of sendMessage, after a disconnect for an earlier connection error.
Puts == {"putReady", "putGo", "putUser", "putDisconnect"}

\* Positions on the stack; its next instruction; what it still holds.
Places == 1 .. Len(app)
Top(l, k) == app # <<>> /\ app[1] = <<l, k>>
Pending(l, k) == \E i \in Places : app[i] = <<l, k>>

\* Nothing of the Client can call into the application.
Quiet(k) == recv[k] = "none" /\ send[k] = "none" /\ ~endpoint[k]

\* The sessions of k that createSession returned have been told to end.
Stopped(k) == \A s \in SessionIds : sess[s].returned /\ sess[s].owner = k => sess[s].proc # "running"

\* k is connected to a session of its own.
Joined(k) == mSessionId[k] # 0 /\ sess[mSessionId[k]].owner = k /\ conn[k] # "none"

\* The types that ClientTypeOK leaves out.
StackTypes == app \in Seq(Labels \X Clients)
Session == [owner : Clients \cup {NoClient}, proc : {"none", "running", "terminating", "dead"},
            connect : {"none", "listening", "accepted", "timeout"}, callback : BOOLEAN,
            listed : BOOLEAN, returned : BOOLEAN, term : {"idle", "status", "set", "done"}]
DataTypes ==
    /\ sess \in [SessionIds -> Session]
    /\ alive \in [Clients -> {"yes", "noComponent", "gone"}]

\* The rest of shutdownConnection, once there is a connection to end.
DeletePlace == \A k \in Clients, i \in Places : app[i] = <<"delete", k>> =>
    i = 1 /\ Len(app) >= 3 /\ app[2] = <<"join", k>> /\ app[3] = <<"reset", k>>
JoinPlace == \A k \in Clients, i \in Places : app[i] = <<"join", k>> =>
    \/ i = 1 /\ Len(app) >= 2 /\ app[2] = <<"reset", k>> /\ ~endpoint[k]
    \/ i = 2 /\ app[1] = <<"delete", k>>
ResetPlace == \A k \in Clients, i \in Places : app[i] = <<"reset", k>> =>
    \/ i = 1 /\ Quiet(k) /\ Stopped(k)
    \/ i = 2 /\ app[1] = <<"setDisconnecting", k>> /\ Quiet(k) /\ Stopped(k)
    \/ i = 3 /\ app[1] = <<"stopSession", k>> /\ app[2] = <<"setDisconnecting", k>> /\ Quiet(k)
    \/ i = 2 /\ app[1] = <<"join", k>>
    \/ i = 3 /\ app[1] = <<"delete", k>>
\* createLocalSession, from the wait for the connection to its end.
AwaitPlace == \A k \in Clients, i \in Places : app[i] = <<"awaitConnect", k>> =>
    /\ i = 1 /\ Len(app) = 5 /\ app[2] = <<"postConnect", k>> /\ app[3] = <<"isLocal", k>>
    /\ app[4] = <<"sendGo", k>> /\ app[5] = <<"ready", k>>
LocalPlace == \A k \in Clients, i \in Places : app[i] = <<"createLocal", k>> => i = Len(app)
PostPlace == \A k \in Clients, i \in Places : app[i] = <<"postConnect", k>> =>
    \/ i = 1 /\ conn[k] # "none"
    \/ i = 2 /\ app[1] = <<"awaitConnect", k>>
\* What is before a put leaves CONNECTED, so that the put throws.
PutPlace == \A k \in Clients, l \in Puts, i \in Places : app[i] = <<l, k>> =>
    \/ i = 1 /\ mState[k] # "CONNECTED"
    \/ i > 1 /\ app[i - 1] \in {<<"disconnect", k>>, <<"shutdownConnection", k>>, <<"reset", k>>}
\* createSession ends in a Client joined to its session, unless an instruction before it throws.
ReadyPlace == \A k \in Clients, i \in Places : app[i] = <<"ready", k>> =>
    /\ i = Len(app)
    /\ \/ app[1] = <<"awaitConnect", k>>
       \/ \E j \in Places, l \in Puts : j < i /\ app[j] = <<l, k>>
       \/ Joined(k) /\ i = 4 /\ app[1] \in {<<"postConnect", k>>, <<"sendReady", k>>}
            /\ app[2] = <<"isLocal", k>> /\ app[3] = <<"sendGo", k>>
       \/ Joined(k) /\ i = 3 /\ app[1] = <<"isLocal", k>> /\ app[2] = <<"sendGo", k>>
       \/ Joined(k) /\ i = 2 /\ app[1] = <<"sendGo", k>> /\ mIsLocal[k]
       \/ Joined(k) /\ i = 1 /\ mIsLocal[k]
\* createDistributedSession leaves no local session behind it.
RemotePlace == \A k \in Clients, i \in Places : app[i] = <<"isRemote", k>> =>
    mSessionId[k] = 0 \/ \E j \in Places : j < i /\ app[j] = <<"connectSession", k>>
\* ~Client ends with abandon; nothing of a deleted Client is left to do.
AbandonPlace == \A k \in Clients, i \in Places : app[i] = <<"abandon", k>> => i = Len(app)
AliveOnStack == \A k \in Clients, l \in Labels, i \in Places : app[i] = <<l, k>> => alive[k] # "gone"

\* The threads and the endpoint end with the connection, and the thread lasts until reset.
NoneIsQuiet == \A k \in Clients : conn[k] = "none" => Quiet(k)
ConnectedHasThread == \A k \in Clients : conn[k] # "none" =>
    recv[k] # "none" \/ Top("postConnect", k) \/ Pending("reset", k)
\* A returned session that runs is the one its Client is connected to, except when a new
\* connection has been made over the old one and postConnect is about to terminate.
ReturnedIsCurrent == \A s \in SessionIds : sess[s].returned =>
    /\ sess[s].owner \in Clients /\ sess[s].listed
    /\ sess[s].proc = "running" =>
         \/ mSessionId[sess[s].owner] = s /\ mIsLocal[sess[s].owner] /\ conn[sess[s].owner] # "none"
         \/ Top("postConnect", sess[s].owner) /\ recv[sess[s].owner] # "none"
KnownIsListed == \A k \in Clients : mSessionId[k] # 0 => sess[mSessionId[k]].listed
\* mEngineReady was said by this connection, or by createSession.
ReadyIsTrue == \A k \in Clients : conn[k] # "none" /\ mEngineReady[k] =>
    greeted[k] \/ (mIsLocal[k] /\ mSessionId[k] # 0) \/ Top("postConnect", k)

StackInv == /\ DeletePlace /\ JoinPlace /\ ResetPlace /\ AwaitPlace /\ LocalPlace /\ PostPlace
            /\ PutPlace /\ ReadyPlace /\ RemotePlace /\ AbandonPlace /\ AliveOnStack
\* The inductive invariant.
ClientInv ==
    /\ StackTypes /\ DataTypes /\ ClientTypeOK /\ StackInv
    /\ NoneIsQuiet /\ ConnectedHasThread /\ ReturnedIsCurrent /\ KnownIsListed /\ ReadyIsTrue
    /\ AbandonedIsSilent

------------------------------------------------------------------------------
\* What a step of the application's thread does to its stack.
Popped == Len(app') = Len(app) - 1 /\ \A i \in Places' : app'[i] = app[i + 1]
Replaced(l, k) == /\ Len(app') = Len(app) /\ app'[1] = <<l, k>>
                  /\ \A i \in Places' : i > 1 => app'[i] = app[i]
Pushed2(l, m, k) == /\ Len(app') = Len(app) + 1 /\ app'[1] = <<l, k>> /\ app'[2] = <<m, k>>
                    /\ \A i \in Places' : i > 2 => app'[i] = app[i - 1]
Pushed3(l, m, n, k) == /\ Len(app') = Len(app) + 2
                       /\ app'[1] = <<l, k>> /\ app'[2] = <<m, k>> /\ app'[3] = <<n, k>>
                       /\ \A i \in Places' : i > 3 => app'[i] = app[i - 2]

\* The instructions of one Client.
LEMMA DoType ==
    ASSUME NEW k \in Clients, NEW labels \in Seq(Labels)
    PROVE  /\ Do(labels, k) \in Seq(Labels \X Clients) /\ Len(Do(labels, k)) = Len(labels)
           /\ \A i \in 1 .. Len(labels) : Do(labels, k)[i] = <<labels[i], k>>
  BY DEF Do

\* app' is the labels, then what was below the top.
LEMMA ThenStack ==
    ASSUME StackTypes, app # <<>>, NEW k \in Clients, NEW labels \in Seq(Labels), Then(labels, k)
    PROVE  /\ StackTypes' /\ Len(app') = Len(labels) + Len(app) - 1
           /\ \A i \in 1 .. Len(app') : app'[i] = IF i <= Len(labels) THEN <<labels[i], k>>
                                                                   ELSE app[i - Len(labels) + 1]
  <1> DEFINE d == Do(labels, k)
             S == Labels \X Clients
             t == Tail(app)
  <1>1. d \in Seq(S) /\ Len(d) = Len(labels) /\ \A i \in 1 .. Len(labels) : d[i] = <<labels[i], k>>
    BY DoType
  <1>2. app \in Seq(S)
    BY DEF StackTypes
  <1> HIDE DEF S, d
  <1>3. t \in Seq(S) /\ Len(t) = Len(app) - 1 /\ \A i \in 1 .. Len(t) : t[i] = app[i + 1]
    BY <1>2, HeadTailProperties
  <1>4. app' = d \o t
    BY DEF Then, d
  <1>5. Len(app) \in Nat /\ Len(labels) \in Nat
    BY <1>2
  <1> HIDE DEF t
  <1>6. /\ app' \in Seq(S) /\ Len(app') = Len(d) + Len(t)
        /\ \A i \in 1 .. Len(d) + Len(t) : app'[i] = IF i <= Len(d) THEN d[i] ELSE t[i - Len(d)]
    <2>1. /\ d \o t \in Seq(S) /\ Len(d \o t) = Len(d) + Len(t)
          /\ \A i \in 1 .. Len(d) + Len(t) : (d \o t)[i] = IF i <= Len(d) THEN d[i] ELSE t[i - Len(d)]
      <3>1. d \in Seq(S) /\ t \in Seq(S)
        BY <1>1, <1>3
      <3> QED BY <3>1, ConcatProperties
    <2> QED BY <2>1, <1>4
  <1>7. \A i \in 1 .. Len(app') : app'[i] = IF i <= Len(labels) THEN <<labels[i], k>>
                                                              ELSE app[i - Len(labels) + 1]
    <2> SUFFICES ASSUME NEW i \in 1 .. Len(app')
                 PROVE  app'[i] = IF i <= Len(labels) THEN <<labels[i], k>> ELSE app[i - Len(labels) + 1]
      OBVIOUS
    <2>1. CASE i <= Len(labels)
      <3>1. i \in 1 .. Len(labels) /\ i <= Len(d) /\ i \in 1 .. Len(d) + Len(t)
        BY <2>1, <1>1, <1>3, <1>5, <1>6
      <3>2. app'[i] = d[i]
        BY <3>1, <1>6
      <3> QED BY <2>1, <3>1, <3>2, <1>1
    <2>2. CASE i > Len(labels)
      <3>1. i - Len(d) \in 1 .. Len(t) /\ i \in 1 .. Len(d) + Len(t) /\ ~(i <= Len(d))
        BY <2>2, <1>1, <1>3, <1>5, <1>6
      <3>2. app'[i] = t[i - Len(d)]
        BY <3>1, <1>6
      <3>3. t[i - Len(d)] = app[i - Len(d) + 1]
        BY <3>1, <1>3
      <3> QED BY <2>2, <3>2, <3>3, <1>1, <1>5
    <2> QED BY <2>1, <2>2, <1>5
  <1> QED BY <1>1, <1>3, <1>5, <1>6, <1>7 DEF StackTypes, S

\* The three effects of Then on the stack: pop, replace, push.
LEMMA ThenPops ==
    ASSUME StackTypes, app # <<>>, NEW k \in Clients, Then(<<>>, k)
    PROVE  StackTypes' /\ Popped
  <1> DEFINE labels == <<>>
  <1>1. labels \in Seq(Labels) /\ Len(labels) = 0
    OBVIOUS
  <1>2. Len(app) \in Nat
    BY DEF StackTypes
  <1>3. Then(labels, k)
    OBVIOUS
  <1> HIDE DEF labels
  <1>4. /\ StackTypes' /\ Len(app') = Len(labels) + Len(app) - 1
        /\ \A i \in 1 .. Len(app') : app'[i] = IF i <= Len(labels) THEN <<labels[i], k>>
                                                                ELSE app[i - Len(labels) + 1]
    BY <1>1, <1>3, ThenStack, Zenon
  <1>5. ASSUME NEW i \in 1 .. Len(app') PROVE app'[i] = app[i + 1]
    <2>1. i - Len(labels) + 1 = i + 1 /\ ~(i <= Len(labels))
      BY <1>1, <1>2, <1>4
    <2>2. app'[i] = app[i - Len(labels) + 1]
      BY <1>4, <2>1
    <2> QED BY <2>1, <2>2
  <1>6. Len(app') = Len(app) - 1
    BY <1>1, <1>2, <1>4
  <1> QED BY <1>4, <1>5, <1>6 DEF Popped, Places

\* One instruction in the place of the top.
LEMMA ThenReplaces ==
    ASSUME StackTypes, app # <<>>, NEW k \in Clients, NEW l \in Labels,
           Then(<<l>>, k)
    PROVE  StackTypes' /\ Replaced(l, k)
  <1> DEFINE labels == <<l>>
  <1>1. labels \in Seq(Labels) /\ Len(labels) = 1 /\ labels[1] = l
    OBVIOUS
  <1>2. Len(app) \in Nat /\ Len(app) >= 1
    BY DEF StackTypes
  <1>3. Then(labels, k)
    OBVIOUS
  <1> HIDE DEF labels
  <1>4. /\ StackTypes' /\ Len(app') = Len(labels) + Len(app) - 1
        /\ \A i \in 1 .. Len(app') : app'[i] = IF i <= Len(labels) THEN <<labels[i], k>>
                                                                ELSE app[i - Len(labels) + 1]
    BY <1>1, <1>3, ThenStack, Zenon
  <1>5. ASSUME NEW i \in 1 .. Len(app'), i > 1 PROVE app'[i] = app[i]
    <2>1. i - Len(labels) + 1 = i /\ ~(i <= Len(labels))
      BY <1>1, <1>2, <1>4, <1>5
    <2>2. app'[i] = app[i - Len(labels) + 1]
      BY <1>4, <2>1
    <2> QED BY <2>1, <2>2
  <1>6. \A i \in 1 .. 1 : i <= Len(labels) /\ i \in 1 .. Len(app')
    BY <1>1, <1>2, <1>4
  <1>7. Len(app') = Len(app)
    BY <1>1, <1>2, <1>4
  <1>8. ASSUME NEW i \in 1 .. 1 PROVE app'[i] = <<labels[i], k>>
    BY <1>4, <1>6
  <1> QED BY <1>1, <1>5, <1>7, <1>8, <1>4 DEF Replaced, Places

\* Two instructions in the place of the top.
LEMMA ThenPushes2 ==
    ASSUME StackTypes, app # <<>>, NEW k \in Clients, NEW l \in Labels, NEW m \in Labels,
           Then(<<l, m>>, k)
    PROVE  StackTypes' /\ Pushed2(l, m, k)
  <1> DEFINE labels == <<l, m>>
  <1>1. labels \in Seq(Labels) /\ Len(labels) = 2 /\ labels[1] = l /\ labels[2] = m
    OBVIOUS
  <1>2. Len(app) \in Nat /\ Len(app) >= 1
    BY DEF StackTypes
  <1>3. Then(labels, k)
    OBVIOUS
  <1> HIDE DEF labels
  <1>4. /\ StackTypes' /\ Len(app') = Len(labels) + Len(app) - 1
        /\ \A i \in 1 .. Len(app') : app'[i] = IF i <= Len(labels) THEN <<labels[i], k>>
                                                                ELSE app[i - Len(labels) + 1]
    BY <1>1, <1>3, ThenStack, Zenon
  <1>5. ASSUME NEW i \in 1 .. Len(app'), i > 2 PROVE app'[i] = app[i - 1]
    <2>1. i - Len(labels) + 1 = i - 1 /\ ~(i <= Len(labels))
      BY <1>1, <1>2, <1>4, <1>5
    <2>2. app'[i] = app[i - Len(labels) + 1]
      BY <1>4, <2>1
    <2> QED BY <2>1, <2>2
  <1>6. \A i \in 1 .. 2 : i <= Len(labels) /\ i \in 1 .. Len(app')
    BY <1>1, <1>2, <1>4
  <1>7. Len(app') = Len(app) + 1
    BY <1>1, <1>2, <1>4
  <1>8. ASSUME NEW i \in 1 .. 2 PROVE app'[i] = <<labels[i], k>>
    BY <1>4, <1>6
  <1> QED BY <1>1, <1>5, <1>7, <1>8, <1>4 DEF Pushed2, Places

\* Three instructions in the place of the top.
LEMMA ThenPushes3 ==
    ASSUME StackTypes, app # <<>>, NEW k \in Clients, NEW l \in Labels, NEW m \in Labels, NEW n \in Labels,
           Then(<<l, m, n>>, k)
    PROVE  StackTypes' /\ Pushed3(l, m, n, k)
  <1> DEFINE labels == <<l, m, n>>
  <1>1. labels \in Seq(Labels) /\ Len(labels) = 3 /\ labels[1] = l /\ labels[2] = m /\ labels[3] = n
    OBVIOUS
  <1>2. Len(app) \in Nat /\ Len(app) >= 1
    BY DEF StackTypes
  <1>3. Then(labels, k)
    OBVIOUS
  <1> HIDE DEF labels
  <1>4. /\ StackTypes' /\ Len(app') = Len(labels) + Len(app) - 1
        /\ \A i \in 1 .. Len(app') : app'[i] = IF i <= Len(labels) THEN <<labels[i], k>>
                                                                ELSE app[i - Len(labels) + 1]
    BY <1>1, <1>3, ThenStack, Zenon
  <1>5. ASSUME NEW i \in 1 .. Len(app'), i > 3 PROVE app'[i] = app[i - 2]
    <2>1. i - Len(labels) + 1 = i - 2 /\ ~(i <= Len(labels))
      BY <1>1, <1>2, <1>4, <1>5
    <2>2. app'[i] = app[i - Len(labels) + 1]
      BY <1>4, <2>1
    <2> QED BY <2>1, <2>2
  <1>6. \A i \in 1 .. 3 : i <= Len(labels) /\ i \in 1 .. Len(app')
    BY <1>1, <1>2, <1>4
  <1>7. Len(app') = Len(app) + 2
    BY <1>1, <1>2, <1>4
  <1>8. ASSUME NEW i \in 1 .. 3 PROVE app'[i] = <<labels[i], k>>
    BY <1>4, <1>6
  <1> QED BY <1>1, <1>5, <1>7, <1>8, <1>4 DEF Pushed3, Places


\* The stack is a finite sequence.
LEMMA StackShape ==
    ASSUME StackTypes
    PROVE  Len(app) \in Nat /\ (app = <<>> <=> Len(app) = 0)
  BY EmptySeq DEF StackTypes

\* StackShape in the next state.
LEMMA StackShapeNext ==
    ASSUME StackTypes'
    PROVE  Len(app') \in Nat /\ (app' = <<>> <=> Len(app') = 0)
  BY EmptySeq DEF StackTypes

------------------------------------------------------------------------------
\* What most steps leave as it is.
Tame ==
    /\ UNCHANGED <<mSessionId, mIsLocal>>
    /\ \A k \in Clients :
        /\ conn'[k] = "none" <=> conn[k] = "none"
        /\ recv[k] = "none" => recv'[k] = "none"
        /\ recv'[k] = "none" => recv[k] = "none" \/ Top("join", k)
        /\ send[k] = "none" => send'[k] = "none"
        /\ endpoint'[k] => endpoint[k]
        /\ alive'[k] = "gone" => alive[k] = "gone"
        /\ greeted[k] => greeted'[k]
        /\ mEngineReady'[k] => mEngineReady[k] \/ greeted'[k]
    /\ \A s \in SessionIds :
        /\ sess'[s].listed = sess[s].listed
        /\ sess'[s].returned = sess[s].returned
        /\ sess[s].listed =>
             /\ sess'[s].owner = sess[s].owner
             /\ sess'[s].proc = "running" => sess[s].proc = "running"
             /\ ~sess[s].callback /\ sess[s].term \notin {"status", "set"} =>
                  ~sess'[s].callback /\ sess'[s].term \notin {"status", "set"}

\* The next instruction stays postConnect, and what is left of shutdownConnection stays.
Kept == \A k \in Clients : /\ Top("postConnect", k) => Top("postConnect", k)'
                           /\ Pending("reset", k) => Pending("reset", k)'

\* The parts of ClientInv that are not about the places of instructions.
StateInv == /\ NoneIsQuiet /\ ConnectedHasThread /\ ReturnedIsCurrent /\ KnownIsListed /\ ReadyIsTrue
            /\ AbandonedIsSilent

\* A tame step that keeps postConnect and reset on the stack keeps StateInv.
LEMMA TameState ==
    ASSUME ClientInv, DataTypes', ClientTypeOK', Tame, Kept
    PROVE  StateInv'
  <1> USE DEF ClientInv
  <1>1. NoneIsQuiet'
    BY DEF NoneIsQuiet, Tame, Quiet, ClientTypeOK
  <1>2. ConnectedHasThread'
    <2> SUFFICES ASSUME NEW k \in Clients, conn'[k] # "none", recv'[k] = "none"
                 PROVE  Top("postConnect", k)' \/ Pending("reset", k)'
      BY DEF ConnectedHasThread
    <2>1. CASE Top("join", k)
      <3>1. Len(app) \in Nat /\ Len(app) >= 1 /\ app[1] = <<"join", k>>
        BY <2>1, StackShape DEF Top
      <3>2. Len(app) >= 2 /\ app[2] = <<"reset", k>>
        BY <3>1 DEF StackInv, JoinPlace, Places
      <3>3. Pending("reset", k)
        BY <3>1, <3>2 DEF Pending, Places
      <3> QED BY <3>3 DEF Kept
    <2>2. CASE ~Top("join", k)
      BY <2>2 DEF ConnectedHasThread, Tame, Kept
    <2> QED BY <2>1, <2>2
  <1>3. ReturnedIsCurrent'
    <2> SUFFICES ASSUME NEW s \in SessionIds, sess'[s].returned
                 PROVE  (/\ sess[s].owner \in Clients /\ sess[s].listed
                         /\ sess[s].proc = "running" =>
                              \/ /\ mSessionId[sess[s].owner] = s /\ mIsLocal[sess[s].owner]
                                 /\ conn[sess[s].owner] # "none"
                              \/ Top("postConnect", sess[s].owner) /\ recv[sess[s].owner] # "none")'
      BY DEF ReturnedIsCurrent
    <2> DEFINE k == sess[s].owner
    <2>1. /\ sess[s].returned /\ k \in Clients /\ sess[s].listed /\ sess'[s].owner = k /\ sess'[s].listed
          /\ sess'[s].proc = "running" => sess[s].proc = "running"
      BY DEF ReturnedIsCurrent, Tame
    <2>2. sess[s].proc = "running" =>
             \/ mSessionId[k] = s /\ mIsLocal[k] /\ conn[k] # "none"
             \/ Top("postConnect", k) /\ recv[k] # "none"
      BY <2>1 DEF ReturnedIsCurrent
    <2> HIDE DEF k
    <2>3. ~(Top("postConnect", k) /\ Top("join", k))
      BY DEF Top
    <2> QED BY <2>1, <2>2, <2>3 DEF Tame, Kept
  <1>4. KnownIsListed'
    BY DEF KnownIsListed, Tame, ClientTypeOK, SessionIds
  <1>5. ReadyIsTrue'
    BY DEF ReadyIsTrue, Tame, Kept, ClientTypeOK
  <1>6. AbandonedIsSilent'
    <2> SUFFICES ASSUME NEW k \in Clients, alive'[k] = "gone", mIsLocal'[k], mSessionId'[k] # 0
                 PROVE  ~sess'[mSessionId'[k]].callback /\ sess'[mSessionId'[k]].term \notin {"status", "set"}
      BY DEF AbandonedIsSilent
    <2> DEFINE s == mSessionId[k]
    <2>1. s \in SessionIds /\ sess[s].listed /\ mSessionId'[k] = s
      BY DEF KnownIsListed, Tame, ClientTypeOK, SessionIds
    <2>2. alive[k] = "gone" /\ mIsLocal[k] /\ s # 0
      BY <2>1 DEF Tame
    <2>3. ~sess[s].callback /\ sess[s].term \notin {"status", "set"}
      BY <2>2 DEF AbandonedIsSilent
    <2> QED BY <2>1, <2>3 DEF Tame
  <1> QED BY <1>1, <1>2, <1>3, <1>4, <1>5, <1>6 DEF StateInv

\* A tame step starts no thread and no process and moves no Client to another session.
LEMMA TameQuiet ==
    ASSUME ClientInv, Tame, NEW k \in Clients
    PROVE  /\ Quiet(k) => Quiet(k)'
           /\ Stopped(k) => Stopped(k)'
           /\ Joined(k) => Joined(k)'
  <1> USE DEF ClientInv
  <1>1. Quiet(k) => Quiet(k)'
    BY DEF Tame, Quiet
  <1>2. Stopped(k) => Stopped(k)'
    BY DEF Tame, Stopped, ReturnedIsCurrent
  <1>3. Joined(k) => Joined(k)'
    BY DEF Tame, Joined, KnownIsListed, ClientTypeOK, SessionIds
  <1> QED BY <1>1, <1>2, <1>3

\* What popping the label l of k needs.
PopPlace(l, k) ==
    /\ l \notin Puts \cup {"postConnect", "connectSession", "disconnect", "awaitConnect"}
    /\ \A c \in Clients : /\ Quiet(c) => Quiet(c)'
                          /\ Stopped(c) => Stopped(c)'
                          /\ mSessionId[c] = 0 => mSessionId'[c] = 0
                          /\ alive'[c] = "gone" => alive[c] = "gone"
                          /\ mState'[c] = "CONNECTED" => mState[c] = "CONNECTED" \/ c = k
    /\ l \in {"sendReady", "isLocal", "sendGo"} => (Joined(k) => Joined(k)')
    /\ l = "sendGo" => (mIsLocal[k] => mIsLocal'[k])
    /\ l = "isLocal" => mIsLocal'[k]
    /\ l \in {"shutdownConnection", "reset"} => mState'[k] # "CONNECTED"
    /\ l = "delete" => ~endpoint'[k]
    /\ l = "join" => Quiet(k)' /\ Stopped(k)'
    /\ l = "stopSession" => Stopped(k)'

\* Popping an instruction keeps the places of the others.
LEMMA PopPlaces ==
    ASSUME ClientInv, StackTypes', NEW k \in Clients, NEW l \in Labels, Top(l, k), Popped, PopPlace(l, k)
    PROVE  StackInv' /\ (l # "reset" => Kept)
  <1> USE DEF ClientInv, PopPlace
  <1> DEFINE n == Len(app)
             m == Len(app')
  <1>1. n \in Nat /\ m \in Nat /\ n >= 1 /\ m = n - 1 /\ app[1] = <<l, k>>
    BY StackShape, StackShapeNext DEF Top, Popped
  <1>2. \A i \in 1 .. m : app'[i] = app[i + 1] /\ i + 1 \in 1 .. n
    BY <1>1 DEF Popped, Places
  <1>3. Places = 1 .. n /\ Places' = 1 .. m
    BY DEF Places
  <1> HIDE DEF n, m
  <1>4. \A c \in Clients : (Quiet(c) => Quiet(c)') /\ (Stopped(c) => Stopped(c)')
    OBVIOUS
  <1>5. DeletePlace'
    BY <1>1, <1>2, <1>3 DEF StackInv, DeletePlace
  <1>6. JoinPlace'
    <2> SUFFICES ASSUME NEW c \in Clients, NEW i \in 1 .. m, app'[i] = <<"join", c>>
                 PROVE  i = 1 /\ m >= 2 /\ app'[2] = <<"reset", c>> /\ ~endpoint'[c]
      BY <1>3 DEF JoinPlace, m
    <2>1. i + 1 \in 1 .. n /\ app[i + 1] = <<"join", c>>
      BY <1>2
    <2>2. i + 1 = 2 /\ app[1] = <<"delete", c>>
      BY <2>1, <1>1, <1>3 DEF StackInv, JoinPlace
    <2>3. n >= 3 /\ app[3] = <<"reset", c>>
      BY <2>2, <1>1, <1>3 DEF StackInv, DeletePlace, n
    <2> QED BY <2>2, <2>3, <1>1, <1>2
  <1>7. ResetPlace'
    <2> SUFFICES ASSUME NEW c \in Clients, NEW i \in 1 .. m, app'[i] = <<"reset", c>>
                 PROVE  (\/ i = 1 /\ Quiet(c) /\ Stopped(c)
                         \/ i = 2 /\ app[1] = <<"setDisconnecting", c>> /\ Quiet(c) /\ Stopped(c)
                         \/ /\ i = 3 /\ app[1] = <<"stopSession", c>> /\ app[2] = <<"setDisconnecting", c>>
                            /\ Quiet(c)
                         \/ i = 2 /\ app[1] = <<"join", c>>
                         \/ i = 3 /\ app[1] = <<"delete", c>>)'
      BY <1>3 DEF ResetPlace
    <2>1. i + 1 \in 1 .. n /\ app[i + 1] = <<"reset", c>>
      BY <1>2
    <2>2. \/ i + 1 = 1
          \/ i + 1 = 2 /\ app[1] = <<"setDisconnecting", c>> /\ Quiet(c) /\ Stopped(c)
          \/ i + 1 = 3 /\ app[1] = <<"stopSession", c>> /\ app[2] = <<"setDisconnecting", c>> /\ Quiet(c)
          \/ i + 1 = 2 /\ app[1] = <<"join", c>>
          \/ i + 1 = 3 /\ app[1] = <<"delete", c>> /\ app[2] = <<"join", c>>
      BY <2>1, <1>1, <1>3 DEF StackInv, ResetPlace, DeletePlace
    <2> QED BY <2>2, <1>1, <1>2, <1>4
  <1>8. AwaitPlace'
    <2> SUFFICES ASSUME NEW c \in Clients, NEW i \in 1 .. m, app'[i] = <<"awaitConnect", c>> PROVE FALSE
      BY <1>3 DEF AwaitPlace
    <2> QED BY <1>1, <1>2, <1>3 DEF StackInv, AwaitPlace
  <1>16. LocalPlace'
    BY <1>1, <1>2, <1>3 DEF StackInv, LocalPlace, n, m
  <1>9. PostPlace'
    BY <1>1, <1>2, <1>3 DEF StackInv, PostPlace
  <1>10. PutPlace'
    BY <1>1, <1>2, <1>3 DEF StackInv, PutPlace
  <1>11. ReadyPlace'
    <2> SUFFICES ASSUME NEW c \in Clients, NEW i \in 1 .. m, app'[i] = <<"ready", c>>
                 PROVE  (/\ i = Len(app)
                         /\ \/ app[1] = <<"awaitConnect", c>>
                            \/ \E j \in Places, p \in Puts : j < i /\ app[j] = <<p, c>>
                            \/ Joined(c) /\ i = 4 /\ app[1] \in {<<"postConnect", c>>, <<"sendReady", c>>}
                                 /\ app[2] = <<"isLocal", c>> /\ app[3] = <<"sendGo", c>>
                            \/ Joined(c) /\ i = 3 /\ app[1] = <<"isLocal", c>> /\ app[2] = <<"sendGo", c>>
                            \/ Joined(c) /\ i = 2 /\ app[1] = <<"sendGo", c>> /\ mIsLocal[c]
                            \/ Joined(c) /\ i = 1 /\ mIsLocal[c])'
      BY <1>3 DEF ReadyPlace
    <2>1. i + 1 \in 1 .. n /\ app[i + 1] = <<"ready", c>> /\ i = m
      BY <1>1, <1>2, <1>3 DEF StackInv, ReadyPlace, n, m
    <2>2. \/ \E j \in 1 .. n, p \in Puts : j < i + 1 /\ app[j] = <<p, c>>
          \/ Joined(c) /\ i + 1 = 4 /\ app[1] \in {<<"postConnect", c>>, <<"sendReady", c>>}
               /\ app[2] = <<"isLocal", c>> /\ app[3] = <<"sendGo", c>>
          \/ Joined(c) /\ i + 1 = 3 /\ app[1] = <<"isLocal", c>> /\ app[2] = <<"sendGo", c>>
          \/ Joined(c) /\ i + 1 = 2 /\ app[1] = <<"sendGo", c>> /\ mIsLocal[c]
      <3>1. app[1] # <<"awaitConnect", c>> /\ i + 1 # 1
        BY <1>1
      <3> QED BY <2>1, <3>1, <1>3 DEF StackInv, ReadyPlace
    <2>3. CASE \E j \in 1 .. n, p \in Puts : j < i + 1 /\ app[j] = <<p, c>>
      <3>1. PICK j \in 1 .. n, p \in Puts : j < i + 1 /\ app[j] = <<p, c>>
        BY <2>3
      <3>2. j # 1
        BY <3>1, <1>1
      <3>3. j - 1 \in 1 .. m /\ j - 1 < i /\ app'[j - 1] = app[(j - 1) + 1] /\ (j - 1) + 1 = j
        BY <3>1, <3>2, <1>1, <1>2
      <3> QED BY <2>1, <3>1, <3>3, <1>3 DEF m
    <2>4. CASE ~\E j \in 1 .. n, p \in Puts : j < i + 1 /\ app[j] = <<p, c>>
      BY <2>1, <2>2, <2>4, <1>1, <1>2, <1>4 DEF m
    <2> QED BY <2>3, <2>4
  <1>12. RemotePlace'
    <2> SUFFICES ASSUME NEW c \in Clients, NEW i \in 1 .. m, app'[i] = <<"isRemote", c>>, mSessionId'[c] # 0
                 PROVE  \E j \in 1 .. m : j < i /\ app'[j] = <<"connectSession", c>>
      BY <1>3 DEF RemotePlace
    <2>1. PICK j \in 1 .. n : j < i + 1 /\ app[j] = <<"connectSession", c>>
      <3>1. i + 1 \in 1 .. n /\ app[i + 1] = <<"isRemote", c>> /\ mSessionId[c] # 0
        BY <1>2
      <3> QED BY <3>1, <1>3 DEF StackInv, RemotePlace
    <2>2. j - 1 \in 1 .. m /\ j - 1 < i /\ app'[j - 1] = app[(j - 1) + 1] /\ (j - 1) + 1 = j
      BY <2>1, <1>1, <1>2
    <2> QED BY <2>1, <2>2
  <1>13. AbandonPlace'
    <2> SUFFICES ASSUME NEW c \in Clients, NEW i \in 1 .. m, app'[i] = <<"abandon", c>> PROVE i = m
      BY <1>3 DEF AbandonPlace, m
    <2>1. i + 1 \in 1 .. n /\ app[i + 1] = <<"abandon", c>>
      BY <1>2
    <2>2. i + 1 = n
      BY <2>1, <1>3 DEF StackInv, AbandonPlace, n
    <2> QED BY <2>2, <1>1
  <1>14. AliveOnStack'
    BY <1>1, <1>2, <1>3 DEF StackInv, AliveOnStack
  <1>15. l # "reset" => Kept
    <2> SUFFICES ASSUME l # "reset", NEW c \in Clients
                 PROVE  /\ Top("postConnect", c) => Top("postConnect", c)'
                        /\ Pending("reset", c) => Pending("reset", c)'
      BY DEF Kept
    <2>1. ~Top("postConnect", c)
      BY <1>1 DEF Top
    <2>2. ASSUME NEW i \in 1 .. n, app[i] = <<"reset", c>> PROVE Pending("reset", c)'
      <3>1. i - 1 \in 1 .. m /\ app'[i - 1] = app[(i - 1) + 1] /\ (i - 1) + 1 = i
        BY <2>2, <1>1, <1>2
      <3> QED BY <2>2, <3>1, <1>3 DEF Pending
    <2> QED BY <2>1, <2>2, <1>3 DEF Pending
  <1> QED BY <1>5, <1>6, <1>7, <1>8, <1>16, <1>9, <1>10, <1>11, <1>12, <1>13, <1>14, <1>15 DEF StackInv

\* What popping the label l of k needs, when the rest of the step is tame.
PopTame(l, k) ==
    /\ Tame
    /\ l \notin Puts \cup {"postConnect", "reset", "connectSession", "disconnect", "awaitConnect", "isLocal"}
    /\ \A c \in Clients : mState'[c] = "CONNECTED" => mState[c] = "CONNECTED" \/ c = k
    /\ l = "shutdownConnection" => mState'[k] # "CONNECTED"
    /\ l = "delete" => ~endpoint'[k]
    /\ l = "join" => Quiet(k)' /\ Stopped(k)'
    /\ l = "stopSession" => Stopped(k)'

\* PopPlaces for a tame step.
LEMMA TamePop ==
    ASSUME ClientInv, StackTypes', NEW k \in Clients, NEW l \in Labels, Top(l, k), Popped, PopTame(l, k)
    PROVE  StackInv' /\ Kept
  <1>1. \A c \in Clients : (Quiet(c) => Quiet(c)') /\ (Stopped(c) => Stopped(c)') /\ (Joined(c) => Joined(c)')
    BY TameQuiet DEF PopTame
  <1>2. PopPlace(l, k)
    BY <1>1 DEF PopPlace, PopTame, Tame
  <1> QED BY <1>2, PopPlaces DEF PopTame

\* The labels that a step puts in the place of the top l.
Continues(l, k) ==
    \/ l = "disconnect" /\ Replaced("shutdownConnection", k)
    \/ l = "sendIfReady" /\ Replaced("sendUser", k)
    \/ l = "shutdown" /\ \/ Pushed2("stopSession", "setDisconnecting", k)
                         \/ Pushed2("sendDisconnect", "setDisconnecting", k)
    \/ \E q \in Puts : l \in {"sendReady", "sendGo", "sendUser", "sendDisconnect"} /\ Pushed2("disconnect", q, k)
    \/ l = "shutdownConnection" /\ Pushed3("delete", "join", "reset", k)
    \/ l = "join" /\ Quiet(k)' /\ Pushed2("stopSession", "setDisconnecting", k)
    \/ l = "connectSession" /\ conn'[k] # "none" /\ mSessionId'[k] = 0 /\ Replaced("postConnect", k)
    \/ l = "postConnect" /\ (Joined(k) => Joined(k)') /\ Replaced("sendReady", k)

\* Putting instructions in the place of the top keeps the places of the others.
LEMMA PushPlaces ==
    ASSUME ClientInv, StackTypes', NEW k \in Clients, NEW l \in Labels, Top(l, k), Continues(l, k),
           \A c \in Clients : mSessionId[c] = 0 => mSessionId'[c] = 0,
           \A c \in Clients : alive'[c] = "gone" => alive[c] = "gone"
    PROVE  StackInv' /\ (l # "postConnect" => Kept)
  <1> USE DEF ClientInv
  <1> DEFINE n == Len(app)
             m == Len(app')
  <1>1. n \in Nat /\ m \in Nat /\ n >= 1 /\ app[1] = <<l, k>>
    BY StackShape, StackShapeNext DEF Top
  <1>2. Places = 1 .. n /\ Places' = 1 .. m
    BY DEF Places
  <1>3. PICK p \in 1 .. 3 :
          /\ m = n - 1 + p
          /\ \A i \in 1 .. m : i > p => app'[i] = app[i - p + 1]
          /\ \A i \in 1 .. p, c \in Clients :
               /\ app'[i] # <<"awaitConnect", c>> /\ app'[i] # <<"createLocal", c>>
               /\ app'[i] = <<"postConnect", c>> => c = k /\ i = 1 /\ l = "connectSession"
               /\ app'[i] # <<"ready", c>> /\ app'[i] # <<"isRemote", c>> /\ app'[i] # <<"abandon", c>>
          /\ \A i \in 1 .. p, c \in Clients :
               app'[i] = <<"delete", c>> \/ app'[i] = <<"join", c>> \/ app'[i] = <<"reset", c>> =>
                 /\ c = k /\ p = 3 /\ app'[1] = <<"delete", k>>
                 /\ app'[2] = <<"join", k>> /\ app'[3] = <<"reset", k>>
          /\ \A i \in 1 .. p, c \in Clients, q \in Puts : app'[i] = <<q, c>> =>
               c = k /\ i = 2 /\ app'[1] = <<"disconnect", k>>
          /\ \A i \in 1 .. p : \E x \in Labels : app'[i] = <<x, k>>
          /\ l \in {"disconnect", "shutdownConnection"} => app'[p] \in {<<"shutdownConnection", k>>, <<"reset", k>>}
          /\ l \in {"sendReady", "sendGo"} => p = 2 /\ \E q \in Puts : app'[2] = <<q, k>>
          /\ l = "postConnect" => p = 1 /\ app'[1] = <<"sendReady", k>> /\ (Joined(k) => Joined(k)')
          /\ l = "connectSession" => mSessionId'[k] = 0 /\ conn'[k] # "none"
          /\ l = "join" => /\ p = 2 /\ app'[1] = <<"stopSession", k>>
                           /\ app'[2] = <<"setDisconnecting", k>> /\ Quiet(k)'
          /\ l \notin Puts \cup {"reset", "awaitConnect", "isLocal", "delete", "stopSession", "setDisconnecting"}
    <2>1. CASE l = "disconnect" /\ Replaced("shutdownConnection", k)
      <3> WITNESS 1 \in 1 .. 3
      <3> QED BY <2>1, <1>1, <1>2 DEF Replaced, Puts, Labels
    <2>2. CASE l = "sendIfReady" /\ Replaced("sendUser", k)
      <3> WITNESS 1 \in 1 .. 3
      <3> QED BY <2>2, <1>1, <1>2 DEF Replaced, Puts, Labels
    <2>3. CASE l = "shutdown" /\ Pushed2("stopSession", "setDisconnecting", k)
      <3> WITNESS 2 \in 1 .. 3
      <3> QED BY <2>3, <1>1, <1>2 DEF Pushed2, Puts, Labels
    <2>4. CASE l = "shutdown" /\ Pushed2("sendDisconnect", "setDisconnecting", k)
      <3> WITNESS 2 \in 1 .. 3
      <3> QED BY <2>4, <1>1, <1>2 DEF Pushed2, Puts, Labels
    <2>5. CASE \E q \in Puts : l \in {"sendReady", "sendGo", "sendUser", "sendDisconnect"} /\ Pushed2("disconnect", q, k)
      <3> WITNESS 2 \in 1 .. 3
      <3> QED BY <2>5, <1>1, <1>2 DEF Pushed2, Puts, Labels
    <2>6. CASE l = "shutdownConnection" /\ Pushed3("delete", "join", "reset", k)
      <3> WITNESS 3 \in 1 .. 3
      <3> QED BY <2>6, <1>1, <1>2 DEF Pushed3, Puts, Labels
    <2>7. CASE l = "join" /\ Quiet(k)' /\ Pushed2("stopSession", "setDisconnecting", k)
      <3> WITNESS 2 \in 1 .. 3
      <3> QED BY <2>7, <1>1, <1>2 DEF Pushed2, Puts, Labels
    <2>8. CASE l = "connectSession" /\ conn'[k] # "none" /\ mSessionId'[k] = 0 /\ Replaced("postConnect", k)
      <3> WITNESS 1 \in 1 .. 3
      <3> QED BY <2>8, <1>1, <1>2 DEF Replaced, Puts, Labels
    <2>9. CASE l = "postConnect" /\ (Joined(k) => Joined(k)') /\ Replaced("sendReady", k)
      <3> WITNESS 1 \in 1 .. 3
      <3> QED BY <2>9, <1>1, <1>2 DEF Replaced, Puts, Labels
    <2> QED BY <2>1, <2>2, <2>3, <2>4, <2>5, <2>6, <2>7, <2>8, <2>9 DEF Continues
  <1> HIDE DEF n, m
  \* Above p the new stack is the old one, its places p - 1 higher.
  <1>4. \A i \in 1 .. m : i > p => i - p + 1 \in 2 .. n /\ app'[i] = app[i - p + 1]
    BY <1>1, <1>3
  <1>5. \A i \in 2 .. n : i + p - 1 \in 1 .. m /\ i + p - 1 > p /\ app'[i + p - 1] = app[i]
    <2> TAKE i \in 2 .. n
    <2>1. i + p - 1 \in 1 .. m /\ i + p - 1 > p /\ (i + p - 1) - p + 1 = i
      BY <1>1, <1>3
    <2> QED BY <2>1, <1>4
  \* Nothing of shutdownConnection is below such a top, but for join.
  <1>6. \A i \in 2 .. n, c \in Clients :
          /\ app[i] # <<"awaitConnect", c>> /\ app[i] # <<"postConnect", c>> /\ app[i] # <<"delete", c>>
          /\ app[i] # <<"join", c>> /\ (app[i] = <<"reset", c>> => l = "join" /\ c = k /\ i = 2)
    <2> TAKE i \in 2 .. n, c \in Clients
    <2>1. app[i] # <<"awaitConnect", c>> /\ app[i] # <<"postConnect", c>>
      BY <1>1, <1>2, <1>3 DEF StackInv, AwaitPlace, PostPlace
    <2>2. app[i] # <<"delete", c>> /\ app[i] # <<"join", c>>
      BY <1>1, <1>2, <1>3 DEF StackInv, DeletePlace, JoinPlace
    <2>3. app[i] = <<"reset", c>> => l = "join" /\ c = k /\ i = 2
      BY <1>1, <1>2, <1>3 DEF StackInv, ResetPlace
    <2> QED BY <2>1, <2>2, <2>3
  <1>7. DeletePlace' /\ JoinPlace'
    <2>1. DeletePlace'
      <3> SUFFICES ASSUME NEW c \in Clients, NEW i \in 1 .. m, app'[i] = <<"delete", c>>
                   PROVE  i = 1 /\ m >= 3 /\ app'[2] = <<"join", c>> /\ app'[3] = <<"reset", c>>
        BY <1>2 DEF DeletePlace, m
      <3>1. ~(i > p)
        BY <1>1, <1>4, <1>6
      <3> QED BY <3>1, <1>1, <1>3
    <2>2. JoinPlace'
      <3> SUFFICES ASSUME NEW c \in Clients, NEW i \in 1 .. m, app'[i] = <<"join", c>>
                   PROVE  i = 2 /\ app'[1] = <<"delete", c>>
        BY <1>2 DEF JoinPlace, m
      <3>1. ~(i > p)
        BY <1>1, <1>4, <1>6
      <3>2. i <= p
        BY <3>1, <1>1, <1>3
      <3> QED BY <3>2, <1>1, <1>3
    <2> QED BY <2>1, <2>2
  <1>8. ResetPlace'
    <2> SUFFICES ASSUME NEW c \in Clients, NEW i \in 1 .. m, app'[i] = <<"reset", c>>
                 PROVE  \/ /\ i = 3 /\ app'[1] = <<"stopSession", c>> /\ app'[2] = <<"setDisconnecting", c>>
                           /\ Quiet(c)'
                        \/ i = 3 /\ app'[1] = <<"delete", c>>
      BY <1>2 DEF ResetPlace
    <2>1. CASE i <= p
      <3>1. c = k /\ p = 3 /\ app'[1] = <<"delete", k>> /\ app'[2] = <<"join", k>>
        BY <2>1, <1>1, <1>3
      <3> QED BY <3>1, <2>1
    <2>2. CASE i > p
      <3>1. l = "join" /\ c = k /\ i - p + 1 = 2
        BY <2>2, <1>4, <1>6
      <3> QED BY <3>1, <1>3
    <2> QED BY <2>1, <2>2
  <1>9. AwaitPlace' /\ PostPlace'
    <2>1. AwaitPlace'
      <3> SUFFICES ASSUME NEW c \in Clients, NEW i \in 1 .. m, app'[i] = <<"awaitConnect", c>>
                   PROVE  FALSE
        BY <1>2 DEF AwaitPlace, m
      <3>1. ~(i > p)
        BY <1>1, <1>4, <1>6
      <3>2. i <= p
        BY <3>1, <1>1, <1>3
      <3> QED BY <3>2, <1>1, <1>3
    <2>2. PostPlace'
      <3> SUFFICES ASSUME NEW c \in Clients, NEW i \in 1 .. m, app'[i] = <<"postConnect", c>>
                   PROVE  i = 1 /\ conn'[c] # "none"
        BY <1>2 DEF PostPlace, m
      <3>1. ~(i > p)
        BY <1>1, <1>4, <1>6
      <3> QED BY <3>1, <1>1, <1>3
    <2> QED BY <2>1, <2>2
  <1>10. LocalPlace' /\ AbandonPlace'
    <2> SUFFICES ASSUME NEW c \in Clients, NEW i \in 1 .. m,
                        app'[i] = <<"createLocal", c>> \/ app'[i] = <<"abandon", c>>
                 PROVE  i = m
      BY <1>2 DEF LocalPlace, AbandonPlace, m
    <2>1. i > p
      BY <1>1, <1>3
    <2> DEFINE h == i - p + 1
    <2>3. h \in 2 .. n /\ (app[h] = <<"createLocal", c>> \/ app[h] = <<"abandon", c>>)
      BY <2>1, <1>4
    <2> HIDE DEF h
    <2>4. h = n
      BY <2>3, <1>1, <1>2 DEF StackInv, LocalPlace, AbandonPlace, n
    <2>2. i - p + 1 = n
      BY <2>4 DEF h
    <2> QED BY <2>2, <1>1, <1>3
  <1>11. PutPlace'
    <2> SUFFICES ASSUME NEW c \in Clients, NEW q \in Puts, NEW i \in 1 .. m, app'[i] = <<q, c>>
                 PROVE  i > 1 /\ app'[i - 1] \in {<<"disconnect", c>>, <<"shutdownConnection", c>>, <<"reset", c>>}
      BY <1>2 DEF PutPlace
    <2>1. CASE i <= p
      <3>1. c = k /\ i = 2 /\ app'[1] = <<"disconnect", k>>
        BY <2>1, <1>1, <1>3
      <3> QED BY <3>1
    <2>2. CASE i > p
      <3> DEFINE j == i - p + 1
      <3>1. j \in 2 .. n /\ app[j] = <<q, c>>
        BY <2>2, <1>4
      <3>2. app[j - 1] \in {<<"disconnect", c>>, <<"shutdownConnection", c>>, <<"reset", c>>}
        BY <3>1, <1>2, <1>1 DEF StackInv, PutPlace
      <3>3. CASE j = 2
        <4>1. c = k /\ l \in {"disconnect", "shutdownConnection"}
          BY <3>2, <3>3, <1>1, <1>3
        <4>2. i - 1 = p /\ i > 1
          BY <3>3, <1>1
        <4> QED BY <4>1, <4>2, <1>3
      <3>4. CASE j > 2
        <4>1. j - 1 \in 2 .. n /\ (j - 1) + p - 1 = i - 1 /\ i > 1
          BY <3>1, <3>4, <1>1
        <4> QED BY <4>1, <3>2, <1>5
      <3> QED BY <3>1, <3>3, <3>4
    <2> QED BY <2>1, <2>2
  <1>12. ReadyPlace'
    <2> SUFFICES ASSUME NEW c \in Clients, NEW i \in 1 .. m, app'[i] = <<"ready", c>>
                 PROVE  /\ i = m
                        /\ \/ \E j \in 1 .. m, q \in Puts : j < i /\ app'[j] = <<q, c>>
                           \/ Joined(c)' /\ i = 4 /\ app'[1] = <<"sendReady", c>>
                                /\ app'[2] = <<"isLocal", c>> /\ app'[3] = <<"sendGo", c>>
      BY <1>2 DEF ReadyPlace, m
    <2> DEFINE h == i - p + 1
    <2>1. i > p /\ h \in 2 .. n /\ app[h] = <<"ready", c>>
      BY <1>1, <1>3, <1>4
    <2> HIDE DEF h
    <2>2. h = n
      BY <2>1, <1>2 DEF StackInv, ReadyPlace, n
    <2>3. \/ \E j \in 1 .. n, q \in Puts : j < h /\ app[j] = <<q, c>>
          \/ app[1] \in {<<"sendReady", c>>, <<"sendGo", c>>}
          \/ Joined(c) /\ h = 4 /\ app[1] = <<"postConnect", c>>
               /\ app[2] = <<"isLocal", c>> /\ app[3] = <<"sendGo", c>>
      <3>1. app[1] # <<"awaitConnect", c>> /\ app[1] # <<"isLocal", c>>
        BY <1>1, <1>3
      <3>2. ReadyPlace /\ h \in Places /\ h # 1
        BY <2>1, <1>1, <1>2 DEF StackInv
      <3> HIDE DEF ClientInv
      <3>3. \/ \E j \in Places, q \in Puts : j < h /\ app[j] = <<q, c>>
            \/ Joined(c) /\ h = 4 /\ app[1] \in {<<"postConnect", c>>, <<"sendReady", c>>}
                 /\ app[2] = <<"isLocal", c>> /\ app[3] = <<"sendGo", c>>
            \/ app[1] = <<"sendGo", c>>
        BY <2>1, <3>1, <3>2 DEF ReadyPlace
      <3> QED BY <3>3, <1>2
    <2>4. CASE \E j \in 1 .. n, q \in Puts : j < h /\ app[j] = <<q, c>>
      <3>1. PICK j \in 1 .. n, q \in Puts : j < h /\ app[j] = <<q, c>>
        BY <2>4
      <3>2. j # 1
        BY <3>1, <1>1, <1>3
      <3>3. j \in 2 .. n /\ j + p - 1 < i /\ j + p - 1 \in 1 .. m
        BY <3>1, <3>2, <1>1, <1>5 DEF h
      <3>4. i = m
        <4>1. m = n - 1 + p
          BY <1>3
        <4> HIDE DEF ClientInv
        <4> QED BY <4>1, <2>1, <2>2, <1>1 DEF h
      <3>5. app'[j + p - 1] = <<q, c>>
        BY <3>1, <3>3, <1>5
      <3> HIDE DEF ClientInv
      <3> QED BY <3>1, <3>3, <3>4, <3>5
    <2>5. CASE app[1] \in {<<"sendReady", c>>, <<"sendGo", c>>}
      <3>1. c = k /\ p = 2 /\ \E q \in Puts : app'[2] = <<q, k>>
        BY <2>5, <1>1, <1>3
      <3> QED BY <3>1, <2>1, <2>2, <1>1, <1>3 DEF h
    <2>6. CASE /\ Joined(c) /\ h = 4 /\ app[1] = <<"postConnect", c>>
               /\ app[2] = <<"isLocal", c>> /\ app[3] = <<"sendGo", c>>
      <3>1. c = k /\ l = "postConnect" /\ p = 1 /\ app'[1] = <<"sendReady", k>> /\ Joined(k)'
        BY <2>6, <1>1, <1>3
      <3>2. i = 4 /\ m = 4 /\ n = 4
        BY <3>1, <2>1, <2>2, <2>6, <1>1, <1>3 DEF h
      <3>3. app'[2] = app[2] /\ app'[3] = app[3]
        <4>1. 2 \in 2 .. n /\ 3 \in 2 .. n /\ 2 + p - 1 = 2 /\ 3 + p - 1 = 3
          BY <3>1, <3>2
        <4> QED BY <4>1, <1>5
      <3> QED BY <3>1, <3>2, <3>3, <2>6
    <2> QED BY <2>3, <2>4, <2>5, <2>6
  <1>13. RemotePlace'
    <2> SUFFICES ASSUME NEW c \in Clients, NEW i \in 1 .. m, app'[i] = <<"isRemote", c>>, mSessionId'[c] # 0
                 PROVE  \E j \in 1 .. m : j < i /\ app'[j] = <<"connectSession", c>>
      BY <1>2 DEF RemotePlace
    <2> DEFINE h == i - p + 1
    <2>1. i > p /\ h \in 2 .. n /\ app[h] = <<"isRemote", c>>
      BY <1>1, <1>3, <1>4
    <2>2. PICK j \in 1 .. n : j < h /\ app[j] = <<"connectSession", c>>
      <3>1. mSessionId[c] # 0
        OBVIOUS
      <3> HIDE DEF h
      <3>2. h \in Places
        BY <2>1, <1>1, <1>2
      <3>3. \E j \in Places : j < h /\ app[j] = <<"connectSession", c>>
        BY <2>1, <3>1, <3>2 DEF StackInv, RemotePlace
      <3> QED BY <3>3, <1>2
    <2>3. j # 1
      BY <2>2, <1>1, <1>3
    <2>4. j \in 2 .. n /\ j + p - 1 < i
      BY <2>2, <2>3, <1>1
    <2> QED BY <2>2, <2>4, <1>5
  <1>14. AliveOnStack'
    <2> SUFFICES ASSUME NEW c \in Clients, NEW x \in Labels, NEW i \in 1 .. m, app'[i] = <<x, c>>
                 PROVE  alive[c] # "gone"
      BY <1>2 DEF AliveOnStack
    <2>1. CASE i <= p
      <3>1. c = k
        BY <2>1, <1>1, <1>3
      <3> QED BY <3>1, <1>1, <1>2 DEF StackInv, AliveOnStack
    <2>2. CASE i > p
      BY <2>2, <1>1, <1>2, <1>4 DEF StackInv, AliveOnStack
    <2> QED BY <2>1, <2>2
  <1>15. ASSUME l # "postConnect" PROVE Kept
    <2> SUFFICES ASSUME NEW c \in Clients
                 PROVE  /\ Top("postConnect", c) => Top("postConnect", c)'
                        /\ Pending("reset", c) => Pending("reset", c)'
      BY DEF Kept
    <2>1. ~Top("postConnect", c)
      BY <1>1, <1>15 DEF Top
    <2>2. ASSUME NEW i \in 1 .. n, app[i] = <<"reset", c>> PROVE Pending("reset", c)'
      <3>1. i \in 2 .. n
        BY <2>2, <1>1, <1>3
      <3>2. i + p - 1 \in Places' /\ app'[i + p - 1] = <<"reset", c>>
        BY <2>2, <3>1, <1>2, <1>5
      <3> QED BY <3>2 DEF Pending
    <2> QED BY <2>1, <2>2, <1>2 DEF Pending
  <1> QED BY <1>7, <1>8, <1>9, <1>10, <1>11, <1>12, <1>13, <1>14, <1>15 DEF StackInv

\* PushPlaces for a tame step.
LEMMA TamePush ==
    ASSUME ClientInv, Tame, StackTypes', NEW k \in Clients, NEW l \in Labels, Top(l, k), Continues(l, k),
           l # "postConnect"
    PROVE  StackInv' /\ Kept
  BY PushPlaces DEF Tame

\* The instructions that may throw out of the call.
Throwing == Puts \cup {"submit", "connectSession", "createLocal", "awaitConnect", "sendReady",
                       "sendGo", "sendUser", "sendDisconnect"}

\* A call that is over leaves nothing to place.
LEMMA EmptyStack ==
    ASSUME app' = <<>>
    PROVE  StackTypes' /\ StackInv'
  <1>1. Len(app') = 0 /\ Places' = {}
    BY DEF Places
  <1>2. StackTypes'
    BY <1>1 DEF StackTypes
  <1>3. DeletePlace' /\ JoinPlace' /\ ResetPlace' /\ AwaitPlace' /\ LocalPlace' /\ PostPlace'
    BY <1>1 DEF DeletePlace, JoinPlace, ResetPlace, AwaitPlace, LocalPlace, PostPlace
  <1>4. PutPlace' /\ ReadyPlace' /\ RemotePlace' /\ AbandonPlace' /\ AliveOnStack'
    BY <1>1 DEF PutPlace, ReadyPlace, RemotePlace, AbandonPlace, AliveOnStack
  <1> QED BY <1>2, <1>3, <1>4 DEF StackInv

\* An exception empties the stack; the instructions that throw have no reset behind them.
LEMMA TameThrow ==
    ASSUME ClientInv, Tame, NEW k \in Clients, NEW l \in Throwing, Top(l, k), Throw
    PROVE  StackTypes' /\ StackInv' /\ Kept
  <1> USE DEF ClientInv
  <1>1. StackTypes' /\ StackInv'
    BY EmptyStack DEF Throw
  <1>2. ASSUME NEW c \in Clients PROVE ~Top("postConnect", c) /\ ~Pending("reset", c)
    <2>1. /\ app[1] = <<l, k>>
          /\ l \notin {"postConnect", "reset", "setDisconnecting", "stopSession", "join", "delete"}
      BY DEF Top, Throwing, Puts
    <2>2. ~Top("postConnect", c)
      BY <2>1 DEF Top
    <2>3. ~Pending("reset", c)
      BY <2>1 DEF Pending, StackInv, ResetPlace
    <2> QED BY <2>2, <2>3
  <1> QED BY <1>1, <1>2 DEF Kept

\* A tame step of another thread keeps the places.
LEMMA TameStay ==
    ASSUME ClientInv, Tame, app' = app, \A c \in Clients : mState'[c] = "CONNECTED" => mState[c] = "CONNECTED"
    PROVE  StackTypes' /\ StackInv' /\ Kept
  <1> USE DEF ClientInv
  <1>1. Places' = Places /\ Len(app') = Len(app)
    BY DEF Places
  <1>2. StackTypes'
    BY DEF StackTypes
  <1>3. \A c \in Clients : (Quiet(c) => Quiet(c)') /\ (Stopped(c) => Stopped(c)') /\ (Joined(c) => Joined(c)')
    BY TameQuiet
  <1>4. DeletePlace' /\ AwaitPlace' /\ LocalPlace' /\ AbandonPlace'
    BY <1>1 DEF StackInv, DeletePlace, AwaitPlace, LocalPlace, AbandonPlace
  <1>5. JoinPlace'
    BY <1>1 DEF StackInv, JoinPlace, Tame
  <1>6. ResetPlace'
    BY <1>1, <1>3 DEF StackInv, ResetPlace
  <1>7. PostPlace'
    BY <1>1 DEF StackInv, PostPlace, Tame
  <1>8. PutPlace'
    BY <1>1 DEF StackInv, PutPlace
  <1>9. ReadyPlace'
    <2> SUFFICES ASSUME NEW c \in Clients, NEW i \in Places, app[i] = <<"ready", c>>
                 PROVE  (/\ i = Len(app)
                         /\ \/ app[1] = <<"awaitConnect", c>>
                            \/ \E j \in Places, p \in Puts : j < i /\ app[j] = <<p, c>>
                            \/ Joined(c) /\ i = 4 /\ app[1] \in {<<"postConnect", c>>, <<"sendReady", c>>}
                                 /\ app[2] = <<"isLocal", c>> /\ app[3] = <<"sendGo", c>>
                            \/ Joined(c) /\ i = 3 /\ app[1] = <<"isLocal", c>> /\ app[2] = <<"sendGo", c>>
                            \/ Joined(c) /\ i = 2 /\ app[1] = <<"sendGo", c>> /\ mIsLocal[c]
                            \/ Joined(c) /\ i = 1 /\ mIsLocal[c])'
      BY <1>1 DEF ReadyPlace
    <2>1. /\ i = Len(app)
          /\ \/ app[1] = <<"awaitConnect", c>>
             \/ \E j \in Places, p \in Puts : j < i /\ app[j] = <<p, c>>
             \/ Joined(c) /\ i = 4 /\ app[1] \in {<<"postConnect", c>>, <<"sendReady", c>>}
                  /\ app[2] = <<"isLocal", c>> /\ app[3] = <<"sendGo", c>>
             \/ Joined(c) /\ i = 3 /\ app[1] = <<"isLocal", c>> /\ app[2] = <<"sendGo", c>>
             \/ Joined(c) /\ i = 2 /\ app[1] = <<"sendGo", c>> /\ mIsLocal[c]
             \/ Joined(c) /\ i = 1 /\ mIsLocal[c]
      BY DEF StackInv, ReadyPlace
    <2>2. mIsLocal'[c] = mIsLocal[c]
      BY DEF Tame
    <2> QED BY <1>1, <1>3, <2>1, <2>2
  <1>10. RemotePlace'
    BY <1>1 DEF StackInv, RemotePlace, Tame
  <1>11. AliveOnStack'
    BY <1>1 DEF StackInv, AliveOnStack, Tame
  <1>12. Kept
    BY <1>1 DEF Kept, Top, Pending
  <1> QED BY <1>2, <1>4, <1>5, <1>6, <1>7, <1>8, <1>9, <1>10, <1>11, <1>12 DEF StackInv

------------------------------------------------------------------------------
\* A session record stays one when a field is assigned.
LEMMA FieldKept ==
    ASSUME NEW r \in Session
    PROVE  /\ \A p \in {"none", "running", "terminating", "dead"} : [r EXCEPT !.proc = p] \in Session
           /\ \A p \in {"idle", "status", "set", "done"} : [r EXCEPT !.term = p] \in Session
           /\ \A p \in {"none", "listening", "accepted", "timeout"} : [r EXCEPT !.connect = p] \in Session
           /\ \A p \in BOOLEAN : [r EXCEPT !.callback = p] \in Session
           /\ \A p \in BOOLEAN : [r EXCEPT !.returned = p] \in Session
           /\ \A p \in BOOLEAN : [r EXCEPT !.listed = p] \in Session
  <1>1. ASSUME NEW p \in {"none", "running", "terminating", "dead"} PROVE [r EXCEPT !.proc = p] \in Session
    BY DEF Session
  <1>2. ASSUME NEW p \in {"idle", "status", "set", "done"} PROVE [r EXCEPT !.term = p] \in Session
    BY DEF Session
  <1>3. ASSUME NEW p \in {"none", "listening", "accepted", "timeout"} PROVE [r EXCEPT !.connect = p] \in Session
    BY DEF Session
  <1>4. ASSUME NEW p \in BOOLEAN PROVE [r EXCEPT !.callback = p] \in Session
    BY DEF Session
  <1>5. ASSUME NEW p \in BOOLEAN PROVE [r EXCEPT !.returned = p] \in Session
    BY DEF Session
  <1>6. ASSUME NEW p \in BOOLEAN PROVE [r EXCEPT !.listed = p] \in Session
    BY DEF Session
  <1> QED BY <1>1, <1>2, <1>3, <1>4, <1>5, <1>6

\* FieldKept for the table of the sessions.
LEMMA SessionKept ==
    ASSUME DataTypes, NEW s \in SessionIds
    PROVE  /\ \A p \in {"none", "running", "terminating", "dead"} :
                 [sess EXCEPT ![s].proc = p] \in [SessionIds -> Session]
           /\ \A p \in {"idle", "status", "set", "done"} :
                 [sess EXCEPT ![s].term = p] \in [SessionIds -> Session]
           /\ \A p \in {"none", "listening", "accepted", "timeout"} :
                 [sess EXCEPT ![s].connect = p] \in [SessionIds -> Session]
           /\ [sess EXCEPT ![s].callback = FALSE] \in [SessionIds -> Session]
           /\ [sess EXCEPT ![s].returned = TRUE] \in [SessionIds -> Session]
           /\ [sess EXCEPT ![s].listed = TRUE, ![s].connect = "none"] \in [SessionIds -> Session]
  <1>0. sess \in [SessionIds -> Session] /\ sess[s] \in Session
    BY DEF DataTypes
  <1>1. ASSUME NEW p \in {"none", "running", "terminating", "dead"}
        PROVE  [sess EXCEPT ![s].proc = p] \in [SessionIds -> Session]
    <2>1. [sess[s] EXCEPT !.proc = p] \in Session
      BY <1>0, FieldKept
    <2> QED BY <1>0, <2>1
  <1>2. ASSUME NEW p \in {"idle", "status", "set", "done"}
        PROVE  [sess EXCEPT ![s].term = p] \in [SessionIds -> Session]
    <2>1. [sess[s] EXCEPT !.term = p] \in Session
      BY <1>0, FieldKept
    <2> QED BY <1>0, <2>1
  <1>3. ASSUME NEW p \in {"none", "listening", "accepted", "timeout"}
        PROVE  [sess EXCEPT ![s].connect = p] \in [SessionIds -> Session]
    <2>1. [sess[s] EXCEPT !.connect = p] \in Session
      BY <1>0, FieldKept
    <2> QED BY <1>0, <2>1
  <1>4. [sess EXCEPT ![s].callback = FALSE] \in [SessionIds -> Session]
    <2>1. [sess[s] EXCEPT !.callback = FALSE] \in Session
      BY <1>0, FieldKept
    <2> QED BY <1>0, <2>1
  <1>5. [sess EXCEPT ![s].returned = TRUE] \in [SessionIds -> Session]
    <2>1. [sess[s] EXCEPT !.returned = TRUE] \in Session
      BY <1>0, FieldKept
    <2> QED BY <1>0, <2>1
  <1>6. [sess EXCEPT ![s].listed = TRUE, ![s].connect = "none"] \in [SessionIds -> Session]
    <2> DEFINE r == [sess[s] EXCEPT !.listed = TRUE]
    <2>1. r \in Session
      BY <1>0, FieldKept
    <2>2. [r EXCEPT !.connect = "none"] \in Session
      BY <2>1, FieldKept
    <2>3. [sess EXCEPT ![s].listed = TRUE, ![s].connect = "none"] = [sess EXCEPT ![s] = [r EXCEPT !.connect = "none"]]
      BY <1>0
    <2> QED BY <1>0, <2>2, <2>3
  <1> QED BY <1>1, <1>2, <1>3, <1>4, <1>5, <1>6

\* What spawnProcess records of a new session.
LEMMA Spawned ==
    ASSUME NEW k \in Clients
    PROVE  /\ SpawnProcess(k) \in Session /\ SpawnProcess(k).owner = k
           /\ SpawnProcess(k).returned = FALSE /\ SpawnProcess(k).listed = FALSE
  <1>1. NoSession \in Session
    BY DEF NoSession, Session
  <1>2. SpawnProcess(k) \in Session
    BY <1>1 DEF SpawnProcess, Session
  <1>3. SpawnProcess(k).owner = k /\ SpawnProcess(k).returned = FALSE /\ SpawnProcess(k).listed = FALSE
    BY DEF SpawnProcess, NoSession
  <1> QED BY <1>2, <1>3

\* Every step keeps the types.
LEMMA TypesKept ==
    ASSUME ClientTypeOK, DataTypes, [Next]_vars
    PROVE  ClientTypeOK' /\ DataTypes'
  <1> USE ClientAssumption DEF SessionIds, Set
  <1>1. CASE UNCHANGED vars
    BY <1>1 DEF ClientTypeOK, Live, DataTypes, Session, clientVars, vars, clientVars, connVars
  <1>2. CASE Call
    BY <1>2 DEF ClientTypeOK, Live, DataTypes, Session, Call, vars, clientVars, connVars
  <1>3. CASE RemoteSend
    BY <1>3 DEF ClientTypeOK, Live, DataTypes, Session, RemoteSend, Connections, vars, clientVars, connVars
  <1>4. ASSUME NEW k \in Clients, ShutdownSession(k) PROVE ClientTypeOK' /\ DataTypes'
    BY <1>4 DEF ClientTypeOK, Live, DataTypes, Session, ShutdownSession, vars, clientVars, connVars
  <1>5. ASSUME NEW k \in Clients, SendIfReady(k) PROVE ClientTypeOK' /\ DataTypes'
    BY <1>5 DEF ClientTypeOK, Live, DataTypes, Session, SendIfReady, vars, clientVars, connVars
  <1>6. ASSUME NEW k \in Clients, Disconnect(k) PROVE ClientTypeOK' /\ DataTypes'
    BY <1>6 DEF ClientTypeOK, Live, DataTypes, Session, Disconnect, SetState, vars, clientVars, connVars
  <1>7. ASSUME NEW k \in Clients, SetDisconnecting(k) PROVE ClientTypeOK' /\ DataTypes'
    BY <1>7 DEF ClientTypeOK, Live, DataTypes, Session, SetDisconnecting, SetState, vars, clientVars, connVars
  <1>8. ASSUME NEW k \in Clients, ShutdownConnection(k) PROVE ClientTypeOK' /\ DataTypes'
    <2>1. ClientTypeOK'
      <3>1. mState' \in [Clients -> {"DISCONNECTED", "CONNECTING", "CONNECTED", "DISCONNECTING"}]
        <4>1. mState \in [Clients -> {"DISCONNECTED", "CONNECTING", "CONNECTED", "DISCONNECTING"}]
          BY DEF ClientTypeOK
        <4> QED BY <1>8, <4>1 DEF ShutdownConnection
      <3>2. mRun' \in [Clients -> BOOLEAN]
        <4>1. mRun \in [Clients -> BOOLEAN]
          BY DEF ClientTypeOK
        <4> QED BY <1>8, <4>1 DEF ShutdownConnection
      <3>3. conn' \in [Clients -> {"none", "open", "lost", "shut"}]
        <4>1. conn \in [Clients -> {"none", "open", "lost", "shut"}]
          BY DEF ClientTypeOK
        <4> QED BY <1>8, <4>1 DEF ShutdownConnection, ClientTypeOK
      <3>4. UNCHANGED <<calls, sent, mSendAsync, mConnectionError, mEngineReady, mIsLocal, endpoint, asked,
                        greeted, mSessionId, recv, send>>
        BY <1>8 DEF ShutdownConnection, vars, clientVars, connVars
      <3> QED BY <3>1, <3>2, <3>3, <3>4 DEF ClientTypeOK
    <2>2. DataTypes'
      BY <1>8, SessionKept DEF DataTypes, ClientTypeOK, ShutdownConnection, vars, clientVars, connVars
    <2> QED BY <2>1, <2>2
  <1>9. ASSUME NEW k \in Clients, DeleteEndpoint(k) PROVE ClientTypeOK' /\ DataTypes'
    <2>1. ClientTypeOK'
      <3>1. endpoint' \in [Clients -> BOOLEAN]
        <4>1. endpoint \in [Clients -> BOOLEAN]
          BY DEF ClientTypeOK
        <4> QED BY <1>9, <4>1 DEF DeleteEndpoint
      <3>2. UNCHANGED <<calls, sent, mState, mSendAsync, mConnectionError, mEngineReady, mRun, mIsLocal, asked,
                        greeted, mSessionId, conn, recv, send>>
        BY <1>9 DEF DeleteEndpoint, vars, clientVars, connVars
      <3> QED BY <3>1, <3>2 DEF ClientTypeOK
    <2>2. DataTypes'
      BY <1>9, SessionKept DEF DataTypes, ClientTypeOK, DeleteEndpoint, vars, clientVars, connVars
    <2> QED BY <2>1, <2>2
  <1>10. ASSUME NEW k \in Clients, Join(k) PROVE ClientTypeOK' /\ DataTypes'
    BY <1>10 DEF ClientTypeOK, Live, DataTypes, Session, Join, vars, clientVars, connVars
  <1>11. ASSUME NEW k \in Clients, Reset(k) PROVE ClientTypeOK' /\ DataTypes'
    <2>1. ClientTypeOK'
      <3>1. conn' \in [Clients -> {"none", "open", "lost", "shut"}]
        <4>1. conn \in [Clients -> {"none", "open", "lost", "shut"}]
          BY DEF ClientTypeOK
        <4> QED BY <1>11, <4>1 DEF Reset, ClientTypeOK
      <3>2. mConnectionError' \in [Clients -> BOOLEAN]
        <4>1. mConnectionError \in [Clients -> BOOLEAN]
          BY DEF ClientTypeOK
        <4> QED BY <1>11, <4>1 DEF Reset
      <3>3. mState' \in [Clients -> {"DISCONNECTED", "CONNECTING", "CONNECTED", "DISCONNECTING"}]
        <4>1. mState \in [Clients -> {"DISCONNECTED", "CONNECTING", "CONNECTED", "DISCONNECTING"}]
          BY DEF ClientTypeOK
        <4> QED BY <1>11, <4>1 DEF Reset
      <3>4. asked' \in [Clients -> BOOLEAN]
        <4>1. asked \in [Clients -> BOOLEAN]
          BY DEF ClientTypeOK
        <4> QED BY <1>11, <4>1 DEF Reset
      <3>5. greeted' \in [Clients -> BOOLEAN]
        <4>1. greeted \in [Clients -> BOOLEAN]
          BY DEF ClientTypeOK
        <4> QED BY <1>11, <4>1 DEF Reset
      <3>6. UNCHANGED <<calls, sent, mSendAsync, mEngineReady, mRun, mIsLocal, endpoint, mSessionId, recv,
                        send>>
        BY <1>11 DEF Reset, vars, clientVars, connVars
      <3> QED BY <3>1, <3>2, <3>3, <3>4, <3>5, <3>6 DEF ClientTypeOK
    <2>2. DataTypes'
      BY <1>11, SessionKept DEF DataTypes, ClientTypeOK, Reset, vars, clientVars, connVars
    <2> QED BY <2>1, <2>2
  <1>12. ASSUME NEW k \in Clients, StopSession(k) PROVE ClientTypeOK' /\ DataTypes'
    <2>1. ClientTypeOK'
      BY <1>12 DEF ClientTypeOK, Live, StopSession, vars, clientVars, connVars
    <2>2. DataTypes'
      BY <1>12, SessionKept DEF DataTypes, ClientTypeOK, StopSession, vars, clientVars, connVars
    <2> QED BY <2>1, <2>2
  <1>13. ASSUME NEW k \in Clients, DeleteComponent(k) PROVE ClientTypeOK' /\ DataTypes'
    BY <1>13 DEF ClientTypeOK, Live, DataTypes, Session, DeleteComponent, vars, clientVars, connVars
  <1>14. ASSUME NEW k \in Clients, Abandon(k) PROVE ClientTypeOK' /\ DataTypes'
    <2>1. ClientTypeOK'
      BY <1>14 DEF ClientTypeOK, Live, Abandon, vars, clientVars, connVars
    <2>2. DataTypes'
      BY <1>14, SessionKept DEF DataTypes, ClientTypeOK, Abandon, vars, clientVars, connVars
    <2> QED BY <2>1, <2>2
  <1>15. ASSUME NEW k \in Clients, MakeRequest(k) PROVE ClientTypeOK' /\ DataTypes'
    BY <1>15 DEF ClientTypeOK, Live, DataTypes, Session, MakeRequest, SetState, vars, clientVars, connVars
  <1>16. ASSUME NEW k \in Clients, Connected(k) PROVE ClientTypeOK' /\ DataTypes'
    BY <1>16 DEF ClientTypeOK, Live, DataTypes, Session, Connected, SetState, vars, clientVars, connVars
  <1>17. ASSUME NEW k \in Clients, Submit(k) PROVE ClientTypeOK' /\ DataTypes'
    BY <1>17 DEF ClientTypeOK, Live, DataTypes, Session, Submit, vars, clientVars, connVars
  <1>18. ASSUME NEW k \in Clients, ConnectSession(k) PROVE ClientTypeOK' /\ DataTypes'
    <2>1. ClientTypeOK'
      <3>1. mState' \in [Clients -> {"DISCONNECTED", "CONNECTING", "CONNECTED", "DISCONNECTING"}]
        <4>1. mState \in [Clients -> {"DISCONNECTED", "CONNECTING", "CONNECTED", "DISCONNECTING"}]
          BY DEF ClientTypeOK
        <4> QED BY <1>18, <4>1 DEF ConnectSession, ConnectTCP
      <3>2. mSessionId' \in [Clients -> 0 .. MaxSessions]
        <4>1. mSessionId \in [Clients -> 0 .. MaxSessions]
          BY DEF ClientTypeOK
        <4> QED BY <1>18, <4>1 DEF ConnectSession, ClientTypeOK, ConnectTCP
      <3>3. conn' \in [Clients -> {"none", "open", "lost", "shut"}]
        <4>1. conn \in [Clients -> {"none", "open", "lost", "shut"}]
          BY DEF ClientTypeOK
        <4> QED BY <1>18, <4>1 DEF ConnectSession, ClientTypeOK, ConnectTCP
      <3>4. UNCHANGED <<calls, sent, mSendAsync, mConnectionError, mEngineReady, mRun, mIsLocal, endpoint,
                        asked, greeted, recv, send>>
        BY <1>18 DEF ConnectSession, ConnectTCP, vars, clientVars, connVars
      <3> QED BY <3>1, <3>2, <3>3, <3>4 DEF ClientTypeOK
    <2>2. DataTypes'
      BY <1>18, SessionKept DEF DataTypes, ClientTypeOK, ConnectSession, ConnectTCP, vars, clientVars, connVars
    <2> QED BY <2>1, <2>2
  <1>19. ASSUME NEW k \in Clients, CreateLocal(k) PROVE ClientTypeOK' /\ DataTypes'
    <2>1. ClientTypeOK'
      BY <1>19 DEF ClientTypeOK, Live, CreateLocal, SpawnProcess, NoSession, vars, clientVars, connVars
    <2>2. DataTypes'
      <3>1. alive' = alive
        BY <1>19 DEF CreateLocal
      <3>2. sess' \in [SessionIds -> Session]
        <4>1. SpawnProcess(k) \in Session
          BY Spawned
        <4>2. sess' = sess \/ \E s \in SessionIds : sess' = [sess EXCEPT ![s] = SpawnProcess(k)]
          BY <1>19 DEF CreateLocal
        <4> QED BY <4>1, <4>2 DEF DataTypes
      <3> QED BY <3>1, <3>2 DEF DataTypes
    <2> QED BY <2>1, <2>2
  <1>20. ASSUME NEW k \in Clients, AwaitConnect(k) PROVE ClientTypeOK' /\ DataTypes'
    <2>1. ClientTypeOK'
      <3>1. mSessionId' \in [Clients -> 0 .. MaxSessions]
        <4>1. mSessionId \in [Clients -> 0 .. MaxSessions]
          BY DEF ClientTypeOK
        <4>2. mSessionId' = mSessionId \/ \E s \in SessionIds : mSessionId' = [mSessionId EXCEPT ![k] = s]
          BY <1>20 DEF AwaitConnect
        <4> QED BY <4>1, <4>2
      <3>2. conn' \in [Clients -> {"none", "open", "lost", "shut"}]
        <4>1. conn \in [Clients -> {"none", "open", "lost", "shut"}]
          BY DEF ClientTypeOK
        <4> QED BY <1>20, <4>1 DEF AwaitConnect, ClientTypeOK
      <3>3. UNCHANGED <<calls, sent, mState, mSendAsync, mConnectionError, mEngineReady, mRun, mIsLocal,
                        endpoint, asked, greeted, recv, send>>
        BY <1>20 DEF AwaitConnect, vars, clientVars, connVars
      <3> QED BY <3>1, <3>2, <3>3 DEF ClientTypeOK
    <2>2. DataTypes'
      <3>1. alive' = alive
        BY <1>20 DEF AwaitConnect
      <3>2. sess' \in [SessionIds -> Session]
        <4>1. PICK s \in SessionIds : sess' \in {[sess EXCEPT ![s].connect = "none"],
                                              [sess EXCEPT ![s].listed = TRUE, ![s].connect = "none"]}
          BY <1>20 DEF AwaitConnect
        <4>2. /\ [sess EXCEPT ![s].connect = "none"] \in [SessionIds -> Session]
              /\ [sess EXCEPT ![s].listed = TRUE, ![s].connect = "none"] \in [SessionIds -> Session]
          BY SessionKept
        <4> QED BY <4>1, <4>2
      <3> QED BY <3>1, <3>2 DEF DataTypes
    <2> QED BY <2>1, <2>2
  <1>21. ASSUME NEW k \in Clients, PostConnect(k) PROVE ClientTypeOK' /\ DataTypes'
    <2>1. ClientTypeOK'
      <3>1. mState' \in [Clients -> {"DISCONNECTED", "CONNECTING", "CONNECTED", "DISCONNECTING"}]
        <4>1. mState \in [Clients -> {"DISCONNECTED", "CONNECTING", "CONNECTED", "DISCONNECTING"}]
          BY DEF ClientTypeOK
        <4> QED BY <1>21, <4>1 DEF PostConnect
      <3>2. mRun' \in [Clients -> BOOLEAN]
        <4>1. mRun \in [Clients -> BOOLEAN]
          BY DEF ClientTypeOK
        <4> QED BY <1>21, <4>1 DEF PostConnect
      <3>3. mEngineReady' \in [Clients -> BOOLEAN]
        <4>1. mEngineReady \in [Clients -> BOOLEAN]
          BY DEF ClientTypeOK
        <4> QED BY <1>21, <4>1 DEF PostConnect
      <3>4. endpoint' \in [Clients -> BOOLEAN]
        <4>1. endpoint \in [Clients -> BOOLEAN]
          BY DEF ClientTypeOK
        <4> QED BY <1>21, <4>1 DEF PostConnect
      <3>5. recv' \in [Clients -> Live \cup {"none", "done"}]
        <4>1. recv \in [Clients -> Live \cup {"none", "done"}]
          BY DEF ClientTypeOK
        <4> QED BY <1>21, <4>1 DEF PostConnect, Live
      <3>6. send' \in [Clients -> {"none", "loop", "pop", "done"}]
        <4>1. send \in [Clients -> {"none", "loop", "pop", "done"}] /\ mSendAsync \in [Clients -> BOOLEAN]
          BY DEF ClientTypeOK
        <4> QED BY <1>21, <4>1 DEF PostConnect
      <3>7. UNCHANGED <<calls, sent, mSendAsync, mConnectionError, mIsLocal, asked, greeted, mSessionId, conn>>
        BY <1>21 DEF PostConnect, vars, clientVars, connVars
      <3>8. \A c \in Clients : send'[c] # "none" => mSendAsync'[c] /\ recv'[c] # "none"
        BY <1>21 DEF PostConnect, ClientTypeOK
      <3> QED BY <3>1, <3>2, <3>3, <3>4, <3>5, <3>6, <3>7, <3>8 DEF ClientTypeOK
    <2>2. DataTypes'
      BY <1>21, SessionKept DEF DataTypes, ClientTypeOK, PostConnect, vars, clientVars, connVars
    <2> QED BY <2>1, <2>2
  <1>22. ASSUME NEW k \in Clients, SetIsLocal(k) PROVE ClientTypeOK' /\ DataTypes'
    <2>1. ClientTypeOK'
      <3>1. mIsLocal' \in [Clients -> BOOLEAN]
        <4>1. mIsLocal \in [Clients -> BOOLEAN]
          BY DEF ClientTypeOK
        <4> QED BY <1>22, <4>1 DEF SetIsLocal
      <3>2. UNCHANGED <<calls, sent, mState, mSendAsync, mConnectionError, mEngineReady, mRun, endpoint, asked,
                        greeted, mSessionId, conn, recv, send>>
        BY <1>22 DEF SetIsLocal, vars, clientVars, connVars
      <3> QED BY <3>1, <3>2 DEF ClientTypeOK
    <2>2. DataTypes'
      BY <1>22, SessionKept DEF DataTypes, ClientTypeOK, SetIsLocal, vars, clientVars, connVars
    <2> QED BY <2>1, <2>2
  <1>23. ASSUME NEW k \in Clients, Ready(k) PROVE ClientTypeOK' /\ DataTypes'
    <2>1. ClientTypeOK'
      <3>1. mEngineReady' \in [Clients -> BOOLEAN]
        <4>1. mEngineReady \in [Clients -> BOOLEAN]
          BY DEF ClientTypeOK
        <4> QED BY <1>23, <4>1 DEF Ready
      <3>2. UNCHANGED <<calls, sent, mState, mSendAsync, mConnectionError, mRun, mIsLocal, endpoint, asked,
                        greeted, mSessionId, conn, recv, send>>
        BY <1>23 DEF Ready, vars, clientVars, connVars
      <3> QED BY <3>1, <3>2 DEF ClientTypeOK
    <2>2. DataTypes'
      BY <1>23, SessionKept DEF DataTypes, ClientTypeOK, Ready, vars, clientVars, connVars
    <2> QED BY <2>1, <2>2
  <1>24. ASSUME NEW k \in Clients, Send(k) PROVE ClientTypeOK' /\ DataTypes'
    BY <1>24 DEF ClientTypeOK, Live, DataTypes, Session, Send, vars, clientVars, connVars
  <1>25. ASSUME NEW k \in Clients, PutMessage(k) PROVE ClientTypeOK' /\ DataTypes'
    <2>1. ClientTypeOK'
      <3>1. asked' \in [Clients -> BOOLEAN]
        <4>1. asked \in [Clients -> BOOLEAN]
          BY DEF ClientTypeOK
        <4> QED BY <1>25, <4>1 DEF PutMessage
      <3>2. UNCHANGED <<calls, sent, mState, mSendAsync, mConnectionError, mEngineReady, mRun, mIsLocal,
                        endpoint, greeted, mSessionId, conn, recv, send>>
        BY <1>25 DEF PutMessage, vars, clientVars, connVars
      <3> QED BY <3>1, <3>2 DEF ClientTypeOK
    <2>2. DataTypes'
      BY <1>25, SessionKept DEF DataTypes, ClientTypeOK, PutMessage, vars, clientVars, connVars
    <2> QED BY <2>1, <2>2
  <1>26. ASSUME NEW k \in Clients, RecvLoop(k) PROVE ClientTypeOK' /\ DataTypes'
    BY <1>26 DEF ClientTypeOK, Live, DataTypes, Session, RecvLoop, vars, clientVars, connVars
  <1>27. ASSUME NEW k \in Clients, Deliver(k) PROVE ClientTypeOK' /\ DataTypes'
    <2>1. ClientTypeOK'
      <3>1. mEngineReady' \in [Clients -> BOOLEAN]
        <4>1. mEngineReady \in [Clients -> BOOLEAN]
          BY DEF ClientTypeOK
        <4> QED BY <1>27, <4>1 DEF Deliver
      <3>2. greeted' \in [Clients -> BOOLEAN]
        <4>1. greeted \in [Clients -> BOOLEAN]
          BY DEF ClientTypeOK
        <4> QED BY <1>27, <4>1 DEF Deliver
      <3>3. recv' \in [Clients -> Live \cup {"none", "done"}]
        <4>1. recv \in [Clients -> Live \cup {"none", "done"}]
          BY DEF ClientTypeOK
        <4> QED BY <1>27, <4>1 DEF Deliver, Live
      <3>4. UNCHANGED <<calls, sent, mState, mSendAsync, mConnectionError, mRun, mIsLocal, endpoint, asked,
                        mSessionId, conn, send>>
        BY <1>27 DEF Deliver, vars, clientVars, connVars
      <3>5. \A c \in Clients : send'[c] # "none" => mSendAsync'[c] /\ recv'[c] # "none"
        BY <1>27 DEF Deliver, ClientTypeOK, clientVars, Live
      <3> QED BY <3>1, <3>2, <3>3, <3>4, <3>5 DEF ClientTypeOK
    <2>2. DataTypes'
      BY <1>27, SessionKept DEF DataTypes, ClientTypeOK, Deliver, vars, clientVars, connVars
    <2> QED BY <2>1, <2>2
  <1>28. ASSUME NEW k \in Clients, GetThrows(k) PROVE ClientTypeOK' /\ DataTypes'
    <2>1. ClientTypeOK'
      <3>1. recv' \in [Clients -> Live \cup {"none", "done"}]
        <4>1. recv \in [Clients -> Live \cup {"none", "done"}]
          BY DEF ClientTypeOK
        <4> QED BY <1>28, <4>1 DEF GetThrows, Live
      <3>2. UNCHANGED <<calls, sent, mState, mSendAsync, mConnectionError, mEngineReady, mRun, mIsLocal,
                        endpoint, asked, greeted, mSessionId, conn, send>>
        BY <1>28 DEF GetThrows, vars, clientVars, connVars
      <3>3. \A c \in Clients : send'[c] # "none" => mSendAsync'[c] /\ recv'[c] # "none"
        BY <1>28 DEF GetThrows, ClientTypeOK, clientVars, Live
      <3> QED BY <3>1, <3>2, <3>3 DEF ClientTypeOK
    <2>2. DataTypes'
      BY <1>28, SessionKept DEF DataTypes, ClientTypeOK, GetThrows, vars, clientVars, connVars
    <2> QED BY <2>1, <2>2
  <1>29. ASSUME NEW k \in Clients, TestExpected(k) PROVE ClientTypeOK' /\ DataTypes'
    BY <1>29 DEF ClientTypeOK, Live, DataTypes, Session, TestExpected, vars, clientVars, connVars
  <1>30. ASSUME NEW k \in Clients, ExpectedLoss(k) PROVE ClientTypeOK' /\ DataTypes'
    BY <1>30 DEF ClientTypeOK, Live, DataTypes, Session, ExpectedLoss, vars, clientVars, connVars
  <1>31. ASSUME NEW k \in Clients, ReportLoss(k) PROVE ClientTypeOK' /\ DataTypes'
    <2>1. ClientTypeOK'
      <3>1. mConnectionError' \in [Clients -> BOOLEAN]
        <4>1. mConnectionError \in [Clients -> BOOLEAN]
          BY DEF ClientTypeOK
        <4> QED BY <1>31, <4>1 DEF ReportLoss
      <3>2. recv' \in [Clients -> Live \cup {"none", "done"}]
        <4>1. recv \in [Clients -> Live \cup {"none", "done"}]
          BY DEF ClientTypeOK
        <4> QED BY <1>31, <4>1 DEF ReportLoss, Live
      <3>3. UNCHANGED <<calls, sent, mState, mSendAsync, mEngineReady, mRun, mIsLocal, endpoint, asked,
                        greeted, mSessionId, conn, send>>
        BY <1>31 DEF ReportLoss, vars, clientVars, connVars
      <3>4. \A c \in Clients : send'[c] # "none" => mSendAsync'[c] /\ recv'[c] # "none"
        BY <1>31 DEF ReportLoss, ClientTypeOK, clientVars, Live
      <3> QED BY <3>1, <3>2, <3>3, <3>4 DEF ClientTypeOK
    <2>2. DataTypes'
      BY <1>31, SessionKept DEF DataTypes, ClientTypeOK, ReportLoss, vars, clientVars, connVars
    <2> QED BY <2>1, <2>2
  <1>32. ASSUME NEW k \in Clients, SendLoop(k) PROVE ClientTypeOK' /\ DataTypes'
    BY <1>32 DEF ClientTypeOK, Live, DataTypes, Session, SendLoop, vars, clientVars, connVars
  <1>33. ASSUME NEW k \in Clients, SendPop(k) PROVE ClientTypeOK' /\ DataTypes'
    <2>1. ClientTypeOK'
      <3>1. asked' \in [Clients -> BOOLEAN]
        <4>1. asked \in [Clients -> BOOLEAN]
          BY DEF ClientTypeOK
        <4> QED BY <1>33, <4>1 DEF SendPop
      <3>2. send' \in [Clients -> {"none", "loop", "pop", "done"}]
        <4>1. send \in [Clients -> {"none", "loop", "pop", "done"}] /\ mSendAsync \in [Clients -> BOOLEAN]
          BY DEF ClientTypeOK
        <4> QED BY <1>33, <4>1 DEF SendPop
      <3>3. UNCHANGED <<calls, sent, mState, mSendAsync, mConnectionError, mEngineReady, mRun, mIsLocal,
                        endpoint, greeted, mSessionId, conn, recv>>
        BY <1>33 DEF SendPop, vars, clientVars, connVars
      <3>4. \A c \in Clients : send'[c] # "none" => mSendAsync'[c] /\ recv'[c] # "none"
        BY <1>33 DEF SendPop, ClientTypeOK, clientVars, Live
      <3> QED BY <3>1, <3>2, <3>3, <3>4 DEF ClientTypeOK
    <2>2. DataTypes'
      BY <1>33, SessionKept DEF DataTypes, ClientTypeOK, SendPop, vars, clientVars, connVars
    <2> QED BY <2>1, <2>2
  <1>34. ASSUME NEW k \in Clients, RemoteClose(k) PROVE ClientTypeOK' /\ DataTypes'
    BY <1>34 DEF ClientTypeOK, Live, DataTypes, Session, RemoteClose, Lose, Connections, vars, clientVars,
       connVars
  <1>35. ASSUME NEW s \in SessionIds, ConnectProc(s) PROVE ClientTypeOK' /\ DataTypes'
    <2>1. ClientTypeOK'
      BY <1>35 DEF ClientTypeOK, Live, ConnectProc, vars, clientVars, connVars
    <2>2. DataTypes'
      <3>1. alive' = alive
        BY <1>35 DEF ConnectProc
      <3>2. sess' \in [SessionIds -> Session]
        <4>1. PICK r \in {"accepted", "timeout"} : sess' = [sess EXCEPT ![s].connect = r]
          BY <1>35 DEF ConnectProc
        <4>2. [sess EXCEPT ![s].connect = r] \in [SessionIds -> Session]
          BY SessionKept
        <4> QED BY <4>1, <4>2
      <3> QED BY <3>1, <3>2 DEF DataTypes
    <2> QED BY <2>1, <2>2
  <1>36. ASSUME NEW s \in SessionIds, Exit(s) PROVE ClientTypeOK' /\ DataTypes'
    <2>1. ClientTypeOK'
      BY <1>36 DEF ClientTypeOK, Live, Exit, Lose, Connections, vars, clientVars, connVars
    <2>2. DataTypes'
      BY <1>36, SessionKept DEF DataTypes, ClientTypeOK, Exit, Lose, Connections, vars, clientVars, connVars
    <2> QED BY <2>1, <2>2
  <1>37. ASSUME NEW s \in SessionIds, OnTerminate(s) PROVE ClientTypeOK' /\ DataTypes'
    <2>1. ClientTypeOK'
      BY <1>37 DEF ClientTypeOK, Live, OnTerminate, vars, clientVars, connVars
    <2>2. DataTypes'
      BY <1>37, SessionKept DEF DataTypes, ClientTypeOK, OnTerminate, vars, clientVars, connVars
    <2> QED BY <2>1, <2>2
  <1>38. ASSUME NEW s \in SessionIds, LocalTermination(s) PROVE ClientTypeOK' /\ DataTypes'
    <2>1. ClientTypeOK'
      BY <1>38 DEF ClientTypeOK, Live, LocalTermination, vars, clientVars, connVars
    <2>2. DataTypes'
      <3>1. alive' = alive
        BY <1>38 DEF LocalTermination
      <3>2. sess' \in [SessionIds -> Session]
        <4>1. PICK r \in {"set", "done"} : sess' = [sess EXCEPT ![s].term = r]
          BY <1>38 DEF LocalTermination
        <4>2. [sess EXCEPT ![s].term = r] \in [SessionIds -> Session]
          BY SessionKept
        <4> QED BY <4>1, <4>2
      <3> QED BY <3>1, <3>2 DEF DataTypes
    <2> QED BY <2>1, <2>2
  <1> HIDE ClientAssumption DEF SessionIds, Set
  <1>39. ASSUME NEW k \in Clients, Step(k) PROVE ClientTypeOK' /\ DataTypes'
    BY <1>39, <1>4, <1>5, <1>6, <1>7, <1>8, <1>9, <1>10, <1>11, <1>12, <1>13, <1>14, <1>15, <1>16, <1>17,
       <1>18, <1>19, <1>20, <1>21, <1>22, <1>23, <1>24, <1>25, Zenon DEF Step
  <1>40. ASSUME NEW k \in Clients, Receive(k) \/ SendThread(k) PROVE ClientTypeOK' /\ DataTypes'
    BY <1>40, <1>26, <1>27, <1>28, <1>29, <1>30, <1>31, <1>32, <1>33, Zenon DEF Receive, SendThread
  <1>41. ASSUME NEW s \in SessionIds, Terminates(s) PROVE ClientTypeOK' /\ DataTypes'
    BY <1>41, <1>37, <1>38, Zenon DEF Terminates
  <1> QED BY <1>1, <1>2, <1>3, <1>39, <1>40, <1>34, <1>35, <1>36, <1>41, Zenon DEF Next

------------------------------------------------------------------------------
\* The steps that do not touch the stack of the application's thread.
StayTame == Tame /\ app' = app /\ \A c \in Clients : mState'[c] = "CONNECTED" => mState[c] = "CONNECTED"

\* A tame step of another thread keeps the invariant.
LEMMA StayKept ==
    ASSUME ClientInv, DataTypes', ClientTypeOK', StayTame
    PROVE  ClientInv'
  <1>1. StackTypes' /\ StackInv' /\ Kept
    BY TameStay DEF StayTame
  <1>2. StateInv'
    BY <1>1, TameState DEF StayTame
  <1> QED BY <1>1, <1>2 DEF ClientInv, StateInv

\* The receive and send threads, the computations, the terminations and the far ends are tame.
LEMMA BackgroundTame ==
    ASSUME ClientInv,
           \/ \E k \in Clients : Receive(k) \/ SendThread(k) \/ RemoteClose(k)
           \/ \E s \in SessionIds : ConnectProc(s) \/ Exit(s) \/ Terminates(s)
           \/ RemoteSend
    PROVE  StayTame
  <1> USE DEF ClientInv, Set
  <1>1. ASSUME NEW k \in Clients, RecvLoop(k) PROVE StayTame
    BY <1>1 DEF StayTame, Tame, ClientTypeOK, Live, RecvLoop, clientVars, connVars
  <1>2. ASSUME NEW k \in Clients, Deliver(k) PROVE StayTame
    BY <1>2 DEF StayTame, Tame, ClientTypeOK, Live, Deliver, clientVars, connVars
  <1>3. ASSUME NEW k \in Clients, GetThrows(k) PROVE StayTame
    BY <1>3 DEF StayTame, Tame, ClientTypeOK, Live, GetThrows, clientVars, connVars
  <1>4. ASSUME NEW k \in Clients, TestExpected(k) PROVE StayTame
    BY <1>4 DEF StayTame, Tame, ClientTypeOK, Live, TestExpected, clientVars, connVars
  <1>5. ASSUME NEW k \in Clients, ExpectedLoss(k) PROVE StayTame
    BY <1>5 DEF StayTame, Tame, ClientTypeOK, Live, ExpectedLoss, clientVars, connVars
  <1>6. ASSUME NEW k \in Clients, ReportLoss(k) PROVE StayTame
    BY <1>6 DEF StayTame, Tame, ClientTypeOK, Live, ReportLoss, clientVars, connVars
  <1>7. ASSUME NEW k \in Clients, SendLoop(k) PROVE StayTame
    BY <1>7 DEF StayTame, Tame, ClientTypeOK, Live, SendLoop, clientVars, connVars
  <1>8. ASSUME NEW k \in Clients, SendPop(k) PROVE StayTame
    BY <1>8 DEF StayTame, Tame, ClientTypeOK, Live, SendPop, clientVars, connVars
  <1>9. ASSUME NEW k \in Clients, RemoteClose(k) PROVE StayTame
    BY <1>9 DEF StayTame, Tame, ClientTypeOK, Live, RemoteClose, Lose, Connections, clientVars, connVars
  <1>10. ASSUME NEW s \in SessionIds, ConnectProc(s) PROVE StayTame
    BY <1>10 DEF StayTame, Tame, ClientTypeOK, DataTypes, Session, ConnectProc, clientVars, connVars
  <1>11. ASSUME NEW s \in SessionIds, Exit(s) PROVE StayTame
    BY <1>11 DEF StayTame, Tame, ClientTypeOK, DataTypes, Session, Exit, Lose, Connections, clientVars, connVars
  <1>12. ASSUME NEW s \in SessionIds, OnTerminate(s) PROVE StayTame
    <2>1. /\ sess[s].callback => sess' = [sess EXCEPT ![s].term = "status"]
          /\ ~sess[s].callback => sess' = [sess EXCEPT ![s].term = "done"]
      BY <1>12 DEF OnTerminate
    <2>2. UNCHANGED <<app, clientVars, connVars, recv, send, alive>>
      BY <1>12 DEF OnTerminate
    <2>3. CASE sess[s].callback
      BY <2>1, <2>2, <2>3 DEF StayTame, Tame, ClientTypeOK, DataTypes, Session, clientVars, connVars
    <2>4. CASE ~sess[s].callback
      BY <2>1, <2>2, <2>4 DEF StayTame, Tame, ClientTypeOK, DataTypes, Session, clientVars, connVars
    <2> QED BY <2>3, <2>4
  <1>13. ASSUME NEW s \in SessionIds, LocalTermination(s) PROVE StayTame
    <2>1. PICK v \in {"set", "done"} : sess' = [sess EXCEPT ![s].term = v] /\ sess[s].term \in {"status", "set"}
      BY <1>13 DEF LocalTermination
    <2>2. /\ \A c \in Clients : mState'[c] = "CONNECTED" => mState[c] = "CONNECTED"
          /\ UNCHANGED <<app, mSessionId, mIsLocal, mEngineReady, connVars, recv, send, alive>>
      BY <1>13 DEF LocalTermination, ClientTypeOK
    <2> QED BY <2>1, <2>2 DEF StayTame, Tame, DataTypes, Session, connVars
  <1>14. CASE RemoteSend
    BY <1>14 DEF StayTame, Tame, RemoteSend, clientVars, connVars
  <1> HIDE DEF ClientInv, Set
  <1> QED BY <1>1, <1>2, <1>3, <1>4, <1>5, <1>6, <1>7, <1>8, <1>9, <1>10, <1>11, <1>12, <1>13, <1>14,
             Zenon DEF Receive, SendThread, Terminates

------------------------------------------------------------------------------
\* The steps of the application's thread that are tame.
LEMMA PopKept ==
    ASSUME ClientInv, DataTypes', ClientTypeOK', NEW k \in Clients, NEW l \in Labels, Top(l, k), Then(<<>>, k),
           PopTame(l, k)
    PROVE  ClientInv'
  <1>1. StackTypes' /\ Popped
    BY ThenPops DEF ClientInv, Top
  <1>2. StackInv' /\ Kept
    BY <1>1, TamePop
  <1>3. StateInv'
    BY <1>2, TameState DEF PopTame
  <1> QED BY <1>1, <1>2, <1>3 DEF ClientInv, StateInv

\* The same for the steps that put instructions in the place of theirs.
LEMMA PushKept ==
    ASSUME ClientInv, DataTypes', ClientTypeOK', NEW k \in Clients, NEW l \in Labels, Top(l, k), StackTypes',
           Continues(l, k), Tame, l # "postConnect"
    PROVE  ClientInv'
  <1>2. StackInv' /\ Kept
    BY TamePush
  <1>3. StateInv'
    BY <1>2, TameState
  <1> QED BY <1>2, <1>3 DEF ClientInv, StateInv

\* The same for the steps that throw.
LEMMA ThrowKept ==
    ASSUME ClientInv, DataTypes', ClientTypeOK', NEW k \in Clients, NEW l \in Throwing, Top(l, k), Throw, Tame
    PROVE  ClientInv'
  <1>2. StackTypes' /\ StackInv' /\ Kept
    BY TameThrow
  <1>3. StateInv'
    BY <1>2, TameState
  <1> QED BY <1>2, <1>3 DEF ClientInv, StateInv

\* Client::shutdown sets DISCONNECTING last.
LEMMA SetDisconnectingKept ==
    ASSUME ClientInv, DataTypes', ClientTypeOK', NEW k \in Clients, SetDisconnecting(k)
    PROVE  ClientInv'
  <1>1. Top("setDisconnecting", k) /\ Then(<<>>, k) /\ "setDisconnecting" \in Labels
    BY DEF SetDisconnecting, SetState, At, Top, Labels
  <1>2. PopTame("setDisconnecting", k)
    BY DEF PopTame, Puts, Tame, ClientInv, ClientTypeOK, Set, SetDisconnecting, SetState, clientVars, connVars
  <1> QED BY <1>1, <1>2, PopKept

\* CreateSession reads the definition.
LEMMA MakeRequestKept ==
    ASSUME ClientInv, DataTypes', ClientTypeOK', NEW k \in Clients, MakeRequest(k)
    PROVE  ClientInv'
  <1>1. Top("makeRequest", k) /\ Then(<<>>, k) /\ "makeRequest" \in Labels
    BY DEF MakeRequest, SetState, At, Top, Labels
  <1>2. PopTame("makeRequest", k)
    BY DEF PopTame, Puts, Tame, ClientInv, ClientTypeOK, Set, MakeRequest, SetState, clientVars, connVars
  <1> QED BY <1>1, <1>2, PopKept

\* The end of connectSession.
LEMMA ConnectedKept ==
    ASSUME ClientInv, DataTypes', ClientTypeOK', NEW k \in Clients, Connected(k)
    PROVE  ClientInv'
  <1>1. Top("connected", k) /\ Then(<<>>, k) /\ "connected" \in Labels
    BY DEF Connected, SetState, At, Top, Labels
  <1>2. PopTame("connected", k)
    BY DEF PopTame, Puts, Tame, ClientInv, ClientTypeOK, Set, Connected, SetState, clientVars, connVars
  <1> QED BY <1>1, <1>2, PopKept

\* ShutdownConnection deletes the endpoint: no thread gets another one.
LEMMA DeleteEndpointKept ==
    ASSUME ClientInv, DataTypes', ClientTypeOK', NEW k \in Clients, DeleteEndpoint(k)
    PROVE  ClientInv'
  <1>1. Top("delete", k) /\ Then(<<>>, k) /\ "delete" \in Labels
    BY DEF DeleteEndpoint, At, Top, Labels
  <1>2. PopTame("delete", k)
    BY DEF PopTame, Puts, Tame, ClientInv, ClientTypeOK, Set, DeleteEndpoint, clientVars, connVars
  <1> QED BY <1>1, <1>2, PopKept

\* ~Client deletes the component.
LEMMA DeleteComponentKept ==
    ASSUME ClientInv, DataTypes', ClientTypeOK', NEW k \in Clients, DeleteComponent(k)
    PROVE  ClientInv'
  <1>1. Top("deleteComponent", k) /\ Then(<<>>, k) /\ "deleteComponent" \in Labels
    BY DEF DeleteComponent, At, Top, Labels
  <1>2. alive' = [alive EXCEPT ![k] = "noComponent"] /\ UNCHANGED <<clientVars, connVars, recv, send, sess>>
    BY DEF DeleteComponent, Set
  <1>3. \A c \in Clients : alive'[c] = "gone" => alive[c] = "gone"
    BY <1>2 DEF ClientInv, DataTypes
  <1>4. PopTame("deleteComponent", k)
    BY <1>2, <1>3 DEF PopTame, Tame, Puts, clientVars, connVars
  <1> QED BY <1>1, <1>4, PopKept

\* Client::disconnect.
LEMMA DisconnectKept ==
    ASSUME ClientInv, DataTypes', ClientTypeOK', NEW k \in Clients, Disconnect(k)
    PROVE  ClientInv'
  <1>1. Top("disconnect", k) /\ Then(<<"shutdownConnection">>, k) /\ {"disconnect", "shutdownConnection"} \subseteq Labels
    BY DEF Disconnect, SetState, At, Top, Labels
  <1>2. Tame
    BY DEF Disconnect, SetState, Tame, ClientInv, ClientTypeOK, Set, clientVars, connVars
  <1>3. StackTypes' /\ Replaced("shutdownConnection", k)
    BY <1>1, ThenReplaces DEF ClientInv, Top
  <1>4. Continues("disconnect", k)
    BY <1>3 DEF Continues
  <1> QED BY <1>1, <1>2, <1>3, <1>4, PushKept

\* Client::shutdown: a put or a stop, then DISCONNECTING.
LEMMA ShutdownSessionKept ==
    ASSUME ClientInv, DataTypes', ClientTypeOK', NEW k \in Clients, ShutdownSession(k)
    PROVE  ClientInv'
  <1>1. /\ Top("shutdown", k)
        /\ {"shutdown", "stopSession", "setDisconnecting", "sendDisconnect"} \subseteq Labels
        /\ \/ Then(<<>>, k) \/ Then(<<"stopSession", "setDisconnecting">>, k)
           \/ Then(<<"sendDisconnect", "setDisconnecting">>, k)
    BY DEF ShutdownSession, At, Top, Labels
  <1>2. PopTame("shutdown", k)
    BY DEF PopTame, Puts, ShutdownSession, Tame, ClientInv, ClientTypeOK, Set, clientVars, connVars
  <1>3. CASE Then(<<>>, k)
    BY <1>1, <1>2, <1>3, PopKept
  <1>4. ASSUME NEW l \in {"stopSession", "sendDisconnect"}, Then(<<l, "setDisconnecting">>, k) PROVE ClientInv'
    <2>1. StackTypes' /\ Pushed2(l, "setDisconnecting", k)
      BY <1>1, <1>4, ThenPushes2 DEF ClientInv, Top
    <2>2. Continues("shutdown", k)
      BY <2>1 DEF Continues
    <2> QED BY <1>1, <1>2, <2>1, <2>2, PushKept DEF PopTame
  <1> QED BY <1>1, <1>3, <1>4

\* MultiSession::sendMessage.
LEMMA SendIfReadyKept ==
    ASSUME ClientInv, DataTypes', ClientTypeOK', NEW k \in Clients, SendIfReady(k)
    PROVE  ClientInv'
  <1>1. /\ Top("sendIfReady", k) /\ {"sendIfReady", "sendUser"} \subseteq Labels
        /\ Then(<<>>, k) \/ Then(<<"sendUser">>, k)
    BY DEF SendIfReady, At, Top, Labels
  <1>2. PopTame("sendIfReady", k)
    BY DEF PopTame, Puts, SendIfReady, Tame, ClientInv, ClientTypeOK, Set, clientVars, connVars
  <1>3. CASE Then(<<>>, k)
    BY <1>1, <1>2, <1>3, PopKept
  <1>4. CASE Then(<<"sendUser">>, k)
    <2>1. StackTypes' /\ Replaced("sendUser", k)
      BY <1>1, <1>4, ThenReplaces DEF ClientInv, Top
    <2>2. Continues("sendIfReady", k)
      BY <2>1 DEF Continues
    <2> QED BY <1>1, <1>2, <2>1, <2>2, PushKept DEF PopTame
  <1> QED BY <1>1, <1>3, <1>4

\* ShutdownConnection: with a connection, delete, join and reset follow.
LEMMA ShutdownConnectionKept ==
    ASSUME ClientInv, DataTypes', ClientTypeOK', NEW k \in Clients, ShutdownConnection(k)
    PROVE  ClientInv'
  <1>1. Top("shutdownConnection", k) /\ {"shutdownConnection", "delete", "join", "reset"} \subseteq Labels
    BY DEF ShutdownConnection, At, Top, Labels
  <1>2. CASE conn[k] = "none"
    <2>1. PopTame("shutdownConnection", k) /\ Then(<<>>, k)
      BY <1>2 DEF PopTame, Puts, ShutdownConnection, Tame, ClientInv, ClientTypeOK, Set, clientVars, connVars
    <2> QED BY <1>1, <2>1, PopKept
  <1>3. CASE conn[k] # "none"
    <2>1. Tame /\ Then(<<"delete", "join", "reset">>, k)
      BY <1>3 DEF ShutdownConnection, Tame, ClientInv, ClientTypeOK, Set, clientVars, connVars
    <2>2. StackTypes' /\ Pushed3("delete", "join", "reset", k)
      BY <1>1, <2>1, ThenPushes3 DEF ClientInv, Top
    <2>3. Continues("shutdownConnection", k)
      BY <2>2 DEF Continues
    <2> QED BY <1>1, <2>1, <2>2, <2>3, PushKept
  <1> QED BY <1>2, <1>3

\* The request to the coordinator may throw.
LEMMA SubmitKept ==
    ASSUME ClientInv, DataTypes', ClientTypeOK', NEW k \in Clients, Submit(k)
    PROVE  ClientInv'
  <1>1. Top("submit", k) /\ (Then(<<>>, k) \/ Throw) /\ "submit" \in Labels /\ "submit" \in Throwing
    BY DEF Submit, At, Top, Labels, Throwing
  <1>2. PopTame("submit", k)
    BY DEF PopTame, Puts, Submit, Tame, ClientInv, ClientTypeOK, Set, clientVars, connVars
  <1>3. CASE Then(<<>>, k)
    BY <1>1, <1>2, <1>3, PopKept
  <1>4. CASE Throw
    BY <1>1, <1>2, <1>4, ThrowKept DEF PopTame
  <1> QED BY <1>1, <1>3, <1>4

\* SendMessage: after a connection error it disconnects before it puts.
LEMMA SendKept ==
    ASSUME ClientInv, DataTypes', ClientTypeOK', NEW k \in Clients, Send(k)
    PROVE  ClientInv'
  <1>1. PICK l \in {"sendReady", "sendGo", "sendUser", "sendDisconnect"} :
          Top(l, k) /\ Put[l] \in Puts /\ Then(<<"disconnect", Put[l]>>, k)
    BY DEF Send, At, Top, Put, Puts
  <1>2. Tame
    BY DEF Send, Tame, ClientInv, ClientTypeOK, Set, clientVars, connVars
  <1> DEFINE q == Put[l]
  <1>3. l \in Labels /\ q \in Labels /\ "disconnect" \in Labels /\ q \in Puts
    BY <1>1 DEF Labels, Puts
  <1>4. Then(<<"disconnect", q>>, k)
    BY <1>1
  <1> HIDE DEF q
  <1>5. StackTypes' /\ Pushed2("disconnect", q, k)
    BY <1>1, <1>3, <1>4, ThenPushes2 DEF ClientInv, Top
  <1>6. Continues(l, k)
    BY <1>3, <1>5 DEF Continues
  <1> QED BY <1>1, <1>2, <1>3, <1>5, <1>6, PushKept

\* PutMessage throws when the state is not CONNECTED, which it never is after a disconnect.
LEMMA PutMessageKept ==
    ASSUME ClientInv, DataTypes', ClientTypeOK', NEW k \in Clients, PutMessage(k)
    PROVE  ClientInv'
  <1>1. PICK l \in {"sendReady", "sendGo", "sendUser", "sendDisconnect"}, x \in Labels :
          /\ Top(x, k) /\ Put[l] \in Puts /\ (x = l \/ x = Put[l])
          /\ Throw \/ (mState[k] = "CONNECTED" /\ Then(<<>>, k))
    <2>1. DOMAIN Put = {"sendReady", "sendGo", "sendUser", "sendDisconnect"}
      BY DEF Put
    <2>2. \A l \in DOMAIN Put : Put[l] \in Puts /\ l \in Labels /\ Put[l] \in Labels
      BY DEF Put, Puts, Labels
    <2>3. PICK l \in DOMAIN Put :
            /\ At(Put[l], k) \/ At(l, k)
            /\ Throw \/ (mState[k] = "CONNECTED" /\ Then(<<>>, k))
      BY DEF PutMessage
    <2>4. Top(Put[l], k) \/ Top(l, k)
      BY <2>3 DEF At, Top
    <2> QED BY <2>1, <2>2, <2>3, <2>4
  <1>2. Tame /\ mState' = mState
    BY DEF PutMessage, Tame, ClientInv, ClientTypeOK, Set, clientVars, connVars
  <1>3. x \in Labels /\ x \in Throwing /\ x # "disconnect"
    BY <1>1 DEF Labels, Throwing, Puts
  <1>4. CASE Throw
    BY <1>1, <1>2, <1>3, <1>4, ThrowKept
  <1>5. CASE mState[k] = "CONNECTED" /\ Then(<<>>, k)
    <2>1. x \notin Puts
      <3>1. Len(app) \in Nat /\ Len(app) >= 1 /\ app[1] = <<x, k>>
        BY <1>1, StackShape DEF ClientInv, Top
      <3> QED BY <3>1, <1>5 DEF ClientInv, StackInv, PutPlace, Places
    <2>2. x = l
      BY <1>1, <2>1
    <2>3. PopTame(x, k)
      BY <1>1, <1>2, <2>1, <2>2 DEF PopTame
    <2> QED BY <1>1, <1>3, <1>5, <2>3, PopKept
  <1> QED BY <1>1, <1>4, <1>5

\* LocalSessions::stopSession: no returned session of k runs after it.
LEMMA StopSessionKept ==
    ASSUME ClientInv, DataTypes', ClientTypeOK', NEW k \in Clients, StopSession(k)
    PROVE  ClientInv'
  <1> DEFINE s == mSessionId[k]
  <1>1. Top("stopSession", k) /\ Then(<<>>, k) /\ "stopSession" \in Labels
    BY DEF StopSession, At, Top, Labels
  <1>2. /\ sess' = IF s # 0 /\ sess[s].listed /\ sess[s].proc = "running"
                   THEN [sess EXCEPT ![s].proc = "terminating"] ELSE sess
        /\ UNCHANGED <<clientVars, connVars, recv, send, alive>>
    BY DEF StopSession
  <1>3. s \in 0 .. MaxSessions /\ sess \in [SessionIds -> Session]
    BY DEF ClientInv, ClientTypeOK, DataTypes
  <1> HIDE DEF s
  <1>4. \A t \in SessionIds : /\ sess'[t].owner = sess[t].owner /\ sess'[t].returned = sess[t].returned
                              /\ sess'[t].listed = sess[t].listed /\ sess'[t].callback = sess[t].callback
                              /\ sess'[t].term = sess[t].term
                              /\ sess'[t].proc = "running" => sess[t].proc = "running"
    BY <1>2, <1>3 DEF Session, SessionIds
  <1>5. Tame
    BY <1>2, <1>4 DEF Tame, clientVars, connVars
  <1>6. Stopped(k)'
    <2> SUFFICES ASSUME NEW t \in SessionIds, sess'[t].returned, sess'[t].owner = k, sess'[t].proc = "running"
                 PROVE  FALSE
      BY DEF Stopped
    <2>0. sess[t].returned
      BY <1>2, <1>3 DEF Session, SessionIds
    <2>1. sess[t].returned /\ sess[t].owner = k /\ sess[t].proc = "running"
      <3>1. sess'[t].owner = sess[t].owner /\ (sess'[t].proc = "running" => sess[t].proc = "running")
        BY <1>4
      <3> QED BY <2>0, <3>1
    <2>2. ~Top("postConnect", k)
      BY <1>1 DEF Top
    <2>3. mSessionId[k] = t /\ sess[t].listed
      BY <2>1, <2>2 DEF ClientInv, ReturnedIsCurrent
    <2>4. s = t /\ s # 0
      BY <2>3 DEF s, SessionIds
    <2>5. sess' = [sess EXCEPT ![t].proc = "terminating"]
      BY <1>2, <2>1, <2>3, <2>4
    <2> QED BY <2>5, <1>3
  <1>7. PopTame("stopSession", k)
    BY <1>2, <1>5, <1>6 DEF PopTame, Puts, clientVars
  <1> QED BY <1>1, <1>7, PopKept

\* The join waits for both threads: the Client is quiet.
LEMMA JoinKept ==
    ASSUME ClientInv, DataTypes', ClientTypeOK', NEW k \in Clients, Join(k)
    PROVE  ClientInv'
  <1>1. /\ Top("join", k) /\ {"join", "stopSession", "setDisconnecting"} \subseteq Labels
        /\ mIsLocal[k] => Then(<<"stopSession", "setDisconnecting">>, k)
        /\ ~mIsLocal[k] => Then(<<>>, k)
        /\ recv' = [recv EXCEPT ![k] = "none"] /\ send' = [send EXCEPT ![k] = "none"]
        /\ UNCHANGED <<clientVars, connVars, alive, sess>>
    BY DEF Join, At, Top, Labels, Set
  <1>2. Tame
    BY <1>1 DEF Tame, ClientInv, ClientTypeOK, clientVars, connVars
  <1>3. Quiet(k)'
    <2>1. Len(app) \in Nat /\ Len(app) >= 1 /\ app[1] = <<"join", k>>
      BY <1>1, StackShape DEF ClientInv, Top
    <2>2. ~endpoint[k]
      BY <2>1 DEF ClientInv, StackInv, JoinPlace, Places
    <2> QED BY <1>1, <2>2 DEF Quiet, ClientInv, ClientTypeOK, connVars
  <1>4. CASE mIsLocal[k]
    <2>1. StackTypes' /\ Pushed2("stopSession", "setDisconnecting", k)
      BY <1>1, <1>4, ThenPushes2 DEF ClientInv, Top
    <2>2. Continues("join", k)
      BY <1>3, <2>1 DEF Continues
    <2> QED BY <1>1, <1>2, <2>1, <2>2, PushKept
  <1>5. CASE ~mIsLocal[k]
    <2>1. Stopped(k)
      <3>1. ~Top("postConnect", k)
        BY <1>1 DEF Top
      <3> QED BY <1>5, <3>1 DEF Stopped, ClientInv, ReturnedIsCurrent
    <2>2. Stopped(k)'
      BY <1>2, <2>1, TameQuiet
    <2>3. PopTame("join", k)
      BY <1>1, <1>2, <1>3, <2>2 DEF PopTame, Puts, clientVars
    <2> QED BY <1>1, <1>5, <2>3, PopKept
  <1> QED BY <1>4, <1>5

\* Reset of the connection: the Client is quiet and its sessions are stopped.
LEMMA ResetKept ==
    ASSUME ClientInv, DataTypes', ClientTypeOK', NEW k \in Clients, Reset(k)
    PROVE  ClientInv'
  <1>1. /\ Top("reset", k) /\ Then(<<>>, k) /\ "reset" \in Labels
        /\ conn' = [conn EXCEPT ![k] = "none"] /\ mState' = [mState EXCEPT ![k] = "DISCONNECTED"]
        /\ greeted' = [greeted EXCEPT ![k] = FALSE]
        /\ UNCHANGED <<mEngineReady, mIsLocal, mSessionId, endpoint, recv, send, alive, sess>>
    BY DEF Reset, At, Top, Labels, Set
  <1>2. StackTypes' /\ Popped
    BY <1>1, ThenPops DEF ClientInv, Top
  <1>3. Quiet(k) /\ Stopped(k) /\ \A c \in Clients : c # k => ~Pending("reset", c)
    <2>1. Len(app) \in Nat /\ Len(app) >= 1 /\ app[1] = <<"reset", k>>
      BY <1>1, StackShape DEF ClientInv, Top
    <2>2. ResetPlace
      BY DEF ClientInv, StackInv
    <2>3. Quiet(k) /\ Stopped(k)
      BY <2>1, <2>2 DEF ResetPlace, Places
    <2>4. ASSUME NEW c \in Clients, c # k, NEW i \in Places, app[i] = <<"reset", c>> PROVE FALSE
      BY <2>1, <2>2, <2>4 DEF ResetPlace
    <2> QED BY <2>3, <2>4 DEF Pending
  <1>4. PopPlace("reset", k)
    BY <1>1 DEF PopPlace, Puts, Quiet, Stopped, ClientInv, ClientTypeOK
  <1>5. StackInv'
    BY <1>1, <1>2, <1>4, PopPlaces
  <1>6. \A c \in Clients : ~Top("postConnect", c)
    BY <1>1 DEF Top
  <1> USE DEF ClientInv
  <1>7. NoneIsQuiet'
    BY <1>1, <1>3 DEF NoneIsQuiet, Quiet, ClientTypeOK
  <1>8. ConnectedHasThread'
    BY <1>1, <1>3, <1>6 DEF ConnectedHasThread, ClientTypeOK
  <1>9. ReturnedIsCurrent'
    BY <1>1, <1>3, <1>6 DEF ReturnedIsCurrent, Stopped, ClientTypeOK
  <1>10. KnownIsListed'
    BY <1>1 DEF KnownIsListed
  <1>11. ReadyIsTrue'
    BY <1>1, <1>6 DEF ReadyIsTrue, ClientTypeOK
  <1>12. AbandonedIsSilent'
    BY <1>1 DEF AbandonedIsSilent
  <1> QED BY <1>2, <1>5, <1>7, <1>8, <1>9, <1>10, <1>11, <1>12

\* PostConnect starts the threads of a new connection, or terminates over a running one.
LEMMA PostConnectKept ==
    ASSUME ClientInv, DataTypes', ClientTypeOK', NEW k \in Clients, PostConnect(k)
    PROVE  ClientInv'
  <1>1. Top("postConnect", k) /\ "postConnect" \in Labels /\ "sendReady" \in Labels
    BY DEF PostConnect, At, Top, Labels
  <1>2. CASE recv[k] # "none" \/ send[k] # "none"
    <2>1. UNCHANGED <<app, clientVars, connVars, recv, send, alive, sess>>
      BY <1>2 DEF PostConnect, clientVars, connVars
    <2>2. StayTame
      BY <2>1 DEF StayTame, Tame, clientVars, connVars
    <2> QED BY <2>2, StayKept
  <1>3. CASE recv[k] = "none" /\ send[k] = "none"
    <2>1. /\ Then(<<"sendReady">>, k)
          /\ mEngineReady' = [mEngineReady EXCEPT ![k] = FALSE] /\ recv' = [recv EXCEPT ![k] = "loop"]
          /\ \A c \in Clients : c # k => send'[c] = send[c] /\ endpoint'[c] = endpoint[c]
          /\ UNCHANGED <<conn, mIsLocal, mSessionId, alive, sess, greeted>>
      <3>1. /\ endpoint' = [endpoint EXCEPT ![k] = TRUE]
            /\ send' = [send EXCEPT ![k] = IF mSendAsync[k] THEN "loop" ELSE "none"]
        BY <1>3 DEF PostConnect, Set
      <3>2. \A c \in Clients : c # k => send'[c] = send[c] /\ endpoint'[c] = endpoint[c]
        BY <3>1 DEF ClientInv, ClientTypeOK
      <3> QED BY <3>2, <1>3 DEF PostConnect, Set
    <2>2. StackTypes' /\ Replaced("sendReady", k)
      BY <1>1, <2>1, ThenReplaces DEF ClientInv, Top
    <2>3. Joined(k) => Joined(k)'
      BY <2>1 DEF Joined
    <2>4. Continues("postConnect", k)
      BY <2>2, <2>3 DEF Continues
    <2>5. StackInv'
      BY <1>1, <2>1, <2>2, <2>4, PushPlaces
    <2>6. Len(app) \in Nat /\ Len(app) >= 1 /\ app[1] = <<"postConnect", k>>
      BY <1>1, StackShape DEF ClientInv, Top
    <2>7. conn[k] # "none" /\ \A c \in Clients : ~Pending("reset", c) /\ (Top("postConnect", c) => c = k)
      <3>1. conn[k] # "none"
        BY <2>6 DEF ClientInv, StackInv, PostPlace, Places
      <3>2. \A c \in Clients : ~Pending("reset", c)
        BY <2>6 DEF ClientInv, StackInv, ResetPlace, Pending
      <3> QED BY <3>1, <3>2, <2>6 DEF Top
    <2> USE DEF ClientInv
    <2>8. NoneIsQuiet'
      BY <2>1, <2>7 DEF NoneIsQuiet, Quiet, ClientTypeOK
    <2>9. ConnectedHasThread'
      BY <2>1, <2>7 DEF ConnectedHasThread, ClientTypeOK
    <2>10. ReturnedIsCurrent'
      BY <1>3, <2>1, <2>7 DEF ReturnedIsCurrent, ClientTypeOK
    <2>11. KnownIsListed'
      BY <2>1 DEF KnownIsListed
    <2>12. ReadyIsTrue'
      BY <2>1, <2>7 DEF ReadyIsTrue, ClientTypeOK
    <2>13. AbandonedIsSilent'
      BY <2>1 DEF AbandonedIsSilent
    <2> QED BY <2>2, <2>5, <2>8, <2>9, <2>10, <2>11, <2>12, <2>13
  <1> QED BY <1>2, <1>3

\* ConnectSession of a distributed session forgets the local one.
LEMMA ConnectSessionKept ==
    ASSUME ClientInv, DataTypes', ClientTypeOK', NEW k \in Clients, ConnectSession(k)
    PROVE  ClientInv'
  <1>1. /\ Top("connectSession", k) /\ {"connectSession", "postConnect"} \subseteq Labels
        /\ "connectSession" \in Throwing
        /\ UNCHANGED <<mEngineReady, mIsLocal, endpoint, greeted, recv, send, alive, sess>>
    BY DEF ConnectSession, At, Top, Labels, Throwing
  <1>2. CASE Throw /\ UNCHANGED <<conn, mSessionId>>
    <2>1. Tame
      BY <1>1, <1>2 DEF Tame
    <2> QED BY <1>1, <1>2, <2>1, ThrowKept
  <1>3. CASE mSessionId' = Set(mSessionId, k, 0) /\ ConnectTCP(k)
    <2>1. /\ mSessionId' = [mSessionId EXCEPT ![k] = 0] /\ conn' = [conn EXCEPT ![k] = "open"]
          /\ Then(<<"postConnect">>, k)
      BY <1>3 DEF Set, ConnectTCP
    <2>2. StackTypes' /\ Replaced("postConnect", k)
      BY <1>1, <2>1, ThenReplaces DEF ClientInv, Top
    <2>3. Continues("connectSession", k)
      BY <2>1, <2>2 DEF Continues, ClientInv, ClientTypeOK
    <2>4. \A c \in Clients : mSessionId[c] = 0 => mSessionId'[c] = 0
      BY <2>1 DEF ClientInv, ClientTypeOK
    <2>5. StackInv'
      BY <1>1, <2>2, <2>3, <2>4, PushPlaces
    <2>6. Len(app) \in Nat /\ Len(app) >= 1 /\ app[1] = <<"connectSession", k>>
      BY <1>1, StackShape DEF ClientInv, Top
    <2>7. /\ \A c \in Clients : ~Pending("reset", c) /\ ~Top("postConnect", c)
          /\ Top("postConnect", k)'
      <3>1. \A c \in Clients : ~Pending("reset", c)
        BY <2>6 DEF ClientInv, StackInv, ResetPlace, Pending
      <3>2. Top("postConnect", k)'
        BY <2>2, <2>6, StackShapeNext DEF Top, Replaced
      <3> QED BY <3>1, <3>2, <2>6 DEF Top
    <2> USE DEF ClientInv
    <2>8. NoneIsQuiet'
      BY <1>1, <2>1 DEF NoneIsQuiet, Quiet, ClientTypeOK
    <2>9. ConnectedHasThread'
      BY <1>1, <2>1, <2>7 DEF ConnectedHasThread, ClientTypeOK
    <2>10. ReturnedIsCurrent'
      BY <1>1, <2>1, <2>7 DEF ReturnedIsCurrent, ConnectedHasThread, ClientTypeOK
    <2>11. KnownIsListed'
      BY <1>1, <2>1 DEF KnownIsListed, ClientTypeOK
    <2>12. ReadyIsTrue'
      BY <1>1, <2>1, <2>7 DEF ReadyIsTrue, ClientTypeOK
    <2>13. AbandonedIsSilent'
      BY <1>1, <2>1 DEF AbandonedIsSilent, ClientTypeOK
    <2> QED BY <2>2, <2>5, <2>8, <2>9, <2>10, <2>11, <2>12, <2>13
  <1> QED BY <1>2, <1>3 DEF ConnectSession

\* MIsLocal of the session that was just created.
LEMMA SetIsLocalKept ==
    ASSUME ClientInv, DataTypes', ClientTypeOK', NEW k \in Clients, SetIsLocal(k)
    PROVE  ClientInv'
  <1>1. PICK l \in {"isLocal", "isRemote"} :
          /\ Top(l, k) /\ l \in Labels /\ Then(<<>>, k)
          /\ l = "isLocal" => mIsLocal' = [mIsLocal EXCEPT ![k] = TRUE]
          /\ l = "isRemote" => mIsLocal' = [mIsLocal EXCEPT ![k] = FALSE]
    BY DEF SetIsLocal, At, Top, Labels, Set
  <1>2. UNCHANGED <<mState, mEngineReady, mSessionId, conn, endpoint, greeted, recv, send, alive, sess>>
    BY DEF SetIsLocal, connVars
  <1>3. StackTypes' /\ Popped
    BY <1>1, ThenPops DEF ClientInv, Top
  <1>4. PopPlace(l, k)
    BY <1>1, <1>2 DEF PopPlace, Puts, Quiet, Stopped, Joined, ClientInv, ClientTypeOK
  <1>5. StackInv' /\ Kept
    BY <1>1, <1>3, <1>4, PopPlaces
  <1>6. Len(app) \in Nat /\ Len(app) >= 1 /\ app[1] = <<l, k>>
    BY <1>1, StackShape DEF ClientInv, Top
  <1>7. alive[k] # "gone" /\ (l = "isRemote" => mSessionId[k] = 0) /\ \A c \in Clients : ~Top("postConnect", c)
    <2>1. alive[k] # "gone"
      BY <1>1, <1>6 DEF ClientInv, StackInv, AliveOnStack, Places
    <2>2. l = "isRemote" => mSessionId[k] = 0
      BY <1>6 DEF ClientInv, StackInv, RemotePlace, Places
    <2> QED BY <2>1, <2>2, <1>6 DEF Top
  <1> USE DEF ClientInv
  <1>8. NoneIsQuiet'
    BY <1>2 DEF NoneIsQuiet, Quiet
  <1>9. ConnectedHasThread'
    BY <1>2, <1>5 DEF ConnectedHasThread, Kept
  <1>10. ReturnedIsCurrent'
    BY <1>1, <1>2, <1>7 DEF ReturnedIsCurrent, ClientTypeOK, SessionIds
  <1>11. KnownIsListed'
    BY <1>2 DEF KnownIsListed
  <1>12. ReadyIsTrue'
    BY <1>1, <1>2, <1>7 DEF ReadyIsTrue, ClientTypeOK
  <1>13. AbandonedIsSilent'
    BY <1>1, <1>2, <1>7 DEF AbandonedIsSilent, ClientTypeOK
  <1> QED BY <1>3, <1>5, <1>8, <1>9, <1>10, <1>11, <1>12, <1>13

\* The end of createSession: the Client is joined to the session it returns.
LEMMA ReadyKept ==
    ASSUME ClientInv, DataTypes', ClientTypeOK', NEW k \in Clients, Ready(k)
    PROVE  ClientInv'
  <1> DEFINE s == mSessionId[k]
  <1>1. /\ Top("ready", k) /\ Then(<<>>, k)
        /\ mEngineReady' = [mEngineReady EXCEPT ![k] = TRUE]
        /\ sess' = [sess EXCEPT ![s].returned = TRUE]
        /\ UNCHANGED <<mState, mIsLocal, mSessionId, conn, endpoint, greeted, recv, send, alive>>
    BY DEF Ready, At, Top, Set, connVars
  <1>2. Len(app) \in Nat /\ Len(app) >= 1 /\ app[1] = <<"ready", k>>
    BY <1>1, StackShape DEF ClientInv, Top
  <1>3. Len(app) = 1 /\ Joined(k) /\ mIsLocal[k]
    <2>1. 1 \in Places /\ \A j \in Places : ~(j < 1)
      BY <1>2 DEF Places
    <2>2. ReadyPlace
      BY DEF ClientInv, StackInv
    <2>3. 1 = Len(app)
      BY <1>2, <2>1, <2>2 DEF ReadyPlace
    <2> QED BY <1>2, <2>1, <2>2, <2>3 DEF ReadyPlace
  <1>4. app' = <<>>
    <2>1. StackTypes' /\ Popped
      BY <1>1, ThenPops DEF ClientInv, Top
    <2> QED BY <2>1, <1>2, <1>3, StackShapeNext DEF Popped
  <1>5. StackTypes' /\ StackInv'
    BY <1>4, EmptyStack
  <1>6. \A c \in Clients : ~Top("postConnect", c) /\ ~Pending("reset", c)
    BY <1>2, <1>3 DEF Top, Pending, Places
  <1> USE DEF ClientInv
  <1>7. /\ s \in SessionIds /\ s # 0 /\ sess[s].owner = k /\ conn[k] # "none" /\ sess[s].listed
        /\ sess \in [SessionIds -> Session]
    BY <1>3 DEF Joined, KnownIsListed, ClientTypeOK, SessionIds, DataTypes
  <1> HIDE DEF s
  <1>8. /\ \A t \in SessionIds : /\ sess'[t].owner = sess[t].owner /\ sess'[t].proc = sess[t].proc
                                 /\ sess'[t].listed = sess[t].listed
                                 /\ sess'[t].callback = sess[t].callback
                                 /\ sess'[t].term = sess[t].term
        /\ \A t \in SessionIds : t # s => sess'[t].returned = sess[t].returned
    BY <1>1, <1>7 DEF Session
  <1>9. NoneIsQuiet'
    BY <1>1 DEF NoneIsQuiet, Quiet
  <1>10. ConnectedHasThread'
    BY <1>1, <1>6 DEF ConnectedHasThread
  <1>11. ReturnedIsCurrent'
    <2> SUFFICES ASSUME NEW t \in SessionIds, sess'[t].returned
                 PROVE  /\ sess'[t].owner \in Clients /\ sess'[t].listed
                        /\ sess'[t].proc = "running" =>
                             /\ mSessionId[sess[t].owner] = t /\ mIsLocal[sess[t].owner]
                             /\ conn[sess[t].owner] # "none"
      BY <1>1, <1>8 DEF ReturnedIsCurrent
    <2>1. CASE t = s
      BY <2>1, <1>3, <1>7, <1>8 DEF s
    <2>2. CASE t # s
      <3>1. sess[t].returned
        BY <2>2, <1>1, <1>7 DEF Session
      <3> QED BY <3>1, <1>6, <1>8 DEF ReturnedIsCurrent
    <2> QED BY <2>1, <2>2
  <1>12. KnownIsListed'
    BY <1>1, <1>8 DEF KnownIsListed, ClientTypeOK, SessionIds
  <1>13. ReadyIsTrue'
    BY <1>1, <1>3, <1>6, <1>7 DEF ReadyIsTrue, ClientTypeOK, s
  <1>14. AbandonedIsSilent'
    BY <1>1, <1>8 DEF AbandonedIsSilent, ClientTypeOK, SessionIds
  <1> QED BY <1>5, <1>9, <1>10, <1>11, <1>12, <1>13, <1>14

\* AbandonAllSessions: no session of k calls back.
LEMMA AbandonKept ==
    ASSUME ClientInv, DataTypes', ClientTypeOK', NEW k \in Clients, Abandon(k)
    PROVE  ClientInv'
  <1> DEFINE s == mSessionId[k]
             known == mIsLocal[k] /\ s # 0 /\ sess[s].listed
  <1>1. /\ Top("abandon", k) /\ Then(<<>>, k)
        /\ known => sess[s].term \notin {"status", "set"}
        /\ known => sess' = [sess EXCEPT ![s].callback = FALSE]
        /\ ~known => sess' = sess
        /\ alive' = [alive EXCEPT ![k] = "gone"]
        /\ UNCHANGED <<clientVars, connVars, recv, send>>
    BY DEF Abandon, At, Top, Set
  <1>2. Len(app) \in Nat /\ Len(app) >= 1 /\ app[1] = <<"abandon", k>>
    BY <1>1, StackShape DEF ClientInv, Top
  <1>3. Len(app) = 1
    <2>1. 1 \in Places /\ AbandonPlace
      BY <1>2 DEF Places, ClientInv, StackInv
    <2> QED BY <1>2, <2>1 DEF AbandonPlace
  <1>4. app' = <<>>
    <2>1. StackTypes' /\ Popped
      BY <1>1, ThenPops DEF ClientInv, Top
    <2> QED BY <2>1, <1>2, <1>3, StackShapeNext DEF Popped
  <1>5. StackTypes' /\ StackInv'
    BY <1>4, EmptyStack
  <1>6. \A c \in Clients : ~Top("postConnect", c) /\ ~Pending("reset", c)
    BY <1>2, <1>3 DEF Top, Pending, Places
  <1> USE DEF ClientInv
  <1>7. s \in 0 .. MaxSessions /\ sess \in [SessionIds -> Session]
    BY DEF ClientTypeOK, SessionIds, DataTypes
  <1>8. s # 0 => sess[s].listed
    BY DEF KnownIsListed
  <1> HIDE DEF s, known
  <1>9. \A t \in SessionIds : /\ sess'[t].owner = sess[t].owner /\ sess'[t].proc = sess[t].proc
                              /\ sess'[t].listed = sess[t].listed /\ sess'[t].returned = sess[t].returned
                              /\ sess'[t].term = sess[t].term /\ (sess'[t].callback => sess[t].callback)
    <2>1. CASE known
      <3>1. s \in SessionIds /\ sess' = [sess EXCEPT ![s].callback = FALSE]
        BY <2>1, <1>1, <1>7 DEF known, SessionIds
      <3> QED BY <3>1, <1>7 DEF Session
    <2>2. CASE ~known
      BY <2>2, <1>1
    <2> QED BY <2>1, <2>2
  <1>10. NoneIsQuiet'
    BY <1>1 DEF NoneIsQuiet, Quiet, connVars
  <1>11. ConnectedHasThread'
    BY <1>1, <1>6 DEF ConnectedHasThread, connVars
  <1>12. ReturnedIsCurrent'
    <2> SUFFICES ASSUME NEW t \in SessionIds, sess'[t].returned
                 PROVE  /\ sess'[t].owner \in Clients /\ sess'[t].listed
                        /\ sess'[t].proc = "running" =>
                             /\ mSessionId[sess[t].owner] = t /\ mIsLocal[sess[t].owner]
                             /\ conn[sess[t].owner] # "none"
      BY <1>1, <1>9 DEF ReturnedIsCurrent, clientVars, connVars
    <2>1. sess[t].returned
      BY <1>1, <1>7 DEF Session, known, SessionIds
    <2> QED BY <2>1, <1>6, <1>9 DEF ReturnedIsCurrent
  <1>13. KnownIsListed'
    <2> SUFFICES ASSUME NEW c \in Clients, mSessionId[c] # 0 PROVE sess'[mSessionId[c]].listed
      BY <1>1 DEF KnownIsListed, clientVars
    <2>1. mSessionId[c] \in SessionIds /\ sess[mSessionId[c]].listed
      BY DEF ClientTypeOK, SessionIds, KnownIsListed
    <2> QED BY <2>1, <1>9
  <1>14. ReadyIsTrue'
    BY <1>1, <1>6 DEF ReadyIsTrue, clientVars, connVars
  <1>15. AbandonedIsSilent'
    <2> SUFFICES ASSUME NEW c \in Clients, alive'[c] = "gone", mIsLocal[c], mSessionId[c] # 0
                 PROVE  ~sess'[mSessionId[c]].callback /\ sess'[mSessionId[c]].term \notin {"status", "set"}
      BY <1>1 DEF AbandonedIsSilent, clientVars
    <2>1. mSessionId[c] \in SessionIds
      BY DEF ClientTypeOK, SessionIds
    <2>2. CASE c = k
      <3>1. known /\ s = mSessionId[c] /\ s \in SessionIds
        BY <2>1, <2>2, <1>8 DEF known, s
      <3>2. ~sess'[s].callback
        <4>1. sess' = [sess EXCEPT ![s].callback = FALSE]
          BY <3>1, <1>1
        <4> QED BY <3>1, <4>1, <1>7 DEF Session
      <3> QED BY <3>1, <3>2, <1>1, <1>9
    <2>3. CASE c # k
      <3>1. alive[c] = "gone"
        BY <2>3, <1>1 DEF DataTypes
      <3>2. ~sess[mSessionId[c]].callback /\ sess[mSessionId[c]].term \notin {"status", "set"}
        BY <3>1 DEF AbandonedIsSilent
      <3> QED BY <2>1, <3>2, <1>9
    <2> QED BY <2>2, <2>3
  <1> QED BY <1>5, <1>10, <1>11, <1>12, <1>13, <1>14, <1>15

\* CreateSession spawns the process.
LEMMA CreateLocalKept ==
    ASSUME ClientInv, DataTypes', ClientTypeOK', NEW k \in Clients, CreateLocal(k)
    PROVE  ClientInv'
  <1>1. Top("createLocal", k) /\ "createLocal" \in Labels /\ "createLocal" \in Throwing
    BY DEF CreateLocal, At, Top, Labels, Throwing
  <1>2. UNCHANGED <<clientVars, connVars, recv, send, alive>>
    BY DEF CreateLocal
  <1>3. Len(app) \in Nat /\ Len(app) >= 1 /\ app[1] = <<"createLocal", k>>
    BY <1>1, StackShape DEF ClientInv, Top
  <1>4. CASE Throw /\ UNCHANGED sess
    <2>1. Tame
      BY <1>2, <1>4 DEF Tame, clientVars, connVars
    <2> QED BY <1>1, <1>4, <2>1, ThrowKept
  <1> DEFINE labels == <<"awaitConnect", "postConnect", "isLocal", "sendGo", "ready">>
  <1>5. ASSUME NEW s \in SessionIds, sess[s] = NoSession, sess' = Set(sess, s, SpawnProcess(k)), Then(labels, k)
        PROVE  ClientInv'
    <2>1. /\ labels \in Seq(Labels) /\ Len(labels) = 5 /\ labels[1] = "awaitConnect" /\ labels[2] = "postConnect"
          /\ labels[3] = "isLocal" /\ labels[4] = "sendGo" /\ labels[5] = "ready"
      BY DEF Labels
    <2>2. Len(app) = 1 /\ alive[k] # "gone"
      <3>1. 1 \in Places /\ LocalPlace /\ AliveOnStack
        BY <1>3 DEF Places, ClientInv, StackInv
      <3> QED BY <1>1, <1>3, <3>1 DEF LocalPlace, AliveOnStack
    <2> HIDE DEF labels
    <2>3. /\ StackTypes' /\ Len(app') = Len(labels) + Len(app) - 1
          /\ \A i \in 1 .. Len(app') : app'[i] = IF i <= Len(labels) THEN <<labels[i], k>>
                                                                  ELSE app[i - Len(labels) + 1]
      <3>1. StackTypes /\ app # <<>>
        BY <1>1 DEF ClientInv, Top
      <3> QED BY <3>1, <2>1, <1>5, ThenStack, Zenon
    <2>4. /\ Len(app') = 5 /\ Places' = 1 .. 5
          /\ app'[1] = <<"awaitConnect", k>> /\ app'[2] = <<"postConnect", k>> /\ app'[3] = <<"isLocal", k>>
          /\ app'[4] = <<"sendGo", k>> /\ app'[5] = <<"ready", k>>
      <3>1. Len(app') = 5
        BY <2>1, <2>2, <2>3
      <3>2. ASSUME NEW i \in 1 .. 5 PROVE app'[i] = <<labels[i], k>>
        <4>1. i \in 1 .. Len(app') /\ i <= Len(labels)
          BY <2>1, <3>1
        <4> QED BY <4>1, <2>3
      <3> QED BY <2>1, <3>1, <3>2 DEF Places
    <2>5. alive'[k] # "gone"
      BY <1>2, <2>2
    <2>10. DeletePlace'
      BY <2>4, <2>5 DEF DeletePlace
    <2>11. JoinPlace'
      BY <2>4, <2>5 DEF JoinPlace
    <2>12. ResetPlace'
      BY <2>4, <2>5 DEF ResetPlace
    <2>13. AwaitPlace'
      BY <2>4, <2>5 DEF AwaitPlace
    <2>14. LocalPlace'
      BY <2>4, <2>5 DEF LocalPlace
    <2>15. PostPlace'
      BY <2>4, <2>5 DEF PostPlace
    <2>16. PutPlace'
      BY <2>4, <2>5 DEF PutPlace, Puts
    <2>17. ReadyPlace'
      BY <2>4, <2>5 DEF ReadyPlace
    <2>18. RemotePlace'
      BY <2>4, <2>5 DEF RemotePlace
    <2>19. AbandonPlace'
      BY <2>4, <2>5 DEF AbandonPlace
    <2>20. AliveOnStack'
      BY <2>4, <2>5 DEF AliveOnStack
    <2>30. StackInv'
      BY <2>10, <2>11, <2>12, <2>13, <2>14, <2>15, <2>16, <2>17, <2>18, <2>19, <2>20 DEF StackInv
    <2>31. Tame
      <3>1. sess' = [sess EXCEPT ![s] = SpawnProcess(k)] /\ sess \in [SessionIds -> Session]
        BY <1>5 DEF Set, ClientInv, DataTypes
      <3>2. sess[s].listed = FALSE /\ sess[s].returned = FALSE
        BY <1>5 DEF NoSession
      <3>3. \A t \in SessionIds : t # s => sess'[t] = sess[t]
        BY <3>1
      <3>4. sess'[s].listed = FALSE /\ sess'[s].returned = FALSE
        BY <3>1, Spawned
      <3> QED BY <1>2, <3>2, <3>3, <3>4 DEF Tame, clientVars, connVars
    <2>32. Kept
      BY <1>3, <2>2 DEF Kept, Top, Pending, Places
    <2>33. StateInv'
      BY <2>31, <2>32, TameState
    <2> QED BY <2>3, <2>30, <2>33 DEF ClientInv, StateInv
  <1> QED BY <1>4, <1>5 DEF CreateLocal

\* The process connects, or the wait ends without it.
LEMMA AwaitConnectKept ==
    ASSUME ClientInv, DataTypes', ClientTypeOK', NEW k \in Clients, AwaitConnect(k)
    PROVE  ClientInv'
  <1>1. Top("awaitConnect", k) /\ "awaitConnect" \in Labels /\ "awaitConnect" \in Throwing
    BY DEF AwaitConnect, At, Top, Labels, Throwing
  <1>2. UNCHANGED <<mState, mEngineReady, mIsLocal, endpoint, greeted, recv, send, alive>>
    BY DEF AwaitConnect
  <1>3. Len(app) \in Nat /\ Len(app) >= 1 /\ app[1] = <<"awaitConnect", k>>
    BY <1>1, StackShape DEF ClientInv, Top
  <1>4. sess \in [SessionIds -> Session]
    BY DEF ClientInv, DataTypes
  <1>5. ASSUME NEW s \in SessionIds, Throw, sess' = [sess EXCEPT ![s].connect = "none"], UNCHANGED <<mSessionId, conn>>
        PROVE  ClientInv'
    <2>1. \A t \in SessionIds : /\ sess'[t].owner = sess[t].owner /\ sess'[t].returned = sess[t].returned
                                /\ sess'[t].listed = sess[t].listed /\ sess'[t].callback = sess[t].callback
                                /\ sess'[t].term = sess[t].term /\ sess'[t].proc = sess[t].proc
      BY <1>4, <1>5 DEF Session
    <2>2. Tame
      BY <1>2, <1>5, <2>1 DEF Tame
    <2> QED BY <1>1, <1>5, <2>2, ThrowKept
  <1>6. ASSUME NEW s \in SessionIds, sess[s].owner = k,
               sess' = [sess EXCEPT ![s].listed = TRUE, ![s].connect = "none"],
               mSessionId' = Set(mSessionId, k, s),
               conn' = Set(conn, k, IF sess[s].proc = "dead" THEN "lost" ELSE "open"), Then(<<>>, k)
        PROVE  ClientInv'
    <2>1. /\ \A t \in SessionIds : /\ sess'[t].owner = sess[t].owner /\ sess'[t].returned = sess[t].returned
                                   /\ sess'[t].callback = sess[t].callback
                                   /\ sess'[t].term = sess[t].term /\ sess'[t].proc = sess[t].proc
          /\ \A t \in SessionIds : t # s => sess'[t].listed = sess[t].listed
          /\ sess'[s].listed
      BY <1>4, <1>6 DEF Session
    <2>2. /\ mSessionId'[k] = s /\ s # 0 /\ conn'[k] # "none"
          /\ \A c \in Clients : c # k => mSessionId'[c] = mSessionId[c] /\ conn'[c] = conn[c]
      BY <1>6 DEF Set, ClientInv, ClientTypeOK, SessionIds
    <2>3. /\ Len(app) = 5 /\ app[2] = <<"postConnect", k>> /\ app[3] = <<"isLocal", k>>
          /\ app[4] = <<"sendGo", k>> /\ app[5] = <<"ready", k>> /\ alive[k] # "gone"
      <3>1. 1 \in Places /\ AwaitPlace /\ AliveOnStack
        BY <1>3 DEF Places, ClientInv, StackInv
      <3> QED BY <1>1, <1>3, <3>1 DEF AwaitPlace, AliveOnStack
    <2>4. StackTypes' /\ Popped
      BY <1>1, <1>6, ThenPops DEF ClientInv, Top
    <2>5. /\ Len(app') = 4 /\ Places' = 1 .. 4
          /\ app'[1] = <<"postConnect", k>> /\ app'[2] = <<"isLocal", k>>
          /\ app'[3] = <<"sendGo", k>> /\ app'[4] = <<"ready", k>>
      <3>1. Len(app') = 4 /\ Places' = 1 .. 4
        BY <2>3, <2>4 DEF Popped, Places
      <3>2. \A i \in 1 .. 4 : app'[i] = app[i + 1]
        BY <3>1, <2>4 DEF Popped
      <3> QED BY <3>1, <3>2, <2>3
    <2>6. alive'[k] # "gone" /\ conn'[k] # "none" /\ Joined(k)'
      <3>1. sess'[s].owner = k
        BY <1>6, <2>1
      <3> QED BY <3>1, <1>2, <2>2, <2>3 DEF Joined
    <2>10. DeletePlace'
      BY <2>5, <2>6 DEF DeletePlace
    <2>11. JoinPlace'
      BY <2>5, <2>6 DEF JoinPlace
    <2>12. ResetPlace'
      BY <2>5, <2>6 DEF ResetPlace
    <2>13. AwaitPlace'
      BY <2>5, <2>6 DEF AwaitPlace
    <2>14. LocalPlace'
      BY <2>5, <2>6 DEF LocalPlace
    <2>15. PostPlace'
      BY <2>5, <2>6 DEF PostPlace
    <2>16. PutPlace'
      BY <2>5, <2>6 DEF PutPlace, Puts
    <2>17. ReadyPlace'
      BY <2>5, <2>6 DEF ReadyPlace
    <2>18. RemotePlace'
      BY <2>5, <2>6 DEF RemotePlace
    <2>19. AbandonPlace'
      BY <2>5, <2>6 DEF AbandonPlace
    <2>20. AliveOnStack'
      BY <2>5, <2>6 DEF AliveOnStack
    <2>30. StackInv'
      BY <2>10, <2>11, <2>12, <2>13, <2>14, <2>15, <2>16, <2>17, <2>18, <2>19, <2>20 DEF StackInv
    <2>31. \A c \in Clients : ~Top("postConnect", c) /\ ~Pending("reset", c)
      <3>1. \A c \in Clients : ~Pending("reset", c)
        BY <1>3 DEF ClientInv, StackInv, ResetPlace, Pending
      <3> QED BY <3>1, <1>3 DEF Top
    <2>32. Top("postConnect", k)'
      BY <2>4, <2>5, StackShapeNext DEF Top
    <2> USE DEF ClientInv
    <2>33. NoneIsQuiet'
      BY <1>2, <2>2 DEF NoneIsQuiet, Quiet
    <2>34. ConnectedHasThread'
      BY <1>2, <2>2, <2>31, <2>32 DEF ConnectedHasThread
    <2>35. ReturnedIsCurrent'
      <3> SUFFICES ASSUME NEW t \in SessionIds, sess'[t].returned
                   PROVE  (/\ sess[t].owner \in Clients /\ sess[t].listed
                           /\ sess[t].proc = "running" =>
                                \/ /\ mSessionId[sess[t].owner] = t /\ mIsLocal[sess[t].owner]
                                   /\ conn[sess[t].owner] # "none"
                                \/ Top("postConnect", sess[t].owner) /\ recv[sess[t].owner] # "none")'
        BY DEF ReturnedIsCurrent
      <3> DEFINE c == sess[t].owner
      <3>1. sess[t].returned
        BY <1>4, <1>6 DEF Session
      <3>2. /\ c \in Clients /\ sess[t].listed
            /\ sess[t].proc = "running" => mSessionId[c] = t /\ mIsLocal[c] /\ conn[c] # "none"
        BY <3>1, <2>31 DEF ReturnedIsCurrent
      <3>3. sess'[t].owner = c /\ sess'[t].proc = sess[t].proc /\ sess'[t].listed
        <4>1. sess'[t].owner = c /\ sess'[t].proc = sess[t].proc
          BY <2>1
        <4>2. sess'[t].listed
          BY <3>2, <1>4, <1>6 DEF Session
        <4> QED BY <4>1, <4>2
      <3> HIDE DEF c
      <3>4. CASE c = k
        <4>1. sess[t].proc = "running" => recv[k] # "none"
          BY <3>2, <3>4, <2>31 DEF ConnectedHasThread
        <4> QED BY <4>1, <3>2, <3>3, <3>4, <2>32, <1>2
      <3>5. CASE c # k
        BY <3>2, <3>3, <3>5, <2>2, <1>2
      <3> QED BY <3>4, <3>5
    <2>36. KnownIsListed'
      <3> SUFFICES ASSUME NEW c \in Clients, mSessionId'[c] # 0 PROVE sess'[mSessionId'[c]].listed
        BY DEF KnownIsListed
      <3>1. CASE c = k
        BY <3>1, <2>1, <2>2
      <3>2. CASE c # k
        <4>1. mSessionId'[c] = mSessionId[c] /\ mSessionId[c] \in SessionIds /\ sess[mSessionId[c]].listed
          BY <3>2, <2>2 DEF KnownIsListed, ClientTypeOK, SessionIds
        <4> QED BY <4>1, <1>4, <1>6 DEF Session
      <3> QED BY <3>1, <3>2
    <2>37. ReadyIsTrue'
      BY <1>2, <2>2, <2>31, <2>32 DEF ReadyIsTrue
    <2>38. AbandonedIsSilent'
      <3> SUFFICES ASSUME NEW c \in Clients, alive[c] = "gone", mIsLocal[c], mSessionId'[c] # 0
                   PROVE  ~sess'[mSessionId'[c]].callback /\ sess'[mSessionId'[c]].term \notin {"status", "set"}
        BY <1>2 DEF AbandonedIsSilent
      <3>1. c # k
        BY <2>3
      <3>2. mSessionId'[c] = mSessionId[c] /\ mSessionId[c] \in SessionIds
        BY <3>1, <2>2 DEF ClientTypeOK, SessionIds
      <3>3. ~sess[mSessionId[c]].callback /\ sess[mSessionId[c]].term \notin {"status", "set"}
        BY <3>2 DEF AbandonedIsSilent
      <3> QED BY <3>2, <3>3, <2>1
    <2> QED BY <2>4, <2>30, <2>33, <2>34, <2>35, <2>36, <2>37, <2>38
  <1> QED BY <1>5, <1>6 DEF AwaitConnect

------------------------------------------------------------------------------
\* The stacks that calls start with.
Simple == {"disconnect", "shutdown", "sendIfReady", "sendUser", "makeRequest", "submit", "connectSession",
           "connected", "deleteComponent"}
Starting == Simple \cup {"createLocal", "abandon", "isRemote"}
Fresh ==
    \A i \in Places : \E x \in Starting, c \in Present :
        /\ app[i] = <<x, c>>
        /\ x \in {"createLocal", "abandon"} => i = Len(app)
        /\ x = "isRemote" => \E j \in Places : j < i /\ app[j] = <<"connectSession", c>>

\* The first stack of a call has every instruction in its place.
LEMMA FreshPlaces ==
    ASSUME StackTypes', Fresh'
    PROVE  StackInv'
  <1>1. \A i \in Places', c \in Clients, l \in Labels : app'[i] = <<l, c>> => l \in Starting /\ c \in Present'
    BY DEF Fresh
  <1>2. \A x \in Starting : x \notin Puts \cup {"delete", "join", "reset", "awaitConnect", "postConnect", "ready"}
    BY DEF Starting, Simple, Puts
  <1>3. Puts \subseteq Labels /\ {"delete", "join", "reset", "awaitConnect", "postConnect", "ready"} \subseteq Labels
    BY DEF Labels, Puts
  <1>4. DeletePlace' /\ JoinPlace' /\ ResetPlace'
    BY <1>1, <1>2, <1>3 DEF DeletePlace, JoinPlace, ResetPlace
  <1>5. AwaitPlace' /\ PostPlace' /\ PutPlace' /\ ReadyPlace'
    BY <1>1, <1>2, <1>3 DEF AwaitPlace, PostPlace, PutPlace, ReadyPlace
  <1>6. LocalPlace' /\ AbandonPlace'
    BY DEF Fresh, LocalPlace, AbandonPlace
  <1>7. RemotePlace'
    BY DEF Fresh, RemotePlace
  <1>8. AliveOnStack'
    BY <1>1 DEF AliveOnStack, Present
  <1> QED BY <1>4, <1>5, <1>6, <1>7, <1>8 DEF StackInv

\* Calls made of instructions that may stand anywhere.
LEMMA SimpleIsFresh ==
    ASSUME app' \in Seq(Simple \X Present), alive' = alive
    PROVE  StackTypes' /\ Fresh'
  <1>1. Simple \subseteq Labels /\ Present \subseteq Clients /\ Present' = Present
    BY DEF Simple, Labels, Present
  <1>2. \A i \in Places' : app'[i] \in Simple \X Present
    BY DEF Places
  <1>3. StackTypes'
    BY <1>1 DEF StackTypes
  <1>4. ASSUME NEW i \in Places'
        PROVE  \E x \in Starting, c \in Present' :
                  /\ app'[i] = <<x, c>>
                  /\ x \in {"createLocal", "abandon"} => i = Len(app')
                  /\ x = "isRemote" => \E j \in Places' : j < i /\ app'[j] = <<"connectSession", c>>
    <2>1. PICK x \in Simple, c \in Present : app'[i] = <<x, c>>
      BY <1>2
    <2>2. x \in Starting /\ x \notin {"createLocal", "abandon", "isRemote"}
      BY <2>1 DEF Starting, Simple
    <2> QED BY <1>1, <2>1, <2>2
  <1> QED BY <1>3, <1>4 DEF Fresh

\* A sequence of the members of a set of Clients has only these members.
LEMMA SetToSeqType ==
    ASSUME NEW S \in SUBSET Clients
    PROVE  SetToSeq(S) \in Seq(S)
  <1>1. IsFiniteSet(S)
    BY ClientAssumption, FS_Subset
  <1> DEFINE n == Cardinality(S)
  <1>2. n \in Nat /\ ExistsBijection(1 .. n, S)
    BY <1>1, FS_CardinalityType
  <1>3. \E f \in [1 .. n -> S] : IsInjective(f)
    BY <1>2 DEF ExistsBijection, Bijection, Injection
  <1>4. SetToSeq(S) \in [1 .. n -> S]
    BY <1>3 DEF SetToSeq
  <1> QED BY <1>2, <1>4

\* SDK::createSession for all keys of a MultiSession.
LEMMA CreateAllType == CreateAll \in Seq(Simple \X Present)
  <1> DEFINE S == {k \in Present : mState[k] # "CONNECTED"}
             new == SetToSeq(S)
             T == Simple \X Present
             requests == [i \in DOMAIN new |-> <<"makeRequest", new[i]>>]
             connect == [i \in 1 .. 2 * Len(new) |->
                           <<IF i % 2 = 1 THEN "connectSession" ELSE "connected", new[(i + 1) \div 2]>>]
  <1>1. S \subseteq Clients /\ S \subseteq Present
    BY DEF Present
  <1>2. new \in Seq(S)
    BY <1>1, SetToSeqType
  <1> HIDE DEF new, S
  <1>3. new \in Seq(Present) /\ Len(new) \in Nat /\ DOMAIN new = 1 .. Len(new)
    BY <1>1, <1>2
  <1>4. {"makeRequest", "connectSession", "connected", "submit"} \subseteq Simple
    BY DEF Simple
  <1>5. requests \in Seq(T)
    BY <1>3, <1>4
  <1>6. connect \in Seq(T)
    <2>1. \A i \in 1 .. 2 * Len(new) : (i + 1) \div 2 \in 1 .. Len(new)
      BY <1>3
    <2>2. \A i \in 1 .. 2 * Len(new) : new[(i + 1) \div 2] \in Present
      BY <1>3, <2>1
    <2>3. \A i \in 1 .. 2 * Len(new) :
            <<IF i % 2 = 1 THEN "connectSession" ELSE "connected", new[(i + 1) \div 2]>> \in T
      BY <1>4, <2>2
    <2>4. connect \in [1 .. 2 * Len(new) -> T]
      BY <2>3
    <2>5. 2 * Len(new) \in Nat
      BY <1>3
    <2> HIDE DEF connect, T
    <2> QED BY <2>4, <2>5
  <1>7. new # <<>> => <<<<"submit", new[1]>>>> \in Seq(T)
    <2>1. new # <<>> => new[1] \in Present
      BY <1>3
    <2> QED BY <1>4, <2>1
  <1>8. CreateAll = requests \o (IF new = <<>> THEN <<>> ELSE <<<<"submit", new[1]>>>> \o connect)
    BY DEF CreateAll, new, S
  <1> HIDE DEF requests, connect, T
  <1> DEFINE rest == IF new = <<>> THEN <<>> ELSE <<<<"submit", new[1]>>>> \o connect
  <1>9. rest \in Seq(T)
    BY <1>6, <1>7, ConcatProperties
  <1> HIDE DEF rest
  <1>10. requests \o rest \in Seq(T)
    BY <1>5, <1>9, ConcatProperties
  <1> QED BY <1>8, <1>10 DEF rest, T

\* The calls of a MultiSession that go through its keys.
LEMMA EachKeyType ==
    ASSUME NEW l \in Simple
    PROVE  EachKey(l) \in Seq(Simple \X Present)
  <1>1. Keys \in Seq(Present)
    BY SetToSeqType DEF Keys, Present
  <1> HIDE DEF Keys
  <1> QED BY <1>1 DEF EachKey

\* The first stack of every call is in order.
LEMMA CallIsFresh ==
    ASSUME NEW c \in CallTypes, NEW k \in Present, app' = Start(c, k), alive' = alive
    PROVE  StackTypes' /\ Fresh'
  <1>1. Present \subseteq Clients /\ Present' = Present
    BY DEF Present
  <1>2. ASSUME NEW l \in Simple, app' = Do(<<l>>, k) PROVE StackTypes' /\ Fresh'
    <2>1. Do(<<l>>, k) \in Seq(Simple \X Present)
      BY DEF Do
    <2> QED BY <1>2, <2>1, SimpleIsFresh
  <1>3. CASE c = "createLocal"
    <2> DEFINE d == <<"disconnect">>
               e == <<"createLocal">>
               labels == d \o e
    <2>1. app' = Do(labels, k)
      <3>1. app' = CreateSession(TRUE, k)
        BY <1>3 DEF Start
      <3> QED BY <3>1, Zenon DEF CreateSession
    <2>2. d \in Seq(Labels) /\ Len(d) = 1 /\ d[1] = "disconnect"
      BY DEF Labels
    <2>3. e \in Seq(Labels) /\ Len(e) = 1 /\ e[1] = "createLocal"
      BY DEF Labels
    <2> HIDE DEF d, e
    <2>4. /\ labels \in Seq(Labels) /\ Len(labels) = Len(d) + Len(e)
          /\ \A i \in 1 .. Len(d) + Len(e) : labels[i] = IF i <= Len(d) THEN d[i] ELSE e[i - Len(d)]
      BY <2>2, <2>3, ConcatProperties
    <2> HIDE DEF labels
    <2>5. Len(labels) = 2 /\ labels[1] = "disconnect" /\ labels[2] = "createLocal"
      BY <2>2, <2>3, <2>4
    <2>6. /\ Len(app') = 2 /\ Places' = 1 .. 2 /\ app'[1] = <<"disconnect", k>> /\ app'[2] = <<"createLocal", k>>
          /\ app' \in Seq(Labels \X Clients)
      <3>1. /\ app' \in Seq(Labels \X Clients) /\ Len(app') = Len(labels)
            /\ \A i \in 1 .. Len(labels) : app'[i] = <<labels[i], k>>
        BY <1>1, <2>1, <2>4, DoType
      <3> QED BY <2>5, <3>1 DEF Places
    <2>7. {"disconnect", "createLocal"} \subseteq Starting
      BY DEF Starting, Simple
    <2> QED BY <1>1, <2>6, <2>7 DEF StackTypes, Fresh
  <1>4. CASE c = "createDistributed"
    <2> DEFINE d == <<"disconnect">>
               e == <<"makeRequest", "submit", "connectSession", "connected", "isRemote">>
               labels == d \o e
    <2>1. app' = Do(labels, k)
      <3>1. app' = CreateSession(FALSE, k)
        BY <1>4 DEF Start
      <3> QED BY <3>1, Zenon DEF CreateSession, CreateDistributed
    <2>2. d \in Seq(Labels) /\ Len(d) = 1 /\ d[1] = "disconnect"
      BY DEF Labels
    <2>3. /\ e \in Seq(Labels) /\ Len(e) = 5 /\ e[1] = "makeRequest" /\ e[2] = "submit"
          /\ e[3] = "connectSession" /\ e[4] = "connected" /\ e[5] = "isRemote"
      BY DEF Labels
    <2> HIDE DEF d, e
    <2>4. /\ labels \in Seq(Labels) /\ Len(labels) = Len(d) + Len(e)
          /\ \A i \in 1 .. Len(d) + Len(e) : labels[i] = IF i <= Len(d) THEN d[i] ELSE e[i - Len(d)]
      BY <2>2, <2>3, ConcatProperties
    <2> HIDE DEF labels
    <2>5. /\ Len(labels) = 6 /\ labels[1] = "disconnect" /\ labels[2] = "makeRequest" /\ labels[3] = "submit"
          /\ labels[4] = "connectSession" /\ labels[5] = "connected" /\ labels[6] = "isRemote"
      BY <2>2, <2>3, <2>4
    <2>6. /\ Len(app') = 6 /\ Places' = 1 .. 6 /\ app'[1] = <<"disconnect", k>> /\ app'[2] = <<"makeRequest", k>>
          /\ app'[3] = <<"submit", k>> /\ app'[4] = <<"connectSession", k>> /\ app'[5] = <<"connected", k>>
          /\ app'[6] = <<"isRemote", k>> /\ app' \in Seq(Labels \X Clients)
      <3>1. /\ app' \in Seq(Labels \X Clients) /\ Len(app') = Len(labels)
            /\ \A i \in 1 .. Len(labels) : app'[i] = <<labels[i], k>>
        BY <1>1, <2>1, <2>4, DoType
      <3> QED BY <2>5, <3>1 DEF Places
    <2>7. {"disconnect", "makeRequest", "submit", "connectSession", "connected", "isRemote"} \subseteq Starting
      BY DEF Starting, Simple
    <2>8. Fresh'
      <3> SUFFICES ASSUME NEW i \in 1 .. 6
                   PROVE  \E x \in Starting, y \in Present' :
                             /\ app'[i] = <<x, y>>
                             /\ x \in {"createLocal", "abandon"} => i = Len(app')
                             /\ x = "isRemote" => \E j \in Places' : j < i /\ app'[j] = <<"connectSession", y>>
        BY <2>6 DEF Fresh
      <3>1. CASE i < 6
        BY <3>1, <1>1, <2>6, <2>7
      <3>2. CASE i = 6
        <4>1. 4 \in Places' /\ 4 < i
          BY <3>2, <2>6
        <4> QED BY <3>2, <4>1, <1>1, <2>6, <2>7
      <3> QED BY <3>1, <3>2
    <2> QED BY <2>6, <2>8 DEF StackTypes
  <1>5. CASE c = "destroy"
    <2>1. app' = Do(<<"disconnect", "deleteComponent", "disconnect", "abandon">>, k)
      BY <1>5 DEF Start, Destroy
    <2>2. /\ Len(app') = 4 /\ Places' = 1 .. 4 /\ app'[1] = <<"disconnect", k>> /\ app'[2] = <<"deleteComponent", k>>
          /\ app'[3] = <<"disconnect", k>> /\ app'[4] = <<"abandon", k>> /\ app' \in Seq(Labels \X Clients)
      BY <1>1, <2>1 DEF Do, Places, Labels
    <2>3. {"disconnect", "deleteComponent", "abandon"} \subseteq Starting
      BY DEF Starting, Simple
    <2> QED BY <1>1, <2>2, <2>3 DEF StackTypes, Fresh
  <1>6. CASE c = "createAll"
    <2>1. app' = CreateAll
      BY <1>6 DEF Start
    <2> QED BY <2>1, CreateAllType, SimpleIsFresh
  <1>7. ASSUME NEW l \in Simple, app' = EachKey(l) PROVE StackTypes' /\ Fresh'
    BY <1>7, EachKeyType, SimpleIsFresh
  <1>8. CASE c \in {"send", "shutdown", "disconnect"}
    <2>1. {"sendUser", "shutdown", "disconnect"} \subseteq Simple
      BY DEF Simple
    <2>2. \E l \in {"sendUser", "shutdown", "disconnect"} : app' = Do(<<l>>, k)
      BY <1>8 DEF Start
    <2> QED BY <2>1, <2>2, <1>2
  <1>9. CASE c \in {"sendAll", "shutdownAll", "disconnectAll"}
    <2>1. {"sendIfReady", "shutdown", "disconnect"} \subseteq Simple
      BY DEF Simple
    <2>2. \E l \in {"sendIfReady", "shutdown", "disconnect"} : app' = EachKey(l)
      BY <1>9 DEF Start
    <2> QED BY <2>1, <2>2, <1>7
  <1>10. CASE c = "wait"
    <2>1. app' = <<>>
      BY <1>10 DEF Start, Waits
    <2>2. Places' = {}
      BY <2>1 DEF Places
    <2> QED BY <2>1, <2>2 DEF StackTypes, Fresh
  <1> QED BY <1>3, <1>4, <1>5, <1>6, <1>8, <1>9, <1>10 DEF CallTypes

\* A call of the application keeps the invariant: only the stack changes.
LEMMA CallKept ==
    ASSUME ClientInv, DataTypes', ClientTypeOK', Call
    PROVE  ClientInv'
  <1>1. /\ app = <<>>
        /\ UNCHANGED <<clientVars, connVars, recv, send, alive, sess>>
        /\ \E c \in CallTypes, k \in Present : app' = Start(c, k)
    BY ClientAssumption DEF Call
  <1>2. StackTypes' /\ Fresh'
    BY <1>1, CallIsFresh
  <1>3. StackInv'
    BY <1>2, FreshPlaces
  <1>4. Tame
    BY <1>1 DEF Tame, clientVars, connVars
  <1>5. Kept
    BY <1>1 DEF Kept, Top, Pending, Places
  <1>6. StateInv'
    BY <1>4, <1>5, TameState
  <1> QED BY <1>2, <1>3, <1>6 DEF ClientInv, StateInv

------------------------------------------------------------------------------
\* The invariant holds of Clients that have just been constructed.
LEMMA InitClientInv ==
    ASSUME Init
    PROVE  ClientInv
  <1>1. StackTypes /\ Places = {} /\ StackInv
    <2>1. app = <<>> /\ Len(app) = 0 /\ Places = {}
      BY DEF Init, Places
    <2>2. StackTypes
      BY <2>1 DEF StackTypes
    <2>3. DeletePlace /\ JoinPlace /\ ResetPlace /\ AwaitPlace /\ LocalPlace /\ PostPlace
      BY <2>1 DEF DeletePlace, JoinPlace, ResetPlace, AwaitPlace, LocalPlace, PostPlace
    <2>4. PutPlace /\ ReadyPlace /\ RemotePlace /\ AbandonPlace /\ AliveOnStack
      BY <2>1 DEF PutPlace, ReadyPlace, RemotePlace, AbandonPlace, AliveOnStack
    <2> QED BY <2>1, <2>2, <2>3, <2>4 DEF StackInv
  <1>2. DataTypes
    <2>1. NoSession \in Session
      BY DEF NoSession, Session
    <2> QED BY <2>1 DEF Init, DataTypes
  <1>3. PICK u \in Setups : /\ alive = [k \in Clients |-> IF k \in u.added THEN "yes" ELSE "gone"]
                            /\ mSendAsync = [k \in Clients |-> k \in u.async]
                            /\ calls = u.calls
    BY DEF Init
  <1>4. PICK b \in BOOLEAN : mEngineReady = [k \in Clients |-> b /\ alive[k] = "yes"]
    BY DEF Init
  <1>5. ClientTypeOK
    <2>1. mSendAsync \in [Clients -> BOOLEAN]
      BY <1>3
    <2>2. mEngineReady \in [Clients -> BOOLEAN]
      BY <1>4
    <2>3. calls \in Nat /\ MaxMessages \in Nat /\ MaxSessions \in Nat
      BY <1>3, ClientAssumption
    <2> QED BY <2>1, <2>2, <2>3 DEF Init, ClientTypeOK, Live
  <1>6. NoneIsQuiet /\ ConnectedHasThread /\ KnownIsListed /\ ReadyIsTrue
    BY DEF Init, NoneIsQuiet, Quiet, ConnectedHasThread, KnownIsListed, ReadyIsTrue
  <1>7. ReturnedIsCurrent
    BY DEF Init, ReturnedIsCurrent, NoSession
  <1>8. AbandonedIsSilent
    BY DEF Init, AbandonedIsSilent
  <1> QED BY <1>1, <1>2, <1>5, <1>6, <1>7, <1>8 DEF ClientInv

\* Every step of the application's thread keeps the invariant.
LEMMA StepKept ==
    ASSUME ClientInv, DataTypes', ClientTypeOK', NEW k \in Clients, Step(k)
    PROVE  ClientInv'
  BY ShutdownSessionKept, SendIfReadyKept, DisconnectKept, SetDisconnectingKept, ShutdownConnectionKept,
     DeleteEndpointKept, JoinKept, ResetKept, StopSessionKept, DeleteComponentKept, AbandonKept, MakeRequestKept,
     ConnectedKept, SubmitKept, ConnectSessionKept, CreateLocalKept, AwaitConnectKept, PostConnectKept,
     SetIsLocalKept, ReadyKept, SendKept, PutMessageKept, Zenon
  DEF Step

\* ClientInv is inductive.
LEMMA NextClientInv ==
    ASSUME ClientInv, [Next]_vars
    PROVE  ClientInv'
  <1>1. ClientTypeOK' /\ DataTypes'
    BY TypesKept DEF ClientInv
  <1>2. CASE Call
    BY <1>1, <1>2, CallKept
  <1>3. ASSUME NEW k \in Clients, Step(k) PROVE ClientInv'
    BY <1>1, <1>3, StepKept
  <1>4. CASE \/ \E k \in Clients : Receive(k) \/ SendThread(k) \/ RemoteClose(k)
             \/ \E s \in SessionIds : ConnectProc(s) \/ Exit(s) \/ Terminates(s)
             \/ RemoteSend
    <2>1. StayTame
      BY <1>4, BackgroundTame
    <2> QED BY <1>1, <2>1, StayKept
  <1>5. CASE UNCHANGED vars
    <2>1. StayTame
      BY <1>5 DEF StayTame, Tame, vars, clientVars, connVars
    <2> QED BY <1>1, <2>1, StayKept
  <1> QED BY <1>2, <1>3, <1>4, <1>5, Zenon DEF Next

------------------------------------------------------------------------------
\* The inductive invariant holds of every execution of the application's calls, the Clients'
\* threads, the computations and the connections (Client.cc, LocalSessions.cc).
THEOREM ClientInvariant == Spec => []ClientInv
  <1>1. Init => ClientInv
    BY InitClientInv
  <1>2. ClientInv /\ [Next]_vars => ClientInv'
    BY NextClientInv
  <1> QED BY <1>1, <1>2, PTL DEF Spec

\* Once Client::disconnect has returned, no receive or send thread of the Client is left and its
\* endpoint is gone; once ~Client has returned, the end of the local session it knew is reported
\* to nobody (Client.cc shutdownConnection, LocalSessions.cc abandonSession).
THEOREM ClientCallbacksEnd == Spec => []CallbacksEnd
  <1>1. ClientInv => CallbacksEnd
    <2> SUFFICES ASSUME ClientInv PROVE CallbacksEnd
      OBVIOUS
    <2>1. QuietWhenDisconnected
      BY DEF ClientInv, NoneIsQuiet, Quiet, QuietWhenDisconnected
    <2> QED BY <2>1 DEF ClientInv, CallbacksEnd
  <1> QED BY <1>1, ClientInvariant, PTL

\* Between calls, a local session that createSession returned and that nobody asked to end belongs
\* to a Client that is still connected to it (Client.cc shutdownConnection stops the old one).
THEOREM LocalSessionsAreStopped == Spec => []LocalStopped
  <1>1. ClientInv => LocalStopped
    BY DEF ClientInv, ReturnedIsCurrent, LocalStopped, Idle, Top
  <1> QED BY <1>1, ClientInvariant, PTL

\* Between calls, a connected Client that says its engine is ready has been told so over this
\* connection, or is connected to a local session, which is ready at once (Client.cc isEngineReady).
THEOREM ReadyIsAboutThisSession == Spec => []EngineReadyIsCurrent
  <1>1. ClientInv => EngineReadyIsCurrent
    BY DEF ClientInv, ReadyIsTrue, EngineReadyIsCurrent, Idle, Top
  <1> QED BY <1>1, ClientInvariant, PTL

\* The Clients' members stay in their types (the enums and flags of Client.h).
THEOREM ClientTypeCorrect == Spec => []ClientTypeOK
  <1>1. ClientInv => ClientTypeOK
    BY DEF ClientInv
  <1> QED BY <1>1, ClientInvariant, PTL

====
