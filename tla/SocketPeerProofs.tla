--------------------------- MODULE SocketPeerProofs ---------------------------
(***************************************************************************)
(* Sockets are owned and streams are faithful for any number of objects,   *)
(* descriptors, connections and bytes.                                     *)
(*                                                                         *)
(* Ownership is an argument about who may close: an object is closed only  *)
(* while no call is in progress on it, so a call's descriptor stays its    *)
(* object's.  The streams need ownership: a receive that resumed on a      *)
(* descriptor given to another connection would mix two streams.           *)
(***************************************************************************)
EXTENDS SocketPeer, FiniteSetTheorems, SequenceTheorems, WellFoundedInduction, TLAPS

Kinds == {"none", "inet", "ipc", "plain"}
Halves == {"read", "write", "closed"}
Descriptor == [is : {"free", "new", "listen", "conn"}, name : Names \cup {NoName}, end : Ends \cup {NoEnd}]
InCall == [op : {"receive_all"}, left : Nat, n : Nat, fd : Int, end : Ends \cup {NoEnd}]
OutCall == [op : {"send"}, left : Nat, fd : Int, end : Ends \cup {NoEnd}]

PeerTypes ==
    /\ kind \in [Peers -> Kinds]
    /\ mSocket \in [Peers -> Fds \cup {INVALID}]
    /\ mIsListening \in [Peers -> BOOLEAN]
    /\ mSocketName \in [Peers -> Names \cup {NoName}]
    /\ objects \in 0 .. MaxObjects
KernelTypes ==
    /\ fds \in [Fds -> Descriptor]
    /\ files \subseteq Names
    /\ pending \in [Names -> Seq(1 .. MaxConns)]
    /\ shut \in [Ends -> SUBSET Halves]
    /\ conns \in 0 .. MaxConns
CallTypes ==
    /\ call \in [Peers -> [{"in", "out"} -> InCall \cup OutCall \cup {NoCall}]]
    /\ \A p \in Peers : /\ call[p]["in"] \in InCall \cup {NoCall}
                        /\ call[p]["out"] \in OutCall \cup {NoCall}

\* What a descriptor that is not a connection, or not a listener, does not have.
Descriptors ==
    \A f \in Fds : /\ fds[f].is = "conn" => fds[f].end \in Ends
                   /\ fds[f].is = "listen" => fds[f].name \in Names

\* One owner for each descriptor that is not free, none for the others.
Owned ==
    /\ \A f \in Fds : fds[f].is # "free" <=> \E p \in Peers : mSocket[p] = f
    /\ \A p, q \in Peers : mSocket[p] = mSocket[q] /\ mSocket[p] # INVALID => p = q

\* An object that is not there has nothing; one that listens has a listening socket.
Lifetime ==
    \A p \in Peers :
        /\ kind[p] = "none" => /\ mSocket[p] = INVALID /\ ~mIsListening[p]
                               /\ mSocketName[p] = NoName /\ Idle(p)
        /\ mIsListening[p] => mSocket[p] # INVALID /\ fds[mSocket[p]].is = "listen"

\* The socket file an object will remove is there and is its own.
FilesOwned ==
    /\ \A p \in Peers : mSocketName[p] # NoName => mSocketName[p] \in files
    /\ \A p, q \in Peers : mSocketName[p] = mSocketName[q] /\ mSocketName[p] # NoName => p = q
    /\ \A p \in Peers : kind[p] = "ipc" /\ mIsListening[p] => mSocketName[p] # NoName

\* A call in progress is on the socket its object has now.
CallsOwned ==
    \A p \in Peers, d \in {"in", "out"} :
        call[p][d] # NoCall => /\ mSocket[p] # INVALID
                               /\ call[p][d].fd = mSocket[p]
                               /\ call[p][d].end = fds[mSocket[p]].end

OwnershipInv ==
    /\ PeerTypes /\ KernelTypes /\ CallTypes
    /\ Descriptors /\ Owned /\ Lifetime /\ FilesOwned /\ CallsOwned

\* Received and on the way make up what the other end sent, numbered from 1.
StreamTypes ==
    /\ inflight \in [Ends -> Seq(Nat)] /\ got \in [Ends -> Seq(Nat)]
    /\ sent \in [Ends -> Nat]
Continues(s, n) == \A i \in DOMAIN s : s[i] = n + i
Streams ==
    \A e \in Ends : /\ Continues(got[e], 0) /\ Continues(inflight[e], Len(got[e]))
                    /\ Len(got[e]) + Len(inflight[e]) = sent[Other(e)]

\* The inductive invariant.
SocketInv == OwnershipInv /\ StreamTypes /\ Streams /\ NoSilentCut

------------------------------------------------------------------------------
\* Some set theory.
LEMMA MinOfSet ==
    ASSUME NEW S \in SUBSET Nat, S # {}
    PROVE  Min(S) \in S /\ \A y \in S : Min(S) <= y
  <1> DEFINE R == {ss \in Nat \X Nat : ss[1] < ss[2]}
  <1>1. IsWellFoundedOn(R, Nat)
    BY NatLessThanWellFounded, Zenon DEF OpToRel
  <1>2. PICK x \in S : \A y \in S : ~(<<y, x>> \in R)
    BY <1>1, WFMin, Zenon
  <1>3. ASSUME NEW y \in S PROVE x <= y
    <2>1. x \in Nat /\ y \in Nat
      OBVIOUS
    <2>2. y < x => <<y, x>> \in R
      BY <2>1
    <2> QED BY <1>2, <2>1, <2>2
  <1> QED BY <1>2, <1>3, Zenon DEF Min

LEMMA MinOfPair ==
    ASSUME NEW a \in Int, NEW b \in Int
    PROVE  Min({a, b}) \in Int /\ Min({a, b}) <= a /\ Min({a, b}) <= b
  <1>1. \E x \in {a, b} : \A y \in {a, b} : x <= y
    OBVIOUS
  <1>2. Min({a, b}) \in {a, b} /\ \A y \in {a, b} : Min({a, b}) <= y
    BY <1>1, Zenon DEF Min
  <1> QED BY <1>2

LEMMA CreatedIsFree ==
    ASSUME NEW f, SocketCreated(f)
    PROVE  f \in Fds /\ fds[f].is = "free"
  <1>1. FreeFds \in SUBSET Nat /\ FreeFds # {}
    BY SocketAssumption DEF SocketCreated, FreeFds, Fds
  <1>2. f \in FreeFds
    BY <1>1, MinOfSet, Zenon DEF SocketCreated
  <1> QED BY <1>2 DEF FreeFds

LEMMA HeadTailType ==
    ASSUME NEW S, NEW n, NEW N, NEW s \in [N -> Seq(S)], n \in N, s[n] # <<>>
    PROVE  Head(s[n]) \in S /\ Tail(s[n]) \in Seq(S)
  OBVIOUS

LEMMA OtherEnd ==
    ASSUME NEW e \in Ends
    PROVE  Other(e) \in Ends /\ Other(e) # e /\ Other(Other(e)) = e
  BY DEF Ends, Other

------------------------------------------------------------------------------
\* What a step does to the descriptor table: it opens a socket for an object that
\* has none, closes the one of an idle object, or leaves the table alone.
Opens(p, f, d) ==
    /\ p \in Peers /\ mSocket[p] = INVALID /\ kind'[p] # "none"
    /\ f \in Fds /\ fds[f].is = "free"
    /\ d \in Descriptor /\ d.is # "free"
    /\ d.is = "conn" => d.end \in Ends
    /\ d.is = "listen" => d.name \in Names
    /\ fds' = [fds EXCEPT ![f] = d]
    /\ mSocket' = [mSocket EXCEPT ![p] = f]
    /\ \A q \in Peers : mIsListening'[q] => IF q = p THEN d.is = "listen" ELSE mIsListening[q]
    /\ UNCHANGED call

Closes(p) ==
    /\ p \in Peers /\ Idle(p)
    /\ fds' = IF mSocket[p] = INVALID THEN fds ELSE [fds EXCEPT ![mSocket[p]] = Free]
    /\ mSocket' = [mSocket EXCEPT ![p] = INVALID]
    /\ \A q \in Peers : mIsListening'[q] => q # p /\ mIsListening[q]
    /\ UNCHANGED call

Keeps == UNCHANGED <<fds, mSocket, mIsListening>>

\* A call of p starts, goes on or ends on the socket p has.
CallStep(p, d) ==
    /\ call'[p][d] # NoCall => /\ mSocket[p] # INVALID
                               /\ call'[p][d].fd = mSocket[p]
                               /\ call'[p][d].end = fds[mSocket[p]].end
    /\ \A q \in Peers, g \in {"in", "out"} : q # p \/ g # d => call'[q][g] = call[q][g]

LEMMA FreeIsDescriptor == Free \in Descriptor /\ Free.is = "free"
  BY DEF Free, Descriptor

\* Opening.
LEMMA ListenOpens ==
    ASSUME OwnershipInv, NEW p \in Peers, NEW n \in Names, NEW f, SocketCreated(f), Listening(p, f, n),
           mSocket[p] = INVALID, kind'[p] # "none", UNCHANGED call
    PROVE  \E d : Opens(p, f, d)
  <1> DEFINE d == [is |-> "listen", name |-> n, end |-> NoEnd]
  <1>1. f \in Fds /\ fds[f].is = "free"
    BY CreatedIsFree, Zenon
  <1>2. d \in Descriptor /\ d.is = "listen" /\ d.name \in Names
    BY DEF Descriptor
  <1>3. \A q \in Peers : mIsListening'[q] => IF q = p THEN d.is = "listen" ELSE mIsListening[q]
    BY DEF Listening, OwnershipInv, PeerTypes
  <1>4. fds' = [fds EXCEPT ![f] = d] /\ mSocket' = [mSocket EXCEPT ![p] = f]
    BY Zenon DEF Listening
  <1> HIDE DEF d
  <1>5. Opens(p, f, d)
    BY <1>1, <1>2, <1>3, <1>4 DEF Opens
  <1> QED BY <1>5, Zenon

LEMMA ConnectOpens ==
    ASSUME OwnershipInv, NEW p \in Peers, NEW n \in Names,
           (kind[p] = "inet" /\ ConnectInet(p, n)) \/ (kind[p] = "ipc" /\ ConnectIPC(p, n))
    PROVE  \E f, d : Opens(p, f, d)
  <1>1. PICK f \in Fds, d \in {[is |-> "conn", name |-> NoName, end |-> <<conns + 1, "client">>],
                               [is |-> "new", name |-> NoName, end |-> NoEnd]} :
          /\ SocketCreated(f)
          /\ fds' = [fds EXCEPT ![f] = d] /\ mSocket' = [mSocket EXCEPT ![p] = f]
          /\ d.is = "conn" => conns < MaxConns
    BY DEF ConnectInet, ConnectIPC, Connected
  <1>2. fds[f].is = "free"
    BY <1>1, CreatedIsFree, Zenon
  <1>3. d \in Descriptor /\ d.is \in {"new", "conn"} /\ (d.is = "conn" => d.end \in Ends)
    BY <1>1, SocketAssumption DEF Descriptor, OwnershipInv, KernelTypes, Ends
  <1>4. mSocket[p] = INVALID /\ kind' = kind /\ mIsListening' = mIsListening /\ call' = call
    BY Zenon DEF ConnectInet, ConnectIPC
  <1>5. ~mIsListening[p]
    BY <1>4, Zenon DEF OwnershipInv, Lifetime
  <1>6. Opens(p, f, d)
    BY <1>1, <1>2, <1>3, <1>4, <1>5 DEF Opens
  <1> QED BY <1>6, Zenon

LEMMA AcceptOpens ==
    ASSUME OwnershipInv, NEW p \in Peers, NEW q \in Peers, Accept(p, q)
    PROVE  \/ Keeps /\ UNCHANGED <<call, kind>>
           \/ \E f, d : Opens(q, f, d)
  <1> DEFINE n == fds[mSocket[p]].name
             e == <<Head(pending[n]), "server">>
  <1>1. n \in Names /\ pending[n] # <<>>
    BY DEF Accept, AcceptReady, Alive, OwnershipInv, Lifetime, PeerTypes, KernelTypes, Descriptors
  <1>2. e \in Ends
    <2>1. Head(pending[n]) \in 1 .. MaxConns
      BY <1>1, HeadTailType, Zenon DEF OwnershipInv, KernelTypes
    <2> QED BY <2>1 DEF Ends
  <1>3. UNCHANGED <<mIsListening, call>>
    BY Zenon DEF Accept
  <1>4. CASE UNCHANGED <<fds, kind, mSocket>>
    BY <1>3, <1>4, Zenon DEF Keeps
  <1>5. CASE \E f \in Fds : SocketCreated(f) /\ Wrapped(q, f, e)
    <2>1. PICK f \in Fds : SocketCreated(f) /\ Wrapped(q, f, e)
      BY <1>5
    <2> DEFINE d == [is |-> "conn", name |-> NoName, end |-> e]
    <2>2. fds[f].is = "free"
      BY <2>1, CreatedIsFree, Zenon
    <2>3. d \in Descriptor /\ d.is = "conn" /\ d.end \in Ends
      BY <1>2 DEF Descriptor
    <2>4. fds' = [fds EXCEPT ![f] = d] /\ mSocket' = [mSocket EXCEPT ![q] = f] /\ kind'[q] = "plain"
      BY <2>1 DEF Wrapped, OwnershipInv, PeerTypes
    <2>5. mSocket[q] = INVALID /\ ~mIsListening[q]
      BY Zenon DEF Accept, FirstFree, OwnershipInv, Lifetime
    <2> HIDE DEF d
    <2>6. Opens(q, f, d)
      BY <1>3, <2>1, <2>2, <2>3, <2>4, <2>5 DEF Opens
    <2> QED BY <2>6, Zenon
  <1> QED BY <1>4, <1>5, Zenon DEF Accept

\* Closing.
LEMMA CloseCloses ==
    ASSUME OwnershipInv, NEW p \in Peers, Idle(p), CloseSocket(p), UNCHANGED call
    PROVE  Closes(p)
  <1>1. \A q \in Peers : mIsListening'[q] => q # p /\ mIsListening[q]
    BY DEF CloseSocket, OwnershipInv, PeerTypes
  <1>2. fds' = IF mSocket[p] = INVALID THEN fds ELSE [fds EXCEPT ![mSocket[p]] = Free]
    BY DEF CloseSocket, Close
  <1> QED BY <1>1, <1>2 DEF Closes, CloseSocket

------------------------------------------------------------------------------
\* Calls.
LEMMA SetCallType ==
    ASSUME CallTypes, NEW p \in Peers, NEW d \in {"in", "out"}, NEW c, SetCall(p, d, c),
           c \in (IF d = "in" THEN InCall ELSE OutCall) \cup {NoCall}
    PROVE  /\ CallTypes' /\ call'[p][d] = c
           /\ \A q \in Peers, g \in {"in", "out"} : q # p \/ g # d => call'[q][g] = call[q][g]
  BY DEF CallTypes, SetCall

LEMMA CallIsRecord ==
    ASSUME NEW c
    PROVE  /\ c \in InCall => c.left \in Nat /\ c.n \in Nat /\ c # NoCall
           /\ c \in OutCall => c.left \in Nat /\ c # NoCall
  BY DEF InCall, OutCall, NoCall

LEMMA SendCall ==
    ASSUME OwnershipInv, NEW p \in Peers, NEW n \in 1 .. MaxBytes, Send(p, n)
    PROVE  CallTypes' /\ CallStep(p, "out")
  <1> DEFINE c == [op |-> "send", left |-> n, fd |-> mSocket[p], end |-> fds[mSocket[p]].end]
  <1>1. mSocket[p] # INVALID /\ SetCall(p, "out", c)
    BY Zenon DEF Send
  <1>2. mSocket[p] \in Fds
    BY <1>1 DEF OwnershipInv, PeerTypes
  <1>3. fds[mSocket[p]].end \in Ends \cup {NoEnd}
    BY <1>2 DEF OwnershipInv, KernelTypes, Descriptor
  <1>4. c \in OutCall
    BY <1>2, <1>3, SocketAssumption DEF OutCall, Fds
  <1>5. c.fd = mSocket[p] /\ c.end = fds[mSocket[p]].end
    OBVIOUS
  <1> HIDE DEF c
  <1>6. /\ CallTypes' /\ call'[p]["out"] = c
        /\ \A q \in Peers, g \in {"in", "out"} : q # p \/ g # "out" => call'[q][g] = call[q][g]
    BY <1>1, <1>4, SetCallType, Zenon DEF OwnershipInv
  <1> QED BY <1>1, <1>5, <1>6, Zenon DEF CallStep

LEMMA ReceiveAllCall ==
    ASSUME OwnershipInv, NEW p \in Peers, NEW n \in 1 .. MaxBytes, ReceiveAll(p, n)
    PROVE  CallTypes' /\ CallStep(p, "in")
  <1> DEFINE c == [op |-> "receive_all", left |-> n, n |-> n, fd |-> mSocket[p], end |-> fds[mSocket[p]].end]
  <1>1. mSocket[p] # INVALID /\ SetCall(p, "in", c)
    BY Zenon DEF ReceiveAll
  <1>2. mSocket[p] \in Fds
    BY <1>1 DEF OwnershipInv, PeerTypes
  <1>3. fds[mSocket[p]].end \in Ends \cup {NoEnd}
    BY <1>2 DEF OwnershipInv, KernelTypes, Descriptor
  <1>4. c \in InCall
    BY <1>2, <1>3, SocketAssumption DEF InCall, Fds
  <1>5. c.fd = mSocket[p] /\ c.end = fds[mSocket[p]].end
    OBVIOUS
  <1> HIDE DEF c
  <1>6. /\ CallTypes' /\ call'[p]["in"] = c
        /\ \A q \in Peers, g \in {"in", "out"} : q # p \/ g # "in" => call'[q][g] = call[q][g]
    BY <1>1, <1>4, SetCallType, Zenon DEF OwnershipInv
  <1> QED BY <1>1, <1>5, <1>6, Zenon DEF CallStep

\* A call that ends.
LEMMA CallEnds ==
    ASSUME OwnershipInv, NEW p \in Peers, NEW d \in {"in", "out"}, SetCall(p, d, NoCall)
    PROVE  CallTypes' /\ CallStep(p, d)
  <1>1. /\ CallTypes' /\ call'[p][d] = NoCall
        /\ \A q \in Peers, g \in {"in", "out"} : q # p \/ g # d => call'[q][g] = call[q][g]
    BY SetCallType, Zenon DEF OwnershipInv
  <1> QED BY <1>1, Zenon DEF CallStep

\* What a call in progress is on.
LEMMA CallOnSocket ==
    ASSUME OwnershipInv, NEW p \in Peers, NEW d \in {"in", "out"}, call[p][d] # NoCall
    PROVE  /\ mSocket[p] \in Fds
           /\ call[p][d].fd = mSocket[p]
           /\ call[p][d].end = fds[mSocket[p]].end
           /\ call[p][d] \in (IF d = "in" THEN InCall ELSE OutCall)
           /\ call[p][d].left \in Nat
  BY CallIsRecord DEF OwnershipInv, CallsOwned, CallTypes, PeerTypes

\* What the kernel returns.
LEMMA SendResults ==
    ASSUME StreamTypes, Descriptors, NEW f \in Fds, NEW n \in Nat, NEW r \in SendResult(f, n)
    PROVE  r = EPIPE \/ (fds[f].is = "conn" /\ fds[f].end \in Ends /\ r \in 1 .. n)
  <1>1. CASE fds[f].is = "conn"
    <2> DEFINE e == fds[f].end
               room == SockBuf - Len(inflight[Other(e)])
    <2>1. e \in Ends
      BY <1>1 DEF Descriptors
    <2>2. Other(e) \in Ends
      BY <2>1, OtherEnd
    <2>3. room \in Int /\ n \in Int
      BY <2>2, SocketAssumption DEF StreamTypes
    <2>4. Min({n, room}) \in Int /\ Min({n, room}) <= n
      BY <2>3, MinOfPair, Zenon
    <2>5. r = EPIPE \/ r \in 1 .. Min({n, room})
      BY <1>1 DEF SendResult
    <2> QED BY <1>1, <2>1, <2>4, <2>5
  <1>2. CASE fds[f].is # "conn"
    BY <1>2 DEF SendResult
  <1> QED BY <1>1, <1>2

LEMMA RecvResults ==
    ASSUME StreamTypes, Descriptors, NEW f \in Fds, NEW n \in Nat, NEW r \in Recv(f, n)
    PROVE  \/ r \in {ENOTCONN, ECONNRESET, 0}
           \/ /\ fds[f].is = "conn" /\ fds[f].end \in Ends
              /\ r \in 1 .. n /\ r <= Len(inflight[fds[f].end])
  <1>1. CASE fds[f].is = "conn"
    <2> DEFINE e == fds[f].end
               ready == Len(inflight[e])
    <2>1. e \in Ends
      BY <1>1 DEF Descriptors
    <2>2. ready \in Int /\ n \in Int
      BY <2>1 DEF StreamTypes
    <2>3. Min({n, ready}) \in Int /\ Min({n, ready}) <= n /\ Min({n, ready}) <= ready
      BY <2>2, MinOfPair, Zenon
    <2>4. r \in {0, ECONNRESET} \/ r \in 1 .. Min({n, ready})
      BY <1>1 DEF Recv
    <2> QED BY <1>1, <2>1, <2>2, <2>3, <2>4
  <1>2. CASE fds[f].is # "conn"
    BY <1>2 DEF Recv
  <1> QED BY <1>1, <1>2

LEMMA SendStepCall ==
    ASSUME OwnershipInv, StreamTypes, NEW p \in Peers, SendStep(p)
    PROVE  CallTypes' /\ CallStep(p, "out")
  <1> DEFINE c == call[p]["out"]
  <1>1. /\ mSocket[p] \in Fds /\ c.fd = mSocket[p] /\ c.end = fds[mSocket[p]].end
        /\ c \in OutCall /\ c.left \in Nat
    BY CallOnSocket DEF SendStep
  <1>2. PICK r \in SendResult(c.fd, c.left) :
          IF r > 0 THEN SetCall(p, "out", IF c.left = r THEN NoCall
                                          ELSE [c EXCEPT !.left = @ - r, !.fd = mSocket[p]])
                   ELSE SetCall(p, "out", NoCall)
    BY Zenon DEF SendStep
  <1>3. r = EPIPE \/ r \in 1 .. c.left
    BY <1>1, <1>2, SendResults, Zenon DEF OwnershipInv
  <1>4. CASE SetCall(p, "out", NoCall)
    BY <1>4, CallEnds, Zenon
  <1>5. CASE r > 0 /\ SetCall(p, "out", [c EXCEPT !.left = @ - r, !.fd = mSocket[p]])
    <2> DEFINE g == [c EXCEPT !.left = @ - r, !.fd = mSocket[p]]
    <2>a. c.left - r \in Nat /\ mSocket[p] \in Int /\ r \in Int
      BY <1>1, <1>3, <1>5, SocketAssumption DEF EPIPE, Fds
    <2>b. g = [c EXCEPT !.left = @ - r, !.fd = mSocket[p]]
      OBVIOUS
    <2> HIDE DEF g, c
    <2>1. g \in OutCall /\ g.fd = mSocket[p] /\ g.end = fds[mSocket[p]].end
      BY <1>1, <2>a, <2>b DEF OutCall
    <2> USE DEF c
    <2>2. mSocket[p] # INVALID
      BY <1>1, SocketAssumption DEF Fds, INVALID
    <2>3. /\ CallTypes' /\ call'[p]["out"] = g
          /\ \A q \in Peers, h \in {"in", "out"} : q # p \/ h # "out" => call'[q][h] = call[q][h]
      BY <1>5, <2>1, SetCallType, Zenon DEF OwnershipInv, g
    <2> QED BY <2>1, <2>2, <2>3, Zenon DEF CallStep
  <1> QED BY <1>2, <1>4, <1>5, Zenon

LEMMA ReceiveStepCall ==
    ASSUME OwnershipInv, StreamTypes, NEW p \in Peers, ReceiveStep(p)
    PROVE  CallTypes' /\ CallStep(p, "in")
  <1> DEFINE c == call[p]["in"]
             g(r) == [c EXCEPT !.left = @ - r, !.fd = mSocket[p]]
  <1>1. /\ mSocket[p] \in Fds /\ c.fd = mSocket[p] /\ c.end = fds[mSocket[p]].end
        /\ c \in InCall /\ c.left \in Nat
    BY CallOnSocket DEF ReceiveStep
  <1>2. PICK r \in Recv(c.fd, c.left) :
          SetCall(p, "in", NoCall) \/ (r > 0 /\ SetCall(p, "in", g(r)))
    BY DEF ReceiveStep, EndOfStream, Return
  <1>3. r \in {ENOTCONN, ECONNRESET, 0} \/ r \in 1 .. c.left
    BY <1>1, <1>2, RecvResults, Zenon DEF OwnershipInv
  <1>4. CASE SetCall(p, "in", NoCall)
    BY <1>4, CallEnds, Zenon
  <1>5. CASE r > 0 /\ SetCall(p, "in", g(r))
    <2>1. c.left - r \in Nat /\ mSocket[p] \in Int /\ mSocket[p] # INVALID
      BY <1>1, <1>3, <1>5, SocketAssumption DEF ENOTCONN, ECONNRESET, Fds, INVALID
    <2> HIDE DEF c
    <2>2. g(r) \in InCall /\ g(r).fd = mSocket[p] /\ g(r).end = fds[mSocket[p]].end
      BY <1>1, <2>1 DEF InCall
    <2> HIDE DEF g
    <2>3. /\ CallTypes' /\ call'[p]["in"] = g(r)
          /\ \A q \in Peers, h \in {"in", "out"} : q # p \/ h # "in" => call'[q][h] = call[q][h]
      BY <1>5, <2>2, SetCallType, Zenon DEF OwnershipInv
    <2> QED BY <2>1, <2>2, <2>3, Zenon DEF CallStep
  <1> QED BY <1>2, <1>4, <1>5, Zenon

\* Every step keeps the types of the calls, and touches at most one of them.
CallOf(p) == \E n \in 1 .. MaxBytes : Send(p, n) \/ ReceiveAll(p, n)
CallAction(p) == CallOf(p) \/ SendStep(p) \/ ReceiveStep(p) \/ ReceiveTimeout(p)

LEMMA CallActions ==
    ASSUME OwnershipInv, StreamTypes, NEW p \in Peers, CallAction(p)
    PROVE  /\ CallTypes' /\ \E d \in {"in", "out"} : CallStep(p, d)
           /\ UNCHANGED <<peerVars, fds, files, pending, shut, conns>>
  <1>1. ASSUME NEW n \in 1 .. MaxBytes, Send(p, n) PROVE CallTypes' /\ CallStep(p, "out")
    BY <1>1, SendCall, Zenon
  <1>2. ASSUME NEW n \in 1 .. MaxBytes, ReceiveAll(p, n) PROVE CallTypes' /\ CallStep(p, "in")
    BY <1>2, ReceiveAllCall, Zenon
  <1>3. SendStep(p) => CallTypes' /\ CallStep(p, "out")
    BY SendStepCall, Zenon
  <1>4. ReceiveStep(p) => CallTypes' /\ CallStep(p, "in")
    BY ReceiveStepCall, Zenon
  <1>5. ReceiveTimeout(p) => CallTypes' /\ CallStep(p, "in")
    BY CallEnds, Zenon DEF ReceiveTimeout, Return
  <1>6. CallTypes' /\ \E d \in {"in", "out"} : CallStep(p, d)
    BY <1>1, <1>2, <1>3, <1>4, <1>5, Zenon DEF CallAction, CallOf
  <1>7. UNCHANGED <<peerVars, fds, files, pending, shut, conns>>
    BY Zenon DEF CallAction, CallOf, Send, ReceiveAll, SendStep, ReceiveStep, ReceiveTimeout, kernelVars
  <1> QED BY <1>6, <1>7, Zenon

------------------------------------------------------------------------------
\* The actions that are not calls.
ShutAction(p) == ThreadSafeShutdown(p) \/ ShutdownSend(p) \/ ShutdownReceive(p)
CloseAction(p) == Shutdown(p) \/ PollError(p) \/ Destroy(p)
ListenAction(p, n) == (n \in Ports /\ ListenInet(p, n)) \/ (n \in Paths /\ ListenIPC(p, n))
ConnectAction(p, n) == (n \in Ports /\ ConnectInet(p, n)) \/ (n \in Paths /\ ConnectIPC(p, n))
NewAction(p) == \E k \in {"inet", "ipc"} : New(p, k)

LEMMA ActionKinds ==
    ASSUME Next
    PROVE  \E p \in Peers :
             \/ NewAction(p) \/ ShutAction(p) \/ CloseAction(p) \/ CallAction(p)
             \/ \E n \in Names : ListenAction(p, n) \/ ConnectAction(p, n)
             \/ \E q \in Peers : Accept(p, q)
  BY Zenon DEF Next, NewAction, ShutAction, CloseAction, CallAction, CallOf, ListenAction, ConnectAction, Names

\* Objects come to life without a socket, and a socket is opened for a live one.
LEMMA TableEffect ==
    ASSUME OwnershipInv, StreamTypes, [Next]_vars
    PROVE  \/ \E p \in Peers : Closes(p)
           \/ \E p \in Peers : \E f, d : Opens(p, f, d)
           \/ Keeps /\ UNCHANGED call
           \/ Keeps /\ \E p \in Peers, d \in {"in", "out"} : CallStep(p, d)
  <1>1. CASE UNCHANGED vars
    BY <1>1, Zenon DEF vars, peerVars, kernelVars, Keeps
  <1>2. ASSUME NEW p \in Peers, NewAction(p) \/ ShutAction(p)
        PROVE  Keeps /\ UNCHANGED call
    BY <1>2, Zenon DEF NewAction, New, ShutAction, ThreadSafeShutdown, ShutdownSend, ShutdownReceive,
                       peerVars, kernelVars, Keeps
  <1>3. ASSUME NEW p \in Peers, CloseAction(p)
        PROVE  Closes(p)
    BY <1>3, CloseCloses, Zenon DEF CloseAction, Shutdown, PollError, Destroy
  <1>4. ASSUME NEW p \in Peers, CallAction(p)
        PROVE  Keeps /\ \E d \in {"in", "out"} : CallStep(p, d)
    BY <1>4, CallActions, Zenon DEF Keeps, peerVars
  <1>5. ASSUME NEW p \in Peers, NEW n \in Names, ListenAction(p, n)
        PROVE  (Keeps /\ UNCHANGED call) \/ \E f, d : Opens(p, f, d)
    <2>1. kind[p] # "none" /\ mSocket[p] = INVALID /\ UNCHANGED <<kind, call>>
      BY <1>5 DEF ListenAction, ListenInet, ListenIPC
    <2>2. \/ UNCHANGED <<fds, mSocket, mIsListening>>
          \/ \E f \in Fds : SocketCreated(f) /\ Listening(p, f, n)
      BY <1>5, Zenon DEF ListenAction, ListenInet, ListenIPC
    <2> QED BY <2>1, <2>2, ListenOpens, Zenon DEF Keeps
  <1>6. ASSUME NEW p \in Peers, NEW n \in Names, ConnectAction(p, n)
        PROVE  \E f, d : Opens(p, f, d)
    <2>1. (kind[p] = "inet" /\ ConnectInet(p, n)) \/ (kind[p] = "ipc" /\ ConnectIPC(p, n))
      BY <1>6, Zenon DEF ConnectAction, ConnectInet, ConnectIPC
    <2> QED BY <2>1, ConnectOpens, Zenon
  <1>7. ASSUME NEW p \in Peers, NEW q \in Peers, Accept(p, q)
        PROVE  (Keeps /\ UNCHANGED call) \/ \E f, d : Opens(q, f, d)
    BY <1>7, AcceptOpens, Zenon
  <1> QED BY <1>1, <1>2, <1>3, <1>4, <1>5, <1>6, <1>7, ActionKinds, Zenon

\* The table's invariants, by what happens to the table.
TableInv == Descriptors /\ Owned /\ CallsOwned
TableTypes == mSocket \in [Peers -> Fds \cup {INVALID}] /\ fds \in [Fds -> Descriptor]

LEMMA TableStep ==
    ASSUME OwnershipInv, StreamTypes, [Next]_vars
    PROVE  TableInv' /\ TableTypes'
  <1> USE DEF TableInv, TableTypes, Descriptors, Owned, CallsOwned, OwnershipInv, PeerTypes, KernelTypes
  <1>1. ASSUME NEW p \in Peers, Closes(p)
        PROVE  TableInv' /\ TableTypes'
    <2>1. TableTypes'
      BY <1>1, FreeIsDescriptor DEF Closes
    <2>2. Descriptors'
      BY <1>1, FreeIsDescriptor DEF Closes
    <2>3. Owned'
      BY <1>1, <2>1, FreeIsDescriptor, SocketAssumption DEF Closes, INVALID, Fds
    <2>4. CallsOwned'
      BY <1>1 DEF Closes, Idle
    <2> QED BY <2>1, <2>2, <2>3, <2>4
  <1>2. ASSUME NEW p \in Peers, NEW f, NEW d, Opens(p, f, d)
        PROVE  TableInv' /\ TableTypes'
    <2>1. TableTypes'
      BY <1>2 DEF Opens
    <2>2. Descriptors'
      BY <1>2 DEF Opens
    <2>3. Owned'
      BY <1>2, SocketAssumption DEF Opens, INVALID, Fds
    <2>4. CallsOwned'
      BY <1>2, SocketAssumption DEF Opens, INVALID, Fds
    <2> QED BY <2>1, <2>2, <2>3, <2>4
  <1>3. CASE Keeps /\ UNCHANGED call
    BY <1>3 DEF Keeps
  <1>4. ASSUME Keeps, NEW p \in Peers, NEW d \in {"in", "out"}, CallStep(p, d)
        PROVE  TableInv' /\ TableTypes'
    BY <1>4 DEF Keeps, CallStep
  <1> QED BY <1>1, <1>2, <1>3, <1>4, TableEffect, Zenon

\* The other types.
LEMMA CallTypesStep ==
    ASSUME OwnershipInv, StreamTypes, [Next]_vars
    PROVE  CallTypes'
  <1>1. ASSUME UNCHANGED call PROVE CallTypes'
    BY <1>1 DEF OwnershipInv, CallTypes
  <1>2. ASSUME NEW p \in Peers, CallAction(p) PROVE CallTypes'
    BY <1>2, CallActions, Zenon
  <1>3. ASSUME NEW p \in Peers, \/ NewAction(p) \/ ShutAction(p) \/ CloseAction(p)
                                \/ \E n \in Names : ListenAction(p, n) \/ ConnectAction(p, n)
                                \/ \E q \in Peers : Accept(p, q)
        PROVE  UNCHANGED call
    BY <1>3, Zenon DEF NewAction, New, ShutAction, ThreadSafeShutdown, ShutdownSend, ShutdownReceive,
         CloseAction, Shutdown, PollError, Destroy, ListenAction, ListenInet, ListenIPC,
         ConnectAction, ConnectInet, ConnectIPC, Accept
  <1> QED BY <1>1, <1>2, <1>3, ActionKinds, Zenon DEF vars

LEMMA PeerTypesStep ==
    ASSUME OwnershipInv, StreamTypes, TableTypes', [Next]_vars
    PROVE  PeerTypes'
  <1> USE DEF OwnershipInv, PeerTypes, TableTypes, Kinds
  <1>1. CASE UNCHANGED vars
    BY <1>1 DEF vars, peerVars
  <1>2. ASSUME NEW p \in Peers, NewAction(p)
        PROVE  PeerTypes'
    BY <1>2, SocketAssumption DEF NewAction, New
  <1>3. ASSUME NEW p \in Peers, ShutAction(p) \/ CallAction(p)
        PROVE  PeerTypes'
    <2>1. UNCHANGED peerVars
      BY <1>3, CallActions, Zenon DEF ShutAction, ThreadSafeShutdown, ShutdownSend, ShutdownReceive
    <2> QED BY <2>1 DEF peerVars
  <1>4. ASSUME NEW p \in Peers, CloseAction(p)
        PROVE  PeerTypes'
    BY <1>4 DEF CloseAction, Shutdown, PollError, Destroy, CloseSocket
  <1>5. ASSUME NEW p \in Peers, NEW n \in Names, ListenAction(p, n) \/ ConnectAction(p, n)
        PROVE  PeerTypes'
    BY <1>5 DEF ListenAction, ConnectAction, ListenInet, ListenIPC, ConnectInet, ConnectIPC, Listening
  <1>6. ASSUME NEW p \in Peers, NEW q \in Peers, Accept(p, q)
        PROVE  PeerTypes'
    BY <1>6, SocketAssumption DEF Accept, Wrapped
  <1> QED BY <1>1, <1>2, <1>3, <1>4, <1>5, <1>6, ActionKinds, Zenon

LEMMA LifetimeStep ==
    ASSUME OwnershipInv, StreamTypes, TableTypes', CallsOwned', PeerTypes', [Next]_vars
    PROVE  Lifetime'
  <1> USE DEF OwnershipInv, PeerTypes, Lifetime, Idle
  <1>1. CASE UNCHANGED vars
    BY <1>1 DEF vars, peerVars, kernelVars
  <1>2. ASSUME NEW p \in Peers, NewAction(p)
        PROVE  Lifetime'
    BY <1>2 DEF NewAction, New, FirstFree, kernelVars
  <1>3. ASSUME NEW p \in Peers, ShutAction(p)
        PROVE  Lifetime'
    BY <1>3 DEF ShutAction, ThreadSafeShutdown, ShutdownSend, ShutdownReceive, peerVars
  <1>4. ASSUME NEW p \in Peers, CallAction(p)
        PROVE  Lifetime'
    <2>1. UNCHANGED peerVars /\ UNCHANGED fds
      BY <1>4, CallActions, Zenon
    <2> QED BY <2>1 DEF peerVars, CallsOwned
  <1>5. ASSUME NEW p \in Peers, CloseAction(p)
        PROVE  Lifetime'
    <2>1. Closes(p)
      BY <1>5, CloseCloses, Zenon DEF CloseAction, Shutdown, PollError, Destroy
    <2>2. \A q \in Peers : q # p => kind'[q] = kind[q] /\ mSocketName'[q] = mSocketName[q]
      BY <1>5 DEF CloseAction, Shutdown, PollError, Destroy
    <2>3. kind'[p] = "none" => mSocketName'[p] = NoName
      BY <1>5 DEF CloseAction, Shutdown, PollError, Destroy, Alive
    <2>4. \A q \in Peers : mIsListening'[q] => q # p /\ mSocket'[q] = mSocket[q] /\ mIsListening[q]
      BY <2>1 DEF Closes
    <2>5. \A q \in Peers : mIsListening'[q] => fds'[mSocket[q]] = fds[mSocket[q]]
      BY <2>1, <2>4 DEF Closes, Owned, KernelTypes
    <2>6. \A q \in Peers : kind'[q] = "none" => mSocket'[q] = INVALID /\ ~mIsListening'[q] /\ mSocketName'[q] = NoName
      BY <2>1, <2>2, <2>3 DEF Closes
    <2>7. \A q \in Peers : kind'[q] = "none" => call'[q]["in"] = NoCall /\ call'[q]["out"] = NoCall
      BY <2>1, <2>2 DEF Closes
    <2> QED BY <2>4, <2>5, <2>6, <2>7
  <1>6. ASSUME NEW p \in Peers, NEW f, NEW d, Opens(p, f, d),
               \A q \in Peers : q # p => kind'[q] = kind[q] /\ mSocketName'[q] = mSocketName[q]
        PROVE  Lifetime'
    <2>1. f \in Fds /\ f # INVALID
      BY <1>6, SocketAssumption DEF Opens, Fds, INVALID
    <2>2. ASSUME NEW q \in Peers, mIsListening'[q]
          PROVE  mSocket'[q] # INVALID /\ fds'[mSocket'[q]].is = "listen"
      <3>1. CASE q = p
        BY <1>6, <2>1, <2>2, <3>1 DEF Opens, KernelTypes
      <3>2. CASE q # p
        BY <1>6, <2>2, <3>2 DEF Opens, KernelTypes
      <3> QED BY <3>1, <3>2
    <2>3. ASSUME NEW q \in Peers, kind'[q] = "none"
          PROVE  /\ mSocket'[q] = INVALID /\ ~mIsListening'[q] /\ mSocketName'[q] = NoName
                 /\ call'[q]["in"] = NoCall /\ call'[q]["out"] = NoCall
      BY <1>6, <2>3 DEF Opens
    <2> QED BY <2>2, <2>3
  <1>7. ASSUME NEW p \in Peers, NEW n \in Names, ListenAction(p, n) \/ ConnectAction(p, n)
        PROVE  Lifetime'
    <2>1. \A q \in Peers : q # p => kind'[q] = kind[q] /\ mSocketName'[q] = mSocketName[q]
      BY <1>7 DEF ListenAction, ConnectAction, ListenInet, ListenIPC, ConnectInet, ConnectIPC
    <2>2. kind[p] # "none" /\ mSocket[p] = INVALID /\ UNCHANGED <<kind, call>>
      BY <1>7 DEF ListenAction, ConnectAction, ListenInet, ListenIPC, ConnectInet, ConnectIPC
    <2>3. CASE UNCHANGED <<fds, mSocket, mIsListening>>
      BY <2>1, <2>2, <2>3
    <2>4. CASE ~UNCHANGED <<fds, mSocket, mIsListening>>
      <3>1. \E f, d : Opens(p, f, d)
        BY <1>7, <2>2, <2>4, ListenOpens, ConnectOpens, Zenon
           DEF ListenAction, ConnectAction, ListenInet, ListenIPC, ConnectInet, ConnectIPC
      <3> QED BY <1>6, <2>1, <3>1, Zenon
    <2> QED BY <2>3, <2>4
  <1>8. ASSUME NEW p \in Peers, NEW q \in Peers, Accept(p, q)
        PROVE  Lifetime'
    <2>1. \A r \in Peers : r # q => kind'[r] = kind[r] /\ mSocketName'[r] = mSocketName[r]
      BY <1>8 DEF Accept, Wrapped
    <2>2. UNCHANGED <<mSocketName, call>>
      BY <1>8, Zenon DEF Accept
    <2>3. CASE Keeps /\ UNCHANGED <<call, kind>>
      BY <2>2, <2>3 DEF Keeps
    <2> QED BY <1>6, <1>8, <2>1, <2>3, AcceptOpens, Zenon
  <1> QED BY <1>1, <1>2, <1>3, <1>4, <1>5, <1>7, <1>8, ActionKinds, Zenon

\* Socket files: only ListenIPC makes one, under a name no file has; only the
\* destructor removes one, and no other object has that name.
LEMMA FilesStep ==
    ASSUME OwnershipInv, StreamTypes, PeerTypes', [Next]_vars
    PROVE  FilesOwned' /\ files' \subseteq Names
  <1> USE DEF OwnershipInv, PeerTypes, KernelTypes, FilesOwned
  <1>1. ASSUME UNCHANGED <<kind, mIsListening, mSocketName, files>>
        PROVE  FilesOwned' /\ files' \subseteq Names
    BY <1>1
  <1>2. CASE UNCHANGED vars
    BY <1>1, <1>2, Zenon DEF vars, peerVars, kernelVars
  <1>3. ASSUME NEW p \in Peers, NewAction(p)
        PROVE  FilesOwned' /\ files' \subseteq Names
    BY <1>3 DEF NewAction, New, FirstFree, Lifetime, kernelVars
  <1>4. ASSUME NEW p \in Peers, ShutAction(p) \/ CallAction(p)
        PROVE  FilesOwned' /\ files' \subseteq Names
    <2>1. UNCHANGED peerVars /\ UNCHANGED files
      BY <1>4, CallActions, Zenon DEF ShutAction, ThreadSafeShutdown, ShutdownSend, ShutdownReceive
    <2> QED BY <1>1, <2>1, Zenon DEF peerVars
  <1>5. ASSUME NEW p \in Peers, CloseAction(p)
        PROVE  FilesOwned' /\ files' \subseteq Names
    BY <1>5 DEF CloseAction, Shutdown, PollError, Destroy, CloseSocket
  <1>6. ASSUME NEW p \in Peers, NEW n \in Names, ListenAction(p, n)
        PROVE  FilesOwned' /\ files' \subseteq Names
    <2>1. CASE n \in Ports /\ ListenInet(p, n)
      BY <2>1 DEF ListenInet, Listening
    <2>2. CASE n \in Paths /\ ListenIPC(p, n)
      BY <2>2, SocketAssumption DEF ListenIPC, Listening, InUse, Names
    <2> QED BY <1>6, <2>1, <2>2 DEF ListenAction
  <1>7. ASSUME NEW p \in Peers, NEW n \in Names, ConnectAction(p, n)
        PROVE  FilesOwned' /\ files' \subseteq Names
    BY <1>1, <1>7, Zenon DEF ConnectAction, ConnectInet, ConnectIPC
  <1>8. ASSUME NEW p \in Peers, NEW q \in Peers, Accept(p, q)
        PROVE  FilesOwned' /\ files' \subseteq Names
    BY <1>8 DEF Accept, Wrapped
  <1> QED BY <1>2, <1>3, <1>4, <1>5, <1>6, <1>7, <1>8, ActionKinds, Zenon

LEMMA PendingAppend ==
    ASSUME NEW S, NEW s \in Seq(S), NEW x \in S
    PROVE  Append(s, x) \in Seq(S)
  OBVIOUS

LEMMA KernelTypesStep ==
    ASSUME OwnershipInv, StreamTypes, TableTypes', PeerTypes', [Next]_vars
    PROVE  KernelTypes'
  <1> USE DEF OwnershipInv, TableTypes
  <1>1. fds' \in [Fds -> Descriptor] /\ files' \subseteq Names
    BY FilesStep
  <1>2. ASSUME UNCHANGED <<pending, shut, conns>> PROVE KernelTypes'
    BY <1>1, <1>2 DEF KernelTypes
  <1>3. CASE UNCHANGED vars
    BY <1>2, <1>3, Zenon DEF vars, kernelVars
  <1>4. ASSUME NEW p \in Peers, NewAction(p) \/ CallAction(p)
        PROVE  KernelTypes'
    BY <1>2, <1>4, CallActions, Zenon DEF NewAction, New, kernelVars
  <1>5. ASSUME NEW p \in Peers, ShutAction(p)
        PROVE  KernelTypes'
    <2>1. PICK halves \in {{"read", "write"}, {"read"}, {"write"}} : ShutHalves(mSocket[p], halves)
      BY <1>5, Zenon DEF ShutAction, ThreadSafeShutdown, ShutdownSend, ShutdownReceive
    <2>2. halves \subseteq Halves
      BY <2>1 DEF Halves
    <2>3. shut' \in [Ends -> SUBSET Halves]
      BY <2>1, <2>2 DEF ShutHalves, KernelTypes
    <2>4. UNCHANGED <<pending, conns>>
      BY <1>5, Zenon DEF ShutAction, ThreadSafeShutdown, ShutdownSend, ShutdownReceive
    <2> QED BY <1>1, <2>3, <2>4 DEF KernelTypes
  <1>6. ASSUME NEW p \in Peers, CloseAction(p)
        PROVE  KernelTypes'
    <2>1. UNCHANGED conns
      BY <1>6, Zenon DEF CloseAction, Shutdown, PollError, Destroy
    <2>2. (UNCHANGED <<shut, pending>>) \/ Close(mSocket[p])
      BY <1>6 DEF CloseAction, Shutdown, PollError, Destroy, CloseSocket
    <2>3. ASSUME Close(mSocket[p])
          PROVE  pending' \in [Names -> Seq(1 .. MaxConns)] /\ shut' \in [Ends -> SUBSET Halves]
      <3>1. <<>> \in Seq(1 .. MaxConns)
        OBVIOUS
      <3>2. pending' \in [Names -> Seq(1 .. MaxConns)]
        BY <2>3, <3>1 DEF Close, KernelTypes
      <3>3. shut' \in [Ends -> SUBSET Halves]
        BY <2>3 DEF Close, KernelTypes, Halves
      <3> QED BY <3>2, <3>3
    <2> QED BY <1>1, <2>1, <2>2, <2>3 DEF KernelTypes
  <1>7. ASSUME NEW p \in Peers, NEW n \in Names, ListenAction(p, n)
        PROVE  KernelTypes'
    BY <1>2, <1>7, Zenon DEF ListenAction, ListenInet, ListenIPC
  <1>8. ASSUME NEW p \in Peers, NEW n \in Names, ConnectAction(p, n)
        PROVE  KernelTypes'
    <2>1. UNCHANGED shut
      BY <1>8, Zenon DEF ConnectAction, ConnectInet, ConnectIPC
    <2>2. \/ UNCHANGED <<conns, pending>>
          \/ /\ conns < MaxConns /\ conns' = conns + 1
             /\ pending' = [pending EXCEPT ![n] = Append(@, conns + 1)]
      BY <1>8, Zenon DEF ConnectAction, ConnectInet, ConnectIPC, Connected
    <2>3. ASSUME conns < MaxConns, conns' = conns + 1,
                 pending' = [pending EXCEPT ![n] = Append(@, conns + 1)]
          PROVE  KernelTypes'
      <3>1. conns' \in 0 .. MaxConns /\ conns + 1 \in 1 .. MaxConns
        BY <2>3, SocketAssumption DEF KernelTypes
      <3>2. Append(pending[n], conns + 1) \in Seq(1 .. MaxConns)
        BY <3>1, PendingAppend, Zenon DEF KernelTypes
      <3>3. pending' \in [Names -> Seq(1 .. MaxConns)]
        BY <2>3, <3>2 DEF KernelTypes
      <3> QED BY <1>1, <2>1, <3>1, <3>3 DEF KernelTypes
    <2> QED BY <1>2, <2>1, <2>2, <2>3, Zenon
  <1>9. ASSUME NEW p \in Peers, NEW q \in Peers, Accept(p, q)
        PROVE  KernelTypes'
    <2> DEFINE n == fds[mSocket[p]].name
               e == <<Head(pending[n]), "server">>
    <2>1. n \in Names /\ pending[n] # <<>>
      BY <1>9 DEF Accept, AcceptReady, Alive, Lifetime, PeerTypes, KernelTypes, Descriptors
    <2>2. Tail(pending[n]) \in Seq(1 .. MaxConns)
      BY <2>1, HeadTailType, Zenon DEF KernelTypes
    <2>3. /\ pending' = [pending EXCEPT ![n] = Tail(@)] /\ UNCHANGED conns
          /\ UNCHANGED shut \/ shut' = [shut EXCEPT ![e] = {"read", "write", "closed"}]
      BY <1>9, Zenon DEF Accept
    <2> HIDE DEF n, e
    <2>4. pending' \in [Names -> Seq(1 .. MaxConns)]
      BY <2>2, <2>3 DEF KernelTypes
    <2>5. shut' \in [Ends -> SUBSET Halves]
      BY <2>3 DEF KernelTypes, Halves
    <2> QED BY <1>1, <2>3, <2>4, <2>5 DEF KernelTypes
  <1> QED BY <1>3, <1>4, <1>5, <1>6, <1>7, <1>8, <1>9, ActionKinds, Zenon

LEMMA OwnershipStep ==
    ASSUME OwnershipInv, StreamTypes, [Next]_vars
    PROVE  OwnershipInv'
  <1>1. TableInv' /\ TableTypes'
    BY TableStep, Zenon
  <1>2. CallTypes'
    BY CallTypesStep, Zenon
  <1>3. PeerTypes'
    BY <1>1, PeerTypesStep, Zenon
  <1>4. Lifetime'
    BY <1>1, <1>3, LifetimeStep, Zenon DEF TableInv
  <1>5. KernelTypes'
    BY <1>1, <1>3, KernelTypesStep, Zenon
  <1>6. FilesOwned'
    BY <1>3, FilesStep, Zenon
  <1> QED BY <1>1, <1>2, <1>3, <1>4, <1>5, <1>6, Zenon DEF OwnershipInv, TableInv

------------------------------------------------------------------------------
\* The streams.
LEMMA ConcatContinues ==
    ASSUME NEW q \in Seq(Nat), NEW b \in Seq(Nat), NEW n \in Nat,
           Continues(q, n), Continues(b, n + Len(q))
    PROVE  q \o b \in Seq(Nat) /\ Len(q \o b) = Len(q) + Len(b) /\ Continues(q \o b, n)
  <1>1. /\ q \o b \in Seq(Nat) /\ Len(q \o b) = Len(q) + Len(b)
        /\ \A i \in 1 .. Len(q) + Len(b) : (q \o b)[i] = IF i <= Len(q) THEN q[i] ELSE b[i - Len(q)]
    BY ConcatProperties, Zenon
  <1>2. Len(q) \in Nat /\ Len(b) \in Nat /\ DOMAIN q = 1 .. Len(q) /\ DOMAIN b = 1 .. Len(b)
    OBVIOUS
  <1>3. DOMAIN (q \o b) = 1 .. Len(q) + Len(b)
    BY <1>1
  <1>4. ASSUME NEW i \in 1 .. Len(q) + Len(b) PROVE (q \o b)[i] = n + i
    <2>1. CASE i <= Len(q)
      <3>1. i \in DOMAIN q
        BY <1>2, <2>1
      <3>2. (q \o b)[i] = q[i]
        BY <1>1, <2>1, Zenon
      <3> QED BY <3>1, <3>2, Zenon DEF Continues
    <2>2. CASE ~(i <= Len(q))
      <3>1. i - Len(q) \in DOMAIN b
        BY <1>2, <2>2
      <3>2. (q \o b)[i] = b[i - Len(q)]
        BY <1>1, <2>2, Zenon
      <3>3. b[i - Len(q)] = (n + Len(q)) + (i - Len(q))
        BY <3>1, Zenon DEF Continues
      <3>4. (n + Len(q)) + (i - Len(q)) = n + i
        BY <1>2
      <3> QED BY <3>2, <3>3, <3>4, Zenon
    <2> QED BY <2>1, <2>2
  <1> QED BY <1>1, <1>3, <1>4, Zenon DEF Continues

LEMMA BlockContinues ==
    ASSUME NEW k \in Nat, NEW r \in Nat
    PROVE  LET b == [i \in 1 .. r |-> k + i]
           IN  b \in Seq(Nat) /\ Len(b) = r /\ Continues(b, k)
  BY DEF Continues

LEMMA PartsContinue ==
    ASSUME NEW q \in Seq(Nat), NEW n \in Nat, NEW r \in 1 .. Len(q), Continues(q, n)
    PROVE  /\ SubSeq(q, 1, r) \in Seq(Nat) /\ Len(SubSeq(q, 1, r)) = r
           /\ Continues(SubSeq(q, 1, r), n)
           /\ SubSeq(q, r + 1, Len(q)) \in Seq(Nat) /\ Len(SubSeq(q, r + 1, Len(q))) = Len(q) - r
           /\ Continues(SubSeq(q, r + 1, Len(q)), n + r)
  <1> DEFINE u == SubSeq(q, 1, r)
             t == SubSeq(q, r + 1, Len(q))
  <1>1. u \in Seq(Nat) /\ Len(u) = r /\ \A i \in 1 .. r : u[i] = q[i]
    OBVIOUS
  <1>2. t \in Seq(Nat) /\ Len(t) = Len(q) - r /\ \A i \in 1 .. Len(q) - r : t[i] = q[r + i]
    OBVIOUS
  <1>3. Len(q) \in Nat /\ r \in Nat
    OBVIOUS
  <1>4. \A i \in 1 .. Len(q) : q[i] = n + i
    BY DEF Continues
  <1>5. DOMAIN u = 1 .. r /\ DOMAIN t = 1 .. Len(q) - r
    BY <1>1, <1>2
  <1> HIDE DEF u, t
  <1>6. Continues(u, n)
    <2>1. \A i \in 1 .. r : i \in 1 .. Len(q)
      BY <1>3
    <2> QED BY <1>1, <1>4, <1>5, <2>1, Zenon DEF Continues
  <1>7. Continues(t, n + r)
    <2>1. \A i \in 1 .. Len(q) - r : r + i \in 1 .. Len(q) /\ n + (r + i) = (n + r) + i
      BY <1>3
    <2> QED BY <1>2, <1>4, <1>5, <2>1, Zenon DEF Continues
  <1> QED BY <1>1, <1>2, <1>6, <1>7, Zenon DEF u, t

LEMMA ArithSent ==
    ASSUME NEW a \in Nat, NEW b \in Nat, NEW r \in Nat
    PROVE  a + (b + r) = (a + b) + r
  OBVIOUS

LEMMA ArithReceived ==
    ASSUME NEW a \in Nat, NEW b \in Nat, NEW r \in Nat
    PROVE  (a + r) + (b - r) = a + b
  OBVIOUS

LEMMA SendKeepsStreams ==
    ASSUME OwnershipInv, StreamTypes, Streams, NEW p \in Peers, SendStep(p)
    PROVE  StreamTypes' /\ Streams'
  <1> DEFINE c == call[p]["out"]
  <1>1. c.fd \in Fds /\ c.left \in Nat
    BY CallOnSocket DEF SendStep
  <1> DEFINE e == fds[c.fd].end
             o == Other(e)
  <1>2. UNCHANGED got
    BY Zenon DEF SendStep
  <1>3. PICK r \in SendResult(c.fd, c.left) :
          \/ UNCHANGED <<inflight, sent>>
          \/ /\ r > 0
             /\ inflight' = [inflight EXCEPT ![o] = @ \o [i \in 1 .. r |-> sent[e] + i]]
             /\ sent' = [sent EXCEPT ![e] = @ + r]
    BY Zenon DEF SendStep
  <1>4. CASE UNCHANGED <<inflight, sent>>
    BY <1>2, <1>4 DEF StreamTypes, Streams
  <1>5. CASE /\ r > 0
             /\ inflight' = [inflight EXCEPT ![o] = @ \o [i \in 1 .. r |-> sent[e] + i]]
             /\ sent' = [sent EXCEPT ![e] = @ + r]
    <2>1. e \in Ends /\ r \in 1 .. c.left
      <3>a. r > 0
        BY <1>5, Zenon
      <3>1. r # EPIPE
        BY <3>a DEF EPIPE
      <3> QED BY <1>1, <1>3, <3>1, SendResults, Zenon DEF OwnershipInv
    <2>2. o \in Ends /\ o # e /\ Other(o) = e
      BY <2>1, OtherEnd, Zenon
    <2>3. \A x \in Ends : x # o => Other(x) \in Ends /\ Other(x) # e
      BY <2>1, OtherEnd, Zenon
    <2> HIDE DEF e, o, c
    <2> DEFINE s == inflight[o] \o [i \in 1 .. r |-> sent[e] + i]
    <2>a. s = inflight[o] \o [i \in 1 .. r |-> sent[e] + i]
      OBVIOUS
    <2>7. inflight' = [inflight EXCEPT ![o] = s]
      BY <1>5
    <2> HIDE DEF s
    <2>4. r \in Nat /\ inflight[o] \in Seq(Nat) /\ Len(got[o]) \in Nat /\ sent[e] \in Nat
      BY <1>1, <2>1, <2>2 DEF StreamTypes
    <2>5. sent[e] = Len(got[o]) + Len(inflight[o]) /\ Continues(inflight[o], Len(got[o]))
      BY <2>2 DEF Streams
    <2>6. s \in Seq(Nat) /\ Len(s) = Len(inflight[o]) + r /\ Continues(s, Len(got[o]))
      <3> DEFINE b == [i \in 1 .. r |-> sent[e] + i]
      <3>1. b \in Seq(Nat) /\ Len(b) = r /\ Continues(b, sent[e])
        BY <2>4, BlockContinues, Zenon
      <3> HIDE DEF b
      <3>2. Continues(b, Len(got[o]) + Len(inflight[o]))
        BY <2>5, <3>1, Zenon
      <3>3. /\ inflight[o] \o b \in Seq(Nat) /\ Len(inflight[o] \o b) = Len(inflight[o]) + Len(b)
            /\ Continues(inflight[o] \o b, Len(got[o]))
        BY <2>4, <2>5, <3>1, <3>2, ConcatContinues, Zenon
      <3> QED BY <2>a, <3>1, <3>3, Zenon DEF b
    <2>8. StreamTypes'
      <3>1. inflight' \in [Ends -> Seq(Nat)] /\ got' \in [Ends -> Seq(Nat)]
        BY <1>2, <2>6, <2>7 DEF StreamTypes
      <3>2. sent' = [sent EXCEPT ![e] = @ + r]
        BY <1>5, Zenon
      <3>3. sent[e] + r \in Nat
        <4>1. sent[e] \in Nat /\ r \in Nat
          BY <2>4, Zenon
        <4> QED BY <4>1
      <3>4. sent' \in [Ends -> Nat]
        BY <3>2, <3>3 DEF StreamTypes
      <3> QED BY <3>1, <3>4, Zenon DEF StreamTypes
    <2>9. ASSUME NEW x \in Ends
          PROVE  /\ Continues(got'[x], 0) /\ Continues(inflight'[x], Len(got'[x]))
                 /\ Len(got'[x]) + Len(inflight'[x]) = sent'[Other(x)]
      <3>1. CASE x = o
        <4>1. inflight'[x] = s /\ got'[x] = got[o] /\ sent'[Other(x)] = sent[e] + r
          BY <1>2, <1>5, <2>1, <2>2, <2>7, <3>1 DEF StreamTypes
        <4>2. Continues(got[o], 0)
          BY <2>2 DEF Streams
        <4>3. Continues(got'[x], 0) /\ Continues(inflight'[x], Len(got'[x]))
          BY <2>6, <4>1, <4>2, Zenon
        <4>4. Len(s) = Len(inflight[o]) + r /\ Len(got[o]) \in Nat /\ sent[e] = Len(got[o]) + Len(inflight[o])
          BY <2>4, <2>5, <2>6, Zenon
        <4>5. Len(inflight[o]) \in Nat /\ r \in Nat
          BY <2>4
        <4>6. Len(got[o]) + Len(s) = sent[e] + r
          <5>1. Len(got[o]) + (Len(inflight[o]) + r) = (Len(got[o]) + Len(inflight[o])) + r
            BY <4>4, <4>5, ArithSent, Zenon
          <5> QED BY <4>4, <5>1, Zenon
        <4> QED BY <4>1, <4>3, <4>6, Zenon
      <3>2. CASE x # o
        <4>1. inflight'[x] = inflight[x] /\ got'[x] = got[x] /\ sent'[Other(x)] = sent[Other(x)]
          BY <1>2, <1>5, <2>3, <2>7, <3>2 DEF StreamTypes
        <4> QED BY <4>1 DEF Streams
      <3> QED BY <3>1, <3>2
    <2> QED BY <2>8, <2>9 DEF Streams
  <1> QED BY <1>3, <1>4, <1>5

LEMMA ReceiveKeepsStreams ==
    ASSUME OwnershipInv, StreamTypes, Streams, NEW p \in Peers, ReceiveStep(p)
    PROVE  StreamTypes' /\ Streams'
  <1> DEFINE c == call[p]["in"]
  <1>1. c.fd \in Fds /\ c.left \in Nat
    BY CallOnSocket DEF ReceiveStep
  <1> DEFINE e == fds[c.fd].end
  <1>2. UNCHANGED sent
    BY Zenon DEF ReceiveStep
  <1>3. PICK r \in Recv(c.fd, c.left) :
          \/ UNCHANGED <<inflight, got>>
          \/ /\ r > 0
             /\ got' = [got EXCEPT ![e] = @ \o SubSeq(inflight[e], 1, r)]
             /\ inflight' = [inflight EXCEPT ![e] = SubSeq(@, r + 1, Len(@))]
    BY DEF ReceiveStep
  <1>4. CASE UNCHANGED <<inflight, got>>
    BY <1>2, <1>4 DEF StreamTypes, Streams
  <1>5. CASE /\ r > 0
             /\ got' = [got EXCEPT ![e] = @ \o SubSeq(inflight[e], 1, r)]
             /\ inflight' = [inflight EXCEPT ![e] = SubSeq(@, r + 1, Len(@))]
    <2>1. e \in Ends /\ r \in 1 .. Len(inflight[e])
      <3>a. r > 0
        BY <1>5, Zenon
      <3>1. r \notin {ENOTCONN, ECONNRESET, 0}
        BY <3>a DEF ENOTCONN, ECONNRESET
      <3>2. e \in Ends /\ r \in 1 .. c.left /\ r <= Len(inflight[e])
        BY <1>1, <1>3, <3>1, RecvResults, Zenon DEF OwnershipInv
      <3> QED BY <1>1, <3>2 DEF StreamTypes
    <2> HIDE DEF e, c
    <2> DEFINE h == got[e] \o SubSeq(inflight[e], 1, r)
               t == SubSeq(inflight[e], r + 1, Len(inflight[e]))
    <2>2. inflight[e] \in Seq(Nat) /\ got[e] \in Seq(Nat) /\ Continues(got[e], 0) /\ Continues(inflight[e], Len(got[e]))
      BY <2>1 DEF StreamTypes, Streams
    <2>3. /\ h \in Seq(Nat) /\ t \in Seq(Nat)
          /\ Len(h) = Len(got[e]) + r /\ Len(t) = Len(inflight[e]) - r
          /\ Continues(h, 0) /\ Continues(t, Len(h))
      <3> DEFINE u == SubSeq(inflight[e], 1, r)
      <3>1. Len(got[e]) \in Nat /\ 0 \in Nat /\ 0 + Len(got[e]) = Len(got[e])
        BY <2>2
      <3>2. /\ u \in Seq(Nat) /\ Len(u) = r /\ Continues(u, Len(got[e]))
            /\ t \in Seq(Nat) /\ Len(t) = Len(inflight[e]) - r /\ Continues(t, Len(got[e]) + r)
        BY <2>1, <2>2, <3>1, PartsContinue, Zenon
      <3> HIDE DEF u, t
      <3>3. Continues(u, 0 + Len(got[e]))
        BY <3>1, <3>2, Zenon
      <3>4. /\ got[e] \o u \in Seq(Nat) /\ Len(got[e] \o u) = Len(got[e]) + Len(u)
            /\ Continues(got[e] \o u, 0)
        BY <2>2, <3>1, <3>2, <3>3, ConcatContinues, Zenon
      <3> QED BY <3>2, <3>4, Zenon DEF u
    <2>4. got' = [got EXCEPT ![e] = h] /\ inflight' = [inflight EXCEPT ![e] = t]
      BY <1>5
    <2> HIDE DEF h, t
    <2>5. StreamTypes'
      BY <1>2, <2>3, <2>4 DEF StreamTypes
    <2>6. ASSUME NEW x \in Ends
          PROVE  /\ Continues(got'[x], 0) /\ Continues(inflight'[x], Len(got'[x]))
                 /\ Len(got'[x]) + Len(inflight'[x]) = sent'[Other(x)]
      <3>1. CASE x = e
        <4>1. got'[x] = h /\ inflight'[x] = t
          BY <2>1, <2>4, <3>1 DEF StreamTypes
        <4>2. Len(got[e]) + Len(inflight[e]) = sent[Other(e)]
          BY <2>1 DEF Streams
        <4>3. Continues(got'[x], 0) /\ Continues(inflight'[x], Len(got'[x]))
          BY <2>3, <4>1, Zenon
        <4>4. Len(got[e]) \in Nat /\ Len(inflight[e]) \in Nat /\ r \in Nat
          BY <2>1, <2>2
        <4>a. Len(h) = Len(got[e]) + r /\ Len(t) = Len(inflight[e]) - r
          BY <2>3, Zenon
        <4>5. Len(h) + Len(t) = Len(got[e]) + Len(inflight[e])
          <5>1. (Len(got[e]) + r) + (Len(inflight[e]) - r) = Len(got[e]) + Len(inflight[e])
            BY <4>4, ArithReceived, Zenon
          <5> QED BY <4>a, <5>1, Zenon
        <4> QED BY <1>2, <3>1, <4>1, <4>2, <4>3, <4>5, Zenon
      <3>2. CASE x # e
        <4>1. got'[x] = got[x] /\ inflight'[x] = inflight[x]
          BY <2>4, <3>2 DEF StreamTypes
        <4> QED BY <1>2, <4>1 DEF Streams
      <3> QED BY <3>1, <3>2
    <2> QED BY <2>5, <2>6 DEF Streams
  <1> QED BY <1>3, <1>4, <1>5

LEMMA StreamStep ==
    ASSUME OwnershipInv, StreamTypes, Streams, [Next]_vars
    PROVE  StreamTypes' /\ Streams'
  <1>1. ASSUME UNCHANGED <<inflight, sent, got>> PROVE StreamTypes' /\ Streams'
    BY <1>1 DEF StreamTypes, Streams
  <1>2. CASE UNCHANGED vars
    BY <1>1, <1>2, Zenon DEF vars, kernelVars, history
  <1>3. ASSUME NEW p \in Peers, CallAction(p) PROVE StreamTypes' /\ Streams'
    <2>1. CASE CallOf(p) \/ ReceiveTimeout(p)
      BY <1>1, <2>1, Zenon DEF CallOf, Send, ReceiveAll, ReceiveTimeout, kernelVars, history
    <2> QED BY <1>3, <2>1, SendKeepsStreams, ReceiveKeepsStreams, Zenon DEF CallAction
  <1>4. ASSUME NEW p \in Peers, \/ NewAction(p) \/ ShutAction(p) \/ CloseAction(p)
                                \/ \E n \in Names : ListenAction(p, n) \/ ConnectAction(p, n)
                                \/ \E q \in Peers : Accept(p, q)
        PROVE  UNCHANGED <<inflight, sent, got>>
    BY <1>4, Zenon DEF NewAction, New, ShutAction, ThreadSafeShutdown, ShutdownSend, ShutdownReceive,
         CloseAction, Shutdown, PollError, Destroy, ListenAction, ListenInet, ListenIPC,
         ConnectAction, ConnectInet, ConnectIPC, Accept, kernelVars, history
  <1> QED BY <1>1, <1>2, <1>3, <1>4, ActionKinds, Zenon

\* receive_all returns false only with nothing taken; the codes of errors are
\* exceptions, and so is the end of the stream in the middle.
LEMMA NoSilentCutStep ==
    ASSUME OwnershipInv, StreamTypes, NoSilentCut, [Next]_vars
    PROVE  NoSilentCut'
  <1> USE DEF NoSilentCut
  <1>1. ASSUME UNCHANGED cutSilently PROVE NoSilentCut'
    BY <1>1
  <1>2. ASSUME NEW p \in Peers, NEW result, result # "false", Return(p, result)
        PROVE  NoSilentCut'
    BY <1>2 DEF Return
  <1>3. ASSUME NEW p \in Peers, ReceiveStep(p)
        PROVE  NoSilentCut'
    <2> DEFINE c == call[p]["in"]
    <2>1. c.fd \in Fds /\ c.left \in Nat
      BY <1>3, CallOnSocket DEF ReceiveStep
    <2>2. PICK r \in Recv(c.fd, c.left) :
            \/ EndOfStream(p) \/ Return(p, "true") \/ UNCHANGED cutSilently
            \/ ~(r = 0) /\ ~(r > 0) /\ Return(p, getCodeFromSocketError(r))
      BY <1>3 DEF ReceiveStep
    <2>3. CASE EndOfStream(p)
      BY <2>3 DEF EndOfStream, Return
    <2>4. CASE ~(r = 0) /\ ~(r > 0) /\ Return(p, getCodeFromSocketError(r))
      <3>1. r \in {ENOTCONN, ECONNRESET, 0} \/ r \in 1 .. c.left
        BY <2>1, <2>2, RecvResults, Zenon DEF OwnershipInv
      <3>2. ~(r = 0) /\ ~(r > 0)
        BY <2>4, Zenon
      <3>3. r \in {ENOTCONN, ECONNRESET}
        BY <2>1, <3>1, <3>2
      <3>4. getCodeFromSocketError(r) # "false"
        BY <3>3 DEF getCodeFromSocketError, EPIPE, ENOTCONN, ECONNRESET
      <3> QED BY <1>2, <2>4, <3>4, Zenon
    <2>5. "true" # "false"
      OBVIOUS
    <2> QED BY <1>1, <1>2, <2>2, <2>3, <2>4, <2>5, Zenon
  <1>4. ASSUME NEW p \in Peers, CallOf(p) \/ SendStep(p) \/ ReceiveTimeout(p)
        PROVE  NoSilentCut'
    <2>1. "TIMEOUT" # "false"
      OBVIOUS
    <2> QED BY <1>1, <1>2, <1>4, <2>1, Zenon DEF CallOf, Send, ReceiveAll, SendStep, ReceiveTimeout, history
  <1>5. ASSUME NEW p \in Peers, \/ NewAction(p) \/ ShutAction(p) \/ CloseAction(p)
                                \/ \E n \in Names : ListenAction(p, n) \/ ConnectAction(p, n)
                                \/ \E q \in Peers : Accept(p, q)
        PROVE  UNCHANGED cutSilently
    BY <1>5, Zenon DEF NewAction, New, ShutAction, ThreadSafeShutdown, ShutdownSend, ShutdownReceive,
         CloseAction, Shutdown, PollError, Destroy, ListenAction, ListenInet, ListenIPC,
         ConnectAction, ConnectInet, ConnectIPC, Accept, kernelVars, history
  <1>6. CASE UNCHANGED vars
    BY <1>1, <1>6, Zenon DEF vars, history
  <1> QED BY <1>1, <1>3, <1>4, <1>5, <1>6, ActionKinds, Zenon DEF CallAction

------------------------------------------------------------------------------
LEMMA InitInv == Init => SocketInv
  <1> SUFFICES ASSUME Init PROVE SocketInv
    OBVIOUS
  <1> USE SocketAssumption DEF Init
  <1>1. PeerTypes
    BY DEF PeerTypes, Kinds, INVALID
  <1>2. KernelTypes
    <2>1. pending \in [Names -> Seq(1 .. MaxConns)]
      OBVIOUS
    <2> QED BY <2>1, FreeIsDescriptor DEF KernelTypes, Halves
  <1>3. CallTypes
    BY DEF CallTypes
  <1>4. Descriptors /\ Lifetime /\ FilesOwned /\ CallsOwned
    BY DEF Descriptors, Lifetime, FilesOwned, CallsOwned, Free, Idle, INVALID
  <1>5. Owned
    BY DEF Owned, Free, INVALID, Fds
  <1>6. StreamTypes
    BY DEF StreamTypes
  <1>7. Streams
    BY OtherEnd DEF Streams, Continues
  <1> QED BY <1>1, <1>2, <1>3, <1>4, <1>5, <1>6, <1>7 DEF SocketInv, OwnershipInv, NoSilentCut

LEMMA StepInv == SocketInv /\ [Next]_vars => SocketInv'
  BY OwnershipStep, StreamStep, NoSilentCutStep, Zenon DEF SocketInv

LEMMA InvariantHolds == Spec => []SocketInv
  BY InitInv, StepInv, PTL DEF Spec

\* Whatever fails in listen, connect and accept, and whichever threads shut objects
\* down while others are inside send and receive_all: each open descriptor has one
\* owner, a closed one has none, a listening IPCSocketPeer keeps its file, and a call
\* stays on the socket it began on.
THEOREM SocketsAreOwned == Spec => []SocketsOwned
  <1>1. ASSUME SocketInv PROVE SocketsOwned
    <2> USE <1>1 DEF SocketInv, OwnershipInv
    <2>1. DescriptorsOwned
      <3>1. ASSUME NEW f \in Fds
            PROVE  Cardinality({p \in Peers : mSocket[p] = f}) = (IF fds[f].is = "free" THEN 0 ELSE 1)
        <4>1. CASE fds[f].is = "free"
          <5>1. {p \in Peers : mSocket[p] = f} = {}
            BY <4>1 DEF Owned
          <5> QED BY <4>1, <5>1, FS_EmptySet, Zenon
        <4>2. CASE fds[f].is # "free"
          <5>1. PICK p \in Peers : mSocket[p] = f
            BY <4>2 DEF Owned
          <5>2. f # INVALID
            BY SocketAssumption DEF Fds, INVALID
          <5>3. {q \in Peers : mSocket[q] = f} = {p}
            BY <5>1, <5>2 DEF Owned
          <5> QED BY <4>2, <5>3, FS_Singleton, Zenon
        <4> QED BY <4>1, <4>2
      <3> QED BY <3>1, Zenon DEF DescriptorsOwned
    <2>2. ListenerReachable
      BY Zenon DEF ListenerReachable, FilesOwned
    <2>3. CallKeepsItsSocket
      BY CallOnSocket DEF CallKeepsItsSocket, Owned
    <2> QED BY <2>1, <2>2, <2>3 DEF SocketsOwned
  <1> QED BY <1>1, InvariantHolds, PTL

\* Through partial sends and receives, shutdowns, polls and timeouts, the bytes an
\* end is given are a prefix of those the other end sent, and receive_all reports
\* the end of the stream as such only when it has taken nothing.
THEOREM StreamsAreFaithful == Spec => []StreamFaithful
  <1>1. ASSUME SocketInv PROVE StreamFaithful
    <2> USE <1>1 DEF SocketInv
    <2>1. ASSUME NEW e \in Ends
          PROVE  /\ got[e] \o inflight[e] = [i \in 1 .. Len(got[e] \o inflight[e]) |-> i]
                 /\ Len(got[e] \o inflight[e]) <= sent[Other(e)]
      <3>1. got[e] \in Seq(Nat) /\ inflight[e] \in Seq(Nat) /\ sent[Other(e)] \in Nat
        BY OtherEnd DEF StreamTypes
      <3>2. /\ Continues(got[e], 0) /\ Continues(inflight[e], Len(got[e]))
            /\ Len(got[e]) + Len(inflight[e]) = sent[Other(e)]
        BY DEF Streams
      <3>3. Len(got[e]) \in Nat /\ 0 \in Nat /\ 0 + Len(got[e]) = Len(got[e])
        BY <3>1
      <3> DEFINE s == got[e] \o inflight[e]
      <3>4. s \in Seq(Nat) /\ Len(s) = Len(got[e]) + Len(inflight[e]) /\ Continues(s, 0)
        <4>1. Continues(inflight[e], 0 + Len(got[e]))
          BY <3>2, <3>3, Zenon
        <4> QED BY <3>1, <3>2, <3>3, <4>1, ConcatContinues, Zenon
      <3> HIDE DEF s
      <3>5. s = [i \in 1 .. Len(s) |-> i]
        <4>1. Len(s) \in Nat /\ DOMAIN s = 1 .. Len(s) /\ s = [i \in 1 .. Len(s) |-> s[i]]
          <5>1. Len(s) \in Nat /\ s \in [1 .. Len(s) -> Nat] /\ DOMAIN s = 1 .. Len(s)
            BY <3>4, LenProperties, Zenon
          <5> QED BY <5>1, Zenon
        <4>2. \A i \in 1 .. Len(s) : 0 + i = i
          BY <4>1
        <4>3. \A i \in 1 .. Len(s) : s[i] = i
          BY <3>4, <4>1, <4>2, Zenon DEF Continues
        <4> QED BY <4>1, <4>3, Zenon
      <3>6. Len(s) = sent[Other(e)]
        BY <3>2, <3>4, Zenon
      <3>7. Len(s) <= sent[Other(e)]
        BY <3>1, <3>6
      <3> QED BY <3>5, <3>7, Zenon DEF s
    <2> QED BY <2>1, Zenon DEF StreamFaithful, BytesInOrder
  <1> QED BY <1>1, InvariantHolds, PTL
===============================================================================
