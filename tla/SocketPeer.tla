------------------------------ MODULE SocketPeer ------------------------------
(***************************************************************************)
(* SocketPeer, InetSocketPeer and IPCSocketPeer (arras4_network): the      *)
(* blocking sockets every connection of the system runs on.  The objects   *)
(* of one process share its descriptor table, where a closed number is     *)
(* given to the next socket created; each object may be used by a thread   *)
(* that receives, one that sends and one that shuts it down.               *)
(*                                                                         *)
(* The kernel (descriptors, listening queues, byte streams, socket files)  *)
(* is external and modelled from how the code uses it.  Bytes are numbered *)
(* from 1 in the order they were sent on a connection.  No code of the     *)
(* repository calls setEncryption, so mEncryption is null.  A call that    *)
(* only throws InvalidParameterError changes nothing and has no action.    *)
(***************************************************************************)
EXTENDS Integers, FiniteSets, Sequences, SequencesExt, FiniteSetsExt

CONSTANTS
    MaxPeers,     \* SocketPeer objects the process holds at once
    Ports, Paths, \* names an InetSocketPeer, an IPCSocketPeer can listen on
    MaxFd,        \* descriptors 1 .. MaxFd
    MaxConns,     \* bound: connections made
    MaxObjects,   \* bound: objects made, accepted ones included
    Senders,      \* bound: the sides of a connection that send; the others receive
    MaxBytes,     \* bound: bytes sent on a connection by each of them
    SockBuf,      \* bytes the kernel holds for a receiver
    NoName

ASSUME SocketAssumption ==
    /\ MaxPeers \in Nat /\ MaxFd \in Nat /\ MaxConns \in Nat /\ MaxBytes \in Nat /\ MaxObjects \in Nat
    /\ SockBuf \in Nat \ {0} /\ Senders \subseteq {"client", "server"}
    /\ Ports \cap Paths = {} /\ NoName \notin Ports \cup Paths

Peers == 1 .. MaxPeers
INVALID == 0    \* ARRAS_INVALID_SOCKET
Fds == 1 .. MaxFd
Names == Ports \cup Paths
Ends == (1 .. MaxConns) \X {"client", "server"}
NoEnd == <<0, "none">>
Other(e) == <<e[1], IF e[2] = "client" THEN "server" ELSE "client">>

VARIABLES
    kind,         \* class of each object, "none" before and after its life
    mSocket, mIsListening,
    mSocketName,  \* IPCSocketPeer: the file its destructor removes
    call,         \* per object and direction, the I/O call in progress
    fds,          \* kernel: what each descriptor is
    files,        \* kernel: socket files that exist
    pending,      \* kernel: per name, connections waiting to be accepted
    inflight,     \* kernel: bytes on the way to each end
    shut,         \* kernel: which halves of each end are shut down
    conns,        \* connections made so far
    objects,      \* objects made so far
    sent, got,    \* history: bytes sent by, bytes given to the callers at each end
    cutSilently   \* history: a receive_all returned false with bytes taken

peerVars == <<kind, mSocket, mIsListening, mSocketName, objects>>
kernelVars == <<fds, files, pending, inflight, shut, conns>>
history == <<sent, got, cutSilently>>
vars == <<peerVars, call, kernelVars, history>>

Free == [is |-> "free", name |-> NoName, end |-> NoEnd]
NoCall == [op |-> "none"]
Alive == {p \in Peers : kind[p] # "none"}
\* Objects are alike: a new one takes the first free place.
FirstFree(p) == kind[p] = "none" /\ \A q \in 1 .. p - 1 : q \in Alive
Idle(p) == call[p]["in"] = NoCall /\ call[p]["out"] = NoCall

Init ==
    /\ kind = [p \in Peers |-> "none"]
    /\ mSocket = [p \in Peers |-> INVALID]
    /\ mIsListening = [p \in Peers |-> FALSE]
    /\ mSocketName = [p \in Peers |-> NoName]
    /\ call = [p \in Peers |-> [d \in {"in", "out"} |-> NoCall]]
    /\ fds = [f \in Fds |-> Free]
    /\ files = {}
    /\ pending = [n \in Names |-> <<>>]
    /\ inflight = [e \in Ends |-> <<>>]
    /\ shut = [e \in Ends |-> {}]
    /\ conns = 0 /\ objects = 0
    /\ sent = [e \in Ends |-> 0]
    /\ got = [e \in Ends |-> <<>>]
    /\ cutSilently = FALSE

------------------------------------------------------------------------------
\* The kernel.

FreeFds == {f \in Fds : fds[f].is = "free"}
SocketCreated(f) == FreeFds # {} /\ f = Min(FreeFds)
InUse(n) == n \in files \/ \E f \in Fds : fds[f].name = n

\* close: the number is free again; the other end sees both halves shut.
\* Connections nobody accepted die with their listening socket.
EndsOf(f) == CASE fds[f].is = "conn" -> {fds[f].end}
               [] fds[f].is = "listen" -> {<<c, "server">> : c \in ToSet(pending[fds[f].name])}
               [] OTHER -> {}
Close(f) ==
    /\ fds' = [fds EXCEPT ![f] = Free]
    /\ shut' = [e \in Ends |-> IF e \in EndsOf(f) THEN {"read", "write", "closed"} ELSE shut[e]]
    /\ pending' = [n \in Names |->
                     IF fds[f].is = "listen" /\ fds[f].name = n THEN <<>> ELSE pending[n]]

ShutHalves(f, halves) ==
    shut' = [e \in Ends |-> IF fds[f].end = e THEN shut[e] \cup halves ELSE shut[e]]

EPIPE == -1
ECONNRESET == -2
ENOTCONN == -3

\* What recv(f, n) can come to: a number of bytes (0 at the end of the stream)
\* or an errno; nothing while it blocks.
Recv(f, n) ==
    IF fds[f].is # "conn" THEN {ENOTCONN}
    ELSE LET e == fds[f].end
             ready == Len(inflight[e])
         IN  (1 .. Min({n, ready}))
             \cup (IF ready = 0 /\ ("read" \in shut[e] \/ "write" \in shut[Other(e)]) THEN {0} ELSE {})
             \cup (IF "closed" \in shut[Other(e)] THEN {ECONNRESET} ELSE {})

SendResult(f, n) ==
    IF fds[f].is # "conn" THEN {EPIPE}
    ELSE LET e == fds[f].end
             room == SockBuf - Len(inflight[Other(e)])
         IN  IF "write" \in shut[e] \/ "closed" \in shut[Other(e)]
             THEN {EPIPE}
             ELSE 1 .. Min({n, room})

\* The PeerException code of an errno (the ones these calls can meet).
getCodeFromSocketError(errno) ==
    CASE errno = EPIPE -> "CONNECTION_CLOSED"
      [] errno = ECONNRESET -> "CONNECTION_RESET"
      [] errno = ENOTCONN -> "NOT_CONNECTED"

------------------------------------------------------------------------------
\* Life of an object.

New(p, k) ==
    /\ FirstFree(p)
    /\ objects < MaxObjects /\ objects' = objects + 1
    /\ kind' = [kind EXCEPT ![p] = k]
    /\ mSocketName' = [mSocketName EXCEPT ![p] = NoName]
    /\ UNCHANGED <<mSocket, mIsListening, call, kernelVars, history>>

CloseSocket(p) ==
    /\ mSocket' = [mSocket EXCEPT ![p] = INVALID]
    /\ mIsListening' = [mIsListening EXCEPT ![p] = FALSE]
    /\ IF mSocket[p] = INVALID
       THEN UNCHANGED <<fds, shut, pending>>
       ELSE Close(mSocket[p])

\* Full shutdown, by a thread that knows no other one uses the object.
Shutdown(p) ==
    /\ p \in Alive /\ Idle(p)
    /\ mSocket[p] # INVALID
    /\ CloseSocket(p)
    /\ UNCHANGED <<kind, objects, mSocketName, call, files, inflight, conns, history>>

\* The destructors: ~SocketPeer shuts down, ~IPCSocketPeer removes the file.
Destroy(p) ==
    /\ p \in Alive /\ Idle(p)
    /\ kind' = [kind EXCEPT ![p] = "none"]
    /\ CloseSocket(p)
    /\ files' = files \ {mSocketName[p]}
    /\ mSocketName' = [mSocketName EXCEPT ![p] = NoName]
    /\ UNCHANGED <<objects, call, inflight, conns, history>>

\* MUTANT of ThreadSafeShutdown: the descriptor is closed as well.
CloseUnderThreads(p) ==
    /\ p \in Alive
    /\ mSocket[p] # INVALID
    /\ CloseSocket(p)
    /\ UNCHANGED <<kind, objects, mSocketName, call, files, inflight, conns, history>>

\* Shutdown while other threads may be blocked on the object: the descriptor
\* stays, so its number is kept out of circulation.
ThreadSafeShutdown(p) ==
    /\ p \in Alive
    /\ mSocket[p] # INVALID
    /\ ShutHalves(mSocket[p], {"read", "write"})
    /\ UNCHANGED <<peerVars, call, fds, files, pending, inflight, conns, history>>

\* The half shutdowns (bound: only as the first shutdown on any connection).
ShutdownSend(p) ==
    /\ p \in Alive /\ mSocket[p] # INVALID
    /\ \A e \in Ends : shut[e] = {}
    /\ ShutHalves(mSocket[p], {"write"})
    /\ UNCHANGED <<peerVars, call, fds, files, pending, inflight, conns, history>>

ShutdownReceive(p) ==
    /\ p \in Alive /\ mSocket[p] # INVALID
    /\ \A e \in Ends : shut[e] = {}
    /\ ShutHalves(mSocket[p], {"read"})
    /\ UNCHANGED <<peerVars, call, fds, files, pending, inflight, conns, history>>

------------------------------------------------------------------------------
\* Listening.  Any of the system calls may fail; shutdown then closes the
\* socket, so a failure before bind leaves no trace.

Listening(p, f, n) ==
    /\ fds' = [fds EXCEPT ![f] = [is |-> "listen", name |-> n, end |-> NoEnd]]
    /\ mSocket' = [mSocket EXCEPT ![p] = f]
    /\ mIsListening' = [mIsListening EXCEPT ![p] = TRUE]

ListenInet(p, n) ==
    /\ kind[p] = "inet" /\ mSocket[p] = INVALID /\ Idle(p)
    /\ ~InUse(n)
    /\ \E f \in Fds : SocketCreated(f) /\ Listening(p, f, n)
    /\ UNCHANGED <<kind, objects, mSocketName, call, files, pending, inflight, shut, conns, history>>

\* bind creates the socket file, which outlives the socket; listen may still fail.
ListenIPC(p, n) ==
    /\ kind[p] = "ipc" /\ mSocket[p] = INVALID /\ Idle(p)
    /\ ~InUse(n)
    /\ files' = files \cup {n}
    /\ mSocketName' = [mSocketName EXCEPT ![p] = n]
    /\ \/ \E f \in Fds : SocketCreated(f) /\ Listening(p, f, n)
       \/ FreeFds # {} /\ UNCHANGED <<fds, mSocket, mIsListening>>
    /\ UNCHANGED <<kind, objects, call, pending, inflight, shut, conns, history>>

------------------------------------------------------------------------------
\* Connecting and accepting.

Connected(p, f, n) ==
    /\ \E g \in Fds : fds[g].is = "listen" /\ fds[g].name = n
    /\ conns < MaxConns
    /\ conns' = conns + 1
    /\ fds' = [fds EXCEPT ![f] = [is |-> "conn", name |-> NoName, end |-> <<conns + 1, "client">>]]
    /\ pending' = [pending EXCEPT ![n] = Append(@, conns + 1)]
    /\ mSocket' = [mSocket EXCEPT ![p] = f]

\* A failed TCP_NODELAY is the one error after which the peer keeps its
\* (unconnected) socket; every other one closes it.  The socket created and
\* closed before the name lookup leaves nothing behind.
ConnectInet(p, n) ==
    /\ kind[p] = "inet" /\ mSocket[p] = INVALID /\ Idle(p)
    /\ \E f \in Fds :
         /\ SocketCreated(f)
         /\ \/ Connected(p, f, n)
            \/ /\ fds' = [fds EXCEPT ![f] = [is |-> "new", name |-> NoName, end |-> NoEnd]]
               /\ mSocket' = [mSocket EXCEPT ![p] = f]
               /\ UNCHANGED <<conns, pending>>
    /\ UNCHANGED <<kind, objects, mIsListening, mSocketName, call, files, inflight, shut, history>>

\* A refused connection closes the socket again: only success changes anything.
ConnectIPC(p, n) ==
    /\ kind[p] = "ipc" /\ mSocket[p] = INVALID /\ Idle(p)
    /\ \E f \in Fds : SocketCreated(f) /\ Connected(p, f, n)
    /\ UNCHANGED <<kind, objects, mIsListening, mSocketName, call, files, inflight, shut, history>>

\* accept polls the listening socket until its timeout; on an error of poll it
\* shuts the listener down (the effect of Shutdown); without a connection it returns.
AcceptReady(p) == p \in Alive /\ mIsListening[p] /\ pending[fds[mSocket[p]].name] # <<>>

\* The constructor that wraps an existing socket; an accepted one does not listen.
Wrapped(q, f, e) ==
    /\ fds' = [fds EXCEPT ![f] = [is |-> "conn", name |-> NoName, end |-> e]]
    /\ kind' = [kind EXCEPT ![q] = "plain"]
    /\ mSocket' = [mSocket EXCEPT ![q] = f]

\* acceptAll accepts one connection (nPeers is 1 in every call) and wraps it in
\* a new peer q, unless switching it to blocking mode fails.
Accept(p, q) ==
    /\ AcceptReady(p)
    /\ FirstFree(q) /\ objects < MaxObjects /\ objects' = objects + 1
    /\ LET n == fds[mSocket[p]].name
           e == <<Head(pending[n]), "server">>
       IN  /\ pending' = [pending EXCEPT ![n] = Tail(@)]
           /\ \/ (\E f \in Fds : SocketCreated(f) /\ Wrapped(q, f, e)) /\ UNCHANGED shut
              \/ /\ FreeFds # {}
                 /\ shut' = [shut EXCEPT ![e] = {"read", "write", "closed"}]
                 /\ UNCHANGED <<fds, kind, mSocket>>
    /\ UNCHANGED <<mIsListening, mSocketName, call, files, inflight, conns, history>>

------------------------------------------------------------------------------
\* Sending: send loops until everything is handed to the kernel.  ::send never
\* returns 0 for a positive count, so the "return false" there is not reached.

SetCall(p, d, c) == call' = [call EXCEPT ![p][d] = c]

Send(p, n) ==
    /\ p \in Alive /\ mSocket[p] # INVALID /\ ~mIsListening[p]
    /\ call[p]["out"] = NoCall
    /\ fds[mSocket[p]].is = "conn" =>
         /\ fds[mSocket[p]].end[2] \in Senders
         /\ sent[fds[mSocket[p]].end] + n <= MaxBytes
    /\ SetCall(p, "out", [op |-> "send", left |-> n, fd |-> mSocket[p], end |-> fds[mSocket[p]].end])
    /\ UNCHANGED <<peerVars, kernelVars, history>>

\* One ::send.  The loop goes on with mSocket as it is then.
SendStep(p) ==
    /\ call[p]["out"] # NoCall
    /\ \E r \in SendResult(call[p]["out"].fd, call[p]["out"].left) :
         IF r > 0
         THEN LET c == call[p]["out"]
                  e == fds[c.fd].end
              IN  /\ inflight' = [inflight EXCEPT ![Other(e)] =
                                    @ \o [i \in 1 .. r |-> sent[e] + i]]
                  /\ sent' = [sent EXCEPT ![e] = @ + r]
                  /\ SetCall(p, "out", IF c.left = r THEN NoCall
                                       ELSE [c EXCEPT !.left = @ - r, !.fd = mSocket[p]])
         ELSE SetCall(p, "out", NoCall) /\ UNCHANGED <<inflight, sent>>
    /\ UNCHANGED <<peerVars, fds, files, pending, shut, conns, got, cutSilently>>

------------------------------------------------------------------------------
\* Receiving: receive is one ::recv; receive_all loops until it has n bytes.

ReceiveAll(p, n) ==
    /\ p \in Alive /\ mSocket[p] # INVALID /\ ~mIsListening[p]
    /\ call[p]["in"] = NoCall
    /\ fds[mSocket[p]].end[2] \notin Senders
    /\ SetCall(p, "in", [op |-> "receive_all", left |-> n, n |-> n, fd |-> mSocket[p], end |-> fds[mSocket[p]].end])
    /\ UNCHANGED <<peerVars, kernelVars, history>>

\* receive_all returns true or false, or throws.
Return(p, result) ==
    /\ SetCall(p, "in", NoCall)
    /\ cutSilently' = (cutSilently \/ (result = "false" /\ call[p]["in"].left # call[p]["in"].n))

\* MUTANT of EndOfStream: the end of the stream in the middle of a message is
\* reported like one between messages.
EndOfStreamAlways(p) == Return(p, "false")

\* MUTANT of EndOfStream: a return of 0 is taken for "nothing yet" and retried.
EndOfStreamRetry(p) == UNCHANGED <<call, cutSilently>>

\* The stream ended: between messages receive_all returns false, inside one it
\* throws PeerDisconnectException.
EndOfStream(p) ==
    LET c == call[p]["in"]
    IN  Return(p, IF c.left = c.n THEN "false" ELSE "PeerDisconnectException")

\* One ::recv and what receive and receive_all make of it.
ReceiveStep(p) ==
    /\ call[p]["in"] # NoCall
    /\ LET c == call[p]["in"]
       IN  \E r \in Recv(c.fd, c.left) :
             CASE r = 0 -> EndOfStream(p) /\ UNCHANGED <<inflight, got>>
               [] r > 0 ->
                    LET e == fds[c.fd].end
                    IN  /\ got' = [got EXCEPT ![e] = @ \o SubSeq(inflight[e], 1, r)]
                        /\ inflight' = [inflight EXCEPT ![e] = SubSeq(@, r + 1, Len(@))]
                        /\ IF c.left = r THEN Return(p, "true")
                           ELSE SetCall(p, "in", [c EXCEPT !.left = @ - r, !.fd = mSocket[p]]) /\ UNCHANGED cutSilently
               [] OTHER -> Return(p, getCodeFromSocketError(r)) /\ UNCHANGED <<inflight, got>>
    /\ UNCHANGED <<peerVars, fds, files, pending, shut, conns, sent>>

\* receive_all with a timeout (any call may have one) polls before every receive and throws TIMEOUT
\* when nothing came; what it had received by then is lost to the next call.
ReceiveTimeout(p) ==
    /\ call[p]["in"] # NoCall
    /\ Recv(call[p]["in"].fd, 1) = {}
    /\ Return(p, "TIMEOUT")
    /\ UNCHANGED <<peerVars, kernelVars, sent, got>>

\* poll finds out whether a readable socket was closed by peeking at one byte;
\* it closes the socket if even that fails.  peek itself changes nothing.
PollError(p) ==
    /\ p \in Alive /\ Idle(p) /\ mSocket[p] # INVALID /\ ~mIsListening[p]
    /\ \E r \in Recv(mSocket[p], 1) : r < 0
    /\ CloseSocket(p)
    /\ UNCHANGED <<kind, objects, mSocketName, call, files, inflight, conns, history>>

Next == \E p \in Peers :
    \/ \E k \in {"inet", "ipc"} : New(p, k)
    \/ Shutdown(p) \/ Destroy(p) \/ ThreadSafeShutdown(p) \/ ShutdownSend(p) \/ ShutdownReceive(p)
    \/ \E n \in Ports : ListenInet(p, n) \/ ConnectInet(p, n)
    \/ \E n \in Paths : ListenIPC(p, n) \/ ConnectIPC(p, n)
    \/ \E q \in Peers : Accept(p, q)
    \/ \E n \in 1 .. MaxBytes : Send(p, n) \/ ReceiveAll(p, n)
    \/ SendStep(p) \/ ReceiveStep(p) \/ ReceiveTimeout(p) \/ PollError(p)

\* A system call that can return does.
Spec == Init /\ [][Next]_vars /\ \A p \in Peers : WF_vars(SendStep(p)) /\ WF_vars(ReceiveStep(p))

------------------------------------------------------------------------------
\* Every descriptor the process has open belongs to exactly one live peer, and
\* a peer's mSocket is never a number that was closed, whatever failed in
\* listen, connect and accept: nothing leaks and nothing is closed twice.
DescriptorsOwned ==
    \A f \in Fds : Cardinality({p \in Peers : mSocket[p] = f}) = (IF fds[f].is = "free" THEN 0 ELSE 1)

\* A listening IPCSocketPeer can be reached: its socket file exists until its
\* own destructor, whatever other peers tried to listen on the name.
ListenerReachable ==
    \A p \in Peers : kind[p] = "ipc" /\ mIsListening[p] => mSocketName[p] \in files

\* A thread inside send or receive_all is still on the socket it started on,
\* also while threadSafeShutdown, connects and accepts run in other threads.
CallKeepsItsSocket ==
    \A p \in Peers, d \in {"in", "out"} :
        call[p][d] # NoCall => fds[call[p][d].fd].is # "free" /\ fds[call[p][d].fd].end = call[p][d].end

\* Peers own what they use: no descriptor or socket file is leaked, closed for
\* its owner by someone else, or used after its number went to another socket.
SocketsOwned == DescriptorsOwned /\ ListenerReachable /\ CallKeepsItsSocket

\* What the callers of receive and receive_all are given is what the other end
\* sent, in order and without gaps, through partial sends, partial receives,
\* polls and shutdowns.
BytesInOrder ==
    \A e \in Ends : got[e] \o inflight[e] = [i \in 1 .. Len(got[e] \o inflight[e]) |-> i]
                    /\ Len(got[e] \o inflight[e]) <= sent[Other(e)]

\* receive_all returns false, "the peer is gone", only if it took nothing from
\* the stream: a message cut in two is always reported as an exception.
NoSilentCut == ~cutSilently

\* The stream a peer hands out is the stream that was sent, up to an end that is
\* only reported between two receives.
StreamFaithful == BytesInOrder /\ NoSilentCut

\* threadSafeShutdown ends a blocked receive, with no help from the other end:
\* a thread does not stay in receive_all on an end whose receiving half is shut.
Receiving(e) == \E p \in Peers : call[p]["in"] # NoCall /\ call[p]["in"].end = e
ShutdownReleasesReceive ==
    \A e \in (1 .. MaxConns) \X ({"client", "server"} \ Senders) :
        (Receiving(e) /\ "read" \in shut[e]) ~> ~Receiving(e)
===============================================================================
