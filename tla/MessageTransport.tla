---------------------------- MODULE MessageTransport ----------------------------
(***************************************************************************)
(* How a message crosses a connection.  Each sender has an endpoint of its *)
(* own: ChunkingMessageEndpoint splits a long message into chunks,         *)
(* MessageWriter serialises each envelope into the BufferedSink's          *)
(* MultiBuffer, and BasicFramingSink writes it as one frame.  The receiver *)
(* reads frames (BasicFramingSource, BufferedSource, MessageReader) and    *)
(* puts chunked messages together again (MessageUnchunker).                *)
(*                                                                         *)
(* The node between them is not in this repository: it forwards whole      *)
(* frames of several senders, in any order between senders, so `wire` is   *)
(* the one stream the receiver reads.  SocketPeer shows that a connection  *)
(* delivers an unbroken prefix of what was written; Cut is its end.        *)
(*                                                                         *)
(* A stream is a sequence of tokens: a frame header with the frame's       *)
(* length, an envelope, the fixed part of a MessageChunk, and the bytes of *)
(* a content, numbered from 1.  Tokens have one shape so that a receiver   *)
(* that has lost its place reads them as something else, as it would.      *)
(***************************************************************************)
EXTENDS Integers, Sequences, SequencesExt, FiniteSets

CONSTANTS
    Senders,
    Contents,         \* the contents that may be sent, see ContentType
    MinChunkingSize, ChunkSize,      \* ChunkingConfig
    InitialSize, LinearSize,         \* MultiBuffer's buffer sizes
    MaxChunks,        \* UINT16_MAX in the code
    MaxFrame,         \* UINT_MAX in the code
    NameMod,          \* 2^16 in the code: the range of a name's length
    MaxPuts           \* bound: messages put, over all senders

\* serializedLength() (0 if the class does not say), the bytes serialize really
\* writes, whether it throws half way, whether the receiver's registry knows the
\* class, whether it is OpaqueContent being forwarded, length of the name.
ContentType == [declared : Nat, actual : Nat \ {0}, throws : BOOLEAN, known : BOOLEAN,
                opaque : BOOLEAN, name : Nat]

ASSUME TransportAssumption ==
    /\ Contents \subseteq ContentType
    /\ MinChunkingSize \in Nat /\ ChunkSize \in Nat \ {0}
    /\ InitialSize \in Nat \ {0} /\ LinearSize \in Nat
    /\ MaxChunks \in Nat /\ MaxFrame \in Nat /\ NameMod \in Nat \ {0} /\ MaxPuts \in Nat

VARIABLES
    mb,           \* per sender, the MultiBuffer of its BufferedSink
    todo,         \* per sender, envelopes of the message being put
    puts,         \* messages put so far
    wire,         \* tokens on their way to the receiver
    closed,       \* the connection is gone
    mBuffer,      \* the buffer of the receiver's BufferedSource
    mUnchunkers,  \* per message id, the chunks received so far
    rx,           \* receiver: "ok", or what getEnvelope threw
    accepted,     \* history: per sender, messages put on the wire
    delivered     \* history: per sender, messages getEnvelope returned

vars == <<mb, todo, puts, wire, closed, mBuffer, mUnchunkers, rx, accepted, delivered>>

\* Buffer and MultiBuffer when they are made.
NoBuffer == [cap |-> 0, data |-> <<>>]
EmptyMultiBuffer == [bufs |-> <<>>, used |-> 0]

\* OutStreamImpl writes each value as it is in memory, a string after its length.
Token(t, id, n, num, size, known) ==
    [t |-> t, id |-> id, n |-> n, num |-> num, size |-> size, known |-> known]
FrameToken(len) == Token("frame", 0, len, 0, 0, TRUE)
Bytes(id, from, to) == [i \in 1 .. to - from + 1 |-> Token("byte", id, from + i - 1, 0, 0, TRUE)]

Init ==
    /\ mb = [s \in Senders |-> EmptyMultiBuffer]
    /\ todo = [s \in Senders |-> <<>>]
    /\ puts = 0
    /\ wire = <<>> /\ closed = FALSE
    /\ mBuffer = NoBuffer
    /\ mUnchunkers = [id \in {} |-> 0]
    /\ rx = "ok"
    /\ accepted = [s \in Senders |-> <<>>]
    /\ delivered = [s \in Senders |-> <<>>]

------------------------------------------------------------------------------
\* MultiBuffer: buffers that double in size until LinearSize, filled in order and
\* reused, not freed, by reset: `bufs` is what they hold, `used` how many are in use.
\* With LinearSize = InitialSize it splits what is written into equal chunks.

NextSize(size) == IF size < LinearSize THEN size * 2 ELSE size
BufferSize[i \in Nat] == IF i <= 1 THEN InitialSize ELSE NextSize(BufferSize[i - 1])
Room[i \in Nat] == IF i = 0 THEN 0 ELSE Room[i - 1] + BufferSize[i]
Least(a, b) == IF a < b THEN a ELSE b

Used(b) == FlattenSeq(SubSeq(b.bufs, 1, b.used))

\* write: fill the end buffer, then take (or make) the next one; a buffer that is
\* used again is emptied first.
Write(b, bytes) ==
    LET all == Used(b) \o bytes
        n == CHOOSE k \in 0 .. Len(all) : Room[k] >= Len(all) /\ (k > 0 => Room[k - 1] < Len(all))
    IN  [bufs |-> [i \in 1 .. (IF n > Len(b.bufs) THEN n ELSE Len(b.bufs)) |->
                     IF i <= n THEN SubSeq(all, Room[i - 1] + 1, Least(Room[i], Len(all)))
                     ELSE b.bufs[i]],
         used |-> n]

\* MUTANT of OpenFrame: what a failed write left behind stays in the frame.
OpenFrameNoReset(b) == b

\* BufferedSink::openFrame
OpenFrame(b) == [b EXCEPT !.used = 0]

------------------------------------------------------------------------------
\* Sending.

\* The chunks of a content: MultiBuffer buffers of the constant size ChunkSize.
NumChunks(c) == (c.actual + ChunkSize - 1) \div ChunkSize

\* MessageChunk::serialize: number and index of the chunk, the size the content
\* declared, and the payload.
ChunkBody(id, c, index) ==
    <<Token("chunk", id, index, NumChunks(c), c.declared, c.known)>>
      \o Bytes(id, index * ChunkSize + 1, Least((index + 1) * ChunkSize, c.actual))

\* ChunkingMessageEndpoint::putEnvelope up to the writes.  An exception (serialize
\* throws, or there are more chunks than fit in 16 bits) puts nothing.
Chunked(c) == ~c.opaque /\ c.declared >= MinChunkingSize

Put(s, c) ==
    /\ todo[s] = <<>> /\ puts < MaxPuts
    /\ puts' = puts + 1
    /\ LET id == <<s, puts + 1>>
           n == NumChunks(c)
       IN  todo' = [todo EXCEPT ![s] =
               IF ~Chunked(c) THEN <<[id |-> id, class |-> "object", c |-> c, last |-> TRUE,
                                      body |-> Bytes(id, 1, c.actual)]>>
               ELSE IF c.throws \/ n > MaxChunks THEN <<>>
               ELSE [i \in 1 .. n |-> [id |-> id, class |-> "chunk", c |-> c, last |-> i = n,
                                       body |-> ChunkBody(id, c, i - 1)]]]
    /\ UNCHANGED <<mb, wire, closed, mBuffer, mUnchunkers, rx, accepted, delivered>>

\* What MessageWriter::write puts in the sink: the envelope (metadata and class),
\* then the content; an opaque content is an appended buffer, not copied.
Envelope(e) == Token("env", e.id, e.c.name % NameMod, IF e.class = "chunk" THEN 1 ELSE 0, 0,
                     e.c.known \/ e.class = "chunk")
Half(seq) == SubSeq(seq, 1, Len(seq) \div 2)
Message(id, c) == [id |-> id, name |-> c.name, known |-> c.known, body |-> Bytes(id, 1, c.actual)]

\* BasicFramingSink: the header says how long the frame is, so it must fit in one.
Framed(data) == <<FrameToken(Len(data))>> \o data
FitsFrame(data) == Len(data) <= MaxFrame

\* MessageWriter::write.  It throws if the name's length is 0 in 16 bits, if
\* serialize throws, if the frame is too long for its header or the connection is
\* gone; the sink keeps what it has until the next openFrame, and the rest of
\* the message is given up.
WriteEnvelope(s) ==
    /\ todo[s] # <<>>
    /\ LET e == Head(todo[s])
           throws == e.c.throws /\ e.class = "object"
           buffered == IF e.c.name % NameMod = 0 THEN <<>>
                       ELSE <<Envelope(e)>> \o (IF e.c.opaque THEN <<>>
                                                ELSE IF throws THEN Half(e.body) ELSE e.body)
       IN  \E sink \in {Write(OpenFrame(mb[s]), buffered)} :
           \E frame \in {Used(sink) \o (IF e.c.opaque THEN e.body ELSE <<>>)} :
           IF e.c.name % NameMod # 0 /\ ~throws /\ FitsFrame(frame) /\ ~closed
           THEN /\ wire' = wire \o Framed(frame)
                /\ mb' = [mb EXCEPT ![s] = [sink EXCEPT !.used = 0]]
                /\ todo' = [todo EXCEPT ![s] = Tail(@)]
                /\ accepted' = IF e.last
                               THEN [accepted EXCEPT ![s] = Append(@, Message(e.id, e.c))]
                               ELSE accepted
           ELSE /\ mb' = [mb EXCEPT ![s] = sink]
                /\ todo' = [todo EXCEPT ![s] = <<>>]
                /\ UNCHANGED <<wire, accepted>>
    /\ UNCHANGED <<puts, closed, mBuffer, mUnchunkers, rx, delivered>>

\* The connection ends; what the receiver has not got may be lost from any byte on.
Cut ==
    /\ ~closed
    /\ closed' = TRUE
    /\ \E n \in 0 .. Len(wire) : wire' = SubSeq(wire, 1, n)
    /\ UNCHANGED <<mb, todo, puts, mBuffer, mUnchunkers, rx, accepted, delivered>>

------------------------------------------------------------------------------
\* Receiving.

\* MUTANT of NextFrame: the frame is taken to include its header.
NextFrameShort(w) == [size |-> w[1].n - 1, rest |-> SubSeq(w, w[1].n + 1, Len(w))]

\* BasicFramingSource::nextFrame reads the header; BufferedSource::nextFrame
\* reads the whole frame, whatever the reader will use of it.
NextFrame(w) == [size |-> w[1].n, rest |-> SubSeq(w, w[1].n + 2, Len(w))]

\* prepForFill: the buffer is only replaced if it is too small.
Filled(buf, data) ==
    [cap |-> IF Len(data) > buf.cap THEN Len(data) ELSE buf.cap, data |-> data]

\* MessageUnchunker: made from the first chunk that arrives.
NewUnchunker(k) == [num |-> k.num, size |-> k.size, known |-> k.known, chunks |-> [i \in {} |-> 0]]

\* addChunk and the constructor: the count must agree and the chunk be new.
Mismatch(u, k) == k.num < 1 \/ k.num # u.num \/ k.n \in DOMAIN u.chunks
AddChunk(u, k, payload) ==
    [u EXCEPT !.chunks = [i \in DOMAIN @ \cup {k.n} |-> IF i = k.n THEN payload ELSE @[i]]]

\* MUTANT of IsComplete: waits for one chunk more than there are.
IsCompleteLate(u) == Cardinality(DOMAIN u.chunks) > u.num

\* getUnchunked's first test: mCount counts the chunks added.
IsComplete(u) == Cardinality(DOMAIN u.chunks) >= u.num

\* The rest of getUnchunked: a missing chunk, a wrong size or an unknown class
\* make it throw.
Unchunked(u) == FlattenSeq([i \in 1 .. u.num |-> u.chunks[i - 1]])
Recreatable(u) ==
    DOMAIN u.chunks = 0 .. u.num - 1 /\ Len(Unchunked(u)) = u.size /\ u.known

\* mUnchunkers.erase
Forget(us, id) == [i \in DOMAIN us \ {id} |-> us[i]]

\* Envelope::deserialize and the content it is given.
Return(env, body) ==
    delivered' = [delivered EXCEPT ![env.id[1]] =
                     Append(@, [id |-> env.id, name |-> env.n, known |-> env.known, body |-> body])]

\* MessageReader::read on a message that is not a chunk.  Known classes are
\* deserialised, others keep the buffer (takeBuffer).
GetObject(data) ==
    /\ Return(data[1], Tail(data))
    /\ mBuffer' = IF data[1].known THEN Filled(mBuffer, data) ELSE NoBuffer
    /\ UNCHANGED <<mUnchunkers, rx>>

\* ChunkingMessageEndpoint::getEnvelope on a chunk: find or make its unchunker,
\* add the chunk, return the message when it is complete.  An unchunker that
\* throws stays in the table.
GetChunk(data) ==
    LET k == data[2]
        old == IF k.id \in DOMAIN mUnchunkers THEN mUnchunkers[k.id] ELSE NewUnchunker(k)
        new == AddChunk(old, k, SubSeq(data, 3, Len(data)))
        all == [i \in DOMAIN mUnchunkers \cup {k.id} |-> IF i = k.id THEN new ELSE mUnchunkers[i]]
    IN  /\ mBuffer' = Filled(mBuffer, data)
        /\ CASE Mismatch(old, k) -> rx' = "InternalError" /\ UNCHANGED <<mUnchunkers, delivered>>
             [] ~Mismatch(old, k) /\ ~IsComplete(new) ->
                  mUnchunkers' = all /\ UNCHANGED <<rx, delivered>>
             [] ~Mismatch(old, k) /\ IsComplete(new) /\ Recreatable(new) ->
                  /\ mUnchunkers' = Forget(all, k.id)
                  /\ Return(data[1], Unchunked(new))
                  /\ UNCHANGED rx
             [] OTHER -> rx' = "InternalError" /\ mUnchunkers' = all /\ UNCHANGED delivered

FrameReady == wire # <<>> /\ Len(wire) > NextFrame(wire).size

Get ==
    /\ rx = "ok" /\ FrameReady
    /\ LET f == NextFrame(wire)
           data == SubSeq(wire, 2, f.size + 1)
       IN  /\ wire' = f.rest
           /\ IF data[1].num = 1 THEN GetChunk(data) ELSE GetObject(data)
    /\ UNCHANGED <<mb, todo, puts, closed, accepted>>

\* The stream ends, between two frames or inside one.
GetDisconnected ==
    /\ rx = "ok" /\ closed /\ ~FrameReady
    /\ rx' = "PeerDisconnectException"
    /\ UNCHANGED <<mb, todo, puts, wire, closed, mBuffer, mUnchunkers, accepted, delivered>>

Next ==
    \/ \E s \in Senders : WriteEnvelope(s) \/ \E c \in Contents : Put(s, c)
    \/ Get \/ GetDisconnected \/ Cut

\* The writing and the reading thread of a connection keep running.
Spec == Init /\ [][Next]_vars /\ WF_vars(Get) /\ \A s \in Senders : WF_vars(WriteEnvelope(s))

------------------------------------------------------------------------------
\* What a connection promises each sender: its messages arrive whole, at most
\* once and in the order they were put, however chunks of several senders are
\* mixed, whatever earlier puts threw half way and wherever the stream is cut.
Channel(s) == INSTANCE MessageChannel WITH
    Values <- {Message(<<s, k>>, c) : k \in 1 .. MaxPuts, c \in Contents},
    accepted <- accepted[s], delivered <- delivered[s], closed <- FALSE
ImplementsChannel ==
    /\ \A s \in Senders : Channel(s)!Init
    /\ [][\A s \in Senders : Channel(s)!Next \/ UNCHANGED <<accepted[s], delivered[s]>>]_vars

\* The receiver keeps its place: between two reads the stream stands at a frame
\* header, whatever class the last message had and however much of it was used.
StreamInSync == rx = "ok" /\ wire # <<>> => wire[1].t = "frame"

\* An unchunker is only kept for a message whose chunks are on their way: the
\* table does not grow with the messages received.
UnchunkersIncomplete ==
    rx = "ok" => \A id \in DOMAIN mUnchunkers :
        Cardinality(DOMAIN mUnchunkers[id].chunks) \in 1 .. mUnchunkers[id].num - 1

\* addChunk indexes its vector with the number in the chunk, unchecked: no
\* sender makes a chunk whose number is outside the announced count.
ChunkIndexInBounds ==
    \A id \in DOMAIN mUnchunkers : DOMAIN mUnchunkers[id].chunks \subseteq 0 .. mUnchunkers[id].num - 1

\* What the receiver relies on between two reads: its place in the stream, and a
\* table of chunks that are in range and still wanted.
ReceiverSound == StreamInSync /\ UnchunkersIncomplete /\ ChunkIndexInBounds

\* Every message on the wire is returned by getEnvelope in the end, unless the
\* connection ends or a message was found inconsistent.
EventuallyDelivered ==
    \A s \in Senders, k \in 1 .. MaxPuts :
        (Len(accepted[s]) >= k) ~> (Len(delivered[s]) >= k \/ rx # "ok" \/ closed)
===============================================================================
