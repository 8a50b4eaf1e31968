------------------------ MODULE MessageTransportProofs ------------------------
(***************************************************************************)
(* Two theorems, for all senders, contents, chunk, buffer and frame sizes. *)
(*                                                                         *)
(* The receiver of a stream that many senders share never loses its place, *)
(* never puts a chunk out of range and keeps no unchunker that is done     *)
(* with.  The stream is made of frames whose headers say how long they are *)
(* (InFrames), which holds because what a sender's MultiBuffer gives back  *)
(* is what was written into it for this frame (WriteHolds).  The sizes of  *)
(* its buffers are defined by recursion; that they are positive, and that  *)
(* enough of them hold any number of bytes, is shown by induction over the *)
(* naturals, from the well-foundedness of <.                               *)
(*                                                                         *)
(* And the connection is a channel for each sender.  The stream is what a  *)
(* sequence of envelopes in flight was framed to (InFlight); at every      *)
(* envelope it is known how many chunks of each message, and how many      *)
(* messages of each sender, came before it (Flow).  The counts in front of *)
(* the first envelope are those of the receiver's unchunkers and of the    *)
(* messages it has delivered, the counts behind the last are where the     *)
(* senders go on.                                                          *)
(***************************************************************************)
EXTENDS MessageTransport, FiniteSetTheorems, SequenceTheorems, WellFoundedInduction, TLAPS

-----------------------------------------------------------------------------
(* Recursion over the naturals. *)

\* Induction over the naturals for a set of them, from the well-foundedness of <.
LEMMA NaturalsFromZero ==
    ASSUME NEW T \in SUBSET Nat, 0 \in T, \A n \in T : n + 1 \in T
    PROVE  T = Nat
  <1>1. SUFFICES ASSUME Nat \ T # {} PROVE FALSE
    OBVIOUS
  <1>2. PICK x \in Nat \ T : \A y \in Nat \ T : <<y, x>> \notin OpToRel(<, Nat)
    BY <1>1, NatLessThanWellFounded, WFMin, Zenon
  <1>3. x # 0 /\ x - 1 \in Nat /\ x - 1 < x
    OBVIOUS
  <1>4. <<x - 1, x>> \in OpToRel(<, Nat)
    BY <1>3 DEF OpToRel
  <1>5. x - 1 \in T
    BY <1>2, <1>3, <1>4
  <1>6. (x - 1) + 1 \in T /\ (x - 1) + 1 = x
    BY <1>3, <1>5
  <1> QED BY <1>6

\* f is defined up to n by a first value and a step.
Follows(f, n, z, G) == f[0] = z /\ \A i \in 0 .. n - 1 : f[i + 1] = G[i][f[i]]

Recurses(f, X, z, G) == f \in [Nat -> X] /\ f[0] = z /\ \A i \in Nat : f[i + 1] = G[i][f[i]]

\* Two functions that follow the same recursion agree where both do.
LEMMA FollowsOnce ==
    ASSUME NEW z, NEW G, NEW n \in Nat, NEW m \in Nat, n <= m,
           NEW f, NEW g, Follows(f, n, z, G), Follows(g, m, z, G)
    PROVE  f[n] = g[n]
  <1> DEFINE T == {i \in Nat : i <= n => f[i] = g[i]}
  <1>1. 0 \in T
    BY DEF Follows
  <1>2. ASSUME NEW i \in T PROVE i + 1 \in T
    <2> SUFFICES ASSUME i + 1 <= n PROVE f[i + 1] = g[i + 1]
      OBVIOUS
    <2>1. f[i] = g[i] /\ i \in 0 .. n - 1 /\ i \in 0 .. m - 1
      OBVIOUS
    <2> QED BY <2>1 DEF Follows
  <1>3. T = Nat
    <2>1. T \in SUBSET Nat
      OBVIOUS
    <2> HIDE DEF T
    <2> QED BY <1>1, <1>2, <2>1, NaturalsFromZero
  <1> QED BY <1>3

\* There is a function for every first value and step.
LEMMA RecursionExists ==
    ASSUME NEW X, NEW z \in X, NEW G \in [Nat -> [X -> X]]
    PROVE  \E f : Recurses(f, X, z, G)
  <1> DEFINE Good(n, f) == f \in [0 .. n -> X] /\ Follows(f, n, z, G)
             T == {n \in Nat : \E f : Good(n, f)}
  <1>1. 0 \in T
    <2>1. Good(0, [i \in 0 .. 0 |-> z])
      BY DEF Follows
    <2> QED BY <2>1
  <1>2. ASSUME NEW n \in T PROVE n + 1 \in T
    <2>1. PICK f : Good(n, f)
      OBVIOUS
    <2> DEFINE g == [i \in 0 .. n + 1 |-> IF i <= n THEN f[i] ELSE G[n][f[n]]]
    <2>2. g \in [0 .. n + 1 -> X]
      BY <2>1
    <2>3. \A i \in 0 .. n : g[i + 1] = G[i][g[i]]
      <3> SUFFICES ASSUME NEW i \in 0 .. n PROVE g[i + 1] = G[i][g[i]]
        OBVIOUS
      <3>1. CASE i = n
        BY <2>1, <3>1
      <3>2. CASE i # n
        <4>1. i \in 0 .. n - 1 /\ g[i] = f[i] /\ g[i + 1] = f[i + 1]
          BY <3>2
        <4> QED BY <2>1, <4>1 DEF Follows
      <3> QED BY <3>1, <3>2
    <2>4. g[0] = z
      BY <2>1 DEF Follows
    <2>5. Good(n + 1, g)
      <3>1. (n + 1) - 1 = n
        OBVIOUS
      <3> HIDE DEF g
      <3> QED BY <2>2, <2>3, <2>4, <3>1 DEF Follows
    <2> HIDE DEF g, Good
    <2> QED BY <2>5
  <1>3. T = Nat
    <2>1. T \in SUBSET Nat
      OBVIOUS
    <2> HIDE DEF T
    <2> QED BY <1>1, <1>2, <2>1, NaturalsFromZero
  <1> DEFINE F(n) == CHOOSE f : Good(n, f)
             h == [n \in Nat |-> F(n)[n]]
  <1>4. \A n \in Nat : Good(n, F(n))
    <2> HIDE DEF Good
    <2> QED BY <1>3, Zenon
  <1>5. h \in [Nat -> X]
    <2> SUFFICES ASSUME NEW n \in Nat PROVE F(n)[n] \in X
      OBVIOUS
    <2>1. F(n) \in [0 .. n -> X]
      BY <1>4
    <2> HIDE DEF F
    <2> QED BY <2>1
  <1>6. h[0] = z
    <2>1. Follows(F(0), 0, z, G)
      BY <1>4
    <2> HIDE DEF F
    <2> QED BY <2>1 DEF Follows
  <1>7. ASSUME NEW i \in Nat PROVE h[i + 1] = G[i][h[i]]
    <2>1. Follows(F(i), i, z, G) /\ Follows(F(i + 1), i + 1, z, G)
      BY <1>4
    <2> HIDE DEF F, Good, T
    <2>2. F(i)[i] = F(i + 1)[i]
      BY <2>1, FollowsOnce
    <2>3. i \in 0 .. (i + 1) - 1
      OBVIOUS
    <2>4. F(i + 1)[i + 1] = G[i][F(i + 1)[i]]
      BY <2>1, <2>3 DEF Follows
    <2> QED BY <2>2, <2>4
  <1> HIDE DEF h
  <1>8. Recurses(h, X, z, G)
    BY <1>5, <1>6, <1>7 DEF Recurses
  <1> QED BY <1>8

-----------------------------------------------------------------------------
(* MultiBuffer. *)

\* Buffers have a positive size.
LEMMA BufferSizes == BufferSize \in [Nat -> Nat \ {0}]
  <1> DEFINE X == Nat \ {0}
             G == [i \in Nat |-> [x \in X |-> IF i + 1 <= 1 THEN InitialSize ELSE NextSize(x)]]
             Is(f) == f = [i \in Nat |-> IF i <= 1 THEN InitialSize ELSE NextSize(f[i - 1])]
  <1>1. InitialSize \in X /\ G \in [Nat -> [X -> X]]
    BY TransportAssumption DEF NextSize
  <1>2. PICK f : Recurses(f, X, InitialSize, G)
    <2> HIDE DEF G, X
    <2> QED BY <1>1, RecursionExists
  <1>3. Is(f)
    <2>1. ASSUME NEW i \in Nat PROVE f[i] = IF i <= 1 THEN InitialSize ELSE NextSize(f[i - 1])
      <3>1. CASE i = 0
        BY <1>2, <3>1 DEF Recurses
      <3>2. CASE i # 0
        <4>1. i - 1 \in Nat /\ (i - 1) + 1 = i
          BY <3>2
        <4>2. f[i] = G[i - 1][f[i - 1]]
          BY <1>2, <4>1 DEF Recurses
        <4>3. f[i - 1] \in X
          BY <1>2, <4>1 DEF Recurses
        <4> QED BY <4>1, <4>2, <4>3
      <3> QED BY <3>1, <3>2
    <2>2. f \in [Nat -> X]
      BY <1>2 DEF Recurses
    <2> QED BY <2>1, <2>2
  <1>4. Is(BufferSize)
    <2> HIDE DEF Is
    <2>1. BufferSize = CHOOSE g : Is(g)
      BY DEF BufferSize, Is
    <2> QED BY <1>3, <2>1, Zenon
  <1>5. ASSUME NEW i \in Nat PROVE BufferSize[i] = f[i]
    <2> DEFINE T == {n \in Nat : BufferSize[n] = f[n]}
    <2>1. 0 \in T
      BY <1>3, <1>4
    <2>2. ASSUME NEW n \in T PROVE n + 1 \in T
      <3>1. BufferSize[n + 1] = IF n + 1 <= 1 THEN InitialSize ELSE NextSize(BufferSize[n])
        BY <1>4
      <3>2. f[n + 1] = IF n + 1 <= 1 THEN InitialSize ELSE NextSize(f[n])
        BY <1>3
      <3> QED BY <3>1, <3>2
    <2>3. T = Nat
      <3>1. T \in SUBSET Nat
        OBVIOUS
      <3> HIDE DEF T
      <3> QED BY <2>1, <2>2, <3>1, NaturalsFromZero
    <2> QED BY <2>3
  <1>6. BufferSize = [i \in Nat |-> BufferSize[i]]
    BY <1>4
  <1>7. \A i \in Nat : f[i] \in X
    BY <1>2 DEF Recurses
  <1> QED BY <1>5, <1>6, <1>7

\* Each buffer makes room for at least one more byte.
LEMMA Rooms ==
    /\ Room \in [Nat -> Nat] /\ Room[0] = 0
    /\ \A i \in Nat : Room[i] < Room[i + 1] /\ i <= Room[i]
  <1> DEFINE G == [i \in Nat |-> [x \in Nat |-> x + BufferSize[i + 1]]]
             Is(f) == f = [i \in Nat |-> IF i = 0 THEN 0 ELSE f[i - 1] + BufferSize[i]]
  <1>1. G \in [Nat -> [Nat -> Nat]]
    BY BufferSizes
  <1>2. PICK f : Recurses(f, Nat, 0, G)
    <2> HIDE DEF G
    <2> QED BY <1>1, RecursionExists
  <1>3. Is(f)
    <2>1. ASSUME NEW i \in Nat PROVE f[i] = IF i = 0 THEN 0 ELSE f[i - 1] + BufferSize[i]
      <3>1. CASE i = 0
        BY <1>2, <3>1 DEF Recurses
      <3>2. CASE i # 0
        <4>1. i - 1 \in Nat /\ (i - 1) + 1 = i
          BY <3>2
        <4>2. f[i] = G[i - 1][f[i - 1]]
          BY <1>2, <4>1 DEF Recurses
        <4>3. f[i - 1] \in Nat
          BY <1>2, <4>1 DEF Recurses
        <4> QED BY <4>1, <4>2, <4>3, <3>2
      <3> QED BY <3>1, <3>2
    <2>2. f \in [Nat -> Nat]
      BY <1>2 DEF Recurses
    <2> QED BY <2>1, <2>2
  <1>4. Is(Room)
    <2> HIDE DEF Is
    <2>1. Room = CHOOSE g : Is(g)
      BY DEF Room, Is
    <2> QED BY <1>3, <2>1, Zenon
  <1>5. Room[0] = 0 /\ \A i \in Nat : Room[i + 1] = Room[i] + BufferSize[i + 1]
    BY <1>4
  <1> DEFINE T == {n \in Nat : Room[n] \in Nat /\ n <= Room[n]}
  <1>6. T = Nat
    <2>1. 0 \in T
      BY <1>5
    <2>2. ASSUME NEW n \in T PROVE n + 1 \in T
      BY <1>5, BufferSizes
    <2>3. T \in SUBSET Nat
      OBVIOUS
    <2> HIDE DEF T
    <2> QED BY <2>1, <2>2, <2>3, NaturalsFromZero
  <1>7. Room \in [Nat -> Nat]
    <2>1. Room = [i \in Nat |-> Room[i]]
      BY <1>4
    <2> QED BY <1>6, <2>1
  <1>8. ASSUME NEW i \in Nat PROVE Room[i] < Room[i + 1] /\ i <= Room[i]
    <2>1. Room[i] \in Nat /\ i <= Room[i] /\ BufferSize[i + 1] \in Nat \ {0}
      BY <1>6, BufferSizes
    <2>2. Room[i + 1] = Room[i] + BufferSize[i + 1]
      BY <1>5
    <2> QED BY <2>1, <2>2
  <1> QED BY <1>5, <1>7, <1>8

\* F[i] is the first i of some sequences put together.
Accumulates(seqs, n, F, T) ==
    /\ Len(seqs) = n /\ F \in [1 .. n -> Seq(T)]
    /\ \A i \in 1 .. n : /\ seqs[i] \in Seq(T)
                         /\ F[i] = IF i = 1 THEN seqs[i] ELSE F[i - 1] \o seqs[i]

\* What FlattenSeq gives when every prefix is known.
LEMMA Flattened ==
    ASSUME NEW T, NEW n \in Nat, NEW seqs, NEW F, Accumulates(seqs, n, F, T)
    PROVE  FlattenSeq(seqs) = IF n = 0 THEN seqs ELSE F[n]
  <1> DEFINE Is(f) == f = [i \in 1 .. n |-> IF i = 1 THEN seqs[i] ELSE f[i - 1] \o seqs[i]]
             flatten == CHOOSE f : Is(f)
  <1>0. /\ Len(seqs) = n /\ F \in [1 .. n -> Seq(T)]
        /\ \A i \in 1 .. n : F[i] = IF i = 1 THEN seqs[i] ELSE F[i - 1] \o seqs[i]
    BY DEF Accumulates
  <1>1. Is(F)
    BY <1>0
  <1>2. Is(flatten)
    <2> HIDE DEF Is
    <2> QED BY <1>1, Zenon
  <1>3. FlattenSeq(seqs) = IF n = 0 THEN seqs ELSE flatten[n]
    BY <1>0 DEF FlattenSeq
  <1>4. n # 0 => flatten[n] = F[n]
    <2> DEFINE U == {i \in Nat : i + 1 \in 1 .. n => flatten[i + 1] = F[i + 1]}
    <2> HIDE DEF flatten
    <2>1. 0 \in U
      BY <1>0, <1>2
    <2>2. ASSUME NEW i \in U PROVE i + 1 \in U
      <3> SUFFICES ASSUME (i + 1) + 1 \in 1 .. n PROVE flatten[(i + 1) + 1] = F[(i + 1) + 1]
        OBVIOUS
      <3>1. i + 1 \in 1 .. n /\ (i + 1) + 1 # 1 /\ ((i + 1) + 1) - 1 = i + 1
        OBVIOUS
      <3>2. flatten[(i + 1) + 1] = flatten[((i + 1) + 1) - 1] \o seqs[(i + 1) + 1]
        <4> DEFINE j == (i + 1) + 1
        <4>1. j \in 1 .. n /\ j # 1
          BY <3>1
        <4> HIDE DEF j
        <4>2. flatten[j] = flatten[j - 1] \o seqs[j]
          BY <1>2, <4>1
        <4> QED BY <4>2 DEF j
      <3>3. F[(i + 1) + 1] = F[i + 1] \o seqs[(i + 1) + 1]
        BY <1>0, <3>1
      <3> QED BY <3>1, <3>2, <3>3
    <2>3. U = Nat
      <3>1. U \in SUBSET Nat
        OBVIOUS
      <3> HIDE DEF U
      <3> QED BY <2>1, <2>2, <3>1, NaturalsFromZero
    <2>4. n # 0 => n - 1 \in Nat /\ (n - 1) + 1 = n
      OBVIOUS
    <2> SUFFICES ASSUME n # 0 PROVE flatten[n] = F[n]
      OBVIOUS
    <2>5. n - 1 \in U
      BY <2>3, <2>4
    <2> QED BY <2>4, <2>5
  <1> QED BY <1>3, <1>4

\* So the room of more buffers is more.
LEMMA RoomsGrow == \A j \in Nat : \A i \in 0 .. j : Room[i] <= Room[j]
  <1> DEFINE T == {j \in Nat : \A i \in 0 .. j : Room[i] <= Room[j]}
  <1>1. 0 \in T
    BY Rooms
  <1>2. ASSUME NEW j \in T PROVE j + 1 \in T
    <2> SUFFICES ASSUME NEW i \in 0 .. j + 1 PROVE Room[i] <= Room[j + 1]
      OBVIOUS
    <2>1. Room[i] \in Nat /\ Room[j] \in Nat /\ Room[j + 1] \in Nat /\ Room[j] < Room[j + 1]
      BY Rooms
    <2>2. i \in 0 .. j \/ i = j + 1
      OBVIOUS
    <2> QED BY <2>1, <2>2
  <1>3. T = Nat
    <2>1. T \in SUBSET Nat
      OBVIOUS
    <2> HIDE DEF T
    <2> QED BY <1>1, <1>2, <2>1, NaturalsFromZero
  <1> QED BY <1>3

\* There is a number of buffers that just holds a number of bytes.
Holds(k, len) == Room[k] >= len /\ (k > 0 => Room[k - 1] < len)
LEMMA BuffersSuffice == \A len \in Nat : \E k \in 0 .. len : Holds(k, len)
  <1> SUFFICES ASSUME NEW len \in Nat PROVE \E k \in 0 .. len : Holds(k, len)
    OBVIOUS
  <1> DEFINE T == {k \in Nat : Room[k] >= len}
  <1>1. len \in T
    BY Rooms
  <1>2. PICK k \in T : \A j \in T : <<j, k>> \notin OpToRel(<, Nat)
    <2>1. T \subseteq Nat /\ T # {}
      BY <1>1
    <2> HIDE DEF T
    <2> QED BY <2>1, NatLessThanWellFounded, WFMin, Zenon
  <1>3. k > 0 => Room[k - 1] < len
    <2> SUFFICES ASSUME k > 0 PROVE Room[k - 1] < len
      OBVIOUS
    <2>1. k - 1 \in Nat /\ k - 1 < k /\ k \in Nat
      OBVIOUS
    <2>2. <<k - 1, k>> \in OpToRel(<, Nat)
      BY <2>1 DEF OpToRel
    <2>3. k - 1 \notin T
      BY <1>2, <2>2
    <2>4. Room[k - 1] \in Nat
      BY <2>1, Rooms
    <2> QED BY <2>1, <2>3, <2>4
  <1>4. k <= len
    <2> SUFFICES ASSUME k > 0 PROVE k <= len
      OBVIOUS
    <2>1. k - 1 \in Nat /\ k - 1 <= Room[k - 1] /\ Room[k - 1] \in Nat
      BY Rooms
    <2> QED BY <1>3, <2>1
  <1> QED BY <1>3, <1>4 DEF Holds

\* MultiBuffer::write into a sink that was opened for a new frame: the sink holds
\* what was written and nothing of what it held before, whatever the buffers' sizes.
LEMMA WriteHolds ==
    ASSUME NEW T, NEW b \in [bufs : Seq(Seq(T)), used : {0}], NEW bytes \in Seq(T)
    PROVE  /\ Used(Write(b, bytes)) = bytes
           /\ Write(b, bytes) \in [bufs : Seq(Seq(T)), used : Nat]
  <1> DEFINE len == Len(bytes)
             upto(i) == Least(Room[i], len)
             piece(i) == SubSeq(bytes, Room[i - 1] + 1, upto(i))
             n == CHOOSE k \in 0 .. len : Holds(k, len)
             all == Used(b) \o bytes
             size == IF n > Len(b.bufs) THEN n ELSE Len(b.bufs)
             bufs == [i \in 1 .. size |-> IF i <= n THEN piece(i) ELSE b.bufs[i]]
  <1>1. all = bytes
    <2>1. SubSeq(b.bufs, 1, b.used) = <<>>
      BY SubSeqEmpty
    <2>2. Used(b) = <<>>
      BY <2>1 DEF Used, FlattenSeq
    <2> QED BY <2>2, ConcatEmptySeq
  <1>2. len \in Nat /\ n \in 0 .. len /\ Holds(n, len)
    <2>1. len \in Nat
      OBVIOUS
    <2>2. \E k \in 0 .. len : Holds(k, len)
      BY <2>1, BuffersSuffice
    <2> HIDE DEF len
    <2> QED BY <2>1, <2>2, Zenon
  <1>3. Write(b, bytes) = [bufs |-> bufs, used |-> n]
    <2> HIDE DEF all, n, piece
    <2>1. all = bytes /\ n = CHOOSE k \in 0 .. Len(all) : Room[k] >= Len(all) /\ (k > 0 => Room[k - 1] < Len(all))
      BY <1>1 DEF n, Holds
    <2> QED BY <1>1, <2>1 DEF Write, all, piece
  <1> HIDE DEF n, len
  <1>4. \A i \in 0 .. n : Room[i] \in Nat /\ upto(i) \in 0 .. len /\ (i < n => Room[i] = upto(i))
    <2> SUFFICES ASSUME NEW i \in 0 .. n PROVE Room[i] \in Nat /\ upto(i) \in 0 .. len /\ (i < n => Room[i] = upto(i))
      OBVIOUS
    <2>0. i \in Nat /\ n \in Nat
      BY <1>2
    <2>1. i \in Nat /\ n \in Nat /\ Room[i] \in Nat
      BY <2>0, Rooms
    <2>2. upto(i) \in 0 .. len
      BY <1>2, <2>1 DEF Least
    <2>3. ASSUME i < n PROVE Room[i] = upto(i)
      <3>1. n - 1 \in Nat /\ i \in 0 .. n - 1
        BY <2>1, <2>3
      <3>2. Room[i] <= Room[n - 1] /\ Room[n - 1] \in Nat
        BY <3>1, RoomsGrow, Rooms
      <3>3. Room[n - 1] < len
        BY <1>2, <2>1, <2>3 DEF Holds
      <3> QED BY <1>2, <2>1, <3>2, <3>3 DEF Least
    <2> QED BY <2>1, <2>2, <2>3
  <1>5. upto(n) = len
    BY <1>2, <1>4 DEF Holds, Least
  <1> HIDE DEF upto
  <1>6. \A i \in 1 .. n : piece(i) \in Seq(T)
    <2> SUFFICES ASSUME NEW i \in 1 .. n PROVE piece(i) \in Seq(T)
      OBVIOUS
    <2>1. i - 1 \in 0 .. n /\ i \in 0 .. n
      BY <1>2
    <2>2. Room[i - 1] + 1 \in Nat \ {0} /\ upto(i) \in 0 .. len
      BY <1>4, <2>1
    <2>3. \A j \in Room[i - 1] + 1 .. upto(i) : bytes[j] \in T
      BY <2>2 DEF len
    <2> QED BY <2>2, <2>3, SubSeqProperties
  <1>7. bufs \in Seq(Seq(T)) /\ Len(bufs) = size /\ size \in Nat /\ n \in 0 .. size
    <2>1. size \in Nat /\ n \in 0 .. size
      BY <1>2
    <2>2. \A i \in 1 .. size : (IF i <= n THEN piece(i) ELSE b.bufs[i]) \in Seq(T)
      <3> HIDE DEF piece
      <3> QED BY <1>2, <1>6
    <2> HIDE DEF piece, size
    <2> QED BY <2>1, <2>2, IsASeq
  <1>8. \A i \in 1 .. n : SubSeq(bufs, 1, n)[i] = piece(i) /\ Len(SubSeq(bufs, 1, n)) = n
    <2> HIDE DEF piece, size
    <2> QED BY <1>2, <1>7
  <1> DEFINE F == [i \in 1 .. n |-> SubSeq(bytes, 1, upto(i))]
  <1>9. ASSUME NEW i \in 1 .. n
        PROVE  F[i] \in Seq(T) /\ F[i] = IF i = 1 THEN piece(i) ELSE F[i - 1] \o piece(i)
    <2>0. i \in 0 .. n /\ i - 1 \in 0 .. n
      BY <1>2
    <2>1. /\ upto(i) \in 0 .. len /\ Room[i - 1] = upto(i - 1) /\ upto(i - 1) \in 0 .. len
          /\ Room[i - 1] <= Room[i] /\ Room[i] \in Nat
      <3>1. Room[i - 1] <= Room[i]
        BY <2>0, RoomsGrow
      <3> QED BY <1>2, <1>4, <2>0, <3>1
    <2>2. upto(i - 1) <= upto(i)
      BY <1>2, <2>1 DEF Least, upto
    <2>3. F[i] \in Seq(T)
      <3>1. \A j \in 1 .. upto(i) : bytes[j] \in T
        BY <2>1 DEF len
      <3> QED BY <2>1, <3>1, SubSeqProperties
    <2>4. CASE i = 1
      <3>1. i - 1 = 0 /\ Room[0] = 0
        BY <2>4, Rooms
      <3>2. Room[i - 1] + 1 = 1
        BY <3>1
      <3>3. piece(i) = SubSeq(bytes, 1, upto(i))
        BY <3>2
      <3> QED BY <2>3, <2>4, <3>3
    <2>5. CASE i # 1
      <3>1. i - 1 \in 1 .. n /\ F[i - 1] = SubSeq(bytes, 1, upto(i - 1))
        <4>1. i - 1 \in 1 .. n
          BY <1>2, <2>5
        <4> QED BY <4>1
      <3>2. SubSeq(bytes, 1, upto(i - 1)) \o SubSeq(bytes, upto(i - 1) + 1, upto(i)) = SubSeq(bytes, 1, upto(i))
        <4> DEFINE k == upto(i - 1)
                   m == upto(i)
        <4>1. k \in 1 - 1 .. Len(bytes) /\ m \in k .. Len(bytes) /\ 1 \in 1 .. Len(bytes) + 1
          BY <1>2, <2>1, <2>2 DEF len
        <4> HIDE DEF k, m
        <4>2. SubSeq(bytes, 1, k) \o SubSeq(bytes, k + 1, m) = SubSeq(bytes, 1, m)
          BY <4>1, ConcatAdjacentSubSeq
        <4> QED BY <4>2 DEF k, m
      <3> QED BY <2>1, <2>3, <2>5, <3>1, <3>2
    <2> QED BY <2>4, <2>5
  <1> DEFINE q == SubSeq(bufs, 1, n)
  <1>10. Len(q) = n
    <2> HIDE DEF piece, size, bufs
    <2> QED BY <1>2, <1>7
  <1>11. \A i \in 1 .. n : /\ q[i] \in Seq(T)
                           /\ F[i] = IF i = 1 THEN q[i] ELSE F[i - 1] \o q[i]
    <2> HIDE DEF F, piece, q
    <2>1. \A i \in 1 .. n : q[i] = piece(i)
      BY <1>8 DEF q
    <2> QED BY <1>6, <1>9, <2>1
  <1>12. F \in [1 .. n -> Seq(T)]
    BY <1>9
  <1>13. FlattenSeq(q) = IF n = 0 THEN q ELSE F[n]
    <2>1. n \in Nat
      BY <1>2
    <2>2. Accumulates(q, n, F, T)
      <3> HIDE DEF F, q
      <3> QED BY <1>10, <1>11, <1>12 DEF Accumulates
    <2> HIDE DEF F, q
    <2> QED BY <2>1, <2>2, Flattened
  <1>14. FlattenSeq(q) = bytes
    <2>1. CASE n = 0
      <3>1. len = 0
        BY <1>2, <2>1, Rooms DEF Holds
      <3>2. bytes = <<>>
        BY <3>1 DEF len
      <3>3. q = <<>>
        BY <2>1, SubSeqEmpty
      <3> QED BY <1>13, <2>1, <3>2, <3>3
    <2>2. CASE n # 0
      <3>1. F[n] = SubSeq(bytes, 1, len)
        BY <1>2, <1>5, <2>2
      <3>2. F[n] = bytes
        BY <3>1, SubSeqFull DEF len
      <3> QED BY <1>13, <2>2, <3>2
    <2> QED BY <2>1, <2>2
  <1>15. Used(Write(b, bytes)) = FlattenSeq(q)
    <2> HIDE DEF bufs
    <2> QED BY <1>3 DEF Used
  <1>16. Write(b, bytes) \in [bufs : Seq(Seq(T)), used : Nat]
    <2>1. n \in Nat
      BY <1>2
    <2> HIDE DEF bufs, size
    <2> QED BY <1>3, <1>7, <2>1
  <1> HIDE DEF q, bufs
  <1> QED BY <1>14, <1>15, <1>16

-----------------------------------------------------------------------------
(* Streams of frames. *)

Ids == (Senders \X Nat) \cup {0}
TokenSet ==
    [t : {"frame", "env", "chunk", "byte"}, id : Ids, n : Nat, num : Nat, size : Nat, known : BOOLEAN]

\* A token of the stream has the fields of one.
LEMMA TokenOf ==
    ASSUME NEW w \in Seq(TokenSet), NEW i \in 1 .. Len(w)
    PROVE  w[i] \in TokenSet /\ w[i].n \in Nat
  <1>1. w[i] \in TokenSet
    OBVIOUS
  <1> QED BY <1>1 DEF TokenSet

\* The fixed part of a MessageChunk: its number is below the announced count.
IsChunkHead(k) == k.t = "chunk" /\ k.n < k.num

\* What a frame holds: an envelope first, then a chunk if the envelope is of one,
\* and no header of another frame.
Contained(data) ==
    /\ data \in Seq(TokenSet) /\ data # <<>>
    /\ \A i \in 1 .. Len(data) : data[i].t # "frame"
    /\ data[1].num = 1 => Len(data) >= 2 /\ IsChunkHead(data[2])

\* The header at i says how long its frame is; a frame may only be incomplete
\* when the connection has gone.
FrameAt(w, gone, i) ==
    /\ w[i].n >= 1
    /\ gone \/ i + w[i].n <= Len(w)
    /\ \A j \in 1 .. Len(w) : i < j /\ j <= i + w[i].n => w[j].t # "frame"
    /\ i + w[i].n < Len(w) => w[i + w[i].n + 1].t = "frame"
    /\ i < Len(w) /\ w[i + 1].num = 1 =>
         /\ w[i].n >= 2
         /\ i + 1 < Len(w) => IsChunkHead(w[i + 2])

InFrames(w, gone) ==
    /\ w \in Seq(TokenSet)
    /\ w # <<>> => w[1].t = "frame"
    /\ \A i \in 1 .. Len(w) : w[i].t = "frame" => FrameAt(w, gone, i)

\* A frame written behind whole frames.
LEMMA FramesAppended ==
    ASSUME NEW w, InFrames(w, FALSE), NEW data, Contained(data)
    PROVE  InFrames(w \o Framed(data), FALSE)
  <1> DEFINE len == Len(w)
             f == Len(data)
             head == FrameToken(f)
             new == w \o Framed(data)
  <1>1. w \in Seq(TokenSet) /\ data \in Seq(TokenSet) /\ len \in Nat /\ f \in Nat /\ f >= 1
    BY DEF InFrames, Contained
  <1>2. head \in TokenSet /\ head.t = "frame" /\ head.n = f
    BY <1>1 DEF FrameToken, Token, TokenSet, Ids
  <1>3. /\ Framed(data) \in Seq(TokenSet) /\ Len(Framed(data)) = f + 1 /\ Framed(data)[1] = head
        /\ \A k \in 1 .. f : Framed(data)[k + 1] = data[k]
    <2> HIDE DEF head
    <2>1. Framed(data) = <<head>> \o data
      BY DEF Framed, head
    <2> QED BY <1>1, <1>2, <2>1
  <1>4. /\ new \in Seq(TokenSet) /\ Len(new) = len + f + 1
        /\ \A j \in 1 .. len : new[j] = w[j]
        /\ new[len + 1] = head
        /\ \A k \in 1 .. f : new[len + 1 + k] = data[k]
    <2> HIDE DEF head
    <2>1. /\ new \in Seq(TokenSet) /\ Len(new) = len + (f + 1)
          /\ \A j \in 1 .. len + (f + 1) : new[j] = IF j <= len THEN w[j] ELSE Framed(data)[j - len]
      BY <1>1, <1>3, ConcatProperties
    <2> HIDE DEF new
    <2>2. \A k \in 1 .. f : new[len + 1 + k] = data[k]
      <3> SUFFICES ASSUME NEW k \in 1 .. f PROVE new[len + 1 + k] = data[k]
        OBVIOUS
      <3>1. len + 1 + k \in 1 .. len + (f + 1) /\ ~(len + 1 + k <= len) /\ (len + 1 + k) - len = k + 1
        BY <1>1
      <3> QED BY <1>3, <2>1, <3>1
    <2>3. \A j \in 1 .. len : new[j] = w[j]
      <3> SUFFICES ASSUME NEW j \in 1 .. len PROVE new[j] = w[j]
        OBVIOUS
      <3>1. j \in 1 .. len + (f + 1) /\ j <= len
        BY <1>1
      <3> QED BY <2>1, <3>1
    <2>4. new[len + 1] = head
      <3>1. len + 1 \in 1 .. len + (f + 1) /\ ~(len + 1 <= len) /\ (len + 1) - len = 1
        BY <1>1
      <3> QED BY <1>3, <2>1, <3>1
    <2>5. Len(new) = len + f + 1
      <3> HIDE DEF len, f
      <3> QED BY <1>1, <2>1
    <2> QED BY <2>1, <2>2, <2>3, <2>4, <2>5
  <1> HIDE DEF head, new, len, f
  <1>0. len \in Nat /\ f \in Nat /\ f >= 1 /\ Len(new) = len + f + 1
    BY <1>1, <1>4
  <1>5. ASSUME NEW i \in 1 .. len, w[i].t = "frame" PROVE FrameAt(new, FALSE, i)
    <2> DEFINE n == w[i].n
    <2>1. /\ n \in Nat /\ n >= 1 /\ i + n <= len
          /\ \A j \in 1 .. len : i < j /\ j <= i + n => w[j].t # "frame"
          /\ i + n < len => w[i + n + 1].t = "frame"
          /\ i < len /\ w[i + 1].num = 1 => n >= 2 /\ (i + 1 < len => IsChunkHead(w[i + 2]))
      <3>1. w[i].n \in Nat
        BY <1>1, TokenOf DEF len
      <3> QED BY <1>5, <3>1 DEF InFrames, FrameAt, len
    <2>2. new[i] = w[i]
      BY <1>4
    <2> HIDE DEF n
    <2>3. \A j \in 1 .. Len(new) : i < j /\ j <= i + n => new[j].t # "frame"
      <3> SUFFICES ASSUME NEW j \in 1 .. Len(new), i < j, j <= i + n PROVE new[j].t # "frame"
        OBVIOUS
      <3>1. j \in 1 .. len
        BY <1>0, <2>1
      <3> QED BY <1>4, <2>1, <3>1
    <2>4. i + n < Len(new) => new[i + n + 1].t = "frame"
      <3>1. CASE i + n < len
        <4>1. i + n + 1 \in 1 .. len
          BY <1>0, <2>1, <3>1
        <4> QED BY <1>4, <2>1, <3>1, <4>1
      <3>2. CASE i + n = len
        <4>1. new[i + n + 1] = head
          BY <1>4, <3>2
        <4> QED BY <1>2, <4>1
      <3>3. i + n < len \/ i + n = len
        BY <1>0, <2>1
      <3> QED BY <3>1, <3>2, <3>3
    <2>5. i < Len(new) /\ new[i + 1].num = 1 => n >= 2 /\ (i + 1 < Len(new) => IsChunkHead(new[i + 2]))
      <3> SUFFICES ASSUME new[i + 1].num = 1 PROVE n >= 2 /\ IsChunkHead(new[i + 2])
        OBVIOUS
      <3>1. i < len /\ new[i + 1] = w[i + 1]
        <4>1. i < len /\ i + 1 \in 1 .. len
          BY <1>0, <2>1
        <4> QED BY <1>4, <4>1
      <3>2. n >= 2 /\ i + 1 < len
        BY <1>1, <2>1, <3>1
      <3>3. new[i + 2] = w[i + 2]
        BY <1>1, <1>4, <3>2
      <3> QED BY <2>1, <3>1, <3>2, <3>3
    <2>6. i + n <= Len(new)
      BY <1>1, <1>4, <2>1
    <2> QED BY <2>1, <2>2, <2>3, <2>4, <2>5, <2>6 DEF FrameAt, n
  <1>6. FrameAt(new, FALSE, len + 1)
    <2>1. new[len + 1].n = f
      BY <1>2, <1>4
    <2>2. \A j \in 1 .. Len(new) : len + 1 < j /\ j <= (len + 1) + f => new[j].t # "frame"
      <3> SUFFICES ASSUME NEW j \in 1 .. Len(new), len + 1 < j PROVE new[j].t # "frame"
        OBVIOUS
      <3>1. j - len - 1 \in 1 .. f /\ len + 1 + (j - len - 1) = j
        BY <1>1, <1>4
      <3>2. new[j] = data[j - len - 1]
        BY <1>4, <3>1
      <3> QED BY <3>1, <3>2 DEF Contained, f
    <2>3. ~((len + 1) + f < Len(new)) /\ (len + 1) + f <= Len(new)
      BY <1>1, <1>4
    <2>4. new[(len + 1) + 1].num = 1 => f >= 2 /\ IsChunkHead(new[(len + 1) + 2])
      <3>1. new[(len + 1) + 1] = data[1]
        BY <1>1, <1>4
      <3>2. f >= 2 => new[(len + 1) + 2] = data[2]
        BY <1>1, <1>4
      <3> QED BY <3>1, <3>2 DEF Contained, f
    <2> QED BY <1>1, <2>1, <2>2, <2>3, <2>4 DEF FrameAt
  <1>7. ASSUME NEW i \in 1 .. Len(new), new[i].t = "frame" PROVE FrameAt(new, FALSE, i)
    <2>1. CASE i <= len
      <3>1. i \in 1 .. len /\ new[i] = w[i]
        BY <1>1, <1>4, <2>1
      <3> QED BY <1>5, <1>7, <3>1
    <2>2. CASE i = len + 1
      BY <1>6, <2>2
    <2>3. CASE i > len + 1
      <3>1. i - len - 1 \in 1 .. f /\ len + 1 + (i - len - 1) = i
        BY <1>1, <1>4, <2>3
      <3>2. new[i] = data[i - len - 1]
        BY <1>4, <3>1
      <3> QED BY <1>7, <3>1, <3>2 DEF Contained, f
    <2>4. i <= len \/ i = len + 1 \/ i > len + 1
      BY <1>0
    <2> QED BY <2>1, <2>2, <2>3, <2>4
  <1>8. new[1].t = "frame"
    <2>1. CASE len = 0
      BY <1>2, <1>4, <2>1
    <2>2. CASE len # 0
      <3>1. w # <<>> /\ new[1] = w[1]
        BY <1>1, <1>4, <2>2 DEF len
      <3> QED BY <3>1 DEF InFrames
    <2> QED BY <2>1, <2>2
  <1> QED BY <1>4, <1>7, <1>8 DEF InFrames, new

\* A stream that is cut.
LEMMA FramesCut ==
    ASSUME NEW w, NEW gone, InFrames(w, gone), NEW n \in 0 .. Len(w)
    PROVE  InFrames(SubSeq(w, 1, n), TRUE)
  <1> DEFINE v == SubSeq(w, 1, n)
  <1>1. w \in Seq(TokenSet) /\ Len(w) \in Nat
    BY DEF InFrames
  <1>2. v \in Seq(TokenSet) /\ Len(v) = n /\ \A i \in 1 .. n : v[i] = w[i]
    BY <1>1
  <1> HIDE DEF v
  <1>3. v # <<>> => v[1].t = "frame"
    BY <1>1, <1>2 DEF InFrames
  <1>4. ASSUME NEW i \in 1 .. Len(v), v[i].t = "frame" PROVE FrameAt(v, TRUE, i)
    <2> DEFINE m == w[i].n
    <2>1. i \in 1 .. Len(w) /\ v[i] = w[i] /\ m \in Nat
      <3>1. i \in 1 .. Len(w) /\ v[i] = w[i]
        BY <1>1, <1>2
      <3> QED BY <1>1, <3>1, TokenOf
    <2>2. FrameAt(w, gone, i)
      BY <1>4, <2>1 DEF InFrames
    <2>3. /\ m >= 1
          /\ \A j \in 1 .. Len(w) : i < j /\ j <= i + m => w[j].t # "frame"
          /\ i + m < Len(w) => w[i + m + 1].t = "frame"
          /\ i < Len(w) /\ w[i + 1].num = 1 => m >= 2 /\ (i + 1 < Len(w) => IsChunkHead(w[i + 2]))
      BY <2>2 DEF FrameAt
    <2> HIDE DEF m
    <2>4. \A j \in 1 .. Len(v) : i < j /\ j <= i + m => v[j].t # "frame"
      BY <1>1, <1>2, <2>3
    <2>5. i + m < Len(v) => v[i + m + 1].t = "frame"
      BY <1>1, <1>2, <2>1, <2>3
    <2>6. i < Len(v) /\ v[i + 1].num = 1 => m >= 2 /\ (i + 1 < Len(v) => IsChunkHead(v[i + 2]))
      BY <1>1, <1>2, <2>1, <2>3
    <2> QED BY <2>1, <2>3, <2>4, <2>5, <2>6 DEF FrameAt, m
  <1> QED BY <1>2, <1>3, <1>4 DEF InFrames, v

\* A frame taken off the front: what it held, and what is left.
LEMMA FramesTaken ==
    ASSUME NEW w, NEW gone, InFrames(w, gone), w # <<>>, Len(w) > NextFrame(w).size
    PROVE  /\ InFrames(NextFrame(w).rest, gone)
           /\ Contained(SubSeq(w, 2, NextFrame(w).size + 1))
  <1> DEFINE n == w[1].n
             rest == SubSeq(w, n + 2, Len(w))
             data == SubSeq(w, 2, n + 1)
  <1>1. w \in Seq(TokenSet) /\ Len(w) \in Nat /\ 1 \in 1 .. Len(w)
    BY DEF InFrames
  <1>2. NextFrame(w) = [size |-> n, rest |-> rest]
    BY DEF NextFrame
  <1>3. n \in Nat /\ n < Len(w)
    BY <1>1, <1>2, TokenOf
  <1>4. FrameAt(w, gone, 1)
    BY <1>1 DEF InFrames
  <1>5. n >= 1
    BY <1>4 DEF FrameAt
  <1>6. data \in Seq(TokenSet) /\ Len(data) = n /\ \A i \in 1 .. n : data[i] = w[i + 1]
    <2> HIDE DEF n
    <2>1. \A i \in 2 .. n + 1 : w[i] \in TokenSet
      BY <1>1, <1>3
    <2>2. /\ data \in Seq(TokenSet) /\ Len(data) = n
          /\ \A i \in 1 .. (n + 1) - 2 + 1 : data[i] = w[2 + i - 1]
      BY <1>3, <1>5, <2>1, SubSeqProperties
    <2> QED BY <1>3, <2>2
  <1>7. rest \in Seq(TokenSet) /\ Len(rest) = Len(w) - n - 1 /\ \A i \in 1 .. Len(rest) : rest[i] = w[i + n + 1]
    <2> HIDE DEF n
    <2>1. \A i \in n + 2 .. Len(w) : w[i] \in TokenSet
      BY <1>1, <1>3
    <2>2. /\ rest \in Seq(TokenSet) /\ Len(rest) = Len(w) - n - 1
          /\ \A i \in 1 .. Len(w) - (n + 2) + 1 : rest[i] = w[(n + 2) + i - 1]
      BY <1>1, <1>3, <2>1, SubSeqProperties
    <2> HIDE DEF rest
    <2> QED BY <1>1, <1>3, <2>2
  <1>8. Contained(data)
    <2>1. \A i \in 1 .. n : data[i].t # "frame"
      <3> SUFFICES ASSUME NEW i \in 1 .. n PROVE w[i + 1].t # "frame"
        BY <1>6
      <3>1. i + 1 \in 1 .. Len(w) /\ 1 < i + 1 /\ i + 1 <= 1 + n
        BY <1>1, <1>3
      <3> QED BY <1>4, <3>1 DEF FrameAt
    <2>2. data[1].num = 1 => n >= 2 /\ IsChunkHead(data[2])
      <3> SUFFICES ASSUME data[1].num = 1 PROVE n >= 2 /\ IsChunkHead(data[2])
        OBVIOUS
      <3>1. w[1 + 1].num = 1 /\ 1 < Len(w)
        BY <1>1, <1>3, <1>5, <1>6
      <3>2. n >= 2 /\ (1 + 1 < Len(w) => IsChunkHead(w[1 + 2]))
        BY <1>4, <3>1 DEF FrameAt
      <3>3. data[2] = w[1 + 2] /\ 1 + 1 < Len(w)
        BY <1>1, <1>3, <1>6, <3>2
      <3> QED BY <3>2, <3>3
    <2> HIDE DEF data
    <2> QED BY <1>3, <1>5, <1>6, <2>1, <2>2 DEF Contained
  <1> HIDE DEF rest
  <1>9. rest # <<>> => rest[1].t = "frame"
    <2> SUFFICES ASSUME rest # <<>> PROVE rest[1].t = "frame"
      OBVIOUS
    <2>1. 1 + n < Len(w) /\ rest[1] = w[1 + n + 1]
      BY <1>1, <1>3, <1>7
    <2> QED BY <1>4, <2>1 DEF FrameAt
  <1>10. ASSUME NEW i \in 1 .. Len(rest), rest[i].t = "frame" PROVE FrameAt(rest, gone, i)
    <2> DEFINE k == i + n + 1
               m == w[k].n
    <2>1. k \in 1 .. Len(w) /\ rest[i] = w[k] /\ m \in Nat
      <3> HIDE DEF n
      <3>1. k \in 1 .. Len(w) /\ rest[i] = w[k]
        BY <1>1, <1>3, <1>7
      <3> HIDE DEF k
      <3> QED BY <1>1, <3>1, TokenOf
    <2>2. FrameAt(w, gone, k)
      BY <1>10, <2>1 DEF InFrames
    <2> HIDE DEF n
    <2>3. /\ m >= 1 /\ (gone \/ k + m <= Len(w))
          /\ \A j \in 1 .. Len(w) : k < j /\ j <= k + m => w[j].t # "frame"
          /\ k + m < Len(w) => w[k + m + 1].t = "frame"
          /\ k < Len(w) /\ w[k + 1].num = 1 => m >= 2 /\ (k + 1 < Len(w) => IsChunkHead(w[k + 2]))
      BY <2>2 DEF FrameAt
    <2> HIDE DEF m
    <2>4. gone \/ i + m <= Len(rest)
      BY <1>1, <1>3, <1>7, <2>1, <2>3
    <2>5. \A j \in 1 .. Len(rest) : i < j /\ j <= i + m => rest[j].t # "frame"
      <3> SUFFICES ASSUME NEW j \in 1 .. Len(rest), i < j, j <= i + m PROVE rest[j].t # "frame"
        OBVIOUS
      <3>1. j + n + 1 \in 1 .. Len(w) /\ k < j + n + 1 /\ j + n + 1 <= k + m /\ rest[j] = w[j + n + 1]
        BY <1>1, <1>3, <1>7, <2>1
      <3> QED BY <2>3, <3>1
    <2>6. i + m < Len(rest) => rest[i + m + 1].t = "frame"
      <3> SUFFICES ASSUME i + m < Len(rest) PROVE rest[i + m + 1].t = "frame"
        OBVIOUS
      <3>1. k + m < Len(w) /\ rest[i + m + 1] = w[(i + m + 1) + n + 1] /\ (i + m + 1) + n + 1 = k + m + 1
        BY <1>1, <1>3, <1>7, <2>1
      <3> QED BY <2>3, <3>1
    <2>7. i < Len(rest) /\ rest[i + 1].num = 1 => m >= 2 /\ (i + 1 < Len(rest) => IsChunkHead(rest[i + 2]))
      <3> SUFFICES ASSUME i < Len(rest), rest[i + 1].num = 1
                   PROVE  m >= 2 /\ (i + 1 < Len(rest) => IsChunkHead(rest[i + 2]))
        OBVIOUS
      <3>1. k < Len(w) /\ rest[i + 1] = w[(i + 1) + n + 1] /\ (i + 1) + n + 1 = k + 1
        BY <1>1, <1>3, <1>7, <2>1
      <3>2. i + 1 < Len(rest) => k + 1 < Len(w) /\ rest[i + 2] = w[(i + 2) + n + 1] /\ (i + 2) + n + 1 = k + 2
        BY <1>1, <1>3, <1>7, <2>1
      <3> QED BY <2>3, <3>1, <3>2
    <2> QED BY <2>1, <2>3, <2>4, <2>5, <2>6, <2>7 DEF FrameAt, m
  <1>11. InFrames(rest, gone)
    BY <1>7, <1>9, <1>10 DEF InFrames
  <1> QED BY <1>2, <1>8, <1>11


-----------------------------------------------------------------------------
(* What is put. *)

Sendable ==
    {e \in [id : Senders \X Nat, class : {"object", "chunk"}, c : Contents, last : BOOLEAN,
            body : Seq(TokenSet)] :
        /\ \A i \in 1 .. Len(e.body) : e.body[i].t # "frame"
        /\ e.class = "chunk" => ~e.c.opaque /\ e.body # <<>> /\ IsChunkHead(e.body[1])}

\* A tuple built with 1 .. n is a sequence, also for a negative n.
LEMMA Enumerated ==
    ASSUME NEW n \in Int, NEW S, NEW f, f \in [1 .. n -> S]
    PROVE  /\ f \in Seq(S) /\ Len(f) = IF n > 0 THEN n ELSE 0
           /\ \A i \in 1 .. Len(f) : i \in 1 .. n
  <1> DEFINE m == IF n > 0 THEN n ELSE 0
  <1>1. m \in Nat /\ 1 .. n = 1 .. m
    OBVIOUS
  <1> HIDE DEF m
  <1>2. f \in Seq(S) /\ Len(f) = m
    BY <1>1
  <1> QED BY <1>1, <1>2 DEF m

\* The bytes of a message are tokens.
LEMMA BytesAreTokens ==
    ASSUME NEW id \in Ids, NEW from \in Nat, NEW to \in Int
    PROVE  /\ Bytes(id, from, to) \in Seq(TokenSet)
           /\ \A i \in 1 .. Len(Bytes(id, from, to)) : Bytes(id, from, to)[i].t # "frame"
  <1> DEFINE n == to - from + 1
             B == Bytes(id, from, to)
  <1>1. n \in Int
    OBVIOUS
  <1>2. \A i \in 1 .. n : Token("byte", id, from + i - 1, 0, 0, TRUE) \in TokenSet
    BY DEF Token, TokenSet
  <1>3. B \in [1 .. n -> TokenSet]
    BY <1>2 DEF Bytes
  <1>4. \A i \in 1 .. n : B[i].t # "frame"
    BY DEF Bytes, Token
  <1> HIDE DEF n, B
  <1>5. B \in Seq(TokenSet) /\ \A i \in 1 .. Len(B) : i \in 1 .. n
    BY <1>1, <1>3, Enumerated
  <1> QED BY <1>4, <1>5 DEF B

\* A content has the fields of one.
LEMMA ContentTyped ==
    ASSUME NEW c \in Contents
    PROVE  /\ c.declared \in Nat /\ c.actual \in Nat /\ c.known \in BOOLEAN /\ NumChunks(c) \in Int
  <1>1. c \in ContentType /\ ChunkSize \in Nat \ {0}
    BY TransportAssumption
  <1>2. c.declared \in Nat /\ c.actual \in Nat /\ c.known \in BOOLEAN
    BY <1>1 DEF ContentType
  <1>3. NumChunks(c) \in Int
    <2>1. c.actual + ChunkSize - 1 \in Int
      BY <1>1, <1>2
    <2> QED BY <1>1, <2>1 DEF NumChunks
  <1> QED BY <1>2, <1>3

\* A chunk's body starts with its fixed part and goes on with bytes.
LEMMA ChunkBodiesAreTokens ==
    ASSUME NEW id \in Ids, NEW c \in Contents, NEW index \in Nat, index < NumChunks(c)
    PROVE  /\ ChunkBody(id, c, index) \in Seq(TokenSet)
           /\ ChunkBody(id, c, index) # <<>> /\ IsChunkHead(ChunkBody(id, c, index)[1])
           /\ \A i \in 1 .. Len(ChunkBody(id, c, index)) : ChunkBody(id, c, index)[i].t # "frame"
  <1> DEFINE from == index * ChunkSize + 1
             to == Least((index + 1) * ChunkSize, c.actual)
             head == Token("chunk", id, index, NumChunks(c), c.declared, c.known)
             bytes == Bytes(id, from, to)
             body == ChunkBody(id, c, index)
  <1>1. from \in Nat /\ to \in Int
    <2>1. ChunkSize \in Nat /\ c.actual \in Nat
      BY ContentTyped, TransportAssumption
    <2> QED BY <2>1 DEF Least
  <1>2. head \in TokenSet /\ head.t = "chunk" /\ IsChunkHead(head)
    BY ContentTyped DEF Token, TokenSet, IsChunkHead
  <1> HIDE DEF from, to
  <1>3. bytes \in Seq(TokenSet) /\ \A i \in 1 .. Len(bytes) : bytes[i].t # "frame"
    BY <1>1, BytesAreTokens
  <1>4. body = <<head>> \o bytes
    BY DEF ChunkBody, from, to
  <1> HIDE DEF head, bytes, body
  <1>5. /\ body \in Seq(TokenSet) /\ Len(body) = Len(bytes) + 1 /\ body[1] = head
        /\ \A i \in 2 .. Len(body) : body[i] = bytes[i - 1] /\ i - 1 \in 1 .. Len(bytes)
    BY <1>2, <1>3, <1>4
  <1>6. \A i \in 1 .. Len(body) : body[i].t # "frame"
    <2> SUFFICES ASSUME NEW i \in 1 .. Len(body) PROVE body[i].t # "frame"
      OBVIOUS
    <2>1. CASE i = 1
      BY <1>2, <1>5, <2>1
    <2>2. CASE i # 1
      <3>1. i \in 2 .. Len(body)
        BY <2>2
      <3> QED BY <1>3, <1>5, <3>1
    <2> QED BY <2>1, <2>2
  <1>7. body # <<>>
    BY <1>3, <1>5
  <1> QED BY <1>2, <1>5, <1>6, <1>7 DEF body

\* The envelopes that putEnvelope queues.
LEMMA PutSendable ==
    ASSUME NEW s \in Senders, NEW k \in Nat, NEW c \in Contents
    PROVE  /\ <<[id |-> <<s, k>>, class |-> "object", c |-> c, last |-> TRUE,
                 body |-> Bytes(<<s, k>>, 1, c.actual)]>> \in Seq(Sendable)
           /\ Chunked(c) =>
                [i \in 1 .. NumChunks(c) |->
                    [id |-> <<s, k>>, class |-> "chunk", c |-> c, last |-> i = NumChunks(c),
                     body |-> ChunkBody(<<s, k>>, c, i - 1)]] \in Seq(Sendable)
  <1> DEFINE id == <<s, k>>
             n == NumChunks(c)
             object == [id |-> id, class |-> "object", c |-> c, last |-> TRUE,
                        body |-> Bytes(id, 1, c.actual)]
             chunk(i) == [id |-> id, class |-> "chunk", c |-> c, last |-> i = n,
                          body |-> ChunkBody(id, c, i - 1)]
  <1>1. id \in Senders \X Nat /\ id \in Ids
    BY DEF Ids
  <1>2. n \in Int /\ c.actual \in Nat
    BY ContentTyped
  <1> HIDE DEF id, n
  <1>3. object \in Sendable
    <2> DEFINE body == Bytes(id, 1, c.actual)
    <2>1. body \in Seq(TokenSet) /\ \A i \in 1 .. Len(body) : body[i].t # "frame"
      BY <1>1, <1>2, BytesAreTokens
    <2> HIDE DEF body
    <2>2. [id |-> id, class |-> "object", c |-> c, last |-> TRUE, body |-> body] \in Sendable
      BY <1>1, <2>1 DEF Sendable
    <2> QED BY <2>2 DEF body
  <1>4. ASSUME Chunked(c), NEW i \in 1 .. n PROVE chunk(i) \in Sendable
    <2> DEFINE body == ChunkBody(id, c, i - 1)
               last == i = n
    <2>1. i - 1 \in Nat /\ i - 1 < n
      BY <1>2
    <2>2. /\ body \in Seq(TokenSet) /\ body # <<>> /\ IsChunkHead(body[1])
          /\ \A j \in 1 .. Len(body) : body[j].t # "frame"
      BY <1>1, <2>1, ChunkBodiesAreTokens DEF n
    <2>3. ~c.opaque
      BY <1>4 DEF Chunked
    <2>4. last \in BOOLEAN
      OBVIOUS
    <2> HIDE DEF body, last
    <2>5. [id |-> id, class |-> "chunk", c |-> c, last |-> last, body |-> body] \in Sendable
      BY <1>1, <2>2, <2>3, <2>4 DEF Sendable
    <2> QED BY <2>5 DEF body, last
  <1>5. <<object>> \in Seq(Sendable)
    <2> HIDE DEF object
    <2> QED BY <1>3
  <1>6. Chunked(c) => [i \in 1 .. n |-> chunk(i)] \in Seq(Sendable)
    <2> SUFFICES ASSUME Chunked(c) PROVE [i \in 1 .. n |-> chunk(i)] \in Seq(Sendable)
      OBVIOUS
    <2> HIDE DEF chunk
    <2>1. [i \in 1 .. n |-> chunk(i)] \in [1 .. n -> Sendable]
      BY <1>4
    <2> QED BY <1>2, <2>1, Enumerated
  <1> QED BY <1>5, <1>6 DEF id, n

\* The frame of an envelope holds what the receiver expects.
LEMMA EnvelopesContained ==
    ASSUME NEW e \in Sendable
    PROVE  /\ Contained(<<Envelope(e)>> \o e.body)
           /\ <<Envelope(e)>> \in Seq(TokenSet)
           /\ e.body \in Seq(TokenSet) /\ Half(e.body) \in Seq(TokenSet)
  <1> DEFINE head == Envelope(e)
             body == e.body
             data == <<head>> \o body
  <1>1. e.id \in Ids /\ e.c \in Contents /\ body \in Seq(TokenSet)
    BY DEF Sendable, Ids
  <1>2. e.c.name % NameMod \in Nat /\ (e.c.known \/ e.class = "chunk") \in BOOLEAN
    <2>1. e.c.name \in Nat /\ NameMod \in Nat \ {0}
      BY <1>1, TransportAssumption DEF ContentType
    <2> QED BY <2>1
  <1>3. head \in TokenSet /\ head.t = "env" /\ (head.num = 1 => e.class = "chunk")
    BY <1>1, <1>2 DEF Envelope, Token, TokenSet
  <1>4. /\ \A i \in 1 .. Len(body) : body[i].t # "frame"
        /\ e.class = "chunk" => body # <<>> /\ IsChunkHead(body[1])
    BY DEF Sendable
  <1>5. Half(body) \in Seq(TokenSet)
    <2>1. Len(body) \in Nat
      BY <1>1
    <2>2. \A n \in Nat : n \div 2 \in 0 .. n
      OBVIOUS
    <2> DEFINE half == Len(body) \div 2
    <2>3. half \in 0 .. Len(body)
      BY <2>1, <2>2
    <2> HIDE DEF half, body
    <2>4. \A i \in 1 .. half : body[i] \in TokenSet
      BY <1>1, <2>1, <2>3
    <2>5. SubSeq(body, 1, half) \in Seq(TokenSet)
      BY <2>3, <2>4, SubSeqProperties
    <2> QED BY <2>5 DEF Half, half
  <1> HIDE DEF head, body, data
  <1>6. /\ data \in Seq(TokenSet) /\ Len(data) = Len(body) + 1 /\ data[1] = head /\ Len(body) \in Nat
        /\ \A i \in 2 .. Len(data) : data[i] = body[i - 1] /\ i - 1 \in 1 .. Len(body)
    BY <1>1, <1>3 DEF data
  <1>7. \A i \in 1 .. Len(data) : data[i].t # "frame"
    <2> SUFFICES ASSUME NEW i \in 1 .. Len(data) PROVE data[i].t # "frame"
      OBVIOUS
    <2>1. CASE i = 1
      BY <1>3, <1>6, <2>1
    <2>2. CASE i # 1
      <3>1. i \in 2 .. Len(data)
        BY <2>2
      <3> QED BY <1>4, <1>6, <3>1
    <2> QED BY <2>1, <2>2
  <1>8. data[1].num = 1 => Len(data) >= 2 /\ IsChunkHead(data[2])
    <2> SUFFICES ASSUME data[1].num = 1 PROVE Len(data) >= 2 /\ IsChunkHead(data[2])
      OBVIOUS
    <2>1. body # <<>> /\ IsChunkHead(body[1])
      BY <1>3, <1>4, <1>6
    <2>2. Len(data) >= 2
      BY <1>1, <1>6, <2>1
    <2>3. data[2] = body[1]
      BY <1>6, <2>2
    <2> QED BY <2>1, <2>2, <2>3
  <1>9. data # <<>>
    BY <1>6
  <1>10. Contained(data)
    BY <1>6, <1>7, <1>8, <1>9 DEF Contained
  <1>11. <<head>> \in Seq(TokenSet)
    BY <1>3
  <1> QED BY <1>1, <1>5, <1>10, <1>11 DEF data, head, body

-----------------------------------------------------------------------------
(* The receiver's table. *)

\* An unchunker has no chunk with a number out of its range.
IsUnchunker(u) ==
    /\ u = [num |-> u.num, size |-> u.size, known |-> u.known, chunks |-> u.chunks]
    /\ u.num \in Nat
    /\ DOMAIN u.chunks \subseteq 0 .. u.num - 1

Wanted(u) == Cardinality(DOMAIN u.chunks) \in 1 .. u.num - 1

\* A chunk that does not mismatch leaves the unchunker in range, with one chunk more.
LEMMA ChunkAdded ==
    ASSUME NEW u, IsUnchunker(u), NEW k \in TokenSet, IsChunkHead(k), NEW payload, ~Mismatch(u, k)
    PROVE  /\ IsUnchunker(AddChunk(u, k, payload))
           /\ ~IsComplete(AddChunk(u, k, payload)) => Wanted(AddChunk(u, k, payload))
  <1> DEFINE new == AddChunk(u, k, payload)
             chunks == [i \in DOMAIN u.chunks \cup {k.n} |-> IF i = k.n THEN payload ELSE u.chunks[i]]
  <1>1. k.n \in Nat /\ k.num \in Nat /\ k.num = u.num /\ k.n < k.num
    BY DEF TokenSet, Mismatch, IsChunkHead
  <1>2. new = [num |-> u.num, size |-> u.size, known |-> u.known, chunks |-> chunks]
    <2> HIDE DEF chunks
    <2>1. new = [u EXCEPT !.chunks = chunks]
      BY DEF AddChunk, chunks
    <2> QED BY <2>1 DEF IsUnchunker
  <1>3. DOMAIN chunks = DOMAIN u.chunks \cup {k.n}
    OBVIOUS
  <1> HIDE DEF new, chunks
  <1>4. new.num = u.num /\ new.chunks = chunks /\ DOMAIN new.chunks \subseteq 0 .. new.num - 1
    BY <1>1, <1>2, <1>3 DEF IsUnchunker
  <1>5. IsUnchunker(new)
    BY <1>2, <1>4 DEF IsUnchunker
  <1>6. Cardinality(DOMAIN new.chunks) \in Nat \ {0}
    <2>1. IsFiniteSet(0 .. new.num - 1)
      <3>1. 0 \in Int /\ new.num - 1 \in Int
        BY <1>1, <1>4
      <3> QED BY <3>1, FS_Interval
    <2>2. IsFiniteSet(DOMAIN new.chunks)
      BY <1>4, <2>1, FS_Subset
    <2>3. DOMAIN new.chunks # {}
      BY <1>3, <1>4
    <2> QED BY <2>2, <2>3, FS_CardinalityType, FS_EmptySet
  <1>7. ~IsComplete(new) => Wanted(new)
    <2> DEFINE n == Cardinality(DOMAIN new.chunks)
    <2>1. n \in Nat \ {0} /\ new.num \in Nat
      BY <1>1, <1>4, <1>6
    <2> HIDE DEF n
    <2>2. ~(n >= new.num) => n \in 1 .. new.num - 1
      BY <2>1
    <2> QED BY <2>2 DEF IsComplete, Wanted, n
  <1> QED BY <1>5, <1>7 DEF new

\* A new unchunker has no chunk.
LEMMA NewUnchunkers ==
    ASSUME NEW k \in TokenSet
    PROVE  IsUnchunker(NewUnchunker(k))
  <1>1. k.num \in Nat
    BY DEF TokenSet
  <1>2. DOMAIN [i \in {} |-> 0] = {}
    OBVIOUS
  <1> QED BY <1>1, <1>2 DEF NewUnchunker, IsUnchunker

-----------------------------------------------------------------------------
(* The receiver is sound. *)

\* What is put can be framed, the stream is made of frames, and the table's
\* unchunkers are in range and, while the receiver reads, wanted.
SendingTyped ==
    /\ mb \in [Senders -> [bufs : Seq(Seq(TokenSet)), used : Nat]]
    /\ todo \in [Senders -> Seq(Sendable)]
    /\ puts \in Nat
StreamFramed == closed \in BOOLEAN /\ InFrames(wire, closed)
TableInRange == \A id \in DOMAIN mUnchunkers : IsUnchunker(mUnchunkers[id])
TableWanted == rx = "ok" => \A id \in DOMAIN mUnchunkers : Wanted(mUnchunkers[id])
ReceiverInv == SendingTyped /\ StreamFramed /\ TableInRange /\ TableWanted

\* Nothing is on its way.
LEMMA ReceiverInit == Init => ReceiverInv
  <1> SUFFICES ASSUME Init PROVE ReceiverInv
    OBVIOUS
  <1>1. EmptyMultiBuffer \in [bufs : Seq(Seq(TokenSet)), used : Nat]
    BY DEF EmptyMultiBuffer
  <1>2. SendingTyped
    BY <1>1 DEF Init, SendingTyped
  <1>3. InFrames(<<>>, FALSE)
    <2>1. <<>> \in Seq(TokenSet) /\ ~\E i \in 1 .. Len(<<>>) : TRUE
      OBVIOUS
    <2> QED BY <2>1 DEF InFrames
  <1>4. TableInRange /\ TableWanted
    BY DEF Init, TableInRange, TableWanted
  <1> QED BY <1>2, <1>3, <1>4 DEF Init, ReceiverInv, StreamFramed

\* Putting a message does not touch the stream or the receiver.
LEMMA PutKeeps ==
    ASSUME ReceiverInv, NEW s \in Senders, NEW c \in Contents, Put(s, c)
    PROVE  ReceiverInv'
  <1>1. todo' \in [Senders -> Seq(Sendable)] /\ puts' \in Nat
    <2> DEFINE id == <<s, puts + 1>>
               n == NumChunks(c)
               object == <<[id |-> id, class |-> "object", c |-> c, last |-> TRUE,
                            body |-> Bytes(id, 1, c.actual)]>>
               chunks == [i \in 1 .. n |-> [id |-> id, class |-> "chunk", c |-> c, last |-> i = n,
                                            body |-> ChunkBody(id, c, i - 1)]]
    <2>1. puts \in Nat /\ puts + 1 \in Nat /\ todo \in [Senders -> Seq(Sendable)]
      BY DEF ReceiverInv, SendingTyped
    <2>2. object \in Seq(Sendable) /\ (Chunked(c) => chunks \in Seq(Sendable))
      BY <2>1, PutSendable
    <2>3. todo' = [todo EXCEPT ![s] = IF ~Chunked(c) THEN object
                                      ELSE IF c.throws \/ n > MaxChunks THEN <<>> ELSE chunks]
      BY DEF Put
    <2> HIDE DEF object, chunks, n
    <2>4. PICK q \in Seq(Sendable) : todo' = [todo EXCEPT ![s] = q]
      <3>1. CASE ~Chunked(c)
        BY <2>2, <2>3, <3>1
      <3>2. CASE Chunked(c) /\ (c.throws \/ n > MaxChunks)
        <4>1. todo' = [todo EXCEPT ![s] = <<>>]
          BY <2>3, <3>2, Zenon
        <4>2. <<>> \in Seq(Sendable)
          OBVIOUS
        <4> QED BY <4>1, <4>2, Zenon
      <3>3. CASE Chunked(c) /\ ~(c.throws \/ n > MaxChunks)
        BY <2>2, <2>3, <3>3
      <3> QED BY <3>1, <3>2, <3>3
    <2>5. puts' = puts + 1
      BY DEF Put
    <2> QED BY <2>1, <2>4, <2>5
  <1>2. UNCHANGED <<mb, wire, closed, mUnchunkers, rx>>
    BY DEF Put
  <1> QED BY <1>1, <1>2 DEF ReceiverInv, SendingTyped, StreamFramed, TableInRange, TableWanted

\* A write puts a whole frame behind whole frames, or nothing.
LEMMA WriteEnvelopeKeeps ==
    ASSUME ReceiverInv, NEW s \in Senders, WriteEnvelope(s)
    PROVE  ReceiverInv'
  <1> DEFINE e == Head(todo[s])
             throws == e.c.throws /\ e.class = "object"
             buffered == IF e.c.name % NameMod = 0 THEN <<>>
                         ELSE <<Envelope(e)>> \o (IF e.c.opaque THEN <<>>
                                                  ELSE IF throws THEN Half(e.body) ELSE e.body)
             sink == Write(OpenFrame(mb[s]), buffered)
             frame == Used(sink) \o (IF e.c.opaque THEN e.body ELSE <<>>)
             Multi == [bufs : Seq(Seq(TokenSet)), used : Nat]
             sent == e.c.name % NameMod # 0 /\ ~throws /\ FitsFrame(frame) /\ ~closed
  <1>1. todo[s] \in Seq(Sendable) /\ todo[s] # <<>> /\ mb[s] \in Multi
    BY DEF ReceiverInv, SendingTyped, WriteEnvelope
  <1>2. e \in Sendable /\ Tail(todo[s]) \in Seq(Sendable)
    BY <1>1
  <1>3. /\ IF sent
           THEN /\ wire' = wire \o Framed(frame)
                /\ mb' = [mb EXCEPT ![s] = [sink EXCEPT !.used = 0]]
                /\ todo' = [todo EXCEPT ![s] = Tail(@)]
           ELSE /\ mb' = [mb EXCEPT ![s] = sink]
                /\ todo' = [todo EXCEPT ![s] = <<>>]
                /\ wire' = wire
        /\ UNCHANGED <<puts, closed, mUnchunkers, rx>>
    <2> HIDE DEF Multi
    <2> QED BY DEF WriteEnvelope
  <1> HIDE DEF e
  <1>4. buffered \in Seq(TokenSet)
    <2>1. <<Envelope(e)>> \in Seq(TokenSet) /\ e.body \in Seq(TokenSet) /\ Half(e.body) \in Seq(TokenSet)
      BY <1>2, EnvelopesContained
    <2> QED BY <2>1
  <1> HIDE DEF buffered
  <1>5. Used(sink) = buffered /\ sink \in Multi
    <2>1. OpenFrame(mb[s]) \in [bufs : Seq(Seq(TokenSet)), used : {0}]
      BY <1>1 DEF OpenFrame
    <2> QED BY <1>4, <2>1, WriteHolds
  <1> HIDE DEF sink
  <1>6. sent => Contained(frame)
    <2> SUFFICES ASSUME sent PROVE frame = <<Envelope(e)>> \o e.body
      BY <1>2, EnvelopesContained
    <2>1. <<Envelope(e)>> \in Seq(TokenSet) /\ e.body \in Seq(TokenSet)
      BY <1>2, EnvelopesContained
    <2>2. CASE e.c.opaque
      BY <1>5, <2>1, <2>2 DEF buffered
    <2>3. CASE ~e.c.opaque
      BY <1>5, <2>1, <2>3 DEF buffered
    <2> QED BY <2>2, <2>3
  <1> HIDE DEF frame
  <1>7. InFrames(wire', closed)
    <2>1. CASE sent
      <3>1. closed = FALSE /\ InFrames(wire, FALSE)
        BY <2>1 DEF ReceiverInv, StreamFramed
      <3>2. InFrames(wire \o Framed(frame), FALSE)
        BY <1>6, <2>1, <3>1, FramesAppended
      <3> QED BY <1>3, <2>1, <3>1, <3>2
    <2>2. CASE ~sent
      <3>1. wire' = wire
        BY <1>3, <2>2
      <3> QED BY <3>1 DEF ReceiverInv, StreamFramed
    <2> QED BY <2>1, <2>2
  <1> HIDE DEF sent
  <1>8. mb' \in [Senders -> Multi]
    <2>1. [sink EXCEPT !.used = 0] \in Multi /\ mb \in [Senders -> Multi]
      BY <1>5 DEF ReceiverInv, SendingTyped
    <2> HIDE DEF Multi
    <2> QED BY <1>3, <1>5, <2>1
  <1>9. todo' \in [Senders -> Seq(Sendable)]
    <2>1. todo \in [Senders -> Seq(Sendable)]
      BY DEF ReceiverInv, SendingTyped
    <2>2. <<>> \in Seq(Sendable)
      OBVIOUS
    <2> QED BY <1>2, <1>3, <2>1, <2>2
  <1>10. UNCHANGED <<puts, closed, mUnchunkers, rx>>
    BY <1>3
  <1> QED BY <1>7, <1>8, <1>9, <1>10
          DEF ReceiverInv, SendingTyped, StreamFramed, TableInRange, TableWanted

\* A stream that is cut is whole frames and at most a part of one.
LEMMA CutKeeps ==
    ASSUME ReceiverInv, Cut
    PROVE  ReceiverInv'
  <1>1. PICK n \in 0 .. Len(wire) : wire' = SubSeq(wire, 1, n)
    BY DEF Cut
  <1>2. InFrames(wire, closed)
    BY DEF ReceiverInv, StreamFramed
  <1>3. InFrames(wire', TRUE)
    BY <1>1, <1>2, FramesCut
  <1>4. closed' = TRUE /\ UNCHANGED <<mb, todo, puts, mUnchunkers, rx>>
    BY DEF Cut
  <1> QED BY <1>3, <1>4 DEF ReceiverInv, SendingTyped, StreamFramed, TableInRange, TableWanted

\* A chunk that is read leaves the table in range and, unless the receiver
\* throws, wanted.
LEMMA GetChunkKeeps ==
    ASSUME TableInRange, TableWanted, rx = "ok", NEW data, Contained(data), data[1].num = 1,
           GetChunk(data)
    PROVE  TableInRange' /\ TableWanted'
  <1> DEFINE k == data[2]
             old == IF k.id \in DOMAIN mUnchunkers THEN mUnchunkers[k.id] ELSE NewUnchunker(k)
             payload == SubSeq(data, 3, Len(data))
             new == AddChunk(old, k, payload)
             all == [i \in DOMAIN mUnchunkers \cup {k.id} |-> IF i = k.id THEN new ELSE mUnchunkers[i]]
  <1>1. k \in TokenSet /\ IsChunkHead(k)
    BY DEF Contained
  <1>2. \/ Mismatch(old, k) /\ rx' = "InternalError" /\ UNCHANGED mUnchunkers
        \/ ~Mismatch(old, k) /\ ~IsComplete(new) /\ mUnchunkers' = all /\ UNCHANGED rx
        \/ ~Mismatch(old, k) /\ mUnchunkers' = Forget(all, k.id) /\ UNCHANGED rx
        \/ ~Mismatch(old, k) /\ rx' = "InternalError" /\ mUnchunkers' = all
    <2> HIDE DEF k, old, new, all
    <2>1. CASE Mismatch(old, k)
      BY <2>1 DEF GetChunk, k, old, new, all
    <2>2. CASE ~Mismatch(old, k) /\ ~IsComplete(new)
      BY <2>2 DEF GetChunk, k, old, new, all
    <2>3. CASE ~Mismatch(old, k) /\ IsComplete(new) /\ Recreatable(new)
      BY <2>3 DEF GetChunk, k, old, new, all
    <2>4. CASE ~Mismatch(old, k) /\ IsComplete(new) /\ ~Recreatable(new)
      BY <2>4 DEF GetChunk, k, old, new, all
    <2> QED BY <2>1, <2>2, <2>3, <2>4
  <1> HIDE DEF k
  <1>3. IsUnchunker(old)
    BY <1>1, NewUnchunkers DEF TableInRange
  <1> HIDE DEF old, payload
  <1>4. ~Mismatch(old, k) => IsUnchunker(new) /\ (~IsComplete(new) => Wanted(new))
    BY <1>1, <1>3, ChunkAdded
  <1> HIDE DEF new
  <1>5. /\ DOMAIN all = DOMAIN mUnchunkers \cup {k.id} /\ all[k.id] = new
        /\ \A i \in DOMAIN all : i # k.id => i \in DOMAIN mUnchunkers /\ all[i] = mUnchunkers[i]
    OBVIOUS
  <1> HIDE DEF all
  <1>6. /\ DOMAIN Forget(all, k.id) = DOMAIN all \ {k.id}
        /\ \A i \in DOMAIN all \ {k.id} : Forget(all, k.id)[i] = all[i]
    BY DEF Forget
  <1>7. CASE Mismatch(old, k) /\ rx' = "InternalError" /\ UNCHANGED mUnchunkers
    BY <1>7 DEF TableInRange, TableWanted
  <1>8. CASE ~Mismatch(old, k) /\ ~IsComplete(new) /\ mUnchunkers' = all /\ UNCHANGED rx
    BY <1>4, <1>5, <1>8 DEF TableInRange, TableWanted
  <1>9. CASE ~Mismatch(old, k) /\ mUnchunkers' = Forget(all, k.id) /\ UNCHANGED rx
    BY <1>5, <1>6, <1>9 DEF TableInRange, TableWanted
  <1>10. CASE ~Mismatch(old, k) /\ rx' = "InternalError" /\ mUnchunkers' = all
    BY <1>4, <1>5, <1>10 DEF TableInRange, TableWanted
  <1> QED BY <1>2, <1>7, <1>8, <1>9, <1>10

\* Reading takes one whole frame.
LEMMA GetKeeps ==
    ASSUME ReceiverInv, Get
    PROVE  ReceiverInv'
  <1> DEFINE f == NextFrame(wire)
             data == SubSeq(wire, 2, f.size + 1)
  <1>1. rx = "ok" /\ wire # <<>> /\ Len(wire) > f.size
    BY DEF Get, FrameReady
  <1>2. InFrames(f.rest, closed) /\ Contained(data)
    BY <1>1, FramesTaken DEF ReceiverInv, StreamFramed
  <1>3. wire' = f.rest /\ UNCHANGED <<mb, todo, puts, closed>>
    BY DEF Get
  <1>4. IF data[1].num = 1 THEN GetChunk(data) ELSE GetObject(data)
    BY DEF Get
  <1> HIDE DEF f, data
  <1>5. TableInRange' /\ TableWanted'
    <2>1. CASE data[1].num = 1
      BY <1>1, <1>2, <1>4, <2>1, GetChunkKeeps DEF ReceiverInv
    <2>2. CASE data[1].num # 1
      <3>1. UNCHANGED <<mUnchunkers, rx>>
        BY <1>4, <2>2 DEF GetObject
      <3> QED BY <3>1 DEF ReceiverInv, TableInRange, TableWanted
    <2> QED BY <2>1, <2>2
  <1> QED BY <1>2, <1>3, <1>5 DEF ReceiverInv, SendingTyped, StreamFramed

\* Every step of the system.
LEMMA ReceiverStep == ReceiverInv /\ [Next]_vars => ReceiverInv'
  <1> SUFFICES ASSUME ReceiverInv, [Next]_vars PROVE ReceiverInv'
    OBVIOUS
  <1>1. ASSUME NEW s \in Senders, WriteEnvelope(s) PROVE ReceiverInv'
    BY <1>1, WriteEnvelopeKeeps
  <1>2. ASSUME NEW s \in Senders, NEW c \in Contents, Put(s, c) PROVE ReceiverInv'
    BY <1>2, PutKeeps
  <1>3. CASE Get
    BY <1>3, GetKeeps
  <1>4. CASE Cut
    BY <1>4, CutKeeps
  <1>5. CASE GetDisconnected
    BY <1>5 DEF GetDisconnected, ReceiverInv, SendingTyped, StreamFramed, TableInRange, TableWanted
  <1>6. CASE UNCHANGED vars
    BY <1>6 DEF vars, ReceiverInv, SendingTyped, StreamFramed, TableInRange, TableWanted
  <1> QED BY <1>1, <1>2, <1>3, <1>4, <1>5, <1>6 DEF Next

\* The receiver never loses its place in the stream, indexes its vector of chunks
\* out of range, or keeps an unchunker that is complete: for all senders, sizes and
\* buffers, wherever the stream is cut and whatever puts failed before.
THEOREM ReceiverIsSound == Spec => []ReceiverSound
  <1>1. Init => ReceiverInv
    BY ReceiverInit
  <1>2. ReceiverInv /\ [Next]_vars => ReceiverInv'
    BY ReceiverStep
  <1>3. ReceiverInv => ReceiverSound
    <2> SUFFICES ASSUME ReceiverInv PROVE ReceiverSound
      OBVIOUS
    <2>1. StreamInSync
      BY DEF ReceiverInv, StreamFramed, InFrames, StreamInSync
    <2>2. UnchunkersIncomplete
      BY DEF ReceiverInv, TableWanted, Wanted, UnchunkersIncomplete
    <2>3. ChunkIndexInBounds
      BY DEF ReceiverInv, TableInRange, IsUnchunker, ChunkIndexInBounds
    <2> QED BY <2>1, <2>2, <2>3 DEF ReceiverSound
  <1> QED BY <1>1, <1>2, <1>3, PTL DEF Spec

-----------------------------------------------------------------------------
(* Contents and their chunks. *)

\* More of the same is more.
LEMMA ProductGrows ==
    ASSUME NEW a \in Nat, NEW b \in Nat, NEW k \in Nat, a <= b
    PROVE  a * k \in Nat /\ b * k \in Nat /\ a * k <= b * k /\ (a + 1) * k = a * k + k
  OBVIOUS

\* The chunks of a content: as many as are needed.
LEMMA ChunkCount ==
    ASSUME NEW c \in Contents
    PROVE  /\ NumChunks(c) \in Nat \ {0} /\ c.actual \in Nat \ {0}
           /\ (NumChunks(c) - 1) * ChunkSize < c.actual /\ c.actual <= NumChunks(c) * ChunkSize
  <1>1. c \in ContentType /\ ChunkSize \in Nat \ {0}
    BY TransportAssumption
  <1>2. c.actual \in Nat \ {0}
    BY <1>1 DEF ContentType
  <1>3. \A a \in Nat \ {0}, k \in Nat \ {0} :
          LET n == (a + k - 1) \div k
          IN  n \in Nat \ {0} /\ (n - 1) * k < a /\ a <= n * k
    <2> SUFFICES ASSUME NEW a \in Nat \ {0}, NEW k \in Nat \ {0}
                 PROVE  LET n == (a + k - 1) \div k
                        IN  n \in Nat \ {0} /\ (n - 1) * k < a /\ a <= n * k
      OBVIOUS
    <2> DEFINE n == (a + k - 1) \div k
               r == (a + k - 1) % k
    <2>1. n \in Int /\ r \in 0 .. k - 1 /\ a + k - 1 = k * n + r
      OBVIOUS
    <2> HIDE DEF n, r
    <2>2. k * n >= a /\ k * n <= a + k - 1
      BY <2>1
    <2>3. n > 0
      BY <2>1, <2>2
    <2>4. n * k = k * n /\ (n - 1) * k = k * n - k
      BY <2>1
    <2>5. n \in Nat \ {0} /\ (n - 1) * k < a /\ a <= n * k
      BY <2>1, <2>2, <2>3, <2>4
    <2> QED BY <2>5 DEF n
  <1> QED BY <1>1, <1>2, <1>3 DEF NumChunks

\* Bytes that follow each other.
LEMMA BytesJoin ==
    ASSUME NEW id \in Ids, NEW m \in Nat, NEW k \in Nat, m <= k
    PROVE  Bytes(id, 1, m) \o Bytes(id, m + 1, k) = Bytes(id, 1, k)
  <1> DEFINE A == Bytes(id, 1, m)
             B == Bytes(id, m + 1, k)
             D == Bytes(id, 1, k)
             byte(i) == Token("byte", id, i, 0, 0, TRUE)
  <1>1. A = [i \in 1 .. m |-> byte(i)] /\ D = [i \in 1 .. k |-> byte(i)]
    <2>1. \A i \in Nat : 1 + i - 1 = i /\ i - 1 + 1 = i
      OBVIOUS
    <2>2. m - 1 + 1 = m /\ k - 1 + 1 = k
      OBVIOUS
    <2> QED BY <2>1, <2>2 DEF Bytes
  <1>2. B = [i \in 1 .. k - m |-> byte(m + i)]
    <2>1. k - (m + 1) + 1 = k - m
      OBVIOUS
    <2>2. \A i \in 1 .. k - m : (m + 1) + i - 1 = m + i
      OBVIOUS
    <2> QED BY <2>1, <2>2 DEF Bytes
  <1>3. \A i \in Nat : byte(i) \in TokenSet
    BY DEF Token, TokenSet
  <1> HIDE DEF A, B, D, byte
  <1>4. A \in Seq(TokenSet) /\ Len(A) = m /\ D \in Seq(TokenSet) /\ Len(D) = k
    <2>1. A \in Seq(TokenSet) /\ Len(A) = m
      BY <1>1, <1>3
    <2>2. D \in Seq(TokenSet) /\ Len(D) = k
      BY <1>1, <1>3
    <2> QED BY <2>1, <2>2
  <1>5. B \in Seq(TokenSet) /\ Len(B) = k - m
    <2>1. k - m \in Nat
      OBVIOUS
    <2> QED BY <1>2, <1>3, <2>1
  <1>6. /\ A \o B \in Seq(TokenSet) /\ Len(A \o B) = k
        /\ \A i \in 1 .. k : (A \o B)[i] = IF i <= m THEN A[i] ELSE B[i - m]
    <2>1. /\ A \o B \in Seq(TokenSet) /\ Len(A \o B) = Len(A) + Len(B)
          /\ \A i \in 1 .. Len(A) + Len(B) :
                (A \o B)[i] = IF i <= Len(A) THEN A[i] ELSE B[i - Len(A)]
      BY <1>4, <1>5, ConcatProperties, Zenon
    <2>2. Len(A) + Len(B) = k
      BY <1>4, <1>5
    <2>3. Len(A) = m
      BY <1>4
    <2> QED BY <2>1, <2>2, <2>3
  <1>7. ASSUME NEW i \in 1 .. k PROVE (A \o B)[i] = D[i]
    <2>1. CASE i <= m
      <3>1. (A \o B)[i] = A[i]
        BY <1>6, <2>1
      <3> QED BY <1>1, <2>1, <3>1
    <2>2. CASE i > m
      <3>1. (A \o B)[i] = B[i - m] /\ i - m \in 1 .. k - m /\ m + (i - m) = i
        BY <1>6, <2>2
      <3>2. B[i - m] = byte(m + (i - m))
        BY <1>2, <3>1
      <3> QED BY <1>1, <3>1, <3>2
    <2>3. i <= m \/ i > m
      OBVIOUS
    <2> QED BY <2>1, <2>2, <2>3, Zenon
  <1>8. A \o B = D
    <2> DEFINE q == A \o B
    <2>1. q \in Seq(TokenSet) /\ Len(q) = k /\ \A i \in 1 .. k : q[i] = D[i]
      BY <1>6, <1>7
    <2> HIDE DEF q
    <2>2. q = D
      BY <1>4, <2>1, SeqEqual
    <2> QED BY <2>2 DEF q
  <1> QED BY <1>8 DEF A, B, D

\* What chunk i of a content carries.
Payload(id, c, i) == Bytes(id, i * ChunkSize + 1, Least((i + 1) * ChunkSize, c.actual))

\* The payloads of all chunks put together are the content.
LEMMA ChunksMakeContent ==
    ASSUME NEW id \in Ids, NEW c \in Contents
    PROVE  FlattenSeq([i \in 1 .. NumChunks(c) |-> Payload(id, c, i - 1)]) = Bytes(id, 1, c.actual)
  <1> DEFINE n == NumChunks(c)
             a == c.actual
             upto(i) == Least(i * ChunkSize, a)
             seqs == [i \in 1 .. n |-> Payload(id, c, i - 1)]
             F == [i \in 1 .. n |-> Bytes(id, 1, upto(i))]
  <1>1. /\ n \in Nat \ {0} /\ a \in Nat \ {0} /\ ChunkSize \in Nat \ {0}
        /\ (n - 1) * ChunkSize < a /\ a <= n * ChunkSize
    BY ChunkCount, TransportAssumption
  <1> HIDE DEF n, a
  <1>2. \A i \in 1 .. n : /\ i * ChunkSize \in Nat /\ (i - 1) * ChunkSize \in Nat
                          /\ (i - 1) * ChunkSize < a /\ (i - 1) * ChunkSize <= i * ChunkSize
                          /\ (i - 1) + 1 = i
    <2> SUFFICES ASSUME NEW i \in 1 .. n
                 PROVE  /\ i * ChunkSize \in Nat /\ (i - 1) * ChunkSize \in Nat
                        /\ (i - 1) * ChunkSize < a /\ (i - 1) * ChunkSize <= i * ChunkSize
      BY <1>1
    <2>1. i - 1 \in Nat /\ i \in Nat /\ n - 1 \in Nat /\ i - 1 <= n - 1 /\ i - 1 <= i
      BY <1>1
    <2>2. /\ (i - 1) * ChunkSize \in Nat /\ (n - 1) * ChunkSize \in Nat
          /\ (i - 1) * ChunkSize <= (n - 1) * ChunkSize
      BY <1>1, <2>1, ProductGrows
    <2>3. i * ChunkSize \in Nat /\ (i - 1) * ChunkSize <= i * ChunkSize
      BY <1>1, <2>1, ProductGrows
    <2> QED BY <1>1, <2>2, <2>3
  <1>3. \A i \in 1 .. n : upto(i) \in Nat /\ (i - 1) * ChunkSize <= upto(i)
    <2> SUFFICES ASSUME NEW i \in 1 .. n PROVE upto(i) \in Nat /\ (i - 1) * ChunkSize <= upto(i)
      OBVIOUS
    <2> DEFINE x == i * ChunkSize
               y == (i - 1) * ChunkSize
    <2>1. x \in Nat /\ y \in Nat /\ y < a /\ y <= x /\ a \in Nat
      BY <1>1, <1>2
    <2> HIDE DEF x, y
    <2>2. Least(x, a) \in Nat /\ y <= Least(x, a)
      BY <2>1 DEF Least
    <2> QED BY <2>2 DEF x, y
  <1>4. \A i \in 1 .. n : seqs[i] = Bytes(id, (i - 1) * ChunkSize + 1, upto(i))
    BY <1>2 DEF Payload, a
  <1>5. \A i \in 1 .. n : i # 1 => upto(i - 1) = (i - 1) * ChunkSize
    BY <1>1, <1>2 DEF Least
  <1> HIDE DEF upto, seqs
  <1>6. ASSUME NEW i \in 1 .. n
        PROVE  /\ seqs[i] \in Seq(TokenSet) /\ F[i] \in Seq(TokenSet)
               /\ F[i] = IF i = 1 THEN seqs[i] ELSE F[i - 1] \o seqs[i]
    <2> DEFINE y == (i - 1) * ChunkSize
    <2>1. y \in Nat /\ upto(i) \in Nat /\ y <= upto(i) /\ seqs[i] = Bytes(id, y + 1, upto(i))
      BY <1>2, <1>3, <1>4
    <2>2. F[i] = Bytes(id, 1, upto(i))
      OBVIOUS
    <2>3. seqs[i] \in Seq(TokenSet) /\ F[i] \in Seq(TokenSet)
      <3> HIDE DEF F, y
      <3>1. y + 1 \in Nat /\ upto(i) \in Int /\ 1 \in Nat
        BY <2>1
      <3> QED BY <2>1, <2>2, <3>1, BytesAreTokens
    <2>4. CASE i = 1
      <3>1. y + 1 = 1
        BY <1>1, <2>4
      <3> QED BY <2>1, <2>2, <2>3, <2>4, <3>1
    <2>5. CASE i # 1
      <3>1. F[i - 1] = Bytes(id, 1, y)
        <4>1. i - 1 \in 1 .. n
          BY <1>1, <2>5
        <4>2. F[i - 1] = Bytes(id, 1, upto(i - 1)) /\ upto(i - 1) = y
          BY <1>5, <2>5, <4>1
        <4> QED BY <4>2
      <3> HIDE DEF F, y
      <3>2. Bytes(id, 1, y) \o Bytes(id, y + 1, upto(i)) = Bytes(id, 1, upto(i))
        BY <2>1, BytesJoin
      <3> QED BY <2>1, <2>2, <2>3, <2>5, <3>1, <3>2
    <2> QED BY <2>4, <2>5, <2>3
  <1>7. Accumulates(seqs, n, F, TokenSet)
    <2>1. Len(seqs) = n
      BY <1>1 DEF seqs
    <2>2. F \in [1 .. n -> Seq(TokenSet)]
      BY <1>6
    <2> HIDE DEF F
    <2> QED BY <1>6, <2>1, <2>2 DEF Accumulates
  <1>8. FlattenSeq(seqs) = F[n]
    <2> HIDE DEF F
    <2>1. n \in Nat /\ n # 0
      BY <1>1
    <2> QED BY <1>7, <2>1, Flattened
  <1>9. F[n] = Bytes(id, 1, a)
    <2>1. n \in 1 .. n /\ n * ChunkSize \in Nat
      BY <1>1, <1>2
    <2>2. upto(n) = a
      BY <1>1, <2>1 DEF upto, Least
    <2> QED BY <2>1, <2>2
  <1> QED BY <1>8, <1>9 DEF seqs, n, a

-----------------------------------------------------------------------------
(* The frames on the wire are those of the envelopes written. *)

Frame(e) == Framed(<<Envelope(e)>> \o e.body)

\* A frame is its header, the envelope and the body.
LEMMA FrameParts ==
    ASSUME NEW e \in Sendable
    PROVE  /\ Frame(e) \in Seq(TokenSet) /\ Len(e.body) \in Nat
           /\ Len(Frame(e)) = Len(e.body) + 2
           /\ Frame(e)[1].n = Len(e.body) + 1
           /\ <<Envelope(e)>> \o e.body \in Seq(TokenSet)
           /\ Len(<<Envelope(e)>> \o e.body) = Len(e.body) + 1
           /\ \A k \in 1 .. Len(e.body) + 1 : Frame(e)[k + 1] = (<<Envelope(e)>> \o e.body)[k]
  <1> DEFINE data == <<Envelope(e)>> \o e.body
             head == FrameToken(Len(data))
  <1>1. <<Envelope(e)>> \in Seq(TokenSet) /\ e.body \in Seq(TokenSet)
    BY EnvelopesContained
  <1>2. Len(e.body) \in Nat
    BY <1>1
  <1>3. data \in Seq(TokenSet) /\ Len(data) = Len(e.body) + 1
    <2> DEFINE front == <<Envelope(e)>>
    <2>1. Len(front) = 1
      OBVIOUS
    <2> HIDE DEF front
    <2>2. Len(front \o e.body) = Len(front) + Len(e.body) /\ front \o e.body \in Seq(TokenSet)
      BY <1>1 DEF front
    <2> QED BY <1>2, <2>1, <2>2 DEF front
  <1> HIDE DEF data
  <1>4. head \in TokenSet /\ head.n = Len(data)
    BY <1>2, <1>3 DEF FrameToken, Token, TokenSet, Ids
  <1> HIDE DEF head
  <1>5. Frame(e) = <<head>> \o data
    BY DEF Frame, Framed, data, head
  <1>6. /\ <<head>> \o data \in Seq(TokenSet) /\ Len(<<head>> \o data) = Len(data) + 1
        /\ (<<head>> \o data)[1] = head
        /\ \A k \in 1 .. Len(data) : (<<head>> \o data)[k + 1] = data[k]
    BY <1>2, <1>3, <1>4
  <1> QED BY <1>2, <1>3, <1>4, <1>5, <1>6 DEF data

\* The stream is what the envelopes Q were framed to, P[i] its length up to the
\* i-th; it may end early when the connection has gone.
InFlight(w, gone, Q, P) ==
    /\ w \in Seq(TokenSet) /\ Q \in Seq(Sendable)
    /\ P \in [0 .. Len(Q) -> Int] /\ P[0] = 0
    /\ \A i \in 1 .. Len(Q) : P[i] = P[i - 1] + Len(Frame(Q[i])) /\ P[i] <= P[Len(Q)]
    /\ \A i \in 1 .. Len(Q) : \A j \in 1 .. Len(Frame(Q[i])) :
          P[i - 1] + j \in 1 .. Len(w) => w[P[i - 1] + j] = Frame(Q[i])[j]
    /\ Len(w) <= P[Len(Q)] /\ (gone \/ Len(w) = P[Len(Q)])

\* Functions on 0 .. n that get one value more, or lose the first one.
More(X, n, x) == [i \in 0 .. n + 1 |-> IF i <= n THEN X[i] ELSE x]
Later(X, n) == [i \in 0 .. n - 1 |-> X[i + 1]]

\* An envelope written behind the others.
LEMMA InFlightAppended ==
    ASSUME NEW w, NEW Q, NEW P, InFlight(w, FALSE, Q, P), NEW e \in Sendable
    PROVE  InFlight(w \o Frame(e), FALSE, Append(Q, e), More(P, Len(Q), P[Len(Q)] + Len(Frame(e))))
  <1> DEFINE n == Len(Q)
             len == Len(w)
             f == Len(Frame(e))
             v == w \o Frame(e)
             R == Append(Q, e)
             p == P[n] + f
             S == More(P, n, p)
  <1>1. /\ w \in Seq(TokenSet) /\ Q \in Seq(Sendable) /\ n \in Nat /\ len \in Nat
        /\ P \in [0 .. n -> Int] /\ P[0] = 0 /\ len = P[n]
        /\ \A i \in 1 .. n : P[i] = P[i - 1] + Len(Frame(Q[i])) /\ P[i] <= P[n]
        /\ \A i \in 1 .. n : \A j \in 1 .. Len(Frame(Q[i])) :
              P[i - 1] + j \in 1 .. len => w[P[i - 1] + j] = Frame(Q[i])[j]
    BY DEF InFlight
  <1>2. Frame(e) \in Seq(TokenSet) /\ f \in Nat /\ f >= 2
    <2>1. Frame(e) \in Seq(TokenSet) /\ Len(e.body) \in Nat /\ Len(Frame(e)) = Len(e.body) + 2
      BY FrameParts
    <2> QED BY <2>1
  <1> HIDE DEF f
  <1>3. /\ v \in Seq(TokenSet) /\ Len(v) = len + f
        /\ \A i \in 1 .. len : v[i] = w[i]
        /\ \A j \in 1 .. f : v[len + j] = Frame(e)[j]
    <2>1. /\ v \in Seq(TokenSet) /\ Len(v) = len + f
          /\ \A i \in 1 .. len + f : v[i] = IF i <= len THEN w[i] ELSE Frame(e)[i - len]
      <3> DEFINE g == Frame(e)
      <3>1. g \in Seq(TokenSet) /\ Len(g) = f
        BY <1>2 DEF f
      <3> HIDE DEF g
      <3>2. /\ w \o g \in Seq(TokenSet) /\ Len(w \o g) = Len(w) + Len(g)
            /\ \A i \in 1 .. Len(w) + Len(g) : (w \o g)[i] = IF i <= Len(w) THEN w[i] ELSE g[i - Len(w)]
        <4>1. w \in Seq(TokenSet) /\ g \in Seq(TokenSet)
          BY <1>1, <3>1
        <4> QED BY <4>1, ConcatProperties
      <3> QED BY <3>1, <3>2 DEF g
    <2> HIDE DEF v
    <2>2. \A i \in 1 .. len : v[i] = w[i]
      BY <1>1, <1>2, <2>1
    <2>3. ASSUME NEW j \in 1 .. f PROVE v[len + j] = Frame(e)[j]
      <3>1. len + j \in 1 .. len + f /\ ~(len + j <= len) /\ (len + j) - len = j
        BY <1>1, <1>2
      <3> QED BY <2>1, <3>1
    <2> QED BY <2>1, <2>2, <2>3
  <1> HIDE DEF v
  <1>4. R \in Seq(Sendable) /\ Len(R) = n + 1 /\ R[n + 1] = e /\ \A i \in 1 .. n : R[i] = Q[i]
    BY <1>1
  <1>5. P[n] \in Int /\ p \in Int
    <2>1. n \in 0 .. n
      BY <1>1
    <2> QED BY <1>1, <1>2, <2>1
  <1>6. /\ S \in [0 .. n + 1 -> Int] /\ S[0] = 0 /\ S[n + 1] = P[n] + f
        /\ \A i \in 0 .. n : S[i] = P[i]
    <2>1. S \in [0 .. n + 1 -> Int]
      BY <1>1, <1>5 DEF More
    <2>2. n + 1 \in 0 .. n + 1 /\ ~(n + 1 <= n) /\ 0 \in 0 .. n
      BY <1>1
    <2>3. \A i \in 0 .. n : i \in 0 .. n + 1 /\ i <= n
      BY <1>1
    <2>4. S[n + 1] = p /\ \A i \in 0 .. n : S[i] = P[i]
      BY <2>2, <2>3 DEF More
    <2> QED BY <1>1, <2>1, <2>2, <2>4
  <1> HIDE DEF n, R, S, len, p
  <1>7. ASSUME NEW i \in 1 .. n + 1
        PROVE  /\ S[i] = S[i - 1] + Len(Frame(R[i])) /\ S[i] <= S[n + 1]
               /\ \A j \in 1 .. Len(Frame(R[i])) :
                    S[i - 1] + j \in 1 .. Len(v) => v[S[i - 1] + j] = Frame(R[i])[j]
    <2>1. CASE i = n + 1
      <3>1. i - 1 = n /\ S[i - 1] = P[n] /\ R[i] = e /\ S[i] = P[n] + f
        BY <1>1, <1>4, <1>6, <2>1
      <3>2. \A j \in 1 .. f : v[P[n] + j] = Frame(e)[j]
        BY <1>1, <1>3
      <3>3. S[i] = S[i - 1] + Len(Frame(R[i])) /\ S[i] <= S[n + 1]
        BY <1>2, <1>5, <2>1, <3>1 DEF f
      <3> QED BY <3>1, <3>2, <3>3 DEF f
    <2>2. CASE i # n + 1
      <3>1. i \in 1 .. n /\ i - 1 \in 0 .. n /\ i \in 0 .. n
        BY <1>1, <2>2
      <3>2. S[i] = P[i] /\ S[i - 1] = P[i - 1] /\ R[i] = Q[i]
        BY <1>4, <1>6, <3>1
      <3>3. P[i] = P[i - 1] + Len(Frame(Q[i])) /\ P[i] <= P[n] /\ P[i] \in Int /\ P[i - 1] \in Int
        BY <1>1, <3>1
      <3>4. P[i] <= P[n] + f
        BY <1>2, <1>5, <3>3
      <3>5. ASSUME NEW j \in 1 .. Len(Frame(Q[i])), P[i - 1] + j \in 1 .. Len(v)
            PROVE  v[P[i - 1] + j] = Frame(Q[i])[j]
        <4>1. Q[i] \in Sendable
          BY <1>1, <3>1 DEF n
        <4>2. Len(Frame(Q[i])) \in Nat
          BY <4>1, FrameParts
        <4>3. P[i - 1] + j <= P[i] /\ P[i - 1] + j >= 1 /\ P[i - 1] + j \in Int
          BY <3>3, <3>5, <4>2
        <4>4. P[i - 1] + j \in 1 .. len
          BY <1>1, <3>3, <4>3
        <4> QED BY <1>1, <1>3, <3>1, <4>4
      <3> QED BY <1>6, <3>2, <3>3, <3>4, <3>5
    <2> QED BY <2>1, <2>2
  <1>8. Len(v) <= S[n + 1] /\ Len(v) = S[n + 1]
    BY <1>1, <1>2, <1>3, <1>5, <1>6
  <1>9. InFlight(v, FALSE, R, S)
    BY <1>3, <1>4, <1>6, <1>7, <1>8 DEF InFlight
  <1> QED BY <1>9 DEF v, R, S, n, p, f

\* A stream that is cut.
LEMMA InFlightCut ==
    ASSUME NEW w, NEW gone, NEW Q, NEW P, InFlight(w, gone, Q, P), NEW m \in 0 .. Len(w)
    PROVE  InFlight(SubSeq(w, 1, m), TRUE, Q, P)
  <1> DEFINE v == SubSeq(w, 1, m)
             n == Len(Q)
  <1>1. w \in Seq(TokenSet) /\ Len(w) \in Nat /\ n \in Nat
    BY DEF InFlight
  <1>2. v \in Seq(TokenSet) /\ Len(v) = m /\ \A i \in 1 .. m : v[i] = w[i]
    BY <1>1
  <1> HIDE DEF v
  <1>3. P[n] \in Int /\ Len(w) <= P[n]
    <2>1. n \in 0 .. n
      BY <1>1
    <2> QED BY <2>1 DEF InFlight
  <1>4. Len(v) <= P[n]
    BY <1>1, <1>2, <1>3
  <1>5. \A k \in 1 .. Len(v) : k \in 1 .. Len(w) /\ v[k] = w[k]
    BY <1>1, <1>2
  <1> QED BY <1>2, <1>4, <1>5 DEF InFlight, v, n

\* A frame that is read is that of the first envelope.
LEMMA InFlightTaken ==
    ASSUME NEW w, NEW gone, NEW Q, NEW P, InFlight(w, gone, Q, P), w # <<>>,
           Len(w) > NextFrame(w).size
    PROVE  /\ Q # <<>>
           /\ SubSeq(w, 2, NextFrame(w).size + 1) = <<Envelope(Q[1])>> \o Q[1].body
           /\ \E S : InFlight(NextFrame(w).rest, gone, Tail(Q), S)
  <1> DEFINE n == Len(Q)
             len == Len(w)
             e == Q[1]
             f == Len(Frame(e))
             size == w[1].n
             data == SubSeq(w, 2, size + 1)
             rest == SubSeq(w, size + 2, len)
             both == <<Envelope(e)>> \o e.body
             R == Tail(Q)
             S == [i \in 0 .. n - 1 |-> P[i + 1] - P[1]]
  <1>0. NextFrame(w).size = size /\ NextFrame(w).rest = rest
    BY DEF NextFrame
  <1>1. /\ w \in Seq(TokenSet) /\ Q \in Seq(Sendable) /\ n \in Nat /\ len \in Nat /\ len >= 1
        /\ P \in [0 .. n -> Int] /\ P[0] = 0 /\ len <= P[n] /\ (gone \/ len = P[n])
        /\ \A i \in 1 .. n : P[i] = P[i - 1] + Len(Frame(Q[i])) /\ P[i] <= P[n]
        /\ \A i \in 1 .. n : \A j \in 1 .. Len(Frame(Q[i])) :
              P[i - 1] + j \in 1 .. len => w[P[i - 1] + j] = Frame(Q[i])[j]
    BY DEF InFlight
  <1>2. n >= 1 /\ Q # <<>>
    <2>1. n # 0
      BY <1>1
    <2> QED BY <1>1, <2>1
  <1>3. e \in Sendable
    BY <1>1, <1>2
  <1> HIDE DEF n, e, len
  <1>4. /\ Frame(e) \in Seq(TokenSet) /\ Len(e.body) \in Nat /\ f = Len(e.body) + 2
        /\ Frame(e)[1].n = Len(e.body) + 1
        /\ both \in Seq(TokenSet) /\ Len(both) = Len(e.body) + 1
        /\ \A k \in 1 .. Len(e.body) + 1 : Frame(e)[k + 1] = both[k]
    BY <1>3, FrameParts
  <1> HIDE DEF f, both
  <1>5. P[1] = f /\ \A j \in 1 .. f : j \in 1 .. len => w[j] = Frame(e)[j]
    <2>1. 1 \in 1 .. n /\ 1 - 1 = 0
      BY <1>1, <1>2
    <2>2. P[1] = 0 + Len(Frame(e)) /\ \A j \in 1 .. Len(Frame(e)) : 0 + j \in 1 .. len => w[0 + j] = Frame(e)[j]
      <3>1. P[1] = P[1 - 1] + Len(Frame(Q[1]))
        BY <1>1, <2>1
      <3>2. \A j \in 1 .. Len(Frame(Q[1])) : P[1 - 1] + j \in 1 .. len => w[P[1 - 1] + j] = Frame(Q[1])[j]
        BY <1>1, <2>1
      <3>3. P[1 - 1] = 0 /\ Q[1] = e
        BY <1>1, <2>1 DEF e
      <3> QED BY <3>1, <3>2, <3>3
    <2>3. f \in Int /\ f = Len(Frame(e))
      BY <1>4 DEF f
    <2>4. \A j \in 1 .. Len(Frame(e)) : 0 + j = j
      BY <2>3
    <2> QED BY <2>2, <2>3, <2>4
  <1>6. size = Len(e.body) + 1 /\ f = size + 1 /\ size \in Nat /\ len > size
    <2>1. 1 \in 1 .. f /\ 1 \in 1 .. len
      BY <1>1, <1>4
    <2>2. size = Len(e.body) + 1
      BY <1>4, <1>5, <2>1
    <2> QED BY <1>0, <1>4, <2>2 DEF len
  <1> HIDE DEF size
  <1>7. data = both
    <2>1. /\ data \in Seq(TokenSet) /\ Len(data) = size
          /\ \A k \in 1 .. size : data[k] = w[k + 1]
      <3>1. \A i \in 2 .. size + 1 : w[i] \in TokenSet
        BY <1>1, <1>6 DEF len
      <3>2. /\ data \in Seq(TokenSet) /\ Len(data) = (size + 1) - 2 + 1
            /\ \A k \in 1 .. (size + 1) - 2 + 1 : data[k] = w[2 + k - 1]
        <4>1. size + 1 \in Nat /\ 2 \in Nat /\ 2 <= (size + 1) + 1
          BY <1>6
        <4> HIDE DEF data
        <4> QED BY <1>6, <3>1, <4>1, SubSeqProperties DEF data
      <3> HIDE DEF data
      <3>3. (size + 1) - 2 + 1 = size /\ \A k \in 1 .. size : 2 + k - 1 = k + 1
        BY <1>6
      <3> QED BY <3>2, <3>3
    <2> HIDE DEF data
    <2>2. ASSUME NEW k \in 1 .. size PROVE data[k] = both[k]
      <3>1. k + 1 \in 1 .. f /\ k + 1 \in 1 .. len /\ k \in 1 .. Len(e.body) + 1
        BY <1>1, <1>6
      <3> QED BY <1>4, <1>5, <2>1, <3>1
    <2>3. Len(data) = Len(both)
      BY <1>4, <1>6, <2>1
    <2> QED BY <1>4, <2>1, <2>2, <2>3, SeqEqual
  <1> HIDE DEF data
  <1>8. rest \in Seq(TokenSet) /\ Len(rest) = len - f /\ \A k \in 1 .. len - f : rest[k] = w[k + f]
    <2>1. \A i \in size + 2 .. len : w[i] \in TokenSet
      BY <1>1, <1>6 DEF len
    <2>2. /\ rest \in Seq(TokenSet) /\ Len(rest) = len - (size + 2) + 1
          /\ \A k \in 1 .. len - (size + 2) + 1 : rest[k] = w[(size + 2) + k - 1]
      <3>1. size + 2 \in Nat /\ len \in Nat /\ size + 2 <= len + 1
        BY <1>1, <1>6
      <3> DEFINE j == size + 2
      <3>2. rest = SubSeq(w, j, len)
        BY DEF rest
      <3> HIDE DEF rest, j
      <3>3. j \in Nat /\ len \in Nat /\ j <= len + 1 /\ \A i \in j .. len : w[i] \in TokenSet
        BY <2>1, <3>1 DEF j
      <3>4. /\ SubSeq(w, j, len) \in Seq(TokenSet) /\ Len(SubSeq(w, j, len)) = len - j + 1
            /\ \A k \in 1 .. len - j + 1 : SubSeq(w, j, len)[k] = w[j + k - 1]
        BY <3>3, SubSeqProperties
      <3> QED BY <3>2, <3>4 DEF j
    <2> HIDE DEF rest
    <2>3. len - (size + 2) + 1 = len - f /\ \A k \in 1 .. len - f : (size + 2) + k - 1 = k + f
      BY <1>1, <1>6
    <2> QED BY <2>2, <2>3
  <1> HIDE DEF rest
  <1>9. R \in Seq(Sendable) /\ Len(R) = n - 1 /\ \A i \in 1 .. n - 1 : R[i] = Q[i + 1]
    BY <1>1, <1>2 DEF n
  <1> HIDE DEF R
  <1>10. /\ S \in [0 .. n - 1 -> Int] /\ S[0] = 0
         /\ \A i \in 0 .. n - 1 : S[i] = P[i + 1] - f /\ P[i + 1] \in Int /\ S[i] \in Int
    <2>1. \A i \in 0 .. n - 1 : i + 1 \in 0 .. n
      BY <1>1
    <2>2. f \in Int /\ 0 \in 0 .. n - 1
      BY <1>1, <1>2, <1>4
    <2>3. \A i \in 0 .. n - 1 : S[i] = P[i + 1] - f /\ P[i + 1] \in Int /\ S[i] \in Int
      <3>1. P \in [0 .. n -> Int] /\ P[1] = f
        BY <1>1, <1>5
      <3>2. \A i \in 0 .. n - 1 : P[i + 1] \in Int
        BY <2>1, <3>1, Zenon
      <3>3. \A i \in 0 .. n - 1 : S[i] = P[i + 1] - f
        BY <3>1 DEF S
      <3> QED BY <2>2, <3>2, <3>3
    <2>4. S[0] = P[1] - f
      BY <2>2, <2>3
    <2> QED BY <1>5, <2>2, <2>3, <2>4
  <1> HIDE DEF S
  <1>11. ASSUME NEW i \in 1 .. n - 1
         PROVE  /\ S[i] = S[i - 1] + Len(Frame(R[i])) /\ S[i] <= S[n - 1]
                /\ \A j \in 1 .. Len(Frame(R[i])) :
                     S[i - 1] + j \in 1 .. Len(rest) => rest[S[i - 1] + j] = Frame(R[i])[j]
    <2>1. /\ i + 1 \in 1 .. n /\ i \in 0 .. n - 1 /\ i - 1 \in 0 .. n - 1 /\ n - 1 \in 0 .. n - 1
          /\ (i - 1) + 1 = i /\ (i + 1) - 1 = i /\ (n - 1) + 1 = n
      BY <1>1, <1>2
    <2>2. /\ S[i] = P[i + 1] - f /\ S[i - 1] = P[i] - f /\ S[n - 1] = P[n] - f
          /\ P[i] \in Int /\ P[i + 1] \in Int /\ P[n] \in Int /\ f \in Int
      <3>1. S[i] = P[i + 1] - f /\ P[i + 1] \in Int
        BY <1>10, <2>1
      <3>2. S[i - 1] = P[(i - 1) + 1] - f /\ P[(i - 1) + 1] \in Int
        BY <1>10, <2>1
      <3>3. S[n - 1] = P[(n - 1) + 1] - f /\ P[(n - 1) + 1] \in Int
        BY <1>10, <2>1
      <3>4. f \in Int
        BY <1>4
      <3> QED BY <2>1, <3>1, <3>2, <3>3, <3>4
    <2>3. R[i] = Q[i + 1] /\ Q[i + 1] \in Sendable
      <3>1. R[i] = Q[i + 1]
        BY <1>9
      <3>2. i + 1 \in 1 .. Len(Q) /\ Q \in Seq(Sendable)
        BY <1>1, <2>1 DEF n
      <3>3. Q[i + 1] \in Sendable
        BY <3>2
      <3> QED BY <3>1, <3>3
    <2>4. Len(Frame(Q[i + 1])) \in Nat
      BY <2>3, FrameParts
    <2>5. P[i + 1] = P[i] + Len(Frame(Q[i + 1])) /\ P[i + 1] <= P[n]
      BY <1>1, <2>1
    <2>6. S[i] = S[i - 1] + Len(Frame(R[i])) /\ S[i] <= S[n - 1]
      BY <2>2, <2>3, <2>4, <2>5
    <2>7. ASSUME NEW j \in 1 .. Len(Frame(R[i])), S[i - 1] + j \in 1 .. Len(rest)
          PROVE  rest[S[i - 1] + j] = Frame(R[i])[j]
      <3>1. (S[i - 1] + j) + f = P[i] + j /\ P[i] + j \in 1 .. len
        <4> DEFINE t == S[i - 1]
                   x == P[i]
        <4>1. t = x - f /\ x \in Int /\ f \in Int /\ j \in Int
          BY <2>2, <2>3, <2>4, <2>7
        <4>2. t + j \in 1 .. len - f /\ len \in Nat /\ f \in Nat
          <5>1. t + j \in 1 .. Len(rest) /\ Len(rest) = len - f
            BY <1>8, <2>7
          <5>2. len \in Nat /\ f \in Nat
            <6>1. Len(e.body) \in Nat /\ f = Len(e.body) + 2
              BY <1>4, Zenon
            <6>2. len \in Nat
              BY <1>1, Zenon
            <6> QED BY <6>1, <6>2
          <5> HIDE DEF t
          <5> QED BY <5>1, <5>2
        <4> HIDE DEF t, x
        <4>3. (t + j) + f = x + j /\ x + j \in 1 .. len
          BY <4>1, <4>2
        <4> QED BY <4>3 DEF t, x
      <3>2. rest[S[i - 1] + j] = w[P[i] + j]
        BY <1>8, <2>7, <3>1
      <3>3. w[P[(i + 1) - 1] + j] = Frame(Q[i + 1])[j]
        BY <1>1, <2>1, <2>3, <2>7, <3>1
      <3> QED BY <2>1, <2>3, <3>2, <3>3
    <2> QED BY <2>6, <2>7
  <1>12. Len(rest) <= S[n - 1] /\ (gone \/ Len(rest) = S[n - 1])
    <2>1. n - 1 \in 0 .. n - 1 /\ (n - 1) + 1 = n
      BY <1>1, <1>2
    <2>2. S[n - 1] = P[n] - f /\ P[n] \in Int /\ f \in Int
      BY <1>4, <1>10, <2>1
    <2> QED BY <1>1, <1>8, <2>2
  <1>13. InFlight(rest, gone, R, S)
    BY <1>8, <1>9, <1>10, <1>11, <1>12 DEF InFlight
  <1> QED BY <1>0, <1>2, <1>7, <1>13 DEF data, both, e, R

-----------------------------------------------------------------------------
(* Envelopes and the messages they belong to. *)

MsgIds == Senders \X Nat
Index(e) == e.body[1].n

\* An envelope as putEnvelope makes it.
Made(e) ==
    /\ e \in Sendable
    /\ e.class = "object" => e.last /\ e.body = Bytes(e.id, 1, e.c.actual)
    /\ e.class = "chunk" =>
         /\ Index(e) \in 0 .. NumChunks(e.c) - 1
         /\ e.body = ChunkBody(e.id, e.c, Index(e))
         /\ e.last <=> Index(e) = NumChunks(e.c) - 1

\* The fixed part of chunk i.
ChunkHead(id, c, i) == Token("chunk", id, i, NumChunks(c), c.declared, c.known)

\* A chunk's body is its fixed part and its payload.
LEMMA ChunkParts ==
    ASSUME NEW id \in MsgIds, NEW c \in Contents, NEW i \in Nat, i < NumChunks(c)
    PROVE  /\ ChunkBody(id, c, i) = <<ChunkHead(id, c, i)>> \o Payload(id, c, i)
           /\ Payload(id, c, i) \in Seq(TokenSet) /\ ChunkHead(id, c, i) \in TokenSet
           /\ ChunkBody(id, c, i)[1] = ChunkHead(id, c, i) /\ ChunkHead(id, c, i).n = i
  <1>1. ChunkBody(id, c, i) = <<ChunkHead(id, c, i)>> \o Payload(id, c, i)
    BY DEF ChunkBody, ChunkHead, Payload
  <1>2. id \in Ids /\ c.declared \in Nat /\ c.actual \in Nat /\ c.known \in BOOLEAN /\ NumChunks(c) \in Nat
    BY ContentTyped, ChunkCount DEF MsgIds, Ids
  <1>3. ChunkHead(id, c, i) \in TokenSet /\ ChunkHead(id, c, i).n = i
    BY <1>2 DEF ChunkHead, Token, TokenSet
  <1>4. Payload(id, c, i) \in Seq(TokenSet)
    <2> DEFINE from == i * ChunkSize + 1
               to == Least((i + 1) * ChunkSize, c.actual)
    <2>1. from \in Nat /\ to \in Int
      <3>1. ChunkSize \in Nat
        BY TransportAssumption
      <3> QED BY <1>2, <3>1 DEF Least
    <2>2. Payload(id, c, i) = Bytes(id, from, to)
      BY DEF Payload
    <2> HIDE DEF from, to
    <2> QED BY <1>2, <2>1, <2>2, BytesAreTokens
  <1> HIDE DEF ChunkHead
  <1>5. (<<ChunkHead(id, c, i)>> \o Payload(id, c, i))[1] = ChunkHead(id, c, i)
    BY <1>3, <1>4
  <1> QED BY <1>1, <1>3, <1>4, <1>5

\* What putEnvelope queues is made so.
LEMMA PutMade ==
    ASSUME NEW s \in Senders, NEW k \in Nat, NEW c \in Contents
    PROVE  LET id == <<s, k>>
               object == [id |-> id, class |-> "object", c |-> c, last |-> TRUE,
                          body |-> Bytes(id, 1, c.actual)]
               chunks == [i \in 1 .. NumChunks(c) |->
                             [id |-> id, class |-> "chunk", c |-> c, last |-> i = NumChunks(c),
                              body |-> ChunkBody(id, c, i - 1)]]
           IN  /\ Made(object)
               /\ Chunked(c) =>
                    /\ chunks \in Seq(Sendable) /\ Len(chunks) = NumChunks(c)
                    /\ \A i \in 1 .. NumChunks(c) : Made(chunks[i]) /\ Index(chunks[i]) = i - 1
  <1> DEFINE id == <<s, k>>
             n == NumChunks(c)
             object == [id |-> id, class |-> "object", c |-> c, last |-> TRUE,
                        body |-> Bytes(id, 1, c.actual)]
             chunk(i) == [id |-> id, class |-> "chunk", c |-> c, last |-> i = n,
                          body |-> ChunkBody(id, c, i - 1)]
             chunks == [i \in 1 .. n |-> chunk(i)]
  <1>1. <<object>> \in Seq(Sendable) /\ (Chunked(c) => chunks \in Seq(Sendable))
    BY PutSendable
  <1>2. n \in Nat \ {0} /\ id \in MsgIds
    BY ChunkCount DEF MsgIds
  <1>3. Made(object)
    <2>1. object \in Sendable
      <3> HIDE DEF object
      <3>1. <<object>>[1] \in Sendable
        BY <1>1
      <3> QED BY <3>1
    <2>2. /\ object.class = "object" /\ object.last
          /\ object.body = Bytes(object.id, 1, object.c.actual)
      BY DEF id
    <2> HIDE DEF object
    <2> QED BY <2>1, <2>2 DEF Made
  <1>4. ASSUME Chunked(c)
        PROVE  /\ chunks \in Seq(Sendable) /\ Len(chunks) = n
               /\ \A i \in 1 .. n : Made(chunks[i]) /\ Index(chunks[i]) = i - 1
    <2>1. chunks \in Seq(Sendable)
      BY <1>1, <1>4
    <2>2. Len(chunks) = n
      <3> HIDE DEF chunk, n
      <3> QED BY <1>2
    <2>3. ASSUME NEW i \in 1 .. n PROVE Made(chunks[i]) /\ Index(chunks[i]) = i - 1
      <3>1. chunks[i] = chunk(i)
        OBVIOUS
      <3>2. chunk(i) \in Sendable
        <4> HIDE DEF chunk, n, chunks
        <4> QED BY <1>2, <2>1, <2>2, <3>1
      <3>3. i - 1 \in Nat /\ i - 1 < n
        BY <1>2
      <3>4. ChunkBody(id, c, i - 1)[1].n = i - 1
        <4> HIDE DEF id
        <4>1. id \in MsgIds /\ i - 1 \in Nat /\ i - 1 < NumChunks(c)
          BY <1>2, <3>3 DEF n
        <4> DEFINE j == i - 1
        <4> HIDE DEF j
        <4>2. ChunkBody(id, c, j)[1] = ChunkHead(id, c, j) /\ ChunkHead(id, c, j).n = j
          BY <4>1, ChunkParts DEF j
        <4> QED BY <4>2 DEF j
      <3>5. Index(chunk(i)) = i - 1
        BY <3>4 DEF Index
      <3>6. /\ chunk(i).class = "chunk" /\ chunk(i).c = c /\ chunk(i).id = id
            /\ chunk(i).body = ChunkBody(id, c, i - 1)
            /\ chunk(i).last <=> i = n
        BY DEF id
      <3>7. (i - 1 = n - 1 <=> i = n) /\ i - 1 \in 0 .. n - 1
        BY <1>2
      <3> HIDE DEF chunk, chunks
      <3>8. Made(chunk(i))
        BY <3>2, <3>5, <3>6, <3>7 DEF Made, n
      <3> QED BY <3>1, <3>5, <3>8
    <2> QED BY <2>1, <2>2, <2>3
  <1> QED BY <1>3, <1>4 DEF id, n, object, chunk, chunks

\* The unchunker of a message of which k chunks have come.
Progress(id, c, k) ==
    [num |-> NumChunks(c), size |-> c.declared, known |-> c.known,
     chunks |-> [i \in 0 .. k - 1 |-> Payload(id, c, i)]]

\* Its next chunk fits, and with the last one it is the content.
NextFits(id, c, k, old, head, new) ==
    /\ ~Mismatch(old, head)
    /\ new = Progress(id, c, k + 1)
    /\ IsComplete(new) <=> k = NumChunks(c) - 1
    /\ k = NumChunks(c) - 1 => Unchunked(new) = Bytes(id, 1, c.actual)
    /\ Recreatable(new) => c.known

\* A chunk that comes next brings its message one chunk further.
LEMMA ProgressMade ==
    ASSUME NEW id \in MsgIds, NEW c \in Contents, NEW k \in Nat, k < NumChunks(c)
    PROVE  /\ NewUnchunker(ChunkHead(id, c, k)) = Progress(id, c, 0)
           /\ NextFits(id, c, k, Progress(id, c, k), ChunkHead(id, c, k),
                       AddChunk(Progress(id, c, k), ChunkHead(id, c, k), Payload(id, c, k)))
  <1> DEFINE head == ChunkHead(id, c, k)
             n == NumChunks(c)
             old == Progress(id, c, k)
             new == AddChunk(old, head, Payload(id, c, k))
             chunks(m) == [i \in 0 .. m - 1 |-> Payload(id, c, i)]
  <1>1. n \in Nat \ {0} /\ c.known \in BOOLEAN
    BY ChunkCount, ContentTyped
  <1>2. head.n = k /\ head.num = n /\ head.size = c.declared /\ head.known = c.known
    BY DEF ChunkHead, Token
  <1> HIDE DEF head, n
  <1>3. NewUnchunker(head) = Progress(id, c, 0)
    <2>1. [i \in {} |-> 0] = chunks(0)
      OBVIOUS
    <2> HIDE DEF chunks
    <2>2. Progress(id, c, 0) = [num |-> n, size |-> c.declared, known |-> c.known, chunks |-> chunks(0)]
      BY DEF Progress, chunks, n
    <2> QED BY <1>2, <2>1, <2>2 DEF NewUnchunker
  <1>4. old = [num |-> n, size |-> c.declared, known |-> c.known, chunks |-> chunks(k)]
    BY DEF Progress, n
  <1> HIDE DEF old
  <1>5. ~Mismatch(old, head)
    <2>1. k \notin DOMAIN chunks(k)
      OBVIOUS
    <2> HIDE DEF chunks
    <2> QED BY <1>1, <1>2, <1>4, <2>1 DEF Mismatch
  <1>6. new = Progress(id, c, k + 1)
    <2>1. [i \in DOMAIN chunks(k) \cup {k} |-> IF i = k THEN Payload(id, c, k) ELSE chunks(k)[i]] = chunks(k + 1)
      <3>1. DOMAIN chunks(k) \cup {k} = 0 .. (k + 1) - 1
        OBVIOUS
      <3>2. \A i \in 0 .. (k + 1) - 1 : i # k => chunks(k)[i] = Payload(id, c, i)
        OBVIOUS
      <3> DEFINE X == DOMAIN chunks(k) \cup {k}
                 f == chunks(k)
      <3>3. \A i \in X : i # k => f[i] = Payload(id, c, i)
        BY <3>1, <3>2
      <3>4. X = 0 .. (k + 1) - 1
        BY <3>1
      <3> HIDE DEF X, f
      <3>5. [i \in X |-> IF i = k THEN Payload(id, c, k) ELSE f[i]] = [i \in X |-> Payload(id, c, i)]
        BY <3>3
      <3> QED BY <3>4, <3>5 DEF X, f
    <2>2. new = [num |-> n, size |-> c.declared, known |-> c.known,
                 chunks |-> [i \in DOMAIN chunks(k) \cup {k} |->
                                IF i = k THEN Payload(id, c, k) ELSE chunks(k)[i]]]
      <3> HIDE DEF chunks
      <3> QED BY <1>2, <1>4 DEF AddChunk
    <2>3. Progress(id, c, k + 1) = [num |-> n, size |-> c.declared, known |-> c.known, chunks |-> chunks(k + 1)]
      BY DEF Progress, n
    <2> HIDE DEF chunks
    <2> QED BY <2>1, <2>2, <2>3
  <1> HIDE DEF new
  <1>7. /\ new.num = n /\ new.known = c.known
        /\ DOMAIN new.chunks = 0 .. k
        /\ \A i \in 0 .. k : new.chunks[i] = Payload(id, c, i)
    <2>1. (k + 1) - 1 = k
      OBVIOUS
    <2> QED BY <1>6, <2>1 DEF Progress, n
  <1>8. IsComplete(new) <=> k = n - 1
    <2>1. Cardinality(0 .. k) = k + 1
      <3>1. 0 \in Int /\ k \in Int
        OBVIOUS
      <3>2. Cardinality(0 .. k) = IF 0 > k THEN 0 ELSE k - 0 + 1
        BY <3>1, FS_Interval
      <3> QED BY <3>2
    <2>2. k < n
      BY DEF n
    <2>3. k + 1 >= n <=> k = n - 1
      BY <1>1, <2>2
    <2> QED BY <1>7, <2>1, <2>3 DEF IsComplete
  <1>9. k = n - 1 => Unchunked(new) = Bytes(id, 1, c.actual)
    <2> SUFFICES ASSUME k = n - 1 PROVE Unchunked(new) = Bytes(id, 1, c.actual)
      OBVIOUS
    <2>1. id \in Ids
      BY DEF MsgIds, Ids
    <2>2. FlattenSeq([i \in 1 .. n |-> Payload(id, c, i - 1)]) = Bytes(id, 1, c.actual)
      BY <2>1, ChunksMakeContent DEF n
    <2>3. \A i \in 1 .. n : i - 1 \in 0 .. k
      BY <1>1
    <2>4. [i \in 1 .. n |-> new.chunks[i - 1]] = [i \in 1 .. n |-> Payload(id, c, i - 1)]
      BY <1>7, <2>3
    <2> QED BY <1>7, <2>2, <2>4 DEF Unchunked
  <1>10. Recreatable(new) => c.known
    BY <1>7 DEF Recreatable
  <1>11. NextFits(id, c, k, old, head, new)
    BY <1>5, <1>6, <1>8, <1>9, <1>10 DEF NextFits, n
  <1> QED BY <1>3, <1>11 DEF head, old, new

-----------------------------------------------------------------------------
(* The messages between putEnvelope and getEnvelope. *)

\* Counters of the chunks of each message, and of the messages of each sender,
\* that the envelopes up to some point make.
CountChunk(e, k) == IF e.class = "chunk" THEN [k EXCEPT ![e.id] = @ + 1] ELSE k
CountMessage(e, m) == IF e.last THEN [m EXCEPT ![e.id[1]] = @ + 1] ELSE m

\* An envelope between two values of the counters: chunks come in order, and the
\* last envelope of a message is that of the accepted one with its number.
Counts(e, k1, k2, m1, m2, acc) ==
    /\ e.class = "chunk" => Index(e) = k1[e.id]
    /\ k2 = CountChunk(e, k1) /\ m2 = CountMessage(e, m1)
    /\ e.last => /\ m2[e.id[1]] <= Len(acc[e.id[1]])
                 /\ acc[e.id[1]][m2[e.id[1]]] = Message(e.id, e.c)

Counted(Q, K, N, acc) ==
    /\ Q \in Seq(Sendable)
    /\ K \in [0 .. Len(Q) -> [MsgIds -> Nat]] /\ N \in [0 .. Len(Q) -> [Senders -> Nat]]
    /\ \A i \in 1 .. Len(Q) : Counts(Q[i], K[i - 1], K[i], N[i - 1], N[i], acc)

\* An envelope e and counters k and m that continue others, and what they make.
Continues(Q, K, N, acc, e, k, m) ==
    /\ Q \in Seq(Sendable) /\ e \in Sendable
    /\ K \in [0 .. Len(Q) -> [MsgIds -> Nat]] /\ N \in [0 .. Len(Q) -> [Senders -> Nat]]
    /\ k \in [MsgIds -> Nat] /\ m \in [Senders -> Nat]
    /\ \A i \in 1 .. Len(Q) : Counts(Q[i], K[i - 1], K[i], N[i - 1], N[i], acc)
    /\ Counts(e, K[Len(Q)], k, N[Len(Q)], m, acc)

Continued(Q, R, K, K2, N, N2, k, m) ==
    /\ Len(R) = Len(Q) + 1
    /\ K2[0] = K[0] /\ K2[Len(Q) + 1] = k
    /\ N2[0] = N[0] /\ N2[Len(Q) + 1] = m

\* One envelope more.
LEMMA CountedAppended ==
    ASSUME NEW Q, NEW K, NEW N, NEW acc2, NEW e, NEW k, NEW m, Continues(Q, K, N, acc2, e, k, m)
    PROVE  /\ Counted(Append(Q, e), More(K, Len(Q), k), More(N, Len(Q), m), acc2)
           /\ Continued(Q, Append(Q, e), K, More(K, Len(Q), k), N, More(N, Len(Q), m), k, m)
  <1> DEFINE n == Len(Q)
             R == Append(Q, e)
             K2 == More(K, n, k)
             N2 == More(N, n, m)
  <1>1. /\ Q \in Seq(Sendable) /\ n \in Nat
        /\ K \in [0 .. n -> [MsgIds -> Nat]] /\ N \in [0 .. n -> [Senders -> Nat]]
        /\ e \in Sendable /\ k \in [MsgIds -> Nat] /\ m \in [Senders -> Nat]
    BY DEF Continues
  <1>2. R \in Seq(Sendable) /\ Len(R) = n + 1 /\ R[n + 1] = e /\ \A i \in 1 .. n : R[i] = Q[i]
    BY <1>1
  <1>3. n + 1 \in 0 .. n + 1 /\ ~(n + 1 <= n) /\ \A i \in 0 .. n : i \in 0 .. n + 1 /\ i <= n
    BY <1>1
  <1>4. K2[n + 1] = k /\ \A i \in 0 .. n : K2[i] = K[i]
    BY <1>3 DEF More
  <1>5. N2[n + 1] = m /\ \A i \in 0 .. n : N2[i] = N[i]
    BY <1>3 DEF More
  <1>6. K2 \in [0 .. n + 1 -> [MsgIds -> Nat]]
    <2> DEFINE X == [MsgIds -> Nat]
    <2>1. k \in X /\ K \in [0 .. n -> X]
      BY <1>1
    <2> HIDE DEF X, n
    <2>2. \A i \in 0 .. n + 1 : i <= n => i \in 0 .. n
      BY <1>1
    <2>3. K2 \in [0 .. n + 1 -> X]
      BY <2>1, <2>2 DEF More
    <2> QED BY <2>3 DEF X
  <1>7. N2 \in [0 .. n + 1 -> [Senders -> Nat]]
    <2> DEFINE X == [Senders -> Nat]
    <2>1. m \in X /\ N \in [0 .. n -> X]
      BY <1>1
    <2> HIDE DEF X, n
    <2>2. \A i \in 0 .. n + 1 : i <= n => i \in 0 .. n
      BY <1>1
    <2>3. N2 \in [0 .. n + 1 -> X]
      BY <2>1, <2>2 DEF More
    <2> QED BY <2>3 DEF X
  <1> HIDE DEF R, K2, N2, n
  <1>8. ASSUME NEW i \in 1 .. n + 1 PROVE Counts(R[i], K2[i - 1], K2[i], N2[i - 1], N2[i], acc2)
    <2>1. CASE i = n + 1
      <3>1. i - 1 = n /\ n \in 0 .. n
        BY <1>1, <2>1
      <3>2. R[i] = e /\ K2[i - 1] = K[n] /\ K2[i] = k /\ N2[i - 1] = N[n] /\ N2[i] = m
        BY <1>2, <1>4, <1>5, <2>1, <3>1
      <3> QED BY <3>2 DEF n, Continues
    <2>2. CASE i # n + 1
      <3>1. i \in 1 .. n /\ i - 1 \in 0 .. n /\ i \in 0 .. n
        BY <1>1, <2>2
      <3>2. R[i] = Q[i] /\ K2[i - 1] = K[i - 1] /\ K2[i] = K[i] /\ N2[i - 1] = N[i - 1] /\ N2[i] = N[i]
        BY <1>2, <1>4, <1>5, <3>1
      <3> QED BY <3>1, <3>2 DEF n, Continues
    <2> QED BY <2>1, <2>2
  <1>9. 0 \in 0 .. n
    BY <1>1
  <1>10. Counted(R, K2, N2, acc2)
    BY <1>2, <1>6, <1>7, <1>8 DEF Counted
  <1>11. Continued(Q, R, K, K2, N, N2, k, m)
    BY <1>2, <1>4, <1>5, <1>9 DEF Continued, n
  <1> QED BY <1>10, <1>11 DEF R, K2, N2, n

\* One envelope less.
LEMMA CountedTaken ==
    ASSUME NEW Q, NEW K, NEW N, NEW acc, Counted(Q, K, N, acc), Q # <<>>
    PROVE  /\ Counts(Q[1], K[0], K[1], N[0], N[1], acc) /\ Q[1] \in Sendable
           /\ K[0] \in [MsgIds -> Nat] /\ N[0] \in [Senders -> Nat]
           /\ Counted(Tail(Q), Later(K, Len(Q)), Later(N, Len(Q)), acc)
           /\ Len(Tail(Q)) = Len(Q) - 1
           /\ \A i \in 1 .. Len(Q) - 1 : Tail(Q)[i] = Q[i + 1] /\ i + 1 \in 1 .. Len(Q)
           /\ Later(K, Len(Q))[0] = K[1] /\ Later(K, Len(Q))[Len(Q) - 1] = K[Len(Q)]
           /\ Later(N, Len(Q))[0] = N[1] /\ Later(N, Len(Q))[Len(Q) - 1] = N[Len(Q)]
  <1> DEFINE n == Len(Q)
             R == Tail(Q)
             K2 == Later(K, n)
             N2 == Later(N, n)
  <1>1. /\ Q \in Seq(Sendable) /\ n \in Nat
        /\ K \in [0 .. n -> [MsgIds -> Nat]] /\ N \in [0 .. n -> [Senders -> Nat]]
        /\ \A i \in 1 .. n : Counts(Q[i], K[i - 1], K[i], N[i - 1], N[i], acc)
    BY DEF Counted
  <1>2. n >= 1 /\ R \in Seq(Sendable) /\ Len(R) = n - 1 /\ \A i \in 1 .. n - 1 : R[i] = Q[i + 1]
    BY <1>1
  <1>3. /\ 0 \in 0 .. n - 1 /\ n - 1 \in 0 .. n - 1 /\ (n - 1) + 1 = n /\ 0 + 1 = 1 /\ 0 \in 0 .. n
        /\ \A i \in 0 .. n - 1 : i + 1 \in 0 .. n
    BY <1>1, <1>2
  <1>4. \A i \in 0 .. n - 1 : K2[i] = K[i + 1] /\ N2[i] = N[i + 1]
    BY DEF Later
  <1>5. K2 \in [0 .. n - 1 -> [MsgIds -> Nat]]
    <2> DEFINE X == [MsgIds -> Nat]
    <2> HIDE DEF X, n
    <2>1. K \in [0 .. n -> X]
      BY <1>1 DEF X
    <2>2. K2 \in [0 .. n - 1 -> X]
      BY <1>3, <2>1 DEF Later
    <2> QED BY <2>2 DEF X
  <1>6. N2 \in [0 .. n - 1 -> [Senders -> Nat]]
    <2> DEFINE X == [Senders -> Nat]
    <2> HIDE DEF X, n
    <2>1. N \in [0 .. n -> X]
      BY <1>1 DEF X
    <2>2. N2 \in [0 .. n - 1 -> X]
      BY <1>3, <2>1 DEF Later
    <2> QED BY <2>2 DEF X
  <1> HIDE DEF R, K2, N2, n
  <1>7. ASSUME NEW i \in 1 .. n - 1 PROVE Counts(R[i], K2[i - 1], K2[i], N2[i - 1], N2[i], acc)
    <2>1. i + 1 \in 1 .. n /\ i \in 0 .. n - 1 /\ i - 1 \in 0 .. n - 1 /\ (i - 1) + 1 = i /\ (i + 1) - 1 = i
      BY <1>1
    <2>2. R[i] = Q[i + 1] /\ K2[i - 1] = K[i] /\ K2[i] = K[i + 1] /\ N2[i - 1] = N[i] /\ N2[i] = N[i + 1]
      BY <1>2, <1>4, <2>1
    <2>3. Counts(Q[i + 1], K[(i + 1) - 1], K[i + 1], N[(i + 1) - 1], N[i + 1], acc)
      BY <1>1, <2>1
    <2> QED BY <2>1, <2>2, <2>3
  <1>8. Counted(R, K2, N2, acc)
    BY <1>2, <1>5, <1>6, <1>7 DEF Counted
  <1>9. K2[0] = K[1] /\ K2[n - 1] = K[n] /\ N2[0] = N[1] /\ N2[n - 1] = N[n]
    BY <1>3, <1>4
  <1>10. Counts(Q[1], K[0], K[1], N[0], N[1], acc)
    <2>1. 1 \in 1 .. n /\ 1 - 1 = 0
      BY <1>1, <1>2
    <2>2. Counts(Q[1], K[1 - 1], K[1], N[1 - 1], N[1], acc)
      BY <1>1, <2>1
    <2> QED BY <2>1, <2>2
  <1>11. K[0] \in [MsgIds -> Nat] /\ N[0] \in [Senders -> Nat] /\ Q[1] \in Sendable
    <2>1. 1 \in 1 .. n
      BY <1>1, <1>2
    <2> QED BY <1>1, <1>3, <2>1 DEF n
  <1>12. \A i \in 1 .. n - 1 : i + 1 \in 1 .. n
    BY <1>1
  <1> QED BY <1>2, <1>8, <1>9, <1>10, <1>11, <1>12 DEF R, K2, N2, n

\* cont gives each message its content; p is the number of messages put.
Of(e, p, cont) == e.id[2] <= p /\ e.c = cont[e.id]

\* The envelopes still to be written continue what was written.
ToSend(td, p, k, cont) ==
    \A s \in Senders : \A j \in 1 .. Len(td[s]) :
        /\ Made(td[s][j]) /\ Of(td[s][j], p, cont)
        /\ td[s][j].id[1] = s /\ td[s][j].id = td[s][1].id
        /\ td[s][j].class = "object" => Len(td[s]) = 1
        /\ td[s][j].class = "chunk" => Index(td[s][j]) = k[td[s][j].id] + j - 1

\* The table holds the messages of which some chunks were read, but not all.
Reassembling(us, p, k, cont) ==
    /\ \A id \in DOMAIN us :
          /\ id \in MsgIds /\ id[2] <= p /\ cont[id] \in Contents /\ k[id] >= 1
          /\ us[id] = Progress(id, cont[id], k[id])
    /\ \A id \in MsgIds \ DOMAIN us : k[id] = 0 \/ (id[2] <= p /\ k[id] = NumChunks(cont[id]))

\* The envelopes in flight lead from what was delivered to what was accepted.
Flow(Q, K, N, cont, td, p, us, acc, del) ==
    /\ Counted(Q, K, N, acc)
    /\ \A i \in 1 .. Len(Q) : Made(Q[i]) /\ Of(Q[i], p, cont) /\ Q[i].c.name % NameMod # 0
    /\ \A s \in Senders : N[0][s] = Len(del[s]) /\ N[Len(Q)][s] = Len(acc[s])
    /\ ToSend(td, p, K[Len(Q)], cont)
    /\ Reassembling(us, p, K[0], cont)
    /\ \A id \in MsgIds : id[2] > p => K[Len(Q)][id] = 0
    /\ DOMAIN cont = MsgIds

AllMessages == {Message(id, c) : id \in MsgIds, c \in Contents}

Histories ==
    /\ accepted \in [Senders -> Seq(AllMessages)]
    /\ delivered \in [Senders -> Seq(AllMessages)]

\* Whom an envelope is from.
OwnIds ==
    /\ puts <= MaxPuts
    /\ \A s \in Senders : \A j \in 1 .. Len(todo[s]) :
          todo[s][j].id[1] = s /\ todo[s][j].id[2] \in 1 .. puts

Flowing ==
    rx = "ok" => \E Q, P, K, N, cont :
        /\ InFlight(wire, closed, Q, P)
        /\ Flow(Q, K, N, cont, todo, puts, mUnchunkers, accepted, delivered)

ChannelInv == Histories /\ OwnIds /\ Flowing

\* Nothing has been put.
LEMMA ChannelInit == Init => ChannelInv
  <1> SUFFICES ASSUME Init PROVE ChannelInv
    OBVIOUS
  <1>1. Histories
    BY DEF Init, Histories
  <1>2. OwnIds
    BY TransportAssumption DEF Init, OwnIds
  <1> DEFINE Q == <<>>
             P == [i \in 0 .. 0 |-> 0]
             K == [i \in 0 .. 0 |-> [id \in MsgIds |-> 0]]
             N == [i \in 0 .. 0 |-> [s \in Senders |-> 0]]
             cont == [id \in MsgIds |-> 0]
  <1>3. InFlight(wire, closed, Q, P)
    BY DEF Init, InFlight
  <1>4. Flow(Q, K, N, cont, todo, puts, mUnchunkers, accepted, delivered)
    <2>1. Counted(Q, K, N, accepted)
      BY DEF Counted
    <2>2. \A s \in Senders : N[0][s] = 0
      OBVIOUS
    <2>3. \A id \in MsgIds : K[0][id] = 0
      OBVIOUS
    <2>4. DOMAIN cont = MsgIds /\ Len(Q) = 0
      OBVIOUS
    <2> HIDE DEF K, N, cont
    <2>5. ToSend(todo, puts, K[Len(Q)], cont)
      BY DEF Init, ToSend
    <2>6. Reassembling(mUnchunkers, puts, K[0], cont)
      BY <2>3 DEF Init, Reassembling
    <2>7. \A s \in Senders : N[0][s] = Len(delivered[s]) /\ N[Len(Q)][s] = Len(accepted[s])
      BY <2>2 DEF Init
    <2> QED BY <2>1, <2>3, <2>4, <2>5, <2>6, <2>7 DEF Flow
  <1> HIDE DEF Q, P, K, N, cont
  <1>5. Flowing
    BY <1>3, <1>4 DEF Flowing
  <1> QED BY <1>1, <1>2, <1>5 DEF ChannelInv

\* A message that is put starts with no chunk of it sent.
LEMMA FlowPut ==
    ASSUME NEW Q, NEW K, NEW N, NEW cont, NEW td, NEW p \in Nat, NEW us, NEW acc, NEW del,
           Flow(Q, K, N, cont, td, p, us, acc, del), td \in [Senders -> Seq(Sendable)],
           NEW s \in Senders, NEW c \in Contents, NEW td2 \in [Senders -> Seq(Sendable)],
           \A r \in Senders : r # s => td2[r] = td[r],
           \A j \in 1 .. Len(td2[s]) :
              /\ Made(td2[s][j]) /\ td2[s][j].id = <<s, p + 1>> /\ td2[s][j].c = c
              /\ td2[s][j].class = "object" => Len(td2[s]) = 1
              /\ td2[s][j].class = "chunk" => Index(td2[s][j]) = j - 1
    PROVE  Flow(Q, K, N, [cont EXCEPT ![<<s, p + 1>>] = c], td2, p + 1, us, acc, del)
  <1> DEFINE new == <<s, p + 1>>
             cont2 == [cont EXCEPT ![new] = c]
             n == Len(Q)
  <1>1. /\ Counted(Q, K, N, acc)
        /\ \A i \in 1 .. n : Made(Q[i]) /\ Of(Q[i], p, cont) /\ Q[i].c.name % NameMod # 0
        /\ \A r \in Senders : N[0][r] = Len(del[r]) /\ N[n][r] = Len(acc[r])
        /\ ToSend(td, p, K[n], cont)
        /\ Reassembling(us, p, K[0], cont)
        /\ \A id \in MsgIds : id[2] > p => K[n][id] = 0
        /\ DOMAIN cont = MsgIds
    BY DEF Flow
  <1>2. new \in MsgIds /\ new[2] = p + 1 /\ new[1] = s
    BY DEF MsgIds
  <1>3. cont2[new] = c /\ DOMAIN cont2 = MsgIds
    <2> HIDE DEF new
    <2> QED BY <1>1, <1>2
  <1>4. \A id \in MsgIds : id[2] <= p => cont2[id] = cont[id] /\ id[2] <= p + 1
    <2> SUFFICES ASSUME NEW id \in MsgIds, id[2] <= p PROVE cont2[id] = cont[id] /\ id[2] <= p + 1
      OBVIOUS
    <2>1. id[2] \in Nat
      BY DEF MsgIds
    <2>2. id # new /\ id[2] <= p + 1
      BY <1>2, <2>1
    <2> HIDE DEF new
    <2> QED BY <1>1, <2>2
  <1> HIDE DEF cont2, new, n
  <1>5. \A e : Made(e) /\ Of(e, p, cont) => Of(e, p + 1, cont2)
    <2> SUFFICES ASSUME NEW e, Made(e), Of(e, p, cont) PROVE Of(e, p + 1, cont2)
      OBVIOUS
    <2>1. e.id \in MsgIds
      BY DEF Made, Sendable, MsgIds
    <2> QED BY <1>4, <2>1 DEF Of
  <1>6. ToSend(td2, p + 1, K[n], cont2)
    <2> SUFFICES ASSUME NEW r \in Senders, NEW j \in 1 .. Len(td2[r])
                 PROVE  /\ Made(td2[r][j]) /\ Of(td2[r][j], p + 1, cont2)
                        /\ td2[r][j].id[1] = r /\ td2[r][j].id = td2[r][1].id
                        /\ td2[r][j].class = "object" => Len(td2[r]) = 1
                        /\ td2[r][j].class = "chunk" => Index(td2[r][j]) = K[n][td2[r][j].id] + j - 1
      BY DEF ToSend
    <2>1. CASE r # s
      <3>1. td2[r] = td[r]
        BY <2>1
      <3>2. /\ Made(td[r][j]) /\ Of(td[r][j], p, cont)
            /\ td[r][j].id[1] = r /\ td[r][j].id = td[r][1].id
            /\ td[r][j].class = "object" => Len(td[r]) = 1
            /\ td[r][j].class = "chunk" => Index(td[r][j]) = K[n][td[r][j].id] + j - 1
        BY <1>1, <3>1 DEF ToSend
      <3> QED BY <1>5, <3>1, <3>2
    <2>2. CASE r = s
      <3>1. /\ Made(td2[s][j]) /\ td2[s][j].id = new /\ td2[s][j].c = c
            /\ td2[s][j].class = "object" => Len(td2[s]) = 1
            /\ td2[s][j].class = "chunk" => Index(td2[s][j]) = j - 1
        BY <2>2 DEF new
      <3>2. 1 \in 1 .. Len(td2[s])
        BY <2>2
      <3>3. td2[s][1].id = new
        BY <3>2 DEF new
      <3>4. K[n][new] = 0 /\ 0 + j - 1 = j - 1
        BY <1>1, <1>2
      <3>5. Of(td2[s][j], p + 1, cont2)
        BY <1>2, <1>3, <3>1 DEF Of
      <3> QED BY <1>2, <2>2, <3>1, <3>3, <3>4, <3>5
    <2> QED BY <2>1, <2>2
  <1>7. Reassembling(us, p + 1, K[0], cont2)
    <2>1. ASSUME NEW id \in DOMAIN us
          PROVE  /\ id \in MsgIds /\ id[2] <= p + 1 /\ cont2[id] \in Contents /\ K[0][id] >= 1
                 /\ us[id] = Progress(id, cont2[id], K[0][id])
      BY <1>1, <1>4 DEF Reassembling
    <2>2. ASSUME NEW id \in MsgIds \ DOMAIN us
          PROVE  K[0][id] = 0 \/ (id[2] <= p + 1 /\ K[0][id] = NumChunks(cont2[id]))
      BY <1>1, <1>4 DEF Reassembling
    <2> QED BY <2>1, <2>2 DEF Reassembling
  <1>8. \A id \in MsgIds : id[2] > p + 1 => K[n][id] = 0
    <2> SUFFICES ASSUME NEW id \in MsgIds, id[2] > p + 1 PROVE K[n][id] = 0
      OBVIOUS
    <2>1. id[2] \in Nat
      BY DEF MsgIds
    <2> QED BY <1>1, <2>1
  <1>9. \A i \in 1 .. n : Made(Q[i]) /\ Of(Q[i], p + 1, cont2) /\ Q[i].c.name % NameMod # 0
    BY <1>1, <1>5
  <1>10. Flow(Q, K, N, cont2, td2, p + 1, us, acc, del)
    BY <1>1, <1>3, <1>6, <1>7, <1>8, <1>9 DEF Flow, n
  <1> QED BY <1>10 DEF cont2, new

\* Putting a message.
LEMMA PutFlows ==
    ASSUME SendingTyped, ChannelInv, NEW s \in Senders, NEW c \in Contents, Put(s, c)
    PROVE  ChannelInv' /\ UNCHANGED <<accepted, delivered>>
  <1> DEFINE id == <<s, puts + 1>>
             n == NumChunks(c)
             object == [id |-> id, class |-> "object", c |-> c, last |-> TRUE,
                        body |-> Bytes(id, 1, c.actual)]
             chunks == [i \in 1 .. n |-> [id |-> id, class |-> "chunk", c |-> c, last |-> i = n,
                                          body |-> ChunkBody(id, c, i - 1)]]
             Good(q) == \A j \in 1 .. Len(q) :
                            /\ Made(q[j]) /\ q[j].id = id /\ q[j].c = c
                            /\ q[j].class = "object" => Len(q) = 1
                            /\ q[j].class = "chunk" => Index(q[j]) = j - 1
  <1>1. puts \in Nat /\ puts + 1 \in Nat /\ todo \in [Senders -> Seq(Sendable)]
    BY DEF SendingTyped
  <1>2. /\ Made(object)
        /\ Chunked(c) =>
             /\ chunks \in Seq(Sendable) /\ Len(chunks) = n
             /\ \A i \in 1 .. n : Made(chunks[i]) /\ Index(chunks[i]) = i - 1
    BY <1>1, PutMade
  <1>3. todo' = [todo EXCEPT ![s] = IF ~Chunked(c) THEN <<object>>
                                    ELSE IF c.throws \/ n > MaxChunks THEN <<>> ELSE chunks]
    BY DEF Put
  <1>4. <<object>> \in Seq(Sendable) /\ Good(<<object>>)
    <2>1. object.id = id /\ object.c = c /\ object.class = "object"
      OBVIOUS
    <2> HIDE DEF object, id
    <2>2. object \in Sendable
      BY <1>2 DEF Made
    <2>3. Len(<<object>>) = 1 /\ <<object>>[1] = object
      OBVIOUS
    <2> QED BY <1>2, <2>1, <2>2, <2>3
  <1>5. Chunked(c) => chunks \in Seq(Sendable) /\ Good(chunks)
    <2> SUFFICES ASSUME Chunked(c) PROVE chunks \in Seq(Sendable) /\ Good(chunks)
      OBVIOUS
    <2>1. \A i \in 1 .. n : chunks[i].id = id /\ chunks[i].c = c /\ chunks[i].class = "chunk"
      <3> HIDE DEF id
      <3> QED OBVIOUS
    <2>2. /\ chunks \in Seq(Sendable) /\ Len(chunks) = n
          /\ \A i \in 1 .. n : Made(chunks[i]) /\ Index(chunks[i]) = i - 1
      BY <1>2
    <2> HIDE DEF chunks, id, n
    <2> QED BY <2>1, <2>2
  <1>6. <<>> \in Seq(Sendable) /\ Good(<<>>)
    OBVIOUS
  <1> HIDE DEF object, chunks, n, Good
  <1>7. PICK q \in Seq(Sendable) : Good(q) /\ todo' = [todo EXCEPT ![s] = q]
    <2>1. CASE ~Chunked(c)
      BY <1>3, <1>4, <2>1
    <2>2. CASE Chunked(c) /\ (c.throws \/ n > MaxChunks)
      <3>1. todo' = [todo EXCEPT ![s] = <<>>]
        BY <1>3, <2>2, Zenon
      <3> QED BY <1>6, <3>1, Zenon
    <2>3. CASE Chunked(c) /\ ~(c.throws \/ n > MaxChunks)
      BY <1>3, <1>5, <2>3
    <2> QED BY <2>1, <2>2, <2>3
  <1>8. /\ todo' \in [Senders -> Seq(Sendable)] /\ todo'[s] = q
        /\ \A r \in Senders : r # s => todo'[r] = todo[r]
    BY <1>1, <1>7
  <1>9. /\ puts < MaxPuts /\ puts' = puts + 1
        /\ UNCHANGED <<mb, wire, closed, mBuffer, mUnchunkers, rx, accepted, delivered>>
    BY DEF Put
  <1>10. Histories'
    BY <1>9 DEF ChannelInv, Histories
  <1>11. OwnIds'
    <2>1. puts' <= MaxPuts
      BY <1>1, <1>9, TransportAssumption
    <2>2. ASSUME NEW r \in Senders, NEW j \in 1 .. Len(todo'[r])
          PROVE  todo'[r][j].id[1] = r /\ todo'[r][j].id[2] \in 1 .. puts'
      <3>1. CASE r = s
        BY <1>1, <1>7, <1>8, <1>9, <3>1 DEF Good
      <3>2. CASE r # s
        <4>1. todo'[r] = todo[r]
          BY <1>8, <3>2
        <4>2. todo[r][j].id[1] = r /\ todo[r][j].id[2] \in 1 .. puts
          BY <4>1 DEF ChannelInv, OwnIds
        <4> QED BY <1>1, <1>9, <4>1, <4>2
      <3> QED BY <3>1, <3>2
    <2> QED BY <2>1, <2>2 DEF OwnIds
  <1>12. Flowing'
    <2> SUFFICES ASSUME rx = "ok" PROVE Flowing'
      BY <1>9 DEF Flowing
    <2>1. PICK Q, P, K, N, cont :
             /\ InFlight(wire, closed, Q, P)
             /\ Flow(Q, K, N, cont, todo, puts, mUnchunkers, accepted, delivered)
      BY DEF ChannelInv, Flowing
    <2> DEFINE cont2 == [cont EXCEPT ![<<s, puts + 1>>] = c]
    <2>2. Flow(Q, K, N, cont2, todo', puts + 1, mUnchunkers, accepted, delivered)
      <3>1. \A j \in 1 .. Len(todo'[s]) :
              /\ Made(todo'[s][j]) /\ todo'[s][j].id = <<s, puts + 1>> /\ todo'[s][j].c = c
              /\ todo'[s][j].class = "object" => Len(todo'[s]) = 1
              /\ todo'[s][j].class = "chunk" => Index(todo'[s][j]) = j - 1
        BY <1>7, <1>8 DEF Good
      <3> QED BY <1>1, <1>8, <2>1, <3>1, FlowPut
    <2> HIDE DEF cont2
    <2>3. Flow(Q, K, N, cont2, todo', puts', mUnchunkers', accepted', delivered') /\ InFlight(wire', closed', Q, P)
      BY <1>9, <2>1, <2>2
    <2> QED BY <2>3 DEF Flowing
  <1> QED BY <1>9, <1>10, <1>11, <1>12 DEF ChannelInv

\* The end of the connection.
LEMMA CutFlows ==
    ASSUME ChannelInv, Cut
    PROVE  ChannelInv' /\ UNCHANGED <<accepted, delivered>>
  <1>1. PICK m \in 0 .. Len(wire) : wire' = SubSeq(wire, 1, m)
    BY DEF Cut
  <1>2. closed' = TRUE /\ UNCHANGED <<todo, puts, mUnchunkers, rx, accepted, delivered>>
    BY DEF Cut
  <1>3. Flowing'
    <2> SUFFICES ASSUME rx = "ok" PROVE Flowing'
      BY <1>2 DEF Flowing
    <2>1. PICK Q, P, K, N, cont :
             /\ InFlight(wire, closed, Q, P)
             /\ Flow(Q, K, N, cont, todo, puts, mUnchunkers, accepted, delivered)
      BY DEF ChannelInv, Flowing
    <2>2. InFlight(wire', closed', Q, P)
      BY <1>1, <1>2, <2>1, InFlightCut
    <2>3. Flow(Q, K, N, cont, todo', puts', mUnchunkers', accepted', delivered')
      BY <1>2, <2>1
    <2> QED BY <2>2, <2>3 DEF Flowing
  <1>4. Histories' /\ OwnIds'
    BY <1>2 DEF ChannelInv, Histories, OwnIds
  <1> QED BY <1>2, <1>3, <1>4 DEF ChannelInv

\* A message behind those accepted leaves them as they are.
LEMMA AcceptedGrows ==
    ASSUME NEW acc \in [Senders -> Seq(AllMessages)], NEW s \in Senders, NEW v \in AllMessages,
           NEW e \in Sendable, NEW k1, NEW k2, NEW m1 \in [Senders -> Nat], NEW m2,
           Counts(e, k1, k2, m1, m2, acc)
    PROVE  Counts(e, k1, k2, m1, m2, [acc EXCEPT ![s] = Append(@, v)])
  <1> DEFINE acc2 == [acc EXCEPT ![s] = Append(@, v)]
             r == e.id[1]
             i == m2[r]
  <1>1. SUFFICES ASSUME e.last PROVE i <= Len(acc2[r]) /\ acc2[r][i] = Message(e.id, e.c)
    BY DEF Counts
  <1>2. r \in Senders /\ i <= Len(acc[r]) /\ acc[r][i] = Message(e.id, e.c)
    BY <1>1 DEF Sendable, Counts
  <1>3. i = m1[r] + 1 /\ i \in Nat \ {0}
    <2>1. m2 = [m1 EXCEPT ![r] = @ + 1]
      BY <1>1 DEF Counts, CountMessage
    <2> HIDE DEF r
    <2> QED BY <1>2, <2>1
  <1> HIDE DEF i, r
  <1>4. acc[r] \in Seq(AllMessages) /\ i \in 1 .. Len(acc[r])
    BY <1>2, <1>3
  <1>5. CASE r = s
    <2>1. acc2[r] = Append(acc[r], v)
      BY <1>2, <1>5
    <2>2. Len(Append(acc[r], v)) = Len(acc[r]) + 1 /\ Append(acc[r], v)[i] = acc[r][i]
      BY <1>4
    <2> QED BY <1>2, <1>3, <1>4, <2>1, <2>2
  <1>6. CASE r # s
    <2>1. acc2[r] = acc[r]
      BY <1>2, <1>6
    <2> QED BY <1>2, <2>1
  <1> QED BY <1>5, <1>6

\* An envelope that is written is the next in flight.
LEMMA FlowWritten ==
    ASSUME NEW Q, NEW K, NEW N, NEW cont, NEW td, NEW p \in Nat, NEW us, NEW acc, NEW del,
           Flow(Q, K, N, cont, td, p, us, acc, del), td \in [Senders -> Seq(Sendable)],
           acc \in [Senders -> Seq(AllMessages)],
           NEW s \in Senders, td[s] # <<>>, NEW e, e = Head(td[s]), e.c.name % NameMod # 0,
           NEW td2, td2 = [td EXCEPT ![s] = Tail(@)],
           NEW acc2, acc2 = IF e.last THEN [acc EXCEPT ![s] = Append(@, Message(e.id, e.c))] ELSE acc
    PROVE  \E K2, N2 : Flow(Append(Q, e), K2, N2, cont, td2, p, us, acc2, del)
  <1> DEFINE n == Len(Q)
             k == CountChunk(e, K[n])
             m == CountMessage(e, N[n])
             K2 == More(K, n, k)
             N2 == More(N, n, m)
             R == Append(Q, e)
  <1>1. /\ Counted(Q, K, N, acc)
        /\ \A i \in 1 .. n : Made(Q[i]) /\ Of(Q[i], p, cont) /\ Q[i].c.name % NameMod # 0
        /\ \A r \in Senders : N[0][r] = Len(del[r]) /\ N[n][r] = Len(acc[r])
        /\ ToSend(td, p, K[n], cont)
        /\ Reassembling(us, p, K[0], cont)
        /\ \A id \in MsgIds : id[2] > p => K[n][id] = 0
        /\ DOMAIN cont = MsgIds
    BY DEF Flow
  <1>2. td[s] \in Seq(Sendable) /\ e = td[s][1] /\ 1 \in 1 .. Len(td[s]) /\ e \in Sendable
    BY DEF Head
  <1>3. /\ Made(e) /\ Of(e, p, cont) /\ e.id[1] = s
        /\ e.class = "object" => Len(td[s]) = 1
        /\ e.class = "chunk" => Index(e) = K[n][e.id]
    <2>1. /\ Made(td[s][1]) /\ Of(td[s][1], p, cont) /\ td[s][1].id[1] = s
          /\ td[s][1].class = "object" => Len(td[s]) = 1
          /\ td[s][1].class = "chunk" => Index(td[s][1]) = K[n][td[s][1].id] + 1 - 1
      BY <1>1, <1>2 DEF ToSend
    <2>2. e.class = "chunk" => Index(e) \in Int
      BY <1>2, <2>1 DEF Made
    <2>3. e.id \in MsgIds /\ n \in 0 .. n /\ K \in [0 .. n -> [MsgIds -> Nat]]
      <3>1. e.id \in MsgIds
        BY <1>2 DEF Sendable, MsgIds
      <3>2. n \in 0 .. n /\ K \in [0 .. n -> [MsgIds -> Nat]]
        BY <1>1 DEF Counted
      <3> QED BY <3>1, <3>2
    <2>4. K[n][e.id] \in Nat
      BY <2>3
    <2> QED BY <1>2, <2>1, <2>4
  <1>4. e.id \in MsgIds /\ e.c \in Contents /\ e.last \in BOOLEAN /\ e.class \in {"object", "chunk"}
    BY <1>2 DEF Sendable, MsgIds
  <1>5. /\ K \in [0 .. n -> [MsgIds -> Nat]] /\ N \in [0 .. n -> [Senders -> Nat]]
        /\ n \in 0 .. n /\ n \in Nat /\ Q \in Seq(Sendable)
    BY <1>1 DEF Counted
  <1>6. K[n] \in [MsgIds -> Nat] /\ N[n] \in [Senders -> Nat]
    <2> HIDE DEF n
    <2> QED BY <1>5
  <1>7. /\ k \in [MsgIds -> Nat]
        /\ \A id \in MsgIds : k[id] = IF e.class = "chunk" /\ id = e.id THEN K[n][id] + 1 ELSE K[n][id]
    <2> HIDE DEF n
    <2>1. CASE e.class = "chunk"
      BY <1>4, <1>6, <2>1 DEF CountChunk
    <2>2. CASE e.class # "chunk"
      BY <1>4, <1>6, <2>2 DEF CountChunk
    <2> QED BY <2>1, <2>2
  <1>8. /\ m \in [Senders -> Nat]
        /\ \A r \in Senders : m[r] = IF e.last /\ r = s THEN N[n][r] + 1 ELSE N[n][r]
    <2> HIDE DEF n
    <2>1. CASE e.last
      <3>1. m = [N[n] EXCEPT ![s] = @ + 1]
        BY <1>3, <2>1 DEF CountMessage
      <3> HIDE DEF m
      <3> QED BY <1>6, <2>1, <3>1
    <2>2. CASE ~e.last
      <3>1. m = N[n]
        BY <2>2 DEF CountMessage
      <3> HIDE DEF m
      <3> QED BY <1>6, <2>2, <3>1
    <2> QED BY <2>1, <2>2
  <1>9. \A r \in Senders : m[r] = Len(acc2[r])
    <2> HIDE DEF m, n
    <2> SUFFICES ASSUME NEW r \in Senders PROVE m[r] = Len(acc2[r])
      OBVIOUS
    <2>1. CASE e.last /\ r = s
      <3>1. acc2[s] = Append(acc[s], Message(e.id, e.c))
        BY <2>1
      <3>2. Len(acc2[s]) = Len(acc[s]) + 1
        BY <3>1
      <3> QED BY <1>1, <1>8, <2>1, <3>2
    <2>2. CASE ~(e.last /\ r = s)
      <3>1. acc2[r] = acc[r]
        BY <2>2
      <3> QED BY <1>1, <1>8, <2>2, <3>1
    <2> QED BY <2>1, <2>2
  <1>10. Counts(e, K[n], k, N[n], m, acc2)
    <2>1. e.last => m[s] <= Len(acc2[s]) /\ acc2[s][m[s]] = Message(e.id, e.c)
      <3> SUFFICES ASSUME e.last PROVE m[s] <= Len(acc2[s]) /\ acc2[s][m[s]] = Message(e.id, e.c)
        OBVIOUS
      <3> HIDE DEF m, n
      <3>1. acc2[s] = Append(acc[s], Message(e.id, e.c))
        OBVIOUS
      <3>2. acc[s] \in Seq(AllMessages) /\ Len(acc2[s]) = Len(acc[s]) + 1
        BY <3>1
      <3>3. acc2[s][Len(acc[s]) + 1] = Message(e.id, e.c)
        BY <3>1, <3>2
      <3>4. m[s] = Len(acc[s]) + 1 /\ m[s] \in Nat
        BY <1>8, <1>9, <3>2
      <3> QED BY <3>2, <3>3, <3>4
    <2> HIDE DEF n
    <2> QED BY <1>3, <2>1 DEF Counts
  <1>11. \A i \in 1 .. n : Counts(Q[i], K[i - 1], K[i], N[i - 1], N[i], acc2)
    <2> SUFFICES ASSUME NEW i \in 1 .. n PROVE Counts(Q[i], K[i - 1], K[i], N[i - 1], N[i], acc2)
      OBVIOUS
    <2>1. Counts(Q[i], K[i - 1], K[i], N[i - 1], N[i], acc)
      BY <1>1 DEF Counted
    <2>2. CASE e.last
      <3>1. Q[i] \in Sendable
        BY <1>5
      <3>2. N[i - 1] \in [Senders -> Nat]
        <4>1. i - 1 \in 0 .. n
          BY <1>5
        <4> HIDE DEF n
        <4> QED BY <1>5, <4>1
      <3>3. Message(e.id, e.c) \in AllMessages
        BY <1>4 DEF AllMessages
      <3> HIDE DEF n
      <3> QED BY <2>1, <2>2, <3>1, <3>2, <3>3, AcceptedGrows
    <2>3. CASE ~e.last
      BY <2>1, <2>3
    <2> QED BY <2>2, <2>3
  <1> HIDE DEF k, m
  <1>12. /\ Counted(R, K2, N2, acc2) /\ Len(R) = n + 1
         /\ K2[0] = K[0] /\ K2[n + 1] = k /\ N2[0] = N[0] /\ N2[n + 1] = m
    <2> HIDE DEF K2, N2, R
    <2>1. /\ Q \in Seq(Sendable)
          /\ K \in [0 .. Len(Q) -> [MsgIds -> Nat]] /\ N \in [0 .. Len(Q) -> [Senders -> Nat]]
      BY <1>5
    <2>2. Continues(Q, K, N, acc2, e, k, m)
      BY <1>2, <1>7, <1>8, <1>10, <1>11, <2>1 DEF Continues
    <2>3. Counted(R, K2, N2, acc2) /\ Continued(Q, R, K, K2, N, N2, k, m)
      BY <2>2, CountedAppended DEF K2, N2, R
    <2> QED BY <2>3 DEF Continued
  <1>13. R[n + 1] = e /\ \A i \in 1 .. n : R[i] = Q[i]
    BY <1>5
  <1> HIDE DEF K2, N2, R, n
  <1>14. ASSUME NEW i \in 1 .. Len(R) PROVE Made(R[i]) /\ Of(R[i], p, cont) /\ R[i].c.name % NameMod # 0
    <2>1. CASE i = n + 1
      BY <1>3, <1>13, <2>1
    <2>2. CASE i # n + 1
      <3>1. i \in 1 .. n
        BY <1>5, <1>12, <2>2
      <3> QED BY <1>1, <1>13, <3>1
    <2> QED BY <2>1, <2>2
  <1>15. \A r \in Senders : N2[0][r] = Len(del[r]) /\ N2[Len(R)][r] = Len(acc2[r])
    BY <1>1, <1>9, <1>12
  <1>16. ToSend(td2, p, k, cont)
    <2> SUFFICES ASSUME NEW r \in Senders, NEW j \in 1 .. Len(td2[r])
                 PROVE  /\ Made(td2[r][j]) /\ Of(td2[r][j], p, cont)
                        /\ td2[r][j].id[1] = r /\ td2[r][j].id = td2[r][1].id
                        /\ td2[r][j].class = "object" => Len(td2[r]) = 1
                        /\ td2[r][j].class = "chunk" => Index(td2[r][j]) = k[td2[r][j].id] + j - 1
      BY DEF ToSend
    <2>0. \A q \in Senders : \A i \in 1 .. Len(td[q]) :
            /\ Made(td[q][i]) /\ Of(td[q][i], p, cont)
            /\ td[q][i].id[1] = q /\ td[q][i].id = td[q][1].id
            /\ td[q][i].class = "object" => Len(td[q]) = 1
            /\ td[q][i].class = "chunk" => Index(td[q][i]) = K[n][td[q][i].id] + i - 1
            /\ td[q][i].id \in MsgIds
      <3>1. \A x : Made(x) => x.id \in MsgIds
        BY DEF Made, Sendable, MsgIds
      <3> QED BY <1>1, <3>1 DEF ToSend
    <2>1. CASE r # s
      <3>1. td2[r] = td[r]
        BY <2>1
      <3>2. td[r][j].id # e.id /\ td[r][j].id \in MsgIds
        BY <1>3, <2>0, <2>1, <3>1
      <3>3. k[td[r][j].id] = K[n][td[r][j].id]
        BY <1>7, <3>2
      <3>4. td2[r][1] = td[r][1] /\ td2[r][j] = td[r][j] /\ j \in 1 .. Len(td[r]) /\ Len(td2[r]) = Len(td[r])
        BY <3>1
      <3>5. /\ Made(td[r][j]) /\ Of(td[r][j], p, cont)
            /\ td[r][j].id[1] = r /\ td[r][j].id = td[r][1].id
            /\ td[r][j].class = "object" => Len(td[r]) = 1
            /\ td[r][j].class = "chunk" => Index(td[r][j]) = K[n][td[r][j].id] + j - 1
        BY <2>0, <3>4, Zenon
      <3> QED BY <3>3, <3>4, <3>5
    <2>2. CASE r = s
      <3>1. td2[s] = Tail(td[s]) /\ Len(td2[s]) = Len(td[s]) - 1
        BY <1>2
      <3>2. \A i \in 1 .. Len(td2[s]) : td2[s][i] = td[s][i + 1] /\ i + 1 \in 1 .. Len(td[s])
        BY <1>2, <3>1
      <3>3. td2[s][j] = td[s][j + 1] /\ j + 1 \in 1 .. Len(td[s]) /\ 1 \in 1 .. Len(td2[s])
        BY <2>2, <3>2
      <3>4. td2[s][1].id = e.id /\ td2[s][j].id = e.id
        <4>1. \A i \in 1 .. Len(td[s]) : td[s][i].id = e.id
          <5>1. \A i \in 1 .. Len(td[s]) : td[s][i].id = td[s][1].id
            BY <2>0, Zenon
          <5>2. td[s][1].id = e.id
            BY <1>2
          <5> QED BY <5>1, <5>2, Zenon
        <4>2. \A i \in 1 .. Len(td2[s]) : td2[s][i].id = e.id
          BY <3>2, <4>1, Zenon
        <4>3. j \in 1 .. Len(td2[s]) /\ 1 \in 1 .. Len(td2[s])
          BY <2>2, <3>3
        <4> QED BY <4>2, <4>3, Zenon
      <3>0. Len(td[s]) # 1
        <4>1. Len(td[s]) \in Nat /\ j \in 1 .. Len(td[s]) - 1
          BY <1>2, <2>2, <3>1
        <4> DEFINE l == Len(td[s])
        <4> HIDE DEF l
        <4>2. l \in Nat /\ j \in 1 .. l - 1
          BY <4>1 DEF l
        <4>3. l # 1
          BY <4>2
        <4> QED BY <4>3 DEF l
      <3>5. e.class = "chunk"
        <4>1. e.class # "object"
          BY <1>3, <3>0
        <4> QED BY <1>4, <4>1
      <3>6. td2[s][j].class # "object"
        <4>1. td[s][j + 1].class = "object" => Len(td[s]) = 1
          BY <2>0, <3>3, Zenon
        <4> QED BY <3>0, <3>3, <4>1
      <3>7. k[e.id] = K[n][e.id] + 1 /\ K[n][e.id] \in Nat
        BY <1>4, <1>6, <1>7, <3>5
      <3>8. td2[s][j].class = "chunk" => Index(td2[s][j]) = k[e.id] + j - 1
        <4>1. td2[s][j].class = "chunk" => Index(td2[s][j]) = K[n][e.id] + (j + 1) - 1
          <5>1. td[s][j + 1].class = "chunk" => Index(td[s][j + 1]) = K[n][td[s][j + 1].id] + (j + 1) - 1
            BY <2>0, <3>3, Zenon
          <5> QED BY <3>3, <3>4, <5>1
        <4> QED BY <2>2, <3>7, <4>1
      <3> QED BY <2>0, <2>2, <3>3, <3>4, <3>6, <3>8
    <2> QED BY <2>1, <2>2
  <1>17. \A id \in MsgIds : id[2] > p => k[id] = 0
    <2> SUFFICES ASSUME NEW id \in MsgIds, id[2] > p PROVE k[id] = 0
      OBVIOUS
    <2>1. id # e.id
      BY <1>3, <1>4 DEF Of, MsgIds
    <2> QED BY <1>1, <1>7, <2>1
  <1>18. Flow(R, K2, N2, cont, td2, p, us, acc2, del)
    BY <1>1, <1>12, <1>14, <1>15, <1>16, <1>17 DEF Flow
  <1> QED BY <1>18 DEF R

\* A message whose rest is given up.
LEMMA FlowGivenUp ==
    ASSUME NEW Q, NEW K, NEW N, NEW cont, NEW td, NEW p, NEW us, NEW acc, NEW del,
           Flow(Q, K, N, cont, td, p, us, acc, del), td \in [Senders -> Seq(Sendable)],
           NEW s \in Senders, NEW td2, td2 = [td EXCEPT ![s] = <<>>]
    PROVE  Flow(Q, K, N, cont, td2, p, us, acc, del)
  <1>1. td2[s] = <<>> /\ \A r \in Senders : r # s => td2[r] = td[r]
    OBVIOUS
  <1>2. ToSend(td2, p, K[Len(Q)], cont)
    BY <1>1 DEF Flow, ToSend
  <1> QED BY <1>2 DEF Flow

\* What a write puts on the wire is the frame of the envelope, or nothing.
LEMMA Written ==
    ASSUME SendingTyped, closed \in BOOLEAN, NEW s \in Senders, WriteEnvelope(s), NEW e, e = Head(todo[s])
    PROVE  /\ e \in Sendable /\ todo[s] # <<>> /\ UNCHANGED <<puts, closed, mUnchunkers, rx, delivered>>
           /\ \/ /\ e.c.name % NameMod # 0 /\ closed = FALSE
                 /\ wire' = wire \o Frame(e)
                 /\ todo' = [todo EXCEPT ![s] = Tail(@)]
                 /\ accepted' = IF e.last THEN [accepted EXCEPT ![s] = Append(@, Message(e.id, e.c))]
                                ELSE accepted
              \/ /\ todo' = [todo EXCEPT ![s] = <<>>]
                 /\ UNCHANGED <<wire, accepted>>
  <1> DEFINE throws == e.c.throws /\ e.class = "object"
             buffered == IF e.c.name % NameMod = 0 THEN <<>>
                         ELSE <<Envelope(e)>> \o (IF e.c.opaque THEN <<>>
                                                  ELSE IF throws THEN Half(e.body) ELSE e.body)
             sink == Write(OpenFrame(mb[s]), buffered)
             frame == Used(sink) \o (IF e.c.opaque THEN e.body ELSE <<>>)
             Multi == [bufs : Seq(Seq(TokenSet)), used : Nat]
             sent == e.c.name % NameMod # 0 /\ ~throws /\ FitsFrame(frame) /\ ~closed
  <1>1. todo[s] \in Seq(Sendable) /\ todo[s] # <<>> /\ mb[s] \in Multi
    BY DEF SendingTyped, WriteEnvelope
  <1>2. e \in Sendable
    BY <1>1
  <1>3. /\ IF sent
           THEN /\ wire' = wire \o Framed(frame)
                /\ todo' = [todo EXCEPT ![s] = Tail(@)]
                /\ accepted' = IF e.last THEN [accepted EXCEPT ![s] = Append(@, Message(e.id, e.c))]
                               ELSE accepted
           ELSE /\ todo' = [todo EXCEPT ![s] = <<>>]
                /\ wire' = wire /\ accepted' = accepted
        /\ UNCHANGED <<puts, closed, mUnchunkers, rx, delivered>>
    <2> HIDE DEF Multi
    <2> QED BY DEF WriteEnvelope
  <1>4. buffered \in Seq(TokenSet)
    <2>1. <<Envelope(e)>> \in Seq(TokenSet) /\ e.body \in Seq(TokenSet) /\ Half(e.body) \in Seq(TokenSet)
      BY <1>2, EnvelopesContained
    <2> QED BY <2>1
  <1> HIDE DEF buffered
  <1>5. Used(sink) = buffered
    <2>1. OpenFrame(mb[s]) \in [bufs : Seq(Seq(TokenSet)), used : {0}]
      BY <1>1 DEF OpenFrame
    <2> QED BY <1>4, <2>1, WriteHolds
  <1> HIDE DEF sink
  <1>6. sent => Framed(frame) = Frame(e)
    <2> SUFFICES ASSUME sent PROVE frame = <<Envelope(e)>> \o e.body
      BY DEF Frame
    <2>1. <<Envelope(e)>> \in Seq(TokenSet) /\ e.body \in Seq(TokenSet)
      BY <1>2, EnvelopesContained
    <2>2. CASE e.c.opaque
      BY <1>5, <2>1, <2>2 DEF buffered
    <2>3. CASE ~e.c.opaque
      <3> DEFINE both == <<Envelope(e)>> \o e.body
      <3>1. e.c.name % NameMod # 0 /\ ~throws
        OBVIOUS
      <3>2. buffered = both
        BY <2>3, <3>1 DEF buffered
      <3>3. frame = Used(sink) \o <<>>
        BY <2>3
      <3>4. Used(sink) = both /\ both \in Seq(TokenSet)
        BY <1>5, <2>1, <3>2
      <3> HIDE DEF both, frame
      <3>5. both \o <<>> = both
        BY <3>4
      <3> QED BY <3>3, <3>4, <3>5 DEF both
    <2> QED BY <2>2, <2>3
  <1>7. sent => e.c.name % NameMod # 0 /\ closed = FALSE
    OBVIOUS
  <1> HIDE DEF sent, frame
  <1> QED BY <1>1, <1>2, <1>3, <1>6, <1>7

\* What a step adds to the histories of a sender.
Accepts(s) ==
    /\ UNCHANGED delivered
    /\ \/ UNCHANGED accepted
       \/ \E k \in 1 .. MaxPuts, c \in Contents :
             accepted' = [accepted EXCEPT ![s] = Append(@, Message(<<s, k>>, c))]

\* Writing an envelope.
LEMMA WriteFlows ==
    ASSUME SendingTyped, closed \in BOOLEAN, ChannelInv, NEW s \in Senders, WriteEnvelope(s)
    PROVE  ChannelInv' /\ Accepts(s)
  <1> DEFINE e == Head(todo[s])
             sent == /\ e.c.name % NameMod # 0 /\ closed = FALSE
                     /\ wire' = wire \o Frame(e)
                     /\ todo' = [todo EXCEPT ![s] = Tail(@)]
                     /\ accepted' = IF e.last THEN [accepted EXCEPT ![s] = Append(@, Message(e.id, e.c))]
                                    ELSE accepted
             lost == /\ todo' = [todo EXCEPT ![s] = <<>>]
                     /\ UNCHANGED <<wire, accepted>>
  <1>1. /\ e \in Sendable /\ todo[s] # <<>> /\ UNCHANGED <<puts, closed, mUnchunkers, rx, delivered>>
        /\ sent \/ lost
    BY Written
  <1>2. /\ todo \in [Senders -> Seq(Sendable)] /\ puts \in Nat
        /\ accepted \in [Senders -> Seq(AllMessages)] /\ delivered \in [Senders -> Seq(AllMessages)]
    BY DEF SendingTyped, ChannelInv, Histories
  <1>3. e = todo[s][1] /\ 1 \in 1 .. Len(todo[s])
    BY <1>1, <1>2
  <1>4. e.id[1] = s /\ e.id[2] \in 1 .. puts /\ puts <= MaxPuts
    BY <1>3 DEF ChannelInv, OwnIds
  <1>5. Message(e.id, e.c) \in AllMessages /\ e.c \in Contents
    BY <1>1 DEF AllMessages, Sendable, MsgIds
  <1>6. e.id = <<s, e.id[2]>> /\ e.id[2] \in 1 .. MaxPuts
    <2>1. e.id \in Senders \X Nat
      BY <1>1 DEF Sendable
    <2>2. e.id = <<e.id[1], e.id[2]>>
      BY <2>1
    <2>3. e.id[2] \in 1 .. MaxPuts
      BY <1>2, <1>4, TransportAssumption
    <2> QED BY <1>4, <2>2, <2>3
  <1> HIDE DEF e
  <1>7. CASE sent
    <2>1. Accepts(s)
      <3>1. CASE e.last
        <4>1. accepted' = [accepted EXCEPT ![s] = Append(@, Message(<<s, e.id[2]>>, e.c))]
          BY <1>6, <1>7, <3>1
        <4> QED BY <1>1, <1>5, <1>6, <4>1 DEF Accepts
      <3>2. CASE ~e.last
        BY <1>1, <1>7, <3>2 DEF Accepts
      <3> QED BY <3>1, <3>2
    <2>2. Histories'
      <3>1. accepted' \in [Senders -> Seq(AllMessages)]
        <4>1. CASE e.last
          <5>1. accepted' = [accepted EXCEPT ![s] = Append(@, Message(e.id, e.c))]
            BY <1>7, <4>1
          <5> QED BY <1>2, <1>5, <5>1
        <4>2. CASE ~e.last
          BY <1>2, <1>7, <4>2
        <4> QED BY <4>1, <4>2
      <3> QED BY <1>1, <1>2, <3>1 DEF Histories
    <2>3. OwnIds'
      <3>1. todo'[s] = Tail(todo[s]) /\ \A r \in Senders : r # s => todo'[r] = todo[r]
        BY <1>2, <1>7
      <3>2. ASSUME NEW r \in Senders, NEW j \in 1 .. Len(todo'[r])
            PROVE  todo'[r][j].id[1] = r /\ todo'[r][j].id[2] \in 1 .. puts
        <4>1. CASE r = s
          <5>1. todo'[s][j] = todo[s][j + 1] /\ j + 1 \in 1 .. Len(todo[s])
            BY <1>1, <1>2, <3>1, <4>1
          <5> QED BY <4>1, <5>1 DEF ChannelInv, OwnIds
        <4>2. CASE r # s
          BY <3>1, <4>2 DEF ChannelInv, OwnIds
        <4> QED BY <4>1, <4>2
      <3> QED BY <1>1, <1>4, <3>2 DEF OwnIds
    <2>4. Flowing'
      <3> SUFFICES ASSUME rx = "ok" PROVE Flowing'
        BY <1>1 DEF Flowing
      <3>1. PICK Q, P, K, N, cont :
               /\ InFlight(wire, closed, Q, P)
               /\ Flow(Q, K, N, cont, todo, puts, mUnchunkers, accepted, delivered)
        BY DEF ChannelInv, Flowing
      <3>2. InFlight(wire', closed', Append(Q, e), More(P, Len(Q), P[Len(Q)] + Len(Frame(e))))
        <4>1. InFlight(wire, FALSE, Q, P)
          BY <1>7, <3>1
        <4>2. InFlight(wire \o Frame(e), FALSE, Append(Q, e), More(P, Len(Q), P[Len(Q)] + Len(Frame(e))))
          BY <1>1, <4>1, InFlightAppended
        <4> QED BY <1>1, <1>7, <4>2
      <3>3. PICK K2, N2 : Flow(Append(Q, e), K2, N2, cont, todo', puts, mUnchunkers, accepted', delivered)
        <4>1. /\ todo' = [todo EXCEPT ![s] = Tail(@)]
              /\ accepted' = IF e.last THEN [accepted EXCEPT ![s] = Append(@, Message(e.id, e.c))]
                             ELSE accepted
          BY <1>7
        <4>2. e = Head(todo[s]) /\ e.c.name % NameMod # 0
          BY <1>7 DEF e
        <4>3. /\ puts \in Nat /\ s \in Senders /\ todo[s] # <<>>
              /\ Flow(Q, K, N, cont, todo, puts, mUnchunkers, accepted, delivered)
              /\ todo \in [Senders -> Seq(Sendable)] /\ accepted \in [Senders -> Seq(AllMessages)]
          BY <1>1, <1>2, <3>1
        <4> DEFINE td2 == todo'
                   acc2 == accepted'
        <4>4. /\ td2 = [todo EXCEPT ![s] = Tail(@)]
              /\ acc2 = IF e.last THEN [accepted EXCEPT ![s] = Append(@, Message(e.id, e.c))]
                        ELSE accepted
          BY <4>1
        <4> HIDE DEF td2, acc2
        <4>5. \E K2, N2 : Flow(Append(Q, e), K2, N2, cont, td2, puts, mUnchunkers, acc2, delivered)
          BY <4>2, <4>3, <4>4, FlowWritten, Zenon
        <4> QED BY <4>5 DEF td2, acc2
      <3>4. Flow(Append(Q, e), K2, N2, cont, todo', puts', mUnchunkers', accepted', delivered')
        BY <1>1, <3>3
      <3> QED BY <3>2, <3>4 DEF Flowing
    <2> QED BY <2>1, <2>2, <2>3, <2>4 DEF ChannelInv
  <1>8. CASE lost
    <2>1. Accepts(s)
      BY <1>1, <1>8 DEF Accepts
    <2>2. Histories'
      BY <1>1, <1>2, <1>8 DEF Histories
    <2>3. OwnIds'
      <3>1. todo'[s] = <<>> /\ \A r \in Senders : r # s => todo'[r] = todo[r]
        BY <1>2, <1>8
      <3>2. ASSUME NEW r \in Senders, NEW j \in 1 .. Len(todo'[r])
            PROVE  todo'[r][j].id[1] = r /\ todo'[r][j].id[2] \in 1 .. puts
        BY <3>1 DEF ChannelInv, OwnIds
      <3> QED BY <1>1, <1>4, <3>2 DEF OwnIds
    <2>4. Flowing'
      <3> SUFFICES ASSUME rx = "ok" PROVE Flowing'
        BY <1>1 DEF Flowing
      <3>1. PICK Q, P, K, N, cont :
               /\ InFlight(wire, closed, Q, P)
               /\ Flow(Q, K, N, cont, todo, puts, mUnchunkers, accepted, delivered)
        BY DEF ChannelInv, Flowing
      <3>2. Flow(Q, K, N, cont, todo', puts, mUnchunkers, accepted, delivered)
        BY <1>2, <1>8, <3>1, FlowGivenUp
      <3>3. Flow(Q, K, N, cont, todo', puts', mUnchunkers', accepted', delivered') /\ InFlight(wire', closed', Q, P)
        BY <1>1, <1>8, <3>1, <3>2
      <3> QED BY <3>3 DEF Flowing
    <2> QED BY <2>1, <2>2, <2>3, <2>4 DEF ChannelInv
  <1> QED BY <1>1, <1>7, <1>8

\* The first envelope in flight: its chunk, or its message, is its sender's next.
IsFirst(e, K, N, cont, p, acc, del) ==
    /\ Made(e) /\ Of(e, p, cont) /\ e.c.name % NameMod # 0
    /\ K[0] \in [MsgIds -> Nat] /\ K[1] = CountChunk(e, K[0])
    /\ e.class = "chunk" => Index(e) = K[0][e.id]
    /\ N[0] \in [Senders -> Nat] /\ N[1] = CountMessage(e, N[0])
    /\ \A s \in Senders : N[0][s] = Len(del[s])
    /\ e.last => /\ Len(del[e.id[1]]) < Len(acc[e.id[1]])
                 /\ acc[e.id[1]][Len(del[e.id[1]]) + 1] = Message(e.id, e.c)

\* What is known of the first envelope in flight.
LEMMA FlowHead ==
    ASSUME NEW Q, NEW K, NEW N, NEW cont, NEW td, NEW p, NEW us, NEW acc, NEW del,
           Flow(Q, K, N, cont, td, p, us, acc, del), Q # <<>>, NEW e, e = Q[1]
    PROVE  IsFirst(e, K, N, cont, p, acc, del)
  <1>1. /\ Counted(Q, K, N, acc) /\ \A s \in Senders : N[0][s] = Len(del[s])
        /\ \A i \in 1 .. Len(Q) : Made(Q[i]) /\ Of(Q[i], p, cont) /\ Q[i].c.name % NameMod # 0
    BY DEF Flow
  <1>2. /\ Counts(e, K[0], K[1], N[0], N[1], acc) /\ e \in Sendable
        /\ K[0] \in [MsgIds -> Nat] /\ N[0] \in [Senders -> Nat]
    BY <1>1, CountedTaken
  <1>3. 1 \in 1 .. Len(Q)
    BY <1>1 DEF Counted
  <1>4. e.last => /\ Len(del[e.id[1]]) < Len(acc[e.id[1]])
                  /\ acc[e.id[1]][Len(del[e.id[1]]) + 1] = Message(e.id, e.c)
    <2> SUFFICES ASSUME e.last
                 PROVE  /\ Len(del[e.id[1]]) < Len(acc[e.id[1]])
                        /\ acc[e.id[1]][Len(del[e.id[1]]) + 1] = Message(e.id, e.c)
      OBVIOUS
    <2> DEFINE s == e.id[1]
    <2>1. s \in Senders
      BY <1>2 DEF Sendable
    <2>2. N[1] = [N[0] EXCEPT ![s] = @ + 1]
      BY <1>2 DEF Counts, CountMessage
    <2>3. N[1][s] <= Len(acc[s]) /\ acc[s][N[1][s]] = Message(e.id, e.c)
      BY <1>2 DEF Counts
    <2> HIDE DEF s
    <2>4. N[1][s] = N[0][s] + 1 /\ N[0][s] = Len(del[s]) /\ N[0][s] \in Nat
      BY <1>1, <1>2, <2>1, <2>2
    <2>5. Len(acc[s]) \in Nat
      BY <1>1, <2>1 DEF Flow, Counted
    <2> QED BY <2>3, <2>4, <2>5 DEF s
  <1>5. /\ K[1] = CountChunk(e, K[0]) /\ N[1] = CountMessage(e, N[0])
        /\ e.class = "chunk" => Index(e) = K[0][e.id]
    BY <1>2 DEF Counts
  <1>6. Made(e) /\ Of(e, p, cont) /\ e.c.name % NameMod # 0
    BY <1>1, <1>3
  <1> QED BY <1>1, <1>2, <1>4, <1>5, <1>6, Zenon DEF IsFirst

\* What is in flight when it has been read.
LEMMA FlowTaken ==
    ASSUME NEW Q, NEW K, NEW N, NEW cont, NEW td, NEW p, NEW us, NEW acc, NEW del,
           Flow(Q, K, N, cont, td, p, us, acc, del), Q # <<>>,
           NEW us2, Reassembling(us2, p, K[1], cont),
           NEW del2, \A s \in Senders : N[1][s] = Len(del2[s])
    PROVE  Flow(Tail(Q), Later(K, Len(Q)), Later(N, Len(Q)), cont, td, p, us2, acc, del2)
  <1> DEFINE n == Len(Q)
             R == Tail(Q)
             K2 == Later(K, n)
             N2 == Later(N, n)
  <1>1. /\ Counted(Q, K, N, acc)
        /\ \A i \in 1 .. n : Made(Q[i]) /\ Of(Q[i], p, cont) /\ Q[i].c.name % NameMod # 0
        /\ \A r \in Senders : N[n][r] = Len(acc[r])
        /\ ToSend(td, p, K[n], cont)
        /\ \A id \in MsgIds : id[2] > p => K[n][id] = 0
        /\ DOMAIN cont = MsgIds
    BY DEF Flow
  <1>2. /\ Counted(R, K2, N2, acc) /\ Len(R) = n - 1
        /\ \A i \in 1 .. n - 1 : R[i] = Q[i + 1] /\ i + 1 \in 1 .. n
        /\ K2[0] = K[1] /\ K2[n - 1] = K[n] /\ N2[0] = N[1] /\ N2[n - 1] = N[n]
    BY <1>1, CountedTaken
  <1> HIDE DEF n, R, K2, N2
  <1>3. \A i \in 1 .. Len(R) : Made(R[i]) /\ Of(R[i], p, cont) /\ R[i].c.name % NameMod # 0
    BY <1>1, <1>2
  <1>4. Flow(R, K2, N2, cont, td, p, us2, acc, del2)
    BY <1>1, <1>2, <1>3 DEF Flow
  <1> QED BY <1>4 DEF n, R, K2, N2

\* What the receiver reads of an envelope.
LEMMA Received ==
    ASSUME NEW e, Made(e), NEW data, data = <<Envelope(e)>> \o e.body
    PROVE  /\ data[1].id = e.id /\ data[1].n = e.c.name % NameMod
           /\ e.class = "object" =>
                data[1].num = 0 /\ data[1].known = e.c.known /\ Tail(data) = Bytes(e.id, 1, e.c.actual)
           /\ e.class = "chunk" =>
                /\ data[1].num = 1 /\ data[1].known = TRUE
                /\ data[2] = ChunkHead(e.id, e.c, Index(e))
                /\ SubSeq(data, 3, Len(data)) = Payload(e.id, e.c, Index(e))
  <1> DEFINE head == Envelope(e)
  <1>1. e \in Sendable
    BY DEF Made
  <1>2. <<head>> \in Seq(TokenSet) /\ e.body \in Seq(TokenSet)
    BY <1>1, EnvelopesContained
  <1>3. e.id \in MsgIds /\ e.c \in Contents /\ e.c.known \in BOOLEAN
    BY <1>1, ContentTyped DEF Sendable, MsgIds
  <1>4. /\ head.id = e.id /\ head.n = e.c.name % NameMod
        /\ head.num = (IF e.class = "chunk" THEN 1 ELSE 0)
        /\ head.known = (e.c.known \/ e.class = "chunk")
    BY DEF Envelope, Token
  <1> HIDE DEF head
  <1>5. head \in TokenSet
    <2>1. <<head>>[1] \in TokenSet
      BY <1>2
    <2> QED BY <2>1
  <1>6. data = <<head>> \o e.body
    BY DEF head
  <1>7. /\ data \in Seq(TokenSet) /\ Len(data) = Len(e.body) + 1 /\ data[1] = head
        /\ \A i \in 1 .. Len(e.body) : data[i + 1] = e.body[i]
    BY <1>2, <1>5, <1>6
  <1>8. ASSUME e.class = "object"
        PROVE  data[1].num = 0 /\ data[1].known = e.c.known /\ Tail(data) = Bytes(e.id, 1, e.c.actual)
    <2>1. head.num = 0
      BY <1>4, <1>8
    <2>2. head.known = (e.c.known \/ FALSE)
      BY <1>4, <1>8
    <2>3. head.known = e.c.known
      BY <1>3, <2>2
    <2>4. Tail(data) = e.body
      BY <1>2, <1>5, <1>6
    <2> QED BY <1>7, <1>8, <2>1, <2>3, <2>4 DEF Made
  <1>9. ASSUME e.class = "chunk"
        PROVE  /\ data[1].num = 1 /\ data[1].known = TRUE
               /\ data[2] = ChunkHead(e.id, e.c, Index(e))
               /\ SubSeq(data, 3, Len(data)) = Payload(e.id, e.c, Index(e))
    <2> DEFINE i == Index(e)
               first == ChunkHead(e.id, e.c, i)
               rest == Payload(e.id, e.c, i)
               q == SubSeq(data, 3, Len(data))
    <2>1. i \in Nat /\ i < NumChunks(e.c) /\ e.body = ChunkBody(e.id, e.c, i)
      <3>1. i \in 0 .. NumChunks(e.c) - 1 /\ e.body = ChunkBody(e.id, e.c, i)
        BY <1>9 DEF Made
      <3>2. NumChunks(e.c) \in Nat
        BY <1>3, ChunkCount
      <3> HIDE DEF i
      <3> QED BY <3>1, <3>2
    <2> HIDE DEF i
    <2>2. e.body = <<first>> \o rest /\ rest \in Seq(TokenSet) /\ first \in TokenSet
      BY <1>3, <2>1, ChunkParts
    <2> HIDE DEF first, rest
    <2>3. /\ Len(e.body) = Len(rest) + 1 /\ e.body[1] = first /\ Len(rest) \in Nat
          /\ \A j \in 1 .. Len(rest) : e.body[j + 1] = rest[j]
      BY <2>2
    <2>4. /\ data[2] = first /\ Len(data) = Len(rest) + 2
          /\ \A j \in 1 .. Len(rest) : data[j + 2] = rest[j]
      <3>1. 1 \in 1 .. Len(e.body) /\ \A j \in 1 .. Len(rest) : j + 1 \in 1 .. Len(e.body) /\ (j + 1) + 1 = j + 2
        BY <2>3
      <3>2. data[1 + 1] = first
        BY <1>7, <2>3, <3>1
      <3>3. Len(data) = Len(rest) + 2
        BY <1>7, <2>3
      <3>4. ASSUME NEW j \in 1 .. Len(rest) PROVE data[j + 2] = rest[j]
        <4>1. data[(j + 1) + 1] = e.body[j + 1]
          BY <1>7, <3>1
        <4> QED BY <2>3, <3>1, <4>1
      <3> QED BY <3>2, <3>3, <3>4
    <2>5. /\ q \in Seq(TokenSet) /\ Len(q) = Len(rest)
          /\ \A j \in 1 .. Len(rest) : q[j] = data[j + 2]
      <3>1. \A j \in 3 .. Len(data) : data[j] \in TokenSet
        BY <1>7
      <3>2. 3 \in Nat /\ Len(data) \in Nat /\ 3 <= Len(data) + 1
        BY <2>3, <2>4
      <3>3. /\ q \in Seq(TokenSet) /\ Len(q) = Len(data) - 3 + 1
            /\ \A j \in 1 .. Len(data) - 3 + 1 : q[j] = data[3 + j - 1]
        <4> HIDE DEF q
        <4> QED BY <3>1, <3>2, SubSeqProperties DEF q
      <3> HIDE DEF q
      <3>4. Len(data) - 3 + 1 = Len(rest) /\ \A j \in 1 .. Len(rest) : 3 + j - 1 = j + 2
        BY <2>3, <2>4
      <3> QED BY <3>3, <3>4
    <2> HIDE DEF q
    <2>6. q = rest
      BY <2>2, <2>4, <2>5, SeqEqual
    <2>7. head.num = 1
      BY <1>4, <1>9
    <2>8. head.known = TRUE
      BY <1>4, <1>9
    <2> QED BY <1>7, <2>4, <2>6, <2>7, <2>8 DEF q, first, rest, i
  <1> QED BY <1>4, <1>7, <1>8, <1>9

\* The names that can be told from their length modulo NameMod: those that fit, and
\* those that MessageWriter refuses.
NamesFit == \A c \in Contents : c.name % NameMod \in {0, c.name}

Delivers(s) ==
    /\ UNCHANGED accepted
    /\ Len(delivered[s]) < Len(accepted[s])
    /\ delivered' = [delivered EXCEPT ![s] = Append(@, accepted[s][Len(delivered[s]) + 1])]

\* getEnvelope returns the next message of its sender; m counts those delivered.
ReturnsNext(e, env, m) ==
    /\ Made(e) /\ e.c.name % NameMod # 0
    /\ env.id = e.id /\ env.n = e.c.name % NameMod /\ env.known = e.c.known
    /\ Return(env, Bytes(e.id, 1, e.c.actual)) /\ UNCHANGED accepted
    /\ Len(delivered[e.id[1]]) < Len(accepted[e.id[1]])
    /\ accepted[e.id[1]][Len(delivered[e.id[1]]) + 1] = Message(e.id, e.c)
    /\ m \in [Senders -> Nat] /\ \A s \in Senders : m[s] = Len(delivered[s])

\* m2 counts the messages delivered after the step.
CountsDelivered(m2) == \A s \in Senders : m2[s] = Len(delivered'[s])

\* What getEnvelope returns is the oldest message its sender has not had delivered.
LEMMA ReturnDelivers ==
    ASSUME NamesFit, Histories, NEW e, NEW env, NEW m, ReturnsNext(e, env, m)
    PROVE  /\ \E s \in Senders : Delivers(s)
           /\ Histories'
           /\ CountsDelivered([m EXCEPT ![e.id[1]] = @ + 1])
  <1> DEFINE r == e.id[1]
             v == Message(e.id, e.c)
  <1>0. /\ Made(e) /\ e.c.name % NameMod # 0
        /\ env.id = e.id /\ env.n = e.c.name % NameMod /\ env.known = e.c.known
        /\ Return(env, Bytes(e.id, 1, e.c.actual)) /\ UNCHANGED accepted
        /\ m \in [Senders -> Nat] /\ \A s \in Senders : m[s] = Len(delivered[s])
    BY DEF ReturnsNext
  <1>1. r \in Senders /\ e.id \in MsgIds /\ e.c \in Contents
    BY <1>0 DEF Made, Sendable, MsgIds
  <1>2. env.n = e.c.name
    BY <1>0, <1>1 DEF NamesFit
  <1>3. delivered' = [delivered EXCEPT ![r] = Append(@, v)]
    BY <1>0, <1>2 DEF Return, Message
  <1>4. v \in AllMessages
    BY <1>1 DEF AllMessages
  <1>5. accepted[r][Len(delivered[r]) + 1] = v /\ Len(delivered[r]) < Len(accepted[r])
    BY DEF ReturnsNext
  <1> HIDE DEF r, v
  <1>6. Histories'
    <2>1. delivered' \in [Senders -> Seq(AllMessages)]
      BY <1>1, <1>3, <1>4 DEF Histories
    <2> QED BY <1>0, <2>1 DEF Histories
  <1>7. Delivers(r)
    BY <1>0, <1>3, <1>5 DEF Delivers
  <1>8. \A s \in Senders : [m EXCEPT ![r] = @ + 1][s] = Len(delivered'[s])
    <2> SUFFICES ASSUME NEW s \in Senders PROVE [m EXCEPT ![r] = @ + 1][s] = Len(delivered'[s])
      OBVIOUS
    <2>1. CASE s = r
      <3>1. delivered'[s] = Append(delivered[s], v) /\ delivered[s] \in Seq(AllMessages)
        BY <1>3, <2>1 DEF Histories
      <3>2. Len(delivered'[s]) = Len(delivered[s]) + 1
        BY <1>4, <3>1
      <3>3. [m EXCEPT ![r] = @ + 1][s] = m[s] + 1 /\ m[s] = Len(delivered[s])
        BY <1>0, <2>1
      <3> QED BY <3>2, <3>3
    <2>2. CASE s # r
      BY <1>0, <1>3, <2>2 DEF Histories
    <2> QED BY <2>1, <2>2
  <1> QED BY <1>1, <1>6, <1>7, <1>8 DEF r, CountsDelivered

\* A message that was not chunked is read.
LEMMA ObjectRead ==
    ASSUME NamesFit, Histories, NEW Q, NEW K, NEW N, NEW cont,
           Flow(Q, K, N, cont, todo, puts, mUnchunkers, accepted, delivered), Q # <<>>,
           NEW e, e = Q[1], e.class = "object", NEW data, data = <<Envelope(e)>> \o e.body,
           GetObject(data), UNCHANGED <<todo, puts, accepted>>
    PROVE  /\ \E s \in Senders : Delivers(s)
           /\ Histories' /\ rx' = rx
           /\ Flow(Tail(Q), Later(K, Len(Q)), Later(N, Len(Q)), cont, todo', puts', mUnchunkers',
                   accepted', delivered')
  <1>1. /\ Made(e) /\ Of(e, puts, cont) /\ e.c.name % NameMod # 0
        /\ K[1] = CountChunk(e, K[0])
        /\ N[0] \in [Senders -> Nat] /\ N[1] = CountMessage(e, N[0])
        /\ \A s \in Senders : N[0][s] = Len(delivered[s])
        /\ e.last => /\ Len(delivered[e.id[1]]) < Len(accepted[e.id[1]])
                     /\ accepted[e.id[1]][Len(delivered[e.id[1]]) + 1] = Message(e.id, e.c)
    <2>1. IsFirst(e, K, N, cont, puts, accepted, delivered)
      BY FlowHead
    <2> QED BY <2>1, Zenon DEF IsFirst
  <1>2. e.last
    BY <1>1 DEF Made
  <1>3. /\ data[1].id = e.id /\ data[1].n = e.c.name % NameMod /\ data[1].known = e.c.known
        /\ Tail(data) = Bytes(e.id, 1, e.c.actual)
    <2>1. Made(e) /\ data = <<Envelope(e)>> \o e.body /\ e.class = "object"
      BY <1>1, Zenon
    <2> QED BY <2>1, Received, Zenon
  <1>4. UNCHANGED <<mUnchunkers, rx>> /\ Return(data[1], Bytes(e.id, 1, e.c.actual))
    BY <1>3 DEF GetObject
  <1>5. /\ \E s \in Senders : Delivers(s)
        /\ Histories' /\ CountsDelivered([N[0] EXCEPT ![e.id[1]] = @ + 1])
    <2>1. ReturnsNext(e, data[1], N[0])
      BY <1>1, <1>2, <1>3, <1>4 DEF ReturnsNext
    <2> QED BY <2>1, ReturnDelivers
  <1>6. K[1] = K[0]
    BY <1>1 DEF CountChunk
  <1>7. Reassembling(mUnchunkers, puts, K[1], cont)
    BY <1>6 DEF Flow
  <1>8. \A s \in Senders : N[1][s] = Len(delivered'[s])
    BY <1>1, <1>2, <1>5 DEF CountMessage, CountsDelivered
  <1>9. Flow(Tail(Q), Later(K, Len(Q)), Later(N, Len(Q)), cont, todo, puts, mUnchunkers,
             accepted, delivered')
    BY <1>7, <1>8, FlowTaken
  <1> QED BY <1>4, <1>5, <1>9

\* A chunk is added to the message id of the table.
TakesChunk(us, p, k, cont, id, k2, all) ==
    /\ k \in [MsgIds -> Nat] /\ Reassembling(us, p, k, cont)
    /\ id \in MsgIds /\ id[2] <= p /\ cont[id] \in Contents /\ k[id] < NumChunks(cont[id])
    /\ k2 = [k EXCEPT ![id] = @ + 1]
    /\ all = [i \in DOMAIN us \cup {id} |->
                IF i = id THEN Progress(id, cont[id], k[id] + 1) ELSE us[i]]

\* The table after a chunk: its message has one chunk more, or is done with.
LEMMA ReassemblingGoesOn ==
    ASSUME NEW us, NEW p, NEW k, NEW cont, NEW id, NEW k2, NEW all,
           TakesChunk(us, p, k, cont, id, k2, all)
    PROVE  /\ Reassembling(all, p, k2, cont)
           /\ k[id] = NumChunks(cont[id]) - 1 => Reassembling(Forget(all, id), p, k2, cont)
  <1>0. /\ k \in [MsgIds -> Nat] /\ Reassembling(us, p, k, cont)
        /\ id \in MsgIds /\ id[2] <= p /\ cont[id] \in Contents
        /\ k2 = [k EXCEPT ![id] = @ + 1]
        /\ all = [i \in DOMAIN us \cup {id} |->
                    IF i = id THEN Progress(id, cont[id], k[id] + 1) ELSE us[i]]
    BY DEF TakesChunk
  <1>1. k2[id] = k[id] + 1 /\ k[id] \in Nat /\ \A i \in MsgIds : i # id => k2[i] = k[i]
    BY <1>0
  <1>2. NumChunks(cont[id]) \in Nat
    BY <1>0, ChunkCount
  <1>3. /\ DOMAIN all = DOMAIN us \cup {id} /\ all[id] = Progress(id, cont[id], k2[id])
        /\ \A i \in DOMAIN us : i # id => all[i] = us[i]
    BY <1>0, <1>1
  <1>4. /\ \A i \in DOMAIN us :
             /\ i \in MsgIds /\ i[2] <= p /\ cont[i] \in Contents /\ k[i] >= 1
             /\ us[i] = Progress(i, cont[i], k[i])
        /\ \A i \in MsgIds \ DOMAIN us : k[i] = 0 \/ (i[2] <= p /\ k[i] = NumChunks(cont[i]))
    BY <1>0 DEF Reassembling
  <1>5. \A i \in DOMAIN all :
           /\ i \in MsgIds /\ i[2] <= p /\ cont[i] \in Contents /\ k2[i] >= 1
           /\ all[i] = Progress(i, cont[i], k2[i])
    <2> SUFFICES ASSUME NEW i \in DOMAIN all
                 PROVE  /\ i \in MsgIds /\ i[2] <= p /\ cont[i] \in Contents /\ k2[i] >= 1
                        /\ all[i] = Progress(i, cont[i], k2[i])
      OBVIOUS
    <2>1. CASE i = id
      <3>1. k2[id] >= 1
        BY <1>1
      <3> QED BY <1>0, <1>3, <2>1, <3>1
    <2>2. CASE i # id
      BY <1>1, <1>3, <1>4, <2>2
    <2> QED BY <2>1, <2>2
  <1>6. \A i \in MsgIds \ DOMAIN all : k2[i] = 0 \/ (i[2] <= p /\ k2[i] = NumChunks(cont[i]))
    BY <1>1, <1>3, <1>4
  <1>7. Reassembling(all, p, k2, cont)
    BY <1>5, <1>6 DEF Reassembling
  <1>8. ASSUME k[id] = NumChunks(cont[id]) - 1 PROVE Reassembling(Forget(all, id), p, k2, cont)
    <2> DEFINE less == Forget(all, id)
    <2>1. DOMAIN less = DOMAIN all \ {id} /\ \A i \in DOMAIN less : less[i] = all[i]
      BY DEF Forget
    <2> HIDE DEF less
    <2>2. \A i \in DOMAIN less :
             /\ i \in MsgIds /\ i[2] <= p /\ cont[i] \in Contents /\ k2[i] >= 1
             /\ less[i] = Progress(i, cont[i], k2[i])
      BY <1>5, <2>1
    <2>3. k2[id] = NumChunks(cont[id])
      BY <1>1, <1>2, <1>8
    <2>4. \A i \in MsgIds \ DOMAIN less : k2[i] = 0 \/ (i[2] <= p /\ k2[i] = NumChunks(cont[i]))
      BY <1>0, <1>6, <2>1, <2>3
    <2> QED BY <2>2, <2>4 DEF Reassembling, less
  <1> QED BY <1>7, <1>8

\* A chunk is read.
LEMMA ChunkRead ==
    ASSUME NamesFit, Histories, NEW Q, NEW K, NEW N, NEW cont,
           Flow(Q, K, N, cont, todo, puts, mUnchunkers, accepted, delivered), Q # <<>>,
           NEW e, e = Q[1], e.class = "chunk", NEW data, data = <<Envelope(e)>> \o e.body,
           GetChunk(data), UNCHANGED <<todo, puts, accepted>>
    PROVE  /\ UNCHANGED delivered \/ \E s \in Senders : Delivers(s)
           /\ Histories'
           /\ \/ rx' = "InternalError"
              \/ Flow(Tail(Q), Later(K, Len(Q)), Later(N, Len(Q)), cont, todo', puts', mUnchunkers',
                      accepted', delivered')
  <1> DEFINE id == e.id
             k == K[0][id]
             head == data[2]
             old == IF head.id \in DOMAIN mUnchunkers THEN mUnchunkers[head.id] ELSE NewUnchunker(head)
             payload == SubSeq(data, 3, Len(data))
             new == AddChunk(old, head, payload)
             all == [i \in DOMAIN mUnchunkers \cup {head.id} |-> IF i = head.id THEN new ELSE mUnchunkers[i]]
             goes == UNCHANGED rx /\ ~IsComplete(new) /\ mUnchunkers' = all /\ UNCHANGED delivered
             done == /\ UNCHANGED rx /\ IsComplete(new) /\ Recreatable(new)
                     /\ mUnchunkers' = Forget(all, head.id) /\ Return(data[1], Unchunked(new))
  <1>1. /\ Made(e) /\ Of(e, puts, cont) /\ e.c.name % NameMod # 0
        /\ K[0] \in [MsgIds -> Nat] /\ K[1] = CountChunk(e, K[0]) /\ Index(e) = k
        /\ N[0] \in [Senders -> Nat] /\ N[1] = CountMessage(e, N[0])
        /\ \A s \in Senders : N[0][s] = Len(delivered[s])
        /\ e.last => /\ Len(delivered[e.id[1]]) < Len(accepted[e.id[1]])
                     /\ accepted[e.id[1]][Len(delivered[e.id[1]]) + 1] = Message(e.id, e.c)
    <2>1. /\ Made(e) /\ Of(e, puts, cont) /\ e.c.name % NameMod # 0
          /\ K[0] \in [MsgIds -> Nat] /\ K[1] = CountChunk(e, K[0])
          /\ e.class = "chunk" => Index(e) = K[0][e.id]
          /\ N[0] \in [Senders -> Nat] /\ N[1] = CountMessage(e, N[0])
          /\ \A s \in Senders : N[0][s] = Len(delivered[s])
          /\ e.last => /\ Len(delivered[e.id[1]]) < Len(accepted[e.id[1]])
                       /\ accepted[e.id[1]][Len(delivered[e.id[1]]) + 1] = Message(e.id, e.c)
      <3>1. IsFirst(e, K, N, cont, puts, accepted, delivered)
        BY FlowHead
      <3> QED BY <3>1, Zenon DEF IsFirst
    <2> QED BY <2>1, Zenon
  <1>2. /\ data[1].id = e.id /\ data[1].n = e.c.name % NameMod /\ data[1].known = TRUE
        /\ head = ChunkHead(id, e.c, k) /\ payload = Payload(id, e.c, k)
    <2> DEFINE i == Index(e)
    <2> HIDE DEF i, head, payload, k, id
    <2>1. Made(e) /\ data = <<Envelope(e)>> \o e.body /\ e.class = "chunk"
      BY <1>1, Zenon
    <2>2. /\ data[1].id = e.id /\ data[1].n = e.c.name % NameMod /\ data[1].known = TRUE
          /\ data[2] = ChunkHead(e.id, e.c, i) /\ SubSeq(data, 3, Len(data)) = Payload(e.id, e.c, i)
      BY <2>1, Received, Zenon DEF i
    <2>3. i = k
      BY <1>1, Zenon DEF i, k, id
    <2> QED BY <2>2, <2>3 DEF head, payload, id
  <1>3. \/ rx' = "InternalError" /\ UNCHANGED delivered
        \/ goes
        \/ done
        \/ Mismatch(old, head)
    <2> HIDE DEF head, old, new, all, payload
    <2>1. CASE ~Mismatch(old, head) /\ ~IsComplete(new)
      BY <2>1 DEF GetChunk, head, old, new, all, payload
    <2>2. CASE ~Mismatch(old, head) /\ IsComplete(new) /\ Recreatable(new)
      BY <2>2 DEF GetChunk, head, old, new, all, payload
    <2>3. CASE ~Mismatch(old, head) /\ IsComplete(new) /\ ~Recreatable(new)
      BY <2>3 DEF GetChunk, head, old, new, all, payload
    <2> QED BY <2>1, <2>2, <2>3
  <1>4. /\ id \in MsgIds /\ e.c \in Contents /\ e.c = cont[id] /\ id[2] <= puts /\ k \in Nat
        /\ NumChunks(e.c) \in Nat /\ k < NumChunks(e.c)
        /\ e.last <=> k = NumChunks(e.c) - 1
    <2>1. id \in MsgIds /\ e.c \in Contents
      BY <1>1 DEF Made, Sendable, MsgIds
    <2>2. k \in Nat /\ NumChunks(e.c) \in Nat
      BY <1>1, <2>1, ChunkCount
    <2>3. k \in 0 .. NumChunks(e.c) - 1 /\ (e.last <=> k = NumChunks(e.c) - 1)
      BY <1>1 DEF Made
    <2> HIDE DEF k, id
    <2>4. k < NumChunks(e.c)
      BY <2>2, <2>3
    <2> QED BY <1>1, <2>1, <2>2, <2>3, <2>4 DEF Of, id
  <1>5. head.id = id
    <2>1. head = Token("chunk", id, k, NumChunks(e.c), e.c.declared, e.c.known)
      BY <1>2 DEF ChunkHead
    <2> HIDE DEF head, id, k
    <2> QED BY <2>1 DEF Token
  <1>6. Reassembling(mUnchunkers, puts, K[0], cont)
    BY DEF Flow
  <1> HIDE DEF head, payload, k
  <1>7. old = Progress(id, e.c, k)
    <2>1. CASE id \in DOMAIN mUnchunkers
      BY <1>4, <1>5, <1>6, <2>1 DEF Reassembling, k
    <2>2. CASE id \notin DOMAIN mUnchunkers
      <3>1. k = 0 \/ k = NumChunks(cont[id])
        BY <1>4, <1>6, <2>2 DEF Reassembling, k
      <3>2. k = 0
        <4> HIDE DEF id
        <4>1. k = NumChunks(e.c) => FALSE
          <5>1. k \in Nat /\ NumChunks(e.c) \in Nat /\ k < NumChunks(e.c)
            BY <1>4, Zenon
          <5> QED BY <5>1
        <4> QED BY <1>4, <3>1, <4>1, Zenon
      <3>3. NewUnchunker(head) = Progress(id, e.c, 0)
        <4> HIDE DEF id
        <4>1. id \in MsgIds /\ e.c \in Contents /\ k \in Nat /\ k < NumChunks(e.c)
          BY <1>4, Zenon
        <4>2. NewUnchunker(ChunkHead(id, e.c, k)) = Progress(id, e.c, 0)
          BY <4>1, ProgressMade, Zenon
        <4> QED BY <1>2, <4>2, Zenon
      <3> QED BY <1>5, <2>2, <3>2, <3>3
    <2> QED BY <2>1, <2>2
  <1> HIDE DEF old
  <1>8. /\ ~Mismatch(old, head) /\ new = Progress(id, e.c, k + 1)
        /\ IsComplete(new) <=> k = NumChunks(e.c) - 1
        /\ k = NumChunks(e.c) - 1 => Unchunked(new) = Bytes(id, 1, e.c.actual)
        /\ Recreatable(new) => e.c.known
    <2> HIDE DEF id
    <2>1. /\ head = ChunkHead(id, e.c, k) /\ payload = Payload(id, e.c, k)
      BY <1>2
    <2>2. id \in MsgIds /\ e.c \in Contents /\ k \in Nat /\ k < NumChunks(e.c)
      BY <1>4, Zenon
    <2>3. new = AddChunk(Progress(id, e.c, k), ChunkHead(id, e.c, k), Payload(id, e.c, k))
      BY <1>7, <2>1, Zenon DEF new
    <2> HIDE DEF new
    <2>4. NextFits(id, e.c, k, old, head, new)
      BY <1>7, <2>1, <2>2, <2>3, ProgressMade
    <2> QED BY <2>4 DEF NextFits
  <1>9. all = [i \in DOMAIN mUnchunkers \cup {id} |->
                  IF i = id THEN Progress(id, cont[id], K[0][id] + 1) ELSE mUnchunkers[i]]
    <2> HIDE DEF new, id
    <2> QED BY <1>4, <1>5, <1>8 DEF k
  <1> HIDE DEF new, all
  <1>10. K[1] = [K[0] EXCEPT ![id] = @ + 1]
    BY <1>1 DEF CountChunk
  <1>11. /\ Reassembling(all, puts, K[1], cont)
         /\ k = NumChunks(e.c) - 1 => Reassembling(Forget(all, id), puts, K[1], cont)
    <2> HIDE DEF id
    <2>1. K[0] \in [MsgIds -> Nat] /\ K[0][id] < NumChunks(cont[id])
      <3>1. k < NumChunks(cont[id]) /\ K[0] \in [MsgIds -> Nat]
        BY <1>1, <1>4, Zenon
      <3> QED BY <3>1, Zenon DEF k, id
    <2>2. /\ Reassembling(mUnchunkers, puts, K[0], cont)
          /\ K[0] \in [MsgIds -> Nat] /\ K[0][id] < NumChunks(cont[id])
          /\ id \in MsgIds /\ id[2] <= puts /\ cont[id] \in Contents
          /\ K[1] = [K[0] EXCEPT ![id] = @ + 1]
          /\ all = [i \in DOMAIN mUnchunkers \cup {id} |->
                      IF i = id THEN Progress(id, cont[id], K[0][id] + 1) ELSE mUnchunkers[i]]
      BY <1>4, <1>6, <1>9, <1>10, <2>1, Zenon
    <2>3. /\ Reassembling(all, puts, K[1], cont)
          /\ K[0][id] = NumChunks(cont[id]) - 1 => Reassembling(Forget(all, id), puts, K[1], cont)
      <3>1. TakesChunk(mUnchunkers, puts, K[0], cont, id, K[1], all)
        BY <2>2, Zenon DEF TakesChunk
      <3> QED BY <3>1, ReassemblingGoesOn
    <2>4. K[0][id] = k /\ cont[id] = e.c
      BY <1>4, Zenon DEF k, id
    <2> QED BY <2>3, <2>4, Zenon
  <1>12. CASE rx' = "InternalError" /\ UNCHANGED delivered
    BY <1>12 DEF Histories
  <1>13. CASE goes
    <2>1. ~e.last
      <3>1. e.last <=> k = NumChunks(e.c) - 1
        BY <1>4, Zenon
      <3>2. IsComplete(new) <=> k = NumChunks(e.c) - 1
        BY <1>8, Zenon
      <3> QED BY <1>13, <3>1, <3>2, Zenon
    <2>2. N[1] = N[0]
      BY <1>1, <2>1 DEF CountMessage
    <2>3. \A s \in Senders : N[1][s] = Len(delivered'[s])
      BY <1>1, <1>13, <2>2
    <2>4. Reassembling(mUnchunkers', puts, K[1], cont)
      BY <1>11, <1>13
    <2>5. Flow(Tail(Q), Later(K, Len(Q)), Later(N, Len(Q)), cont, todo, puts, mUnchunkers',
               accepted, delivered')
      BY <2>3, <2>4, FlowTaken
    <2> QED BY <1>13, <2>5 DEF Histories
  <1>14. CASE done
    <2>1. e.last /\ k = NumChunks(e.c) - 1
      BY <1>4, <1>8, <1>14
    <2>2. Return(data[1], Bytes(e.id, 1, e.c.actual)) /\ data[1].known = e.c.known
      <3>1. e.c.known \in BOOLEAN /\ e.c.known
        BY <1>4, <1>8, <1>14, ContentTyped
      <3>2. e.c.known = TRUE
        BY <3>1
      <3> QED BY <1>2, <1>8, <1>14, <2>1, <3>2
    <2>3. /\ \E s \in Senders : Delivers(s)
          /\ Histories' /\ CountsDelivered([N[0] EXCEPT ![e.id[1]] = @ + 1])
      <3>1. ReturnsNext(e, data[1], N[0])
        BY <1>1, <1>2, <2>1, <2>2 DEF ReturnsNext
      <3> QED BY <3>1, ReturnDelivers
    <2>4. \A s \in Senders : N[1][s] = Len(delivered'[s])
      BY <1>1, <2>1, <2>3 DEF CountMessage, CountsDelivered
    <2>5. Reassembling(mUnchunkers', puts, K[1], cont)
      BY <1>5, <1>11, <1>14, <2>1
    <2>6. Flow(Tail(Q), Later(K, Len(Q)), Later(N, Len(Q)), cont, todo, puts, mUnchunkers',
               accepted, delivered')
      BY <2>4, <2>5, FlowTaken
    <2> QED BY <2>3, <2>6
  <1> QED BY <1>3, <1>8, <1>12, <1>13, <1>14

\* Reading a frame.
LEMMA GetFlows ==
    ASSUME NamesFit, ChannelInv, Get
    PROVE  /\ ChannelInv'
           /\ UNCHANGED <<accepted, delivered>> \/ \E s \in Senders : Delivers(s)
  <1> DEFINE f == NextFrame(wire)
             data == SubSeq(wire, 2, f.size + 1)
  <1>1. /\ rx = "ok" /\ wire # <<>> /\ Len(wire) > f.size /\ wire' = f.rest
        /\ UNCHANGED <<todo, puts, closed, accepted>>
        /\ IF data[1].num = 1 THEN GetChunk(data) ELSE GetObject(data)
    BY DEF Get, FrameReady
  <1>2. PICK Q, P, K, N, cont :
           /\ InFlight(wire, closed, Q, P)
           /\ Flow(Q, K, N, cont, todo, puts, mUnchunkers, accepted, delivered)
    BY <1>1 DEF ChannelInv, Flowing
  <1> DEFINE e == Q[1]
  <1>3. /\ Q # <<>> /\ data = <<Envelope(e)>> \o e.body
        /\ \E S : InFlight(f.rest, closed, Tail(Q), S)
    BY <1>1, <1>2, InFlightTaken
  <1>4. PICK S : InFlight(wire', closed', Tail(Q), S)
    BY <1>1, <1>3
  <1> HIDE DEF f, data, e
  <1>5. Made(e) /\ e.class \in {"object", "chunk"}
    <2>1. IsFirst(e, K, N, cont, puts, accepted, delivered)
      BY <1>2, <1>3, FlowHead DEF e
    <2>2. Made(e)
      BY <2>1 DEF IsFirst
    <2> QED BY <2>2 DEF Made, Sendable
  <1>6. /\ e.class = "object" => data[1].num = 0
        /\ e.class = "chunk" => data[1].num = 1
    BY <1>3, <1>5, Received
  <1>7. OwnIds'
    BY <1>1 DEF ChannelInv, OwnIds
  <1>8. NamesFit /\ Histories /\ UNCHANGED <<todo, puts, accepted>> /\ e = Q[1]
    BY <1>1 DEF ChannelInv, e
  <1>9. CASE e.class = "object"
    <2>1. GetObject(data)
      BY <1>1, <1>6, <1>9
    <2>2. /\ \E s \in Senders : Delivers(s)
          /\ Histories' /\ rx' = rx
          /\ Flow(Tail(Q), Later(K, Len(Q)), Later(N, Len(Q)), cont, todo', puts', mUnchunkers',
                  accepted', delivered')
      BY <1>2, <1>3, <1>8, <1>9, <2>1, ObjectRead
    <2>3. Flowing'
      BY <1>4, <2>2 DEF Flowing
    <2> QED BY <1>7, <2>2, <2>3 DEF ChannelInv
  <1>10. CASE e.class = "chunk"
    <2>1. GetChunk(data)
      BY <1>1, <1>6, <1>10
    <2>2. /\ UNCHANGED delivered \/ \E s \in Senders : Delivers(s)
          /\ Histories'
          /\ \/ rx' = "InternalError"
             \/ Flow(Tail(Q), Later(K, Len(Q)), Later(N, Len(Q)), cont, todo', puts', mUnchunkers',
                     accepted', delivered')
      BY <1>2, <1>3, <1>8, <1>10, <2>1, ChunkRead
    <2>3. Flowing'
      BY <1>4, <2>2 DEF Flowing
    <2> QED BY <1>1, <1>7, <2>2, <2>3 DEF ChannelInv
  <1> QED BY <1>5, <1>9, <1>10

\* What a step may do to the histories: a sender's message is accepted, or one is
\* delivered.
ChannelStep ==
    \/ UNCHANGED <<accepted, delivered>>
    \/ \E s \in Senders : Accepts(s) \/ Delivers(s)

\* Every step of the system.
LEMMA ChannelSteps ==
    ASSUME NamesFit, ReceiverInv, ChannelInv, [Next]_vars
    PROVE  ChannelInv' /\ ChannelStep
  <1>0. SendingTyped /\ closed \in BOOLEAN
    BY DEF ReceiverInv, StreamFramed
  <1>1. ASSUME NEW s \in Senders, WriteEnvelope(s) PROVE ChannelInv' /\ ChannelStep
    BY <1>0, <1>1, WriteFlows DEF ChannelStep
  <1>2. ASSUME NEW s \in Senders, NEW c \in Contents, Put(s, c) PROVE ChannelInv' /\ ChannelStep
    BY <1>0, <1>2, PutFlows DEF ChannelStep
  <1>3. CASE Get
    BY <1>3, GetFlows DEF ChannelStep
  <1>4. CASE Cut
    BY <1>4, CutFlows DEF ChannelStep
  <1>5. CASE GetDisconnected
    <2>1. rx' # "ok" /\ UNCHANGED <<todo, puts, accepted, delivered>>
      BY <1>5 DEF GetDisconnected
    <2> QED BY <2>1 DEF ChannelStep, ChannelInv, Histories, OwnIds, Flowing
  <1>6. CASE UNCHANGED vars
    BY <1>6 DEF vars, ChannelStep, ChannelInv, Histories, OwnIds, Flowing
  <1> QED BY <1>1, <1>2, <1>3, <1>4, <1>5, <1>6 DEF Next

\* Such a step is, for every sender, one of its channel or none.
LEMMA ChannelStepRefines ==
    ASSUME Histories, ChannelStep, NEW r \in Senders
    PROVE  Channel(r)!Next \/ UNCHANGED <<accepted[r], delivered[r]>>
  <1>1. CASE UNCHANGED <<accepted, delivered>>
    BY <1>1
  <1>2. ASSUME NEW s \in Senders, Accepts(s)
        PROVE  Channel(r)!Next \/ UNCHANGED <<accepted[r], delivered[r]>>
    <2>1. CASE UNCHANGED accepted
      BY <1>2, <2>1 DEF Accepts
    <2>2. ASSUME NEW k \in 1 .. MaxPuts, NEW c \in Contents,
                 accepted' = [accepted EXCEPT ![s] = Append(@, Message(<<s, k>>, c))]
          PROVE  Channel(r)!Next \/ UNCHANGED <<accepted[r], delivered[r]>>
      <3>1. UNCHANGED delivered
        BY <1>2 DEF Accepts
      <3>2. CASE r = s
        <4> DEFINE v == Message(<<r, k>>, c)
        <4>1. accepted'[r] = Append(accepted[r], v)
          BY <2>2, <3>2 DEF Histories
        <4>2. v \in {Message(<<r, i>>, d) : i \in 1 .. MaxPuts, d \in Contents}
          OBVIOUS
        <4> HIDE DEF v
        <4>3. Channel(r)!Accept(v)
          BY <3>1, <4>1 DEF Channel!Accept
        <4> QED BY <4>2, <4>3 DEF Channel!Next
      <3>3. CASE r # s
        BY <2>2, <3>1, <3>3 DEF Histories
      <3> QED BY <3>2, <3>3
    <2> QED BY <1>2, <2>1, <2>2 DEF Accepts
  <1>3. ASSUME NEW s \in Senders, Delivers(s)
        PROVE  Channel(r)!Next \/ UNCHANGED <<accepted[r], delivered[r]>>
    <2>1. CASE r = s
      <3>1. /\ UNCHANGED accepted /\ Len(delivered[r]) < Len(accepted[r])
            /\ delivered'[r] = Append(delivered[r], accepted[r][Len(delivered[r]) + 1])
        BY <1>3, <2>1 DEF Delivers, Histories
      <3>2. Channel(r)!Deliver
        BY <3>1 DEF Channel!Deliver
      <3> QED BY <3>2 DEF Channel!Next
    <2>2. CASE r # s
      BY <1>3, <2>2 DEF Delivers, Histories
    <2> QED BY <2>1, <2>2
  <1> QED BY <1>1, <1>2, <1>3 DEF ChannelStep

\* The connection is a channel for each of its senders: getEnvelope returns their
\* messages whole, at most once and in the order they were put, however frames and
\* chunks of several senders are mixed, whatever puts gave up half way and wherever
\* the stream is cut; for names whose length fits in its field, or that are refused.
THEOREM TransportIsChannel ==
    ASSUME \A c \in Contents : c.name % NameMod \in {0, c.name}
    PROVE  Spec => ImplementsChannel
  <1>0. NamesFit
    BY DEF NamesFit
  <1>1. Init => ReceiverInv /\ ChannelInv
    BY ReceiverInit, ChannelInit
  <1>2. ReceiverInv /\ ChannelInv /\ [Next]_vars => ReceiverInv' /\ ChannelInv'
    BY <1>0, ReceiverStep, ChannelSteps
  <1>3. Init => \A s \in Senders : Channel(s)!Init
    BY DEF Init, Channel!Init
  <1>4. /\ ReceiverInv /\ ChannelInv /\ [Next]_vars
        => [\A s \in Senders : Channel(s)!Next \/ UNCHANGED <<accepted[s], delivered[s]>>]_vars
    <2> SUFFICES ASSUME ReceiverInv, ChannelInv, [Next]_vars
                 PROVE  \A s \in Senders : Channel(s)!Next \/ UNCHANGED <<accepted[s], delivered[s]>>
      OBVIOUS
    <2>1. Histories /\ ChannelStep
      BY <1>0, ChannelSteps DEF ChannelInv
    <2> QED BY <2>1, ChannelStepRefines
  <1> QED BY <1>1, <1>2, <1>3, <1>4, PTL DEF Spec, ImplementsChannel
===============================================================================
