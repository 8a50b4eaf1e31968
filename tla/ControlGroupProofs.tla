------------------------- MODULE ControlGroupProofs -------------------------
(***************************************************************************)
(* Memory is never oversold and no limit is refused, for any number of     *)
(* processes, any amounts of memory and any set of watched groups.         *)
(*                                                                         *)
(* The totals of MemoryTracking are sums over the processes, so the first  *)
(* part shows what MapThenSumSet does when one process's share changes.    *)
(* The rest is an argument about who may change a share: a process has     *)
(* nothing reserved before its spawn reserves, and a loan is taken from    *)
(* the pool before it is booked on its process.                            *)
(***************************************************************************)
EXTENDS ControlGroup, FiniteSetTheorems, WellFoundedInduction, TLAPS

-----------------------------------------------------------------------------
(* Sums. *)

\* Induction over the naturals for a set of them, from the well-foundedness of <.
LEMMA NaturalsFromZero ==
    ASSUME NEW T \in SUBSET Nat, 0 \in T, \A n \in T : n + 1 \in T
    PROVE  T = Nat
  <1>1. SUFFICES ASSUME Nat \ T # {} PROVE FALSE
    OBVIOUS
  <1>2. PICK x \in Nat \ T : \A y \in Nat \ T : <<y, x>> \notin OpToRel(<, Nat)
    BY <1>1, NatLessThanWellFounded, WFMin, Zenon
  <1>3. x # 0 /\ x - 1 \in Nat /\ x - 1 < x
    OBVIOUS
  <1>4. <<x - 1, x>> \in OpToRel(<, Nat)
    BY <1>3 DEF OpToRel
  <1>5. x - 1 \in T
    BY <1>2, <1>3, <1>4
  <1>6. (x - 1) + 1 \in T /\ (x - 1) + 1 = x
    BY <1>3, <1>5
  <1> QED BY <1>6

\* What MapThenSumSet adds up, with the choices and the step it recurses by.
Sum(f, S) == MapThenSumSet(LAMBDA x : f[x], S)
One(s) == CHOOSE x \in s : TRUE
AddOne(f, g, s) == IF s = {} THEN 0 ELSE f[One(s)] + g[s \ {One(s)}]

\* The element taken first is one of the set.
LEMMA OneIsIn ==
    ASSUME NEW s, s # {}
    PROVE  One(s) \in s
  BY DEF One

\* MapThenSumSet is defined by a recursive function on the subsets.
LEMMA SumDef ==
    ASSUME NEW f, NEW S
    PROVE Sum(f, S) = (CHOOSE g : g = [s \in SUBSET S |-> AddOne(f, g, s)])[S]
  BY DEF Sum, MapThenSumSet, MapThenFoldSet, AddOne, One

\* The subsets of at most n elements.
UpTo(S, n) == {s \in SUBSET S : Cardinality(s) <= n}

\* A subset of a finite set is empty or one smaller without its chosen element.
LEMMA Subsets ==
    ASSUME NEW S, IsFiniteSet(S), NEW s \in SUBSET S
    PROVE  /\ Cardinality(s) \in Nat /\ (Cardinality(s) = 0 <=> s = {})
           /\ s # {} => /\ One(s) \in s /\ s \ {One(s)} \in SUBSET S
                        /\ Cardinality(s \ {One(s)}) = Cardinality(s) - 1
  <1>1. IsFiniteSet(s) /\ Cardinality(s) \in Nat
    BY FS_Subset, FS_CardinalityType
  <1>2. Cardinality(s) = 0 <=> s = {}
    BY <1>1, FS_EmptySet
  <1>3. s # {} => One(s) \in s
    BY OneIsIn
  <1>4. Cardinality(s \ {One(s)}) = IF One(s) \in s THEN Cardinality(s) - 1 ELSE Cardinality(s)
    BY <1>1, FS_RemoveElement
  <1> QED BY <1>1, <1>2, <1>3, <1>4

\* The subsets by size: {} is the only one of no elements, and taking the chosen
\* element away goes down by one.
LEMMA SmallSets ==
    ASSUME NEW S, IsFiniteSet(S)
    PROVE  /\ \A s \in UpTo(S, 0) : s = {}
           /\ \A n \in Nat : /\ \A s \in UpTo(S, n) : s \in UpTo(S, n + 1)
                             /\ \A s \in UpTo(S, n + 1) : s # {} => s \ {One(s)} \in UpTo(S, n)
  <1>1. ASSUME NEW s \in SUBSET S
        PROVE  /\ Cardinality(s) \in Nat /\ (Cardinality(s) = 0 <=> s = {})
               /\ s # {} => /\ s \ {One(s)} \in SUBSET S
                            /\ Cardinality(s \ {One(s)}) = Cardinality(s) - 1
    BY Subsets
  <1>2. ASSUME NEW s \in UpTo(S, 0) PROVE s = {}
    <2>1. s \in SUBSET S /\ Cardinality(s) <= 0
      BY DEF UpTo
    <2>2. Cardinality(s) \in Nat /\ (Cardinality(s) = 0 <=> s = {})
      BY <1>1, <2>1, Zenon
    <2> QED BY <2>1, <2>2
  <1>3. ASSUME NEW n \in Nat, NEW s \in UpTo(S, n) PROVE s \in UpTo(S, n + 1)
    <2>1. s \in SUBSET S /\ Cardinality(s) <= n
      BY DEF UpTo
    <2>2. Cardinality(s) <= n + 1
      <3>1. Cardinality(s) \in Nat
        BY <1>1, <2>1, Zenon
      <3> QED BY <2>1, <3>1
    <2> QED BY <2>1, <2>2 DEF UpTo
  <1>4. ASSUME NEW n \in Nat, NEW s \in UpTo(S, n + 1), s # {} PROVE s \ {One(s)} \in UpTo(S, n)
    <2>1. s \in SUBSET S /\ Cardinality(s) <= n + 1
      BY DEF UpTo
    <2>2. s \ {One(s)} \in SUBSET S /\ Cardinality(s \ {One(s)}) <= n
      <3>1. /\ Cardinality(s) \in Nat /\ s \ {One(s)} \in SUBSET S
            /\ Cardinality(s \ {One(s)}) = Cardinality(s) - 1
        BY <1>1, <1>4, <2>1, Zenon
      <3> QED BY <2>1, <3>1
    <2> QED BY <2>2 DEF UpTo
  <1> QED BY <1>2, <1>3, <1>4

\* g is the function that MapThenSumSet chooses.
Recursion(f, S, g) == g = [s \in SUBSET S |-> AddOne(f, g, s)]

\* There is such a function: it is built for the subsets of at most n elements,
\* n by n.
LEMMA SumExists ==
    ASSUME NEW S, IsFiniteSet(S), NEW f \in [S -> Nat]
    PROVE  \E g : Recursion(f, S, g)
  <1> DEFINE Has(n) == \E g \in [UpTo(S, n) -> Nat] : \A s \in UpTo(S, n) : g[s] = AddOne(f, g, s)
             T == {n \in Nat : Has(n)}
  <1>1. Has(0)
    <2> DEFINE g == [s \in UpTo(S, 0) |-> 0]
    <2>1. \A s \in UpTo(S, 0) : s = {}
      BY SmallSets
    <2>2. g \in [UpTo(S, 0) -> Nat] /\ \A s \in UpTo(S, 0) : g[s] = AddOne(f, g, s)
      BY <2>1 DEF AddOne
    <2> QED BY <2>2
  <1>2. ASSUME NEW n \in Nat, Has(n) PROVE Has(n + 1)
    <2>1. PICK g \in [UpTo(S, n) -> Nat] : \A s \in UpTo(S, n) : g[s] = AddOne(f, g, s)
      BY <1>2
    <2> DEFINE h == [s \in UpTo(S, n + 1) |-> AddOne(f, g, s)]
    <2>2. ASSUME NEW s \in UpTo(S, n + 1), s # {}
          PROVE  One(s) \in S /\ s \ {One(s)} \in UpTo(S, n)
      <3>1. s \in SUBSET S
        BY DEF UpTo
      <3> QED BY <2>2, <3>1, OneIsIn, SmallSets
    <2>3. h \in [UpTo(S, n + 1) -> Nat]
      <3> SUFFICES ASSUME NEW s \in UpTo(S, n + 1) PROVE AddOne(f, g, s) \in Nat
        OBVIOUS
      <3> QED BY <2>2 DEF AddOne
    <2>4. \A s \in UpTo(S, n) : s \in UpTo(S, n + 1) /\ h[s] = g[s]
      <3>1. \A s \in UpTo(S, n) : s \in UpTo(S, n + 1)
        BY SmallSets
      <3> QED BY <2>1, <3>1
    <2>5. \A s \in UpTo(S, n + 1) : h[s] = AddOne(f, h, s)
      <3> SUFFICES ASSUME NEW s \in UpTo(S, n + 1) PROVE AddOne(f, g, s) = AddOne(f, h, s)
        OBVIOUS
      <3> HIDE DEF h
      <3> QED BY <2>2, <2>4 DEF AddOne
    <2> HIDE DEF h
    <2> QED BY <2>3, <2>5
  <1> HIDE DEF Has
  <1>3. T = Nat
    <2>1. T \in SUBSET Nat /\ 0 \in T /\ \A n \in T : n + 1 \in T
      BY <1>1, <1>2
    <2> HIDE DEF T
    <2> QED BY <2>1, NaturalsFromZero
  <1>4. Cardinality(S) \in Nat /\ \A s \in SUBSET S : Cardinality(s) <= Cardinality(S)
    BY FS_Subset, FS_CardinalityType
  <1>5. Has(Cardinality(S))
    BY <1>3, <1>4
  <1>6. UpTo(S, Cardinality(S)) = SUBSET S
    BY <1>4 DEF UpTo
  <1>7. PICK g \in [SUBSET S -> Nat] : \A s \in SUBSET S : g[s] = AddOne(f, g, s)
    BY <1>5, <1>6 DEF Has
  <1>8. Recursion(f, S, g)
    BY <1>7 DEF Recursion
  <1> QED BY <1>8

\* So a sum is the value of a function that satisfies the recursion.
LEMMA SumIs ==
    ASSUME NEW S, IsFiniteSet(S), NEW f \in [S -> Nat]
    PROVE  \E g : Sum(f, S) = g[S] /\ Recursion(f, S, g)
  <1> DEFINE g == CHOOSE g : Recursion(f, S, g)
  <1>1. \E h : Recursion(f, S, h)
    BY SumExists
  <1>2. Recursion(f, S, g)
    BY <1>1, Zenon
  <1>3. Sum(f, S) = g[S]
    BY SumDef DEF Recursion
  <1> QED BY <1>2, <1>3

\* A set of subsets of a finite set that has {}, and has s whenever it has s
\* without its chosen element, has them all.
LEMMA SetsBySize ==
    ASSUME NEW S, IsFiniteSet(S), NEW U \in SUBSET SUBSET S, {} \in U,
           \A s \in SUBSET S : s # {} /\ s \ {One(s)} \in U => s \in U
    PROVE  U = SUBSET S
  <1> DEFINE T == {n \in Nat : \A s \in UpTo(S, n) : s \in U}
  <1>1. 0 \in T
    BY SmallSets
  <1>2. \A n \in T : n + 1 \in T
    <2> SUFFICES ASSUME NEW n \in T, NEW s \in UpTo(S, n + 1), s # {} PROVE s \in U
      OBVIOUS
    <2>1. s \in SUBSET S
      BY DEF UpTo
    <2>2. s \ {One(s)} \in UpTo(S, n)
      BY SmallSets
    <2> QED BY <2>1, <2>2
  <1>3. T = Nat
    <2>1. T \in SUBSET Nat
      OBVIOUS
    <2> HIDE DEF T
    <2> QED BY <1>1, <1>2, <2>1, NaturalsFromZero
  <1>4. ASSUME NEW s \in SUBSET S PROVE s \in U
    <2>1. Cardinality(s) \in Nat
      BY Subsets
    <2>2. s \in UpTo(S, Cardinality(s))
      BY <2>1 DEF UpTo
    <2> QED BY <1>3, <2>1, <2>2
  <1> QED BY <1>4

\* A sum of zeros.
LEMMA SumOfZeros ==
    ASSUME NEW S, IsFiniteSet(S), NEW f \in [S -> Nat], \A x \in S : f[x] = 0
    PROVE  Sum(f, S) = 0
  <1>1. PICK g : Sum(f, S) = g[S] /\ Recursion(f, S, g)
    BY SumIs
  <1>2. \A s \in SUBSET S : g[s] = AddOne(f, g, s)
    BY <1>1 DEF Recursion
  <1> DEFINE U == {s \in SUBSET S : g[s] = 0}
  <1>3. {} \in U
    BY <1>2 DEF AddOne
  <1>4. ASSUME NEW s \in SUBSET S, s # {}, s \ {One(s)} \in U PROVE s \in U
    <2>1. One(s) \in S
      BY <1>4, OneIsIn
    <2> QED BY <1>2, <1>4, <2>1 DEF AddOne
  <1>5. U = SUBSET S
    <2>1. U \in SUBSET SUBSET S
      OBVIOUS
    <2> HIDE DEF U
    <2> QED BY <1>3, <1>4, <2>1, SetsBySize
  <1> QED BY <1>1, <1>5

\* A function changed at one element changes its sum by as much: what a
\* reservation, a loan and a release do to the totals.
LEMMA SumChanges ==
    ASSUME NEW S, IsFiniteSet(S), NEW f \in [S -> Nat], NEW e \in [S -> Nat], NEW p \in S,
           \A x \in S : x # p => e[x] = f[x]
    PROVE  Sum(f, S) \in Nat /\ Sum(e, S) \in Nat /\ Sum(e, S) = Sum(f, S) + e[p] - f[p]
  <1>1. PICK g : Sum(f, S) = g[S] /\ Recursion(f, S, g)
    BY SumIs
  <1>2. PICK h : Sum(e, S) = h[S] /\ Recursion(e, S, h)
    BY SumIs
  <1>3. \A s \in SUBSET S : g[s] = AddOne(f, g, s)
    BY <1>1 DEF Recursion
  <1>4. \A s \in SUBSET S : h[s] = AddOne(e, h, s)
    BY <1>2 DEF Recursion
  <1> DEFINE U == {s \in SUBSET S : /\ g[s] \in Nat /\ h[s] \in Nat
                                   /\ h[s] = g[s] + (IF p \in s THEN e[p] - f[p] ELSE 0)}
  <1>5. {} \in U
    <2>1. g[{}] = 0 /\ h[{}] = 0
      BY <1>3, <1>4 DEF AddOne
    <2> QED BY <2>1
  <1>6. ASSUME NEW s \in SUBSET S, s # {}, s \ {One(s)} \in U PROVE s \in U
    <2>1. g[s] = f[One(s)] + g[s \ {One(s)}]
      BY <1>3, <1>6 DEF AddOne
    <2>2. h[s] = e[One(s)] + h[s \ {One(s)}]
      BY <1>4, <1>6 DEF AddOne
    <2> DEFINE x == One(s)
               r == s \ {x}
    <2>3. x \in s /\ x \in S
      BY <1>6, OneIsIn
    <2>4. /\ g[r] \in Nat /\ h[r] \in Nat
          /\ h[r] = g[r] + (IF p \in r THEN e[p] - f[p] ELSE 0)
      BY <1>6
    <2>5. /\ p \in s <=> x = p \/ p \in r
          /\ x = p => p \notin r
      BY <2>3
    <2>6. f[x] \in Nat /\ f[p] \in Nat /\ e[x] \in Nat /\ e[p] \in Nat
      BY <2>3
    <2>7. g[s] = f[x] + g[r] /\ h[s] = e[x] + h[r]
      BY <2>1, <2>2
    <2> HIDE DEF x, r
    <2> QED BY <2>3, <2>4, <2>5, <2>6, <2>7
  <1>7. U = SUBSET S
    <2>1. U \in SUBSET SUBSET S
      OBVIOUS
    <2> HIDE DEF U
    <2> QED BY <1>5, <1>6, <2>1, SetsBySize
  <1>8. S \in U
    BY <1>7
  <1> QED BY <1>1, <1>2, <1>8

-----------------------------------------------------------------------------
(* The inductive invariant. *)

ProcessTypes ==
    /\ mState \in [Processes -> {"NotSpawned", "Spawned", "Terminating", "Terminated"}]
    /\ spawning \in [Processes -> {"none", "await", "create", "fork", "child"}]
    /\ mReservedMb \in [Processes -> Nat] /\ mBorrowedMb \in [Processes -> Nat]
    /\ mem \in [reserved : Nat, borrowed : Nat]
GroupRecord ==
    [real : Nat, memsw : Nat, pause : BOOLEAN, tasks : SUBSET {"child", "descendant"},
     oom : BOOLEAN, watched : BOOLEAN]
GroupTypes ==
    /\ Groups \subseteq Processes /\ grp \in [Groups -> GroupRecord]
    /\ DOMAIN mOomFds \subseteq Processes
    /\ oom \in [pc : {"wait", "group", "lend", "unmonitor"}, groups : SUBSET Processes]
    /\ oom.pc # "wait" => oom.groups # {}
    /\ aborted \in {"no", "group gone", "refused"}

\* A process that spawn has not reached holds nothing, so its reservation is
\* never counted twice.
NotYetReserved ==
    \A p \in Processes : mState[p] = "NotSpawned" =>
        /\ spawning[p] # "child"
        /\ spawning[p] = "none" => mReservedMb[p] = 0

\* A loan taken from the pool and not yet booked on its process.
InHand == IF oom.pc = "lend" /\ aborted = "no" THEN 1 ELSE 0

\* NotOversold in terms of Sum.
Books ==
    /\ mem.reserved + mem.borrowed <= AvailableMb
    /\ mem.reserved = Sum(mReservedMb, Processes)
    /\ mem.borrowed = Sum(mBorrowedMb, Processes) + InHand

\* What makes the order of the two writes in changeMemoryLimit right.
LimitsInOrder == \A p \in Groups : grp[p].real <= grp[p].memsw

IInv ==
    /\ ProcessTypes /\ GroupTypes /\ NotYetReserved
    /\ Books /\ LimitsInOrder /\ LimitsAccepted

\* The processes are finitely many.
LEMMA ProcessesFinite == IsFiniteSet(Processes) /\ Processes \subseteq Nat
  <1>1. 1 \in Int /\ NumProcs \in Int
    BY ResourceAssumption
  <1> QED BY <1>1, FS_Interval DEF Processes

\* The group handled first is on the list.
LEMMA FirstIsListed ==
    ASSUME GroupTypes, oom.groups # {}
    PROVE  FirstGroup \in oom.groups /\ FirstGroup \in Processes
  <1>1. oom.groups \subseteq Processes
    BY DEF GroupTypes
  <1>2. oom.groups \subseteq Nat
    BY <1>1, ProcessesFinite
  <1>3. PICK p \in oom.groups : \A q \in oom.groups : <<q, p>> \notin OpToRel(<, Nat)
    <2>1. oom.groups \in SUBSET Nat
      BY <1>2
    <2> QED BY <2>1, NatLessThanWellFounded, WFMin, Zenon
  <1>4. \A q \in oom.groups : p <= q
    <2> SUFFICES ASSUME NEW q \in oom.groups PROVE ~(q < p)
      BY <1>2
    <2> QED BY <1>2, <1>3 DEF OpToRel
  <1>5. FirstGroup \in oom.groups
    BY <1>4 DEF FirstGroup, Min
  <1> QED BY <1>1, <1>5

\* Nothing is reserved, lent or limited at the start.
LEMMA InitIInv == Init => IInv
  <1> SUFFICES ASSUME Init PROVE IInv
    OBVIOUS
  <1> DEFINE none == [p \in Processes |-> 0]
  <1>1. Sum(none, Processes) = 0
    <2>1. none \in [Processes -> Nat] /\ \A p \in Processes : none[p] = 0
      OBVIOUS
    <2> HIDE DEF none
    <2> QED BY <2>1, ProcessesFinite, SumOfZeros
  <1>2. mReservedMb = none /\ mBorrowedMb = none
    BY DEF Init
  <1>3. Books
    <2>1. mem.reserved = 0 /\ mem.borrowed = 0 /\ InHand = 0
      BY DEF Init, InHand
    <2> HIDE DEF none
    <2> QED BY <1>1, <1>2, <2>1, ResourceAssumption DEF Books
  <1>4. ProcessTypes
    BY DEF Init, ProcessTypes
  <1>5. GroupTypes
    BY DEF Init, GroupTypes, Groups
  <1>6. NotYetReserved
    BY DEF Init, NotYetReserved
  <1>7. LimitsInOrder /\ LimitsAccepted
    BY DEF Init, LimitsInOrder, LimitsAccepted, Groups
  <1> QED BY <1>3, <1>4, <1>5, <1>6, <1>7 DEF IInv

-----------------------------------------------------------------------------
(* A step keeps the parts whose variables it leaves alone. *)

\* Books does not change with what it does not mention.
LEMMA BooksKept ==
    ASSUME Books, UNCHANGED <<mReservedMb, mBorrowedMb, mem>>, InHand' = InHand
    PROVE  Books'
  BY DEF Books

\* SumChanges, for what the processes hold.
LEMMA ShareChanges ==
    ASSUME NEW f \in [Processes -> Nat], NEW e \in [Processes -> Nat], NEW p \in Processes,
           \A q \in Processes : q # p => e[q] = f[q]
    PROVE  /\ Sum(f, Processes) \in Nat /\ Sum(e, Processes) \in Nat
           /\ Sum(e, Processes) = Sum(f, Processes) + e[p] - f[p]
  BY ProcessesFinite, SumChanges

\* One process's reservation, booked or released together with the total.
LEMMA ReservationBooked ==
    ASSUME ProcessTypes, Books, NEW p \in Processes, NEW n \in Nat, InHand' = InHand,
           mReservedMb' = [mReservedMb EXCEPT ![p] = n],
           mem' = [mem EXCEPT !.reserved = @ + n - mReservedMb[p]],
           n <= mReservedMb[p] \/ n <= Free, UNCHANGED mBorrowedMb
    PROVE  Books' /\ mem' \in [reserved : Nat, borrowed : Nat]
  <1>1. /\ mReservedMb \in [Processes -> Nat] /\ mReservedMb' \in [Processes -> Nat]
        /\ mReservedMb'[p] = n /\ \A q \in Processes : q # p => mReservedMb'[q] = mReservedMb[q]
    BY DEF ProcessTypes
  <1>2. /\ Sum(mReservedMb, Processes) \in Nat /\ Sum(mReservedMb', Processes) \in Nat
        /\ Sum(mReservedMb', Processes) = Sum(mReservedMb, Processes) + n - mReservedMb[p]
    <2>1. \A q \in Processes : q # p => mReservedMb'[q] = mReservedMb[q]
      BY <1>1
    <2>2. /\ Sum(mReservedMb, Processes) \in Nat /\ Sum(mReservedMb', Processes) \in Nat
          /\ Sum(mReservedMb', Processes) = Sum(mReservedMb, Processes) + mReservedMb'[p] - mReservedMb[p]
      BY <1>1, <2>1, ShareChanges
    <2> QED BY <1>1, <2>2
  <1>3. mReservedMb[p] \in Nat /\ mem \in [reserved : Nat, borrowed : Nat]
    BY DEF ProcessTypes
  <1>4. /\ mem'.reserved = mem.reserved + n - mReservedMb[p] /\ mem'.borrowed = mem.borrowed
        /\ mem' = [reserved |-> mem'.reserved, borrowed |-> mem'.borrowed]
    BY <1>3
  <1>5. mem'.reserved = Sum(mReservedMb', Processes)
    BY <1>2, <1>3, <1>4 DEF Books
  <1>6. mem'.reserved + mem'.borrowed <= AvailableMb
    BY <1>2, <1>3, <1>4, ResourceAssumption DEF Books, Free
  <1>7. mem'.borrowed = Sum(mBorrowedMb', Processes) + InHand'
    BY <1>4 DEF Books
  <1> QED BY <1>2, <1>3, <1>4, <1>5, <1>6, <1>7 DEF Books

\* releaseMemory gives back what the process holds.
LEMMA ReleaseBooked ==
    ASSUME IInv, NEW p \in Processes, ReleaseMemory(p), InHand' = InHand, UNCHANGED mBorrowedMb
    PROVE  Books' /\ mem' \in [reserved : Nat, borrowed : Nat]
  <1>1. mReservedMb[p] \in Nat /\ mem \in [reserved : Nat, borrowed : Nat]
    BY DEF IInv, ProcessTypes
  <1>2. mem' = [mem EXCEPT !.reserved = @ + 0 - mReservedMb[p]]
    BY <1>1 DEF ReleaseMemory
  <1>3. mReservedMb' = [mReservedMb EXCEPT ![p] = 0] /\ 0 <= mReservedMb[p]
    BY <1>1 DEF ReleaseMemory
  <1> QED BY <1>2, <1>3, ReservationBooked DEF IInv

\* A process that is killed does not become NotSpawned, and no other changes.
LEMMA TerminatingTypes ==
    ASSUME ProcessTypes, NEW p, mState' = Terminating(p)
    PROVE  /\ mState' \in [Processes -> {"NotSpawned", "Spawned", "Terminating", "Terminated"}]
           /\ \A q \in Processes : mState'[q] = "NotSpawned" => mState[q] = "NotSpawned"
  BY DEF ProcessTypes, Terminating

\* A change to one group that keeps its limits.
LEMMA GroupKeepsLimits ==
    ASSUME GroupTypes, LimitsInOrder, NEW p \in Groups, NEW r \in GroupRecord,
           r.real <= r.memsw, grp' = [grp EXCEPT ![p] = r]
    PROVE  /\ Groups' = Groups /\ grp' \in [Groups -> GroupRecord]
           /\ LimitsInOrder'
  BY DEF GroupTypes, LimitsInOrder, Groups

-----------------------------------------------------------------------------
(* Spawn. *)

\* Reserve books memory for a process that holds none.
LEMMA ReserveKeeps ==
    ASSUME IInv, NEW p \in Processes, Reserve(p)
    PROVE  IInv'
  <1>1. InHand' = InHand
    BY DEF Reserve, InHand, groupVars
  <1>2. Books' /\ mem' \in [reserved : Nat, borrowed : Nat]
    <2>1. mReservedMb[p] = 0 /\ AssignedMb[p] \in Nat /\ mem \in [reserved : Nat, borrowed : Nat]
      BY ResourceAssumption DEF IInv, NotYetReserved, ProcessTypes, Reserve
    <2>2. mem' = [mem EXCEPT !.reserved = @ + AssignedMb[p] - mReservedMb[p]]
      BY <2>1 DEF Reserve
    <2> QED BY <1>1, <2>1, <2>2, ReservationBooked DEF Reserve, IInv
  <1>3. ProcessTypes'
    BY <1>2, ResourceAssumption DEF IInv, ProcessTypes, Reserve
  <1>4. NotYetReserved'
    BY DEF IInv, NotYetReserved, ProcessTypes, Reserve
  <1>5. GroupTypes' /\ LimitsInOrder' /\ LimitsAccepted'
    BY DEF IInv, GroupTypes, LimitsInOrder, LimitsAccepted, Groups, Reserve, kernelVars, groupVars
  <1> QED BY <1>2, <1>3, <1>4, <1>5 DEF IInv

\* Waiting for a borrower's memory books nothing.
LEMMA ReserveFromBorrowerKeeps ==
    ASSUME IInv, NEW p \in Processes, ReserveFromBorrower(p)
    PROVE  IInv'
  <1>1. InHand' = InHand
    BY DEF ReserveFromBorrower, InHand, groupVars
  <1>2. Books'
    BY <1>1, BooksKept DEF ReserveFromBorrower, IInv
  <1>3. /\ mState' \in [Processes -> {"NotSpawned", "Spawned", "Terminating", "Terminated"}]
        /\ \A q \in Processes : mState'[q] = "NotSpawned" => mState[q] = "NotSpawned"
    BY TerminatingTypes DEF IInv, ReserveFromBorrower
  <1>4. ProcessTypes'
    BY <1>3 DEF IInv, ProcessTypes, ReserveFromBorrower
  <1>5. NotYetReserved'
    BY <1>3 DEF IInv, NotYetReserved, ProcessTypes, ReserveFromBorrower
  <1>6. GroupTypes' /\ LimitsInOrder' /\ LimitsAccepted'
    BY DEF IInv, GroupTypes, LimitsInOrder, LimitsAccepted, Groups, ReserveFromBorrower, kernelVars, groupVars
  <1> QED BY <1>2, <1>4, <1>5, <1>6 DEF IInv

\* A new group's two limits are the same.
LEMMA CreateSubgroupKeeps ==
    ASSUME IInv, NEW p \in Processes, CreateSubgroup(p)
    PROVE  IInv'
  <1>1. InHand' = InHand
    BY DEF CreateSubgroup, InHand, groupVars
  <1>2. Books'
    BY <1>1, BooksKept DEF CreateSubgroup, IInv
  <1>3. ProcessTypes'
    BY DEF IInv, ProcessTypes, CreateSubgroup
  <1>4. NotYetReserved'
    BY DEF IInv, NotYetReserved, ProcessTypes, CreateSubgroup
  <1>5. /\ grp' \in [DOMAIN grp' -> GroupRecord] /\ DOMAIN grp' \subseteq Processes
        /\ \A q \in DOMAIN grp' : grp'[q].real <= grp'[q].memsw
    <2>1. CASE UNCHANGED grp
      BY <2>1 DEF IInv, GroupTypes, LimitsInOrder, Groups
    <2>2. CASE \E limit \in {IF AssignedMb[p] = 0 THEN Huge ELSE AssignedMb[p]} :
                  grp' = [q \in Groups \cup {p} |-> IF q = p THEN NewGroup(limit) ELSE grp[q]]
      <3>1. PICK limit \in Nat :
                  grp' = [q \in Groups \cup {p} |-> IF q = p THEN NewGroup(limit) ELSE grp[q]]
        BY <2>2, ResourceAssumption DEF Huge
      <3>2. NewGroup(limit) \in GroupRecord /\ NewGroup(limit).real <= NewGroup(limit).memsw
        BY DEF NewGroup, GroupRecord
      <3> QED BY <3>1, <3>2 DEF IInv, GroupTypes, LimitsInOrder, Groups
    <2> QED BY <2>1, <2>2 DEF CreateSubgroup
  <1>6. GroupTypes' /\ LimitsInOrder' /\ LimitsAccepted'
    BY <1>5 DEF IInv, GroupTypes, LimitsInOrder, LimitsAccepted, Groups, CreateSubgroup, groupVars
  <1> QED BY <1>2, <1>3, <1>4, <1>6 DEF IInv

\* A process is NotSpawned until its fork, and what was reserved before it stays.
LEMMA ForkKeeps ==
    ASSUME IInv, NEW p \in Processes, Fork(p)
    PROVE  IInv'
  <1>1. InHand' = InHand
    BY DEF Fork, InHand, groupVars
  <1>2. Books'
    BY <1>1, BooksKept DEF Fork, IInv
  <1>3. ProcessTypes'
    BY DEF IInv, ProcessTypes, Fork
  <1>4. NotYetReserved'
    BY DEF IInv, NotYetReserved, ProcessTypes, Fork
  <1>5. GroupTypes' /\ LimitsInOrder' /\ LimitsAccepted'
    BY DEF IInv, GroupTypes, LimitsInOrder, LimitsAccepted, Groups, Fork, groupVars
  <1> QED BY <1>2, <1>3, <1>4, <1>5 DEF IInv

\* A fork that fails gives its reservation back, once.
LEMMA ForkFailsKeeps ==
    ASSUME IInv, NEW p \in Processes, ForkFails(p)
    PROVE  IInv'
  <1>1. InHand' = InHand
    BY DEF ForkFails, InHand, groupVars
  <1>2. Books' /\ mem' \in [reserved : Nat, borrowed : Nat]
    BY <1>1, ReleaseBooked DEF ForkFails
  <1>3. ProcessTypes'
    BY <1>2 DEF IInv, ProcessTypes, ForkFails, ReleaseMemory
  <1>4. NotYetReserved'
    BY DEF IInv, NotYetReserved, ProcessTypes, ForkFails, ReleaseMemory
  <1>5. GroupTypes' /\ LimitsInOrder' /\ LimitsAccepted'
    BY DEF IInv, GroupTypes, LimitsInOrder, LimitsAccepted, Groups, ForkFails, Restrict, groupVars
  <1> QED BY <1>2, <1>3, <1>4, <1>5 DEF IInv

\* The child joins its group after the fork.
LEMMA AddChildKeeps ==
    ASSUME IInv, NEW p \in Processes, AddChild(p)
    PROVE  IInv'
  <1>1. InHand' = InHand
    BY DEF AddChild, InHand, groupVars
  <1>2. Books'
    BY <1>1, BooksKept DEF AddChild, IInv
  <1>3. ProcessTypes'
    BY DEF IInv, ProcessTypes, AddChild
  <1>4. NotYetReserved'
    BY DEF IInv, NotYetReserved, ProcessTypes, AddChild
  <1>5. Groups' = Groups /\ grp' \in [Groups -> GroupRecord] /\ LimitsInOrder'
    <2>1. CASE UNCHANGED grp
      BY <2>1 DEF IInv, GroupTypes, LimitsInOrder, Groups
    <2>2. CASE p \in Groups /\ AddTask(p)
      <3> DEFINE r == [grp[p] EXCEPT !.tasks = @ \cup {"child"}]
      <3>1. grp[p] \in GroupRecord /\ grp[p].real <= grp[p].memsw
        BY <2>2 DEF IInv, GroupTypes, LimitsInOrder
      <3>2. r \in GroupRecord /\ r.real <= r.memsw
        BY <3>1 DEF GroupRecord
      <3>3. grp' = [grp EXCEPT ![p] = r]
        BY <2>2 DEF AddTask
      <3> QED BY <2>2, <3>2, <3>3, GroupKeepsLimits DEF IInv
    <2> QED BY <2>1, <2>2 DEF AddChild
  <1>6. GroupTypes' /\ LimitsAccepted'
    BY <1>5 DEF IInv, GroupTypes, LimitsAccepted, AddChild, groupVars
  <1> QED BY <1>2, <1>3, <1>4, <1>5, <1>6 DEF IInv

-----------------------------------------------------------------------------
(* The kernel, the computations and the watching of groups. *)

\* A step that touches neither shares nor the oom thread, and of the groups only
\* tasks and marks.
LEMMA OutsideKeeps ==
    ASSUME IInv, UNCHANGED <<procVars, oom, aborted>>, DOMAIN mOomFds' \subseteq Processes,
           UNCHANGED grp \/ (Groups' = Groups /\ grp' \in [Groups -> GroupRecord] /\ LimitsInOrder')
    PROVE  IInv'
  <1>1. InHand' = InHand
    BY DEF InHand
  <1>2. Books'
    BY <1>1, BooksKept DEF IInv, procVars
  <1>3. ProcessTypes' /\ NotYetReserved'
    BY DEF IInv, ProcessTypes, NotYetReserved, procVars
  <1>4. LimitsInOrder'
    BY DEF IInv, LimitsInOrder, Groups
  <1>5. GroupTypes'
    BY DEF IInv, GroupTypes, Groups
  <1>6. LimitsAccepted'
    BY DEF IInv, LimitsAccepted
  <1> QED BY <1>2, <1>3, <1>4, <1>5, <1>6 DEF IInv

\* setBaseGroup and the choice of the mode touch no process.
LEMMA InitControlGroupsKeeps == ASSUME IInv, InitControlGroups PROVE IInv'
  <1>1. UNCHANGED <<procVars, oom, aborted, grp, mOomFds>>
    BY DEF InitControlGroups, kernelVars, groupVars
  <1>2. DOMAIN mOomFds' \subseteq Processes
    BY <1>1 DEF IInv, GroupTypes
  <1> QED BY <1>1, <1>2, OutsideKeeps

\* Out of memory, memory given back, an exit and the group's cleanup change tasks
\* and marks of one group.
LEMMA KernelKeeps == ASSUME IInv, NEW p \in Processes, Kernel(p) PROVE IInv'
  <1>1. UNCHANGED <<procVars, oom, aborted, mOomFds>>
    BY DEF Kernel, OutOfMemory, FreesMemory, Exit, GroupCleanup, groupVars
  <1>2. DOMAIN mOomFds' \subseteq Processes
    BY <1>1 DEF IInv, GroupTypes
  <1>3. ASSUME p \in Groups
        PROVE  grp[p] \in GroupRecord /\ grp[p].real <= grp[p].memsw
    BY <1>3 DEF IInv, GroupTypes, LimitsInOrder
  <1>4. UNCHANGED grp \/ \E r \in GroupRecord : /\ p \in Groups /\ r.real <= r.memsw
                                                /\ grp' = [grp EXCEPT ![p] = r]
    <2>1. CASE OutOfMemory(p)
      <3>1. p \in Groups
        BY <2>1 DEF OutOfMemory, Tasks
      <3>2. CASE grp' = [grp EXCEPT ![p].oom = TRUE]
        <4> DEFINE r == [grp[p] EXCEPT !.oom = TRUE]
        <4>1. r \in GroupRecord /\ r.real <= r.memsw
          BY <1>3, <3>1 DEF GroupRecord
        <4>2. grp' = [grp EXCEPT ![p] = r]
          BY <3>2
        <4> QED BY <3>1, <4>1, <4>2
      <3>3. CASE grp' = [grp EXCEPT ![p].tasks = @ \ {"child"}]
        <4> DEFINE r == [grp[p] EXCEPT !.tasks = @ \ {"child"}]
        <4>1. r \in GroupRecord /\ r.real <= r.memsw
          BY <1>3, <3>1 DEF GroupRecord
        <4>2. grp' = [grp EXCEPT ![p] = r]
          BY <3>3
        <4> QED BY <3>1, <4>1, <4>2
      <3> QED BY <2>1, <3>2, <3>3 DEF OutOfMemory
    <2>2. CASE FreesMemory(p)
      <3> DEFINE r == [grp[p] EXCEPT !.oom = FALSE]
      <3>1. p \in Groups /\ grp' = [grp EXCEPT ![p] = r]
        BY <2>2 DEF FreesMemory, UnderOom
      <3>2. r \in GroupRecord /\ r.real <= r.memsw
        BY <1>3, <3>1 DEF GroupRecord
      <3> QED BY <3>1, <3>2
    <2>3. CASE Exit(p)
      <3>1. CASE UNCHANGED grp
        BY <3>1
      <3>2. CASE "child" \in Tasks(p) /\ \E left \in {{}, {"descendant"}} :
                      grp' = [grp EXCEPT ![p].tasks = left, ![p].oom = FALSE]
        <4>1. PICK left \in {{}, {"descendant"}} : grp' = [grp EXCEPT ![p].tasks = left, ![p].oom = FALSE]
          BY <3>2
        <4> DEFINE r == [grp[p] EXCEPT !.tasks = left, !.oom = FALSE]
        <4>2. p \in Groups
          BY <3>2 DEF Tasks
        <4>3. r \in GroupRecord /\ r.real <= r.memsw
          BY <1>3, <4>2 DEF GroupRecord
        <4>4. grp' = [grp EXCEPT ![p] = r]
          BY <4>1, <4>2 DEF Groups
        <4> QED BY <4>2, <4>3, <4>4
      <3> QED BY <2>3, <3>1, <3>2 DEF Exit
    <2>4. CASE GroupCleanup(p)
      <3> DEFINE r == [grp[p] EXCEPT !.tasks = {}]
      <3>1. p \in Groups /\ grp' = [grp EXCEPT ![p] = r]
        BY <2>4 DEF GroupCleanup, Tasks
      <3>2. r \in GroupRecord /\ r.real <= r.memsw
        BY <1>3, <3>1 DEF GroupRecord
      <3> QED BY <3>1, <3>2
    <2> QED BY <2>1, <2>2, <2>3, <2>4 DEF Kernel
  <1>5. UNCHANGED grp \/ (Groups' = Groups /\ grp' \in [Groups -> GroupRecord] /\ LimitsInOrder')
    BY <1>4, GroupKeepsLimits DEF IInv
  <1> QED BY <1>1, <1>2, <1>5, OutsideKeeps

\* Watching a group marks it.
LEMMA MonitorOomKeeps == ASSUME IInv, NEW p \in Processes, MonitorOom(p) PROVE IInv'
  <1>1. UNCHANGED <<procVars, oom, aborted>> /\ p \in Groups
    BY DEF MonitorOom
  <1>2. DOMAIN mOomFds' \subseteq Processes
    BY DEF MonitorOom, AddOomFd, IInv, GroupTypes
  <1>3. grp[p] \in GroupRecord /\ grp[p].real <= grp[p].memsw
    BY <1>1 DEF IInv, GroupTypes, LimitsInOrder
  <1> DEFINE r == [grp[p] EXCEPT !.watched = TRUE]
  <1>4. r \in GroupRecord /\ r.real <= r.memsw
    BY <1>3 DEF GroupRecord
  <1>5. grp' = [grp EXCEPT ![p] = r]
    BY DEF MonitorOom
  <1> HIDE DEF r
  <1>6. Groups' = Groups /\ grp' \in [Groups -> GroupRecord] /\ LimitsInOrder'
    BY <1>1, <1>4, <1>5, GroupKeepsLimits DEF IInv
  <1> QED BY <1>1, <1>2, <1>6, OutsideKeeps

\* A descriptor that is no longer watched leaves the list.
LEMMA UnmonitorKeeps == ASSUME IInv, NEW t \in Threads, Unmonitor(t) PROVE IInv'
  <1>1. UNCHANGED <<procVars, oom, aborted, grp>>
    BY DEF Unmonitor, UnmonitorGet, UnmonitorClose, UnmonitorForget, kernelVars
  <1>2. DOMAIN mOomFds' \subseteq Processes
    BY DEF Unmonitor, UnmonitorGet, UnmonitorClose, UnmonitorForget, Restrict, IInv, GroupTypes
  <1> QED BY <1>1, <1>2, OutsideKeeps

-----------------------------------------------------------------------------
(* The exit monitor. *)

\* exit_cb gives back what the process holds and books zero for it, so that a
\* second release gives nothing.
LEMMA ExitCallbackKeeps == ASSUME IInv, NEW p \in Processes, ExitCallback(p) PROVE IInv'
  <1>1. InHand' = InHand
    BY DEF ExitCallback, InHand
  <1>2. Books' /\ mem' \in [reserved : Nat, borrowed : Nat]
    BY <1>1, ReleaseBooked DEF ExitCallback
  <1>3. ProcessTypes'
    BY <1>2 DEF IInv, ProcessTypes, ExitCallback, ReleaseMemory
  <1>4. NotYetReserved'
    BY DEF IInv, NotYetReserved, ProcessTypes, ExitCallback, ReleaseMemory
  <1>5. GroupTypes' /\ LimitsInOrder' /\ LimitsAccepted'
    BY DEF IInv, GroupTypes, LimitsInOrder, LimitsAccepted, Groups, ExitCallback
  <1> QED BY <1>2, <1>3, <1>4, <1>5 DEF IInv

\* Removing a group leaves the limits of the others.
LEMMA DestroyKeeps == ASSUME IInv, Destroy PROVE IInv'
  <1>1. InHand' = InHand
    BY DEF Destroy, InHand
  <1>2. Books'
    BY <1>1, BooksKept DEF Destroy, IInv
  <1>3. ProcessTypes' /\ NotYetReserved'
    BY DEF IInv, ProcessTypes, NotYetReserved, Destroy
  <1>4. GroupTypes' /\ LimitsInOrder' /\ LimitsAccepted'
    BY DEF IInv, GroupTypes, LimitsInOrder, LimitsAccepted, Groups, Destroy, DestroyGroup, Restrict
  <1> QED BY <1>2, <1>3, <1>4 DEF IInv

\* A process that ends is Terminated and not NotSpawned again.
LEMMA MarkTerminatedKeeps == ASSUME IInv, MarkTerminated PROVE IInv'
  <1>1. InHand' = InHand
    BY DEF MarkTerminated, InHand
  <1>2. Books'
    BY <1>1, BooksKept DEF MarkTerminated, IInv
  <1>3. ProcessTypes'
    BY DEF IInv, ProcessTypes, MarkTerminated
  <1>4. NotYetReserved'
    BY DEF IInv, ProcessTypes, NotYetReserved, MarkTerminated
  <1>5. GroupTypes' /\ LimitsInOrder' /\ LimitsAccepted'
    BY DEF IInv, GroupTypes, LimitsInOrder, LimitsAccepted, Groups, MarkTerminated, kernelVars
  <1> QED BY <1>2, <1>3, <1>4, <1>5 DEF IInv

-----------------------------------------------------------------------------
(* The out-of-memory thread. *)

\* A round that starts, goes on or ends has nothing in hand, and its groups are
\* processes.
LEMMA RoundKeeps ==
    ASSUME IInv, oom.pc # "lend", NEW gs \in SUBSET Processes, Handle(gs),
           UNCHANGED <<procVars, grp, mOomFds, aborted>>
    PROVE  IInv'
  <1>1. InHand' = InHand
    BY DEF Handle, InHand
  <1>2. Books'
    BY <1>1, BooksKept DEF IInv, procVars
  <1>3. ProcessTypes' /\ NotYetReserved'
    BY DEF IInv, ProcessTypes, NotYetReserved, procVars
  <1>4. GroupTypes' /\ LimitsInOrder' /\ LimitsAccepted'
    BY DEF IInv, GroupTypes, LimitsInOrder, LimitsAccepted, Groups, Handle
  <1> QED BY <1>2, <1>3, <1>4 DEF IInv

\* waitOomStatus lists processes; a round ends or goes on with the rest.
LEMMA WaitsAndSkipsKeep == ASSUME IInv, WaitSlow \/ WaitEvent \/ SkipRound \/ KillDone PROVE IInv'
  <1>1. oom.pc # "lend" /\ UNCHANGED <<procVars, grp, mOomFds, aborted>>
    BY DEF WaitSlow, WaitEvent, SkipRound, KillDone, kernelVars
  <1>2. \E gs \in {ScanOomStatus, {}, OtherGroups} : Handle(gs)
    BY DEF WaitSlow, WaitEvent, SkipRound, KillDone
  <1>3. {ScanOomStatus, {}, OtherGroups} \subseteq SUBSET Processes
    BY DEF IInv, GroupTypes, ScanOomStatus, OtherGroups
  <1>4. PICK gs \in SUBSET Processes : Handle(gs)
    BY <1>2, <1>3
  <1> QED BY <1>1, <1>4, RoundKeeps

\* borrow takes from what is free, and the thread has it in hand.
LEMMA BorrowKeeps == ASSUME IInv, aborted = "no", Borrow PROVE IInv'
  <1>1. /\ mem \in [reserved : Nat, borrowed : Nat]
        /\ oom \in [pc : {"wait", "group", "lend", "unmonitor"}, groups : SUBSET Processes]
    BY DEF IInv, ProcessTypes, GroupTypes
  <1>2. mem' = [reserved |-> mem.reserved, borrowed |-> mem.borrowed + 1]
    BY <1>1 DEF Borrow
  <1>3. oom' = [pc |-> "lend", groups |-> oom.groups] /\ oom.pc = "group"
    BY <1>1 DEF Borrow
  <1>4. InHand = 0 /\ InHand' = 1
    BY <1>3 DEF InHand, Borrow
  <1>5. Books'
    <2>1. mem.reserved + mem.borrowed + 1 <= AvailableMb
      BY <1>1, ResourceAssumption DEF Borrow, Lends, Free
    <2>2. mem.borrowed = Sum(mBorrowedMb, Processes) + 0 /\ mem.reserved = Sum(mReservedMb, Processes)
      BY <1>4 DEF IInv, Books
    <2>3. Sum(mBorrowedMb, Processes) \in Nat
      <3>1. mBorrowedMb \in [Processes -> Nat] /\ 1 \in Processes
        BY ResourceAssumption DEF IInv, ProcessTypes, Processes
      <3> QED BY <3>1, ShareChanges
    <2> QED BY <1>1, <1>2, <1>4, <2>1, <2>2, <2>3 DEF Books, Borrow
  <1>6. ProcessTypes' /\ NotYetReserved'
    BY <1>1, <1>2 DEF IInv, ProcessTypes, NotYetReserved, Borrow
  <1>7. GroupTypes' /\ LimitsInOrder' /\ LimitsAccepted'
    BY <1>3 DEF IInv, GroupTypes, LimitsInOrder, LimitsAccepted, Groups, Borrow, kernelVars
  <1> QED BY <1>5, <1>6, <1>7 DEF IInv

\* changeMemoryLimit: whatever the old and the new limit, both writes are accepted.
LEMMA LimitsCanChange ==
    ASSUME NEW g \in GroupRecord, g.real <= g.memsw, NEW total \in Nat
    PROVE  LET order == LimitWrites(g, total)
               g1 == Write(g, order[1], total)
               g2 == Write(g1, order[2], total)
           IN  Accepted(g1) /\ Accepted(g2) /\ g2 \in GroupRecord
  <1> DEFINE order == LimitWrites(g, total)
             g1 == Write(g, order[1], total)
             g2 == Write(g1, order[2], total)
  <1>1. CASE total > g.memsw
    <2>1. order[1] = "memsw" /\ order[2] = "real"
      BY <1>1 DEF LimitWrites
    <2>2. g1 = [g EXCEPT !.memsw = total]
      BY <2>1 DEF Write
    <2>3. g1 \in GroupRecord /\ Accepted(g1) /\ g1.memsw = total
      BY <1>1, <2>2 DEF Accepted, GroupRecord
    <2>4. g2 = [g1 EXCEPT !.real = total]
      BY <2>1 DEF Write
    <2> HIDE DEF g1, g2
    <2>5. g2 \in GroupRecord /\ g2.memsw = total /\ g2.real = total
      BY <2>3, <2>4 DEF GroupRecord
    <2> QED BY <2>3, <2>5 DEF Accepted, g1, g2
  <1>2. CASE ~(total > g.memsw)
    <2>1. order[1] = "real" /\ order[2] = "memsw"
      BY <1>2 DEF LimitWrites
    <2>2. g1 = [g EXCEPT !.real = total]
      BY <2>1 DEF Write
    <2>3. g1 \in GroupRecord /\ Accepted(g1) /\ g1.real = total
      BY <1>2, <2>2 DEF Accepted, GroupRecord
    <2>4. g2 = [g1 EXCEPT !.memsw = total]
      BY <2>1 DEF Write
    <2> HIDE DEF g1, g2
    <2>5. g2 \in GroupRecord /\ g2.real = total /\ g2.memsw = total
      BY <2>3, <2>4 DEF GroupRecord
    <2> QED BY <2>3, <2>5 DEF Accepted, g1, g2
  <1> QED BY <1>1, <1>2

\* The loan in hand is booked on the process, and its new limit accepted or its
\* group gone.
LEMMA LendKeeps == ASSUME IInv, aborted = "no", Lend PROVE IInv'
  <1> DEFINE p == FirstGroup
             total == mBorrowedMb[p] + 1 + mReservedMb[p]
             order == LimitWrites(grp[p], total)
             g1 == Write(grp[p], order[1], total)
             g2 == Write(g1, order[2], total)
  <1>1. /\ oom.pc = "lend" /\ mBorrowedMb' = [mBorrowedMb EXCEPT ![p] = @ + 1]
        /\ UNCHANGED <<mState, spawning, mReservedMb, mem, mOomFds>>
    BY DEF Lend
  <1>2. p \in Processes
    BY <1>1, FirstIsListed DEF IInv, GroupTypes
  <1>3. mBorrowedMb[p] \in Nat /\ mReservedMb[p] \in Nat /\ total \in Nat
    BY <1>2 DEF IInv, ProcessTypes
  <1>4. ProcessTypes' /\ NotYetReserved'
    BY <1>1, <1>2, <1>3 DEF IInv, ProcessTypes, NotYetReserved
  <1>5. InHand = 1 /\ InHand' = 0 => Books'
    <2>1. /\ mBorrowedMb \in [Processes -> Nat] /\ mBorrowedMb' \in [Processes -> Nat]
          /\ \A q \in Processes : q # p => mBorrowedMb'[q] = mBorrowedMb[q]
          /\ mBorrowedMb'[p] = mBorrowedMb[p] + 1
      BY <1>1, <1>2 DEF IInv, ProcessTypes
    <2> HIDE DEF p
    <2>2. /\ Sum(mBorrowedMb, Processes) \in Nat /\ Sum(mBorrowedMb', Processes) \in Nat
          /\ Sum(mBorrowedMb', Processes) = Sum(mBorrowedMb, Processes) + mBorrowedMb'[p] - mBorrowedMb[p]
      BY <1>2, <2>1, ShareChanges
    <2> QED BY <1>1, <1>3, <2>1, <2>2 DEF IInv, Books
  <1>6. InHand = 1
    BY <1>1 DEF InHand
  <1>7. CASE p \notin Groups
    <2>1. aborted' = "group gone" /\ UNCHANGED <<grp, oom>>
      BY <1>7 DEF Lend
    <2>2. GroupTypes' /\ LimitsInOrder' /\ LimitsAccepted'
      BY <1>1, <2>1 DEF IInv, GroupTypes, LimitsInOrder, LimitsAccepted, Groups
    <2>3. InHand' = 0
      BY <2>1 DEF InHand
    <2> QED BY <1>4, <1>5, <1>6, <2>2, <2>3 DEF IInv
  <1>8. CASE p \in Groups
    <2>1. grp[p] \in GroupRecord /\ grp[p].real <= grp[p].memsw
      BY <1>8 DEF IInv, GroupTypes, LimitsInOrder
    <2>2. Accepted(g1) /\ Accepted(g2) /\ g2 \in GroupRecord
      <3> HIDE DEF total
      <3> QED BY <1>3, <2>1, LimitsCanChange
    <2>3. /\ grp' = [grp EXCEPT ![p] = [g2 EXCEPT !.oom = @ /\ total <= grp[p].real]]
          /\ Handle(OtherGroups) /\ aborted' = aborted
      BY <1>8, <2>2 DEF Lend
    <2> DEFINE r == [g2 EXCEPT !.oom = @ /\ total <= grp[p].real]
    <2>4. r \in GroupRecord /\ r.real <= r.memsw
      <3> HIDE DEF total, g2
      <3>1. g2 \in GroupRecord /\ g2.real <= g2.memsw
        BY <2>2 DEF Accepted
      <3>2. ASSUME NEW b \in BOOLEAN
            PROVE  /\ [g2 EXCEPT !.oom = b] \in GroupRecord
                   /\ [g2 EXCEPT !.oom = b].real <= [g2 EXCEPT !.oom = b].memsw
        BY <3>1 DEF GroupRecord
      <3> DEFINE b == g2.oom /\ total <= grp[p].real
      <3>3. b \in BOOLEAN
        OBVIOUS
      <3>4. r = [g2 EXCEPT !.oom = b]
        OBVIOUS
      <3> HIDE DEF b, r
      <3> QED BY <3>2, <3>3, <3>4
    <2>5. Groups' = Groups /\ grp' \in [Groups -> GroupRecord] /\ LimitsInOrder'
      <3> HIDE DEF r
      <3> QED BY <1>8, <2>3, <2>4, GroupKeepsLimits DEF IInv, r
    <2>6. InHand' = 0
      BY <2>3 DEF InHand, Handle
    <2>7. GroupTypes' /\ LimitsAccepted'
      <3>1. OtherGroups \in SUBSET Processes
        BY DEF IInv, GroupTypes, OtherGroups
      <3> HIDE DEF p, total, g2, r
      <3> QED BY <1>1, <2>3, <2>5, <3>1 DEF IInv, GroupTypes, LimitsAccepted, Handle
    <2> QED BY <1>4, <1>5, <1>6, <2>5, <2>6, <2>7 DEF IInv
  <1> QED BY <1>7, <1>8

\* A process that cannot be lent to is killed; it keeps what it holds.
LEMMA KillProcessKeeps == ASSUME IInv, KillProcess PROVE IInv'
  <1>1. oom \in [pc : {"wait", "group", "lend", "unmonitor"}, groups : SUBSET Processes]
    BY DEF IInv, GroupTypes
  <1>2. oom' = [pc |-> "unmonitor", groups |-> oom.groups] /\ oom.pc = "group"
    BY <1>1 DEF KillProcess
  <1>3. InHand' = InHand
    BY <1>2 DEF InHand, KillProcess
  <1>4. Books'
    BY <1>3, BooksKept DEF KillProcess, IInv
  <1>5. /\ mState' \in [Processes -> {"NotSpawned", "Spawned", "Terminating", "Terminated"}]
        /\ \A q \in Processes : mState'[q] = "NotSpawned" => mState[q] = "NotSpawned"
    BY TerminatingTypes DEF IInv, KillProcess
  <1>6. ProcessTypes' /\ NotYetReserved'
    BY <1>5 DEF IInv, ProcessTypes, NotYetReserved, KillProcess
  <1>7. GroupTypes' /\ LimitsInOrder' /\ LimitsAccepted'
    BY <1>2 DEF IInv, GroupTypes, LimitsInOrder, LimitsAccepted, Groups, KillProcess, kernelVars
  <1> QED BY <1>4, <1>6, <1>7 DEF IInv

-----------------------------------------------------------------------------
(* Theorems. *)

\* Every step keeps the invariant.
LEMMA NextKeeps == IInv /\ [Next]_vars => IInv'
  <1> SUFFICES ASSUME IInv, [Next]_vars PROVE IInv'
    OBVIOUS
  <1>1. CASE UNCHANGED vars
    <2>1. UNCHANGED <<procVars, oom, aborted, grp, mOomFds>>
      BY <1>1 DEF vars, kernelVars, groupVars
    <2>2. DOMAIN mOomFds' \subseteq Processes
      BY <2>1 DEF IInv, GroupTypes
    <2> QED BY <2>1, <2>2, OutsideKeeps
  <1>2. CASE Next
    <2>1. CASE InitControlGroups
      BY <2>1, InitControlGroupsKeeps
    <2>2. ASSUME NEW p \in Processes, Spawn(p) PROVE IInv'
      BY <2>2, ReserveKeeps, ReserveFromBorrowerKeeps, CreateSubgroupKeeps, ForkKeeps,
         ForkFailsKeeps, AddChildKeeps DEF Spawn
    <2>3. ASSUME NEW p \in Processes, Kernel(p) \/ MonitorOom(p) PROVE IInv'
      BY <2>3, KernelKeeps, MonitorOomKeeps
    <2>4. ASSUME NEW t \in Threads, Unmonitor(t) PROVE IInv'
      BY <2>4, UnmonitorKeeps
    <2>5. CASE Reaper
      BY <2>5, ExitCallbackKeeps, DestroyKeeps, MarkTerminatedKeeps DEF Reaper
    <2>6. CASE OomThread
      <3>1. aborted = "no"
        BY <1>2 DEF Next
      <3> QED BY <2>6, <3>1, WaitsAndSkipsKeep, BorrowKeeps, LendKeeps, KillProcessKeeps DEF OomThread
    <2> QED BY <1>2, <2>1, <2>2, <2>3, <2>4, <2>5, <2>6 DEF Next
  <1> QED BY <1>1, <1>2

\* The invariant holds throughout.
THEOREM BooksAreKept == Spec => []IInv
  BY InitIInv, NextKeeps, PTL DEF Spec

\* MemoryTracking's totals are what the processes hold and never exceed the memory
\* there is, whatever fails, ends or is lent to in the meantime.
THEOREM MemoryIsNotOversold == Spec => []NotOversold
  <1>1. IInv => NotOversold
    <2> SUFFICES ASSUME IInv PROVE NotOversold
      OBVIOUS
    <2>1. Books
      BY DEF IInv
    <2>2. /\ Sum(mReservedMb, Processes) = MapThenSumSet(LAMBDA p : mReservedMb[p], Processes)
          /\ Sum(mBorrowedMb, Processes) = MapThenSumSet(LAMBDA p : mBorrowedMb[p], Processes)
      BY DEF Sum
    <2> QED BY <2>1, <2>2 DEF Books, NotOversold, InHand
  <1> QED BY <1>1, BooksAreKept, PTL

\* The kernel never refuses a limit that changeMemoryLimit writes.
THEOREM LimitsAreAccepted == Spec => []LimitsAccepted
  <1>1. IInv => LimitsAccepted
    BY DEF IInv
  <1> QED BY <1>1, BooksAreKept, PTL
=============================================================================
