---------------------------- MODULE ServicesProofs ----------------------------
(***************************************************************************)
(* The components beside the message path, each with the invariant that    *)
(* its own steps keep: the routing table, an exchange over HTTP, the       *)
(* resolution of packages, the player of recorded messages, the launch of  *)
(* a computation and its limits, the log read page by page, the services a *)
(* client asks, and the capture of a program's output.                     *)
(***************************************************************************)
EXTENDS Services, Addressing, FiniteSetTheorems, FunctionTheorems, SequenceTheorems,
        WellFoundedInduction, TLAPS

-----------------------------------------------------------------------------
(* Recursive functions over an interval. *)

\* A set of naturals has a least element.
LEMMA LeastOf ==
    ASSUME NEW T, T \subseteq Nat, T # {}
    PROVE  \E x \in T : \A y \in T : x <= y
  <1> DEFINE R == {ss \in Nat \X Nat : ss[1] < ss[2]}
  <1>1. IsWellFoundedOn(R, Nat)
    BY NatLessThanWellFounded DEF OpToRel
  <1>2. \A x, y \in Nat : x < y => <<x, y>> \in R
    OBVIOUS
  <1> HIDE DEF R
  <1>3. \E x \in T : \A y \in T : ~(<<y, x>> \in R)
    BY <1>1, WFMin, Zenon
  <1>4. PICK x \in T : \A y \in T : ~(<<y, x>> \in R)
    BY <1>3
  <1>5. ASSUME NEW y \in T PROVE x <= y
    <2>1. ~(<<y, x>> \in R)
      BY <1>4
    <2>2. y \in Nat /\ x \in Nat
      OBVIOUS
    <2>3. ~(y < x)
      BY <1>2, <2>1, <2>2
    <2> QED BY <2>2, <2>3
  <1> QED BY <1>5

\* What holds at the end of an interval, and below a place where it holds, holds on all of it.
LEMMA Backwards ==
    ASSUME NEW lo \in Nat, NEW hi \in Nat, lo <= hi, NEW H, hi \in H,
           \A i \in lo .. hi - 1 : i + 1 \in H => i \in H
    PROVE  \A i \in lo .. hi : i \in H
  <1> SUFFICES ASSUME NEW i \in lo .. hi, i \notin H PROVE FALSE
    OBVIOUS
  <1> DEFINE T == {d \in Nat : d <= hi - lo /\ hi - d \notin H}
  <1>1. hi - i \in Nat /\ hi - i <= hi - lo /\ hi - (hi - i) = i
    OBVIOUS
  <1>2. hi - i \in T
    BY <1>1
  <1>3. PICK d \in T : \A e \in T : d <= e
    BY <1>2, LeastOf
  <1>4. d # 0 /\ d \in Nat /\ d <= hi - lo /\ hi - d \notin H
    BY <1>3
  <1>5. d - 1 \notin T
    BY <1>3, <1>4
  <1>6. hi - (d - 1) \in H
    BY <1>4, <1>5
  <1>7. hi - d \in lo .. hi - 1 /\ (hi - d) + 1 = hi - (d - 1)
    BY <1>4
  <1> QED BY <1>4, <1>6, <1>7

\* f is given at the end of an interval, and elsewhere by its next value.
ByNextValue(f, lo, hi, S, base, step) ==
    f \in [lo .. hi -> S] /\ f[hi] = base /\ \A i \in lo .. hi - 1 : f[i] = step[<<i, f[i + 1]>>]
IsStep(step, S) == step \in [Nat \X S -> S]

\* Such a function exists.
LEMMA FunctionExists ==
    ASSUME NEW lo \in Nat, NEW hi \in Nat, lo <= hi, NEW S, NEW base \in S, NEW step, IsStep(step, S)
    PROVE  \E f : ByNextValue(f, lo, hi, S, base, step)
  <1> USE DEF IsStep
  <1> DEFINE Good(k, f) == f \in [k .. hi -> S] /\ f[hi] = base /\ \A i \in k .. hi - 1 : f[i] = step[<<i, f[i + 1]>>]
             H == {k \in lo .. hi : \E f : Good(k, f)}
  <1>1. hi \in H
    <2> DEFINE f == [i \in hi .. hi |-> base]
    <2>1. hi \in hi .. hi /\ hi .. hi - 1 = {} /\ hi \in lo .. hi
      OBVIOUS
    <2>2. Good(hi, f)
      BY <2>1
    <2> QED BY <2>1, <2>2
  <1>2. ASSUME NEW k \in lo .. hi - 1, k + 1 \in H PROVE k \in H
    <2>1. PICK f : Good(k + 1, f)
      BY <1>2
    <2> DEFINE g == [i \in k .. hi |-> IF i = k THEN step[<<k, f[k + 1]>>] ELSE f[i]]
    <2>2. /\ k \in Nat /\ k \in lo .. hi /\ k + 1 \in k + 1 .. hi /\ hi \in k + 1 .. hi
          /\ \A i \in k .. hi : i # k => i \in k + 1 .. hi
          /\ \A i \in k .. hi - 1 : i + 1 \in k + 1 .. hi /\ i + 1 \in k .. hi /\ i + 1 # k /\ i \in k .. hi
          /\ \A i \in k .. hi - 1 : i # k => i \in k + 1 .. hi - 1
      OBVIOUS
    <2>3. f[k + 1] \in S /\ step[<<k, f[k + 1]>>] \in S
      BY <2>1, <2>2
    <2>4. g \in [k .. hi -> S]
      BY <2>1, <2>2, <2>3
    <2>5. g[hi] = base
      BY <2>1, <2>2
    <2>6. ASSUME NEW i \in k .. hi - 1 PROVE g[i] = step[<<i, g[i + 1]>>]
      <3>1. g[i + 1] = f[i + 1]
        BY <2>2
      <3>2. CASE i = k
        BY <2>2, <3>1, <3>2
      <3>3. CASE i # k
        BY <2>1, <2>2, <3>1, <3>3
      <3> QED BY <3>2, <3>3
    <2> HIDE DEF g
    <2>7. Good(k, g)
      BY <2>4, <2>5, <2>6
    <2> QED BY <2>2, <2>7
  <1> HIDE DEF H
  <1>3. lo \in H
    <2>1. \A i \in lo .. hi : i \in H
      BY <1>1, <1>2, Backwards
    <2> QED BY <2>1
  <1> QED BY <1>3 DEF H, ByNextValue

-----------------------------------------------------------------------------
(* Ascending sequences. *)

Ascends(s) == s \in Seq(Int) /\ \A i, j \in 1 .. Len(s) : i < j => s[i] < s[j]
Elements(s) == {s[i] : i \in 1 .. Len(s)}

\* A smaller element put in front.
LEMMA PutFirst ==
    ASSUME NEW s, Ascends(s), NEW v \in Int, \A e \in Elements(s) : v < e
    PROVE  Ascends(<<v>> \o s) /\ Elements(<<v>> \o s) = {v} \cup Elements(s)
  <1> DEFINE z == <<v>> \o s
             n == Len(s)
  <1>1. s \in Seq(Int) /\ n \in Nat /\ z \in Seq(Int) /\ Len(z) = n + 1 /\ z[1] = v
        /\ \A i \in 2 .. n + 1 : z[i] = s[i - 1]
    BY DEF Ascends
  <1>2. \A i, j \in 1 .. n : i < j => s[i] < s[j]
    BY DEF Ascends
  <1>3. \A i \in 1 .. n : s[i] \in Int /\ v < s[i]
    BY <1>1 DEF Elements
  <1> HIDE DEF z, n
  <1>4. \A i \in 1 .. n + 1 : i = 1 \/ (i \in 2 .. n + 1 /\ i - 1 \in 1 .. n)
    BY <1>1
  <1>5. ASSUME NEW i \in 1 .. n + 1, NEW j \in 1 .. n + 1, i < j PROVE z[i] < z[j]
    <2>1. j \in 2 .. n + 1 /\ j - 1 \in 1 .. n /\ z[j] = s[j - 1]
      <3>1. j # 1
        BY <1>1, <1>5
      <3>2. j \in 2 .. n + 1 /\ j - 1 \in 1 .. n
        BY <1>4, <3>1
      <3> QED BY <1>1, <3>2
    <2>2. CASE i = 1
      BY <1>1, <1>3, <2>1, <2>2
    <2>3. CASE i # 1
      <3>2. i \in 2 .. n + 1 /\ i - 1 \in 1 .. n
        BY <1>4, <2>3
      <3>3. z[i] = s[i - 1]
        BY <1>1, <3>2
      <3>4. i - 1 < j - 1
        BY <1>1, <1>5
      <3>1. i - 1 \in 1 .. n /\ z[i] = s[i - 1] /\ i - 1 < j - 1
        BY <3>2, <3>3, <3>4
      <3> QED BY <1>2, <2>1, <3>1
    <2> QED BY <2>2, <2>3
  <1>6. Ascends(z)
    BY <1>1, <1>5 DEF Ascends
  <1>7. {z[i] : i \in 1 .. n + 1} = {v} \cup {s[i] : i \in 1 .. n}
    <2>1. ASSUME NEW i \in 1 .. n + 1 PROVE z[i] = v \/ \E j \in 1 .. n : z[i] = s[j]
      BY <1>1, <1>4
    <2>2. 1 \in 1 .. n + 1 /\ z[1] = v
      BY <1>1
    <2>3. ASSUME NEW j \in 1 .. n PROVE \E i \in 1 .. n + 1 : z[i] = s[j]
      <3>1. j + 1 \in 2 .. n + 1 /\ j + 1 \in 1 .. n + 1 /\ (j + 1) - 1 = j
        BY <1>1
      <3> QED BY <1>1, <3>1
    <2> QED BY <2>1, <2>2, <2>3
  <1> QED BY <1>1, <1>6, <1>7 DEF z, n, Elements

\* f takes, from the end, those values of a that are in S.
AscendsOn(a, lo, hi) ==
    (\A i \in lo .. hi - 1 : a[i] \in Int) /\ \A i, j \in lo .. hi - 1 : i < j => a[i] < a[j]
Chooses(f, a, lo, hi, S) ==
    /\ f[hi] = << >>
    /\ \A i \in lo .. hi - 1 : f[i] = IF a[i] \in S THEN <<a[i]>> \o f[i + 1] ELSE f[i + 1]
ChosenFrom(s, a, lo, hi, S) == Ascends(s) /\ Elements(s) = {a[i] : i \in lo .. hi - 1} \cap S

\* From an ascending function those of its values that are in a set.
LEMMA ChosenAscends ==
    ASSUME NEW lo \in Nat, NEW hi \in Nat, lo <= hi, NEW a, NEW S, NEW f, AscendsOn(a, lo, hi), Chooses(f, a, lo, hi, S)
    PROVE  ChosenFrom(f[lo], a, lo, hi, S)
  <1> USE DEF AscendsOn, Chooses
  <1> DEFINE H == {i \in lo .. hi : Ascends(f[i]) /\ Elements(f[i]) = {a[j] : j \in i .. hi - 1} \cap S}
  <1>1. hi \in H
    <2>1. << >> \in Seq(Int) /\ Len(<< >>) = 0 /\ 1 .. 0 = {} /\ hi .. hi - 1 = {} /\ hi \in lo .. hi
      OBVIOUS
    <2>2. Ascends(<< >>) /\ Elements(<< >>) = {}
      BY <2>1 DEF Ascends, Elements
    <2> QED BY <2>1, <2>2
  <1>2. ASSUME NEW i \in lo .. hi - 1, i + 1 \in H PROVE i \in H
    <2>1. Ascends(f[i + 1]) /\ Elements(f[i + 1]) = {a[j] : j \in i + 1 .. hi - 1} \cap S
      BY <1>2
    <2>2. i \in lo .. hi /\ i \in i .. hi - 1 /\ (\A j \in i .. hi - 1 : j = i \/ j \in i + 1 .. hi - 1)
          /\ \A j \in i + 1 .. hi - 1 : j \in i .. hi - 1 /\ i < j /\ j \in lo .. hi - 1
      OBVIOUS
    <2>3. {a[j] : j \in i .. hi - 1} = {a[i]} \cup {a[j] : j \in i + 1 .. hi - 1}
      BY <2>2
    <2>4. CASE a[i] \in S
      <3>1. \A e \in Elements(f[i + 1]) : a[i] < e
        BY <2>1, <2>2
      <3>2. a[i] \in Int
        OBVIOUS
      <3>3. Ascends(<<a[i]>> \o f[i + 1]) /\ Elements(<<a[i]>> \o f[i + 1]) = {a[i]} \cup Elements(f[i + 1])
        BY <2>1, <3>1, <3>2, PutFirst
      <3>4. f[i] = <<a[i]>> \o f[i + 1]
        BY <2>4
      <3> QED BY <2>1, <2>2, <2>3, <2>4, <3>3, <3>4
    <2>5. CASE a[i] \notin S
      <3>1. f[i] = f[i + 1]
        BY <2>5
      <3> QED BY <2>1, <2>2, <2>3, <2>5, <3>1
    <2> QED BY <2>4, <2>5
  <1> HIDE DEF H
  <1>3. lo \in H
    <2>1. \A i \in lo .. hi : i \in H
      BY <1>1, <1>2, Backwards
    <2> QED BY <2>1
  <1> QED BY <1>3 DEF H, ChosenFrom

\* The place of an element is the number of elements up to it, and the length the number of all.
LEMMA PlaceIsRank ==
    ASSUME NEW s, Ascends(s), NEW k \in 0 .. Len(s)
    PROVE  LET below == {s[i] : i \in 1 .. k} IN IsFiniteSet(below) /\ Cardinality(below) = k
  <1> DEFINE g == [i \in 1 .. k |-> s[i]]
             below == {s[i] : i \in 1 .. k}
  <1>1. s \in Seq(Int) /\ Len(s) \in Nat /\ k \in Nat /\ \A i \in 1 .. k : i \in 1 .. Len(s)
    BY DEF Ascends
  <1>2. ASSUME NEW i \in 1 .. k, NEW j \in 1 .. k, i # j PROVE s[i] # s[j]
    <2>1. s[i] \in Int /\ s[j] \in Int /\ (i < j => s[i] < s[j]) /\ (j < i => s[j] < s[i])
      BY <1>1 DEF Ascends
    <2>2. i < j \/ j < i
      BY <1>2
    <2> QED BY <2>1, <2>2
  <1>3. g \in Bijection(1 .. k, below)
    <2>1. g \in [1 .. k -> below] /\ DOMAIN g = 1 .. k
      OBVIOUS
    <2>2. \A i, j \in 1 .. k : g[i] = g[j] => i = j
      BY <1>2
    <2>3. \A e \in below : \E i \in 1 .. k : g[i] = e
      OBVIOUS
    <2> HIDE DEF g, below
    <2> QED BY <2>1, <2>2, <2>3 DEF Bijection, Injection, Surjection, IsInjective
  <1>4. IsFiniteSet(1 .. k) /\ Cardinality(1 .. k) = k
    BY <1>1, FS_Interval
  <1>5. ExistsBijection(1 .. k, below)
    BY <1>3 DEF ExistsBijection
  <1> HIDE DEF below
  <1>6. IsFiniteSet(below) /\ Cardinality(below) = Cardinality(1 .. k)
    BY <1>4, <1>5, FS_Bijection
  <1> QED BY <1>4, <1>6 DEF below

-----------------------------------------------------------------------------
(* The routing table of the message path. *)

\* The table being built lists the computations of its own routing data.
DraftListsAll ==
    update = "filters" => mAllAddresses = Each(building.known \ {Client})

\* The inductive invariant: the loop invariant of the constructor carries the
\* table from one filter to the next, and Install hands it over.
AddressingInv == TypeOK /\ DraftFollowsFilters /\ DraftListsAll /\ TableFollowsFilters

\* What the assumption says of one definition.
LEMMA DefinitionType ==
  ASSUME NEW def \in Definitions
  PROVE  /\ def.source \in BOOLEAN
         /\ def.known \subseteq Dests /\ def.listed \subseteq Dests
         /\ \A d \in Dests : def.accept[d] \in [Messages -> Nat]
         /\ \A d \in Dests : def.ignore[d] \subseteq Messages
         /\ def # NoDefinition
  BY RoutingAssumption

\* Lists are made of numbers.
LEMMA EachType == \A ds : Each(ds) \in Lists
  BY DEF Each, Lists

LEMMA NoAddressesType == NoAddresses \in Lists
  BY DEF NoAddresses, Lists

\* push_back changes the entry of one destination.
LEMMA PushAdds ==
  ASSUME NEW list \in Lists, NEW d \in Dests, NEW n \in Nat
  PROVE  /\ Push(list, d, n) \in Lists
         /\ Push(list, d, n)[d] = list[d] + n
         /\ \A e \in Dests : e # d => Push(list, d, n)[e] = list[e]
  BY DEF Push, Lists

\* What is looked up in a table is a list.
LEMMA AddressesType ==
  ASSUME NEW map, MapOK(map), NEW default \in Lists, NEW m
  PROVE  Addresses(map, default, m) \in Lists
  BY DEF Addresses, MapOK

------------------------------------------------------------------------------
\* No table has been built: nothing is addressed to anyone.
LEMMA InitInv == Init => AddressingInv
  <1> SUFFICES ASSUME Init PROVE AddressingInv
    OBVIOUS
  <1> USE NoAddressesType, RoutingAssumption DEF Init
  <1>1. TypeOK
    BY DEF TypeOK, MapOK, EmptyTable
  <1>2. DraftFollowsFilters /\ DraftListsAll
    BY DEF DraftFollowsFilters, DraftListsAll
  <1>3. TableFollowsFilters
    BY DEF TableFollowsFilters, EmptyTable, Addresses, Routes
  <1> QED BY <1>1, <1>2, <1>3 DEF AddressingInv

\* Reading one filter adds what it asks for and leaves the others alone.
LEMMA AddAcceptingInv ==
  ASSUME AddressingInv, NEW d \in Dests, AddAccepting(d)
  PROVE  MapOK(mMessageAddressMap') /\ DraftFollowsFilters'
  <1> DEFINE S == DOMAIN mMessageAddressMap \cup {n \in Messages : building.accept[d][n] > 0}
             Old(m) == Addresses(mMessageAddressMap, mDefaultAddresses, m)
             New(m) == Addresses(mMessageAddressMap', mDefaultAddresses', m)
  <1>1. /\ building \in Definitions /\ building' = building
        /\ update = "filters" /\ MapOK(mMessageAddressMap) /\ mDefaultAddresses \in Lists
        /\ mDefaultAddresses' = mDefaultAddresses /\ todo' = todo \ {d}
        /\ d \in todo /\ d \in building.listed /\ Accepts(building, d)
        /\ mMessageAddressMap' = [m \in S |-> Push(Old(m), d, building.accept[d][m])]
    BY DEF AddressingInv, TypeOK, AddAccepting
  <1>2. S \subseteq Messages
    BY <1>1 DEF MapOK
  <1>3. \A m : Old(m) \in Lists
    BY <1>1, AddressesType
  <1>4. \A m \in Messages : building.accept[d][m] \in Nat
    BY <1>1, DefinitionType
  <1>5. \A m \in S : Push(Old(m), d, building.accept[d][m]) \in Lists
    BY <1>2, <1>3, <1>4, PushAdds
  <1>6. MapOK(mMessageAddressMap')
    BY <1>1, <1>2, <1>5 DEF MapOK
  <1>7. ASSUME NEW m \in Messages, NEW e \in Dests
        PROVE  New(m)[e] = IF e = d THEN Old(m)[e] + building.accept[d][m] ELSE Old(m)[e]
    <2>1. CASE m \in S
      <3>1. New(m) = Push(Old(m), d, building.accept[d][m])
        BY <2>1, <1>1 DEF Addresses
      <3> QED BY <3>1, <1>3, <1>4, PushAdds
    <2>2. CASE m \notin S
      <3>1. New(m) = Old(m)
        BY <2>2, <1>1 DEF Addresses
      <3>2. building.accept[d][m] = 0
        BY <2>2, <1>4
      <3>3. Old(m)[e] \in Nat
        BY <1>3 DEF Lists
      <3> QED BY <3>1, <3>2, <3>3
    <2> QED BY <2>1, <2>2
  <1>8. DraftFollowsFilters'
    <2> SUFFICES ASSUME update' = "filters", NEW m \in Messages, NEW e \in Dests
                 PROVE  New(m)[e] = IF building.source /\ e \in building.listed \ (todo \ {d})
                                    THEN Wanted(building, e, m) ELSE 0
      BY <1>1, Zenon DEF DraftFollowsFilters
    <2>1. Old(m)[e] = IF building.source /\ e \in building.listed \ todo
                      THEN Wanted(building, e, m) ELSE 0
      BY <1>1 DEF AddressingInv, DraftFollowsFilters
    <2>2. CASE e # d
      BY <2>1, <2>2, <1>7
    <2>3. CASE e = d
      <3>1. New(m)[e] = 0 + building.accept[d][m]
        BY <2>1, <2>3, <1>1, <1>7
      <3>2. building.source
        BY <1>1 DEF AddressingInv, TypeOK
      <3> QED BY <3>1, <3>2, <2>3, <1>1, <1>4 DEF Wanted
    <2> QED BY <2>2, <2>3
  <1> QED BY <1>6, <1>8

LEMMA AddIgnoringInv ==
  ASSUME AddressingInv, NEW d \in Dests, AddIgnoring(d)
  PROVE  /\ MapOK(mMessageAddressMap') /\ mDefaultAddresses' \in Lists
         /\ DraftFollowsFilters'
  <1> DEFINE I == building.ignore[d]
             S == DOMAIN mMessageAddressMap \cup I
             Old(m) == Addresses(mMessageAddressMap, mDefaultAddresses, m)
             New(m) == Addresses(mMessageAddressMap', mDefaultAddresses', m)
  <1>1. /\ building \in Definitions /\ building' = building
        /\ update = "filters" /\ MapOK(mMessageAddressMap) /\ mDefaultAddresses \in Lists
        /\ mDefaultAddresses' = Push(mDefaultAddresses, d, 1) /\ todo' = todo \ {d}
        /\ d \in todo /\ d \in building.listed /\ ~Accepts(building, d) /\ building.source
        /\ mMessageAddressMap' = [m \in S |-> IF m \in I THEN Old(m)
                                              ELSE Push(mMessageAddressMap[m], d, 1)]
    BY DEF AddressingInv, TypeOK, AddIgnoring
  <1>2. S \subseteq Messages
    BY <1>1, DefinitionType DEF MapOK
  <1>3. \A m : Old(m) \in Lists
    BY <1>1, AddressesType
  <1>4. \A m : m \in S /\ m \notin I => mMessageAddressMap[m] = Old(m)
    BY DEF Addresses
  <1>5. \A m : Push(Old(m), d, 1) \in Lists
    BY <1>3, PushAdds
  <1>6. MapOK(mMessageAddressMap') /\ mDefaultAddresses' \in Lists
    <2>1. \A m \in S : mMessageAddressMap'[m] \in Lists
      BY <1>1, <1>3, <1>4, <1>5
    <2>2. mDefaultAddresses' \in Lists
      BY <1>1, PushAdds
    <2> QED BY <2>1, <2>2, <1>1, <1>2 DEF MapOK
  <1>7. ASSUME NEW m \in Messages
        PROVE  New(m) = IF m \in I THEN Old(m) ELSE Push(Old(m), d, 1)
    <2>1. CASE m \in S
      BY <2>1, <1>1, <1>4 DEF Addresses
    <2>2. CASE m \notin S
      BY <2>2, <1>1 DEF Addresses
    <2> QED BY <2>1, <2>2
  <1>8. DraftFollowsFilters'
    <2> SUFFICES ASSUME update' = "filters", NEW m \in Messages, NEW e \in Dests
                 PROVE  New(m)[e] = IF building.source /\ e \in building.listed \ (todo \ {d})
                                    THEN Wanted(building, e, m) ELSE 0
      BY <1>1, Zenon DEF DraftFollowsFilters
    <2>1. Old(m)[e] = IF building.source /\ e \in building.listed \ todo
                      THEN Wanted(building, e, m) ELSE 0
      BY <1>1 DEF AddressingInv, DraftFollowsFilters
    <2>2. CASE e # d
      <3>1. New(m)[e] = Old(m)[e]
        BY <2>2, <1>3, <1>7, PushAdds
      <3> QED BY <3>1, <2>1, <2>2
    <2>3. CASE e = d
      <3>1. Old(m)[e] = 0
        BY <2>1, <2>3, <1>1
      <3>2. New(m)[e] = IF m \in I THEN 0 ELSE 1
        BY <3>1, <2>3, <1>3, <1>7, PushAdds
      <3> QED BY <3>2, <2>3, <1>1 DEF Wanted
    <2> QED BY <2>2, <2>3
  <1> QED BY <1>6, <1>8

------------------------------------------------------------------------------
\* The table in effect and what it is compared with stay as they are.
LEMMA TableKept ==
  ASSUME TableFollowsFilters, UNCHANGED <<mAddressing, inEffect>>
  PROVE  TableFollowsFilters'
  BY DEF TableFollowsFilters

\* A finished table is what its routing data ask for.
LEMMA InstallInv ==
  ASSUME AddressingInv, Install
  PROVE  TableFollowsFilters'
  <1>1. /\ building \in Definitions /\ inEffect' = building /\ todo = {} /\ update = "filters"
        /\ mAddressing'.map = mMessageAddressMap /\ mAddressing'.default = mDefaultAddresses
        /\ mAddressing'.all = mAllAddresses /\ mAddressing'.source = building.source
    BY DEF AddressingInv, TypeOK, Install
  <1>2. ASSUME NEW m \in Messages
        PROVE  Addresses(mMessageAddressMap, mDefaultAddresses, m) = Routes(building, m)
    <2>1. Addresses(mMessageAddressMap, mDefaultAddresses, m) \in Lists
      BY AddressesType DEF AddressingInv, TypeOK
    <2>2. \A d \in Dests : Addresses(mMessageAddressMap, mDefaultAddresses, m)[d] =
             IF building.source /\ d \in building.listed THEN Wanted(building, d, m) ELSE 0
      BY <1>1 DEF AddressingInv, DraftFollowsFilters
    <2>3. Routes(building, m) =
             [d \in Dests |-> IF building.source /\ d \in building.listed
                              THEN Wanted(building, d, m) ELSE 0]
      BY <1>1, DefinitionType DEF Routes
    <2> QED BY <2>1, <2>2, <2>3 DEF Lists
  <1>3. mAllAddresses = Each(building.known \ {Client})
    BY <1>1 DEF AddressingInv, DraftListsAll
  <1> QED BY <1>1, <1>2, <1>3, Zenon DEF TableFollowsFilters

\* Every step preserves the invariant.
LEMMA StepInv == AddressingInv /\ [Next]_vars => AddressingInv'
  <1> SUFFICES ASSUME AddressingInv, [Next]_vars PROVE AddressingInv'
    OBVIOUS
  <1> USE DEF AddressingInv
  <1>1. ASSUME NEW def \in Definitions, BeginUpdate(def) PROVE AddressingInv'
    <2>1. /\ update' = "filters" /\ building' = def /\ DOMAIN mMessageAddressMap' = {}
          /\ mDefaultAddresses' = NoAddresses /\ mAllAddresses' = AllAddresses(def)
          /\ todo' = IF def.source THEN def.listed ELSE {}
          /\ updates' = updates + 1 /\ updates < MaxUpdates
          /\ UNCHANGED <<mAddressing, inEffect>>
      BY <1>1 DEF BeginUpdate
    <2>2. TypeOK'
      BY <2>1, DefinitionType, EachType, NoAddressesType, RoutingAssumption
         DEF TypeOK, MapOK, AllAddresses
    <2>3. DraftFollowsFilters'
      BY <2>1 DEF DraftFollowsFilters, Addresses, NoAddresses
    <2>4. DraftListsAll'
      <3>1. AllAddresses(def) = Each(def.known \ {Client})
        BY DEF AllAddresses, Each
      <3> QED BY <2>1, <3>1 DEF DraftListsAll
    <2> QED BY <2>1, <2>2, <2>3, <2>4, TableKept
  <1>2. ASSUME NEW d \in Dests, AddUnknown(d) PROVE AddressingInv'
    <2>1. TypeOK' /\ DraftFollowsFilters' /\ DraftListsAll'
      BY <1>2 DEF AddUnknown, TypeOK, DraftFollowsFilters, DraftListsAll, tableVars
    <2> QED BY <1>2, <2>1, TableKept DEF AddUnknown
  <1>3. ASSUME NEW d \in Dests, AddAccepting(d) PROVE AddressingInv'
    <2>1. MapOK(mMessageAddressMap') /\ DraftFollowsFilters'
      BY <1>3, AddAcceptingInv
    <2>2. TypeOK' /\ DraftListsAll'
      BY <1>3, <2>1 DEF AddAccepting, TypeOK, DraftListsAll
    <2> QED BY <1>3, <2>1, <2>2, TableKept DEF AddAccepting
  <1>4. ASSUME NEW d \in Dests, AddIgnoring(d) PROVE AddressingInv'
    <2>1. MapOK(mMessageAddressMap') /\ mDefaultAddresses' \in Lists /\ DraftFollowsFilters'
      BY <1>4, AddIgnoringInv
    <2>2. TypeOK' /\ DraftListsAll'
      BY <1>4, <2>1 DEF AddIgnoring, TypeOK, DraftListsAll
    <2> QED BY <1>4, <2>1, <2>2, TableKept DEF AddIgnoring
  <1>5. CASE Install
    <2>1. TypeOK' /\ DraftFollowsFilters' /\ DraftListsAll'
      BY <1>5 DEF Install, TypeOK, DraftFollowsFilters, DraftListsAll, tableVars
    <2> QED BY <1>5, <2>1, InstallInv
  <1>6. CASE UNCHANGED <<tableVars, updateVars, mAddressing, inEffect>>
    <2>1. TypeOK' /\ DraftFollowsFilters' /\ DraftListsAll'
      BY <1>6 DEF TypeOK, DraftFollowsFilters, DraftListsAll, tableVars, updateVars
    <2> QED BY <1>6, <2>1, TableKept
  <1>7. CASE Next
    <2>1. Send \/ AddressToAll
             => UNCHANGED <<tableVars, updateVars, mAddressing, inEffect>>
      BY DEF Send, Address, AddressToAll, AddressTo
    <2> QED BY <1>1, <1>2, <1>3, <1>4, <1>5, <1>6, <1>7, <2>1, Zenon DEF Next
  <1>8. CASE UNCHANGED vars
    BY <1>6, <1>8 DEF vars
  <1> QED BY <1>7, <1>8

\* The invariant holds in every reachable state.
LEMMA InvariantHolds == Spec => []AddressingInv
  <1> QED BY InitInv, StepInv, PTL DEF Spec

\* The state of the updater and both tables are well typed.
THEOREM TypeCorrect == Spec => []TypeOK
  <1>1. AddressingInv => TypeOK
    BY DEF AddressingInv
  <1> QED BY <1>1, InvariantHolds, PTL

\* After any number of filters, in any order, the table being built agrees with
\* the reference definition: for every message, listed by some filter or not.
THEOREM DraftIsRight == Spec => []DraftFollowsFilters
  <1>1. AddressingInv => DraftFollowsFilters
    BY DEF AddressingInv
  <1> QED BY <1>1, InvariantHolds, PTL

\* The table in effect agrees with the routing data it was built from; an update
\* under way, or one that failed, does not show.
THEOREM TableIsRight == Spec => []TableFollowsFilters
  <1>1. AddressingInv => TableFollowsFilters
    BY DEF AddressingInv
  <1> QED BY <1>1, InvariantHolds, PTL

\* Every message is addressed as the routing data in effect ask.
THEOREM MessagesAreRouted == Spec => MessagesFollowFilters
  <1> DEFINE Routed ==
        envelope' # envelope /\ inEffect # NoDefinition =>
          /\ envelope'.from = inEffect.source
          /\ envelope'.how = "filters" => envelope'.to = Routes(inEffect, envelope'.name)
          /\ envelope'.how = "all" => envelope'.to = Each(inEffect.known \ {Client})
  <1>1. AddressingInv /\ [Next]_vars => [Routed]_vars
    <2> SUFFICES ASSUME AddressingInv, Next, envelope' # envelope, inEffect # NoDefinition
                 PROVE  Routed
      BY DEF vars
    <2>1. ASSUME NEW m \in Messages, Address(m) PROVE Routed
      BY <2>1 DEF Address, AddressingInv, TableFollowsFilters
    <2>2. CASE AddressToAll
      BY <2>2 DEF AddressToAll, AddressingInv, TableFollowsFilters
    <2>3. ASSUME NEW ds \in SUBSET Dests, AddressTo(ds) PROVE Routed
      BY <2>3 DEF AddressTo, AddressingInv, TableFollowsFilters
    <2>4. (\E def \in Definitions : BeginUpdate(def)) \/ Install
          \/ (\E d \in Dests : AddUnknown(d) \/ AddAccepting(d) \/ AddIgnoring(d))
             => envelope' = envelope
      BY DEF BeginUpdate, Install, AddUnknown, AddAccepting, AddIgnoring
    <2> QED BY <2>1, <2>2, <2>3, <2>4, Zenon DEF Next, Send
  <1> QED BY <1>1, InvariantHolds, PTL DEF Spec, MessagesFollowFilters

-----------------------------------------------------------------------------
(* An exchange over HTTP. *)

\* The server takes the smaller of what is left and what it was given.
LEMMA SmallerOfTwo ==
    ASSUME NEW a \in Int, NEW b \in Int, a <= b
    PROVE  Min({a, b}) = a
  BY DEF Min

Requests == [method : HttpMethods, len : Nat, declared : Nat \cup {NoLength}, throws : BOOLEAN]
ResponseStates == [phase : {1, 2}, offset : Nat, contentLength : Nat, dataLen : Nat, stored : Nat]

HttpTypeOK ==
    /\ hxServer \in {"down", "failed", "http", "https", "stopped"}
    /\ hxReq \in Requests
    /\ hxReq.len > 0 => hxReq.method \in WithBody
    /\ hxReq.declared = Declared(hxReq.method, hxReq.len)
    /\ hxClient \in {"idle", "waiting", "returned", "threw"}
    /\ hxMhd \in {"none", "headers", "body", "footers", "answering", "closed"}
    /\ hxLeft \in Nat /\ hxState \in {NoState} \cup ResponseStates
    /\ hxQueued \in Nat /\ hxHandled \in Seq(Nat)

\* The server is at work on the request of a client that waits, and on no other.
OneRequest ==
    /\ hxMhd \in {"headers", "body", "footers"} => hxClient = "waiting"
    /\ hxClient = "waiting" => hxMhd # "none"
    /\ hxClient # "waiting" => hxState = NoState
    /\ hxMhd \in {"none", "headers"} => hxState = NoState
    /\ hxMhd \in {"body", "footers"} => hxState # NoState

\* Where the request stands at each point of the connection.
AtHeaders ==
    hxMhd = "headers" =>
        hxHandled = << >> /\ hxLeft = hxReq.len /\ (hxReq.method \in WithBody => hxReq.len > 0)

\* A body is stored as it comes, in a buffer that has room for what was announced.
AtBody ==
    hxMhd = "body" =>
        /\ hxReq.method \in WithBody
        /\ hxState.phase = 1 =>
              /\ hxHandled = << >> /\ hxLeft > 0
              /\ hxState.offset = hxReq.len - hxLeft /\ hxState.stored = hxState.offset
              /\ IF hxState.offset = 0 THEN hxState.contentLength = 0
                 ELSE /\ hxReq.method = "POST" /\ hxState.contentLength = hxReq.len
                      /\ hxState.dataLen = hxReq.len + 1
        /\ hxState.phase = 2 => Len(hxHandled) = 1 /\ hxReq.method = "PUT"

AtFooters ==
    hxMhd = "footers" =>
        IF hxReq.method \in WithBody
        THEN /\ hxState.phase = 2 /\ Len(hxHandled) = 1
             /\ hxReq.method = "POST" => hxHandled[1] = hxReq.len
        ELSE hxHandled = << >>

\* An answer that is queued is that of the handler, which has run once, or the refusal.
AnswerIsHandlers ==
    /\ hxQueued # 0 <=> hxMhd = "answering"
    /\ hxQueued # 0 =>
          IF hxReq.method \in WithBody \cup {"GET", "DELETE"}
          THEN /\ Len(hxHandled) = 1 /\ hxQueued = HandlerCode
               /\ hxReq.method = "POST" => hxHandled[1] = hxReq.len
          ELSE hxHandled = << >> /\ hxQueued = 405

\* A connection is closed without an answer only for a reason.
ClosedForReason ==
    /\ hxMhd = "none" => hxHandled = << >>
    /\ hxMhd = "closed" /\ hxHandled # << >> =>
          Len(hxHandled) = 1 /\ (hxReq.throws \/ hxReq.method = "PUT" \/ hxServer = "stopped")
    /\ hxClient = "threw" => hxMhd \in {"none", "closed"}

HttpInv ==
    /\ HttpTypeOK /\ OneRequest /\ AtHeaders /\ AtBody /\ AtFooters
    /\ AnswerIsHandlers /\ ClosedForReason /\ ExchangeFaithful

\* What the step lemmas expand.
LEMMA HttpStarts == HttpInit => HttpInv
  BY DEF HttpInit, HttpInv, HttpTypeOK, OneRequest, AtHeaders, AtBody, AtFooters, AnswerIsHandlers,
         ClosedForReason, ExchangeFaithful, NoRequest, NoState, Requests, HttpMethods, WithBody, Declared, NoLength

\* The server starts and stops.
LEMMA StartServerKeeps == HttpInv /\ StartServer => HttpInv'
  BY DEF StartServer, HttpInv, HttpTypeOK, OneRequest, AtHeaders, AtBody, AtFooters, AnswerIsHandlers,
         ClosedForReason, ExchangeFaithful, HandlerCode, createListenSocket, ServesTls

\* The server is stopped: a request that it holds is closed unanswered.
LEMMA StopServerKeeps == HttpInv /\ StopServer => HttpInv'
  <1> SUFFICES ASSUME HttpInv, StopServer PROVE HttpInv'
    OBVIOUS
  <1>1. /\ hxServer' = "stopped" /\ hxState' = NoState
        /\ UNCHANGED <<hxReq, hxClient, hxCode, hxLeft, hxHandled, hxCount>>
    BY DEF StopServer
  <1>2. /\ HttpTypeOK' /\ ExchangeFaithful'
    <2>1. hxMhd' \in {"none", "answering", "closed"} \cup {hxMhd} /\ hxQueued' \in {0, hxQueued}
      BY DEF StopServer
    <2> QED BY <1>1, <2>1 DEF HttpInv, HttpTypeOK, ExchangeFaithful, HandlerCode
  <1>3. CASE hxQueued # 0 /\ UNCHANGED <<hxMhd, hxQueued>>
    BY <1>1, <1>2, <1>3 DEF HttpInv, OneRequest, AtHeaders, AtBody, AtFooters, AnswerIsHandlers,
         ClosedForReason, HandlerCode
  <1>4. CASE hxMhd' = (IF hxMhd = "none" THEN "none" ELSE "closed") /\ hxQueued' = 0
    <2>1. Len(hxHandled) = 1 \/ hxHandled = << >>
      BY DEF HttpInv, HttpTypeOK, OneRequest, AtHeaders, AtBody, AtFooters, AnswerIsHandlers, ClosedForReason,
             ExchangeFaithful, ResponseStates, NoState
    <2> QED BY <1>1, <1>2, <1>4, <2>1 DEF HttpInv, OneRequest, AtHeaders, AtBody, AtFooters, AnswerIsHandlers,
         ClosedForReason, HandlerCode
  <1> QED BY <1>3, <1>4 DEF StopServer

\* A call of submit, and its end.
LEMMA SubmitKeeps ==
    ASSUME HttpInv, NEW scheme \in Running, NEW method \in HttpMethods, NEW data \in BOOLEAN, NEW throws \in BOOLEAN,
           NEW len \in IF method \in WithBody /\ data THEN 1 .. MaxBody ELSE {0},
           SubmitTo(scheme, method, data, len, throws)
    PROVE  HttpInv'
  <1>1. len \in Nat /\ (len > 0 => method \in WithBody) /\ (method \in WithBody /\ data => len > 0)
    OBVIOUS
  <1>2. /\ hxServer' = hxServer /\ hxHandled' = << >> /\ hxState' = NoState /\ hxQueued' = 0
        /\ hxReq' = [method |-> method, len |-> len, declared |-> Declared(method, len), throws |-> throws]
        /\ \/ hxClient' = "threw" /\ hxMhd' = "none" /\ hxLeft' = 0
           \/ method \in WithBody => data /\ hxClient' = "waiting"
        /\ \/ hxClient' = "threw" /\ hxMhd' = "none" /\ hxLeft' = 0
           \/ hxClient' = "waiting" /\ hxMhd' = "headers" /\ hxLeft' = len
    BY DEF SubmitTo
  <1>3. HttpTypeOK'
    <2>1. hxReq' \in Requests /\ hxReq'.declared = Declared(hxReq'.method, hxReq'.len)
          /\ hxReq'.len = len /\ hxReq'.method = method
      BY <1>1, <1>2 DEF Requests, Declared
    <2>2. hxServer \in {"down", "failed", "http", "https", "stopped"}
      BY DEF HttpInv, HttpTypeOK
    <2> QED BY <1>1, <1>2, <2>1, <2>2 DEF HttpTypeOK
  <1> QED BY <1>1, <1>2, <1>3 DEF HttpInv, OneRequest, AtHeaders, AtBody, AtFooters, AnswerIsHandlers,
                 ClosedForReason, ExchangeFaithful

\* The client's side of a request.
LEMMA PerformKeeps == HttpInv /\ (Perform \/ PerformFails) => HttpInv'
  BY DEF Perform, PerformFails, HttpInv, HttpTypeOK, OneRequest, AtHeaders, AtBody, AtFooters, AnswerIsHandlers,
         ClosedForReason, ExchangeFaithful, HandlerCode

\* The first and the last call for a request.
LEMMA FirstCallKeeps == HttpInv /\ FirstCall => HttpInv'
  BY DEF FirstCall, NewResponseState, ResponseStates, NoState, HttpInv, HttpTypeOK, OneRequest, AtHeaders, AtBody,
         AtFooters, AnswerIsHandlers, ClosedForReason, ExchangeFaithful, HandlerCode

\* The end of a request: the answer that was queued reaches the client.
LEMMA CompletedKeeps == HttpInv /\ Completed => HttpInv'
  BY DEF Completed, HttpInv, HttpTypeOK, OneRequest, AtHeaders, AtBody,
         AtFooters, AnswerIsHandlers, ClosedForReason, ExchangeFaithful, HandlerCode

\* Calls at the end of a request.
LEMMA FootersKeep == HttpInv /\ (DispatchWithoutBody \/ DispatchUnsupported \/ CompletePhase2) => HttpInv'
  <1> SUFFICES ASSUME HttpInv PROVE DispatchWithoutBody \/ DispatchUnsupported \/ CompletePhase2 => HttpInv'
    OBVIOUS
  <1> USE DEF QueueResponse, HandlerCode, HttpInv, HttpTypeOK, OneRequest, AtHeaders, AtBody, AtFooters,
              AnswerIsHandlers, ClosedForReason, ExchangeFaithful, WithBody, ResponseStates, NoState
  <1>1. DispatchWithoutBody => HttpInv'
    <2> SUFFICES ASSUME DispatchWithoutBody PROVE HttpInv'
      OBVIOUS
    <2>1. hxState.stored \in Nat /\ hxHandled = << >>
      BY DEF DispatchWithoutBody
    <2>2. hxHandled' \in Seq(Nat) /\ Len(hxHandled') = 1
      BY <2>1 DEF DispatchWithoutBody, HandleAndComplete
    <2> QED BY <2>1, <2>2 DEF DispatchWithoutBody, HandleAndComplete
  <1>2. DispatchUnsupported => HttpInv'
    BY DEF DispatchUnsupported
  <1>3. CompletePhase2 => HttpInv'
    BY DEF CompletePhase2
  <1> QED BY <1>1, <1>2, <1>3

\* What a piece of a body adds to what is stored.
LEMMA PieceStored ==
    ASSUME HttpInv, hxMhd = "body", hxReq.method \in WithBody, hxState.phase = 1, NEW n \in 1 .. hxLeft,
           NEW st, st = Appended(Allocated(hxState), n)
    PROVE  /\ hxState \in ResponseStates /\ st \in ResponseStates /\ st.phase = 1
           /\ st.offset = hxReq.len - (hxLeft - n)
           /\ hxReq.method = "POST" =>
                 st.contentLength = hxReq.len /\ st.dataLen = hxReq.len + 1 /\ st.stored = st.offset
           /\ hxReq.method = "PUT" => st.contentLength = 0
  <1>1. /\ hxState \in ResponseStates /\ hxReq \in Requests /\ hxLeft \in Nat
        /\ hxReq.declared = Declared(hxReq.method, hxReq.len)
        /\ hxState.offset = hxReq.len - hxLeft /\ hxState.stored = hxState.offset
        /\ IF hxState.offset = 0 THEN hxState.contentLength = 0
           ELSE /\ hxReq.method = "POST" /\ hxState.contentLength = hxReq.len
                /\ hxState.dataLen = hxReq.len + 1
    BY DEF HttpInv, HttpTypeOK, OneRequest, AtBody, NoState, ResponseStates
  <1> DEFINE al == Allocated(hxState)
             room == al.dataLen - al.offset
  <1>2. /\ al \in ResponseStates /\ al.phase = 1 /\ al.offset = hxState.offset /\ al.stored = hxState.stored
        /\ hxReq.method = "POST" => al.contentLength = hxReq.len /\ al.dataLen = hxReq.len + 1
        /\ hxReq.method = "PUT" => al.contentLength = 0 /\ al.offset = 0
    <2>1. hxReq.len \in Nat /\ hxReq.len > 0 /\ hxReq.method \in {"POST", "PUT"}
      BY <1>1 DEF Requests, ResponseStates, WithBody
    <2>2. CASE hxReq.method = "POST"
      <3>1. hxReq.declared = hxReq.len /\ hxReq.declared # NoLength
        BY <1>1, <2>1, <2>2 DEF Declared, NoLength
      <3>2. CASE hxState.contentLength = 0
        <4>1. al = [hxState EXCEPT !.contentLength = hxReq.len, !.dataLen = hxReq.len + 1]
          BY <3>1, <3>2 DEF Allocated
        <4> DEFINE mid == [hxState EXCEPT !.contentLength = hxReq.len]
                   size == hxReq.len + 1
        <4>2. /\ mid \in ResponseStates /\ mid.phase = hxState.phase /\ mid.contentLength = hxReq.len
              /\ mid.stored = hxState.stored /\ mid.offset = hxState.offset
          BY <1>1, <2>1 DEF ResponseStates
        <4>3. al = [mid EXCEPT !.dataLen = size]
          BY <4>1
        <4>4. size \in Nat
          BY <2>1
        <4> HIDE DEF mid, size, al
        <4>5. /\ al \in ResponseStates /\ al.phase = mid.phase /\ al.contentLength = mid.contentLength
              /\ al.stored = mid.stored /\ al.offset = mid.offset /\ al.dataLen = size
          BY <4>2, <4>3, <4>4 DEF ResponseStates
        <4> QED BY <1>1, <2>2, <4>2, <4>5 DEF size
      <3>3. CASE hxState.contentLength # 0
        <4>1. al = hxState
          BY <3>3 DEF Allocated
        <4> QED BY <1>1, <2>1, <2>2, <3>3, <4>1
      <3> QED BY <3>2, <3>3
    <2>3. CASE hxReq.method = "PUT"
      <3>1. hxReq.declared = NoLength /\ hxState.offset = 0 /\ hxState.contentLength = 0
        BY <1>1, <2>3 DEF Declared
      <3>2. al = hxState
        BY <3>1 DEF Allocated
      <3> QED BY <1>1, <2>3, <3>1, <3>2
    <2> QED BY <2>1, <2>2, <2>3
  <1> HIDE DEF al
  <1>3. Min({n, room}) \in Nat /\ (hxReq.method = "POST" => Min({n, room}) = n)
    <2>1. room \in Int /\ n \in Int
      BY <1>2 DEF ResponseStates
    <2>2. hxReq.method = "POST" => n <= room
      BY <1>1, <1>2 DEF Requests
    <2>3. hxReq.method = "PUT" => room >= 0
      BY <1>2 DEF ResponseStates
    <2>4. hxReq.method = "POST" \/ hxReq.method = "PUT"
      BY DEF WithBody
    <2> HIDE DEF room
    <2>5. CASE n <= room
      BY <2>1, <2>5, SmallerOfTwo
    <2>6. CASE room <= n
      <3>1. {n, room} = {room, n}
        OBVIOUS
      <3>2. Min({n, room}) = room
        BY <2>1, <2>6, <3>1, SmallerOfTwo
      <3> QED BY <2>1, <2>2, <2>3, <2>4, <2>6, <3>2
    <2> QED BY <2>1, <2>5, <2>6
  <1>4. st = [al EXCEPT !.stored = @ + Min({n, room}), !.offset = @ + n]
    BY DEF Appended, al
  <1> HIDE DEF room
  <1> DEFINE more == Min({n, room})
  <1>5. st = [al EXCEPT !.stored = @ + more, !.offset = @ + n] /\ more \in Nat
    BY <1>3, <1>4
  <1>6. hxReq.method = "POST" => more = n
    BY <1>3
  <1> HIDE DEF more
  <1>7. al.stored \in Nat /\ al.offset \in Nat /\ n \in Nat
    BY <1>2 DEF ResponseStates
  <1>8. /\ st \in ResponseStates /\ st.phase = al.phase /\ st.contentLength = al.contentLength
        /\ st.dataLen = al.dataLen /\ st.stored = al.stored + more /\ st.offset = al.offset + n
    <2> DEFINE mid == [al EXCEPT !.stored = @ + more]
    <2>1. /\ mid \in ResponseStates /\ mid.phase = al.phase /\ mid.contentLength = al.contentLength
          /\ mid.dataLen = al.dataLen /\ mid.stored = al.stored + more /\ mid.offset = al.offset
      <3>1. al.stored + more \in Nat
        BY <1>5, <1>7
      <3> QED BY <1>2, <3>1 DEF ResponseStates
    <2>2. st = [mid EXCEPT !.offset = @ + n]
      BY <1>5
    <2>3. mid.offset + n \in Nat
      BY <1>7, <2>1
    <2> HIDE DEF mid
    <2>4. /\ st \in ResponseStates /\ st.phase = mid.phase /\ st.contentLength = mid.contentLength
          /\ st.dataLen = mid.dataLen /\ st.stored = mid.stored /\ st.offset = mid.offset + n
      BY <2>1, <2>2, <2>3 DEF ResponseStates
    <2> QED BY <2>1, <2>4
  <1>9. hxReq.len \in Nat
    BY <1>1 DEF Requests
  <1> QED BY <1>1, <1>2, <1>6, <1>7, <1>8, <1>9

\* A piece of a body.
LEMMA PieceKeeps ==
    ASSUME HttpInv, NEW n \in Nat, ReceivePiece(n)
    PROVE  HttpInv'
  <1>1. /\ hxMhd = "body" /\ hxReq.method \in WithBody /\ hxState.phase = 1 /\ n \in 1 .. hxLeft
        /\ hxLeft' = hxLeft - n
        /\ UNCHANGED <<hxServer, hxReq, hxClient, hxCode, hxCount>>
    BY DEF ReceivePiece
  <1>2. PICK st \in {Appended(Allocated(hxState), n)} :
          IF ~BodyComplete(st)
          THEN hxState' = st /\ UNCHANGED <<hxHandled, hxQueued, hxMhd>>
          ELSE /\ hxHandled' = Append(hxHandled, st.stored)
               /\ IF hxReq.throws
                  THEN hxState' = st /\ QueueResponse(500)
                  ELSE /\ hxState' = [st EXCEPT !.phase = 2]
                       /\ hxMhd' = (IF hxLeft = n THEN "footers" ELSE "body")
                       /\ hxQueued' = hxQueued
    BY DEF ReceivePiece
  <1>3. /\ hxState \in ResponseStates /\ st \in ResponseStates /\ st.phase = 1
        /\ st.offset = hxReq.len - (hxLeft - n)
        /\ hxReq.method = "POST" =>
              st.contentLength = hxReq.len /\ st.dataLen = hxReq.len + 1 /\ st.stored = st.offset
        /\ hxReq.method = "PUT" => st.contentLength = 0
    BY <1>1, PieceStored
  <1>4. /\ hxClient = "waiting" /\ hxHandled = << >> /\ hxQueued = 0
        /\ hxLeft \in Nat /\ hxReq \in Requests /\ hxReq.len \in Nat /\ hxLeft <= hxReq.len
    BY <1>1, <1>3 DEF HttpInv, HttpTypeOK, OneRequest, AtBody, AnswerIsHandlers, ResponseStates, Requests
  <1>5. /\ hxLeft' \in Nat /\ st.stored \in Nat /\ st.offset > 0
        /\ hxReq.method = "POST" => (BodyComplete(st) <=> hxLeft = n)
        /\ hxReq.method = "PUT" => BodyComplete(st)
        /\ hxReq.method = "POST" /\ hxLeft = n => st.stored = hxReq.len
        /\ st # NoState
    <2>1. /\ st.offset \in Nat /\ st.stored \in Nat /\ n \in Nat /\ n > 0 /\ n <= hxLeft
          /\ hxLeft \in Nat /\ hxReq.len \in Nat
      BY <1>1, <1>3, <1>4 DEF ResponseStates
    <2>2. /\ st.offset = hxReq.len - (hxLeft - n) /\ hxLeft <= hxReq.len /\ hxLeft' = hxLeft - n
      BY <1>1, <1>2, <1>3, <1>4
    <2>3. hxLeft' \in Nat /\ st.offset > 0 /\ (st.offset = hxReq.len <=> hxLeft = n)
      BY <2>1, <2>2
    <2> QED BY <1>3, <2>1, <2>3 DEF BodyComplete, ResponseStates, NoState
  <1>6. hxReq.method = "POST" \/ hxReq.method = "PUT"
    BY <1>1 DEF WithBody
  <1>7. CASE ~BodyComplete(st)
    <2>1. hxReq.method = "POST" /\ hxLeft # n /\ hxState' = st /\ UNCHANGED <<hxHandled, hxQueued, hxMhd>>
      BY <1>2, <1>5, <1>6, <1>7
    <2> QED BY <1>1, <1>3, <1>4, <1>5, <2>1 DEF HttpInv, HttpTypeOK, OneRequest, AtHeaders, AtBody, AtFooters,
                 AnswerIsHandlers, ClosedForReason, ExchangeFaithful
  <1>8. CASE BodyComplete(st)
    <2>1. hxHandled' = <<st.stored>> /\ hxHandled' \in Seq(Nat) /\ Len(hxHandled') = 1 /\ hxHandled'[1] = st.stored
      <3> DEFINE v == st.stored
      <3>1. hxHandled' = Append(<< >>, v) /\ v \in Nat
        BY <1>2, <1>4, <1>5, <1>8
      <3> HIDE DEF v
      <3>2. Append(<< >>, v) = <<v>> /\ <<v>> \in Seq(Nat) /\ Len(<<v>>) = 1 /\ <<v>>[1] = v
        BY <3>1
      <3> QED BY <3>1, <3>2 DEF v
    <2>2. CASE hxReq.throws
      <3>1. hxState' = st /\ hxQueued' = hxQueued /\ hxMhd' = "closed"
        BY <1>1, <1>2, <1>8, <2>2 DEF QueueResponse
      <3> QED BY <1>1, <1>3, <1>4, <1>5, <2>1, <2>2, <3>1 DEF HttpInv, HttpTypeOK, OneRequest, AtHeaders, AtBody,
                   AtFooters, AnswerIsHandlers, ClosedForReason, ExchangeFaithful
    <2>3. CASE ~hxReq.throws
      <3>1. /\ hxState' = [st EXCEPT !.phase = 2] /\ hxQueued' = hxQueued
            /\ hxMhd' = (IF hxLeft = n THEN "footers" ELSE "body")
        BY <1>2, <1>8, <2>3
      <3>2. hxState' \in ResponseStates /\ hxState'.phase = 2 /\ hxState' # NoState
        BY <1>3, <3>1 DEF ResponseStates, NoState
      <3> QED BY <1>1, <1>3, <1>4, <1>5, <1>6, <1>8, <2>1, <3>1, <3>2 DEF HttpInv, HttpTypeOK, OneRequest, AtHeaders,
                   AtBody, AtFooters, AnswerIsHandlers, ClosedForReason, ExchangeFaithful
    <2> QED BY <2>2, <2>3
  <1> QED BY <1>7, <1>8

\* Every step of an exchange.
LEMMA HttpSteps == HttpInv /\ [HttpNext]_httpVars => HttpInv'
  <1> SUFFICES ASSUME HttpInv, [HttpNext]_httpVars PROVE HttpInv'
    OBVIOUS
  <1>1. CASE StartServer \/ StopServer
    BY <1>1, StartServerKeeps, StopServerKeeps
  <1>2. CASE Submit
    BY <1>2, SubmitKeeps DEF Submit
  <1>3. CASE Perform \/ PerformFails
    BY <1>3, PerformKeeps
  <1>4. CASE HttpServerStep
    <2>1. ASSUME NEW n \in 1 .. MaxBody, ReceivePiece(n) PROVE HttpInv'
      BY <2>1, PieceKeeps
    <2> QED BY <1>4, <2>1, FirstCallKeeps, FootersKeep, CompletedKeeps DEF HttpServerStep
  <1>5. CASE UNCHANGED httpVars
    BY <1>5 DEF httpVars, HttpInv, HttpTypeOK, OneRequest, AtHeaders, AtBody, AtFooters, AnswerIsHandlers,
                ClosedForReason, ExchangeFaithful, HandlerCode
  <1> QED BY <1>1, <1>2, <1>3, <1>4, <1>5 DEF HttpNext

\* submit returns what the handler answered: it ran exactly once, on the whole of a
\* POST body whatever pieces it came in, and a call throws after the handler ran only
\* where its answer could not be queued or the server was stopped.
THEOREM ExchangesAreFaithful == HttpSpec => []ExchangeFaithful
  <1>1. HttpInv => ExchangeFaithful
    BY DEF HttpInv
  <1> QED BY <1>1, HttpStarts, HttpSteps, PTL DEF HttpSpec
-----------------------------------------------------------------------------
(* The resolution of packages. *)

ChildStates == [st : {"none", "running", "exited"}, script : Seq(CaptureStreams), at : Nat, status : Nat]
Units == Seq(Nat \X Nat)

RezTypeOK ==
    /\ Len(rzDef) \in Nat /\ rzAt \in Nat \ {0}
    /\ rzPc \in {"next", "spawn", "wait", "remove", "judge", "done"}
    /\ rzContext \in [RezComps -> Units]
    /\ rzCapture \in [RezComps -> [out : Units, err : Units]]
    /\ rzChild \in [RezComps -> ChildStates]
    /\ rzPipe \in [RezComps -> [out : Units, err : Units, parent : BOOLEAN]]
    /\ rzThread \in [RezComps -> [pc : {"none", "out", "err", "ended"}, open : SUBSET CaptureStreams]]
    /\ rzPc \in {"spawn", "wait", "remove", "judge"} => rzAt \in RezComps

\* A computation that rez has not been run for has no output and no reader.
Untouched(c) == rzContext[c] = << >> /\ rzPipe[c].out = << >> /\ rzPipe[c].err = << >> /\ rzThread[c].pc = "none"
NotRun == \A c \in RezComps : rzChild[c].st = "none" => Untouched(c)

\* Rez is run for one computation after the other, for each at most once.
RunInOrder ==
    /\ \A c \in RezComps : c > rzAt \/ (c = rzAt /\ rzPc \in {"next", "spawn"}) => rzChild[c].st = "none"
    /\ rzPc \in {"wait", "remove", "judge"} => rzChild[rzAt].st # "none"

\* What has been captured of a stream and what is still in its pipe are all that the
\* child has printed to it.
OutputCaptured ==
    \A c \in RezComps : \A s \in CaptureStreams :
        rzChild[c].st # "none" =>
            /\ rzChild[c].at <= Len(rzChild[c].script)
            /\ Printed(c, rzChild[c].script, s, rzCapture[c][s] \o rzPipe[c][s], rzChild[c].at)

RezInv == RezTypeOK /\ NotRun /\ RunInOrder /\ OutputCaptured /\ ContextIsOwnOutput

\* Nothing has been printed at the start.
LEMMA PrintedNothing ==
    ASSUME NEW c, NEW script, NEW s
    PROVE  Printed(c, script, s, << >>, 0)
  BY DEF Printed

\* The next unit is printed to the stream.
LEMMA PrintedNext ==
    ASSUME NEW c \in Nat, NEW script, NEW s, NEW units \in Units, NEW n \in Nat,
           Printed(c, script, s, units, n), script[n + 1] = s
    PROVE  Printed(c, script, s, Append(units, <<c, n + 1>>), n + 1)
  <1> DEFINE u == <<c, n + 1>>
             all == Append(units, u)
             len == Len(units)
  <1>1. /\ len \in Nat /\ Len(all) = len + 1 /\ all[len + 1] = u
        /\ \A k \in 1 .. len : all[k] = units[k]
    BY DEF Units
  <1>2. /\ \A k \in 1 .. len : units[k] \in {<<c, m>> : m \in 1 .. n}
        /\ \A k, l \in 1 .. len : k < l => units[k][2] < units[l][2]
        /\ \A m \in 1 .. n : script[m] = s <=> \E k \in 1 .. len : units[k] = <<c, m>>
    BY DEF Printed
  <1> HIDE DEF len, all
  <1>3. ASSUME NEW k \in 1 .. len + 1 PROVE all[k] \in {<<c, m>> : m \in 1 .. n + 1}
    <2>1. CASE k = len + 1
      <3>1. all[k] = u /\ n + 1 \in 1 .. n + 1
        BY <1>1, <2>1
      <3> QED BY <3>1
    <2>2. CASE k # len + 1
      <3>1. k \in 1 .. len
        BY <1>1, <2>2
      <3>2. PICK m \in 1 .. n : units[k] = <<c, m>>
        BY <1>2, <3>1
      <3>3. m \in 1 .. n + 1
        OBVIOUS
      <3> QED BY <1>1, <3>1, <3>2, <3>3
    <2> QED BY <2>1, <2>2
  <1>4. ASSUME NEW k \in 1 .. len + 1, NEW l \in 1 .. len + 1, k < l PROVE all[k][2] < all[l][2]
    <2>1. k \in 1 .. len
      BY <1>1, <1>4
    <2>2. PICK m \in 1 .. n : units[k] = <<c, m>>
      BY <1>2, <2>1
    <2>3. CASE l = len + 1
      BY <1>1, <2>1, <2>2, <2>3
    <2>4. CASE l # len + 1
      <3>1. l \in 1 .. len
        BY <1>1, <2>4
      <3> QED BY <1>1, <1>2, <1>4, <2>1, <3>1
    <2> QED BY <2>3, <2>4
  <1>5. ASSUME NEW m \in 1 .. n + 1
        PROVE  script[m] = s <=> \E k \in 1 .. len + 1 : all[k] = <<c, m>>
    <2>1. CASE m = n + 1
      <3>1. len + 1 \in 1 .. len + 1
        BY <1>1
      <3> QED BY <1>1, <2>1, <3>1
    <2>2. CASE m # n + 1
      <3>1. m \in 1 .. n
        BY <2>2
      <3>2. ASSUME NEW k \in 1 .. len + 1, all[k] = <<c, m>> PROVE \E j \in 1 .. len : units[j] = <<c, m>>
        <4>1. k # len + 1
          BY <1>1, <2>2, <3>2
        <4>2. k \in 1 .. len
          BY <1>1, <4>1
        <4> QED BY <1>1, <3>2, <4>2
      <3>3. ASSUME NEW k \in 1 .. len, units[k] = <<c, m>> PROVE \E j \in 1 .. len + 1 : all[j] = <<c, m>>
        <4>1. k \in 1 .. len + 1
          BY <1>1
        <4> QED BY <1>1, <3>3, <4>1
      <3> QED BY <1>2, <3>1, <3>2, <3>3
    <2> QED BY <2>1, <2>2
  <1> QED BY <1>1, <1>3, <1>4, <1>5 DEF Printed, all

\* The next unit is printed to the other stream.
LEMMA PrintedElsewhere ==
    ASSUME NEW c \in Nat, NEW script, NEW s, NEW units \in Units, NEW n \in Nat,
           Printed(c, script, s, units, n), script[n + 1] # s
    PROVE  Printed(c, script, s, units, n + 1)
  <1> DEFINE len == Len(units)
  <1>1. /\ \A k \in 1 .. len : units[k] \in {<<c, m>> : m \in 1 .. n}
        /\ \A k, l \in 1 .. len : k < l => units[k][2] < units[l][2]
        /\ \A m \in 1 .. n : script[m] = s <=> \E k \in 1 .. len : units[k] = <<c, m>>
    BY DEF Printed
  <1>2. \A k \in 1 .. len : units[k] \in {<<c, m>> : m \in 1 .. n + 1}
    <2> SUFFICES ASSUME NEW k \in 1 .. len PROVE units[k] \in {<<c, m>> : m \in 1 .. n + 1}
      OBVIOUS
    <2>1. PICK m \in 1 .. n : units[k] = <<c, m>>
      BY <1>1
    <2>2. m \in 1 .. n + 1
      OBVIOUS
    <2> QED BY <2>1, <2>2
  <1>3. ASSUME NEW m \in 1 .. n + 1
        PROVE  script[m] = s <=> \E k \in 1 .. len : units[k] = <<c, m>>
    <2>1. CASE m = n + 1
      <3>1. ASSUME NEW k \in 1 .. len PROVE units[k] # <<c, m>>
        <4>1. PICK i \in 1 .. n : units[k] = <<c, i>>
          BY <1>1
        <4> QED BY <2>1, <4>1
      <3> QED BY <2>1, <3>1
    <2>2. CASE m # n + 1
      <3>1. m \in 1 .. n
        BY <2>2
      <3> QED BY <1>1, <3>1
    <2> QED BY <2>1, <2>2
  <1> QED BY <1>1, <1>2, <1>3 DEF Printed

\* The beginning of what was printed is what was printed up to some step.
LEMMA PrintedPrefix ==
    ASSUME NEW c \in Nat, NEW script, NEW s, NEW units \in Units, NEW more \in Units, NEW n \in Nat,
           Printed(c, script, s, units \o more, n)
    PROVE  \E m \in 0 .. n : Printed(c, script, s, units, m)
  <1> DEFINE all == units \o more
             len == Len(units)
             a == Len(all)
  <1>1. /\ len \in Nat /\ a \in Nat /\ len <= a
        /\ \A k \in 1 .. len : all[k] = units[k]
    BY DEF Units
  <1>2. /\ \A k \in 1 .. a : all[k] \in {<<c, m>> : m \in 1 .. n}
        /\ \A k, l \in 1 .. a : k < l => all[k][2] < all[l][2]
        /\ \A m \in 1 .. n : script[m] = s <=> \E k \in 1 .. a : all[k] = <<c, m>>
    BY DEF Printed
  <1> HIDE DEF all, a
  <1>3. CASE len = 0
    <2>1. Printed(c, script, s, units, 0)
      BY <1>3 DEF Printed
    <2> QED BY <2>1
  <1>4. CASE len # 0
    <2>0. len \in 1 .. len /\ len \in 1 .. a
      BY <1>1, <1>4
    <2>1. PICK m \in 1 .. n : all[len] = <<c, m>>
      BY <1>2, <2>0
    <2>2. ASSUME NEW k \in 1 .. len
          PROVE  \E i \in 1 .. m : units[k] = <<c, i>> /\ units[k][2] = i
      <3>0. k \in 1 .. a
        BY <1>1
      <3>1. PICK i \in 1 .. n : all[k] = <<c, i>>
        BY <1>2, <3>0
      <3>2. k < len => i < m
        BY <1>2, <2>0, <2>1, <3>0, <3>1
      <3>3. k = len => i = m
        BY <2>1, <3>1
      <3>4. i \in 1 .. m
        BY <1>1, <3>2, <3>3
      <3> QED BY <1>1, <3>1, <3>4
    <2>3. \A k \in 1 .. len : units[k] \in {<<c, i>> : i \in 1 .. m}
      BY <2>2
    <2>4. \A k, l \in 1 .. len : k < l => units[k][2] < units[l][2]
      <3>1. \A k \in 1 .. len : k \in 1 .. a
        BY <1>1
      <3> QED BY <1>1, <1>2, <3>1
    <2>5. ASSUME NEW i \in 1 .. m
          PROVE  script[i] = s <=> \E k \in 1 .. len : units[k] = <<c, i>>
      <3>1. i \in 1 .. n
        OBVIOUS
      <3>2. ASSUME NEW k \in 1 .. a, all[k] = <<c, i>> PROVE k \in 1 .. len /\ units[k] = <<c, i>>
        <4>1. ~(len < k)
          <5> SUFFICES ASSUME len < k PROVE FALSE
            OBVIOUS
          <5>1. all[len][2] < all[k][2]
            BY <1>2, <2>0
          <5> QED BY <2>1, <3>2, <5>1
        <4>2. k \in 1 .. len
          BY <1>1, <4>1
        <4> QED BY <1>1, <3>2, <4>2
      <3>3. ASSUME NEW k \in 1 .. len, units[k] = <<c, i>> PROVE k \in 1 .. a /\ all[k] = <<c, i>>
        BY <1>1, <3>3
      <3> QED BY <1>2, <3>1, <3>2, <3>3
    <2>6. Printed(c, script, s, units, m)
      BY <2>3, <2>4, <2>5 DEF Printed
    <2> QED BY <2>6
  <1> QED BY <1>3, <1>4

\* No rez has been run.
LEMMA RezStarts == RezInit => RezInv
  <1> SUFFICES ASSUME RezInit PROVE RezInv
    OBVIOUS
  <1>1. Len(rzDef) \in Nat /\ << >> \in Units /\ << >> \in Seq(CaptureStreams)
    BY RezAssumption DEF RezInit, Units
  <1>2. RezTypeOK
    BY <1>1 DEF RezInit, RezTypeOK, RezComps, Cleared, ChildStates, CaptureStreams
  <1>3. ContextIsOwnOutput
    <2> SUFFICES ASSUME NEW c \in RezComps
                 PROVE  \E n \in 0 .. Len(rzChild[c].script) : Printed(c, rzChild[c].script, "out", rzContext[c], n)
      BY DEF ContextIsOwnOutput
    <2>1. rzContext[c] = << >> /\ Len(rzChild[c].script) = 0
      BY DEF RezInit
    <2> QED BY <2>1, PrintedNothing
  <1> QED BY <1>2, <1>3 DEF RezInit, RezInv, NotRun, Untouched, RunInOrder, OutputCaptured

\* What is known of computation c when its rez is left alone.
SameRun(c) ==
    /\ UNCHANGED <<rzContext[c], rzCapture[c], rzPipe[c], rzThread[c]>>
    /\ rzChild'[c].script = rzChild[c].script /\ rzChild'[c].at = rzChild[c].at
    /\ rzChild'[c].st = "none" <=> rzChild[c].st = "none"

\* The facts about the one computation c.
RunOf(c) ==
    /\ rzChild[c].st = "none" => Untouched(c)
    /\ \A s \in CaptureStreams : rzChild[c].st # "none" =>
            /\ rzChild[c].at <= Len(rzChild[c].script)
            /\ Printed(c, rzChild[c].script, s, rzCapture[c][s] \o rzPipe[c][s], rzChild[c].at)
    /\ \E n \in 0 .. Len(rzChild[c].script) : Printed(c, rzChild[c].script, "out", rzContext[c], n)

\* The parts of the invariant that speak of a computation, taken one at a time.
LEMMA RunsTogether ==
    NotRun /\ OutputCaptured /\ ContextIsOwnOutput <=> \A c \in RezComps : RunOf(c)
  BY DEF NotRun, OutputCaptured, ContextIsOwnOutput, RunOf

\* The same of the next state.
LEMMA RunsTogetherNext ==
    NotRun' /\ OutputCaptured' /\ ContextIsOwnOutput' <=> \A c \in RezComps' : RunOf(c)'
  BY DEF NotRun, OutputCaptured, ContextIsOwnOutput, RunOf

\* A step that changes nothing of a run.
LEMMA SameRunKeeps ==
    ASSUME NEW c, RunOf(c), SameRun(c)
    PROVE  RunOf(c)'
  <1>1. /\ rzContext'[c] = rzContext[c] /\ rzCapture'[c] = rzCapture[c]
        /\ rzPipe'[c] = rzPipe[c] /\ rzThread'[c] = rzThread[c]
        /\ rzChild'[c].script = rzChild[c].script /\ rzChild'[c].at = rzChild[c].at
        /\ rzChild'[c].st = "none" <=> rzChild[c].st = "none"
    BY DEF SameRun
  <1>2. (rzChild[c].st = "none" => Untouched(c))'
    BY <1>1 DEF RunOf, Untouched
  <1>3. ASSUME NEW s \in CaptureStreams, rzChild'[c].st # "none"
        PROVE  /\ rzChild'[c].at <= Len(rzChild'[c].script)
               /\ Printed(c, rzChild'[c].script, s, rzCapture'[c][s] \o rzPipe'[c][s], rzChild'[c].at)
    BY <1>1, <1>3 DEF RunOf
  <1>4. \E n \in 0 .. Len(rzChild'[c].script) : Printed(c, rzChild'[c].script, "out", rzContext'[c], n)
    BY <1>1 DEF RunOf
  <1> QED BY <1>2, <1>3, <1>4 DEF RunOf

\* What suffices for the invariant after a step.
LEMMA RezInvFrom ==
    ASSUME RezTypeOK', RunInOrder', UNCHANGED rzDef, \A c \in RezComps : RunOf(c)'
    PROVE  RezInv'
  <1>1. RezComps' = RezComps
    BY DEF RezComps
  <1>2. NotRun' /\ OutputCaptured' /\ ContextIsOwnOutput'
    BY <1>1, RunsTogetherNext
  <1> QED BY <1>2 DEF RezInv

\* What the invariant gives before it.
LEMMA RezInvTo ==
    ASSUME RezInv
    PROVE  RezTypeOK /\ RunInOrder /\ \A c \in RezComps : RunOf(c)
  BY RunsTogether DEF RezInv

\* The resolver goes from one computation to the next.
LEMMA NextComputationKeeps ==
    ASSUME RezInv, NextComputation
    PROVE  RezInv'
  <1>0. /\ RezTypeOK /\ RunInOrder /\ \A c \in RezComps : RunOf(c)
        /\ UNCHANGED <<rzDef, rzContext, rzCapture, rzChild, rzPipe, rzThread>>
        /\ rzPc = "next"
    BY RezInvTo DEF NextComputation
  <1>1. \/ rzPc' = "done" /\ rzAt' = rzAt
        \/ rzPc' = "next" /\ rzAt' = rzAt + 1
        \/ rzPc' = "spawn" /\ rzAt' = rzAt /\ rzAt <= Len(rzDef)
    <2>1. CASE rzAt > Len(rzDef)
      BY <2>1 DEF NextComputation, EndResolve
    <2>2. CASE ~(rzAt > Len(rzDef))
      <3>1. rzAt <= Len(rzDef)
        BY <1>0, <2>2 DEF RezTypeOK
      <3> QED BY <2>2, <3>1 DEF NextComputation, EndResolve, NextRequirements
    <2> QED BY <2>1, <2>2
  <1>2. RezTypeOK' /\ RunInOrder'
    BY <1>0, <1>1 DEF RezTypeOK, RunInOrder, RezComps
  <1>3. \A c \in RezComps : SameRun(c)
    BY <1>0 DEF SameRun
  <1> QED BY <1>0, <1>2, <1>3, SameRunKeeps, RezInvFrom

\* It waits for rez, or stops waiting.
LEMMA WaitForRezKeeps ==
    ASSUME RezInv, WaitForRez
    PROVE  RezInv'
  <1>0. /\ RezTypeOK /\ RunInOrder /\ \A c \in RezComps : RunOf(c)
        /\ UNCHANGED <<rzDef, rzAt, rzContext, rzCapture, rzChild, rzPipe, rzThread>>
        /\ rzPc = "wait" /\ rzPc' = "remove"
    BY RezInvTo DEF WaitForRez
  <1>2. RezTypeOK' /\ RunInOrder'
    BY <1>0 DEF RezTypeOK, RunInOrder, RezComps
  <1>3. \A c \in RezComps : SameRun(c)
    BY <1>0 DEF SameRun
  <1> QED BY <1>0, <1>2, <1>3, SameRunKeeps, RezInvFrom

\* A child ends: by itself, or killed.
LEMMA ChildEndsKeeps ==
    ASSUME RezInv, NEW c \in RezComps, NEW status \in Nat,
           \/ rzChild[c].st = "running" /\ rzChild' = [rzChild EXCEPT ![c].st = "exited", ![c].status = status]
           \/ rzChild' = rzChild,
           UNCHANGED <<rzDef, rzAt, rzContext, rzCapture, rzPipe, rzThread>>,
           rzPc' = rzPc \/ (rzPc = "remove" /\ rzPc' = "judge")
    PROVE  RezInv'
  <1>0. RezTypeOK /\ RunInOrder /\ \A d \in RezComps : RunOf(d)
    BY RezInvTo
  <1>1. rzChild \in [RezComps -> ChildStates] /\ rzChild[c] \in ChildStates
    BY <1>0 DEF RezTypeOK
  <1>2. /\ rzChild' \in [RezComps -> ChildStates]
        /\ \A d \in RezComps : /\ rzChild'[d].script = rzChild[d].script /\ rzChild'[d].at = rzChild[d].at
                               /\ rzChild'[d].st = "none" <=> rzChild[d].st = "none"
    <2>1. CASE rzChild' = rzChild
      BY <1>1, <2>1
    <2>2. CASE rzChild[c].st = "running" /\ rzChild' = [rzChild EXCEPT ![c].st = "exited", ![c].status = status]
      <3> DEFINE x == [rzChild[c] EXCEPT !.st = "exited"]
                 y == [x EXCEPT !.status = status]
      <3>1. x \in ChildStates /\ x.st = "exited" /\ x.script = rzChild[c].script /\ x.at = rzChild[c].at
        BY <1>1 DEF ChildStates
      <3>2. rzChild' = [rzChild EXCEPT ![c] = y]
        BY <1>1, <2>2
      <3> HIDE DEF x
      <3>3. y \in ChildStates /\ y.st = "exited" /\ y.script = x.script /\ y.at = x.at
        BY <3>1 DEF ChildStates
      <3> HIDE DEF y
      <3>4. rzChild'[c] = y /\ \A d \in RezComps : d # c => rzChild'[d] = rzChild[d]
        BY <1>1, <3>2
      <3>5. rzChild' \in [RezComps -> ChildStates]
        BY <1>1, <3>2, <3>3
      <3>6. ASSUME NEW d \in RezComps
            PROVE  /\ rzChild'[d].script = rzChild[d].script /\ rzChild'[d].at = rzChild[d].at
                   /\ rzChild'[d].st = "none" <=> rzChild[d].st = "none"
        BY <2>2, <3>1, <3>3, <3>4
      <3> QED BY <3>5, <3>6
    <2> QED BY <2>1, <2>2
  <1>3. RezTypeOK' /\ RunInOrder'
    BY <1>0, <1>2 DEF RezTypeOK, RunInOrder, RezComps
  <1>4. \A d \in RezComps : SameRun(d)
    BY <1>2 DEF SameRun
  <1> QED BY <1>0, <1>3, <1>4, SameRunKeeps, RezInvFrom

\* Once the wait is over the process is removed: a child still running is killed.
LEMMA RemoveRezKeeps ==
    ASSUME RezInv, RemoveRez
    PROVE  RezInv'
  <1>1. /\ rzPc = "remove" /\ rzPc' = "judge" /\ rzAt \in RezComps
        /\ rzChild \in [RezComps -> ChildStates]
        /\ UNCHANGED <<rzDef, rzAt, rzContext, rzCapture, rzPipe, rzThread>>
    BY RezInvTo DEF RemoveRez, RezTypeOK
  <1>2. CASE rzChild[rzAt].st = "running"
    <2>1. rzChild' = [rzChild EXCEPT ![rzAt].st = "exited", ![rzAt].status = 9]
      BY <1>2 DEF RemoveRez
    <2> QED BY <1>1, <1>2, <2>1, ChildEndsKeeps
  <1>3. CASE rzChild[rzAt].st # "running"
    <2>1. rzChild' = rzChild
      BY <1>1, <1>3 DEF RemoveRez
    <2> QED BY <1>1, <2>1, ChildEndsKeeps
  <1> QED BY <1>2, <1>3

\* rez ends of its own accord.
LEMMA RezExitsKeeps ==
    ASSUME RezInv, NEW c \in RezComps, RezExits(c)
    PROVE  RezInv'
  <1>1. PICK status \in {0, 1} : rzChild' = [rzChild EXCEPT ![c].st = "exited", ![c].status = status]
    BY DEF RezExits
  <1>2. /\ rzChild[c].st = "running" /\ rzPc' = rzPc /\ status \in Nat
        /\ UNCHANGED <<rzDef, rzAt, rzContext, rzCapture, rzPipe, rzThread>>
    BY DEF RezExits
  <1> QED BY <1>1, <1>2, ChildEndsKeeps

\* The captured output becomes the context, or the resolution ends.
LEMMA JudgeOutputKeeps ==
    ASSUME RezInv, JudgeOutput
    PROVE  RezInv'
  <1>0. /\ RezTypeOK /\ RunInOrder /\ \A c \in RezComps : RunOf(c)
        /\ UNCHANGED <<rzDef, rzCapture, rzChild, rzPipe, rzThread>>
        /\ rzPc = "judge" /\ rzAt \in RezComps /\ rzAt \in Nat
    BY RezInvTo DEF JudgeOutput, RezTypeOK
  <1> DEFINE out == rzCapture[rzAt].out
  <1>1. \/ rzContext' = [rzContext EXCEPT ![rzAt] = out] /\ rzPc' = "next" /\ rzAt' = rzAt + 1
        \/ rzContext' = rzContext /\ rzPc' = "done" /\ rzAt' = rzAt
    BY DEF JudgeOutput, resolvePackages, CaptureOf, EndResolve, NextRequirements
  <1>2. rzCapture[rzAt] \in [out : Units, err : Units] /\ rzPipe[rzAt] \in [out : Units, err : Units, parent : BOOLEAN]
    BY <1>0 DEF RezTypeOK
  <1>3. out \in Units /\ rzPipe[rzAt].out \in Units
    BY <1>2
  <1>4. RezTypeOK'
    <2>1. rzContext' \in [RezComps -> Units]
      BY <1>0, <1>1, <1>3 DEF RezTypeOK
    <2> QED BY <1>0, <1>1, <2>1 DEF RezTypeOK, RezComps
  <1>5. RunInOrder'
    BY <1>0, <1>1 DEF RezTypeOK, RunInOrder, RezComps
  <1>6. ASSUME NEW c \in RezComps PROVE RunOf(c)'
    <2>1. CASE rzContext'[c] = rzContext[c]
      <3>1. SameRun(c)
        BY <1>0, <2>1 DEF SameRun
      <3> QED BY <1>0, <3>1, SameRunKeeps
    <2>2. CASE rzContext'[c] # rzContext[c]
      <3>1. c = rzAt /\ rzContext'[c] = out
        BY <1>0, <1>1, <2>2 DEF RezTypeOK
      <3>2. /\ rzChild[c].st # "none" /\ rzChild[c] \in ChildStates
            /\ rzChild[c].at <= Len(rzChild[c].script)
            /\ Printed(c, rzChild[c].script, "out", out \o rzPipe[c].out, rzChild[c].at)
        BY <1>0, <3>1 DEF RunInOrder, RunOf, CaptureStreams, RezTypeOK
      <3>3. rzChild[c].at \in Nat /\ Len(rzChild[c].script) \in Nat /\ c \in Nat
        BY <1>0, <3>1, <3>2 DEF ChildStates
      <3>4. PICK m \in 0 .. rzChild[c].at : Printed(c, rzChild[c].script, "out", out, m)
        BY <1>3, <3>1, <3>2, <3>3, PrintedPrefix
      <3>5. m \in 0 .. Len(rzChild[c].script)
        BY <3>2, <3>3
      <3>6. rzChild' = rzChild /\ rzCapture' = rzCapture /\ rzPipe' = rzPipe
        BY <1>0
      <3>7. /\ \E n \in 0 .. Len(rzChild'[c].script) : Printed(c, rzChild'[c].script, "out", rzContext'[c], n)
        BY <3>1, <3>4, <3>5, <3>6
      <3>8. \A s \in CaptureStreams : rzChild'[c].st # "none" =>
              /\ rzChild'[c].at <= Len(rzChild'[c].script)
              /\ Printed(c, rzChild'[c].script, s, rzCapture'[c][s] \o rzPipe'[c][s], rzChild'[c].at)
        BY <1>0, <3>6 DEF RunOf
      <3> QED BY <3>2, <3>6, <3>7, <3>8 DEF RunOf
    <2> QED BY <2>1, <2>2
  <1> QED BY <1>0, <1>4, <1>5, <1>6, RezInvFrom

\* A rez is started, with an empty capture; or cannot be.
LEMMA SpawnRezKeeps ==
    ASSUME RezInv, SpawnRez
    PROVE  RezInv'
  <1>0. /\ RezTypeOK /\ RunInOrder /\ \A c \in RezComps : RunOf(c)
        /\ UNCHANGED <<rzDef, rzContext>>
        /\ rzPc = "spawn" /\ rzAt \in RezComps /\ rzAt \in Nat
    BY RezInvTo DEF SpawnRez, RezTypeOK
  <1>1. /\ rzChild[rzAt].st = "none" /\ Untouched(rzAt)
    BY <1>0 DEF RunInOrder, RunOf
  <1>2. rzCapture' = [rzCapture EXCEPT ![rzAt] = Cleared]
    BY DEF SpawnRez, CaptureOf
  <1>3. /\ rzCapture' \in [RezComps -> [out : Units, err : Units]] /\ rzCapture'[rzAt] = Cleared
        /\ \A c \in RezComps : c # rzAt => rzCapture'[c] = rzCapture[c]
    <2>1. Cleared \in [out : Units, err : Units]
      BY DEF Cleared, Units
    <2> QED BY <1>0, <1>2, <2>1 DEF RezTypeOK
  <1>4. CASE rzPc' = "done" /\ rzAt' = rzAt /\ UNCHANGED <<rzChild, rzPipe, rzThread>>
    <2>1. RezTypeOK' /\ RunInOrder'
      BY <1>0, <1>3, <1>4 DEF RezTypeOK, RunInOrder, RezComps
    <2>2. ASSUME NEW c \in RezComps PROVE RunOf(c)'
      <3>1. CASE c # rzAt
        <4>1. SameRun(c)
          BY <1>0, <1>3, <1>4, <3>1 DEF SameRun
        <4> QED BY <1>0, <4>1, SameRunKeeps
      <3>2. CASE c = rzAt
        <4>1. rzChild'[c].st = "none" /\ rzChild'[c].script = rzChild[c].script /\ rzContext'[c] = rzContext[c]
          BY <1>0, <1>1, <1>4, <3>2
        <4>2. Untouched(c)'
          BY <1>0, <1>1, <1>4, <3>2 DEF Untouched
        <4> QED BY <1>0, <4>1, <4>2 DEF RunOf
      <3> QED BY <3>1, <3>2
    <2> QED BY <1>0, <2>1, <2>2, RezInvFrom
  <1>5. ASSUME NEW script \in Scripts,
               rzChild' = [rzChild EXCEPT ![rzAt] = [st |-> "running", script |-> script, at |-> 0, status |-> 0]],
               rzPipe' = [rzPipe EXCEPT ![rzAt].parent = ParentHolds],
               rzThread' = [rzThread EXCEPT ![rzAt].pc = "out"],
               rzPc' = "wait", rzAt' = rzAt
        PROVE  RezInv'
    <2> DEFINE new == [st |-> "running", script |-> script, at |-> 0, status |-> 0]
    <2>1. new \in ChildStates /\ new.st = "running" /\ new.script = script /\ new.at = 0 /\ Len(script) \in Nat
      BY RezAssumption DEF ChildStates
    <2> HIDE DEF new
    <2>2. /\ rzChild' \in [RezComps -> ChildStates] /\ rzChild'[rzAt] = new
          /\ \A c \in RezComps : c # rzAt => rzChild'[c] = rzChild[c]
      <3>1. rzChild' = [rzChild EXCEPT ![rzAt] = new]
        BY <1>5 DEF new
      <3> QED BY <1>0, <2>1, <3>1 DEF RezTypeOK
    <2>3. /\ rzPipe' \in [RezComps -> [out : Units, err : Units, parent : BOOLEAN]]
          /\ rzPipe'[rzAt].out = << >> /\ rzPipe'[rzAt].err = << >>
          /\ \A c \in RezComps : c # rzAt => rzPipe'[c] = rzPipe[c]
      <3>1. rzPipe \in [RezComps -> [out : Units, err : Units, parent : BOOLEAN]]
        BY <1>0 DEF RezTypeOK
      <3> DEFINE y == [rzPipe[rzAt] EXCEPT !.parent = ParentHolds]
      <3>2. y \in [out : Units, err : Units, parent : BOOLEAN] /\ y.out = rzPipe[rzAt].out /\ y.err = rzPipe[rzAt].err
        BY <1>0, <3>1 DEF ParentHolds
      <3>3. rzPipe' = [rzPipe EXCEPT ![rzAt] = y]
        BY <1>5
      <3> HIDE DEF y
      <3>4. rzPipe'[rzAt] = y
        BY <1>0, <3>1, <3>3
      <3> QED BY <1>0, <1>1, <3>1, <3>2, <3>3, <3>4 DEF Untouched
    <2>4. /\ rzThread' \in [RezComps -> [pc : {"none", "out", "err", "ended"}, open : SUBSET CaptureStreams]]
          /\ \A c \in RezComps : c # rzAt => rzThread'[c] = rzThread[c]
      BY <1>0, <1>5 DEF RezTypeOK
    <2>5. RezTypeOK' /\ RunInOrder'
      <3>1. RezTypeOK'
        BY <1>0, <1>3, <1>5, <2>2, <2>3, <2>4 DEF RezTypeOK, RezComps
      <3>2. RunInOrder'
        BY <1>0, <1>5, <2>1, <2>2 DEF RunInOrder, RezComps
      <3> QED BY <3>1, <3>2
    <2>6. ASSUME NEW c \in RezComps PROVE RunOf(c)'
      <3>1. CASE c # rzAt
        <4>1. SameRun(c)
          BY <1>0, <1>3, <2>2, <2>3, <2>4, <3>1 DEF SameRun
        <4> QED BY <1>0, <4>1, SameRunKeeps
      <3>2. CASE c = rzAt
        <4>1. /\ rzChild'[c].st = "running" /\ rzChild'[c].script = script /\ rzChild'[c].at = 0
              /\ rzContext'[c] = << >>
          BY <1>0, <1>1, <2>1, <2>2, <3>2 DEF Untouched
        <4>2. ASSUME NEW s \in CaptureStreams PROVE rzCapture'[c][s] \o rzPipe'[c][s] = << >>
          <5>1. rzCapture'[c][s] = << >> /\ rzPipe'[c][s] = << >>
            BY <1>3, <2>3, <3>2 DEF Cleared, CaptureStreams
          <5> QED BY <5>1
        <4>3. \A s \in CaptureStreams : Printed(c, script, s, rzCapture'[c][s] \o rzPipe'[c][s], 0)
          BY <4>2, PrintedNothing
        <4>4. \E n \in 0 .. Len(script) : Printed(c, script, "out", << >>, n)
          BY <2>1, PrintedNothing
        <4> QED BY <2>1, <4>1, <4>3, <4>4 DEF RunOf
      <3> QED BY <3>1, <3>2
    <2> QED BY <1>0, <2>5, <2>6, RezInvFrom
  <1> QED BY <1>4, <1>5 DEF SpawnRez, EndResolve

\* Rez writes to one of its streams.
LEMMA RezWritesKeeps ==
    ASSUME RezInv, NEW c \in RezComps, RezWrites(c)
    PROVE  RezInv'
  <1> DEFINE n == rzChild[c].at + 1
             script == rzChild[c].script
             s == script[n]
             u == <<c, n>>
  <1>0. /\ RezTypeOK /\ RunInOrder /\ \A d \in RezComps : RunOf(d)
        /\ UNCHANGED <<rzDef, rzAt, rzPc, rzContext, rzCapture, rzThread>>
        /\ rzChild[c].st = "running" /\ rzChild[c].at < Len(script)
        /\ rzPipe' = [rzPipe EXCEPT ![c][s] = Append(@, u)]
        /\ rzChild' = [rzChild EXCEPT ![c].at = n]
    BY RezInvTo DEF RezWrites
  <1>1. /\ rzChild \in [RezComps -> ChildStates] /\ rzChild[c] \in ChildStates /\ script \in Seq(CaptureStreams)
        /\ rzChild[c].at \in Nat /\ n \in Nat /\ Len(script) \in Nat /\ n \in 1 .. Len(script) /\ s \in CaptureStreams
        /\ c \in Nat /\ u \in Nat \X Nat
    <2>1. rzChild \in [RezComps -> ChildStates] /\ c \in Nat
      <3>1. rzChild \in [RezComps -> ChildStates]
        BY <1>0 DEF RezTypeOK
      <3>2. c \in Nat
        BY DEF RezComps
      <3> QED BY <3>1, <3>2
    <2>2. /\ rzChild[c] \in ChildStates /\ script \in Seq(CaptureStreams) /\ rzChild[c].at \in Nat
      BY <2>1 DEF ChildStates
    <2>3. n \in Nat /\ Len(script) \in Nat /\ n \in 1 .. Len(script)
      <3>1. Len(script) \in Nat
        BY <2>2
      <3>2. rzChild[c].at < Len(script) /\ rzChild[c].at \in Nat
        BY <1>0, <2>2
      <3> HIDE DEF script
      <3> QED BY <3>1, <3>2
    <2>4. s \in CaptureStreams
      BY <2>2, <2>3
    <2> QED BY <2>1, <2>2, <2>3, <2>4
  <1>2. /\ rzPipe[c] \in [out : Units, err : Units, parent : BOOLEAN]
        /\ rzPipe \in [RezComps -> [out : Units, err : Units, parent : BOOLEAN]]
        /\ rzCapture[c] \in [out : Units, err : Units]
    BY <1>0 DEF RezTypeOK
  <1> HIDE DEF n, s, u
  <1>3. /\ rzChild' \in [RezComps -> ChildStates]
        /\ rzChild'[c].st = "running" /\ rzChild'[c].script = script /\ rzChild'[c].at = n
        /\ \A d \in RezComps : d # c => rzChild'[d] = rzChild[d]
    BY <1>0, <1>1 DEF ChildStates
  <1>4. /\ rzPipe' \in [RezComps -> [out : Units, err : Units, parent : BOOLEAN]]
        /\ rzPipe'[c][s] = Append(rzPipe[c][s], u)
        /\ \A r \in CaptureStreams : r # s => rzPipe'[c][r] = rzPipe[c][r]
        /\ \A d \in RezComps : d # c => rzPipe'[d] = rzPipe[d]
    <2> DEFINE y == [rzPipe[c] EXCEPT ![s] = Append(@, u)]
    <2>1. Append(rzPipe[c][s], u) \in Units
      BY <1>1, <1>2 DEF Units, CaptureStreams
    <2>2. /\ y \in [out : Units, err : Units, parent : BOOLEAN] /\ y[s] = Append(rzPipe[c][s], u)
          /\ \A r \in CaptureStreams : r # s => y[r] = rzPipe[c][r]
      <3>1. CASE s = "out"
        BY <1>2, <2>1, <3>1 DEF CaptureStreams
      <3>2. CASE s = "err"
        BY <1>2, <2>1, <3>2 DEF CaptureStreams
      <3> QED BY <1>1, <3>1, <3>2 DEF CaptureStreams
    <2>3. rzPipe' = [rzPipe EXCEPT ![c] = y]
      BY <1>0
    <2> HIDE DEF y
    <2>4. rzPipe'[c] = y /\ \A d \in RezComps : d # c => rzPipe'[d] = rzPipe[d]
      BY <1>2, <2>3
    <2>5. rzPipe' \in [RezComps -> [out : Units, err : Units, parent : BOOLEAN]]
      BY <1>2, <2>2, <2>3
    <2> QED BY <2>2, <2>4, <2>5
  <1>5. RezTypeOK' /\ RunInOrder'
    <2>1. RezTypeOK'
      BY <1>0, <1>3, <1>4 DEF RezTypeOK, RezComps
    <2>2. RunInOrder'
      BY <1>0, <1>3 DEF RunInOrder, RezComps
    <2> QED BY <2>1, <2>2
  <1>6. ASSUME NEW d \in RezComps PROVE RunOf(d)'
    <2>1. CASE d # c
      <3>1. SameRun(d)
        BY <1>0, <1>3, <1>4, <2>1 DEF SameRun
      <3> QED BY <1>0, <3>1, SameRunKeeps
    <2>2. CASE d = c
      <3>1. ASSUME NEW r \in CaptureStreams
            PROVE  Printed(c, script, r, rzCapture[c][r] \o rzPipe'[c][r], n)
        <4> DEFINE both == rzCapture[c][r] \o rzPipe[c][r]
                   k == rzChild[c].at
        <4>1. Printed(c, script, r, both, k) /\ n = k + 1 /\ k \in Nat
          BY <1>0, <1>1 DEF RunOf, n
        <4>2. rzCapture[c][r] \in Units /\ rzPipe[c][r] \in Units
          BY <1>2 DEF CaptureStreams
        <4>3. both \in Units
          BY <4>2 DEF Units
        <4>4. CASE r = s
          <5>1. rzPipe'[c][r] = Append(rzPipe[c][r], u)
            BY <1>4, <4>4
          <5>2. rzCapture[c][r] \o Append(rzPipe[c][r], u) = Append(both, u)
            <6> DEFINE q == rzCapture[c][r]
                       w == rzPipe[c][r]
            <6>1. q \in Seq(Nat \X Nat) /\ w \in Seq(Nat \X Nat) /\ u \in Nat \X Nat
              BY <1>1, <4>2 DEF Units, u
            <6> HIDE DEF q, w, u
            <6>2. q \o (w \o <<u>>) = (q \o w) \o <<u>>
              BY <6>1
            <6>3. Append(w, u) = w \o <<u>> /\ Append(q \o w, u) = (q \o w) \o <<u>>
              BY <6>1
            <6> QED BY <6>2, <6>3 DEF q, w, both
          <5>3. script[k + 1] = r /\ u = <<c, k + 1>>
            BY <4>1, <4>4 DEF s, u
          <5> HIDE DEF both, k
          <5>4. Printed(c, script, r, Append(both, <<c, k + 1>>), k + 1)
            BY <1>1, <4>1, <4>3, <5>3, PrintedNext
          <5> QED BY <4>1, <5>1, <5>2, <5>3, <5>4
        <4>5. CASE r # s
          <5>1. rzPipe'[c][r] = rzPipe[c][r]
            BY <1>4, <4>5
          <5>2. script[k + 1] # r
            BY <4>1, <4>5 DEF s
          <5> HIDE DEF both, k
          <5>3. Printed(c, script, r, both, k + 1)
            BY <1>1, <4>1, <4>3, <5>2, PrintedElsewhere
          <5> QED BY <4>1, <5>1, <5>3 DEF both
        <4> QED BY <4>4, <4>5
      <3>2. n <= Len(script)
        BY <1>1
      <3>3. rzContext'[c] = rzContext[c] /\ rzCapture'[c] = rzCapture[c]
        BY <1>0
      <3>4. \E m \in 0 .. Len(rzChild'[c].script) : Printed(c, rzChild'[c].script, "out", rzContext'[c], m)
        BY <1>0, <1>3, <3>3 DEF RunOf
      <3> QED BY <1>3, <2>2, <3>1, <3>2, <3>3, <3>4 DEF RunOf
    <2> QED BY <2>1, <2>2
  <1> QED BY <1>0, <1>5, <1>6, RezInvFrom

\* A unit moves from the pipe to the capture.
LEMMA CaptureReadsKeeps ==
    ASSUME RezInv, NEW c \in RezComps, CaptureReads(c)
    PROVE  RezInv'
  <1> DEFINE s == rzThread[c].pc
             open == IF rzPipe[c][s] = << >> THEN rzThread[c].open \ {s} ELSE rzThread[c].open
             next == [open |-> open,
                      pc |-> IF OtherStream(s) \in open THEN OtherStream(s) ELSE IF open # {} THEN s ELSE "ended"]
  <1>0. /\ RezTypeOK /\ RunInOrder /\ \A d \in RezComps : RunOf(d)
        /\ UNCHANGED <<rzDef, rzAt, rzPc, rzContext, rzChild>>
        /\ s \in CaptureStreams
        /\ rzPipe' = [rzPipe EXCEPT ![c][s] = IF @ = << >> THEN @ ELSE Tail(@)]
        /\ rzCapture' = [rzCapture EXCEPT ![c] = IF rzPipe[c][s] = << >> THEN @ ELSE Captured(@, s, Head(rzPipe[c][s]))]
        /\ rzThread' = [rzThread EXCEPT ![c] = next]
    BY RezInvTo DEF CaptureReads, CaptureOf
  <1>1. /\ rzPipe[c] \in [out : Units, err : Units, parent : BOOLEAN]
        /\ rzPipe \in [RezComps -> [out : Units, err : Units, parent : BOOLEAN]]
        /\ rzCapture[c] \in [out : Units, err : Units]
        /\ rzCapture \in [RezComps -> [out : Units, err : Units]]
        /\ rzThread \in [RezComps -> [pc : {"none", "out", "err", "ended"}, open : SUBSET CaptureStreams]]
    BY <1>0 DEF RezTypeOK
  <1>2. rzChild[c].st # "none"
    BY <1>0 DEF RunOf, Untouched, CaptureStreams
  <1>3. rzPipe[c][s] \in Units /\ rzCapture[c][s] \in Units
    BY <1>0, <1>1 DEF CaptureStreams
  <1>4. /\ rzThread' \in [RezComps -> [pc : {"none", "out", "err", "ended"}, open : SUBSET CaptureStreams]]
        /\ \A d \in RezComps : d # c => rzThread'[d] = rzThread[d]
    <2>1. next \in [pc : {"none", "out", "err", "ended"}, open : SUBSET CaptureStreams]
      <3>1. open \subseteq CaptureStreams
        BY <1>1
      <3> HIDE DEF open
      <3> QED BY <1>0, <3>1 DEF OtherStream, CaptureStreams
    <2> HIDE DEF next
    <2> QED BY <1>0, <1>1, <2>1
  <1> HIDE DEF next
  <1> DEFINE left == IF rzPipe[c][s] = << >> THEN rzPipe[c][s] ELSE Tail(rzPipe[c][s])
             got == IF rzPipe[c][s] = << >> THEN rzCapture[c][s] ELSE Append(rzCapture[c][s], Head(rzPipe[c][s]))
  <1>5. left \in Units /\ got \in Units /\ got \o left = rzCapture[c][s] \o rzPipe[c][s]
    <2> DEFINE p == rzPipe[c][s]
               q == rzCapture[c][s]
    <2>1. p \in Seq(Nat \X Nat) /\ q \in Seq(Nat \X Nat)
      BY <1>3 DEF Units
    <2>2. CASE p = << >>
      BY <2>1, <2>2 DEF Units
    <2>3. CASE p # << >>
      <3> HIDE DEF p, q
      <3>1. /\ Tail(p) \in Seq(Nat \X Nat) /\ Append(q, Head(p)) \in Seq(Nat \X Nat)
            /\ Append(q, Head(p)) \o Tail(p) = q \o p
        <4> DEFINE u == Head(p)
                   t == Tail(p)
        <4>1. u \in Nat \X Nat /\ t \in Seq(Nat \X Nat) /\ p = <<u>> \o t
          BY <2>1, <2>3
        <4> HIDE DEF u, t
        <4>2. Append(q, u) \in Seq(Nat \X Nat) /\ Append(q, u) = q \o <<u>> /\ <<u>> \in Seq(Nat \X Nat)
          BY <2>1, <4>1
        <4>3. (q \o <<u>>) \o t = q \o (<<u>> \o t)
          BY <2>1, <4>1, <4>2
        <4> QED BY <4>1, <4>2, <4>3 DEF u, t
      <3> QED BY <2>3, <3>1 DEF Units, p, q
    <2> QED BY <2>2, <2>3
  <1>6. /\ rzPipe' \in [RezComps -> [out : Units, err : Units, parent : BOOLEAN]]
        /\ rzPipe'[c][s] = left
        /\ \A r \in CaptureStreams : r # s => rzPipe'[c][r] = rzPipe[c][r]
        /\ \A d \in RezComps : d # c => rzPipe'[d] = rzPipe[d]
    <2> DEFINE y == [rzPipe[c] EXCEPT ![s] = left]
    <2>1. rzPipe' = [rzPipe EXCEPT ![c] = y]
      BY <1>0, <1>1
    <2> HIDE DEF left
    <2>2. /\ y \in [out : Units, err : Units, parent : BOOLEAN] /\ y[s] = left
          /\ \A r \in CaptureStreams : r # s => y[r] = rzPipe[c][r]
      <3>1. CASE s = "out"
        BY <1>1, <1>5, <3>1 DEF CaptureStreams
      <3>2. CASE s = "err"
        BY <1>1, <1>5, <3>2 DEF CaptureStreams
      <3> QED BY <1>0, <3>1, <3>2 DEF CaptureStreams
    <2> HIDE DEF y
    <2>3. rzPipe'[c] = y /\ \A d \in RezComps : d # c => rzPipe'[d] = rzPipe[d]
      BY <1>1, <2>1
    <2>4. rzPipe' \in [RezComps -> [out : Units, err : Units, parent : BOOLEAN]]
      BY <1>1, <2>1, <2>2
    <2> QED BY <2>2, <2>3, <2>4
  <1>7. /\ rzCapture' \in [RezComps -> [out : Units, err : Units]]
        /\ rzCapture'[c][s] = got
        /\ \A r \in CaptureStreams : r # s => rzCapture'[c][r] = rzCapture[c][r]
        /\ \A d \in RezComps : d # c => rzCapture'[d] = rzCapture[d]
    <2> DEFINE y == IF rzPipe[c][s] = << >> THEN rzCapture[c] ELSE Captured(rzCapture[c], s, Head(rzPipe[c][s]))
    <2>1. rzCapture' = [rzCapture EXCEPT ![c] = y]
      BY <1>0, <1>1
    <2>2. y = [rzCapture[c] EXCEPT ![s] = got]
      <3>1. CASE rzPipe[c][s] = << >>
        <4>1. y = rzCapture[c] /\ got = rzCapture[c][s]
          BY <3>1
        <4> QED BY <1>0, <1>1, <4>1 DEF CaptureStreams
      <3>2. CASE rzPipe[c][s] # << >>
        BY <3>2 DEF Captured
      <3> QED BY <3>1, <3>2
    <2> HIDE DEF y, got
    <2>3. /\ y \in [out : Units, err : Units] /\ y[s] = got
          /\ \A r \in CaptureStreams : r # s => y[r] = rzCapture[c][r]
      <3>1. CASE s = "out"
        BY <1>1, <1>5, <2>2, <3>1 DEF CaptureStreams
      <3>2. CASE s = "err"
        BY <1>1, <1>5, <2>2, <3>2 DEF CaptureStreams
      <3> QED BY <1>0, <3>1, <3>2 DEF CaptureStreams
    <2>4. rzCapture'[c] = y /\ \A d \in RezComps : d # c => rzCapture'[d] = rzCapture[d]
      BY <1>1, <2>1
    <2>5. rzCapture' \in [RezComps -> [out : Units, err : Units]]
      BY <1>1, <2>1, <2>3
    <2> QED BY <2>3, <2>4, <2>5
  <1> HIDE DEF left, got, s
  <1>8. RezTypeOK' /\ RunInOrder'
    <2>1. RezTypeOK'
      BY <1>0, <1>4, <1>6, <1>7 DEF RezTypeOK, RezComps
    <2>2. RunInOrder'
      BY <1>0 DEF RunInOrder, RezComps
    <2> QED BY <2>1, <2>2
  <1>9. ASSUME NEW d \in RezComps PROVE RunOf(d)'
    <2>1. CASE d # c
      <3>1. SameRun(d)
        BY <1>0, <1>4, <1>6, <1>7, <2>1 DEF SameRun
      <3> QED BY <1>0, <3>1, SameRunKeeps
    <2>2. CASE d = c
      <3>1. \A r \in CaptureStreams : rzCapture'[c][r] \o rzPipe'[c][r] = rzCapture[c][r] \o rzPipe[c][r]
        BY <1>5, <1>6, <1>7
      <3>2. rzChild' = rzChild /\ rzContext' = rzContext
        BY <1>0
      <3>3. \A r \in CaptureStreams :
              /\ rzChild'[c].at <= Len(rzChild'[c].script)
              /\ Printed(c, rzChild'[c].script, r, rzCapture'[c][r] \o rzPipe'[c][r], rzChild'[c].at)
        BY <1>0, <1>2, <3>1, <3>2 DEF RunOf
      <3>4. \E n \in 0 .. Len(rzChild'[c].script) : Printed(c, rzChild'[c].script, "out", rzContext'[c], n)
        BY <1>0, <3>2 DEF RunOf
      <3> QED BY <1>2, <2>2, <3>2, <3>3, <3>4 DEF RunOf
    <2> QED BY <2>1, <2>2
  <1> QED BY <1>0, <1>8, <1>9, RezInvFrom

\* Every step of a resolution.
LEMMA RezSteps == RezInv /\ [RezNext]_rezVars => RezInv'
  <1> SUFFICES ASSUME RezInv, [RezNext]_rezVars PROVE RezInv'
    OBVIOUS
  <1>1. CASE Resolver
    BY <1>1, NextComputationKeeps, SpawnRezKeeps, WaitForRezKeeps, RemoveRezKeeps, JudgeOutputKeeps DEF Resolver
  <1>2. ASSUME NEW c \in RezComps, RezWrites(c) \/ RezExits(c) \/ CaptureReads(c) PROVE RezInv'
    BY <1>2, RezWritesKeeps, RezExitsKeeps, CaptureReadsKeeps
  <1>3. CASE UNCHANGED rezVars
    <2>1. UNCHANGED <<rzDef, rzAt, rzPc, rzContext, rzCapture, rzChild, rzPipe, rzThread>>
      BY <1>3 DEF rezVars
    <2>2. /\ RezTypeOK /\ RunInOrder /\ \A c \in RezComps : RunOf(c)
      BY RezInvTo
    <2>3. RezTypeOK' /\ RunInOrder'
      BY <2>1, <2>2 DEF RezTypeOK, RunInOrder, RezComps
    <2>4. \A c \in RezComps : SameRun(c)
      BY <2>1 DEF SameRun
    <2> QED BY <2>1, <2>2, <2>3, <2>4, SameRunKeeps, RezInvFrom
  <1> QED BY <1>1, <1>2, <1>3 DEF RezNext

\* A computation's context is the beginning of what the rez run for it printed, and
\* holds nothing of any other: the thread that captures a child's output may outlive
\* the resolution that waited for the child.
THEOREM ContextsAreOwnOutput == RezSpec => []ContextIsOwnOutput
  <1>1. RezInv => ContextIsOwnOutput
    BY DEF RezInv
  <1> QED BY <1>1, RezStarts, RezSteps, PTL DEF RezSpec
-----------------------------------------------------------------------------
(* A player of recorded messages. *)

Frames == [file : Nat, size : Nat, bytes : Nat]

PlayTypeOK ==
    /\ mpFiles \in Seq(Files) /\ mpAt \in 0 .. Len(mpFiles)
    /\ mpPc \in {"connect", "ready", "list", "next", "write", "close", "finished", "ended"}
    /\ mpSent \in Seq(Frames) /\ mpExit \in {"none", "ok", "error", "abnormal"}

\* A player that runs has opened one frame for every file it has taken.
FrameForEachFile ==
    mpPc # "ended" => mpExit = "none" /\ Len(mpSent) = mpAt

NothingYet == mpPc \in {"connect", "ready", "list"} => mpAt = 0

\* Between two files every frame is filled with its file; a file is read to its end
\* before its frame is closed.
FilledAndRead ==
    /\ mpPc \in {"next", "finished"} =>
          \A i \in 1 .. mpAt : mpSent[i].bytes = mpSent[i].size /\ mpSent[i].bytes = mpFiles[i].data
    /\ mpPc \in {"write", "close"} => mpAt >= 1
    /\ mpPc = "close" => mpSent[mpAt].bytes = mpFiles[mpAt].data
    /\ mpPc = "finished" => mpAt = Len(mpFiles)

PlayInv == PlayTypeOK /\ FrameForEachFile /\ NothingYet /\ FilledAndRead /\ FramesAreFiles

\* A player that has sent nothing.
LEMMA PlayInitially == PlayInit => PlayInv
  <1> SUFFICES ASSUME PlayInit PROVE PlayInv
    OBVIOUS
  <1>1. /\ mpFiles \in Seq(Files) /\ mpAt = 0 /\ mpPc = "connect" /\ mpSent = << >> /\ mpExit = "none"
        /\ DOMAIN mpSent = 1 .. 0 /\ Len(mpSent) = 0 /\ mpSent \in Seq(Frames)
    BY PlayAssumption DEF PlayInit
  <1>2. Len(mpFiles) \in Nat
    BY <1>1
  <1> QED BY <1>1, <1>2 DEF PlayInv, PlayTypeOK, FrameForEachFile, NothingYet, FilledAndRead, FramesAreFiles

\* A frame is opened for the next file in the order of the names.
LEMMA PlayFileKeeps == PlayInv /\ PlayFile => PlayInv'
  <1> SUFFICES ASSUME PlayInv, PlayFile PROVE PlayInv'
    OBVIOUS
  <1> USE DEF PlayInv, PlayTypeOK, FrameForEachFile, NothingYet, FilledAndRead, FramesAreFiles
  <1> DEFINE f == mpFiles[mpAt + 1]
             frame == [file |-> mpAt + 1, size |-> f.size, bytes |-> 0]
  <1>1. /\ mpPc = "next" /\ mpAt < Len(mpFiles) /\ mpAt' = mpAt + 1
        /\ mpFiles' = mpFiles
    BY DEF PlayFile, optionVars
  <1>2. CASE mpSent' = mpSent /\ mpPc' = "ended" /\ mpExit' \in {"error", "abnormal"}
    BY <1>1, <1>2
  <1>3. CASE /\ mpSent' = Append(mpSent, frame)
             /\ (mpPc' = "write" /\ mpExit' = mpExit) \/ (mpPc' = "ended" /\ mpExit' \in {"error", "abnormal"})
    <2>1. f \in Files
      BY <1>1
    <2>2. frame \in Frames /\ frame.file = mpAt + 1
      BY <1>1, <2>1 DEF Files, Frames
    <2> HIDE DEF f, frame
    <2>3. /\ mpSent' \in Seq(Frames) /\ Len(mpSent') = mpAt + 1
          /\ \A i \in 1 .. mpAt : mpSent'[i] = mpSent[i]
          /\ mpSent'[mpAt + 1] = frame
      BY <1>1, <1>3, <2>2
    <2>4. DOMAIN mpSent' = 1 .. mpAt + 1 /\ DOMAIN mpSent = 1 .. mpAt
      BY <1>1, <2>3
    <2>5. FramesAreFiles'
      BY <1>1, <1>3, <2>2, <2>3, <2>4
    <2> QED BY <1>1, <1>3, <2>3, <2>5
  <1>4. \/ mpSent' = mpSent /\ mpPc' = "ended" /\ mpExit' \in {"error", "abnormal"}
        \/ /\ mpSent' = Append(mpSent, frame)
           /\ (mpPc' = "write" /\ mpExit' = mpExit) \/ (mpPc' = "ended" /\ mpExit' \in {"error", "abnormal"})
    <2>1. ReturnError => mpPc' = "ended" /\ mpExit' \in {"error", "abnormal"}
      BY DEF PlayEnd, ReturnError
    <2>2. CASE f.fault = "stat"
      BY <2>1, <2>2 DEF PlayFile
    <2>3. CASE f.fault # "stat" /\ mpPeer = "lost"
      BY <2>3 DEF PlayFile, PlayEnd
    <2>4. CASE f.fault # "stat" /\ mpPeer # "lost"
      <3>1. mpSent' = Append(mpSent, frame)
        BY <2>4 DEF PlayFile
      <3>2. ReturnError \/ PlayGo("write")
        BY <2>4 DEF PlayFile
      <3>3. PlayGo("write") => mpPc' = "write" /\ mpExit' = mpExit
        BY DEF PlayGo
      <3> QED BY <2>1, <3>1, <3>2, <3>3
    <2> QED BY <2>2, <2>3, <2>4
  <1> QED BY <1>2, <1>3, <1>4

\* A buffer of the file goes into the frame that is open.
LEMMA WriteBufferKeeps == PlayInv /\ WriteBuffer => PlayInv'
  <1> SUFFICES ASSUME PlayInv, WriteBuffer PROVE PlayInv'
    OBVIOUS
  <1> USE DEF PlayInv, PlayTypeOK, FrameForEachFile, NothingYet, FilledAndRead, FramesAreFiles
  <1>1. /\ mpPc = "write" /\ mpAt' = mpAt /\ mpFiles' = mpFiles
        /\ mpAt >= 1 /\ Len(mpSent) = mpAt /\ mpExit = "none"
    BY DEF WriteBuffer, optionVars
  <1>2. CASE /\ mpSent' = mpSent
             /\ \/ mpPc' = "ended" /\ mpExit' \in {"error", "abnormal"}
                \/ mpPc' = "close" /\ mpExit' = mpExit /\ mpSent[mpAt].bytes = mpFiles[mpAt].data
    BY <1>1, <1>2
  <1>3. CASE /\ mpSent' = [mpSent EXCEPT ![mpAt].bytes = @ + 1]
             /\ mpPc' = "write" /\ mpExit' = mpExit
    <2> DEFINE frame == [mpSent[mpAt] EXCEPT !.bytes = @ + 1]
    <2>1. mpSent[mpAt] \in Frames
      BY <1>1
    <2>2. frame \in Frames /\ frame.file = mpSent[mpAt].file
      <3> DEFINE r == mpSent[mpAt]
      <3>1. r \in [file : Nat, size : Nat, bytes : Nat]
        BY <2>1 DEF Frames
      <3> HIDE DEF r
      <3>2. [r EXCEPT !.bytes = @ + 1] \in [file : Nat, size : Nat, bytes : Nat] /\ [r EXCEPT !.bytes = @ + 1].file = r.file
        BY <3>1
      <3> QED BY <3>2 DEF Frames, r
    <2>3. mpSent' = [mpSent EXCEPT ![mpAt] = frame]
      BY <1>3
    <2> HIDE DEF frame
    <2>4. /\ mpSent' \in Seq(Frames) /\ Len(mpSent') = mpAt
          /\ \A i \in 1 .. mpAt : i # mpAt => mpSent'[i] = mpSent[i]
          /\ mpSent'[mpAt] = frame
      BY <1>1, <2>2, <2>3
    <2>5. DOMAIN mpSent' = 1 .. mpAt /\ DOMAIN mpSent = 1 .. mpAt
      BY <1>1, <2>4
    <2>6. FramesAreFiles'
      BY <1>1, <1>3, <2>2, <2>4, <2>5
    <2> QED BY <1>1, <1>3, <2>4, <2>6
  <1> QED BY <1>1, <1>2, <1>3 DEF WriteBuffer, PlayGo, PlayEnd, ReturnError

\* A frame is closed when it is filled.
LEMMA CloseFrameKeeps == PlayInv /\ CloseFrame => PlayInv'
  <1> SUFFICES ASSUME PlayInv, CloseFrame PROVE PlayInv'
    OBVIOUS
  <1> USE DEF PlayInv, PlayTypeOK, FrameForEachFile, NothingYet, FilledAndRead, FramesAreFiles
  <1>1. /\ mpPc = "close" /\ mpAt' = mpAt /\ mpFiles' = mpFiles /\ mpSent' = mpSent
        /\ mpAt >= 1 /\ Len(mpSent) = mpAt /\ mpExit = "none" /\ DOMAIN mpSent = 1 .. mpAt
    BY DEF CloseFrame, optionVars
  <1>2. CASE mpPc' = "ended" /\ mpExit' = "abnormal"
    BY <1>1, <1>2
  <1>3. CASE /\ FrameFilled(mpSent[mpAt]) /\ mpExit' = mpExit
             /\ mpPc' = IF mpAt = Len(mpFiles) THEN "finished" ELSE "next"
    <2>1. \A i \in 1 .. mpAt : mpSent[i].bytes = mpSent[i].size /\ mpSent[i].bytes = mpFiles[i].data
      BY <1>1, <1>3 DEF FrameFilled
    <2> QED BY <1>1, <1>3, <2>1
  <1> QED BY <1>1, <1>2, <1>3 DEF CloseFrame, PlayGo, PlayEnd

\* The steps that send nothing.
LEMMA OtherPlayKeeps ==
    ASSUME PlayInv,
           \/ CreateClientPeer \/ CreateSession \/ WaitForEngineReady \/ getFilenames
           \/ ConnectionLost \/ ReaderThrows \/ JoinReader \/ WaitForDisconnect \/ UNCHANGED playVars
    PROVE  PlayInv'
  <1> USE DEF PlayInv, PlayTypeOK, FrameForEachFile, NothingYet, FilledAndRead, FramesAreFiles
  <1>1. mpAt' = mpAt /\ mpFiles' = mpFiles /\ mpSent' = mpSent /\ DOMAIN mpSent = 1 .. Len(mpSent)
    BY DEF CreateClientPeer, CreateSession, WaitForEngineReady, getFilenames, ConnectionLost, ReaderThrows,
           JoinReader, WaitForDisconnect, optionVars, playVars
  <1>2. \/ mpPc' = mpPc /\ mpExit' = mpExit
        \/ mpPc # "ended" /\ mpPc' = "ended" /\ mpExit' \in {"error", "abnormal"}
        \/ mpPc = "finished" /\ mpPc' = "ended" /\ mpExit' = "ok"
        \/ mpPc \in {"connect", "ready", "list"} /\ mpPc' \in {"ready", "list", "next"} /\ mpExit' = mpExit
    BY DEF CreateClientPeer, CreateSession, WaitForEngineReady, getFilenames, ConnectionLost, ReaderThrows,
           JoinReader, WaitForDisconnect, playVars, PlayGo, PlayEnd, ReturnError
  <1>3. PlayTypeOK' /\ FrameForEachFile' /\ NothingYet' /\ FilledAndRead'
    BY <1>1, <1>2
  <1>4. mpExit' = "ok" => mpExit = "ok" \/ mpPc = "finished"
    BY <1>2
  <1>5. mpPc = "finished" => Len(mpSent) = Len(mpFiles) /\ \A i \in DOMAIN mpSent : mpSent[i].bytes = mpFiles[i].data
    BY <1>1
  <1>6. FramesAreFiles'
    BY <1>1, <1>4, <1>5
  <1> QED BY <1>3, <1>6

\* What a player sends are whole files in the order of their names, only the last frame may
\* be incomplete, and a player that ends well has sent them all (FramesAreFiles), for every
\* directory and every change of its files between their size and their data.
THEOREM PlaysWholeFiles == PlaySpec => []FramesAreFiles
  <1>1. PlayInv /\ [PlayNext]_playVars => PlayInv'
    BY PlayFileKeeps, WriteBufferKeeps, CloseFrameKeeps, OtherPlayKeeps DEF PlayNext
  <1>2. PlayInv => FramesAreFiles
    BY DEF PlayInv
  <1> QED BY PlayInitially, <1>1, <1>2, PTL DEF PlaySpec
-----------------------------------------------------------------------------
(* The limits of a computation. *)

\* The processor list of a set names its members, in ascending order.
LEMMA ListsItsSet ==
    ASSUME NEW cpus, cpus \subseteq 0 .. CpuSetSize - 1
    PROVE  Ascends(cpuSetToProcList(cpus)) /\ Elements(cpuSetToProcList(cpus)) = cpus
  <1> DEFINE N == CpuSetSize
             Body(f) == [i \in 0 .. N |-> IF i = N THEN << >>
                                          ELSE IF i \in cpus THEN <<i>> \o f[i + 1] ELSE f[i + 1]]
             from == CHOOSE f : f = Body(f)
  <1>0. 0 \in Nat
    OBVIOUS
  <1>1. N \in Nat /\ 0 <= N /\ 0 \in 0 .. N /\ N \in 0 .. N
    BY LimitAssumption
  <1>2. \E f : f = Body(f)
    <2> DEFINE step == [p \in Nat \X Seq(Int) |-> IF p[1] \in cpus THEN <<p[1]>> \o p[2] ELSE p[2]]
    <2>1. << >> \in Seq(Int)
      OBVIOUS
    <2>2. \A p \in Nat \X Seq(Int) : <<p[1]>> \o p[2] \in Seq(Int) /\ p[2] \in Seq(Int)
      OBVIOUS
    <2>3. IsStep(step, Seq(Int))
      BY <2>2 DEF IsStep
    <2> HIDE DEF step
    <2>4. PICK g : ByNextValue(g, 0, N, Seq(Int), << >>, step)
      BY <1>0, <1>1, <2>1, <2>3, FunctionExists
    <2>10. /\ g \in [0 .. N -> Seq(Int)] /\ g[N] = << >>
           /\ \A i \in 0 .. N - 1 : g[i] = step[<<i, g[i + 1]>>]
      BY <2>4 DEF ByNextValue
    <2>5. ASSUME NEW i \in 0 .. N - 1 PROVE g[i] = IF i \in cpus THEN <<i>> \o g[i + 1] ELSE g[i + 1]
      <3>1. i \in Nat /\ i + 1 \in 0 .. N
        BY <1>1
      <3>2. g[i + 1] \in Seq(Int)
        BY <2>10, <3>1
      <3>3. <<i, g[i + 1]>> \in Nat \X Seq(Int)
        BY <3>1, <3>2
      <3> QED BY <2>10, <3>3 DEF step
    <2>6. \A i \in 0 .. N : i = N \/ i \in 0 .. N - 1
      BY <1>1
    <2>7. \A i \in 0 .. N - 1 : i # N
      BY <1>1
    <2>8. \A i \in 0 .. N : g[i] = IF i = N THEN << >> ELSE IF i \in cpus THEN <<i>> \o g[i + 1] ELSE g[i + 1]
      BY <2>5, <2>10, <2>6, <2>7
    <2>9. g = Body(g)
      BY <2>8, <2>10
    <2> QED BY <2>9
  <1>3. from = Body(from)
    BY <1>2
  <1>4. cpuSetToProcList(cpus) = from[0]
    BY DEF cpuSetToProcList
  <1> HIDE DEF from, N
  <1>5. from[N] = << >>
    BY <1>1, <1>3
  <1> DEFINE a == [i \in 0 .. N - 1 |-> i]
  <1>6. \A i \in 0 .. N - 1 : from[i] = IF a[i] \in cpus THEN <<a[i]>> \o from[i + 1] ELSE from[i + 1]
    <2>1. \A i \in 0 .. N - 1 : i \in 0 .. N /\ i # N /\ a[i] = i
      BY <1>1
    <2> QED BY <1>3, <2>1
  <1>7. (\A i \in 0 .. N - 1 : a[i] \in Int) /\ \A i, j \in 0 .. N - 1 : i < j => a[i] < a[j]
    OBVIOUS
  <1>8. {a[i] : i \in 0 .. N - 1} = 0 .. N - 1
    OBVIOUS
  <1>9. 0 \in Nat /\ cpus \subseteq 0 .. N - 1
    BY DEF N
  <1> HIDE DEF a
  <1>10. AscendsOn(a, 0, N) /\ Chooses(from, a, 0, N, cpus)
    BY <1>5, <1>6, <1>7 DEF AscendsOn, Chooses
  <1>11. ChosenFrom(from[0], a, 0, N, cpus)
    BY <1>0, <1>1, <1>10, ChosenAscends
  <1> QED BY <1>4, <1>8, <1>9, <1>11 DEF ChosenFrom

LimitRecords == [unlimited : BOOLEAN, mb : Int, cores : Int, tpc : Int, affinity : BOOLEAN, cpus : SUBSET Int]

\* Limits with affinity name processors there can be.
CpusExist(l) == l \in LimitRecords /\ (l.affinity => l.cpus \subseteq 0 .. CpuSetSize - 1)

LimitInv == xlOpt \in Options /\ CpusExist(xlLimits)

\* Affinity is only given for processors there can be.
LEMMA EnabledExist ==
    ASSUME NEW l, CpusExist(l), ~l.affinity, NEW cpus, NEW htCpus
    PROVE  CpusExist(enableAffinity(l, cpus, htCpus))
  <1> DEFINE C == procListToCpuSet(cpus)
             H == procListToCpuSet(htCpus)
             N == CpuSetSize
  <1>1. \A list, n : ValidList(list, n) => procListToCpuSet(list) \subseteq 0 .. N - 1
    BY DEF ValidList, procListToCpuSet
  <1> HIDE DEF N
  <1>2. N \in Nat /\ 0 .. N - 1 \subseteq Int
    BY LimitAssumption DEF N
  <1>3. \A S : S \subseteq 0 .. N - 1 => CpusExist([l EXCEPT !.affinity = TRUE, !.cpus = S])
    BY <1>2 DEF CpusExist, LimitRecords, N
  <1> HIDE DEF C, H
  <1>4. ValidList(cpus, l.cores) => C \subseteq 0 .. N - 1
    BY <1>1 DEF C
  <1>5. \A n : ValidList(htCpus, n) => H \subseteq 0 .. N - 1
    BY <1>1 DEF H
  <1>6. enableAffinity(l, cpus, htCpus) \in {l} \cup {[l EXCEPT !.affinity = TRUE, !.cpus = S] : S \in SUBSET (0 .. N - 1)}
    BY <1>4, <1>5 DEF enableAffinity, C, H
  <1> QED BY <1>3, <1>6

\* What is stored is what is restored.
LEMMA Restored ==
    ASSUME NEW l, CpusExist(l), l.mb > 0, l.cores > 0, l.tpc = 1, l.affinity => Cardinality(l.cpus) = l.cores
    PROVE  SameLimits(setFromObject(toObject(l)), l)
  <1>0. l.unlimited \in BOOLEAN /\ l.affinity \in BOOLEAN /\ l.mb \in Int /\ l.cores \in Int
    BY DEF CpusExist, LimitRecords
  <1>1. CASE l.unlimited
    <2>1. setFromObject(toObject(l)) = Unlimited
      BY <1>1 DEF setFromObject, toObject
    <2> QED BY <1>1, <2>1 DEF SameLimits
  <1>2. CASE ~l.unlimited
    <2> DEFINE base == [Unlimited EXCEPT !.unlimited = FALSE, !.mb = l.mb, !.cores = l.cores, !.tpc = 1]
               obj == toObject(l)
               list == cpuSetToProcList(l.cpus)
    <2>1. ~base.unlimited /\ base.mb = l.mb /\ base.cores = l.cores /\ base.tpc = 1 /\ ~base.affinity /\ base.cpus = {}
      BY DEF Unlimited
    <2>2. /\ ~obj.unlimited /\ obj.mb = l.mb /\ obj.cores = l.cores /\ obj.tpc = 1
          /\ obj.affinity <=> l.affinity
      BY <1>2 DEF toObject
    <2>3. ~(obj.mb <= 0 \/ obj.cores <= 0 \/ obj.tpc <= 0)
      BY <1>0, <2>2
    <2>4. setFromObject(obj) = IF l.affinity THEN enableAffinity(base, obj.cpus, << >>) ELSE base
      <3> HIDE DEF obj
      <3> QED BY <2>2, <2>3, Zenon DEF setFromObject
    <2>5. CASE ~l.affinity
      <3>1. setFromObject(obj) = base
        BY <2>4, <2>5
      <3> HIDE DEF obj, base
      <3> QED BY <1>2, <2>1, <2>5, <3>1 DEF SameLimits, obj
    <2>6. CASE l.affinity
      <3>1. obj.cpus = list
        BY <1>2, <2>6 DEF toObject
      <3>2. l.cpus \subseteq 0 .. CpuSetSize - 1 /\ Cardinality(l.cpus) = l.cores
        BY <2>6 DEF CpusExist
      <3>3. Ascends(list) /\ Elements(list) = l.cpus
        BY <3>2, ListsItsSet
      <3> HIDE DEF list, obj, base
      <3>4. Len(list) = l.cores
        <4>1. list \in Seq(Int) /\ Len(list) \in Nat
          BY <3>3 DEF Ascends
        <4>2. Len(list) \in 0 .. Len(list)
          BY <4>1
        <4>3. Cardinality({list[i] : i \in 1 .. Len(list)}) = Len(list)
          BY <3>3, <4>2, PlaceIsRank
        <4> QED BY <3>2, <3>3, <4>3 DEF Elements
      <3>5. list # NotGiven /\ list # << >> /\ \A i \in 1 .. Len(list) : list[i] \in 0 .. CpuSetSize - 1
        <4>1. \A i \in 1 .. Len(list) : list[i] \in 0 .. CpuSetSize - 1
          BY <3>2, <3>3 DEF Elements
        <4>2. Len(list) > 0 /\ Len(<< >>) = 0 /\ Len(list) \in Int
          BY <1>0, <3>4
        <4>3. CASE list = NotGiven
          <5>1. Len(list) = 1 /\ list[1] = -2 /\ 1 \in 1 .. 1
            BY <4>3 DEF NotGiven
          <5>2. -2 \in 0 .. CpuSetSize - 1
            BY <4>1, <5>1
          <5> QED BY <5>2
        <4> QED BY <4>1, <4>2, <4>3
      <3>6. ValidList(list, base.cores)
        BY <2>1, <3>4, <3>5 DEF ValidList
      <3>7. procListToCpuSet(list) = l.cpus
        BY <3>3 DEF procListToCpuSet, Elements
      <3>8. enableAffinity(base, list, << >>) = [base EXCEPT !.affinity = TRUE, !.cpus = l.cpus]
        BY <2>1, <3>6, <3>7 DEF enableAffinity
      <3>9. setFromObject(obj) = [base EXCEPT !.affinity = TRUE, !.cpus = l.cpus]
        BY <2>4, <2>6, <3>1, <3>8
      <3>10. LET r == [base EXCEPT !.affinity = TRUE, !.cpus = l.cpus]
             IN ~r.unlimited /\ r.mb = l.mb /\ r.cores = l.cores /\ r.tpc = 1 /\ r.affinity /\ r.cpus = l.cpus
        BY DEF base, Unlimited
      <3> QED BY <1>2, <2>6, <3>9, <3>10 DEF SameLimits, obj
    <2> QED BY <1>0, <2>5, <2>6
  <1> QED BY <1>0, <1>1, <1>2

\* Every step keeps limits that name processors there can be.
LEMMA LimitSteps == LimitInv /\ [LimitNext]_limitVars => LimitInv'
  <1> SUFFICES ASSUME LimitInv, [LimitNext]_limitVars PROVE LimitInv'
    OBVIOUS
  <1>1. CASE InitializeLimits
    <2>1. xlOpt' = xlOpt /\ xlOpt \in [mb : Int, cores : Int, tpc : Int, affinity : BOOLEAN, cpus : Seq(Int), htCpus : Seq(Int)]
      BY <1>1, LimitAssumption DEF InitializeLimits, LimitInv
    <2> DEFINE base == [Unlimited EXCEPT !.unlimited = FALSE, !.mb = xlOpt.mb, !.cores = xlOpt.cores, !.tpc = xlOpt.tpc]
    <2>2. CpusExist(base) /\ ~base.affinity
      BY <2>1 DEF CpusExist, LimitRecords, Unlimited
    <2>3. CpusExist([xlLimits EXCEPT !.unlimited = FALSE])
      BY DEF LimitInv, CpusExist, LimitRecords
    <2>4. \/ xlLimits' = [xlLimits EXCEPT !.unlimited = FALSE]
          \/ xlLimits' = base
          \/ xlLimits' = enableAffinity(base, xlOpt.cpus, xlOpt.htCpus)
      BY <1>1 DEF InitializeLimits
    <2> HIDE DEF base
    <2>5. CpusExist(enableAffinity(base, xlOpt.cpus, xlOpt.htCpus))
      BY <2>2, EnabledExist
    <2> QED BY <2>1, <2>2, <2>3, <2>4, <2>5 DEF LimitInv
  <1>2. CASE InitializeComputation
    <2>1. xlLimits' = xlLimits \/ xlLimits' = [xlLimits EXCEPT !.tpc = 1]
      BY <1>2 DEF InitializeComputation
    <2>2. CpusExist([xlLimits EXCEPT !.tpc = 1])
      BY DEF LimitInv, CpusExist, LimitRecords
    <2> QED BY <1>2, <2>1, <2>2 DEF LimitInv, InitializeComputation
  <1>3. CASE ParseCmdLine \/ LoadConfig \/ Apply \/ (\E t \in Tasks : TaskEnds(t)) \/ UNCHANGED limitVars
    BY <1>3 DEF ParseCmdLine, LoadConfig, Apply, TaskEnds, limitVars, LimitInv
  <1> QED BY <1>1, <1>2, <1>3 DEF LimitNext

\* What toObject stores setFromObject restores (LimitsRestored), for any command line, and any
\* size of a processor set.
THEOREM LimitsAreRestored == LimitSpec => []LimitsRestored
  <1>1. LimitInit => LimitInv
    BY DEF LimitInit, LimitInv, CpusExist, LimitRecords, Unlimited, DEFAULT_MEM_MB
  <1>2. LimitInv => LimitsRestored
    BY Restored DEF LimitInv, LimitsRestored
  <1> QED BY <1>1, <1>2, LimitSteps, PTL DEF LimitSpec

-----------------------------------------------------------------------------
(* The launch of a computation. *)

\* Places of a search path where the program is.
Holding(dirs) == {i \in 1 .. Len(dirs) : (dirs[i] # NoText \/ i = Len(dirs)) /\ dirs[i] \in ExecDirs}

\* findProgramInPath returns the first of them.
LEMMA FoundIsFirst ==
    ASSUME NEW dirs, Len(dirs) \in Nat, findProgramInPath(dirs) # 0
    PROVE  findProgramInPath(dirs) \in Holding(dirs) /\ \A j \in Holding(dirs) : findProgramInPath(dirs) <= j
  <1> DEFINE n == Len(dirs)
             K == Holding(dirs)
             Body(f) == [i \in 1 .. n + 1 |->
                           IF i > n THEN 0
                           ELSE IF (dirs[i] # NoText \/ i = n) /\ dirs[i] \in ExecDirs THEN i
                           ELSE f[i + 1]]
             from == CHOOSE f : f = Body(f)
  <1>1. 1 \in Nat /\ n \in Nat /\ n + 1 \in Nat /\ 1 <= n + 1 /\ 0 \in Nat /\ 1 \in 1 .. n + 1 /\ n + 1 \in 1 .. n + 1 /\ (n + 1) - 1 = n
    OBVIOUS
  <1>2. K \subseteq 1 .. n
    BY DEF Holding
  <1>3. findProgramInPath(dirs) = from[1]
    BY DEF findProgramInPath
  <1>a. \A i \in 1 .. n : ((dirs[i] # NoText \/ i = n) /\ dirs[i] \in ExecDirs) <=> i \in K
    BY DEF Holding
  <1> HIDE DEF K, n
  <1>4. \E f : f = Body(f)
    <2> DEFINE step == [p \in Nat \X Nat |-> IF p[1] \in K THEN p[1] ELSE p[2]]
    <2>1. IsStep(step, Nat)
      BY DEF IsStep
    <2> HIDE DEF step
    <2>2. PICK g : ByNextValue(g, 1, n + 1, Nat, 0, step)
      BY <1>1, <2>1, FunctionExists
    <2>3. g \in [1 .. n + 1 -> Nat] /\ g[n + 1] = 0 /\ \A i \in 1 .. n : g[i] = step[<<i, g[i + 1]>>]
      BY <1>1, <2>2 DEF ByNextValue
    <2>4. ASSUME NEW i \in 1 .. n PROVE g[i] = IF i \in K THEN i ELSE g[i + 1]
      <3>1. i \in Nat /\ i + 1 \in 1 .. n + 1
        BY <1>1
      <3>2. <<i, g[i + 1]>> \in Nat \X Nat
        BY <2>3, <3>1
      <3> QED BY <2>3, <3>2 DEF step
    <2>5. \A i \in 1 .. n + 1 : IF i > n THEN i = n + 1 ELSE i \in 1 .. n
      BY <1>1
    <2>6. \A i \in 1 .. n + 1 : g[i] = IF i > n THEN 0 ELSE IF i \in K THEN i ELSE g[i + 1]
      BY <2>3, <2>4, <2>5
    <2>7. \A i \in 1 .. n + 1 : g[i] = IF i > n THEN 0
                                    ELSE IF (dirs[i] # NoText \/ i = n) /\ dirs[i] \in ExecDirs THEN i
                                    ELSE g[i + 1]
      BY <1>a, <2>5, <2>6
    <2> QED BY <2>3, <2>7
  <1>5. from = Body(from)
    BY <1>4
  <1> HIDE DEF from
  <1>6. \A i \in 1 .. n + 1 : from[i] = IF i > n THEN 0 ELSE IF i \in K THEN i ELSE from[i + 1]
    <2>1. \A i \in 1 .. n + 1 : IF i > n THEN i = n + 1 ELSE i \in 1 .. n
      BY <1>1
    <2> QED BY <1>5, <1>a, <2>1
  <1> DEFINE First(i) == from[i] # 0 => from[i] \in K /\ i <= from[i] /\ \A j \in K : i <= j => from[i] <= j
             H == {i \in 1 .. n + 1 : First(i)}
  <1>7. n + 1 \in H
    BY <1>1, <1>6
  <1>8. ASSUME NEW i \in 1 .. n, i + 1 \in H PROVE i \in H
    <2>1. i \in 1 .. n + 1 /\ ~(i > n) /\ i \in Nat /\ i <= i
      BY <1>1
    <2>2. First(i + 1)
      BY <1>8
    <2>3. CASE i \in K
      <3>1. from[i] = i
        BY <1>6, <2>1, <2>3
      <3>2. First(i)
        BY <2>1, <2>3, <3>1
      <3> QED BY <2>1, <3>2
    <2>4. CASE i \notin K
      <3>1. from[i] = from[i + 1]
        BY <1>6, <2>1, <2>4
      <3>2. \A j \in K : i <= j => i + 1 <= j
        BY <1>1, <1>2, <2>4
      <3>3. \A j \in K : i + 1 <= j => i <= j
        BY <1>1, <1>2
      <3>4. First(i)
        BY <2>2, <3>1, <3>2, <3>3
      <3> QED BY <2>1, <3>4
    <2> QED BY <2>3, <2>4
  <1> HIDE DEF H
  <1>9. \A i \in 1 .. n + 1 : i \in H
    BY <1>1, <1>7, <1>8, Backwards
  <1>10. First(1)
    BY <1>1, <1>9 DEF H
  <1>11. \A j \in K : 1 <= j
    BY <1>1, <1>2
  <1> QED BY <1>3, <1>10, <1>11 DEF K

\* An environment made of layers, the strongest first.
Stacked(env, l1, l2, l3, l4, l5) ==
    /\ DOMAIN env = DOMAIN l1 \cup DOMAIN l2 \cup DOMAIN l3 \cup DOMAIN l4 \cup DOMAIN l5
    /\ \A v \in DOMAIN env : env[v] = IF v \in DOMAIN l1 THEN l1[v]
                                      ELSE IF v \in DOMAIN l2 THEN l2[v]
                                      ELSE IF v \in DOMAIN l3 THEN l3[v]
                                      ELSE IF v \in DOMAIN l4 THEN l4[v] ELSE l5[v]

\* The same, with the layers in a sequence.
LEMMA StrongestLayer ==
    ASSUME NEW env, NEW l1, NEW l2, NEW l3, NEW l4, NEW l5, Stacked(env, l1, l2, l3, l4, l5)
    PROVE  LET layers == <<l1, l2, l3, l4, l5>>
           IN /\ DOMAIN env = UNION {DOMAIN layers[i] : i \in 1 .. 5}
              /\ \A v \in DOMAIN env : \E i \in 1 .. 5 :
                   v \in DOMAIN layers[i] /\ env[v] = layers[i][v] /\ \A j \in 1 .. i - 1 : v \notin DOMAIN layers[j]
  <1> DEFINE layers == <<l1, l2, l3, l4, l5>>
             Strongest(v, i) == v \in DOMAIN layers[i] /\ env[v] = layers[i][v] /\ \A j \in 1 .. i - 1 : v \notin DOMAIN layers[j]
  <1>1. layers[1] = l1 /\ layers[2] = l2 /\ layers[3] = l3 /\ layers[4] = l4 /\ layers[5] = l5
    OBVIOUS
  <1>2. \A i \in 1 .. 5 : i = 1 \/ i = 2 \/ i = 3 \/ i = 4 \/ i = 5
    OBVIOUS
  <1>3. 1 \in 1 .. 5 /\ 2 \in 1 .. 5 /\ 3 \in 1 .. 5 /\ 4 \in 1 .. 5 /\ 5 \in 1 .. 5
    OBVIOUS
  <1>4. /\ 1 .. 1 - 1 = {} /\ 1 .. 2 - 1 = {1} /\ 1 .. 3 - 1 = {1, 2} /\ 1 .. 4 - 1 = {1, 2, 3}
        /\ 1 .. 5 - 1 = {1, 2, 3, 4}
    OBVIOUS
  <1> HIDE DEF layers
  <1>5. DOMAIN env = UNION {DOMAIN layers[i] : i \in 1 .. 5}
    <2>1. \A v : v \in UNION {DOMAIN layers[i] : i \in 1 .. 5} <=> \E i \in 1 .. 5 : v \in DOMAIN layers[i]
      OBVIOUS
    <2>2. \A v : v \in DOMAIN env <=> \E i \in 1 .. 5 : v \in DOMAIN layers[i]
      BY <1>1, <1>2, <1>3 DEF Stacked
    <2> QED BY <2>1, <2>2
  <1>6. ASSUME NEW v \in DOMAIN env PROVE \E i \in 1 .. 5 : Strongest(v, i)
    <2>1. CASE v \in DOMAIN l1
      <3>1. Strongest(v, 1)
        BY <2>1, <1>1, <1>4 DEF Stacked
      <3> HIDE DEF Strongest
      <3> QED BY <1>3, <3>1
    <2>2. CASE v \notin DOMAIN l1 /\ v \in DOMAIN l2
      <3>1. Strongest(v, 2)
        BY <2>2, <1>1, <1>4 DEF Stacked
      <3> HIDE DEF Strongest
      <3> QED BY <1>3, <3>1
    <2>3. CASE v \notin DOMAIN l1 \cup DOMAIN l2 /\ v \in DOMAIN l3
      <3>1. Strongest(v, 3)
        BY <2>3, <1>1, <1>4 DEF Stacked
      <3> HIDE DEF Strongest
      <3> QED BY <1>3, <3>1
    <2>4. CASE v \notin DOMAIN l1 \cup DOMAIN l2 \cup DOMAIN l3 /\ v \in DOMAIN l4
      <3>1. Strongest(v, 4)
        BY <2>4, <1>1, <1>4 DEF Stacked
      <3> HIDE DEF Strongest
      <3> QED BY <1>3, <3>1
    <2>5. CASE v \notin DOMAIN l1 \cup DOMAIN l2 \cup DOMAIN l3 \cup DOMAIN l4
      <3>1. v \in DOMAIN l5
        BY <2>5 DEF Stacked
      <3>2. Strongest(v, 5)
        BY <2>5, <3>1, <1>1, <1>4 DEF Stacked
      <3> HIDE DEF Strongest
      <3> QED BY <1>3, <3>2
    <2> QED BY <2>1, <2>2, <2>3, <2>4, <2>5
  <1> QED BY <1>5, <1>6 DEF layers

Over(e, f, g) ==
    DOMAIN e = DOMAIN f \cup DOMAIN g /\ \A v \in DOMAIN e : e[v] = IF v \in DOMAIN f THEN f[v] ELSE g[v]

LEMMA PutOver == ASSUME NEW f, NEW g PROVE Over(Merged(f, g), f, g)
  BY DEF Over, Merged

\* The environment of a computation before its packaging.
BaseEnvironment(comp, ctx, named) ==
    setFrom(IF named THEN setFrom(setFrom(EmptyEnv, comp.env), ctx.env) ELSE setFrom(EmptyEnv, comp.env), RequiredEnv)

LEMMA ThreeLayers ==
    ASSUME NEW e1, NEW e2, NEW e3, NEW l1, NEW l2, NEW l3, Over(e1, l1, e2), Over(e2, l2, e3), Over(e3, l3, << >>)
    PROVE  Stacked(e1, << >>, l1, l2, l3, << >>)
  <1>1. DOMAIN << >> = {}
    OBVIOUS
  <1>2. DOMAIN e2 = DOMAIN l2 \cup DOMAIN l3 /\ DOMAIN e1 = DOMAIN l1 \cup DOMAIN l2 \cup DOMAIN l3
    BY <1>1 DEF Over
  <1>3. ASSUME NEW v \in DOMAIN e1
        PROVE  e1[v] = IF v \in DOMAIN l1 THEN l1[v] ELSE IF v \in DOMAIN l2 THEN l2[v] ELSE l3[v]
    <2>1. CASE v \in DOMAIN l1
      BY <2>1 DEF Over
    <2>2. CASE v \notin DOMAIN l1
      <3>1. e1[v] = e2[v] /\ v \in DOMAIN e2
        BY <1>2, <2>2 DEF Over
      <3>2. v \notin DOMAIN l2 => v \in DOMAIN l3 /\ v \in DOMAIN e3
        BY <1>2, <3>1 DEF Over
      <3> QED BY <2>2, <3>1, <3>2 DEF Over
    <2> QED BY <2>1, <2>2
  <1> QED BY <1>1, <1>2, <1>3 DEF Stacked

LEMMA BaseIsStacked ==
    ASSUME NEW comp, NEW ctx, NEW named \in BOOLEAN
    PROVE  Stacked(BaseEnvironment(comp, ctx, named), << >>, RequiredEnv, IF named THEN ctx.env ELSE << >>, comp.env, << >>)
  <1> DEFINE own == Merged(comp.env, << >>)
             layered == Merged(ctx.env, own)
  <1>1. Over(own, comp.env, << >>) /\ Over(layered, ctx.env, own)
    BY PutOver
  <1>2. Over(Merged(RequiredEnv, layered), RequiredEnv, layered) /\ Over(Merged(RequiredEnv, own), RequiredEnv, own)
    BY PutOver
  <1>3. Over(own, << >>, own)
    <2>1. DOMAIN << >> = {}
      OBVIOUS
    <2> HIDE DEF own
    <2> QED BY <2>1 DEF Over
  <1>4. BaseEnvironment(comp, ctx, named) = Merged(RequiredEnv, IF named THEN layered ELSE own)
    BY DEF BaseEnvironment, setFrom, EmptyEnv
  <1> HIDE DEF own, layered
  <1>5. CASE named
    <2>1. BaseEnvironment(comp, ctx, named) = Merged(RequiredEnv, layered)
      BY <1>4, <1>5
    <2>2. Stacked(Merged(RequiredEnv, layered), << >>, RequiredEnv, ctx.env, comp.env, << >>)
      BY <1>1, <1>2, ThreeLayers
    <2> QED BY <1>5, <2>1, <2>2
  <1>6. CASE ~named
    <2>1. BaseEnvironment(comp, ctx, named) = Merged(RequiredEnv, own)
      BY <1>4, <1>6
    <2>2. Stacked(Merged(RequiredEnv, own), << >>, RequiredEnv, << >>, comp.env, << >>)
      BY <1>1, <1>2, <1>3, ThreeLayers
    <2> QED BY <1>6, <2>1, <2>2
  <1> QED BY <1>5, <1>6

\* A layer on top of a stack without a first one, or at its end without a last one.
LEMMA LayerAdded ==
    ASSUME NEW env, NEW l2, NEW l3, NEW l4, NEW l, Stacked(env, << >>, l2, l3, l4, << >>)
    PROVE  Stacked(Merged(l, env), l, l2, l3, l4, << >>) /\ Stacked(Merged(env, l), << >>, l2, l3, l4, l)
  <1>1. DOMAIN << >> = {}
    OBVIOUS
  <1>2. Over(Merged(l, env), l, env) /\ Over(Merged(env, l), env, l)
    BY PutOver
  <1> QED BY <1>1, <1>2 DEF Over, Stacked

NamedContext(comp, contexts) == IF comp.context # NoText THEN contexts[comp.context] ELSE comp
SystemOf(comp, ctx) == IF ctx.system # NoText THEN ctx.system ELSE IF comp.context = NoText THEN "rez1" ELSE "none"

\* The layers of EnvironmentLayers.
LayersIn(env, comp, ctx, system) ==
    Stacked(env,
            CASE system = "rez1" -> Merged(BashEnvironment(1, ctx.pseudo), RezEnvironment)
              [] system = "rez2" -> RezEnvironment
              [] OTHER -> << >>,
            RequiredEnv,
            IF comp.context = NoText THEN << >> ELSE ctx.env,
            comp.env,
            IF system = "current-environment" THEN CurrentEnv ELSE << >>)

RunsFirst(args) ==
    LET dirs == PathDirs[args.env["PATH"]]
    IN \E i \in Holding(dirs) : args.program[1] = dirs[i] /\ \A j \in Holding(dirs) : i <= j

LEMMA ProgramFound ==
    ASSUME NEW args, PathKnown(args.env), NEW ctx, NEW r \in applyNoPackaging(args, ctx), r # Failed,
           args.program = "execComp", {"program", "env"} \subseteq DOMAIN args
    PROVE  r.env = args.env /\ RunsFirst(r)
  <1> DEFINE dirs == PathDirs[args.env["PATH"]]
             i == findProgramInPath(dirs)
  <1>1. CASE "PATH" \notin DOMAIN args.env
    <2>1. PICK s : s = << >> /\ r \in IF findProgramInPath(s) = 0 THEN {Failed} ELSE {[args EXCEPT !.program = <<s[findProgramInPath(s)], Suffixed("execComp", ctx.pseudo)>>]}
      BY <1>1 DEF applyNoPackaging
    <2>2. Len(s) = 0 /\ 0 \in Nat /\ 1 .. 0 = {}
      BY <2>1
    <2>3. findProgramInPath(s) # 0
      BY <2>1
    <2>4. findProgramInPath(s) \in Holding(s)
      BY <2>2, <2>3, FoundIsFirst
    <2>5. Holding(s) = {}
      BY <2>2 DEF Holding
    <2> QED BY <2>4, <2>5
  <1>2. CASE "PATH" \in DOMAIN args.env
    <2>1. r \in IF i = 0 THEN {Failed} ELSE {[args EXCEPT !.program = <<dirs[i], Suffixed("execComp", ctx.pseudo)>>]}
      BY <1>2 DEF applyNoPackaging
    <2>2. Len(dirs) \in Nat
      BY <1>2, PackAssumption DEF PathKnown
    <2> HIDE DEF dirs
    <2>3. i # 0 /\ r = [args EXCEPT !.program = <<dirs[i], Suffixed("execComp", ctx.pseudo)>>]
      BY <2>1
    <2>4. i \in Holding(dirs) /\ \A j \in Holding(dirs) : i <= j
      BY <2>2, <2>3, FoundIsFirst
    <2> HIDE DEF i
    <2>5. r.env = args.env /\ r.program = <<dirs[i], Suffixed("execComp", ctx.pseudo)>>
      BY <2>3
    <2>6. r.program[1] = dirs[i]
      BY <2>5
    <2>7. PathDirs[r.env["PATH"]] = dirs
      BY <2>5 DEF dirs
    <2> QED BY <2>4, <2>5, <2>6, <2>7 DEF RunsFirst
  <1> QED BY <1>1, <1>2

\* The environment that wrapping a command line leaves.
LEMMA WrappedEnv ==
    ASSUME NEW args, {"program", "args", "env"} \subseteq DOMAIN args, NEW file, NEW pseudo
    PROVE  /\ ShellWrap(args, pseudo).env = args.env
           /\ RezWrap(args, 1, file, pseudo).env = Merged(Merged(BashEnvironment(1, pseudo), RezEnvironment), args.env)
           /\ RezWrap(args, 2, file, pseudo).env = Merged(RezEnvironment, args.env)
  <1>1. \A p : LET s == SourceAndRun(args, file, p) IN s.env = args.env /\ "env" \in DOMAIN s
    BY DEF SourceAndRun
  <1>2. ShellWrap(args, pseudo).env = args.env
    BY DEF ShellWrap, SourceAndRun
  <1>3. RezWrap(args, 2, file, pseudo).env = Merged(RezEnvironment, args.env)
    BY DEF RezWrap
  <1>4. ASSUME NEW s, s.env = args.env, "env" \in DOMAIN s, NEW e
        PROVE  [s EXCEPT !.env = Merged(e, @)].env = Merged(e, args.env)
    BY <1>4
  <1>5. RezWrap(args, 1, file, pseudo)
        = [SourceAndRun(args, file, Suffixed(args.program, RezPseudo(1, pseudo))) EXCEPT
              !.env = Merged(Merged(BashEnvironment(1, pseudo), RezEnvironment), @)]
    BY DEF RezWrap
  <1> QED BY <1>1, <1>2, <1>3, <1>4, <1>5

\* What the packaging of a computation comes to.
LEMMA PackagedAsDefined ==
    ASSUME NEW comp, NEW contexts, PathKnown(comp.env), PathsKnown(contexts),
           NEW r \in processComputation(comp, contexts), r # Failed
    PROVE  LET ctx == NamedContext(comp, contexts)
               system == SystemOf(comp, ctx)
           IN LayersIn(r.env, comp, ctx, system) /\ (system = "none" => RunsFirst(r))
  <1> DEFINE ctx == NamedContext(comp, contexts)
             system == SystemOf(comp, ctx)
             named == comp.context # NoText
             mb == IF comp.res.memory # NoValue THEN comp.res.memory ELSE DEFAULT_MEMORY_MB
             cores == AssignedCores(comp.res)
             env == BaseEnvironment(comp, ctx, named)
             base == [NoArgs EXCEPT !.mb = mb, !.cores = cores, !.env = env, !.cwd = comp.cwd,
                                    !.args = <<"--memoryMB", mb, "--cores", cores, "config file">>]
  <1>1. named => comp.context \in DOMAIN contexts
    BY DEF processComputation
  <1>2. r \in applyPackaging(base, ctx, named)
    <2> HIDE DEF mb, cores
    <2> QED BY <1>1 DEF processComputation, NamedContext, BaseEnvironment, mb, cores
  <1>3. base.env = env /\ base.program = "execComp" /\ {"program", "args", "env"} \subseteq DOMAIN base
    BY DEF NoArgs
  <1>4. Stacked(env, << >>, RequiredEnv, IF named THEN ctx.env ELSE << >>, comp.env, << >>)
    BY BaseIsStacked
  <1>5. PathKnown(env)
    <2>1. PathKnown(comp.env) /\ (named => PathKnown(ctx.env))
      BY <1>1 DEF PathsKnown, NamedContext
    <2>2. "PATH" \notin DOMAIN RequiredEnv /\ DOMAIN << >> = {}
      BY DEF RequiredEnv
    <2> HIDE DEF env, ctx, named
    <2> QED BY <1>4, <2>1, <2>2 DEF Stacked, PathKnown
  <1> DEFINE applied == IF ctx.system = NoText /\ ~named THEN "rez1" ELSE ctx.system
  <1>6. /\ NoText # "rez1" /\ NoText # "rez2" /\ NoText # "current-environment" /\ NoText # "bash"
    BY Zenon DEF NoText
  <1>7. r \in CASE applied \in {NoText, "none"} -> applyNoPackaging(base, ctx)
                [] applied = "current-environment" -> applyCurrentEnvironment(base, ctx)
                [] applied = "bash" -> applyShellPackaging(base, ctx)
                [] applied = "rez1" -> applyRezPackaging(1, base, ctx)
                [] applied = "rez2" -> applyRezPackaging(2, base, ctx)
                [] OTHER -> {Failed}
    BY <1>2 DEF applyPackaging
  <1>8. system = IF applied = NoText THEN "none" ELSE applied
    BY <1>6 DEF SystemOf
  <1>9. named <=> comp.context # NoText
    OBVIOUS
  <1> HIDE DEF base, env, ctx, system, named, applied
  <1>10. CASE applied \in {NoText, "none"}
    <2>1. r \in applyNoPackaging(base, ctx) /\ system = "none"
      BY <1>7, <1>8, <1>10, <1>6
    <2>2. r.env = env /\ RunsFirst(r)
      BY <1>3, <1>5, <2>1, ProgramFound
    <2> QED BY <1>4, <1>9, <2>1, <2>2 DEF LayersIn, ctx, system
  <1>11. CASE applied = "current-environment"
    <2>1. r \in applyCurrentEnvironment(base, ctx) /\ system = "current-environment"
      BY <1>7, <1>8, <1>11, <1>6
    <2>2. r.env = Merged(env, CurrentEnv)
      BY <1>3, <2>1 DEF applyCurrentEnvironment, setFromCurrent
    <2>3. Stacked(r.env, << >>, RequiredEnv, IF named THEN ctx.env ELSE << >>, comp.env, CurrentEnv)
      BY <1>4, <2>2, LayerAdded
    <2> QED BY <1>9, <2>1, <2>3 DEF LayersIn, ctx, system
  <1>12. CASE applied = "bash"
    <2>1. r \in applyShellPackaging(base, ctx) /\ system = "bash"
      BY <1>7, <1>8, <1>12, <1>6
    <2>2. r = ShellWrap(base, ctx.pseudo)
      BY <2>1 DEF applyShellPackaging
    <2>3. r.env = env
      BY <1>3, <2>2, WrappedEnv
    <2> QED BY <1>4, <1>9, <2>1, <2>3 DEF LayersIn, ctx, system
  <1>13. CASE applied = "rez1"
    <2>1. r \in applyRezPackaging(1, base, ctx) /\ system = "rez1"
      BY <1>7, <1>8, <1>13, <1>6
    <2>2. PICK file : r = RezWrap(base, 1, file, ctx.pseudo)
      BY <2>1 DEF applyRezPackaging
    <2> DEFINE rez == Merged(BashEnvironment(1, ctx.pseudo), RezEnvironment)
    <2>3. r.env = Merged(rez, env)
      BY <1>3, <2>2, WrappedEnv
    <2> HIDE DEF rez
    <2>4. Stacked(r.env, rez, RequiredEnv, IF named THEN ctx.env ELSE << >>, comp.env, << >>)
      BY <1>4, <2>3, LayerAdded
    <2> QED BY <1>9, <2>1, <2>4 DEF LayersIn, ctx, system, rez
  <1>14. CASE applied = "rez2"
    <2>1. r \in applyRezPackaging(2, base, ctx) /\ system = "rez2"
      BY <1>7, <1>8, <1>14, <1>6
    <2>2. PICK file : r = RezWrap(base, 2, file, ctx.pseudo)
      BY <2>1 DEF applyRezPackaging
    <2>3. r.env = Merged(RezEnvironment, env)
      BY <1>3, <2>2, WrappedEnv
    <2>4. Stacked(r.env, RezEnvironment, RequiredEnv, IF named THEN ctx.env ELSE << >>, comp.env, << >>)
      BY <1>4, <2>3, LayerAdded
    <2> QED BY <1>9, <2>1, <2>4 DEF LayersIn, ctx, system
  <1> QED BY <1>7, <1>10, <1>11, <1>12, <1>13, <1>14

\* The definition keeps its parts and names known paths; what is packaged comes from it.
PackInv ==
    /\ {"comps", "contexts"} \subseteq DOMAIN pkDef
    /\ PathsKnown(pkDef.comps) /\ PathsKnown(pkDef.contexts)
    /\ Packaged => /\ "comp" \in DOMAIN pkDef.comps
                   /\ mSpawnArgs \in processComputation(pkDef.comps["comp"], pkDef.contexts) /\ mSpawnArgs # Failed

LEMMA PackSteps == PackInv /\ [PackNext]_packVars => PackInv'
  <1> SUFFICES ASSUME PackInv, [PackNext]_packVars PROVE PackInv'
    OBVIOUS
  <1>1. CASE AttachContext
    <2>1. pkPc' \in {"check", "failed"} /\ ~Packaged'
      BY <1>1 DEF AttachContext, Packaged
    <2>2. CASE pkDef' = pkDef
      BY <2>1, <2>2 DEF PackInv, PathsKnown, PathKnown
    <2>3. CASE pkDef' # pkDef
      <3>1. PICK ctxs \in getContextsFromEnvironment :
              ctxs # Failed /\ \E name \in DOMAIN ctxs : pkDef' = attachContextObject(pkDef, name, ctxs[name])
        BY <1>1, <2>3 DEF AttachContext
      <3>2. PICK name \in DOMAIN ctxs : pkDef' = attachContextObject(pkDef, name, ctxs[name])
        BY <3>1
      <3> DEFINE one == [n \in {name} |-> ctxs[name]]
      <3>3. PathsKnown(one)
        BY <3>1, PackAssumption DEF getContextsFromEnvironment, PathsKnown
      <3>4. Over(Merged(one, pkDef.contexts), one, pkDef.contexts)
        BY PutOver
      <3>5. DOMAIN one = {name}
        OBVIOUS
      <3>6. /\ {"comps", "contexts"} \subseteq DOMAIN pkDef'
            /\ pkDef'.comps = pkDef.comps /\ pkDef'.contexts = Merged(one, pkDef.contexts)
        BY <3>2 DEF attachContextObject, PackInv
      <3> HIDE DEF one
      <3>7. PathsKnown(pkDef.comps) /\ PathsKnown(pkDef.contexts)
        BY DEF PackInv
      <3>8. PathsKnown(Merged(one, pkDef.contexts))
        BY <3>3, <3>4, <3>7 DEF PathsKnown, Over
      <3>9. PathsKnown(pkDef'.comps) /\ PathsKnown(pkDef'.contexts)
        BY <3>6, <3>7, <3>8
      <3> QED BY <2>1, <3>6, <3>9 DEF PackInv, PathsKnown, PathKnown
    <2> QED BY <2>2, <2>3
  <1>2. CASE SetDefinition
    <2>1. pkDef' = pkDef
      BY <1>2 DEF SetDefinition
    <2>2. Packaged' => DOMAIN pkDef.comps = {"(client)", "comp"}
                       /\ mSpawnArgs' \in processComputation(pkDef.comps["comp"], pkDef.contexts) /\ mSpawnArgs' # Failed
      BY <1>2, Zenon DEF SetDefinition, Packaged
    <2> QED BY <2>1, <2>2 DEF PackInv
  <1>3. CASE LoadDefinition \/ loadFromFile \/ CheckDefinition
    <2>1. pkDef' = pkDef /\ ~Packaged'
      BY <1>3 DEF LoadDefinition, loadFromFile, CheckDefinition, Packaged
    <2> QED BY <2>1 DEF PackInv
  <1>4. CASE writeConfigFile \/ doExec \/ UNCHANGED packVars
    <2>1. pkDef' = pkDef /\ mSpawnArgs' = mSpawnArgs /\ (Packaged' => Packaged)
      BY <1>4 DEF writeConfigFile, doExec, packVars, Packaged
    <2> QED BY <2>1 DEF PackInv
  <1> QED BY <1>1, <1>2, <1>3, <1>4 DEF PackNext

LEMMA PackagedIsDefined == PackInv => EnvironmentLayers /\ ProgramIsFirst
  <1> SUFFICES ASSUME PackInv, Packaged PROVE EnvironmentLayers /\ ProgramIsFirst
    BY DEF EnvironmentLayers, ProgramIsFirst
  <1> DEFINE ctx == NamedContext(LocalComp, pkDef.contexts)
             system == SystemOf(LocalComp, ctx)
  <1>1. /\ PathKnown(LocalComp.env) /\ PathsKnown(pkDef.contexts)
        /\ mSpawnArgs \in processComputation(LocalComp, pkDef.contexts) /\ mSpawnArgs # Failed
    BY DEF PackInv, LocalComp, PathsKnown
  <1>2. LayersIn(mSpawnArgs.env, LocalComp, ctx, system) /\ (system = "none" => RunsFirst(mSpawnArgs))
    BY <1>1, PackagedAsDefined
  <1>3. ctx = Context /\ system = System
    BY DEF NamedContext, SystemOf, Context, System
  <1> HIDE DEF ctx, system
  <1>4. EnvironmentLayers
    <2> DEFINE rez == CASE System = "rez1" -> Merged(BashEnvironment(1, Context.pseudo), RezEnvironment)
                        [] System = "rez2" -> RezEnvironment
                        [] OTHER -> << >>
               context == IF LocalComp.context = NoText THEN << >> ELSE Context.env
               current == IF System = "current-environment" THEN CurrentEnv ELSE << >>
               layers == <<rez, RequiredEnv, context, LocalComp.env, current>>
               env == mSpawnArgs.env
    <2>1. Stacked(env, rez, RequiredEnv, context, LocalComp.env, current)
      BY <1>2, <1>3 DEF LayersIn
    <2>2. /\ DOMAIN env = UNION {DOMAIN layers[i] : i \in 1 .. 5}
          /\ \A v \in DOMAIN env : \E i \in 1 .. 5 :
               v \in DOMAIN layers[i] /\ env[v] = layers[i][v] /\ \A j \in 1 .. i - 1 : v \notin DOMAIN layers[j]
      <3> HIDE DEF rez, context, current, env
      <3> QED BY <2>1, StrongestLayer, Zenon
    <2>3. EnvironmentLayers <=>
            (Packaged => /\ DOMAIN env = UNION {DOMAIN layers[i] : i \in 1 .. 5}
                         /\ \A v \in DOMAIN env : \E i \in 1 .. 5 :
                              v \in DOMAIN layers[i] /\ env[v] = layers[i][v] /\ \A j \in 1 .. i - 1 : v \notin DOMAIN layers[j])
      BY Zenon DEF EnvironmentLayers
    <2> HIDE DEF layers, env
    <2> QED BY <2>2, <2>3
  <1>5. ProgramIsFirst
    <2> DEFINE dirs == PathDirs[mSpawnArgs.env["PATH"]]
    <2> SUFFICES ASSUME System = "none"
                 PROVE  \E i \in 1 .. Len(dirs) :
                          /\ mSpawnArgs.program[1] = dirs[i] /\ dirs[i] \in ExecDirs /\ (dirs[i] # NoText \/ i = Len(dirs))
                          /\ \A j \in 1 .. i - 1 : ~(dirs[j] \in ExecDirs /\ (dirs[j] # NoText \/ j = Len(dirs)))
      BY DEF ProgramIsFirst
    <2>1. PICK i \in Holding(dirs) : mSpawnArgs.program[1] = dirs[i] /\ \A j \in Holding(dirs) : i <= j
      BY <1>2, <1>3 DEF RunsFirst
    <2> HIDE DEF dirs
    <2>2. i \in 1 .. Len(dirs) /\ (dirs[i] # NoText \/ i = Len(dirs)) /\ dirs[i] \in ExecDirs
      BY <2>1 DEF Holding
    <2>3. ASSUME NEW j \in 1 .. i - 1, dirs[j] \in ExecDirs, dirs[j] # NoText \/ j = Len(dirs) PROVE FALSE
      <3>1. j \in 1 .. Len(dirs) /\ ~(i <= j)
        BY <2>2
      <3>2. j \in Holding(dirs)
        BY <2>3, <3>1 DEF Holding
      <3> QED BY <2>1, <3>1, <3>2
    <2> QED BY <2>1, <2>2, <2>3
  <1> QED BY <1>4, <1>5

\* A computation is launched with the environment its layers give (EnvironmentLayers) and the
\* first program of its path (ProgramIsFirst), for any definition, context and environment.
THEOREM LaunchesAsPackaged == PackSpec => [](EnvironmentLayers /\ ProgramIsFirst)
  <1>1. PackInit => PackInv
    BY PackAssumption DEF PackInit, PackInv, Packaged
  <1> QED BY <1>1, PackSteps, PackagedIsDefined, PTL DEF PackSpec
-----------------------------------------------------------------------------
(* Log queries, page by page. *)

\* From an ascending sequence those of its elements that are in a set.
LEMMA SelectedAscends ==
    ASSUME NEW items, Ascends(items), NEW S
    PROVE  Ascends(Selected(items, S)) /\ Elements(Selected(items, S)) = Elements(items) \cap S
  <1> DEFINE n == Len(items)
             Body(f) == [k \in 1 .. n + 1 |-> IF k > n THEN << >>
                                              ELSE IF items[k] \in S THEN <<items[k]>> \o f[k + 1] ELSE f[k + 1]]
             from == CHOOSE f : f = Body(f)
  <1>1. n \in Nat /\ items \in Seq(Int) /\ \A i \in 1 .. n : items[i] \in Int
    BY DEF Ascends
  <1>2. /\ 1 \in Nat /\ n + 1 \in Nat /\ 1 <= n + 1 /\ 1 \in 1 .. n + 1 /\ n + 1 \in 1 .. n + 1 /\ (n + 1) - 1 = n
        /\ n + 1 > n
    BY <1>1
  <1>3. Selected(items, S) = from[1]
    BY DEF Selected
  <1>4. \A i, j \in 1 .. n : i < j => items[i] < items[j]
    BY DEF Ascends
  <1>5. Elements(items) = {items[i] : i \in 1 .. n}
    BY DEF Elements
  <1> HIDE DEF n
  <1>6. \A k \in 1 .. n + 1 : IF k > n THEN k = n + 1 ELSE k \in 1 .. n
    BY <1>1
  <1>7. \A k \in 1 .. n : ~(k > n) /\ k \in Nat /\ k \in 1 .. n + 1 /\ k + 1 \in 1 .. n + 1
    BY <1>1
  <1>8. \E f : f = Body(f)
    <2> DEFINE step == [p \in Nat \X Seq(Int) |-> IF p[1] \in 1 .. n /\ items[p[1]] \in S THEN <<items[p[1]]>> \o p[2] ELSE p[2]]
    <2>1. \A p \in Nat \X Seq(Int) : p[1] \in 1 .. n => <<items[p[1]]>> \o p[2] \in Seq(Int)
      BY <1>1
    <2>2. IsStep(step, Seq(Int)) /\ << >> \in Seq(Int)
      BY <2>1 DEF IsStep
    <2> HIDE DEF step
    <2>3. PICK g : ByNextValue(g, 1, n + 1, Seq(Int), << >>, step)
      BY <1>2, <2>2, FunctionExists
    <2>4. g \in [1 .. n + 1 -> Seq(Int)] /\ g[n + 1] = << >> /\ \A k \in 1 .. n : g[k] = step[<<k, g[k + 1]>>]
      BY <1>2, <2>3 DEF ByNextValue
    <2>5. ASSUME NEW k \in 1 .. n PROVE g[k] = IF items[k] \in S THEN <<items[k]>> \o g[k + 1] ELSE g[k + 1]
      <3>1. <<k, g[k + 1]>> \in Nat \X Seq(Int)
        BY <1>7, <2>4
      <3> QED BY <2>4, <3>1 DEF step
    <2>6. \A k \in 1 .. n + 1 : g[k] = IF k > n THEN << >>
                                       ELSE IF items[k] \in S THEN <<items[k]>> \o g[k + 1] ELSE g[k + 1]
      BY <1>6, <2>4, <2>5
    <2> QED BY <2>4, <2>6
  <1>9. from = Body(from)
    BY <1>8
  <1> HIDE DEF from
  <1>10. from[n + 1] = << >> /\ \A k \in 1 .. n : from[k] = IF items[k] \in S THEN <<items[k]>> \o from[k + 1] ELSE from[k + 1]
    BY <1>2, <1>7, <1>9
  <1>11. AscendsOn(items, 1, n + 1) /\ Chooses(from, items, 1, n + 1, S)
    BY <1>1, <1>2, <1>4, <1>10 DEF AscendsOn, Chooses
  <1>12. ChosenFrom(from[1], items, 1, n + 1, S)
    BY <1>2, <1>11, ChosenAscends
  <1> QED BY <1>2, <1>3, <1>5, <1>12 DEF ChosenFrom

\* A part of an ascending sequence.
LEMMA PartAscends ==
    ASSUME NEW s, Ascends(s), NEW a \in Nat, a >= 1, NEW b \in Int, b <= Len(s)
    PROVE  Ascends(SubSeq(s, a, b)) /\ Elements(SubSeq(s, a, b)) = {s[k] : k \in a .. b}
  <1> DEFINE t == SubSeq(s, a, b)
  <1>1. s \in Seq(Int) /\ Len(s) \in Nat /\ \A i, j \in 1 .. Len(s) : i < j => s[i] < s[j]
    BY DEF Ascends
  <1>2. CASE a > b
    <2>1. t = << >> /\ a .. b = {} /\ Len(<< >>) = 0 /\ 1 .. 0 = {}
      BY <1>2
    <2>2. t \in Seq(Int)
      BY <2>1
    <2> HIDE DEF t
    <2> QED BY <2>1, <2>2 DEF Ascends, Elements, t
  <1>3. CASE a <= b
    <2>1. t \in Seq(Int) /\ Len(t) = b - a + 1 /\ \A i \in 1 .. b - a + 1 : t[i] = s[a + i - 1]
      BY <1>1, <1>3
    <2>2. \A i \in 1 .. b - a + 1 : a + i - 1 \in 1 .. Len(s) /\ a + i - 1 \in a .. b
      BY <1>1, <1>3
    <2>3. \A k \in a .. b : k - a + 1 \in 1 .. b - a + 1 /\ a + (k - a + 1) - 1 = k
      BY <1>3
    <2> HIDE DEF t
    <2>4. ASSUME NEW i \in 1 .. Len(t), NEW j \in 1 .. Len(t), i < j PROVE t[i] < t[j]
      <3>1. t[i] = s[a + i - 1] /\ t[j] = s[a + j - 1] /\ a + i - 1 \in 1 .. Len(s) /\ a + j - 1 \in 1 .. Len(s)
        BY <2>1, <2>2
      <3>2. a + i - 1 < a + j - 1
        BY <2>1, <2>4
      <3> QED BY <1>1, <3>1, <3>2
    <2>5. Elements(t) = {s[k] : k \in a .. b}
      <3>1. \A v : v \in Elements(t) <=> \E i \in 1 .. b - a + 1 : v = t[i]
        BY <2>1 DEF Elements
      <3>2. \A v : (\E i \in 1 .. b - a + 1 : v = t[i]) <=> \E k \in a .. b : v = s[k]
        <4>1. \A i \in 1 .. b - a + 1 : \E k \in a .. b : t[i] = s[k]
          BY <2>1, <2>2
        <4>2. ASSUME NEW k \in a .. b PROVE \E i \in 1 .. b - a + 1 : s[k] = t[i]
          <5> DEFINE i == k - a + 1
          <5>1. i \in 1 .. b - a + 1 /\ a + i - 1 = k
            BY <2>3
          <5> HIDE DEF i
          <5>2. t[i] = s[a + i - 1]
            BY <2>1, <5>1
          <5> QED BY <5>1, <5>2
        <4> QED BY <4>1, <4>2
      <3> QED BY <3>1, <3>2
    <2> QED BY <2>1, <2>4, <2>5 DEF Ascends, t
  <1> QED BY <1>1, <1>2, <1>3

\* Two ascending sequences, every element of the first below those of the second.
LEMMA JoinAscends ==
    ASSUME NEW s, NEW t, Ascends(s), Ascends(t), \A x \in Elements(s), y \in Elements(t) : x < y
    PROVE  Ascends(s \o t) /\ Elements(s \o t) = Elements(s) \cup Elements(t)
  <1> DEFINE z == s \o t
             m == Len(s)
             n == Len(t)
  <1>1. s \in Seq(Int) /\ t \in Seq(Int) /\ m \in Nat /\ n \in Nat
    BY DEF Ascends
  <1>2. z \in Seq(Int) /\ Len(z) = m + n /\ \A i \in 1 .. m + n : z[i] = IF i <= m THEN s[i] ELSE t[i - m]
    BY <1>1
  <1>3. /\ \A i, j \in 1 .. m : i < j => s[i] < s[j]
        /\ \A i, j \in 1 .. n : i < j => t[i] < t[j]
        /\ \A i \in 1 .. m, j \in 1 .. n : s[i] < t[j]
    BY DEF Ascends, Elements
  <1>4. Elements(s) = {s[i] : i \in 1 .. m} /\ Elements(t) = {t[i] : i \in 1 .. n}
    BY DEF Elements
  <1> HIDE DEF m, n, z
  <1>5. \A i \in 1 .. m + n : IF i <= m THEN i \in 1 .. m ELSE i - m \in 1 .. n
    BY <1>1
  <1>6. ASSUME NEW i \in 1 .. m + n, NEW j \in 1 .. m + n, i < j PROVE z[i] < z[j]
    <2>1. i <= m \/ ~(j <= m)
      BY <1>1, <1>6
    <2>2. CASE j <= m
      <3>1. i \in 1 .. m /\ j \in 1 .. m /\ i <= m
        BY <1>1, <1>6, <2>2
      <3>2. z[i] = s[i] /\ z[j] = s[j]
        BY <1>2, <2>2, <3>1
      <3> QED BY <1>3, <1>6, <3>1, <3>2
    <2>3. CASE i <= m /\ ~(j <= m)
      <3>1. i \in 1 .. m /\ j - m \in 1 .. n
        BY <1>5, <2>3
      <3>2. z[i] = s[i] /\ z[j] = t[j - m]
        BY <1>2, <2>3
      <3> QED BY <1>3, <3>1, <3>2
    <2>4. CASE ~(i <= m)
      <3>1. ~(j <= m) /\ i - m < j - m
        BY <1>1, <1>6, <2>4
      <3> QED BY <1>2, <1>3, <1>5, <2>4, <3>1
    <2> QED BY <2>1, <2>2, <2>3, <2>4
  <1>7. \A i \in 1 .. m : i \in 1 .. m + n /\ i <= m
    BY <1>1
  <1>8. \A i \in 1 .. n : i + m \in 1 .. m + n /\ ~(i + m <= m) /\ (i + m) - m = i
    BY <1>1
  <1>9. \A v : v \in Elements(z) <=> \E i \in 1 .. m + n : v = z[i]
    BY <1>2 DEF Elements
  <1>10. \A v : (\E i \in 1 .. m + n : v = z[i]) <=> (\E i \in 1 .. m : v = s[i]) \/ (\E i \in 1 .. n : v = t[i])
    <2>1. ASSUME NEW i \in 1 .. m + n PROVE (\E k \in 1 .. m : z[i] = s[k]) \/ (\E k \in 1 .. n : z[i] = t[k])
      BY <1>2, <1>5
    <2>2. \A i \in 1 .. m : z[i] = s[i]
      BY <1>2, <1>7
    <2>3. \A i \in 1 .. n : z[i + m] = t[i]
      BY <1>2, <1>8
    <2> QED BY <2>1, <2>2, <2>3, <1>7, <1>8
  <1>11. Elements(z) = Elements(s) \cup Elements(t)
    BY <1>4, <1>9, <1>10
  <1> QED BY <1>2, <1>6, <1>11 DEF Ascends, z

\* The page that a place in a sequence falls on.
LEMMA PagesOfPlaces ==
    ASSUME NEW k \in Nat, k > 0, NEW p \in Nat
    PROVE  /\ (k - 1) \div RecordsPerPage \in Nat
           /\ (k - 1) \div RecordsPerPage = p <=> k \in p * RecordsPerPage + 1 .. (p + 1) * RecordsPerPage
  <1> DEFINE R == RecordsPerPage
             a == k - 1
             q == a \div R
  <1>1. R \in Nat /\ R > 0 /\ a \in Nat
    BY PageAssumption
  <1> HIDE DEF R, a
  <1>2. q \in Nat /\ q * R <= a
    BY <1>1
  <1>3. a < (q + 1) * R
    BY <1>1
  <1> HIDE DEF q
  <1>4. p * R \in Nat /\ (p + 1) * R \in Nat /\ q * R \in Nat /\ (q + 1) * R \in Nat
    BY <1>1, <1>2
  <1>5. \A x, y \in Nat : x < y => (x + 1) * R <= y * R
    <2>1. ASSUME NEW x \in Nat, NEW y \in Nat, x < y PROVE (x + 1) * R <= y * R
      BY <1>1, <2>1
    <2> QED BY <2>1
  <1>6. k \in p * R + 1 .. (p + 1) * R <=> p * R <= a /\ a < (p + 1) * R
    BY <1>1, <1>4 DEF a
  <1> DEFINE OnPage == (q = p) <=> (k \in p * R + 1 .. (p + 1) * R)
  <1>7. ASSUME p < q PROVE OnPage
    <2>1. (p + 1) * R <= q * R
      BY <1>2, <1>5, <1>7
    <2>2. ~(a < (p + 1) * R)
      BY <1>1, <1>2, <1>4, <2>1
    <2> QED BY <1>2, <1>6, <1>7, <2>2
  <1>8. ASSUME q < p PROVE OnPage
    <2>1. (q + 1) * R <= p * R
      BY <1>2, <1>5, <1>8
    <2>2. ~(p * R <= a)
      BY <1>1, <1>3, <1>4, <2>1
    <2>3. ~(k \in p * R + 1 .. (p + 1) * R)
      BY <1>6, <2>2
    <2>4. q # p
      BY <1>2, <1>8
    <2> QED BY <2>3, <2>4
  <1>9. ASSUME p = q PROVE OnPage
    BY <1>2, <1>3, <1>6, <1>9
  <1>10. p < q \/ q < p \/ p = q
    BY <1>2
  <1>11. OnPage
    <2> HIDE DEF OnPage
    <2> QED BY <1>7, <1>8, <1>9, <1>10
  <1> QED BY <1>2, <1>11 DEF R, a, q

\* Items of the log that are asked for, up to a place, and the page of the last of them.
AskedItems(comp, items) == {j \in 1 .. Len(items) : comp => items[j] # "foreign"}
UpTo(S, i) == {j \in S : j <= i}
PageIn(S, i) == (Cardinality(UpTo(S, i)) - 1) \div RecordsPerPage

LEMMA UpToFinite ==
    ASSUME NEW n \in Nat, NEW S, S \subseteq 1 .. n, NEW i \in Nat
    PROVE  IsFiniteSet(UpTo(S, i)) /\ Cardinality(UpTo(S, i)) \in Nat /\ (i \in S => Cardinality(UpTo(S, i)) > 0)
  <1>1. UpTo(S, i) \subseteq 1 .. n
    BY DEF UpTo
  <1>a. IsFiniteSet(1 .. n)
    BY FS_Interval, 1 \in Int, n \in Int
  <1>2. IsFiniteSet(UpTo(S, i))
    BY <1>1, <1>a, FS_Subset
  <1>3. Cardinality(UpTo(S, i)) \in Nat
    BY <1>2, FS_CardinalityType
  <1>4. ASSUME i \in S PROVE Cardinality(UpTo(S, i)) # 0
    <2>1. i \in UpTo(S, i)
      BY <1>4 DEF UpTo
    <2> QED BY <1>2, <2>1, FS_EmptySet
  <1> QED BY <1>2, <1>3, <1>4

\* Later items are not on earlier pages.
LEMMA PagesInOrder ==
    ASSUME NEW n \in Nat, NEW S, S \subseteq 1 .. n, NEW i \in S, NEW j \in S, i <= j
    PROVE  PageIn(S, i) \in Nat /\ PageIn(S, j) \in Nat /\ PageIn(S, i) <= PageIn(S, j)
  <1> DEFINE a == Cardinality(UpTo(S, i))
             b == Cardinality(UpTo(S, j))
             R == RecordsPerPage
  <1>1. i \in Nat /\ j \in Nat /\ R \in Nat /\ R > 0
    BY PageAssumption
  <1>2. a \in Nat /\ b \in Nat /\ a > 0 /\ b > 0 /\ IsFiniteSet(UpTo(S, j))
    BY <1>1, UpToFinite
  <1>3. UpTo(S, i) \subseteq UpTo(S, j)
    <2>1. \A x \in S : x \in Int /\ (x <= i => x <= j)
      BY <1>1
    <2> QED BY <2>1 DEF UpTo
  <1>4. a <= b
    BY <1>2, <1>3, FS_Subset
  <1> HIDE DEF a, b, R
  <1> DEFINE p == (a - 1) \div R
             q == (b - 1) \div R
  <1>5. a - 1 \in Nat /\ b - 1 \in Nat
    BY <1>2
  <1>6. p \in Nat /\ q \in Nat
    BY <1>1, <1>5
  <1>7. p * R <= a - 1 /\ b - 1 < (q + 1) * R
    BY <1>1, <1>5
  <1> HIDE DEF p, q
  <1>8. ASSUME q < p PROVE FALSE
    <2>1. (q + 1) * R <= p * R
      BY <1>1, <1>6, <1>8
    <2>2. p * R \in Nat /\ (q + 1) * R \in Nat
      BY <1>1, <1>6
    <2> QED BY <1>4, <1>5, <1>2, <1>7, <2>1, <2>2
  <1>9. p <= q
    BY <1>6, <1>8
  <1> QED BY <1>6, <1>9 DEF PageIn, p, q, a, b, R

\* The items of a sequence that names all that are in S, in order: each on the page of its place.
LEMMA PlacesAreRanks ==
    ASSUME NEW s, Ascends(s), NEW n \in Nat, Elements(s) \subseteq 1 .. n, NEW k \in 1 .. Len(s)
    PROVE  Cardinality(UpTo(Elements(s), s[k])) = k
  <1> DEFINE L == Len(s)
  <1>1. L \in Nat /\ k \in 0 .. L /\ k \in Nat /\ \A i, j \in 1 .. L : i < j => s[i] < s[j]
    BY DEF Ascends
  <1>2. \A i \in 1 .. L : s[i] \in Int
    BY DEF Elements
  <1>3. Elements(s) = {s[i] : i \in 1 .. L}
    BY DEF Elements
  <1>4. k \in 1 .. L
    OBVIOUS
  <1> HIDE DEF L
  <1>5. UpTo(Elements(s), s[k]) = {s[i] : i \in 1 .. k}
    <2>1. ASSUME NEW i \in 1 .. L PROVE s[i] <= s[k] <=> i \in 1 .. k
      <3>1. CASE k < i
        BY <1>1, <1>2, <1>4, <3>1
      <3>2. CASE i < k
        BY <1>1, <1>2, <1>4, <3>2
      <3>3. CASE i = k
        BY <1>1, <1>2, <1>4, <3>3
      <3> QED BY <1>1, <3>1, <3>2, <3>3
    <2>2. \A i \in 1 .. k : i \in 1 .. L
      BY <1>1, <1>4
    <2> QED BY <1>3, <2>1, <2>2 DEF UpTo
  <1>6. k \in 0 .. Len(s)
    BY <1>1 DEF L
  <1> QED BY <1>5, <1>6, PlaceIsRank

\* A page of the answer in ascending order.
LEMMA AnswerIsPage ==
    ASSUME NEW comp \in BOOLEAN, NEW p \in Nat, Len(lcItems) \in Nat, NEW url,
           url.sort = "asc", url.comp <=> comp, url.start = 0, url.page = p, url.paged
    PROVE  /\ Ascends(Answer(url))
           /\ Elements(Answer(url)) = {i \in AskedItems(comp, lcItems) : PageIn(AskedItems(comp, lcItems), i) = p}
  <1> DEFINE n == Len(lcItems)
             R == RecordsPerPage
             S == AskedItems(comp, lcItems)
             all == [i \in 1 .. n |-> IF url.sort = "asc" THEN i ELSE n + 1 - i]
             sorted == Selected(all, Concerned(url))
             last == (url.page + 1) * R
             b == IF last < Len(sorted) THEN last ELSE Len(sorted)
  <1>1. Answer(url) = SubSeq(sorted, url.page * R + 1, b)
    BY DEF Answer
  <1>2. Concerned(url) = S
    BY DEF Concerned, AskedItems
  <1>3. S \subseteq 1 .. n /\ n \in Nat /\ R \in Nat /\ R > 0
    BY PageAssumption DEF AskedItems
  <1>4. Ascends(all) /\ Elements(all) = 1 .. n
    <2>1. all = [i \in 1 .. n |-> i]
      OBVIOUS
    <2>2. all \in Seq(Int) /\ Len(all) = n /\ \A i \in 1 .. n : all[i] = i
      BY <2>1, <1>3
    <2> HIDE DEF all, n
    <2> QED BY <1>3, <2>2 DEF Ascends, Elements
  <1>5. Ascends(sorted) /\ Elements(sorted) = S
    <2>1. Elements(sorted) = Elements(all) \cap S
      BY <1>2, <1>4, SelectedAscends
    <2>2. Ascends(sorted)
      BY <1>4, SelectedAscends
    <2> QED BY <1>3, <1>4, <2>1, <2>2
  <1> HIDE DEF S, n, R, all, sorted
  <1> DEFINE L == Len(sorted)
             a == p * R + 1
  <1>6. L \in Nat
    BY <1>5 DEF Ascends
  <1>7. p * R \in Nat /\ (p + 1) * R \in Nat
    BY <1>3
  <1>8. url.page * R + 1 = a /\ a \in Nat /\ a >= 1 /\ last = (p + 1) * R /\ b \in Int /\ b <= L
        /\ \A k \in a .. b : k \in 1 .. L /\ k <= last
    BY <1>6, <1>7
  <1>9. \A k \in 1 .. L : k \in a .. b <=> k \in a .. last
    BY <1>6, <1>7
  <1>10. /\ Ascends(SubSeq(sorted, a, b)) /\ Elements(SubSeq(sorted, a, b)) = {sorted[k] : k \in a .. b}
    <2> HIDE DEF a, b
    <2> QED BY <1>5, <1>8, PartAscends
  <1>11. ASSUME NEW k \in 1 .. L PROVE PageIn(S, sorted[k]) = p <=> k \in a .. b
    <2>1. Cardinality(UpTo(S, sorted[k])) = k
      BY <1>3, <1>5, PlacesAreRanks
    <2>2. k \in Nat /\ k > 0
      BY <1>6
    <2>3. (k - 1) \div R = p <=> k \in p * R + 1 .. (p + 1) * R
      BY <2>2, PagesOfPlaces DEF R
    <2>4. PageIn(S, sorted[k]) = (k - 1) \div R
      BY <2>1 DEF PageIn, R
    <2> QED BY <1>8, <1>9, <2>3, <2>4
  <1>12. S = {sorted[k] : k \in 1 .. L}
    BY <1>5 DEF Elements
  <1>13. {sorted[k] : k \in a .. b} = {i \in S : PageIn(S, i) = p}
    <2>1. \A k \in a .. b : k \in 1 .. L
      BY <1>8
    <2> HIDE DEF a, b, L
    <2> QED BY <1>11, <1>12, <2>1
  <1> HIDE DEF a, b
  <1> QED BY <1>1, <1>8, <1>10, <1>13 DEF S

\* Pages are read one after the other, in ascending order, from what is asked for.
Items == AskedItems(lcJob.comp, lcItems)
Records(S) == {i \in S : objectIsLogRecord(i)}
Received == Elements(lcGot)

\* The caller has records of the pages before the one it is at, in order (so that those of the
\* next page can follow), and every one of these that was there when it began; when it is
\* done, none of these is on the page it is at.
ReadByPage ==
    /\ Ascends(lcGot)
    /\ \A i \in Received : i \in Items /\ PageIn(Items, i) < lcJob.page
    /\ \A i \in Records(Items) : i <= lcJob.seen /\ PageIn(Items, i) < lcJob.page => i \in Received
    /\ lcJob.status = "done" => \A i \in Records(Items) : i <= lcJob.seen => PageIn(Items, i) # lcJob.page

PageInv ==
    /\ lcItems \in Seq(ItemKinds)
    /\ {"kind", "comp", "asc", "start", "page", "seen", "status"} \subseteq DOMAIN lcJob
    /\ lcJob.comp \in BOOLEAN /\ lcJob.page \in Nat /\ lcJob.seen \in Nat /\ lcJob.seen <= Len(lcItems)
    /\ lcJob.kind = "pages" => lcJob.start = 0
    /\ lcJob.kind = "pages" /\ lcJob.asc => ReadByPage

\* What arrives later leaves the pages of the items before it as they are.
LEMMA PagesStay ==
    ASSUME NEW items, NEW kind, NEW comp \in BOOLEAN, items \in Seq(ItemKinds), kind \in ItemKinds
    PROVE  LET S == AskedItems(comp, items)
               T == AskedItems(comp, Append(items, kind))
           IN /\ S \subseteq T
              /\ \A i \in T : i <= Len(items) => i \in S
              /\ \A i \in S : PageIn(T, i) = PageIn(S, i) /\ Append(items, kind)[i] = items[i]
  <1> DEFINE n == Len(items)
             new == Append(items, kind)
             S == AskedItems(comp, items)
             T == AskedItems(comp, new)
  <1>1. /\ n \in Nat /\ Len(new) = n + 1 /\ \A i \in 1 .. n : new[i] = items[i] /\ i \in 1 .. n + 1
    OBVIOUS
  <1> HIDE DEF new
  <1>2. \A i \in 1 .. n + 1 : i <= n <=> i \in 1 .. n
    BY <1>1
  <1>3. S \subseteq T /\ \A i \in T : i <= n => i \in S
    BY <1>1, <1>2 DEF AskedItems
  <1>4. S \subseteq 1 .. n /\ T \subseteq 1 .. n + 1
    BY <1>1 DEF AskedItems
  <1> HIDE DEF S, T, n
  <1>5. ASSUME NEW i \in S PROVE PageIn(T, i) = PageIn(S, i) /\ new[i] = items[i]
    <2>1. \A j \in T : j <= i => j <= n
      BY <1>1, <1>4
    <2>2. UpTo(T, i) = UpTo(S, i)
      BY <1>3, <2>1 DEF UpTo
    <2> QED BY <1>1, <1>4, <2>2 DEF PageIn
  <1> QED BY <1>3, <1>5 DEF S, T, n, new

LEMMA ReceiveKeepsPages ==
    ASSUME PageInv, NEW kind \in ItemKinds, ServiceReceives(kind)
    PROVE  PageInv'
  <1> DEFINE n == Len(lcItems)
             S == AskedItems(lcJob.comp, lcItems)
             T == AskedItems(lcJob.comp, Append(lcItems, kind))
  <1>1. lcItems' = Append(lcItems, kind) /\ lcJob' = lcJob /\ lcGot' = lcGot
    BY DEF ServiceReceives
  <1>2. lcItems \in Seq(ItemKinds) /\ lcJob.comp \in BOOLEAN /\ lcJob.seen \in Nat /\ lcJob.seen <= n
    BY DEF PageInv
  <1>3. lcItems' \in Seq(ItemKinds) /\ Len(lcItems') = n + 1 /\ n \in Nat
    BY <1>1, <1>2
  <1>4. /\ S \subseteq T
        /\ \A i \in T : i <= n => i \in S
        /\ \A i \in S : PageIn(T, i) = PageIn(S, i) /\ Append(lcItems, kind)[i] = lcItems[i]
    BY <1>2, PagesStay
  <1>5. Items = S /\ Items' = T
    BY <1>1 DEF Items
  <1>6. T \subseteq 1 .. n + 1
    BY <1>1, <1>3 DEF AskedItems
  <1> HIDE DEF S, T, n
  <1>7. ASSUME lcJob.kind = "pages", lcJob.asc PROVE ReadByPage'
    <2>1. ReadByPage
      BY <1>7 DEF PageInv
    <2>2. \A i \in Received' : i \in Items' /\ PageIn(Items', i) < lcJob'.page
      BY <1>1, <1>4, <1>5, <2>1 DEF ReadByPage, Received
    <2>3. ASSUME NEW i \in Records(Items)', i <= lcJob.seen PROVE i \in Records(Items) /\ PageIn(Items', i) = PageIn(Items, i)
      <3>1. i \in T /\ lcItems'[i] \in {"record", "foreign"}
        BY <1>5 DEF Records, objectIsLogRecord
      <3>2. i <= n
        BY <1>2, <1>3, <1>6, <2>3, <3>1
      <3>3. i \in S /\ lcItems[i] = lcItems'[i]
        BY <1>1, <1>4, <3>1, <3>2
      <3> QED BY <1>4, <1>5, <3>1, <3>3 DEF Records, objectIsLogRecord
    <2>4. Ascends(lcGot)' /\ Received' = Received
      BY <1>1, <2>1 DEF ReadByPage, Received
    <2> QED BY <1>1, <2>1, <2>2, <2>3, <2>4 DEF ReadByPage
  <1> QED BY <1>1, <1>2, <1>3, <1>7 DEF PageInv, n

\* The records of a page.
LEMMA RecordsOfPage ==
    ASSUME PageInv, lcJob.kind = "pages", lcJob.asc
    PROVE  LET records == objectToLogRecords(Answer(buildUrl(lcJob)))
           IN Ascends(records) /\ Elements(records) = {i \in Records(Items) : PageIn(Items, i) = lcJob.page}
  <1> DEFINE url == buildUrl(lcJob)
             all == {i \in 1 .. Len(lcItems) : objectIsLogRecord(i)}
  <1>1. url.sort = "asc" /\ (url.comp <=> lcJob.comp) /\ url.start = 0 /\ url.page = lcJob.page /\ url.paged
    BY DEF PageInv, buildUrl
  <1>2. lcJob.comp \in BOOLEAN /\ lcJob.page \in Nat /\ Len(lcItems) \in Nat
    BY DEF PageInv
  <1> HIDE DEF url
  <1>3. Ascends(Answer(url)) /\ Elements(Answer(url)) = {i \in Items : PageIn(Items, i) = lcJob.page}
    BY <1>1, <1>2, AnswerIsPage DEF Items
  <1>4. objectToLogRecords(Answer(url)) = Selected(Answer(url), all)
    BY DEF objectToLogRecords
  <1>5. Items \subseteq 1 .. Len(lcItems)
    BY DEF Items, AskedItems
  <1>6. Elements(Answer(url)) \cap all = {i \in Records(Items) : PageIn(Items, i) = lcJob.page}
    BY <1>3, <1>5 DEF Records
  <1> HIDE DEF all
  <1> QED BY <1>3, <1>4, <1>6, SelectedAscends DEF url

LEMMA PageKeepsPages ==
    ASSUME PageInv, lcJob.kind = "pages", GetObject
    PROVE  PageInv'
  <1> DEFINE n == Len(lcItems)
             p == lcJob.page
             records == objectToLogRecords(Answer(buildUrl(lcJob)))
  <1>1. lcItems' = lcItems /\ n \in Nat /\ p \in Nat /\ lcJob.comp \in BOOLEAN /\ lcJob.seen \in Nat /\ lcJob.seen <= n
    BY DEF GetObject, PageInv
  <1>2. {"kind", "comp", "asc", "start", "page", "seen", "status"} \subseteq DOMAIN lcJob /\ lcJob.status = "running"
        /\ lcJob.start = 0 /\ lcItems \in Seq(ItemKinds)
    BY DEF GetObject, PageInv
  <1>3. NextPage(records) \/ (lcJob' = [lcJob EXCEPT !.status = "failed"] /\ lcGot' = lcGot)
    BY DEF GetObject
  <1> HIDE DEF records
  <1>4. CASE lcJob' = [lcJob EXCEPT !.status = "failed"] /\ lcGot' = lcGot
    <2>1. /\ DOMAIN lcJob' = DOMAIN lcJob
          /\ lcJob'.kind = lcJob.kind /\ lcJob'.comp = lcJob.comp /\ lcJob'.asc = lcJob.asc /\ lcJob'.start = lcJob.start
          /\ lcJob'.page = lcJob.page /\ lcJob'.seen = lcJob.seen /\ lcJob'.status = "failed"
      BY <1>2, <1>4
    <2>2. lcJob.asc => ReadByPage'
      BY <1>1, <1>4, <2>1 DEF PageInv, ReadByPage, Items, Received, Records, objectIsLogRecord
    <2> QED BY <1>1, <1>2, <2>1, <2>2 DEF PageInv
  <1>5. CASE NextPage(records)
    <2>1. lcGot' = lcGot \o records
      BY <1>5 DEF NextPage
    <2>2. /\ DOMAIN lcJob' = DOMAIN lcJob
          /\ lcJob'.kind = lcJob.kind /\ lcJob'.comp = lcJob.comp /\ lcJob'.asc = lcJob.asc /\ lcJob'.start = lcJob.start
          /\ lcJob'.seen = IF p = 0 THEN n ELSE lcJob.seen
          /\ lcJob'.status = IF records = << >> THEN "done" ELSE lcJob.status
          /\ lcJob'.page = IF records = << >> THEN p ELSE p + 1
      BY <1>2, <1>5 DEF NextPage
    <2>3. lcJob'.page \in Nat /\ lcJob'.seen \in Nat /\ lcJob'.seen <= Len(lcItems')
      BY <1>1, <2>2
    <2>4. ASSUME lcJob.asc PROVE ReadByPage'
      <3>1. ReadByPage
        BY <2>4 DEF PageInv
      <3>2. Ascends(records) /\ Elements(records) = {i \in Records(Items) : PageIn(Items, i) = p}
        BY <2>4, RecordsOfPage DEF records
      <3>3. Items \subseteq 1 .. n /\ Records(Items) \subseteq Items
        BY DEF Items, AskedItems, Records
      <3>4. ASSUME NEW i \in Items PROVE PageIn(Items, i) \in Nat /\ i \in Nat
        <4>1. i \in Nat /\ i <= i
          BY <1>1, <3>3
        <4> QED BY <1>1, <3>3, <4>1, PagesInOrder
      <3>5. ASSUME NEW x \in Received, NEW y \in Elements(records) PROVE x < y
        <4>1. x \in Items /\ y \in Items /\ PageIn(Items, x) < p /\ PageIn(Items, y) = p
          BY <3>1, <3>2, <3>3 DEF ReadByPage
        <4>2. ASSUME y <= x PROVE FALSE
          <5>1. PageIn(Items, y) <= PageIn(Items, x)
            BY <1>1, <3>3, <4>1, <4>2, PagesInOrder
          <5> QED BY <1>1, <3>4, <4>1, <5>1
        <4> QED BY <3>4, <4>1, <4>2
      <3>6. Ascends(lcGot') /\ Received' = Received \cup Elements(records)
        <4>1. Ascends(lcGot)
          BY <3>1 DEF ReadByPage
        <4> QED BY <2>1, <3>2, <3>5, <4>1, JoinAscends DEF Received
      <3>7. Items' = Items /\ Records(Items)' = Records(Items)
        BY <1>1, <2>2 DEF Items, Records, objectIsLogRecord
      <3> DEFINE found == Elements(records)
      <3>8. records = << >> => found = {}
        <4>1. Len(<< >>) = 0 /\ 1 .. 0 = {}
          OBVIOUS
        <4> QED BY <4>1 DEF Elements
      <3> HIDE DEF found
      <3>9. \A i \in Received' : i \in Items /\ PageIn(Items, i) < lcJob'.page
        <4>1. \A i \in Received : i \in Items /\ PageIn(Items, i) < p
          BY <3>1 DEF ReadByPage
        <4>2. \A i \in found : i \in Items /\ PageIn(Items, i) = p /\ records # << >>
          BY <3>2, <3>3, <3>8 DEF found
        <4>3. Received' = Received \cup found
          BY <3>6 DEF found
        <4> HIDE DEF p
        <4> QED BY <1>1, <2>2, <3>4, <4>1, <4>2, <4>3
      <3>10. ASSUME NEW i \in Records(Items), i <= lcJob'.seen, PageIn(Items, i) < lcJob'.page PROVE i \in Received'
        <4>1. i \in Items /\ PageIn(Items, i) \in Nat
          BY <3>3, <3>4
        <4>2. PageIn(Items, i) < p \/ PageIn(Items, i) = p
          BY <1>1, <2>2, <3>10, <4>1
        <4>3. CASE PageIn(Items, i) = p
          BY <3>2, <3>6, <4>3
        <4>4. CASE PageIn(Items, i) < p
          <5>1. lcJob'.seen = lcJob.seen
            BY <1>1, <2>2, <4>1, <4>4
          <5> QED BY <3>1, <3>6, <3>10, <4>4, <5>1 DEF ReadByPage
        <4> QED BY <4>2, <4>3, <4>4
      <3>11. lcJob'.status = "done" => \A i \in Records(Items) : i <= lcJob'.seen => PageIn(Items, i) # lcJob'.page
        <4>1. lcJob'.status = "done" => records = << >> /\ lcJob'.page = p
          BY <1>2, <2>2
        <4>2. records = << >> => \A i \in Records(Items) : PageIn(Items, i) # p
          BY <3>2, <3>8 DEF found
        <4> QED BY <4>1, <4>2
      <3> QED BY <3>6, <3>7, <3>9, <3>10, <3>11 DEF ReadByPage
    <2> QED BY <1>1, <1>2, <2>2, <2>3, <2>4 DEF PageInv
  <1> QED BY <1>3, <1>4, <1>5

LEMMA PageSteps == PageInv /\ [LogClientNext]_logClientVars => PageInv'
  <1> SUFFICES ASSUME PageInv, [LogClientNext]_logClientVars PROVE PageInv'
    OBVIOUS
  <1>1. CASE \E kind \in ItemKinds : ServiceReceives(kind)
    BY <1>1, ReceiveKeepsPages
  <1>2. CASE getLogsBySessionId \/ getLogsBySessionIdAndCompName
    BY <1>2, PageKeepsPages DEF getLogsBySessionId, getLogsBySessionIdAndCompName
  <1>3. CASE getArrasLogsUrl
    <2>1. PICK status \in {"running", "failed"} : lcJob' = [lcJob EXCEPT !.status = status]
      BY <1>3 DEF getArrasLogsUrl
    <2>2. lcItems' = lcItems /\ lcGot' = lcGot
      BY <1>3 DEF getArrasLogsUrl
    <2>3. /\ DOMAIN lcJob' = DOMAIN lcJob
          /\ lcJob'.kind = lcJob.kind /\ lcJob'.comp = lcJob.comp /\ lcJob'.asc = lcJob.asc /\ lcJob'.start = lcJob.start
          /\ lcJob'.page = lcJob.page /\ lcJob'.seen = lcJob.seen /\ lcJob'.status # "done"
      BY <2>1 DEF PageInv
    <2>4. ReadByPage => ReadByPage'
      BY <2>2, <2>3 DEF ReadByPage, Items, Received, Records, objectIsLogRecord
    <2> QED BY <2>2, <2>3, <2>4 DEF PageInv
  <1>4. CASE FetchFails \/ UNCHANGED logClientVars
    <2>1. lcItems' = lcItems /\ lcGot' = lcGot /\ lcJob' = lcJob
      BY <1>4 DEF FetchFails, logClientVars
    <2> QED BY <2>1 DEF PageInv, ReadByPage, Items, Received, Records, objectIsLogRecord
  <1>5. ASSUME NEW terminated \in BOOLEAN,
               \/ getLogsBySessionIdComplete(terminated) \/ getLogsBySessionIdAndCompNameComplete(terminated)
               \/ tail(terminated)
        PROVE  PageInv'
    <2>1. lcJob.kind # "pages" /\ (GetComplete(terminated) \/ GetObject)
      BY <1>5 DEF getLogsBySessionIdComplete, getLogsBySessionIdAndCompNameComplete, tail
    <2>2. lcItems' = lcItems /\ \E status : lcJob' = [lcJob EXCEPT !.status = status]
      <3>1. CASE GetComplete(terminated)
        BY <3>1 DEF GetComplete
      <3>2. CASE GetObject
        <4>1. \/ Once(objectToLogRecords(Answer(buildUrl(lcJob))))
              \/ lcJob' = [lcJob EXCEPT !.status = "failed"]
          BY <2>1, <3>2 DEF GetObject
        <4> QED BY <3>2, <4>1 DEF GetObject, Once
      <3> QED BY <2>1, <3>1, <3>2
    <2>3. /\ DOMAIN lcJob' = DOMAIN lcJob
          /\ lcJob'.kind = lcJob.kind /\ lcJob'.comp = lcJob.comp /\ lcJob'.page = lcJob.page /\ lcJob'.seen = lcJob.seen
      BY <2>2 DEF PageInv
    <2> QED BY <2>1, <2>2, <2>3 DEF PageInv
  <1> QED BY <1>1, <1>2, <1>3, <1>4, <1>5 DEF LogClientNext

LEMMA PagesAreComplete == PageInv => PagesComplete
  <1> SUFFICES ASSUME PageInv, lcJob.kind = "pages", lcJob.asc PROVE PagesComplete
    BY DEF PagesComplete
  <1> DEFINE n == Len(lcItems)
  <1>1. ReadByPage /\ n \in Nat /\ lcJob.page \in Nat /\ lcJob.seen \in Nat /\ lcJob.seen <= n /\ DOMAIN lcItems = 1 .. n
    BY DEF PageInv
  <1>2. Ascends(lcGot) /\ DOMAIN lcGot = 1 .. Len(lcGot) /\ Range(lcGot) = Received
    BY <1>1 DEF ReadByPage, Ascends, Received, Elements, Range
  <1>3. \A i \in 1 .. n : i \in Items <=> Asked(i)
    BY DEF Items, AskedItems, Asked
  <1>4. Items \subseteq 1 .. n
    BY DEF Items, AskedItems
  <1> HIDE DEF n
  <1>5. ASSUME NEW i \in 1 .. n PROVE PageOf(i) = PageIn(Items, i)
    <2>1. \A j \in 1 .. n : j <= i <=> j \in 1 .. i
      BY <1>1
    <2>2. \A j \in 1 .. i : j \in 1 .. n
      BY <1>1
    <2>3. {j \in 1 .. i : Asked(j)} = UpTo(Items, i)
      BY <1>3, <1>4, <2>1, <2>2 DEF UpTo
    <2> QED BY <2>3 DEF PageOf, PageIn
  <1>6. ASSUME NEW i \in Items PROVE PageIn(Items, i) \in Nat /\ i \in Nat
    <2>1. i \in Nat /\ i <= i
      BY <1>1, <1>4
    <2> QED BY <1>1, <1>4, <2>1, PagesInOrder
  <1>7. \A i, j \in DOMAIN lcGot : i < j => lcGot[i] < lcGot[j]
    BY <1>2 DEF Ascends
  <1>8. \A i \in Range(lcGot) : Asked(i)
    BY <1>1, <1>2, <1>3, <1>4 DEF ReadByPage
  <1>9. ASSUME lcJob.status = "done", NEW i \in 1 .. lcJob.seen, objectIsLogRecord(i), Asked(i),
               \A p \in 0 .. PageOf(i) : HasRecord(p)
        PROVE  i \in Range(lcGot)
    <2>1. i \in 1 .. n /\ i \in Items /\ i \in Records(Items) /\ i <= lcJob.seen /\ i \in Nat
      BY <1>1, <1>3, <1>9 DEF Records
    <2>2. PageOf(i) = PageIn(Items, i) /\ PageIn(Items, i) \in Nat
      BY <1>5, <1>6, <2>1
    <2>3. \A j \in Records(Items) : j <= lcJob.seen => PageIn(Items, j) # lcJob.page
      BY <1>1, <1>9 DEF ReadByPage
    <2>4. CASE PageIn(Items, i) < lcJob.page
      BY <1>1, <1>2, <2>1, <2>4 DEF ReadByPage
    <2>5. ASSUME lcJob.page <= PageIn(Items, i) PROVE FALSE
      <3>1. HasRecord(lcJob.page)
        BY <1>1, <1>9, <2>2, <2>5
      <3>2. PICK j \in 1 .. n : Asked(j) /\ PageOf(j) = lcJob.page /\ objectIsLogRecord(j)
        BY <1>1, <3>1 DEF HasRecord
      <3>3. j \in Records(Items) /\ PageIn(Items, j) = lcJob.page /\ j \in Items /\ j \in Nat
        BY <1>1, <1>3, <1>5, <3>2 DEF Records
      <3>4. ~(j <= lcJob.seen)
        BY <2>3, <3>3
      <3>5. i <= j
        BY <1>1, <2>1, <3>3, <3>4
      <3>6. PageIn(Items, i) <= PageIn(Items, j)
        BY <1>1, <1>4, <2>1, <3>3, <3>5, PagesInOrder
      <3>7. PageIn(Items, i) = lcJob.page
        BY <1>1, <2>2, <2>5, <3>3, <3>6
      <3> QED BY <2>1, <2>3, <3>7
    <2> QED BY <1>1, <2>2, <2>4, <2>5
  <1> QED BY <1>7, <1>8, <1>9 DEF PagesComplete

\* Pages read in ascending order come in order, once, and all (PagesComplete), for pages of any
\* size, however many items there are, arrive meanwhile, and queries fail.
THEOREM PagesAreRead == LogClientSpec => []PagesComplete
  <1>1. LogClientInit => PageInv
    <2> SUFFICES ASSUME LogClientInit PROVE PageInv
      OBVIOUS
    <2>1. lcItems = << >> /\ lcGot = << >> /\ lcJob.page = 0 /\ lcJob.seen = 0 /\ lcJob.status = "locate"
          /\ lcJob.comp \in BOOLEAN /\ (lcJob.kind = "pages" => lcJob.start = 0)
          /\ {"kind", "comp", "asc", "start", "page", "seen", "status"} \subseteq DOMAIN lcJob
      BY DEF LogClientInit
    <2>2. Ascends(lcGot) /\ Received = {}
      BY <2>1 DEF Ascends, Received, Elements
    <2>3. Items = {} /\ Len(lcItems) = 0 /\ lcItems \in Seq(ItemKinds)
      BY <2>1 DEF Items, AskedItems
    <2>4. ReadByPage
      BY <2>1, <2>2, <2>3 DEF ReadByPage, Records
    <2> QED BY <2>1, <2>3, <2>4 DEF PageInv
  <1> QED BY <1>1, PageSteps, PagesAreComplete, PTL DEF LogClientSpec
-----------------------------------------------------------------------------
(* The services that a client asks. *)

\* A question is put to the coordinator at an endpoint, and its answer is the result.
AskedAtEndpoint ==
    /\ coCall \in [op : {"none", "url", "exists"}, pc : {"idle", "config", "query"}]
    /\ coCall.pc = "query" => coEndpoint # "none"
    /\ coCall.pc # "idle" => coResult = "none"

CoordInv == AskedAtEndpoint /\ ExistenceIsAnswered

\* Every step of a question keeps the invariant, whatever the configuration service and the
\* coordinator do.
LEMMA CoordSteps == CoordInv /\ [CoordNext]_coordVars => CoordInv'
  <1> SUFFICES ASSUME CoordInv, [CoordNext]_coordVars PROVE CoordInv'
    OBVIOUS
  <1> USE DEF CoordInv, AskedAtEndpoint, ExistenceIsAnswered
  <1>1. ASSUME UNCHANGED queryVars PROVE CoordInv'
    BY <1>1 DEF queryVars
  <1>2. ASSUME Begin, UNCHANGED coEndpoint \/ coEndpoint' \in {"none", "override", "local", "default", "configured"},
               \/ coCall' = [coCall EXCEPT !.pc = "idle"] /\ coResult' \in {"url", "ClientException"}
               \/ coCall' \in {[op |-> "url", pc |-> "config"], [op |-> "exists", pc |-> "config"]} /\ coResult' = "none"
               \/ coCall' = [op |-> "exists", pc |-> "query"] /\ coResult' = "none" /\ coEndpoint' \in {"override", "default"}
        PROVE CoordInv'
    BY <1>2 DEF Begin
  <1>3. ASSUME NEW dc, requestArrasUrl(dc) PROVE CoordInv'
    BY <1>2, <1>3 DEF requestArrasUrl, Return, Ask
  <1>4. ASSUME NEW dc, NEW id, sessionExists(id, dc) PROVE CoordInv'
    BY <1>2, <1>4 DEF sessionExists, getCoordinatorEndpoint, Return, Ask
  <1>5. ASSUME NEW reply, ConfigReplies(reply) PROVE CoordInv'
    <2>1. CASE reply = "ok"
      BY <1>5, <2>1 DEF ConfigReplies, Return, Ask
    <2>2. CASE reply = "exception"
      BY <1>5, <2>2 DEF ConfigReplies, Return, Ask
    <2>3. CASE reply \notin {"ok", "exception"}
      BY <1>5, <2>3 DEF ConfigReplies, Return, Ask
    <2> QED BY <2>1, <2>2, <2>3
  <1>6. ASSUME NEW reply, CoordinatorReplies(reply) PROVE CoordInv'
    BY <1>6 DEF CoordinatorReplies, ExistsOf, Return
  <1>7. CASE \/ Notify \/ CtorAssign \/ CtorDetach \/ RegisterSession \/ DeleteThis
             \/ \E reply \in Replies : CoordinatorUrl(reply) \/ PostRegistration(reply)
    BY <1>1, <1>7 DEF Notify, CtorAssign, CtorDetach, RegisterSession, DeleteThis, CoordinatorUrl,
                      PostRegistration, NotifyOnly
  <1>8. CASE UNCHANGED coordVars
    BY <1>1, <1>8 DEF coordVars, queryVars
  <1> QED BY <1>3, <1>4, <1>5, <1>6, <1>7, <1>8 DEF CoordNext

\* sessionExists returns what the coordinator has answered, at the endpoint that was found
\* (ExistenceIsAnswered), whatever fails and however often the client asks.
THEOREM SessionsAreAsAnswered == CoordSpec => []ExistenceIsAnswered
  <1>1. CoordInit => CoordInv
    BY DEF CoordInit, CoordInv, AskedAtEndpoint, ExistenceIsAnswered
  <1>2. CoordInv => ExistenceIsAnswered
    BY DEF CoordInv
  <1> QED BY CoordSteps, <1>1, <1>2, PTL DEF CoordSpec

\* The handler has only groups that it granted, and only groups that the client was told
\* of are cancelled.
GroupsGranted ==
    /\ fhGranted \in Nat /\ fhGroups \subseteq 1 .. fhGranted
    /\ fhCancelled \subseteq fhTold

FarmInv == GroupsGranted /\ GroupsAreReal

\* Every step of a request for farm hosts keeps the invariant, whatever becomes of it.
LEMMA FarmSteps == FarmInv /\ [FarmNext]_farmVars => FarmInv'
  <1> SUFFICES ASSUME FarmInv, [FarmNext]_farmVars PROVE FarmInv'
    OBVIOUS
  <1> USE DEF FarmInv, GroupsGranted, GroupsAreReal
  <1>1. ASSUME UNCHANGED groupVars PROVE FarmInv'
    BY <1>1 DEF groupVars
  <1>2. ASSUME NEW outcome, postRequest(outcome) PROVE FarmInv'
    <2>1. CASE outcome = "done"
      BY <1>2, <2>1 DEF postRequest, CarriedOut, AnsweredOk, getGroupIdFromResponse, BAD_GROUP_ID
    <2>2. CASE outcome # "done"
      <3>1. fhTold' = fhTold /\ fhTried' = fhTried /\ fhCancelled' = fhCancelled
        BY <1>2, <2>2 DEF postRequest, AnsweredOk, getGroupIdFromResponse, BAD_GROUP_ID
      <3>2. \/ fhGranted' = fhGranted /\ fhGroups' = fhGroups
            \/ fhGranted' = fhGranted + 1 /\ fhGroups' = fhGroups \cup {fhGranted + 1}
        BY <1>2 DEF postRequest
      <3>3. fhGranted + 1 \notin fhCancelled
        OBVIOUS
      <3>4. CASE fhGranted' = fhGranted /\ fhGroups' = fhGroups
        BY <3>1, <3>4
      <3>5. CASE fhGranted' = fhGranted + 1 /\ fhGroups' = fhGroups \cup {fhGranted + 1}
        <4>1. GroupsGranted'
          BY <3>1, <3>5
        <4> QED BY <3>1, <3>3, <3>5, <4>1
      <3> QED BY <3>2, <3>4, <3>5
    <2> QED BY <2>1, <2>2
  <1>3. ASSUME NEW outcome, NEW group \in fhTold, cancelGroup(outcome, group) PROVE FarmInv'
    BY <1>3 DEF cancelGroup, CarriedOut, ErrorCodeZero
  <1>4. CASE \/ getSiloUrl \/ getBaseUrl \/ SetEnvInConstructor
             \/ \E outcome \in Outcomes : \/ setEnv(outcome) \/ getDetail(outcome)
                                          \/ \E group \in fhTold : setRunLimit(outcome, group)
    BY <1>1, <1>4 DEF getSiloUrl, getBaseUrl, SetEnvInConstructor, setEnv, getDetail, setRunLimit
  <1>5. CASE UNCHANGED farmVars
    BY <1>1, <1>5 DEF farmVars, groupVars
  <1> QED BY <1>2, <1>3, <1>4, <1>5 DEF FarmNext

\* The groups of farm hosts that a client knows of are there, and those it was told are
\* cancelled are not (GroupsAreReal), whatever answers are lost and however many calls
\* are made.
THEOREM GroupsAreAsTold == FarmSpec => []GroupsAreReal
  <1>1. FarmInit => FarmInv
    BY DEF FarmInit, FarmInv, GroupsGranted, GroupsAreReal
  <1>2. FarmInv => GroupsAreReal
    BY DEF FarmInv
  <1> QED BY FarmSteps, <1>1, <1>2, PTL DEF FarmSpec
-----------------------------------------------------------------------------
(* Captured output. *)

\* Where the AutoLogger is with a stream.
PhaseOf(s) ==
    CASE lgMain.pc = "set" /\ lgMain.s = s -> "looping"
      [] lgMain.pc = "join" /\ lgMain.s = s -> "closing"
      [] lgMain.pc = "reset" /\ lgMain.s = s -> "restored"
      [] lgMain.pc = "capture" -> IF lgMain.s = "stdout" /\ s = "stderr" THEN "captured" ELSE "before"
      [] lgMain.pc = "set" /\ lgMain.s # s -> IF s = "stderr" THEN "captured" ELSE "before"
      [] lgMain.pc \in {"close", "join", "reset"} /\ ~(lgMain.pc # "close" /\ lgMain.s = s) ->
            IF lgMain.s = "stdout" /\ s = "stderr" THEN "after" ELSE "captured"
      [] OTHER -> "after"

Closed(s) == PhaseOf(s) \in {"closing", "restored", "after"}

ThreadStates == {"none", "read", "awake", "sleep", "log", "ended"}
CaptureThread == [pc : ThreadStates, line : Int]
LogTypeOK ==
    /\ lgMain \in [pc : {"capture", "set", "close", "join", "reset", "done"}, s : Streams]
    /\ lgMain.pc = "done" => lgMain.s = "stderr"
    /\ lgFd \in [Streams -> {"terminal", "pipe"}] /\ lgStream \in [Streams -> {"std", "dup", "closed"}]
    /\ lgPipe \in [Streams -> Seq(Int)] /\ lgQueue \in [Streams -> Seq(Int)] /\ lgTerm \in [Streams -> Seq(Int)]
    /\ lgReader \in [Streams -> CaptureThread] /\ lgWriter \in [Streams -> CaptureThread]
    /\ lgPrinted \in [Streams -> Nat] /\ lgSpan \in [Streams -> [from : Nat, to : Nat]]

\* The descriptor, the logger's stream and the threads in each phase.
Redirected(s) ==
    /\ lgFd[s] = IF PhaseOf(s) \in {"looping", "captured", "closing"} THEN "pipe" ELSE "terminal"
    /\ lgStream[s] = IF PhaseOf(s) \in {"captured", "closing"} THEN "dup"
                     ELSE IF PhaseOf(s) = "restored" THEN "closed" ELSE "std"
    /\ PhaseOf(s) = "before" =>
          lgReader[s].pc = "none" /\ lgWriter[s].pc = "none" /\ lgPipe[s] = << >> /\ lgQueue[s] = << >>
    /\ PhaseOf(s) \in {"looping", "captured", "closing"} =>
          lgReader[s].pc \in {"read", "awake", "sleep", "ended"} /\ lgWriter[s].pc \in {"awake", "sleep", "log", "ended"}
    /\ PhaseOf(s) \in {"looping", "captured"} => lgReader[s].pc # "ended" /\ lgWriter[s].pc # "ended"
    /\ PhaseOf(s) \in {"restored", "after"} => lgReader[s].pc = "ended" /\ lgWriter[s].pc = "ended"

\* What is on its way to the terminal, the oldest first: the line the log thread holds, the
\* queue, the line the pipe thread holds, the pipe.
Held(th, pcs) == IF th.pc \in pcs THEN <<th.line>> ELSE << >>
Logged(s) == Held(lgWriter[s], {"log"})
Pushed(s) == Held(lgReader[s], {"awake", "sleep"})
Behind(s) == lgQueue[s] \o (Pushed(s) \o lgPipe[s])
Whole(s) == lgTerm[s] \o (Logged(s) \o Behind(s))

\* The lines that are kept, and those of them whose order is.
Upto(s) == IF Closed(s) THEN lgSpan[s].to ELSE lgPrinted[s]
From(s) == IF PhaseOf(s) \in {"before", "looping"} THEN lgPrinted[s] ELSE lgSpan[s].from

IsOnce(x, n) == \E i \in DOMAIN x : x[i] = n /\ \A j \in DOMAIN x : x[j] = n => j = i
InOrder(x, from, to) == \A i, j \in DOMAIN x : from < x[i] /\ x[i] < x[j] /\ x[j] <= to => i < j
EndsWithClosing(x, to) == \A i, j \in DOMAIN x : x[i] = Closing /\ i < j => x[j] \notin 1 .. to
AllKept(x, from, to) == (\A n \in 1 .. to : IsOnce(x, n)) /\ InOrder(x, from, to) /\ EndsWithClosing(x, to)
NoneOf(x, e) == \A i \in DOMAIN x : x[i] # e
AtMost(x, p) == \A i \in DOMAIN x : x[i] <= p

\* The line that ends the capture has been pushed when the pipe thread has ended, as the last
\* one, and has been taken when the log thread has ended.
ClosingPushed(s) ==
    LET x == Logged(s) \o lgQueue[s]
    IN /\ lgReader[s].pc # "ended" => NoneOf(x, Closing)
       /\ lgReader[s].pc = "ended" => Len(x) > 0 /\ x[Len(x)] = Closing /\ \A i \in 1 .. Len(x) - 1 : x[i] # Closing
       /\ lgWriter[s].pc = "ended" => lgReader[s].pc = "ended" /\ lgQueue[s] = <<Closing>>

LinesKept(s) ==
    /\ AllKept(Whole(s), From(s), Upto(s))
    /\ AtMost(Whole(s), lgPrinted[s])
    /\ ~Closed(s) => NoneOf(Whole(s), Closing)

StreamKept(s) == Redirected(s) /\ LinesKept(s) /\ ClosingPushed(s) /\ From(s) <= Upto(s) /\ Upto(s) <= lgPrinted[s]

LogInv == LogTypeOK /\ \A s \in Streams : Emitted(LevelOf(s)) => StreamKept(s)
-----------------------------------------------------------------------------
(* One line more, or less, in a sequence of lines. *)

\* y is x with one element more, behind the first k.
OneMore(x, y, k) ==
    /\ x \in Seq(Int) /\ y \in Seq(Int) /\ k \in 0 .. Len(x) /\ Len(y) = Len(x) + 1
    /\ \A i \in 1 .. k : y[i] = x[i]
    /\ \A i \in k + 1 .. Len(x) : y[i + 1] = x[i]

\* Concatenation in another order.
Associate(a, b, c) == (a \o b) \o c = a \o (b \o c) /\ a \o b \in Seq(Int)

LEMMA ConcatThree == \A a, b, c \in Seq(Int) : Associate(a, b, c)
  <1> SUFFICES ASSUME NEW a \in Seq(Int), NEW b \in Seq(Int), NEW c \in Seq(Int) PROVE Associate(a, b, c)
    OBVIOUS
  <1>1. a \o b \in Seq(Int) /\ b \o c \in Seq(Int)
    OBVIOUS
  <1> QED BY <1>1, SMTT(30) DEF Associate

\* An element put between two sequences.
LEMMA PutBetween ==
    ASSUME NEW a \in Seq(Int), NEW b \in Seq(Int), NEW e \in Int
    PROVE  /\ OneMore(a \o b, Append(a, e) \o b, Len(a)) /\ (Append(a, e) \o b)[Len(a) + 1] = e
           /\ Append(a, e) \o b = a \o (<<e>> \o b)
  <1> DEFINE x == a \o b
             z == Append(a, e)
             y == z \o b
             m == Len(a)
             n == Len(b)
  <1>1. x \in Seq(Int) /\ Len(x) = m + n /\ m \in Nat /\ n \in Nat
        /\ \A i \in 1 .. m + n : x[i] = IF i <= m THEN a[i] ELSE b[i - m]
    BY ConcatProperties
  <1>2. z \in Seq(Int) /\ Len(z) = m + 1 /\ (\A i \in 1 .. m : z[i] = a[i]) /\ z[m + 1] = e
    BY AppendProperties
  <1>4. z \o b = a \o (<<e>> \o b)
    BY AppendIsConcat, ConcatAssociative
  <1> HIDE DEF x, z, m, n
  <1>3. y \in Seq(Int) /\ Len(y) = (m + 1) + n
        /\ \A i \in 1 .. (m + 1) + n : y[i] = IF i <= m + 1 THEN z[i] ELSE b[i - (m + 1)]
    <2>1. y \in Seq(Int) /\ Len(y) = Len(z) + Len(b)
          /\ \A i \in 1 .. Len(z) + Len(b) : y[i] = IF i <= Len(z) THEN z[i] ELSE b[i - Len(z)]
      BY <1>2, ConcatProperties
    <2> QED BY <1>2, <2>1 DEF n
  <1> HIDE DEF y
  <1>5. m \in 0 .. Len(x) /\ Len(y) = Len(x) + 1
    BY <1>1, <1>3
  <1>6. ASSUME NEW i \in 1 .. m PROVE y[i] = x[i]
    <2>1. i \in 1 .. m + n /\ i \in 1 .. (m + 1) + n /\ i <= m /\ i <= m + 1
      BY <1>1
    <2> QED BY <1>1, <1>2, <1>3, <2>1
  <1>7. ASSUME NEW i \in m + 1 .. Len(x) PROVE y[i + 1] = x[i]
    <2>1. i \in 1 .. m + n /\ ~(i <= m) /\ i + 1 \in 1 .. (m + 1) + n /\ ~(i + 1 <= m + 1)
      BY <1>1
    <2>2. (i + 1) - (m + 1) = i - m
      BY <1>1, <2>1
    <2>3. x[i] = b[i - m] /\ y[i + 1] = b[(i + 1) - (m + 1)]
      BY <1>1, <1>3, <2>1
    <2> QED BY <2>2, <2>3
  <1>8. y[m + 1] = e
    <2>1. m + 1 \in 1 .. (m + 1) + n /\ m + 1 <= m + 1
      BY <1>1
    <2> QED BY <1>2, <1>3, <2>1
  <1>9. OneMore(x, y, m)
    BY <1>1, <1>3, <1>5, <1>6, <1>7 DEF OneMore
  <1> QED BY <1>4, <1>8, <1>9 DEF x, y, z, m

\* Where the elements of the shorter sequence are in the longer one, and back.
LEMMA Renumbered ==
    ASSUME NEW x, NEW y, NEW k, OneMore(x, y, k)
    PROVE  /\ \A i \in DOMAIN x : \E j \in DOMAIN y :
                 j # k + 1 /\ y[j] = x[i] /\ j = IF i <= k THEN i ELSE i + 1
           /\ \A j \in DOMAIN y : j # k + 1 => \E i \in DOMAIN x :
                 y[j] = x[i] /\ j = IF i <= k THEN i ELSE i + 1
           /\ DOMAIN x = 1 .. Len(x) /\ DOMAIN y = 1 .. Len(x) + 1 /\ k \in Nat /\ k + 1 \in DOMAIN y
           /\ \A i \in DOMAIN x : x[i] \in Int
           /\ \A j \in DOMAIN y : y[j] \in Int
  <1>1. /\ DOMAIN x = 1 .. Len(x) /\ DOMAIN y = 1 .. Len(x) + 1 /\ k \in Nat /\ Len(x) \in Nat /\ k <= Len(x)
        /\ k + 1 \in DOMAIN y /\ (\A i \in DOMAIN x : x[i] \in Int) /\ (\A j \in DOMAIN y : y[j] \in Int)
    BY DEF OneMore
  <1>2. ASSUME NEW i \in DOMAIN x
        PROVE  \E j \in DOMAIN y : j # k + 1 /\ y[j] = x[i] /\ j = IF i <= k THEN i ELSE i + 1
    <2>1. CASE i <= k
      BY <1>1, <2>1 DEF OneMore
    <2>2. CASE ~(i <= k)
      <3>1. i \in k + 1 .. Len(x) /\ i + 1 \in DOMAIN y /\ i + 1 # k + 1
        BY <1>1, <2>2
      <3>2. y[i + 1] = x[i]
        BY <3>1 DEF OneMore
      <3> QED BY <2>2, <3>1, <3>2
    <2> QED BY <2>1, <2>2
  <1>3. ASSUME NEW j \in DOMAIN y, j # k + 1
        PROVE  \E i \in DOMAIN x : y[j] = x[i] /\ j = IF i <= k THEN i ELSE i + 1
    <2>1. CASE j <= k
      BY <1>1, <2>1 DEF OneMore
    <2>2. CASE ~(j <= k)
      <3>1. j - 1 \in k + 1 .. Len(x) /\ j - 1 \in DOMAIN x /\ j = (j - 1) + 1 /\ ~(j - 1 <= k)
        BY <1>1, <1>3, <2>2
      <3>2. y[(j - 1) + 1] = x[j - 1]
        BY <3>1 DEF OneMore
      <3> QED BY <3>1, <3>2
    <2> QED BY <2>1, <2>2
  <1> QED BY <1>1, <1>2, <1>3

\* An element that is no line to keep and does not end the capture.
LEMMA InsertKeeps ==
    ASSUME NEW x, NEW y, NEW k, OneMore(x, y, k), NEW from \in Nat, NEW to \in Nat, AllKept(x, from, to),
           y[k + 1] \notin 1 .. to, y[k + 1] # Closing, y[k + 1] \in Int, from <= to
    PROVE  AllKept(y, from, to)
  <1> DEFINE up(i) == IF i <= k THEN i ELSE i + 1
  <1>0. /\ \A i \in DOMAIN x : \E j \in DOMAIN y : j # k + 1 /\ y[j] = x[i] /\ j = up(i)
        /\ \A j \in DOMAIN y : j # k + 1 => \E i \in DOMAIN x : y[j] = x[i] /\ j = up(i)
        /\ k \in Nat /\ DOMAIN x = 1 .. Len(x)
    BY Renumbered
  <1>5. \A i \in DOMAIN x : i \in Nat
    BY <1>0
  <1>1. \A i, j \in DOMAIN x : i < j => up(i) < up(j)
    BY <1>0, <1>5
  <1>2. \A i, j \in DOMAIN x : up(i) < up(j) => i < j
    BY <1>0, <1>5
  <1> HIDE DEF up
  <1>3. ASSUME NEW n \in 1 .. to PROVE IsOnce(y, n)
    <2>1. PICK i \in DOMAIN x : x[i] = n /\ \A j \in DOMAIN x : x[j] = n => j = i
      BY <1>3 DEF AllKept, IsOnce
    <2>2. up(i) \in DOMAIN y /\ y[up(i)] = n
      BY <1>0, <2>1
    <2>3. ASSUME NEW j \in DOMAIN y, y[j] = n PROVE j = up(i)
      <3>1. j # k + 1
        BY <2>3
      <3>2. PICK m \in DOMAIN x : y[j] = x[m] /\ j = up(m)
        BY <1>0, <3>1
      <3> QED BY <2>1, <2>3, <3>2
    <2> QED BY <2>2, <2>3 DEF IsOnce
  <1>4. InOrder(y, from, to)
    <2> SUFFICES ASSUME NEW i \in DOMAIN y, NEW j \in DOMAIN y, from < y[i], y[i] < y[j], y[j] <= to
                 PROVE  i < j
      BY DEF InOrder
    <2>0. \A d \in DOMAIN y : y[d] \in Int
      BY Renumbered
    <2>1. i # k + 1 /\ j # k + 1
      <3>1. y[i] \in 1 .. to /\ y[j] \in 1 .. to
        BY <2>0
      <3> QED BY <3>1
    <2>2. PICK m \in DOMAIN x : y[i] = x[m] /\ i = up(m)
      BY <1>0, <2>1
    <2>3. PICK n \in DOMAIN x : y[j] = x[n] /\ j = up(n)
      BY <1>0, <2>1
    <2>4. m < n
      BY <2>2, <2>3 DEF AllKept, InOrder
    <2> QED BY <1>1, <2>2, <2>3, <2>4
  <1>6. EndsWithClosing(y, to)
    <2> SUFFICES ASSUME NEW i \in DOMAIN y, NEW j \in DOMAIN y, y[i] = Closing, i < j, y[j] \in 1 .. to
                 PROVE  FALSE
      BY DEF EndsWithClosing
    <2>1. i # k + 1 /\ j # k + 1
      OBVIOUS
    <2>2. PICK m \in DOMAIN x : y[i] = x[m] /\ i = up(m)
      BY <1>0, <2>1
    <2>3. PICK n \in DOMAIN x : y[j] = x[n] /\ j = up(n)
      BY <1>0, <2>1
    <2>4. m < n
      BY <1>2, <2>2, <2>3
    <2> QED BY <2>2, <2>3, <2>4 DEF AllKept, EndsWithClosing
  <1> QED BY <1>3, <1>4, <1>6 DEF AllKept

\* An element that is taken out.
LEMMA RemoveKeeps ==
    ASSUME NEW x, NEW y, NEW k, OneMore(x, y, k), NEW n \in Int, IsOnce(y, n)
    PROVE  IF y[k + 1] = n THEN NoneOf(x, n) ELSE IsOnce(x, n)
  <1> DEFINE up(i) == IF i <= k THEN i ELSE i + 1
  <1>0. /\ \A i \in DOMAIN x : \E j \in DOMAIN y : j # k + 1 /\ y[j] = x[i] /\ j = up(i)
        /\ \A j \in DOMAIN y : j # k + 1 => \E i \in DOMAIN x : y[j] = x[i] /\ j = up(i)
        /\ \A i \in DOMAIN x : i \in Nat
        /\ k \in Nat /\ k + 1 \in DOMAIN y
    BY Renumbered
  <1>1. \A i, j \in DOMAIN x : up(i) = up(j) => i = j
    BY <1>0
  <1> HIDE DEF up
  <1>2. PICK j \in DOMAIN y : y[j] = n /\ \A m \in DOMAIN y : y[m] = n => m = j
    BY DEF IsOnce
  <1>3. CASE y[k + 1] = n
    BY <1>0, <1>2, <1>3 DEF NoneOf
  <1>4. CASE y[k + 1] # n
    <2>1. PICK i \in DOMAIN x : y[j] = x[i] /\ j = up(i)
      BY <1>0, <1>2, <1>4
    <2>2. ASSUME NEW m \in DOMAIN x, x[m] = n PROVE m = i
      BY <1>0, <1>1, <1>2, <2>1, <2>2
    <2> QED BY <1>2, <1>4, <2>1, <2>2 DEF IsOnce
  <1> QED BY <1>3, <1>4
\* An element put behind all others.
LEMMA PutLast ==
    ASSUME NEW x \in Seq(Int), NEW e \in Int
    PROVE  /\ Append(x, e) \in Seq(Int) /\ DOMAIN x = 1 .. Len(x) /\ Len(x) \in Nat
           /\ DOMAIN Append(x, e) = 1 .. Len(x) + 1
           /\ \A i \in DOMAIN Append(x, e) : Append(x, e)[i] = IF i = Len(x) + 1 THEN e ELSE x[i]
           /\ \A i \in DOMAIN x : x[i] \in Int
  <1>1. Append(x, e) \in Seq(Int) /\ Len(Append(x, e)) = Len(x) + 1 /\ Len(x) \in Nat
        /\ (\A i \in 1 .. Len(x) : Append(x, e)[i] = x[i]) /\ Append(x, e)[Len(x) + 1] = e
    BY AppendProperties
  <1>2. DOMAIN x = 1 .. Len(x) /\ DOMAIN Append(x, e) = 1 .. Len(Append(x, e))
    BY <1>1
  <1>3. \A i \in 1 .. Len(x) + 1 : i # Len(x) + 1 => i \in 1 .. Len(x)
    BY <1>1
  <1> QED BY <1>1, <1>2, <1>3

\* An element that is no line to keep.
LEMMA AppendForeign ==
    ASSUME NEW x \in Seq(Int), NEW e \in Int, NEW from \in Nat, NEW to \in Nat, AllKept(x, from, to),
           e \notin 1 .. to, from <= to
    PROVE  AllKept(Append(x, e), from, to)
  <1> DEFINE y == Append(x, e)
             l == Len(x)
  <1>0. /\ DOMAIN x = 1 .. l /\ l \in Nat /\ DOMAIN y = 1 .. l + 1
        /\ \A i \in DOMAIN y : y[i] = IF i = l + 1 THEN e ELSE x[i]
        /\ \A i \in DOMAIN x : x[i] \in Int
    BY PutLast
  <1> HIDE DEF y, l
  <1>1. ASSUME NEW n \in 1 .. to PROVE IsOnce(y, n)
    <2>1. PICK i \in DOMAIN x : x[i] = n /\ \A j \in DOMAIN x : x[j] = n => j = i
      BY <1>1 DEF AllKept, IsOnce
    <2>2. i \in DOMAIN y /\ y[i] = n
      BY <1>0, <2>1
    <2>3. ASSUME NEW j \in DOMAIN y, y[j] = n PROVE j = i
      BY <1>0, <2>1, <2>3
    <2> QED BY <2>2, <2>3 DEF IsOnce
  <1>2. InOrder(y, from, to)
    <2> SUFFICES ASSUME NEW i \in DOMAIN y, NEW j \in DOMAIN y, from < y[i], y[i] < y[j], y[j] <= to
                 PROVE  i < j
      BY DEF InOrder
    <2>1. i \in DOMAIN x /\ j \in DOMAIN x /\ y[i] = x[i] /\ y[j] = x[j]
      <3>1. y[i] \in Int /\ y[j] \in Int
        BY <1>0
      <3>2. y[i] # e /\ y[j] # e
        BY <3>1
      <3> QED BY <1>0, <3>2
    <2> QED BY <2>1 DEF AllKept, InOrder
  <1>3. EndsWithClosing(y, to)
    <2> SUFFICES ASSUME NEW i \in DOMAIN y, NEW j \in DOMAIN y, y[i] = Closing, i < j, y[j] \in 1 .. to
                 PROVE  FALSE
      BY DEF EndsWithClosing
    <2>1. j \in DOMAIN x /\ y[j] = x[j] /\ i \in DOMAIN x /\ y[i] = x[i]
      BY <1>0
    <2> QED BY <2>1 DEF AllKept, EndsWithClosing
  <1> QED BY <1>1, <1>2, <1>3 DEF AllKept, y

\* The next line, while the capture is not being closed.
LEMMA AppendLine ==
    ASSUME NEW x \in Seq(Int), NEW p \in Nat, NEW from \in Nat, NEW next \in {from, p + 1},
           AllKept(x, from, p), AtMost(x, p), NoneOf(x, Closing), from <= p
    PROVE  AllKept(Append(x, p + 1), next, p + 1)
  <1> DEFINE y == Append(x, p + 1)
             l == Len(x)
  <1>0. /\ DOMAIN x = 1 .. l /\ l \in Nat /\ DOMAIN y = 1 .. l + 1
        /\ \A i \in DOMAIN y : y[i] = IF i = l + 1 THEN p + 1 ELSE x[i]
        /\ \A i \in DOMAIN x : x[i] \in Int
    BY PutLast
  <1> HIDE DEF y, l
  <1>1. ASSUME NEW n \in 1 .. p + 1 PROVE IsOnce(y, n)
    <2>1. CASE n = p + 1
      <3>1. l + 1 \in DOMAIN y /\ y[l + 1] = n
        BY <1>0, <2>1
      <3>2. ASSUME NEW j \in DOMAIN y, y[j] = n PROVE j = l + 1
        <4>1. SUFFICES ASSUME j # l + 1 PROVE FALSE
          OBVIOUS
        <4>2. j \in DOMAIN x /\ x[j] = p + 1
          BY <1>0, <2>1, <3>2, <4>1
        <4> QED BY <1>0, <4>2 DEF AtMost
      <3> QED BY <3>1, <3>2 DEF IsOnce
    <2>2. CASE n # p + 1
      <3>0. n \in 1 .. p
        BY <2>2
      <3>1. PICK i \in DOMAIN x : x[i] = n /\ \A j \in DOMAIN x : x[j] = n => j = i
        BY <3>0 DEF AllKept, IsOnce
      <3>2. i \in DOMAIN y /\ y[i] = n
        BY <1>0, <3>1
      <3>3. ASSUME NEW j \in DOMAIN y, y[j] = n PROVE j = i
        BY <1>0, <2>2, <3>1, <3>3
      <3> QED BY <3>2, <3>3 DEF IsOnce
    <2> QED BY <2>1, <2>2
  <1>2. InOrder(y, next, p + 1)
    <2> SUFFICES ASSUME NEW i \in DOMAIN y, NEW j \in DOMAIN y, next < y[i], y[i] < y[j], y[j] <= p + 1
                 PROVE  i < j
      BY DEF InOrder
    <2>0. y[i] \in Int /\ y[j] \in Int
      BY <1>0
    <2>1. i \in DOMAIN x /\ y[i] = x[i] /\ next = from
      <3>1. y[i] # p + 1 /\ next # p + 1
        BY <2>0
      <3> QED BY <1>0, <3>1
    <2>2. CASE j = l + 1
      BY <1>0, <2>1, <2>2
    <2>3. CASE j # l + 1
      <3>1. j \in DOMAIN x /\ y[j] = x[j]
        BY <1>0, <2>3
      <3>2. x[j] <= p
        BY <3>1 DEF AtMost
      <3> QED BY <2>1, <3>1, <3>2 DEF AllKept, InOrder
    <2> QED BY <2>2, <2>3
  <1>3. EndsWithClosing(y, p + 1)
    <2> SUFFICES ASSUME NEW i \in DOMAIN y, NEW j \in DOMAIN y, y[i] = Closing, i < j
                 PROVE  FALSE
      BY DEF EndsWithClosing
    <2>1. i \in DOMAIN x /\ y[i] = x[i]
      BY <1>0
    <2> QED BY <2>1 DEF NoneOf
  <1> QED BY <1>1, <1>2, <1>3 DEF AllKept, y

\* A line that is put back behind all others, in the loop of the constructor.
LEMMA MoveKeeps ==
    ASSUME NEW t \in Seq(Int), NEW e \in Int, NEW rest \in Seq(Int), NEW p \in Nat,
           AllKept(t \o (<<e>> \o rest), p, p), NoneOf(t \o (<<e>> \o rest), Closing)
    PROVE  AllKept(Append(t \o rest, e), p, p)
  <1> DEFINE x == t \o rest
             y == t \o (<<e>> \o rest)
             k == Len(t)
             z == Append(x, e)
             l == Len(x)
  <1>1. OneMore(x, y, k) /\ y[k + 1] = e /\ x \in Seq(Int)
    <2> DEFINE w == Append(t, e) \o rest
    <2>1. OneMore(x, w, k) /\ w[k + 1] = e /\ w = y
      BY PutBetween
    <2> HIDE DEF w, y
    <2>2. OneMore(x, y, k) /\ y[k + 1] = e
      BY <2>1
    <2> QED BY <2>2 DEF OneMore
  <1>2. /\ DOMAIN x = 1 .. l /\ l \in Nat /\ DOMAIN z = 1 .. l + 1
        /\ \A i \in DOMAIN z : z[i] = IF i = l + 1 THEN e ELSE x[i]
        /\ \A i \in DOMAIN x : x[i] \in Int
    BY <1>1, PutLast
  <1>8. AllKept(y, p, p) /\ NoneOf(y, Closing)
    OBVIOUS
  <1> HIDE DEF x, y, k, z, l
  <1>3. k + 1 \in DOMAIN y /\ \A i \in DOMAIN x : \E j \in DOMAIN y : y[j] = x[i]
    BY <1>1, Renumbered
  <1>4. ASSUME NEW n \in 1 .. p PROVE IsOnce(z, n)
    <2>1. IsOnce(y, n)
      BY <1>4, <1>8 DEF AllKept
    <2>2. IF e = n THEN NoneOf(x, n) ELSE IsOnce(x, n)
      BY <1>1, <2>1, RemoveKeeps
    <2>3. CASE e = n
      <3>1. NoneOf(x, n)
        BY <2>2, <2>3
      <3>2. l + 1 \in DOMAIN z /\ z[l + 1] = n
        <4>1. l + 1 \in 1 .. l + 1
          BY <1>2
        <4>2. l + 1 \in DOMAIN z
          BY <1>2, <4>1
        <4>3. z[l + 1] = e
          BY <1>2, <4>2
        <4> QED BY <2>3, <4>2, <4>3
      <3>3. ASSUME NEW j \in DOMAIN z, z[j] = n, j # l + 1 PROVE FALSE
        <4>1. j \in DOMAIN x
          <5>1. j \in 1 .. l + 1 /\ l \in Nat
            BY <1>2, <3>3
          <5>2. j \in 1 .. l
            BY <3>3, <5>1
          <5> QED BY <1>2, <5>2
        <4>2. z[j] = x[j]
          BY <1>2, <3>3
        <4> QED BY <3>1, <3>3, <4>1, <4>2 DEF NoneOf
      <3> QED BY <3>2, <3>3 DEF IsOnce
    <2>4. CASE e # n
      <3>1. PICK i \in DOMAIN x : x[i] = n /\ \A j \in DOMAIN x : x[j] = n => j = i
        BY <2>2, <2>4 DEF IsOnce
      <3>2. i \in DOMAIN z /\ z[i] = n
        BY <1>2, <3>1
      <3>3. ASSUME NEW j \in DOMAIN z, z[j] = n PROVE j = i
        <4>1. j # l + 1
          BY <1>2, <2>4, <3>3
        <4>2. j \in DOMAIN x
          BY <1>2, <3>3, <4>1
        <4>3. z[j] = x[j]
          BY <1>2, <3>3, <4>1
        <4> QED BY <3>1, <3>3, <4>2, <4>3
      <3> QED BY <3>2, <3>3 DEF IsOnce
    <2> QED BY <2>3, <2>4
  <1>5. NoneOf(z, Closing)
    <2>1. e # Closing /\ \A i \in DOMAIN x : x[i] # Closing
      BY <1>1, <1>3, <1>8 DEF NoneOf
    <2> QED BY <1>2, <2>1 DEF NoneOf
  <1>6. InOrder(z, p, p)
    <2>1. \A i \in DOMAIN z : z[i] \in Int
      BY <1>2
    <2> QED BY <2>1 DEF InOrder
  <1>7. EndsWithClosing(z, p)
    BY <1>5 DEF EndsWithClosing, NoneOf
  <1>9. AllKept(z, p, p)
    BY <1>4, <1>6, <1>7 DEF AllKept
  <1> QED BY <1>9 DEF z, x

\* The same for what an element may be.
LEMMA ElementsKeep ==
    ASSUME NEW x, NEW y, NEW k, OneMore(x, y, k)
    PROVE  /\ \A p \in Int : AtMost(x, p) /\ y[k + 1] <= p <=> AtMost(y, p)
           /\ \A e \in Int : NoneOf(x, e) /\ y[k + 1] # e <=> NoneOf(y, e)
  <1>1. /\ \A i \in DOMAIN x : \E j \in DOMAIN y : j # k + 1 /\ y[j] = x[i]
        /\ \A j \in DOMAIN y : j # k + 1 => \E i \in DOMAIN x : y[j] = x[i]
        /\ k + 1 \in DOMAIN y
    BY Renumbered
  <1> QED BY <1>1 DEF AtMost, NoneOf

\* An element at the end that is within the bound, or another than the one looked for.
LEMMA ElementsAppended ==
    ASSUME NEW x \in Seq(Int), NEW e \in Int
    PROVE  /\ \A p \in Int : AtMost(x, p) /\ e <= p => AtMost(Append(x, e), p)
           /\ \A d \in Int : NoneOf(x, d) /\ e # d => NoneOf(Append(x, e), d)
  BY PutLast DEF AtMost, NoneOf
-----------------------------------------------------------------------------
(* Types. *)

\* A write to a descriptor, or to the logger's stream, keeps what is written.
LEMMA WriteTypes ==
    ASSUME NEW s \in Streams, NEW e \in Int, LogTypeOK, LogTo(s, e) \/ WriteFd(s, e) \/ UNCHANGED <<lgTerm, lgPipe>>
    PROVE  /\ lgTerm' \in [Streams -> Seq(Int)] /\ lgPipe' \in [Streams -> Seq(Int)]
           /\ \A d \in Streams \ {s} : lgTerm'[d] = lgTerm[d] /\ lgPipe'[d] = lgPipe[d]
  <1>1. /\ lgTerm \in [Streams -> Seq(Int)] /\ lgPipe \in [Streams -> Seq(Int)]
        /\ Append(lgTerm[s], e) \in Seq(Int) /\ Append(lgPipe[s], e) \in Seq(Int)
    BY DEF LogTypeOK
  <1>2. /\ lgTerm' = lgTerm \/ lgTerm' = [lgTerm EXCEPT ![s] = Append(@, e)]
        /\ lgPipe' = lgPipe \/ lgPipe' = [lgPipe EXCEPT ![s] = Append(@, e)]
    BY DEF LogTo, WriteFd
  <1> QED BY <1>1, <1>2

\* A thread goes to another place of its loop.
LEMMA ThreadMoves ==
    ASSUME NEW f \in [Streams -> CaptureThread], NEW s \in Streams, NEW pc \in ThreadStates
    PROVE  /\ [f EXCEPT ![s].pc = pc] \in [Streams -> CaptureThread]
           /\ [f EXCEPT ![s].pc = pc][s] = [pc |-> pc, line |-> f[s].line]
           /\ \A d \in Streams : d # s => [f EXCEPT ![s].pc = pc][d] = f[d]
  <1> DEFINE r == [f[s] EXCEPT !.pc = pc]
  <1>1. f[s] \in CaptureThread
    OBVIOUS
  <1>2. r \in CaptureThread /\ r = [pc |-> pc, line |-> f[s].line]
    <2> DEFINE t == f[s]
    <2>1. t \in [pc : ThreadStates, line : Int]
      BY <1>1 DEF CaptureThread
    <2> HIDE DEF t
    <2>2. [t EXCEPT !.pc = pc] \in [pc : ThreadStates, line : Int] /\ [t EXCEPT !.pc = pc] = [pc |-> pc, line |-> t.line]
      BY <2>1
    <2> QED BY <2>2 DEF CaptureThread, t
  <1>3. [f EXCEPT ![s].pc = pc] = [f EXCEPT ![s] = r]
    OBVIOUS
  <1> HIDE DEF r
  <1> QED BY <1>2, <1>3

\* A thread that slept is awake, any other stays where it is.
LEMMA ThreadWakes ==
    ASSUME NEW th \in CaptureThread
    PROVE  /\ Woken(th) \in CaptureThread /\ Woken(th).line = th.line
           /\ Woken(th).pc = IF th.pc = "sleep" THEN "awake" ELSE th.pc
  <1>1. th \in [pc : ThreadStates, line : Int]
    BY DEF CaptureThread
  <1> DEFINE pc == IF th.pc = "sleep" THEN "awake" ELSE th.pc
  <1>2. pc \in ThreadStates
    BY <1>1 DEF ThreadStates
  <1>3. Woken(th) = [th EXCEPT !.pc = pc]
    BY DEF Woken
  <1> HIDE DEF pc
  <1>4. [th EXCEPT !.pc = pc] \in [pc : ThreadStates, line : Int] /\ [th EXCEPT !.pc = pc] = [pc |-> pc, line |-> th.line]
    BY <1>1, <1>2
  <1> QED BY <1>3, <1>4 DEF CaptureThread, pc

\* Each stream has a level of its own.
LEMMA StreamLevels ==
    /\ \A s \in Streams : StreamOf(LevelOf(s)) = s
    /\ \A level : StreamOf(level) \in Streams
  BY DEF Streams, StreamOf, LevelOf, LOG_ERROR, LOG_INFO

\* Types are kept by what the program prints and logs,
LEMMA ProgramTypes ==
    ASSUME LogTypeOK, (\E s \in Streams : PrintLine(s)) \/ (\E level \in DirectLevels : LogEvent(level))
    PROVE  LogTypeOK'
  <1>1. ASSUME NEW s \in Streams, PrintLine(s) PROVE LogTypeOK'
    <2>1. lgPrinted[s] + 1 \in Int /\ lgPrinted' \in [Streams -> Nat]
      BY <1>1 DEF LogTypeOK, PrintLine
    <2>2. lgTerm' \in [Streams -> Seq(Int)] /\ lgPipe' \in [Streams -> Seq(Int)]
      BY <1>1, <2>1, WriteTypes DEF PrintLine
    <2> QED BY <1>1, <2>1, <2>2 DEF LogTypeOK, PrintLine
  <1>2. ASSUME NEW level \in DirectLevels, LogEvent(level) PROVE LogTypeOK'
    <2>1. StreamOf(level) \in Streams /\ Blank \in Int
      BY StreamLevels DEF Blank
    <2>2. LogTo(StreamOf(level), Blank) \/ UNCHANGED <<lgTerm, lgPipe>>
      BY <1>2 DEF LogEvent
    <2>3. lgTerm' \in [Streams -> Seq(Int)] /\ lgPipe' \in [Streams -> Seq(Int)]
      BY <2>1, <2>2, WriteTypes
    <2> QED BY <1>2, <2>3 DEF LogTypeOK, LogEvent
  <1> QED BY <1>1, <1>2

\* by the two threads of a stream's capture,
LEMMA ThreadTypes ==
    ASSUME LogTypeOK, NEW s \in Streams, CaptureThreads(s)
    PROVE  LogTypeOK'
  <1> USE DEF LogTypeOK
  <1>1. CASE ReadPipe(s)
    <2>1. Head(lgPipe[s]) \in Int /\ Tail(lgPipe[s]) \in Seq(Int)
      BY <1>1 DEF ReadPipe
    <2> QED BY <1>1, <2>1 DEF ReadPipe, ThreadStates, CaptureThread
  <1>2. CASE WaitNotFull(s)
    <2>1. "sleep" \in ThreadStates
      BY DEF ThreadStates
    <2>2. lgReader' \in [Streams -> CaptureThread]
      BY <1>2, <2>1, ThreadMoves DEF WaitNotFull
    <2> QED BY <1>2, <2>2 DEF WaitNotFull
  <1>3. CASE PushLine(s)
    <2>1. Append(lgQueue[s], lgReader[s].line) \in Seq(Int)
      <3>1. lgReader[s].line \in Int /\ lgQueue[s] \in Seq(Int)
        BY DEF CaptureThread
      <3> QED BY <3>1
    <2>2. lgQueue' \in [Streams -> Seq(Int)]
      BY <1>3, <2>1 DEF PushLine
    <2>3. lgReader' \in [Streams -> CaptureThread]
      <3>1. "ended" \in ThreadStates /\ "read" \in ThreadStates
        BY DEF ThreadStates
      <3>2. (IF lgReader[s].line = Closing THEN "ended" ELSE "read") \in ThreadStates
        BY <3>1
      <3> QED BY <1>3, <3>2, ThreadMoves DEF PushLine
    <2>4. lgWriter' \in [Streams -> CaptureThread]
      BY <1>3, ThreadWakes DEF PushLine
    <2> QED BY <1>3, <2>2, <2>3, <2>4 DEF PushLine
  <1>4. CASE WaitNotEmpty(s)
    <2>1. "sleep" \in ThreadStates
      BY DEF ThreadStates
    <2>2. lgWriter' \in [Streams -> CaptureThread]
      BY <1>4, <2>1, ThreadMoves DEF WaitNotEmpty
    <2> QED BY <1>4, <2>2 DEF WaitNotEmpty
  <1>5. CASE TakeLine(s)
    <2>1. Head(lgQueue[s]) \in Int /\ Tail(lgQueue[s]) \in Seq(Int)
      BY <1>5 DEF TakeLine
    <2>2. lgReader' \in [Streams -> CaptureThread]
      BY <1>5, ThreadWakes DEF TakeLine
    <2>3. lgWriter' \in [Streams -> CaptureThread]
      BY <1>5, <2>1 DEF TakeLine, ThreadStates, CaptureThread
    <2> QED BY <1>5, <2>1, <2>2, <2>3 DEF TakeLine
  <1>6. CASE LogLine(s)
    <2>1. LogTo(s, lgWriter[s].line) \/ UNCHANGED <<lgTerm, lgPipe>>
      BY <1>6, StreamLevels DEF LogLine
    <2>0. lgWriter[s].line \in Int
      BY DEF CaptureThread
    <2>2. lgTerm' \in [Streams -> Seq(Int)] /\ lgPipe' \in [Streams -> Seq(Int)]
      BY <2>0, <2>1, WriteTypes
    <2>3. lgWriter' \in [Streams -> CaptureThread]
      <3>1. "awake" \in ThreadStates
        BY DEF ThreadStates
      <3> QED BY <1>6, <3>1, ThreadMoves DEF LogLine
    <2> QED BY <1>6, <2>2, <2>3 DEF LogLine
  <1>7. CASE EndLog(s)
    <2>1. Append(lgQueue[s], Closing) \in Seq(Int)
      BY DEF Closing
    <2>2. lgReader' \in [Streams -> CaptureThread]
      BY <1>7, ThreadWakes DEF EndLog
    <2>3. lgWriter' \in [Streams -> CaptureThread]
      <3>1. "ended" \in ThreadStates
        BY DEF ThreadStates
      <3> QED BY <1>7, <3>1, ThreadMoves DEF EndLog
    <2> QED BY <1>7, <2>1, <2>2, <2>3 DEF EndLog
  <1> QED BY <1>1, <1>2, <1>3, <1>4, <1>5, <1>6, <1>7 DEF CaptureThreads

\* by the AutoLogger that starts and ends it,
LEMMA LoggerTypes ==
    ASSUME LogTypeOK, NEW s \in Streams, AutoLogger(s)
    PROVE  LogTypeOK'
  <1> USE DEF LogTypeOK
  <1>1. CASE Capture(s)
    <2>1. lgReader' \in [Streams -> CaptureThread] /\ lgWriter' \in [Streams -> CaptureThread]
      <3>1. "read" \in ThreadStates /\ "awake" \in ThreadStates
        BY DEF ThreadStates
      <3> QED BY <1>1, <3>1, ThreadMoves DEF Capture
    <2> QED BY <1>1, <2>1 DEF Capture, At
  <1>2. CASE SetStream(s)
    <2>1. lgSpan' \in [Streams -> [from : Nat, to : Nat]]
      BY <1>2 DEF SetStream
    <2> QED BY <1>2, <2>1 DEF SetStream, At, Then, Streams
  <1>3. CASE CloseCapture(s)
    <2>1. lgSpan' \in [Streams -> [from : Nat, to : Nat]]
      BY <1>3 DEF CloseCapture
    <2>2. lgPipe[s] \o <<Blank, Closing>> \in Seq(Int)
      BY DEF Blank, Closing
    <2> QED BY <1>3, <2>1, <2>2 DEF CloseCapture, At
  <1>4. CASE Restore(s)
    BY <1>4 DEF Restore, At
  <1>5. CASE ResetStream(s)
    BY <1>5 DEF ResetStream, At, Then, Streams
  <1> QED BY <1>1, <1>2, <1>3, <1>4, <1>5 DEF AutoLogger

\* and so by every step.
LEMMA LogTypes == LogTypeOK /\ [LogNext]_logVars => LogTypeOK'
  <1> SUFFICES ASSUME LogTypeOK, [LogNext]_logVars PROVE LogTypeOK'
    OBVIOUS
  <1>1. CASE UNCHANGED logVars
    BY <1>1 DEF LogTypeOK, logVars
  <1> QED BY <1>1, ProgramTypes, ThreadTypes, LoggerTypes DEF LogNext
-----------------------------------------------------------------------------
(* Lines on their way. *)

SameStream(s) ==
    /\ lgFd'[s] = lgFd[s] /\ lgStream'[s] = lgStream[s] /\ lgPipe'[s] = lgPipe[s] /\ lgQueue'[s] = lgQueue[s]
    /\ lgReader'[s] = lgReader[s] /\ lgWriter'[s] = lgWriter[s] /\ lgPrinted'[s] = lgPrinted[s]
    /\ lgSpan'[s] = lgSpan[s] /\ lgTerm'[s] = lgTerm[s] /\ PhaseOf(s)' = PhaseOf(s)

\* A step that changes nothing of a stream.
LEMMA SameStreamKeeps == ASSUME NEW s \in Streams, SameStream(s), StreamKept(s) PROVE StreamKept(s)'
  <1>1. /\ Whole(s)' = Whole(s) /\ Logged(s)' = Logged(s)
    BY DEF SameStream, Whole, Logged, Behind, Pushed, Held
  <1>2. From(s)' = From(s) /\ Upto(s)' = Upto(s) /\ Closed(s)' = Closed(s)
    BY DEF SameStream, From, Upto, Closed
  <1>3. Redirected(s)'
    BY DEF SameStream, StreamKept, Redirected
  <1>4. LinesKept(s)'
    <2> HIDE DEF Whole, From, Upto, Closed
    <2>1. AllKept(Whole(s)', From(s)', Upto(s)') /\ AtMost(Whole(s)', lgPrinted'[s]) /\ (~Closed(s)' => NoneOf(Whole(s)', Closing))
      BY <1>1, <1>2 DEF SameStream, StreamKept, LinesKept
    <2> QED BY <2>1 DEF LinesKept, AllKept, AtMost, NoneOf, IsOnce, InOrder, EndsWithClosing
  <1>5. ClosingPushed(s)'
    <2> DEFINE x == Logged(s) \o lgQueue[s]
    <2>1. x' = x
      BY <1>1 DEF SameStream
    <2> QED BY <2>1 DEF SameStream, StreamKept, ClosingPushed, NoneOf
  <1> QED BY <1>2, <1>3, <1>4, <1>5 DEF SameStream, StreamKept

\* A step of one stream's threads, or of the AutoLogger with one stream, leaves the other alone.
LEMMA StreamsApart ==
    ASSUME LogTypeOK, NEW s \in Streams, NEW d \in Streams, d # s, PrintLine(s) \/ CaptureThreads(s) \/ AutoLogger(s)
    PROVE  SameStream(d)
  <1> USE DEF LogTypeOK
  <1>1. CASE PrintLine(s)
    <2>1. lgPrinted[s] + 1 \in Int
      <3>1. lgPrinted[s] \in Nat
        OBVIOUS
      <3> QED BY <3>1
    <2>2. lgTerm'[d] = lgTerm[d] /\ lgPipe'[d] = lgPipe[d]
      BY <1>1, <2>1, WriteTypes DEF PrintLine
    <2> QED BY <1>1, <2>2 DEF PrintLine, SameStream, PhaseOf
  <1>2. CASE LogLine(s)
    <2>1. LogTo(s, lgWriter[s].line) \/ UNCHANGED <<lgTerm, lgPipe>>
      BY <1>2, StreamLevels DEF LogLine
    <2>2. lgWriter[s].line \in Int
      BY DEF CaptureThread
    <2>3. lgTerm'[d] = lgTerm[d] /\ lgPipe'[d] = lgPipe[d]
      BY <2>1, <2>2, WriteTypes
    <2> QED BY <1>2, <2>3 DEF LogLine, SameStream, PhaseOf
  <1>3. CASE ReadPipe(s) \/ WaitNotFull(s) \/ PushLine(s) \/ WaitNotEmpty(s) \/ TakeLine(s) \/ EndLog(s)
    BY <1>3 DEF ReadPipe, WaitNotFull, PushLine, WaitNotEmpty, TakeLine, EndLog, SameStream, PhaseOf
  <1>4. CASE AutoLogger(s)
    <2>1. /\ lgFd'[d] = lgFd[d] /\ lgStream'[d] = lgStream[d] /\ lgPipe'[d] = lgPipe[d] /\ lgQueue'[d] = lgQueue[d]
          /\ lgReader'[d] = lgReader[d] /\ lgWriter'[d] = lgWriter[d] /\ lgPrinted'[d] = lgPrinted[d]
          /\ lgSpan'[d] = lgSpan[d] /\ lgTerm'[d] = lgTerm[d]
      BY <1>4 DEF AutoLogger, Capture, SetStream, CloseCapture, Restore, ResetStream
    <2>2. PhaseOf(d)' = PhaseOf(d)
      <3>1. CASE Capture(s) \/ SetStream(s)
        BY <3>1 DEF Capture, SetStream, At, Then, PhaseOf, Streams
      <3>2. CASE CloseCapture(s)
        BY <3>2 DEF CloseCapture, At, Then, PhaseOf, Streams
      <3>3. CASE Restore(s)
        BY <3>3 DEF Restore, At, Then, PhaseOf, Streams
      <3>4. CASE ResetStream(s)
        BY <3>4 DEF ResetStream, At, Then, PhaseOf, Streams
      <3> QED BY <1>4, <3>1, <3>2, <3>3, <3>4 DEF AutoLogger
    <2> QED BY <2>1, <2>2 DEF SameStream
  <1> QED BY <1>1, <1>2, <1>3, <1>4 DEF CaptureThreads

\* The lines of a stream are sequences.
LEMMA WholeIsSeq ==
    ASSUME LogTypeOK, NEW s \in Streams
    PROVE  /\ lgTerm[s] \in Seq(Int) /\ lgQueue[s] \in Seq(Int) /\ lgPipe[s] \in Seq(Int)
           /\ Logged(s) \in Seq(Int) /\ Pushed(s) \in Seq(Int) /\ Behind(s) \in Seq(Int) /\ Whole(s) \in Seq(Int)
           /\ lgReader[s].line \in Int /\ lgWriter[s].line \in Int
           /\ lgPrinted[s] \in Nat /\ From(s) \in Nat /\ Upto(s) \in Nat
  <1>1. lgReader[s].line \in Int /\ lgWriter[s].line \in Int
    BY DEF LogTypeOK, CaptureThread
  <1>2. Logged(s) \in Seq(Int) /\ Pushed(s) \in Seq(Int)
    BY <1>1 DEF Logged, Pushed, Held
  <1>3. lgTerm[s] \in Seq(Int) /\ lgQueue[s] \in Seq(Int) /\ lgPipe[s] \in Seq(Int)
    BY DEF LogTypeOK
  <1>4. Behind(s) \in Seq(Int) /\ Whole(s) \in Seq(Int)
    BY <1>2, <1>3, ConcatProperties DEF Behind, Whole
  <1>5. lgPrinted[s] \in Nat /\ lgSpan[s].from \in Nat /\ lgSpan[s].to \in Nat
    BY DEF LogTypeOK
  <1> QED BY <1>1, <1>2, <1>3, <1>4, <1>5 DEF From, Upto

\* A step that only moves lines on.
LEMMA FlowKeeps ==
    ASSUME NEW s \in Streams, StreamKept(s), PhaseOf(s)' = PhaseOf(s), lgPrinted'[s] = lgPrinted[s],
           lgSpan'[s] = lgSpan[s], Whole(s)' = Whole(s), Redirected(s)', ClosingPushed(s)'
    PROVE  StreamKept(s)'
  <1>2. From(s)' = From(s) /\ Upto(s)' = Upto(s) /\ Closed(s)' = Closed(s)
    BY DEF From, Upto, Closed
  <1>4. LinesKept(s)'
    <2>1. AllKept(Whole(s)', From(s)', Upto(s)') /\ AtMost(Whole(s)', lgPrinted'[s]) /\ (~Closed(s)' => NoneOf(Whole(s)', Closing))
      BY <1>2 DEF StreamKept, LinesKept
    <2> QED BY <2>1 DEF LinesKept, AllKept, AtMost, NoneOf, IsOnce, InOrder, EndsWithClosing
  <1> QED BY <1>2, <1>4 DEF StreamKept
-----------------------------------------------------------------------------
(* The threads of a capture. *)

\* A sequence is its first element and the rest.
LEMMA HeadAndTail ==
    ASSUME NEW p \in Seq(Int)
    PROVE  /\ << >> \o p = p /\ p \o << >> = p
           /\ p # << >> => /\ Head(p) \in Int /\ Tail(p) \in Seq(Int)
                           /\ <<Head(p)>> \o Tail(p) = p
  <1>1. << >> \o p = p /\ p \o << >> = p
    BY ConcatEmptySeq
  <1>2. ASSUME p # << >> PROVE Head(p) \in Int /\ Tail(p) \in Seq(Int) /\ <<Head(p)>> \o Tail(p) = p
    BY <1>2, HeadTailProperties
  <1> QED BY <1>1, <1>2

\* An element of two sequences put together.
LEMMA NoneOfBoth ==
    ASSUME NEW a \in Seq(Int), NEW b \in Seq(Int), NEW e
    PROVE  NoneOf(a \o b, e) <=> NoneOf(a, e) /\ NoneOf(b, e)
  <1> DEFINE x == a \o b
             m == Len(a)
             n == Len(b)
  <1>1. x \in Seq(Int) /\ Len(x) = m + n /\ m \in Nat /\ n \in Nat
        /\ \A i \in 1 .. m + n : x[i] = IF i <= m THEN a[i] ELSE b[i - m]
    BY ConcatProperties
  <1>2. DOMAIN x = 1 .. m + n /\ DOMAIN a = 1 .. m /\ DOMAIN b = 1 .. n
    BY <1>1
  <1> HIDE DEF x, m, n
  <1>3. ASSUME NoneOf(x, e) PROVE NoneOf(a, e)
    <2> SUFFICES ASSUME NEW i \in 1 .. m PROVE a[i] # e
      BY <1>2 DEF NoneOf
    <2>1. i \in 1 .. m + n /\ i <= m
      BY <1>1
    <2> QED BY <1>1, <1>2, <1>3, <2>1 DEF NoneOf
  <1>4. ASSUME NoneOf(x, e) PROVE NoneOf(b, e)
    <2> SUFFICES ASSUME NEW i \in 1 .. n PROVE b[i] # e
      BY <1>2 DEF NoneOf
    <2>1. i + m \in 1 .. m + n /\ ~(i + m <= m) /\ (i + m) - m = i
      BY <1>1
    <2>2. x[i + m] = b[i]
      BY <1>1, <2>1
    <2> QED BY <1>2, <1>4, <2>1, <2>2 DEF NoneOf
  <1>5. ASSUME NoneOf(a, e), NoneOf(b, e) PROVE NoneOf(x, e)
    <2> SUFFICES ASSUME NEW i \in 1 .. m + n PROVE x[i] # e
      BY <1>2 DEF NoneOf
    <2>1. CASE i <= m
      <3>1. i \in 1 .. m /\ x[i] = a[i]
        BY <1>1, <2>1
      <3> QED BY <1>2, <1>5, <3>1 DEF NoneOf
    <2>2. CASE ~(i <= m)
      <3>1. i - m \in 1 .. n
        BY <1>1, <2>2
      <3> QED BY <1>1, <1>2, <1>5, <2>2, <3>1 DEF NoneOf
    <2> QED BY <2>1, <2>2
  <1> QED BY <1>3, <1>4, <1>5 DEF x

\* The pipe thread takes a line from the pipe.
LEMMA ReadPipeKeeps ==
    ASSUME LogTypeOK, NEW s \in Streams, StreamKept(s), ReadPipe(s)
    PROVE  StreamKept(s)'
  <1> DEFINE p == lgPipe[s]
  <1>1. /\ lgReader[s].pc = "read" /\ p # << >>
        /\ lgReader'[s] = [pc |-> "awake", line |-> Head(p)] /\ lgPipe'[s] = Tail(p)
        /\ UNCHANGED <<lgMain, lgFd, lgStream, lgQueue, lgWriter, lgPrinted, lgSpan, lgTerm>>
    BY DEF ReadPipe, LogTypeOK
  <1>2. PhaseOf(s)' = PhaseOf(s)
    BY <1>1 DEF PhaseOf
  <1>3. Pushed(s) = << >> /\ Pushed(s)' = <<Head(p)>> /\ Logged(s)' = Logged(s)
    BY <1>1 DEF Pushed, Logged, Held
  <1>4. <<Head(p)>> \o Tail(p) = p /\ << >> \o p = p
    BY <1>1, HeadAndTail, WholeIsSeq
  <1>5. Whole(s)' = Whole(s)
    BY <1>1, <1>3, <1>4 DEF Whole, Behind
  <1>6. Redirected(s)'
    BY <1>1, <1>2 DEF StreamKept, Redirected
  <1>7. ClosingPushed(s)'
    <2> DEFINE x == Logged(s) \o lgQueue[s]
    <2>1. x' = x
      BY <1>1, <1>3
    <2>2. NoneOf(x', Closing)
      BY <1>1, <2>1 DEF StreamKept, ClosingPushed
    <2>3. lgWriter'[s].pc # "ended"
      BY <1>1 DEF StreamKept, ClosingPushed
    <2> HIDE DEF x
    <2>4. NoneOf(x, Closing)'
      BY <2>2 DEF NoneOf
    <2> QED BY <1>1, <2>3, <2>4 DEF ClosingPushed, x
  <1> QED BY <1>1, <1>2, <1>5, <1>6, <1>7, FlowKeeps

\* The threads go to sleep.
LEMMA WaitsKeep ==
    ASSUME LogTypeOK, NEW s \in Streams, StreamKept(s), WaitNotFull(s) \/ WaitNotEmpty(s)
    PROVE  StreamKept(s)'
  <1>0. "sleep" \in ThreadStates
    BY DEF ThreadStates
  <1>1. /\ UNCHANGED <<lgMain, lgFd, lgStream, lgPipe, lgQueue, lgPrinted, lgSpan, lgTerm>>
        /\ \/ /\ lgReader[s].pc = "awake" /\ lgReader'[s] = [pc |-> "sleep", line |-> lgReader[s].line]
              /\ lgWriter'[s] = lgWriter[s]
           \/ /\ lgWriter[s].pc = "awake" /\ lgWriter'[s] = [pc |-> "sleep", line |-> lgWriter[s].line]
              /\ lgReader'[s] = lgReader[s]
    <2>1. lgReader \in [Streams -> CaptureThread] /\ lgWriter \in [Streams -> CaptureThread]
      BY DEF LogTypeOK
    <2>2. CASE WaitNotFull(s)
      <3>1. lgReader' = [lgReader EXCEPT ![s].pc = "sleep"] /\ lgReader[s].pc = "awake"
        BY <2>2 DEF WaitNotFull
      <3>2. lgReader'[s] = [pc |-> "sleep", line |-> lgReader[s].line]
        BY <1>0, <2>1, <3>1, ThreadMoves
      <3> QED BY <2>2, <3>1, <3>2 DEF WaitNotFull
    <2>3. CASE WaitNotEmpty(s)
      <3>1. lgWriter' = [lgWriter EXCEPT ![s].pc = "sleep"] /\ lgWriter[s].pc = "awake"
        BY <2>3 DEF WaitNotEmpty
      <3>2. lgWriter'[s] = [pc |-> "sleep", line |-> lgWriter[s].line]
        BY <1>0, <2>1, <3>1, ThreadMoves
      <3> QED BY <2>3, <3>1, <3>2 DEF WaitNotEmpty
    <2> QED BY <2>2, <2>3
  <1>2. PhaseOf(s)' = PhaseOf(s)
    BY <1>1 DEF PhaseOf
  <1>3. Pushed(s)' = Pushed(s) /\ Logged(s)' = Logged(s)
    BY <1>1 DEF Pushed, Logged, Held
  <1>5. Whole(s)' = Whole(s)
    BY <1>1, <1>3 DEF Whole, Behind
  <1>6. Redirected(s)'
    BY <1>1, <1>2 DEF StreamKept, Redirected
  <1>7. ClosingPushed(s)'
    <2> DEFINE x == Logged(s) \o lgQueue[s]
    <2>1. x' = x
      BY <1>1, <1>3
    <2>2. (lgReader'[s].pc = "ended" <=> lgReader[s].pc = "ended") /\ (lgWriter'[s].pc = "ended" <=> lgWriter[s].pc = "ended")
      BY <1>1
    <2> QED BY <1>1, <2>1, <2>2 DEF StreamKept, ClosingPushed, NoneOf
  <1> QED BY <1>1, <1>2, <1>5, <1>6, <1>7, FlowKeeps

\* The pipe thread puts its line into the queue.
LEMMA PushLineKeeps ==
    ASSUME LogTypeOK, NEW s \in Streams, StreamKept(s), PushLine(s)
    PROVE  StreamKept(s)'
  <1> DEFINE q == lgQueue[s]
             e == lgReader[s].line
             x == Logged(s) \o q
             pc == IF e = Closing THEN "ended" ELSE "read"
  <1>0. lgReader \in [Streams -> CaptureThread] /\ lgWriter[s] \in CaptureThread /\ pc \in ThreadStates
    BY DEF LogTypeOK, ThreadStates
  <1>1. /\ lgReader[s].pc = "awake" /\ lgQueue'[s] = Append(q, e)
        /\ lgReader' = [lgReader EXCEPT ![s].pc = pc]
        /\ lgWriter'[s] \in {lgWriter[s], Woken(lgWriter[s])}
        /\ UNCHANGED <<lgMain, lgFd, lgStream, lgPipe, lgPrinted, lgSpan, lgTerm>>
    BY DEF PushLine, LogTypeOK
  <1>2. lgReader'[s] = [pc |-> pc, line |-> e]
    BY <1>0, <1>1, ThreadMoves
  <1>3. /\ lgWriter'[s].line = lgWriter[s].line
        /\ \/ lgWriter'[s].pc = lgWriter[s].pc
           \/ lgWriter[s].pc = "sleep" /\ lgWriter'[s].pc = "awake"
    BY <1>0, <1>1, ThreadWakes
  <1>4. PhaseOf(s)' = PhaseOf(s)
    BY <1>1 DEF PhaseOf
  <1>5. Pushed(s) = <<e>> /\ Pushed(s)' = << >> /\ Logged(s)' = Logged(s)
    BY <1>1, <1>2, <1>3 DEF Pushed, Logged, Held
  <1>6. /\ q \in Seq(Int) /\ e \in Int /\ lgPipe[s] \in Seq(Int) /\ Logged(s) \in Seq(Int) /\ x \in Seq(Int)
        /\ lgTerm[s] \in Seq(Int) /\ Behind(s) \in Seq(Int)
    BY WholeIsSeq, ConcatProperties
  <1>7. Append(q, e) \o lgPipe[s] = q \o (<<e>> \o lgPipe[s]) /\ << >> \o lgPipe[s] = lgPipe[s]
    <2> DEFINE p == lgPipe[s]
    <2>1. q \in Seq(Int) /\ e \in Int /\ p \in Seq(Int)
      BY <1>6
    <2> HIDE DEF q, e, p
    <2>2. Append(q, e) \o p = q \o (<<e>> \o p)
      BY <2>1, PutBetween
    <2>3. << >> \o p = p
      BY <2>1, HeadAndTail
    <2> QED BY <2>2, <2>3 DEF p
  <1>8. Behind(s)' = Behind(s)
    BY <1>1, <1>5, <1>7 DEF Behind
  <1>9. Whole(s)' = Whole(s)
    BY <1>1, <1>5, <1>8 DEF Whole
  <1>10. e = Closing => Closed(s)
    <2> SUFFICES ASSUME e = Closing, ~Closed(s) PROVE FALSE
      OBVIOUS
    <2>1. NoneOf(lgTerm[s] \o (Logged(s) \o Behind(s)), Closing)
      BY DEF StreamKept, LinesKept, Whole
    <2>2. Logged(s) \o Behind(s) \in Seq(Int) /\ <<e>> \in Seq(Int) /\ <<e>> \o lgPipe[s] \in Seq(Int)
      BY <1>6, ConcatProperties
    <2>3. NoneOf(q \o (<<e>> \o lgPipe[s]), Closing)
      <3>1. NoneOf(Logged(s) \o Behind(s), Closing)
        BY <1>6, <2>1, <2>2, NoneOfBoth
      <3>2. NoneOf(Behind(s), Closing)
        BY <1>6, <3>1, NoneOfBoth
      <3> QED BY <1>5, <3>2 DEF Behind
    <2>4. NoneOf(<<e>> \o lgPipe[s], Closing)
      <3> DEFINE y == <<e>> \o lgPipe[s]
      <3>1. y \in Seq(Int) /\ q \in Seq(Int) /\ NoneOf(q \o y, Closing)
        BY <1>6, <2>2, <2>3
      <3> HIDE DEF y, q
      <3>2. NoneOf(y, Closing)
        BY <3>1, NoneOfBoth
      <3> QED BY <3>2 DEF y
    <2>5. NoneOf(<<e>>, Closing)
      BY <1>6, <2>2, <2>4, NoneOfBoth
    <2> QED BY <2>5 DEF NoneOf
  <1>11. NoneOf(x, Closing) /\ lgWriter[s].pc # "ended"
    BY <1>1 DEF StreamKept, ClosingPushed
  <1>12. Logged(s) \o Append(q, e) = Append(x, e)
    <2> DEFINE l == Logged(s)
    <2>1. l \in Seq(Int) /\ q \in Seq(Int) /\ e \in Int
      BY <1>6
    <2> HIDE DEF l, q, e
    <2>2. l \o (q \o <<e>>) = (l \o q) \o <<e>>
      BY <2>1
    <2>3. Append(q, e) = q \o <<e>> /\ Append(l \o q, e) = (l \o q) \o <<e>>
      BY <2>1
    <2> QED BY <2>2, <2>3 DEF l
  <1>13. Redirected(s)'
    <2>1. pc = "ended" => PhaseOf(s) \notin {"looping", "captured"}
      BY <1>10 DEF Closed
    <2>2. pc \in {"ended", "read"}
      OBVIOUS
    <2> HIDE DEF pc
    <2> QED BY <1>1, <1>2, <1>3, <1>4, <2>1, <2>2 DEF StreamKept, Redirected
  <1>14. ClosingPushed(s)'
    <2>1. Logged(s)' \o lgQueue'[s] = Append(x, e)
      BY <1>1, <1>5, <1>12
    <2>2. lgReader'[s].pc = "ended" <=> e = Closing
      BY <1>2
    <2> HIDE DEF x, e
    <2>3. CASE e = Closing
      <3>1. DOMAIN x = 1 .. Len(x) /\ Len(Append(x, e)) = Len(x) + 1 /\ Len(x) \in Nat
            /\ (\A i \in 1 .. Len(x) : Append(x, e)[i] = x[i]) /\ Append(x, e)[Len(x) + 1] = e
        BY <1>6, AppendProperties
      <3>2. Len(Append(x, e)) > 0 /\ Append(x, e)[Len(Append(x, e))] = Closing /\ Len(Append(x, e)) - 1 = Len(x)
        BY <2>3, <3>1
      <3>3. \A i \in 1 .. Len(x) : Append(x, e)[i] # Closing
        BY <1>11, <3>1 DEF NoneOf
      <3> QED BY <1>3, <1>11, <2>1, <2>2, <2>3, <3>2, <3>3 DEF ClosingPushed
    <2>4. CASE e # Closing
      <3>1. NoneOf(Append(x, e), Closing)
        BY <1>6, <1>11, <2>4, ElementsAppended DEF Closing
      <3>2. NoneOf(Logged(s) \o lgQueue[s], Closing)'
        BY <2>1, <3>1 DEF NoneOf
      <3> QED BY <1>3, <1>11, <2>2, <2>4, <3>2 DEF ClosingPushed
    <2> QED BY <2>3, <2>4
  <1> QED BY <1>1, <1>4, <1>9, <1>13, <1>14, FlowKeeps

\* The log thread takes a line from the queue.
LEMMA TakeLineKeeps ==
    ASSUME LogTypeOK, NEW s \in Streams, StreamKept(s), TakeLine(s)
    PROVE  StreamKept(s)'
  <1> DEFINE q == lgQueue[s]
             rest == Pushed(s) \o lgPipe[s]
  <1>0. lgReader[s] \in CaptureThread
    BY DEF LogTypeOK
  <1>1. /\ lgWriter[s].pc = "awake" /\ q # << >> /\ lgQueue'[s] = Tail(q)
        /\ lgWriter'[s] = [pc |-> "log", line |-> Head(q)]
        /\ lgReader'[s] \in {lgReader[s], Woken(lgReader[s])}
        /\ UNCHANGED <<lgMain, lgFd, lgStream, lgPipe, lgPrinted, lgSpan, lgTerm>>
    BY DEF TakeLine, LogTypeOK
  <1>3. /\ lgReader'[s].line = lgReader[s].line
        /\ \/ lgReader'[s].pc = lgReader[s].pc
           \/ lgReader[s].pc = "sleep" /\ lgReader'[s].pc = "awake"
    BY <1>0, <1>1, ThreadWakes
  <1>4. PhaseOf(s)' = PhaseOf(s)
    BY <1>1 DEF PhaseOf
  <1>5. Logged(s) = << >> /\ Logged(s)' = <<Head(q)>> /\ Pushed(s)' = Pushed(s)
    BY <1>1, <1>3 DEF Pushed, Logged, Held
  <1>6. q \in Seq(Int) /\ rest \in Seq(Int) /\ Behind(s) \in Seq(Int)
    BY WholeIsSeq, ConcatProperties
  <1>7. <<Head(q)>> \o Tail(q) = q /\ << >> \o q = q /\ Head(q) \in Int /\ Tail(q) \in Seq(Int) /\ << >> \o Behind(s) = Behind(s)
    BY <1>1, <1>6, HeadAndTail
  <1>8. <<Head(q)>> \o (Tail(q) \o rest) = q \o rest
    <2> DEFINE h == <<Head(q)>>
               t == Tail(q)
    <2>1. h \in Seq(Int) /\ t \in Seq(Int)
      BY <1>7
    <2> HIDE DEF h, t, rest
    <2>2. h \o (t \o rest) = (h \o t) \o rest
      <3>1. Associate(h, t, rest)
        BY <1>6, <2>1, ConcatThree
      <3> QED BY <3>1 DEF Associate
    <2> QED BY <1>7, <2>2 DEF h, t
  <1>9. Whole(s)' = Whole(s)
    <2>1. Behind(s)' = Tail(q) \o rest /\ Behind(s) = q \o rest
      BY <1>1, <1>5 DEF Behind
    <2> QED BY <1>1, <1>5, <1>7, <1>8, <2>1 DEF Whole
  <1>13. Redirected(s)'
    BY <1>1, <1>3, <1>4 DEF StreamKept, Redirected
  <1>14. ClosingPushed(s)'
    <2> DEFINE x == Logged(s) \o lgQueue[s]
    <2>1. x' = x
      BY <1>1, <1>5, <1>7
    <2>2. lgReader'[s].pc = "ended" <=> lgReader[s].pc = "ended"
      BY <1>3
    <2>3. lgWriter'[s].pc # "ended"
      BY <1>1
    <2>4. /\ lgReader[s].pc # "ended" => NoneOf(x, Closing)
          /\ lgReader[s].pc = "ended" => Len(x) > 0 /\ x[Len(x)] = Closing /\ \A i \in 1 .. Len(x) - 1 : x[i] # Closing
      BY DEF StreamKept, ClosingPushed
    <2>5. /\ lgReader'[s].pc # "ended" => NoneOf(x', Closing)
          /\ lgReader'[s].pc = "ended" => Len(x') > 0 /\ x'[Len(x')] = Closing /\ \A i \in 1 .. Len(x') - 1 : x'[i] # Closing
      BY <2>1, <2>2, <2>4
    <2> QED BY <2>3, <2>5 DEF ClosingPushed, NoneOf
  <1> QED BY <1>1, <1>4, <1>9, <1>13, <1>14, FlowKeeps

\* The log thread writes its line: to the duplicate of the terminal, or, in the loop of the
\* constructor, back into the pipe.
LEMMA LogLineKeeps ==
    ASSUME LogTypeOK, NEW s \in Streams, Emitted(LevelOf(s)), StreamKept(s), LogLine(s)
    PROVE  StreamKept(s)'
  <1> DEFINE t == lgTerm[s]
             e == lgWriter[s].line
             q == lgQueue[s]
             r == Pushed(s)
             p == lgPipe[s]
             b == Behind(s)
  <1>0. lgWriter \in [Streams -> CaptureThread] /\ "awake" \in ThreadStates
    BY DEF LogTypeOK, ThreadStates
  <1>1. /\ lgWriter[s].pc = "log" /\ e # Closing
        /\ LogTo(s, e)
        /\ lgWriter' = [lgWriter EXCEPT ![s].pc = "awake"]
        /\ UNCHANGED <<lgMain, lgFd, lgStream, lgQueue, lgReader, lgPrinted, lgSpan>>
    BY StreamLevels DEF LogLine
  <1>2. lgWriter'[s] = [pc |-> "awake", line |-> e]
    BY <1>0, <1>1, ThreadMoves
  <1>3. PhaseOf(s)' = PhaseOf(s)
    BY <1>1 DEF PhaseOf
  <1>4. Logged(s) = <<e>> /\ Logged(s)' = << >> /\ Pushed(s)' = Pushed(s)
    BY <1>1, <1>2 DEF Pushed, Logged, Held
  <1>5. /\ t \in Seq(Int) /\ e \in Int /\ q \in Seq(Int) /\ r \in Seq(Int) /\ p \in Seq(Int) /\ b \in Seq(Int)
        /\ Whole(s) = t \o (<<e>> \o b) /\ b = q \o (r \o p)
    BY <1>4, WholeIsSeq DEF Whole, Behind
  <1>6. PhaseOf(s) \in {"looping", "captured", "closing"}
    <2>1. PhaseOf(s) \in {"before", "looping", "captured", "closing", "restored", "after"}
      BY DEF PhaseOf
    <2> QED BY <1>1, <2>1 DEF StreamKept, Redirected
  <1>7. Redirected(s)'
    BY <1>1, <1>2, <1>3, <1>6 DEF StreamKept, Redirected
  <1>8. ClosingPushed(s)'
    <2> DEFINE x == Logged(s) \o q
               x2 == Logged(s)' \o q
    <2>1. Logged(s)' \o lgQueue'[s] = q /\ lgReader' = lgReader /\ lgWriter'[s].pc # "ended"
      BY <1>1, <1>2, <1>4, <1>5, HeadAndTail
    <2>2. x = <<e>> \o q /\ Len(<<e>>) = 1 /\ <<e>> \in Seq(Int)
      BY <1>4, <1>5
    <2>3. Len(x) = 1 + Len(q) /\ Len(q) \in Nat /\ x[1] = e /\ \A i \in 1 .. Len(q) : x[i + 1] = q[i]
      <3> HIDE DEF q, e, x
      <3>1. q \in Seq(Int) /\ e \in Int
        BY <1>5
      <3> QED BY <2>2, <3>1
    <2>4. CASE lgReader[s].pc # "ended"
      <3>1. NoneOf(x, Closing)
        BY <2>4 DEF StreamKept, ClosingPushed
      <3>2. NoneOf(q, Closing)
        BY <1>5, <2>2, <3>1, NoneOfBoth
      <3>3. NoneOf(Logged(s) \o lgQueue[s], Closing)'
        BY <2>1, <3>2 DEF NoneOf
      <3> QED BY <2>1, <2>4, <3>3 DEF ClosingPushed
    <2>5. CASE lgReader[s].pc = "ended"
      <3>1. Len(x) > 0 /\ x[Len(x)] = Closing /\ \A i \in 1 .. Len(x) - 1 : x[i] # Closing
        BY <2>5 DEF StreamKept, ClosingPushed
      <3> HIDE DEF x, q, e
      <3>2. Len(x) # 1
        BY <1>1, <2>3, <3>1
      <3>3. Len(q) > 0 /\ Len(x) = Len(q) + 1 /\ Len(q) \in 1 .. Len(q)
        BY <2>3, <3>2
      <3>4. q[Len(q)] = Closing
        BY <2>3, <3>1, <3>3
      <3>5. ASSUME NEW i \in 1 .. Len(q) - 1 PROVE q[i] # Closing
        <4>1. i \in 1 .. Len(q) /\ i + 1 \in 1 .. Len(x) - 1
          BY <2>3, <3>3
        <4> QED BY <2>3, <3>1, <4>1
      <3> QED BY <2>1, <2>5, <3>3, <3>4, <3>5 DEF ClosingPushed
    <2> QED BY <2>4, <2>5
  <1>9. CASE lgStream[s] = "dup"
    <2>1. lgTerm'[s] = Append(t, e) /\ lgPipe'[s] = p
      BY <1>1, <1>9 DEF LogTo, LogTypeOK
    <2>2. Behind(s)' = b /\ << >> \o b = b
      BY <1>1, <1>4, <1>5, <2>1, HeadAndTail DEF Behind
    <2>3. Append(t, e) \o b = t \o (<<e>> \o b)
      <3>1. t \in Seq(Int) /\ e \in Int /\ b \in Seq(Int)
        BY <1>5
      <3> HIDE DEF t, e, b
      <3> QED BY <3>1, PutBetween
    <2>4. Whole(s)' = Whole(s)
      BY <1>4, <1>5, <2>1, <2>2, <2>3 DEF Whole
    <2> QED BY <1>1, <1>3, <1>7, <1>8, <2>4, FlowKeeps
  <1>10. CASE lgStream[s] # "dup"
    <2>1. PhaseOf(s) = "looping" /\ lgStream[s] = "std" /\ lgFd[s] = "pipe"
      BY <1>6, <1>10 DEF StreamKept, Redirected
    <2>2. lgTerm'[s] = t /\ lgPipe'[s] = Append(p, e)
      BY <1>1, <2>1 DEF LogTo, WriteFd, LogTypeOK
    <2>3. Whole(s)' = t \o (<< >> \o (q \o (r \o Append(p, e))))
      BY <1>1, <1>4, <2>2 DEF Whole, Behind
    <2>4. Whole(s)' = Append(t \o b, e)
      <3>1. t \in Seq(Int) /\ e \in Int /\ q \in Seq(Int) /\ r \in Seq(Int) /\ p \in Seq(Int) /\ b = q \o (r \o p)
        BY <1>5
      <3> HIDE DEF t, e, q, r, p, b
      <3>2. r \o Append(p, e) = (r \o p) \o <<e>>
        <4>1. Append(p, e) = p \o <<e>>
          BY <3>1, AppendIsConcat
        <4>2. r \o (p \o <<e>>) = (r \o p) \o <<e>>
          <5>1. <<e>> \in Seq(Int)
            BY <3>1
          <5>2. Associate(r, p, <<e>>)
            BY <3>1, <5>1, ConcatThree
          <5> QED BY <5>2 DEF Associate
        <4> QED BY <4>1, <4>2
      <3>3. r \o p \in Seq(Int)
        BY <3>1, ConcatProperties
      <3>4. q \o ((r \o p) \o <<e>>) = b \o <<e>>
        <4>1. <<e>> \in Seq(Int)
          BY <3>1
        <4>2. Associate(q, r \o p, <<e>>)
          BY <3>1, <3>3, <4>1, ConcatThree
        <4> QED BY <3>1, <4>2 DEF Associate
      <3>5. b \in Seq(Int) /\ b \o <<e>> \in Seq(Int)
        BY <3>1, <3>3
      <3>6. << >> \o (b \o <<e>>) = b \o <<e>>
        BY <3>5, HeadAndTail
      <3>7. t \o (b \o <<e>>) = Append(t \o b, e)
        <4>1. t \o (b \o <<e>>) = (t \o b) \o <<e>>
          <5>1. <<e>> \in Seq(Int)
            BY <3>1
          <5>2. Associate(t, b, <<e>>)
            BY <3>1, <3>5, <5>1, ConcatThree
          <5> QED BY <5>2 DEF Associate
        <4>2. Append(t \o b, e) = (t \o b) \o <<e>>
          <5>1. t \o b \in Seq(Int)
            BY <3>1, <3>5, ConcatProperties
          <5> QED BY <3>1, <5>1, AppendIsConcat, Zenon
        <4> QED BY <4>1, <4>2
      <3> QED BY <2>3, <3>2, <3>4, <3>6, <3>7
    <2>5. From(s) = lgPrinted[s] /\ Upto(s) = lgPrinted[s] /\ ~Closed(s) /\ lgPrinted[s] \in Nat
      BY <2>1, WholeIsSeq DEF From, Upto, Closed
    <2>6. From(s)' = lgPrinted[s] /\ Upto(s)' = lgPrinted[s] /\ lgPrinted' = lgPrinted
      BY <1>1, <1>3, <2>1 DEF From, Upto, Closed
    <2>7. /\ AllKept(t \o (<<e>> \o b), lgPrinted[s], lgPrinted[s]) /\ NoneOf(t \o (<<e>> \o b), Closing)
          /\ AtMost(t \o (<<e>> \o b), lgPrinted[s])
      BY <1>5, <2>5 DEF StreamKept, LinesKept
    <2> DEFINE y == t \o (<<e>> \o b)
               x == t \o b
               z == Append(x, e)
    <2>8. AllKept(z, lgPrinted[s], lgPrinted[s])
      <3> HIDE DEF t, e, b
      <3> QED BY <1>5, <2>5, <2>7, MoveKeeps
    <2>9. OneMore(x, y, Len(t)) /\ y[Len(t) + 1] = e /\ x \in Seq(Int)
      <3>1. t \in Seq(Int) /\ e \in Int /\ b \in Seq(Int)
        BY <1>5
      <3> HIDE DEF t, e, b
      <3>2. /\ OneMore(t \o b, Append(t, e) \o b, Len(t)) /\ (Append(t, e) \o b)[Len(t) + 1] = e
            /\ Append(t, e) \o b = t \o (<<e>> \o b)
        BY <3>1, PutBetween
      <3>3. t \o b \in Seq(Int)
        BY <3>1, ConcatProperties
      <3> QED BY <3>2, <3>3
    <2> HIDE DEF t, e, b, x, y, z
    <2>10. AtMost(y, lgPrinted[s]) /\ NoneOf(y, Closing) /\ Closing \in Int /\ lgPrinted[s] \in Int
      BY <2>5, <2>7 DEF y, Closing
    <2>11. AtMost(x, lgPrinted[s]) /\ e <= lgPrinted[s] /\ NoneOf(x, Closing) /\ e # Closing
      BY <2>9, <2>10, ElementsKeep
    <2>12. AtMost(z, lgPrinted[s]) /\ NoneOf(z, Closing)
      BY <1>5, <2>9, <2>10, <2>11, ElementsAppended DEF z
    <2>13. Whole(s)' = z
      BY <2>4 DEF z, x
    <2>14. LinesKept(s)'
      BY <2>6, <2>8, <2>12, <2>13 DEF LinesKept, AllKept, AtMost, NoneOf, IsOnce, InOrder, EndsWithClosing
    <2> QED BY <1>7, <1>8, <2>5, <2>6, <2>14 DEF StreamKept
  <1> QED BY <1>9, <1>10

\* The log thread ends on the line that was written last.
LEMMA EndLogKeeps ==
    ASSUME LogTypeOK, NEW s \in Streams, StreamKept(s), EndLog(s)
    PROVE  StreamKept(s)'
  <1> DEFINE q == lgQueue[s]
             x == Logged(s) \o q
  <1>0. lgWriter \in [Streams -> CaptureThread] /\ "ended" \in ThreadStates /\ lgReader[s] \in CaptureThread /\ Closing \in Int
    BY DEF LogTypeOK, ThreadStates, Closing
  <1>1. /\ lgWriter[s].pc = "log" /\ lgWriter[s].line = Closing
        /\ lgWriter' = [lgWriter EXCEPT ![s].pc = "ended"]
        /\ lgReader'[s] = Woken(lgReader[s]) /\ lgQueue'[s] = Append(q, Closing)
        /\ UNCHANGED <<lgMain, lgFd, lgStream, lgPipe, lgPrinted, lgSpan, lgTerm>>
    BY DEF EndLog, LogTypeOK
  <1>2. lgWriter'[s] = [pc |-> "ended", line |-> Closing]
    BY <1>0, <1>1, ThreadMoves
  <1>3. PhaseOf(s)' = PhaseOf(s)
    BY <1>1 DEF PhaseOf
  <1>4. Logged(s) = <<Closing>> /\ Logged(s)' = << >>
    BY <1>1, <1>2 DEF Logged, Held
  <1>5. q \in Seq(Int) /\ lgPipe[s] \in Seq(Int)
    BY WholeIsSeq
  <1>6. Len(x) = 1 + Len(q) /\ Len(q) \in Nat /\ x[1] = Closing /\ DOMAIN x = 1 .. Len(x)
    BY <1>0, <1>4, <1>5
  <1>7. lgReader[s].pc = "ended"
    <2> SUFFICES ASSUME lgReader[s].pc # "ended" PROVE FALSE
      OBVIOUS
    <2>1. NoneOf(x, Closing)
      BY DEF StreamKept, ClosingPushed
    <2> HIDE DEF x
    <2>2. 1 \in DOMAIN x
      BY <1>6
    <2> QED BY <1>6, <2>1, <2>2 DEF NoneOf
  <1>8. q = << >>
    <2>1. \A i \in 1 .. Len(x) - 1 : x[i] # Closing
      BY <1>7 DEF StreamKept, ClosingPushed
    <2> HIDE DEF x
    <2>2. Len(q) = 0
      <3> SUFFICES ASSUME Len(q) > 0 PROVE FALSE
        BY <1>6
      <3>1. 1 \in 1 .. Len(x) - 1
        BY <1>6
      <3> QED BY <1>6, <2>1, <3>1
    <2> QED BY <1>5, <2>2
  <1>9. lgReader'[s] = lgReader[s]
    <2>1. lgReader[s] \in [pc : ThreadStates, line : Int]
      BY <1>0 DEF CaptureThread
    <2>2. Woken(lgReader[s]) = [lgReader[s] EXCEPT !.pc = lgReader[s].pc]
      BY <1>7 DEF Woken
    <2> QED BY <1>1, <2>1, <2>2
  <1>10. lgQueue'[s] = <<Closing>> /\ Pushed(s)' = << >> /\ Pushed(s) = << >>
    BY <1>1, <1>7, <1>8, <1>9 DEF Pushed, Held
  <1>11. Whole(s)' = Whole(s)
    <2> DEFINE p == lgPipe[s]
    <2>1. Whole(s) = lgTerm[s] \o (<<Closing>> \o (<< >> \o (<< >> \o p)))
      BY <1>4, <1>8, <1>10 DEF Whole, Behind
    <2>2. Whole(s)' = lgTerm[s] \o (<< >> \o (<<Closing>> \o (<< >> \o p)))
      BY <1>1, <1>4, <1>10 DEF Whole, Behind
    <2>3. << >> \o p = p /\ <<Closing>> \o p \in Seq(Int)
      BY <1>0, <1>5, HeadAndTail, ConcatProperties
    <2>4. << >> \o (<<Closing>> \o p) = <<Closing>> \o p
      BY <2>3, HeadAndTail
    <2> QED BY <2>1, <2>2, <2>3, <2>4
  <1>12. PhaseOf(s) \in {"closing", "restored", "after"}
    <2>1. PhaseOf(s) \in {"before", "looping", "captured", "closing", "restored", "after"}
      BY DEF PhaseOf
    <2> QED BY <1>7, <2>1 DEF StreamKept, Redirected
  <1>13. Redirected(s)'
    BY <1>1, <1>2, <1>3, <1>7, <1>9, <1>12 DEF StreamKept, Redirected
  <1>14. ClosingPushed(s)'
    <2>1. Logged(s)' \o lgQueue'[s] = <<Closing>>
      BY <1>4, <1>10
    <2>2. /\ Len(<<Closing>>) = 1 /\ <<Closing>>[1] = Closing /\ 1 .. 1 - 1 = {}
      OBVIOUS
    <2>3. lgReader'[s].pc = "ended"
      BY <1>7, <1>9
    <2> DEFINE z == <<Closing>>
    <2>4. Len(z) > 0 /\ z[Len(z)] = Closing /\ \A i \in 1 .. Len(z) - 1 : z[i] # Closing
      BY <2>2
    <2> HIDE DEF z
    <2>5. Logged(s)' \o lgQueue'[s] = z /\ lgQueue'[s] = <<Closing>>
      BY <1>10, <2>1 DEF z
    <2> QED BY <2>3, <2>4, <2>5 DEF ClosingPushed
  <1> QED BY <1>1, <1>3, <1>11, <1>13, <1>14, FlowKeeps
-----------------------------------------------------------------------------
(* The program, and the AutoLogger. *)

\* What a write does to the lines of a stream.
WritesTerm(s, e) == lgTerm'[s] = Append(lgTerm[s], e) /\ lgPipe'[s] = lgPipe[s]
WritesPipe(s, e) == lgPipe'[s] = Append(lgPipe[s], e) /\ lgTerm'[s] = lgTerm[s]
ThreadsKeep(s) == lgQueue'[s] = lgQueue[s] /\ lgReader'[s] = lgReader[s] /\ lgWriter'[s] = lgWriter[s]

\* A line written to the terminal directly is one more in the whole,
LEMMA TermWritten ==
    ASSUME LogTypeOK, NEW s \in Streams, NEW e \in Int, WritesTerm(s, e), ThreadsKeep(s)
    PROVE  OneMore(Whole(s), Whole(s)', Len(lgTerm[s])) /\ Whole(s)'[Len(lgTerm[s]) + 1] = e
  <1> DEFINE t == lgTerm[s]
             rest == Logged(s) \o Behind(s)
  <1>1. rest \in Seq(Int) /\ t \in Seq(Int)
    BY WholeIsSeq, ConcatProperties
  <1>2. Logged(s)' = Logged(s) /\ Behind(s)' = Behind(s)
    BY DEF ThreadsKeep, WritesTerm, Logged, Behind, Pushed, Held
  <1>3. Whole(s) = t \o rest /\ Whole(s)' = Append(t, e) \o rest
    BY <1>2 DEF Whole, WritesTerm
  <1> HIDE DEF rest, t
  <1>4. OneMore(t \o rest, Append(t, e) \o rest, Len(t)) /\ (Append(t, e) \o rest)[Len(t) + 1] = e
    BY <1>1, PutBetween
  <1> QED BY <1>3, <1>4 DEF t

\* and one written to the pipe is the last of it.
LEMMA PipeWritten ==
    ASSUME LogTypeOK, NEW s \in Streams, NEW e \in Int, WritesPipe(s, e), ThreadsKeep(s)
    PROVE  Whole(s)' = Append(Whole(s), e)
  <1> DEFINE t == lgTerm[s]
             l == Logged(s)
             q == lgQueue[s]
             r == Pushed(s)
             p == lgPipe[s]
  <1>1. t \in Seq(Int) /\ l \in Seq(Int) /\ q \in Seq(Int) /\ r \in Seq(Int) /\ p \in Seq(Int)
    BY WholeIsSeq
  <1>2. Logged(s)' = l /\ Pushed(s)' = r
    BY DEF ThreadsKeep, Logged, Pushed, Held
  <1>3. Whole(s) = t \o (l \o (q \o (r \o p))) /\ Whole(s)' = t \o (l \o (q \o (r \o Append(p, e))))
    BY <1>2 DEF Whole, Behind, WritesPipe, ThreadsKeep
  <1> HIDE DEF t, l, q, r, p
  <1>4. ASSUME NEW a \in Seq(Int), NEW b \in Seq(Int) PROVE a \o Append(b, e) = Append(a \o b, e) /\ a \o b \in Seq(Int)
    <2>1. a \o b \in Seq(Int)
      BY ConcatProperties
    <2>2. Append(b, e) = b \o <<e>> /\ Append(a \o b, e) = (a \o b) \o <<e>>
      BY <2>1, AppendIsConcat
    <2>3. a \o (b \o <<e>>) = (a \o b) \o <<e>>
      OBVIOUS
    <2> QED BY <2>1, <2>2, <2>3
  <1>5. r \o Append(p, e) = Append(r \o p, e) /\ r \o p \in Seq(Int)
    BY <1>1, <1>4
  <1>6. q \o Append(r \o p, e) = Append(q \o (r \o p), e) /\ q \o (r \o p) \in Seq(Int)
    BY <1>1, <1>4, <1>5
  <1>7. l \o Append(q \o (r \o p), e) = Append(l \o (q \o (r \o p)), e) /\ l \o (q \o (r \o p)) \in Seq(Int)
    BY <1>1, <1>4, <1>6
  <1>8. t \o Append(l \o (q \o (r \o p)), e) = Append(t \o (l \o (q \o (r \o p))), e)
    BY <1>1, <1>4, <1>7
  <1> QED BY <1>3, <1>5, <1>6, <1>7, <1>8

\* The line that ends a capture stays where it is.
LEMMA ClosingStays == ASSUME NEW s \in Streams, StreamKept(s), ThreadsKeep(s) PROVE ClosingPushed(s)'
  <1> DEFINE x == Logged(s) \o lgQueue[s]
  <1>1. x' = x
    BY DEF ThreadsKeep, Logged, Held
  <1> QED BY <1>1 DEF ThreadsKeep, StreamKept, ClosingPushed, NoneOf

\* A write of something that is no line to keep.
LEMMA ForeignKeeps ==
    ASSUME LogTypeOK, NEW s \in Streams, NEW e \in Int, StreamKept(s), WritesTerm(s, e) \/ WritesPipe(s, e),
           ThreadsKeep(s), e \notin 1 .. Upto(s), e # Closing, From(s)' = From(s), Upto(s)' = Upto(s),
           Closed(s)' = Closed(s), lgPrinted'[s] \in Nat, lgPrinted[s] <= lgPrinted'[s], e <= lgPrinted'[s]
    PROVE  LinesKept(s)'
  <1> DEFINE x == Whole(s)
             y == Whole(s)'
             from == From(s)
             to == Upto(s)
             p == lgPrinted[s]
             p2 == lgPrinted'[s]
  <1>0. /\ x \in Seq(Int) /\ from \in Nat /\ to \in Nat /\ p \in Nat /\ p2 \in Nat /\ from <= to /\ p <= p2
        /\ e \notin 1 .. to /\ e <= p2 /\ Closing \in Int
    BY WholeIsSeq DEF StreamKept, Closing
  <1>1. AllKept(x, from, to) /\ AtMost(x, p) /\ (~Closed(s) => NoneOf(x, Closing))
    BY DEF StreamKept, LinesKept
  <1>2. (OneMore(x, y, Len(lgTerm[s])) /\ y[Len(lgTerm[s]) + 1] = e) \/ y = Append(x, e)
    BY TermWritten, PipeWritten
  <1>7. from = From(s)' /\ to = Upto(s)'
    OBVIOUS
  <1> HIDE DEF x, y, from, to, p, p2
  <1>3. AtMost(x, p2)
    BY <1>0, <1>1 DEF AtMost
  <1>4. AllKept(y, from, to) /\ AtMost(y, p2) /\ (~Closed(s) => NoneOf(y, Closing))
    <2>1. CASE OneMore(x, y, Len(lgTerm[s])) /\ y[Len(lgTerm[s]) + 1] = e
      <3> DEFINE k == Len(lgTerm[s])
      <3>1. OneMore(x, y, k) /\ y[k + 1] = e
        BY <2>1
      <3> HIDE DEF k
      <3>2. AllKept(y, from, to)
        BY <1>0, <1>1, <3>1, InsertKeeps
      <3>3. AtMost(y, p2) /\ (NoneOf(x, Closing) => NoneOf(y, Closing))
        BY <1>0, <1>3, <3>1, ElementsKeep
      <3> QED BY <1>1, <3>2, <3>3
    <2>2. CASE y = Append(x, e)
      BY <1>0, <1>1, <1>3, <2>2, AppendForeign, ElementsAppended
    <2> QED BY <1>2, <2>1, <2>2
  <1>5. AllKept(Whole(s)', From(s)', Upto(s)') /\ AtMost(Whole(s)', lgPrinted'[s]) /\ (~Closed(s)' => NoneOf(Whole(s)', Closing))
    BY <1>4, <1>7 DEF y, p2
  <1> QED BY <1>5 DEF LinesKept, AllKept, AtMost, NoneOf, IsOnce, InOrder, EndsWithClosing

\* The program prints its next line.
LEMMA PrintLineKeeps ==
    ASSUME LogTypeOK, NEW s \in Streams, StreamKept(s), PrintLine(s)
    PROVE  StreamKept(s)'
  <1> DEFINE p == lgPrinted[s]
             e == p + 1
  <1>1. /\ p \in Nat /\ e \in Int /\ lgPrinted'[s] = e
        /\ UNCHANGED <<lgMain, lgFd, lgStream, lgSpan>> /\ ThreadsKeep(s)
    BY DEF PrintLine, LogTypeOK, ThreadsKeep
  <1>2. PhaseOf(s)' = PhaseOf(s) /\ Closed(s)' = Closed(s)
    BY <1>1 DEF PhaseOf, Closed
  <1>3. IF lgFd[s] = "terminal" THEN WritesTerm(s, e) ELSE WritesPipe(s, e)
    BY DEF PrintLine, WriteFd, WritesTerm, WritesPipe, LogTypeOK
  <1>4. PhaseOf(s) = "before" => lgFd[s] = "terminal"
    BY DEF StreamKept, Redirected
  <1>5. Redirected(s)'
    <2>1. PhaseOf(s) # "before" \/ UNCHANGED <<lgPipe, lgQueue>> \/ WritesTerm(s, e)
      BY <1>3, <1>4
    <2> QED BY <1>1, <1>2, <1>3, <1>4 DEF StreamKept, Redirected, ThreadsKeep, WritesTerm
  <1>6. ClosingPushed(s)'
    BY <1>1, ClosingStays
  <1>7. Whole(s) \in Seq(Int) /\ From(s) \in Nat /\ Upto(s) \in Nat /\ From(s) <= Upto(s) /\ Upto(s) <= p
    BY WholeIsSeq DEF StreamKept
  <1>8. CASE Closed(s)
    <2>1. From(s)' = From(s) /\ Upto(s)' = Upto(s)
      BY <1>1, <1>2, <1>8 DEF From, Upto, Closed
    <2>2. e \notin 1 .. Upto(s) /\ e # Closing /\ p <= e
      BY <1>1, <1>7 DEF Closing
    <2>3. LinesKept(s)'
      <3>1. /\ lgPrinted'[s] \in Nat /\ lgPrinted[s] <= lgPrinted'[s] /\ e <= lgPrinted'[s]
            /\ WritesTerm(s, e) \/ WritesPipe(s, e)
        BY <1>1, <1>3, <2>2
      <3> HIDE DEF e, p
      <3> QED BY <1>1, <1>2, <2>1, <2>2, <3>1, ForeignKeeps
    <2> QED BY <1>1, <1>5, <1>6, <1>7, <2>1, <2>2, <2>3 DEF StreamKept
  <1>9. CASE ~Closed(s)
    <2>1. /\ Upto(s) = p /\ Upto(s)' = e /\ From(s)' \in {From(s), e}
          /\ From(s)' <= e
      <3>1. Upto(s) = p /\ Upto(s)' = e
        BY <1>1, <1>2, <1>9 DEF Upto
      <3>2. From(s)' \in {From(s), e}
        BY <1>1, <1>2 DEF From
      <3> QED BY <1>1, <1>7, <3>1, <3>2
    <2> DEFINE x == Whole(s)
               y == Whole(s)'
    <2>2. y = Append(x, e)
      <3>1. CASE lgFd[s] = "terminal"
        <4>1. PhaseOf(s) = "before"
          <5>1. PhaseOf(s) \in {"before", "looping", "captured", "closing", "restored", "after"}
            BY DEF PhaseOf
          <5> QED BY <1>9, <3>1, <5>1 DEF StreamKept, Redirected, Closed
        <4>2. Logged(s) = << >> /\ Behind(s) = << >> \o (<< >> \o << >>)
          BY <4>1 DEF StreamKept, Redirected, Logged, Behind, Pushed, Held
        <4>3. << >> \in Seq(Int) /\ << >> \o << >> = << >>
          BY HeadAndTail
        <4>4. Whole(s) = lgTerm[s] \o << >>
          BY <4>2, <4>3 DEF Whole
        <4>5. Logged(s)' = << >> /\ Behind(s)' = << >>
          BY <1>1, <1>3, <3>1, <4>2, <4>3 DEF ThreadsKeep, WritesTerm, Logged, Behind, Pushed, Held
        <4>6. Whole(s)' = Append(lgTerm[s], e) \o << >>
          BY <1>3, <3>1, <4>5 DEF Whole, WritesTerm
        <4>7. lgTerm[s] \in Seq(Int) /\ Append(lgTerm[s], e) \in Seq(Int)
          BY <1>1, WholeIsSeq, AppendProperties
        <4> QED BY <4>4, <4>6, <4>7, HeadAndTail
      <3>2. CASE lgFd[s] # "terminal"
        BY <1>1, <1>3, <3>2, PipeWritten
      <3> QED BY <3>1, <3>2
    <2>3. AllKept(x, From(s), p) /\ AtMost(x, p) /\ NoneOf(x, Closing)
      BY <1>9, <2>1 DEF StreamKept, LinesKept
    <2> HIDE DEF x, y
    <2>4. AllKept(y, From(s)', e) /\ AtMost(y, e) /\ NoneOf(y, Closing)
      <3>0. x \in Seq(Int) /\ From(s) \in Nat /\ From(s) <= p /\ p \in Nat
        BY <1>1, <1>7, <2>1 DEF x
      <3>1. AllKept(y, From(s)', e)
        <4> DEFINE f == From(s)
                   f2 == From(s)'
        <4>1. f \in Nat /\ f2 \in {f, p + 1} /\ f <= p /\ AllKept(x, f, p) /\ AtMost(x, p) /\ NoneOf(x, Closing)
          BY <2>1, <2>3, <3>0
        <4> HIDE DEF f, f2, p
        <4>2. AllKept(Append(x, p + 1), f2, p + 1)
          BY <3>0, <4>1, AppendLine
        <4> QED BY <2>2, <4>2 DEF f2
      <3>2. AtMost(x, e)
        <4>1. \A i \in DOMAIN x : x[i] \in Int
          BY <3>0
        <4> QED BY <2>3, <3>0, <4>1 DEF AtMost
      <3> QED BY <1>1, <2>2, <2>3, <3>0, <3>1, <3>2, ElementsAppended DEF Closing
    <2>5. LinesKept(s)'
      <3>1. AllKept(Whole(s)', From(s)', Upto(s)') /\ AtMost(Whole(s)', lgPrinted'[s]) /\ NoneOf(Whole(s)', Closing)
        BY <1>1, <2>1, <2>4 DEF y
      <3> QED BY <3>1 DEF LinesKept, AllKept, AtMost, NoneOf, IsOnce, InOrder, EndsWithClosing
    <2> QED BY <1>1, <1>5, <1>6, <2>1, <2>5 DEF StreamKept
  <1> QED BY <1>8, <1>9

\* The program logs, which writes a message of its own.
LEMMA LogEventKeeps ==
    ASSUME LogTypeOK, NEW level \in DirectLevels, LogEvent(level), NEW s \in Streams, StreamKept(s)
    PROVE  StreamKept(s)'
  <1>1. UNCHANGED <<lgMain, lgFd, lgStream, lgQueue, lgReader, lgWriter, lgPrinted, lgSpan>>
    BY DEF LogEvent
  <1>2. PhaseOf(s)' = PhaseOf(s) /\ Closed(s)' = Closed(s) /\ From(s)' = From(s) /\ Upto(s)' = Upto(s)
    BY <1>1 DEF PhaseOf, Closed, From, Upto
  <1>3. WritesTerm(s, Blank) \/ WritesPipe(s, Blank) \/ (lgTerm'[s] = lgTerm[s] /\ lgPipe'[s] = lgPipe[s])
    <2>1. LogTo(StreamOf(level), Blank) \/ UNCHANGED <<lgTerm, lgPipe>>
      BY DEF LogEvent
    <2>2. StreamOf(level) \in Streams /\ Blank \in Int
      BY StreamLevels DEF Blank
    <2>3. CASE s # StreamOf(level)
      BY <2>1, <2>2, <2>3, WriteTypes
    <2>4. CASE s = StreamOf(level)
      BY <2>1, <2>4 DEF LogTo, WriteFd, WritesTerm, WritesPipe, LogTypeOK
    <2> QED BY <2>3, <2>4
  <1>4. CASE lgTerm'[s] = lgTerm[s] /\ lgPipe'[s] = lgPipe[s]
    BY <1>1, <1>2, <1>4, SameStreamKeeps DEF SameStream
  <1>5. CASE WritesTerm(s, Blank) \/ (PhaseOf(s) # "before" /\ WritesPipe(s, Blank))
    <2>1. Redirected(s)'
      BY <1>1, <1>2, <1>5 DEF StreamKept, Redirected, WritesTerm
    <2>2. ThreadsKeep(s)
      BY <1>1 DEF ThreadsKeep
    <2>3. lgPrinted'[s] \in Nat /\ lgPrinted[s] <= lgPrinted'[s] /\ Blank <= lgPrinted'[s] /\ Blank \in Int
          /\ Upto(s) \in Nat /\ Blank \notin 1 .. Upto(s) /\ Blank # Closing
      BY <1>1, WholeIsSeq DEF Blank, Closing
    <2>4. LinesKept(s)'
      BY <1>2, <1>5, <2>2, <2>3, ForeignKeeps
    <2>5. ClosingPushed(s)'
      BY <2>2, ClosingStays
    <2> QED BY <1>1, <1>2, <2>1, <2>4, <2>5 DEF StreamKept
  <1>6. CASE PhaseOf(s) = "before" /\ WritesPipe(s, Blank)
    <2>1. lgFd[s] = "terminal" /\ lgStream[s] = "std" /\ lgPipe[s] = << >>
      BY <1>6 DEF StreamKept, Redirected
    <2>2. lgPipe'[s] = lgPipe[s]
      <3>1. LogTo(StreamOf(level), Blank) \/ UNCHANGED <<lgTerm, lgPipe>>
        BY DEF LogEvent
      <3>2. StreamOf(level) \in Streams /\ Blank \in Int
        BY StreamLevels DEF Blank
      <3>3. CASE s # StreamOf(level)
        BY <3>1, <3>2, <3>3, WriteTypes
      <3>4. CASE s = StreamOf(level)
        BY <2>1, <3>1, <3>4 DEF LogTo, WriteFd
      <3> QED BY <3>3, <3>4
    <2>3. Append(lgPipe[s], Blank) # lgPipe[s]
      BY <2>1
    <2> QED BY <1>6, <2>2, <2>3 DEF WritesPipe
  <1> QED BY <1>3, <1>4, <1>5, <1>6

\* One line appended to one line.
LEMMA AppendToOne ==
  ASSUME NEW a \in Int, NEW b \in Int
  PROVE  Append(<<a>>, b) = <<a, b>>
<1> DEFINE x == Append(<<a>>, b)
           y == <<a, b>>
<1>0. <<a>> \in Seq(Int) /\ y \in Seq(Int)
  OBVIOUS
<1>1. x \in Seq(Int) /\ Len(x) = 2
  BY <1>0
<1>2. x[1] = a /\ x[2] = b
  BY <1>0
<1>3. Len(y) = 2 /\ y[1] = a /\ y[2] = b
  OBVIOUS
<1>4. x = y
  <2> HIDE DEF x, y
  <2>1. \A i \in 1 .. Len(x) : x[i] = y[i]
    <3>1. \A i \in 1 .. Len(x) : i = 1 \/ i = 2
      BY <1>1
    <3> QED BY <3>1, <1>2, <1>3
  <2>2. Len(x) = Len(y)
    BY <1>1, <1>3
  <2> QED BY <1>0, <1>1, <2>1, <2>2, SeqEqual
<1> QED BY <1>4

\* The AutoLogger goes on with a stream.
LEMMA AutoLoggerKeeps ==
    ASSUME LogTypeOK, NEW s \in Streams, StreamKept(s), AutoLogger(s)
    PROVE  StreamKept(s)'
  <1>0. lgReader \in [Streams -> CaptureThread] /\ lgWriter \in [Streams -> CaptureThread]
    BY DEF LogTypeOK
  <1>1. CASE Capture(s)
    <2>0. "read" \in ThreadStates /\ "awake" \in ThreadStates
      BY DEF ThreadStates
    <2>1. /\ PhaseOf(s) = "before" /\ PhaseOf(s)' = "looping"
          /\ lgFd'[s] = "pipe" /\ lgReader' = [lgReader EXCEPT ![s].pc = "read"]
          /\ lgWriter' = [lgWriter EXCEPT ![s].pc = "awake"]
          /\ UNCHANGED <<lgStream, lgPipe, lgQueue, lgPrinted, lgSpan, lgTerm>>
      BY <1>1 DEF Capture, At, PhaseOf, LogTypeOK
    <2>2. lgReader'[s].pc = "read" /\ lgWriter'[s].pc = "awake"
      <3>1. lgReader'[s] = [pc |-> "read", line |-> lgReader[s].line]
        BY <1>0, <2>0, <2>1, ThreadMoves
      <3>2. lgWriter'[s] = [pc |-> "awake", line |-> lgWriter[s].line]
        BY <1>0, <2>0, <2>1, ThreadMoves
      <3> QED BY <3>1, <3>2
    <2>3. lgReader[s].pc = "none" /\ lgWriter[s].pc = "none" /\ lgStream[s] = "std"
      BY <2>1 DEF StreamKept, Redirected
    <2>4. Logged(s)' = Logged(s) /\ Pushed(s)' = Pushed(s)
      BY <2>2, <2>3 DEF Logged, Pushed, Held
    <2>5. Whole(s)' = Whole(s)
      BY <2>1, <2>4 DEF Whole, Behind
    <2>6. From(s)' = From(s) /\ Upto(s)' = Upto(s) /\ ~Closed(s) /\ ~Closed(s)'
      BY <2>1 DEF From, Upto, Closed
    <2>7. LinesKept(s)'
      <3>1. AllKept(Whole(s)', From(s)', Upto(s)') /\ AtMost(Whole(s)', lgPrinted'[s]) /\ NoneOf(Whole(s)', Closing)
        BY <2>1, <2>5, <2>6 DEF StreamKept, LinesKept
      <3> QED BY <3>1 DEF LinesKept, AllKept, AtMost, NoneOf, IsOnce, InOrder, EndsWithClosing
    <2>8. Redirected(s)'
      BY <2>1, <2>2, <2>3 DEF Redirected
    <2>9. ClosingPushed(s)'
      <3> DEFINE x == Logged(s) \o lgQueue[s]
      <3>1. x' = x /\ NoneOf(x, Closing)
        BY <2>1, <2>3, <2>4 DEF StreamKept, ClosingPushed
      <3> QED BY <2>2, <3>1 DEF ClosingPushed, NoneOf
    <2> QED BY <2>1, <2>6, <2>7, <2>8, <2>9 DEF StreamKept
  <1>2. CASE SetStream(s)
    <2>1. /\ PhaseOf(s) = "looping" /\ PhaseOf(s)' = "captured"
          /\ lgStream'[s] = "dup" /\ lgSpan'[s].from = lgPrinted[s]
          /\ UNCHANGED <<lgFd, lgPipe, lgQueue, lgReader, lgWriter, lgPrinted, lgTerm>>
      <3>1. lgSpan' = [lgSpan EXCEPT ![s].from = lgPrinted[s]] /\ lgSpan \in [Streams -> [from : Nat, to : Nat]]
        BY <1>2 DEF SetStream, LogTypeOK
      <3>2. lgSpan'[s].from = lgPrinted[s]
        BY <3>1
      <3>3. PhaseOf(s) = "looping" /\ PhaseOf(s)' = "captured"
        BY <1>2 DEF SetStream, At, Then, PhaseOf, Streams
      <3>4. lgStream'[s] = "dup"
        BY <1>2 DEF SetStream, LogTypeOK
      <3> QED BY <1>2, <3>2, <3>3, <3>4 DEF SetStream
    <2>2. From(s) = lgPrinted[s] /\ From(s)' = From(s) /\ Upto(s)' = Upto(s) /\ ~Closed(s) /\ ~Closed(s)'
      BY <2>1 DEF From, Upto, Closed
    <2>3. Whole(s)' = Whole(s) /\ ThreadsKeep(s)
      BY <2>1 DEF Whole, Behind, Logged, Pushed, Held, ThreadsKeep
    <2>4. LinesKept(s)'
      <3>1. AllKept(Whole(s)', From(s)', Upto(s)') /\ AtMost(Whole(s)', lgPrinted'[s]) /\ NoneOf(Whole(s)', Closing)
        BY <2>1, <2>2, <2>3 DEF StreamKept, LinesKept
      <3> QED BY <3>1 DEF LinesKept, AllKept, AtMost, NoneOf, IsOnce, InOrder, EndsWithClosing
    <2>5. Redirected(s)'
      BY <2>1 DEF StreamKept, Redirected
    <2>6. ClosingPushed(s)'
      BY <2>3, ClosingStays
    <2> QED BY <2>1, <2>2, <2>4, <2>5, <2>6 DEF StreamKept
  <1>3. CASE CloseCapture(s)
    <2>1. /\ PhaseOf(s) = "captured" /\ PhaseOf(s)' = "closing"
          /\ lgPipe'[s] = lgPipe[s] \o <<Blank, Closing>>
          /\ lgSpan'[s].to = lgPrinted[s] /\ lgSpan'[s].from = lgSpan[s].from
          /\ UNCHANGED <<lgFd, lgStream, lgQueue, lgReader, lgWriter, lgPrinted, lgTerm>>
      <3>1. lgSpan' = [lgSpan EXCEPT ![s].to = lgPrinted[s]] /\ lgSpan \in [Streams -> [from : Nat, to : Nat]]
        BY <1>3 DEF CloseCapture, LogTypeOK
      <3>2. lgSpan'[s].to = lgPrinted[s] /\ lgSpan'[s].from = lgSpan[s].from
        BY <3>1
      <3>3. PhaseOf(s) = "captured" /\ PhaseOf(s)' = "closing"
        BY <1>3 DEF CloseCapture, At, PhaseOf, Streams, LogTypeOK
      <3>4. lgPipe'[s] = lgPipe[s] \o <<Blank, Closing>>
        BY <1>3 DEF CloseCapture, LogTypeOK
      <3> QED BY <1>3, <3>2, <3>3, <3>4 DEF CloseCapture
    <2>2. /\ From(s)' = From(s) /\ Upto(s) = lgPrinted[s] /\ Upto(s)' = lgPrinted[s]
          /\ ~Closed(s) /\ Closed(s)'
      BY <2>1 DEF From, Upto, Closed
    <2> DEFINE x == Whole(s)
               y == Append(x, Blank)
               z == Append(y, Closing)
               p == lgPrinted[s]
               f == From(s)
    <2>3. Whole(s)' = z
      <3> DEFINE b == lgTerm[s] \o (Logged(s) \o (lgQueue[s] \o (Pushed(s) \o lgPipe[s])))
                 t == lgTerm[s]
                 l == Logged(s)
                 q == lgQueue[s]
                 r == Pushed(s)
                 d == lgPipe[s]
                 u == <<Blank, Closing>>
      <3>1. Whole(s)' = t \o (l \o (q \o (r \o (d \o u))))
        BY <2>1 DEF Whole, Behind, Logged, Pushed, Held
      <3>2. /\ t \in Seq(Int) /\ l \in Seq(Int) /\ q \in Seq(Int) /\ r \in Seq(Int) /\ d \in Seq(Int)
            /\ u \in Seq(Int) /\ x \in Seq(Int)
        BY WholeIsSeq DEF Blank, Closing
      <3>3. x = t \o (l \o (q \o (r \o d)))
        BY DEF Whole, Behind
      <3> HIDE DEF t, l, q, r, d, u, x
      <3>4. \A v, w \in Seq(Int) : v \o (w \o u) = (v \o w) \o u /\ v \o w \in Seq(Int)
        <4> SUFFICES ASSUME NEW v \in Seq(Int), NEW w \in Seq(Int) PROVE v \o (w \o u) = (v \o w) \o u /\ v \o w \in Seq(Int)
          OBVIOUS
        <4>1. Associate(v, w, u)
          BY <3>2, ConcatThree
        <4> QED BY <4>1 DEF Associate
      <3>5. r \o (d \o u) = (r \o d) \o u /\ r \o d \in Seq(Int)
        BY <3>2, <3>4
      <3>6. q \o ((r \o d) \o u) = (q \o (r \o d)) \o u /\ q \o (r \o d) \in Seq(Int)
        BY <3>2, <3>4, <3>5
      <3>7. l \o ((q \o (r \o d)) \o u) = (l \o (q \o (r \o d))) \o u /\ l \o (q \o (r \o d)) \in Seq(Int)
        BY <3>2, <3>4, <3>6
      <3>8. t \o ((l \o (q \o (r \o d))) \o u) = (t \o (l \o (q \o (r \o d)))) \o u
        BY <3>2, <3>4, <3>7
      <3>9. Whole(s)' = x \o u
        BY <3>1, <3>3, <3>5, <3>6, <3>7, <3>8
      <3>10. x \o <<Blank, Closing>> = Append(Append(x, Blank), Closing)
        <4>1. x \in Seq(Int) /\ Blank \in Int /\ Closing \in Int
          BY <3>2 DEF Blank, Closing
        <4>2. Append(x, Blank) \in Seq(Int)
          BY <4>1
        <4>3. Append(x, Blank) = x \o <<Blank>> /\ Append(Append(x, Blank), Closing) = Append(x, Blank) \o <<Closing>>
          BY <4>1, <4>2, AppendIsConcat
        <4>4. (x \o <<Blank>>) \o <<Closing>> = x \o (<<Blank>> \o <<Closing>>)
          BY <4>1
        <4>5. <<Blank>> \o <<Closing>> = <<Blank, Closing>>
          <5>1. <<Blank>> \in Seq(Int)
            BY <4>1
          <5>2. Append(<<Blank>>, Closing) = <<Blank>> \o <<Closing>>
            BY <4>1, <5>1, AppendIsConcat
          <5>3. Append(<<Blank>>, Closing) = <<Blank, Closing>>
            BY <4>1, AppendToOne
          <5> QED BY <5>2, <5>3
        <4> QED BY <4>3, <4>4, <4>5
      <3> QED BY <3>9, <3>10 DEF u
    <2>4. /\ x \in Seq(Int) /\ p \in Nat /\ f \in Nat /\ f <= p /\ Blank \in Int /\ Closing \in Int
          /\ Blank \notin 1 .. p /\ Closing \notin 1 .. p /\ Blank <= p /\ Closing <= p
      BY <2>2, WholeIsSeq DEF StreamKept, Blank, Closing
    <2>5. AllKept(x, f, p) /\ AtMost(x, p)
      BY <2>2 DEF StreamKept, LinesKept
    <2> HIDE DEF x, p, f
    <2>6. y \in Seq(Int) /\ AllKept(y, f, p) /\ AtMost(y, p)
      <3>1. y \in Seq(Int)
        BY <2>4
      <3>2. AllKept(y, f, p)
        BY <2>4, <2>5, AppendForeign
      <3>3. AtMost(y, p)
        BY <2>4, <2>5, ElementsAppended
      <3> QED BY <3>1, <3>2, <3>3
    <2> HIDE DEF y
    <2>7. AllKept(z, f, p) /\ AtMost(z, p)
      <3>1. AllKept(z, f, p)
        BY <2>4, <2>6, AppendForeign
      <3>2. AtMost(z, p)
        BY <2>4, <2>6, ElementsAppended
      <3> QED BY <3>1, <3>2
    <2>8. LinesKept(s)'
      <3>1. AllKept(Whole(s)', From(s)', Upto(s)') /\ AtMost(Whole(s)', lgPrinted'[s]) /\ Closed(s)'
        BY <2>1, <2>2, <2>3, <2>7 DEF p, f
      <3> QED BY <3>1 DEF LinesKept, AllKept, AtMost, NoneOf, IsOnce, InOrder, EndsWithClosing
    <2>9. Redirected(s)'
      BY <2>1 DEF StreamKept, Redirected
    <2>10. ClosingPushed(s)'
      <3>1. ThreadsKeep(s)
        BY <2>1 DEF ThreadsKeep
      <3> QED BY <3>1, ClosingStays
    <2>11. From(s)' <= Upto(s)' /\ Upto(s)' <= lgPrinted'[s]
      BY <2>1, <2>2, <2>4 DEF p, f
    <2> QED BY <2>8, <2>9, <2>10, <2>11 DEF StreamKept
  <1>4. CASE Restore(s) \/ ResetStream(s)
    <2>1. /\ UNCHANGED <<lgPipe, lgQueue, lgReader, lgWriter, lgPrinted, lgSpan, lgTerm>>
          /\ \/ /\ PhaseOf(s) = "closing" /\ PhaseOf(s)' = "restored" /\ Joined(s)
                /\ lgFd'[s] = "terminal" /\ lgStream'[s] = "closed"
             \/ /\ PhaseOf(s) = "restored" /\ PhaseOf(s)' = "after"
                /\ lgFd'[s] = lgFd[s] /\ lgStream'[s] = "std"
      <3>1. CASE Restore(s)
        BY <3>1 DEF Restore, At, PhaseOf, Streams, LogTypeOK
      <3>2. CASE ResetStream(s)
        BY <3>2 DEF ResetStream, At, Then, PhaseOf, Streams, LogTypeOK
      <3> QED BY <1>4, <3>1, <3>2
    <2>2. From(s)' = From(s) /\ Upto(s)' = Upto(s) /\ Closed(s) /\ Closed(s)'
      BY <2>1 DEF From, Upto, Closed
    <2>3. Whole(s)' = Whole(s) /\ ThreadsKeep(s)
      BY <2>1 DEF Whole, Behind, Logged, Pushed, Held, ThreadsKeep
    <2>4. LinesKept(s)'
      <3>1. AllKept(Whole(s)', From(s)', Upto(s)') /\ AtMost(Whole(s)', lgPrinted'[s])
        BY <2>1, <2>2, <2>3 DEF StreamKept, LinesKept
      <3> QED BY <2>2, <3>1 DEF LinesKept, AllKept, AtMost, NoneOf, IsOnce, InOrder, EndsWithClosing
    <2>5. Redirected(s)'
      BY <2>1 DEF StreamKept, Redirected, Joined
    <2>6. ClosingPushed(s)'
      BY <2>3, ClosingStays
    <2> QED BY <2>1, <2>2, <2>4, <2>5, <2>6 DEF StreamKept
  <1> QED BY <1>1, <1>2, <1>3, <1>4 DEF AutoLogger

\* Every step keeps the invariant: a stream that is not emitted says nothing, another is kept
\* by the lemma of the step.
LEMMA LogSteps == LogInv /\ [LogNext]_logVars => LogInv'
  <1> SUFFICES ASSUME LogInv, [LogNext]_logVars PROVE LogInv'
    OBVIOUS
  <1>1. LogTypeOK /\ LogTypeOK'
    BY LogTypes DEF LogInv
  <1>2. ASSUME NEW s \in Streams, Emitted(LevelOf(s)) PROVE StreamKept(s)'
    <2>1. StreamKept(s)
      BY <1>2 DEF LogInv
    <2>2. CASE UNCHANGED logVars
      <3>1. SameStream(s)
        BY <2>2 DEF logVars, SameStream, PhaseOf
      <3> QED BY <2>1, <3>1, SameStreamKeeps
    <2>3. ASSUME NEW d \in Streams, PrintLine(d) \/ CaptureThreads(d) \/ AutoLogger(d) PROVE StreamKept(s)'
      <3>1. CASE d # s
        <4>1. SameStream(s)
          BY <1>1, <2>3, <3>1, StreamsApart
        <4> QED BY <2>1, <4>1, SameStreamKeeps
      <3>2. CASE d = s
        <4>1. CASE PrintLine(s)
          BY <1>1, <2>1, <4>1, PrintLineKeeps
        <4>2. CASE CaptureThreads(s)
          BY <1>1, <1>2, <2>1, <4>2, ReadPipeKeeps, WaitsKeep, PushLineKeeps, TakeLineKeeps, LogLineKeeps, EndLogKeeps
             DEF CaptureThreads
        <4>3. CASE AutoLogger(s)
          BY <1>1, <2>1, <4>3, AutoLoggerKeeps
        <4> QED BY <2>3, <3>2, <4>1, <4>2, <4>3
      <3> QED BY <3>1, <3>2
    <2>4. ASSUME NEW level \in DirectLevels, LogEvent(level) PROVE StreamKept(s)'
      BY <1>1, <2>1, <2>4, LogEventKeeps
    <2> QED BY <2>2, <2>3, <2>4 DEF LogNext
  <1>3. \A s \in Streams : Emitted(LevelOf(s))' = Emitted(LevelOf(s))
    BY DEF Emitted, LevelOf
  <1> QED BY <1>1, <1>2, <1>3 DEF LogInv

\* Nothing is printed yet.
LEMMA LogInitially == LogInit => LogInv
  <1> SUFFICES ASSUME LogInit PROVE LogInv
    OBVIOUS
  <1>1. LogTypeOK
    BY DEF LogInit, LogTypeOK, None, CaptureThread, ThreadStates, Streams
  <1>2. ASSUME NEW s \in Streams PROVE StreamKept(s)
    <2>1. PhaseOf(s) = "before" /\ lgPrinted[s] = 0
      BY DEF LogInit, PhaseOf
    <2>2. From(s) = 0 /\ Upto(s) = 0 /\ ~Closed(s)
      BY <2>1 DEF From, Upto, Closed
    <2>3. Redirected(s)
      BY <2>1 DEF LogInit, Redirected, None
    <2>4. Logged(s) = << >> /\ Pushed(s) = << >> /\ lgTerm[s] = << >> /\ lgQueue[s] = << >> /\ lgPipe[s] = << >>
      BY DEF LogInit, Logged, Pushed, Held, None
    <2>5. << >> \o << >> = << >> /\ DOMAIN << >> = {} /\ 1 .. 0 = {}
      OBVIOUS
    <2>6. Whole(s) = << >>
      BY <2>4, <2>5 DEF Whole, Behind
    <2>7. LinesKept(s)
      BY <2>2, <2>5, <2>6 DEF LinesKept, AllKept, InOrder, EndsWithClosing, AtMost, NoneOf
    <2>8. ClosingPushed(s)
      BY <2>4, <2>5 DEF LogInit, ClosingPushed, NoneOf, None
    <2> QED BY <2>1, <2>2, <2>3, <2>7, <2>8 DEF StreamKept
  <1> QED BY <1>1, <1>2 DEF LogInv

\* When both threads have ended, what is behind the terminal holds no line that is kept.
LEMMA TerminalHasAll ==
    ASSUME LogTypeOK, NEW s \in Streams, StreamKept(s), PhaseOf(s) = "after"
    PROVE  /\ \A n \in 1 .. lgSpan[s].to : IsOnce(lgTerm[s], n)
           /\ InOrder(lgTerm[s], lgSpan[s].from, lgSpan[s].to)
           /\ lgTerm[s] \in Seq(Int) /\ lgSpan[s].to \in Nat
  <1> DEFINE t == lgTerm[s]
             p == lgPipe[s]
             m == Len(t)
             to == lgSpan[s].to
             x == t \o (<<Closing>> \o p)
  <1>1. lgReader[s].pc = "ended" /\ lgWriter[s].pc = "ended" /\ lgQueue[s] = <<Closing>>
    BY DEF StreamKept, Redirected, ClosingPushed
  <1>2. From(s) = lgSpan[s].from /\ Upto(s) = to /\ to \in Nat
    BY DEF From, Upto, Closed, LogTypeOK
  <1>3. t \in Seq(Int) /\ p \in Seq(Int) /\ Closing \in Int
    BY WholeIsSeq DEF Closing
  <1>4. Whole(s) = x
    <2>1. Logged(s) = << >> /\ Pushed(s) = << >>
      BY <1>1 DEF Logged, Pushed, Held
    <2>2. << >> \o p = p /\ <<Closing>> \o p \in Seq(Int)
      BY <1>3, HeadAndTail, ConcatProperties
    <2>3. << >> \o (<<Closing>> \o p) = <<Closing>> \o p
      BY <2>2, HeadAndTail
    <2> QED BY <1>1, <2>1, <2>2, <2>3 DEF Whole, Behind
  <1>5. AllKept(x, lgSpan[s].from, to)
    BY <1>2, <1>4 DEF StreamKept, LinesKept
  <1> HIDE DEF t, p, m, to, x
  <1>6. /\ m \in Nat /\ DOMAIN t = 1 .. m /\ x \in Seq(Int)
        /\ \A i \in 1 .. m : i \in DOMAIN x /\ x[i] = t[i]
        /\ m + 1 \in DOMAIN x /\ x[m + 1] = Closing
        /\ \A i \in DOMAIN x : i \in Nat /\ (i <= m => i \in 1 .. m)
    <2> DEFINE c == <<Closing>> \o p
    <2>1. c \in Seq(Int) /\ Len(c) \in Nat /\ Len(c) >= 1 /\ c[1] = Closing
      BY <1>3
    <2> HIDE DEF c
    <2>2. x = t \o c
      BY DEF x, c
    <2>3. x \in Seq(Int) /\ Len(x) = m + Len(c) /\ m \in Nat
          /\ \A i \in 1 .. m + Len(c) : x[i] = IF i <= m THEN t[i] ELSE c[i - m]
      BY <1>3, <2>1, <2>2, ConcatProperties DEF m
    <2>4. DOMAIN x = 1 .. m + Len(c) /\ DOMAIN t = 1 .. m
      BY <1>3, <2>3 DEF m
    <2>5. m + 1 \in 1 .. m + Len(c) /\ ~(m + 1 <= m) /\ (m + 1) - m = 1
      BY <2>1, <2>3
    <2>6. \A i \in 1 .. m : i \in 1 .. m + Len(c) /\ i <= m
      BY <2>1, <2>3
    <2>7. x[m + 1] = Closing
      BY <2>1, <2>3, <2>5
    <2>8. \A i \in 1 .. m : x[i] = t[i]
      BY <2>3, <2>6
    <2>9. \A i \in 1 .. m + Len(c) : i \in Nat /\ (i <= m => i \in 1 .. m)
      BY <2>1, <2>3
    <2> QED BY <2>3, <2>4, <2>5, <2>6, <2>7, <2>8, <2>9
  <1>7. ASSUME NEW n \in 1 .. to PROVE IsOnce(t, n)
    <2>1. PICK i \in DOMAIN x : x[i] = n /\ \A j \in DOMAIN x : x[j] = n => j = i
      BY <1>5, <1>7 DEF AllKept, IsOnce
    <2>2. i <= m
      <3> SUFFICES ASSUME ~(i <= m) PROVE FALSE
        OBVIOUS
      <3>1. i # m + 1
        BY <1>2, <1>6, <1>7, <2>1 DEF Closing
      <3>2. m + 1 < i
        BY <1>6, <3>1
      <3> QED BY <1>5, <1>6, <1>7, <2>1, <3>2 DEF AllKept, EndsWithClosing
    <2>3. i \in DOMAIN t /\ t[i] = n
      BY <1>6, <2>1, <2>2
    <2>4. \A j \in DOMAIN t : t[j] = n => j = i
      BY <1>6, <2>1
    <2> QED BY <2>3, <2>4 DEF IsOnce
  <1>8. InOrder(t, lgSpan[s].from, to)
    BY <1>5, <1>6 DEF AllKept, InOrder
  <1> QED BY <1>2, <1>3, <1>7, <1>8 DEF t, to

\* When the program is done the terminal has each line it printed once, in order.
LEMMA NothingLost == LogInv => CaptureComplete
  <1> SUFFICES ASSUME LogInv, lgMain.pc = "done", NEW s \in Streams, Emitted(LevelOf(s))
               PROVE  \E at \in [1 .. lgSpan[s].to -> DOMAIN lgTerm[s]] :
                         /\ \A n \in DOMAIN at : {i \in DOMAIN lgTerm[s] : lgTerm[s][i] = n} = {at[n]}
                         /\ \A m, n \in DOMAIN at : lgSpan[s].from < m /\ m < n => at[m] < at[n]
    BY DEF CaptureComplete
  <1> DEFINE t == lgTerm[s]
             to == lgSpan[s].to
             from == lgSpan[s].from
  <1>1. PhaseOf(s) = "after" /\ LogTypeOK /\ StreamKept(s)
    BY DEF LogInv, PhaseOf
  <1>2. (\A n \in 1 .. to : IsOnce(t, n)) /\ InOrder(t, from, to) /\ t \in Seq(Int) /\ to \in Nat
    BY <1>1, TerminalHasAll
  <1> HIDE DEF t, to, from
  <1> DEFINE at == [n \in 1 .. to |-> CHOOSE i \in DOMAIN t : t[i] = n]
  <1>3. ASSUME NEW n \in 1 .. to PROVE at[n] \in DOMAIN t /\ t[at[n]] = n /\ {i \in DOMAIN t : t[i] = n} = {at[n]}
    <2>1. PICK i \in DOMAIN t : t[i] = n /\ \A j \in DOMAIN t : t[j] = n => j = i
      BY <1>2, <1>3 DEF IsOnce
    <2>2. at[n] = CHOOSE k \in DOMAIN t : t[k] = n
      OBVIOUS
    <2> HIDE DEF at
    <2>3. at[n] \in DOMAIN t /\ t[at[n]] = n
      BY <2>1, <2>2
    <2> QED BY <2>1, <2>3
  <1>4. at \in [1 .. to -> DOMAIN t] /\ DOMAIN at = 1 .. to
    <2>1. \A n \in 1 .. to : (CHOOSE i \in DOMAIN t : t[i] = n) \in DOMAIN t
      BY <1>3
    <2> QED BY <2>1
  <1> HIDE DEF at
  <1>5. ASSUME NEW m \in 1 .. to, NEW n \in 1 .. to, from < m, m < n PROVE at[m] < at[n]
    <2>1. at[m] \in DOMAIN t /\ at[n] \in DOMAIN t /\ t[at[m]] = m /\ t[at[n]] = n
      BY <1>3
    <2>2. n <= to
      BY <1>2
    <2> QED BY <1>2, <1>5, <2>1, <2>2 DEF InOrder
  <1>6. /\ \A n \in DOMAIN at : {i \in DOMAIN t : t[i] = n} = {at[n]}
        /\ \A m, n \in DOMAIN at : from < m /\ m < n => at[m] < at[n]
    BY <1>3, <1>4, <1>5
  <1> QED BY <1>4, <1>6 DEF t, to, from

\* Every line printed before its capture was closed reaches the terminal once, those that the
\* constructor's loop did not catch in the order they were printed (CaptureComplete), for every
\* length of the queue and the pipe, number of lines and level of the logger.
THEOREM CapturesLoseNothing == LogSpec => []CaptureComplete
  <1> QED BY LogInitially, LogSteps, NothingLost, PTL DEF LogSpec

-----------------------------------------------------------------------------
(* The services together. *)

\* What a client is told over HTTP is true (AnswersAreTrue), whatever the services do.
THEOREM AnswersHold == CoordSpec /\ FarmSpec => []AnswersAreTrue
  <1> QED BY SessionsAreAsAnswered, GroupsAreAsTold, PTL DEF AnswersAreTrue

\* A computation starts with the environment, program and limits of its definition
\* (LaunchedAsDefined), for any definitions, contexts, environments and command lines.
THEOREM LaunchHolds == PackSpec /\ LimitSpec => []LaunchedAsDefined
  <1> QED BY LaunchesAsPackaged, LimitsAreRestored, PTL DEF LaunchedAsDefined
===============================================================================
