------------------------------ MODULE Addressing ------------------------------
(***************************************************************************)
(* Routing (core_impl/lib/routing): Addressing turns the message filters   *)
(* of a session definition into a table, destination by destination;       *)
(* Addresser keeps the table in effect and addresses envelopes with it.    *)
(* CompEnvironmentImpl builds a new table in its incoming thread when an   *)
(* "update" arrives, while other threads send.                             *)
(*                                                                         *)
(* An AddressList is modelled by how often it holds each destination: the  *)
(* order of the list is that of the destinations' names and decides        *)
(* nothing.  A destination that is listed twice gets the message twice.    *)
(***************************************************************************)
EXTENDS Integers, FiniteSets

CONSTANTS
    Messages,       \* routing names
    Dests,          \* names of computations, the client included
    Client,         \* "(client)"
    Definitions,    \* routing data an execComp may be given
    NoDefinition,   \* no routing data yet
    MaxUpdates      \* bound: tables that are built

\* Routing data: whether the source is in the computation map, which names the
\* map knows (always the client), which destinations the source has a filter
\* for, how often each accept list names each message, and the ignore lists.
ASSUME RoutingAssumption ==
    /\ Client \in Dests
    /\ Definitions \subseteq [source : BOOLEAN, known : SUBSET Dests, listed : SUBSET Dests,
                              accept : [Dests -> [Messages -> Nat]],
                              ignore : [Dests -> SUBSET Messages]]
    /\ \A def \in Definitions : Client \in def.known
    /\ NoDefinition \notin Definitions
    /\ MaxUpdates \in Nat

VARIABLES
    mMessageAddressMap, mDefaultAddresses, mAllAddresses, \* the Addressing being built
    update,         \* where the updating thread is
    building,       \* the routing data it is reading
    todo,           \* filters it has not read yet
    mAddressing,    \* the table in effect
    inEffect,       \* history: the routing data that table was built from
    envelope,       \* the envelope addressed last
    updates         \* tables begun so far

tableVars == <<mMessageAddressMap, mDefaultAddresses, mAllAddresses>>
updateVars == <<update, building, todo, updates>>
vars == <<tableVars, updateVars, mAddressing, inEffect, envelope>>

Lists == [Dests -> Nat]
NoAddresses == [d \in Dests |-> 0]
Each(ds) == [d \in Dests |-> IF d \in ds THEN 1 ELSE 0]
EmptyTable == [map |-> [m \in {} |-> NoAddresses], default |-> NoAddresses, all |-> NoAddresses,
               source |-> FALSE]

Init ==
    /\ mMessageAddressMap = [m \in {} |-> NoAddresses]
    /\ mDefaultAddresses = NoAddresses /\ mAllAddresses = NoAddresses
    /\ update = "idle" /\ building = NoDefinition /\ todo = {} /\ updates = 0
    /\ mAddressing = EmptyTable /\ inEffect = NoDefinition
    /\ envelope = [how |-> "none", to |-> NoAddresses]

\* Addressing::addresses: the entry for the message, or the default.
Addresses(map, default, m) == IF m \in DOMAIN map THEN map[m] ELSE default

\* ComputationMap::getAllAddresses, without the client
AllAddresses(def) == Each({d \in def.known : d # Client})

\* push_back
Push(list, d, n) == [list EXCEPT ![d] = @ + n]

------------------------------------------------------------------------------
\* The constructor of Addressing, run by Addresser::update

\* All addresses, then the source's: a source that the map does not know leaves
\* the table without any filter.
BeginUpdate(def) ==
    /\ update = "idle"
    /\ updates < MaxUpdates /\ updates' = updates + 1
    /\ building' = def
    /\ mMessageAddressMap' = [m \in {} |-> NoAddresses]
    /\ mDefaultAddresses' = NoAddresses
    /\ mAllAddresses' = AllAddresses(def)
    /\ todo' = IF def.source THEN def.listed ELSE {}
    /\ update' = "filters"
    /\ UNCHANGED <<mAddressing, inEffect, envelope>>

\* A filter for a name that is not in the map: KeyError leaves the constructor
\* and ends the incoming thread.
AddUnknown(d) ==
    /\ update = "filters"
    /\ d \in todo /\ d \notin building.known
    /\ update' = "failed"
    /\ UNCHANGED <<tableVars, building, todo, updates, mAddressing, inEffect, envelope>>

Accepts(def, d) == \E m \in Messages : def.accept[d][m] > 0

\* Mutant: an entry made for an accepted message starts out empty.
AddAcceptingFromEmpty(d) ==
    /\ update = "filters"
    /\ d \in todo \cap building.known
    /\ Accepts(building, d)
    /\ mMessageAddressMap' =
         [m \in DOMAIN mMessageAddressMap \cup {n \in Messages : building.accept[d][n] > 0} |->
            Push(Addresses(mMessageAddressMap, NoAddresses, m), d, building.accept[d][m])]
    /\ todo' = todo \ {d}
    /\ UNCHANGED <<mDefaultAddresses, mAllAddresses, update, building, updates,
                   mAddressing, inEffect, envelope>>

\* A destination with an accept list is added to the entry of every message the
\* list names, as often as it does; missing entries start from the default.
AddAccepting(d) ==
    /\ update = "filters"
    /\ d \in todo \cap building.known
    /\ Accepts(building, d)
    /\ mMessageAddressMap' =
         [m \in DOMAIN mMessageAddressMap \cup {n \in Messages : building.accept[d][n] > 0} |->
            Push(Addresses(mMessageAddressMap, mDefaultAddresses, m), d, building.accept[d][m])]
    /\ todo' = todo \ {d}
    /\ UNCHANGED <<mDefaultAddresses, mAllAddresses, update, building, updates,
                   mAddressing, inEffect, envelope>>

\* Mutant: ignored messages without an entry are not given one.
AddIgnoringMappedOnly(d) ==
    /\ update = "filters"
    /\ d \in todo \cap building.known
    /\ ~Accepts(building, d)
    /\ mMessageAddressMap' =
         [m \in DOMAIN mMessageAddressMap |->
            IF m \in building.ignore[d] THEN mMessageAddressMap[m]
                                        ELSE Push(mMessageAddressMap[m], d, 1)]
    /\ mDefaultAddresses' = Push(mDefaultAddresses, d, 1)
    /\ todo' = todo \ {d}
    /\ UNCHANGED <<mAllAddresses, update, building, updates, mAddressing, inEffect, envelope>>

\* Without one it is added to every entry but those of the messages it ignores,
\* which keep, or are given, the addresses they had; then to the default.
AddIgnoring(d) ==
    /\ update = "filters"
    /\ d \in todo \cap building.known
    /\ ~Accepts(building, d)
    /\ mMessageAddressMap' =
         [m \in DOMAIN mMessageAddressMap \cup building.ignore[d] |->
            IF m \in building.ignore[d] THEN Addresses(mMessageAddressMap, mDefaultAddresses, m)
                                        ELSE Push(mMessageAddressMap[m], d, 1)]
    /\ mDefaultAddresses' = Push(mDefaultAddresses, d, 1)
    /\ todo' = todo \ {d}
    /\ UNCHANGED <<mAllAddresses, update, building, updates, mAddressing, inEffect, envelope>>

\* The finished table replaces the one in effect, under mUpdateMutex.
Install ==
    /\ update = "filters" /\ todo = {}
    /\ mAddressing' = [map |-> mMessageAddressMap, default |-> mDefaultAddresses,
                       all |-> mAllAddresses, source |-> building.source]
    /\ inEffect' = building
    /\ update' = "idle"
    /\ UNCHANGED <<tableVars, building, todo, updates, envelope>>

------------------------------------------------------------------------------
\* Addressing envelopes, from any thread; a new envelope has no addresses

\* Addresser::address
Address(m) ==
    /\ envelope' = [how |-> "filters", name |-> m, from |-> mAddressing.source,
                    to |-> Addresses(mAddressing.map, mAddressing.default, m)]
    /\ UNCHANGED <<tableVars, updateVars, mAddressing, inEffect>>

\* Addresser::addressToAll
AddressToAll ==
    /\ envelope' = [how |-> "all", from |-> mAddressing.source, to |-> mAddressing.all]
    /\ UNCHANGED <<tableVars, updateVars, mAddressing, inEffect>>

\* Addresser::addressTo with explicit addresses.  The addresses before one that
\* cannot be parsed have been added already, and its caller does not look at
\* the result.
AddressTo(ds) ==
    /\ envelope' \in [how : {"explicit"}, from : {mAddressing.source},
                      to : {Each(parsed) : parsed \in SUBSET ds}]
    /\ UNCHANGED <<tableVars, updateVars, mAddressing, inEffect>>

\* CompEnvironmentImpl::send: the filters, or the addresses in the options.
Send == (\E m \in Messages : Address(m)) \/ (\E ds \in SUBSET Dests : AddressTo(ds))

Next ==
    \/ \E def \in Definitions : BeginUpdate(def)
    \/ \E d \in Dests : AddUnknown(d) \/ AddAccepting(d) \/ AddIgnoring(d)
    \/ Install
    \/ Send
    \/ AddressToAll

Spec == Init /\ [][Next]_vars

------------------------------------------------------------------------------
\* Reference definition: how often destination d should get message m.  An
\* accept list admits what it names; a destination without one gets everything
\* it does not ignore; there is nothing for a destination without a filter.
Wanted(def, d, m) ==
    IF Accepts(def, d) THEN def.accept[d][m]
    ELSE IF m \in def.ignore[d] THEN 0 ELSE 1

Routes(def, m) ==
    IF def = NoDefinition THEN NoAddresses
    ELSE [d \in Dests |-> IF def.source /\ d \in def.listed THEN Wanted(def, d, m) ELSE 0]

MapOK(map) == DOMAIN map \subseteq Messages /\ \A m \in DOMAIN map : map[m] \in Lists

\* Types of the table being built, of the table in effect and of the updater,
\* which reads the filters of the source's own definition only.
TypeOK ==
    /\ MapOK(mMessageAddressMap)
    /\ mDefaultAddresses \in Lists /\ mAllAddresses \in Lists
    /\ update \in {"idle", "filters", "failed"}
    /\ building \in Definitions \cup {NoDefinition}
    /\ todo \subseteq Dests /\ updates \in 0 .. MaxUpdates
    /\ update = "filters" => /\ building # NoDefinition /\ todo \subseteq building.listed
                             /\ todo # {} => building.source
    /\ MapOK(mAddressing.map)
    /\ mAddressing.default \in Lists /\ mAddressing.all \in Lists
    /\ inEffect \in Definitions \cup {NoDefinition}

\* The table under construction is right for the filters read so far, whatever
\* their order: for each message, listed or not, what `addresses` would return
\* is what those filters ask for.
DraftFollowsFilters ==
    update = "filters" =>
        \A m \in Messages, d \in Dests :
            Addresses(mMessageAddressMap, mDefaultAddresses, m)[d] =
                IF building.source /\ d \in building.listed \ todo
                THEN Wanted(building, d, m) ELSE 0

\* The table in effect routes every message as its routing data ask, and lists
\* all computations but the client; an update that is under way or has failed
\* does not show.
TableFollowsFilters ==
    /\ \A m \in Messages :
         Addresses(mAddressing.map, mAddressing.default, m) = Routes(inEffect, m)
    /\ inEffect # NoDefinition => /\ mAddressing.source = inEffect.source
                                  /\ mAddressing.all = Each(inEffect.known \ {Client})

\* An envelope addressed by the filters goes where the routing data last put
\* into effect say, one addressed to all goes to every computation of that data
\* but not to the client, and both bear the sender of the same data.
MessagesFollowFilters ==
    [][envelope' # envelope /\ inEffect # NoDefinition =>
          /\ envelope'.from = inEffect.source
          /\ envelope'.how = "filters" => envelope'.to = Routes(inEffect, envelope'.name)
          /\ envelope'.how = "all" => envelope'.to = Each(inEffect.known \ {Client})]_vars
===============================================================================
