----------------------------- MODULE MCAddressing -----------------------------
(***************************************************************************)
(* Two computations and the client; three messages, of which m3 is in no   *)
(* list.  The filters: none ("*"), accept lists with one or two messages,  *)
(* with a repeated one, with an ignore list beside it, and ignore lists.   *)
(***************************************************************************)
EXTENDS Addressing, TLC

CONSTANTS a, client, m1, m2, m3

MCMessages == {m1, m2, m3}
MCDests == {a, client}

Named(f) == [m \in MCMessages |-> IF m \in DOMAIN f THEN f[m] ELSE 0]
MCFilters == {
    [accept |-> Named(<<>>),                    ignore |-> {}],
    [accept |-> Named(m1 :> 1),                 ignore |-> {}],
    [accept |-> Named(m1 :> 1 @@ m2 :> 1),      ignore |-> {m2}],
    [accept |-> Named(m2 :> 2),                 ignore |-> {m1}],
    [accept |-> Named(<<>>),                    ignore |-> {m1}],
    [accept |-> Named(<<>>),                    ignore |-> {m1, m2}]}

\* Filters of destinations that are not listed do not matter, and none do if the
\* map does not know the source or a destination: one of each is enough.
MCNone == [accept |-> Named(<<>>), ignore |-> {}]
MCDefinition(s, k, l, f) ==
    [source |-> s, known |-> k, listed |-> l,
     accept |-> [d \in MCDests |-> f[d].accept], ignore |-> [d \in MCDests |-> f[d].ignore]]
MCDefinitions ==
    {MCDefinition(FALSE, MCDests, MCDests, [d \in MCDests |-> MCNone]),
     MCDefinition(TRUE, {client}, MCDests, [d \in MCDests |-> MCNone])} \cup
    UNION {{MCDefinition(TRUE, MCDests, l, f @@ [d \in MCDests |-> MCNone]) :
               f \in [l -> MCFilters]} : l \in SUBSET MCDests}
===============================================================================
