------------------------------- MODULE FarmHosts -------------------------------
(***************************************************************************)
(* FarmHostsForArrasUtils: groups of farm hosts that a client asks the     *)
(* multi-session request handler on its machine for.  The handler is found *)
(* through the configuration service and silo.  All three are external: a  *)
(* request may fail to reach one, be refused, be answered with something   *)
(* else than expected, or be carried out with the answer lost.             *)
(***************************************************************************)
EXTENDS Integers

CONSTANTS
    MaxCalls    \* calls made on the object

BAD_GROUP_ID == 0
Outcomes == {"done", "lost", "odd", "refused", "unreachable"}

VARIABLES
    fhPc,          \* none, silo, processes, env, ready
    fhBase,        \* mBaseUrl is not empty
    fhGroups,      \* the handler: the groups there are
    fhGranted,     \* the handler: how many groups it has granted
    fhTold,        \* group ids that postRequest has returned
    fhTried,       \* groups that the client has tried to cancel
    fhCancelled,   \* groups for which cancelGroup has returned TRUE
    fhCalls

farmVars == <<fhPc, fhBase, fhGroups, fhGranted, fhTold, fhTried, fhCancelled, fhCalls>>
groupVars == <<fhGroups, fhGranted, fhTold, fhTried, fhCancelled>>

FarmInit ==
    /\ fhPc = "none" /\ fhBase = FALSE
    /\ fhGroups = {} /\ fhGranted = 0 /\ fhTold = {} /\ fhTried = {} /\ fhCancelled = {} /\ fhCalls = 0

\* What a request comes to: carried out, and answered with code 200.
CarriedOut(outcome) == outcome \in {"done", "lost"}
AnsweredOk(outcome) == outcome \in {"done", "odd"}

-----------------------------------------------------------------------------
(* The constructor.  Each of the two lookups that fails leaves the URL empty, and the
   request to set the environment is made all the same, its result not looked at. *)

getSiloUrl ==
    /\ fhPc = "none"
    /\ \E hasConfig \in BOOLEAN, outcome \in Outcomes :
          fhPc' = IF hasConfig /\ AnsweredOk(outcome) THEN "processes" ELSE "env"
    /\ UNCHANGED <<fhBase, groupVars, fhCalls>>

\* The first running handler with a port on its command line.
getBaseUrl ==
    /\ fhPc = "processes" /\ fhPc' = "env"
    /\ \E outcome \in Outcomes : fhBase' = (outcome = "done")
    /\ UNCHANGED <<groupVars, fhCalls>>

SetEnvInConstructor ==
    /\ fhPc = "env" /\ fhPc' = "ready"
    /\ UNCHANGED <<fhBase, groupVars, fhCalls>>

-----------------------------------------------------------------------------
(* The calls.  An empty URL makes each of them fail. *)

Call(outcome) ==
    /\ fhPc = "ready" /\ fhCalls < MaxCalls /\ fhCalls' = fhCalls + 1
    /\ ~fhBase => outcome = "unreachable"
    /\ UNCHANGED <<fhPc, fhBase>>

\* setEnv and getDetail leave the groups alone.
setEnv(outcome) == Call(outcome) /\ UNCHANGED groupVars
getDetail(outcome) == Call(outcome) /\ UNCHANGED groupVars

\* Of an answer with code 200: the group id in it, if there is one.
getGroupIdFromResponse(outcome, group) == IF outcome = "done" THEN group ELSE BAD_GROUP_ID

postRequest(outcome) ==
    /\ Call(outcome)
    /\ fhGranted' = IF CarriedOut(outcome) THEN fhGranted + 1 ELSE fhGranted
    /\ fhGroups' = IF CarriedOut(outcome) THEN fhGroups \cup {fhGranted + 1} ELSE fhGroups
    /\ \E id \in {IF AnsweredOk(outcome) THEN getGroupIdFromResponse(outcome, fhGranted + 1) ELSE BAD_GROUP_ID} :
          fhTold' = IF id = BAD_GROUP_ID THEN fhTold ELSE fhTold \cup {id}
    /\ UNCHANGED <<fhTried, fhCancelled>>

\* The answer says error code 0; the code of the response is not looked at.
ErrorCodeZero(outcome) == outcome = "done"

cancelGroup(outcome, group) ==
    /\ Call(outcome) /\ group \in fhTold
    /\ CarriedOut(outcome) => group \in fhGroups
    /\ fhTried' = fhTried \cup {group}
    /\ fhGroups' = IF CarriedOut(outcome) THEN fhGroups \ {group} ELSE fhGroups
    /\ fhCancelled' = IF ErrorCodeZero(outcome) THEN fhCancelled \cup {group} ELSE fhCancelled
    /\ UNCHANGED <<fhGranted, fhTold>>

setRunLimit(outcome, group) == Call(outcome) /\ group \in fhTold /\ UNCHANGED groupVars

FarmNext ==
    \/ getSiloUrl \/ getBaseUrl \/ SetEnvInConstructor
    \/ \E outcome \in Outcomes :
          \/ setEnv(outcome) \/ getDetail(outcome) \/ postRequest(outcome)
          \/ \E group \in fhTold : cancelGroup(outcome, group) \/ setRunLimit(outcome, group)

FarmSpec == FarmInit /\ [][FarmNext]_farmVars

-----------------------------------------------------------------------------
\* A group id that postRequest has returned names a group of farm hosts that was granted
\* and is still there unless its cancellation was tried, and cancelGroup says TRUE only
\* of groups that are gone, although answers are lost and requests repeated.
GroupsAreReal ==
    /\ fhTold \subseteq 1 .. fhGranted /\ fhTold \ fhTried \subseteq fhGroups
    /\ fhCancelled \cap fhGroups = {}
=============================================================================
