------------------------------ MODULE Coordinator ------------------------------
(***************************************************************************)
(* What a client asks of the studio's services over HTTP: the URL of the   *)
(* coordinator, whether a session exists, and, for a local session, the    *)
(* registration that a SessionNotification makes in a thread of its own    *)
(* and that ends with the object deleting itself.  The configuration       *)
(* service and the coordinator are external: any reply, or none.           *)
(***************************************************************************)
EXTENDS Integers

CONSTANTS
    MaxQueries,     \* calls of requestArrasUrl and sessionExists
    NotifyCores,    \* hardware_concurrency() on the client
    Resources       \* a computation's resources: [cores, maxCores], Absent for none

Absent == -1
Replies == {"ok", "empty", "notFound", "unavailable", "other", "exception"}

VARIABLES
    coEnv,        \* the environment: [override, configService, studio, logname]
    coCall,       \* the call under way: [op, pc]
    coEndpoint,   \* where the coordinator is thought to be
    coResult,     \* what the last call returned or threw
    coSaid,       \* the coordinator's reply to it, "none" when it was not asked
    coQueries,
    coObject,     \* the SessionNotification: none, alive, freed, leaked
    coHandle,     \* its mThread: none, joinable, detached
    coCtor,       \* its constructor: none, assign, detach, done
    coThread,     \* registerThread: none, register, url, post, delete, ended
    coReported,   \* cores in the registration
    coBroken      \* std::terminate, or the freed object has been used

coordVars == <<coEnv, coCall, coEndpoint, coResult, coSaid, coQueries, coObject, coHandle, coCtor, coThread, coReported, coBroken>>
queryVars == <<coCall, coEndpoint, coResult, coSaid, coQueries>>
notifyVars == <<coObject, coHandle, coCtor, coThread, coReported, coBroken>>

CoordInit ==
    /\ coEnv \in [override : BOOLEAN, configService : BOOLEAN, studio : BOOLEAN, logname : BOOLEAN]
    /\ coCall = [op |-> "none", pc |-> "idle"] /\ coEndpoint = "none" /\ coResult = "none" /\ coSaid = "none" /\ coQueries = 0
    /\ coObject = "none" /\ coHandle = "none" /\ coCtor = "none" /\ coThread = "none" /\ coReported = Absent
    /\ coBroken = FALSE

-----------------------------------------------------------------------------
(* requestArrasUrl and sessionExists, as the SDK passes them on: it turns an
   HttpException into an SDKException and lets a ClientException through. *)

Return(result) == coResult' = result /\ coCall' = [coCall EXCEPT !.pc = "idle"]
Ask(op, pc) == coCall' = [op |-> op, pc |-> pc] /\ coResult' = "none"
Begin == coCall.pc = "idle" /\ coQueries < MaxQueries /\ coQueries' = coQueries + 1 /\ coSaid' = "none"

requestArrasUrl(datacenter) ==
    /\ Begin
    /\ IF coEnv.override THEN coEndpoint' = "override" /\ Return("url")
       ELSE IF datacenter = "local" THEN coEndpoint' = "local" /\ Return("url")
       ELSE IF ~coEnv.configService THEN coEndpoint' = "none" /\ Return("ClientException")
       ELSE coEndpoint' = "none" /\ Ask("url", "config")
    /\ UNCHANGED <<coEnv, notifyVars>>

\* A local coordinator is used when the datacenter or the environment is empty.
getCoordinatorEndpoint(datacenter) ==
    IF coEnv.override THEN coEndpoint' = "override" /\ Ask("exists", "query")
    ELSE IF datacenter = "" THEN coEndpoint' = "default" /\ Ask("exists", "query")
    ELSE IF ~coEnv.configService THEN coEndpoint' = "none" /\ Return("ClientException")
    ELSE coEndpoint' = "none" /\ Ask("exists", "config")

sessionExists(sessionId, datacenter) ==
    /\ Begin
    /\ IF sessionId = "" THEN coEndpoint' = "none" /\ Return("ClientException")
                         ELSE getCoordinatorEndpoint(datacenter)
    /\ UNCHANGED <<coEnv, notifyVars>>

\* getResourceFromConfigurationService
ConfigReplies(reply) ==
    /\ coCall.pc = "config"
    /\ CASE reply = "ok" -> /\ coEndpoint' = "configured"
                            /\ IF coCall.op = "url" THEN Return("url") ELSE Ask("exists", "query")
         [] reply = "exception" -> UNCHANGED coEndpoint /\ Return("SDKException")
         [] OTHER -> UNCHANGED coEndpoint /\ Return("ClientException")
    /\ UNCHANGED <<coEnv, coSaid, coQueries, notifyVars>>

ExistsOfNotOk(reply) == IF reply \in {"ok", "empty"} THEN "exists" ELSE "gone"    \* mutant: only 200 is looked at
ExistsOf(reply) ==
    CASE reply \in {"ok", "empty"} -> "exists"
      [] reply = "notFound" -> "gone"
      [] reply = "exception" -> "SDKException"
      [] OTHER -> "ClientException"

CoordinatorReplies(reply) ==
    /\ coCall.pc = "query"
    /\ Return(ExistsOf(reply)) /\ coSaid' = reply
    /\ UNCHANGED <<coEnv, coEndpoint, coQueries, notifyVars>>

-----------------------------------------------------------------------------
(* SessionNotification. *)

\* The constructor starts the thread, then moves it into mThread, then detaches it.
Notify ==
    /\ coCtor = "none" /\ coCtor' = "assign"
    /\ coObject' = "alive" /\ coThread' = "register"
    /\ UNCHANGED <<coEnv, queryVars, coHandle, coReported, coBroken>>

CtorAssign ==
    /\ coCtor = "assign" /\ coCtor' = "detach" /\ coHandle' = "joinable"
    /\ coBroken' = (coBroken \/ coObject = "freed")
    /\ UNCHANGED <<coEnv, queryVars, coObject, coThread, coReported>>

CtorDetach ==
    /\ coCtor = "detach" /\ coCtor' = "done" /\ coHandle' = "detached"
    /\ coBroken' = (coBroken \/ coObject = "freed")
    /\ UNCHANGED <<coEnv, queryVars, coObject, coThread, coReported>>

\* Cores that the definition leaves open: those of the machine but one, at most
\* maxCores; one when it has no maxCores either.
updateCores(res) ==
    IF res.cores # Absent THEN res.cores
    ELSE IF res.maxCores = Absent THEN 1
    ELSE IF NotifyCores - 1 > res.maxCores THEN res.maxCores ELSE NotifyCores - 1

ThreadTo(pc) == coThread' = pc
Leak == coThread' = "ended" /\ coObject' = "leaked"    \* the exception is caught, nothing deletes the object
NotifyOnly == UNCHANGED <<coEnv, queryVars, coHandle, coCtor, coBroken>>

\* Without LOGNAME there is no registration.
RegisterSession ==
    /\ coThread = "register"
    /\ IF ~coEnv.logname THEN ThreadTo("delete") /\ UNCHANGED <<coObject, coReported>>
       ELSE /\ \E res \in Resources : coReported' = updateCores(res)
            /\ IF coEnv.configService /\ coEnv.studio THEN ThreadTo("url") /\ UNCHANGED coObject ELSE Leak
    /\ NotifyOnly

CoordinatorUrl(reply) ==
    /\ coThread = "url"
    /\ IF reply = "ok" THEN ThreadTo("post") /\ UNCHANGED coObject ELSE Leak
    /\ NotifyOnly /\ UNCHANGED coReported

\* Whatever the coordinator answers is only looked at.
PostRegistration(reply) ==
    /\ coThread = "post"
    /\ IF reply = "exception" THEN Leak ELSE ThreadTo("delete") /\ UNCHANGED coObject
    /\ NotifyOnly /\ UNCHANGED coReported

\* delete this: with mThread still joinable its destructor ends the process.
DeleteThis ==
    /\ coThread = "delete" /\ coThread' = "ended"
    /\ coObject' = "freed" /\ coBroken' = (coBroken \/ coHandle = "joinable")
    /\ UNCHANGED <<coEnv, queryVars, coHandle, coCtor, coReported>>

-----------------------------------------------------------------------------

CoordNext ==
    \/ \E dc \in {"local", "", "gld"} : requestArrasUrl(dc) \/ \E id \in {"", "id"} : sessionExists(id, dc)
    \/ \E reply \in Replies : ConfigReplies(reply) \/ CoordinatorReplies(reply) \/ CoordinatorUrl(reply) \/ PostRegistration(reply)
    \/ Notify \/ CtorAssign \/ CtorDetach \/ RegisterSession \/ DeleteThis

CoordSpec == CoordInit /\ [][CoordNext]_coordVars

\* sessionExists says that a session is gone only when the coordinator has said so, and
\* that it exists only when it was found: a service that fails, is unavailable or is
\* not configured is an exception, through both requests.
ExistenceIsAnswered ==
    /\ coResult = "gone" => coSaid = "notFound" /\ coEndpoint # "none"
    /\ coResult = "exists" => coSaid \in {"ok", "empty"} /\ coEndpoint # "none"
=============================================================================
