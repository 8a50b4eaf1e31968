------------------------------ MODULE MCServices ------------------------------
(***************************************************************************)
(* The components that do not share state with the others, checked in one  *)
(* run: each initial state starts one of them and leaves the others at     *)
(* rest, in a state in which no action of theirs is enabled.               *)
(***************************************************************************)
EXTENDS Services, TLC

-----------------------------------------------------------------------------
(* Instances. *)

MCNumLines == [stderr |-> 3, stdout |-> 0]
MCDirectLevels == {1001}

Settings(requirements, system, packages) == [requirements |-> requirements, system |-> system, packages |-> packages]
MCDefinitions ==
    {<<Settings("object", "rez1", TRUE), Settings("object", "rez1", TRUE)>>,
     <<Settings("none", "", FALSE), Settings("object", "rez2", TRUE)>>,
     <<Settings("object", "none", TRUE), Settings("invalid", "", FALSE)>>}
MCScripts == {<< >>, <<"out", "out">>, <<"err", "err", "out">>}

Res(m, c, x, r) == [memory |-> m, cores |-> c, maxCores |-> x, reservedCores |-> r]
Ctx(system, pseudo, script, rez, env) ==
    [isObject |-> TRUE, system |-> system, pseudo |-> pseudo, script |-> script, rez |-> rez, env |-> env]
Comp(ctx, name, res, cwd) == ctx @@ [context |-> name, res |-> res, cwd |-> cwd]
Envs == {<< >>, "PATH" :> "p1" @@ "APP" :> "own", "PATH" :> "p2" @@ "USER" :> "own"}
Requirements ==
    {Ctx(s, p, "", "", e) : s \in {"none", "current-environment", "other"}, p \in {"", "icc"}, e \in Envs}
    \cup {Ctx("bash", "", s, "", e) : s \in {"", "script"}, e \in Envs}
    \cup {Ctx(s, p, "", r, e) : s \in {"", "rez1", "rez2"}, p \in {"default", "icc"},
                                r \in {"", "context", "file", "packages"}, e \in Envs}
NoRes == Res(NoValue, NoValue, NoValue, NoValue)
ClientPart == Comp(Ctx("", "", "", "", << >>), "", Res(0, 0, 0, 0), "")
NamedContext == "ctx" :> Ctx("none", "", "", "", "PATH" :> "p2" @@ "APP" :> "ctx")
Definition(comp, contexts) == [comps |-> "(client)" :> ClientPart @@ "comp" :> comp, contexts |-> contexts]
MCPkDefinitions ==
    {Definition(Comp(r, n, NoRes, "wd"), c) : r \in Requirements, n \in {"", "ctx", "env"}, c \in {<< >>, NamedContext}}
    \cup {Definition(Comp(Ctx("none", "", "", "", "PATH" :> "p1"), "", res, ""), << >>) :
             res \in {NoRes, Res(512, 2, NoValue, NoValue), Res(512, NoValue, 2, 0), Res(0, NoValue, NoValue, 5)}}
    \cup {[comps |-> "(client)" :> [ClientPart EXCEPT !.isObject = FALSE] @@ "comp" :> ClientPart, contexts |-> << >>],
          [comps |-> "(client)" :> ClientPart, contexts |-> << >>]}
MCEnvContexts == "env" :> Ctx("current-environment", "", "", "", "APP" :> "ctx")
MCCurrentEnv == "PATH" :> "p3" @@ "HOME" :> "h"
MCPathDirs == [p1 |-> <<"a", "", "b", "">>, p2 |-> <<"", "c", "">>, p3 |-> <<"b">>]
MCExecDirs == {"b", ""}
MCSessionPaths == {<< >>, <<"a", "ab", "b">>, <<"", "ab">>}
MCDefFiles == {<<"a", FALSE>>, <<"b", TRUE>>, <<"ab", FALSE>>}

MCOptions ==
    [mb : {0, 64, 5000}, cores : -1..2, tpc : {1, 2}, affinity : BOOLEAN,
     cpus : {NotGiven, << >>, <<0>>, <<0, 2>>, <<1, 1>>, <<BadEntry>>}, htCpus : {NotGiven, <<0>>, <<3>>, <<1, 3>>}]
MCResources == {[cores |-> Absent, maxCores |-> Absent], [cores |-> 2, maxCores |-> Absent], [cores |-> Absent, maxCores |-> 2]}
MCFiles ==
    {[time |-> t, size |-> n[1], data |-> n[2], fault |-> f] :
        t \in {NoTime, 9}, n \in {<<1, 1>>, <<2, 1>>, <<1, 2>>}, f \in {"none", "stat", "open", "read"}}
MCDirectories == {<< >>} \cup UNION {[1..n -> MCFiles] : n \in 1..2}

-----------------------------------------------------------------------------
(* At rest. *)

LogOff ==
    /\ lgMain = [pc |-> "done", s |-> "stderr"] /\ lgDirect = {}
    /\ lgFd = << >> /\ lgStream = << >> /\ lgPipe = << >> /\ lgQueue = << >>
    /\ lgReader = [s \in Streams |-> None] /\ lgWriter = [s \in Streams |-> None] /\ lgPrinted = << >>
    /\ lgSpan = [s \in Streams |-> [from |-> 0, to |-> 0]] /\ lgTerm = [s \in Streams |-> << >>]
HttpOff ==
    /\ hxServer = "stopped" /\ hxCount = MaxRequests
    /\ hxReq = NoRequest /\ hxClient = "idle" /\ hxCode = 0 /\ hxMhd = "none" /\ hxLeft = 0
    /\ hxState = NoState /\ hxQueued = 0 /\ hxHandled = << >>
LogClientOff ==
    /\ lcItems = [i \in 1..MaxItems |-> "record"] /\ lcGot = << >> /\ lcFailures = 0
    /\ lcJob = [kind |-> "complete", comp |-> FALSE, asc |-> FALSE, start |-> 0, page |-> 0, seen |-> 0, status |-> "done"]
ProgressOff ==
    /\ psStop = "returned" /\ psPushed = MaxMessages /\ psGuis = MaxGuis /\ psGui = FALSE
    /\ psQueue = << >> /\ psShut = FALSE /\ mRun = FALSE /\ mIsSending = FALSE
    /\ psThread = [pc |-> "none", ok |-> FALSE, msg |-> 0] /\ psSocket = "none" /\ psShown = << >>
RezOff ==
    /\ rzDef = << >> /\ rzPc = "done" /\ rzAt = 1 /\ rzFinished = FALSE /\ rzOk = TRUE
    /\ rzContext = << >> /\ rzCapture = << >> /\ rzChild = << >> /\ rzPipe = << >> /\ rzThread = << >>
PackOff ==
    pkPc = "failed" /\ pkSearch = << >> /\ pkFile = << >> /\ pkDef = << >> /\ mSpawnArgs = NoArgs /\ pkExec = << >>
LimitOff ==
    xlPc = "failed" /\ xlExit = NORMAL /\ xlOpt = << >> /\ xlLimits = Unlimited /\ xlPinned = {} /\ xlAlive = {}
CoordOff ==
    /\ coEnv = << >> /\ coCall = [op |-> "none", pc |-> "idle"] /\ coQueries = MaxQueries
    /\ coEndpoint = "none" /\ coResult = "none" /\ coSaid = "none"
    /\ coObject = "none" /\ coHandle = "none" /\ coCtor = "done" /\ coThread = "none" /\ coReported = Absent
    /\ coBroken = FALSE
FarmOff ==
    /\ fhPc = "off" /\ fhBase = FALSE /\ fhGroups = {} /\ fhGranted = 0
    /\ fhTold = {} /\ fhTried = {} /\ fhCancelled = {} /\ fhCalls = MaxCalls
PlayOff ==
    /\ mpTool = "msgPlay" /\ mpFiles = << >> /\ mpTimestamps = FALSE /\ mpPc = "ended" /\ mpAt = 0 /\ mpPrev = NoTime
    /\ mpSlept = 0 /\ mpSent = << >> /\ mpPeer = "lost" /\ mpReader = "none" /\ mpExit = "none"

Parts == {"log", "http", "logClient", "progress", "rez", "pack", "limits", "coordinator", "farm", "play"}

Init ==
    \E part \in Parts :
        /\ IF part = "log" THEN LogInit ELSE LogOff
        /\ IF part = "http" THEN HttpInit ELSE HttpOff
        /\ IF part = "logClient" THEN LogClientInit ELSE LogClientOff
        /\ IF part = "progress" THEN ProgressInit ELSE ProgressOff
        /\ IF part = "rez" THEN RezInit ELSE RezOff
        /\ IF part = "pack" THEN PackInit ELSE PackOff
        /\ IF part = "limits" THEN LimitInit ELSE LimitOff
        /\ IF part = "coordinator" THEN CoordInit ELSE CoordOff
        /\ IF part = "farm" THEN FarmInit ELSE FarmOff
        /\ IF part = "play" THEN PlayInit ELSE PlayOff

vars == <<logVars, httpVars, logClientVars, progressVars, rezVars, packVars, limitVars, coordVars, farmVars, playVars>>

Next ==
    \/ LogNext /\ UNCHANGED <<httpVars, logClientVars, progressVars, rezVars, packVars, limitVars, coordVars, farmVars, playVars>>
    \/ HttpNext /\ UNCHANGED <<logVars, logClientVars, progressVars, rezVars, packVars, limitVars, coordVars, farmVars, playVars>>
    \/ LogClientNext /\ UNCHANGED <<logVars, httpVars, progressVars, rezVars, packVars, limitVars, coordVars, farmVars, playVars>>
    \/ ProgressNext /\ UNCHANGED <<logVars, httpVars, logClientVars, rezVars, packVars, limitVars, coordVars, farmVars, playVars>>
    \/ RezNext /\ UNCHANGED <<logVars, httpVars, logClientVars, progressVars, packVars, limitVars, coordVars, farmVars, playVars>>
    \/ PackNext /\ UNCHANGED <<logVars, httpVars, logClientVars, progressVars, rezVars, limitVars, coordVars, farmVars, playVars>>
    \/ LimitNext /\ UNCHANGED <<logVars, httpVars, logClientVars, progressVars, rezVars, packVars, coordVars, farmVars, playVars>>
    \/ CoordNext /\ UNCHANGED <<logVars, httpVars, logClientVars, progressVars, rezVars, packVars, limitVars, farmVars, playVars>>
    \/ FarmNext /\ UNCHANGED <<logVars, httpVars, logClientVars, progressVars, rezVars, packVars, limitVars, coordVars, playVars>>
    \/ PlayNext /\ UNCHANGED <<logVars, httpVars, logClientVars, progressVars, rezVars, packVars, limitVars, coordVars, farmVars>>

Spec == Init /\ [][Next]_vars /\ LogFairness /\ ProgressFairness /\ RezFairness
=============================================================================
