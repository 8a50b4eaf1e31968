------------------------------- MODULE Packaging -------------------------------
(***************************************************************************)
(* From a session definition to the command line that runs its one local   *)
(* computation: SessionDefinition (search path, named contexts),           *)
(* LocalSession::setDefinition with the packaging systems, Environment,    *)
(* SpawnArgs, ShellContext, RezContext::wrap, and Process::doExec in the   *)
(* child.  Names, directories and values are opaque; an environment is a   *)
(* function from the variables it defines; a search path is a sequence of  *)
(* directories, NoText for an empty one.                                   *)
(***************************************************************************)
EXTENDS Integers, Sequences, FiniteSets

CONSTANTS
    UIntMod,          \* 2^w, for unsigned of w bits
    HardwareCores,    \* std::thread::hardware_concurrency()
    PkDefinitions,    \* the definitions that are tried
    EnvContexts,      \* the contexts of the file ENV_CONTEXTS names
    CurrentEnv,       \* the client's own environment
    PathDirs,         \* value of a PATH variable -> its directories
    ExecDirs,         \* directories that hold an executable execComp
    SessionPaths,     \* values of ARRAS_SESSION_PATH: sequences of directories
    DefFiles,         \* <<directory, suffixed>>: definition files that can be read
    ShortDirs         \* directories whose name is one character

\* A PATH variable of a definition, or of a context, has a value that names directories.
PathKnown(env) == "PATH" \in DOMAIN env => env["PATH"] \in DOMAIN PathDirs
PathsKnown(objects) == \A c \in DOMAIN objects : PathKnown(objects[c].env)

ASSUME PackAssumption ==
    /\ \A v \in DOMAIN PathDirs : Len(PathDirs[v]) \in Nat
    /\ \A def \in PkDefinitions : {"comps", "contexts"} \subseteq DOMAIN def /\ PathsKnown(def.comps) /\ PathsKnown(def.contexts)
    /\ PathsKnown(EnvContexts)

DEFAULT_MEMORY_MB == 2048
RESERVED_CORES == 1
DEFAULT_MAX_CORES == 1024
Failed == << >>
NoText == ""          \* an empty string
NoValue == -1         \* absent, not a number, or negative

VARIABLES
    pkPc,         \* load, read, attach, check, define, write, exec, done, failed
    pkSearch,     \* [path, suffix: ARRASCLIENT_OVR_SESSION_DEF_SUFFIX is set]
    pkFile,       \* the definition file found
    pkDef,        \* mObject
    mSpawnArgs,   \* [program, args, env, mb, cores, cwd]
    pkExec        \* what execvpe is called with, or why the child ended

packVars == <<pkPc, pkSearch, pkFile, pkDef, mSpawnArgs, pkExec>>

\* Two maps in one: where both have a value, the first one's.
Merged(strong, weak) ==
    [x \in DOMAIN strong \cup DOMAIN weak |-> IF x \in DOMAIN strong THEN strong[x] ELSE weak[x]]

NoArgs == [program |-> "execComp", args |-> << >>, env |-> << >>, mb |-> 0, cores |-> 0, cwd |-> NoText]

PackInit ==
    /\ pkPc = "load" /\ pkFile = << >> /\ mSpawnArgs = NoArgs /\ pkExec = << >>
    /\ pkSearch \in [path : SessionPaths, suffix : BOOLEAN]
    /\ pkDef \in PkDefinitions

-----------------------------------------------------------------------------
(* SessionDefinition. *)

\* findFile tries the directories in order; between two colons it skips those of
\* fewer than two characters.
findFile(path, suffixed) ==
    LET tried(i) == i = Len(path) \/ path[i] \notin ShortDirs \cup {NoText}
        from[i \in 1..Len(path) + 1] ==
            IF i > Len(path) THEN << >>
            ELSE IF tried(i) /\ <<path[i], suffixed>> \in DefFiles THEN <<path[i], suffixed>>
            ELSE from[i + 1]
    IN from[1]

\* The override suffix comes first; an empty path or no file is an exception.
LoadDefinition ==
    /\ pkPc = "load"
    /\ \E f \in {IF pkSearch.suffix THEN findFile(pkSearch.path, TRUE) ELSE << >>} :
         pkFile' = IF f # << >> THEN f ELSE findFile(pkSearch.path, FALSE)
    /\ pkPc' = IF pkSearch.path = << >> \/ pkFile' = << >> THEN "failed" ELSE "read"
    /\ UNCHANGED <<pkSearch, pkDef, mSpawnArgs, pkExec>>

loadFromFile ==
    /\ pkPc = "read"
    /\ pkPc' \in {"attach", "failed"}    \* it cannot be opened or is not JSON
    /\ UNCHANGED <<pkSearch, pkFile, pkDef, mSpawnArgs, pkExec>>

attachContextObject(def, name, ctx) == [def EXCEPT !.contexts = Merged([n \in {name} |-> ctx], @)]

\* The file ENV_CONTEXTS names, read for every question; it may be unreadable.
getContextsFromEnvironment == {EnvContexts, Failed}

\* The application attaches a context of its environment, or none.
AttachContext ==
    /\ pkPc = "attach"
    /\ \/ \E ctxs \in getContextsFromEnvironment :
            IF ctxs = Failed THEN pkPc' = "failed" /\ UNCHANGED pkDef
            ELSE \E name \in DOMAIN ctxs : pkPc' = "check" /\ pkDef' = attachContextObject(pkDef, name, ctxs[name])
       \/ pkPc' = "check" /\ UNCHANGED pkDef
    /\ UNCHANGED <<pkSearch, pkFile, mSpawnArgs, pkExec>>

isContextDefined(def, name) == name \in DOMAIN def.contexts /\ def.contexts[name].isObject

checkNamedContexts(def) ==
    \A c \in DOMAIN def.comps : def.comps[c].context # NoText => isContextDefined(def, def.comps[c].context)

\* Client::createSession refuses a definition with an unresolved context.
CheckDefinition ==
    /\ pkPc = "check"
    /\ pkPc' = IF checkNamedContexts(pkDef) THEN "define" ELSE "failed"
    /\ UNCHANGED <<pkSearch, pkFile, pkDef, mSpawnArgs, pkExec>>

-----------------------------------------------------------------------------
(* Environment, SpawnArgs, ShellContext, RezContext. *)

EmptyEnv == << >>
setFrom(env, obj) == Merged(obj, env)        \* an object's members replace
setFromCurrentOver(env) == Merged(CurrentEnv, env)    \* mutant: the client's variables replace
setFromCurrent(env) == Merged(env, CurrentEnv)     \* the client's variables only fill in

\* An empty directory is skipped, except as the last one, where it means "/".
findProgramInPath(dirs) ==
    LET from[i \in 1..Len(dirs) + 1] ==
            IF i > Len(dirs) THEN 0
            ELSE IF (dirs[i] # NoText \/ i = Len(dirs)) /\ dirs[i] \in ExecDirs THEN i
            ELSE from[i + 1]
    IN from[1]

Suffixed(program, pseudo) == IF pseudo = NoText THEN program ELSE <<program, pseudo>>

\* "source <file> && program args" under bash
SourceAndRun(args, file, program) ==
    [args EXCEPT !.program = "/bin/bash", !.args = <<"-c", <<file, program>> \o args.args>>]

ShellWrap(args, pseudo) == SourceAndRun(args, "script file", Suffixed(args.program, pseudo))

RezEnvironment == [REZ_PATH |-> "rezdir", PATH |-> "rezpath"]

RezPseudo(major, pseudo) == IF major = 1 /\ pseudo \notin {NoText, "default"} THEN pseudo ELSE NoText

BashEnvironment(major, pseudo) == IF RezPseudo(major, pseudo) = NoText THEN << >> ELSE [PSEUDO_NAME |-> pseudo]

\* rez 1 sources the baked context, rez 2 passes it to rez-env
RezWrap(args, major, file, pseudo) ==
    LET program == Suffixed(args.program, RezPseudo(major, pseudo))
    IN IF major = 1
       THEN [SourceAndRun(args, file, program) EXCEPT !.env = Merged(Merged(BashEnvironment(major, pseudo), RezEnvironment), @)]
       ELSE [args EXCEPT !.program = "rez-env",
                         !.args = <<"--input", file, "-c", <<program>> \o args.args>>,
                         !.env = Merged(RezEnvironment, @)]

-----------------------------------------------------------------------------
(* LocalSession::setDefinition.  What may fail for reasons outside the definition (a
   temporary file, rez itself) is a choice: these return the set of outcomes, Failed for
   a SessionError. *)

setScript == BOOLEAN         \* writes a temporary file
setContext == BOOLEAN        \* writes a temporary file
setContextFile == {TRUE}
setPackages == BOOLEAN       \* runs rez (module RezResolve), then setContext

applyNoPackaging(args, ctx) ==
    LET dirs == IF "PATH" \in DOMAIN args.env THEN PathDirs[args.env["PATH"]] ELSE << >>
        i == findProgramInPath(dirs)
    IN IF i = 0 THEN {Failed} ELSE {[args EXCEPT !.program = <<dirs[i], Suffixed("execComp", ctx.pseudo)>>]}

applyCurrentEnvironment(args, ctx) ==
    {[args EXCEPT !.env = setFromCurrent(@), !.program = Suffixed(@, ctx.pseudo)]}

applyShellPackaging(args, ctx) ==
    IF ctx.script = NoText THEN {Failed}
    ELSE {IF ok THEN ShellWrap(args, ctx.pseudo) ELSE Failed : ok \in setScript}

applyRezPackaging(major, args, ctx) ==
    LET file == IF ctx.rez = "file" THEN "given file" ELSE "generated file"
        set == CASE ctx.rez = "context" -> setContext
                 [] ctx.rez = "file" -> setContextFile
                 [] ctx.rez = "packages" -> setPackages
                 [] OTHER -> {FALSE}
    IN {IF ok THEN RezWrap(args, major, file, ctx.pseudo) ELSE Failed : ok \in set}

\* Requirements default to rez1, a named context to no packaging.
applyPackaging(args, ctx, named) ==
    LET system == IF ctx.system = NoText /\ ~named THEN "rez1" ELSE ctx.system
    IN CASE system \in {NoText, "none"} -> applyNoPackaging(args, ctx)
         [] system = "current-environment" -> applyCurrentEnvironment(args, ctx)
         [] system = "bash" -> applyShellPackaging(args, ctx)
         [] system = "rez1" -> applyRezPackaging(1, args, ctx)
         [] system = "rez2" -> applyRezPackaging(2, args, ctx)
         [] OTHER -> {Failed}

\* Unsigned: more reserved cores than the machine has wraps round.
AssignedCores(res) ==
    IF res.cores # NoValue THEN res.cores
    ELSE LET max == IF res.maxCores # NoValue THEN res.maxCores ELSE DEFAULT_MAX_CORES
             reserved == IF res.reservedCores # NoValue THEN res.reservedCores ELSE RESERVED_CORES
             free == (HardwareCores - reserved + UIntMod) % UIntMod
         IN IF free > max THEN max ELSE free

RequiredEnv == [ARRAS_ATHENA_ENV |-> "prod", USER |-> "logname"]

processComputation(comp, contexts) ==
    IF comp.context # NoText /\ comp.context \notin DOMAIN contexts THEN {Failed}
    ELSE LET named == comp.context # NoText
             ctx == IF named THEN contexts[comp.context] ELSE comp
             mb == IF comp.res.memory # NoValue THEN comp.res.memory ELSE DEFAULT_MEMORY_MB
             cores == AssignedCores(comp.res)
             own == setFrom(EmptyEnv, comp.env)
             env == setFrom(IF named THEN setFrom(own, ctx.env) ELSE own, RequiredEnv)
         IN applyPackaging([NoArgs EXCEPT !.mb = mb, !.cores = cores, !.env = env, !.cwd = comp.cwd,
                                          !.args = <<"--memoryMB", mb, "--cores", cores, "config file">>],
                           ctx, named)

buildRouting(clientDef) == clientDef.isObject    \* otherwise a SessionError

SetDefinition ==
    /\ pkPc = "define"
    /\ IF DOMAIN pkDef.comps = {"(client)", "comp"}
       THEN \E args \in processComputation(pkDef.comps["comp"], pkDef.contexts) :
              IF args = Failed \/ ~buildRouting(pkDef.comps["(client)"])
              THEN pkPc' = "failed" /\ UNCHANGED mSpawnArgs
              ELSE pkPc' = "write" /\ mSpawnArgs' = args
       ELSE pkPc' = "failed" /\ UNCHANGED mSpawnArgs
    /\ UNCHANGED <<pkSearch, pkFile, pkDef, pkExec>>

writeConfigFile ==
    /\ pkPc = "write"
    /\ pkPc' \in {"exec", "failed"}
    /\ UNCHANGED <<pkSearch, pkFile, pkDef, mSpawnArgs, pkExec>>

\* In the child: a working directory that cannot be entered is only logged.
doExec ==
    /\ pkPc = "exec" /\ pkPc' = "done"
    /\ \E cwd \in {mSpawnArgs.cwd, NoText}, found \in BOOLEAN :
         pkExec' = IF found THEN [program |-> mSpawnArgs.program, args |-> mSpawnArgs.args,
                                  env |-> mSpawnArgs.env, cwd |-> cwd]
                            ELSE [exit |-> "EXITSTATUS_EXECV_FAIL"]
    /\ UNCHANGED <<pkSearch, pkFile, pkDef, mSpawnArgs>>

PackNext == LoadDefinition \/ loadFromFile \/ AttachContext \/ CheckDefinition \/ SetDefinition \/ writeConfigFile \/ doExec

PackSpec == PackInit /\ [][PackNext]_packVars

-----------------------------------------------------------------------------

LocalComp == pkDef.comps["comp"]
Packaged == pkPc \in {"write", "exec", "done"}
Context == IF LocalComp.context = NoText THEN LocalComp ELSE pkDef.contexts[LocalComp.context]
System == IF Context.system # NoText THEN Context.system ELSE IF LocalComp.context = NoText THEN "rez1" ELSE "none"

\* Every variable the computation starts with has the value of the strongest layer
\* that defines it: rez, the required values, the named context, the computation, and
\* last the client's own environment, which only current-environment packaging adds.
EnvironmentLayers ==
    Packaged =>
        LET rez == CASE System = "rez1" -> Merged(BashEnvironment(1, Context.pseudo), RezEnvironment)
                     [] System = "rez2" -> RezEnvironment
                     [] OTHER -> << >>
            context == IF LocalComp.context = NoText THEN << >> ELSE Context.env
            current == IF System = "current-environment" THEN CurrentEnv ELSE << >>
            layers == <<rez, RequiredEnv, context, LocalComp.env, current>>
            env == mSpawnArgs.env
        IN /\ DOMAIN env = UNION {DOMAIN layers[i] : i \in 1..5}
           /\ \A v \in DOMAIN env : \E i \in 1..5 :
                v \in DOMAIN layers[i] /\ env[v] = layers[i][v] /\ \A j \in 1..i - 1 : v \notin DOMAIN layers[j]

\* Without packaging the computation runs the first execComp on the PATH of its own
\* environment, as the layers above it have left it.
ProgramIsFirst ==
    LET dirs(env) == PathDirs[env["PATH"]]
        holds(env, i) == dirs(env)[i] \in ExecDirs /\ (dirs(env)[i] # NoText \/ i = Len(dirs(env)))
    IN Packaged /\ System = "none" =>
         \E i \in 1..Len(dirs(mSpawnArgs.env)) :
            /\ mSpawnArgs.program[1] = dirs(mSpawnArgs.env)[i] /\ holds(mSpawnArgs.env, i)
            /\ \A j \in 1..i - 1 : ~holds(mSpawnArgs.env, j)
=============================================================================
