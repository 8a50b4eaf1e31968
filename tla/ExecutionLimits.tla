---------------------------- MODULE ExecutionLimits ----------------------------
(***************************************************************************)
(* ExecutionLimits, and the start of execComp: its main takes the limits   *)
(* from the command line and reads the config file, the computation may    *)
(* give up hyperthreads, startDispatching applies them to the threads of   *)
(* the process, and toObject and setFromObject carry them in a             *)
(* configuration object.  A processor list is a sequence of entries,       *)
(* BadEntry for text that is not a plain number.                           *)
(***************************************************************************)
EXTENDS Integers, Sequences, FiniteSets

CONSTANTS
    Options,        \* execComp's command lines: [mb, cores, tpc, affinity, cpus, htCpus]
    UnsignedMax,    \* numeric_limits<unsigned int>::max()
    CpuSetSize,     \* CPU_SETSIZE, 1024
    Tasks           \* the threads of the process

ASSUME LimitAssumption ==
    /\ Options \subseteq [mb : Int, cores : Int, tpc : Int, affinity : BOOLEAN, cpus : Seq(Int), htCpus : Seq(Int)]
    /\ CpuSetSize \in Nat

BadEntry == -1
NotGiven == <<-2>>    \* a processor list that is absent
DEFAULT_MEM_MB == 2048
NORMAL == 0
INVALID_CMDLINE == 1
CONFIG_FILE_LOAD_ERROR == 2

VARIABLES
    xlPc,         \* main, options, config, init, apply, done, failed
    xlExit,       \* what main has returned, NORMAL when it has not
    xlOpt,        \* the command line
    xlLimits,     \* [unlimited, mb, cores, tpc, affinity, cpus]
    xlPinned,     \* threads whose affinity has been set
    xlAlive       \* threads that have not ended

limitVars == <<xlPc, xlExit, xlOpt, xlLimits, xlPinned, xlAlive>>

Unlimited == [unlimited |-> TRUE, mb |-> DEFAULT_MEM_MB, cores |-> 1, tpc |-> 1, affinity |-> FALSE, cpus |-> {}]

LimitInit ==
    /\ xlPc = "main" /\ xlExit = NORMAL /\ xlOpt \in Options /\ xlLimits = Unlimited
    /\ xlPinned = {} /\ xlAlive = Tasks

-----------------------------------------------------------------------------
(* Processor lists.  Entries are counted, not processors: a repeated one counts twice. *)

ValidList(list, required) ==
    /\ list # NotGiven /\ list # << >> /\ Len(list) = required
    /\ \A i \in 1..Len(list) : list[i] \in 0..CpuSetSize - 1
procListToCpuSet(list) == {list[i] : i \in 1..Len(list)}

cpuSetToProcList(cpus) ==
    LET from[i \in 0..CpuSetSize] == IF i = CpuSetSize THEN << >>
                                     ELSE IF i \in cpus THEN <<i>> \o from[i + 1] ELSE from[i + 1]
    IN from[0]

\* Unchanged when a list is wrong or the two overlap.
enableAffinity(limits, cpus, htCpus) ==
    IF ~ValidList(cpus, limits.cores) THEN limits
    ELSE IF limits.tpc <= 1 THEN [limits EXCEPT !.affinity = TRUE, !.cpus = procListToCpuSet(cpus)]
    ELSE IF \/ ~ValidList(htCpus, limits.cores * (limits.tpc - 1))
            \/ procListToCpuSet(cpus) \cap procListToCpuSet(htCpus) # {}
         THEN limits
         ELSE [limits EXCEPT !.affinity = TRUE, !.cpus = procListToCpuSet(cpus) \cup procListToCpuSet(htCpus)]

-----------------------------------------------------------------------------
(* execComp's main, initializeComputation, apply. *)

GoOn(pc) == xlPc' = pc /\ xlExit' = xlExit
Exit(code) == xlPc' = "failed" /\ xlExit' = code

ParseCmdLine ==
    /\ xlPc = "main"
    /\ GoOn("options") \/ Exit(INVALID_CMDLINE)    \* options that boost refuses
    /\ UNCHANGED <<xlOpt, xlLimits, xlPinned, xlAlive>>

\* No config file is named, or it cannot be opened or read.
LoadConfig ==
    /\ xlPc = "config"
    /\ GoOn("init") \/ Exit(CONFIG_FILE_LOAD_ERROR)
    /\ UNCHANGED <<xlOpt, xlLimits, xlPinned, xlAlive>>

\* initializeLimits returns FALSE: the limits are not used any more.
Refused(opt) ==
    \/ opt.mb > UnsignedMax \/ opt.cores < 0
    \/ opt.affinity /\ (opt.cpus = NotGiven \/ (opt.htCpus = NotGiven /\ opt.tpc > 1))

\* A processor list that is refused does not stop execComp: it runs without affinity.
InitializeLimits ==
    /\ xlPc = "options"
    /\ IF Refused(xlOpt) THEN Exit(INVALID_CMDLINE) /\ xlLimits' = [xlLimits EXCEPT !.unlimited = FALSE]
       ELSE /\ GoOn("config")
            /\ \E base \in {[Unlimited EXCEPT !.unlimited = FALSE, !.mb = xlOpt.mb, !.cores = xlOpt.cores, !.tpc = xlOpt.tpc]} :
                 xlLimits' = IF xlOpt.affinity THEN enableAffinity(base, xlOpt.cpus, xlOpt.htCpus) ELSE base
    /\ UNCHANGED <<xlOpt, xlPinned, xlAlive>>

\* Without wantsHyperthreading the threads per core go down to one; the processors of
\* the affinity stay.
InitializeComputation ==
    /\ xlPc = "init" /\ GoOn("apply")
    /\ \E wants \in BOOLEAN : xlLimits' = IF wants THEN xlLimits ELSE [xlLimits EXCEPT !.tpc = 1]
    /\ UNCHANGED <<xlOpt, xlPinned, xlAlive>>

\* One thread of /proc/<pid>/task at a time; a thread that has ended makes it stop.
Apply ==
    /\ xlPc = "apply"
    /\ IF ~xlLimits.affinity \/ xlLimits.unlimited \/ xlPinned = Tasks
       THEN GoOn("done") /\ UNCHANGED xlPinned
       ELSE \E t \in Tasks \ xlPinned :
              IF t \in xlAlive THEN xlPinned' = xlPinned \cup {t} /\ GoOn("apply")
                               ELSE GoOn("done") /\ UNCHANGED xlPinned
    /\ UNCHANGED <<xlOpt, xlLimits, xlAlive>>

TaskEnds(t) ==
    /\ xlPc = "apply" /\ t \in xlAlive /\ Cardinality(xlAlive) > 1
    /\ xlAlive' = xlAlive \ {t}
    /\ UNCHANGED <<xlPc, xlExit, xlOpt, xlLimits, xlPinned>>

LimitNext ==
    ParseCmdLine \/ InitializeLimits \/ LoadConfig \/ InitializeComputation \/ Apply \/ \E t \in Tasks : TaskEnds(t)

LimitSpec == LimitInit /\ [][LimitNext]_limitVars

-----------------------------------------------------------------------------
(* The configuration object. *)

toObject(limits) ==
    IF limits.unlimited THEN [unlimited |-> TRUE]
    ELSE [unlimited |-> FALSE, mb |-> limits.mb, cores |-> limits.cores, tpc |-> limits.tpc,
          affinity |-> limits.affinity,
          cpus |-> IF limits.affinity THEN cpuSetToProcList(limits.cpus) ELSE NotGiven]

\* Onto default limits; numbers must be positive.  << >> when it returns FALSE.
setFromObject(obj) ==
    IF obj.unlimited THEN Unlimited
    ELSE IF obj.mb <= 0 \/ obj.cores <= 0 \/ obj.tpc <= 0 THEN << >>
    ELSE LET base == [Unlimited EXCEPT !.unlimited = FALSE, !.mb = obj.mb, !.cores = obj.cores, !.tpc = obj.tpc]
         IN IF ~obj.affinity THEN base ELSE enableAffinity(base, obj.cpus, << >>)

\* The limits that l's object gives back: of unlimited ones the rest is not stored, of
\* limits without affinity the processors are not.
SameLimits(restored, l) ==
    IF l.unlimited THEN restored = Unlimited
    ELSE /\ ~restored.unlimited /\ restored.mb = l.mb /\ restored.cores = l.cores /\ restored.tpc = l.tpc
         /\ restored.affinity <=> l.affinity
         /\ restored.cpus = IF l.affinity THEN l.cpus ELSE {}

\* What toObject stores is what setFromObject restores, at every stage of the limits'
\* life, for positive limits of one thread per core whose affinity names as many
\* processors as cores (with hyperthreads, repeated processors or zero it does not).
LimitsRestored ==
    LET l == xlLimits
    IN l.mb > 0 /\ l.cores > 0 /\ l.tpc = 1 /\ (l.affinity => Cardinality(l.cpus) = l.cores) =>
            SameLimits(setFromObject(toObject(l)), l)
=============================================================================
