------------------------------ MODULE RezResolve ------------------------------
(***************************************************************************)
(* rezResolve: each computation of a session definition that names rez     *)
(* packages gets them resolved by running rez in a child process whose     *)
(* stdout and stderr are captured through two pipes.  Threads: the         *)
(* resolver, one detached ioCaptureProc per child; rez itself is external: *)
(* it prints what one of Scripts says, may hang, and exits.  One unit of   *)
(* data stands for one read of at most 1024 bytes.                         *)
(***************************************************************************)
EXTENDS Integers, Sequences, SequencesExt

CONSTANTS
    RezDefinitions,   \* the session definitions: sequences of computation settings
    Scripts,          \* what rez may print: sequences of "out" and "err"
    PipeCapacity,     \* units a pipe holds
    ReqVersion2Set    \* the environment names a rez 2 version

CaptureStreams == {"out", "err"}

ASSUME RezAssumption ==
    /\ \A def \in RezDefinitions : Len(def) \in Nat
    /\ Scripts \subseteq Seq(CaptureStreams)

VARIABLES
    rzDef,        \* the definition, chosen once
    rzAt,         \* the computation rezResolve is at
    rzPc,         \* rezResolve: next, spawn, wait, remove, judge, done
    rzFinished,   \* waitForExit returned TRUE
    rzOk,         \* the result of rezResolve
    rzContext,    \* computation -> its "rez_context", << >> when it has none
    rzCapture,    \* RezContext -> the strings of its SimpleIoCapture
    rzChild,      \* computation -> its rez: [st, script, at, status]
    rzPipe,       \* computation -> its pipes: [out, err, parent: the parent holds write ends]
    rzThread      \* computation -> ioCaptureProc: [pc, open]

rezVars == <<rzDef, rzAt, rzPc, rzFinished, rzOk, rzContext, rzCapture, rzChild, rzPipe, rzThread>>

RezComps == 1..Len(rzDef)

\* SimpleIoCapture: emptied, and added to.
Cleared == [out |-> << >>, err |-> << >>]
Captured(capture, stream, unit) == [capture EXCEPT ![stream] = Append(@, unit)]

RezInit ==
    /\ rzDef \in RezDefinitions
    /\ rzAt = 1 /\ rzPc = "next" /\ rzFinished = FALSE /\ rzOk = TRUE
    /\ rzContext = [c \in RezComps |-> << >>]
    /\ rzCapture = [c \in RezComps |-> Cleared]
    /\ rzChild = [c \in RezComps |-> [st |-> "none", script |-> << >>, at |-> 0, status |-> 0]]
    /\ rzPipe = [c \in RezComps |-> [out |-> << >>, err |-> << >>, parent |-> FALSE]]
    /\ rzThread = [c \in RezComps |-> [pc |-> "none", open |-> CaptureStreams]]

-----------------------------------------------------------------------------
(* rezResolve and RezContext. *)

\* The constructor throws when it does not know which rez 2 to run.
RezContextMade(system) == system = "rez1" \/ ReqVersion2Set

\* What rezResolve does with one computation's settings.
\* s = [requirements: none, invalid, object; system; packages: is rez_packages given]
Outcome(s) ==
    CASE s.requirements = "none" -> "ok"
      [] s.requirements = "invalid" -> "error"
      [] s.system \in {"", "none"} \/ ~s.packages -> "ok"
      [] s.system \in {"rez1", "rez2"} /\ RezContextMade(s.system) -> "resolve"
      [] OTHER -> "error"    \* an unknown system, or an exception

EndResolve(ok) == rzPc' = "done" /\ rzOk' = ok /\ rzAt' = rzAt
NextRequirements == rzPc' = "next" /\ rzAt' = rzAt + 1 /\ UNCHANGED rzOk

\* Every resolution has a RezContext, and with it a capture, of its own.
CaptureSharedContext(c) == 1    \* mutant: one RezContext kept for the whole definition
CaptureOf(c) == c

NextComputation ==
    /\ rzPc = "next"
    /\ IF rzAt > Len(rzDef) THEN EndResolve(TRUE)
       ELSE CASE Outcome(rzDef[rzAt]) = "ok" -> NextRequirements
              [] Outcome(rzDef[rzAt]) = "error" -> EndResolve(FALSE)
              [] OTHER -> rzPc' = "spawn" /\ UNCHANGED <<rzAt, rzOk>>
    /\ UNCHANGED <<rzDef, rzFinished, rzContext, rzCapture, rzChild, rzPipe, rzThread>>

\* doPackageResolve clears the capture and spawns rez; the parent closes its write
\* ends before it starts the capture thread.
ParentKeepsEnds == TRUE    \* mutant: the write ends stay open in the parent
ParentHolds == FALSE

SpawnRez ==
    /\ rzPc = "spawn"
    /\ rzCapture' = [rzCapture EXCEPT ![CaptureOf(rzAt)] = Cleared]
    /\ \/ \E s \in Scripts :
            /\ rzChild' = [rzChild EXCEPT ![rzAt] = [st |-> "running", script |-> s, at |-> 0, status |-> 0]]
            /\ rzPipe' = [rzPipe EXCEPT ![rzAt].parent = ParentHolds]
            /\ rzThread' = [rzThread EXCEPT ![rzAt].pc = "out"]
            /\ rzPc' = "wait" /\ UNCHANGED <<rzAt, rzOk>>
       \/ \* pipe or fork fails
          EndResolve(FALSE) /\ UNCHANGED <<rzChild, rzPipe, rzThread>>
    /\ UNCHANGED <<rzDef, rzFinished, rzContext>>

\* waitForExit ends when the child's exit has been seen, or after REZ_CONFIG_TIMEOUT.
WaitForRez ==
    /\ rzPc = "wait"
    /\ rzFinished' = (rzChild[rzAt].st = "exited")
    /\ rzPc' = "remove"
    /\ UNCHANGED <<rzDef, rzAt, rzOk, rzContext, rzCapture, rzChild, rzPipe, rzThread>>

\* removeProcess kills what still runs and waits for its exit.
RemoveRez ==
    /\ rzPc = "remove"
    /\ rzChild' = [rzChild EXCEPT ![rzAt] = IF @.st = "running" THEN [@ EXCEPT !.st = "exited", !.status = 9] ELSE @]
    /\ rzPc' = "judge"
    /\ UNCHANGED <<rzDef, rzAt, rzFinished, rzOk, rzContext, rzCapture, rzPipe, rzThread>>

\* resolvePackages: the captured output, nothing when doPackageResolve failed.
resolvePackages(c) ==
    LET out == rzCapture[CaptureOf(c)].out
    IN IF rzFinished /\ rzChild[c].status = 0 THEN out ELSE << >>

\* The error conditions, then what the capture holds becomes the context.
JudgeOutput ==
    /\ rzPc = "judge"
    /\ \E out \in {resolvePackages(rzAt)} :
         IF out # << >>
         THEN rzContext' = [rzContext EXCEPT ![rzAt] = out] /\ NextRequirements
         ELSE EndResolve(FALSE) /\ UNCHANGED rzContext
    /\ UNCHANGED <<rzDef, rzFinished, rzCapture, rzChild, rzPipe, rzThread>>

-----------------------------------------------------------------------------
(* The child and its capture thread. *)

\* doExec replaces the forked child by rez, which writes to the pipes (external).
RezWrites(c) ==
    /\ rzChild[c].st = "running" /\ rzChild[c].at < Len(rzChild[c].script)
    /\ LET n == rzChild[c].at + 1
           s == rzChild[c].script[n]
       IN /\ Len(rzPipe[c][s]) < PipeCapacity
          /\ rzPipe' = [rzPipe EXCEPT ![c][s] = Append(@, <<c, n>>)]
          /\ rzChild' = [rzChild EXCEPT ![c].at = n]
    /\ UNCHANGED <<rzDef, rzAt, rzPc, rzFinished, rzOk, rzContext, rzCapture, rzThread>>

\* A script of no output also stands for a failed exec, which exits with an error.
RezExits(c) ==
    /\ rzChild[c].st = "running" /\ rzChild[c].at = Len(rzChild[c].script)
    /\ \E status \in {0, 1} : rzChild' = [rzChild EXCEPT ![c].st = "exited", ![c].status = status]
    /\ UNCHANGED <<rzDef, rzAt, rzPc, rzFinished, rzOk, rzContext, rzCapture, rzPipe, rzThread>>

\* One blocking read: stdout and stderr in turn, while they are open.
Ended(c) == rzChild[c].st = "exited" /\ ~rzPipe[c].parent
OtherStream(s) == IF s = "out" THEN "err" ELSE "out"

CaptureReads(c) ==
    /\ rzThread[c].pc \in CaptureStreams
    /\ LET s == rzThread[c].pc
           open == IF rzPipe[c][s] = << >> THEN rzThread[c].open \ {s} ELSE rzThread[c].open
       IN /\ rzPipe[c][s] # << >> \/ Ended(c)
          /\ rzPipe' = [rzPipe EXCEPT ![c][s] = IF @ = << >> THEN @ ELSE Tail(@)]
          /\ rzCapture' = [rzCapture EXCEPT ![CaptureOf(c)] = IF rzPipe[c][s] = << >> THEN @ ELSE Captured(@, s, Head(rzPipe[c][s]))]
          /\ rzThread' = [rzThread EXCEPT ![c] =
                [open |-> open,
                 pc |-> IF OtherStream(s) \in open THEN OtherStream(s) ELSE IF open # {} THEN s ELSE "ended"]]
    /\ UNCHANGED <<rzDef, rzAt, rzPc, rzFinished, rzOk, rzContext, rzChild>>

-----------------------------------------------------------------------------

Resolver == NextComputation \/ SpawnRez \/ WaitForRez \/ RemoveRez \/ JudgeOutput

RezNext ==
    \/ Resolver
    \/ \E c \in RezComps : RezWrites(c) \/ RezExits(c) \/ CaptureReads(c)

\* The resolver and the capture threads run; the timeout of waitForExit passes.  Rez
\* itself may stop for ever.
RezFairness == WF_rezVars(Resolver) /\ \A c \in 1..2 : WF_rezVars(c \in RezComps /\ CaptureReads(c))

RezSpec == RezInit /\ [][RezNext]_rezVars /\ RezFairness

\* units is what the first n steps of c's script print to s, in order and all of it.
Printed(c, script, s, units, n) ==
    /\ \A k \in 1 .. Len(units) : units[k] \in {<<c, m>> : m \in 1 .. n}
    /\ \A k, l \in 1 .. Len(units) : k < l => units[k][2] < units[l][2]
    /\ \A m \in 1 .. n : script[m] = s <=> \E k \in 1 .. Len(units) : units[k] = <<c, m>>

\* A computation's context holds output of the rez that was run for it, in order and
\* from its beginning: the capture thread of an earlier child, which may still be
\* reading after that child's resolution has ended, adds nothing to it.
ContextIsOwnOutput ==
    \A c \in RezComps : \E n \in 0 .. Len(rzChild[c].script) : Printed(c, rzChild[c].script, "out", rzContext[c], n)

\* The resolution of a definition ends whatever rez does, and so do the capture
\* threads: rez is killed after the timeout, and nobody else holds the write ends.
ResolveEnds == <>[](rzPc = "done" /\ \A c \in RezComps : rzThread[c].pc \in {"none", "ended"})

\* A resolution that succeeds returns the context that rez printed, all of it
\* (ioCaptureProc is not waited for, so the code does not keep this).
ContextComplete ==
    \A c \in RezComps : rzContext[c] # << >> =>
        Len(rzContext[c]) = Len(SelectSeq(rzChild[c].script, LAMBDA s : s = "out"))
=============================================================================
