-------------------------------- MODULE Services --------------------------------
(***************************************************************************)
(* The components beside the message path and the client.  They share no   *)
(* state; each has its own specification, and what they come to together   *)
(* is stated here.                                                         *)
(***************************************************************************)
EXTENDS Logging, HttpExchange, LogClient, ProgressSender, RezResolve, Packaging, ExecutionLimits,
        Coordinator, FarmHosts, MessagePlayer

\* The helper threads of a client end when they are asked to: those that capture its
\* output, whatever is still in the pipes, and the one that reports progress, whatever
\* the progress GUI does.
HelpersStop == CaptureCloses /\ ProgressStops

\* A computation is started with the environment, the program and the limits that its
\* definition, its contexts and the client's environment come to, layer over layer.
LaunchedAsDefined == EnvironmentLayers /\ ProgramIsFirst /\ LimitsRestored

\* What a client is told by the services it asks over HTTP is true, when they fail, do
\* not answer or lose an answer: whether a session exists, which farm hosts it has.
AnswersAreTrue == ExistenceIsAnswered /\ GroupsAreReal
=============================================================================
