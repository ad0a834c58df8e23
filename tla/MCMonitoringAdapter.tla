------------------------- MODULE MCMonitoringAdapter -------------------------
(***************************************************************************)
(* The two parts of the monitoring adapter, the worker that projects the   *)
(* events and the workflow run in its own process.  They share no          *)
(* variable: a behaviour runs one of them, the other stays where it starts.*)
(* Of the workflow, a person decides in one of every way, and the request  *)
(* is sent again while the first one is under way.                         *)
(***************************************************************************)
EXTENDS MCIncidentProjection, LocalWorkflow

CONSTANTS first, again

VARIABLE running

AdapterInit == running \in {"projection", "workflow"} /\ ProjectionInit /\ Init

AdapterNext ==
    \/ running = "projection" /\ UNCHANGED <<running, vars>> /\ ProjectionNext
    \/ running = "workflow" /\ UNCHANGED <<running, projectionVars>> /\ Next

\* The fairness of both modules, each while its part runs.
ReplayGoesOn == running = "projection" /\ Replay
SaveGoesOn(s) == running = "projection" /\ Save(s)
WorkGoesOn(w) == running = "workflow" /\ Work(w)

AdapterFairness ==
    /\ WF_projectionVars(ReplayGoesOn) /\ \A s \in Sessions : WF_projectionVars(SaveGoesOn(s))
    /\ \A w \in Writers : WF_vars(WorkGoesOn(w))

AdapterSpec == AdapterInit /\ [][AdapterNext]_<<running, projectionVars, vars>> /\ AdapterFairness
=============================================================================
