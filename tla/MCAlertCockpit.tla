--------------------------- MODULE MCAlertCockpit ---------------------------
(***************************************************************************)
(* The two halves of the cockpit, which share no variable: a behaviour     *)
(* runs one of them.  The details of two alerts, and of one row of the     *)
(* landing pad that becomes the first; the approval and the execution of   *)
(* two incidents, whose operator starts in the queue.                      *)
(***************************************************************************)
EXTENDS AlertCockpit, ApprovalDesk, TLC

CONSTANTS u1, u2, f1, i1, i2

MCAlerts == {u1, u2}
MCFiles == {f1}
MCCanonicalOf == f1 :> u1
TwoIncidents == {i1, i2}

VARIABLE part

PartInit == part \in {"details", "desk"} /\ CockpitInit /\ DeskInit

PartNext ==
    \/ part = "details" /\ UNCHANGED <<part, vars>> /\ CockpitNext
    \/ part = "desk" /\ UNCHANGED <<part, cockpitVars>> /\ DeskNext

\* The fairness of both modules, each while its part runs.
InDetails == part = "details"
InDesk == part = "desk"

PartFairness ==
    /\ WF_cockpitVars(InDetails /\ CommitCockpit) /\ WF_cockpitVars(InDetails /\ PollAnalysis)
    /\ WF_cockpitVars(InDetails /\ RetryAgain) /\ WF_cockpitVars(InDetails /\ Arrive)
    /\ WF_cockpitVars(InDetails /\ RefreshOpen) /\ WF_cockpitVars(InDetails /\ RefreshClosed)
    /\ \A a \in Alerts : /\ WF_cockpitVars(InDetails /\ Answer(a))
                         /\ WF_cockpitVars(InDetails /\ Regenerated(a))
    /\ WF_vars(InDesk /\ Commit)
    /\ WF_vars(InDesk /\ \E i \in Incidents : ContextAnswer(i))
    /\ WF_vars(InDesk /\ \E k \in calls : CallAnswered(k))
    /\ WF_vars(InDesk /\ \E n \in DOMAIN server.runs : RunEnds(n))
    /\ WF_vars(InDesk /\ \E i \in Incidents :
                            PollGivesUp(i) \/ \E failed \in BOOLEAN : PollAnswered(i, failed))
    /\ WF_vars(InDesk /\ DetailsRead)

PartSpec == PartInit /\ [][PartNext]_<<part, cockpitVars, vars>> /\ PartFairness
=============================================================================
