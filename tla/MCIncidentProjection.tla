------------------------- MODULE MCIncidentProjection -------------------------
(***************************************************************************)
(* Instances of IncidentProjection for TLC.  An automatic recommendation   *)
(* is executed while a person first rejects and then approves it; the      *)
(* rejection and the execution share a timestamp.  Two events of other     *)
(* incidents are as new as these, so that both push the earlier ones out   *)
(* of a replay of two, and only one is as new as the approval.             *)
(***************************************************************************)
EXTENDS IncidentProjection

CONSTANTS recommended, rejected, executed, approved, opened, closed

MCTimeOf ==
    (recommended :> 1) @@ (rejected :> 2) @@ (executed :> 2) @@ (approved :> 3)
        @@ (opened :> 2) @@ (closed :> 3)

MCStatusOf ==
    (recommended :> "remediating") @@ (rejected :> "failed")
        @@ (executed :> "validating") @@ (approved :> "remediating")
=============================================================================
