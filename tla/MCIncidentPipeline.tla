-------------------------- MODULE MCIncidentPipeline ---------------------------
EXTENDS IncidentPipeline, TLC

CONSTANTS rHigh, rAuto, rBlocked, qHuman, qAgent

Recommendation(approval, severity, tier, confidence) ==
    [decision |-> approval, metadata |-> approval, severity |-> severity, tier |-> tier,
     confidence |-> confidence, evidence |-> TRUE, reasoning |-> TRUE]

\* A critical recommendation of POST /resolve, which carries no decision; one the
\* policy executes by itself; and one it blocks because, with warnings mapped to
\* the high tier, the action needs more confidence.
MCPayload ==
    [r \in Resolutions |->
       CASE r = rHigh -> Recommendation("absent", "critical", "none", 97)
         [] r = rAuto -> Recommendation("no", "info", "low", 80)
         [] r = rBlocked -> Recommendation("no", "warning", "high", 94)]

MCDecision ==
    [q \in Requests |->
       CASE q = qHuman -> [decision |-> "approved", approver |-> "human"]
         [] q = qAgent -> [decision |-> "rejected", approver |-> "agent"]]
================================================================================
