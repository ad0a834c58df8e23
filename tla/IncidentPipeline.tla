--------------------------- MODULE IncidentPipeline ----------------------------
(****************************************************************************)
(* From a recommendation to a closed incident: ApprovalService,             *)
(* RemediationEngine and ClosureService, each a process of its own with its *)
(* own transactions, joined by the topics of IncidentBus.                   *)
(****************************************************************************)
EXTENDS ApprovalService, RemediationEngine, ClosureService

vars == <<delivery, topics, counters, approvalVars, engineVars, closureVars>>

TypeOK == BusTypeOK /\ ApprovalTypeOK /\ EngineTypeOK /\ ClosureTypeOK

Init == BusInit /\ ApprovalInit /\ EngineInit /\ ClosureInit

Approve == ApprovalNext /\ UNCHANGED <<engineVars, closureVars>>
Remediate == EngineNext /\ UNCHANGED <<approvalVars, closureVars>>
Close == ClosureNext /\ UNCHANGED <<approvalVars, engineVars>>
Transport == BusNext /\ UNCHANGED <<approvalVars, engineVars, closureVars>>

Next == Approve \/ Remediate \/ Close \/ Transport

Spec == Init /\ [][Next]_vars

\* A service whose event loop has a handler that can go on runs one of them,
\* and the brokers deliver what they hold.  Nothing makes a client decide, a
\* recommendation appear or a fault happen.
Fairness ==
    /\ WF_vars(ApprovalStep /\ UNCHANGED <<delivery, engineVars, closureVars>>)
    /\ WF_vars(/\ \E m \in Sources : EngineStep(m)
               /\ UNCHANGED <<delivery, approvalVars, closureVars>>)
    /\ WF_vars(/\ \E a \in remediationEvents : ClosureStep(a)
               /\ UNCHANGED <<delivery, approvalVars, engineVars>>)

FairSpec == Spec /\ Fairness

--------------------------------------------------------------------------------
\* A tool may run for m: an approval or a modification whose row is committed,
\* or a recommendation that needs no approval and that the policy lets through.
Authorised(m) ==
    \/ m \in approvals /\ Decision[m].decision \in {"approved", "modified"}
    \/ /\ m \in Resolutions /\ ~RequiresApproval(m)
       /\ Payload[m].confidence >= MinConfidence
       /\ Payload[m].evidence /\ Payload[m].reasoning
       /\ Payload[m].tier = "high" => Payload[m].confidence >= HighRiskConfidence

\* No tool runs on the incident unless the decision it runs for is already in
\* the database, or the recommendation may be executed without one.
ExecutionsAuthorised ==
    \A m \in Sources : hand[m].status \in {"succeeded", "failed"} => Authorised(m)

\* No consumer of a topic ever sees what the database does not hold: every
\* decision, action and report that is published is committed before, and so
\* is the event of every action that was not blocked by the policy.
RecordedBeforePublished ==
    /\ approvalEvents \subseteq approvals
    /\ remediationEvents \subseteq actions
    /\ \A a \in remediationEvents :
         a \in executed \/ (a.origin \in Resolutions /\ ~PolicyAllows(a.origin))
    /\ closureEvents \subseteq reports

\* An incident is closed only when some authorised action, recorded and
\* reported on, succeeded: never for a rejection, a blocked action or a failure.
ClosedIsEarned ==
    status = "closed" =>
        \E a \in actions \cap reports : a.status = "succeeded" /\ Authorised(a.origin)

\* What the pipeline claims, by an event or by the status of the incident, has happened.
ClaimsAreBacked == RecordedBeforePublished /\ ClosedIsEarned

\* A decision leads to more than one action only as often as something went
\* wrong; in a run without faults every decision is acted on at most once.
RepeatsNeedFaults == \A m \in Sources : built[m] <= faults + 1

\* A message that asks for a remediation, and how it ends: with a closure event
\* for an action of its own, or in a dead-letter queue.
Asks(m) ==
    \/ m \in approvalEvents
    \/ m \in resolutionEvents /\ ~RequiresApproval(m)

Concluded(m) ==
    \/ stage[m] = "dead"
    \/ \E a \in remediationEvents :
         a.origin = m /\ (a \in closureEvents \/ StageOf(a) = "dead")

\* What Kafka may lose, and nothing else: the record was handed to the other service of
\* the group; its dead letter could not be sent either; or its consumer has ended.
LetGo(m) ==
    /\ transport = "kafka"
    /\ \/ stage[m] = "passed" \/ (stage[m] = "waiting" /\ ~Handed(m))
       \/ \E a \in remediationEvents :
            /\ a.origin = m
            /\ StageOf(a) = "passed" \/ (StageOf(a) = "waiting" /\ "closure" \in stopped)

\* Once no more decisions, recommendations and faults come, every message that asks for
\* a remediation is concluded and stays so, through retries and restarts of three
\* services: over RabbitMQ without exception, over Kafka unless the record was let go.
EveryDecisionConcluded == <>[](\A m \in Sources : Asks(m) => Concluded(m) \/ LetGo(m))

\* "High/critical incidents require a human approver identity.": once the
\* service has received a high-risk recommendation for the incident it accepts
\* no decision of an agent.
HighRiskNeedsHuman ==
    [][\A q \in Requests :
         request[q] = "new" /\ request'[q] = "accepted" /\ Decision[q].approver = "agent" =>
           \A r \in received : Payload[r].severity \notin {"high", "critical"}]_vars
================================================================================
