---------------------------- MODULE ApprovalService ----------------------------
(****************************************************************************)
(* services/approval-service/app.py: the decisions humans and agents take   *)
(* on an incident.  PENDING_INCIDENTS keeps, in memory, the last payload    *)
(* written for the incident: the resolution event the consumer received, or *)
(* the dump of the last Approval, which replaces it.                        *)
(****************************************************************************)
EXTENDS IncidentBus

CONSTANT Nothing   \* PENDING_INCIDENTS has no entry

VARIABLES
    pending,     \* PENDING_INCIDENTS[incident]
    received,    \* resolution messages the consumer has handled
    request,     \* how far each HTTP request is
    approvals    \* requests whose Approval and event are committed

approvalVars == <<pending, received, request, approvals>>

RequestState == {"new", "accepted", "recorded", "published", "refused", "failed"}

ApprovalTypeOK ==
    /\ pending \in Resolutions \cup Requests \cup {Nothing}
    /\ received \subseteq resolutionEvents
    /\ request \in [Requests -> RequestState]
    /\ approvals \subseteq Requests

ApprovalInit ==
    /\ pending = Nothing /\ received = {}
    /\ request = [q \in Requests |-> "new"] /\ approvals = {}

\* _pending_severity_for_incident: an Approval's dump has no "recommendation"
\* and no "incident", so it has no severity.
PendingIsHighRisk ==
    /\ pending \in Resolutions
    /\ Payload[pending].severity \in {"high", "critical"}

\* resolution-agent, and POST /resolve, publish a recommendation.
Recommend(r) ==
    /\ Enter
    /\ r \notin resolutionEvents
    /\ resolutionEvents' = resolutionEvents \cup {r}
    /\ HandedTo(r)
    /\ UNCHANGED <<transport, stopped, approvalVars, approvalEvents, remediationEvents, closureEvents>>

\* handle: the only effect is the assignment; a redelivery assigns again.
ReceiveResolution(r) ==
    /\ r \in resolutionEvents
    /\ "approval" \in reach[r] /\ "approval" \notin stopped
    /\ \/ r \notin received /\ UNCHANGED counters
       \/ r \in received /\ Fault
    /\ pending' = r
    /\ received' = received \cup {r}
    /\ UNCHANGED <<request, approvals, topics>>

\* _enforce_high_risk_human_gate, which also precedes a rejection.
GateRefuses(q) == PendingIsHighRisk /\ Decision[q].approver = "agent"

\* _store_and_publish up to its first await: the entry is overwritten.
Accept(q) == request' = [request EXCEPT ![q] = "accepted"] /\ pending' = q

\* approve, reject, modify.
Submit(q) ==
    /\ Enter
    /\ request[q] = "new"
    /\ IF GateRefuses(q)
         THEN request' = [request EXCEPT ![q] = "refused"] /\ UNCHANGED pending
         ELSE Accept(q)
    /\ UNCHANGED <<received, approvals, topics>>

\* The transaction that saves the Approval and its incident event.
RecordDecision(q) ==
    /\ request[q] = "accepted"
    /\ request' = [request EXCEPT ![q] = "recorded"]
    /\ approvals' = approvals \cup {q}
    /\ UNCHANGED <<pending, received, topics, counters>>

\* Mutant: the decision is published without waiting for the commit.
PublishDecisionEarly(q) ==
    /\ request[q] \in {"accepted", "recorded"}
    /\ request' = [request EXCEPT ![q] = "published"]
    /\ approvalEvents' = approvalEvents \cup {q}
    /\ UNCHANGED <<pending, received, approvals,
                   resolutionEvents, remediationEvents, closureEvents, counters>>

\* producer.publish(APPROVAL_EVENTS, ...), after the commit.
PublishDecision(q) ==
    /\ request[q] = "recorded"
    /\ request' = [request EXCEPT ![q] = "published"]
    /\ approvalEvents' = approvalEvents \cup {q}
    /\ UNCHANGED <<pending, received, approvals,
                   resolutionEvents, remediationEvents, closureEvents, counters>>

\* The transaction or the publish raises and the client gets a 500; the broker
\* may have taken the message all the same.  The entry stays overwritten.
RequestFails(q) ==
    /\ Fault
    /\ request[q] \in {"accepted", "recorded"}
    /\ request' = [request EXCEPT ![q] = "failed"]
    /\ \/ UNCHANGED approvalEvents
       \/ request[q] = "recorded" /\ approvalEvents' = approvalEvents \cup {q}
    /\ UNCHANGED <<pending, received, approvals,
                   resolutionEvents, remediationEvents, closureEvents>>

\* The process ends and starts again: its memory is gone, and so are the
\* requests in progress; what it had handled is not delivered again.
ApprovalRestarts ==
    /\ Fault
    /\ Restarted({"approval"})
    /\ pending' = Nothing
    /\ request' = [q \in Requests |->
                     IF request[q] \in {"accepted", "recorded"} THEN "failed" ELSE request[q]]
    /\ UNCHANGED <<received, approvals, topics>>

ApprovalStep == \E q \in Requests : RecordDecision(q) \/ PublishDecision(q)

ApprovalNext ==
    \/ \E r \in Resolutions : Recommend(r)
    \/ /\ \/ \E r \in Resolutions : ReceiveResolution(r)
          \/ \E q \in Requests : Submit(q) \/ RequestFails(q)
          \/ ApprovalStep
       /\ UNCHANGED delivery
    \/ ApprovalRestarts
================================================================================
