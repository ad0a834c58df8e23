--------------------------- MODULE RemediationEngine ---------------------------
(****************************************************************************)
(* services/remediation-engine: what it does with a message of              *)
(* approval-events (handle_approval) and of resolution-events               *)
(* (handle_resolution).  Each await of a handler is a step, because other   *)
(* handlers run meanwhile and because the handler may raise or die there.   *)
(* Two messages are handled concurrently; the consumers of                  *)
(* KafkaConsumer and RabbitConsumer redeliver and retry.                    *)
(****************************************************************************)
EXTENDS IncidentBus

CONSTANTS MinConfidence, HighRiskConfidence   \* auto_execute_min_confidence and 0.95, in percent

ASSUME EngineAssumption == MinConfidence \in Percent /\ HighRiskConfidence \in Percent

VARIABLES
    stage,      \* how far the handler of each message is
    attempts,   \* failed attempts of the message in progress
    built,      \* RemediationActions made so far for the message
    hand,       \* the action the handler holds
    actions,    \* actions whose row and audit row are committed
    executed    \* actions whose incident.remediation.executed event is committed

engineVars == <<stage, attempts, built, hand, actions, executed>>

EngineStage == {"waiting", "ran", "blocked", "persisted", "ready", "done", "dead", "passed"}
Working == {"ran", "blocked", "persisted", "ready"}

EngineTypeOK ==
    /\ stage \in [Sources -> EngineStage]
    /\ attempts \in [Sources -> 0..(MaxAttempts - 1)]
    /\ built \in [Sources -> 0..(MaxFaults + 1)]
    /\ hand \in [Sources -> Action \cup {NoAction}]
    /\ actions \subseteq Action
    /\ executed \subseteq Action

EngineInit ==
    /\ stage = [m \in Sources |-> "waiting"]
    /\ attempts = [m \in Sources |-> 0]
    /\ built = [m \in Sources |-> 0]
    /\ hand = [m \in Sources |-> NoAction]
    /\ actions = {} /\ executed = {}

\* _resolution_requires_approval: a key that is present decides, even as None.
RequiresApproval(r) ==
    CASE Payload[r].decision # "absent" -> Payload[r].decision = "yes"
      [] Payload[r].decision = "absent" /\ Payload[r].metadata # "absent" ->
           Payload[r].metadata = "yes"
      [] OTHER -> TRUE

\* Mutant: the confidence is not looked at.
PolicyAllowsUnsure(r) == Payload[r].evidence /\ Payload[r].reasoning

\* _validate_auto_execution_policy.
PolicyAllows(r) ==
    /\ Payload[r].confidence >= MinConfidence
    /\ Payload[r].evidence /\ Payload[r].reasoning
    /\ Payload[r].tier = "high" => Payload[r].confidence >= HighRiskConfidence

Runs(m) ==
    IF m \in Requests THEN Decision[m].decision # "rejected"
                      ELSE ~RequiresApproval(m) /\ PolicyAllows(m)

Reader(m) == IF m \in Resolutions THEN "resolutions" ELSE "decisions"
Handed(m) == Reader(m) \notin stopped /\ (m \in Resolutions => Reader(m) \in reach[m])

\* A message that comes from the broker, or that the handler tries again.
Delivered(m) ==
    /\ m \in resolutionEvents \cup approvalEvents /\ stage[m] = "waiting"
    /\ attempts[m] > 0 \/ Handed(m)

Build(m, status, next) ==
    /\ built' = [built EXCEPT ![m] = @ + 1]
    /\ hand' = [hand EXCEPT ![m] =
                  [origin |-> m, nth |-> built[m] + 1, status |-> status]]
    /\ stage' = [stage EXCEPT ![m] = next]
    /\ UNCHANGED <<attempts, actions, executed, topics, counters>>

\* handle_resolution returns at once when a human has to decide.
LeaveToHuman(r) ==
    /\ Delivered(r) /\ RequiresApproval(r)
    /\ stage' = [stage EXCEPT ![r] = "done"]
    /\ UNCHANGED <<attempts, built, hand, actions, executed, topics, counters>>

\* A PolicyViolation: _build_policy_blocked_action.
Block(r) ==
    /\ Delivered(r) /\ ~RequiresApproval(r) /\ ~PolicyAllows(r)
    /\ Build(r, "skipped", "blocked")

\* execute_approval of a rejected decision.
Decline(q) ==
    /\ Delivered(q) /\ Decision[q].decision = "rejected"
    /\ Build(q, "skipped", "ran")

\* execute_approval: the tool runs and succeeds, or raises and is caught.
Execute(m) ==
    /\ Delivered(m) /\ Runs(m)
    /\ \E status \in {"succeeded", "failed"} : Build(m, status, "ran")

\* _persist_action: the row of the action and its audit row, one commit.
PersistAction(m) ==
    /\ stage[m] \in {"ran", "blocked"}
    /\ stage' = [stage EXCEPT ![m] = IF @ = "ran" THEN "persisted" ELSE "ready"]
    /\ actions' = actions \cup {hand[m]}
    /\ UNCHANGED <<attempts, built, hand, executed, topics, counters>>

\* _persist_remediation_event.
PersistEvent(m) ==
    /\ stage[m] = "persisted"
    /\ stage' = [stage EXCEPT ![m] = "ready"]
    /\ executed' = executed \cup {hand[m]}
    /\ UNCHANGED <<attempts, built, hand, actions, topics, counters>>

\* Mutant: the handler reports a failure after a publish that went well.
PublishRemediationTwice(m) ==
    /\ stage[m] = "ready"
    /\ remediationEvents' = remediationEvents \cup {hand[m]}
    /\ stage' = [stage EXCEPT ![m] = IF built[m] <= MaxFaults THEN "waiting" ELSE "done"]
    /\ hand' = [hand EXCEPT ![m] = NoAction]
    /\ attempts' = [attempts EXCEPT ![m] = 0]
    /\ UNCHANGED <<built, actions, executed,
                   resolutionEvents, approvalEvents, closureEvents, counters>>

\* producer.publish(REMEDIATION_EVENTS, ...); the handler returns.
PublishRemediation(m) ==
    /\ stage[m] = "ready"
    /\ remediationEvents' = remediationEvents \cup {hand[m]}
    /\ stage' = [stage EXCEPT ![m] = "done"]
    /\ hand' = [hand EXCEPT ![m] = NoAction]
    /\ attempts' = [attempts EXCEPT ![m] = 0]
    /\ UNCHANGED <<built, actions, executed,
                   resolutionEvents, approvalEvents, closureEvents, counters>>

\* A call of the handler raises (a publish may have reached the broker): the
\* handler is tried again from its first line, MaxAttempts times in all.
HandlerRaises(m) ==
    /\ Fault
    /\ stage[m] \in Working
    /\ \/ UNCHANGED remediationEvents
       \/ stage[m] = "ready" /\ remediationEvents' = remediationEvents \cup {hand[m]}
    /\ hand' = [hand EXCEPT ![m] = NoAction]
    /\ \/ /\ attempts[m] + 1 < MaxAttempts
          /\ stage' = [stage EXCEPT ![m] = "waiting"]
          /\ attempts' = [attempts EXCEPT ![m] = @ + 1]
       \/ /\ attempts[m] + 1 = MaxAttempts
          /\ \E end \in AfterLastAttempt : stage' = [stage EXCEPT ![m] = end]
          /\ attempts' = [attempts EXCEPT ![m] = 0]
    /\ UNCHANGED <<built, actions, executed,
                   resolutionEvents, approvalEvents, closureEvents>>

\* The process dies: what its handlers held is lost and redelivered.
EngineRestarts ==
    /\ Fault
    /\ Restarted({"resolutions", "decisions"})
    /\ stage' = [m \in Sources |-> IF stage[m] \in Working THEN "waiting" ELSE stage[m]]
    /\ hand' = [m \in Sources |-> NoAction]
    /\ attempts' = [m \in Sources |-> 0]
    /\ UNCHANGED <<built, actions, executed, topics>>

\* A message that was handled, or passed by, is delivered again to a worker that does
\* not know it: its commit or its ack was lost, or not made, or the cache entry expired.
RemediationRedelivered(m) ==
    /\ Fault
    /\ stage[m] \in {"done", "passed"}
    /\ stage' = [stage EXCEPT ![m] = "waiting"]
    /\ UNCHANGED <<attempts, built, hand, actions, executed, topics>>

EngineStep(m) ==
    \/ m \in Resolutions /\ (LeaveToHuman(m) \/ Block(m))
    \/ m \in Requests /\ Decline(m)
    \/ Execute(m) \/ PersistAction(m) \/ PersistEvent(m) \/ PublishRemediation(m)

EngineNext ==
    \/ /\ \E m \in Sources : EngineStep(m) \/ HandlerRaises(m) \/ RemediationRedelivered(m)
       /\ UNCHANGED delivery
    \/ EngineRestarts
================================================================================
