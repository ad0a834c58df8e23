------------------------------ MODULE IncidentBus ------------------------------
(****************************************************************************)
(* What the approval, remediation and closure services share: the topics    *)
(* they publish to, the payloads those topics carry, and the faults a run   *)
(* may still see.  One incident is modelled: every map and every row of the *)
(* three services is keyed by the incident, so incidents do not interact.   *)
(*                                                                          *)
(* A topic is the set of the messages published to it, and the transport is *)
(* the one the deployment chose.  Over RabbitMQ each consumer has a queue   *)
(* of its own, and a message stays in it until it is handled or             *)
(* dead-lettered.  Over Kafka all services join one group, so a record of   *)
(* resolution-events, which two services read, is handed to one of them; a  *)
(* record that could not be dead-lettered is passed by; and a consumer      *)
(* whose commit or start raises reads no more until its service restarts.   *)
(* Over both a message may be handled again.  KafkaConsumer and             *)
(* RabbitConsumer have the consumers in detail.                             *)
(****************************************************************************)
EXTENDS Integers

CONSTANTS
    Resolutions,   \* messages of resolution-events
    Requests,      \* HTTP requests that decide on the incident
    Payload,       \* what each resolution message says
    Decision,      \* what each request asks, and who asks it
    MaxAttempts,   \* kafka_ or rabbitmq_consumer_max_retries, and one
    MaxFaults,     \* bound: restarts, raised calls and redeliveries of a run
    MaxEvents      \* bound: faults, recommendations and decisions of a run

Flag == {"yes", "no", "none", "absent"}   \* a key of a dict, its value or its absence
Severity == {"info", "warning", "high", "critical"}
Percent == 0..100

PayloadType ==
    [decision: Flag,        \* decision["requires_approval"]
     metadata: Flag,        \* recommendation.metadata["orchestration_decision"]["requires_approval"]
     severity: Severity,
     tier: {"low", "medium", "high", "none"},   \* decision["risk_tier"]; None reads "none"
     confidence: Percent, evidence: BOOLEAN, reasoning: BOOLEAN]

DecisionType ==
    [decision: {"approved", "rejected", "modified"}, approver: {"human", "agent"}]

ASSUME BusAssumption ==
    /\ Resolutions \cap Requests = {}
    /\ Payload \in [Resolutions -> PayloadType]
    /\ Decision \in [Requests -> DecisionType]
    /\ MaxAttempts \in Nat \ {0}
    /\ MaxFaults \in Nat /\ MaxEvents \in Nat

\* What a remediation starts from, and the nth RemediationAction it leads to.
Sources == Resolutions \cup Requests
Action ==
    [origin: Sources, nth: 1..(MaxFaults + 1),
     status: {"succeeded", "failed", "skipped"}]

NoAction == [origin |-> "none", nth |-> 0, status |-> "none"]

\* The consumers: of resolution-events, that of approval-service and that of the engine;
\* of approval-events, that of the engine; of remediation-events, that of closure-service.
Readers == {"approval", "resolutions"}
Consumers == Readers \cup {"decisions", "closure"}

VARIABLES
    transport,   \* event_bus_provider
    reach,       \* the consumers each recommendation is handed to
    stopped,     \* consumers whose task has ended
    resolutionEvents, approvalEvents, remediationEvents, closureEvents,
    inputs, faults   \* recommendations and decisions so far; faults so far

counters == <<inputs, faults>>
delivery == <<transport, reach, stopped>>
topics == <<resolutionEvents, approvalEvents, remediationEvents, closureEvents>>

DeliveryTypeOK ==
    /\ transport \in {"kafka", "rabbitmq"}
    /\ reach \in [Resolutions -> SUBSET Readers]
    /\ stopped \subseteq Consumers

BusTypeOK ==
    /\ DeliveryTypeOK
    /\ resolutionEvents \subseteq Resolutions
    /\ approvalEvents \subseteq Requests
    /\ remediationEvents \subseteq Action
    /\ closureEvents \subseteq Action
    /\ inputs \in Nat /\ faults \in 0..MaxFaults

BusInit ==
    /\ transport \in {"kafka", "rabbitmq"}
    /\ reach = [r \in Resolutions |-> {}] /\ stopped = {}
    /\ resolutionEvents = {} /\ approvalEvents = {}
    /\ remediationEvents = {} /\ closureEvents = {}
    /\ inputs = 0 /\ faults = 0

Enter ==
    /\ inputs + faults < MaxEvents
    /\ inputs' = inputs + 1 /\ UNCHANGED faults

Fault ==
    /\ faults < MaxFaults /\ inputs + faults < MaxEvents
    /\ faults' = faults + 1 /\ UNCHANGED inputs

\* Every queue gets a copy; of the group of Kafka, the member that owns the partition.
HandedTo(r) ==
    \E consumers \in IF transport = "rabbitmq" THEN {Readers} ELSE {{c} : c \in Readers} :
        reach' = [reach EXCEPT ![r] = consumers]

\* A rebalance gives the partition of a record to the other service, which starts from
\* the committed position.
RecordMoves(r) ==
    /\ Fault
    /\ transport = "kafka" /\ r \in resolutionEvents
    /\ reach' = [reach EXCEPT ![r] = Readers \ @]
    /\ UNCHANGED <<transport, stopped, topics>>

\* start() or commit() raises: the task ends, and the consumer stays in the group.
ConsumerEnds(c) ==
    /\ Fault
    /\ transport = "kafka" /\ c \notin stopped
    /\ stopped' = stopped \cup {c}
    /\ UNCHANGED <<transport, reach, topics>>

\* The consumers of a service that starts again.
Restarted(consumers) == stopped' = stopped \ consumers /\ UNCHANGED <<transport, reach>>

\* Where a message is whose last attempt failed: in a dead-letter queue or, if that
\* could not be reached either, passed by; RabbitMQ takes it back.
AfterLastAttempt == {"dead", IF transport = "kafka" THEN "passed" ELSE "waiting"}

BusNext == (\E r \in Resolutions : RecordMoves(r)) \/ (\E c \in Consumers : ConsumerEnds(c))
================================================================================
