---------------------------- MODULE ClosureService -----------------------------
(****************************************************************************)
(* services/closure-service: what it does with a message of                 *)
(* remediation-events.  Each await of handle is a step, for the reasons     *)
(* given in RemediationEngine.                                              *)
(****************************************************************************)
EXTENDS IncidentBus

VARIABLES
    closing,   \* how far the handler of a message is, and its failed attempts
    reports,   \* actions whose ResolutionReport is committed
    status     \* the status column of the incident's row

closureVars == <<closing, reports, status>>

Closing == [stage: {"waiting", "reported", "settled", "done", "dead", "passed"},
            tries: 0..(MaxAttempts - 1)]

ClosureTypeOK ==
    /\ DOMAIN closing \subseteq remediationEvents
    /\ closing \in [DOMAIN closing -> Closing]
    /\ reports \subseteq Action
    /\ status \in {"open", "closed", "failed"}

ClosureInit == closing = <<>> /\ reports = {} /\ status = "open"

\* A message no handler has started on is waiting.
StageOf(a) == IF a \in DOMAIN closing THEN closing[a].stage ELSE "waiting"
Tries(a) == IF a \in DOMAIN closing THEN closing[a].tries ELSE 0

Goes(a, stage, tries) ==
    closing' = [b \in DOMAIN closing \cup {a} |->
                  IF b = a THEN [stage |-> stage, tries |-> tries] ELSE closing[b]]

\* ClosureValidationAgent.validate: every check is the same comparison.
HealthRestored(a) == a.status = "succeeded"

\* validate: the report and the knowledge base entry, one commit.
Validate(a) ==
    /\ StageOf(a) = "waiting"
    /\ Tries(a) > 0 \/ "closure" \notin stopped
    /\ Goes(a, "reported", Tries(a))
    /\ reports' = reports \cup {a}
    /\ UNCHANGED <<status, topics, counters>>

\* _persist_closure_event: the incident's row and its event, one commit.
Settle(a) ==
    /\ StageOf(a) = "reported"
    /\ Goes(a, "settled", Tries(a))
    /\ status' = IF HealthRestored(a) THEN "closed" ELSE "failed"
    /\ UNCHANGED <<reports, topics, counters>>

\* producer.publish(CLOSURE_EVENTS, ...); the handler returns.
PublishClosure(a) ==
    /\ StageOf(a) = "settled"
    /\ Goes(a, "done", 0)
    /\ closureEvents' = closureEvents \cup {a}
    /\ UNCHANGED <<reports, status,
                   resolutionEvents, approvalEvents, remediationEvents, counters>>

\* Mutant: a closure that fails is taken for done.
ClosureRaisesForGood(a) ==
    /\ Fault
    /\ StageOf(a) \in {"waiting", "reported", "settled"}
    /\ Goes(a, "done", 0)
    /\ UNCHANGED <<reports, status, topics>>

\* A call of the handler raises; a publish may have reached the broker.
ClosureRaises(a) ==
    /\ Fault
    /\ StageOf(a) \in {"waiting", "reported", "settled"}
    /\ \/ UNCHANGED closureEvents
       \/ StageOf(a) = "settled" /\ closureEvents' = closureEvents \cup {a}
    /\ \/ Tries(a) + 1 < MaxAttempts /\ Goes(a, "waiting", Tries(a) + 1)
       \/ Tries(a) + 1 = MaxAttempts /\ \E end \in AfterLastAttempt : Goes(a, end, 0)
    /\ UNCHANGED <<reports, status,
                   resolutionEvents, approvalEvents, remediationEvents>>

ClosureRestarts ==
    /\ Fault
    /\ Restarted({"closure"})
    /\ closing' = [a \in DOMAIN closing |->
                     [stage |-> IF closing[a].stage \in {"reported", "settled"}
                                  THEN "waiting" ELSE closing[a].stage,
                      tries |-> 0]]
    /\ UNCHANGED <<reports, status, topics>>

\* A message that was handled or passed by is delivered again; see RemediationRedelivered.
ClosureRedelivered(a) ==
    /\ Fault
    /\ StageOf(a) \in {"done", "passed"}
    /\ Goes(a, "waiting", 0)
    /\ UNCHANGED <<reports, status, topics>>

ClosureStep(a) == Validate(a) \/ Settle(a) \/ PublishClosure(a)

ClosureNext ==
    \/ /\ \E a \in remediationEvents : ClosureStep(a) \/ ClosureRaises(a) \/ ClosureRedelivered(a)
       /\ UNCHANGED delivery
    \/ ClosureRestarts
================================================================================
