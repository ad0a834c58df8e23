------------------------- MODULE IncidentPipelineProofs ------------------------
(****************************************************************************)
(* The safety of IncidentPipeline for every set of recommendations and      *)
(* requests, every payload, policy threshold, retry limit and bound.        *)
(*                                                                          *)
(* None of the properties is inductive: that a tool runs only for a         *)
(* committed decision depends on the request having passed its transaction  *)
(* before it published, and that a closed incident was repaired depends on  *)
(* what every handler holds between two awaits.  IInv says both.            *)
(****************************************************************************)
EXTENDS IncidentPipeline, TLAPS

\* A request past its transaction has its row.
DecisionsInv ==
    \A q \in Requests : request[q] \in {"recorded", "published"} => q \in approvals

\* What the handler of a message holds, and what is committed of it.
HandsInv ==
    \A m \in Sources :
        /\ stage[m] \notin Working => hand[m] = NoAction
        /\ stage[m] \in Working =>
             /\ hand[m] \in Action /\ hand[m].origin = m
             /\ hand[m].status # "skipped" => Authorised(m)
        /\ stage[m] = "blocked" => m \in Resolutions /\ ~PolicyAllows(m)
        /\ stage[m] \in {"persisted", "ready"} => hand[m] \in actions
        /\ stage[m] = "ready" =>
             hand[m] \in executed \/ (m \in Resolutions /\ ~PolicyAllows(m))

\* A message that waits has led to one action per fault at most.
CountsInv ==
    \A m \in Sources :
        /\ built[m] <= faults + 1
        /\ stage[m] = "waiting" => built[m] <= faults

\* Every recorded action that ran a tool was authorised.
RowsInv == \A a \in actions : a.status # "skipped" => Authorised(a.origin)

\* A closure past its first transaction has its report.
ClosingInv ==
    \A a \in DOMAIN closing : closing[a].stage \in {"reported", "settled"} => a \in reports

IInv ==
    /\ TypeOK
    /\ DecisionsInv /\ HandsInv /\ CountsInv /\ RowsInv /\ ClosingInv
    /\ RecordedBeforePublished /\ ClosedIsEarned

USE DEF Sources

--------------------------------------------------------------------------------
\* What is authorised stays so: approvals are never deleted.
LEMMA AuthorisedStays ==
    ASSUME approvals \subseteq approvals', NEW m, Authorised(m)
    PROVE  Authorised(m)'
BY DEF Authorised

\* A delivered message that runs a tool is authorised to.
LEMMA RunsAuthorised ==
    ASSUME TypeOK, RecordedBeforePublished, NEW m \in Sources, Delivered(m), Runs(m)
    PROVE  Authorised(m)
<1>1. CASE m \in Requests
  <2>1. m \in approvals
    BY <1>1, BusAssumption DEF Delivered, TypeOK, BusTypeOK, RecordedBeforePublished
  <2>2. Decision[m].decision \in {"approved", "modified"}
    BY <1>1, BusAssumption DEF Runs, DecisionType
  <2> QED BY <2>1, <2>2 DEF Authorised
<1>2. CASE m \notin Requests
  BY <1>2 DEF Runs, Authorised, PolicyAllows
<1> QED BY <1>1, <1>2

LEMMA InitInv == Init => IInv
<1> SUFFICES ASSUME Init PROVE IInv
  OBVIOUS
<1> USE DEF Init, BusInit, ApprovalInit, EngineInit, ClosureInit
<1>1. TypeOK
  <2>1. 0 \in 0..MaxFaults /\ 0 \in 0..(MaxAttempts - 1) /\ 0 \in 0..(MaxFaults + 1)
    BY BusAssumption
  <2>2. BusTypeOK
    BY <2>1 DEF BusTypeOK, DeliveryTypeOK, Readers
  <2>3. ApprovalTypeOK
    BY DEF ApprovalTypeOK, RequestState
  <2>4. EngineTypeOK
    BY <2>1 DEF EngineTypeOK, EngineStage
  <2>5. ClosureTypeOK
    BY DEF ClosureTypeOK
  <2> QED BY <2>2, <2>3, <2>4, <2>5 DEF TypeOK
<1>2. DecisionsInv /\ HandsInv /\ CountsInv /\ RowsInv /\ ClosingInv
  BY DEF DecisionsInv, HandsInv, CountsInv, RowsInv, ClosingInv, Working
<1>3. RecordedBeforePublished /\ ClosedIsEarned
  BY DEF RecordedBeforePublished, ClosedIsEarned
<1> QED BY <1>1, <1>2, <1>3 DEF IInv

--------------------------------------------------------------------------------
\* What a step of another service leaves true of the engine and of the closure.
LEMMA EngineFrame ==
    ASSUME TypeOK, TypeOK', HandsInv, CountsInv, RowsInv,
           approvals \subseteq approvals', faults <= faults', UNCHANGED engineVars
    PROVE  HandsInv' /\ CountsInv' /\ RowsInv'
<1>1. UNCHANGED <<stage, built, hand, actions, executed>>
  BY DEF engineVars
<1>2. HandsInv'
  BY <1>1, AuthorisedStays DEF HandsInv, PolicyAllows
<1>3. CountsInv'
  <2>1. faults \in Int /\ faults' \in Int /\ \A m \in Sources : built[m] \in Int
    BY BusAssumption DEF TypeOK, BusTypeOK, EngineTypeOK
  <2> QED BY <1>1, <2>1 DEF CountsInv
<1>4. RowsInv'
  BY <1>1, AuthorisedStays DEF RowsInv
<1> QED BY <1>2, <1>3, <1>4

LEMMA ClosureFrame ==
    ASSUME ClosingInv, ClosedIsEarned,
           approvals \subseteq approvals', actions \subseteq actions', UNCHANGED closureVars
    PROVE  ClosingInv' /\ ClosedIsEarned'
<1>1. UNCHANGED <<closing, reports, status>>
  BY DEF closureVars
<1>2. ClosingInv'
  BY <1>1 DEF ClosingInv
<1>3. ClosedIsEarned'
  BY <1>1, AuthorisedStays DEF ClosedIsEarned
<1> QED BY <1>2, <1>3

\* The fault budget is a number that only grows.
LEMMA Counters ==
    ASSUME TypeOK, UNCHANGED counters \/ Enter \/ Fault
    PROVE  /\ inputs' \in Nat /\ faults' \in 0..MaxFaults
           /\ faults \in Nat /\ faults <= faults'
BY BusAssumption DEF TypeOK, BusTypeOK, counters, Enter, Fault

\* What the broker hands over to whom is one of the cases there are.
LEMMA DeliveryStep ==
    ASSUME TypeOK,
           \/ UNCHANGED delivery
           \/ \E r \in Resolutions : HandedTo(r) /\ UNCHANGED <<transport, stopped>>
           \/ \E consumers : Restarted(consumers)
           \/ BusNext
    PROVE  DeliveryTypeOK'
<1>1. DeliveryTypeOK
  BY DEF TypeOK, BusTypeOK
<1>2. ASSUME NEW r \in Resolutions, HandedTo(r), UNCHANGED <<transport, stopped>>
      PROVE  DeliveryTypeOK'
  <2>1. PICK consumers \in SUBSET Readers : reach' = [reach EXCEPT ![r] = consumers]
    BY <1>2 DEF HandedTo
  <2> QED BY <1>1, <1>2, <2>1 DEF DeliveryTypeOK
<1>3. ASSUME NEW r \in Resolutions, RecordMoves(r) PROVE DeliveryTypeOK'
  BY <1>1, <1>3 DEF RecordMoves, DeliveryTypeOK
<1>4. ASSUME NEW c \in Consumers, ConsumerEnds(c) PROVE DeliveryTypeOK'
  BY <1>1, <1>4 DEF ConsumerEnds, DeliveryTypeOK
<1>5. CASE UNCHANGED delivery \/ \E consumers : Restarted(consumers)
  BY <1>1, <1>5 DEF delivery, Restarted, DeliveryTypeOK
<1> QED BY <1>2, <1>3, <1>4, <1>5 DEF BusNext

--------------------------------------------------------------------------------
\* A step of the approval service.
LEMMA ApproveInv == IInv /\ Approve => IInv'
<1> SUFFICES ASSUME IInv, Approve PROVE IInv'
  OBVIOUS
<1> USE DEF IInv
<1>0. UNCHANGED <<engineVars, closureVars>> /\ ApprovalNext
  BY DEF Approve
<1>1. UNCHANGED <<remediationEvents, closureEvents>> /\ (UNCHANGED counters \/ Enter \/ Fault)
  BY <1>0 DEF ApprovalNext, ApprovalStep, Recommend, ReceiveResolution, Submit, RequestFails,
              RecordDecision, PublishDecision, ApprovalRestarts, topics
<1>9. DeliveryTypeOK'
  BY <1>0, DeliveryStep DEF ApprovalNext, Recommend, ApprovalRestarts
<1>2. /\ approvals \subseteq approvals' /\ approvals' \subseteq Requests
      /\ request' \in [Requests -> RequestState]
      /\ DecisionsInv'
  <2> USE DEF TypeOK, ApprovalTypeOK, RequestState, DecisionsInv
  <2>1. CASE \E r \in Resolutions : Recommend(r) \/ ReceiveResolution(r)
    BY <2>1 DEF Recommend, ReceiveResolution, approvalVars
  <2>2. ASSUME NEW q \in Requests, Submit(q) \/ RequestFails(q) \/ RecordDecision(q) \/ PublishDecision(q)
        PROVE  /\ approvals \subseteq approvals' /\ approvals' \subseteq Requests
               /\ request' \in [Requests -> RequestState] /\ DecisionsInv'
    <3>1. CASE Submit(q)
      BY <3>1 DEF Submit, Accept
    <3>2. CASE RequestFails(q)
      BY <3>2 DEF RequestFails
    <3>3. CASE RecordDecision(q)
      BY <3>3 DEF RecordDecision
    <3>4. CASE PublishDecision(q)
      BY <3>4 DEF PublishDecision
    <3> QED BY <2>2, <3>1, <3>2, <3>3, <3>4
  <2>3. CASE ApprovalRestarts
    BY <2>3 DEF ApprovalRestarts
  <2> QED BY <1>0, <2>1, <2>2, <2>3 DEF ApprovalNext, ApprovalStep
<1>3. /\ resolutionEvents \subseteq resolutionEvents' /\ resolutionEvents' \subseteq Resolutions
      /\ approvalEvents' \subseteq approvals'
      /\ pending' \in Resolutions \cup Requests \cup {Nothing}
      /\ received' \subseteq resolutionEvents'
  <2> USE DEF TypeOK, BusTypeOK, ApprovalTypeOK, RecordedBeforePublished, topics
  <2>1. ASSUME NEW r \in Resolutions, Recommend(r) \/ ReceiveResolution(r)
        PROVE  /\ resolutionEvents \subseteq resolutionEvents' /\ resolutionEvents' \subseteq Resolutions
               /\ approvalEvents' \subseteq approvals'
               /\ pending' \in Resolutions \cup Requests \cup {Nothing}
               /\ received' \subseteq resolutionEvents'
    BY <2>1 DEF Recommend, ReceiveResolution, approvalVars
  <2>2. ASSUME NEW q \in Requests, Submit(q) \/ RequestFails(q) \/ RecordDecision(q) \/ PublishDecision(q)
        PROVE  /\ resolutionEvents \subseteq resolutionEvents' /\ resolutionEvents' \subseteq Resolutions
               /\ approvalEvents' \subseteq approvals'
               /\ pending' \in Resolutions \cup Requests \cup {Nothing}
               /\ received' \subseteq resolutionEvents'
    BY <2>2 DEF Submit, Accept, RequestFails, RecordDecision, PublishDecision, DecisionsInv
  <2>3. CASE ApprovalRestarts
    BY <2>3 DEF ApprovalRestarts
  <2> QED BY <1>0, <2>1, <2>2, <2>3 DEF ApprovalNext, ApprovalStep
<1>4. inputs' \in Nat /\ faults' \in 0..MaxFaults /\ faults \in Nat /\ faults <= faults'
  BY <1>1, Counters
<1>5. TypeOK'
  <2>1. BusTypeOK'
    BY <1>1, <1>2, <1>3, <1>4, <1>9 DEF TypeOK, BusTypeOK
  <2>2. ApprovalTypeOK'
    BY <1>2, <1>3 DEF ApprovalTypeOK
  <2>3. EngineTypeOK'
    BY <1>0 DEF TypeOK, EngineTypeOK, engineVars
  <2>4. ClosureTypeOK'
    BY <1>0, <1>1 DEF TypeOK, ClosureTypeOK, closureVars
  <2> QED BY <2>1, <2>2, <2>3, <2>4 DEF TypeOK
<1>6. HandsInv' /\ CountsInv' /\ RowsInv'
  BY <1>0, <1>2, <1>4, <1>5, EngineFrame
<1>7. ClosingInv' /\ ClosedIsEarned'
  BY <1>0, <1>2, ClosureFrame DEF engineVars
<1>8. RecordedBeforePublished'
  BY <1>0, <1>1, <1>3 DEF RecordedBeforePublished, engineVars, closureVars, PolicyAllows
<1> QED BY <1>2, <1>5, <1>6, <1>7, <1>8

--------------------------------------------------------------------------------
\* A step of the closure service leaves the two other services alone.
LEMMA CloseFrame ==
    ASSUME TypeOK, Close
    PROVE  /\ UNCHANGED <<approvalVars, engineVars>>
           /\ UNCHANGED <<resolutionEvents, approvalEvents, remediationEvents>>
           /\ DeliveryTypeOK' /\ inputs' \in Nat /\ faults' \in 0..MaxFaults
           /\ faults \in Nat /\ faults <= faults'
<1>1. UNCHANGED <<approvalVars, engineVars>> /\ ClosureNext
  BY DEF Close
<1>2. /\ UNCHANGED <<resolutionEvents, approvalEvents, remediationEvents>>
      /\ UNCHANGED counters \/ Fault
  BY <1>1 DEF ClosureNext, ClosureStep, Validate, Settle, PublishClosure, ClosureRaises,
              ClosureRestarts, ClosureRedelivered, topics
<1>3. DeliveryTypeOK'
  BY <1>1, DeliveryStep DEF ClosureNext, ClosureRestarts
<1> QED BY <1>1, <1>2, <1>3, Counters

\* Goes moves the handler of one message.
LEMMA GoesType ==
    ASSUME ClosureTypeOK, NEW a \in remediationEvents, NEW s, NEW t, Goes(a, s, t),
           s \in {"waiting", "reported", "settled", "done", "dead", "passed"},
           t \in 0..(MaxAttempts - 1)
    PROVE  /\ DOMAIN closing' = DOMAIN closing \cup {a}
           /\ closing' \in [DOMAIN closing' -> Closing]
           /\ closing'[a] = [stage |-> s, tries |-> t]
           /\ \A b \in DOMAIN closing \ {a} : closing'[b] = closing[b]
BY DEF Goes, ClosureTypeOK, Closing

LEMMA TriesType ==
    ASSUME ClosureTypeOK, NEW a
    PROVE  Tries(a) \in 0..(MaxAttempts - 1) /\ 0 \in 0..(MaxAttempts - 1)
BY BusAssumption DEF ClosureTypeOK, Closing, Tries

\* Only a message that is settled is published.
LEMMA ClosurePublishes ==
    ASSUME NEW a, PublishClosure(a) \/ ClosureRaises(a) \/ ClosureRedelivered(a)
    PROVE  closureEvents' = closureEvents
           \/ (StageOf(a) = "settled" /\ closureEvents' = closureEvents \cup {a})
<1>1. CASE PublishClosure(a)
  BY <1>1 DEF PublishClosure
<1>2. CASE ClosureRaises(a)
  BY <1>2 DEF ClosureRaises
<1>3. CASE ClosureRedelivered(a)
  BY <1>3 DEF ClosureRedelivered, topics
<1> QED BY <1>1, <1>2, <1>3

\* A step of the closure service.
LEMMA CloseInv == IInv /\ Close => IInv'
<1> SUFFICES ASSUME IInv, Close PROVE IInv'
  OBVIOUS
<1> USE DEF IInv
<1>0. /\ UNCHANGED <<approvalVars, engineVars>> /\ ClosureNext
      /\ UNCHANGED <<resolutionEvents, approvalEvents, remediationEvents>>
      /\ DeliveryTypeOK' /\ inputs' \in Nat /\ faults' \in 0..MaxFaults
      /\ faults \in Nat /\ faults <= faults'
  BY CloseFrame DEF Close
<1>1. ClosureTypeOK /\ remediationEvents \subseteq Action /\ remediationEvents \subseteq actions
  BY DEF TypeOK, BusTypeOK, RecordedBeforePublished
<1> DEFINE Goal ==
      /\ ClosureTypeOK' /\ ClosingInv' /\ ClosedIsEarned'
      /\ closureEvents' \subseteq reports' /\ reports' \subseteq Action
<1>2. ASSUME NEW a \in remediationEvents, Validate(a) PROVE Goal
  <2>1. DOMAIN closing' = DOMAIN closing \cup {a} /\ closing' \in [DOMAIN closing' -> Closing]
        /\ \A b \in DOMAIN closing \ {a} : closing'[b] = closing[b]
    BY <1>1, <1>2, GoesType, TriesType DEF Validate
  <2>2. reports' = reports \cup {a} /\ status' = status /\ closureEvents' = closureEvents
    BY <1>2 DEF Validate, topics
  <2>3. ClosureTypeOK'
    BY <1>0, <1>1, <2>1, <2>2 DEF ClosureTypeOK
  <2>4. ClosingInv'
    BY <2>1, <2>2 DEF ClosingInv
  <2>5. ClosedIsEarned'
    BY <1>0, <2>2, AuthorisedStays DEF ClosedIsEarned, approvalVars, engineVars
  <2> QED BY <1>1, <2>2, <2>3, <2>4, <2>5 DEF RecordedBeforePublished, ClosureTypeOK
<1>3. ASSUME NEW a \in remediationEvents, Settle(a) PROVE Goal
  <2>1. DOMAIN closing' = DOMAIN closing \cup {a} /\ closing' \in [DOMAIN closing' -> Closing]
        /\ \A b \in DOMAIN closing \ {a} : closing'[b] = closing[b]
    BY <1>1, <1>3, GoesType, TriesType DEF Settle
  <2>2. /\ reports' = reports /\ closureEvents' = closureEvents
        /\ status' = IF HealthRestored(a) THEN "closed" ELSE "failed"
    BY <1>3 DEF Settle, topics
  <2>3. a \in reports
    BY <1>3 DEF Settle, StageOf, ClosingInv
  <2>4. ClosureTypeOK'
    BY <1>0, <1>1, <2>1, <2>2 DEF ClosureTypeOK
  <2>5. ClosingInv'
    BY <2>1, <2>2, <2>3 DEF ClosingInv
  <2>6. ClosedIsEarned'
    <3>1. HealthRestored(a) => a.status = "succeeded" /\ a \in actions /\ Authorised(a.origin)
      BY <1>1 DEF HealthRestored, RowsInv
    <3>2. HealthRestored(a) => Authorised(a.origin)'
      BY <1>0, <3>1, AuthorisedStays DEF approvalVars
    <3> QED BY <1>0, <2>2, <2>3, <3>1, <3>2 DEF ClosedIsEarned, engineVars
  <2> QED BY <1>1, <2>2, <2>4, <2>5, <2>6 DEF RecordedBeforePublished, ClosureTypeOK
<1>4. ASSUME NEW a \in remediationEvents,
             PublishClosure(a) \/ ClosureRaises(a) \/ ClosureRedelivered(a)
      PROVE Goal
  <2>1. PICK s \in {"waiting", "done", "dead", "passed"}, t \in 0..(MaxAttempts - 1) : Goes(a, s, t)
    <3>1. CASE PublishClosure(a) \/ ClosureRedelivered(a)
      BY <1>1, <3>1, TriesType DEF PublishClosure, ClosureRedelivered
    <3>2. CASE ClosureRaises(a)
      <4>1. CASE Tries(a) + 1 < MaxAttempts /\ Goes(a, "waiting", Tries(a) + 1)
        <5>1. Tries(a) + 1 \in 0..(MaxAttempts - 1)
          BY <1>1, <4>1, TriesType, BusAssumption
        <5> QED BY <4>1, <5>1
      <4>2. CASE \E end \in AfterLastAttempt : Goes(a, end, 0)
        BY <1>1, <4>2, TriesType DEF AfterLastAttempt
      <4> QED BY <3>2, <4>1, <4>2 DEF ClosureRaises
    <3> QED BY <1>4, <3>1, <3>2
  <2>2. /\ DOMAIN closing' = DOMAIN closing \cup {a} /\ closing' \in [DOMAIN closing' -> Closing]
        /\ closing'[a].stage = s
        /\ \A b \in DOMAIN closing \ {a} : closing'[b] = closing[b]
    <3>1. s \in {"waiting", "reported", "settled", "done", "dead", "passed"}
      OBVIOUS
    <3>2. closing'[a] = [stage |-> s, tries |-> t]
      BY <2>1 DEF Goes
    <3>3. /\ DOMAIN closing' = DOMAIN closing \cup {a} /\ closing' \in [DOMAIN closing' -> Closing]
          /\ \A b \in DOMAIN closing \ {a} : closing'[b] = closing[b]
      BY <1>1, <2>1, <3>1, GoesType
    <3>4. closing'[a].stage = s
      BY <3>2
    <3> QED BY <3>3, <3>4
  <2>3. reports' = reports /\ status' = status
    BY <1>4 DEF PublishClosure, ClosureRaises, ClosureRedelivered
  <2>4. closureEvents' = closureEvents
        \/ (StageOf(a) = "settled" /\ closureEvents' = closureEvents \cup {a})
    BY <1>4, ClosurePublishes
  <2>5. StageOf(a) = "settled" => a \in reports
    BY DEF StageOf, ClosingInv
  <2>6. ClosureTypeOK'
    BY <1>0, <1>1, <2>2, <2>3 DEF ClosureTypeOK
  <2>7. ClosingInv'
    BY <2>2, <2>3 DEF ClosingInv
  <2>8. ClosedIsEarned'
    BY <1>0, <2>3, AuthorisedStays DEF ClosedIsEarned, approvalVars, engineVars
  <2> QED BY <1>1, <2>3, <2>4, <2>5, <2>6, <2>7, <2>8 DEF RecordedBeforePublished, ClosureTypeOK
<1>5. ASSUME ClosureRestarts PROVE Goal
  <2>1. /\ DOMAIN closing' = DOMAIN closing
        /\ \A a \in DOMAIN closing :
             closing'[a] = [stage |-> IF closing[a].stage \in {"reported", "settled"}
                                        THEN "waiting" ELSE closing[a].stage, tries |-> 0]
        /\ closing' = [a \in DOMAIN closing' |-> closing'[a]]
    BY <1>5 DEF ClosureRestarts
  <2>2. reports' = reports /\ status' = status /\ closureEvents' = closureEvents
    BY <1>5 DEF ClosureRestarts, topics
  <2>3. ClosureTypeOK'
    <3>1. ASSUME NEW a \in DOMAIN closing PROVE closing'[a] \in Closing
      <4>1. closing[a].stage \in {"waiting", "reported", "settled", "done", "dead", "passed"}
        BY <1>1 DEF ClosureTypeOK, Closing
      <4>2. 0 \in 0..(MaxAttempts - 1)
        BY <1>1, TriesType
      <4> QED BY <2>1, <4>1, <4>2 DEF Closing
    <3> QED BY <1>0, <1>1, <2>1, <2>2, <3>1 DEF ClosureTypeOK
  <2>4. ClosingInv'
    BY <2>1, <2>2 DEF ClosingInv
  <2>5. ClosedIsEarned'
    BY <1>0, <2>2, AuthorisedStays DEF ClosedIsEarned, approvalVars, engineVars
  <2> QED BY <1>1, <2>2, <2>3, <2>4, <2>5 DEF RecordedBeforePublished, ClosureTypeOK
<1>6. Goal
  BY <1>0, <1>2, <1>3, <1>4, <1>5 DEF ClosureNext, ClosureStep
<1>7. TypeOK'
  <2>1. BusTypeOK'
    BY <1>0, <1>6 DEF TypeOK, BusTypeOK
  <2>2. ApprovalTypeOK' /\ EngineTypeOK'
    BY <1>0 DEF TypeOK, ApprovalTypeOK, EngineTypeOK, approvalVars, engineVars
  <2> QED BY <1>6, <2>1, <2>2 DEF TypeOK
<1>8. HandsInv' /\ CountsInv' /\ RowsInv'
  BY <1>0, <1>7, EngineFrame DEF approvalVars
<1>9. DecisionsInv'
  BY <1>0 DEF DecisionsInv, approvalVars
<1>10. RecordedBeforePublished'
  BY <1>0, <1>6 DEF RecordedBeforePublished, approvalVars, engineVars, PolicyAllows
<1> QED BY <1>6, <1>7, <1>8, <1>9, <1>10

--------------------------------------------------------------------------------
\* What a step of the engine leaves alone, and what it may only add to.
LEMMA RemediateFrame ==
    ASSUME TypeOK, Remediate
    PROVE  /\ UNCHANGED <<approvalVars, closureVars>> /\ EngineNext
           /\ UNCHANGED <<resolutionEvents, approvalEvents, closureEvents>>
           /\ DeliveryTypeOK' /\ inputs' \in Nat /\ faults' \in 0..MaxFaults
           /\ faults \in Nat /\ faults <= faults'
           /\ actions \subseteq actions' /\ executed \subseteq executed'
           /\ remediationEvents \subseteq remediationEvents'
<1>1. UNCHANGED <<approvalVars, closureVars>> /\ EngineNext
  BY DEF Remediate
<1>2. /\ UNCHANGED <<resolutionEvents, approvalEvents, closureEvents>>
      /\ UNCHANGED counters \/ Fault
      /\ actions \subseteq actions' /\ executed \subseteq executed'
      /\ remediationEvents \subseteq remediationEvents'
  BY <1>1 DEF EngineNext, EngineStep, LeaveToHuman, Block, Decline, Execute, Build, PersistAction,
              PersistEvent, PublishRemediation, HandlerRaises, EngineRestarts,
              RemediationRedelivered, topics
<1>3. DeliveryTypeOK'
  BY <1>1, DeliveryStep DEF EngineNext, EngineRestarts
<1> QED BY <1>1, <1>2, <1>3, Counters

\* The part of IInv that is about the engine, with what its rows rest on.
EngineInv ==
    /\ EngineTypeOK /\ HandsInv /\ CountsInv /\ RowsInv
    /\ remediationEvents \subseteq actions
    /\ \A a \in remediationEvents :
         a \in executed \/ (a.origin \in Resolutions /\ ~PolicyAllows(a.origin))

\* A handler that makes its action.
LEMMA BuildInv ==
    ASSUME IInv, NEW m \in Sources, stage[m] = "waiting",
           NEW s \in {"succeeded", "failed", "skipped"}, s # "skipped" => Authorised(m),
           NEW next \in {"ran", "blocked"},
           next = "blocked" => m \in Resolutions /\ ~PolicyAllows(m),
           Build(m, s, next), UNCHANGED <<approvals, faults>>
    PROVE  EngineInv'
<1> USE DEF IInv
<1> DEFINE act == [origin |-> m, nth |-> built[m] + 1, status |-> s]
<1>1. EngineTypeOK /\ remediationEvents \subseteq Action
  BY DEF TypeOK, BusTypeOK
<1>2. built[m] + 1 \in 1..(MaxFaults + 1) /\ built[m] + 1 <= faults + 1
  BY <1>1, BusAssumption DEF CountsInv, EngineTypeOK, TypeOK, BusTypeOK
<1>3. act \in Action
  BY <1>2 DEF Action
<1>4. /\ built' = [built EXCEPT ![m] = built[m] + 1]
      /\ hand' = [hand EXCEPT ![m] = act] /\ stage' = [stage EXCEPT ![m] = next]
      /\ UNCHANGED <<attempts, actions, executed, remediationEvents>>
  BY DEF Build, topics
<1>5. EngineTypeOK'
  BY <1>1, <1>2, <1>3, <1>4 DEF EngineTypeOK, EngineStage
<1>6. HandsInv'
  <2> SUFFICES ASSUME NEW k \in Sources PROVE HandsInv!(k)'
    BY DEF HandsInv
  <2>1. CASE k = m
    <3>1. stage'[k] = next /\ hand'[k] = act /\ next \in Working
      BY <1>1, <1>4, <2>1 DEF EngineTypeOK, Working
    <3>2. Authorised(m) => Authorised(m)'
      BY AuthorisedStays
    <3> QED BY <1>3, <2>1, <3>1, <3>2 DEF PolicyAllows
  <2>2. CASE k # m
    <3>1. stage'[k] = stage[k] /\ hand'[k] = hand[k] /\ HandsInv!(k)
      BY <1>1, <1>4, <2>2 DEF EngineTypeOK, HandsInv
    <3>2. Authorised(k) => Authorised(k)'
      BY AuthorisedStays
    <3> QED BY <1>4, <3>1, <3>2 DEF PolicyAllows
  <2> QED BY <2>1, <2>2
<1>7. CountsInv'
  BY <1>1, <1>2, <1>4 DEF CountsInv, EngineTypeOK
<1>8. RowsInv'
  BY <1>4, AuthorisedStays DEF RowsInv
<1> QED BY <1>4, <1>5, <1>6, <1>7, <1>8 DEF EngineInv, RecordedBeforePublished, PolicyAllows

\* A handler that commits what it holds, or leaves a message to a human.
LEMMA CommitInv ==
    ASSUME IInv, NEW m \in Sources,
           PersistAction(m) \/ PersistEvent(m) \/ LeaveToHuman(m), UNCHANGED approvals
    PROVE  EngineInv'
<1> USE DEF IInv
<1>1. EngineTypeOK /\ remediationEvents \subseteq Action /\ HandsInv!(m)
  BY DEF TypeOK, BusTypeOK, HandsInv
<1>2. PICK next \in {"persisted", "ready", "done"} :
        /\ stage' = [stage EXCEPT ![m] = next]
        /\ next \in {"persisted", "ready"} => stage[m] \in Working /\ hand[m] \in actions'
        /\ next = "ready" =>
             hand[m] \in executed' \/ (m \in Resolutions /\ ~PolicyAllows(m))
        /\ next = "done" => stage[m] = "waiting"
  <2>1. CASE PersistAction(m)
    BY <1>1, <2>1 DEF PersistAction, Working
  <2>2. CASE PersistEvent(m)
    BY <1>1, <2>2 DEF PersistEvent, Working
  <2>3. CASE LeaveToHuman(m)
    BY <1>1, <2>3 DEF LeaveToHuman, Delivered
  <2> QED BY <2>1, <2>2, <2>3
<1>3. /\ UNCHANGED <<attempts, built, hand, remediationEvents, faults>>
      /\ actions' = actions \/ (stage[m] \in Working /\ actions' = actions \cup {hand[m]})
      /\ executed' = executed \/ (stage[m] \in Working /\ executed' = executed \cup {hand[m]})
  <2>1. CASE PersistAction(m)
    BY <2>1 DEF PersistAction, Working, topics, counters
  <2>2. CASE PersistEvent(m)
    BY <2>2 DEF PersistEvent, Working, topics, counters
  <2>3. CASE LeaveToHuman(m)
    BY <2>3 DEF LeaveToHuman, topics, counters
  <2> QED BY <2>1, <2>2, <2>3
<1>4. EngineTypeOK'
  BY <1>1, <1>2, <1>3 DEF EngineTypeOK, EngineStage
<1>5. HandsInv'
  <2> SUFFICES ASSUME NEW k \in Sources PROVE HandsInv!(k)'
    BY DEF HandsInv
  <2>1. HandsInv!(k) /\ (Authorised(k) => Authorised(k)')
    BY AuthorisedStays DEF HandsInv
  <2>2. CASE k = m
    <3>1. stage'[m] = next
      BY <1>1, <1>2 DEF EngineTypeOK
    <3> QED BY <1>2, <1>3, <2>1, <2>2, <3>1 DEF Working, PolicyAllows
  <2>3. CASE k # m
    <3>1. stage'[k] = stage[k]
      BY <1>1, <1>2, <2>3 DEF EngineTypeOK
    <3> QED BY <1>3, <2>1, <3>1 DEF PolicyAllows
  <2> QED BY <2>2, <2>3
<1>6. CountsInv'
  BY <1>1, <1>2, <1>3 DEF CountsInv, EngineTypeOK
<1>7. RowsInv'
  BY <1>1, <1>3, AuthorisedStays DEF RowsInv
<1> QED BY <1>3, <1>4, <1>5, <1>6, <1>7 DEF EngineInv, RecordedBeforePublished, PolicyAllows

\* A handler that ends, with a publish or an exception, or starts again.
LEMMA EndInv ==
    ASSUME IInv, NEW m \in Sources,
           PublishRemediation(m) \/ HandlerRaises(m) \/ RemediationRedelivered(m),
           UNCHANGED approvals
    PROVE  EngineInv'
<1> USE DEF IInv
<1>1. EngineTypeOK /\ remediationEvents \subseteq Action /\ HandsInv!(m)
  BY DEF TypeOK, BusTypeOK, HandsInv
<1>2. faults \in Nat /\ \A k \in Sources : built[k] \in Nat
  BY <1>1, BusAssumption DEF TypeOK, BusTypeOK, EngineTypeOK
<1>3. PICK next \in {"waiting", "done", "dead", "passed"} :
        /\ stage' = [stage EXCEPT ![m] = next]
        /\ next = "waiting" => faults' = faults + 1
  BY DEF PublishRemediation, HandlerRaises, RemediationRedelivered, Fault, AfterLastAttempt
<1>4. /\ UNCHANGED <<built, actions, executed>>
      /\ faults' = faults \/ faults' = faults + 1
  BY DEF PublishRemediation, HandlerRaises, RemediationRedelivered, Fault, counters
<1>5. hand' = [hand EXCEPT ![m] = NoAction]
  <2>1. CASE PublishRemediation(m)
    BY <2>1 DEF PublishRemediation
  <2>2. CASE HandlerRaises(m)
    BY <2>2 DEF HandlerRaises
  <2>3. CASE RemediationRedelivered(m)
    <3>1. hand[m] = NoAction /\ hand' = hand
      BY <1>1, <2>3 DEF RemediationRedelivered, Working
    <3> QED BY <1>1, <3>1 DEF EngineTypeOK
  <2> QED BY <2>1, <2>2, <2>3
<1>6. \/ remediationEvents' = remediationEvents
      \/ (stage[m] = "ready" /\ remediationEvents' = remediationEvents \cup {hand[m]})
  <2>1. CASE PublishRemediation(m)
    BY <2>1 DEF PublishRemediation
  <2>2. CASE HandlerRaises(m)
    BY <2>2 DEF HandlerRaises
  <2>3. CASE RemediationRedelivered(m)
    BY <2>3 DEF RemediationRedelivered, topics
  <2> QED BY <2>1, <2>2, <2>3
<1>7. attempts' \in [Sources -> 0..(MaxAttempts - 1)]
  <2>1. CASE PublishRemediation(m)
    BY <1>1, <2>1, BusAssumption DEF PublishRemediation, EngineTypeOK
  <2>2. CASE HandlerRaises(m)
    BY <1>1, <2>2, BusAssumption DEF HandlerRaises, EngineTypeOK
  <2>3. CASE RemediationRedelivered(m)
    BY <1>1, <2>3 DEF RemediationRedelivered, EngineTypeOK
  <2> QED BY <2>1, <2>2, <2>3
<1>8. EngineTypeOK'
  BY <1>1, <1>3, <1>4, <1>5, <1>7 DEF EngineTypeOK, EngineStage
<1>9. HandsInv'
  <2> SUFFICES ASSUME NEW k \in Sources PROVE HandsInv!(k)'
    BY DEF HandsInv
  <2>1. HandsInv!(k) /\ (Authorised(k) => Authorised(k)')
    BY AuthorisedStays DEF HandsInv
  <2>2. CASE k = m
    <3>1. stage'[k] = next /\ hand'[k] = NoAction
      BY <1>1, <1>3, <1>5, <2>2 DEF EngineTypeOK
    <3> QED BY <3>1 DEF Working
  <2>3. CASE k # m
    <3>1. stage'[k] = stage[k] /\ hand'[k] = hand[k]
      BY <1>1, <1>3, <1>5, <2>3 DEF EngineTypeOK
    <3> QED BY <1>4, <2>1, <3>1 DEF PolicyAllows
  <2> QED BY <2>2, <2>3
<1>10. CountsInv'
  <2> SUFFICES ASSUME NEW k \in Sources PROVE CountsInv!(k)'
    BY DEF CountsInv
  <2>1. CASE k = m
    BY <1>1, <1>2, <1>3, <1>4, <2>1 DEF CountsInv, EngineTypeOK
  <2>2. CASE k # m
    BY <1>1, <1>2, <1>3, <1>4, <2>2 DEF CountsInv, EngineTypeOK
  <2> QED BY <2>1, <2>2
<1>11. RowsInv'
  BY <1>4, AuthorisedStays DEF RowsInv
<1>12. /\ remediationEvents' \subseteq actions'
       /\ \A a \in remediationEvents' :
            a \in executed' \/ (a.origin \in Resolutions /\ ~PolicyAllows(a.origin))
  BY <1>1, <1>4, <1>6 DEF RecordedBeforePublished, Working
<1> QED BY <1>8, <1>9, <1>10, <1>11, <1>12 DEF EngineInv, PolicyAllows

\* The engine's process dies and starts again.
LEMMA RestartInv ==
    ASSUME IInv, EngineRestarts, UNCHANGED approvals
    PROVE  EngineInv'
<1> USE DEF IInv
<1>1. EngineTypeOK /\ 0 \in 0..(MaxAttempts - 1)
  BY BusAssumption DEF TypeOK
<1>2. faults \in Nat /\ faults' = faults + 1 /\ \A k \in Sources : built[k] \in Nat
  BY <1>1, BusAssumption DEF TypeOK, BusTypeOK, EngineTypeOK, EngineRestarts, Fault
<1>3. /\ stage' = [m \in Sources |-> IF stage[m] \in Working THEN "waiting" ELSE stage[m]]
      /\ hand' = [m \in Sources |-> NoAction] /\ attempts' = [m \in Sources |-> 0]
      /\ UNCHANGED <<built, actions, executed, remediationEvents>>
  BY DEF EngineRestarts, topics
<1>4. EngineTypeOK'
  BY <1>1, <1>3 DEF EngineTypeOK, EngineStage
<1>5. HandsInv'
  BY <1>3 DEF HandsInv, Working
<1>6. CountsInv'
  BY <1>2, <1>3 DEF CountsInv
<1>7. RowsInv'
  BY <1>3, AuthorisedStays DEF RowsInv
<1> QED BY <1>3, <1>4, <1>5, <1>6, <1>7 DEF EngineInv, RecordedBeforePublished, PolicyAllows

\* A step of the remediation engine.
LEMMA RemediateInv == IInv /\ Remediate => IInv'
<1> SUFFICES ASSUME IInv, Remediate PROVE IInv'
  OBVIOUS
<1> USE DEF IInv
<1>0. /\ UNCHANGED <<approvalVars, closureVars>> /\ EngineNext
      /\ UNCHANGED <<resolutionEvents, approvalEvents, closureEvents>>
      /\ DeliveryTypeOK' /\ inputs' \in Nat /\ faults' \in 0..MaxFaults
      /\ faults \in Nat /\ faults <= faults'
      /\ actions \subseteq actions' /\ executed \subseteq executed'
      /\ remediationEvents \subseteq remediationEvents'
  BY RemediateFrame
<1>1. UNCHANGED <<pending, received, request, approvals>>
  BY <1>0 DEF approvalVars
<1>2. ASSUME NEW m \in Resolutions, LeaveToHuman(m) \/ Block(m) PROVE EngineInv'
  <2>1. CASE LeaveToHuman(m)
    BY <1>1, <2>1, CommitInv
  <2>2. CASE Block(m)
    BY <1>1, <2>2, BuildInv DEF Block, Delivered, Build, counters
  <2> QED BY <1>2, <2>1, <2>2
<1>3. ASSUME NEW m \in Requests, Decline(m) PROVE EngineInv'
  BY <1>1, <1>3, BuildInv DEF Decline, Delivered, Build, counters
<1>4. ASSUME NEW m \in Sources, Execute(m) PROVE EngineInv'
  <2>1. Authorised(m) /\ stage[m] = "waiting"
    BY <1>4, RunsAuthorised DEF Execute, Delivered
  <2>2. PICK s \in {"succeeded", "failed"} : Build(m, s, "ran")
    BY <1>4 DEF Execute
  <2>3. UNCHANGED faults
    BY <2>2 DEF Build, counters
  <2> QED BY <1>1, <2>1, <2>2, <2>3, BuildInv
<1>5. ASSUME NEW m \in Sources, PersistAction(m) \/ PersistEvent(m) PROVE EngineInv'
  BY <1>1, <1>5, CommitInv
<1>6. ASSUME NEW m \in Sources,
             PublishRemediation(m) \/ HandlerRaises(m) \/ RemediationRedelivered(m)
      PROVE EngineInv'
  BY <1>1, <1>6, EndInv
<1>7. ASSUME EngineRestarts PROVE EngineInv'
  BY <1>1, <1>7, RestartInv
<1>8. EngineInv'
  BY <1>0, <1>2, <1>3, <1>4, <1>5, <1>6, <1>7 DEF EngineNext, EngineStep
<1>9. TypeOK'
  <2>1. ClosureTypeOK' /\ closureEvents' \subseteq Action
    BY <1>0 DEF TypeOK, BusTypeOK, ClosureTypeOK, closureVars
  <2>2. BusTypeOK'
    BY <1>0, <1>8, <2>1 DEF TypeOK, BusTypeOK, EngineInv, EngineTypeOK
  <2>3. ApprovalTypeOK'
    BY <1>0, <1>1 DEF TypeOK, ApprovalTypeOK
  <2> QED BY <1>8, <2>1, <2>2, <2>3 DEF TypeOK, EngineInv
<1>10. ClosingInv' /\ ClosedIsEarned'
  BY <1>0, <1>1, ClosureFrame
<1>11. DecisionsInv'
  BY <1>1 DEF DecisionsInv
<1>12. RecordedBeforePublished'
  BY <1>0, <1>1, <1>8 DEF RecordedBeforePublished, EngineInv, closureVars
<1> QED BY <1>8, <1>9, <1>10, <1>11, <1>12 DEF EngineInv

--------------------------------------------------------------------------------
\* A step of the brokers.
LEMMA TransportInv == IInv /\ Transport => IInv'
<1> SUFFICES ASSUME IInv, Transport PROVE IInv'
  OBVIOUS
<1> USE DEF IInv
<1>1. /\ UNCHANGED <<approvalVars, engineVars, closureVars>> /\ BusNext
      /\ UNCHANGED topics /\ Fault
  BY DEF Transport, BusNext, RecordMoves, ConsumerEnds
<1>2. /\ DeliveryTypeOK' /\ inputs' \in Nat /\ faults' \in 0..MaxFaults
      /\ faults \in Nat /\ faults <= faults'
  BY <1>1, DeliveryStep, Counters
<1>3. UNCHANGED <<pending, received, request, approvals>>
  BY <1>1 DEF approvalVars
<1>4. TypeOK'
  BY <1>1, <1>2
  DEF TypeOK, BusTypeOK, ApprovalTypeOK, EngineTypeOK, ClosureTypeOK,
      approvalVars, engineVars, closureVars, topics
<1>5. HandsInv' /\ CountsInv' /\ RowsInv'
  BY <1>1, <1>2, <1>3, <1>4, EngineFrame
<1>6. ClosingInv' /\ ClosedIsEarned'
  BY <1>1, <1>3, ClosureFrame DEF engineVars
<1>7. DecisionsInv' /\ RecordedBeforePublished'
  BY <1>1 DEF DecisionsInv, RecordedBeforePublished, PolicyAllows,
              topics, approvalVars, engineVars, closureVars
<1> QED BY <1>4, <1>5, <1>6, <1>7

LEMMA StutterInv == IInv /\ UNCHANGED vars => IInv'
BY DEF IInv, vars, delivery, DeliveryTypeOK, topics, counters, approvalVars, engineVars, closureVars,
       TypeOK, BusTypeOK, ApprovalTypeOK, EngineTypeOK, ClosureTypeOK,
       DecisionsInv, HandsInv, CountsInv, RowsInv, ClosingInv,
       RecordedBeforePublished, ClosedIsEarned, Authorised, PolicyAllows

\* IInv holds in every state of every behaviour.
THEOREM Inductive == Spec => []IInv
<1>1. IInv /\ [Next]_vars => IInv'
  BY ApproveInv, RemediateInv, CloseInv, TransportInv, StutterInv DEF Next
<1> QED BY InitInv, <1>1, PTL DEF Spec

\* No tool runs on the incident for a decision that is not in the database,
\* nor without a decision when the policy does not allow it.
THEOREM ExecutionsAreAuthorised == Spec => []ExecutionsAuthorised
<1>1. IInv => ExecutionsAuthorised
  BY DEF IInv, HandsInv, ExecutionsAuthorised, NoAction
<1> QED BY <1>1, Inductive, PTL

\* No topic ever carries what the database does not hold, and a closed incident was
\* repaired by an authorised action.
THEOREM ClaimsWereBacked == Spec => []ClaimsAreBacked
<1>1. IInv => ClaimsAreBacked
  BY DEF IInv, ClaimsAreBacked
<1> QED BY <1>1, Inductive, PTL

\* Every decision is acted on at most once, and once more per fault.
THEOREM RepeatsAreFaults == Spec => []RepeatsNeedFaults
<1>1. IInv => RepeatsNeedFaults
  BY DEF IInv, CountsInv, RepeatsNeedFaults
<1> QED BY <1>1, Inductive, PTL

\* Every variable of the three services keeps its type.
THEOREM PipelineTypeCorrect == Spec => []TypeOK
<1>1. IInv => TypeOK
  BY DEF IInv
<1> QED BY <1>1, Inductive, PTL
================================================================================
