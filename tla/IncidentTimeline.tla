-------------------------- MODULE IncidentTimeline --------------------------
(***************************************************************************)
(* The timeline of the incident the operator has selected.  The services   *)
(* of the pipeline append events and records to the store, each with the   *)
(* time of its own clock.  The page reads the incident, its latest records *)
(* and its events as one document, which is the store of some moment, and  *)
(* computes rows from it: rows of the stages the console knows of, and one *)
(* row of each event.  They are put in one order, without repetitions, and *)
(* shown as a list with statuses, as sections of one kind of work, and as  *)
(* six lanes.                                                              *)
(*                                                                         *)
(* A text is the set of those of its words that a status is read from.  A  *)
(* stage is named by what is shown of it.  Left out: what only the local   *)
(* workflow stores (work items, incident.closed), the discovery rows,      *)
(* which no service of this repository fills, and the order of two answers *)
(* to the page.                                                            *)
(***************************************************************************)
EXTENDS Integers, Sequences, FiniteSets, Ranking

CONSTANTS
    Reasons,    \* what a policy reason or an error may say: sets of Words
    NoTime,     \* an empty timestamp
    TraceLimit, \* how many events the page keeps: 300 in the code
    Numbered,   \* how many of them show their number: 9 in the code
    MaxRuns     \* bound on executions of one incident

Words == {"fallback", "success", "failure"}

ASSUME TimelineAssumption ==
    /\ Reasons \subseteq SUBSET Words /\ NoTime \notin Int
    /\ TraceLimit \in Nat \ {0} /\ Numbered \in Nat /\ MaxRuns \in Nat \ {0}

VARIABLES
    store,      \* the incident, its records and its events
    clocks      \* whether the clocks agree (1), are too coarse (0) or run against each other (-1)

timelineVars == <<store, clocks>>

(***************************************************************************)
(* The services                                                            *)
(***************************************************************************)
UpstreamTypes == <<"alert.enriched", "workflow.selected", "context.collected", "recommendation.generated">>
EventTypes == {UpstreamTypes[i] : i \in DOMAIN UpstreamTypes} \cup {"approval.recorded", "remediation.executed", "closure.completed"}

Landed == 20    \* when the alert was created
NoAction == [status |-> "", error |-> {}, says |-> FALSE, at |-> NoTime]

Empty == [trace |-> <<>>, reason |-> {}, matches |-> FALSE, decided |-> "none",
          action |-> NoAction, status |-> "open", runs |-> 0]

TimelineInit ==
    /\ store = Empty
    /\ clocks \in {-1, 0, 1}

Now == Landed + clocks * (Len(store.trace) + 1)
With(type, status) ==
    Append(store.trace, [type |-> type, at |-> Now, status |-> status])

\* The four services before the decision, in turn.  The policy is decided with the second.
Upstream ==
    LET n == Len(store.trace) + 1 IN
    /\ n <= Len(UpstreamTypes)
    /\ \E reason \in Reasons, matches \in BOOLEAN :
          /\ n # 2 => reason = store.reason
          /\ n # 4 => ~matches
          /\ store' = [store EXCEPT
                !.trace = With(UpstreamTypes[n], IF n = 4 THEN "awaiting_approval" ELSE "investigating"),
                !.reason = reason, !.matches = matches]

Undecided == Len(store.trace) >= 4 /\ store.decided = "none" /\ store.status # "closed" /\ store.runs < MaxRuns

\* The approval service records a decision of the operator, who may decide again on an
\* incident that was not restored.
Decide(decision) ==
    /\ Undecided
    /\ store' = [store EXCEPT
          !.decided = decision,
          !.trace = With("approval.recorded", IF decision = "approved" THEN "remediating" ELSE "failed")]

Acted(status, error, says) == [status |-> status, error |-> error, says |-> says, at |-> Now]

\* The engine runs the tool, declines what was rejected, or skips it for a check of its own;
\* it may have begun without a decision.  An action that failed may say nothing.
Execute(status, error, says) ==
    /\ \/ store.decided \in {"approved", "rejected"}
       \/ Undecided /\ store.runs = 0
    /\ store.decided = "rejected" => status = "skipped"
    /\ status # "failed" => error = {} /\ says = (status = "skipped")
    /\ ~says => error = {}
    /\ store' = [store EXCEPT
          !.runs = @ + 1, !.decided = "acted",
          !.action = Acted(status, error, says),
          !.trace = With("remediation.executed",
                         CASE status = "succeeded" -> "validating"
                           [] status = "failed" -> "failed"
                           [] status = "skipped" -> "remediating")]

\* The policy forbids to run without a decision: a record and no event.
Block ==
    /\ Undecided /\ store.runs = 0
    /\ store' = [store EXCEPT !.runs = @ + 1, !.decided = "acted",
                              !.action = Acted("skipped", {}, TRUE)]

\* The closure service: only an action that succeeded restores.
Close ==
    LET status == IF store.action.status = "succeeded" THEN "closed" ELSE "failed" IN
    /\ store.decided = "acted"
    /\ store' = [store EXCEPT
          !.decided = "none", !.status = status,
          !.trace = With("closure.completed", status)]

TimelineNext ==
    /\ \/ Upstream \/ Block \/ Close
       \/ \E decision \in {"approved", "rejected"} : Decide(decision)
       \/ \E status \in {"succeeded", "failed", "skipped"}, error \in Reasons, says \in BOOLEAN :
             Execute(status, error, says)
    /\ UNCHANGED clocks

TimelineSpec == TimelineInit /\ [][TimelineNext]_timelineVars

(***************************************************************************)
(* The rows of a document                                                  *)
(***************************************************************************)
\* How an event stands among the others: by time, and at equal times as in the answer.
Before(trace, i, j) == trace[i].at < trace[j].at \/ (trace[i].at = trace[j].at /\ i < j)
TurnOf(trace) ==
    [i \in DOMAIN trace |-> Cardinality({j \in DOMAIN trace : Before(trace, j, i)}) + 1]

\* selectedAlertEventTrace: the last of the events in their order.
EventTrace(d) ==
    LET order == AtRank(TurnOf(d.trace))
        cut == IF Len(d.trace) > TraceLimit THEN Len(d.trace) - TraceLimit ELSE 0
        Event(i) == [type |-> d.trace[i].type, at |-> d.trace[i].at, status |-> d.trace[i].status, nth |-> i]
    IN  [n \in 1..(Len(d.trace) - cut) |-> Event(order[n + cut])]

firstTraceTimestamp(rows, types) ==
    LET hits == {i \in DOMAIN rows : rows[i].type \in types}
    IN  IF hits = {} THEN NoTime ELSE rows[CHOOSE i \in hits : \A j \in hits : i <= j].at
Or(time, otherwise) == IF time # NoTime THEN time ELSE otherwise

\* When each stage is said to have happened: at its own events, or else with the one
\* before.  The alert always has a time, and the report of a closure comes with its event.
StageTimes(d) ==
    LET trace == EventTrace(d)
        At(types) == firstTraceTimestamp(trace, types)
        dedupe == Or(At({"workflow.selected"}), Landed)
        context == Or(At({"context.collected"}), dedupe)
        routing == Or(At({"workflow.selected", "recommendation.generated"}), context)
        recommendation == Or(At({"recommendation.generated"}), routing)
        approval == Or(At({"approval.recorded"}), recommendation)
    IN  [landing |-> Landed, dedupe |-> dedupe, config |-> dedupe, context |-> context,
         routing |-> routing, recommendation |-> recommendation, approval |-> approval,
         remediation |-> Or(d.action.at, Or(At({"remediation.executed"}), approval)),
         closure |-> At({"closure.completed"})]

\* label is the number an event is shown with; from is its place in the document.
Telling(stage, order, time, words, error) ==
    [stage |-> stage, order |-> order, time |-> time, seq |-> 0, label |-> 0,
     words |-> words, error |-> error, from |-> 0]
Row(stage, order, time) == Telling(stage, order, time, {}, FALSE)
BusRow(stage, order, time) == Row(stage, order, time)
If(condition, rows) == IF condition THEN rows ELSE <<>>

\* What the record of the action says, which the rows of its stages repeat.
ActionWords(d) ==
    CASE d.action.status = "succeeded" -> {"success"}
      [] d.action.status = "failed" -> {"failure"}
      [] d.action.status = "skipped" -> {"fallback"}
      [] OTHER -> {}

LandedRows(t) ==
    <<Row("Alert Landed", 10, t.landing), BusRow("Raw Alert Topic Handoff", 20, t.landing)>>

DedupeRows(t) ==
    <<Row("Deduplication", 30, t.dedupe), BusRow("Enriched Alert Topic Handoff", 40, t.dedupe)>>

\* The selection of a workflow and the configuration: the decision is always there.
RoutingRows(t) ==
    <<Row("Orchestrator Workflow Selection", 50, t.routing),
      Row("Configuration And Connector Lookup", 60, t.config),
      BusRow("Orchestration Event Topic Handoff", 70, t.routing)>>

ContextRows(d, t) ==
    If(d.matches \/ t.context # NoTime,
       <<Row("RAG Context Retrieval", 80, t.context),
         Row("Context Merge And Evidence Assembly", 90, t.context),
         BusRow("Context Event Topic Handoff", 100, t.context)>>)

SemanticRows(d, t) == If(d.matches, <<Row("Embedding And Semantic Search", 85, t.context)>>)

RecommendationRows(t) ==
    If(t.recommendation # NoTime,
       <<Row("Resolution Recommendation Generated", 110, t.recommendation),
         BusRow("Resolution Event Topic Handoff", 120, t.recommendation)>>)

ApprovalRows(t) ==
    If(t.approval # NoTime,
       <<Row("Human Approval Gate", 130, t.approval),
         BusRow("Approval Event Topic Handoff", 140, t.approval)>>)

\* The commands are never empty: a preview of the plan stands for them.
RemediationRows(d, t) ==
    <<Telling("Remediation Command Execution", 150, t.remediation, ActionWords(d) \cup d.action.error, d.action.says),
      Telling("Remediation Event Topic Handoff", 160, t.remediation, ActionWords(d), FALSE)>>

ClosureRows(d, t) ==
    If(t.closure # NoTime,
       <<Telling("Closure Validation And Incident Update", 170, t.closure, ActionWords(d), FALSE)>>)

buildSyntheticFlowRows(d) ==
    LET t == StageTimes(d) IN
    LandedRows(t) \o DedupeRows(t) \o RoutingRows(t) \o ContextRows(d, t) \o SemanticRows(d, t)
    \o RecommendationRows(t) \o ApprovalRows(t) \o RemediationRows(d, t) \o ClosureRows(d, t)

\* Two rows of the context agent that every document gets: the metadata is at least empty.
MergeRow(stage, seq) ==
    [stage |-> stage, order |-> 0, time |-> Landed, seq |-> seq, label |-> 0,
     words |-> {}, error |-> FALSE, from |-> 0]
MergeRows == <<MergeRow("Context Agent Merged Inputs", 86), MergeRow("Context Agent Published RCA Context", 87)>>

isFailureStatus(status) == status = "failed"

\* The error of an event: only its status tells; its text is then the reason, or the status.
extractEventError(e) == isFailureStatus(e.status)

\* The names of two types are read as a success, whatever happened.
EventWords(d, e) ==
    (IF e.type \in {"closure.completed"} \/ e.status = "closed" THEN {"success"} ELSE {})
    \cup (IF isFailureStatus(e.status) THEN {"failure"} ELSE {})
    \cup (IF e.type \in {"alert.enriched", "closure.completed"} THEN {} ELSE d.reason)

\* Only the first ones show their number.
TraceRows(d) ==
    LET trace == EventTrace(d) IN
    [i \in DOMAIN trace |->
        LET e == trace[i] IN
        [stage |-> e.type, order |-> 0, time |-> e.at, seq |-> i, label |-> IF i <= Numbered THEN i ELSE 0,
         words |-> EventWords(d, e), error |-> extractEventError(e), from |-> e.nth]]

(***************************************************************************)
(* Their order                                                             *)
(***************************************************************************)
\* The place of a row that has no number of its own is read from its words.
PhaseOfEvent ==
    [type \in EventTypes |->
        CASE type = "alert.enriched" -> 10
          [] type = "workflow.selected" -> 50
          [] type = "context.collected" -> 80
          [] type = "recommendation.generated" -> 110
          [] type = "approval.recorded" -> 130
          [] type = "remediation.executed" -> 150
          [] type = "closure.completed" -> 170]

timelinePhaseOrder(r) ==
    IF r.order > 0 THEN r.order
    ELSE IF r.stage \in EventTypes THEN PhaseOfEvent[r.stage] ELSE 99

\* The comparison of the sort.  A row has a place i in the list that is sorted.
Earlier(r, i, q, j) ==
    LET p == timelinePhaseOrder(r)  s == timelinePhaseOrder(q) IN
    IF p # s THEN p < s
    ELSE IF r.time # NoTime /\ q.time # NoTime /\ r.time # q.time THEN r.time < q.time
    ELSE IF (r.time = NoTime) # (q.time = NoTime) THEN q.time = NoTime
    ELSE IF r.seq # 0 /\ q.seq # 0 /\ r.seq # q.seq THEN r.seq < q.seq
    ELSE i < j

\* Mutant: the time decides before the phase.
EarlierByTime(r, i, q, j) ==
    IF r.time # q.time THEN r.time < q.time
    ELSE IF timelinePhaseOrder(r) # timelinePhaseOrder(q) THEN timelinePhaseOrder(r) < timelinePhaseOrder(q)
    ELSE i < j

RowBefore(r, i, q, j) == Earlier(r, i, q, j)

UnorderedRows(d) == buildSyntheticFlowRows(d) \o MergeRows \o TraceRows(d)

RankOf(rows, i) == Cardinality({j \in DOMAIN rows : j # i /\ RowBefore(rows[j], j, rows[i], i)}) + 1

OrderedRows(rows) ==
    LET order == AtRank([i \in DOMAIN rows |-> RankOf(rows, i)])
    IN  [k \in DOMAIN rows |-> rows[order[k]]]

\* What two rows must differ in to be shown both.
RowKey(r) == <<r.stage, r.label, r.time>>

\* selectedAlertTimelineRows, of the rows of a document.
TimelineRows(unordered) ==
    LET rows == OrderedRows(unordered)
        first == {k \in DOMAIN rows : \A j \in 1..(k - 1) : RowKey(rows[j]) # RowKey(rows[k])}
        order == Ascending(first)
    IN  [n \in DOMAIN order |-> rows[order[n]]]

(***************************************************************************)
(* What is shown of a row                                                  *)
(***************************************************************************)
timelineRowHasError(r) ==
    r.error /\ "fallback" \notin r.words /\ "success" \notin r.words /\ "failure" \in r.words

timelineRowStatus(r) ==
    IF "fallback" \in r.words THEN "fallback"
    ELSE IF timelineRowHasError(r) THEN "failed" ELSE "observed"

KindOfStage ==
    [bus |-> {20, 40, 70, 100, 120, 140, 160}, ingestion |-> {10}, dedupe |-> {30}, orchestration |-> {50},
     config |-> {60}, rag |-> {80}, semantic |-> {85}, context |-> {90}, resolution |-> {110},
     approval |-> {130}, execution |-> {150}, closure |-> {170}]

KindOfEvent ==
    [type \in EventTypes |->
        CASE type = "alert.enriched" -> "dedupe"
          [] type = "workflow.selected" -> "orchestration"
          [] type = "context.collected" -> "generic"
          [] type = "recommendation.generated" -> "resolution"
          [] type = "approval.recorded" -> "approval"
          [] type = "remediation.executed" -> "execution"
          [] type = "closure.completed" -> "closure"]

classifyFlowStageFromRow(r) ==
    IF r.order > 0 THEN CHOOSE kind \in DOMAIN KindOfStage : r.order \in KindOfStage[kind]
    ELSE IF r.stage \in EventTypes THEN KindOfEvent[r.stage] ELSE "generic"

\* Mutant: a fallback counts before a failure.
StatusOfRowsMildest(rows) ==
    IF \E r \in rows : timelineRowStatus(r) = "fallback" THEN "fallback"
    ELSE IF \E r \in rows : timelineRowHasError(r) THEN "failed" ELSE "observed"

StatusOfRows(rows) ==
    IF \E r \in rows : timelineRowHasError(r) THEN "failed"
    ELSE IF \E r \in rows : timelineRowStatus(r) = "fallback" THEN "fallback" ELSE "observed"

\* Neighbours of one kind, as <<first, last>>.
buildDynamicFlowSections(rows) ==
    LET Kind(k) == classifyFlowStageFromRow(rows[k])
    IN  {s \in (DOMAIN rows) \X (DOMAIN rows) :
            /\ s[1] <= s[2] /\ \A k \in s[1]..s[2] : Kind(k) = Kind(s[1])
            /\ s[1] = 1 \/ Kind(s[1] - 1) # Kind(s[1])
            /\ s[2] = Len(rows) \/ Kind(s[2] + 1) # Kind(s[2])}

Lanes == <<"detect", "discover", "diagnose", "decide", "act", "validate">>

\* laneIdForRow: where a row belongs by its number or by the words of its stage; the name
\* of two types says nothing.
laneIdForRow(r) ==
    CASE r.order >= 170 \/ r.stage = "closure.completed" -> "validate"
      [] r.order \in 150..169 \/ r.stage = "remediation.executed" -> "act"
      [] r.order \in 130..149 \/ r.stage = "approval.recorded" -> "decide"
      [] r.order \in 100..129 \/ r.stage = "Context Agent Published RCA Context" -> "diagnose"
      [] r.order \in 50..99 \/ r.stage \in {"context.collected", "Context Agent Merged Inputs"} -> "discover"
      [] r.order \in 1..49 \/ r.stage = "alert.enriched" -> "detect"
      [] OTHER -> ""

\* The lanes whose words the texts of these two hold: the names of topics and agents.
LanesOfText(r) ==
    CASE r.stage = "workflow.selected" -> {"detect"}
      [] r.stage = "recommendation.generated" -> {"discover", "diagnose"}
      [] OTHER -> {}

LaneHit(r, lane) == IF laneIdForRow(r) # "" THEN laneIdForRow(r) = lane ELSE lane \in LanesOfText(r)

\* Mutant: every lane tests every row.
ClaimedByAny(rows, k, i) == LaneHit(rows[k], Lanes[i])

\* A row is claimed by the first lane it hits.
Claimed(rows, k, i) == LaneHit(rows[k], Lanes[i]) /\ \A j \in 1..(i - 1) : ~LaneHit(rows[k], Lanes[j])

LaneRows(rows, i) == {k \in DOMAIN rows : Claimed(rows, k, i)}

LaneStatus(rows, i) ==
    LET mine == {rows[k] : k \in LaneRows(rows, i)} IN
    IF mine = {} THEN "waiting"
    ELSE IF StatusOfRows(mine) = "observed" THEN "complete" ELSE StatusOfRows(mine)

(***************************************************************************)
(* Properties                                                              *)
(***************************************************************************)
TypePlace ==
    UpstreamTypes \o <<"approval.recorded", "remediation.executed", "closure.completed">>
Place(type) == CHOOSE i \in DOMAIN TypePlace : TypePlace[i] = type

\* Of events of one type and one moment that show no number the page shows the first.
Repeated(trace, p) ==
    \E q \in (Numbered + 1)..(p - 1) : trace[q].type = trace[p].type /\ trace[q].at = trace[p].at

\* The latest events are kept, as many as the page keeps.
KeepsTheLatest(trace) ==
    LET kept == {trace[p].nth : p \in DOMAIN trace} IN
    /\ kept \subseteq DOMAIN store.trace
    /\ Len(trace) = TraceLimit \/ kept = DOMAIN store.trace
    /\ \A i \in kept, k \in DOMAIN store.trace \ kept : Before(store.trace, k, i)
    /\ \A p, q \in DOMAIN trace : p < q => Before(store.trace, trace[p].nth, trace[q].nth)

\* Although clocks disagree and services record at the same moment, of the events the page
\* keeps every one is shown that can be told from the earlier ones, once, in one lane, and
\* after the events that lead to it in the pipeline; and the comparison of the sort leaves
\* one order only.
EventsStandInOrder ==
    store.trace # <<>> =>
    \A trace \in {EventTrace(store)}, unordered \in {UnorderedRows(store)} :
    \A rows \in {TimelineRows(unordered)} :
    LET events == {k \in DOMAIN rows : rows[k].from # 0}
    IN  /\ KeepsTheLatest(trace)
        /\ {RankOf(unordered, i) : i \in DOMAIN unordered} = DOMAIN unordered
        /\ {rows[k].from : k \in events} = {trace[p].nth : p \in {q \in DOMAIN trace : ~Repeated(trace, q)}}
        /\ \A k, l \in events : k < l => /\ rows[k].from # rows[l].from
                                       /\ Place(rows[k].stage) <= Place(rows[l].stage)
        /\ \A k \in DOMAIN rows : Cardinality({i \in DOMAIN Lanes : Claimed(rows, k, i)}) = 1

\* A decision or an execution that is recorded as failed, and shown, turns its own lane and
\* its section to failed, unless the reason of the policy holds a word that is taken for
\* something else; and no lane is failed for anything else.
FailuresAreShown ==
    store.trace # <<>> =>
    \A trace \in {EventTrace(store)}, rows \in {TimelineRows(UnorderedRows(store))} :
    LET Failed(type) ==
            \E p \in DOMAIN trace : /\ trace[p].type = type /\ trace[p].status = "failed"
                                    /\ ~Repeated(trace, p)
        lane == [i \in DOMAIN Lanes |-> LaneStatus(rows, i)]
        sections == buildDynamicFlowSections(rows)
        SectionFailed(kind) ==
            \E s \in sections : /\ classifyFlowStageFromRow(rows[s[1]]) = kind
                               /\ StatusOfRows({rows[k] : k \in s[1]..s[2]}) = "failed"
    IN  /\ store.reason \cap {"fallback", "success"} = {} =>
              /\ Failed("approval.recorded") => lane[4] = "failed" /\ SectionFailed("approval")
              /\ Failed("remediation.executed") => lane[5] = "failed" /\ SectionFailed("execution")
        /\ \A i \in DOMAIN Lanes : lane[i] = "failed" =>
              \/ i = 4 /\ Failed("approval.recorded")
              \/ i = 5 /\ (Failed("remediation.executed") \/ store.action.status = "failed")

=============================================================================
