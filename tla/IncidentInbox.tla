---------------------------- MODULE IncidentInbox ----------------------------
(***************************************************************************)
(* The unified inbox of the console and the command page of one incident:  *)
(* loadIncidentMetadata of App.jsx, routes/incidents/IncidentsRoute.tsx    *)
(* and features/incidents/IncidentCommand.tsx, over the projection rows    *)
(* that the services write as an incident goes on.                         *)
(*                                                                         *)
(* A row has of its columns the status, the type of the latest event, and  *)
(* the execution mode, which the closure event overwrites; no service      *)
(* sends an approval status, so the status shown is that of the row.       *)
(* Alerts that have no incident are left out of the lists.                 *)
(*                                                                         *)
(* The list has at most one request out.  The command page looks an        *)
(* incident up that the list does not hold; an effect starts that call,    *)
(* and its cleanup aborts it, whenever the route, `loading` or the row     *)
(* found in the list changes.                                              *)
(***************************************************************************)
EXTENDS Integers, FiniteSets, FiniteSetsExt, SequencesExt

CONSTANTS
    Incidents,
    NoIncident,
    Human,         \* the incidents whose execution mode asks for a person
    Filters,       \* the statuses an operator filters by, and "all"
    Limit,         \* rows a list request asks for
    PageSize,
    MaxEvents,     \* bound on incident events
    MaxInboxActs,  \* bound on what the operator does
    MaxInboxFaults \* bound on calls that fail

ASSUME InboxAssumption ==
    /\ IsFiniteSet(Incidents)
    /\ NoIncident \notin Incidents
    /\ Human \subseteq Incidents
    /\ "all" \in Filters /\ "none" \notin Filters
    /\ {Limit, PageSize} \subseteq Nat \ {0}
    /\ {MaxEvents, MaxInboxActs, MaxInboxFaults} \subseteq Nat

VARIABLES
    projections, \* the rows of the server, by incident
    clock,       \* events so far
    decided,     \* history: incidents of which a person decided
    agreed,      \* history: incidents a person decided to go on with
    worked,      \* history: incidents of which an action succeeded
    screen,      \* "home", the list of the inbox, or the command page
    filter,      \* metadataFilters; the ref follows it in the same commit
    rows,        \* incidentMetadata.rows
    loading,
    listError,
    request,     \* incidentMetadataRequestRef: is a reload pending, was it answered lately?
    call,        \* the request that is out
    timer,       \* is a reload scheduled?
    stale,       \* history: did the last request fail?
    page,
    view,
    route,       \* the incident of the command page
    lookup,      \* targetedLookup
    targeted,    \* targetedIncident
    finding,     \* the call of the lookup that is out
    settledFor,  \* history: the route whose lookup was answered last
    acts,
    faults

historyVars == <<decided, agreed, worked>>
serverVars == <<projections, clock, historyVars>>
listVars == <<filter, rows, loading, listError, request, call, timer, stale>>
commandVars == <<route, lookup, targeted, finding, settledFor>>
inboxVars == <<serverVars, screen, listVars, page, view, commandVars, acts, faults>>

(***************************************************************************)
(* The incident events, each with the status its envelope carries.         *)
(***************************************************************************)
Row(kind, status, mode) == [kind |-> kind, status |-> status, mode |-> mode, at |-> clock + 1]

Known == DOMAIN projections
Mode(i) == IF i \in Human THEN "human-approval" ELSE "automatic"

\* The row of the incident after an event: the projection copies the newest one.
Record(i, kind, status, mode) ==
    /\ clock < MaxEvents
    /\ clock' = clock + 1
    /\ projections' = [j \in Known \union {i} |->
                          IF j = i THEN Row(kind, status, mode) ELSE projections[j]]

Latest(i, kinds) == i \in Known /\ projections[i].kind \in kinds

Enriched(i) ==
    /\ i \notin Known
    /\ Record(i, "alert.enriched", "investigating", "unknown")
    /\ UNCHANGED historyVars

Selected(i) ==
    /\ Latest(i, {"alert.enriched"})
    /\ Record(i, "workflow.selected", "investigating", Mode(i))
    /\ UNCHANGED historyVars

ContextCollected(i) ==
    /\ Latest(i, {"workflow.selected"})
    /\ Record(i, "context.collected", "investigating", Mode(i))
    /\ UNCHANGED historyVars

Recommended(i) ==
    /\ Latest(i, {"context.collected"})
    /\ Record(i, "recommendation.generated",
              IF i \in Human THEN "awaiting_approval" ELSE "remediating", Mode(i))
    /\ UNCHANGED historyVars

\* The decision is recorded, and carried out, under the mode of the pending entry; the
\* answer itself has replaced that entry, unless the request was delivered again.
ModesAfterDecision(i) == {Mode(i), "unknown"}

\* Approved or modified, or rejected.
ApprovalRecorded(i) ==
    /\ Latest(i, {"recommendation.generated"}) /\ i \in Human
    /\ \E m \in ModesAfterDecision(i) :
          \/ /\ Record(i, "approval.recorded", "remediating", m)
             /\ agreed' = agreed \union {i}
          \/ /\ Record(i, "approval.recorded", "failed", m)
             /\ UNCHANGED agreed
    /\ decided' = decided \union {i}
    /\ UNCHANGED worked

\* Mutant: what was rejected is carried out like what was approved.
CarriesOutAll(i) ==
    /\ Latest(i, {"recommendation.generated", "approval.recorded"})
    /\ projections[i].status # "awaiting_approval"
    /\ \/ /\ Record(i, "remediation.executed", "validating", Mode(i))
          /\ worked' = worked \union {i}
       \/ /\ \E s \in {"failed", "remediating"} : Record(i, "remediation.executed", s, Mode(i))
          /\ UNCHANGED worked
    /\ UNCHANGED <<decided, agreed>>

\* What is rejected, or not allowed, is skipped: that is saved as still under way.
RemediationExecuted(i) ==
    /\ \/ Latest(i, {"recommendation.generated"}) /\ i \notin Human
       \/ Latest(i, {"approval.recorded"})
    /\ \E m \in IF i \in Human THEN ModesAfterDecision(i) ELSE {Mode(i)} :
          \/ /\ Record(i, "remediation.executed", "remediating", m)
             /\ UNCHANGED worked
          \/ /\ projections[i].status = "remediating"
             /\ Record(i, "remediation.executed", "failed", m)
             /\ UNCHANGED worked
          \/ /\ projections[i].status = "remediating"
             /\ Record(i, "remediation.executed", "validating", m)
             /\ worked' = worked \union {i}
    /\ UNCHANGED <<decided, agreed>>

\* The closure event follows every action, those that were skipped and, with no event
\* of their own, those the policy blocked; its policy is all "unknown".
ClosureCompleted(i) ==
    /\ \/ Latest(i, {"remediation.executed"})
       \/ Latest(i, {"recommendation.generated"}) /\ i \notin Human
    /\ \/ /\ i \in worked /\ Latest(i, {"remediation.executed"})
          /\ Record(i, "closure.completed", "closed", "unknown")
       \/ Record(i, "closure.completed", "failed", "unknown")
    /\ UNCHANGED historyVars

IncidentEvent ==
    /\ \E i \in Incidents :
          \/ Enriched(i) \/ Selected(i) \/ ContextCollected(i) \/ Recommended(i)
          \/ ApprovalRecorded(i) \/ RemediationExecuted(i) \/ ClosureCompleted(i)
    /\ UNCHANGED <<screen, listVars, page, view, commandVars, acts, faults>>

\* The first n rows by updated_at that a filter admits.
Fits(row, f) == f = "all" \/ row.status = f
ListedIds(f, n) ==
    LET fitting == {i \in Known : Fits(projections[i], f)}
    IN  {i \in fitting : Cardinality({j \in fitting : projections[j].at > projections[i].at}) < n}
Listing(f, n) == [i \in ListedIds(f, n) |-> projections[i]]

(***************************************************************************)
(* What the list says of a row.                                            *)
(***************************************************************************)
Terminal == {"closed", "resolved", "recovered", "cancelled"}
Failures == {"failed", "blocked", "manual_intervention_required", "validation_failed", "rollback_failed"}

\* belongsToInboxView, its three views that exclude each other.
InboxView(row) ==
    IF row.status \in Terminal THEN "resolved"
    ELSE IF row.status \in Failures \union {"awaiting_approval"} THEN "needs_me"
    ELSE "kai_handling"

Stage(id, state) == [id |-> id, state |-> state]
If(condition, stages) == IF condition THEN stages ELSE <<>>

Understood(row) == row.status \in {"awaiting_approval", "remediating", "validating", "closed", "failed"}

ApprovalStages(row) ==
    If(row.mode = "human-approval" /\ row.status \in {"awaiting_approval", "remediating", "validating", "closed"},
       <<Stage("approval", IF row.status = "awaiting_approval" THEN "current" ELSE "complete")>>)

\* The action and its validation: by status, and by the type of the latest event.
ClosingStages(row) ==
    CASE row.status = "remediating" -> <<Stage("resolve", "current")>>
      [] row.status = "validating" -> <<Stage("resolve", "complete"), Stage("validate", "current")>>
      [] row.status = "failed" /\ row.kind = "closure.completed" ->
            <<Stage("resolve", "complete"), Stage("validate", "failed")>>
      [] row.status = "failed" /\ row.kind # "closure.completed" -> <<Stage("resolve", "failed")>>
      [] row.status = "closed" -> <<Stage("resolve", "complete"), Stage("validate", "complete")>>
      [] OTHER -> <<>>

\* lifecycleFor, from the decision to open an incident; the stages before it are
\* always complete.  The context is known while its event is the latest one, and
\* its source is never sent.
Lifecycle(row) ==
    <<Stage("decision", "complete")>>
    \o If(row.kind = "context.collected", <<Stage("context", "current")>>)
    \o If(Understood(row), <<Stage("understand", "complete")>>)
    \o ApprovalStages(row)
    \o ClosingStages(row)

\* The stage a card names: the first that is not behind, or the last.
CurrentStage(row) ==
    LET stages == Lifecycle(row)
        ahead == {k \in DOMAIN stages : stages[k].state \in {"current", "failed"}}
    IN  stages[IF ahead = {} THEN Len(stages) ELSE Min(ahead)]

(***************************************************************************)
(* The pages of the list.                                                  *)
(***************************************************************************)
InView(shown, v) == {i \in DOMAIN shown : v = "all" \/ InboxView(shown[i]) = v}
Pages(n) == IF n = 0 THEN 1 ELSE (n + PageSize - 1) \div PageSize
PagesOf(shown, v) == Pages(Cardinality(InView(shown, v)))

\* setPage((current) => Math.min(current, pages))
Clamped(shown, p) == IF p > PagesOf(shown, view) THEN PagesOf(shown, view) ELSE p

(***************************************************************************)
(* The command page of an incident.                                        *)
(***************************************************************************)
NoCall == [route |-> NoIncident, answer |-> "none", row |-> {}]
NoLookup == [complete |-> FALSE, error |-> FALSE]
Looking(r, shown, busy) == r # NoIncident /\ r \notin DOMAIN shown /\ ~busy

\* The two effects of IncidentCommand after a commit that leaves it with route r, the
\* rows `shown` and `loading` = busy.
LookupEffects(r, shown, busy) ==
    LET moved == r # route
        changed == moved \/ busy # loading \/ (r \in DOMAIN shown) # (route \in DOMAIN rows)
    IN  /\ route' = r
        /\ targeted' = IF moved THEN {} ELSE targeted
        /\ lookup' = IF moved \/ (changed /\ Looking(r, shown, busy)) THEN NoLookup ELSE lookup
        /\ finding' = IF ~changed THEN finding
                      ELSE IF Looking(r, shown, busy) THEN [NoCall EXCEPT !.route = r] ELSE NoCall
        /\ UNCHANGED settledFor

\* The row of the route: that of the list before that of the lookup.
RowShown == route \in DOMAIN rows \/ route \in targeted

CommandPage ==
    IF (loading /\ rows = <<>>) \/ (route \notin DOMAIN rows /\ ~lookup.complete) THEN "loading"
    ELSE IF listError /\ rows = <<>> THEN "unavailable"
    ELSE IF RowShown THEN "shown"
    ELSE IF lookup.error THEN "lookup failed" ELSE "not found"

(***************************************************************************)
(* Loading the list.                                                       *)
(***************************************************************************)
NoRequest == [filter |-> "none", answer |-> "none", rows |-> <<>>]
OnInbox == screen \in {"list", "command"}

InboxInit ==
    /\ projections = <<>> /\ clock = 0 /\ decided = {} /\ agreed = {} /\ worked = {}
    /\ screen = "home"
    /\ filter = "all" /\ rows = <<>> /\ loading = FALSE /\ listError = FALSE
    /\ request = [pending |-> FALSE, recent |-> FALSE]
    /\ call = NoRequest /\ timer = FALSE /\ stale = FALSE
    /\ page = 1 /\ view = "all"
    /\ route = NoIncident /\ lookup = NoLookup /\ targeted = {} /\ finding = NoCall
    /\ settledFor = NoIncident
    /\ acts = 0 /\ faults = 0

\* loadIncidentMetadata up to its fetch, for filters f.
Load(background, f) ==
    IF call # NoRequest
      THEN /\ request' = [request EXCEPT !.pending = TRUE]
           /\ UNCHANGED <<call, listError>>
    ELSE IF background /\ request.recent
      THEN UNCHANGED <<request, call, listError>>
    ELSE /\ call' = [NoRequest EXCEPT !.filter = f]
         /\ listError' = FALSE
         /\ UNCHANGED request

Starts(background) == call = NoRequest /\ ~(background /\ request.recent)
BusyAfter(background) == IF Starts(background) /\ ~background THEN TRUE ELSE loading

\* The list changes nothing of what the operator sees but `loading`.
LoadKeeps == UNCHANGED <<serverVars, rows, timer, stale, page, view, faults>>

\* The 20 s interval, the tab becoming visible, and the events of the stream.
Poll ==
    /\ OnInbox
    /\ Starts(TRUE) \/ (call # NoRequest /\ ~request.pending)
    /\ Load(TRUE, filter)
    /\ LoadKeeps /\ UNCHANGED <<screen, filter, loading, commandVars, acts>>

\* The minute's refresh of the home tab asks for every incident.
HomePoll ==
    /\ screen = "home"
    /\ Starts(TRUE)
    /\ Load(TRUE, "all")
    /\ LoadKeeps /\ UNCHANGED <<screen, filter, loading, commandVars, acts>>

\* window.setTimeout(() => loadIncidentMetadata(), 0), and Refresh in the list.
Reload ==
    /\ Load(FALSE, filter)
    /\ loading' = BusyAfter(FALSE)
    /\ LookupEffects(route, rows, BusyAfter(FALSE))
    /\ UNCHANGED <<serverVars, rows, screen, filter, stale, page, view, faults>>

TimerFires == timer /\ timer' = FALSE /\ Reload /\ UNCHANGED acts

\* More than 15 s since the last answer.
Elapse ==
    /\ request.recent
    /\ request' = [request EXCEPT !.recent = FALSE]
    /\ LoadKeeps /\ UNCHANGED <<screen, filter, loading, listError, call, commandVars, acts>>

Serve ==
    /\ call # NoRequest /\ call.answer = "none"
    /\ \/ /\ call' = [call EXCEPT !.answer = "rows", !.rows = Listing(call.filter, Limit)]
          /\ UNCHANGED faults
       \/ /\ faults < MaxInboxFaults /\ faults' = faults + 1
          /\ call' = [call EXCEPT !.answer = "error"]
    /\ UNCHANGED <<serverVars, screen, filter, rows, loading, listError, request, timer, stale,
                   page, view, commandVars, acts>>

\* Mutant: what `finally` does is done only after an answer.
ReleaseIfAnswered(failed) ==
    IF failed THEN UNCHANGED <<request, call, timer>>
    ELSE /\ request' = [pending |-> FALSE, recent |-> TRUE]
         /\ call' = NoRequest
         /\ timer' = (timer \/ request.pending)

\* `finally`: a reload that was asked for meanwhile is scheduled.
Release(failed) ==
    /\ request' = [pending |-> FALSE, recent |-> TRUE]
    /\ call' = NoRequest
    /\ timer' = (timer \/ request.pending)

\* The answer; an error is shown only while there are no rows to show.
Receive ==
    /\ call.answer # "none"
    /\ LET failed == call.answer = "error"
           shown == IF failed THEN rows ELSE call.rows
       IN  /\ rows' = shown
           /\ listError' = (failed /\ rows = <<>>)
           /\ stale' = failed
           /\ page' = Clamped(shown, page)
           /\ LookupEffects(route, shown, FALSE)
           /\ Release(failed)
    /\ loading' = FALSE
    /\ UNCHANGED <<serverVars, screen, filter, view, acts, faults>>

(***************************************************************************)
(* What the operator does.                                                 *)
(***************************************************************************)
Act == acts < MaxInboxActs /\ acts' = acts + 1

\* The effect on the tab, and the route of the command page.
OpenInbox(s, r) ==
    /\ Act /\ screen = "home"
    /\ screen' = s
    /\ Load(FALSE, filter)
    /\ loading' = BusyAfter(FALSE)
    /\ LookupEffects(r, rows, BusyAfter(FALSE))
    /\ page' = 1 /\ view' = "all"
    /\ UNCHANGED <<serverVars, filter, rows, timer, stale, faults>>

\* Within the inbox: the list is left for the incident, or taken up again.
MoveTo(s, r) ==
    /\ Act /\ OnInbox /\ (s = "list" => screen # "list")
    /\ s = "command" => r # route
    /\ screen' = s
    /\ LookupEffects(r, rows, loading)
    /\ page' = 1 /\ view' = "all"
    /\ UNCHANGED <<serverVars, listVars, faults>>

GoHome ==
    /\ Act /\ OnInbox
    /\ screen' = "home"
    /\ LookupEffects(NoIncident, rows, loading)
    /\ UNCHANGED <<serverVars, listVars, page, view, faults>>

\* Mutant: the ref takes the new filters in an effect after the one that loads.
LoadsBeforeTheRef(f) == Load(FALSE, filter)
LoadsWithTheRef(f) == Load(FALSE, f)

\* updateFilter, the effect that refreshes the ref, and the effect that loads.
ChangeFilter(f) ==
    /\ Act /\ screen = "list" /\ f # filter
    /\ filter' = f
    /\ LoadsWithTheRef(f)
    /\ loading' = BusyAfter(FALSE)
    /\ page' = 1
    /\ UNCHANGED <<serverVars, screen, rows, timer, stale, view, commandVars, faults>>

ChangeView(v) ==
    /\ Act /\ screen = "list" /\ v # view
    /\ view' = v /\ page' = 1
    /\ UNCHANGED <<serverVars, screen, listVars, commandVars, faults>>

NextPage ==
    /\ Act /\ screen = "list" /\ page < PagesOf(rows, view)
    /\ page' = page + 1
    /\ UNCHANGED <<serverVars, screen, listVars, view, commandVars, faults>>

Refresh == Act /\ screen = "list" /\ UNCHANGED timer /\ Reload

(***************************************************************************)
(* The lookup of one incident.  The gateway takes no incident_id: it asks  *)
(* the service for the one newest row.                                     *)
(***************************************************************************)
FindServed ==
    /\ finding # NoCall /\ finding.answer = "none"
    /\ \/ /\ finding' = [finding EXCEPT !.answer = "rows", !.row = ListedIds("all", 1)]
          /\ UNCHANGED faults
       \/ /\ faults < MaxInboxFaults /\ faults' = faults + 1
          /\ finding' = [finding EXCEPT !.answer = "error"]
    /\ UNCHANGED <<serverVars, screen, listVars, page, view, route, lookup, targeted, settledFor, acts>>

FindReceived ==
    /\ finding.answer # "none"
    /\ lookup' = [complete |-> TRUE, error |-> finding.answer = "error"]
    /\ targeted' = IF finding.answer = "rows" THEN finding.row \intersect {finding.route} ELSE targeted
    /\ settledFor' = finding.route
    /\ finding' = NoCall
    /\ UNCHANGED <<serverVars, screen, listVars, page, view, route, acts, faults>>

\* The retry of the error page: no dependency of the effect changes.
RetryLookup ==
    /\ Act /\ screen = "command" /\ CommandPage = "lookup failed"
    /\ lookup' = NoLookup
    /\ UNCHANGED <<serverVars, screen, listVars, page, view, route, targeted, finding, settledFor, faults>>

InboxNext ==
    \/ IncidentEvent
    \/ Poll \/ HomePoll \/ TimerFires \/ Elapse \/ Serve \/ Receive
    \/ OpenInbox("list", NoIncident) \/ (\E i \in Incidents : OpenInbox("command", i))
    \/ MoveTo("list", NoIncident) \/ (\E i \in Incidents : MoveTo("command", i))
    \/ GoHome \/ Refresh \/ NextPage \/ RetryLookup
    \/ (\E f \in Filters : ChangeFilter(f))
    \/ (\E v \in {"all", "needs_me", "kai_handling", "resolved"} : ChangeView(v))
    \/ FindServed \/ FindReceived

\* Timers and intervals run, and a call that is out is answered or fails.
InboxFairness ==
    /\ WF_inboxVars(Poll) /\ WF_inboxVars(TimerFires) /\ WF_inboxVars(Elapse)
    /\ WF_inboxVars(Serve) /\ WF_inboxVars(Receive)
    /\ WF_inboxVars(FindServed) /\ WF_inboxVars(FindReceived)

InboxSpec == InboxInit /\ [][InboxNext]_inboxVars /\ InboxFairness

(***************************************************************************)
(* What the inbox promises.                                                *)
(***************************************************************************)

\* The three places of the list that judge an incident agree: what its card names as
\* the current stage, and the view it is filed under.  A person is asked for the
\* incidents that wait for a decision or failed; those that were verified are over.
FiledByItsStage ==
    \A i \in Known :
        LET stage == CurrentStage(projections[i]) IN
        /\ (InboxView(projections[i]) = "needs_me")
              <=> (stage.state = "failed" \/ stage = Stage("approval", "current"))
        /\ (InboxView(projections[i]) = "resolved") <=> (stage = Stage("validate", "complete"))

Shows(row, id, states) ==
    \E k \in DOMAIN Lifecycle(row) : Lifecycle(row)[k].id = id /\ Lifecycle(row)[k].state \in states

\* The action of an incident that needs a person's decision is shown as under way or
\* as done only after that decision, and its recovery as being verified, or as over,
\* only after a decision to go on.  (What was rejected is skipped, and then shown as
\* under way and as done all the same.)
NoActionBeforeDecision ==
    \A i \in Known \intersect Human :
        /\ Shows(projections[i], "resolve", {"current", "complete"}) => i \in decided
        /\ \/ Shows(projections[i], "validate", {"current", "complete"})
           \/ InboxView(projections[i]) = "resolved"
           => i \in agreed

\* The list and its cards tell of an incident what its events say.
CardsTellTheTruth == FiledByItsStage /\ NoActionBeforeDecision

\* When nothing is out or scheduled, the list holds only incidents its filters admit,
\* unless the last request failed and the rows before it were kept.
ListFitsItsFilters ==
    (OnInbox /\ call = NoRequest /\ ~timer /\ ~stale) => \A i \in DOMAIN rows : Fits(rows[i], filter)

\* The page shown has records if any page has, however the list shrank.
PageHasRecords == page <= PagesOf(rows, view)

\* The command page says that an incident was not found, or could not be looked up,
\* only after the lookup of that incident was answered.
NotFoundIsAnswered ==
    (screen = "command" /\ CommandPage \in {"not found", "lookup failed"}) => settledFor = route

\* What is shown answers what was asked last: the filters, the page, the incident.
AnswersFitTheirQuestion == ListFitsItsFilters /\ PageHasRecords /\ NotFoundIsAnswered

\* While the inbox is open it comes to show what the server lists, whatever failed.
ListConverges == <>[](OnInbox => rows = Listing(filter, Limit))

(***************************************************************************)
(* What the program says and does not keep.                                *)
(***************************************************************************)

\* "Summary-card navigation belongs to the durable incident command route": the page
\* of an incident that exists is found, once everything that was asked is answered.
RouteFindsItsIncident ==
    (screen = "command" /\ route \in Known /\ settledFor = route /\ call = NoRequest /\ ~timer /\ ~stale)
        => CommandPage # "not found"
=============================================================================
