---------------------------- MODULE AlertCockpit ----------------------------
(***************************************************************************)
(* The alert selected in the console and the details shown for it.  The    *)
(* selection has several owners: the operator, the URL, which must survive *)
(* a reload, an effect that drops a selection the lists no longer justify, *)
(* an effect that promotes a file of the landing pad to the alert it       *)
(* became, and a regeneration that reloads the alert it was started for.   *)
(* Details are read over the network by all of them and by a poll that     *)
(* waits for the analysis.                                                 *)
(*                                                                         *)
(* An alert is its UUID; a landing-pad row is its file name.  Answers kept *)
(* by the query client for 5 seconds, and the bounds of 60 polls and of 10 *)
(* waits for a promotion, are left out: a poll stands for any of them.     *)
(***************************************************************************)
EXTENDS Integers, FiniteSets

CONSTANTS
    Alerts,         \* alerts, by UUID
    Files,          \* rows of the landing pad, by file name
    CanonicalOf,    \* [Files -> Alerts]: the alert a file becomes
    NoAlert,           \* no alert
    MaxCockpitMoves,       \* bound on moves of the operator
    MaxCockpitFaults,      \* bound on failed answers
    MaxRuns,        \* bound on regenerations
    MaxChanges  \* bound on alerts analysed or closed by the server

ASSUME CockpitAssumption ==
    /\ CanonicalOf \in [Files -> Alerts]
    /\ NoAlert \notin Alerts \cup Files /\ Alerts \cap Files = {}

VARIABLES
    backend,    \* [stored, closed, ready]: alerts persisted, closed, analysed
    lists,      \* [open, closed]: the alerts of alerts.rows and of closedIncidents.rows
    scope,      \* the alerts of the application monitored
    url,        \* alert_id of the URL, or NoAlert
    arriving,   \* the alert of a navigation the router has not committed, or NoAlert
    ui,         \* the selection and its details, see CockpitInit
    asked,      \* alerts whose processed result is being read
    poll,       \* the alert the armed timer will read again, or NoAlert
    runs,       \* alerts whose analysis is being regenerated
    rendered,   \* what the effects of the last commit saw
    used        \* counters of the bounds

cockpitVars == <<backend, lists, scope, url, arriving, ui, asked, poll, runs, rendered, used>>

NoPayload == [of |-> NoAlert, kind |-> "none"]
NoData == [alert |-> NoAlert, loading |-> FALSE, error |-> FALSE, payload |-> NoPayload]

ShownInCockpit == [ui |-> ui, lists |-> lists, scope |-> scope, url |-> url]
Dirty == rendered # ShownInCockpit

CockpitInit ==
    /\ backend = [stored |-> Alerts \ {CanonicalOf[f] : f \in Files}, closed |-> {}, ready |-> {}]
    /\ lists = [open |-> backend.stored, closed |-> {}]
    /\ scope = Alerts /\ url = NoAlert /\ arriving = NoAlert
    /\ ui = [selected |-> NoAlert,     \* selectedAlertId
             snapshot |-> NoAlert,     \* selectedAlertSnapshot
             pending |-> NoAlert,      \* pendingCanonicalAlert
             data |-> NoData,       \* selectedAlertData
             renewed |-> FALSE,     \* its payload is a new object since the last commit
             retry |-> [alert |-> NoAlert, waited |-> FALSE],  \* selectedAlertDetailsRetryRef
             busy |-> FALSE]        \* selectedAlertRegeneration.loading
    /\ asked = {} /\ poll = NoAlert /\ runs = {}
    /\ rendered = ShownInCockpit
    /\ used = [moves |-> 0, faults |-> 0, runs |-> 0, changes |-> 0]

Use(kind, bound) ==
    /\ used[kind] < bound
    /\ used' = [used EXCEPT ![kind] = @ + 1]

\* What the console is handed between two commits: handlers and answers run after the
\* effects of the last commit.
AtRest == ~Dirty

(***************************************************************************)
(* loadAlertDetails                                                        *)
(***************************************************************************)
\* Mutant: the details shown stay until the answer comes, whatever alert they are of.
BegunOver(data, a, row, background) ==
    [alert |-> a, error |-> FALSE, loading |-> data.loading \/ ~background, payload |-> data.payload]

\* The details of an alert while they are read: those already shown for it stay, else
\* the row it was opened from stands in.
Begun(data, a, row, background) ==
    [alert |-> a, error |-> FALSE, loading |-> data.loading \/ ~background,
     payload |-> CASE data.alert = a -> data.payload
                   [] data.alert # a /\ row -> [of |-> a, kind |-> "row"]
                   [] OTHER -> NoPayload]

\* A file has no processed result: what is known of it is shown without a request.
Local(f) == [alert |-> f, error |-> FALSE, loading |-> FALSE, payload |-> [of |-> f, kind |-> "local"]]

Loading(st, a, row, background) ==
    IF a \in Files THEN [st EXCEPT !.data = Local(a), !.renewed = TRUE]
    ELSE [st EXCEPT !.data = Begun(st.data, a, row, background)]

Reads(a) == asked' = asked \cup ({a} \cap Alerts)

\* An answer for another alert than the one the details are of is dropped.
Answer(a) ==
    /\ AtRest /\ a \in asked /\ a \in backend.stored
    /\ asked' = asked \ {a}
    /\ IF ui.data.alert = a
       THEN ui' = [ui EXCEPT !.renewed = TRUE,
                   !.data = [alert |-> a, loading |-> FALSE, error |-> FALSE,
                             payload |-> [of |-> a, kind |-> IF a \in backend.ready THEN "full" ELSE "partial"]]]
       ELSE UNCHANGED ui
    /\ UNCHANGED <<backend, lists, scope, url, arriving, poll, runs, rendered, used>>

Fail(a) ==
    /\ AtRest /\ a \in asked /\ Use("faults", MaxCockpitFaults)
    /\ asked' = asked \ {a}
    /\ ui' = IF ui.data.alert = a
             THEN [ui EXCEPT !.data.loading = FALSE, !.data.error = TRUE] ELSE ui
    /\ UNCHANGED <<backend, lists, scope, url, arriving, poll, runs, rendered>>

(***************************************************************************)
(* The operator                                                            *)
(***************************************************************************)
\* Mutant: a row is taken for the alert it shows.
Unresolved(row) == row

\* resolveCanonicalAlertForRow: a file stands for its alert once the list has it.
Resolved(row) == IF row \in Files /\ CanonicalOf[row] \in lists.open THEN CanonicalOf[row] ELSE row

\* openAlertDetails: a row of the lists or of the landing pad.
OpenAlert(row) ==
    LET a == Resolved(row) IN
    /\ AtRest /\ Use("moves", MaxCockpitMoves)
    /\ row \in lists.open \cup lists.closed \cup Files
    /\ ui' = Loading([ui EXCEPT !.pending = IF a \in Files THEN a ELSE NoAlert,
                      !.snapshot = a, !.selected = a], a, TRUE, FALSE)
    /\ Reads(a)
    /\ arriving' = a
    /\ UNCHANGED <<backend, lists, scope, url, poll, runs, rendered>>

\* Back, forward or a shared link.
BrowserGoes(a) ==
    /\ AtRest /\ Use("moves", MaxCockpitMoves)
    /\ a # url /\ a \in backend.stored \cup Files
    /\ url' = a /\ arriving' = NoAlert
    /\ UNCHANGED <<backend, lists, scope, ui, asked, poll, runs, rendered>>

MonitorApplication(s) ==
    /\ AtRest /\ Use("moves", MaxCockpitMoves)
    /\ s # scope /\ scope' = s
    /\ UNCHANGED <<backend, lists, url, arriving, ui, asked, poll, runs, rendered>>

\* regenerateSelectedAlertAnalysis: by a button, or once for a historical incident that
\* has no analysis.  It runs for the alert of the payload, two long requests away.
Regenerate ==
    LET a == ui.data.payload.of IN
    /\ AtRest /\ Use("runs", MaxRuns)
    /\ ~ui.busy /\ ui.selected # NoAlert /\ ui.data.payload.kind \in {"partial", "full"}
    /\ ui' = [ui EXCEPT !.busy = TRUE]
    /\ runs' = runs \cup {a}
    /\ UNCHANGED <<backend, lists, scope, url, arriving, asked, poll, rendered>>

\* When they are answered its details are read again, whatever is selected by then.
Regenerated(a) ==
    /\ AtRest /\ a \in runs
    /\ runs' = runs \ {a}
    /\ backend' = [backend EXCEPT !.ready = @ \cup {a}]
    /\ ui' = Loading([ui EXCEPT !.busy = FALSE], a, FALSE, FALSE)
    /\ Reads(a)
    /\ UNCHANGED <<lists, scope, url, arriving, poll, rendered, used>>

RegenerationFails(a) ==
    /\ AtRest /\ a \in runs /\ Use("faults", MaxCockpitFaults)
    /\ runs' = runs \ {a} /\ ui' = [ui EXCEPT !.busy = FALSE]
    /\ UNCHANGED <<backend, lists, scope, url, arriving, asked, poll, rendered>>

(***************************************************************************)
(* Effects of a commit.  Each sees the state committed, c, and adds its    *)
(* changes to those of the effects before it, st.                          *)
(***************************************************************************)
\* The URL names another alert than the one selected.
Restore(c, st) ==
    LET known == c.url \in Files /\ CanonicalOf[c.url] \in c.lists.open
        a == IF known THEN CanonicalOf[c.url] ELSE c.url
        selected == [st EXCEPT !.selected = a, !.snapshot = IF known THEN a ELSE NoAlert]
    IN IF c.url \in {NoAlert, c.ui.selected} THEN st
       ELSE [Loading(selected, a, known, FALSE) EXCEPT
                !.pending = IF a \in Files THEN a ELSE @]

InScope(row, s) == (IF row \in Files THEN CanonicalOf[row] ELSE row) \in s

Cleared(st) == [st EXCEPT !.selected = NoAlert, !.snapshot = NoAlert, !.data = NoData]

\* Mutant: details count only while they are read.
RetainsLoading(c) == c.ui.data.loading /\ c.ui.data.alert = c.ui.selected

\* shouldRetainAlertSelection, and the retention effect around it.
Retains(c) ==
    c.ui.data.payload # NoPayload /\ ~c.ui.data.error /\ c.ui.data.alert = c.ui.selected

Retain(c, st) ==
    LET rows == (c.lists.open \cup c.lists.closed) \cap c.scope
        a == c.ui.selected
        d == c.ui.data
        snapshot == a # NoAlert /\ c.ui.snapshot = a /\ InScope(a, c.scope)
        retry == c.ui.retry.alert # a \/ c.ui.retry.waited
    IN CASE a = NoAlert -> st
         [] a # NoAlert /\ rows = {} ->
              IF snapshot \/ (d.alert = a /\ (d.loading \/ d.payload # NoPayload \/ d.error))
              THEN st ELSE [Cleared(st) EXCEPT !.snapshot = st.snapshot]
         [] a \in rows /\ d.alert # a -> Loading(st, a, FALSE, FALSE)
         [] a \in rows /\ d.alert = a ->
              IF d.payload = NoPayload /\ ~d.loading /\ retry
              THEN Loading([st EXCEPT !.retry = [alert |-> a, waited |-> FALSE]], a, FALSE, FALSE)
              ELSE st
         [] OTHER ->
              IF \/ snapshot /\ (~d.error \/ d.loading)
                 \/ d.loading /\ d.alert = a
                 \/ Retains(c)
              THEN st ELSE Cleared(st)

RetainDeps(c) == <<c.lists, c.scope, c.ui.selected, c.ui.snapshot, c.ui.data>>

\* A file that was opened before its alert was listed is promoted to it.
Promotes(c) == c.ui.pending # NoAlert /\ CanonicalOf[c.ui.pending] \in c.lists.open

Promote(c, st) ==
    LET a == CanonicalOf[c.ui.pending] IN
    IF Promotes(c)
    THEN Loading([st EXCEPT !.pending = NoAlert, !.snapshot = a, !.selected = a], a, TRUE, FALSE)
    ELSE st

\* The analysis poll is armed again when the selection or the payload has changed.
Rearmed(c) == c.ui.renewed \/ c.ui.selected # rendered.ui.selected \/ c.ui.data.payload # rendered.ui.data.payload
Ready(c) == c.ui.data.payload.kind = "full"

CommitCockpit ==
    LET c == ShownInCockpit
        restored == Restore(c, [ui EXCEPT !.renewed = FALSE,
                                  !.busy = @ /\ ui.selected = rendered.ui.selected])
        retained == IF RetainDeps(c) # RetainDeps(rendered) THEN Retain(c, restored) ELSE restored
        final == Promote(c, retained)
        resolved == c.url \in Files /\ Resolved(c.url) \in Alerts /\ c.url # ui.selected
        \* every load an effect started leaves a request, also one that a later effect hid
        loads == {restored.data.alert, retained.data.alert, final.data.alert} \ {ui.data.alert}
        again == IF final.data.loading /\ ~ui.data.loading THEN {final.data.alert} ELSE {}
    IN
    /\ Dirty
    /\ ui' = final
    /\ asked' = asked \cup ((loads \cup again) \cap Alerts)
    /\ arriving' = CASE Promotes(c) -> CanonicalOf[ui.pending]
                     [] ~Promotes(c) /\ resolved -> Resolved(c.url)
                     [] OTHER -> arriving
    /\ poll' = CASE Rearmed(c) /\ ui.selected \in Alerts /\ ~Ready(c) -> ui.selected
                 [] Rearmed(c) /\ ~(ui.selected \in Alerts /\ ~Ready(c)) -> NoAlert
                 [] OTHER -> poll
    /\ rendered' = c
    /\ UNCHANGED <<backend, lists, scope, url, runs, used>>

(***************************************************************************)
(* Timers, the router, the lists and the server                            *)
(***************************************************************************)
PollAnalysis ==
    /\ AtRest /\ poll # NoAlert
    /\ ui' = Loading(ui, poll, FALSE, TRUE)
    /\ Reads(poll) /\ poll' = NoAlert
    /\ UNCHANGED <<backend, lists, scope, url, arriving, runs, rendered, used>>

RetryAgain ==
    /\ AtRest /\ ui.retry.alert # NoAlert /\ ~ui.retry.waited
    /\ ui' = [ui EXCEPT !.retry.waited = TRUE]
    /\ rendered' = [rendered EXCEPT !.ui.retry.waited = TRUE]
    /\ UNCHANGED <<backend, lists, scope, url, arriving, asked, poll, runs, used>>

\* The router's commit may be that of the click that navigated, or a later one.
Arrive ==
    /\ arriving # NoAlert
    /\ url' = arriving /\ arriving' = NoAlert
    /\ UNCHANGED <<backend, lists, scope, ui, asked, poll, runs, rendered, used>>

\* The two lists are refreshed apart.
RefreshOpen ==
    /\ AtRest /\ lists.open # backend.stored \ backend.closed
    /\ lists' = [lists EXCEPT !.open = backend.stored \ backend.closed]
    /\ UNCHANGED <<backend, scope, url, arriving, ui, asked, poll, runs, rendered, used>>

RefreshClosed ==
    /\ AtRest /\ lists.closed # backend.closed
    /\ lists' = [lists EXCEPT !.closed = backend.closed]
    /\ UNCHANGED <<backend, scope, url, arriving, ui, asked, poll, runs, rendered, used>>

Store(a) ==
    /\ AtRest /\ a \notin backend.stored /\ backend' = [backend EXCEPT !.stored = @ \cup {a}]
    /\ UNCHANGED <<lists, scope, url, arriving, ui, asked, poll, runs, rendered, used>>

Analyse(a) ==
    /\ AtRest /\ a \in backend.stored \ backend.ready /\ Use("changes", MaxChanges)
    /\ backend' = [backend EXCEPT !.ready = @ \cup {a}]
    /\ UNCHANGED <<lists, scope, url, arriving, ui, asked, poll, runs, rendered>>

Close(a) ==
    /\ AtRest /\ a \in backend.stored \ backend.closed /\ Use("changes", MaxChanges)
    /\ backend' = [backend EXCEPT !.closed = @ \cup {a}]
    /\ UNCHANGED <<lists, scope, url, arriving, ui, asked, poll, runs, rendered>>

OperatesCockpit ==
    \/ \E row \in Alerts \cup Files : OpenAlert(row) \/ BrowserGoes(row)
    \/ \E a \in Alerts : MonitorApplication({a})
    \/ MonitorApplication(Alerts)
    \/ Regenerate

CockpitNext ==
    \/ OperatesCockpit
    \/ \E a \in Alerts : Answer(a) \/ Fail(a) \/ Regenerated(a) \/ RegenerationFails(a)
    \/ CommitCockpit \/ PollAnalysis \/ RetryAgain \/ Arrive
    \/ RefreshOpen \/ RefreshClosed
    \/ \E a \in Alerts : Store(a) \/ Analyse(a) \/ Close(a)

\* React commits, timers fire, lists are polled and requests are answered.
CockpitFairness ==
    /\ WF_cockpitVars(CommitCockpit) /\ WF_cockpitVars(PollAnalysis) /\ WF_cockpitVars(RetryAgain) /\ WF_cockpitVars(Arrive)
    /\ WF_cockpitVars(RefreshOpen) /\ WF_cockpitVars(RefreshClosed)
    /\ \A a \in Alerts : WF_cockpitVars(Answer(a)) /\ WF_cockpitVars(Regenerated(a))

CockpitSpec == CockpitInit /\ [][CockpitNext]_cockpitVars /\ CockpitFairness

(***************************************************************************)
(* Properties                                                              *)
(***************************************************************************)
CockpitTypeOK ==
    /\ ui.selected \in Alerts \cup Files \cup {NoAlert}
    /\ ui.snapshot \in Alerts \cup Files \cup {NoAlert}
    /\ ui.pending \in Files \cup {NoAlert}
    /\ ui.data.alert \in Alerts \cup Files \cup {NoAlert}
    /\ ui.data.payload.kind \in {"none", "row", "local", "partial", "full"}
    /\ asked \subseteq Alerts /\ poll \in Alerts \cup {NoAlert}

\* The details are never those of another alert than the one they are filed under,
\* although answers arrive in any order after the selection has moved.
PayloadMatchesAlert ==
    ui.data.payload.of \in {NoAlert, ui.data.alert}

\* An alert whose details are shown, with no file waiting to be promoted, stays selected
\* until the operator chooses another: no refresh of a list, no closure, no change of
\* the application monitored and no answer takes it away.
Loaded == /\ ui.selected # NoAlert /\ ui.data.alert = ui.selected
          /\ ui.data.payload.kind \in {"partial", "full"} /\ ~ui.data.error
          /\ url \in {NoAlert, ui.selected} /\ arriving = NoAlert
LoadedSelectionSurvives ==
    [][Loaded /\ ui.pending = NoAlert => ui'.selected = ui.selected \/ OperatesCockpit]_cockpitVars

\* The console comes to rest on one alert, that of its URL: the effects that carry the
\* URL to the selection and drop or promote the selection do not answer each other.
CockpitSettles == <>[](arriving = NoAlert /\ url \in {NoAlert, ui.selected})

\* An alert that stays selected and listed gets its own details, whatever other
\* reads and regenerations were under way when it was selected.
SelectedIsShown ==
    \A a \in Alerts :
        <>[](ui.selected = a /\ a \in (lists.open \cup lists.closed) \cap scope)
            => <>[](ui.data.alert = a /\ ui.data.payload # NoPayload)

\* The cockpit comes to rest on one alert with its details.
SelectionSettles == CockpitSettles /\ SelectedIsShown

=============================================================================
