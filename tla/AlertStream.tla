----------------------------- MODULE AlertStream -----------------------------
(***************************************************************************)
(* The two alert lists of the console.  The home tab shows the rows of the *)
(* alert table, and those of the landing pad when the table cannot be      *)
(* read; the live stream shows the landing pad.  Both are read through one *)
(* query client, which joins a request for a query that is already out and *)
(* keeps its last answer for a while.  Several callers ask for the same    *)
(* list (the operator, polls, events, a page that becomes visible): a      *)
(* guard lets one call through, a slow one is taken over after 15 seconds  *)
(* and given up by a watchdog after 16, and its late answer is dropped.    *)
(*                                                                         *)
(* Rows are a number: how often the table, or the landing pad, had changed *)
(* when the server read them.                                              *)
(***************************************************************************)
EXTENDS Integers, FiniteSets, FiniteSetsExt

CONSTANTS
    MaxRows,    \* bound on changes of the table and of the landing pad
    MaxClicks,  \* bound on what the operator does: refresh, show the page, change tab, pause
    MaxFaults,  \* bound on failed answers and lost events
    MaxLate     \* bound on requests slower than 15 seconds

VARIABLES
    table,      \* [now, heard]: changes of the alert table, whether they were announced
    landing,    \* [now, heard]: the same of the landing pad; 0 once it is emptied
    tab,        \* "home", "stream" or another tab
    paused,     \* ingestionStreamPaused
    request,    \* recentAlertsRequestRef: [out, late, recent]
    calls,      \* calls of loadRecentAlerts that have not returned
    streamCall, \* the call of loadLandingPadRecent in flight, if any, and its throttle
    pollRows,   \* the landing rows the poll of the live stream compares with
    query,      \* the query client: what is out, and the last answer
    alerts,     \* alerts: [loading, from, rows, error]
    stream,     \* landingPadRecent: [loading, rows, error]
    spent       \* counters of the bounds

vars == <<table, landing, tab, paused, request, calls, streamCall, pollRows, query,
          alerts, stream, spent>>

Lists == {"table", "landing"}
Tabs == {"home", "stream", "other"}
Idle == [state |-> "idle", rows |-> 0]
NoStreamCall == [out |-> FALSE, rows |-> 0]

AlertStreamInit ==
    /\ table = [now |-> 0, heard |-> TRUE]
    /\ landing = [now |-> 0, heard |-> TRUE]
    /\ tab \in {"home", "stream"} /\ paused = FALSE
    /\ request = [out |-> FALSE, late |-> FALSE, recent |-> FALSE]
    /\ calls = {}
    /\ streamCall = [call |-> NoStreamCall, recent |-> FALSE]
    /\ pollRows = 0
    /\ query = [l \in Lists |-> [out |-> Idle, cached |-> 0, fresh |-> FALSE]]
    /\ alerts = [loading |-> FALSE, from |-> "none", rows |-> 0, error |-> FALSE]
    /\ stream = [loading |-> FALSE, rows |-> 0, error |-> FALSE]
    /\ spent = [changes |-> 0, clicks |-> 0, faults |-> 0, late |-> 0]

Spend(kind, bound) ==
    /\ spent[kind] < bound
    /\ spent' = [spent EXCEPT ![kind] = @ + 1]

\* fetchQuery of a list that must be read: a query that is out is joined.
Ask(l) == query' = [query EXCEPT ![l].out = IF @ = Idle THEN [Idle EXCEPT !.state = "sent"] ELSE @]

(***************************************************************************)
(* loadRecentAlerts                                                        *)
(***************************************************************************)
Throttled(background) == background /\ request.recent

\* A call in flight for 15 seconds is taken over, a younger one is not.
InFlight == request.out /\ ~request.late

\* The rows of the table are shown, or an error beside the rows there were.
TableShown(rows) == [loading |-> FALSE, from |-> "table", rows |-> rows, error |-> FALSE]

\* Mutant: a call that returns leaves the guard taken.
GuardKept == [out |-> TRUE, late |-> FALSE, recent |-> TRUE]

\* The call that owns the request shows what it got and frees the guard; one that was
\* taken over or given up owns it no more.
Current(stage) == {c \in calls : c.stage = stage /\ c.owner}
Disowned == {[c EXCEPT !.owner = FALSE] : c \in calls}
Freed == [out |-> FALSE, late |-> FALSE, recent |-> TRUE]

LoadRecentAlerts(background, by) ==
    IF Throttled(background) \/ InFlight
    THEN UNCHANGED <<request, calls, alerts, query>>
    ELSE IF background /\ query["table"].fresh
    THEN /\ alerts' = TableShown(query["table"].cached)
         /\ request' = Freed
         /\ calls' = Disowned
         /\ UNCHANGED query
    ELSE /\ alerts' = [alerts EXCEPT !.loading = ~background, !.error = FALSE]
         /\ request' = [request EXCEPT !.out = TRUE, !.late = FALSE]
         /\ calls' = Disowned \cup
               {[owner |-> TRUE, background |-> background, by |-> by, stage |-> "table"]}
         /\ Ask("table")

\* Every call that waits for the query gets its answer; one that was taken over or
\* given up drops it, whatever it is.
TableAnswers ==
    LET rows == query["table"].out.rows IN
    /\ query["table"].out.state = "read"
    /\ query' = [query EXCEPT !["table"] = [out |-> Idle, cached |-> rows, fresh |-> TRUE]]
    /\ calls' = {c \in calls : c.stage # "table"}
    /\ IF Current("table") # {}
       THEN alerts' = TableShown(rows) /\ request' = Freed
       ELSE UNCHANGED <<alerts, request>>
    /\ UNCHANGED <<table, landing, tab, paused, streamCall, pollRows, stream, spent>>

\* A foreground call falls back on the landing pad, a background one keeps its rows.
TableFails ==
    LET fallback == {c \in calls : c.stage = "table" /\ ~c.background}
        over == {c \in Current("table") : c.background} IN
    /\ query["table"].out # Idle
    /\ Spend("faults", MaxFaults)
    /\ calls' = {c \in calls : c.stage # "table"}
                \cup {[c EXCEPT !.stage = "landing"] : c \in fallback}
    /\ query' = [query EXCEPT
            !["table"].out = Idle,
            !["landing"].out = IF fallback # {} /\ @ = Idle THEN [Idle EXCEPT !.state = "sent"] ELSE @]
    /\ IF over # {}
       THEN /\ alerts' = [alerts EXCEPT !.loading = FALSE, !.error = alerts.from = "none"]
            /\ request' = Freed
       ELSE UNCHANGED <<alerts, request>>
    /\ UNCHANGED <<table, landing, tab, paused, streamCall, pollRows, stream>>

(***************************************************************************)
(* loadLandingPadRecent                                                    *)
(***************************************************************************)
\* Mutant: an empty answer is taken for no news.
ShownUnlessEmpty(seen, rows) ==
    [loading |-> FALSE, error |-> FALSE, rows |-> IF rows # 0 THEN rows ELSE stream.rows]

\* The answer is compared with the rows the caller was created with, not with the
\* rows shown: when the two are equal the rows shown stay.
StreamShown(seen, rows) ==
    [loading |-> FALSE, error |-> FALSE, rows |-> IF rows # seen THEN rows ELSE stream.rows]

LoadLandingPadRecent(background, force, seen) ==
    IF streamCall.call.out \/ (background /\ ~force /\ streamCall.recent)
    THEN UNCHANGED <<streamCall, stream, query>>
    ELSE IF background /\ ~force /\ query["landing"].fresh
    THEN /\ stream' = StreamShown(seen, query["landing"].cached)
         /\ streamCall' = [streamCall EXCEPT !.recent = TRUE]
         /\ UNCHANGED query
    ELSE /\ streamCall' = [streamCall EXCEPT !.call = [out |-> TRUE, rows |-> seen]]
         /\ stream' = [stream EXCEPT !.loading = @ \/ ~background, !.error = FALSE]
         /\ Ask("landing")

\* The landing pad answers whoever waits: the live stream, fallbacks of the alert list.
LandingAnswers ==
    LET rows == query["landing"].out.rows IN
    /\ query["landing"].out.state = "read"
    /\ query' = [query EXCEPT !["landing"] = [out |-> Idle, cached |-> rows, fresh |-> TRUE]]
    /\ calls' = {c \in calls : c.stage # "landing"}
    /\ IF Current("landing") # {}
       THEN /\ alerts' = [loading |-> FALSE, from |-> "landing", rows |-> rows, error |-> TRUE]
            /\ request' = Freed
       ELSE UNCHANGED <<alerts, request>>
    /\ IF streamCall.call.out
       THEN stream' = StreamShown(streamCall.call.rows, rows) /\ streamCall' = [call |-> NoStreamCall, recent |-> TRUE]
       ELSE UNCHANGED <<stream, streamCall>>
    /\ UNCHANGED <<table, landing, tab, paused, pollRows, spent>>

LandingFails ==
    /\ query["landing"].out # Idle
    /\ Spend("faults", MaxFaults)
    /\ query' = [query EXCEPT !["landing"].out = Idle]
    /\ calls' = {c \in calls : c.stage # "landing"}
    /\ IF Current("landing") # {}
       THEN alerts' = [alerts EXCEPT !.loading = FALSE, !.error = TRUE] /\ request' = Freed
       ELSE UNCHANGED <<alerts, request>>
    /\ IF streamCall.call.out
       THEN /\ stream' = [stream EXCEPT !.loading = FALSE, !.error = TRUE]
            /\ streamCall' = [call |-> NoStreamCall, recent |-> TRUE]
       ELSE UNCHANGED <<stream, streamCall>>
    /\ UNCHANGED <<table, landing, tab, paused, pollRows>>

(***************************************************************************)
(* Callers                                                                 *)
(***************************************************************************)
AlertListUnchanged == UNCHANGED <<table, landing, tab, paused, streamCall, pollRows, stream>>

\* A refresh button, or the refresh after a submission, a workflow or an approval.
RefreshAlerts ==
    /\ Spend("clicks", MaxClicks)
    /\ LoadRecentAlerts(FALSE, "other")
    /\ AlertListUnchanged

\* The page becomes visible on the home tab.
PageShown ==
    /\ tab = "home" /\ Spend("clicks", MaxClicks)
    /\ LoadRecentAlerts(TRUE, "other")
    /\ AlertListUnchanged

\* refreshAlertStream, every minute; it waits for the calls it made before.
Poll ==
    /\ tab = "home" /\ ~\E c \in calls : c.by = "poll"
    /\ LoadRecentAlerts(TRUE, "poll")
    /\ AlertListUnchanged /\ UNCHANGED spent

\* Alerts that arrived are announced by one event; on the home tab it asks for the
\* table, on a live stream that is not paused for the landing pad whatever the throttle.
AlertCreated ==
    /\ ~table.heard /\ table' = [table EXCEPT !.heard = TRUE]
    /\ tab = "home"
    /\ LoadRecentAlerts(TRUE, "other")
    /\ UNCHANGED <<landing, tab, paused, streamCall, pollRows, stream, spent>>

LandingPadChanged ==
    /\ ~landing.heard /\ landing' = [landing EXCEPT !.heard = TRUE]
    /\ tab = "stream" /\ ~paused
    /\ LoadLandingPadRecent(TRUE, TRUE, stream.rows)
    /\ UNCHANGED <<table, tab, paused, request, calls, pollRows, alerts, spent>>

\* The event is lost, or no tab that listens is shown.
EventMissed ==
    \/ /\ ~table.heard /\ table' = [table EXCEPT !.heard = TRUE]
       /\ IF tab = "home" THEN Spend("faults", MaxFaults) ELSE UNCHANGED spent
       /\ UNCHANGED landing
    \/ /\ ~landing.heard /\ landing' = [landing EXCEPT !.heard = TRUE]
       /\ IF tab = "stream" /\ ~paused THEN Spend("faults", MaxFaults) ELSE UNCHANGED spent
       /\ UNCHANGED table
EventLost ==
    /\ EventMissed
    /\ UNCHANGED <<tab, paused, request, calls, streamCall, pollRows, query, alerts, stream>>

RefreshStream ==
    /\ Spend("clicks", MaxClicks)
    /\ LoadLandingPadRecent(FALSE, FALSE, stream.rows)
    /\ UNCHANGED <<table, landing, tab, paused, request, calls, pollRows, alerts>>

\* refreshLandingPadStream, every 15 seconds: it keeps the rows of the commit that
\* started the interval.
PollStream ==
    /\ tab = "stream" /\ ~paused
    /\ LoadLandingPadRecent(TRUE, FALSE, pollRows)
    /\ UNCHANGED <<table, landing, tab, paused, request, calls, pollRows, alerts, spent>>

\* A change of tab, or the end of a pause, starts the polls of the tab at once.
ChooseTab(t) ==
    /\ t # tab /\ Spend("clicks", MaxClicks)
    /\ tab' = t
    /\ pollRows' = IF t = "stream" THEN stream.rows ELSE pollRows
    /\ CASE t = "home" ->
               IF \E c \in calls : c.by = "poll"
               THEN UNCHANGED <<request, calls, alerts, query, streamCall, stream>>
               ELSE LoadRecentAlerts(TRUE, "poll") /\ UNCHANGED <<streamCall, stream>>
         [] t = "stream" /\ ~paused ->
               LoadLandingPadRecent(TRUE, FALSE, stream.rows) /\ UNCHANGED <<request, calls, alerts>>
         [] OTHER -> UNCHANGED <<request, calls, alerts, query, streamCall, stream>>
    /\ UNCHANGED <<table, landing, paused>>

TogglePaused ==
    /\ tab = "stream" /\ Spend("clicks", MaxClicks)
    /\ paused' = ~paused
    /\ IF paused
       THEN pollRows' = stream.rows /\ LoadLandingPadRecent(TRUE, FALSE, stream.rows)
       ELSE UNCHANGED <<pollRows, streamCall, stream, query>>
    /\ UNCHANGED <<table, landing, tab, request, calls, alerts>>

(***************************************************************************)
(* Time, the watchdog and the server                                       *)
(***************************************************************************)
\* The call in flight is 15 seconds old: anyone may take it over.
TurnsLate ==
    /\ request.out /\ ~request.late /\ Spend("late", MaxLate)
    /\ request' = [request EXCEPT !.late = TRUE]
    /\ UNCHANGED <<table, landing, tab, paused, calls, streamCall, pollRows, query, alerts, stream>>

\* The watchdog of the home tab gives a late call up.
Watchdog ==
    /\ tab = "home" /\ request.out /\ request.late
    /\ request' = [request EXCEPT !.out = FALSE, !.late = FALSE]
    /\ calls' = Disowned
    /\ alerts' = [alerts EXCEPT !.loading = FALSE, !.error = TRUE]
    /\ UNCHANGED <<table, landing, tab, paused, streamCall, pollRows, query, stream, spent>>

\* 45 seconds after the last answer.
ThrottleEnds ==
    /\ request.recent
    /\ request' = [request EXCEPT !.recent = FALSE]
    /\ UNCHANGED <<table, landing, tab, paused, calls, streamCall, pollRows, query, alerts, stream, spent>>

\* 12 seconds after the last answer of the landing pad.
StreamThrottleEnds ==
    /\ streamCall.recent
    /\ streamCall' = [streamCall EXCEPT !.recent = FALSE]
    /\ UNCHANGED <<table, landing, tab, paused, request, calls, pollRows, query, alerts, stream, spent>>

\* The answer the query client keeps is older than a background call accepts.
AnswerAges(l) ==
    /\ query[l].fresh
    /\ query' = [query EXCEPT ![l].fresh = FALSE]
    /\ UNCHANGED <<table, landing, tab, paused, request, calls, streamCall, pollRows, alerts, stream, spent>>

ServerReads(l) ==
    /\ query[l].out.state = "sent"
    /\ query' = [query EXCEPT ![l].out =
            [state |-> "read", rows |-> IF l = "table" THEN table.now ELSE landing.now]]
    /\ UNCHANGED <<table, landing, tab, paused, request, calls, streamCall, pollRows, alerts, stream, spent>>

AlertStored ==
    /\ Spend("changes", MaxRows)
    /\ table' = [now |-> spent.changes + 1, heard |-> FALSE]
    /\ UNCHANGED <<landing, tab, paused, request, calls, streamCall, pollRows, query, alerts, stream>>

\* A file arrives on the landing pad, or the directory is emptied.
LandingPadWritten(rows) ==
    /\ landing.now # rows /\ Spend("changes", MaxRows)
    /\ landing' = [now |-> rows, heard |-> rows = 0]
    /\ UNCHANGED <<table, tab, paused, request, calls, streamCall, pollRows, query, alerts, stream>>

AlertStreamNext ==
    \/ TableAnswers \/ TableFails \/ LandingAnswers \/ LandingFails
    \/ RefreshAlerts \/ PageShown \/ Poll \/ AlertCreated \/ LandingPadChanged \/ EventLost
    \/ RefreshStream \/ PollStream \/ TogglePaused
    \/ \E t \in Tabs : ChooseTab(t)
    \/ TurnsLate \/ Watchdog \/ ThrottleEnds \/ StreamThrottleEnds
    \/ \E l \in Lists : AnswerAges(l) \/ ServerReads(l)
    \/ AlertStored
    \/ \E rows \in {0, spent.changes + 1} : LandingPadWritten(rows)

\* Requests are answered or time out, intervals fire and time passes.
AlertStreamFairness ==
    /\ WF_vars(TableAnswers) /\ WF_vars(LandingAnswers)
    /\ \A l \in Lists : WF_vars(ServerReads(l)) /\ WF_vars(AnswerAges(l))
    /\ WF_vars(Poll) /\ WF_vars(PollStream) /\ WF_vars(Watchdog)
    /\ WF_vars(ThrottleEnds) /\ WF_vars(StreamThrottleEnds)

AlertStreamSpec == AlertStreamInit /\ [][AlertStreamNext]_vars /\ AlertStreamFairness

(***************************************************************************)
(* Properties                                                              *)
(***************************************************************************)
AlertStreamTypeOK ==
    /\ table.now \in 0 .. MaxRows /\ landing.now \in 0 .. MaxRows
    /\ tab \in Tabs /\ paused \in BOOLEAN
    /\ \A c \in calls : c.stage \in Lists
    /\ Cardinality({c \in calls : c.owner}) = IF request.out THEN 1 ELSE 0
    /\ alerts.from \in Lists \cup {"none"} /\ alerts.rows \in 0 .. MaxRows
    /\ stream.rows \in 0 .. MaxRows
    /\ \A l \in Lists : query[l].out.state \in {"idle", "sent", "read"}

\* While the home tab is shown its list comes to the rows of the table: neither the
\* throttles, nor a call that hangs and is taken over or given up, nor a fallback to
\* the landing pad, nor a lost event leaves older rows for good.
AlertsConverge == <>[](tab = "home") => <>[](alerts.from = "table" /\ alerts.rows = table.now)

\* Rows of the table that have settled are never replaced by those of the landing pad:
\* the fallback of a call that was taken over or given up comes late and is dropped.
SettledRowsStay ==
    [][alerts.from = "table" /\ ~alerts.loading => alerts'.from # "landing"]_vars

\* The list of alerts comes to the rows of the table and keeps to them.
AlertsSettle == AlertsConverge /\ SettledRowsStay

\* The live stream comes to the rows of the landing pad, whatever events are lost, as
\* long as these are not the very rows its poll was started with.
StreamConverges ==
    <>[](tab = "stream" /\ ~paused /\ landing.now # pollRows) => <>[](stream.rows = landing.now)
=============================================================================
