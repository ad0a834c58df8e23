------------------------- MODULE AlertConsolidation -------------------------
(***************************************************************************)
(* What the console makes of the rows it was given.  One alert reaches it  *)
(* as an alert, as a file of the landing pad and as a closed incident, and *)
(* each of these rows carries some of the alert's identities.  Rows that   *)
(* share one are merged into one row; a source that is left with too few   *)
(* gets rows back that were merged away, and may show no more than its     *)
(* quota, where the newest row of every type comes before any repetition.  *)
(*                                                                         *)
(* The variables are the last answers of the three calls; the lists on the *)
(* screen are computed from them anew by every render.                     *)
(***************************************************************************)
EXTENDS Integers, Sequences, FiniteSets, Ranking

CONSTANTS
    AlertRows,      \* rows the server may list as alerts
    ClosedRows,     \* rows it may list as closed incidents
    LandingRows,    \* rows it may list as files of the landing pad
    MaxRows,        \* bound on the rows listed
    MaxPerSource,   \* rows one source may show
    MinPerSource    \* rows one source shows if it has them

\* What a row may carry; "" is a field the source does not fill.
StreamRows ==
    [id : STRING, fingerprint : STRING, incident : STRING, correlation : STRING, ticket : STRING,
     name : STRING, service : STRING, severity : STRING, signature : STRING,
     time : Nat, channel : STRING, landing : BOOLEAN, closed : BOOLEAN, data : Nat]

ASSUME ConsolidationAssumption ==
    /\ AlertRows \cup ClosedRows \cup LandingRows \subseteq StreamRows
    /\ MaxRows \in Nat /\ MaxPerSource \in Nat \ {0} /\ MinPerSource \in Nat

VARIABLES
    alertAnswer,    \* sequences of rows
    closedAnswer,
    landingAnswer

listVars == <<alertAnswer, closedAnswer, landingAnswer>>

BlankRow ==
    [id |-> "", fingerprint |-> "", incident |-> "", correlation |-> "", ticket |-> "",
     name |-> "", service |-> "", severity |-> "", signature |-> "",
     time |-> 0, channel |-> "prometheus", landing |-> FALSE, closed |-> FALSE, data |-> 0]

Present(field, value) == IF value = "" THEN <<>> ELSE <<<<field, value>>>>

\* alertIdentityKeys: the exact identities first, then name and service within five
\* minutes, then service and the words of the message within ten.
IdentityKeys(row) ==
    Present("fingerprint", row.fingerprint) \o Present("incident", row.incident)
    \o Present("correlation", row.correlation) \o Present("external", row.ticket)
    \o (IF row.name # "" /\ row.service # ""
        THEN <<<<"composite", row.name, row.service, row.severity, row.time \div 5>>>> ELSE <<>>)
    \o (IF row.service # "" /\ row.signature # ""
        THEN <<<<"cross-source", row.service, row.signature, row.time \div 10>>>> ELSE <<>>)

Score(row) == (IF row.closed THEN 0 ELSE 10) + row.data

\* Newest first; rows of one time stay in order.
Ahead(rows, i, j) == rows[i].time > rows[j].time \/ (rows[i].time = rows[j].time /\ i < j)
NewestFirst(rows) ==
    LET order == AtRank([i \in DOMAIN rows |-> Cardinality({j \in DOMAIN rows : Ahead(rows, j, i)}) + 1])
    IN  [n \in DOMAIN rows |-> rows[order[n]]]

\* shouldReplace: the latest state, or else the richest row that is not a mere file.
Replaces(incoming, existing, latestState) ==
    LET newer == incoming.time > existing.time
        richer == Score(incoming) > Score(existing)
    IN IF latestState
       THEN newer \/ (incoming.time = existing.time /\ richer)
       ELSE \/ existing.landing /\ ~incoming.landing
            \/ /\ existing.landing = incoming.landing
               /\ richer \/ (Score(incoming) = Score(existing) /\ newer)

KeysOf(row) == {IdentityKeys(row)[i] : i \in DOMAIN IdentityKeys(row)}

\* Mutant: only the first identity of a row is remembered.
RegisteredFirst(byKey, row, group) ==
    LET keys == IF IdentityKeys(row) = <<>> THEN {} ELSE {Head(IdentityKeys(row))}
    IN  [k \in keys \cup DOMAIN byKey |-> IF k \in keys THEN group ELSE byKey[k]]

\* Every identity of the row leads to its group from now on.
Registered(byKey, row, group) ==
    [k \in KeysOf(row) \cup DOMAIN byKey |-> IF k \in KeysOf(row) THEN group ELSE byKey[k]]

\* The group of the first identity that is known, or one of its own.
GroupOf(state, row) ==
    LET keys == IdentityKeys(row)
        known == {i \in DOMAIN keys : keys[i] \in DOMAIN state.byKey}
    IN  IF known = {} THEN Len(state.groups) + 1
        ELSE state.byKey[keys[CHOOSE i \in known : \A j \in known : i <= j]]

\* One row joins its group.
Merged(group, row, latestState) ==
    [row |-> IF Replaces(row, group.row, latestState) THEN row ELSE group.row,
     channels |-> group.channels \cup {row.channel}]
Joined(state, row, latestState) ==
    LET g == GroupOf(state, row)
        groups == IF g > Len(state.groups)
                  THEN Append(state.groups, [row |-> row, channels |-> {row.channel}])
                  ELSE [state.groups EXCEPT ![g] = Merged(@, row, latestState)]
    IN  [groups |-> groups, byKey |-> Registered(state.byKey, row, g)]

\* dedupeAndConsolidateAlertRows: the groups after each row.
Grouping(rows, latestState) ==
    LET state[n \in 0..Len(rows)] ==
            IF n = 0 THEN [groups |-> <<>>, byKey |-> <<>>]
            ELSE Joined(state[n - 1], rows[n], latestState)
    IN  state
Groups(rows, latestState) == Grouping(rows, latestState)[Len(rows)].groups

Consolidated(rows, latestState) ==
    LET groups == Groups(rows, latestState) IN NewestFirst([g \in DOMAIN groups |-> groups[g].row])

Type(row) == <<row.service, row.name>>
Fits(chosen, rows, i) ==
    Cardinality({j \in chosen : rows[j].channel = rows[i].channel}) < MaxPerSource

\* The newest row of a type takes a slot while its source has one.
Reserve(chosen, rows, i) ==
    IF /\ Fits(chosen, rows, i)
       /\ ~\E j \in chosen : rows[j].channel = rows[i].channel /\ Type(rows[j]) = Type(rows[i])
    THEN chosen \cup {i} ELSE chosen
Reserved(rows) ==
    LET chosen[n \in 0..Len(rows)] == IF n = 0 THEN {} ELSE Reserve(chosen[n - 1], rows, n) IN chosen

\* Repetitions take what is left.
Fill(chosen, rows, i) == IF i \notin chosen /\ Fits(chosen, rows, i) THEN chosen \cup {i} ELSE chosen
Filled(rows) ==
    LET chosen[n \in 0..Len(rows)] ==
            IF n = 0 THEN Reserved(rows)[Len(rows)] ELSE Fill(chosen[n - 1], rows, n)
    IN  chosen

\* capLatestAlertsPerSource
CapLatest(rows) ==
    LET sorted == NewestFirst(rows)
        order == Ascending(Filled(sorted)[Len(rows)])
    IN  [n \in DOMAIN order |-> sorted[order[n]]]

\* ensureMinimumAlertsBySource: the newest rows left out come back while a source is short.
Identity(row) == IF row.id # "" THEN <<row.id>> ELSE <<row.channel, row.name, row.time>>
Restore(selected, row) ==
    IF /\ Cardinality({j \in DOMAIN selected : selected[j].channel = row.channel}) < MinPerSource
       /\ \A j \in DOMAIN selected : Identity(selected[j]) # Identity(row)
    THEN Append(selected, row) ELSE selected
Restored(rows, newest) ==
    LET selected[n \in 0..Len(newest)] == IF n = 0 THEN rows ELSE Restore(selected[n - 1], newest[n])
    IN  selected
EnsureMinimum(rows, sourceRows) ==
    NewestFirst(Restored(rows, NewestFirst(sourceRows))[Len(sourceRows)])

\* mapClosedIncidentToAlertStreamRow and mapLandingPadRowToAlertStreamRow.
Default(value, other) == IF value = "" THEN other ELSE value
AsClosed(row) ==
    [row EXCEPT !.closed = TRUE, !.landing = FALSE, !.id = Default(@, row.incident),
                !.service = Default(@, "-"), !.severity = Default(@, "info"),
                !.name = Default(@, "closed incident")]
AsLanded(row) ==
    [row EXCEPT !.landing = TRUE, !.incident = Default(@, row.id),
                !.service = Default(@, "-"), !.severity = Default(@, "warning"),
                !.name = Default(@, "Landing Pad Alert")]

\* The rows the two calls keep of their answers, and what is shown of them.
Alerts == CapLatest(alertAnswer)
LandingPad == CapLatest(landingAnswer)

\* mergeAlertStreamRows: closed incidents after the open alerts, one row for one id.
Id(row) == Default(row.id, row.incident)
Add(merged, row) ==
    IF Id(row) # "" /\ \E j \in DOMAIN merged : Id(merged[j]) = Id(row) THEN merged ELSE Append(merged, row)
Added(rows) ==
    LET merged[n \in 0..Len(rows)] == IF n = 0 THEN <<>> ELSE Add(merged[n - 1], rows[n]) IN merged
MergedRows ==
    LET rows == CapLatest(EnsureMinimum(Alerts, Alerts))
                    \o [i \in DOMAIN closedAnswer |-> AsClosed(closedAnswer[i])]
    IN  Added(rows)[Len(rows)]
VisibleAlerts == Consolidated(MergedRows, FALSE)

AllStreamRows == [i \in DOMAIN LandingPad |-> AsLanded(LandingPad[i])]
                     \o [i \in DOMAIN Alerts |-> AsLanded(Alerts[i])]
BalancedRows == EnsureMinimum(Consolidated(AllStreamRows, TRUE), AllStreamRows)
IngestionStreamRows == CapLatest(BalancedRows)

ListsInit == alertAnswer = <<>> /\ closedAnswer = <<>> /\ landingAnswer = <<>>

\* The server lists one more row, in front of the others.
Room == Len(alertAnswer) + Len(closedAnswer) + Len(landingAnswer) < MaxRows
Listed(answer, rows) == \E row \in rows \ {answer[i] : i \in DOMAIN answer} : answer' = <<row>> \o answer

AlertListed == Room /\ Listed(alertAnswer, AlertRows) /\ UNCHANGED <<closedAnswer, landingAnswer>>
IncidentClosed == Room /\ Listed(closedAnswer, ClosedRows) /\ UNCHANGED <<alertAnswer, landingAnswer>>
FileLanded == Room /\ Listed(landingAnswer, LandingRows) /\ UNCHANGED <<alertAnswer, closedAnswer>>

ListsNext == AlertListed \/ IncidentClosed \/ FileLanded
ListsSpec == ListsInit /\ [][ListsNext]_listVars

(***************************************************************************)
(* Properties                                                              *)
(***************************************************************************)
Shares(a, b) == KeysOf(a) \cap KeysOf(b) # {}

\* The rows of one alert: those linked to row i through shared identities, among the first n.
Linked(rows, n, i) ==
    LET Closed(S) == \A a \in S, b \in 1 .. n : Shares(rows[a], rows[b]) => b \in S
    IN {j \in 1 .. n : \A S \in SUBSET (1 .. n) : i \in S /\ Closed(S) => j \in S}

\* A row that comes with identities of two alerts told apart so far.
Bridges(rows, n) ==
    \E i, j \in 1 .. n - 1 :
        /\ Shares(rows[n], rows[i]) /\ Shares(rows[n], rows[j])
        /\ j \notin Linked(rows, n - 1, i)

\* The order of preference: by state and time, or a source over a file, then by what it says.
Rank(row, latestState) ==
    IF latestState THEN <<row.time, Score(row), 0>>
                   ELSE <<IF row.landing THEN 0 ELSE 1, Score(row), row.time>>
Above(p, q) == \E k \in DOMAIN p : p[k] > q[k] /\ \A l \in 1 .. k - 1 : p[l] = q[l]

\* The row that stands for an alert: the highest, and the first of these.
Stands(rows, latestState, alert, i) ==
    /\ i \in alert
    /\ \A j \in alert :
          LET mine == Rank(rows[i], latestState)
              other == Rank(rows[j], latestState)
          IN ~Above(other, mine) /\ (j < i => other # mine)

OneGroupPerAlert(rows, latestState) ==
    LET groups == Groups(rows, latestState)
        alerts == {Linked(rows, Len(rows), i) : i \in DOMAIN rows}
    IN (\A n \in DOMAIN rows : ~Bridges(rows, n)) =>
           /\ Len(groups) = Cardinality(alerts)
           /\ \A alert \in alerts : \E g \in DOMAIN groups :
                 /\ \E i \in alert : Stands(rows, latestState, alert, i) /\ groups[g].row = rows[i]
                 /\ groups[g].channels = {rows[i].channel : i \in alert}

\* A type of alert is hidden only by a quota full of other types, and only all of it.
BurstHidesNoType(rows) ==
    \A shown \in {CapLatest(rows)} : \A i \in DOMAIN rows :
        LET ofSource == {j \in DOMAIN shown : shown[j].channel = rows[i].channel} IN
        \/ \E j \in ofSource : Type(shown[j]) = Type(rows[i]) /\ shown[j].time >= rows[i].time
        \/ Cardinality({Type(shown[j]) : j \in ofSource}) = MaxPerSource

OfChannel(rows, channel) == {j \in DOMAIN rows : rows[j].channel = channel}
RowsOfGroups(groups) == [g \in DOMAIN groups |-> groups[g].row]

\* A list shows every row of the others, and in a source with more rows than the minimum
\* it shows no row besides.
ShowsRows(rows, shown, minimum) ==
    /\ \A i \in DOMAIN rows : \E j \in DOMAIN shown : shown[j] = rows[i]
    /\ \A i \in DOMAIN shown :
          LET channel == shown[i].channel
              count == Cardinality(OfChannel(shown, channel))
          IN count <= minimum \/ count = Cardinality(OfChannel(rows, channel))

\* In the alert list and in the ingestion stream: rows that share an identity, directly or
\* through others, are merged into one, the richest or the latest of them, with every
\* source they came from, unless a row joined two alerts that were already told apart.
\* The alert list shows these and nothing else.  The stream shows them all, and an alert
\* a second time only by a row put back into a source that has no more rows than the
\* minimum.  And no burst of one alert pushes another type out of its source.
AlertsAreToldApart ==
    /\ OneGroupPerAlert(MergedRows, FALSE) /\ OneGroupPerAlert(AllStreamRows, TRUE)
    /\ ShowsRows(RowsOfGroups(Groups(MergedRows, FALSE)), VisibleAlerts, 0)
    /\ ShowsRows(RowsOfGroups(Groups(AllStreamRows, TRUE)), BalancedRows, MinPerSource)
    /\ BurstHidesNoType(alertAnswer) /\ BurstHidesNoType(BalancedRows)
=============================================================================
