------------------------- MODULE ConsoleDeskProofs -------------------------
(***************************************************************************)
(* Proofs about the two parts of the console an operator works at.         *)
(*                                                                         *)
(* AlertCockpit, for any alerts and file alerts: CockpitInv is the shape of *)
(* the state and that the details are filed under the alert they are of.   *)
(* ApprovalDesk, for any incidents, any number of clicks, moves, edits and *)
(* lost answers.                                                           *)
(***************************************************************************)
EXTENDS AlertCockpit, ApprovalDesk, TLAPS

(***************************************************************************)
(* The cockpit.  Its state is a record of records: what is proved of it    *)
(* rests on the shape of that record, which every load, effect and answer  *)
(* keeps, and on the details being filed under the alert they are of.      *)
(***************************************************************************)
Selectable == Alerts \cup Files \cup {NoAlert}
Payloads == [of : Selectable, kind : {"none", "row", "local", "partial", "full"}]
Details == [alert : Selectable, loading : BOOLEAN, error : BOOLEAN, payload : Payloads]

CockpitStates ==
    [selected : Selectable, snapshot : Selectable, pending : Files \cup {NoAlert},
     data : Details, renewed : BOOLEAN,
     retry : [alert : Selectable, waited : BOOLEAN], busy : BOOLEAN]

Analysed == {"partial", "full"}

\* The details of a state are of the alert they are filed under, and only an alert
\* has any that a request has answered.
Filed(st) ==
    /\ st \in CockpitStates
    /\ st.data.payload.of \in {NoAlert, st.data.alert}
    /\ st.data.payload.kind \in Analysed => st.data.payload.of \in Alerts

CockpitInv ==
    /\ Filed(ui)
    /\ backend \in [stored : SUBSET Alerts, closed : SUBSET Alerts, ready : SUBSET Alerts]
    /\ lists \in [open : SUBSET Alerts, closed : SUBSET Alerts]
    /\ url \in Selectable /\ arriving \in Selectable
    /\ asked \subseteq Alerts /\ poll \in Alerts \cup {NoAlert} /\ runs \subseteq Alerts

\* A load keeps the shape, and changes nothing but the details.
LEMMA LoadingFiles ==
    ASSUME NEW st, Filed(st), NEW a \in Alerts \cup Files, NEW row \in BOOLEAN,
           NEW background \in BOOLEAN
    PROVE  /\ Filed(Loading(st, a, row, background))
           /\ Loading(st, a, row, background).selected = st.selected
           /\ Loading(st, a, row, background).data.alert = a
<1>1. CASE a \in Files
  <2> DEFINE d == Local(a)
  <2>1. d \in Details
    BY <1>1 DEF Local, Details, Payloads, Selectable
  <2>2. Loading(st, a, row, background) = [st EXCEPT !.data = d, !.renewed = TRUE]
    BY <1>1 DEF Loading
  <2>3. /\ d.alert = a /\ d.payload.of = a /\ d.payload.kind = "local"
    BY DEF Local
  <2> HIDE DEF d
  <2> QED
    BY <2>1, <2>2, <2>3 DEF Filed, CockpitStates, Analysed
<1>2. CASE a \notin Files
  <2> DEFINE d == Begun(st.data, a, row, background)
  <2>1. a \in Alerts /\ st.data \in Details
    BY <1>2 DEF Filed, CockpitStates
  <2>2. Loading(st, a, row, background) = [st EXCEPT !.data = d]
    BY <1>2 DEF Loading
  <2>3. d.alert = a /\ d.error = FALSE /\ d.loading \in BOOLEAN
    BY <2>1 DEF Begun, Details
  <2>4. \/ st.data.alert = a /\ d.payload = st.data.payload
        \/ d.payload = [of |-> a, kind |-> "row"]
        \/ d.payload = NoPayload
    BY DEF Begun
  <2>5. d.payload \in Payloads
    BY <2>1, <2>4 DEF Details, Payloads, NoPayload, Selectable
  <2>6. d \in Details
    BY <2>1, <2>3, <2>5 DEF Begun, Details, Selectable
  <2>7. /\ d.payload.of \in {NoAlert, a}
        /\ d.payload.kind \in Analysed => d.payload.of \in Alerts
    BY <2>4 DEF Filed, NoPayload, Analysed
  <2> HIDE DEF d
  <2> QED
    BY <2>2, <2>3, <2>6, <2>7 DEF Filed, CockpitStates
<1> QED
  BY <1>1, <1>2

LEMMA ClearedIsFiled ==
    ASSUME NEW st, Filed(st)
    PROVE  Filed(Cleared(st))
<1>1. NoData \in Details
  BY DEF NoData, NoPayload, Details, Payloads, Selectable
<1> QED
  BY <1>1 DEF Filed, Cleared, CockpitStates, Selectable, NoData, NoPayload, Analysed
\* The retention effect drops the selection or loads the alert selected.
LEMMA RetainFiles ==
    ASSUME CockpitInv, NEW c, c = ShownInCockpit, NEW st, Filed(st)
    PROVE  Filed(Retain(c, st))
<1> DEFINE a == ui.selected
           again == [st EXCEPT !.retry = [alert |-> a, waited |-> FALSE]]
           rows == (lists.open \cup lists.closed) \cap scope
<1>1. a \in Selectable
  BY DEF CockpitInv, Filed, CockpitStates
<1>2. c.ui = ui /\ c.lists = lists /\ c.scope = scope
  BY DEF ShownInCockpit
<1>3. a \in rows => a # NoAlert
  BY CockpitAssumption DEF CockpitInv
<1>4. Filed(again) /\ Filed(Cleared(st)) /\ Filed([Cleared(st) EXCEPT !.snapshot = st.snapshot])
  BY <1>1, ClearedIsFiled DEF Filed, CockpitStates
<1>5. a \in rows => Filed(Loading(st, a, FALSE, FALSE)) /\ Filed(Loading(again, a, FALSE, FALSE))
  <2> HIDE DEF again, a, rows
  <2>1. a \in rows => a \in Alerts \cup Files
    BY <1>1, <1>3 DEF Selectable
  <2> QED
    BY <2>1, <1>4, LoadingFiles
<1> HIDE DEF again
<1>6. CASE a = NoAlert
  BY <1>2, <1>3, <1>6 DEF Retain
<1>7. CASE a # NoAlert /\ rows = {}
  <2>1. Retain(c, st) \in {st, [Cleared(st) EXCEPT !.snapshot = st.snapshot]}
    BY <1>2, <1>7 DEF Retain
  <2> QED
    BY <2>1, <1>4
<1>8. CASE a \in rows /\ ui.data.alert # a
  <2>1. Retain(c, st) = Loading(st, a, FALSE, FALSE)
    BY <1>2, <1>3, <1>8 DEF Retain
  <2> QED
    BY <2>1, <1>5, <1>8
<1>9. CASE a \in rows /\ ui.data.alert = a
  <2>1. Retain(c, st) \in {st, Loading(again, a, FALSE, FALSE)}
    BY <1>2, <1>3, <1>9 DEF Retain, again
  <2> QED
    BY <2>1, <1>5, <1>9
<1>10. CASE a # NoAlert /\ rows # {} /\ a \notin rows
  <2>1. Retain(c, st) \in {st, Cleared(st)}
    BY <1>2, <1>10 DEF Retain
  <2> QED
    BY <2>1, <1>4
<1> QED
  BY <1>6, <1>7, <1>8, <1>9, <1>10

\* The alert of the URL is loaded, as itself or as the alert its file became.
LEMMA RestoreFiles ==
    ASSUME CockpitInv, NEW c, c = ShownInCockpit, NEW st, Filed(st)
    PROVE  Filed(Restore(c, st))
<1>1. c.ui = ui /\ c.lists = lists /\ c.url = url
  BY DEF ShownInCockpit
<1> DEFINE known == url \in Files /\ CanonicalOf[url] \in lists.open
           a == IF known THEN CanonicalOf[url] ELSE url
           chosen == [st EXCEPT !.selected = a, !.snapshot = IF known THEN a ELSE NoAlert]
           loaded == Loading(chosen, a, known, FALSE)
<1>2. CASE url \in {NoAlert, ui.selected}
  BY <1>1, <1>2 DEF Restore
<1>3. CASE url \notin {NoAlert, ui.selected}
  <2>1. a \in Alerts \cup Files /\ known \in BOOLEAN
    BY <1>3, CockpitAssumption DEF CockpitInv, Selectable
  <2>2. Filed(chosen)
    BY <2>1 DEF Filed, CockpitStates, Selectable
  <2> HIDE DEF a, known, chosen
  <2>3. Filed(loaded)
    BY <2>1, <2>2, LoadingFiles
  <2>4. Restore(c, st) = [loaded EXCEPT !.pending = IF a \in Files THEN a ELSE @]
    BY <1>1, <1>3 DEF Restore, a, known, chosen
  <2> HIDE DEF loaded
  <2> QED
    BY <2>3, <2>4 DEF Filed, CockpitStates
<1> QED
  BY <1>2, <1>3

\* A promotion loads the alert the file became.
LEMMA PromoteFiles ==
    ASSUME CockpitInv, NEW c, c = ShownInCockpit, NEW st, Filed(st)
    PROVE  Filed(Promote(c, st))
<1>1. c.ui = ui /\ c.lists = lists
  BY DEF ShownInCockpit
<1> DEFINE a == CanonicalOf[ui.pending]
           chosen == [st EXCEPT !.pending = NoAlert, !.snapshot = a, !.selected = a]
<1>2. CASE Promotes(c)
  <2>1. a \in Alerts
    BY <1>1, <1>2 DEF Promotes, CockpitInv
  <2>2. Filed(chosen)
    BY <2>1 DEF Filed, CockpitStates, Selectable
  <2>3. Promote(c, st) = Loading(chosen, a, TRUE, FALSE)
    BY <1>1, <1>2 DEF Promote
  <2> HIDE DEF a, chosen
  <2> QED
    BY <2>1, <2>2, <2>3, LoadingFiles
<1>3. CASE ~ Promotes(c)
  BY <1>3 DEF Promote
<1> QED
  BY <1>2, <1>3

LEMMA CockpitInitInv == CockpitInit => CockpitInv
BY CockpitAssumption
   DEF CockpitInit, CockpitInv, Filed, CockpitStates, Details, Payloads, Selectable, NoData,
       NoPayload, Analysed

LEMMA CockpitStep == CockpitInv /\ [CockpitNext]_cockpitVars => CockpitInv'
<1> SUFFICES ASSUME CockpitInv, [CockpitNext]_cockpitVars PROVE CockpitInv'
  OBVIOUS
<1>1. ASSUME NEW row \in Alerts \cup Files, OpenAlert(row)
      PROVE  CockpitInv'
  <2> DEFINE a == Resolved(row)
             chosen == [ui EXCEPT !.pending = IF a \in Files THEN a ELSE NoAlert,
                        !.snapshot = a, !.selected = a]
  <2>1. a \in Alerts \cup Files
    BY CockpitAssumption DEF Resolved
  <2>2. Filed(chosen)
    BY <2>1 DEF CockpitInv, Filed, CockpitStates, Selectable
  <2>3. ui' = Loading(chosen, a, TRUE, FALSE)
    BY <1>1 DEF OpenAlert
  <2>4. Reads(a) /\ arriving' = a
    BY <1>1 DEF OpenAlert
  <2> HIDE DEF a, chosen
  <2>5. Filed(ui)'
    BY <2>1, <2>2, <2>3, LoadingFiles DEF Filed
  <2> QED
    BY <1>1, <2>1, <2>4, <2>5 DEF OpenAlert, CockpitInv, Reads, Selectable
<1>2. ASSUME NEW a \in Alerts \cup Files, BrowserGoes(a)
      PROVE  CockpitInv'
  BY <1>2 DEF BrowserGoes, CockpitInv, Selectable, Filed
<1>3. ASSUME NEW s, MonitorApplication(s)
      PROVE  CockpitInv'
  BY <1>3 DEF MonitorApplication, CockpitInv, Filed
<1>4. CASE Regenerate
  BY <1>4 DEF Regenerate, CockpitInv, Filed, CockpitStates, Analysed
<1>5. ASSUME NEW a \in Alerts, Answer(a)
      PROVE  CockpitInv'
  <2>1. CASE ui.data.alert = a
    <3> DEFINE kind == IF a \in backend.ready THEN "full" ELSE "partial"
               d == [alert |-> a, loading |-> FALSE, error |-> FALSE,
                     payload |-> [of |-> a, kind |-> kind]]
    <3>1. d \in Details /\ d.alert = a /\ d.payload.of = a
      BY DEF Details, Payloads, Selectable
    <3>2. ui' = [ui EXCEPT !.renewed = TRUE, !.data = d]
      BY <1>5, <2>1 DEF Answer
    <3> HIDE DEF d
    <3>3. Filed(ui)'
      BY <3>1, <3>2 DEF CockpitInv, Filed, CockpitStates
    <3> QED
      BY <1>5, <3>3 DEF Answer, CockpitInv
  <2>2. CASE ui.data.alert # a
    BY <1>5, <2>2 DEF Answer, CockpitInv, Filed
  <2> QED
    BY <2>1, <2>2
<1>6. ASSUME NEW a \in Alerts, Fail(a)
      PROVE  CockpitInv'
  <2>1. ui.data \in Details
    BY DEF CockpitInv, Filed, CockpitStates
  <2>2. Filed([ui EXCEPT !.data.loading = FALSE, !.data.error = TRUE])
    BY <2>1 DEF CockpitInv, Filed, CockpitStates, Details
  <2>3. Filed(ui)'
    BY <1>6, <2>2 DEF Fail, CockpitInv, Filed
  <2> QED
    BY <1>6, <2>3 DEF Fail, CockpitInv
<1>7. ASSUME NEW a \in Alerts, Regenerated(a)
      PROVE  CockpitInv'
  <2> DEFINE free == [ui EXCEPT !.busy = FALSE]
  <2>1. Filed(free)
    BY DEF CockpitInv, Filed, CockpitStates
  <2>2. ui' = Loading(free, a, FALSE, FALSE)
    BY <1>7 DEF Regenerated
  <2> HIDE DEF free
  <2>3. Filed(ui)'
    BY <2>1, <2>2, LoadingFiles DEF Filed
  <2> QED
    BY <1>7, <2>3 DEF Regenerated, Reads, CockpitInv
<1>8. ASSUME NEW a \in Alerts, RegenerationFails(a)
      PROVE  CockpitInv'
  BY <1>8 DEF RegenerationFails, CockpitInv, Filed, CockpitStates
<1>9. CASE CommitCockpit
  <2> DEFINE c == ShownInCockpit
             st == [ui EXCEPT !.renewed = FALSE, !.busy = @ /\ ui.selected = rendered.ui.selected]
             restored == Restore(c, st)
             retained == IF RetainDeps(c) # RetainDeps(rendered) THEN Retain(c, restored) ELSE restored
             final == Promote(c, retained)
  <2>1. Filed(st)
    BY DEF CockpitInv, Filed, CockpitStates
  <2> HIDE DEF st
  <2>2. Filed(restored)
    BY <2>1, RestoreFiles
  <2> HIDE DEF restored
  <2>3. Filed(retained)
    BY <2>2, RetainFiles
  <2> HIDE DEF retained
  <2>4. Filed(final)
    BY <2>3, PromoteFiles
  <2>5. ui' = final
    BY <1>9 DEF CommitCockpit, final, retained, restored, st
  <2> HIDE DEF final
  <2>6. Filed(ui)'
    BY <2>4, <2>5 DEF Filed
  <2>7. asked' \subseteq Alerts
    BY <1>9 DEF CommitCockpit, CockpitInv
  <2>8. arriving' \in Selectable
    <3>1. Promotes(c) => CanonicalOf[ui.pending] \in Alerts
      BY DEF Promotes, ShownInCockpit, CockpitInv
    <3>2. Resolved(c.url) \in Alerts \/ Resolved(c.url) \notin Alerts
      OBVIOUS
    <3>3. arriving' \in {CanonicalOf[ui.pending], Resolved(c.url), arriving}
      BY <1>9 DEF CommitCockpit
    <3> QED
      BY <1>9, <3>1 DEF CommitCockpit, CockpitInv, Selectable
  <2>9. poll' \in Alerts \cup {NoAlert}
    BY <1>9 DEF CommitCockpit, CockpitInv
  <2> QED
    BY <1>9, <2>6, <2>7, <2>8, <2>9 DEF CommitCockpit, CockpitInv
<1>10. CASE PollAnalysis
  <2>1. poll \in Alerts
    BY <1>10 DEF PollAnalysis, CockpitInv
  <2>2. Filed(ui)'
    BY <1>10, <2>1, LoadingFiles DEF PollAnalysis, CockpitInv, Filed
  <2> QED
    BY <1>10, <2>1, <2>2 DEF PollAnalysis, CockpitInv, Reads
<1>11. CASE RetryAgain
  <2>1. ui.retry \in [alert : Selectable, waited : BOOLEAN]
    BY DEF CockpitInv, Filed, CockpitStates
  <2> QED
    BY <1>11, <2>1 DEF RetryAgain, CockpitInv, Filed, CockpitStates
<1>12. CASE Arrive \/ RefreshOpen \/ RefreshClosed
  BY <1>12 DEF Arrive, RefreshOpen, RefreshClosed, CockpitInv, Filed, Selectable
<1>13. ASSUME NEW a \in Alerts, Store(a) \/ Analyse(a) \/ Close(a)
       PROVE  CockpitInv'
  BY <1>13 DEF Store, Analyse, Close, CockpitInv, Filed
<1>14. CASE UNCHANGED cockpitVars
  BY <1>14 DEF cockpitVars, CockpitInv, Filed
<1> QED
  BY <1>1, <1>2, <1>3, <1>4, <1>5, <1>6, <1>7, <1>8, <1>9, <1>10, <1>11, <1>12, <1>13, <1>14
     DEF CockpitNext, OperatesCockpit

THEOREM CockpitInductive == CockpitSpec => []CockpitInv
BY CockpitInitInv, CockpitStep, PTL DEF CockpitSpec

\* The selection, the details, the requests and the timer keep their ranges.
THEOREM CockpitTypes == CockpitSpec => []CockpitTypeOK
<1>1. CockpitInv => CockpitTypeOK
  BY DEF CockpitInv, Filed, CockpitStates, Details, Payloads, Selectable, CockpitTypeOK
<1> QED
  BY <1>1, CockpitInductive, PTL

\* Answers arrive in any order and after the selection has moved: details are
\* never those of another alert than the one they are filed under.
THEOREM PayloadsMatch == CockpitSpec => []PayloadMatchesAlert
<1>1. CockpitInv => PayloadMatchesAlert
  BY DEF CockpitInv, Filed, PayloadMatchesAlert
<1> QED
  BY <1>1, CockpitInductive, PTL

\* A commit leaves a loaded selection alone: none of its three effects answers
\* to anything but the operator.
LEMMA CommitKeepsLoaded ==
    ASSUME CockpitInv, CommitCockpit, Loaded, ui.pending = NoAlert
    PROVE  ui'.selected = ui.selected
<1> DEFINE c == ShownInCockpit
           st == [ui EXCEPT !.renewed = FALSE, !.busy = @ /\ ui.selected = rendered.ui.selected]
           restored == Restore(c, st)
           retained == IF RetainDeps(c) # RetainDeps(rendered) THEN Retain(c, restored) ELSE restored
           final == Promote(c, retained)
<1>1. Filed(st) /\ st.selected = ui.selected
  BY DEF CockpitInv, Filed, CockpitStates
<1>2. c.ui = ui /\ c.lists = lists /\ c.scope = scope /\ c.url = url
  BY DEF ShownInCockpit
<1>3. ui' = final
  BY DEF CommitCockpit
<1> HIDE DEF st, c
<1>4. restored = st
  BY <1>2 DEF Restore, Loaded
<1>5. Retain(c, st).selected = st.selected
  <2> DEFINE a == ui.selected
             again == [st EXCEPT !.retry = [alert |-> a, waited |-> FALSE]]
  <2>1. /\ a \in Alerts \cup Files /\ a # NoAlert /\ ui.data.alert = a
        /\ ui.data.payload # NoPayload /\ ~ ui.data.error
    BY DEF Loaded, CockpitInv, Filed, CockpitStates, Selectable, NoPayload
  <2>2. Retain(c, st) \in {st, Loading(again, a, FALSE, FALSE)}
    BY <1>2, <2>1 DEF Retain, Retains
  <2>3. Filed(again) /\ again.selected = st.selected
    BY <1>1, <2>1 DEF Filed, CockpitStates, Selectable
  <2> HIDE DEF again
  <2>4. Loading(again, a, FALSE, FALSE).selected = again.selected
    BY <2>1, <2>3, LoadingFiles
  <2> QED
    BY <2>2, <2>3, <2>4
<1>6. ~ Promotes(c)
  BY <1>2 DEF Promotes
<1>7. final = retained
  BY <1>6 DEF Promote
<1> QED
  BY <1>1, <1>3, <1>4, <1>5, <1>7

\* An alert whose details are shown, with no file waiting to be promoted, stays
\* selected until the operator acts, whatever lists, answers, timers and
\* regenerations do meanwhile.
THEOREM LoadedStaysSelected == CockpitSpec => LoadedSelectionSurvives
<1> DEFINE Survives == Loaded /\ ui.pending = NoAlert => ui'.selected = ui.selected \/ OperatesCockpit
<1>1. CockpitInv /\ [CockpitNext]_cockpitVars => [Survives]_cockpitVars
  <2> SUFFICES ASSUME CockpitInv, CockpitNext, Loaded, ui.pending = NoAlert, ~ OperatesCockpit
               PROVE  ui'.selected = ui.selected
    BY DEF cockpitVars
  <2>1. CASE CommitCockpit
    BY <2>1, CommitKeepsLoaded
  <2>2. ASSUME NEW a \in Alerts, Answer(a) \/ Fail(a) \/ Regenerated(a) \/ RegenerationFails(a)
        PROVE  ui'.selected = ui.selected
    <3> DEFINE free == [ui EXCEPT !.busy = FALSE]
    <3>1. Filed(free) /\ free.selected = ui.selected
      BY DEF CockpitInv, Filed, CockpitStates
    <3>2. CASE Regenerated(a)
      <4>1. ui' = Loading(free, a, FALSE, FALSE)
        BY <3>2 DEF Regenerated
      <4> HIDE DEF free
      <4> QED
        BY <3>1, <4>1, LoadingFiles
    <3>3. CASE Answer(a) \/ Fail(a) \/ RegenerationFails(a)
      BY <3>3 DEF Answer, Fail, RegenerationFails, CockpitInv, Filed, CockpitStates
    <3> QED
      BY <2>2, <3>2, <3>3
  <2>3. CASE PollAnalysis
    <3>1. poll \in Alerts /\ ui' = Loading(ui, poll, FALSE, TRUE)
      BY <2>3 DEF PollAnalysis, CockpitInv
    <3> QED
      BY <3>1, LoadingFiles DEF CockpitInv
  <2>4. CASE RetryAgain
    BY <2>4 DEF RetryAgain, CockpitInv, Filed, CockpitStates
  <2>5. CASE UNCHANGED ui
    BY <2>5
  <2> QED
    BY <2>1, <2>2, <2>3, <2>4, <2>5
       DEF CockpitNext, Arrive, RefreshOpen, RefreshClosed, Store, Analyse, Close
<1> QED
  BY <1>1, CockpitInductive, PTL DEF CockpitSpec, LoadedSelectionSurvives



USE DeskAssumption

(***************************************************************************)
(* Types                                                                   *)
(***************************************************************************)
LEMMA AppendedRun ==
    ASSUME NEW S, NEW s \in Seq(S), NEW e \in S
    PROVE  /\ Append(s, e) \in Seq(S)
           /\ \A n \in DOMAIN Append(s, e) :
                  Append(s, e)[n] = e \/ (n \in DOMAIN s /\ Append(s, e)[n] = s[n])
OBVIOUS

LEMMA SpendType ==
    ASSUME spent \in [clicks : Nat, moves : Nat, changes : Nat, faults : Nat],
           NEW kind \in {"clicks", "moves", "changes", "faults"}, NEW bound, Spend(kind, bound)
    PROVE  spent' \in [clicks : Nat, moves : Nat, changes : Nat, faults : Nat]
BY DEF Spend

LEMMA DisturbType ==
    ASSUME spent \in [clicks : Nat, moves : Nat, changes : Nat, faults : Nat],
           NEW kind \in {"changes", "faults"}, Disturb(kind)
    PROVE  spent' \in [clicks : Nat, moves : Nat, changes : Nat, faults : Nat]
BY SpendType DEF Disturb

LEMMA FirstType ==
    ASSUME NEW rows \in SUBSET AnyIncident
    PROVE  First(rows) \in AnyIncident
BY DEF First, AnyIncident

LEMMA SignatureType == DeskTypeOK => Signature \in Signatures
BY DEF DeskTypeOK, Signature, Signatures

LEMMA NoSignatureType == NoSignature \in Signatures
BY DEF NoSignature, Signatures, AnyIncident

GateRecords == [plan : Nat, suggested : Nat, rehearsed : Signatures, approved : Signatures,
                renewal : BOOLEAN, accepted : BOOLEAN, ended : BOOLEAN, busy : BOOLEAN]
Servers == [approved : SUBSET AnyIncident, rehearsed : SUBSET Signatures, runs : Seq(Executions)]

LEMMA ClosedType == Closed \in GateRecords /\ Idle \in [loading : BOOLEAN, result : BOOLEAN]
BY NoSignatureType DEF Closed, Idle, GateRecords

LEMMA TypeInit == DeskInit => DeskTypeOK
<1> SUFFICES ASSUME DeskInit PROVE DeskTypeOK
  OBVIOUS
<1>1. gate \in GateRecords /\ exec \in [loading : BOOLEAN, result : BOOLEAN]
  BY ClosedType DEF DeskInit
<1>2. server \in Servers
  BY DEF DeskInit, Servers
<1>3. /\ view \in [tab : {"queue", "approval", "execution"}, alert : AnyIncident]
      /\ desk \in [chosen : AnyIncident, form : AnyIncident]
      /\ spent \in [clicks : Nat, moves : Nat, changes : Nat, faults : Nat]
  BY DEF DeskInit, AnyIncident
<1> QED
  BY <1>1, <1>2, <1>3 DEF DeskInit, DeskTypeOK, GateRecords, Servers, AnyIncident


LEMMA AskedType ==
    ASSUME NEW ls \in SUBSET Incidents, NEW i \in AnyIncident
    PROVE  Asked(ls, i) \in SUBSET Incidents
BY DEF Asked, AnyIncident

LEMMA AsksType ==
    ASSUME DeskTypeOK, NEW kind \in Kinds, NEW incident \in AnyIncident, Asks(kind, incident)
    PROVE  /\ calls' \subseteq Calls
           /\ spent' \in [clicks : Nat, moves : Nat, changes : Nat, faults : Nat]
           /\ \A k \in calls' \ calls : /\ k.kind = kind /\ k.incident = incident
                                        /\ k.kind \in CockpitKinds => k.signature = Signature
                                        /\ k.stage # "run"
           /\ UNCHANGED <<view, pending, loads, polls, timer, server, seen>>
<1>1. spent' \in [clicks : Nat, moves : Nat, changes : Nat, faults : Nat]
  BY SpendType DEF Asks, DeskTypeOK
<1>2. PICK k \in {[kind |-> kind, incident |-> incident,
           signature |-> IF kind \in CockpitKinds THEN Signature ELSE NoSignature,
           chosen |-> desk.chosen = incident,
           stage |-> IF kind = "rehearse" THEN "rehearse" ELSE "decide"]} : calls' = calls \cup {k}
  BY DEF Asks
<1>3. k \in Calls
  <2>1. Signature \in Signatures /\ NoSignature \in Signatures
    BY SignatureType, NoSignatureType
  <2>2. \A g \in Signatures, b \in BOOLEAN, t \in {"rehearse", "decide"} :
            [kind |-> kind, incident |-> incident, signature |-> g, chosen |-> b, stage |-> t] \in Calls
    BY DEF Calls
  <2> DEFINE follows == desk.chosen = incident
  <2>4. follows \in BOOLEAN
    OBVIOUS
  <2> HIDE DEF follows
  <2>5. k = [kind |-> kind, incident |-> incident,
             signature |-> IF kind \in CockpitKinds THEN Signature ELSE NoSignature,
             chosen |-> follows, stage |-> IF kind = "rehearse" THEN "rehearse" ELSE "decide"]
    BY <1>2 DEF follows
  <2> QED
    BY <2>1, <2>2, <2>4, <2>5
<1>4. /\ k.kind = kind /\ k.incident = incident
      /\ k.kind \in CockpitKinds => k.signature = Signature
      /\ k.stage # "run"
  BY <1>2
<1> QED
  BY <1>1, <1>2, <1>3, <1>4 DEF Asks, DeskTypeOK

LEMMA CommitType == DeskTypeOK /\ Commit => DeskTypeOK'
<1> SUFFICES ASSUME DeskTypeOK, Commit PROVE DeskTypeOK'
  OBVIOUS
<1>1. First(pending) \in AnyIncident
  BY FirstType DEF DeskTypeOK
<1>2. Following(desk) \in [chosen : AnyIncident, form : AnyIncident]
  BY DEF DeskTypeOK, Following
<1>3. Queueing(Following(desk)) \in [chosen : AnyIncident, form : AnyIncident]
  BY <1>1, <1>2 DEF Queueing
<1>4. Entering(Queueing(Following(desk))) \in [chosen : AnyIncident, form : AnyIncident]
  BY <1>3 DEF Entering, DeskTypeOK
<1>5. desk' \in [chosen : AnyIncident, form : AnyIncident]
  BY <1>4 DEF Commit
<1>6. loads' \subseteq Incidents
  <2>1. Asked(loads, desk.chosen) \in SUBSET Incidents
    BY AskedType DEF DeskTypeOK
  <2>2. PICK chosen \in SUBSET Incidents :
            loads' = IF Entered THEN Asked(chosen, view.alert) ELSE chosen
    BY <2>1 DEF Commit, DeskTypeOK
  <2>3. Asked(chosen, view.alert) \in SUBSET Incidents
    BY AskedType DEF DeskTypeOK
  <2> QED
    BY <2>2, <2>3
<1>7. /\ gate' \in GateRecords
      /\ exec' \in [loading : BOOLEAN, result : BOOLEAN] /\ timer' \in BOOLEAN
  <2>1. [Closed EXCEPT !.busy = gate.busy, !.suggested = gate.suggested,
                      !.plan = gate.suggested] \in GateRecords
    BY ClosedType DEF DeskTypeOK, GateRecords
  <2>2. CASE view.alert # seen.view.alert
    BY <2>1, <2>2, ClosedType DEF Commit, GateRecords
  <2>3. CASE view.alert = seen.view.alert
    BY <2>3 DEF Commit, DeskTypeOK, GateRecords
  <2> QED
    BY <2>2, <2>3
<1> QED
  BY <1>5, <1>6, <1>7 DEF Commit, DeskTypeOK, GateRecords

LEMMA FreshType == DeskTypeOK => Fresh \in Nat
BY DEF DeskTypeOK, Fresh

LEMMA HydrateType == DeskTypeOK /\ Hydrate => DeskTypeOK'
<1> SUFFICES ASSUME DeskTypeOK, Hydrate PROVE DeskTypeOK'
  OBVIOUS
<1>1. spent' \in [clicks : Nat, moves : Nat, changes : Nat, faults : Nat]
  BY DisturbType DEF Hydrate, DeskTypeOK
<1>2. gate' \in GateRecords
  <2>1. gate \in GateRecords /\ gate.suggested \in Nat
    BY DEF DeskTypeOK, GateRecords
  <2>2. PICK plan \in Nat : gate' = [gate EXCEPT !.suggested = plan, !.plan = plan]
    BY <2>1, FreshType DEF Hydrate
  <2> QED
    BY <2>1, <2>2 DEF GateRecords
<1> QED
  BY <1>1, <1>2, ClosedType DEF Hydrate, DeskTypeOK, GateRecords

LEMMA OperatesType == DeskTypeOK /\ Operates => DeskTypeOK'
<1> SUFFICES ASSUME DeskTypeOK, Operates PROVE DeskTypeOK'
  OBVIOUS
<1>1. ASSUME NEW tab \in {"execution", "approval", "queue"}, NEW i \in AnyIncident, Go(tab, i)
      PROVE  DeskTypeOK'
  BY <1>1, SpendType DEF Go, DeskTypeOK
<1>2. ASSUME NEW i \in Incidents, Choose(i) PROVE DeskTypeOK'
  <2>1. i \in AnyIncident
    BY DEF AnyIncident
  <2> QED
    BY <1>2, <2>1, SpendType, AskedType DEF Choose, DeskTypeOK
<1>3. CASE EditByHand \/ EditToSuggested \/ EditForLive \/ ToggleReject
  <2>1. /\ spent' \in [clicks : Nat, moves : Nat, changes : Nat, faults : Nat] /\ Fresh \in Nat
        /\ UNCHANGED <<view, pending, desk, loads, exec, calls, polls, timer, server, seen>>
    BY <1>3, SpendType, FreshType
    DEF EditByHand, EditToSuggested, EditForLive, ToggleReject, EditAllowed, UnchangedByEdit, DeskTypeOK
  <2>2. gate' \in GateRecords
    <3>1. CASE EditByHand
      BY <2>1, <3>1 DEF EditByHand, DeskTypeOK, GateRecords
    <3>2. CASE EditToSuggested
      BY <3>2, NoSignatureType DEF EditToSuggested, DeskTypeOK, GateRecords
    <3>3. CASE EditForLive
      BY <2>1, <3>3, NoSignatureType DEF EditForLive, DeskTypeOK, GateRecords
    <3>4. CASE ToggleReject
      BY <3>4 DEF ToggleReject, DeskTypeOK, GateRecords
    <3> QED
      BY <1>3, <3>1, <3>2, <3>3, <3>4
  <2> QED
    BY <2>1, <2>2 DEF DeskTypeOK, GateRecords
<1>4. FormIncident \in AnyIncident
  BY DEF FormIncident, DeskTypeOK
<1>5. CASE Rehearse \/ Approve \/ Execute
  <2>1. PICK kind \in Kinds : Asks(kind, FormIncident)
    BY <1>5 DEF Rehearse, Approve, Execute, Kinds, CockpitKinds
  <2> QED
    <3>1. gate' \in GateRecords /\ exec' \in [loading : BOOLEAN, result : BOOLEAN] /\ UNCHANGED desk
      <4>1. CASE Rehearse
        BY <4>1 DEF Rehearse, DeskTypeOK, GateRecords
      <4>2. CASE Approve
        BY <4>2 DEF Approve, DeskTypeOK, GateRecords
      <4>3. CASE Execute
        BY <4>3 DEF Execute, DeskTypeOK, GateRecords
      <4> QED
        BY <1>5, <4>1, <4>2, <4>3
    <3>2. /\ calls' \subseteq Calls /\ spent' \in [clicks : Nat, moves : Nat, changes : Nat, faults : Nat]
          /\ UNCHANGED <<view, pending, loads, polls, timer, server, seen>>
      BY <1>4, <2>1, AsksType
    <3> QED
      BY <3>1, <3>2 DEF DeskTypeOK, GateRecords
<1>6. ASSUME NEW kind \in Kinds, Submit(kind) \/ DecideRow(kind) PROVE DeskTypeOK'
  <2>1. PICK incident \in AnyIncident : Asks(kind, incident)
    BY <1>6 DEF Submit, DecideRow, DeskTypeOK
  <2> QED
    <3>1. /\ gate' \in GateRecords /\ UNCHANGED exec
          /\ desk' \in [chosen : AnyIncident, form : AnyIncident]
      <4>1. /\ gate' = [gate EXCEPT !.busy = TRUE] /\ UNCHANGED exec
            /\ desk' = desk \/ desk' = [desk EXCEPT !.form = desk.chosen]
        BY <1>6 DEF Submit, DecideRow
      <4>2. gate \in GateRecords /\ desk \in [chosen : AnyIncident, form : AnyIncident]
        BY DEF DeskTypeOK, GateRecords
      <4>3. gate' \in GateRecords
        BY <4>1, <4>2 DEF GateRecords
      <4>4. desk' \in [chosen : AnyIncident, form : AnyIncident]
        BY <4>1, <4>2
      <4> QED
        BY <4>1, <4>3, <4>4
    <3>2. /\ calls' \subseteq Calls /\ spent' \in [clicks : Nat, moves : Nat, changes : Nat, faults : Nat]
          /\ UNCHANGED <<view, pending, loads, polls, timer, server, seen>>
      BY <2>1, AsksType
    <3> QED
      BY <3>1, <3>2 DEF DeskTypeOK, GateRecords
<1> QED
  BY <1>1, <1>2, <1>3, <1>5, <1>6 DEF Operates, Kinds, AnyIncident

LEMMA GatePatchedType ==
    ASSUME DeskTypeOK, NEW i, NEW approved \in BOOLEAN
    PROVE  /\ GatePatched(i, approved) \in GateRecords
           /\ GatePatched(i, approved).rehearsed = gate.rehearsed
BY DEF GatePatched, GateRecords, DeskTypeOK

LEMMA RecordedType ==
    ASSUME DeskTypeOK, NEW k \in calls
    PROVE  /\ Recorded(k) \in Servers
           /\ Recorded(k).rehearsed = server.rehearsed /\ Recorded(k).runs = server.runs
           /\ server.approved \subseteq Recorded(k).approved
           /\ ~Rejects(k) => k.incident \in Recorded(k).approved
BY DEF Recorded, Servers, DeskTypeOK, Calls

LEMMA StartedType ==
    ASSUME DeskTypeOK, NEW k \in calls, NEW done \in BOOLEAN
    PROVE  /\ Started(k, done) \in Servers
           /\ Started(k, done).rehearsed = server.rehearsed /\ Started(k, done).approved = server.approved
           /\ \A n \in DOMAIN Started(k, done).runs :
                  \/ Started(k, done).runs[n] = Run(k, done)
                  \/ n \in DOMAIN server.runs /\ Started(k, done).runs[n] = server.runs[n]
<1>1. server.runs \in Seq(Executions) /\ server \in Servers
  BY DEF DeskTypeOK, Servers
<1>2. Run(k, done) \in Executions
  BY DEF DeskTypeOK, Calls, Run, Executions
<1>3. Started(k, done) = [server EXCEPT !.runs = Append(server.runs, Run(k, done))]
  BY DEF Started
<1>4. /\ Append(server.runs, Run(k, done)) \in Seq(Executions)
      /\ \A n \in DOMAIN Append(server.runs, Run(k, done)) :
             \/ Append(server.runs, Run(k, done))[n] = Run(k, done)
             \/ n \in DOMAIN server.runs /\ Append(server.runs, Run(k, done))[n] = server.runs[n]
  BY <1>1, <1>2, AppendedRun
<1> DEFINE longer == Append(server.runs, Run(k, done))
<1> HIDE DEF longer
<1>5. Started(k, done) = [server EXCEPT !.runs = longer] /\ longer \in Seq(Executions)
  BY <1>3, <1>4 DEF longer
<1>6. Started(k, done) \in Servers /\ Started(k, done).runs = longer
  BY <1>1, <1>5 DEF Servers
<1>7. Started(k, done).rehearsed = server.rehearsed /\ Started(k, done).approved = server.approved
  BY <1>1, <1>5 DEF Servers
<1> QED
  BY <1>4, <1>6, <1>7 DEF longer

LEMMA RunEndsType ==
    ASSUME DeskTypeOK, NEW n \in DOMAIN server.runs, RunEnds(n)
    PROVE  /\ server' \in Servers
           /\ server'.rehearsed = server.rehearsed /\ server'.approved = server.approved
           /\ DOMAIN server'.runs = DOMAIN server.runs
           /\ \A m \in DOMAIN server.runs :
                  /\ server'.runs[m].incident = server.runs[m].incident
                  /\ server'.runs[m].via = server.runs[m].via
                  /\ server'.runs[m].signature = server.runs[m].signature
<1> DEFINE ended == [server.runs[n] EXCEPT !.done = TRUE]
<1> DEFINE changed == [server.runs EXCEPT ![n] = ended]
<1>1. server \in Servers /\ server.runs \in Seq(Executions)
  BY DEF DeskTypeOK, Servers
<1>2. server' = [server EXCEPT !.runs = changed]
  BY DEF RunEnds
<1>3. server.runs[n] \in Executions
  BY <1>1
<1>4. /\ ended \in Executions /\ ended.incident = server.runs[n].incident
      /\ ended.via = server.runs[n].via /\ ended.signature = server.runs[n].signature
  BY <1>3 DEF Executions
<1> HIDE DEF ended
<1>5. changed \in Seq(Executions) /\ DOMAIN changed = DOMAIN server.runs
  BY <1>1, <1>4
<1>6. \A m \in DOMAIN server.runs : changed[m] = IF m = n THEN ended ELSE server.runs[m]
  BY <1>1
<1> HIDE DEF changed
<1>7. /\ server' \in Servers /\ server'.runs = changed
      /\ server'.rehearsed = server.rehearsed /\ server'.approved = server.approved
  BY <1>1, <1>2, <1>5 DEF Servers
<1> QED
  BY <1>4, <1>5, <1>6, <1>7

LEMMA OnwardType ==
    ASSUME DeskTypeOK, NEW k \in calls
    PROVE  /\ Onward(k, {}) \subseteq calls
           /\ Onward(k, {[k EXCEPT !.stage = "run"]}) \subseteq Calls
           /\ \A c \in Onward(k, {[k EXCEPT !.stage = "run"]}) \ calls :
                  /\ c.kind = k.kind /\ c.incident = k.incident
                  /\ c.signature = k.signature /\ c.stage = "run"
BY DEF DeskTypeOK, Onward, Calls

LEMMA AnswersType ==
    ASSUME DeskTypeOK, NEW k \in calls, CallAnswered(k) \/ AnswerLost(k) \/ Failed(k)
    PROVE  DeskTypeOK'
<1> USE DEF Servers, GateRecords
<1>0. /\ k \in Calls /\ k.incident \in AnyIncident /\ k.signature \in Signatures
      /\ \A approved \in BOOLEAN : GatePatched(k.incident, approved) \in GateRecords
      /\ Filled(k) \in [chosen : AnyIncident, form : AnyIncident]
      /\ Asked(loads, k.incident) \subseteq Incidents
      /\ Refreshed(k) \subseteq Incidents
      /\ Onward(k, {}) \subseteq Calls
  <2>1. k \in Calls /\ k.incident \in AnyIncident /\ k.signature \in Signatures
    BY DEF DeskTypeOK, Calls
  <2>2. Asked(loads, k.incident) \in SUBSET Incidents
    BY <2>1, AskedType DEF DeskTypeOK
  <2> QED
    BY <2>1, <2>2, GatePatchedType, OnwardType DEF DeskTypeOK, Filled, Refreshed
<1>1. CASE RehearsalPasses(k)
  BY <1>0, <1>1 DEF RehearsalPasses, Passed, DeskTypeOK
<1>2. CASE Decided(k)
  <2> USE <1>0, <1>2, RecordedType
  <2>1. server' \in Servers
    BY DEF Decided
  <2>2. calls' \subseteq Calls
    BY OnwardType DEF Decided
  <2>3. pending' \subseteq AnyIncident
    BY DEF Decided, Patched, DeskTypeOK
  <2>4. desk' \in [chosen : AnyIncident, form : AnyIncident] /\ loads' \subseteq Incidents
    BY DEF Decided, DeskTypeOK
  <2>5. gate' \in GateRecords
    <3>1. GatePatched(k.incident, TRUE) \in GateRecords /\ GatePatched(k.incident, FALSE) \in GateRecords
      BY GatePatchedType
    <3>2. [gate EXCEPT !.busy = gate.busy /\ k.kind # "cockpit"] \in GateRecords
      BY DEF DeskTypeOK
    <3>3. \A g \in GateRecords :
             /\ [g EXCEPT !.busy = FALSE] \in GateRecords
             /\ [g EXCEPT !.approved = k.signature, !.renewal = FALSE, !.busy = FALSE] \in GateRecords
      OBVIOUS
    <3> HIDE DEF GateRecords
    <3> QED
      BY <3>1, <3>2, <3>3 DEF Decided
  <2>6. exec' \in [loading : BOOLEAN, result : BOOLEAN]
    <3>1. exec \in [loading : BOOLEAN, result : BOOLEAN]
      BY DEF DeskTypeOK
    <3>2. [loading |-> TRUE, result |-> FALSE] \in [loading : BOOLEAN, result : BOOLEAN]
      OBVIOUS
    <3>3. \/ exec' = exec
          \/ exec' = [loading |-> TRUE, result |-> FALSE]
      BY DEF Decided
    <3> QED
      BY <3>1, <3>2, <3>3
  <2> QED
    BY <2>1, <2>2, <2>3, <2>4, <2>5, <2>6 DEF Decided, DeskTypeOK
<1>3. ASSUME NEW done \in BOOLEAN, NEW failed \in BOOLEAN, RunAnswered(k, done, failed)
      PROVE  DeskTypeOK'
  <2> USE <1>0, <1>3
  <2>1. server' \in Servers
    BY StartedType DEF RunAnswered
  <2>2. exec' \in [loading : BOOLEAN, result : BOOLEAN] /\ timer' \in BOOLEAN
    BY DEF RunAnswered, DeskTypeOK
  <2>3. pending' \subseteq AnyIncident
    BY DEF RunAnswered, Patched, DeskTypeOK
  <2>4. desk' \in [chosen : AnyIncident, form : AnyIncident] /\ loads' \subseteq Incidents
    BY DEF RunAnswered, DeskTypeOK
  <2>5. gate' \in GateRecords
    BY DEF RunAnswered
  <2> QED
    <3>1. calls' \subseteq Calls /\ polls' = polls \cup {k.incident} /\ UNCHANGED <<view, seen, spent>>
      BY DEF RunAnswered, Onward, DeskTypeOK
    <3> QED
      BY <2>1, <2>2, <2>3, <2>4, <2>5, <3>1 DEF DeskTypeOK
<1>4. CASE AnswerLost(k)
  <2>1. server' \in Servers
    BY <1>4, RecordedType, StartedType DEF AnswerLost
  <2> QED
    BY <1>4, <2>1, DisturbType DEF AnswerLost, DeskTypeOK
<1>5. CASE Failed(k)
  <2>1. gate' \in GateRecords
    <3>1. \/ gate' = gate
          \/ gate' = [gate EXCEPT !.rehearsed = NoSignature]
          \/ gate' = [gate EXCEPT !.busy = FALSE]
      BY <1>5 DEF Failed
    <3>2. gate \in GateRecords
      BY DEF DeskTypeOK
    <3> QED
      BY <3>1, <3>2, NoSignatureType DEF GateRecords
  <2>2. exec' \in [loading : BOOLEAN, result : BOOLEAN]
    <3>1. exec' = exec \/ exec' = Idle
      BY <1>5 DEF Failed
    <3> QED
      BY <3>1, ClosedType DEF DeskTypeOK
  <2> QED
    BY <1>0, <1>5, <2>1, <2>2, DisturbType DEF Failed, DeskTypeOK
<1> QED
  BY <1>1, <1>2, <1>3, <1>4, <1>5 DEF CallAnswered

LEMMA TypeStep == DeskTypeOK /\ [DeskNext]_vars => DeskTypeOK'
<1> SUFFICES ASSUME DeskTypeOK, [DeskNext]_vars PROVE DeskTypeOK'
  OBVIOUS
<1>1. ASSUME NEW i \in Incidents, ContextAnswer(i) \/ ContextFails(i) PROVE DeskTypeOK'
  BY <1>1, DisturbType DEF ContextAnswer, ContextFails, DeskTypeOK, AnyIncident
<1>2. ASSUME NEW n \in DOMAIN server.runs, RunEnds(n) PROVE DeskTypeOK'
  BY <1>2, RunEndsType DEF RunEnds, DeskTypeOK, Servers
<1>3. ASSUME NEW i \in Incidents, NEW failed \in BOOLEAN, PollAnswered(i, failed) \/ PollGivesUp(i)
      PROVE  DeskTypeOK'
  <2>1. GatePatched(i, FALSE) \in GateRecords /\ i \in AnyIncident
    BY GatePatchedType DEF AnyIncident
  <2>2. timer' \in BOOLEAN
    BY <1>3 DEF PollAnswered, PollGivesUp, DeskTypeOK
  <2> QED
    <3>1. CASE PollAnswered(i, failed)
      BY <2>1, <2>2, <3>1 DEF PollAnswered, Patched, DeskTypeOK, GateRecords
    <3>2. CASE PollGivesUp(i)
      BY <2>2, <3>2 DEF PollGivesUp, DeskTypeOK
    <3> QED
      BY <1>3, <3>1, <3>2
<1>4. CASE DetailsRead \/ DetailsFail
  <2>1. Ended(view.alert) \in BOOLEAN
    BY DEF Ended
  <2> QED
    <3>1. CASE DetailsRead
      <4>1. gate' \in GateRecords
        <5>1. \A g \in GateRecords, b, c \in BOOLEAN : [g EXCEPT !.ended = b, !.accepted = c] \in GateRecords
          BY DEF GateRecords
        <5> DEFINE decided == view.alert \in server.approved
        <5>2. decided \in BOOLEAN
          OBVIOUS
        <5> HIDE DEF decided
        <5>3. gate' = [gate EXCEPT !.ended = Ended(view.alert), !.accepted = decided]
          BY <3>1 DEF DetailsRead, decided
        <5>4. gate \in GateRecords
          BY DEF DeskTypeOK, GateRecords
        <5> QED
          BY <2>1, <5>1, <5>2, <5>3, <5>4
      <4>2. exec' \in [loading : BOOLEAN, result : BOOLEAN] /\ timer' \in BOOLEAN
        BY <2>1, <3>1 DEF DetailsRead, Rearms, Waiting, DeskTypeOK
      <4> QED
        BY <3>1, <4>1, <4>2 DEF DetailsRead, DeskTypeOK, GateRecords
    <3>2. CASE DetailsFail
      BY <3>2, DisturbType DEF DetailsFail, DeskTypeOK
    <3> QED
      BY <1>4, <3>1, <3>2
<1>5. CASE UNCHANGED vars
  BY <1>5 DEF vars, DeskTypeOK
<1> QED
  BY <1>1, <1>2, <1>3, <1>4, <1>5, CommitType, HydrateType, OperatesType, AnswersType
     DEF DeskNext

(***************************************************************************)
(* What is sent has passed its gates                                       *)
(***************************************************************************)
\* A plan is run from the cockpit by a click that saw its dry run, and its decision is
\* recorded before the run is asked for; an alert is open wherever the gate is.
CallsReviewed ==
    \A k \in calls : /\ k.kind = "cockpit" => k.signature \in server.rehearsed
                     /\ k.stage = "run" => k.incident \in server.approved
GateHonest == gate.rehearsed = NoSignature \/ gate.rehearsed \in server.rehearsed
AlertOpen == view.tab = "execution" => view.alert # None

DeskInv == DeskTypeOK /\ CallsReviewed /\ GateHonest /\ AlertOpen /\ RehearsedFirst /\ DecidedFirst

LEMMA RunsReviewed ==
    (RehearsedFirst /\ DecidedFirst) <=>
        \A n \in DOMAIN server.runs :
            /\ server.runs[n].via = "cockpit" => server.runs[n].signature \in server.rehearsed
            /\ server.runs[n].incident \in server.approved
BY DEF RehearsedFirst, DecidedFirst, Runs

LEMMA ReviewedInit == DeskInit => DeskInv
<1> SUFFICES ASSUME DeskInit PROVE DeskInv
  OBVIOUS
<1>1. DeskTypeOK
  BY TypeInit
<1>2. CallsReviewed /\ GateHonest /\ AlertOpen
  BY DEF DeskInit, CallsReviewed, GateHonest, AlertOpen, Closed
<1>3. RehearsedFirst /\ DecidedFirst
  BY DEF DeskInit, RehearsedFirst, DecidedFirst, Runs
<1> QED
  BY <1>1, <1>2, <1>3 DEF DeskInv

\* Steps that send nothing, record nothing and pass nothing.
LEMMA QuietStep ==
    ASSUME DeskInv, DeskTypeOK', calls' \subseteq calls, UNCHANGED <<server, view>>,
           gate'.rehearsed \in {gate.rehearsed, NoSignature}
    PROVE  DeskInv'
BY DEF DeskInv, CallsReviewed, GateHonest, AlertOpen, RehearsedFirst, DecidedFirst, Runs

LEMMA OperatesReviewed == DeskInv /\ Operates => DeskInv'
<1> SUFFICES ASSUME DeskInv, Operates PROVE DeskInv'
  OBVIOUS
<1>1. DeskTypeOK /\ DeskTypeOK' /\ gate \in GateRecords
  BY OperatesType DEF DeskInv, DeskTypeOK, GateRecords
<1>2. ASSUME NEW tab \in {"execution", "approval", "queue"}, NEW i \in AnyIncident, Go(tab, i)
      PROVE  DeskInv'
  BY <1>1, <1>2
  DEF Go, DeskInv, CallsReviewed, GateHonest, AlertOpen, RehearsedFirst, DecidedFirst, Runs
<1>3. ASSUME NEW i \in Incidents, Choose(i) PROVE DeskInv'
  BY <1>1, <1>3, QuietStep DEF Choose, GateRecords
<1>4. CASE EditByHand \/ EditToSuggested \/ EditForLive \/ ToggleReject
  <2>1. gate'.rehearsed \in {gate.rehearsed, NoSignature}
    BY <1>1, <1>4 DEF EditByHand, EditToSuggested, EditForLive, ToggleReject, GateRecords
  <2> QED
    BY <1>1, <1>4, <2>1, QuietStep
    DEF EditByHand, EditToSuggested, EditForLive, ToggleReject, UnchangedByEdit
<1>5. ASSUME NEW kind \in Kinds, NEW incident \in AnyIncident, Asks(kind, incident),
             kind = "cockpit" => Signature \in server.rehearsed,
             gate'.rehearsed = gate.rehearsed
      PROVE  DeskInv'
  <2>1. /\ \A k \in calls' \ calls : /\ k.kind = kind
                                     /\ k.kind \in CockpitKinds => k.signature = Signature
                                     /\ k.stage # "run"
        /\ UNCHANGED <<view, server>>
    BY <1>1, <1>5, AsksType
  <2>2. CallsReviewed'
    BY <1>5, <2>1 DEF DeskInv, CallsReviewed, CockpitKinds
  <2> QED
    BY <1>1, <1>5, <2>1, <2>2 DEF DeskInv, GateHonest, AlertOpen, RehearsedFirst, DecidedFirst, Runs
<1>6. FormIncident \in AnyIncident
  BY <1>1 DEF FormIncident, DeskTypeOK
<1>7. CASE Rehearse
  BY <1>5, <1>6, <1>7 DEF Rehearse, Kinds, CockpitKinds
<1>8. CASE Approve
  BY <1>1, <1>5, <1>6, <1>8 DEF Approve, Kinds, CockpitKinds, GateRecords
<1>9. CASE Execute
  <2>1. Signature # NoSignature
    BY <1>9 DEF Execute, DeskInv, AlertOpen, Signature, NoSignature
  <2>2. Signature \in server.rehearsed
    BY <1>9, <2>1 DEF Execute, ExecutionAllowed, Rehearsed, DeskInv, GateHonest
  <2> QED
    BY <1>5, <1>6, <1>9, <2>2 DEF Execute, Kinds, CockpitKinds
<1>10. ASSUME NEW kind \in {"desk", "deskReject", "row", "rowReject"}, Submit(kind) \/ DecideRow(kind)
       PROVE  DeskInv'
  <2>1. PICK incident \in AnyIncident : Asks(kind, incident)
    BY <1>1, <1>10 DEF Submit, DecideRow, DeskTypeOK
  <2>2. gate'.rehearsed = gate.rehearsed
    BY <1>1, <1>10 DEF Submit, DecideRow, GateRecords
  <2> QED
    BY <1>5, <2>1, <2>2 DEF Kinds
<1> QED
  BY <1>2, <1>3, <1>4, <1>7, <1>8, <1>9, <1>10 DEF Operates, AnyIncident

LEMMA AnswersReviewed ==
    ASSUME DeskInv, NEW k \in calls, CallAnswered(k) \/ AnswerLost(k) \/ Failed(k)
    PROVE  DeskInv'
<1>1. DeskTypeOK /\ DeskTypeOK' /\ gate \in GateRecords /\ server \in Servers /\ k \in Calls
  BY AnswersType DEF DeskInv, DeskTypeOK, GateRecords, Servers
<1>2. /\ k.kind = "cockpit" => k.signature \in server.rehearsed
      /\ k.stage = "run" => k.incident \in server.approved
  BY DEF DeskInv, CallsReviewed
<1>3. CASE RehearsalPasses(k)
  <2>1. /\ server'.rehearsed = server.rehearsed \cup {k.signature}
        /\ server'.approved = server.approved /\ server'.runs = server.runs
        /\ gate'.rehearsed = k.signature /\ calls' \subseteq calls /\ view' = view
    BY <1>1, <1>3, OnwardType DEF RehearsalPasses, Passed, GateRecords, Servers
  <2> QED
    BY <1>1, <2>1 DEF DeskInv, CallsReviewed, GateHonest, AlertOpen, RehearsedFirst, DecidedFirst, Runs
<1>4. ASSUME k.stage = "decide", server' = Recorded(k), gate'.rehearsed = gate.rehearsed, view' = view,
             \/ calls' \subseteq calls
             \/ k.kind \in {"cockpit", "desk", "row"} /\ calls' = Onward(k, {[k EXCEPT !.stage = "run"]})
      PROVE  DeskInv'
  <2>1. /\ server'.rehearsed = server.rehearsed /\ server'.runs = server.runs
        /\ server.approved \subseteq server'.approved
        /\ ~Rejects(k) => k.incident \in server'.approved
    BY <1>1, <1>4, RecordedType
  <2>2. CallsReviewed'
    <3>1. CASE calls' \subseteq calls
      BY <2>1, <3>1 DEF DeskInv, CallsReviewed
    <3>2. CASE k.kind \in {"cockpit", "desk", "row"} /\ calls' = Onward(k, {[k EXCEPT !.stage = "run"]})
      <4>1. \A c \in calls' \ calls : c.kind = k.kind /\ c.incident = k.incident /\ c.signature = k.signature
        BY <1>1, <3>2, OnwardType
      <4>2. k.incident \in server'.approved
        BY <2>1, <3>2 DEF Rejects
      <4> QED
        BY <1>2, <2>1, <4>1, <4>2 DEF DeskInv, CallsReviewed
    <3> QED
      BY <1>4, <3>1, <3>2
  <2> QED
    BY <1>1, <1>4, <2>1, <2>2 DEF DeskInv, GateHonest, AlertOpen, RehearsedFirst, DecidedFirst, Runs
<1>5. ASSUME NEW done \in BOOLEAN, k.stage = "run", server' = Started(k, done),
             gate'.rehearsed = gate.rehearsed, view' = view, calls' \subseteq calls
      PROVE  DeskInv'
  <2>1. /\ server'.rehearsed = server.rehearsed /\ server'.approved = server.approved
        /\ \A n \in DOMAIN server'.runs : \/ server'.runs[n] = Run(k, done)
                                          \/ n \in DOMAIN server.runs /\ server'.runs[n] = server.runs[n]
    BY <1>1, <1>5, StartedType
  <2>2. \A n \in DOMAIN server'.runs :
            /\ server'.runs[n].via = "cockpit" => server'.runs[n].signature \in server'.rehearsed
            /\ server'.runs[n].incident \in server'.approved
    <3> TAKE n \in DOMAIN server'.runs
    <3>1. CASE server'.runs[n] = Run(k, done)
      BY <1>2, <1>5, <2>1, <3>1 DEF Run
    <3>2. CASE n \in DOMAIN server.runs /\ server'.runs[n] = server.runs[n]
      BY <2>1, <3>2, RunsReviewed DEF DeskInv
    <3> QED
      BY <2>1, <3>1, <3>2
  <2>3. RehearsedFirst' /\ DecidedFirst'
    BY <2>2 DEF RehearsedFirst, DecidedFirst, Runs
  <2> QED
    BY <1>1, <1>5, <2>1, <2>3 DEF DeskInv, CallsReviewed, GateHonest, AlertOpen
<1>6. CASE Decided(k)
  <2>1. gate'.rehearsed = gate.rehearsed
    <3>1. \A b \in BOOLEAN : /\ GatePatched(k.incident, b) \in GateRecords
                             /\ GatePatched(k.incident, b).rehearsed = gate.rehearsed
      BY <1>1, GatePatchedType
    <3> QED
      BY <1>1, <1>6, <3>1 DEF Decided, GateRecords
  <2>2. Onward(k, {}) \subseteq calls
    BY <1>1, OnwardType
  <2> QED
    BY <1>4, <1>6, <2>1, <2>2 DEF Decided
<1>7. ASSUME NEW done \in BOOLEAN, NEW failed \in BOOLEAN, RunAnswered(k, done, failed)
      PROVE  DeskInv'
  <2>1. gate'.rehearsed = gate.rehearsed
    BY <1>1, <1>7, GatePatchedType DEF RunAnswered, GateRecords
  <2> QED
    BY <1>1, <1>5, <1>7, <2>1, OnwardType DEF RunAnswered
<1>8. CASE AnswerLost(k)
  BY <1>4, <1>5, <1>8 DEF AnswerLost
<1>9. CASE Failed(k)
  <2>1. gate'.rehearsed \in {gate.rehearsed, NoSignature}
    BY <1>1, <1>9 DEF Failed, GateRecords
  <2> QED
    BY <1>1, <1>9, <2>1, OnwardType, QuietStep DEF Failed
<1> QED
  BY <1>3, <1>6, <1>7, <1>8, <1>9 DEF CallAnswered

LEMMA ReviewedStep == DeskInv /\ [DeskNext]_vars => DeskInv'
<1> SUFFICES ASSUME DeskInv, [DeskNext]_vars PROVE DeskInv'
  OBVIOUS
<1>1. DeskTypeOK /\ DeskTypeOK' /\ gate \in GateRecords /\ server \in Servers
  BY TypeStep DEF DeskInv, DeskTypeOK, GateRecords, Servers
<1>2. CASE Commit \/ Hydrate
  BY <1>1, <1>2, QuietStep DEF Commit, Hydrate, Closed, GateRecords
<1>3. ASSUME NEW i \in Incidents, ContextAnswer(i) \/ ContextFails(i) PROVE DeskInv'
  BY <1>1, <1>3, QuietStep DEF ContextAnswer, ContextFails
<1>4. ASSUME NEW n \in DOMAIN server.runs, RunEnds(n) PROVE DeskInv'
  <2>1. \A m \in DOMAIN server'.runs :
            /\ server'.runs[m].via = "cockpit" => server'.runs[m].signature \in server'.rehearsed
            /\ server'.runs[m].incident \in server'.approved
    BY <1>1, <1>4, RunEndsType, RunsReviewed DEF DeskInv
  <2>2. server'.rehearsed = server.rehearsed /\ server'.approved = server.approved
    BY <1>1, <1>4, RunEndsType
  <2>3. RehearsedFirst' /\ DecidedFirst'
    BY <2>1 DEF RehearsedFirst, DecidedFirst, Runs
  <2> QED
    BY <1>1, <1>4, <2>2, <2>3 DEF RunEnds, DeskInv, CallsReviewed, GateHonest, AlertOpen
<1>5. ASSUME NEW i \in Incidents, NEW failed \in BOOLEAN, PollAnswered(i, failed) \/ PollGivesUp(i)
      PROVE  DeskInv'
  <2>1. gate'.rehearsed = gate.rehearsed
    BY <1>1, <1>5, GatePatchedType DEF PollAnswered, PollGivesUp
  <2> QED
    BY <1>1, <1>5, <2>1, QuietStep DEF PollAnswered, PollGivesUp
<1>6. CASE DetailsRead \/ DetailsFail
  BY <1>1, <1>6, QuietStep DEF DetailsRead, DetailsFail, GateRecords
<1>7. CASE UNCHANGED vars
  BY <1>1, <1>7, QuietStep DEF vars
<1> QED
  BY <1>2, <1>3, <1>4, <1>5, <1>6, <1>7, OperatesReviewed, AnswersReviewed DEF DeskNext

\* The variables of the desk keep their types.
THEOREM DeskTypes == DeskSpec => []DeskTypeOK
<1> QED
  BY TypeInit, TypeStep, PTL DEF DeskSpec

\* No plan is run from the cockpit whose signature has not passed a dry run, and nothing
\* is run on an incident before a decision to run was recorded for it: handlers that
\* outlive their render, edits, moves, lost answers and answers sent twice included.
THEOREM ReviewedBeforeRun == DeskSpec => []ReviewedFirst
<1>1. DeskInv => ReviewedFirst
  BY DEF DeskInv, ReviewedFirst
<1> QED
  BY <1>1, ReviewedInit, ReviewedStep, PTL DEF DeskSpec
=============================================================================
