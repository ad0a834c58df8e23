------------------------- MODULE ConsolePagesProofs -------------------------
(***************************************************************************)
(* Proofs about the pages of the console: the onboarding pipeline, the     *)
(* application portfolio and the incident inbox, for any applications,     *)
(* incidents, filters and bounds.                                          *)
(*                                                                         *)
(* Onboarding: PipelineInv relates the answers that are out to the pipeline. *)
(* Portfolio: PortfolioInv says that what is out, typed or checked is of what *)
(* was chosen, and what was removed comes back with no answer.             *)
(* Inbox: AnswersInv says that a request or lookup that is out remembers what *)
(* it was asked with, or is to be followed by another; CardInv lists the rows *)
(* the events leave, and a row determines the last stage of its lifecycle. *)
(***************************************************************************)
EXTENDS OnboardingPipeline, ApplicationPortfolio, IncidentInbox,
        FiniteSetTheorems, SequenceTheorems, WellFoundedInduction, TLAPS

(***************************************************************************)
(* The onboarding pipeline.  Neither answer is ahead of the pipeline, and  *)
(* a status that says so is of a pipeline that has failed.                 *)
(***************************************************************************)
PipelineInv ==
    /\ done \in 1 .. Steps
    /\ failed \in BOOLEAN
    /\ failed => done < Steps
    /\ status \in 1 .. done \/ (status = Failing /\ failed)
    /\ events \in 0 .. done

\* The last step shown complete: that of the status or that of the history.
LastComplete == IF events > currentIndex THEN events ELSE currentIndex

LEMMA PipelineInit == OnboardingPipelineInit => PipelineInv
<1> SUFFICES ASSUME OnboardingPipelineInit PROVE PipelineInv
  OBVIOUS
<1>1. failed = FALSE
  BY DEF OnboardingPipelineInit
<1>2. done = 1 /\ status = 1 /\ events = 0
  BY DEF OnboardingPipelineInit
<1>3. done \in 1 .. Steps /\ status \in 1 .. done /\ events \in 0 .. done
  BY <1>2, StepsAssumption
<1> QED
  BY <1>1, <1>3, Zenon DEF PipelineInv

LEMMA PipelineStep == PipelineInv /\ [OnboardingPipelineNext]_onboardingVars => PipelineInv'
<1> SUFFICES ASSUME PipelineInv, [OnboardingPipelineNext]_onboardingVars PROVE PipelineInv'
  OBVIOUS
<1> USE StepsAssumption DEF PipelineInv, Failing
<1>1. CASE StepEnds
  <2>1. CASE done' = done + 1 /\ UNCHANGED failed
    <3>1. /\ done' \in 1 .. Steps /\ events' \in 0 .. done'
          /\ status' \in 1 .. done'
      BY <1>1, <2>1 DEF StepEnds
    <3>2. ~ failed' /\ failed' \in BOOLEAN
      BY <1>1, <2>1, Zenon DEF StepEnds
    <3> QED
      BY <3>1, <3>2, Zenon
  <2>2. CASE failed' = TRUE /\ UNCHANGED done
    <3>1. /\ done' \in 1 .. Steps /\ events' \in 0 .. done' /\ done' < Steps
          /\ status' \in 1 .. done'
      BY <1>1, <2>2 DEF StepEnds
    <3> QED
      BY <2>2, <3>1, Zenon
  <2> QED
    BY <1>1, <2>1, <2>2 DEF StepEnds
<1>2. CASE ListAnswers
  BY <1>2 DEF ListAnswers
<1>3. CASE HistoryAnswers
  BY <1>3 DEF HistoryAnswers
<1>4. CASE UNCHANGED onboardingVars
  BY <1>4 DEF onboardingVars
<1> QED
  BY <1>1, <1>2, <1>3, <1>4 DEF OnboardingPipelineNext

LEMMA CompleteUpToLast ==
    ASSUME PipelineInv
    PROVE  /\ LastComplete \in 0 .. done
           /\ status = Failing => LastComplete = events
           /\ \A k \in 1 .. Steps : Complete(k) <=> k <= LastComplete
BY StepsAssumption DEF PipelineInv, LastComplete, Complete, currentIndex, Failing

\* The least step that is not complete is the one after the last that is.
LEMMA FirstAfterLast ==
    ASSUME PipelineInv
    PROVE  firstIncomplete = IF LastComplete < Steps THEN LastComplete + 1 ELSE 0
<1> DEFINE later == {k \in 1 .. Steps : k > events /\ k > currentIndex}
           m == LastComplete
<1>1. m \in 0 .. Steps
  BY CompleteUpToLast, StepsAssumption DEF PipelineInv
<1>2. later = {k \in 1 .. Steps : k > m}
  BY StepsAssumption DEF PipelineInv, LastComplete, currentIndex, Failing
<1> HIDE DEF later, m
<1>3. CASE m < Steps
  <2>1. m + 1 \in later /\ \A k \in later : m + 1 <= k
    BY <1>1, <1>2, <1>3, StepsAssumption
  <2>2. Min(later) \in later /\ \A k \in later : Min(later) <= k
    BY <2>1 DEF Min
  <2>3. Min(later) = m + 1
    BY <1>1, <1>2, <2>1, <2>2
  <2> QED
    BY <1>3, <2>1, <2>3 DEF firstIncomplete, later, m
<1>4. CASE ~ (m < Steps)
  <2>1. later = {}
    BY <1>1, <1>2, <1>4, StepsAssumption
  <2> QED
    BY <1>4, <2>1 DEF firstIncomplete, later, m
<1> QED
  BY <1>3, <1>4

\* For any number of steps, and whichever of status and history is the older
\* answer: the complete steps come first, what is shown in progress or failed is
\* the step after them, nothing is complete that is still to be done, and a
\* failure is shown at its step.
THEOREM StagesStandInOrder == OnboardingPipelineSpec => []StagesInOrder
<1>1. PipelineInv => StagesInOrder
  <2> SUFFICES ASSUME PipelineInv PROVE StagesInOrder
    OBVIOUS
  <2> DEFINE m == LastComplete
  <2>1. m \in 0 .. done /\ done \in 1 .. Steps
    BY CompleteUpToLast DEF PipelineInv
  <2>2. \A k \in 1 .. Steps : Shown(k) = "complete" <=> k <= m
    BY CompleteUpToLast DEF Shown
  <2>3. \A k \in 1 .. Steps : Shown(k) \in {"in progress", "failed"} <=> k = m + 1
    <3> SUFFICES ASSUME NEW k \in 1 .. Steps
                 PROVE  Shown(k) \in {"in progress", "failed"} <=> k = m + 1
      OBVIOUS
    <3>1. status = Failing /\ ~ Complete(1) => m = 0
      BY CompleteUpToLast, StepsAssumption DEF PipelineInv
    <3>2. k = firstIncomplete <=> k = m + 1
      BY <2>1, FirstAfterLast, StepsAssumption
    <3>3. Complete(k) => k # m + 1
      BY <2>1, CompleteUpToLast
    <3> HIDE DEF m
    <3> QED
      BY <3>1, <3>2, <3>3 DEF Shown
  <2>4. \A k \in 1 .. Steps :
            k = m + 1 <=> \A j \in 1 .. Steps : j < k <=> Shown(j) = "complete"
    <3> HIDE DEF m
    <3> TAKE k \in 1 .. Steps
    <3>1. (\A j \in 1 .. Steps : j < k <=> j <= m) => k = m + 1
      <4> SUFFICES ASSUME \A j \in 1 .. Steps : j < k <=> j <= m, k # m + 1 PROVE FALSE
        OBVIOUS
      <4>1. k > m
        BY <2>1, StepsAssumption
      <4>2. m + 1 \in 1 .. Steps /\ m + 1 < k
        BY <2>1, <4>1, StepsAssumption
      <4> QED
        BY <2>1, <4>2
    <3>2. k = m + 1 => \A j \in 1 .. Steps : j < k <=> j <= m
      BY <2>1
    <3> QED
      BY <2>2, <3>1, <3>2
  <2>5. status = Failing /\ events = done => Shown(done + 1) = "failed"
    <3> SUFFICES ASSUME status = Failing, events = done PROVE Shown(done + 1) = "failed"
      OBVIOUS
    <3>1. done + 1 \in 1 .. Steps /\ m = done
      BY CompleteUpToLast, StepsAssumption DEF PipelineInv, Failing
    <3>2. ~ Complete(done + 1) /\ done + 1 = firstIncomplete
      BY <2>1, <3>1, CompleteUpToLast, FirstAfterLast, StepsAssumption
    <3> HIDE DEF m
    <3> QED
      BY <3>2, Zenon DEF Shown
  <2>6. \A k \in 1 .. Steps : Shown(k) = "complete" => k <= done
    BY <2>1, <2>2
  <2>7. \A k \in 1 .. Steps :
            Shown(k) \in {"in progress", "failed"}
                <=> \A j \in 1 .. Steps : j < k <=> Shown(j) = "complete"
    BY <2>3, <2>4, Zenon
  <2> QED
    BY <2>5, <2>6, <2>7, Zenon DEF StagesInOrder
<1> QED
  BY <1>1, PipelineInit, PipelineStep, PTL DEF OnboardingPipelineSpec

LEMMA LeastIsOfSet ==
    ASSUME NEW S, S \subseteq Nat, S # {}
    PROVE  Min(S) \in S
<1> DEFINE R == {ss \in Nat \X Nat : ss[1] < ss[2]}
<1>0. IsWellFoundedOn(R, Nat)
  BY NatLessThanWellFounded DEF OpToRel
<1> HIDE DEF R
<1>1. PICK x \in S : \A y \in S : ~ (<<y, x>> \in R)
  BY <1>0, WFMin
<1>2. \A y \in S : x <= y
  <2> TAKE y \in S
  <2>1. x \in Nat /\ y \in Nat
    OBVIOUS
  <2>2. <<y, x>> \in Nat \X Nat /\ <<y, x>>[1] = y /\ <<y, x>>[2] = x
    BY <2>1
  <2>3. ~ (y < x)
    BY <1>1, <2>2 DEF R
  <2> QED
    BY <2>1, <2>3
<1> QED
  BY <1>2 DEF Min

(***************************************************************************)
(* The portfolio.  The form is that of the row selected; a mutation that   *)
(* is out remembers what it is for; what is checked was chosen; and no     *)
(* registration that was removed is in the registry, or comes back with    *)
(* an answer.                                                              *)
(***************************************************************************)
IsForm(f) == \E of, name, typed : f = [of |-> of, name |-> name, typed |-> typed]

IsSave(m) ==
    \E id, input, stage, waits :
        m = [id |-> id, input |-> input, stage |-> stage, waits |-> waits]

EditInv ==
    /\ IsForm(form)
    /\ selectedId # None => form.of = selectedId /\ form.name \in Names
    /\ saving # None => IsSave(saving) /\ saving.input.of = saving.id /\ saving.input.name \in Names

Registrations(l) == DOMAIN l \subseteq Apps /\ \A a \in DOMAIN l : l[a].name \in Names

ListCalls ==
    {NoListCall, Asked, [Asked EXCEPT !.state = "error"]}

CallsInv ==
    /\ Registrations(registry)
    /\ Registrations(list)
    /\ observed \subseteq Names
    /\ \/ listCall \in ListCalls
       \/ \E l : listCall = [state |-> "answered", answer |-> l] /\ Registrations(l)
    /\ \/ observedCall \in {NoListCall, Asked}
       \/ \E o : observedCall = [state |-> "answered", answer |-> o] /\ o \subseteq Names

BulkInv ==
    bulk # None => bulk \in BulkRemovals /\ (bulk.todo # {} => bulk.stage = "sent")

ChoiceInv ==
    /\ checkedIds \subseteq (ticked \ Managed) \union namesakes
    /\ bulk # None => \A t \in bulk.todo : t.row \in Managed => t.row \in namesakes

\* A registration that was removed may still be in an answer or in the list
\* while the bulk removal it is part of goes on.
Accounted(a) == bulk # None /\ bulk.stage = "sent" /\ a \in bulk.ok

RemovalInv ==
    /\ removed \intersect DOMAIN registry = {}
    /\ listCall.state = "answered" =>
           \A a \in removed : a \in DOMAIN listCall.answer => Accounted(a)
    /\ listCall = NoListCall /\ ~ failedList =>
           \A a \in removed : a \in DOMAIN list => Accounted(a)

PortfolioInv == EditInv /\ CallsInv /\ BulkInv /\ ChoiceInv /\ RemovalInv

LEMMA PortfolioInitInv == PortfolioInit => PortfolioInv
<1> SUFFICES ASSUME PortfolioInit PROVE PortfolioInv
  OBVIOUS
<1>1. EditInv
  BY DEF PortfolioInit, EditInv, IsForm, NoForm
<1>2. DOMAIN list = {}
  BY DEF PortfolioInit
<1>3. CallsInv
  <2>1. Registrations(registry) /\ Registrations(list)
    BY <1>2 DEF PortfolioInit, Registrations
  <2>2. observed \subseteq Names
    BY DEF PortfolioInit, Unique
  <2> QED
    BY <2>1, <2>2 DEF PortfolioInit, CallsInv, ListCalls
<1>4. BulkInv /\ ChoiceInv
  BY DEF PortfolioInit, BulkInv, ChoiceInv
<1>5. RemovalInv
  BY DEF PortfolioInit, RemovalInv, Asked, NoListCall
<1> QED
  BY <1>1, <1>3, <1>4, <1>5 DEF PortfolioInv

(***************************************************************************)
(* Editing.                                                                *)
(***************************************************************************)
LEMMA SettlesFillsForm ==
    ASSUME EditInv, NEW id, NEW l, Registrations(l), Settles(id, l)
    PROVE  IsForm(form)' /\ (selectedId' # None => form'.of = selectedId' /\ form'.name \in Names)
<1> DEFINE settled == IF id \in DOMAIN l THEN id ELSE FirstRegistered(l)
<1>1. settled = None \/ settled \in DOMAIN l
  BY LeastIsOfSet, PortfolioAssumption DEF FirstRegistered, Registrations
<1>2. selectedId' = settled /\ form' = Filled(settled, l, settled # id)
  BY DEF Settles
<1> HIDE DEF settled
<1>3. CASE form' = form /\ (settled = None \/ settled = selectedId)
  BY <1>2, <1>3 DEF EditInv
<1>4. CASE settled # None /\ form' = [of |-> settled, name |-> l[settled].name, typed |-> FALSE]
  <2>1. l[settled].name \in Names
    BY <1>1, <1>4 DEF Registrations
  <2>2. IsForm(form)'
    BY <1>4 DEF IsForm
  <2> QED
    BY <1>2, <1>4, <2>1, <2>2
<1>5. \/ form' = form /\ (settled = None \/ settled = selectedId)
      \/ settled # None /\ form' = [of |-> settled, name |-> l[settled].name, typed |-> FALSE]
  BY <1>2, Zenon DEF Filled
<1> QED
  BY <1>3, <1>4, <1>5

LEMMA ReleasedIsSave ==
    ASSUME EditInv, saving' = Released(saving)
    PROVE  saving' # None =>
               IsSave(saving') /\ saving'.input.of = saving'.id /\ saving'.input.name \in Names
BY DEF EditInv, Released, IsSave

LEMMA EditStep == CallsInv /\ EditInv /\ [PortfolioNext]_portfolioVars => EditInv'
<1> SUFFICES ASSUME CallsInv, EditInv, [PortfolioNext]_portfolioVars PROVE EditInv'
  OBVIOUS
<1>1. CASE UNCHANGED <<form, selectedId>>
  <2>1. CASE saving' \in {saving, Released(saving), None}
    BY <1>1, <2>1, ReleasedIsSave DEF EditInv, IsForm
  <2>2. CASE submitEdit
    BY <1>1, <2>2 DEF submitEdit, EditInv, IsSave, IsForm
  <2>3. CASE SaveServed
    BY <1>1, <2>3 DEF SaveServed, EditInv, IsSave, IsForm
  <2> QED
    BY <1>1, <2>1, <2>2, <2>3
       DEF PortfolioNext, ListServed, ListReceived, InventoryServed, InventoryReceived,
           ElsewhereChanges, refresh, inspect, ToggleEdit, Type, SaveDone, remove, DeleteServed,
           DeleteDone, toggleRow, toggleAll, bulkRemove, BulkServed, BulkRemoved, BulkDone,
           mutationVars, portfolioVars
<1>2. CASE \E id, l : /\ Registrations(l) /\ Settles(id, l)
                    /\ saving' \in {saving, Released(saving)}
  BY <1>2, SettlesFillsForm, ReleasedIsSave DEF EditInv
<1>3. CASE Type
  BY <1>3 DEF Type, EditInv, IsForm, mutationVars
<1>4. CASE ListReceived
  <2>1. CASE listCall.state = "error"
    BY <1>1, <1>4, <2>1 DEF ListReceived
  <2>2. CASE listCall.state # "error"
    <3>1. Registrations(listCall.answer)
      BY <1>4, <2>2 DEF ListReceived, CallsInv, ListCalls, Asked
    <3> QED
      BY <1>2, <1>4, <2>2, <3>1 DEF ListReceived
  <2> QED
    BY <2>1, <2>2
<1>5. CASE BulkRemoved \/ \E a \in Apps : inspect(a)
  BY <1>2, <1>5 DEF CallsInv, BulkRemoved, inspect, mutationVars
<1>6. CASE DeleteServed
  <2>1. CASE Settles(None, list) /\ saving' = Released(saving)
    BY <1>2, <2>1 DEF CallsInv
  <2>2. CASE UNCHANGED <<form, selectedId>>
    BY <1>1, <2>2
  <2> QED
    BY <1>6, <2>1, <2>2 DEF DeleteServed
<1> QED
  BY <1>1, <1>3, <1>4, <1>5, <1>6
     DEF PortfolioNext, ListServed, InventoryServed, InventoryReceived, ElsewhereChanges, refresh,
         ToggleEdit, submitEdit, SaveServed, SaveDone, remove, DeleteDone, toggleRow, toggleAll,
         bulkRemove, BulkServed, BulkDone, viewVars, mutationVars, portfolioVars

(***************************************************************************)
(* The requests and the bulk removal.                                      *)
(***************************************************************************)
LEMMA GoneKeeps ==
    ASSUME NEW a, Gone(a), Registrations(registry)
    PROVE  Registrations(registry')
BY DEF Gone, Restrict, Registrations

LEMMA UpdatedKeeps ==
    ASSUME NEW a, NEW n \in Names, Updated(a, n), Registrations(registry)
    PROVE  Registrations(registry')
BY DEF Updated, Registrations

LEMMA CallsStep == CallsInv /\ EditInv /\ [PortfolioNext]_portfolioVars => CallsInv'
<1> SUFFICES ASSUME CallsInv, EditInv, [PortfolioNext]_portfolioVars PROVE CallsInv'
  OBVIOUS
<1>1. CASE ListServed
  BY <1>1 DEF ListServed, CallsInv, ListCalls, registryVars, viewVars
<1>2. CASE ListReceived
  <2>1. CASE listCall.state = "error"
    BY <1>2, <2>1 DEF ListReceived, CallsInv, ListCalls, registryVars
  <2>2. CASE listCall.state # "error"
    <3>1. Registrations(listCall.answer)
      BY <1>2, <2>2 DEF ListReceived, CallsInv, ListCalls, Asked
    <3>2. list' = listCall.answer
      BY <1>2, <2>2, Zenon DEF ListReceived, Settles
    <3> QED
      BY <1>2, <3>1, <3>2 DEF ListReceived, CallsInv, ListCalls, registryVars
  <2> QED
    BY <2>1, <2>2
<1>3. CASE InventoryServed
  <2> DEFINE all == (Names \ suppressed) \union Managed \union {registry[a].name : a \in DOMAIN registry}
  <2>1. all \subseteq Names
    BY DEF CallsInv, Registrations, Managed
  <2>2. PICK names \in Unique(all) : observedCall' = [state |-> "answered", answer |-> names]
    BY <1>3 DEF InventoryServed
  <2>3. names \subseteq Names
    BY <2>1, <2>2 DEF Unique
  <2> QED
    BY <1>3, <2>2, <2>3 DEF InventoryServed, CallsInv, registryVars, viewVars
<1>4. CASE InventoryReceived
  BY <1>4 DEF InventoryReceived, CallsInv, registryVars
<1>5. CASE ElsewhereChanges
  <2>1. Registrations(registry')
    <3>1. CASE \E a \in Apps, n \in Names : Updated(a, n) \/ Gone(a)
      BY <3>1, GoneKeeps, UpdatedKeeps DEF CallsInv
    <3>2. CASE \E a \in Apps, n \in Names :
                   registry' = [b \in DOMAIN registry \union {a} |->
                                   IF b = a THEN [name |-> n, version |-> 0] ELSE registry[b]]
      BY <3>2 DEF CallsInv, Registrations
    <3>3. CASE \E a \in Apps : Gone(a)
      BY <3>3, GoneKeeps DEF CallsInv
    <3> QED
      BY <1>5, <3>1, <3>2, <3>3 DEF ElsewhereChanges
  <2> QED
    BY <1>5, <2>1 DEF ElsewhereChanges, CallsInv, callVars, viewVars
<1>6. CASE refresh
  BY <1>6 DEF refresh, Refetch, RefreshProjects, OperatorKeeps, CallsInv, ListCalls, registryVars
<1>7. ASSUME NEW a \in Apps, inspect(a)
      PROVE  CallsInv'
  BY <1>7 DEF inspect, Settles, OperatorKeeps, CallsInv, registryVars
<1>8. ASSUME \/ ToggleEdit \/ Type \/ submitEdit \/ remove \/ toggleAll \/ bulkRemove
             \/ \E r \in Apps \union Names : toggleRow(r)
      PROVE  CallsInv'
  BY <1>8 DEF ToggleEdit, Type, submitEdit, remove, toggleAll, bulkRemove, toggleRow,
              OperatorKeeps, CallsInv, registryVars
<1>9. CASE SaveServed
  <2>1. Registrations(registry')
    BY <1>9, UpdatedKeeps DEF SaveServed, CallsInv, EditInv
  <2> QED
    BY <1>9, <2>1 DEF SaveServed, Refetch, CallsInv, ListCalls, viewVars
<1>10. CASE DeleteServed
  <2>1. Registrations(registry')
    BY <1>10, GoneKeeps DEF DeleteServed, CallsInv
  <2> QED
    BY <1>10, <2>1 DEF DeleteServed, Settles, Refetch, CallsInv, ListCalls
<1>11. CASE SaveDone \/ DeleteDone \/ BulkDone
  BY <1>11 DEF SaveDone, DeleteDone, BulkDone, RefreshProjects, CallsInv, registryVars, viewVars,
               callVars
<1>12. CASE BulkServed
  <2>1. Registrations(registry')
    BY <1>12, GoneKeeps DEF BulkServed, CallsInv, registryVars
  <2> QED
    BY <1>12, <2>1 DEF BulkServed, CallsInv, viewVars, callVars
<1>13. CASE BulkRemoved
  BY <1>13 DEF BulkRemoved, Settles, Refetch, CallsInv, ListCalls, registryVars
<1>14. CASE UNCHANGED portfolioVars
  BY <1>14 DEF portfolioVars, CallsInv
<1> QED
  BY <1>1, <1>2, <1>3, <1>4, <1>5, <1>6, <1>7, <1>8, <1>9, <1>10, <1>11, <1>12, <1>13, <1>14
     DEF PortfolioNext

\* A bulk removal that is released is still the removal it was.
LEMMA ReleasedIsBulk ==
    ASSUME BulkInv, bulk' = Released(bulk)
    PROVE  /\ bulk' # None <=> bulk # None
           /\ bulk' # None => /\ bulk' \in BulkRemovals
                              /\ bulk'.todo = bulk.todo /\ bulk'.ok = bulk.ok
                              /\ bulk'.failed = bulk.failed /\ bulk'.stage = bulk.stage
<1>1. bulk # None => Released(bulk) \in BulkRemovals
  BY DEF BulkInv, Released, BulkRemovals
<1>2. bulk # None => Released(bulk) # None
  BY <1>1, PortfolioAssumption
<1> QED
  BY <1>1, <1>2 DEF BulkInv, Released, BulkRemovals

\* What the answer for one target does to the removal.
LEMMA BulkServedMoves ==
    ASSUME BulkInv, BulkServed
    PROVE  /\ bulk # None /\ bulk.stage = "sent"
           /\ bulk' # None /\ bulk' \in BulkRemovals /\ bulk'.stage = "sent"
           /\ bulk'.todo \subseteq bulk.todo
           /\ bulk.ok \subseteq bulk'.ok
           /\ \A a \in removed' : a \in removed \/ a \in bulk'.ok
<1>1. bulk # None /\ bulk \in BulkRemovals /\ bulk.stage = "sent"
  BY DEF BulkServed, BulkInv
<1>2. PICK t \in bulk.todo :
         LET succeeds == bulk' = [bulk EXCEPT !.todo = @ \ {t}, !.ok = @ \union {t.row}]
             fails == bulk' = [bulk EXCEPT !.todo = @ \ {t}, !.failed = @ \union {t.name}]
         IN  \/ succeeds /\ (UNCHANGED removed \/ removed' = removed \union {t.row})
             \/ fails /\ UNCHANGED removed
  BY DEF BulkServed, registryVars
<1>3. t.row \in Apps \union Names /\ t.name \in Names
  BY <1>1 DEF BulkRemovals, Targets
<1>4. CASE /\ bulk' = [bulk EXCEPT !.todo = @ \ {t}, !.ok = @ \union {t.row}]
           /\ UNCHANGED removed \/ removed' = removed \union {t.row}
  <2>1. /\ bulk' \in BulkRemovals /\ bulk'.stage = "sent"
        /\ bulk'.todo = bulk.todo \ {t} /\ bulk'.ok = bulk.ok \union {t.row}
    BY <1>1, <1>3, <1>4 DEF BulkRemovals
  <2> QED
    BY <1>1, <1>4, <2>1, PortfolioAssumption
<1>5. CASE /\ bulk' = [bulk EXCEPT !.todo = @ \ {t}, !.failed = @ \union {t.name}]
           /\ UNCHANGED removed
  <2>1. /\ bulk' \in BulkRemovals /\ bulk'.stage = "sent"
        /\ bulk'.todo = bulk.todo \ {t} /\ bulk'.ok = bulk.ok
    BY <1>1, <1>3, <1>5 DEF BulkRemovals
  <2> QED
    BY <1>1, <1>5, <2>1, PortfolioAssumption
<1> QED
  BY <1>2, <1>4, <1>5

LEMMA BulkRemovedEnds ==
    ASSUME BulkInv, BulkRemoved
    PROVE  bulk' \in BulkRemovals /\ bulk'.todo = {} /\ bulk'.failed = bulk.failed
BY DEF BulkInv, BulkRemoved, BulkRemovals

LEMMA RowsOfTable ==
    ASSUME CallsInv
    PROVE  /\ tableRows \subseteq Apps \union Names
           /\ \A t \in tableRows : Named(t) \in Names
<1>1. tableRows \subseteq DOMAIN list \union observed
  BY DEF tableRows, ObservedRows
<1>2. DOMAIN list \subseteq Apps /\ observed \subseteq Names /\ \A a \in DOMAIN list : list[a].name \in Names
  BY DEF CallsInv, Registrations
<1> QED
  BY <1>1, <1>2, PortfolioAssumption DEF Named

LEMMA BulkStarts ==
    ASSUME CallsInv, bulkRemove
    PROVE  /\ bulk' \in BulkRemovals /\ bulk'.stage = "sent"
           /\ \A t \in bulk'.todo : t.row \in checkedIds
<1> DEFINE chosen == tableRows \intersect checkedIds
           todo == {[row |-> t, name |-> Named(t)] : t \in chosen}
<1>1. bulk' = [todo |-> todo, ok |-> {}, failed |-> {}, stage |-> "sent", waits |-> TRUE]
  BY DEF bulkRemove
<1>2. todo \subseteq Targets /\ \A t \in todo : t.row \in checkedIds
  BY RowsOfTable DEF Targets
<1> HIDE DEF todo
<1> QED
  BY <1>1, <1>2 DEF BulkRemovals

LEMMA BulkStep ==
    CallsInv /\ BulkInv /\ [PortfolioNext]_portfolioVars => BulkInv'
<1> SUFFICES ASSUME CallsInv, BulkInv, [PortfolioNext]_portfolioVars PROVE BulkInv'
  OBVIOUS
<1>1. CASE bulk' \in {bulk, Released(bulk), None}
  BY <1>1, ReleasedIsBulk DEF BulkInv
<1>2. CASE bulkRemove
  BY <1>2, BulkStarts DEF BulkInv
<1>3. CASE BulkServed
  BY <1>3, BulkServedMoves DEF BulkInv
<1>4. CASE BulkRemoved
  BY <1>4, BulkRemovedEnds DEF BulkInv
<1> QED
  BY <1>1, <1>2, <1>3, <1>4
     DEF PortfolioNext, ListServed, ListReceived, InventoryServed, InventoryReceived,
         ElsewhereChanges, refresh, inspect, ToggleEdit, Type, submitEdit, SaveServed, SaveDone,
         remove, DeleteServed, DeleteDone, toggleRow, toggleAll, BulkDone, mutationVars,
         portfolioVars

(***************************************************************************)
(* What is checked.                                                        *)
(***************************************************************************)
\* What is checked again has the name of a target that failed.
LEMMA RecheckedIsNamesake ==
    ASSUME NEW left
    PROVE  Rechecked(left) \subseteq UNION {OfName(n) : n \in left}
<1> SUFFICES ASSUME NEW r \in Rechecked(left) PROVE \E n \in left : r \in OfName(n)
  OBVIOUS
<1>1. PICK n \in left : /\ OfName(n) # {}
                       /\ r = IF OfName(n) \intersect Apps # {} THEN Min(OfName(n) \intersect Apps) ELSE n
  BY DEF Rechecked
<1>2. CASE OfName(n) \intersect Apps # {}
  BY <1>1, <1>2, LeastIsOfSet, PortfolioAssumption
<1>3. CASE OfName(n) \intersect Apps = {}
  <2>1. PICK t \in OfName(n) : t \notin Apps
    BY <1>1, <1>3
  <2>2. t = n
    BY <2>1 DEF OfName, Named
  <2> QED
    BY <1>1, <1>3, <2>1, <2>2
<1> QED
  BY <1>2, <1>3

LEMMA ChoiceStep ==
    CallsInv /\ BulkInv /\ ChoiceInv /\ [PortfolioNext]_portfolioVars => ChoiceInv'
<1> SUFFICES ASSUME CallsInv, BulkInv, ChoiceInv, [PortfolioNext]_portfolioVars PROVE ChoiceInv'
  OBVIOUS
<1>1. selectableRows \intersect Managed = {}
  BY DEF selectableRows
<1>2. CASE UNCHANGED <<checkedIds, ticked, namesakes>> /\ bulk' \in {bulk, Released(bulk), None}
  BY <1>2, ReleasedIsBulk DEF ChoiceInv
<1>3. ASSUME NEW row \in Apps \union Names, toggleRow(row)
      PROVE  ChoiceInv'
  BY <1>1, <1>3 DEF toggleRow, mutationVars, ChoiceInv
<1>4. CASE toggleAll
  BY <1>1, <1>4 DEF toggleAll, mutationVars, ChoiceInv
<1>5. CASE bulkRemove
  BY <1>5, BulkStarts DEF bulkRemove, ChoiceInv
<1>6. CASE BulkServed
  BY <1>6, BulkServedMoves DEF BulkServed, ChoiceInv
<1>7. CASE BulkRemoved
  BY <1>7, BulkRemovedEnds, RecheckedIsNamesake DEF BulkRemoved, ChoiceInv
<1> QED
  BY <1>2, <1>3, <1>4, <1>5, <1>6, <1>7
     DEF PortfolioNext, ListServed, ListReceived, InventoryServed, InventoryReceived,
         ElsewhereChanges, refresh, inspect, ToggleEdit, Type, submitEdit, SaveServed, SaveDone,
         remove, DeleteServed, DeleteDone, BulkDone, mutationVars, portfolioVars

(***************************************************************************)
(* What was removed.                                                       *)
(***************************************************************************)
\* A removal that goes on still accounts for what it has removed.
LEMMA AccountedStays ==
    ASSUME BulkInv, NEW a, Accounted(a), bulk' \in {bulk, Released(bulk)} \/ BulkServed
    PROVE  Accounted(a)'
<1>1. CASE bulk' \in {bulk, Released(bulk)}
  BY <1>1, ReleasedIsBulk DEF Accounted
<1>2. CASE BulkServed
  BY <1>2, BulkServedMoves DEF Accounted
<1> QED
  BY <1>1, <1>2

\* A request made anew has no answer yet, and is out.
LEMMA AskedAnew ==
    ASSUME Refetch, removed' \intersect DOMAIN registry' = {}
    PROVE  RemovalInv'
BY DEF Refetch, RemovalInv, Asked, NoListCall

LEMMA RemovalStep ==
    CallsInv /\ ChoiceInv /\ BulkInv /\ RemovalInv /\ [PortfolioNext]_portfolioVars => RemovalInv'
<1> SUFFICES ASSUME CallsInv, ChoiceInv, BulkInv, RemovalInv, [PortfolioNext]_portfolioVars
             PROVE  RemovalInv'
  OBVIOUS
<1>1. CASE ListServed
  BY <1>1 DEF ListServed, RemovalInv, Asked, NoListCall, registryVars, viewVars, callVars
<1>2. CASE ListReceived
  <2>1. \A a : Accounted(a) => Accounted(a)'
    BY <1>2, AccountedStays DEF ListReceived
  <2>2. listCall' = NoListCall /\ UNCHANGED <<removed, registry>>
    BY <1>2 DEF ListReceived, registryVars
  <2>3. ~ failedList' => listCall.state = "answered" /\ list' = listCall.answer
    <3>1. failedList' <=> listCall.state = "error"
      BY <1>2, Zenon DEF ListReceived
    <3>2. listCall.state \in {"error", "answered"}
      BY <1>2 DEF ListReceived, CallsInv, ListCalls, NoListCall, Asked
    <3>3. ~ failedList' => list' = listCall.answer
      BY <1>2, Zenon DEF ListReceived, Settles
    <3> QED
      BY <3>1, <3>2, <3>3
  <2> QED
    BY <2>1, <2>2, <2>3 DEF RemovalInv, NoListCall
<1>3. CASE ElsewhereChanges
  BY <1>3 DEF ElsewhereChanges, Updated, Gone, Restrict, RemovalInv, callVars, viewVars, mutationVars, Accounted
<1>4. CASE refresh
  BY <1>4, AskedAnew DEF refresh, OperatorKeeps, registryVars, RemovalInv
<1>5. CASE SaveServed
  <2>1. CASE Refetch
    BY <1>5, <2>1, AskedAnew DEF SaveServed, Updated, RemovalInv
  <2>2. CASE UNCHANGED <<bulk, listCall>>
    BY <1>5, <2>2 DEF SaveServed, Updated, RemovalInv, viewVars, Accounted
  <2> QED
    BY <1>5, <2>1, <2>2 DEF SaveServed
<1>6. CASE DeleteServed
  <2>1. CASE Gone(deleting.id) /\ removed' = removed \union {deleting.id} /\ Refetch
    BY <2>1, AskedAnew DEF Gone, Restrict, RemovalInv
  <2>2. CASE UNCHANGED <<removed, list, listCall, bulk>> /\ (UNCHANGED registry \/ Gone(deleting.id))
    BY <1>6, <2>2 DEF DeleteServed, Gone, Restrict, RemovalInv, Accounted
  <2> QED
    BY <1>6, <2>1, <2>2 DEF DeleteServed
<1>7. CASE bulkRemove
  BY <1>7 DEF bulkRemove, OperatorKeeps, registryVars, RemovalInv, Accounted
<1>8. CASE BulkServed
  <2>1. \A a : Accounted(a) => Accounted(a)'
    BY <1>8, AccountedStays
  <2>2. \A a \in removed' : a \in removed \/ Accounted(a)'
    BY <1>8, BulkServedMoves DEF Accounted
  <2>3. removed' \intersect DOMAIN registry' = {}
    BY <1>8 DEF BulkServed, Gone, Restrict, RemovalInv, registryVars
  <2> QED
    BY <1>8, <2>1, <2>2, <2>3 DEF BulkServed, RemovalInv, viewVars, callVars
<1>9. CASE BulkRemoved
  BY <1>9, AskedAnew DEF BulkRemoved, registryVars, RemovalInv
<1>10. CASE BulkDone
  BY <1>10 DEF BulkDone, RemovalInv, Accounted, registryVars, viewVars
<1>11. CASE UNCHANGED <<registry, removed, list, listCall, failedList, bulk>>
  BY <1>11 DEF RemovalInv, Accounted
<1> QED
  BY <1>1, <1>2, <1>3, <1>4, <1>5, <1>6, <1>7, <1>8, <1>9, <1>10, <1>11
     DEF PortfolioNext, InventoryServed, InventoryReceived, inspect, Settles, ToggleEdit, Type,
         submitEdit, SaveDone, remove, DeleteDone, toggleRow, toggleAll, OperatorKeeps,
         registryVars, callVars, viewVars, mutationVars, portfolioVars

\* For any registrations, whatever they are renamed to, and any failures: what is saved was
\* filled in from the application it is saved for; what is checked, or removed, the operator
\* checked, or it has the name of a row that could not be removed; and what was removed is
\* not in a list that was loaded since.
THEOREM PortfolioActsOnChosen == PortfolioSpec => []ActsOnTheChosen
<1>1. PortfolioInv /\ [PortfolioNext]_portfolioVars => PortfolioInv'
  BY EditStep, CallsStep, BulkStep, ChoiceStep, RemovalStep DEF PortfolioInv
<1>2. PortfolioInv => ActsOnTheChosen
  BY DEF PortfolioInv, EditInv, ChoiceInv, RemovalInv, Accounted, ActsOnTheChosen,
         SavesItsOwnRow, OnlyChosenRows, RemovedIsGone
<1> QED
  BY <1>1, <1>2, PortfolioInitInv, PTL DEF PortfolioSpec

(***************************************************************************)
(* What the inbox shows answers what was asked last.                       *)
(***************************************************************************)
RowsFit(shown, f) == \A i \in DOMAIN shown : Fits(shown[i], f)

\* A request of the list has the rows its own filters admit.
IsRequest(c) ==
    \E f, answer, listed :
        /\ f \in Filters
        /\ answer \in {"none", "rows", "error"}
        /\ c = [filter |-> f, answer |-> answer, rows |-> listed]
        /\ answer = "rows" => DOMAIN listed \subseteq Incidents /\ RowsFit(listed, f)

InboxTypes ==
    /\ DOMAIN projections \subseteq Incidents
    /\ filter \in Filters
    /\ DOMAIN rows \subseteq Incidents
    /\ request \in [pending : BOOLEAN, recent : BOOLEAN]
    /\ call = NoRequest \/ IsRequest(call)

\* A request that does not ask for the filters of the inbox is to be followed by
\* another.
Followed ==
    OnInbox /\ call # NoRequest => call.filter = filter \/ request.pending

PageInv == page \in Nat /\ page >= 1 /\ PageHasRecords

\* The lookup that is out, and the one that is complete, are of the route.
LookupInv ==
    /\ \E complete, error : lookup = [complete |-> complete, error |-> error]
    /\ \E r, answer, row : finding = [route |-> r, answer |-> answer, row |-> row]
    /\ finding.answer # "none" => finding.route = route
    /\ finding # NoCall => finding.route = route
    /\ lookup.complete => settledFor = route

AnswersInv == InboxTypes /\ Followed /\ ListFitsItsFilters /\ PageInv /\ LookupInv

LEMMA PagesArePositive ==
    ASSUME NEW shown, DOMAIN shown \subseteq Incidents, NEW v
    PROVE  PagesOf(shown, v) \in Nat /\ PagesOf(shown, v) >= 1
<1> DEFINE n == Cardinality(InView(shown, v))
<1>1. n \in Nat
  BY FS_Subset, FS_CardinalityType, InboxAssumption DEF InView
<1> HIDE DEF n
<1>2. PageSize \in Nat /\ PageSize >= 1
  BY InboxAssumption
<1>3. n >= 1 => /\ (n + PageSize - 1) \div PageSize \in Nat
                /\ (n + PageSize - 1) \div PageSize >= 1
  BY <1>1, <1>2
<1> QED
  BY <1>1, <1>3 DEF PagesOf, Pages, n

LEMMA ListingFits ==
    ASSUME DOMAIN projections \subseteq Incidents, NEW f, NEW n
    PROVE  DOMAIN Listing(f, n) \subseteq Incidents /\ RowsFit(Listing(f, n), f)
BY DEF Listing, ListedIds, Known, RowsFit

\* What asking for the list leaves of the request that is out.
LEMMA LoadAsks ==
    ASSUME InboxTypes, NEW background \in BOOLEAN, NEW f \in Filters, Load(background, f)
    PROVE  /\ request' \in [pending : BOOLEAN, recent : BOOLEAN]
           /\ call' = NoRequest \/ IsRequest(call')
           /\ call # NoRequest => call' = call /\ request'.pending
           /\ call = NoRequest /\ ~ background => call' # NoRequest
           /\ call = NoRequest /\ call' # NoRequest => call'.filter = f
           /\ call = NoRequest => request' = request
<1>1. "none" # f
  BY InboxAssumption
<1>2. NoRequest # [NoRequest EXCEPT !.filter = f]
  BY <1>1 DEF NoRequest
<1>3. IsRequest([NoRequest EXCEPT !.filter = f])
  <2>1. [NoRequest EXCEPT !.filter = f] = [filter |-> f, answer |-> "none", rows |-> <<>>]
    BY DEF NoRequest
  <2> QED
    BY <2>1, Zenon DEF IsRequest
<1>4. CASE call # NoRequest
  BY <1>4 DEF Load, InboxTypes
<1>5. CASE call = NoRequest /\ background /\ request.recent
  BY <1>5 DEF Load, InboxTypes
<1>6. CASE call = NoRequest /\ ~ (background /\ request.recent)
  BY <1>2, <1>3, <1>6 DEF Load, InboxTypes, NoRequest
<1> QED
  BY <1>4, <1>5, <1>6

LEMMA LookupEffectsKeep ==
    ASSUME LookupInv, NEW r, NEW shown, NEW busy, LookupEffects(r, shown, busy)
    PROVE  LookupInv'
<1>1. CASE r # route
  BY <1>1 DEF LookupEffects, LookupInv, NoLookup, NoCall
<1>2. CASE r = route
  BY <1>2 DEF LookupEffects, LookupInv, NoLookup, NoCall
<1> QED
  BY <1>1, <1>2

LEMMA LookupStep == LookupInv /\ [InboxNext]_inboxVars => LookupInv'
<1> SUFFICES ASSUME LookupInv, [InboxNext]_inboxVars PROVE LookupInv'
  OBVIOUS
<1>1. CASE \E r, shown, busy : LookupEffects(r, shown, busy)
  BY <1>1, LookupEffectsKeep
<1>2. CASE UNCHANGED commandVars
  BY <1>2 DEF commandVars, LookupInv
<1>3. CASE FindServed
  BY <1>3 DEF FindServed, LookupInv, NoCall
<1>4. CASE FindReceived
  BY <1>4 DEF FindReceived, LookupInv, NoCall
<1>5. CASE RetryLookup
  BY <1>5 DEF RetryLookup, LookupInv, NoLookup
<1> QED
  BY <1>1, <1>2, <1>3, <1>4, <1>5
     DEF InboxNext, IncidentEvent, Poll, HomePoll, TimerFires, Reload, Elapse, LoadKeeps, Serve,
         Receive, OpenInbox, MoveTo, GoHome, Refresh, NextPage, ChangeFilter, ChangeView,
         commandVars, inboxVars

LEMMA InboxTypesStep == InboxTypes /\ [InboxNext]_inboxVars => InboxTypes'
<1> SUFFICES ASSUME InboxTypes, [InboxNext]_inboxVars PROVE InboxTypes'
  OBVIOUS
<1>1. CASE IncidentEvent
  <2>1. DOMAIN projections' \subseteq Incidents
    BY <1>1 DEF IncidentEvent, Enriched, Selected, ContextCollected, Recommended,
                ApprovalRecorded, RemediationExecuted, ClosureCompleted, Record, Known, InboxTypes
  <2> QED
    BY <1>1, <2>1 DEF IncidentEvent, listVars, InboxTypes
<1>2. CASE Poll \/ HomePoll \/ TimerFires \/ Refresh
  <2>1. /\ UNCHANGED <<projections, filter, rows>>
        /\ \E background \in BOOLEAN, f \in Filters : Load(background, f)
    BY <1>2, InboxAssumption
       DEF Poll, HomePoll, TimerFires, Refresh, Reload, LoadKeeps, serverVars, InboxTypes
  <2> QED
    BY <2>1, LoadAsks DEF InboxTypes
<1>3. ASSUME NEW s, NEW r, OpenInbox(s, r)
      PROVE  InboxTypes'
  BY <1>3, LoadAsks DEF OpenInbox, serverVars, InboxTypes
<1>4. ASSUME NEW f \in Filters, ChangeFilter(f)
      PROVE  InboxTypes'
  BY <1>4, LoadAsks DEF ChangeFilter, LoadsWithTheRef, serverVars, InboxTypes
<1>5. CASE Elapse
  BY <1>5 DEF Elapse, LoadKeeps, serverVars, InboxTypes
<1>6. CASE Serve
  <2>1. IsRequest(call')
    <3>1. PICK f, answer, listed :
             f \in Filters /\ call = [filter |-> f, answer |-> answer, rows |-> listed]
      BY <1>6 DEF Serve, InboxTypes, IsRequest
    <3>2. \/ call' = [filter |-> f, answer |-> "rows", rows |-> Listing(f, Limit)]
          \/ call' = [filter |-> f, answer |-> "error", rows |-> listed]
      BY <1>6, <3>1 DEF Serve
    <3>3. DOMAIN Listing(f, Limit) \subseteq Incidents /\ RowsFit(Listing(f, Limit), f)
      BY ListingFits DEF InboxTypes
    <3>4. CASE call' = [filter |-> f, answer |-> "rows", rows |-> Listing(f, Limit)]
      <4>1. "rows" \in {"none", "rows", "error"}
        OBVIOUS
      <4> QED
        BY <3>1, <3>3, <3>4, <4>1 DEF IsRequest
    <3>5. CASE call' = [filter |-> f, answer |-> "error", rows |-> listed]
      <4>1. /\ "error" \in {"none", "rows", "error"}
            /\ "error" = "rows" => DOMAIN listed \subseteq Incidents /\ RowsFit(listed, f)
        OBVIOUS
      <4>2. f \in Filters
        BY <3>1
      <4> QED
        BY <3>5, <4>1, <4>2, Zenon DEF IsRequest
    <3> QED
      BY <3>2, <3>4, <3>5
  <2> QED
    BY <1>6, <2>1 DEF Serve, serverVars, InboxTypes
<1>7. CASE Receive
  <2>1. IsRequest(call) /\ call.answer # "none"
    BY <1>7 DEF Receive, InboxTypes, NoRequest
  <2>2. call.answer # "error" => DOMAIN call.rows \subseteq Incidents
    BY <2>1 DEF IsRequest
  <2>3. DOMAIN rows' \subseteq Incidents
    BY <1>7, <2>2 DEF Receive, InboxTypes
  <2> QED
    BY <1>7, <2>3 DEF Receive, Release, serverVars, InboxTypes
<1>8. ASSUME \/ GoHome \/ NextPage \/ FindServed \/ FindReceived \/ RetryLookup
             \/ (\E v : ChangeView(v)) \/ (\E s, r : MoveTo(s, r)) \/ UNCHANGED inboxVars
      PROVE  InboxTypes'
  BY <1>8 DEF GoHome, NextPage, FindServed, FindReceived, RetryLookup, ChangeView, MoveTo,
              serverVars, listVars, inboxVars, InboxTypes
<1> QED
  BY <1>1, <1>2, <1>3, <1>4, <1>5, <1>6, <1>7, <1>8 DEF InboxNext

\* A request for other filters than those of the inbox is followed by another,
\* so the rows that stay are of the filters set.
LEMMA ListStep ==
    InboxTypes /\ Followed /\ ListFitsItsFilters /\ [InboxNext]_inboxVars
        => Followed' /\ ListFitsItsFilters'
<1> SUFFICES ASSUME InboxTypes, Followed, ListFitsItsFilters, [InboxNext]_inboxVars
             PROVE  Followed' /\ ListFitsItsFilters'
  OBVIOUS
<1> USE DEF Followed, ListFitsItsFilters
<1>1. CASE Poll
  BY <1>1, LoadAsks DEF Poll, LoadKeeps, InboxTypes, OnInbox
<1>2. CASE HomePoll
  BY <1>2 DEF HomePoll, OnInbox
<1>3. CASE TimerFires \/ Refresh
  <2>1. Load(FALSE, filter) /\ UNCHANGED <<screen, filter, rows>>
    BY <1>3 DEF TimerFires, Refresh, Reload
  <2>2. /\ call' # NoRequest
        /\ call # NoRequest => call' = call /\ request'.pending
        /\ call = NoRequest => call'.filter = filter
    BY <2>1, LoadAsks DEF InboxTypes
  <2> QED
    BY <2>1, <2>2
<1>4. ASSUME NEW s, NEW r, OpenInbox(s, r)
      PROVE  Followed' /\ ListFitsItsFilters'
  <2>1. /\ call' # NoRequest /\ UNCHANGED filter
        /\ call # NoRequest => call' = call /\ request'.pending
        /\ call = NoRequest => call'.filter = filter
    BY <1>4, LoadAsks DEF OpenInbox, InboxTypes
  <2> QED
    BY <2>1
<1>5. ASSUME NEW f \in Filters, ChangeFilter(f)
      PROVE  Followed' /\ ListFitsItsFilters'
  <2>1. /\ call' # NoRequest /\ filter' = f
        /\ call # NoRequest => call' = call /\ request'.pending
        /\ call = NoRequest => call'.filter = f
    BY <1>5, LoadAsks DEF ChangeFilter, LoadsWithTheRef, InboxTypes
  <2> QED
    BY <2>1
<1>6. CASE Elapse
  BY <1>6 DEF Elapse, LoadKeeps, InboxTypes, OnInbox
<1>7. CASE Serve
  <2>1. IsRequest(call) /\ call # NoRequest
    BY <1>7 DEF Serve, InboxTypes
  <2>2. call'.filter = call.filter
    BY <1>7, <2>1 DEF Serve, IsRequest
  <2>3. call'.answer # "none"
    BY <1>7, <2>1 DEF Serve, IsRequest
  <2> QED
    BY <1>7, <2>1, <2>2, <2>3 DEF Serve, OnInbox, NoRequest
<1>8. CASE Receive
  <2>1. IsRequest(call) /\ call # NoRequest
    BY <1>8 DEF Receive, InboxTypes, NoRequest
  <2>2. call' = NoRequest /\ UNCHANGED <<screen, filter>>
    BY <1>8 DEF Receive, Release
  <2>3. ~ timer' => ~ request.pending
    BY <1>8, Zenon DEF Receive, Release
  <2>4. ~ stale' => call.answer # "error"
    BY <1>8, Zenon DEF Receive
  <2>5. call.answer # "error" => rows' = call.rows /\ RowsFit(call.rows, call.filter)
    BY <1>8, <2>1 DEF Receive, IsRequest
  <2> QED
    BY <2>1, <2>2, <2>3, <2>4, <2>5 DEF OnInbox, RowsFit
<1>9. CASE GoHome
  BY <1>9 DEF GoHome, OnInbox
<1>10. ASSUME NEW s, NEW r, MoveTo(s, r)
       PROVE  Followed' /\ ListFitsItsFilters'
  BY <1>10 DEF MoveTo, listVars, OnInbox
<1>11. CASE UNCHANGED <<screen, listVars>>
  BY <1>11 DEF listVars, OnInbox
<1> QED
  BY <1>1, <1>2, <1>3, <1>4, <1>5, <1>6, <1>7, <1>8, <1>9, <1>10, <1>11
     DEF InboxNext, IncidentEvent, NextPage, ChangeView, FindServed, FindReceived, RetryLookup,
         inboxVars

LEMMA PageStep ==
    InboxTypes /\ InboxTypes' /\ PageInv /\ [InboxNext]_inboxVars => PageInv'
<1> SUFFICES ASSUME InboxTypes, InboxTypes', PageInv, [InboxNext]_inboxVars PROVE PageInv'
  OBVIOUS
<1>1. PagesOf(rows', view') \in Nat /\ PagesOf(rows', view') >= 1
  BY PagesArePositive DEF InboxTypes
<1>2. CASE UNCHANGED <<page, rows, view>>
  BY <1>2 DEF PageInv, PageHasRecords
<1>3. CASE page' = 1
  BY <1>1, <1>3 DEF PageInv, PageHasRecords
<1>4. CASE NextPage
  <2>1. UNCHANGED <<rows, view>> /\ page' = page + 1 /\ page < PagesOf(rows, view)
    BY <1>4 DEF NextPage, listVars
  <2> QED
    BY <1>1, <2>1 DEF PageInv, PageHasRecords
<1>5. CASE Receive
  <2>1. page' = Clamped(rows', page) /\ view' = view
    BY <1>5 DEF Receive
  <2> QED
    BY <1>1, <2>1 DEF PageInv, PageHasRecords, Clamped
<1> QED
  BY <1>2, <1>3, <1>4, <1>5
     DEF InboxNext, IncidentEvent, Poll, HomePoll, TimerFires, Reload, Elapse, LoadKeeps, Serve,
         OpenInbox, MoveTo, GoHome, Refresh, ChangeFilter, ChangeView, FindServed, FindReceived,
         RetryLookup, listVars, inboxVars

LEMMA AnswersInit == InboxInit => AnswersInv
<1> SUFFICES ASSUME InboxInit PROVE AnswersInv
  OBVIOUS
<1>1. DOMAIN projections = {} /\ DOMAIN rows = {}
  BY DEF InboxInit
<1>2. InboxTypes
  BY <1>1, InboxAssumption DEF InboxInit, InboxTypes
<1>3. Followed /\ ListFitsItsFilters
  BY DEF InboxInit, Followed, ListFitsItsFilters, OnInbox
<1>4. PageInv
  BY <1>1, <1>2, PagesArePositive DEF InboxInit, InboxTypes, PageInv, PageHasRecords
<1>5. LookupInv
  BY DEF InboxInit, LookupInv, NoLookup, NoCall
<1> QED
  BY <1>2, <1>3, <1>4, <1>5 DEF AnswersInv

\* For any incidents, filters and page size, and whatever fails: when nothing is
\* out the list holds only what its filters admit, the page shown exists, and
\* "not found" is the answer to a lookup of the incident of the route.
THEOREM AnswersFit == InboxSpec => []AnswersFitTheirQuestion
<1>1. AnswersInv /\ [InboxNext]_inboxVars => AnswersInv'
  BY InboxTypesStep, ListStep, PageStep, LookupStep DEF AnswersInv
<1>2. AnswersInv => AnswersFitTheirQuestion
  <2> SUFFICES ASSUME AnswersInv PROVE NotFoundIsAnswered
    BY DEF AnswersInv, PageInv, AnswersFitTheirQuestion
  <2>1. CommandPage \in {"not found", "lookup failed"} => lookup.complete
    BY DEF CommandPage, RowShown
  <2> QED
    BY <2>1 DEF AnswersInv, LookupInv, NotFoundIsAnswered
<1> QED
  BY <1>1, <1>2, AnswersInit, PTL DEF InboxSpec

(***************************************************************************)
(* The rows the services write: each event leaves one of a few kinds of    *)
(* row.  A lifecycle made of such a row has nothing ahead but perhaps its  *)
(* last stage, so that is the stage its card names.                        *)
(***************************************************************************)
RowOf(i, row) ==
    \/ row.kind = "alert.enriched" /\ row.status = "investigating" /\ row.mode = "unknown"
    \/ row.kind \in {"workflow.selected", "context.collected"} /\ row.status = "investigating"
       /\ row.mode = Mode(i)
    \/ row.kind = "recommendation.generated" /\ row.mode = Mode(i)
       /\ row.status = IF i \in Human THEN "awaiting_approval" ELSE "remediating"
    \/ row.kind = "approval.recorded" /\ i \in decided
       /\ (row.status = "failed" \/ (row.status = "remediating" /\ i \in agreed))
    \/ row.kind = "remediation.executed" /\ row.status \in {"validating", "failed", "remediating"}
       /\ (i \in Human => i \in decided)
       /\ (i \in Human /\ row.status = "validating" => i \in agreed)
    \/ row.kind = "closure.completed" /\ row.status \in {"closed", "failed"}
       /\ (i \in Human => i \in decided)
       /\ (i \in Human /\ row.status = "closed" => i \in agreed)

\* An action succeeds of an incident that asks for a person only when one agreed.
CardInv ==
    /\ \A i \in Known : RowOf(i, projections[i])
    /\ worked \intersect Human \subseteq agreed

LEMMA CardInit == InboxInit => CardInv
BY DEF InboxInit, CardInv, Known

\* An event writes the row of its own incident, and takes back no decision.
LEMMA RecordKeeps ==
    ASSUME CardInv, NEW i, NEW kind, NEW st, NEW mode, Record(i, kind, st, mode),
           decided \subseteq decided', agreed \subseteq agreed',
           worked' \intersect Human \subseteq agreed',
           RowOf(i, Row(kind, st, mode))'
    PROVE  CardInv'
<1> SUFFICES ASSUME NEW j \in Known' PROVE RowOf(j, projections[j])'
  BY DEF CardInv
<1>1. CASE j = i
  <2>1. projections'[i].kind = kind /\ projections'[i].status = st
        /\ projections'[i].mode = mode
    BY DEF Record, Row
  <2>2. /\ Row(kind, st, mode)'.kind = kind /\ Row(kind, st, mode)'.status = st
        /\ Row(kind, st, mode)'.mode = mode
    BY DEF Row
  <2> QED
    BY <1>1, <2>1, <2>2 DEF RowOf, Mode
<1>2. CASE j # i
  <2>1. j \in Known /\ projections'[j] = projections[j]
    BY <1>2 DEF Record, Known
  <2> QED
    BY <2>1 DEF CardInv, RowOf, Mode
<1> QED
  BY <1>1, <1>2

LEMMA CardStep == CardInv /\ [InboxNext]_inboxVars => CardInv'
<1> SUFFICES ASSUME CardInv, [InboxNext]_inboxVars PROVE CardInv'
  OBVIOUS
<1>1. CASE UNCHANGED <<projections, decided, agreed, worked>>
  BY <1>1 DEF CardInv, Known, RowOf, Mode
<1>2. CASE IncidentEvent
  <2>1. PICK i \in Incidents :
           \/ Enriched(i) \/ Selected(i) \/ ContextCollected(i) \/ Recommended(i)
           \/ ApprovalRecorded(i) \/ RemediationExecuted(i) \/ ClosureCompleted(i)
    BY <1>2 DEF IncidentEvent
  <2>2. /\ i \in Known => RowOf(i, projections[i])
        /\ worked \intersect Human \subseteq agreed
    BY DEF CardInv
  <2>3. \A kind, st, mode :
           LET row == Row(kind, st, mode)'
           IN  row.kind = kind /\ row.status = st /\ row.mode = mode
    BY DEF Row
  <2>4. CASE Enriched(i)
    BY <2>2, <2>3, <2>4, RecordKeeps DEF Enriched, RowOf, historyVars
  <2>5. CASE Selected(i)
    BY <2>2, <2>3, <2>5, RecordKeeps DEF Selected, RowOf, Mode, historyVars
  <2>6. CASE ContextCollected(i)
    BY <2>2, <2>3, <2>6, RecordKeeps DEF ContextCollected, RowOf, Mode, historyVars
  <2>7. CASE Recommended(i)
    BY <2>2, <2>3, <2>7, RecordKeeps DEF Recommended, RowOf, Mode, historyVars
  <2>8. CASE ApprovalRecorded(i)
    <3>1. /\ decided' = decided \union {i} /\ worked' = worked
          /\ agreed' = agreed \/ agreed' = agreed \union {i}
      BY <2>8 DEF ApprovalRecorded
    <3>2. PICK m : \/ Record(i, "approval.recorded", "remediating", m) /\ i \in agreed'
                   \/ Record(i, "approval.recorded", "failed", m)
      BY <2>8 DEF ApprovalRecorded
    <3> QED
      BY <2>2, <2>3, <3>1, <3>2, RecordKeeps DEF RowOf
  <2>9. CASE RemediationExecuted(i)
    <3>1. /\ i \in Human => i \in decided
          /\ i \in Human /\ projections[i].status = "remediating" => i \in agreed
      BY <2>2, <2>9 DEF RemediationExecuted, Latest, RowOf
    <3>2. /\ UNCHANGED <<decided, agreed>>
          /\ worked' = worked \/ (worked' = worked \union {i} /\ projections[i].status = "remediating")
      BY <2>9 DEF RemediationExecuted
    <3>3. PICK m : \/ Record(i, "remediation.executed", "remediating", m)
                   \/ Record(i, "remediation.executed", "failed", m)
                   \/ /\ Record(i, "remediation.executed", "validating", m)
                      /\ projections[i].status = "remediating"
      BY <2>9 DEF RemediationExecuted
    <3>4. worked' \intersect Human \subseteq agreed'
      BY <2>2, <3>1, <3>2
    <3> QED
      BY <2>3, <3>1, <3>2, <3>3, <3>4, RecordKeeps DEF RowOf
  <2>10. CASE ClosureCompleted(i)
    <3>1. i \in Human => i \in decided
      BY <2>2, <2>10 DEF ClosureCompleted, Latest, RowOf
    <3>2. UNCHANGED <<decided, agreed, worked>>
      BY <2>10 DEF ClosureCompleted, historyVars
    <3>3. \/ Record(i, "closure.completed", "closed", "unknown") /\ i \in worked
          \/ Record(i, "closure.completed", "failed", "unknown")
      BY <2>10 DEF ClosureCompleted
    <3> QED
      BY <2>2, <2>3, <3>1, <3>2, <3>3, RecordKeeps DEF RowOf
  <2> QED
    BY <2>1, <2>4, <2>5, <2>6, <2>7, <2>8, <2>9, <2>10
<1> QED
  BY <1>1, <1>2
     DEF InboxNext, Poll, HomePoll, TimerFires, Reload, Elapse, LoadKeeps, Serve,
         Receive, OpenInbox, MoveTo, GoHome, Refresh, NextPage, ChangeFilter, ChangeView,
         FindServed, FindReceived, RetryLookup, serverVars, historyVars, inboxVars

(***************************************************************************)
(* Lifecycles.                                                             *)
(***************************************************************************)
StageIds == {"context", "decision", "understand", "approval", "resolve", "validate"}

Stages == [id : StageIds, state : {"current", "complete", "failed"}]

\* All stages but the last, x, are behind and of the names given.
EndsIn(stages, x, names) ==
    /\ stages \in Seq(Stages)
    /\ Len(stages) > 0 /\ stages[Len(stages)] = x
    /\ \A k \in 1 .. Len(stages) :
          k < Len(stages) => stages[k].state = "complete" /\ stages[k].id \in names

LEMMA OneStage ==
    ASSUME NEW x \in Stages, NEW names
    PROVE  EndsIn(<<x>>, x, names)
BY DEF EndsIn

LEMMA NoMoreStages ==
    ASSUME NEW stages, NEW x, NEW names, EndsIn(stages, x, names)
    PROVE  EndsIn(stages \o <<>>, x, names)
<1>1. stages \o <<>> = stages
  BY ConcatEmptySeq DEF EndsIn
<1> QED
  BY <1>1

LEMMA OneMoreStage ==
    ASSUME NEW stages, NEW x, NEW y \in Stages, NEW names, EndsIn(stages, x, names),
           x.state = "complete", x.id \in names
    PROVE  EndsIn(stages \o <<y>>, y, names)
<1>1. stages \o <<y>> = Append(stages, y)
  BY AppendIsConcat DEF EndsIn
<1>2. /\ Append(stages, y) \in Seq(Stages)
      /\ Len(Append(stages, y)) = Len(stages) + 1
      /\ Append(stages, y)[Len(stages) + 1] = y
      /\ \A k \in 1 .. Len(stages) : Append(stages, y)[k] = stages[k]
  BY AppendProperties DEF EndsIn
<1>3. Len(stages) \in Nat
  BY LenProperties DEF EndsIn
<1> QED
  BY <1>1, <1>2, <1>3 DEF EndsIn

LEMMA TwoMoreStages ==
    ASSUME NEW stages, NEW x, NEW y \in Stages, NEW z \in Stages, NEW names,
           EndsIn(stages, x, names), x.state = "complete", x.id \in names,
           y.state = "complete", y.id \in names
    PROVE  EndsIn(stages \o <<y, z>>, z, names)
<1>1. EndsIn((stages \o <<y>>) \o <<z>>, z, names)
  BY OneMoreStage
<1>2. (stages \o <<y>>) \o <<z>> = stages \o (<<y>> \o <<z>>)
  BY ConcatAssociative DEF EndsIn
<1>3. <<y>> \o <<z>> = <<y, z>>
  <2>1. <<y>> \in Seq(Stages) /\ <<y, z>> \in Seq(Stages)
    OBVIOUS
  <2>2. <<y>> \o <<z>> = Append(<<y>>, z)
    BY <2>1, AppendIsConcat
  <2>3. /\ Append(<<y>>, z) \in Seq(Stages) /\ Len(Append(<<y>>, z)) = 2
        /\ Append(<<y>>, z)[1] = y /\ Append(<<y>>, z)[2] = z
    BY <2>1, AppendProperties
  <2>4. Len(<<y, z>>) = 2 /\ <<y, z>>[1] = y /\ <<y, z>>[2] = z
    OBVIOUS
  <2>5. \A i \in 1 .. 2 : Append(<<y>>, z)[i] = <<y, z>>[i]
    BY <2>3, <2>4
  <2> QED
    BY <2>1, <2>2, <2>3, <2>4, <2>5, SeqEqual
<1> QED
  BY <1>1, <1>2, <1>3

\* So the card names the last stage, whether it is ahead or behind.
LEMMA LastIsCurrent ==
    ASSUME NEW row, NEW x, NEW names, EndsIn(Lifecycle(row), x, names)
    PROVE  CurrentStage(row) = x
<1> DEFINE stages == Lifecycle(row)
           ahead == {k \in DOMAIN stages : stages[k].state \in {"current", "failed"}}
<1>1. Len(stages) \in Nat /\ DOMAIN stages = 1 .. Len(stages)
  BY LenProperties DEF EndsIn
<1>2. CurrentStage(row) = stages[IF ahead = {} THEN Len(stages) ELSE Min(ahead)]
  BY DEF CurrentStage
<1>3. ahead = {} \/ ahead = {Len(stages)}
  BY <1>1 DEF EndsIn
<1>4. ahead = {Len(stages)} => Min(ahead) = Len(stages)
  BY <1>1 DEF Min
<1> QED
  BY <1>2, <1>3, <1>4 DEF EndsIn

LastStage(row) ==
    IF row.status = "investigating"
      THEN IF row.kind = "context.collected" THEN Stage("context", "current")
           ELSE Stage("decision", "complete")
    ELSE IF row.status = "awaiting_approval" THEN Stage("approval", "current")
    ELSE IF row.status = "remediating" THEN Stage("resolve", "current")
    ELSE IF row.status = "validating" THEN Stage("validate", "current")
    ELSE IF row.status = "closed" THEN Stage("validate", "complete")
    ELSE IF row.kind = "closure.completed" THEN Stage("validate", "failed")
    ELSE Stage("resolve", "failed")

\* The action is behind once its validation is the last stage.
Validates(row) == row.status \in {"validating", "closed"} \/ row.kind = "closure.completed"

Behind(row) == {"decision", "understand", "approval"} \union (IF Validates(row) THEN {"resolve"} ELSE {})

LEMMA StageIsStage ==
    ASSUME NEW id \in StageIds, NEW state \in {"current", "complete", "failed"}
    PROVE  /\ Stage(id, state) \in Stages
           /\ Stage(id, state).id = id
           /\ Stage(id, state).state = state
BY DEF Stage, Stages

LEMMA LastStageIsStage == ASSUME NEW row PROVE LastStage(row) \in Stages
<1>1. /\ Stage("context", "current") \in Stages /\ Stage("decision", "complete") \in Stages
      /\ Stage("approval", "current") \in Stages /\ Stage("resolve", "current") \in Stages
      /\ Stage("validate", "current") \in Stages /\ Stage("validate", "complete") \in Stages
      /\ Stage("validate", "failed") \in Stages /\ Stage("resolve", "failed") \in Stages
  BY StageIsStage DEF StageIds
<1> QED
  BY <1>1, Zenon DEF LastStage

LEMMA StagesBehind ==
    /\ Stage("decision", "complete") \in Stages
    /\ Stage("understand", "complete") \in Stages
    /\ Stage("approval", "complete") \in Stages
    /\ Stage("resolve", "complete") \in Stages
    /\ Stage("decision", "complete").state = "complete" /\ Stage("decision", "complete").id = "decision"
    /\ Stage("understand", "complete").state = "complete" /\ Stage("understand", "complete").id = "understand"
    /\ Stage("approval", "complete").state = "complete" /\ Stage("approval", "complete").id = "approval"
    /\ Stage("resolve", "complete").state = "complete" /\ Stage("resolve", "complete").id = "resolve"
BY StageIsStage DEF StageIds

LEMMA LifecycleEnds ==
    ASSUME NEW i, NEW row, RowOf(i, row)
    PROVE  EndsIn(Lifecycle(row), LastStage(row), Behind(row))
<1> DEFINE context == If(row.kind = "context.collected", <<Stage("context", "current")>>)
           understood == If(Understood(row), <<Stage("understand", "complete")>>)
           s0 == <<Stage("decision", "complete")>>
           s1 == s0 \o context
           s2 == s1 \o understood
           s3 == s2 \o ApprovalStages(row)
           names == Behind(row)
<1>1. Lifecycle(row) = s3 \o ClosingStages(row)
  BY DEF Lifecycle
<1>2. LastStage(row) \in Stages
  BY LastStageIsStage
<1>3. {"decision", "understand", "approval"} \subseteq names
  BY DEF Behind
<1> HIDE DEF names
<1>4. EndsIn(s0, Stage("decision", "complete"), names)
  BY StagesBehind, OneStage
<1> HIDE DEF s0
<1>5. CASE row.status = "investigating"
  <2>1. understood = <<>> /\ ApprovalStages(row) = <<>> /\ ClosingStages(row) = <<>>
    BY <1>5 DEF If, Understood, ApprovalStages, ClosingStages
  <2>2. EndsIn(s1, LastStage(row), names)
    <3>1. CASE row.kind = "context.collected"
      <4>1. context = <<LastStage(row)>>
        BY <1>5, <3>1 DEF If, LastStage
      <4> HIDE DEF context
      <4> QED
        BY <1>2, <1>3, <1>4, <4>1, StagesBehind, OneMoreStage
    <3>2. CASE row.kind # "context.collected"
      <4>1. context = <<>> /\ LastStage(row) = Stage("decision", "complete")
        BY <1>5, <3>2 DEF If, LastStage
      <4> HIDE DEF context
      <4> QED
        BY <1>4, <4>1, NoMoreStages
    <3> QED
      BY <3>1, <3>2
  <2> HIDE DEF s1, understood
  <2>3. EndsIn(s2, LastStage(row), names)
    BY <2>1, <2>2, NoMoreStages
  <2> HIDE DEF s2
  <2>4. EndsIn(s3, LastStage(row), names)
    BY <2>1, <2>3, NoMoreStages
  <2> HIDE DEF s3
  <2> QED
    BY <1>1, <2>1, <2>4, NoMoreStages DEF names
<1>6. CASE row.status # "investigating"
  <2>1. context = <<>> /\ understood = <<Stage("understand", "complete")>>
    BY <1>6 DEF RowOf, If, Understood
  <2> HIDE DEF context, understood
  <2>2. EndsIn(s1, Stage("decision", "complete"), names)
    BY <1>4, <2>1, NoMoreStages
  <2> HIDE DEF s1
  <2>3. EndsIn(s2, Stage("understand", "complete"), names)
    BY <1>3, StagesBehind, <2>1, <2>2, OneMoreStage
  <2> HIDE DEF s2
  <2>4. CASE row.status = "awaiting_approval"
    <3>1. ApprovalStages(row) = <<LastStage(row)>> /\ ClosingStages(row) = <<>>
      <4>1. row.mode = "human-approval"
        BY <2>4 DEF RowOf, Mode
      <4> QED
        BY <2>4, <4>1 DEF If, ApprovalStages, ClosingStages, LastStage
    <3>2. EndsIn(s3, LastStage(row), names)
      BY <1>2, <1>3, StagesBehind, <2>3, <3>1, OneMoreStage
    <3> HIDE DEF s3
    <3> QED
      BY <1>1, <3>1, <3>2, NoMoreStages DEF names
  <2>5. CASE row.status \in {"remediating", "validating", "closed", "failed"}
    <3>1. \E y : EndsIn(s3, y, names) /\ y.state = "complete" /\ y.id \in names
      <4>1. ApprovalStages(row) \in {<<>>, <<Stage("approval", "complete")>>}
        BY <2>5 DEF If, ApprovalStages
      <4>2. CASE ApprovalStages(row) = <<>>
        BY <1>3, StagesBehind, <2>3, <4>2, NoMoreStages
      <4>3. CASE ApprovalStages(row) = <<Stage("approval", "complete")>>
        BY <1>3, StagesBehind, <2>3, <4>3, OneMoreStage
      <4> QED
        BY <4>1, <4>2, <4>3
    <3> HIDE DEF s3
    <3>2. \/ ClosingStages(row) = <<LastStage(row)>>
          \/ /\ ClosingStages(row) = <<Stage("resolve", "complete"), LastStage(row)>>
             /\ Validates(row)
      BY <2>5 DEF ClosingStages, LastStage, Validates
    <3>3. Validates(row) => "resolve" \in names
      BY DEF Behind, names
    <3> QED
      BY <1>1, <1>2, <3>1, <3>2, <3>3, StagesBehind, OneMoreStage, TwoMoreStages DEF names
  <2> QED
    BY <1>6, <2>4, <2>5 DEF RowOf
<1> QED
  BY <1>5, <1>6

\* A stage that is under way or done is the last one, or behind it.
LEMMA ShownStage ==
    ASSUME NEW i, NEW row, RowOf(i, row), NEW id, NEW states, Shows(row, id, states)
    PROVE  \/ id \in Behind(row)
           \/ LastStage(row).id = id /\ LastStage(row).state \in states
<1>1. EndsIn(Lifecycle(row), LastStage(row), Behind(row))
  BY LifecycleEnds
<1>2. PICK k \in DOMAIN Lifecycle(row) :
          Lifecycle(row)[k].id = id /\ Lifecycle(row)[k].state \in states
  BY DEF Shows
<1>3. k \in 1 .. Len(Lifecycle(row)) /\ Len(Lifecycle(row)) \in Nat
  BY <1>1, <1>2, LenProperties DEF EndsIn
<1> QED
  BY <1>1, <1>2, <1>3 DEF EndsIn

\* Only a decision lets an incident that asks for a person reach a row that shows its
\* action, and only a decision to go on one that shows its recovery.
LEMMA ShownAfterDecision ==
    ASSUME NEW i \in Human, NEW row, RowOf(i, row)
    PROVE  /\ Shows(row, "resolve", {"current", "complete"}) => i \in decided
           /\ Shows(row, "validate", {"current", "complete"}) => i \in agreed
           /\ InboxView(row) = "resolved" => i \in agreed
<1>1. ASSUME Shows(row, "resolve", {"current", "complete"}) PROVE i \in decided
  <2>1. \/ Validates(row)
        \/ LastStage(row).id = "resolve" /\ LastStage(row).state \in {"current", "complete"}
    BY <1>1, ShownStage DEF Behind
  <2>2. Validates(row) \/ row.status = "remediating"
    BY <2>1 DEF LastStage, Stage
  <2> QED
    BY <2>2 DEF RowOf, Validates
<1>2. ASSUME Shows(row, "validate", {"current", "complete"}) PROVE i \in agreed
  <2>1. LastStage(row).id = "validate" /\ LastStage(row).state \in {"current", "complete"}
    BY <1>2, ShownStage DEF Behind
  <2>2. row.status \in {"validating", "closed"}
    BY <2>1 DEF LastStage, Stage
  <2> QED
    BY <2>2 DEF RowOf
<1>3. ASSUME InboxView(row) = "resolved" PROVE i \in agreed
  <2>1. row.status \in Terminal
    BY <1>3 DEF InboxView
  <2> QED
    BY <2>1 DEF Terminal, RowOf
<1> QED
  BY <1>1, <1>2, <1>3

\* Card, view and stage agree on every row the services write; of an incident that asks
\* for a person none shows the action before the decision, or the recovery before a
\* decision to go on.
THEOREM CardsAreTrue == InboxSpec => []CardsTellTheTruth
<1>1. CardInv => FiledByItsStage
  <2> SUFFICES ASSUME CardInv, NEW i \in Known
               PROVE  LET row == projections[i]
                          stage == CurrentStage(row)
                      IN  /\ (InboxView(row) = "needs_me")
                                <=> (stage.state = "failed" \/ stage = Stage("approval", "current"))
                          /\ (InboxView(row) = "resolved") <=> (stage = Stage("validate", "complete"))
    BY DEF FiledByItsStage
  <2> DEFINE row == projections[i]
  <2>1. RowOf(i, row)
    BY DEF CardInv
  <2>2. CurrentStage(row) = LastStage(row)
    BY <2>1, LifecycleEnds, LastIsCurrent
  <2>3. row.status \in {"investigating", "awaiting_approval", "remediating", "validating",
                        "closed", "failed"}
    BY <2>1 DEF RowOf
  <2> HIDE DEF row
  <2>4. /\ (InboxView(row) = "needs_me")
              <=> (LastStage(row).state = "failed" \/ LastStage(row) = Stage("approval", "current"))
        /\ (InboxView(row) = "resolved") <=> (LastStage(row) = Stage("validate", "complete"))
    BY <2>3 DEF InboxView, Terminal, Failures, LastStage, Stage
  <2> QED
    BY <2>2, <2>4 DEF row
<1>2. CardInv => NoActionBeforeDecision
  BY ShownAfterDecision DEF CardInv, NoActionBeforeDecision
<1> QED
  BY <1>1, <1>2, CardInit, CardStep, PTL DEF InboxSpec, CardsTellTheTruth
=============================================================================
