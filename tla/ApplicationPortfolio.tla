------------------------- MODULE ApplicationPortfolio -------------------------
(***************************************************************************)
(* The application portfolio, routes/applications/ApplicationsRoute.tsx:   *)
(* registered applications and observed services in one table, the one     *)
(* that is inspected and edited, and removal one by one or in bulk.        *)
(*                                                                         *)
(* The registry and the inventory of observed services answer as the       *)
(* console uses them: a registration has an identity that is not used      *)
(* again and a name that anybody may change to any other, and an unknown   *)
(* identity is refused.                                                    *)
(* The list is a query: asking again drops the request that is out.  The   *)
(* inventory goes through fetchJson: asking again joins the request that   *)
(* is out.                                                                 *)
(***************************************************************************)
EXTENDS Integers, FiniteSets, FiniteSetsExt, SequencesExt

CONSTANTS
    Apps,       \* identities of registrations, in the order of the list
    Names,
    Fold,       \* toLowerCase
    ManagedScopes, \* the platform's own names, folded
    None,
    MaxPortfolioActs, MaxPortfolioFaults, MaxChanges

\* What bulkDeleteMutation knows of the rows it removes: of those to come, the
\* name each had when the operator clicked; of those that failed, the names.
Targets == [row : Apps \union Names, name : Names]
BulkRemovals ==
    [todo : SUBSET Targets, ok : SUBSET (Apps \union Names), failed : SUBSET Names,
     stage : {"sent", "deleted"}, waits : BOOLEAN]

ASSUME PortfolioAssumption ==
    /\ Apps \subseteq Nat
    /\ Apps \intersect Names = {}
    /\ None \notin Apps \union Names \union BulkRemovals
    /\ {MaxPortfolioActs, MaxPortfolioFaults, MaxChanges} \subseteq Nat

VARIABLES
    registry,    \* of the server: registrations, each with its name and version
    suppressed,  \* of the server: names that were removed from the inventory
    list,        \* applications.data
    listCall,    \* the request for the list that is out
    observed,    \* observedProjects
    observedCall,
    selectedId,
    editing,
    form,        \* the row it was filled from, the name in it, whether it was typed in
    checkedIds,
    saving,      \* saveMutation
    deleting,    \* deleteMutation
    bulk,        \* bulkDeleteMutation
    ticked,      \* history: rows the operator checked
    namesakes,   \* history: rows of the name of a row a bulk removal has left
    removed,     \* history: registrations the server told the console it removed
    failedList,  \* history: did the last request for the list fail?
    portfolioActs, portfolioFaults, changes

portfolioVars == <<registry, suppressed, list, listCall, observed, observedCall, selectedId, editing,
                   form, checkedIds, saving, deleting, bulk, ticked, namesakes, removed, failedList,
                   portfolioActs, portfolioFaults, changes>>

registryVars == <<registry, suppressed>>
callVars == <<listCall, observedCall, failedList>>
viewVars == <<list, observed, selectedId, editing, form>>
mutationVars == <<saving, deleting, bulk>>

(***************************************************************************)
(* The rows of the table: registrations, and observed services that no     *)
(* registration has the name of.                                           *)
(***************************************************************************)
ObservedRows(l, o) == {n \in o : \A a \in DOMAIN l : Fold[l[a].name] # Fold[n]}
tableRows == DOMAIN list \union ObservedRows(list, observed)
Managed == {n \in Names : Fold[n] \in ManagedScopes}
selectableRows == tableRows \ Managed
Named(row) == IF row \in Apps THEN list[row].name ELSE row

FirstRegistered(l) == IF DOMAIN l = {} THEN None ELSE Min(DOMAIN l)
NoListCall == [state |-> "none", answer |-> <<>>]
Asked == [state |-> "asked", answer |-> <<>>]
NoForm == [of |-> None, name |-> None, typed |-> FALSE]

\* updateInput, in the effect on the selected row.
Filled(id, l, reset) ==
    LET same == ~reset /\ id = selectedId /\ id \in DOMAIN list /\ l[id] = list[id]
    IN  IF id = None \/ same THEN form ELSE [of |-> id, name |-> l[id].name, typed |-> FALSE]

\* The two effects, after a commit that shows the list l and the selection id.
Settles(id, l) ==
    LET settled == IF id \in DOMAIN l THEN id ELSE FirstRegistered(l)
    IN  /\ list' = l
        /\ selectedId' = settled
        /\ form' = Filled(settled, l, settled # id)

\* uniqueMonitorApplications: of names that differ in case only, one.
Unique(all) == {o \in SUBSET all : \A n \in all : \E m \in o : \A k \in o : Fold[k] = Fold[n] <=> k = m}

PortfolioInit ==
    /\ registry \in UNION {[s -> [name : Names, version : {0}]] : s \in SUBSET Apps}
    /\ suppressed = {}
    /\ list = <<>> /\ listCall = Asked /\ failedList = FALSE
    /\ observed \in Unique(Names) /\ observedCall = NoListCall
    /\ selectedId = None /\ editing = FALSE /\ form = NoForm
    /\ checkedIds = {} /\ saving = None /\ deleting = None /\ bulk = None
    /\ ticked = {} /\ namesakes = {} /\ removed = {}
    /\ portfolioActs = 0 /\ portfolioFaults = 0 /\ changes = 0

Operates == portfolioActs < MaxPortfolioActs /\ portfolioActs' = portfolioActs + 1
Faults == portfolioFaults < MaxPortfolioFaults /\ portfolioFaults' = portfolioFaults + 1
NoFault == UNCHANGED portfolioFaults
Steady == UNCHANGED <<portfolioActs, changes>>

(***************************************************************************)
(* Requests for the list and for the inventory.                            *)
(***************************************************************************)

Refetch == listCall' = Asked

\* A mutation that waits for the list goes on when its request is over or dropped.
Released(m) == IF m = None \/ m.stage = "sent" THEN m ELSE [m EXCEPT !.waits = FALSE]
RefreshProjects == observedCall' = (IF observedCall = NoListCall THEN Asked ELSE observedCall)

ListServed ==
    /\ listCall = Asked
    /\ \/ listCall' = [state |-> "answered", answer |-> registry] /\ NoFault
       \/ listCall' = [Asked EXCEPT !.state = "error"] /\ Faults
    /\ UNCHANGED <<registryVars, viewVars, observedCall, failedList, checkedIds, mutationVars, ticked, namesakes, removed>>
    /\ Steady

ListReceived ==
    /\ listCall \notin {NoListCall, Asked}
    /\ listCall' = NoListCall
    /\ failedList' = (listCall.state = "error")
    /\ IF failedList' THEN UNCHANGED <<list, selectedId, form>> ELSE Settles(selectedId, listCall.answer)
    /\ saving' = Released(saving) /\ deleting' = Released(deleting) /\ bulk' = Released(bulk)
    /\ UNCHANGED <<registryVars, observed, editing, observedCall, checkedIds, ticked, namesakes, removed>>
    /\ NoFault /\ Steady

InventoryServed ==
    /\ observedCall = Asked
    /\ \E names \in Unique((Names \ suppressed) \union Managed \union {registry[a].name : a \in DOMAIN registry}) :
          observedCall' = [state |-> "answered", answer |-> names]
    /\ UNCHANGED <<registryVars, viewVars, listCall, failedList, checkedIds, mutationVars, ticked, namesakes, removed>>
    /\ NoFault /\ Steady

InventoryReceived ==
    /\ observedCall \notin {NoListCall, Asked}
    /\ observedCall' = NoListCall /\ observed' = observedCall.answer
    /\ UNCHANGED <<registryVars, list, selectedId, editing, form, listCall, failedList, checkedIds, mutationVars, ticked, namesakes, removed>>
    /\ NoFault /\ Steady

Updated(a, n) == registry' = [registry EXCEPT ![a] = [name |-> n, version |-> @.version + 1]]
Gone(a) == a \in DOMAIN registry /\ registry' = Restrict(registry, DOMAIN registry \ {a})

\* Another administrator registers, changes or removes an application.
ElsewhereChanges ==
    /\ changes < MaxChanges /\ changes' = changes + 1
    /\ \E a \in Apps :
          \/ \E n \in Names : a \in DOMAIN registry /\ Updated(a, n)
          \/ Gone(a)
          \/ /\ a \notin DOMAIN registry \union removed
             /\ \E n \in Names :
                   registry' = [b \in DOMAIN registry \union {a} |->
                                   IF b = a THEN [name |-> n, version |-> 0] ELSE registry[b]]
    /\ UNCHANGED <<suppressed, viewVars, callVars, checkedIds, mutationVars, ticked, namesakes, removed, portfolioActs>>
    /\ NoFault

(***************************************************************************)
(* Looking at one application and editing it.                              *)
(***************************************************************************)
OperatorKeeps == UNCHANGED <<registryVars, observed, removed, changes, failedList>> /\ NoFault

refresh ==
    /\ Operates /\ listCall = NoListCall
    /\ Refetch /\ RefreshProjects
    /\ saving' = Released(saving) /\ deleting' = Released(deleting) /\ bulk' = Released(bulk)
    /\ UNCHANGED <<list, selectedId, editing, form, checkedIds, ticked, namesakes>>
    /\ OperatorKeeps

inspect(a) ==
    /\ Operates /\ a \in DOMAIN list
    /\ Settles(a, list)
    /\ editing' = FALSE
    /\ UNCHANGED <<listCall, observedCall, checkedIds, mutationVars, ticked, namesakes>>
    /\ OperatorKeeps

ToggleEdit ==
    /\ Operates /\ selectedId # None
    /\ editing' = ~editing
    /\ UNCHANGED <<list, selectedId, form, listCall, observedCall, checkedIds, mutationVars, ticked, namesakes>>
    /\ OperatorKeeps

Type ==
    /\ Operates /\ editing /\ selectedId # None /\ ~form.typed
    /\ \E n \in Names : form' = [form EXCEPT !.name = n, !.typed = TRUE]
    /\ UNCHANGED <<list, selectedId, editing, listCall, observedCall, checkedIds, mutationVars, ticked, namesakes>>
    /\ OperatorKeeps

\* The mutation takes the identity from the selection and the rest from the form.
submitEdit ==
    /\ Operates /\ editing /\ selectedId # None /\ saving = None
    /\ saving' = [id |-> selectedId, input |-> form, stage |-> "sent", waits |-> TRUE]
    /\ UNCHANGED <<list, selectedId, editing, form, listCall, observedCall, checkedIds, deleting, bulk, ticked, namesakes>>
    /\ OperatorKeeps

\* The request is refused, or its answer lost after the server did it: the
\* mutation fails, and nothing is loaded anew.
SaveServed ==
    /\ saving # None /\ saving.stage = "sent"
    /\ \/ /\ saving.id \in DOMAIN registry /\ Updated(saving.id, saving.input.name)
          /\ saving' = [saving EXCEPT !.stage = "saved"]
          /\ deleting' = Released(deleting) /\ bulk' = Released(bulk)
          /\ Refetch /\ NoFault
       \/ /\ saving' = None /\ UNCHANGED <<deleting, bulk, listCall>>
          /\ \/ saving.id \notin DOMAIN registry /\ UNCHANGED registry /\ NoFault
             \/ saving.id \in DOMAIN registry /\ Updated(saving.id, saving.input.name) /\ Faults
    /\ UNCHANGED <<suppressed, viewVars, observedCall, failedList, checkedIds, ticked, namesakes, removed>>
    /\ Steady

SaveDone ==
    /\ saving # None /\ saving.stage = "saved" /\ ~saving.waits
    /\ saving' = None /\ editing' = FALSE
    /\ UNCHANGED <<registryVars, list, observed, selectedId, form, callVars, checkedIds, deleting, bulk, ticked, namesakes, removed>>
    /\ NoFault /\ Steady

remove ==
    /\ Operates /\ selectedId # None /\ deleting = None
    /\ deleting' = [id |-> selectedId, stage |-> "sent", waits |-> TRUE]
    /\ UNCHANGED <<list, selectedId, editing, form, listCall, observedCall, checkedIds, saving, bulk, ticked, namesakes>>
    /\ OperatorKeeps

DeleteServed ==
    /\ deleting # None /\ deleting.stage = "sent"
    /\ \/ /\ Gone(deleting.id)
          /\ removed' = removed \union {deleting.id}
          /\ deleting' = [deleting EXCEPT !.stage = "deleted"]
          /\ Settles(None, list) /\ editing' = FALSE
          /\ Refetch
          /\ saving' = Released(saving) /\ bulk' = Released(bulk)
          /\ NoFault
       \/ /\ \/ deleting.id \notin DOMAIN registry /\ UNCHANGED registry /\ NoFault
             \/ Gone(deleting.id) /\ Faults
          /\ deleting' = None
          /\ UNCHANGED <<removed, list, selectedId, form, editing, listCall, saving, bulk>>
    /\ UNCHANGED <<suppressed, observed, observedCall, failedList, checkedIds, ticked, namesakes>>
    /\ Steady

DeleteDone ==
    /\ deleting # None /\ deleting.stage = "deleted" /\ ~deleting.waits
    /\ deleting' = None /\ RefreshProjects
    /\ UNCHANGED <<registryVars, viewVars, listCall, failedList, checkedIds, saving, bulk, ticked, namesakes, removed>>
    /\ NoFault /\ Steady

(***************************************************************************)
(* Removal of all rows that are checked.                                   *)
(***************************************************************************)
toggleRow(row) ==
    /\ Operates /\ row \in selectableRows
    /\ checkedIds' = IF row \in checkedIds THEN checkedIds \ {row} ELSE checkedIds \union {row}
    /\ ticked' = IF row \in checkedIds THEN ticked \ {row} ELSE ticked \union {row}
    /\ UNCHANGED <<list, selectedId, editing, form, listCall, observedCall, mutationVars, namesakes>>
    /\ OperatorKeeps

allSelected == selectableRows # {} /\ selectableRows \subseteq checkedIds

toggleAll ==
    /\ Operates /\ selectableRows # {}
    /\ checkedIds' = IF allSelected THEN {} ELSE selectableRows
    /\ ticked' = checkedIds'
    /\ UNCHANGED <<list, selectedId, editing, form, listCall, observedCall, mutationVars, namesakes>>
    /\ OperatorKeeps

bulkRemove ==
    /\ Operates /\ bulk = None
    /\ LET targets == tableRows \intersect checkedIds IN
          /\ targets # {}
          /\ bulk' = [todo |-> {[row |-> t, name |-> Named(t)] : t \in targets}, ok |-> {}, failed |-> {}, stage |-> "sent", waits |-> TRUE]
    /\ UNCHANGED <<list, selectedId, editing, form, listCall, observedCall, checkedIds, saving, deleting, ticked, namesakes>>
    /\ OperatorKeeps

\* One target after the other; an answer may be lost after the server did it.
BulkServed ==
    /\ bulk # None /\ bulk.todo # {}
    /\ \E t \in bulk.todo :
          LET row == t.row
              succeeds == bulk' = [bulk EXCEPT !.todo = @ \ {t}, !.ok = @ \union {row}]
              fails == bulk' = [bulk EXCEPT !.todo = @ \ {t}, !.failed = @ \union {t.name}]
          IN  \/ /\ row \in Names
                 /\ suppressed' = suppressed \union {row} /\ UNCHANGED <<registry, removed>>
                 /\ \/ succeeds /\ NoFault
                    \/ fails /\ Faults
              \/ /\ row \in Apps /\ Gone(row) /\ UNCHANGED suppressed
                 /\ \/ succeeds /\ removed' = removed \union {row} /\ NoFault
                    \/ fails /\ UNCHANGED removed /\ Faults
              \/ /\ row \in Apps \ DOMAIN registry
                 /\ fails /\ UNCHANGED <<registryVars, removed>> /\ NoFault
              \/ fails /\ UNCHANGED <<registryVars, removed>> /\ Faults
    /\ UNCHANGED <<viewVars, callVars, checkedIds, saving, deleting, ticked, namesakes>>
    /\ Steady

OfName(n) == {r \in tableRows : Named(r) = n}

\* Mutant: what stays checked is every row that was not removed.
RecheckedRest(failed) == tableRows \ bulk.ok

\* The first row of the table that has the name of a target that failed.
\* Registrations come first, and no two observed rows have one name.
Rechecked(failed) ==
    {LET registered == OfName(n) \intersect Apps
     IN  IF registered # {} THEN Min(registered) ELSE n :
        n \in {f \in failed : OfName(f) # {}}}

BulkRemoved ==
    /\ bulk # None /\ bulk.todo = {} /\ bulk.stage = "sent"
    /\ bulk' = [bulk EXCEPT !.stage = "deleted"]
    /\ checkedIds' = Rechecked(bulk.failed)
    /\ Settles(None, list) /\ editing' = FALSE
    /\ Refetch
    /\ saving' = Released(saving) /\ deleting' = Released(deleting)
    /\ namesakes' = namesakes \union UNION {OfName(n) : n \in bulk.failed}
    /\ UNCHANGED <<registryVars, observed, observedCall, failedList, ticked, removed>>
    /\ NoFault /\ Steady

BulkDone ==
    /\ bulk # None /\ bulk.stage = "deleted" /\ ~bulk.waits
    /\ bulk' = None /\ RefreshProjects
    /\ UNCHANGED <<registryVars, viewVars, listCall, failedList, checkedIds, saving, deleting, ticked, namesakes, removed>>
    /\ NoFault /\ Steady

PortfolioNext ==
    \/ ListServed \/ ListReceived \/ InventoryServed \/ InventoryReceived \/ ElsewhereChanges
    \/ refresh \/ (\E a \in Apps : inspect(a)) \/ ToggleEdit \/ Type \/ submitEdit \/ SaveServed \/ SaveDone
    \/ remove \/ DeleteServed \/ DeleteDone
    \/ (\E r \in Apps \union Names : toggleRow(r)) \/ toggleAll
    \/ bulkRemove \/ BulkServed \/ BulkRemoved \/ BulkDone

PortfolioSpec == PortfolioInit /\ [][PortfolioNext]_portfolioVars

(***************************************************************************)
(* What the portfolio promises.                                            *)
(***************************************************************************)

\* What is saved for an application was filled in from that application, although the
\* row that is edited may vanish from the list and another take its place.
SavesItsOwnRow == saving # None => saving.input.of = saving.id

\* Whatever fails, vanishes, is renamed or comes back under another identity during a
\* bulk removal, what stays checked, to be removed next, was checked by the operator or
\* had the name of a row the removal could not remove.  And the platform's own row, which
\* cannot be checked, is removed only as such a namesake.
OnlyChosenRows ==
    /\ checkedIds \subseteq (ticked \ Managed) \union namesakes
    /\ bulk # None => \A t \in bulk.todo : t.row \in Managed => t.row \in namesakes

\* A registration the server said it removed is not in the list once that is loaded,
\* although a request from before the removal may be out.
RemovedIsGone ==
    (listCall = NoListCall /\ ~failedList) => \A a \in removed : a \in DOMAIN list =>
        \/ bulk # None /\ bulk.stage = "sent" /\ a \in bulk.ok

\* An edit or a removal is of the rows the operator chose, and it is seen in the list.
ActsOnTheChosen == SavesItsOwnRow /\ OnlyChosenRows /\ RemovedIsGone
=============================================================================
