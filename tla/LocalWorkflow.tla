----------------------------- MODULE LocalWorkflow -----------------------------
(***************************************************************************)
(* The workflow monitoring-adapter runs in its own process when the topics *)
(* are not used: run_local_payment_workflow and continue_pending_workflow  *)
(* of monitoring-adapter/app.py, for one incident.                         *)
(*                                                                         *)
(* The workflow analyses an alert and, for a severe one, stops with a row  *)
(* in pending_workflows; a continuation, requested over HTTP with a        *)
(* person's decision, goes on from that row.  Both write to the database   *)
(* in a chain of transactions (persist_step): a failure between two leaves *)
(* what came before, and continuations of one incident may overlap.        *)
(* A new workflow makes a new incident, so one workflow is enough.         *)
(*                                                                         *)
(* The projection of the events is the subject of IncidentProjection; here *)
(* the incidents table is followed.                                        *)
(***************************************************************************)
EXTENDS Integers, FiniteSets

CONSTANTS
    Requests,    \* requests for a continuation
    Workflow,    \* the workflow itself
    Nothing,
    MaxFaults    \* bound on failed steps and restarts

ASSUME LocalAssumption ==
    /\ Workflow \notin Requests
    /\ Nothing \notin Requests \union {Workflow, "succeeded", "failed", "skipped", "refused",
                     "approved", "modified", "unlisted", "rejected", "malformed"}
    /\ Requests \intersect {"none", "pending", "refused"} = {}
    /\ MaxFaults \in Nat

Writers == Requests \union {Workflow}

\* decision_map, with a modification to an action that is on the list or not,
\* and a request whose flow, recommendation or decision is not the right one.
Kinds == {"approved", "modified", "unlisted", "rejected", "malformed"}

(***************************************************************************)
(* The stages, each but "execute" and "closing" one transaction, and the   *)
(* stage that follows it.                                                  *)
(***************************************************************************)
Analysing ==
    [alert |-> "assigned", assigned |-> "item1", item1 |-> "item2", item2 |-> "selected",
     selected |-> "item3", item3 |-> "recommendation"]

Recommending ==
    [recommendation |-> "item4", item4 |-> "generated"]

Pausing ==
    [pendingApproval |-> "pendingWorkflow", pendingWorkflow |-> "done"]

Remediating ==
    [approval |-> "item5", item5 |-> "execute", execute |-> "action", action |-> "item6",
     item6 |-> "report", report |-> "item7", item7 |-> "closing", closing |-> "closed",
     closed |-> "done"]

\* Mutant: the workflow is marked completed ahead of the closing transaction.
ContinuingMarksFirst ==
    [approval |-> "execute", execute |-> "action", action |-> "items", items |-> "completed",
     completed |-> "closing", closing |-> "closed", closed |-> "done"]

Continuing ==
    [approval |-> "execute", execute |-> "action", action |-> "items", items |-> "closing",
     closing |-> "closed", closed |-> "completed", completed |-> "done"]

Stages ==
    {"idle", "done", "failed"} \union DOMAIN Analysing \union DOMAIN Recommending
        \union {"generated"} \union DOMAIN Pausing \union DOMAIN Remediating
        \union DOMAIN Continuing

VARIABLES
    setting,     \* the alert's severity, and settings.database_enabled
    stage,       \* the stage each writer is about to enter
    kind,        \* what each request asks for
    outcome,     \* action.status of each writer
    saw,         \* the incident's status as the closing transaction read it
    answer,      \* whose final payload a request was answered with
    rows,        \* the transactions committed: <<stage, writer>>
    incident,    \* incidents.status
    pending,     \* pending_workflows: no row, pending, or whose completed payload
    listed,      \* CLOSED_INCIDENTS, in memory
    faults,
    overlapped   \* history: two continuations have been under way at once

controls == <<setting, kind, faults, overlapped>>
vars == <<controls, stage, outcome, saw, answer, rows, incident, pending, listed>>

Pending == "pending"
NoRow == "none"
Refused == "refused"

Init ==
    /\ setting \in [high : BOOLEAN, database : BOOLEAN]
    /\ stage = [w \in Writers |-> IF w = Workflow THEN "alert" ELSE "idle"]
    /\ kind = [q \in Requests |-> Nothing]
    /\ outcome = [w \in Writers |-> Nothing]
    /\ saw = [w \in Writers |-> Nothing]
    /\ answer = [q \in Requests |-> Nothing]
    /\ rows = {}
    /\ incident = NoRow
    /\ pending = NoRow
    /\ listed = {}
    /\ faults = 0
    /\ overlapped = FALSE

Busy(w) == stage[w] \notin {"idle", "done", "failed"}

\* if requires_human_approval and not auto_approve: both endpoints pass FALSE.
Branch == IF setting.high THEN "pendingApproval" ELSE "approval"

After(w) ==
    CASE w \in Requests -> Continuing[stage[w]]
      [] w = Workflow /\ stage[w] = "generated" -> Branch
      [] w = Workflow /\ stage[w] \in DOMAIN Analysing -> Analysing[stage[w]]
      [] w = Workflow /\ stage[w] \in DOMAIN Recommending -> Recommending[stage[w]]
      [] w = Workflow /\ stage[w] \in DOMAIN Pausing -> Pausing[stage[w]]
      [] w = Workflow /\ stage[w] \in DOMAIN Remediating -> Remediating[stage[w]]

GoOn(w) == stage' = [stage EXCEPT ![w] = After(w)]

\* persist_step: the transaction of the stage commits; without a database it
\* writes nothing.
Committed(w) ==
    rows' = IF setting.database THEN rows \union {<<stage[w], w>>} ELSE rows

(***************************************************************************)
(* The steps.                                                              *)
(***************************************************************************)
\* A transaction that only adds rows: alerts, work items, events, approvals,
\* actions, reports.  The first one also inserts the incident.
Persist(w) ==
    /\ Busy(w)
    /\ stage[w] \notin {"execute", "closing", "closed", "pendingWorkflow", "completed"}
    /\ Committed(w)
    /\ incident' = IF setting.database /\ stage[w] = "alert" THEN "open" ELSE incident
    /\ GoOn(w)
    /\ UNCHANGED <<controls, outcome, saw, answer, pending, listed>>

\* Mutant: the pending workflow is kept in memory even with a database.
SavePendingInMemory ==
    /\ stage[Workflow] = "pendingWorkflow"
    /\ Committed(Workflow)
    /\ GoOn(Workflow)
    /\ UNCHANGED <<controls, outcome, saw, answer, incident, pending, listed>>

\* The workflow pauses: save_pending_workflow, and the caller is answered.
SavePending ==
    /\ stage[Workflow] = "pendingWorkflow"
    /\ Committed(Workflow)
    /\ pending' = IF setting.database THEN Pending ELSE pending
    /\ GoOn(Workflow)
    /\ UNCHANGED <<controls, outcome, saw, answer, incident, listed>>

\* A request comes in: a completed workflow is answered with its payload, an
\* unknown or mismatched one with 404 or 400.  Without a database the payload
\* in memory is looked for under a key it does not have: 404.
Load(q) ==
    /\ stage[q] = "idle"
    /\ kind' \in {[kind EXCEPT ![q] = k] : k \in Kinds}
    /\ \/ /\ pending \in Requests
          /\ stage' = [stage EXCEPT ![q] = "done"]
          /\ answer' = [answer EXCEPT ![q] = pending]
       \/ /\ pending = NoRow \/ (pending = Pending /\ kind'[q] = "malformed")
          /\ stage' = [stage EXCEPT ![q] = "done"]
          /\ answer' = [answer EXCEPT ![q] = Refused]
       \/ /\ pending = Pending /\ kind'[q] # "malformed"
          /\ stage' = [stage EXCEPT ![q] = "approval"]
          /\ UNCHANGED answer
    /\ overlapped' = (overlapped \/ (Busy(q)' /\ \E r \in Requests : Busy(r)))
    /\ UNCHANGED <<setting, faults, outcome, saw, rows, incident, pending, listed>>

\* Mutant: a rejection is not told from an approval.
OutcomesAlike(w) ==
    IF w \in Requests /\ kind[w] = "unlisted"
    THEN {"skipped"}
    ELSE {"succeeded", "failed"}

\* A rejection executes nothing, and the safety controller blocks an action
\* that is not on its list; otherwise the tool runs.
Outcomes(w) ==
    IF w \in Requests /\ kind[w] \in {"rejected", "unlisted"}
    THEN {"skipped"}
    ELSE {"succeeded", "failed"}

Execute(w) ==
    /\ stage[w] = "execute"
    /\ outcome' \in {[outcome EXCEPT ![w] = o] : o \in Outcomes(w)}
    /\ GoOn(w)
    /\ UNCHANGED <<controls, saw, answer, rows, incident, pending, listed>>

\* _record_closed_incident, and the closing transaction reads the incident.
BeginClose(w) ==
    /\ stage[w] = "closing"
    /\ listed' = listed \union {w}
    /\ saw' = [saw EXCEPT ![w] = incident]
    /\ GoOn(w)
    /\ UNCHANGED <<controls, outcome, answer, rows, incident, pending>>

\* closure_report.health_restored decides.
Final(w) == IF outcome[w] = "succeeded" THEN "closed" ELSE "failed"

\* It commits the event, and of the incident a status other than the one read.
\* The workflow itself commits the event alone.
CommitClose(w) ==
    /\ stage[w] = "closed"
    /\ Committed(w)
    /\ incident' = IF w \in Requests /\ Final(w) # saw[w] THEN Final(w) ELSE incident
    /\ saw' = [saw EXCEPT ![w] = Nothing]
    /\ GoOn(w)
    /\ UNCHANGED <<controls, outcome, answer, pending, listed>>

\* Mutant: the row is cleared instead of marked.
CompleteClears(q) ==
    /\ stage[q] = "completed"
    /\ Committed(q)
    /\ pending' = NoRow
    /\ answer' = [answer EXCEPT ![q] = q]
    /\ GoOn(q)
    /\ UNCHANGED <<controls, outcome, saw, incident, listed>>

\* mark_pending_workflow_completed, and the client gets the payload.
Complete(q) ==
    /\ stage[q] = "completed"
    /\ Committed(q)
    /\ pending' = q
    /\ answer' = [answer EXCEPT ![q] = q]
    /\ GoOn(q)
    /\ UNCHANGED <<controls, outcome, saw, incident, listed>>

\* A transaction, an agent or a tool raises: the request ends with an error.
Fail(w) ==
    /\ Busy(w)
    /\ faults < MaxFaults
    /\ faults' = faults + 1
    /\ stage' = [stage EXCEPT ![w] = "failed"]
    /\ UNCHANGED <<setting, kind, overlapped, outcome, saw, answer, rows, incident, pending, listed>>

\* The process restarts; the database stays.
Restart ==
    /\ faults < MaxFaults
    /\ faults' = faults + 1
    /\ stage' = [w \in Writers |-> IF Busy(w) THEN "failed" ELSE stage[w]]
    /\ listed' = {}
    /\ UNCHANGED <<setting, kind, overlapped, outcome, saw, answer, rows, incident, pending>>

Work(w) ==
    \/ Persist(w)
    \/ Execute(w)
    \/ BeginClose(w)
    \/ CommitClose(w)
    \/ w = Workflow /\ SavePending
    \/ w \in Requests /\ Complete(w)

Next ==
    \/ \E w \in Writers : Work(w) \/ Fail(w)
    \/ \E q \in Requests : Load(q)
    \/ Restart

Spec == Init /\ [][Next]_vars

\* The event loop runs every request it has accepted; no client has to come.
Fairness == \A w \in Writers : WF_vars(Work(w))

FairSpec == Spec /\ Fairness
--------------------------------------------------------------------------------
TypeOK ==
    /\ setting \in [high : BOOLEAN, database : BOOLEAN]
    /\ stage \in [Writers -> Stages]
    /\ kind \in [Requests -> Kinds \union {Nothing}]
    /\ outcome \in [Writers -> {"succeeded", "failed", "skipped", Nothing}]
    /\ saw \in [Writers -> {NoRow, "open", "closed", "failed", Nothing}]
    /\ answer \in [Requests -> Requests \union {Refused, Nothing}]
    /\ rows \subseteq Stages \X Writers
    /\ incident \in {NoRow, "open", "closed", "failed"}
    /\ pending \in Requests \union {NoRow, Pending}
    /\ listed \subseteq Writers
    /\ faults \in 0 .. MaxFaults
    /\ overlapped \in BOOLEAN

Executed(w) == outcome[w] \in {"succeeded", "failed"}

\* A tool runs on a severe incident only for a person's approval or permitted
\* modification of the paused workflow, and never before that decision is in
\* the approvals table; by itself the workflow runs one only when not severe.
ExecutionsDecided ==
    /\ \A q \in Requests :
         Executed(q) => kind[q] \in {"approved", "modified"} /\ <<"approval", q>> \in rows
    /\ Executed(Workflow) =>
         ~ setting.high /\ (setting.database => <<"approval", Workflow>> \in rows)

Recorded(q) == \A s \in {"approval", "action", "items", "closed"} : <<s, q>> \in rows

\* However continuations overlap, fail and are repeated: a final payload a
\* client has got, be it its own or a stored one, is that of a continuation
\* whose decision, action, report and closing event are all in the database,
\* and from then on the workflow is completed by a continuation like that.
AnswersAreRecorded ==
    /\ pending \in Requests => Recorded(pending)
    /\ \A q \in Requests :
         answer[q] \in Requests => Recorded(answer[q]) /\ pending \in Requests

\* When continuations come one after the other, through failures and restarts:
\* all clients get the same payload, the incident has the status that payload
\* says, and when nothing has failed the tool has run at most once.
SerialIsConsistent ==
    ~ overlapped =>
        /\ \A q \in Requests : answer[q] \in Requests => answer[q] = pending
        /\ pending \in Requests => incident = Final(pending)
        /\ faults = 0 => \A q, r \in Requests : Executed(q) /\ Executed(r) => q = r

\* Whatever a client was told is so, and continuations that came one after the other
\* were told the same.
ContinuationsAgree == AnswersAreRecorded /\ SerialIsConsistent

\* docs/ENTERPRISE_HARDENING_PLAN.md:61, "Restart during pending approval does
\* not lose continuation ability.": with a database, a well-formed request for a
\* workflow that has paused is never refused, whatever happened in between.
PausedIsResumable ==
    [][ stage[Workflow] = "done" /\ setting.high /\ setting.database =>
          \A q \in Requests :
            stage[q] = "idle" /\ kind'[q] \in Kinds \ {"malformed"} => answer'[q] # Refused ]_vars

\* A continuation that does not itself fail completes the workflow, for good.
ContinuationsSettle ==
    \A q \in Requests :
        stage[q] = "approval" ~> (stage[q] = "failed" \/ [](pending \in Requests))

================================================================================
