---------------------------- MODULE ApprovalDesk ----------------------------
(***************************************************************************)
(* The desk from which an operator decides on recommendations and runs     *)
(* them: the queue of pending approvals, the approval form of an alert,    *)
(* and the execution tab of its cockpit, where a plan is rehearsed,        *)
(* approved and run.  One form, filled by the selection, by effects and by *)
(* answers, names the incident and the recommendation of all of them; one  *)
(* execution state locks the gate of the cockpit while a plan runs.        *)
(*                                                                         *)
(* An alert, its incident and its recommendation have one name, which the  *)
(* rows of the queue and of the stream know.  A plan is the move that      *)
(* edited it last, or the change of the hydrated details that suggested    *)
(* it; its signature is the alert and the plan.  The                       *)
(* ten-second throttle of the context, and whether a plan is live, are     *)
(* left out.  The dry run and the execution are services behind the        *)
(* gateway.                                                                *)
(***************************************************************************)
EXTENDS Integers, Sequences, FiniteSets

CONSTANTS
    Incidents,  \* incidents, each with its alert and its recommendation
    None,       \* no incident
    MaxClicks,  \* bound on dry runs, approvals and executions asked for in the cockpit
    MaxMoves,   \* bound on everything else an operator does
    MaxDisturbances \* bound on answers lost or failed and on changes of the suggested plan

ASSUME DeskAssumption == None \notin Incidents

VARIABLES
    view,       \* [tab, alert]: the tab of the cockpit, or the queue; the alert selected
    pending,    \* the rows shown as waiting for an approval
    desk,       \* [chosen, form]: selectedApprovalIncidentId, and the incident of approvalForm
    loads,      \* the incidents whose context is being read
    gate,       \* of the cockpit: the plan, the one suggested, the signatures that passed,
                \* what the details say
    exec,       \* remediationExecutionState: [loading, result]
    calls,      \* handlers that await an answer
    polls,      \* the incidents whose terminal status is polled
    timer,      \* whether the details of the alert will be read again
    server,     \* [approved, rehearsed, runs]: incidents, signatures, a sequence of runs
    seen,       \* what the effects of the last commit saw
    spent       \* counters of the bounds

vars == <<view, pending, desk, loads, gate, exec, calls, polls, timer, server, seen, spent>>

NoSignature == <<None, 0>>
Signature == <<view.alert, gate.plan>>

Shown == [view |-> view, pending |-> pending, chosen |-> desk.chosen]
Settled == seen = Shown

Closed == [plan |-> 0,
           suggested |-> 0,             \* what the hydrated details and the connection suggest
           rehearsed |-> NoSignature,   \* executionPreflightState that passed
           approved |-> NoSignature,    \* approvedExecutionSignature
           renewal |-> FALSE,           \* executionApprovalRequiresRenewal
           accepted |-> FALSE,          \* the details say it was approved
           ended |-> FALSE,             \* the details name an action that ended
           busy |-> FALSE]              \* approvalState.loading
Idle == [loading |-> FALSE, result |-> FALSE]

DeskInit ==
    /\ view = [tab |-> "queue", alert |-> None]
    /\ pending = Incidents
    /\ desk = [chosen |-> None, form |-> None]
    /\ loads = {}
    /\ gate = Closed /\ exec = Idle
    /\ calls = {} /\ polls = {} /\ timer = FALSE
    /\ server = [approved |-> {}, rehearsed |-> {}, runs |-> <<>>]
    /\ seen = [Shown EXCEPT !.pending = {}]
    /\ spent = [clicks |-> 0, moves |-> 0, changes |-> 0, faults |-> 0]

Spend(kind, bound) ==
    /\ spent[kind] < bound
    /\ spent' = [spent EXCEPT ![kind] = @ + 1]

\* What nobody asked for has one bound.
Disturb(kind) == spent.faults + spent.changes < MaxDisturbances /\ Spend(kind, MaxDisturbances)

First(rows) == IF rows = {} THEN None ELSE CHOOSE i \in rows : TRUE

(***************************************************************************)
(* The context of an incident                                              *)
(***************************************************************************)
\* loadApprovalIncidentContext: dropped while the last one asked for is this one.
Asked(ls, i) == ls \cup ({i} \ {None})

\* The answer fills the form, whatever incident is chosen by then.
ContextAnswer(i) ==
    /\ Settled /\ i \in loads
    /\ desk' = [desk EXCEPT !.form = i]
    /\ loads' = loads \ {i}
    /\ UNCHANGED <<view, pending, gate, exec, calls, polls, timer, server, seen, spent>>

ContextFails(i) ==
    /\ Settled /\ i \in loads /\ Disturb("faults")
    /\ loads' = loads \ {i}
    /\ UNCHANGED <<view, pending, desk, gate, exec, calls, polls, timer, server, seen>>

(***************************************************************************)
(* Effects of a commit, in the order of the source                         *)
(***************************************************************************)
\* The form follows the incident chosen.
Following(d) ==
    IF d.chosen \notin {None, seen.chosen} THEN [d EXCEPT !.form = d.chosen] ELSE d

\* The incident chosen is one of the queue, except beside the form of an alert.
Queueing(d) ==
    IF (view.tab = "approval" /\ view.alert # None) \/ desk.chosen \in pending THEN d
    ELSE [d EXCEPT !.chosen = First(pending)]

\* Entering the execution tab chooses the incident of its alert.
Entered == view.tab = "execution" /\ view.alert # None /\ seen.view # view
Entering(d) == IF Entered THEN [chosen |-> view.alert, form |-> view.alert] ELSE d

Commit ==
    /\ ~Settled
    /\ desk' = Entering(Queueing(Following(desk)))
    /\ loads' = LET chosen == IF desk.chosen # seen.chosen THEN Asked(loads, desk.chosen) ELSE loads
                IN IF Entered THEN Asked(chosen, view.alert) ELSE chosen
    /\ IF view.alert # seen.view.alert
       THEN /\ gate' = [Closed EXCEPT !.busy = gate.busy, !.suggested = gate.suggested,
                                      !.plan = gate.suggested]
            /\ exec' = Idle /\ timer' = FALSE
       ELSE UNCHANGED <<gate, exec, timer>>
    /\ seen' = Shown
    /\ UNCHANGED <<view, pending, calls, polls, server, spent>>

\* No edit and no suggestion had this number.
Fresh == spent.moves + spent.changes + 1

\* The details or the connection of the alert on the screen come to suggest something
\* else, or the same plan for another connection: the effect that follows puts the
\* suggestion in the place of any edit and ends the wait for a run, but takes back no
\* dry run and no approval.
Hydrate ==
    /\ Settled /\ view.alert # None /\ Disturb("changes")
    /\ \E plan \in {gate.suggested, Fresh} :
           gate' = [gate EXCEPT !.suggested = plan, !.plan = plan]
    /\ exec' = Idle /\ timer' = FALSE
    /\ UNCHANGED <<view, pending, desk, loads, calls, polls, server, seen>>

(***************************************************************************)
(* The operator                                                            *)
(***************************************************************************)
Go(tab, alert) ==
    /\ Settled /\ Spend("moves", MaxMoves)
    /\ view' = [tab |-> tab, alert |-> alert] /\ view' # view
    /\ alert = None => tab = "queue"
    /\ UNCHANGED <<pending, desk, loads, gate, exec, calls, polls, timer, server, seen>>

\* selectApprovalIncident, by a row of the queue or from the alert it belongs to.
Choose(i) ==
    /\ Settled /\ i \in pending /\ Spend("moves", MaxMoves)
    /\ desk' = [chosen |-> i, form |-> i]
    /\ gate' = [gate EXCEPT !.busy = FALSE]
    /\ loads' = Asked(loads, i)
    /\ UNCHANGED <<view, pending, exec, calls, polls, timer, server, seen>>

\* The reject form of a row is opened or closed, which ends the wait of the desk.
ToggleReject ==
    /\ Settled /\ view.tab = "queue" /\ desk.chosen \in pending
    /\ gate.busy /\ Spend("moves", MaxMoves)
    /\ gate' = [gate EXCEPT !.busy = FALSE]
    /\ UNCHANGED <<view, pending, desk, loads, exec, calls, polls, timer, server, seen>>

EditAllowed == Settled /\ view.tab = "execution" /\ Spend("moves", MaxMoves)
UnchangedByEdit ==
    UNCHANGED <<view, pending, desk, loads, exec, calls, polls, timer, server, seen>>

EditByHand ==
    EditAllowed /\ gate' = [gate EXCEPT !.plan = Fresh] /\ UnchangedByEdit

\* resetSuggestedRemediationPlan
EditToSuggested ==
    /\ EditAllowed
    /\ gate' = [gate EXCEPT !.plan = gate.suggested, !.rehearsed = NoSignature]
    /\ UnchangedByEdit

\* prepareLiveExecutionPlan and buildRequiredExecutor ask for a renewed approval.
EditForLive ==
    /\ EditAllowed
    /\ gate' = [gate EXCEPT !.plan = Fresh, !.rehearsed = NoSignature,
                            !.approved = NoSignature, !.renewal = TRUE]
    /\ UnchangedByEdit

CockpitKinds == {"rehearse", "approve", "cockpit"}

\* A handler that has asked for something: the incident, recommendation and signature
\* are those of the render its button was clicked in.
Asks(kind, incident) ==
    /\ IF kind \in CockpitKinds THEN Spend("clicks", MaxClicks) ELSE Spend("moves", MaxMoves)
    /\ calls' = calls \cup
         {[kind |-> kind, incident |-> incident,
           signature |-> IF kind \in CockpitKinds THEN Signature ELSE NoSignature,
           chosen |-> desk.chosen = incident,
           stage |-> IF kind = "rehearse" THEN "rehearse" ELSE "decide"]}
    /\ UNCHANGED <<view, pending, loads, polls, timer, server, seen>>

FormIncident == IF desk.form # None THEN desk.form ELSE view.alert

Rehearsed == gate.rehearsed = Signature
Accepted == gate.approved = Signature \/ (~gate.renewal /\ gate.accepted)
Waiting == exec.loading /\ exec.result

\* runExecutionPreflight
Rehearse ==
    /\ Settled /\ view.tab = "execution" /\ ~exec.loading /\ ~Rehearsed
    /\ Asks("rehearse", FormIncident)
    /\ exec' = [exec EXCEPT !.loading = TRUE]
    /\ UNCHANGED <<desk, gate>>

\* approveCockpitRemediationPlan
Approve ==
    /\ Settled /\ view.tab = "execution" /\ ~gate.busy
    /\ Rehearsed /\ ~Waiting /\ ~Accepted
    /\ Asks("approve", FormIncident)
    /\ gate' = [gate EXCEPT !.busy = TRUE]
    /\ UNCHANGED <<desk, exec>>

\* executeApprovedRemediationPlan, when every gate has passed
ExecutionAllowed == ~exec.loading /\ Rehearsed /\ Accepted

Execute ==
    /\ Settled /\ view.tab = "execution" /\ ExecutionAllowed
    /\ Asks("cockpit", FormIncident)
    /\ exec' = [loading |-> TRUE, result |-> FALSE]
    /\ UNCHANGED <<desk, gate>>

\* submitApproval, from the form beside the row under review
Submit(kind) ==
    /\ Settled /\ view.tab = "queue" /\ desk.chosen \in pending /\ ~gate.busy
    /\ Asks(kind, IF desk.form # None THEN desk.form ELSE desk.chosen)
    /\ gate' = [gate EXCEPT !.busy = TRUE]
    /\ UNCHANGED <<desk, exec>>

\* approveIncidentRow and rejectIncidentRow, for the row under review; a rejection does
\* not wait for a decision that is out.
DecideRow(kind) ==
    /\ Settled /\ view.tab = "queue" /\ desk.chosen \in pending
    /\ kind = "row" => ~gate.busy
    /\ Asks(kind, desk.chosen)
    /\ desk' = [desk EXCEPT !.form = desk.chosen]
    /\ gate' = [gate EXCEPT !.busy = TRUE]
    /\ UNCHANGED exec

(***************************************************************************)
(* What the handlers await: the dry run, the decision and the run, each    *)
(* sent again when its answer is lost                                      *)
(***************************************************************************)
Onward(k, then) == (calls \ {k}) \cup then
Rejects(k) == k.kind \in {"deskReject", "rowReject"}
OfRow(k) == k.kind \in {"row", "rowReject"}

\* Mutant: the dry run counts for the plan as it stands when the answer comes.
PassedNow(k) == Signature

\* The dry run passed: for the plan of the render it was asked for in.
Passed(k) == k.signature

RehearsalPasses(k) ==
    /\ k.stage = "rehearse"
    /\ server' = [server EXCEPT !.rehearsed = @ \cup {k.signature}]
    /\ gate' = [gate EXCEPT !.rehearsed = Passed(k)]
    /\ exec' = [loading |-> FALSE, result |-> TRUE]
    /\ calls' = Onward(k, {})
    /\ UNCHANGED <<view, pending, desk, loads, polls, timer, seen, spent>>

\* applyApprovalResolutionToUi: the rows and the details of the incident are patched.
Patched(incident, resolved) ==
    pending' = IF resolved THEN pending \ {incident} ELSE pending \cup {incident}
GatePatched(incident, approved) ==
    IF incident = view.alert THEN [gate EXCEPT !.accepted = approved] ELSE gate
Filled(k) == [desk EXCEPT !.form = k.incident]

\* A decision is recorded; a rejection runs nothing.
Recorded(k) ==
    IF Rejects(k) THEN server ELSE [server EXCEPT !.approved = @ \cup {k.incident}]

\* refreshApprovalDrivenViews reads the context again when its incident was chosen.
Refreshed(k) == IF k.chosen THEN Asked(loads, k.incident) ELSE loads

Decided(k) ==
    /\ k.stage = "decide"
    /\ server' = Recorded(k)
    /\ \/ /\ k.kind = "approve"
          /\ Patched(k.incident, TRUE)
          /\ desk' = Filled(k) /\ loads' = Refreshed(k)
          /\ gate' = [GatePatched(k.incident, TRUE) EXCEPT
                        !.approved = k.signature, !.renewal = FALSE, !.busy = FALSE]
          /\ calls' = Onward(k, {}) /\ UNCHANGED exec
       \/ /\ Rejects(k)
          /\ Patched(k.incident, TRUE)
          /\ desk' = IF OfRow(k) THEN Filled(k) ELSE desk
          /\ loads' = Asked(loads, k.incident)
          /\ gate' = [GatePatched(k.incident, FALSE) EXCEPT !.busy = FALSE]
          /\ calls' = Onward(k, {}) /\ UNCHANGED exec
       \/ /\ k.kind \in {"cockpit", "desk", "row"}
          /\ calls' = Onward(k, {[k EXCEPT !.stage = "run"]})
          /\ gate' = [gate EXCEPT !.busy = @ /\ k.kind # "cockpit"]
          /\ exec' = IF k.kind = "cockpit" THEN exec ELSE [loading |-> TRUE, result |-> FALSE]
          /\ UNCHANGED <<pending, desk, loads>>
    /\ UNCHANGED <<view, polls, timer, seen, spent>>

Run(k, done) == [incident |-> k.incident, signature |-> k.signature, via |-> k.kind, done |-> done]
Started(k, done) == [server EXCEPT !.runs = Append(@, Run(k, done))]

\* postRemediationExecution: an answer that is not terminal keeps the gate locked, unless
\* the details already name an action that ended.
RunAnswered(k, done, failed) ==
    /\ k.stage = "run" /\ (failed => done)
    /\ server' = Started(k, done)
    /\ exec' = [loading |-> ~done /\ ~gate.ended, result |-> TRUE]
    /\ timer' = (exec'.loading /\ view.alert # None)
    /\ Patched(k.incident, failed)
    /\ gate' = [GatePatched(k.incident, FALSE) EXCEPT !.busy = @ /\ k.kind = "cockpit"]
    /\ desk' = IF OfRow(k) THEN Filled(k) ELSE desk
    /\ loads' = IF k.kind = "cockpit" THEN Refreshed(k) ELSE Asked(loads, k.incident)
    /\ polls' = polls \cup {k.incident}
    /\ calls' = Onward(k, {})
    /\ UNCHANGED <<view, seen, spent>>

\* The answer is lost after the request was served: it is sent again.
AnswerLost(k) ==
    /\ Disturb("faults")
    /\ \/ k.stage = "decide" /\ server' = Recorded(k)
       \/ k.stage = "run" /\ server' = Started(k, FALSE)
    /\ UNCHANGED <<view, pending, desk, loads, gate, exec, calls, polls, timer, seen>>

Failed(k) ==
    /\ Disturb("faults")
    /\ calls' = Onward(k, {})
    /\ \/ /\ k.kind = "rehearse"
          /\ gate' = [gate EXCEPT !.rehearsed = NoSignature] /\ exec' = Idle
       \/ k.kind = "cockpit" /\ exec' = Idle /\ UNCHANGED gate
       \/ /\ k.kind \in {"desk", "row"} /\ gate' = [gate EXCEPT !.busy = FALSE]
          /\ exec' = IF exec.loading THEN Idle ELSE exec
       \/ /\ k.kind \in {"approve", "deskReject", "rowReject"}
          /\ gate' = [gate EXCEPT !.busy = FALSE] /\ UNCHANGED exec
    /\ UNCHANGED <<view, pending, desk, loads, polls, timer, server, seen>>

(***************************************************************************)
(* The end of a run                                                        *)
(***************************************************************************)
RunsOf(i) == {n \in DOMAIN server.runs : server.runs[n].incident = i}
\* The latest action of an incident has ended.
Ended(i) == RunsOf(i) # {} /\ server.runs[CHOOSE n \in RunsOf(i) : \A m \in RunsOf(i) : m <= n].done

RunEnds(n) ==
    /\ Settled /\ ~server.runs[n].done
    /\ server' = [server EXCEPT !.runs[n].done = TRUE]
    /\ UNCHANGED <<view, pending, desk, loads, gate, exec, calls, polls, timer, seen, spent>>

\* pollIncidentTerminalStatus reads the incident until its action has ended, or gives up
\* and has the details read once more.
PollAnswered(i, failed) ==
    /\ Settled /\ i \in polls /\ Ended(i)
    /\ exec' = [loading |-> FALSE, result |-> TRUE]
    /\ timer' = FALSE
    /\ Patched(i, failed)
    /\ gate' = GatePatched(i, FALSE)
    /\ polls' = polls \ {i}
    /\ UNCHANGED <<view, desk, loads, calls, server, seen, spent>>

PollGivesUp(i) ==
    /\ Settled /\ i \in polls /\ ~Ended(i)
    /\ polls' = polls \ {i}
    /\ timer' = (timer \/ (Waiting /\ view.alert # None))
    /\ UNCHANGED <<view, pending, desk, loads, gate, exec, calls, server, seen, spent>>

\* Mutant: the details are read once.
RearmsNever == FALSE

\* The details are read again while the gate waits; only new details arm the timer again.
Rearms == Waiting

DetailsRead ==
    /\ Settled /\ timer
    /\ gate' = [gate EXCEPT !.ended = Ended(view.alert),
                  !.accepted = view.alert \in server.approved]
    /\ exec' = [exec EXCEPT !.loading = @ /\ ~Ended(view.alert)]
    /\ timer' = (Rearms /\ ~Ended(view.alert))
    /\ UNCHANGED <<view, pending, desk, loads, calls, polls, server, seen, spent>>

DetailsFail ==
    /\ Settled /\ timer /\ Disturb("faults")
    /\ timer' = FALSE
    /\ UNCHANGED <<view, pending, desk, loads, gate, exec, calls, polls, server, seen>>

Operates ==
    \/ \E tab \in {"execution", "approval", "queue"}, i \in Incidents \cup {None} : Go(tab, i)
    \/ \E i \in Incidents : Choose(i)
    \/ EditByHand \/ EditToSuggested \/ EditForLive
    \/ Rehearse \/ Approve \/ Execute
    \/ Submit("desk") \/ Submit("deskReject") \/ DecideRow("row") \/ DecideRow("rowReject")
    \/ ToggleReject

CallAnswered(k) ==
    /\ Settled
    /\ \/ RehearsalPasses(k) \/ Decided(k)
       \/ \E done, failed \in BOOLEAN : RunAnswered(k, done, failed)

DeskNext ==
    \/ Operates
    \/ Commit \/ Hydrate
    \/ \E i \in Incidents : ContextAnswer(i) \/ ContextFails(i)
    \/ \E k \in calls : CallAnswered(k) \/ (Settled /\ (AnswerLost(k) \/ Failed(k)))
    \/ \E n \in DOMAIN server.runs : RunEnds(n)
    \/ \E i \in Incidents : PollGivesUp(i) \/ \E failed \in BOOLEAN : PollAnswered(i, failed)
    \/ DetailsRead \/ DetailsFail

\* React commits, requests are answered, timers fire and runs end.
DeskFairness ==
    /\ WF_vars(Commit)
    /\ WF_vars(\E i \in Incidents : ContextAnswer(i))
    /\ WF_vars(\E k \in calls : CallAnswered(k))
    /\ WF_vars(\E n \in DOMAIN server.runs : RunEnds(n))
    /\ WF_vars(\E i \in Incidents : PollGivesUp(i) \/ \E failed \in BOOLEAN : PollAnswered(i, failed))
    /\ WF_vars(DetailsRead)

DeskSpec == DeskInit /\ [][DeskNext]_vars /\ DeskFairness

(***************************************************************************)
(* Properties                                                              *)
(***************************************************************************)
Runs == {server.runs[n] : n \in DOMAIN server.runs}

Kinds == CockpitKinds \cup {"desk", "deskReject", "row", "rowReject"}
AnyIncident == Incidents \cup {None}
Signatures == AnyIncident \X Nat
Calls == [kind : Kinds, incident : AnyIncident, signature : Signatures, chosen : BOOLEAN,
          stage : {"rehearse", "decide", "run"}]
Executions == [incident : AnyIncident, signature : Signatures, via : Kinds, done : BOOLEAN]

DeskTypeOK ==
    /\ view \in [tab : {"queue", "approval", "execution"}, alert : AnyIncident]
    /\ pending \subseteq AnyIncident
    /\ desk \in [chosen : AnyIncident, form : AnyIncident]
    /\ loads \subseteq Incidents
    /\ gate \in [plan : Nat, suggested : Nat, rehearsed : Signatures, approved : Signatures,
                 renewal : BOOLEAN, accepted : BOOLEAN, ended : BOOLEAN, busy : BOOLEAN]
    /\ exec \in [loading : BOOLEAN, result : BOOLEAN]
    /\ calls \subseteq Calls
    /\ polls \subseteq AnyIncident /\ timer \in BOOLEAN
    /\ server \in [approved : SUBSET AnyIncident, rehearsed : SUBSET Signatures, runs : Seq(Executions)]
    /\ spent \in [clicks : Nat, moves : Nat, changes : Nat, faults : Nat]

\* The cockpit only runs a plan of an alert that passed a dry run as it stands: edits,
\* resets and moves to another alert while the dry run was out do not let it through.
RehearsedFirst == \A r \in Runs : r.via = "cockpit" => r.signature \in server.rehearsed

\* Whatever is run, on any of the three ways, a decision to run was recorded first for
\* the very incident sent with it.
DecidedFirst == \A r \in Runs : r.incident \in server.approved

\* Nothing is run that was not rehearsed and decided before.
ReviewedFirst == RehearsedFirst /\ DecidedFirst

\* The gate of an operator who stays on the alert whose plan runs opens again by itself
\* when nothing fails, also when the run outlasts its poll.
GateOpensAgain ==
    <>[](spent.faults = 0) /\ <>[](\A r \in Runs : r.incident = view.alert) => <>[]~Waiting

\* A plan is run on the incident of the alert it was reviewed for.
RunsOnItsIncident == \A r \in Runs : r.via = "cockpit" => r.incident = r.signature[1]

=============================================================================
