-------------------------- MODULE IncidentProjection --------------------------
(***************************************************************************)
(* The event store and the projection row of one incident:                 *)
(* save_incident_event and project_recent_incident_events of               *)
(* common/repository.py, as the services' handlers and the projection      *)
(* worker of monitoring-adapter call them.                                 *)
(*                                                                         *)
(* Each call runs in a database session of its own.  The session reads the *)
(* projection row (a consistent snapshot), works on the object it has      *)
(* read, and its commit stores the event and writes the columns of the     *)
(* object that were assigned a new value.  Nothing locks the row between   *)
(* the read and the commit, so sessions of different services may overlap. *)
(* Of the columns, the model keeps the three that identify the latest      *)
(* event: the others are copied from the same event.  Of the other         *)
(* incidents it keeps that their events stand in the same table, where the *)
(* worker's limit counts them.                                             *)
(*                                                                         *)
(* External (SQLAlchemy and the database): WriteBack, the snapshot, and    *)
(* the error a second INSERT of the row meets.                             *)
(***************************************************************************)
EXTENDS Integers, Sequences, FiniteSets, SequencesExt

CONSTANTS
    Sessions,     \* handlers that save events
    Events,       \* those of this incident
    OtherEvents,  \* those of other incidents
    TimeOf,       \* produced_at, which becomes created_at
    StatusOf,     \* state.status
    NoEvent,
    Limit,        \* how many of the newest events the worker replays
    MaxFailures   \* bound on commits that fail for the database's own reasons

\* _STATUS_PRECEDENCE
Precedence ==
    [unknown |-> 0, open |-> 1, investigating |-> 2, awaiting_approval |-> 3,
     remediating |-> 4, validating |-> 5, failed |-> 6, closed |-> 7]

Statuses == DOMAIN Precedence

ASSUME ProjectionAssumption ==
    /\ IsFiniteSet(Events)
    /\ NoEvent \notin Events
    /\ IsFiniteSet(OtherEvents)
    /\ Events \intersect OtherEvents = {}
    /\ \A e \in Events \union OtherEvents : TimeOf[e] \in Nat \ {0}
    /\ \A e \in Events : StatusOf[e] \in Statuses
    /\ Limit \in Nat \ {0}
    /\ MaxFailures \in Nat

(***************************************************************************)
(* _upsert_projection_from_record, on the loaded object.                   *)
(***************************************************************************)

NoTime == 0

\* The object made for an incident that has no row yet.
Fresh == [status |-> "open", at |-> NoTime, event |-> NoEvent]

Projections ==
    [status : Statuses, at : Nat, event : Events \union {NoEvent}]

Columns == {"status", "at", "event"}

\* "Do not regress projection lifecycle when two events share the same
\* timestamp."
Regresses(p, e) ==
    \/ TimeOf[e] < p.at
    \/ TimeOf[e] = p.at /\ Precedence[StatusOf[e]] < Precedence[p.status]

Projected(e) == [status |-> StatusOf[e], at |-> TimeOf[e], event |-> e]

\* Mutant: an event as old as the latest one is taken for older.
UpsertStrictly(p, e) == IF TimeOf[e] <= p.at THEN p ELSE Projected(e)

Upsert(p, e) == IF Regresses(p, e) THEN p ELSE Projected(e)

\* An object a session holds, and the columns its flushes have written.
Loaded(p) == [object |-> p, dirty |-> {}]

Apply(held, e) ==
    LET new == Upsert(held.object, e)
    IN  [object |-> new,
         dirty |-> held.dirty \union {c \in Columns : new[c] # held.object[c]}]

(***************************************************************************)
(* The database and the sessions.                                          *)
(***************************************************************************)
VARIABLES
    stored,      \* incident_events, of this incident
    others,      \* and of the others
    projections, \* incident_projections: no row, or one
    saving,      \* the event each handler's open session saves, or NoEvent
    held,        \* the object it works on
    inserting,   \* was there no row when it looked?
    replaying,   \* is the worker's session open?
    queue,       \* the events it has yet to replay
    replayed,    \* the object it works on
    failures,
    openTogether \* history: two sessions have been open at once

handlerVars == <<saving, held, inserting>>
workerVars == <<replaying, queue, replayed>>
projectionVars ==
    <<stored, others, projections, handlerVars, workerVars, failures, openTogether>>

NothingHeld == Loaded(Fresh)

ProjectionInit ==
    /\ stored = {}
    /\ others = {}
    /\ projections = {}
    /\ saving = [s \in Sessions |-> NoEvent]
    /\ held = [s \in Sessions |-> NothingHeld]
    /\ inserting = [s \in Sessions |-> FALSE]
    /\ replaying = FALSE
    /\ queue = <<>>
    /\ replayed = NothingHeld
    /\ failures = 0
    /\ openTogether = FALSE

SomeOpen == replaying \/ \E s \in Sessions : saving[s] # NoEvent

\* UPDATE sets the columns the session changed, and no others.
WriteBack(h) ==
    \E p \in projections :
        projections' = {[c \in Columns |-> IF c \in h.dirty THEN h.object[c] ELSE p[c]]}

CloseSession(s) ==
    /\ saving' = [saving EXCEPT ![s] = NoEvent]
    /\ held' = [held EXCEPT ![s] = NothingHeld]
    /\ inserting' = [inserting EXCEPT ![s] = FALSE]

\* save_incident_event, up to the commit: the event is merged, the row read,
\* and the object brought up to date.
BeginSave(s, e) ==
    /\ saving[s] = NoEvent
    /\ e \notin stored
    /\ \A r \in Sessions : saving[r] # e
    /\ saving' = [saving EXCEPT ![s] = e]
    /\ inserting' = [inserting EXCEPT ![s] = (projections = {})]
    /\ \/ /\ projections = {}
          /\ held' = [held EXCEPT ![s] = Apply(NothingHeld, e)]
       \/ \E p \in projections : held' = [held EXCEPT ![s] = Apply(Loaded(p), e)]
    /\ openTogether' = (openTogether \/ SomeOpen)
    /\ UNCHANGED <<stored, others, projections, workerVars, failures>>

CommitSave(s) ==
    /\ saving[s] # NoEvent
    /\ \/ inserting[s] /\ projections = {} /\ projections' = {held[s].object}
       \/ ~ inserting[s] /\ WriteBack(held[s])
    /\ stored' = stored \union {saving[s]}
    /\ CloseSession(s)
    /\ UNCHANGED <<others, workerVars, failures, openTogether>>

\* The commit raises and the session rolls back, event and all: another
\* session has inserted the row meanwhile, or the database fails.  The
\* message is handled again, and the event saved by another session.
FailSave(s) ==
    /\ saving[s] # NoEvent
    /\ \/ inserting[s] /\ projections # {} /\ UNCHANGED failures
       \/ failures < MaxFailures /\ failures' = failures + 1
    /\ CloseSession(s)
    /\ UNCHANGED <<stored, others, projections, workerVars, openTogether>>

\* An event of another incident is saved, and that incident's row with it.
OtherSaved(o) ==
    /\ o \notin others
    /\ others' = others \union {o}
    /\ UNCHANGED <<stored, projections, handlerVars, workerVars, failures, openTogether>>

Kept(all) == IF Cardinality(all) < Limit THEN Cardinality(all) ELSE Limit

\* Mutant: .order_by(created_at) without .desc()
OldestFirst(all) ==
    {rows \in SUBSET all :
        /\ Cardinality(rows) = Kept(all)
        /\ \A e \in rows, f \in all \ rows : TimeOf[e] <= TimeOf[f]}

\* .order_by(created_at.desc()).limit(safe_limit), over the events of every
\* incident; which of several events of one time are among the rows is open.
Limited(all) ==
    {rows \in SUBSET all :
        /\ Cardinality(rows) = Kept(all)
        /\ \A e \in rows, f \in all \ rows : TimeOf[f] <= TimeOf[e]}

\* rows.sort(created_at); ties come in any order.
Sorted(rows) ==
    {q \in SetToSeqs(rows) : \A i, j \in DOMAIN q : i < j => TimeOf[q[i]] <= TimeOf[q[j]]}

BeginReplay ==
    /\ ~ replaying
    /\ \E p \in projections : replayed' = Loaded(p)
    /\ \E rows \in Limited(stored \union others) : \E q \in Sorted(rows) : queue' = q
    /\ replaying' = TRUE
    /\ openTogether' = (openTogether \/ SomeOpen)
    /\ UNCHANGED <<stored, others, projections, handlerVars, failures>>

\* Each event moves the row of its own incident.
ReplayOne ==
    /\ replaying
    /\ queue # <<>>
    /\ \/ Head(queue) \in Events /\ replayed' = Apply(replayed, Head(queue))
       \/ Head(queue) \in OtherEvents /\ UNCHANGED replayed
    /\ queue' = Tail(queue)
    /\ UNCHANGED <<stored, others, projections, handlerVars, replaying, failures, openTogether>>

EndReplay ==
    /\ replaying' = FALSE
    /\ queue' = <<>>
    /\ replayed' = NothingHeld
    /\ UNCHANGED <<stored, others, handlerVars, openTogether>>

CommitReplay ==
    /\ replaying
    /\ queue = <<>>
    /\ WriteBack(replayed)
    /\ EndReplay
    /\ UNCHANGED failures

\* _record_worker_failure; the next round tries again.
FailReplay ==
    /\ replaying
    /\ failures < MaxFailures
    /\ failures' = failures + 1
    /\ EndReplay
    /\ UNCHANGED projections

Save(s) == (\E e \in Events : BeginSave(s, e)) \/ CommitSave(s) \/ FailSave(s)

Replay == BeginReplay \/ ReplayOne \/ CommitReplay \/ FailReplay

ProjectionNext ==
    \/ Replay
    \/ \E s \in Sessions : Save(s)
    \/ \E o \in OtherEvents : OtherSaved(o)

\* Handlers save their events in the end (a failed message is retried), and
\* the worker never stops; nothing is assumed of who goes first.
ProjectionFairness == WF_projectionVars(Replay) /\ \A s \in Sessions : WF_projectionVars(Save(s))

ProjectionSpec == ProjectionInit /\ [][ProjectionNext]_projectionVars

ProjectionFairSpec == ProjectionSpec /\ ProjectionFairness

(***************************************************************************)
(* Properties.                                                             *)
(***************************************************************************)
Held == [object : Projections, dirty : SUBSET Columns]

ProjectionTypeOK ==
    /\ stored \subseteq Events
    /\ others \subseteq OtherEvents
    /\ projections \subseteq Projections
    /\ \A p, q \in projections : p = q
    /\ saving \in [Sessions -> Events \union {NoEvent}]
    /\ held \in [Sessions -> Held]
    /\ inserting \in [Sessions -> BOOLEAN]
    /\ replaying \in BOOLEAN
    /\ queue \in Seq(stored \union others)
    /\ replayed \in Held
    /\ failures \in 0 .. MaxFailures
    /\ openTogether \in BOOLEAN

\* e is at least as new as f, by the order _upsert_projection_from_record uses.
AtLeastAsNew(e, f) ==
    \/ TimeOf[e] > TimeOf[f]
    \/ TimeOf[e] = TimeOf[f] /\ Precedence[StatusOf[e]] >= Precedence[StatusOf[f]]

Latest == {e \in stored : \A f \in stored : AtLeastAsNew(e, f)}

\* As long as no two sessions have overlapped, the projection shows the latest
\* event of the store, in whatever order the events arrived, with failed and
\* repeated saves and replays in between.
SerialProjectionIsLatest ==
    ~ openTogether =>
        \/ projections = {} /\ stored = {}
        \/ \E e \in Latest : projections = {Projected(e)}

\* Whatever overlapped: no session makes up a value, every column of the row
\* is that of an event in the store.
ColumnsFromStore ==
    \A p \in projections :
        /\ p.event \in stored
        /\ \E e \in stored : p.at = TimeOf[e]
        /\ \E e \in stored : p.status = StatusOf[e]

\* The row tells nothing but what the store tells, and all of it as long as sessions
\* follow each other.
RowTellsTheStore == SerialProjectionIsLatest /\ ColumnsFromStore

\* So many events of other incidents are as new as e that no replay is sure
\* to reach e, or what is newer than e, any more.
PushedOut(e) == Cardinality({o \in others : TimeOf[e] <= TimeOf[o]}) >= Limit

\* A lost update is not the last word while the worker reaches the event: when
\* handlers and worker go on, the projection's latest_event_at reaches, and
\* keeps, that of every event stored, unless other incidents push it out of
\* the replay first.
LatestTimeConverges ==
    <>[](\A e \in stored : PushedOut(e) \/ \E p \in projections : TimeOf[e] <= p.at)

\* docs/INCIDENT_ALERT_METADATA_LAYER.md:119-121, the projection table is
\* "Updated by projection workers from the event store": once every event is
\* stored, the worker brings the row to the status of the latest event.
StatusConverges ==
    <>[](\E p \in projections, e \in Latest : p.status = StatusOf[e])
=============================================================================
