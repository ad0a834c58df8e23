----------------------- MODULE MonitoringAdapterProofs -----------------------
(***************************************************************************)
(* Proofs about the two parts of the monitoring adapter.                   *)
(*                                                                         *)
(* IncidentProjection: for every set of events with any times and          *)
(* statuses, any number of handlers and any replay limit.                  *)
(*                                                                         *)
(* LocalWorkflow: for every set of requests and any number of faults.      *)
(* What a continuation has recorded follows from the stage it has reached, *)
(* and that it may go on at all from the row it has loaded: StagesInv and  *)
(* RecordsInv say so.  LocalSerialInv is what makes continuations that do  *)
(* not overlap agree.                                                      *)
(***************************************************************************)
EXTENDS IncidentProjection, LocalWorkflow, FiniteSetTheorems, SequenceTheorems, TLAPS

USE ProjectionAssumption

(***************************************************************************)
(* The projection object.                                                  *)
(***************************************************************************)
LEMMA RankIsNat == \A st \in Statuses : Precedence[st] \in Nat
<1> SUFFICES ASSUME NEW st \in Statuses
             PROVE  Precedence[st] \in Nat
  OBVIOUS
<1>1. st \in {"unknown", "open", "investigating", "awaiting_approval",
              "remediating", "validating", "failed", "closed"}
  BY DEF Statuses, Precedence
<1> QED
  BY <1>1 DEF Precedence

LEMMA FreshIsProjection == Fresh \in Projections
BY DEF Fresh, Projections, Statuses, Precedence, NoTime

LEMMA ProjectedIsProjection ==
    ASSUME NEW e \in Events
    PROVE  Projected(e) \in Projections
BY DEF Projected, Projections

LEMMA UpsertIsProjection ==
    ASSUME NEW p \in Projections, NEW e \in Events
    PROVE  Upsert(p, e) \in Projections
BY ProjectedIsProjection DEF Upsert

\* Objects with equal columns are equal.
LEMMA SameColumns ==
    ASSUME NEW p \in Projections, NEW q \in Projections,
           \A c \in Columns : p[c] = q[c]
    PROVE  p = q
BY DEF Projections, Columns

LEMMA AnyEventProjects ==
    ASSUME NEW e \in Events
    PROVE  Upsert(Fresh, e) = Projected(e)
BY DEF Upsert, Regresses, Fresh, NoTime

\* Two events that reach the upsert in either order leave the same lifecycle:
\* the same status and the same time.  This is why events of one incident may
\* be delivered, retried and replayed in any order by sessions that do not
\* overlap.
THEOREM UpsertOrderIndependent ==
    ASSUME NEW p \in Projections, NEW e \in Events, NEW f \in Events
    PROVE  LET ef == Upsert(Upsert(p, e), f)
               fe == Upsert(Upsert(p, f), e)
           IN  /\ ef.at = fe.at
               /\ Precedence[ef.status] = Precedence[fe.status]
<1> DEFINE rank(st) == Precedence[st]
<1>1. /\ p.at \in Nat /\ p.status \in Statuses
      /\ TimeOf[e] \in Nat /\ TimeOf[f] \in Nat
      /\ StatusOf[e] \in Statuses /\ StatusOf[f] \in Statuses
  BY DEF Projections
<1>2. rank(p.status) \in Nat /\ rank(StatusOf[e]) \in Nat /\ rank(StatusOf[f]) \in Nat
  BY <1>1, RankIsNat
<1> QED
  BY <1>1, <1>2 DEF Upsert, Regresses, Projected

\* Replaying an event a projection already shows changes nothing.
THEOREM UpsertIdempotent ==
    ASSUME NEW p \in Projections, NEW e \in Events
    PROVE  Upsert(Upsert(p, e), e) = Upsert(p, e)
<1>1. TimeOf[e] \in Nat /\ Precedence[StatusOf[e]] \in Nat
  BY RankIsNat
<1> QED
  BY <1>1 DEF Upsert, Regresses, Projected

(***************************************************************************)
(* The latest event.                                                       *)
(***************************************************************************)
LEMMA NewerIsOrder ==
    ASSUME NEW e \in Events, NEW f \in Events, NEW g \in Events
    PROVE  /\ AtLeastAsNew(e, e)
           /\ AtLeastAsNew(e, f) \/ AtLeastAsNew(f, e)
           /\ AtLeastAsNew(e, f) /\ AtLeastAsNew(f, g) => AtLeastAsNew(e, g)
<1>1. /\ TimeOf[e] \in Nat /\ TimeOf[f] \in Nat /\ TimeOf[g] \in Nat
      /\ Precedence[StatusOf[e]] \in Nat
      /\ Precedence[StatusOf[f]] \in Nat
      /\ Precedence[StatusOf[g]] \in Nat
  BY RankIsNat
<1> QED
  BY <1>1 DEF AtLeastAsNew

\* The upsert moves a projection on exactly when the event is as new.
LEMMA UpsertProjected ==
    ASSUME NEW e \in Events, NEW f \in Events
    PROVE  Upsert(Projected(e), f) =
               IF AtLeastAsNew(f, e) THEN Projected(f) ELSE Projected(e)
<1>1. /\ TimeOf[e] \in Nat /\ TimeOf[f] \in Nat
      /\ Precedence[StatusOf[e]] \in Nat
      /\ Precedence[StatusOf[f]] \in Nat
  BY RankIsNat
<1>2. Regresses(Projected(e), f) <=> ~ AtLeastAsNew(f, e)
  BY <1>1 DEF Regresses, Projected, AtLeastAsNew
<1> QED
  BY <1>2 DEF Upsert

\* One more event in the store.
LEMMA LatestGrows ==
    ASSUME stored \subseteq Events, NEW e \in Latest, NEW f \in Events,
           stored' = stored \union {f}
    PROVE  IF AtLeastAsNew(f, e) THEN f \in Latest' ELSE e \in Latest'
<1>1. e \in Events /\ e \in stored /\ \A g \in stored : AtLeastAsNew(e, g)
  BY DEF Latest
<1>2. CASE AtLeastAsNew(f, e)
  <2>1. \A g \in stored : AtLeastAsNew(f, g)
    BY <1>1, <1>2, NewerIsOrder
  <2> QED
    BY <1>2, <2>1, NewerIsOrder DEF Latest
<1>3. CASE ~ AtLeastAsNew(f, e)
  <2>1. AtLeastAsNew(e, f)
    BY <1>1, <1>3, NewerIsOrder
  <2> QED
    BY <1>1, <1>3, <2>1 DEF Latest
<1> QED
  BY <1>2, <1>3

(***************************************************************************)
(* Types.                                                                  *)
(***************************************************************************)
LEMMA LoadedIsHeld ==
    ASSUME NEW p \in Projections
    PROVE  Loaded(p) \in Held
BY DEF Loaded, Held

LEMMA ApplyIsHeld ==
    ASSUME NEW h \in Held, NEW e \in Events
    PROVE  Apply(h, e) \in Held
<1>1. h.object \in Projections /\ h.dirty \subseteq Columns
  BY DEF Held
<1>2. Upsert(h.object, e) \in Projections
  BY <1>1, UpsertIsProjection
<1> QED
  BY <1>1, <1>2 DEF Apply, Held

LEMMA NothingIsHeld == NothingHeld \in Held
BY FreshIsProjection, LoadedIsHeld DEF NothingHeld

\* What an UPDATE leaves in the row.
Merged(h, p) == [c \in Columns |-> IF c \in h.dirty THEN h.object[c] ELSE p[c]]

LEMMA MergedIsProjection ==
    ASSUME NEW h \in Held, NEW p \in Projections
    PROVE  Merged(h, p) \in Projections
<1>1. h.object \in Projections
  BY DEF Held
<1> QED
  BY <1>1 DEF Merged, Projections, Columns

LEMMA WriteBackType ==
    ASSUME NEW h \in Held, projections \subseteq Projections, \A p, q \in projections : p = q,
           WriteBack(h)
    PROVE  projections' \subseteq Projections /\ \A p, q \in projections' : p = q
<1>1. PICK p \in projections : projections' = {Merged(h, p)}
  BY DEF WriteBack, Merged
<1> QED
  BY <1>1, MergedIsProjection

LEMMA SortedType ==
    ASSUME stored \subseteq Events, others \subseteq OtherEvents,
           NEW batch \in Limited(stored \union others), NEW q \in Sorted(batch)
    PROVE  q \in Seq(stored \union others)
<1> DEFINE all == stored \union others
<1>1. IsFiniteSet(all)
  BY FS_Subset, FS_Union
<1>2. batch \subseteq all
  BY DEF Limited
<1>3. Cardinality(batch) \in Nat
  BY <1>1, <1>2, FS_Subset, FS_CardinalityType
<1>4. q \in [1 .. Cardinality(batch) -> batch]
  BY DEF Sorted, SetToSeqs
<1> QED
  BY <1>2, <1>3, <1>4

LEMMA TypeInit == ProjectionInit => ProjectionTypeOK
<1> SUFFICES ASSUME ProjectionInit PROVE ProjectionTypeOK
  OBVIOUS
<1>1. queue \in Seq(stored \union others)
  BY EmptySeq DEF ProjectionInit
<1>2. held \in [Sessions -> Held] /\ replayed \in Held
  BY NothingIsHeld DEF ProjectionInit
<1>3. saving \in [Sessions -> Events \union {NoEvent}]
      /\ inserting \in [Sessions -> BOOLEAN]
  BY DEF ProjectionInit
<1>4. failures \in 0 .. MaxFailures
  BY DEF ProjectionInit
<1> QED
  BY <1>1, <1>2, <1>3, <1>4 DEF ProjectionInit, ProjectionTypeOK

LEMMA TypeStep == ProjectionTypeOK /\ [ProjectionNext]_projectionVars => ProjectionTypeOK'
<1> SUFFICES ASSUME ProjectionTypeOK, [ProjectionNext]_projectionVars PROVE ProjectionTypeOK'
  OBVIOUS
<1> USE DEF ProjectionTypeOK
<1>1. ASSUME NEW s \in Sessions, NEW e \in Events, BeginSave(s, e)
      PROVE  ProjectionTypeOK'
  <2> USE <1>1 DEF BeginSave, workerVars
  <2>1. held' \in [Sessions -> Held]
    <3>1. CASE projections = {} /\ held' = [held EXCEPT ![s] = Apply(NothingHeld, e)]
      BY <3>1, NothingIsHeld, ApplyIsHeld
    <3>2. ASSUME NEW p \in projections, held' = [held EXCEPT ![s] = Apply(Loaded(p), e)]
          PROVE  held' \in [Sessions -> Held]
      BY <3>2, LoadedIsHeld, ApplyIsHeld
    <3> QED
      BY <3>1, <3>2
  <2>2. saving' \in [Sessions -> Events \union {NoEvent}]
    OBVIOUS
  <2>3. inserting' \in [Sessions -> BOOLEAN]
    BY Zenon
  <2>4. openTogether' \in BOOLEAN
    BY Zenon DEF SomeOpen
  <2> QED
    BY <2>1, <2>2, <2>3, <2>4
<1>2. ASSUME NEW s \in Sessions, CloseSession(s)
      PROVE  /\ saving' \in [Sessions -> Events \union {NoEvent}]
             /\ held' \in [Sessions -> Held]
             /\ inserting' \in [Sessions -> BOOLEAN]
  BY <1>2, NothingIsHeld DEF CloseSession
<1>3. ASSUME NEW s \in Sessions, CommitSave(s)
      PROVE  ProjectionTypeOK'
  <2> USE <1>3 DEF CommitSave, workerVars
  <2>1. held[s] \in Held /\ held[s].object \in Projections
    BY DEF Held
  <2>2. projections' \subseteq Projections /\ \A p, q \in projections' : p = q
    BY <2>1, WriteBackType
  <2>3. stored \union others \subseteq (stored \union others)' /\ stored' \subseteq Events
    OBVIOUS
  <2>4. queue' \in Seq(stored \union others)'
    BY <2>3, SeqMonotonic
  <2> QED
    BY <1>2, <2>2, <2>3, <2>4
<1>4. ASSUME NEW s \in Sessions, FailSave(s)
      PROVE  ProjectionTypeOK'
  BY <1>2, <1>4 DEF FailSave, workerVars
<1>5. CASE BeginReplay
  <2>1. replayed' \in Held
    BY <1>5, LoadedIsHeld DEF BeginReplay
  <2>2. queue' \in Seq(stored \union others)
    BY <1>5, SortedType DEF BeginReplay
  <2>3. openTogether' \in BOOLEAN
    BY <1>5, Zenon DEF BeginReplay, SomeOpen
  <2> QED
    BY <1>5, <2>1, <2>2, <2>3 DEF BeginReplay, handlerVars
<1>6. CASE ReplayOne
  <2>1. Tail(queue) \in Seq(stored \union others)
    BY <1>6, HeadTailProperties DEF ReplayOne
  <2>2. replayed' \in Held
    BY <1>6, ApplyIsHeld DEF ReplayOne
  <2> QED
    BY <1>6, <2>1, <2>2 DEF ReplayOne, handlerVars
<1>7. CASE CommitReplay \/ FailReplay
  <2>1. projections' \subseteq Projections /\ \A p, q \in projections' : p = q
    BY <1>7, WriteBackType DEF CommitReplay, FailReplay
  <2>2. queue' \in Seq(stored \union others)'
    <3>1. queue' = <<>> /\ stored' = stored /\ others' = others
      BY <1>7 DEF CommitReplay, FailReplay, EndReplay
    <3> QED
      BY <3>1, EmptySeq
  <2>3. failures' \in 0 .. MaxFailures
    BY <1>7 DEF CommitReplay, FailReplay
  <2> QED
    BY <1>7, <2>1, <2>2, <2>3, NothingIsHeld
       DEF CommitReplay, FailReplay, EndReplay, handlerVars
<1>8. CASE UNCHANGED projectionVars
  BY <1>8 DEF projectionVars, handlerVars, workerVars
<1>9. ASSUME NEW o \in OtherEvents, OtherSaved(o)
      PROVE  ProjectionTypeOK'
  <2>1. stored \union others \subseteq (stored \union others)' /\ others' \subseteq OtherEvents
    BY <1>9 DEF OtherSaved
  <2>2. queue' \in Seq(stored \union others)'
    BY <1>9, <2>1, SeqMonotonic DEF OtherSaved, workerVars
  <2> QED
    BY <1>9, <2>1, <2>2 DEF OtherSaved, handlerVars, workerVars
<1> QED
  BY <1>1, <1>3, <1>4, <1>5, <1>6, <1>7, <1>8, <1>9 DEF ProjectionNext, Save, Replay

\* Every variable keeps its range: there is never more than one projection row
\* for the incident, whoever inserts it first.
THEOREM TypeCorrect == ProjectionSpec => []ProjectionTypeOK
BY TypeInit, TypeStep, PTL DEF ProjectionSpec

(***************************************************************************)
(* The strengthening of SerialProjectionIsLatest that is inductive: while  *)
(* nothing has overlapped, at most one session is open; its object is what *)
(* the upsert makes of the row, and the columns it will not write are      *)
(* those in which its object and the row agree.                            *)
(***************************************************************************)
Agrees(h, p) == \A c \in Columns \ h.dirty : h.object[c] = p[c]

LEMMA AgreesLoaded ==
    ASSUME NEW p
    PROVE  Agrees(Loaded(p), p) /\ Loaded(p).object = p
BY DEF Agrees, Loaded

LEMMA AgreesApply ==
    ASSUME NEW h, NEW p, NEW e, Agrees(h, p)
    PROVE  Agrees(Apply(h, e), p) /\ Apply(h, e).object = Upsert(h.object, e)
BY DEF Agrees, Apply

\* So the UPDATE leaves exactly the session's object in the row.
LEMMA AgreesMerged ==
    ASSUME NEW h \in Held, NEW p \in Projections, Agrees(h, p)
    PROVE  Merged(h, p) = h.object
<1>1. \A c \in Columns : Merged(h, p)[c] = h.object[c]
  BY DEF Merged, Agrees
<1>2. h.object \in Projections
  BY DEF Held
<1> QED
  BY <1>1, <1>2, MergedIsProjection, SameColumns

LEMMA AgreesWriteBack ==
    ASSUME NEW h \in Held, projections \subseteq Projections,
           \A p \in projections : Agrees(h, p), WriteBack(h)
    PROVE  projections' = {h.object}
<1>1. PICK p \in projections : projections' = {Merged(h, p)}
  BY DEF WriteBack, Merged
<1> QED
  BY <1>1, AgreesMerged

ShowsLatest ==
    \/ projections = {} /\ stored = {}
    \/ \E e \in Latest : projections = {Projected(e)}

SaveFits ==
    \A s \in Sessions :
        saving[s] # NoEvent =>
            /\ ~ replaying
            /\ \A t \in Sessions : saving[t] # NoEvent => t = s
            /\ projections = {} => held[s].object = Projected(saving[s])
            /\ projections # {} => ~ inserting[s]
            /\ \A p \in projections : /\ held[s].object = Upsert(p, saving[s])
                               /\ Agrees(held[s], p)

ReplayFits ==
    replaying =>
        /\ \E e \in Latest : replayed.object = Projected(e)
        /\ \A p \in projections : Agrees(replayed, p)

SerialInv ==
    /\ ProjectionTypeOK
    /\ ~ openTogether => ShowsLatest /\ SaveFits /\ ReplayFits

LEMMA SerialInit == ProjectionInit => SerialInv
BY TypeInit DEF ProjectionInit, SerialInv, ShowsLatest, SaveFits, ReplayFits

LEMMA SerialStep == SerialInv /\ [ProjectionNext]_projectionVars => SerialInv'
<1> SUFFICES ASSUME SerialInv, [ProjectionNext]_projectionVars, ~ openTogether'
             PROVE  (ShowsLatest /\ SaveFits /\ ReplayFits)'
  BY TypeStep DEF SerialInv
<1>1. ProjectionTypeOK /\ ProjectionTypeOK'
  BY TypeStep DEF SerialInv
<1>2. ~ openTogether
  BY Zenon DEF ProjectionNext, Save, Replay, BeginSave, CommitSave, FailSave, BeginReplay,
               OtherSaved, ReplayOne, CommitReplay, FailReplay, EndReplay, projectionVars
<1>3. ShowsLatest /\ SaveFits /\ ReplayFits
  BY <1>2 DEF SerialInv
<1>4. /\ projections \subseteq Projections
      /\ stored \subseteq Events
      /\ held \in [Sessions -> Held]
      /\ saving \in [Sessions -> Events \union {NoEvent}]
      /\ inserting \in [Sessions -> BOOLEAN]
      /\ replayed \in Held
  BY <1>1 DEF ProjectionTypeOK
\* A session that closes leaves no other open.
<1>5. ASSUME NEW s \in Sessions, saving[s] # NoEvent, CloseSession(s),
             UNCHANGED workerVars
      PROVE  SaveFits' /\ ReplayFits'
  <2>1. ~ replaying /\ \A t \in Sessions : saving[t] # NoEvent => t = s
    BY <1>3, <1>5 DEF SaveFits
  <2>2. \A t \in Sessions : saving'[t] = NoEvent
    BY <1>4, <1>5, <2>1 DEF CloseSession
  <2>3. ~ replaying'
    BY <1>5, <2>1 DEF workerVars
  <2> QED
    BY <2>2, <2>3 DEF SaveFits, ReplayFits
<1>6. ASSUME NEW s \in Sessions, NEW e \in Events, BeginSave(s, e)
      PROVE  (ShowsLatest /\ SaveFits /\ ReplayFits)'
  <2>1. /\ UNCHANGED <<stored, projections, replaying, queue, replayed>>
        /\ saving' = [saving EXCEPT ![s] = e]
        /\ inserting' = [inserting EXCEPT ![s] = (projections = {})]
    BY <1>6 DEF BeginSave, workerVars
  <2>2. ~ replaying /\ \A t \in Sessions : saving[t] = NoEvent
    BY <1>6, Zenon DEF BeginSave, SomeOpen
  <2>3. \A t \in Sessions : saving'[t] # NoEvent => t = s
    BY <1>4, <2>1, <2>2
  <2>4. saving'[s] = e /\ inserting'[s] = (projections = {})
    BY <1>4, <2>1
  <2>5. ASSUME projections = {} PROVE held'[s].object = Projected(e)
    <3>1. held' = [held EXCEPT ![s] = Apply(NothingHeld, e)]
      BY <1>6, <2>5 DEF BeginSave
    <3>2. Apply(NothingHeld, e).object = Upsert(Fresh, e)
      BY AgreesLoaded, AgreesApply DEF NothingHeld
    <3> QED
      BY <1>4, <3>1, <3>2, AnyEventProjects
  <2>6. ASSUME NEW p \in projections
        PROVE  held'[s].object = Upsert(p, e) /\ Agrees(held'[s], p)
    <3>1. \A q \in projections : q = p
      BY <1>1 DEF ProjectionTypeOK
    <3>2. held' = [held EXCEPT ![s] = Apply(Loaded(p), e)]
      BY <1>6, <3>1 DEF BeginSave
    <3>3. held'[s] = Apply(Loaded(p), e)
      BY <1>4, <3>2
    <3> QED
      BY <3>3, AgreesLoaded, AgreesApply
  <2>7. ShowsLatest'
    BY <1>3, <2>1 DEF ShowsLatest, Latest
  <2>8. SaveFits'
    BY <2>1, <2>2, <2>3, <2>4, <2>5, <2>6 DEF SaveFits
  <2>9. ReplayFits'
    BY <2>1, <2>2 DEF ReplayFits
  <2> QED
    BY <2>7, <2>8, <2>9
<1>7. ASSUME NEW s \in Sessions, CommitSave(s)
      PROVE  (ShowsLatest /\ SaveFits /\ ReplayFits)'
  <2> DEFINE f == saving[s]
  <2>1. /\ f # NoEvent /\ f \in Events
        /\ stored' = stored \union {f}
        /\ CloseSession(s)
        /\ UNCHANGED workerVars
    BY <1>4, <1>7 DEF CommitSave
  <2>2. CASE projections = {}
    <3>1. projections' = {Projected(f)}
      <4>1. ~ WriteBack(held[s])
        BY <2>2 DEF WriteBack
      <4>2. projections' = {held[s].object}
        BY <1>7, <4>1 DEF CommitSave
      <4> QED
        BY <1>3, <2>1, <2>2, <4>2 DEF SaveFits
    <3>2. stored = {}
      BY <1>3, <2>2 DEF ShowsLatest
    <3>3. f \in Latest'
      BY <2>1, <3>2, NewerIsOrder DEF Latest
    <3> QED
      BY <1>5, <2>1, <3>1, <3>3 DEF ShowsLatest
  <2>3. CASE projections # {}
    <3>1. PICK e \in Latest : projections = {Projected(e)}
      BY <1>3, <2>3 DEF ShowsLatest
    <3>2. e \in Events
      BY <1>4 DEF Latest
    <3>3. /\ held[s].object = Upsert(Projected(e), f)
          /\ \A p \in projections : Agrees(held[s], p)
          /\ ~ inserting[s]
      BY <1>3, <2>1, <2>3, <3>1 DEF SaveFits
    <3>4. projections' = {Upsert(Projected(e), f)}
      <4>1. WriteBack(held[s])
        BY <1>7, <3>3 DEF CommitSave
      <4> QED
        BY <1>4, <3>3, <4>1, AgreesWriteBack
    <3>5. IF AtLeastAsNew(f, e) THEN f \in Latest' ELSE e \in Latest'
      BY <1>4, <2>1, LatestGrows
    <3>6. ShowsLatest'
      BY <2>1, <3>2, <3>4, <3>5, UpsertProjected DEF ShowsLatest
    <3> QED
      BY <1>5, <2>1, <3>6
  <2> QED
    BY <2>2, <2>3
<1>8. ASSUME NEW s \in Sessions, FailSave(s)
      PROVE  (ShowsLatest /\ SaveFits /\ ReplayFits)'
  <2>1. /\ saving[s] # NoEvent /\ CloseSession(s)
        /\ UNCHANGED workerVars
        /\ UNCHANGED <<stored, projections>>
    BY <1>8 DEF FailSave
  <2>2. ShowsLatest'
    BY <1>3, <2>1 DEF ShowsLatest, Latest
  <2> QED
    BY <1>5, <2>1, <2>2
<1>9. CASE BeginReplay
  <2>1. /\ UNCHANGED <<stored, projections, saving, held, inserting>>
        /\ \E p \in projections : replayed' = Loaded(p)
    BY <1>9 DEF BeginReplay, handlerVars
  <2>2. \A t \in Sessions : saving[t] = NoEvent
    BY <1>9, Zenon DEF BeginReplay, SomeOpen
  <2>3. PICK e \in Latest : projections = {Projected(e)}
    BY <1>3, <2>1 DEF ShowsLatest
  <2>4. replayed' = Loaded(Projected(e))
    BY <2>1, <2>3
  <2>5. ShowsLatest' /\ Latest' = Latest
    BY <1>3, <2>1 DEF ShowsLatest, Latest
  <2>6. ReplayFits'
    BY <2>1, <2>3, <2>4, <2>5, AgreesLoaded DEF ReplayFits
  <2> QED
    BY <2>1, <2>2, <2>5, <2>6 DEF SaveFits
\* Whatever stored event is replayed, the object goes on showing the latest.
<1>10. CASE ReplayOne /\ Head(queue) \in Events /\ replayed' = Apply(replayed, Head(queue))
  <2> DEFINE f == Head(queue)
  <2>1. /\ UNCHANGED <<stored, projections, saving, held, inserting, replaying>>
        /\ replaying
        /\ replayed' = Apply(replayed, f)
    BY <1>10 DEF ReplayOne, handlerVars
  <2>2. f \in stored
    <3>1. f \in stored \union others /\ others \subseteq OtherEvents
      BY <1>1, <1>10, HeadTailProperties DEF ReplayOne, ProjectionTypeOK
    <3> QED
      BY <1>10, <3>1
  <2>3. PICK e \in Latest : replayed.object = Projected(e)
    BY <1>3, <2>1 DEF ReplayFits
  <2>4. e \in stored /\ e \in Events /\ f \in Events
    BY <1>4, <2>2 DEF Latest
  <2>5. AtLeastAsNew(f, e) => f \in Latest
    BY <1>4, <2>2, <2>4, NewerIsOrder DEF Latest
  <2>6. Latest' = Latest /\ ShowsLatest'
    BY <1>3, <2>1 DEF ShowsLatest, Latest
  <2>7. /\ \A p \in projections : Agrees(replayed', p)
        /\ replayed'.object = Upsert(Projected(e), f)
    <3>1. ASSUME NEW p \in projections PROVE Agrees(replayed', p)
      BY <1>3, <2>1, AgreesApply DEF ReplayFits
    <3> QED
      BY <2>1, <2>3, <3>1 DEF Apply
  <2>8. ReplayFits'
    BY <2>1, <2>4, <2>5, <2>6, <2>7, UpsertProjected DEF ReplayFits
  <2>9. SaveFits'
    BY <1>3, <2>1 DEF SaveFits
  <2> QED
    BY <2>6, <2>8, <2>9
\* One of another incident, or one more of them, changes nothing here.
<1>11. CASE ReplayOne /\ UNCHANGED replayed
  BY <1>3, <1>11 DEF ReplayOne, handlerVars, ShowsLatest, SaveFits, ReplayFits, Latest
<1>12. ASSUME NEW o \in OtherEvents, OtherSaved(o)
       PROVE  (ShowsLatest /\ SaveFits /\ ReplayFits)'
  BY <1>3, <1>12
     DEF OtherSaved, handlerVars, workerVars, ShowsLatest, SaveFits, ReplayFits, Latest
<1>13. CASE CommitReplay
  <2>1. /\ UNCHANGED <<stored, saving, held, inserting>>
        /\ replaying /\ ~ replaying'
        /\ WriteBack(replayed)
    BY <1>13 DEF CommitReplay, EndReplay, handlerVars
  <2>2. projections' = {replayed.object}
    BY <1>3, <1>4, <2>1, AgreesWriteBack DEF ReplayFits
  <2>3. ShowsLatest'
    BY <1>3, <2>1, <2>2 DEF ReplayFits, ShowsLatest, Latest
  <2>4. SaveFits' /\ ReplayFits'
    BY <1>3, <2>1 DEF SaveFits, ReplayFits
  <2> QED
    BY <2>3, <2>4
<1>14. CASE FailReplay
  <2>1. /\ UNCHANGED <<stored, projections, saving, held, inserting>>
        /\ replaying /\ ~ replaying'
    BY <1>14 DEF FailReplay, EndReplay, handlerVars
  <2> QED
    BY <1>3, <2>1 DEF ShowsLatest, SaveFits, ReplayFits, Latest
<1>15. CASE UNCHANGED projectionVars
  BY <1>3, <1>15
     DEF projectionVars, handlerVars, workerVars, ShowsLatest, SaveFits, ReplayFits, Latest
<1> QED
  <2>1. ASSUME ReplayOne PROVE (ShowsLatest /\ SaveFits /\ ReplayFits)'
    BY <1>10, <1>11, <2>1 DEF ReplayOne
  <2> QED
    BY <1>6, <1>7, <1>8, <1>9, <2>1, <1>13, <1>14, <1>15, <1>12
       DEF ProjectionNext, Save, Replay

\* Sessions that do not overlap keep the projection on the latest event of the
\* store, in whatever order events arrive and however often saves and replays
\* fail or are repeated.
THEOREM SerialIsLatest == ProjectionSpec => []SerialProjectionIsLatest
<1>1. SerialInv => SerialProjectionIsLatest
  BY DEF SerialInv, ShowsLatest, SerialProjectionIsLatest
<1> QED
  BY <1>1, SerialInit, SerialStep, PTL DEF ProjectionSpec

(***************************************************************************)
(* Where the columns come from, whatever overlaps: an object's columns     *)
(* that its session will write are those of the event it saves, or of an   *)
(* event in the store.                                                     *)
(***************************************************************************)
From(columns, object, source) ==
    \A c \in columns : \E e \in source : object[c] = Projected(e)[c]

ColumnsInv ==
    /\ ProjectionTypeOK
    /\ \A p \in projections : From(Columns, p, stored)
    /\ \A s \in Sessions : saving[s] # NoEvent =>
           /\ From(held[s].dirty, held[s].object, {saving[s]})
           /\ inserting[s] => held[s].object = Projected(saving[s])
    /\ From(replayed.dirty, replayed.object, stored)

LEMMA FromMonotonic ==
    ASSUME NEW small, NEW large, small \subseteq large, NEW columns, NEW object,
           From(columns, object, small)
    PROVE  From(columns, object, large)
BY DEF From

LEMMA FromLoaded ==
    ASSUME NEW p, NEW source
    PROVE  From(Loaded(p).dirty, Loaded(p).object, source)
BY DEF From, Loaded

\* The upsert leaves the object alone or makes it the event's.
LEMMA FromApply ==
    ASSUME NEW h \in Held, NEW source, NEW e \in source,
           From(h.dirty, h.object, source)
    PROVE  From(Apply(h, e).dirty, Apply(h, e).object, source)
<1>1. CASE Regresses(h.object, e)
  <2>1. Apply(h, e) = [object |-> h.object, dirty |-> h.dirty \union {}]
    BY <1>1 DEF Apply, Upsert
  <2> QED
    BY <2>1
<1>2. CASE ~ Regresses(h.object, e)
  <2>1. Apply(h, e).object = Projected(e)
    BY <1>2 DEF Apply, Upsert
  <2> QED
    BY <2>1 DEF From
<1> QED
  BY <1>1, <1>2

\* The object made where there was no row is the event's in every column.
LEMMA FirstIsProjected ==
    ASSUME NEW e \in Events
    PROVE  Apply(NothingHeld, e).object = Projected(e)
BY AnyEventProjects DEF Apply, NothingHeld, Loaded

LEMMA FromWriteBack ==
    ASSUME NEW h \in Held, NEW source, From(h.dirty, h.object, source),
           \A p \in projections : From(Columns, p, source), WriteBack(h)
    PROVE  \A p \in projections' : From(Columns, p, source)
<1>1. PICK p \in projections : projections' = {Merged(h, p)}
  BY DEF WriteBack, Merged
<1>2. From(Columns, Merged(h, p), source)
  BY DEF From, Merged
<1> QED
  BY <1>1, <1>2

LEMMA ColumnsInit == ProjectionInit => ColumnsInv
<1> SUFFICES ASSUME ProjectionInit PROVE ColumnsInv
  OBVIOUS
<1>1. From(replayed.dirty, replayed.object, stored)
  BY FromLoaded DEF ProjectionInit, NothingHeld
<1> QED
  BY <1>1, TypeInit DEF ProjectionInit, ColumnsInv

LEMMA ColumnsStep == ColumnsInv /\ [ProjectionNext]_projectionVars => ColumnsInv'
<1> SUFFICES ASSUME ColumnsInv, [ProjectionNext]_projectionVars PROVE ColumnsInv'
  OBVIOUS
<1>t. ProjectionTypeOK'
  BY TypeStep DEF ColumnsInv
<1> DEFINE Saves(s) == saving[s] # NoEvent =>
                           /\ From(held[s].dirty, held[s].object, {saving[s]})
                           /\ inserting[s] => held[s].object = Projected(saving[s])
<1>1. ASSUME NEW s \in Sessions, NEW e \in Events, BeginSave(s, e)
      PROVE  ColumnsInv'
  <2>1. ASSUME NEW r \in Sessions, r # s
        PROVE  Saves(r)'
    BY <1>1, <2>1, Zenon DEF BeginSave, ColumnsInv, ProjectionTypeOK
  <2>2. saving'[s] = e /\ inserting'[s] = (projections = {})
    BY <1>1, Zenon DEF BeginSave, ColumnsInv, ProjectionTypeOK
  <2>3. ASSUME projections = {}, held' = [held EXCEPT ![s] = Apply(NothingHeld, e)]
        PROVE  Saves(s)'
    <3>1. held'[s] = Apply(NothingHeld, e)
      BY <2>3 DEF ColumnsInv, ProjectionTypeOK
    <3>2. From(held'[s].dirty, held'[s].object, {e})
      BY <3>1, NothingIsHeld, FromLoaded, FromApply DEF NothingHeld
    <3>3. held'[s].object = Projected(e)
      BY <3>1, FirstIsProjected
    <3> QED
      BY <2>2, <3>2, <3>3
  <2>4. ASSUME NEW p \in projections, held' = [held EXCEPT ![s] = Apply(Loaded(p), e)]
        PROVE  Saves(s)'
    <3>1. held'[s] = Apply(Loaded(p), e)
      BY <2>4 DEF ColumnsInv, ProjectionTypeOK
    <3>2. p \in Projections
      BY DEF ColumnsInv, ProjectionTypeOK
    <3>3. From(held'[s].dirty, held'[s].object, {e})
      BY <3>1, <3>2, LoadedIsHeld, FromLoaded, FromApply
    <3>4. projections # {}
      OBVIOUS
    <3> QED
      BY <2>2, <3>3, <3>4
  <2>5. \A r \in Sessions : Saves(r)'
    <3>1. Saves(s)'
      BY <1>1, <2>3, <2>4 DEF BeginSave
    <3> HIDE DEF Saves
    <3> QED
      BY <2>1, <3>1
  <2> QED
    BY <1>1, <1>t, <2>5, Zenon DEF BeginSave, workerVars, ColumnsInv
<1>2. ASSUME NEW s \in Sessions, CloseSession(s)
      PROVE  \A r \in Sessions : Saves(r)'
  <2>1. saving'[s] = NoEvent
    BY <1>2 DEF CloseSession, ColumnsInv, ProjectionTypeOK
  <2>2. ASSUME NEW r \in Sessions, r # s
        PROVE  Saves(r)'
    BY <1>2, <2>2, Zenon DEF CloseSession, ColumnsInv, ProjectionTypeOK
  <2> QED
    BY <2>1, <2>2
<1>3. ASSUME NEW s \in Sessions, CommitSave(s)
      PROVE  ColumnsInv'
  <2>1. saving[s] \in Events /\ stored' = stored \union {saving[s]}
    BY <1>3 DEF CommitSave, ColumnsInv, ProjectionTypeOK
  <2>2. held[s] \in Held
    BY DEF ColumnsInv, ProjectionTypeOK
  <2>3. \A p \in projections : From(Columns, p, stored')
    BY <2>1, FromMonotonic DEF ColumnsInv
  <2>4. CASE inserting[s] /\ projections' = {held[s].object}
    <3>1. held[s].object = Projected(saving[s])
      BY <1>3, <2>4 DEF CommitSave, ColumnsInv
    <3>2. From(Columns, held[s].object, stored')
      BY <2>1, <3>1 DEF From
    <3> QED
      BY <1>2, <1>3, <1>t, <2>1, <2>4, <3>2, FromMonotonic
         DEF CommitSave, workerVars, ColumnsInv
  <2>5. CASE WriteBack(held[s])
    <3>1. From(held[s].dirty, held[s].object, stored')
      BY <1>3, <2>1, FromMonotonic DEF CommitSave, ColumnsInv
    <3>2. \A p \in projections' : From(Columns, p, stored')
      BY <2>2, <2>3, <2>5, <3>1, FromWriteBack
    <3> QED
      BY <1>2, <1>3, <1>t, <2>1, <3>2, FromMonotonic
         DEF CommitSave, workerVars, ColumnsInv
  <2> QED
    BY <1>3, <2>4, <2>5 DEF CommitSave
<1>4. ASSUME NEW s \in Sessions, FailSave(s)
      PROVE  ColumnsInv'
  BY <1>2, <1>4, <1>t DEF FailSave, workerVars, ColumnsInv
<1>5. CASE BeginReplay
  <2>1. From(replayed'.dirty, replayed'.object, stored)
    BY <1>5, FromLoaded DEF BeginReplay
  <2> QED
    BY <1>5, <1>t, <2>1 DEF BeginReplay, handlerVars, ColumnsInv
<1>6. CASE ReplayOne
  <2>1. Head(queue) \in stored \union others /\ others \subseteq OtherEvents
    BY <1>6, HeadTailProperties DEF ReplayOne, ColumnsInv, ProjectionTypeOK
  <2>2. From(replayed'.dirty, replayed'.object, stored)
    <3>1. CASE Head(queue) \in Events /\ replayed' = Apply(replayed, Head(queue))
      BY <2>1, <3>1, FromApply DEF ColumnsInv, ProjectionTypeOK
    <3>2. CASE UNCHANGED replayed
      BY <3>2 DEF ColumnsInv
    <3> QED
      BY <1>6, <3>1, <3>2 DEF ReplayOne
  <2> QED
    BY <1>6, <1>t, <2>2 DEF ReplayOne, handlerVars, ColumnsInv
<1>7. CASE CommitReplay \/ FailReplay
  <2>1. EndReplay
    BY <1>7 DEF CommitReplay, FailReplay
  <2>2. From(replayed'.dirty, replayed'.object, stored)
    BY <2>1, FromLoaded DEF EndReplay, NothingHeld
  <2>3. \A p \in projections' : From(Columns, p, stored)
    <3>1. CASE WriteBack(replayed)
      BY <3>1, FromWriteBack DEF ColumnsInv, ProjectionTypeOK
    <3>2. CASE FailReplay
      BY <3>2 DEF FailReplay, ColumnsInv
    <3> QED
      BY <1>7, <3>1, <3>2 DEF CommitReplay
  <2> QED
    BY <1>t, <2>1, <2>2, <2>3 DEF EndReplay, handlerVars, ColumnsInv
<1>8. CASE UNCHANGED projectionVars
  BY <1>8, <1>t DEF projectionVars, handlerVars, workerVars, ColumnsInv
<1>9. ASSUME NEW o \in OtherEvents, OtherSaved(o)
      PROVE  ColumnsInv'
  BY <1>9, <1>t DEF OtherSaved, handlerVars, workerVars, ColumnsInv
<1> QED
  BY <1>1, <1>3, <1>4, <1>5, <1>6, <1>7, <1>8, <1>9 DEF ProjectionNext, Save, Replay

\* Whatever overlaps and whatever fails, every column of the row is that of an
\* event in the store: no session makes up a value, and none keeps one that
\* was rolled back.
THEOREM RowIsFromTheStore == ProjectionSpec => []ColumnsFromStore
<1>1. ColumnsInv => ColumnsFromStore
  <2> SUFFICES ASSUME ColumnsInv, NEW p \in projections
               PROVE  /\ p.event \in stored
                      /\ \E e \in stored : p.at = TimeOf[e]
                      /\ \E e \in stored : p.status = StatusOf[e]
    BY DEF ColumnsFromStore
  <2>1. \A c \in Columns : \E e \in stored : p[c] = Projected(e)[c]
    BY DEF ColumnsInv, From
  <2>2. \A c \in {"event", "at", "status"} : \E e \in stored : p[c] = Projected(e)[c]
    BY <2>1 DEF Columns
  <2>3. \A e : /\ Projected(e)["event"] = e
               /\ Projected(e)["at"] = TimeOf[e]
               /\ Projected(e)["status"] = StatusOf[e]
    BY DEF Projected
  <2> QED
    BY <2>2, <2>3
<1> QED
  BY <1>1, ColumnsInit, ColumnsStep, PTL DEF ProjectionSpec

\* The row tells nothing but what the store tells: whatever overlaps its columns are
\* those of stored events, and those of the latest one as long as sessions, which
\* save_incident_event and the replay open without a lock, follow each other.
THEOREM RowTells == ProjectionSpec => []RowTellsTheStore
BY SerialIsLatest, RowIsFromTheStore, PTL DEF RowTellsTheStore

(***************************************************************************)
(* The workflow run in the process of the adapter.                         *)
(***************************************************************************)
HIDE ProjectionAssumption

\* Where each writer may be, and what must be in pending_workflows by then.
StagesInv ==
    /\ \A q \in Requests : stage[q] \in {"idle", "done", "failed"} \union DOMAIN Continuing
    /\ stage[Workflow] \in {"done", "failed", "generated"} \union DOMAIN Analysing
         \union DOMAIN Recommending \union DOMAIN Pausing \union DOMAIN Remediating
    /\ stage[Workflow] \in DOMAIN Pausing => setting.high
    /\ stage[Workflow] \in DOMAIN Remediating => ~ setting.high
    /\ pending # NoRow => setting.database /\ setting.high /\ stage[Workflow] = "done"
    /\ stage[Workflow] = "done" /\ setting.high /\ setting.database => pending # NoRow
    /\ \A q \in Requests : Busy(q) => pending # NoRow
    /\ \A q \in Requests :
         /\ stage[q] = "idle" => kind[q] = Nothing /\ answer[q] = Nothing
         /\ stage[q] \in DOMAIN Continuing => kind[q] \in Kinds \ {"malformed"}
    /\ \A q \in Requests : stage[q] \in {"idle", "approval", "execute"} => outcome[q] = Nothing

\* What a writer has recorded when it gets to a stage.
RecordsInv ==
    /\ \A q \in Requests :
         /\ stage[q] \in {"execute", "action", "items", "closing", "closed", "completed"} =>
              <<"approval", q>> \in rows
         /\ stage[q] \in {"items", "closing", "closed", "completed"} => <<"action", q>> \in rows
         /\ stage[q] \in {"closing", "closed", "completed"} => <<"items", q>> \in rows
         /\ stage[q] = "completed" => <<"closed", q>> \in rows
    /\ stage[Workflow] \in DOMAIN Remediating \ {"approval"} /\ setting.database =>
         <<"approval", Workflow>> \in rows

\* While continuations do not overlap one at most is under way, nobody changes
\* the incident between its reading and its commit, and what has been executed
\* belongs to it or to the payload that is stored.
LocalSerialInv ==
    ~ overlapped =>
        /\ \A q, r \in Requests : Busy(q) /\ Busy(r) => q = r
        /\ pending \in Requests => \A q \in Requests : ~ Busy(q)
        /\ \A q \in Requests :
             /\ stage[q] = "closed" => saw[q] = incident
             /\ stage[q] = "completed" => incident = Final(q)
             /\ faults = 0 /\ Executed(q) => Busy(q) \/ q = pending

IInv ==
    /\ TypeOK /\ StagesInv /\ RecordsInv /\ LocalSerialInv
    /\ ExecutionsDecided /\ AnswersAreRecorded /\ SerialIsConsistent

USE LocalAssumption
USE DEF Writers, Pending, NoRow, Refused, Busy

LEMMA InitInv == Init => IInv
<1> SUFFICES ASSUME Init PROVE IInv
  OBVIOUS
<1> USE DEF Init
<1>1. TypeOK
  <2>1. "alert" \in Stages /\ "idle" \in Stages
    BY DEF Stages, Analysing
  <2>2. 0 \in 0 .. MaxFaults
    OBVIOUS
  <2> QED BY <2>1, <2>2 DEF TypeOK
<1>2. StagesInv
  BY DEF StagesInv, Analysing, Pausing, Remediating, Continuing
<1>3. RecordsInv
  BY DEF RecordsInv, Remediating
<1>4. LocalSerialInv
  BY DEF LocalSerialInv, Executed
<1>5. ExecutionsDecided /\ AnswersAreRecorded /\ SerialIsConsistent
  BY DEF ExecutionsDecided, AnswersAreRecorded, SerialIsConsistent, Executed
<1> QED BY <1>1, <1>2, <1>3, <1>4, <1>5 DEF IInv

\* The workflow's way through its stages.
LEMMA WorkflowStages ==
    /\ stage[Workflow] = "pendingWorkflow" => After(Workflow) = "done"
    /\ stage[Workflow] = "pendingApproval" => After(Workflow) = "pendingWorkflow"
    /\ stage[Workflow] = "generated" => After(Workflow) = Branch
    /\ stage[Workflow] \in DOMAIN Analysing \union DOMAIN Recommending =>
         After(Workflow) \in DOMAIN Analysing \union DOMAIN Recommending \union {"generated"}
    /\ stage[Workflow] \in DOMAIN Remediating =>
         After(Workflow) \in (DOMAIN Remediating \ {"approval"}) \union {"done"}
    /\ stage[Workflow] = "execute" => After(Workflow) = "action"
BY DEF After, Analysing, Recommending, Pausing, Remediating

\* A continuation's way.
LEMMA ContinuationStages ==
    ASSUME NEW q \in Requests
    PROVE  /\ stage[q] = "approval" => After(q) = "execute"
           /\ stage[q] = "execute" => After(q) = "action"
           /\ stage[q] = "action" => After(q) = "items"
           /\ stage[q] = "items" => After(q) = "closing"
           /\ stage[q] = "closing" => After(q) = "closed"
           /\ stage[q] = "closed" => After(q) = "completed"
           /\ stage[q] = "completed" => After(q) = "done"
BY DEF After, Continuing

LEMMA LocalTypeStep == IInv /\ [Next]_vars => TypeOK'
<1> SUFFICES ASSUME IInv, [Next]_vars PROVE TypeOK'
  OBVIOUS
<1> USE DEF IInv, TypeOK
<1>0. \A w \in Writers : Busy(w) /\ stage[w] # "pendingWorkflow" => After(w) \in Stages
  BY DEF StagesInv, After, Branch, Stages, Analysing, Recommending, Pausing, Remediating, Continuing
<1>1. ASSUME NEW w \in Writers, Persist(w) PROVE TypeOK'
  BY <1>1, <1>0 DEF Persist, GoOn, Committed, controls
<1>2. CASE SavePending
  BY <1>2, WorkflowStages DEF SavePending, GoOn, Committed, controls, Stages
<1>3. ASSUME NEW w \in Writers, Execute(w) PROVE TypeOK'
  BY <1>3, <1>0 DEF Execute, GoOn, Outcomes, controls
<1>4. ASSUME NEW w \in Writers, BeginClose(w) PROVE TypeOK'
  BY <1>4, <1>0 DEF BeginClose, GoOn, controls
<1>5. ASSUME NEW w \in Writers, CommitClose(w) PROVE TypeOK'
  BY <1>5, <1>0 DEF CommitClose, GoOn, Committed, Final, controls
<1>6. ASSUME NEW q \in Requests, Complete(q) PROVE TypeOK'
  BY <1>6, <1>0 DEF Complete, GoOn, Committed, controls
<1>7. ASSUME NEW w \in Writers, Fail(w) PROVE TypeOK'
  BY <1>7 DEF Fail, Stages
<1>8. ASSUME NEW q \in Requests, Load(q) PROVE TypeOK'
  BY <1>8 DEF Load, Stages, Continuing
<1>9. CASE Restart
  BY <1>9 DEF Restart, Stages
<1>10. CASE UNCHANGED vars
  BY <1>10 DEF vars, controls
<1> QED BY <1>1, <1>2, <1>3, <1>4, <1>5, <1>6, <1>7, <1>8, <1>9, <1>10 DEF Next, Work

--------------------------------------------------------------------------------
LEMMA StagesStep == IInv /\ [Next]_vars => StagesInv'
<1> SUFFICES ASSUME IInv, [Next]_vars PROVE StagesInv'
  OBVIOUS
<1> USE DEF IInv, TypeOK, StagesInv
<1>0. /\ \A q \in Requests : After(q) = Continuing[stage[q]]
      /\ Branch \in {"pendingApproval", "approval"}
      /\ Branch = "pendingApproval" <=> setting.high
  BY DEF After, Branch
<1>1. ASSUME NEW w \in Writers, Persist(w) PROVE StagesInv'
  <2> USE <1>1 DEF Persist, GoOn, controls
  <2>1. CASE w = Workflow
    BY <2>1, <1>0, WorkflowStages DEF Analysing, Recommending, Pausing, Remediating, Continuing
  <2>2. CASE w \in Requests
    BY <2>2, <1>0 DEF Analysing, Recommending, Pausing, Remediating, Continuing
  <2> QED BY <2>1, <2>2
<1>2. CASE SavePending
  BY <1>2, WorkflowStages DEF SavePending, GoOn, controls, Analysing, Recommending, Pausing, Remediating
<1>3. ASSUME NEW w \in Writers, Execute(w) PROVE StagesInv'
  <2> USE <1>3 DEF Execute, GoOn, controls
  <2>1. CASE w = Workflow
    BY <2>1, WorkflowStages DEF Analysing, Recommending, Pausing, Remediating, Continuing
  <2>2. CASE w \in Requests
    BY <2>2, <1>0 DEF Continuing
  <2> QED BY <2>1, <2>2
<1>4. ASSUME NEW w \in Writers, BeginClose(w) PROVE StagesInv'
  <2> USE <1>4 DEF BeginClose, GoOn, controls
  <2>1. CASE w = Workflow
    BY <2>1, WorkflowStages DEF Analysing, Recommending, Pausing, Remediating, Continuing
  <2>2. CASE w \in Requests
    BY <2>2, <1>0 DEF Continuing
  <2> QED BY <2>1, <2>2
<1>5. ASSUME NEW w \in Writers, CommitClose(w) PROVE StagesInv'
  <2> USE <1>5 DEF CommitClose, GoOn, controls
  <2>1. CASE w = Workflow
    BY <2>1, WorkflowStages DEF Analysing, Recommending, Pausing, Remediating, Continuing
  <2>2. CASE w \in Requests
    BY <2>2, <1>0 DEF Continuing
  <2> QED BY <2>1, <2>2
<1>6. ASSUME NEW q \in Requests, Complete(q) PROVE StagesInv'
  BY <1>6, <1>0 DEF Complete, GoOn, controls, Continuing
<1>7. ASSUME NEW w \in Writers, Fail(w) PROVE StagesInv'
  BY <1>7 DEF Fail, Analysing, Recommending, Pausing, Remediating, Continuing
<1>8. ASSUME NEW q \in Requests, Load(q) PROVE StagesInv'
  BY <1>8 DEF Load, Continuing
<1>9. CASE Restart
  BY <1>9 DEF Restart, Analysing, Recommending, Pausing, Remediating, Continuing
<1>10. CASE UNCHANGED vars
  BY <1>10 DEF vars, controls
<1> QED BY <1>1, <1>2, <1>3, <1>4, <1>5, <1>6, <1>7, <1>8, <1>9, <1>10 DEF Next, Work

\* Rows are only added, and the outcome of a writer changes when it executes.
LEMMA RowsStay == IInv /\ [Next]_vars => rows \subseteq rows'
BY DEF Next, Work, Persist, SavePending, Execute, BeginClose, CommitClose, Complete, Fail,
       Load, Restart, Committed, vars

LEMMA OutcomesStay ==
    ASSUME IInv, [Next]_vars, NEW w \in Writers, stage[w] # "execute"
    PROVE  outcome'[w] = outcome[w]
BY DEF IInv, TypeOK, Next, Work, Persist, SavePending, Execute, BeginClose, CommitClose, Complete,
       Fail, Load, Restart, vars

LEMMA RecordsStep == IInv /\ [Next]_vars => RecordsInv'
<1> SUFFICES ASSUME IInv, [Next]_vars PROVE RecordsInv'
  OBVIOUS
<1> USE DEF IInv, TypeOK, RecordsInv
<1>0. \A q \in Requests : After(q) = Continuing[stage[q]]
  BY DEF After
<1>a. rows \subseteq rows'
  BY RowsStay
<1>b. \A q \in Requests : Busy(q) => setting.database
  BY DEF StagesInv
<1>1. ASSUME NEW w \in Writers, Persist(w) PROVE RecordsInv'
  <2> USE <1>1 DEF Persist, GoOn, Committed, controls
  <2>1. CASE w = Workflow
    <3>1. CASE stage[w] \in DOMAIN Remediating
      BY <2>1, <3>1, <1>a, WorkflowStages DEF Remediating
    <3>2. CASE stage[w] \notin DOMAIN Remediating
      <4>1. stage'[w] \notin DOMAIN Remediating \ {"approval"}
        BY <2>1, <3>2, WorkflowStages DEF StagesInv, Branch, Analysing, Recommending, Pausing, Remediating
      <4> QED BY <2>1, <4>1, <1>a
    <3> QED BY <3>1, <3>2
  <2>2. CASE w \in Requests
    BY <2>2, <1>0, <1>a, <1>b DEF StagesInv, Continuing
  <2> QED BY <2>1, <2>2
<1>2. CASE SavePending
  BY <1>2, <1>a, WorkflowStages DEF SavePending, GoOn, controls, Remediating
<1>3. ASSUME NEW w \in Writers, Execute(w) PROVE RecordsInv'
  <2> USE <1>3 DEF Execute, GoOn, controls
  <2>1. CASE w = Workflow
    BY <2>1, WorkflowStages DEF Remediating
  <2>2. CASE w \in Requests
    <3>1. stage' = [stage EXCEPT ![w] = "action"]
      BY <2>2, ContinuationStages
    <3>2. stage[w] = "execute" /\ w # Workflow /\ rows' = rows /\ setting' = setting
      BY <2>2
    <3> HIDE DEF Execute
    <3> QED BY <1>3, <2>2, <3>1, <3>2
  <2> QED BY <2>1, <2>2
<1>4. ASSUME NEW w \in Writers, BeginClose(w) PROVE RecordsInv'
  <2> USE <1>4 DEF BeginClose, GoOn, controls
  <2>1. CASE w = Workflow
    BY <2>1, WorkflowStages DEF Remediating
  <2>2. CASE w \in Requests
    <3>1. stage' = [stage EXCEPT ![w] = "closed"]
      BY <2>2, ContinuationStages
    <3>2. stage[w] = "closing" /\ w # Workflow /\ rows' = rows /\ setting' = setting
      BY <2>2
    <3> HIDE DEF BeginClose
    <3> QED BY <1>4, <2>2, <3>1, <3>2
  <2> QED BY <2>1, <2>2
<1>5. ASSUME NEW w \in Writers, CommitClose(w) PROVE RecordsInv'
  <2> USE <1>5 DEF CommitClose, GoOn, Committed, controls
  <2>1. CASE w = Workflow
    BY <2>1, <1>a, WorkflowStages DEF Remediating
  <2>2. CASE w \in Requests
    BY <2>2, <1>0, <1>a, <1>b DEF Continuing
  <2> QED BY <2>1, <2>2
<1>6. ASSUME NEW q \in Requests, Complete(q) PROVE RecordsInv'
  BY <1>6, <1>0, <1>a DEF Complete, GoOn, controls, Continuing
<1>7. ASSUME NEW w \in Writers, Fail(w) PROVE RecordsInv'
  BY <1>7 DEF Fail, Remediating
<1>8. ASSUME NEW q \in Requests, Load(q) PROVE RecordsInv'
  BY <1>8 DEF Load, Remediating
<1>9. CASE Restart
  BY <1>9 DEF Restart, Remediating
<1>10. CASE UNCHANGED vars
  BY <1>10 DEF vars, controls
<1> QED BY <1>1, <1>2, <1>3, <1>4, <1>5, <1>6, <1>7, <1>8, <1>9, <1>10 DEF Next, Work

\* A decision stays the request's once it is under way.
LEMMA DecidedStep == IInv /\ [Next]_vars => ExecutionsDecided'
<1> SUFFICES ASSUME IInv, [Next]_vars PROVE ExecutionsDecided'
  OBVIOUS
<1> USE DEF IInv, TypeOK
<1>1. rows \subseteq rows' /\ setting' = setting
  BY RowsStay DEF Next, Work, Persist, SavePending, Execute, BeginClose, CommitClose, Complete,
                  Fail, Load, Restart, vars, controls
<1>2. \A q \in Requests : stage[q] # "idle" => kind'[q] = kind[q]
  BY DEF Next, Work, Persist, SavePending, Execute, BeginClose, CommitClose, Complete,
         Fail, Load, Restart, vars, controls
<1>3. ASSUME NEW q \in Requests, Executed(q)'
      PROVE  kind'[q] \in {"approved", "modified"} /\ <<"approval", q>> \in rows'
  <2>1. CASE stage[q] # "execute"
    <3>1. outcome'[q] = outcome[q]
      BY <2>1, OutcomesStay
    <3>2. stage[q] # "idle"
      BY <3>1, <1>3 DEF Executed, StagesInv
    <3> QED BY <3>1, <3>2, <1>1, <1>2, <1>3 DEF Executed, ExecutionsDecided
  <2>2. CASE stage[q] = "execute" /\ ~ Execute(q)
    <3>1. outcome'[q] = outcome[q]
      <4> HIDE DEF IInv, TypeOK
      <4>1. outcome \in [Writers -> {"succeeded", "failed", "skipped", Nothing}]
        BY DEF IInv, TypeOK
      <4>2. q \in Writers
        BY DEF Writers
      <4> QED BY <2>2, <4>1, <4>2 DEF Next, Work, Persist, SavePending, Execute, BeginClose,
                   CommitClose, Complete, Fail, Load, Restart, vars
    <3> QED BY <2>2, <3>1, <1>3 DEF Executed, StagesInv
  <2>3. CASE stage[q] = "execute" /\ Execute(q)
    <3>1. kind[q] \notin {"rejected", "unlisted"}
      BY <2>3, <1>3 DEF Execute, Outcomes, Executed
    <3>2. kind[q] \in {"approved", "modified"}
      BY <2>3, <3>1 DEF StagesInv, Continuing, Kinds
    <3> QED BY <2>3, <3>2, <1>1, <1>2 DEF RecordsInv
  <2> QED BY <2>1, <2>2, <2>3
<1>4. ASSUME Executed(Workflow)'
      PROVE  ~ setting.high /\ (setting.database => <<"approval", Workflow>> \in rows)
  <2>1. CASE stage[Workflow] # "execute"
    BY <2>1, <1>4, OutcomesStay DEF Executed, ExecutionsDecided
  <2>2. CASE stage[Workflow] = "execute"
    BY <2>2 DEF StagesInv, RecordsInv, Remediating
  <2> QED BY <2>1, <2>2
<1> QED BY <1>1, <1>3, <1>4 DEF ExecutionsDecided, Executed

LEMMA AnswersStep == IInv /\ [Next]_vars => AnswersAreRecorded'
<1> SUFFICES ASSUME IInv, [Next]_vars PROVE AnswersAreRecorded'
  OBVIOUS
<1> USE DEF IInv, TypeOK
<1>a. \A q \in Requests : Recorded(q) => Recorded(q)'
  BY RowsStay DEF Recorded
<1>1. CASE SavePending
  BY <1>1, <1>a DEF SavePending, StagesInv, Pausing, AnswersAreRecorded
<1>2. ASSUME NEW q \in Requests, Complete(q) PROVE AnswersAreRecorded'
  <2>1. Recorded(q)
    BY <1>2 DEF Complete, RecordsInv, Recorded
  <2> QED BY <1>2, <2>1, <1>a DEF Complete, AnswersAreRecorded
<1>3. ASSUME NEW q \in Requests, Load(q) PROVE AnswersAreRecorded'
  BY <1>3, <1>a DEF Load, AnswersAreRecorded
<1>4. CASE pending' = pending /\ answer' = answer
  BY <1>4, <1>a DEF AnswersAreRecorded
<1> QED BY <1>1, <1>2, <1>3, <1>4 DEF Next, Work, Persist, Execute, BeginClose, CommitClose,
                                      Fail, Restart, vars

\* What a continuation may see of the others.
LEMMA LocalSerialStep == IInv /\ [Next]_vars => (LocalSerialInv /\ SerialIsConsistent)'
<1> SUFFICES ASSUME IInv, [Next]_vars, ~ overlapped' PROVE (LocalSerialInv /\ SerialIsConsistent)'
  BY DEF LocalSerialInv, SerialIsConsistent
<1> USE DEF IInv, TypeOK, LocalSerialInv, SerialIsConsistent, Executed, Final
<1>0. ~ overlapped /\ (faults' = 0 => faults = 0)
  BY DEF Next, Work, Persist, SavePending, Execute, BeginClose, CommitClose, Complete,
         Fail, Load, Restart, vars, controls
<1>1. ASSUME NEW w \in Writers, Persist(w) PROVE (LocalSerialInv /\ SerialIsConsistent)'
  <2> USE <1>1, <1>0 DEF Persist, GoOn, controls
  <2>1. CASE w = Workflow
    BY <2>1 DEF StagesInv, Analysing, Continuing
  <2>2. CASE w \in Requests
    <3>1. stage'[w] \in {"execute", "items", "closing"} /\ incident' = incident
      BY <2>2, ContinuationStages DEF StagesInv, Continuing
    <3> QED BY <2>2, <3>1
  <2> QED BY <2>1, <2>2
<1>2. CASE SavePending
  BY <1>2, <1>0 DEF SavePending, GoOn, controls, StagesInv, Pausing
<1>3. ASSUME NEW w \in Writers, Execute(w) PROVE (LocalSerialInv /\ SerialIsConsistent)'
  <2> USE <1>3, <1>0 DEF Execute, GoOn, controls
  <2>1. CASE w = Workflow
    BY <2>1
  <2>2. CASE w \in Requests
    <3>1. stage'[w] = "action"
      BY <2>2, ContinuationStages
    <3> QED BY <2>2, <3>1 DEF StagesInv
  <2> QED BY <2>1, <2>2
<1>4. ASSUME NEW w \in Writers, BeginClose(w) PROVE (LocalSerialInv /\ SerialIsConsistent)'
  <2> USE <1>4, <1>0 DEF BeginClose, GoOn, controls
  <2>1. CASE w = Workflow
    BY <2>1
  <2>2. CASE w \in Requests
    <3>1. stage'[w] = "closed"
      BY <2>2, ContinuationStages
    <3> QED BY <2>2, <3>1
  <2> QED BY <2>1, <2>2
<1>5. ASSUME NEW w \in Writers, CommitClose(w) PROVE (LocalSerialInv /\ SerialIsConsistent)'
  <2> USE <1>5, <1>0 DEF CommitClose, GoOn, controls
  <2>1. CASE w = Workflow
    BY <2>1
  <2>2. CASE w \in Requests
    <3>1. stage'[w] = "completed"
      BY <2>2, ContinuationStages
    <3>2. incident' = Final(w)
      BY <2>2
    <3> QED BY <2>2, <3>1, <3>2
  <2> QED BY <2>1, <2>2
<1>6. ASSUME NEW q \in Requests, Complete(q) PROVE (LocalSerialInv /\ SerialIsConsistent)'
  <2>1. stage' = [stage EXCEPT ![q] = "done"]
    BY <1>6, ContinuationStages DEF Complete, GoOn
  <2>2. pending \notin Requests
    BY <1>6, <1>0 DEF Complete
  <2> QED BY <1>6, <1>0, <2>1, <2>2 DEF Complete, controls, AnswersAreRecorded
<1>7. ASSUME NEW w \in Writers, Fail(w) PROVE (LocalSerialInv /\ SerialIsConsistent)'
  BY <1>7, <1>0 DEF Fail
<1>8. ASSUME NEW q \in Requests, Load(q) PROVE (LocalSerialInv /\ SerialIsConsistent)'
  BY <1>8, <1>0 DEF Load, StagesInv
<1>9. CASE Restart
  BY <1>9, <1>0 DEF Restart
<1>10. CASE UNCHANGED vars
  BY <1>10, <1>0 DEF vars, controls
<1> QED BY <1>1, <1>2, <1>3, <1>4, <1>5, <1>6, <1>7, <1>8, <1>9, <1>10 DEF Next, Work

--------------------------------------------------------------------------------
\* The inductive invariant holds in every reachable state.
THEOREM Inductive == Spec => []IInv
<1>1. Init => IInv
  BY InitInv
<1>2. IInv /\ [Next]_vars => IInv'
  <2> SUFFICES ASSUME IInv, [Next]_vars PROVE IInv'
    OBVIOUS
  <2> QED BY LocalTypeStep, StagesStep, RecordsStep, DecidedStep, AnswersStep, LocalSerialStep DEF IInv
<1> QED BY <1>1, <1>2, PTL DEF Spec

\* Every reachable state of the workflow and its continuations is of its type.
THEOREM LocalTypeCorrect == Spec => []TypeOK
<1>1. IInv => TypeOK
  BY DEF IInv
<1> QED BY <1>1, Inductive, PTL

\* No tool runs on a severe incident without a person's recorded decision.
THEOREM ExecutionsAreDecided == Spec => []ExecutionsDecided
<1>1. IInv => ExecutionsDecided
  BY DEF IInv
<1> QED BY <1>1, Inductive, PTL

\* A final payload is only ever returned for work that is all in the database, and
\* continuations that do not overlap agree, whatever fails in between.
THEOREM AnswersAgree == Spec => []ContinuationsAgree
<1>1. IInv => ContinuationsAgree
  BY DEF IInv, ContinuationsAgree
<1> QED BY <1>1, Inductive, PTL

\* A paused workflow refuses no well-formed request, after any restart.
THEOREM PausedResumes == Spec => PausedIsResumable
<1>1. ASSUME IInv, [Next]_vars, stage[Workflow] = "done", setting.high, setting.database,
             NEW q \in Requests, stage[q] = "idle", kind'[q] \in Kinds \ {"malformed"}
      PROVE  answer'[q] # Refused
  <2> USE DEF IInv, TypeOK, StagesInv
  <2>1. CASE Load(q)
    BY <1>1, <2>1 DEF Load
  <2>2. CASE ~ Load(q)
    <3>1. kind'[q] = kind[q]
      BY <1>1, <2>2 DEF Next, Work, Persist, SavePending, Execute, BeginClose, CommitClose,
                        Complete, Fail, Load, Restart, vars, controls
    <3> QED BY <1>1, <3>1 DEF Kinds
  <2> QED BY <2>1, <2>2
<1>2. IInv /\ [Next]_vars =>
        [stage[Workflow] = "done" /\ setting.high /\ setting.database =>
           \A q \in Requests :
             stage[q] = "idle" /\ kind'[q] \in Kinds \ {"malformed"} => answer'[q] # Refused]_vars
  BY <1>1
<1> QED BY <1>2, Inductive, PTL DEF Spec, PausedIsResumable
=============================================================================
