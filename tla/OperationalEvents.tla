-------------------------- MODULE OperationalEvents --------------------------
(***************************************************************************)
(* The stream of operational events a signed-in page keeps open.  Every    *)
(* sign-in, refresh, pause or resume tears the effect down and starts a    *)
(* new one; hiding the page aborts the stream, showing it again connects.  *)
(* An attempt that ends by itself connects again after a delay, and that   *)
(* delay is not cancelled when the page is shown, so two attempts of one   *)
(* effect may run side by side.                                            *)
(*                                                                         *)
(* External: /api-gateway/events/operations, which no service of the       *)
(* repository serves.  It is taken to keep to the protocol of event        *)
(* streams: it resumes after the event that Last-Event-ID names; a request *)
(* without one, made before any event was seen, begins where it likes.     *)
(***************************************************************************)
EXTENDS Integers, Sequences, FiniteSets

CONSTANTS
    MaxEvents,      \* bound on the events the server emits
    SeenLimit,      \* identifiers remembered before the memory is cut to one
    MaxBreaks,      \* bound on attempts refused, failed or closed
    MaxToggles      \* bound on changes of token, pause and visibility

ASSUME EventsAssumption ==
    MaxEvents \in Nat /\ SeenLimit \in Nat \ {0} /\ MaxBreaks \in Nat /\ MaxToggles \in Nat

VARIABLES
    page,       \* [token, paused, visible]
    effect,     \* the number of the effect that runs, 0 when it returned at once
    attempts,   \* the connection attempts: [effect, phase, position]
    controller, \* the attempt the effect would abort, 0 is none
    retry,      \* consecutive retries of the effect
    live,       \* LiveConnectionState
    seen,       \* identifiers remembered
    lastEventId,
    handled,    \* the events passed on to the page, in order
    emitted,    \* the events of the server so far
    joined,     \* history: the furthest a stream began that had named no event
    breaks,
    toggles

eventVars == <<page, effect, attempts, controller, retry, live, seen, lastEventId, handled, emitted, joined, breaks, toggles>>

Running == effect # 0
Current(a) == Running /\ attempts[a].effect = effect

EventsInit ==
    /\ page = [token |-> 0, paused |-> FALSE, visible |-> TRUE]
    /\ effect = 0 /\ attempts = <<>> /\ controller = 0 /\ retry = 0
    /\ live = "disabled" /\ seen = {} /\ lastEventId = 0 /\ handled = <<>>
    /\ emitted = 0 /\ joined = 0 /\ breaks = 0 /\ toggles = 0

\* Mutant: the stream does not say where the last one stopped.
ConnectedAfresh(as, e, visible, n) ==
    IF visible
    THEN /\ attempts' = Append(as, [effect |-> e, phase |-> "opening", position |-> emitted])
         /\ controller' = Len(as) + 1
         /\ live' = IF n = 0 THEN "connecting" ELSE "reconnecting"
    ELSE attempts' = as /\ UNCHANGED <<controller, live>>

\* connect: nothing while the page is hidden; 0 stands for no Last-Event-ID.
Connected(as, e, visible, n) ==
    IF visible
    THEN /\ attempts' = Append(as, [effect |-> e, phase |-> "opening", position |-> lastEventId])
         /\ controller' = Len(as) + 1
         /\ live' = IF n = 0 THEN "connecting" ELSE "reconnecting"
    ELSE /\ attempts' = as
         /\ UNCHANGED <<controller, live>>

\* The clean-up of the effect: its stream is aborted and its timer is cleared.
TornDown ==
    [a \in DOMAIN attempts |->
        IF Current(a) /\ (a = controller \/ attempts[a].phase = "timer")
        THEN [attempts[a] EXCEPT !.phase = "gone"] ELSE attempts[a]]

\* The effect runs again: its dependencies are the access token and the pause.
EffectRuns(p) ==
    /\ page' = p
    /\ toggles < MaxToggles /\ toggles' = toggles + 1
    /\ retry' = 0
    /\ IF p.token = 0 \/ p.paused
       THEN /\ effect' = 0
            /\ attempts' = TornDown /\ controller' = 0
            /\ live' = IF p.token = 0 THEN "disabled" ELSE "paused"
       ELSE /\ effect' = toggles + 1
            /\ IF p.visible
               THEN Connected(TornDown, toggles + 1, TRUE, 0)
               ELSE attempts' = TornDown /\ controller' = 0 /\ UNCHANGED live
    /\ UNCHANGED <<breaks, seen, lastEventId, handled, emitted, joined>>

TokenChanges == EffectRuns([page EXCEPT !.token = IF @ = 0 THEN 1 ELSE 0])
TokenRefreshed == page.token # 0 /\ EffectRuns([page EXCEPT !.token = @ + 1])
PauseToggled == page.token # 0 /\ EffectRuns([page EXCEPT !.paused = ~@])

PageHidden ==
    /\ page.visible
    /\ toggles < MaxToggles /\ toggles' = toggles + 1
    /\ page' = [page EXCEPT !.visible = FALSE]
    /\ IF Running
       THEN /\ attempts' = [a \in DOMAIN attempts |->
                   IF a = controller /\ attempts[a].phase \in {"opening", "open"}
                   THEN [attempts[a] EXCEPT !.phase = "gone"] ELSE attempts[a]]
            /\ live' = "paused"
       ELSE UNCHANGED <<attempts, live>>
    /\ UNCHANGED <<breaks, effect, controller, retry, seen, lastEventId, handled, emitted, joined>>

PageShown ==
    /\ ~page.visible
    /\ toggles < MaxToggles /\ toggles' = toggles + 1
    /\ page' = [page EXCEPT !.visible = TRUE]
    /\ IF Running
       THEN retry' = 0 /\ Connected(attempts, effect, TRUE, 0)
       ELSE UNCHANGED <<attempts, controller, live, retry>>
    /\ UNCHANGED <<breaks, effect, seen, lastEventId, handled, emitted, joined>>

\* Where the stream of an attempt begins.
Beginnings(a) ==
    IF attempts[a].position = 0 THEN 0 .. emitted ELSE {attempts[a].position}

\* The answer is shown as connected even by an attempt whose effect is gone; only
\* the others go on to read.
Opens(a) ==
    /\ attempts[a].phase = "opening"
    /\ \E p \in Beginnings(a) :
          /\ attempts' = [attempts EXCEPT ![a].position = p,
                                          ![a].phase = IF Current(a) THEN "open" ELSE "gone"]
          /\ joined' = IF attempts[a].position = 0 /\ p > joined THEN p ELSE joined
    /\ live' = "connected"
    /\ retry' = IF Current(a) THEN 0 ELSE retry
    /\ UNCHANGED <<breaks, page, effect, controller, seen, lastEventId, handled, emitted, toggles>>

\* Refused, failed, or closed by the server: again later, unless torn down or hidden.
Ends(a) ==
    /\ attempts[a].phase \in {"opening", "open"}
    /\ breaks < MaxBreaks /\ breaks' = breaks + 1
    /\ IF Current(a) /\ page.visible
       THEN /\ attempts' = [attempts EXCEPT ![a].phase = "timer"]
            /\ retry' = retry + 1 /\ live' = "reconnecting"
       ELSE /\ attempts' = [attempts EXCEPT ![a].phase = "gone"]
            /\ UNCHANGED <<retry, live>>
    /\ UNCHANGED <<page, effect, controller, seen, lastEventId, handled, emitted, joined, toggles>>

TimerFires(a) ==
    /\ attempts[a].phase = "timer"
    /\ Connected([attempts EXCEPT ![a].phase = "gone"], attempts[a].effect,
                 Current(a) /\ page.visible, retry)
    /\ UNCHANGED <<breaks, page, effect, retry, seen, lastEventId, handled, emitted, joined, toggles>>

Emit ==
    /\ emitted < MaxEvents
    /\ emitted' = emitted + 1
    /\ UNCHANGED <<breaks, page, effect, attempts, controller, retry, live, seen, lastEventId, handled, joined, toggles>>

\* Mutant: nothing handled is passed over.
Forgotten(id) == FALSE

Remembered(id) == id \in seen

\* The next frame of an open stream: an identifier remembered is passed over.
\* A read that was pending when its effect was torn down is the last one.
Frame(a) ==
    LET id == attempts[a].position + 1 IN
    /\ attempts[a].phase = "open" /\ id <= emitted
    /\ attempts' = [attempts EXCEPT ![a].position = id,
                                    ![a].phase = IF Current(a) THEN "open" ELSE "gone"]
    /\ IF Remembered(id)
       THEN UNCHANGED <<seen, lastEventId, handled>>
       ELSE /\ seen' = IF Cardinality(seen) >= SeenLimit THEN {id} ELSE seen \cup {id}
            /\ lastEventId' = id
            /\ handled' = Append(handled, id)
    /\ UNCHANGED <<breaks, page, effect, controller, retry, live, emitted, joined, toggles>>

EventsNext ==
    \/ TokenChanges \/ TokenRefreshed \/ PauseToggled
    \/ PageHidden \/ PageShown \/ Emit
    \/ \E a \in DOMAIN attempts : Opens(a) \/ Ends(a) \/ TimerFires(a) \/ Frame(a)

\* Timers fire, an attempt is answered, and what a stream has is read.
EventsFairness ==
    /\ WF_eventVars(\E a \in DOMAIN attempts : Opens(a) \/ TimerFires(a))
    /\ WF_eventVars(\E a \in DOMAIN attempts : Frame(a))

EventsSpec == EventsInit /\ [][EventsNext]_eventVars /\ EventsFairness

(***************************************************************************)
(* Properties                                                              *)
(***************************************************************************)
EventsTypeOK ==
    /\ page \in [token : Nat, paused : BOOLEAN, visible : BOOLEAN]
    /\ effect \in Nat /\ controller \in 0 .. Len(attempts) /\ retry \in Nat
    /\ \A a \in DOMAIN attempts :
           attempts[a] \in [effect : Nat, phase : {"opening", "open", "timer", "gone"}, position : Nat]
    /\ live \in {"disabled", "connecting", "connected", "reconnecting", "paused"}
    /\ joined \in 0 .. emitted
    /\ seen \subseteq 1 .. emitted /\ lastEventId \in 0 .. emitted
    /\ handled \in Seq(1 .. MaxEvents)

Watched == page.token # 0 /\ ~page.paused /\ page.visible

\* When the page stays watched, every event is passed on at last that came after the
\* beginning of the last stream opened before any event was seen: no order of hiding,
\* showing, pausing, token changes and broken streams leaves the page without a stream,
\* or skips an event once streams can say where the last one stopped.
EventsArrive ==
    <>[]Watched => []<>(\A id \in joined + 1 .. emitted : \E n \in DOMAIN handled : handled[n] = id)

\* Two streams side by side pass no event on twice while the memory has not been cut.
HandledOnce ==
    Len(handled) <= SeenLimit => \A m, n \in DOMAIN handled : handled[m] = handled[n] => m = n
=============================================================================
