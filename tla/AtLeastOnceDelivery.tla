------------------------- MODULE AtLeastOnceDelivery -------------------------
(***************************************************************************)
(* What a KaiMS service is promised by its message bus, whichever          *)
(* transport carries a topic: the broker forgets a message only once the   *)
(* service has handled it, has sent it to the dead-letter topic, has       *)
(* recognised it as a copy of a message it had settled, or has given it up *)
(* on purpose.  The consume_forever loops of common/kafka.py and           *)
(* common/rabbitmq.py are shown to implement this specification; the set   *)
(* `dropped' says exactly which messages each of them gives up.            *)
(***************************************************************************)
CONSTANTS
    Messages,   \* deliveries the broker holds: log offsets or queue entries
    IdOf,       \* the identity of each message
    NoId        \* no identity

VARIABLES
    handled,    \* messages for which a handler call has returned
    dead,       \* messages published to the dead-letter topic
    dropped,    \* messages given up without either
    retired     \* messages the broker will not deliver again

vars == <<handled, dead, dropped, retired>>

TypeOK ==
    /\ handled \subseteq Messages
    /\ dead \subseteq Messages
    /\ dropped \subseteq Messages
    /\ retired \subseteq Messages

\* Settled itself, or a copy of a message that is.
Settled(m) ==
    \E n \in handled \union dead : n = m \/ (IdOf[n] = IdOf[m] /\ IdOf[m] # NoId)

Accounted(m) == Settled(m) \/ m \in dropped

Init ==
    /\ handled = {}
    /\ dead = {}
    /\ dropped = {}
    /\ retired = {}

Handle(m) ==
    /\ handled' = handled \union {m}
    /\ UNCHANGED <<dead, dropped, retired>>

DeadLetter(m) ==
    /\ dead' = dead \union {m}
    /\ UNCHANGED <<handled, dropped, retired>>

Drop(m) ==
    /\ dropped' = dropped \union {m}
    /\ UNCHANGED <<handled, dead, retired>>

\* A commit retires a whole prefix of a log, an ack one message of a queue.
Retire(S) ==
    /\ \A m \in S : Accounted(m)
    /\ retired' = retired \union S
    /\ UNCHANGED <<handled, dead, dropped>>

Next ==
    \/ \E m \in Messages : Handle(m) \/ DeadLetter(m) \/ Drop(m)
    \/ \E S \in SUBSET Messages : Retire(S)

Spec == Init /\ [][Next]_vars

RetiredAccounted == \A m \in retired : Accounted(m)

EventuallyRetired == <>(retired = Messages)
=============================================================================
