---------------------------- MODULE RabbitConsumer ----------------------------
(***************************************************************************)
(* consume_forever of common/rabbitmq.py: the workers of one service on    *)
(* the queue of one topic.  (The queue's name holds the service's name, so *)
(* unlike on Kafka other services have queues of their own.)               *)
(*                                                                         *)
(* The queue is durable; a delivered message stays with the channel it was *)
(* delivered on until it is acked or nacked, or the channel closes, which  *)
(* makes it ready again.  No prefetch limit is set, so a channel may have  *)
(* any number of messages delivered to it while the worker handles one:    *)
(* they wait in the iterator's buffer.  Ready messages are a set, since    *)
(* the order in which several consumers and redeliveries see a queue is    *)
(* not to be relied upon.                                                  *)
(*                                                                         *)
(* External (the broker and aio_pika): Deliver and ConnectionLost.         *)
(***************************************************************************)
EXTENDS ProcessedMessageCache, FiniteSets

CONSTANTS
    Workers,
    Messages,          \* the deliveries the queue holds
    IdOf,              \* the identity of each
    Garbage,           \* undecodable, or without a payload object
    NoMessage,         \* nothing in hand
    MaxRetries,        \* rabbitmq_consumer_max_retries
    MaxFaults          \* bound on failed dead-letter publishes, lost
                       \* connections, crashes and expired cache entries

ASSUME RabbitAssumption ==
    /\ IsFiniteSet(Workers)
    /\ IdOf \in [Messages -> Ids \union {NoId}]
    /\ Garbage \subseteq Messages
    /\ NoMessage \notin Messages
    /\ MaxRetries \in Nat
    /\ MaxFaults \in Nat

VARIABLES
    ready,         \* messages the broker may deliver
    acked,         \* messages the broker has forgotten
    attached,      \* is the channel the worker's iterator reads from open?
    buffer,        \* messages delivered to the worker, not yet looked at
    current,       \* the message in hand
    pc, attempts, cache,
    successes,     \* how often the handler returned for a message
    deadLettered,  \* messages published to the dead-letter queue
    discarded,     \* messages acked because they were garbage
    faults,        \* how many of the failures MaxFaults bounds there were
    crashes,       \* how many of them were crashes
    forgotten      \* cache entries lost to the ttl or to the size limit

queueVars == <<ready, acked>>
outcomeVars == <<successes, deadLettered, discarded>>
boundVars == <<faults, crashes>>
vars == <<queueVars, attached, buffer, current, pc, attempts, cache,
          outcomeVars, boundVars, forgotten>>

(***************************************************************************)
(* "down"      no process                                                  *)
(* "idle"      waiting in `async for message'                              *)
(* "handling"  awaiting handler(payload), or asleep before the next try    *)
(* "gave_up"   the last retry has failed                                   *)
(* "acking", "nacking"  about to await message.ack() or message.nack()     *)
(***************************************************************************)
PCs == {"down", "idle", "handling", "gave_up", "acking", "nacking"}

InHand(w) == {current[w]} \ {NoMessage}

\* What the broker will make ready again when the worker's channel closes.
Unacked(w) == IF attached[w] THEN buffer[w] \union InHand(w) ELSE {}

Init ==
    /\ ready = Messages
    /\ acked = {}
    /\ attached = [w \in Workers |-> FALSE]
    /\ buffer = [w \in Workers |-> {}]
    /\ current = [w \in Workers |-> NoMessage]
    /\ pc = [w \in Workers |-> "down"]
    /\ attempts = [w \in Workers |-> 0]
    /\ cache = [w \in Workers |-> <<>>]
    /\ successes = [m \in Messages |-> 0]
    /\ deadLettered = {}
    /\ discarded = {}
    /\ faults = 0
    /\ crashes = 0
    /\ forgotten = 0

Fault == faults < MaxFaults /\ faults' = faults + 1

(***************************************************************************)
(* The worker's loop.                                                      *)
(***************************************************************************)

Start(w) ==
    /\ pc[w] = "down"
    /\ pc' = [pc EXCEPT ![w] = "idle"]
    /\ attached' = [attached EXCEPT ![w] = TRUE]
    /\ UNCHANGED <<queueVars, buffer, current, attempts, cache,
                   outcomeVars, boundVars, forgotten>>

\* The next message of the iterator.  The buffer outlives its channel, so the
\* message may have become somebody else's.
NextOf(w, m) ==
    /\ pc[w] = "idle"
    /\ m \in buffer[w]
    /\ buffer' = [buffer EXCEPT ![w] = @ \ {m}]
    /\ current' = [current EXCEPT ![w] = m]

Discard(w, m) ==
    /\ NextOf(w, m)
    /\ m \in Garbage
    /\ discarded' = discarded \union {m}
    /\ pc' = [pc EXCEPT ![w] = "acking"]
    /\ UNCHANGED <<queueVars, attached, attempts, cache,
                   successes, deadLettered, boundVars, forgotten>>

SkipDuplicate(w, m) ==
    /\ NextOf(w, m)
    /\ m \notin Garbage
    /\ Contains(cache[w], IdOf[m])
    /\ pc' = [pc EXCEPT ![w] = "acking"]
    /\ UNCHANGED <<queueVars, attached, attempts, cache,
                   outcomeVars, boundVars, forgotten>>

Take(w, m) ==
    /\ NextOf(w, m)
    /\ m \notin Garbage
    /\ ~ Contains(cache[w], IdOf[m])
    /\ pc' = [pc EXCEPT ![w] = "handling"]
    /\ UNCHANGED <<queueVars, attached, attempts, cache,
                   outcomeVars, boundVars, forgotten>>

MarkCurrent(w) ==
    LET id == IdOf[current[w]]
    IN  /\ cache' = [cache EXCEPT ![w] = Mark(@, id)]
        /\ forgotten' = forgotten + (IF Overflows(cache[w], id) THEN 1 ELSE 0)

HandlerReturns(w) ==
    /\ pc[w] = "handling"
    /\ successes' = [successes EXCEPT ![current[w]] = @ + 1]
    /\ MarkCurrent(w)
    /\ pc' = [pc EXCEPT ![w] = "acking"]
    /\ UNCHANGED <<queueVars, attached, buffer, current, attempts,
                   deadLettered, discarded, boundVars>>

HandlerRaises(w) ==
    /\ pc[w] = "handling"
    /\ attempts' = [attempts EXCEPT ![w] = @ + 1]
    /\ pc' = [pc EXCEPT ![w] =
                  IF attempts[w] + 1 > MaxRetries THEN "gave_up" ELSE "handling"]
    /\ UNCHANGED <<queueVars, attached, buffer, current, cache,
                   outcomeVars, boundVars, forgotten>>

\* Published through the exchange, whose channel reconnects by itself.
DeadLetter(w) ==
    /\ pc[w] = "gave_up"
    /\ deadLettered' = deadLettered \union {current[w]}
    /\ MarkCurrent(w)
    /\ pc' = [pc EXCEPT ![w] = "acking"]
    /\ UNCHANGED <<queueVars, attached, buffer, current, attempts,
                   successes, discarded, boundVars>>

\* Mutant: the message is acked whether its dead-letter publish failed or not.
DeadLetterFailsAcks(w) ==
    /\ pc[w] = "gave_up"
    /\ Fault
    /\ pc' = [pc EXCEPT ![w] = "acking"]
    /\ UNCHANGED <<queueVars, attached, buffer, current, attempts, cache,
                   outcomeVars, crashes, forgotten>>

DeadLetterFails(w) ==
    /\ pc[w] = "gave_up"
    /\ Fault
    /\ pc' = [pc EXCEPT ![w] = "nacking"]
    /\ UNCHANGED <<queueVars, attached, buffer, current, attempts, cache,
                   outcomeVars, crashes, forgotten>>

\* The loop goes on with the next message, and forgets this one.
NextMessage(w) ==
    /\ pc' = [pc EXCEPT ![w] = "idle"]
    /\ current' = [current EXCEPT ![w] = NoMessage]
    /\ attempts' = [attempts EXCEPT ![w] = 0]

Ack(w) ==
    /\ pc[w] = "acking"
    /\ attached[w]
    /\ acked' = acked \union {current[w]}
    /\ NextMessage(w)
    /\ UNCHANGED <<ready, attached, buffer, cache, outcomeVars, boundVars,
                   forgotten>>

\* nack(requeue=True)
Nack(w) ==
    /\ pc[w] = "nacking"
    /\ attached[w]
    /\ ready' = ready \union {current[w]}
    /\ NextMessage(w)
    /\ UNCHANGED <<acked, attached, buffer, cache, outcomeVars, boundVars,
                   forgotten>>

\* Mutant: processed_cache is created inside the loop.
RestartForgets(w) ==
    /\ pc[w] \in {"idle", "acking", "nacking"}
    /\ ~ attached[w]
    /\ attached' = [attached EXCEPT ![w] = TRUE]
    /\ buffer' = [buffer EXCEPT ![w] = {}]
    /\ cache' = [cache EXCEPT ![w] = <<>>]
    /\ NextMessage(w)
    /\ UNCHANGED <<queueVars, outcomeVars, boundVars, forgotten>>

\* Mutant: without consumer.stop(), start() returns at once, and the closed
\* connection stays in use.
RestartWithoutStop(w) ==
    /\ pc[w] \in {"idle", "acking", "nacking"}
    /\ ~ attached[w]
    /\ buffer' = [buffer EXCEPT ![w] = {}]
    /\ NextMessage(w)
    /\ UNCHANGED <<queueVars, attached, cache, outcomeVars, boundVars, forgotten>>

\* The closed channel is noticed: the iterator, ack() or nack() raises, and
\* the loop starts over with a new connection.  processed_cache is created
\* outside the loop and survives.
Restart(w) ==
    /\ pc[w] \in {"idle", "acking", "nacking"}
    /\ ~ attached[w]
    /\ attached' = [attached EXCEPT ![w] = TRUE]
    /\ buffer' = [buffer EXCEPT ![w] = {}]
    /\ NextMessage(w)
    /\ UNCHANGED <<queueVars, cache, outcomeVars, boundVars, forgotten>>

(***************************************************************************)
(* The environment.                                                        *)
(***************************************************************************)

Deliver(w) ==
    \E m \in ready :
        /\ attached[w]
        /\ ready' = ready \ {m}
        /\ buffer' = [buffer EXCEPT ![w] = @ \union {m}]
        /\ UNCHANGED <<acked, attached, current, pc, attempts, cache,
                       outcomeVars, boundVars, forgotten>>

ConnectionLost(w) ==
    /\ attached[w]
    /\ Fault
    /\ attached' = [attached EXCEPT ![w] = FALSE]
    /\ ready' = ready \union Unacked(w)
    /\ UNCHANGED <<acked, buffer, current, pc, attempts, cache,
                   outcomeVars, crashes, forgotten>>

\* The process dies, or shutdown() cancels the task.
Crash(w) ==
    /\ pc[w] # "down"
    /\ Fault
    /\ crashes' = crashes + 1
    /\ ready' = ready \union Unacked(w)
    /\ attached' = [attached EXCEPT ![w] = FALSE]
    /\ buffer' = [buffer EXCEPT ![w] = {}]
    /\ current' = [current EXCEPT ![w] = NoMessage]
    /\ attempts' = [attempts EXCEPT ![w] = 0]
    /\ cache' = [cache EXCEPT ![w] = <<>>]
    /\ pc' = [pc EXCEPT ![w] = "down"]
    /\ UNCHANGED <<acked, outcomeVars, forgotten>>

\* The oldest cache entry has outlived its time to live.
Expire(w) ==
    /\ cache[w] # <<>>
    /\ Fault
    /\ forgotten' = forgotten + 1
    /\ cache' = [cache EXCEPT ![w] = DropOldest(@)]
    /\ UNCHANGED <<queueVars, attached, buffer, current, pc, attempts,
                   outcomeVars, crashes>>

Step(w) ==
    \/ Start(w)
    \/ \E m \in buffer[w] : Discard(w, m) \/ SkipDuplicate(w, m) \/ Take(w, m)
    \/ HandlerReturns(w)
    \/ HandlerRaises(w)
    \/ DeadLetter(w)
    \/ DeadLetterFails(w)
    \/ Ack(w)
    \/ Nack(w)
    \/ Restart(w)

Next ==
    \E w \in Workers :
        \/ Step(w)
        \/ Deliver(w)
        \/ ConnectionLost(w)
        \/ Crash(w)
        \/ Expire(w)

\* The event loop keeps running a task that can run, a dead process is
\* restarted by its orchestrator, and the broker delivers what is ready.
Fairness == \A w \in Workers : WF_vars(Step(w)) /\ WF_vars(Deliver(w))

Spec == Init /\ [][Next]_vars

FairSpec == Spec /\ Fairness

(***************************************************************************)
(* Properties.                                                             *)
(***************************************************************************)

\* The shape of the state; TLC checks it wherever a configuration names it.
TypeOK ==
    /\ ready \subseteq Messages
    /\ acked \subseteq Messages
    /\ attached \in [Workers -> BOOLEAN]
    /\ buffer \in [Workers -> SUBSET Messages]
    /\ current \in [Workers -> Messages \union {NoMessage}]
    /\ pc \in [Workers -> PCs]
    /\ attempts \in [Workers -> 0 .. MaxRetries + 1]
    /\ cache \in [Workers -> Caches]
    /\ \A w \in Workers : Len(cache[w]) <= MaxEntries
    /\ successes \in [Messages -> Nat]
    /\ deadLettered \subseteq Messages
    /\ discarded \subseteq Garbage
    /\ {faults, crashes, forgotten} \subseteq Nat

Handled == {m \in Messages : successes[m] > 0}

Delivery == INSTANCE AtLeastOnceDelivery WITH
    handled <- Handled,
    dead <- deadLettered,
    dropped <- discarded,
    retired <- acked

\* The loop keeps the delivery promise, and garbage is all it gives up: an
\* ack, the only way out of the queue, never takes a message that has neither
\* been settled nor discarded, whichever worker, retry or restart sends it.
DeliversAtLeastOnce == Delivery!Spec

\* A worker repeats an effect only when it has lost its memory: over all the
\* copies of a message the handler returns at most once per worker, plus once
\* per crash or forgotten cache entry.  Losing the connection, which loses the
\* acks of finished messages and redelivers them, costs nothing: the cache
\* outlives the connection.
Returns(id) ==
    UNION {{<<m, n>> : n \in 1 .. successes[m]} : m \in {x \in Messages : IdOf[x] = id}}

Successes(id) == Cardinality(Returns(id))

RepeatsAreExplained ==
    \A id \in Ids : Successes(id) <= Cardinality(Workers) + crashes + forgotten

\* Every message leaves the queue in the end, although handlers may fail for
\* ever: the dead-letter queue takes what they refuse.
EveryMessageRetired == Delivery!EventuallyRetired

=============================================================================
