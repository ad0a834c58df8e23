---------------------------- MODULE KafkaConsumer ----------------------------
(***************************************************************************)
(* consume_forever of common/kafka.py: the consumers of one partition of a *)
(* topic.  All KaiMS services join the consumer group KAFKA_GROUP_ID,      *)
(* which they share (common/config.py), so the workers of every service    *)
(* that subscribes to the topic compete for the partition; ServiceOf tells *)
(* whose worker is whose.                                                  *)
(*                                                                         *)
(* A worker is one asyncio task running consume_forever in a process of    *)
(* its own, with its own ProcessedMessageCache.  The partition is a log of *)
(* records; the broker keeps the group's committed offset, the owner's     *)
(* consumer the position it has read up to (that of a worker which does    *)
(* not own the partition is never looked at again: Assign resets it).      *)
(* Commit names no offset: it commits the position.                        *)
(*                                                                         *)
(* External (aiokafka and the group coordinator): Assign, and the failures *)
(* of a commit.                                                            *)
(***************************************************************************)
EXTENDS ProcessedMessageCache, FiniteSets

CONSTANTS
    Workers,          \* the group's members for this topic
    Services,
    ServiceOf,        \* the service each worker belongs to
    Log,              \* the identity of the record at each offset
    MaxRetries,       \* kafka_consumer_max_retries
    DlqOutages,       \* may the dead-letter producer be out of reach?
    MaxCrashes,       \* bound on process deaths
    MaxRebalances,    \* bound on reassignments while the owner lives
    MaxDead,          \* bound on tasks that have ended with an exception
    MaxExpiries,      \* no entry outlives its ttl once this many are forgotten
    Nobody            \* no owner

Offsets == DOMAIN Log
End == Len(Log) + 1   \* the offset of the next record to be appended

ASSUME KafkaAssumption ==
    /\ Workers # {}
    /\ Nobody \notin Workers
    /\ ServiceOf \in [Workers -> Services]
    /\ Log \in Seq(Ids \union {NoId})
    /\ MaxRetries \in Nat
    /\ DlqOutages \in BOOLEAN
    /\ {MaxCrashes, MaxRebalances, MaxDead, MaxExpiries} \subseteq Nat

VARIABLES
    committed,     \* the group's committed offset: where a new owner resumes
    owner,         \* the worker the partition is assigned to
    pc,            \* where each worker's loop stands
    position,      \* the next offset the owner's consumer would fetch
    current,       \* the record each worker has in hand, 0 for none
    attempts,      \* failed handler calls for it
    cache,         \* processed_cache
    successes,     \* how often each service's handler returned for a record
    deadLettered,  \* records published to the dead-letter topic
    abandoned,     \* records whose retries and dead-lettering both failed
    crashes, rebalances,
    forgotten      \* cache entries lost to the ttl or to the size limit

brokerVars == <<committed, owner, position>>
loopVars == <<pc, current, attempts, cache>>
outcomeVars == <<successes, deadLettered, abandoned>>
boundVars == <<crashes, rebalances>>
vars == <<brokerVars, loopVars, outcomeVars, boundVars, forgotten>>

(***************************************************************************)
(* "down"        no process                                                *)
(* "idle"        waiting in `async for record'                             *)
(* "handling"    awaiting handler(payload), or asleep before the next try  *)
(* "gave_up"     the last retry has failed                                 *)
(* "committing"  awaiting consumer.commit()                                *)
(* "dead"        a commit has raised: the task is gone, while its consumer *)
(*               goes on as a member of the group                          *)
(* "unstarted"   start() has raised: the task is gone, and no consumer of  *)
(*               it ever joined the group                                  *)
(***************************************************************************)
PCs == {"down", "idle", "handling", "gave_up", "committing", "dead", "unstarted"}

Member(w) == pc[w] \notin {"down", "unstarted"}

\* Bounds the workers whose task has ended with an exception.
MayEnd == Cardinality({x \in Workers : pc[x] \in {"dead", "unstarted"}}) < MaxDead

Init ==
    /\ committed = 1
    /\ owner = Nobody
    /\ position = 1
    /\ pc = [w \in Workers |-> "down"]
    /\ current = [w \in Workers |-> 0]
    /\ attempts = [w \in Workers |-> 0]
    /\ cache = [w \in Workers |-> <<>>]
    /\ successes = [s \in Services |-> [o \in Offsets |-> 0]]
    /\ deadLettered = {}
    /\ abandoned = {}
    /\ crashes = 0
    /\ rebalances = 0
    /\ forgotten = 0

(***************************************************************************)
(* The worker's loop.                                                      *)
(***************************************************************************)

Start(w) ==
    /\ pc[w] = "down"
    /\ pc' = [pc EXCEPT ![w] = "idle"]
    /\ UNCHANGED <<brokerVars, current, attempts, cache,
                   outcomeVars, boundVars, forgotten>>

\* The last of kafka_startup_attempts has failed: start() raises, and so does
\* consume_forever.  Only a new process tries again.
StartRaises(w) ==
    /\ pc[w] = "down"
    /\ MayEnd
    /\ pc' = [pc EXCEPT ![w] = "unstarted"]
    /\ UNCHANGED <<brokerVars, current, attempts, cache,
                   outcomeVars, boundVars, forgotten>>

Fetch(w) ==
    /\ pc[w] = "idle"
    /\ owner = w
    /\ position \in Offsets
    /\ current' = [current EXCEPT ![w] = position]
    /\ position' = position + 1

\* A copy of a message this worker has settled: committed without a look.
SkipDuplicate(w) ==
    /\ Fetch(w)
    /\ Contains(cache[w], Log[position])
    /\ pc' = [pc EXCEPT ![w] = "committing"]
    /\ UNCHANGED <<committed, owner, attempts, cache,
                   outcomeVars, boundVars, forgotten>>

Take(w) ==
    /\ Fetch(w)
    /\ ~ Contains(cache[w], Log[position])
    /\ pc' = [pc EXCEPT ![w] = "handling"]
    /\ UNCHANGED <<committed, owner, attempts, cache,
                   outcomeVars, boundVars, forgotten>>

\* Mutant: the identity is never marked.
MarkCurrentForgets(w) == UNCHANGED <<cache, forgotten>>

\* processed_cache.mark(identity) for the record in hand.
MarkCurrent(w) ==
    LET id == Log[current[w]]
    IN  /\ cache' = [cache EXCEPT ![w] = Mark(@, id)]
        /\ forgotten' = forgotten + (IF Overflows(cache[w], id) THEN 1 ELSE 0)

HandlerReturns(w) ==
    /\ pc[w] = "handling"
    /\ successes' = [successes EXCEPT ![ServiceOf[w]][current[w]] = @ + 1]
    /\ MarkCurrent(w)
    /\ pc' = [pc EXCEPT ![w] = "committing"]
    /\ UNCHANGED <<brokerVars, current, attempts,
                   deadLettered, abandoned, boundVars>>

\* Mutant: the last failure is retried like the others.
HandlerRaisesForever(w) ==
    /\ pc[w] = "handling"
    /\ attempts' = [attempts EXCEPT ![w] = (@ + 1) % (MaxRetries + 1)]
    /\ UNCHANGED <<brokerVars, pc, current, cache,
                   outcomeVars, boundVars, forgotten>>

HandlerRaises(w) ==
    /\ pc[w] = "handling"
    /\ attempts' = [attempts EXCEPT ![w] = @ + 1]
    /\ pc' = [pc EXCEPT ![w] =
                  IF attempts[w] + 1 > MaxRetries THEN "gave_up" ELSE "handling"]
    /\ UNCHANGED <<brokerVars, current, cache,
                   outcomeVars, boundVars, forgotten>>

DeadLetter(w) ==
    /\ pc[w] = "gave_up"
    /\ deadLettered' = deadLettered \union {current[w]}
    /\ MarkCurrent(w)
    /\ pc' = [pc EXCEPT ![w] = "committing"]
    /\ UNCHANGED <<brokerVars, current, attempts,
                   successes, abandoned, boundVars>>

\* The loop goes on with the next record, and forgets this one.
NextRecord(w) ==
    /\ pc' = [pc EXCEPT ![w] = "idle"]
    /\ current' = [current EXCEPT ![w] = 0]
    /\ attempts' = [attempts EXCEPT ![w] = 0]

\* Mutant: should_commit is TRUE from the start.
AbandonCommits(w) ==
    /\ pc[w] = "gave_up"
    /\ DlqOutages
    /\ pc' = [pc EXCEPT ![w] = "committing"]
    /\ UNCHANGED <<brokerVars, current, attempts, cache, outcomeVars,
                   boundVars, forgotten>>

\* The dead-letter producer could not be started (only logged), or its
\* publish raised: should_commit stays False.
Abandon(w) ==
    /\ pc[w] = "gave_up"
    /\ DlqOutages
    /\ abandoned' = abandoned \union {current[w]}
    /\ NextRecord(w)
    /\ UNCHANGED <<brokerVars, cache, successes, deadLettered, boundVars,
                   forgotten>>

\* Mutant: the offset of the record in hand is committed, whoever owns the
\* partition by now.
CommitRecord(w) ==
    /\ pc[w] = "committing"
    /\ committed' = current[w] + 1
    /\ NextRecord(w)
    /\ UNCHANGED <<owner, position, cache, outcomeVars, boundVars, forgotten>>

\* A worker that has lost the partition has nothing left to commit.
Commit(w) ==
    /\ pc[w] = "committing"
    /\ committed' = IF owner = w THEN position ELSE committed
    /\ NextRecord(w)
    /\ UNCHANGED <<owner, position, cache, outcomeVars, boundVars, forgotten>>

\* The commit raises: nothing catches it, and nothing restarts the task.
CommitRaises(w) ==
    /\ pc[w] = "committing"
    /\ MayEnd
    /\ pc' = [pc EXCEPT ![w] = "dead"]
    /\ UNCHANGED <<brokerVars, current, attempts, cache,
                   outcomeVars, boundVars, forgotten>>

(***************************************************************************)
(* The environment.                                                        *)
(***************************************************************************)

\* The coordinator gives the partition to a member, which resumes at the
\* committed offset.  The old owner finishes the record it has in hand.
Assign(w) ==
    /\ Member(w)
    /\ owner # w
    /\ owner # Nobody => rebalances < MaxRebalances
    /\ rebalances' = IF owner = Nobody THEN rebalances ELSE rebalances + 1
    /\ owner' = w
    /\ position' = committed
    /\ UNCHANGED <<committed, loopVars, outcomeVars, crashes, forgotten>>

\* The process dies, or shutdown() cancels the task: its cache is lost, and
\* whatever was not yet committed will be delivered again.
Crash(w) ==
    /\ pc[w] # "down"
    /\ crashes < MaxCrashes
    /\ crashes' = crashes + 1
    /\ pc' = [pc EXCEPT ![w] = "down"]
    /\ current' = [current EXCEPT ![w] = 0]
    /\ attempts' = [attempts EXCEPT ![w] = 0]
    /\ cache' = [cache EXCEPT ![w] = <<>>]
    /\ owner' = IF owner = w THEN Nobody ELSE owner
    /\ UNCHANGED <<committed, position, outcomeVars, rebalances, forgotten>>

\* The oldest cache entry has outlived its time to live.
Expire(w) ==
    /\ cache[w] # <<>>
    /\ forgotten < MaxExpiries
    /\ forgotten' = forgotten + 1
    /\ cache' = [cache EXCEPT ![w] = DropOldest(@)]
    /\ UNCHANGED <<brokerVars, pc, current, attempts, outcomeVars, boundVars>>

Step(w) ==
    \/ Start(w)
    \/ SkipDuplicate(w)
    \/ Take(w)
    \/ HandlerReturns(w)
    \/ HandlerRaises(w)
    \/ DeadLetter(w)
    \/ Abandon(w)
    \/ Commit(w)

Next ==
    \E w \in Workers :
        \/ Step(w) \/ StartRaises(w) \/ CommitRaises(w)
        \/ Assign(w) \/ Crash(w) \/ Expire(w)

\* The event loop keeps running a task that can run, a dead process is
\* restarted by its orchestrator (Start), and an orphaned partition is
\* assigned again.
Fairness ==
    \A w \in Workers :
        /\ WF_vars(Step(w))
        /\ WF_vars(owner = Nobody /\ Assign(w))

Spec == Init /\ [][Next]_vars

FairSpec == Spec /\ Fairness

(***************************************************************************)
(* Properties.                                                             *)
(***************************************************************************)

TypeOK ==
    /\ committed \in 1 .. End
    /\ owner \in Workers \union {Nobody}
    /\ position \in 1 .. End
    /\ pc \in [Workers -> PCs]
    /\ current \in [Workers -> Offsets \union {0}]
    /\ attempts \in [Workers -> 0 .. MaxRetries + 1]
    /\ cache \in [Workers -> Caches]
    /\ \A w \in Workers : Len(cache[w]) <= MaxEntries
    /\ successes \in [Services -> [Offsets -> Nat]]
    /\ deadLettered \subseteq Offsets
    /\ abandoned \subseteq Offsets
    /\ crashes \in Nat
    /\ rebalances \in Nat
    /\ forgotten \in Nat

Handled == {o \in Offsets : \E s \in Services : successes[s][o] > 0}

Delivery == INSTANCE AtLeastOnceDelivery WITH
    Messages <- Offsets,
    IdOf <- Log,
    handled <- Handled,
    dead <- deadLettered,
    dropped <- abandoned,
    retired <- {o \in Offsets : o < committed}

\* The loop keeps the delivery promise of the abstract specification, with
\* the abandoned records as the only ones it gives up: commits never move
\* back, and never pass a record that is neither settled nor abandoned, even
\* though a commit names no record and may come from a worker that lost the
\* partition while it was handling one.
DeliversAtLeastOnce == Delivery!Spec

\* Every committed record is settled or was abandoned with its dead-letter
\* publish: the commit of one record never covers another that is still in
\* somebody's hands (kafka.py:205-207 commits a position, not a record).
CommittedAccounted == Delivery!RetiredAccounted

\* An effect is repeated only for a reason: over all workers and all the
\* copies of a message in the log, the handler returns for one identity at
\* most once plus once per rebalance, crash or forgotten cache entry.
Returns(id) ==
    UNION {UNION {{<<s, o, n>> : n \in 1 .. successes[s][o]} :
                      o \in {x \in Offsets : Log[x] = id}} : s \in Services}

Successes(id) == Cardinality(Returns(id))

RepeatsAreExplained ==
    \A id \in Ids : Successes(id) <= 1 + rebalances + crashes + forgotten

\* Every record is settled or given up in the end, whatever the handler does,
\* unless a commit raised and took the loop of a member with it, or no worker
\* managed to start.  One worker that started is enough.
EveryRecordTried ==
    <>(\/ \A o \in Offsets : Delivery!Accounted(o)
       \/ \E w \in Workers : pc[w] = "dead"
       \/ \A w \in Workers : pc[w] = "unstarted")

=============================================================================
