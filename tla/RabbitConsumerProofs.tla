------------------------- MODULE RabbitConsumerProofs -------------------------
(***************************************************************************)
(* Proofs about RabbitConsumer, for every queue, every number of workers,  *)
(* every retry limit and cache size, and any number of lost connections,   *)
(* crashes, failed publishes and expired cache entries.                    *)
(***************************************************************************)
EXTENDS RabbitConsumer, ProcessedMessageCacheProofs, FiniteSetTheorems

USE RabbitAssumption

(***************************************************************************)
(* Types.                                                                  *)
(***************************************************************************)

\* What a worker has in hand while it is working on a message.
HandFull ==
    \A w \in Workers :
        pc[w] \in {"handling", "gave_up", "acking", "nacking"} => current[w] \in Messages

\* The retry loop ends at the limit, and starts at zero.
AttemptsLeft ==
    \A w \in Workers :
        /\ pc[w] \in {"down", "idle"} => attempts[w] = 0
        /\ pc[w] = "handling" => attempts[w] <= MaxRetries

TypeInv == TypeOK /\ HandFull /\ AttemptsLeft

LEMMA TypeInit == Init => TypeInv
<1> SUFFICES ASSUME Init PROVE TypeInv
  OBVIOUS
<1>1. <<>> \in Caches /\ Len(<<>>) <= MaxEntries
  BY CacheAssumption, EmptySeq DEF Caches
<1> QED
  BY <1>1 DEF Init, TypeInv, TypeOK, HandFull, AttemptsLeft, PCs

\* The duplicate filter keeps its shape when the message in hand is marked.
LEMMA MarkKeepsType ==
    ASSUME TypeInv, NEW w \in Workers, MarkCurrent(w), current[w] \in Messages
    PROVE  /\ cache' \in [Workers -> Caches]
           /\ \A x \in Workers : Len(cache'[x]) <= MaxEntries
           /\ forgotten' \in Nat
<1> USE DEF TypeInv, TypeOK
<1> DEFINE marked == Mark(cache[w], IdOf[current[w]])
<1>1. GoodCache(cache[w]) /\ IdOf[current[w]] \in Ids \union {NoId}
  BY DEF GoodCache
<1>2. marked \in Caches /\ Len(marked) <= MaxEntries
  BY <1>1, MarkProperties DEF GoodCache
<1>3. cache' = [cache EXCEPT ![w] = marked]
  BY DEF MarkCurrent
<1>4. forgotten' \in Nat
  <2>1. \/ forgotten' = forgotten + 1
        \/ forgotten' = forgotten + 0
    BY DEF MarkCurrent
  <2> QED
    BY <2>1, SMTT(30)
<1> HIDE DEF marked
<1>5. cache' \in [Workers -> Caches]
  BY <1>2, <1>3
<1>6. ASSUME NEW x \in Workers PROVE Len(cache'[x]) <= MaxEntries
  BY <1>2, <1>3
<1> QED
  BY <1>4, <1>5, <1>6

LEMMA TypeStep == TypeInv /\ [Next]_vars => TypeInv'
<1> SUFFICES ASSUME TypeInv, [Next]_vars
             PROVE  TypeInv'
  OBVIOUS
<1> USE DEF TypeInv, TypeOK, HandFull, AttemptsLeft
<1>1. ASSUME NEW w \in Workers, Start(w)
      PROVE  TypeInv'
  BY <1>1 DEF Start, queueVars, outcomeVars, boundVars, PCs
<1>2. ASSUME NEW w \in Workers, NEW m \in buffer[w], NextOf(w, m)
      PROVE  /\ m \in Messages
             /\ buffer' \in [Workers -> SUBSET Messages]
             /\ current' \in [Workers -> Messages \union {NoMessage}]
             /\ \A x \in Workers : current'[x] = IF x = w THEN m ELSE current[x]
  <2>1. m \in Messages /\ buffer[w] \ {m} \subseteq Messages
    OBVIOUS
  <2> QED
    BY <1>2, <2>1 DEF NextOf
<1>3. ASSUME NEW w \in Workers, NEW m \in buffer[w],
             Discard(w, m) \/ SkipDuplicate(w, m) \/ Take(w, m)
      PROVE  TypeInv'
  <2>1. NextOf(w, m) /\ pc[w] = "idle"
    BY <1>3 DEF Discard, SkipDuplicate, Take, NextOf
  <2>2. \E p \in {"acking", "handling"} : pc' = [pc EXCEPT ![w] = p]
    BY <1>3 DEF Discard, SkipDuplicate, Take
  <2>3. pc' \in [Workers -> PCs]
    BY <2>2 DEF PCs
  <2>4. discarded' \subseteq Garbage
    BY <1>3 DEF Discard, SkipDuplicate, Take, outcomeVars
  <2>5. UNCHANGED <<ready, acked, attached, attempts, cache, successes, deadLettered,
                    faults, crashes, forgotten>>
    BY <1>3 DEF Discard, SkipDuplicate, Take, queueVars, outcomeVars, boundVars
  <2>6. TypeOK'
    BY <1>2, <2>1, <2>3, <2>4, <2>5
  <2>7. HandFull'
    BY <1>2, <2>1, <2>2
  <2>8. AttemptsLeft'
    BY <2>1, <2>2, <2>5
  <2> QED
    BY <2>6, <2>7, <2>8
<1>4. ASSUME NEW w \in Workers, HandlerReturns(w)
      PROVE  TypeInv'
  <2> USE <1>4 DEF HandlerReturns
  <2>1. current[w] \in Messages
    OBVIOUS
  <2>2. successes[current[w]] + 1 \in Nat
    BY <2>1, SMTT(30)
  <2>3. successes' \in [Messages -> Nat]
    BY <2>1, <2>2
  <2>4. /\ cache' \in [Workers -> Caches]
        /\ \A x \in Workers : Len(cache'[x]) <= MaxEntries
        /\ forgotten' \in Nat
    BY <2>1, MarkKeepsType
  <2>5. pc' \in [Workers -> PCs]
    BY DEF PCs
  <2>6. HandFull' /\ AttemptsLeft'
    OBVIOUS
  <2>7. UNCHANGED <<ready, acked, attached, buffer, current, attempts, deadLettered,
                    discarded, faults, crashes>>
    BY DEF queueVars, boundVars
  <2> QED
    BY <2>3, <2>4, <2>5, <2>6, <2>7
<1>5. ASSUME NEW w \in Workers, HandlerRaises(w)
      PROVE  TypeInv'
  <2> USE <1>5 DEF HandlerRaises
  <2>1. attempts[w] + 1 \in 0 .. MaxRetries + 1
    BY SMTT(30)
  <2>2. attempts' \in [Workers -> 0 .. MaxRetries + 1]
    BY <2>1
  <2>3. pc' \in [Workers -> PCs]
    BY DEF PCs
  <2>4. HandFull'
    OBVIOUS
  <2>5. AttemptsLeft'
    <3> SUFFICES ASSUME NEW x \in Workers
                 PROVE  /\ pc'[x] \in {"down", "idle"} => attempts'[x] = 0
                        /\ pc'[x] = "handling" => attempts'[x] <= MaxRetries
      BY DEF AttemptsLeft
    <3>1. CASE x = w
      BY <3>1, <2>1, SMTT(30)
    <3>2. CASE x # w
      BY <3>2
    <3> QED
      BY <3>1, <3>2
  <2>6. UNCHANGED <<ready, acked, attached, buffer, current, cache, successes,
                    deadLettered, discarded, faults, crashes, forgotten>>
    BY DEF queueVars, outcomeVars, boundVars
  <2> QED
    BY <2>2, <2>3, <2>4, <2>5, <2>6
<1>6. ASSUME NEW w \in Workers, DeadLetter(w)
      PROVE  TypeInv'
  <2> USE <1>6 DEF DeadLetter
  <2>1. current[w] \in Messages
    OBVIOUS
  <2>2. /\ cache' \in [Workers -> Caches]
        /\ \A x \in Workers : Len(cache'[x]) <= MaxEntries
        /\ forgotten' \in Nat
    BY <2>1, MarkKeepsType
  <2>3. pc' \in [Workers -> PCs]
    BY DEF PCs
  <2>4. HandFull' /\ AttemptsLeft'
    OBVIOUS
  <2>5. deadLettered' \subseteq Messages
    BY <2>1
  <2>6. UNCHANGED <<ready, acked, attached, buffer, current, attempts, successes,
                    discarded, faults, crashes>>
    BY DEF queueVars, boundVars
  <2> QED
    BY <2>2, <2>3, <2>4, <2>5, <2>6
<1>7. ASSUME Fault
      PROVE  faults' \in Nat
  BY <1>7 DEF Fault
<1>8. ASSUME NEW w \in Workers, DeadLetterFails(w)
      PROVE  TypeInv'
  BY <1>7, <1>8 DEF DeadLetterFails, queueVars, outcomeVars, PCs
\* The three ways to go on with the next message.
<1>9. ASSUME NEW w \in Workers, NextMessage(w)
      PROVE  /\ pc' \in [Workers -> PCs]
             /\ current' \in [Workers -> Messages \union {NoMessage}]
             /\ attempts' \in [Workers -> 0 .. MaxRetries + 1]
             /\ HandFull' /\ AttemptsLeft'
  <2>1. pc' \in [Workers -> PCs]
    BY <1>9 DEF NextMessage, PCs
  <2>2. /\ current' \in [Workers -> Messages \union {NoMessage}]
        /\ attempts' \in [Workers -> 0 .. MaxRetries + 1]
    BY <1>9 DEF NextMessage
  <2>3. HandFull' /\ AttemptsLeft'
    BY <1>9 DEF NextMessage
  <2> QED
    BY <2>1, <2>2, <2>3
<1>10. ASSUME NEW w \in Workers, Ack(w) \/ Nack(w) \/ Restart(w)
       PROVE  TypeInv'
  <2>1. NextMessage(w)
    BY <1>10 DEF Ack, Nack, Restart
  <2>2. UNCHANGED <<cache, successes, deadLettered, discarded, faults, crashes, forgotten>>
    BY <1>10 DEF Ack, Nack, Restart, outcomeVars, boundVars
  <2>3. ready' \subseteq Messages /\ acked' \subseteq Messages
    BY <1>10 DEF Ack, Nack, Restart, queueVars
  <2>4. attached' \in [Workers -> BOOLEAN] /\ buffer' \in [Workers -> SUBSET Messages]
    BY <1>10 DEF Ack, Nack, Restart
  <2> QED
    BY <1>9, <2>1, <2>2, <2>3, <2>4
<1>11. ASSUME NEW w \in Workers, Deliver(w)
       PROVE  TypeInv'
  <2>1. PICK m \in ready : /\ ready' = ready \ {m}
                           /\ buffer' = [buffer EXCEPT ![w] = buffer[w] \union {m}]
    BY <1>11 DEF Deliver
  <2>2. buffer[w] \union {m} \subseteq Messages
    OBVIOUS
  <2>3. buffer' \in [Workers -> SUBSET Messages]
    BY <2>1, <2>2
  <2>4. UNCHANGED <<acked, attached, current, pc, attempts, cache, successes, deadLettered,
                    discarded, faults, crashes, forgotten>>
    BY <1>11 DEF Deliver, outcomeVars, boundVars
  <2> QED
    BY <2>1, <2>3, <2>4
<1>12. ASSUME NEW w \in Workers
       PROVE  Unacked(w) \subseteq Messages
  BY DEF Unacked, InHand
<1>13. ASSUME NEW w \in Workers, ConnectionLost(w)
       PROVE  TypeInv'
  <2>1. UNCHANGED <<acked, buffer, current, pc, attempts, cache, successes, deadLettered,
                    discarded, crashes, forgotten>>
    BY <1>13 DEF ConnectionLost, outcomeVars
  <2>2. ready' \subseteq Messages /\ attached' \in [Workers -> BOOLEAN] /\ faults' \in Nat
    BY <1>7, <1>12, <1>13 DEF ConnectionLost
  <2> QED
    BY <2>1, <2>2
<1>14. ASSUME NEW w \in Workers, Crash(w)
       PROVE  TypeInv'
  <2> USE <1>14 DEF Crash
  <2>1. <<>> \in Caches /\ Len(<<>>) <= MaxEntries
    BY CacheAssumption, EmptySeq DEF Caches
  <2>2. /\ cache' \in [Workers -> Caches]
        /\ \A x \in Workers : Len(cache'[x]) <= MaxEntries
    BY <2>1
  <2>3. ready' \subseteq Messages /\ attached' \in [Workers -> BOOLEAN] /\ faults' \in Nat
        /\ crashes' \in Nat
    BY <1>7, <1>12
  <2>4. /\ buffer' \in [Workers -> SUBSET Messages]
        /\ current' \in [Workers -> Messages \union {NoMessage}]
        /\ attempts' \in [Workers -> 0 .. MaxRetries + 1]
    OBVIOUS
  <2>5. pc' \in [Workers -> PCs]
    BY DEF PCs
  <2>6. HandFull' /\ AttemptsLeft'
    OBVIOUS
  <2>7. UNCHANGED <<acked, successes, deadLettered, discarded, forgotten>>
    BY DEF outcomeVars
  <2> QED
    BY <2>2, <2>3, <2>4, <2>5, <2>6, <2>7
<1>15. ASSUME NEW w \in Workers, Expire(w)
       PROVE  TypeInv'
  <2>1. /\ cache[w] # <<>>
        /\ cache' = [cache EXCEPT ![w] = DropOldest(cache[w])]
        /\ forgotten' = forgotten + 1
        /\ UNCHANGED <<ready, acked, attached, buffer, current, pc, attempts, successes,
                       deadLettered, discarded, crashes>>
    BY <1>15 DEF Expire, queueVars, outcomeVars
  <2>2. /\ DropOldest(cache[w]) \in Caches
        /\ Len(DropOldest(cache[w])) = Len(cache[w]) - 1
    BY <2>1, DropOldestProperties
  <2>3. Len(cache[w]) \in Nat /\ Len(cache[w]) <= MaxEntries
    BY DEF Caches
  <2>4. cache' \in [Workers -> Caches]
    BY <2>1, <2>2
  <2>5. ASSUME NEW x \in Workers PROVE Len(cache'[x]) <= MaxEntries
    BY <2>1, <2>2, <2>3, CacheAssumption
  <2>6. faults' \in Nat /\ forgotten' \in Nat
    BY <1>7, <1>15, <2>1 DEF Expire
  <2> QED
    BY <2>1, <2>4, <2>5, <2>6
<1>16. CASE UNCHANGED vars
  BY <1>16 DEF vars, queueVars, outcomeVars, boundVars
<1> QED
  BY <1>1, <1>3, <1>4, <1>5, <1>6, <1>8, <1>10, <1>11, <1>13, <1>14, <1>15, <1>16
     DEF Next, Step

\* Every variable keeps its range: the buffers and the queue hold messages of the topic,
\* only garbage is discarded, the duplicate filter keeps distinct keys and its size limit,
\* and no message is retried more often than the setting allows.
THEOREM TypeCorrect == Spec => []TypeOK
<1>1. TypeInv => TypeOK
  BY DEF TypeInv
<1> QED
  BY <1>1, TypeInit, TypeStep, PTL DEF Spec

(***************************************************************************)
(* The strengthening of RetiredAccounted that is inductive.  A message is  *)
(* acked by the worker that has it in hand, which must have accounted for  *)
(* it by then; it trusts its duplicate filter for copies, so what the      *)
(* filter holds must be true, also when it was filled before a connection  *)
(* was lost.                                                               *)
(***************************************************************************)
Done == Handled \union deadLettered

CacheTruthful ==
    \A w \in Workers : \A id \in Cached(cache[w]) : \E n \in Done : IdOf[n] = id

AckingAccounted ==
    \A w \in Workers : pc[w] = "acking" => Delivery!Accounted(current[w])

IInv ==
    /\ TypeInv
    /\ CacheTruthful
    /\ AckingAccounted
    /\ Delivery!RetiredAccounted

\* Outcomes only accumulate, so what is accounted for stays so.
Grows == /\ Handled \subseteq Handled' /\ deadLettered \subseteq deadLettered'
         /\ discarded \subseteq discarded'

LEMMA AccountedStays ==
    ASSUME Grows, NEW m, Delivery!Accounted(m)
    PROVE  Delivery!Accounted(m)'
BY DEF Grows, Delivery!Accounted, Delivery!Settled

\* A handler that returns handles the message in hand and no other.
LEMMA HandlerHandles ==
    ASSUME TypeInv, NEW w \in Workers, HandlerReturns(w)
    PROVE  /\ current[w] \in Messages
           /\ Handled' = Handled \union {current[w]}
<1>1. /\ successes \in [Messages -> Nat]
      /\ current[w] \in Messages
      /\ successes' = [successes EXCEPT ![current[w]] = successes[current[w]] + 1]
  BY DEF TypeInv, TypeOK, HandFull, HandlerReturns
<1>2. \A m \in Messages :
          successes'[m] = IF m = current[w] THEN successes[m] + 1 ELSE successes[m]
  BY <1>1
<1>3. successes[current[w]] + 1 > 0
  BY <1>1
<1> QED
  BY <1>1, <1>2, <1>3 DEF Handled

LEMMA OutcomesGrow ==
    ASSUME TypeInv, [Next]_vars
    PROVE  Grows
<1> USE DEF Grows
<1>1. ASSUME NEW w \in Workers, HandlerReturns(w)
      PROVE  Grows
  BY <1>1, HandlerHandles DEF HandlerReturns
<1>2. ASSUME NEW w \in Workers, DeadLetter(w)
      PROVE  Grows
  BY <1>2 DEF DeadLetter, Handled
<1>3. ASSUME NEW w \in Workers, NEW m \in buffer[w], Discard(w, m)
      PROVE  Grows
  BY <1>3 DEF Discard, Handled
<1>4. ASSUME NEW w \in Workers,
             \/ Start(w)
             \/ \E m \in buffer[w] : SkipDuplicate(w, m) \/ Take(w, m)
             \/ HandlerRaises(w) \/ DeadLetterFails(w) \/ Ack(w) \/ Nack(w) \/ Restart(w)
             \/ Deliver(w) \/ ConnectionLost(w) \/ Crash(w) \/ Expire(w)
      PROVE  Grows
  <2>1. UNCHANGED outcomeVars
    BY <1>4 DEF Start, SkipDuplicate, Take, HandlerRaises, DeadLetterFails, Ack, Nack,
                Restart, Deliver, ConnectionLost, Crash, Expire
  <2> QED
    BY <2>1 DEF outcomeVars, Handled
<1>5. CASE UNCHANGED vars
  BY <1>5 DEF vars, outcomeVars, Handled
<1> QED
  BY <1>1, <1>2, <1>3, <1>4, <1>5 DEF Next, Step

\* A handler that returns, or a dead-letter publish that succeeds, settles the message
\* in hand.
LEMMA CurrentDone ==
    ASSUME TypeInv, NEW w \in Workers, HandlerReturns(w) \/ DeadLetter(w)
    PROVE  /\ current[w] \in Messages
           /\ current[w] \in Done'
           /\ current' = current
<1>1. current[w] \in Messages /\ current' = current
  BY DEF TypeInv, HandFull, HandlerReturns, DeadLetter
<1>2. CASE HandlerReturns(w)
  BY <1>1, <1>2, HandlerHandles DEF Done
<1>3. CASE DeadLetter(w)
  BY <1>1, <1>3 DEF DeadLetter, Done
<1> QED
  BY <1>1, <1>2, <1>3

LEMMA CacheStep ==
    ASSUME TypeInv, CacheTruthful, [Next]_vars
    PROVE  CacheTruthful'
<1>1. Done \subseteq Done'
  BY OutcomesGrow DEF Grows, Done
\* It is enough that every key a cache gains names a settled message.
<1>2. ASSUME \A w \in Workers : \A id \in Cached(cache'[w]) :
                id \in Cached(cache[w]) \/ \E n \in Done' : IdOf[n] = id
      PROVE  CacheTruthful'
  BY <1>1, <1>2 DEF CacheTruthful
<1>3. ASSUME NEW w \in Workers, HandlerReturns(w) \/ DeadLetter(w)
      PROVE  CacheTruthful'
  <2>1. current[w] \in Messages /\ current[w] \in Done'
    BY <1>3, CurrentDone
  <2>2. /\ GoodCache(cache[w])
        /\ IdOf[current[w]] \in Ids \union {NoId}
        /\ cache \in [Workers -> Caches]
    BY <2>1 DEF TypeInv, TypeOK, GoodCache
  <2>3. cache' = [cache EXCEPT ![w] = Mark(cache[w], IdOf[current[w]])]
    BY <1>3 DEF HandlerReturns, DeadLetter, MarkCurrent
  <2>4. Cached(Mark(cache[w], IdOf[current[w]])) \subseteq
            Cached(cache[w]) \union {IdOf[current[w]]}
    BY <2>2, MarkProperties
  <2> QED
    BY <1>2, <2>1, <2>2, <2>3, <2>4
<1>4. ASSUME NEW w \in Workers, Crash(w)
      PROVE  CacheTruthful'
  <2>1. Cached(<<>>) = {}
    BY DEF Cached
  <2>2. cache' = [cache EXCEPT ![w] = <<>>]
    BY <1>4 DEF Crash
  <2> QED
    BY <1>2, <2>1, <2>2 DEF TypeInv, TypeOK
<1>5. ASSUME NEW w \in Workers, Expire(w)
      PROVE  CacheTruthful'
  <2>1. /\ cache \in [Workers -> Caches]
        /\ cache[w] # <<>>
        /\ cache' = [cache EXCEPT ![w] = DropOldest(cache[w])]
    BY <1>5 DEF TypeInv, TypeOK, Expire
  <2>2. Cached(DropOldest(cache[w])) \subseteq Cached(cache[w])
    BY <2>1, DropOldestProperties
  <2> QED
    BY <1>2, <2>1, <2>2
<1>6. ASSUME NEW w \in Workers,
             \/ Start(w)
             \/ \E m \in buffer[w] : Discard(w, m) \/ SkipDuplicate(w, m) \/ Take(w, m)
             \/ HandlerRaises(w) \/ DeadLetterFails(w) \/ Ack(w) \/ Nack(w) \/ Restart(w)
             \/ Deliver(w) \/ ConnectionLost(w)
      PROVE  CacheTruthful'
  <2>1. UNCHANGED cache
    BY <1>6 DEF Start, Discard, SkipDuplicate, Take, HandlerRaises, DeadLetterFails, Ack,
                Nack, Restart, Deliver, ConnectionLost
  <2> QED
    BY <1>2, <2>1
<1>7. CASE UNCHANGED vars
  BY <1>2, <1>7 DEF vars
<1> QED
  BY <1>3, <1>4, <1>5, <1>6, <1>7 DEF Next, Step

\* A message the duplicate filter recognises is a copy of a settled one.
LEMMA DuplicateAccounted ==
    ASSUME CacheTruthful, NEW w \in Workers, NEW m, Contains(cache[w], IdOf[m])
    PROVE  Delivery!Accounted(m)
BY DEF CacheTruthful, Contains, Done, Delivery!Accounted, Delivery!Settled

LEMMA AckingStep ==
    ASSUME TypeInv, CacheTruthful, AckingAccounted, [Next]_vars
    PROVE  AckingAccounted'
<1> SUFFICES ASSUME NEW x \in Workers, pc'[x] = "acking"
             PROVE  Delivery!Accounted(current[x])'
  BY DEF AckingAccounted
<1>1. Grows
  BY OutcomesGrow
<1>2. /\ pc \in [Workers -> PCs]
      /\ current \in [Workers -> Messages \union {NoMessage}]
  BY DEF TypeInv, TypeOK
\* What the worker had accounted for before the step.
<1>3. ASSUME Delivery!Accounted(current'[x])
      PROVE  Delivery!Accounted(current[x])'
  BY <1>1, <1>3 DEF Grows, Delivery!Accounted, Delivery!Settled
<1>4. ASSUME pc[x] = "acking", current'[x] = current[x]
      PROVE  Delivery!Accounted(current[x])'
  BY <1>3, <1>4 DEF AckingAccounted
<1>5. ASSUME NEW w \in Workers, HandlerReturns(w) \/ DeadLetter(w)
      PROVE  Delivery!Accounted(current[x])'
  <2>1. /\ current[w] \in Done'
        /\ current' = current
        /\ pc' = [pc EXCEPT ![w] = "acking"]
    BY <1>5, CurrentDone DEF HandlerReturns, DeadLetter
  <2>2. CASE x = w
    BY <2>1, <2>2 DEF Done, Delivery!Accounted, Delivery!Settled
  <2>3. CASE x # w
    BY <1>2, <1>4, <2>1, <2>3
  <2> QED
    BY <2>2, <2>3
<1>6. ASSUME NEW w \in Workers, NEW m \in buffer[w], Discard(w, m) \/ SkipDuplicate(w, m)
      PROVE  Delivery!Accounted(current[x])'
  <2>1. /\ current' = [current EXCEPT ![w] = m]
        /\ pc' = [pc EXCEPT ![w] = "acking"]
    BY <1>6 DEF Discard, SkipDuplicate, NextOf
  <2>2. Delivery!Accounted(m)'
    <3>1. CASE Discard(w, m)
      BY <3>1 DEF Discard, Delivery!Accounted
    <3>2. CASE SkipDuplicate(w, m)
      <4>1. Delivery!Accounted(m)
        BY <3>2, DuplicateAccounted DEF SkipDuplicate
      <4> QED
        BY <1>1, <4>1, AccountedStays
    <3> QED
      BY <1>6, <3>1, <3>2
  <2>3. CASE x = w
    <3>1. current'[x] = m
      BY <1>2, <2>1, <2>3
    <3> QED
      BY <2>2, <3>1 DEF Delivery!Accounted, Delivery!Settled
  <2>4. CASE x # w
    BY <1>2, <1>4, <2>1, <2>4
  <2> QED
    BY <2>3, <2>4
\* Every other step leaves the workers that were acking alone, or moves one of them on.
<1>7. ASSUME NEW w \in Workers,
             \/ Start(w) \/ \E m \in buffer[w] : Take(w, m)
             \/ HandlerRaises(w) \/ DeadLetterFails(w)
             \/ Ack(w) \/ Nack(w) \/ Restart(w) \/ Crash(w)
      PROVE  Delivery!Accounted(current[x])'
  <2>1. x # w => pc'[x] = pc[x] /\ current'[x] = current[x]
    BY <1>2, <1>7 DEF Start, Take, NextOf, HandlerRaises, DeadLetterFails, Ack, Nack,
                      Restart, NextMessage, Crash
  <2>2. pc'[w] # "acking"
    BY <1>2, <1>7 DEF Start, Take, HandlerRaises, DeadLetterFails, Ack, Nack,
                      Restart, NextMessage, Crash
  <2> QED
    BY <1>4, <2>1, <2>2
<1>8. ASSUME NEW w \in Workers, Deliver(w) \/ ConnectionLost(w) \/ Expire(w)
      PROVE  Delivery!Accounted(current[x])'
  BY <1>4, <1>8 DEF Deliver, ConnectionLost, Expire
<1>9. CASE UNCHANGED vars
  BY <1>4, <1>9 DEF vars
<1> QED
  BY <1>5, <1>6, <1>7, <1>8, <1>9 DEF Next, Step

\* The one step that retires a message is the ack of the message in hand.
LEMMA RetiredStep ==
    ASSUME IInv, [Next]_vars
    PROVE  Delivery!RetiredAccounted'
<1>1. Grows
  BY OutcomesGrow DEF IInv
<1>2. ASSUME NEW m \in acked
      PROVE  Delivery!Accounted(m)'
  BY <1>1, AccountedStays DEF IInv, Delivery!RetiredAccounted
<1>3. ASSUME NEW w \in Workers, Ack(w)
      PROVE  Delivery!RetiredAccounted'
  <2>1. Delivery!Accounted(current[w]) /\ acked' = acked \union {current[w]}
    BY <1>3 DEF IInv, AckingAccounted, Ack
  <2>2. \A m \in {current[w]} : Delivery!Accounted(m)'
    BY <1>1, <2>1, AccountedStays
  <2> QED
    BY <1>2, <2>1, <2>2 DEF Delivery!RetiredAccounted
<1>4. ASSUME acked' = acked
      PROVE  Delivery!RetiredAccounted'
  BY <1>2, <1>4 DEF Delivery!RetiredAccounted
<1>5. ASSUME NEW w \in Workers,
             \/ Start(w)
             \/ \E m \in buffer[w] : Discard(w, m) \/ SkipDuplicate(w, m) \/ Take(w, m)
             \/ HandlerReturns(w) \/ HandlerRaises(w) \/ DeadLetter(w) \/ DeadLetterFails(w)
             \/ Nack(w) \/ Restart(w) \/ Deliver(w) \/ ConnectionLost(w) \/ Crash(w) \/ Expire(w)
      PROVE  Delivery!RetiredAccounted'
  <2>1. acked' = acked
    BY <1>5 DEF Start, Discard, SkipDuplicate, Take, HandlerReturns, HandlerRaises, DeadLetter,
                DeadLetterFails, Nack, Restart, Deliver, ConnectionLost, Crash, Expire, queueVars
  <2> QED
    BY <1>4, <2>1
<1>6. CASE UNCHANGED vars
  BY <1>4, <1>6 DEF vars, queueVars
<1> QED
  BY <1>3, <1>5, <1>6 DEF Next, Step

LEMMA IInvInit == Init => IInv
<1> SUFFICES ASSUME Init PROVE IInv
  OBVIOUS
<1>1. TypeInv
  BY TypeInit
<1>2. CacheTruthful
  BY DEF Init, CacheTruthful, Cached
<1>3. AckingAccounted /\ Delivery!RetiredAccounted
  BY DEF Init, AckingAccounted, Delivery!RetiredAccounted
<1> QED
  BY <1>1, <1>2, <1>3 DEF IInv

LEMMA IInvStep == IInv /\ [Next]_vars => IInv'
<1> SUFFICES ASSUME IInv, [Next]_vars PROVE IInv'
  OBVIOUS
<1>1. TypeInv'
  BY TypeStep DEF IInv
<1>2. CacheTruthful'
  BY CacheStep DEF IInv
<1>3. AckingAccounted'
  BY AckingStep DEF IInv
<1> QED
  BY <1>1, <1>2, <1>3, RetiredStep DEF IInv

LEMMA IInvAlways == Spec => []IInv
BY IInvInit, IInvStep, PTL DEF Spec

\* Whatever fails and however often the connection is lost, the broker forgets a message
\* only when it is settled, or is garbage that was discarded.
THEOREM AckedIsAccounted == Spec => []Delivery!RetiredAccounted
<1>1. IInv => Delivery!RetiredAccounted
  BY DEF IInv
<1> QED
  BY <1>1, IInvAlways, PTL

LEMMA DeliveryInit == Init => Delivery!Init
BY DEF Init, Handled, Delivery!Init

\* Each step of the loop is one step of the abstract specification: a handler that
\* returns handles a message, garbage is dropped, an ack retires one message.  The other
\* steps, lost connections and crashes among them, are invisible.
LEMMA DeliveryStep ==
    ASSUME IInv, [Next]_vars
    PROVE  [Delivery!Next]_Delivery!vars
<1> USE DEF Delivery!vars
<1>1. TypeInv
  BY DEF IInv
<1>2. ASSUME NEW w \in Workers, HandlerReturns(w)
      PROVE  Delivery!Next
  <2>1. current[w] \in Messages /\ Handled' = Handled \union {current[w]}
    BY <1>1, <1>2, HandlerHandles
  <2>2. Delivery!Handle(current[w])
    BY <1>2, <2>1 DEF HandlerReturns, queueVars, Delivery!Handle
  <2> QED
    BY <2>1, <2>2 DEF Delivery!Next
<1>3. ASSUME NEW w \in Workers, DeadLetter(w)
      PROVE  Delivery!Next
  <2>1. /\ current[w] \in Messages
        /\ deadLettered' = deadLettered \union {current[w]}
        /\ UNCHANGED <<successes, discarded, acked>>
    BY <1>1, <1>3 DEF TypeInv, HandFull, DeadLetter, queueVars
  <2>2. Delivery!DeadLetter(current[w])
    BY <2>1 DEF Delivery!DeadLetter, Handled
  <2> QED
    BY <2>1, <2>2 DEF Delivery!Next
<1>4. ASSUME NEW w \in Workers, NEW m \in buffer[w], Discard(w, m)
      PROVE  Delivery!Next
  <2>1. /\ m \in Messages
        /\ discarded' = discarded \union {m}
        /\ UNCHANGED <<successes, deadLettered, acked>>
    BY <1>1, <1>4 DEF TypeInv, TypeOK, Discard, queueVars
  <2>2. Delivery!Drop(m)
    BY <2>1 DEF Delivery!Drop, Handled
  <2> QED
    BY <2>1, <2>2 DEF Delivery!Next
<1>5. ASSUME NEW w \in Workers, Ack(w)
      PROVE  Delivery!Next
  <2>1. /\ current[w] \in Messages
        /\ Delivery!Accounted(current[w])
        /\ acked' = acked \union {current[w]}
        /\ UNCHANGED <<successes, deadLettered, discarded>>
    BY <1>1, <1>5 DEF IInv, TypeInv, HandFull, AckingAccounted, Ack, outcomeVars
  <2>2. Delivery!Retire({current[w]})
    BY <2>1 DEF Delivery!Retire, Handled
  <2> QED
    BY <2>1, <2>2 DEF Delivery!Next
<1>6. ASSUME NEW w \in Workers,
             \/ Start(w)
             \/ \E m \in buffer[w] : SkipDuplicate(w, m) \/ Take(w, m)
             \/ HandlerRaises(w) \/ DeadLetterFails(w) \/ Nack(w) \/ Restart(w)
             \/ Deliver(w) \/ ConnectionLost(w) \/ Crash(w) \/ Expire(w)
      PROVE  UNCHANGED Delivery!vars
  <2>1. UNCHANGED <<successes, deadLettered, discarded, acked>>
    BY <1>6 DEF Start, SkipDuplicate, Take, HandlerRaises, DeadLetterFails, Nack, Restart,
                Deliver, ConnectionLost, Crash, Expire, queueVars, outcomeVars
  <2> QED
    BY <2>1 DEF Handled
<1>7. CASE UNCHANGED vars
  BY <1>7 DEF vars, queueVars, outcomeVars, Handled
<1> QED
  BY <1>2, <1>3, <1>4, <1>5, <1>6, <1>7 DEF Next, Step

\* The loop implements the delivery promise over RabbitMQ as it does over Kafka: every
\* behaviour of it is one of AtLeastOnceDelivery, with garbage as the only loss.
THEOREM ImplementsDelivery == Spec => DeliversAtLeastOnce
<1>1. IInv /\ [Next]_vars => [Delivery!Next]_Delivery!vars
  BY DeliveryStep
<1> QED
  BY <1>1, DeliveryInit, IInvAlways, PTL DEF Spec, DeliversAtLeastOnce, Delivery!Spec

(***************************************************************************)
(* Repeated effects.  The handler returns for an identity only in a worker *)
(* whose cache does not have it, and then it has: so every return but the  *)
(* first of each worker is paid for by what emptied its cache.             *)
(***************************************************************************)

Handles(w, id) == pc[w] = "handling" /\ IdOf[current[w]] = id

\* The workers that would not recognise a copy, or have begun with one.
Unaware(id) == {w \in Workers : Handles(w, id) \/ id \notin Cached(cache[w])}

Explained(id) ==
    /\ IsFiniteSet(Returns(id))
    /\ Successes(id) + Cardinality(Unaware(id)) <= Cardinality(Workers) + crashes + forgotten

RepeatsInv == \A id \in Ids : Explained(id)

LEMMA ReturnsOf ==
    ASSUME NEW id, NEW p
    PROVE  p \in Returns(id) <=>
               \E m \in Messages : \E n \in 1 .. successes[m] : IdOf[m] = id /\ p = <<m, n>>
BY DEF Returns

\* A return of the handler is one more return for the identity of its message only.
LEMMA OneMoreReturn ==
    ASSUME TypeInv, NEW w \in Workers, HandlerReturns(w), NEW id
    PROVE  /\ IdOf[current[w]] = id =>
                 \E p : p \notin Returns(id) /\ Returns(id)' = Returns(id) \union {p}
           /\ IdOf[current[w]] # id => Returns(id)' = Returns(id)
<1> DEFINE m == current[w]
           k == successes[m]
<1>1. m \in Messages /\ k \in Nat /\ successes \in [Messages -> Nat]
  BY DEF TypeInv, TypeOK, HandFull, HandlerReturns
<1>2. /\ successes'[m] = k + 1
      /\ \A x \in Messages : x # m => successes'[x] = successes[x]
  BY <1>1 DEF HandlerReturns
<1> HIDE DEF m, k
<1>3. 1 .. (k + 1) = (1 .. k) \union {k + 1} /\ k + 1 \notin 1 .. k
  BY <1>1
<1>4. \A p : p \in Returns(id)' <=>
               \E x \in Messages : \E n \in 1 .. successes'[x] : IdOf[x] = id /\ p = <<x, n>>
  BY DEF Returns
<1>5. successes[m] = k
  BY DEF k
<1>6. CASE IdOf[m] = id
  <2>1. <<m, k + 1>> \notin Returns(id)
    BY <1>3, <1>5, ReturnsOf
  <2>2. ASSUME NEW p PROVE p \in Returns(id)' <=> p \in Returns(id) \union {<<m, k + 1>>}
    BY <1>1, <1>2, <1>3, <1>4, <1>5, <1>6, ReturnsOf
  <2> QED
    BY <1>6, <2>1, <2>2 DEF m
<1>7. CASE IdOf[m] # id
  <2>1. ASSUME NEW p PROVE p \in Returns(id)' <=> p \in Returns(id)
    BY <1>2, <1>4, <1>7, ReturnsOf
  <2> QED
    BY <1>7, <2>1 DEF m
<1> QED
  BY <1>6, <1>7 DEF m

\* How a step may keep the account of an identity.
LEMMA AccountKept ==
    ASSUME NEW id, Explained(id), TypeInv, TypeInv', NEW w \in Workers, NEW lost \in Nat,
           crashes' + forgotten' >= crashes + forgotten + lost,
           \/ Returns(id)' = Returns(id) /\ Unaware(id)' \subseteq Unaware(id)
           \/ /\ Returns(id)' = Returns(id) /\ Unaware(id)' \subseteq Unaware(id) \union {w}
              /\ lost = 1
           \/ /\ \E p : p \notin Returns(id) /\ Returns(id)' = Returns(id) \union {p}
              /\ w \in Unaware(id) /\ Unaware(id)' \subseteq Unaware(id) \ {w}
    PROVE  Explained(id)'
<1> DEFINE R == Returns(id)
           U == Unaware(id)
           V == Unaware(id)'
<1>1. IsFiniteSet(U) /\ IsFiniteSet(V) /\ IsFiniteSet(R)
  BY FS_Subset DEF Unaware, Explained
<1>2. PICK u \in Nat, v \in Nat, r \in Nat, workers \in Nat :
          /\ u = Cardinality(U) /\ v = Cardinality(V) /\ r = Cardinality(R)
          /\ workers = Cardinality(Workers)
  BY <1>1, FS_CardinalityType
<1>3. PICK c \in Nat, f \in Nat, c1 \in Nat, f1 \in Nat :
          c = crashes /\ f = forgotten /\ c1 = crashes' /\ f1 = forgotten'
  BY DEF TypeInv, TypeOK
<1>4. r + u <= workers + c + f /\ c1 + f1 >= c + f + lost
  BY <1>2, <1>3 DEF Explained, Successes
<1>5. ASSUME NEW S, Returns(id)' = S, IsFiniteSet(S), NEW n \in Nat, n = Cardinality(S),
             n + v <= r + u + lost
      PROVE  Explained(id)'
  <2>1. n + v <= workers + c1 + f1
    BY <1>4, <1>5
  <2> QED
    BY <1>2, <1>3, <1>5, <2>1 DEF Explained, Successes
<1>6. V \subseteq U => v <= u
  BY <1>1, <1>2, FS_Subset
<1>7. V \subseteq U \union {w} => v <= u + 1
  <2>1. /\ IsFiniteSet(U \union {w})
        /\ Cardinality(U \union {w}) = u \/ Cardinality(U \union {w}) = u + 1
    BY <1>1, <1>2, FS_AddElement
  <2>2. V \subseteq U \union {w} => Cardinality(V) <= Cardinality(U \union {w})
    BY <2>1, FS_Subset
  <2> QED
    BY <1>2, <2>1, <2>2
<1>8. w \in U /\ V \subseteq U \ {w} => v <= u - 1
  <2>1. w \in U => IsFiniteSet(U \ {w}) /\ Cardinality(U \ {w}) = u - 1
    BY <1>1, <1>2, FS_RemoveElement
  <2>2. w \in U /\ V \subseteq U \ {w} => Cardinality(V) <= Cardinality(U \ {w})
    BY <2>1, FS_Subset
  <2> QED
    BY <1>2, <2>1, <2>2
<1>9. \A p : p \notin R => IsFiniteSet(R \union {p}) /\ Cardinality(R \union {p}) = r + 1
  BY <1>1, <1>2, FS_AddElement
<1> HIDE DEF U, V, R
<1>10. \/ Returns(id)' = R /\ V \subseteq U
       \/ Returns(id)' = R /\ V \subseteq U \union {w} /\ lost = 1
       \/ (\E p : p \notin R /\ Returns(id)' = R \union {p}) /\ w \in U /\ V \subseteq U \ {w}
  BY DEF R, U, V
<1>11. CASE Returns(id)' = R /\ V \subseteq U
  BY <1>1, <1>2, <1>5, <1>6, <1>11
<1>12. CASE Returns(id)' = R /\ V \subseteq U \union {w} /\ lost = 1
  BY <1>1, <1>2, <1>5, <1>7, <1>12
<1>13. CASE (\E p : p \notin R /\ Returns(id)' = R \union {p}) /\ w \in U /\ V \subseteq U \ {w}
  <2>1. PICK p : p \notin R /\ Returns(id)' = R \union {p}
    BY <1>13
  <2>2. /\ IsFiniteSet(R \union {p}) /\ Cardinality(R \union {p}) = r + 1
        /\ r + 1 \in Nat /\ r + 1 + v <= r + u + lost
    BY <1>2, <1>8, <1>9, <1>13, <2>1
  <2> QED
    BY <1>2, <1>5, <2>1, <2>2
<1> QED
  BY <1>10, <1>11, <1>12, <1>13

\* A step of one worker does not make another unaware.
LEMMA OthersKnow ==
    ASSUME NEW w \in Workers, NEW id,
           \A v \in Workers \ {w} :
               /\ cache'[v] = cache[v]
               /\ pc'[v] = "handling" => pc[v] = "handling" /\ current'[v] = current[v]
    PROVE  /\ Unaware(id)' \subseteq Unaware(id) \union {w}
           /\ w \notin Unaware(id)' => Unaware(id)' \subseteq Unaware(id) \ {w}
           /\ (w \in Unaware(id)' => w \in Unaware(id)) => Unaware(id)' \subseteq Unaware(id)
BY DEF Unaware, Handles

LEMMA RepeatsInit == Init => RepeatsInv
<1> SUFFICES ASSUME Init, NEW id \in Ids PROVE Explained(id)
  BY DEF RepeatsInv
<1>1. Returns(id) = {}
  BY DEF Returns, Init
<1>2. IsFiniteSet(Returns(id)) /\ Successes(id) = 0
  BY <1>1, FS_EmptySet DEF Successes
<1>3. Unaware(id) \subseteq Workers
  BY DEF Unaware
<1>4. IsFiniteSet(Unaware(id)) /\ Cardinality(Unaware(id)) <= Cardinality(Workers)
  BY <1>3, FS_Subset
<1>5. Cardinality(Unaware(id)) \in Nat /\ Cardinality(Workers) \in Nat
  BY <1>4, FS_CardinalityType
<1> QED
  BY <1>2, <1>4, <1>5 DEF Explained, Init

LEMMA RepeatsStep == TypeInv /\ TypeInv' /\ RepeatsInv /\ [Next]_vars => RepeatsInv'
<1> SUFFICES ASSUME TypeInv, TypeInv', RepeatsInv, [Next]_vars, NEW id \in Ids
             PROVE  Explained(id)'
  BY DEF RepeatsInv
<1>1. Explained(id) /\ id # NoId
  BY CacheAssumption DEF RepeatsInv
<1>2. crashes \in Nat /\ forgotten \in Nat /\ cache \in [Workers -> Caches]
      /\ pc \in [Workers -> PCs] /\ current \in [Workers -> Messages \union {NoMessage}]
  BY DEF TypeInv, TypeOK
<1>3. ASSUME NEW w \in Workers, HandlerReturns(w) \/ DeadLetter(w) PROVE Explained(id)'
  <2> DEFINE mine == IdOf[current[w]]
             kept == Mark(cache[w], mine)
  <2>1. current[w] \in Messages
    BY <1>3 DEF TypeInv, HandFull, HandlerReturns, DeadLetter
  <2>2. mine \in Ids \union {NoId} /\ GoodCache(cache[w])
    BY <2>1 DEF TypeInv, TypeOK, GoodCache
  <2>3. /\ cache' = [cache EXCEPT ![w] = kept]
        /\ forgotten' = forgotten + (IF Overflows(cache[w], mine) THEN 1 ELSE 0)
        /\ pc' = [pc EXCEPT ![w] = "acking"] /\ UNCHANGED <<current, crashes>>
    BY <1>3 DEF HandlerReturns, DeadLetter, MarkCurrent, boundVars
  <2>4. /\ mine # NoId => mine \in Cached(kept)
        /\ ~ Overflows(cache[w], mine) => Cached(cache[w]) \subseteq Cached(kept)
    BY <2>2, MarkProperties DEF Contains
  <2>5. cache'[w] = kept /\ pc'[w] = "acking"
    BY <1>2, <2>3
  <2>6. \A v \in Workers \ {w} :
            cache'[v] = cache[v] /\ pc'[v] = pc[v] /\ current'[v] = current[v]
    BY <1>2, <2>3
  <2> HIDE DEF kept
  <2>7. mine = id => w \notin Unaware(id)'
    BY <1>1, <2>4, <2>5 DEF Unaware, Handles
  <2>8. ~ Overflows(cache[w], mine) /\ w \in Unaware(id)' => w \in Unaware(id)
    BY <2>4, <2>5 DEF Unaware, Handles
  <2>9. /\ Unaware(id)' \subseteq Unaware(id) \union {w}
        /\ w \notin Unaware(id)' => Unaware(id)' \subseteq Unaware(id) \ {w}
        /\ (w \in Unaware(id)' => w \in Unaware(id)) => Unaware(id)' \subseteq Unaware(id)
    BY <2>6, OthersKnow
  <2>10. CASE DeadLetter(w)
    <3>1. Returns(id)' = Returns(id)
      BY <2>10 DEF DeadLetter, Returns
    <3>2. CASE Overflows(cache[w], mine)
      BY <1>1, <1>2, <2>3, <2>9, <3>1, <3>2, AccountKept
    <3>3. CASE ~ Overflows(cache[w], mine)
      BY <1>1, <1>2, <2>3, <2>8, <2>9, <3>1, <3>3, AccountKept
    <3> QED
      BY <3>2, <3>3
  <2>11. CASE HandlerReturns(w) /\ mine = id
    <3>1. w \in Unaware(id)
      BY <2>11 DEF Unaware, Handles, HandlerReturns
    <3>2. \E p : p \notin Returns(id) /\ Returns(id)' = Returns(id) \union {p}
      BY <2>11, OneMoreReturn
    <3>3. crashes' + forgotten' >= crashes + forgotten + 0
      BY <1>2, <2>3
    <3> QED
      BY <1>1, <2>7, <2>9, <2>11, <3>1, <3>2, <3>3, AccountKept
  <2>12. CASE HandlerReturns(w) /\ mine # id
    <3>1. Returns(id)' = Returns(id)
      BY <2>12, OneMoreReturn
    <3>2. CASE Overflows(cache[w], mine)
      BY <1>1, <1>2, <2>3, <2>9, <3>1, <3>2, AccountKept
    <3>3. CASE ~ Overflows(cache[w], mine)
      BY <1>1, <1>2, <2>3, <2>8, <2>9, <3>1, <3>3, AccountKept
    <3> QED
      BY <3>2, <3>3
  <2> QED
    BY <1>3, <2>10, <2>11, <2>12
<1>4. ASSUME NEW w \in Workers, Crash(w) \/ Expire(w) PROVE Explained(id)'
  <2>1. Returns(id)' = Returns(id)
    BY <1>4 DEF Crash, Expire, Returns, outcomeVars
  <2>2. \A v \in Workers \ {w} :
            /\ cache'[v] = cache[v]
            /\ pc'[v] = "handling" => pc[v] = "handling" /\ current'[v] = current[v]
    BY <1>2, <1>4 DEF Crash, Expire
  <2>3. crashes' + forgotten' >= crashes + forgotten + 1
    BY <1>2, <1>4 DEF Crash, Expire
  <2> QED
    BY <1>1, <2>1, <2>2, <2>3, OthersKnow, AccountKept
<1>5. ASSUME NEW w \in Workers,
             \/ Start(w)
             \/ \E m \in buffer[w] : Discard(w, m) \/ SkipDuplicate(w, m) \/ Take(w, m)
             \/ HandlerRaises(w) \/ DeadLetterFails(w) \/ Ack(w) \/ Nack(w) \/ Restart(w)
             \/ Deliver(w) \/ ConnectionLost(w)
      PROVE  Explained(id)'
  <2>1. Returns(id)' = Returns(id) /\ UNCHANGED <<cache, crashes, forgotten>>
    BY <1>5 DEF Start, Discard, SkipDuplicate, Take, HandlerRaises, DeadLetterFails, Ack,
                Nack, Restart, Deliver, ConnectionLost, Returns, outcomeVars, boundVars
  <2>2. \A v \in Workers \ {w} : pc'[v] = pc[v] /\ current'[v] = current[v]
    BY <1>2, <1>5 DEF Start, Discard, SkipDuplicate, Take, NextOf, HandlerRaises, DeadLetterFails,
                Ack, Nack, NextMessage, Restart, Deliver, ConnectionLost
  <2>3. pc'[w] = "handling" => \/ pc[w] = "handling" /\ current'[w] = current[w]
                              \/ ~ Contains(cache[w], IdOf[current'[w]])
    BY <1>2, <1>5 DEF Start, Discard, SkipDuplicate, Take, NextOf, HandlerRaises, DeadLetterFails,
                Ack, Nack, NextMessage, Restart, Deliver, ConnectionLost
  <2>4. w \in Unaware(id)' => w \in Unaware(id)
    BY <1>1, <2>1, <2>3 DEF Unaware, Handles, Contains
  <2>5. crashes' + forgotten' >= crashes + forgotten + 0
    BY <1>2, <2>1
  <2> QED
    BY <1>1, <2>1, <2>2, <2>4, <2>5, OthersKnow, AccountKept
<1>6. CASE UNCHANGED vars
  BY <1>1, <1>6 DEF vars, outcomeVars, boundVars, Explained, Successes, Returns, Unaware, Handles
<1> QED
  BY <1>3, <1>4, <1>5, <1>6 DEF Next, Step

\* Whatever is lost, redelivered or retried: over all the copies of a message the
\* handler returns at most once per worker, plus once per crash or forgotten entry.
THEOREM RepeatsHaveReasons == Spec => []RepeatsAreExplained
<1>1. TypeInv /\ RepeatsInv => RepeatsAreExplained
  <2> SUFFICES ASSUME TypeInv, RepeatsInv, NEW id \in Ids
               PROVE  Successes(id) <= Cardinality(Workers) + crashes + forgotten
    BY DEF RepeatsAreExplained
  <2>1. Explained(id) /\ IsFiniteSet(Unaware(id))
    BY FS_Subset DEF RepeatsInv, Unaware
  <2>2. Successes(id) \in Nat /\ Cardinality(Unaware(id)) \in Nat /\ Cardinality(Workers) \in Nat
    BY <2>1, FS_CardinalityType DEF Explained, Successes
  <2> QED
    BY <2>1, <2>2 DEF Explained, TypeInv, TypeOK
<1> QED
  BY <1>1, TypeInit, TypeStep, RepeatsInit, RepeatsStep, PTL DEF Spec
=============================================================================
