------------------------- MODULE KafkaConsumerProofs -------------------------
(***************************************************************************)
(* Proofs about KafkaConsumer, for every log, every number of workers and  *)
(* services, every retry limit and cache size, and any number of crashes,  *)
(* rebalances, failed commits and expired cache entries.                   *)
(***************************************************************************)
EXTENDS KafkaConsumer, ProcessedMessageCacheProofs, FiniteSetTheorems

USE KafkaAssumption

LEMMA OffsetsProperties ==
    /\ Len(Log) \in Nat
    /\ Offsets = 1 .. Len(Log)
    /\ End = Len(Log) + 1
    /\ End \in Nat
    /\ \A o \in Offsets : Log[o] \in Ids \union {NoId}
BY LenProperties, ElementOfSeq DEF Offsets, End

\* What a worker has in hand while it is working on a record.
InHand ==
    \A w \in Workers :
        pc[w] \in {"handling", "gave_up", "committing"} => current[w] \in Offsets

\* The retry loop ends at the limit, and starts at zero.
AttemptsLeft ==
    \A w \in Workers :
        /\ pc[w] \in {"down", "idle"} => attempts[w] = 0
        /\ pc[w] = "handling" => attempts[w] <= MaxRetries

TypeInv == TypeOK /\ InHand /\ AttemptsLeft

LEMMA TypeInit == Init => TypeInv
<1> SUFFICES ASSUME Init PROVE TypeInv
  OBVIOUS
<1>1. <<>> \in Caches /\ Len(<<>>) <= MaxEntries
  BY CacheAssumption, EmptySeq DEF Caches
<1> QED
  BY <1>1, OffsetsProperties DEF Init, TypeInv, TypeOK, InHand, AttemptsLeft, PCs

LEMMA TypeStep == TypeInv /\ [Next]_vars => TypeInv'
<1> SUFFICES ASSUME TypeInv, [Next]_vars
             PROVE  TypeInv'
  OBVIOUS
<1> USE OffsetsProperties DEF TypeInv, TypeOK, InHand, AttemptsLeft
<1>1. ASSUME NEW w \in Workers, Start(w)
      PROVE  TypeInv'
  <2> USE <1>1 DEF Start, brokerVars, outcomeVars, boundVars, PCs
  <2>1. pc' \in [Workers -> PCs]
    OBVIOUS
  <2>2. InHand' /\ AttemptsLeft'
    OBVIOUS
  <2> QED
    BY <2>1, <2>2
<1>15. ASSUME NEW w \in Workers, StartRaises(w)
       PROVE  TypeInv'
  <2> USE <1>15 DEF StartRaises, brokerVars, outcomeVars, boundVars, PCs
  <2>1. pc' \in [Workers -> PCs]
    OBVIOUS
  <2>2. InHand' /\ AttemptsLeft'
    OBVIOUS
  <2> QED
    BY <2>1, <2>2
<1>2. ASSUME NEW w \in Workers, SkipDuplicate(w)
      PROVE  TypeInv'
  <2> USE <1>2 DEF SkipDuplicate, Fetch, outcomeVars, boundVars, PCs
  <2>1. position' \in 1 .. End
    OBVIOUS
  <2>2. pc' \in [Workers -> PCs]
    OBVIOUS
  <2>3. current' \in [Workers -> Offsets \union {0}]
    OBVIOUS
  <2>4. InHand' /\ AttemptsLeft'
    OBVIOUS
  <2> QED
    BY <2>1, <2>2, <2>3, <2>4
<1>3. ASSUME NEW w \in Workers, Take(w)
      PROVE  TypeInv'
  <2> USE <1>3 DEF Take, Fetch, outcomeVars, boundVars, PCs
  <2>1. position' \in 1 .. End
    OBVIOUS
  <2>2. pc' \in [Workers -> PCs]
    OBVIOUS
  <2>3. current' \in [Workers -> Offsets \union {0}]
    OBVIOUS
  <2>4. InHand' /\ AttemptsLeft'
    BY SMTT(30)
  <2> QED
    BY <2>1, <2>2, <2>3, <2>4
<1>4. ASSUME NEW w \in Workers, MarkCurrent(w), current[w] \in Offsets
      PROVE  /\ cache' \in [Workers -> Caches]
             /\ \A x \in Workers : Len(cache'[x]) <= MaxEntries
             /\ forgotten' \in Nat
  <2> DEFINE marked == Mark(cache[w], Log[current[w]])
  <2>1. GoodCache(cache[w]) /\ Log[current[w]] \in Ids \union {NoId}
    BY <1>4 DEF GoodCache
  <2>2. marked \in Caches /\ Len(marked) <= MaxEntries
    BY <2>1, MarkProperties DEF GoodCache
  <2>3. cache' = [cache EXCEPT ![w] = marked]
    BY <1>4 DEF MarkCurrent
  <2>4. forgotten' \in Nat
    <3>1. \/ forgotten' = forgotten + 1
          \/ forgotten' = forgotten + 0
      BY <1>4 DEF MarkCurrent
    <3> QED
      BY <3>1, SMTT(30)
  <2> HIDE DEF marked
  <2>5. cache' \in [Workers -> Caches]
    BY <2>2, <2>3
  <2>6. ASSUME NEW x \in Workers PROVE Len(cache'[x]) <= MaxEntries
    BY <2>2, <2>3
  <2> QED
    BY <2>4, <2>5, <2>6
<1>5. ASSUME NEW w \in Workers, HandlerReturns(w)
      PROVE  TypeInv'
  <2> USE <1>5 DEF HandlerReturns, brokerVars, boundVars, PCs
  <2>1. current[w] \in Offsets /\ ServiceOf[w] \in Services
    OBVIOUS
  <2>2. successes' \in [Services -> [Offsets -> Nat]]
    <3> DEFINE counted == [successes[ServiceOf[w]] EXCEPT ![current[w]] = @ + 1]
    <3>1. successes' = [successes EXCEPT ![ServiceOf[w]] = counted]
      OBVIOUS
    <3>2. successes[ServiceOf[w]] \in [Offsets -> Nat]
      BY <2>1
    <3>3. successes[ServiceOf[w]][current[w]] + 1 \in Nat
      BY <2>1, <3>2, SMTT(30)
    <3>4. counted \in [Offsets -> Nat]
      BY <3>2, <3>3
    <3> HIDE DEF counted
    <3> QED
      BY <3>1, <3>4
  <2>3. /\ cache' \in [Workers -> Caches]
        /\ \A x \in Workers : Len(cache'[x]) <= MaxEntries
        /\ forgotten' \in Nat
    BY <1>4, <2>1
  <2>4. pc' \in [Workers -> PCs]
    OBVIOUS
  <2>5. InHand' /\ AttemptsLeft'
    OBVIOUS
  <2> QED
    BY <2>1, <2>2, <2>3, <2>4, <2>5
\* attempts stays within the limit because a worker that has reached it is
\* no longer handling.
<1>6. ASSUME NEW w \in Workers, HandlerRaises(w)
      PROVE  TypeInv'
  <2> USE <1>6 DEF HandlerRaises, brokerVars, outcomeVars, boundVars, PCs
  <2>1. attempts[w] + 1 \in 0 .. MaxRetries + 1
    BY SMTT(30)
  <2>2. attempts' \in [Workers -> 0 .. MaxRetries + 1]
    BY <2>1
  <2>3. pc' \in [Workers -> PCs]
    OBVIOUS
  <2>4. InHand'
    OBVIOUS
  <2>5. AttemptsLeft'
    <3> SUFFICES ASSUME NEW x \in Workers
                 PROVE  /\ pc'[x] \in {"down", "idle"} => attempts'[x] = 0
                        /\ pc'[x] = "handling" => attempts'[x] <= MaxRetries
      BY DEF AttemptsLeft
    <3>1. CASE x = w
      BY <3>1, <2>1, SMTT(30)
    <3>2. CASE x # w
      BY <3>2
    <3> QED
      BY <3>1, <3>2
  <2> QED
    BY <2>2, <2>3, <2>4, <2>5
<1>7. ASSUME NEW w \in Workers, DeadLetter(w)
      PROVE  TypeInv'
  <2> USE <1>7 DEF DeadLetter, brokerVars, boundVars, PCs
  <2>1. current[w] \in Offsets
    OBVIOUS
  <2>2. /\ cache' \in [Workers -> Caches]
        /\ \A x \in Workers : Len(cache'[x]) <= MaxEntries
        /\ forgotten' \in Nat
    BY <1>4, <2>1
  <2>3. pc' \in [Workers -> PCs]
    OBVIOUS
  <2>4. InHand' /\ AttemptsLeft'
    OBVIOUS
  <2> QED
    BY <2>1, <2>2, <2>3, <2>4
<1>8. ASSUME NEW w \in Workers, Abandon(w)
      PROVE  TypeInv'
  <2> USE <1>8 DEF Abandon, NextRecord, brokerVars, boundVars, PCs
  <2>1. abandoned' \subseteq Offsets
    OBVIOUS
  <2>2. current' \in [Workers -> Offsets \union {0}]
    OBVIOUS
  <2>3. attempts' \in [Workers -> 0 .. MaxRetries + 1]
    OBVIOUS
  <2>4. pc' \in [Workers -> PCs]
    OBVIOUS
  <2>5. InHand' /\ AttemptsLeft'
    OBVIOUS
  <2> QED
    BY <2>1, <2>2, <2>3, <2>4, <2>5
<1>9. ASSUME NEW w \in Workers, Commit(w)
      PROVE  TypeInv'
  <2> USE <1>9 DEF Commit, NextRecord, outcomeVars, boundVars, PCs
  <2>1. committed' \in 1 .. End
    OBVIOUS
  <2>2. current' \in [Workers -> Offsets \union {0}]
    OBVIOUS
  <2>3. attempts' \in [Workers -> 0 .. MaxRetries + 1]
    OBVIOUS
  <2>4. pc' \in [Workers -> PCs]
    OBVIOUS
  <2>5. InHand' /\ AttemptsLeft'
    OBVIOUS
  <2> QED
    BY <2>1, <2>2, <2>3, <2>4, <2>5
<1>10. ASSUME NEW w \in Workers, CommitRaises(w)
      PROVE  TypeInv'
  <2> USE <1>10 DEF CommitRaises, brokerVars, outcomeVars, boundVars, PCs
  <2>1. pc' \in [Workers -> PCs]
    OBVIOUS
  <2>2. InHand' /\ AttemptsLeft'
    OBVIOUS
  <2> QED
    BY <2>1, <2>2
<1>11. ASSUME NEW w \in Workers, Assign(w)
      PROVE  TypeInv'
  <2> USE <1>11 DEF Assign, loopVars, outcomeVars
  <2>1. owner' \in Workers \union {Nobody}
    OBVIOUS
  <2>2. position' \in 1 .. End
    OBVIOUS
  <2>3. rebalances' \in Nat
    OBVIOUS
  <2>4. InHand' /\ AttemptsLeft'
    OBVIOUS
  <2> QED
    BY <2>1, <2>2, <2>3, <2>4
<1>12. ASSUME NEW w \in Workers, Crash(w)
      PROVE  TypeInv'
  <2> USE <1>12 DEF Crash, outcomeVars, PCs
  <2>1. <<>> \in Caches /\ Len(<<>>) <= MaxEntries
    BY CacheAssumption, EmptySeq DEF Caches
  <2>2. /\ cache' \in [Workers -> Caches]
        /\ \A x \in Workers : Len(cache'[x]) <= MaxEntries
    BY <2>1
  <2>3. owner' \in Workers \union {Nobody}
    OBVIOUS
  <2>4. current' \in [Workers -> Offsets \union {0}]
    OBVIOUS
  <2>5. attempts' \in [Workers -> 0 .. MaxRetries + 1]
    OBVIOUS
  <2>6. pc' \in [Workers -> PCs]
    OBVIOUS
  <2>7. InHand' /\ AttemptsLeft'
    OBVIOUS
  <2> QED
    <3>1. /\ crashes' \in Nat /\ rebalances' \in Nat /\ forgotten' \in Nat
          /\ committed' \in 1 .. End /\ position' \in 1 .. End
      OBVIOUS
    <3>2. /\ successes' \in [Services -> [Offsets -> Nat]]
          /\ deadLettered' \subseteq Offsets /\ abandoned' \subseteq Offsets
      OBVIOUS
    <3> QED
      BY <2>2, <2>3, <2>4, <2>5, <2>6, <2>7, <3>1, <3>2, Zenon
<1>13. ASSUME NEW w \in Workers, Expire(w)
       PROVE  TypeInv'
  <2> USE <1>13 DEF Expire, brokerVars, outcomeVars, boundVars
  <2>1. /\ DropOldest(cache[w]) \in Caches
        /\ Len(DropOldest(cache[w])) = Len(cache[w]) - 1
    BY DropOldestProperties
  <2>2. Len(cache[w]) \in Nat /\ Len(cache[w]) <= MaxEntries
    BY DEF Caches
  <2>3. cache' \in [Workers -> Caches]
    BY <2>1
  <2>4. ASSUME NEW x \in Workers PROVE Len(cache'[x]) <= MaxEntries
    BY <2>1, <2>2, CacheAssumption
  <2>5. InHand' /\ AttemptsLeft'
    OBVIOUS
  <2>6. /\ UNCHANGED <<committed, owner, position, pc, current, attempts, successes,
                      deadLettered, abandoned, crashes, rebalances>>
    OBVIOUS
  <2>7. forgotten' \in Nat
    OBVIOUS
  <2> HIDE DEF Expire, InHand, AttemptsLeft
  <2>8. TypeOK'
    BY <2>3, <2>4, <2>6, <2>7, Zenon
  <2> QED
    BY <2>5, <2>8
<1>14. CASE UNCHANGED vars
  BY <1>14 DEF vars, brokerVars, loopVars, outcomeVars, boundVars
<1> QED
  BY <1>1, <1>2, <1>3, <1>5, <1>6, <1>7, <1>8, <1>9, <1>10, <1>11, <1>12,
     <1>13, <1>14, <1>15 DEF Next, Step

\* Every variable keeps its range in every reachable state: cursors stay in
\* the log, the duplicate filter keeps distinct keys and its size limit, and
\* no record is retried more often than the setting allows.
THEOREM TypeCorrect == Spec => []TypeOK
<1>1. Init => TypeInv
  BY TypeInit
<1>2. TypeInv /\ [Next]_vars => TypeInv'
  BY TypeStep
<1>3. TypeInv => TypeOK
  BY DEF TypeInv
<1> QED
  BY <1>1, <1>2, <1>3, PTL DEF Spec

(***************************************************************************)
(* The strengthening of CommittedAccounted that is inductive.  A commit    *)
(* covers every record below the owner's position, so the invariant must   *)
(* speak of all of them: the owner has accounted for each one except the   *)
(* record it has in hand, and at a commit it has accounted for that one    *)
(* too.  The duplicate filter is believed when it says that a copy was     *)
(* settled, so its contents must be true.                                  *)
(***************************************************************************)
Done == Handled \union deadLettered

CacheTruthful ==
    \A w \in Workers : \A id \in Cached(cache[w]) : \E n \in Done : Log[n] = id

CommittingDone ==
    \A w \in Workers : pc[w] = "committing" => Delivery!Accounted(current[w])

Working(w) == pc[w] \in {"handling", "gave_up"}

OwnerAccounted ==
    owner # Nobody =>
        \A o \in Offsets :
            o < position =>
                \/ Delivery!Accounted(o)
                \/ Working(owner) /\ o = current[owner]

CommittedBehind == committed <= position

IInv ==
    /\ TypeInv
    /\ CacheTruthful
    /\ CommittingDone
    /\ OwnerAccounted
    /\ CommittedBehind
    /\ CommittedAccounted

\* Outcomes only accumulate, so what is accounted for stays so.
Grows == Handled \subseteq Handled' /\ deadLettered \subseteq deadLettered'
         /\ abandoned \subseteq abandoned'

LEMMA AccountedStays ==
    ASSUME Grows, NEW o, Delivery!Accounted(o)
    PROVE  Delivery!Accounted(o)'
BY DEF Grows, Delivery!Accounted, Delivery!Settled

LEMMA OutcomesGrow ==
    ASSUME TypeInv, [Next]_vars
    PROVE  Grows
<1> USE DEF Grows, Handled
<1>1. ASSUME NEW w \in Workers, HandlerReturns(w)
      PROVE  Grows
  <2>1. /\ successes \in [Services -> [Offsets -> Nat]]
        /\ ServiceOf[w] \in Services
        /\ current[w] \in Offsets
    BY <1>1 DEF TypeInv, TypeOK, InHand, HandlerReturns
  <2>2. ASSUME NEW s \in Services, NEW o \in Offsets, successes[s][o] > 0
        PROVE  successes'[s][o] > 0
    BY <1>1, <2>1, <2>2 DEF HandlerReturns
  <2>3. UNCHANGED <<deadLettered, abandoned>>
    BY <1>1 DEF HandlerReturns
  <2> QED
    BY <2>2, <2>3
<1>2. ASSUME NEW w \in Workers,
             \/ Start(w) \/ SkipDuplicate(w) \/ Take(w) \/ HandlerRaises(w)
             \/ Commit(w) \/ CommitRaises(w) \/ StartRaises(w) \/ Assign(w) \/ Crash(w) \/ Expire(w)
      PROVE  Grows
  <2>1. UNCHANGED outcomeVars
    BY <1>2 DEF Start, SkipDuplicate, Take, HandlerRaises, Commit, CommitRaises, StartRaises,
                Assign, Crash, Expire
  <2> QED
    BY <2>1 DEF outcomeVars
<1>3. ASSUME NEW w \in Workers, DeadLetter(w) \/ Abandon(w)
      PROVE  Grows
  BY <1>3 DEF DeadLetter, Abandon
<1>4. CASE UNCHANGED vars
  BY <1>4 DEF vars, outcomeVars
<1> QED
  BY <1>1, <1>2, <1>3, <1>4 DEF Next, Step

\* A handler that returns, or a dead-letter publish that succeeds, settles
\* the record in hand.
LEMMA CurrentDone ==
    ASSUME TypeInv, NEW w \in Workers, HandlerReturns(w) \/ DeadLetter(w)
    PROVE  /\ current[w] \in Offsets
           /\ current[w] \in Done'
           /\ current' = current
<1>1. current[w] \in Offsets /\ current' = current
  BY DEF TypeInv, InHand, HandlerReturns, DeadLetter
<1>2. CASE HandlerReturns(w)
  <2>1. /\ successes \in [Services -> [Offsets -> Nat]]
        /\ ServiceOf[w] \in Services
    BY DEF TypeInv, TypeOK
  <2>2. successes'[ServiceOf[w]][current[w]] > 0
    BY <1>1, <1>2, <2>1 DEF HandlerReturns
  <2> QED
    BY <1>1, <2>1, <2>2 DEF Done, Handled
<1>3. CASE DeadLetter(w)
  BY <1>1, <1>3 DEF DeadLetter, Done
<1> QED
  BY <1>1, <1>2, <1>3

LEMMA CacheStep ==
    ASSUME TypeInv, CacheTruthful, [Next]_vars
    PROVE  CacheTruthful'
<1>1. Done \subseteq Done'
  BY OutcomesGrow DEF Grows, Done
\* It is enough that every key a cache gains names a settled message.
<1>2. ASSUME \A w \in Workers : \A id \in Cached(cache'[w]) :
                id \in Cached(cache[w]) \/ \E n \in Done' : Log[n] = id
      PROVE  CacheTruthful'
  BY <1>1, <1>2 DEF CacheTruthful
<1>3. ASSUME NEW w \in Workers, HandlerReturns(w) \/ DeadLetter(w)
      PROVE  CacheTruthful'
  <2>1. current[w] \in Offsets /\ current[w] \in Done'
    BY <1>3, CurrentDone
  <2>2. /\ GoodCache(cache[w])
        /\ Log[current[w]] \in Ids \union {NoId}
        /\ cache \in [Workers -> Caches]
    BY <2>1, OffsetsProperties DEF TypeInv, TypeOK, GoodCache
  <2>3. cache' = [cache EXCEPT ![w] = Mark(cache[w], Log[current[w]])]
    BY <1>3 DEF HandlerReturns, DeadLetter, MarkCurrent
  <2>4. Cached(Mark(cache[w], Log[current[w]])) \subseteq
            Cached(cache[w]) \union {Log[current[w]]}
    BY <2>2, MarkProperties
  <2> QED
    BY <1>2, <2>1, <2>2, <2>3, <2>4
<1>4. ASSUME NEW w \in Workers, Crash(w)
      PROVE  CacheTruthful'
  <2>1. Cached(<<>>) = {}
    BY DEF Cached
  <2>2. cache' = [cache EXCEPT ![w] = <<>>]
    BY <1>4 DEF Crash
  <2> QED
    BY <1>2, <2>1, <2>2 DEF TypeInv, TypeOK
<1>5. ASSUME NEW w \in Workers, Expire(w)
      PROVE  CacheTruthful'
  <2>1. /\ cache \in [Workers -> Caches]
        /\ cache[w] # <<>>
        /\ cache' = [cache EXCEPT ![w] = DropOldest(cache[w])]
    BY <1>5 DEF TypeInv, TypeOK, Expire
  <2>2. Cached(DropOldest(cache[w])) \subseteq Cached(cache[w])
    BY <2>1, DropOldestProperties
  <2> QED
    BY <1>2, <2>1, <2>2
<1>6. ASSUME NEW w \in Workers,
             \/ Start(w) \/ SkipDuplicate(w) \/ Take(w) \/ HandlerRaises(w)
             \/ Abandon(w) \/ Commit(w) \/ CommitRaises(w) \/ StartRaises(w) \/ Assign(w)
      PROVE  CacheTruthful'
  <2>1. UNCHANGED cache
    BY <1>6 DEF Start, SkipDuplicate, Take, HandlerRaises, Abandon, Commit,
                CommitRaises, StartRaises, Assign, loopVars
  <2> QED
    BY <1>2, <2>1
<1>7. CASE UNCHANGED vars
  BY <1>2, <1>7 DEF vars, loopVars
<1> QED
  BY <1>3, <1>4, <1>5, <1>6, <1>7 DEF Next, Step

LEMMA DoneAccounted ==
    ASSUME NEW o, o \in Done
    PROVE  Delivery!Accounted(o)
BY DEF Done, Delivery!Accounted, Delivery!Settled

\* A record the duplicate filter recognises is a copy of a settled one.
LEMMA DuplicateAccounted ==
    ASSUME CacheTruthful, NEW w \in Workers, NEW o, Contains(cache[w], Log[o])
    PROVE  Delivery!Accounted(o)
BY DEF CacheTruthful, Contains, Done, Delivery!Accounted, Delivery!Settled

LEMMA CommittingStep ==
    ASSUME TypeInv, CacheTruthful, CommittingDone, [Next]_vars
    PROVE  CommittingDone'
<1> SUFFICES ASSUME NEW x \in Workers, pc'[x] = "committing"
             PROVE  Delivery!Accounted(current[x])'
  BY DEF CommittingDone
<1>1. Grows
  BY OutcomesGrow
<1>2. pc \in [Workers -> PCs] /\ current \in [Workers -> Offsets \union {0}]
  BY DEF TypeInv, TypeOK
\* What the worker had accounted for before the step.
<1>3. ASSUME Delivery!Accounted(current'[x])
      PROVE  Delivery!Accounted(current[x])'
  BY <1>1, <1>3 DEF Grows, Delivery!Accounted, Delivery!Settled
<1>4. ASSUME pc[x] = "committing", current'[x] = current[x]
      PROVE  Delivery!Accounted(current[x])'
  BY <1>3, <1>4 DEF CommittingDone
<1>5. ASSUME NEW w \in Workers, HandlerReturns(w) \/ DeadLetter(w)
      PROVE  Delivery!Accounted(current[x])'
  <2>1. /\ current[w] \in Done'
        /\ current' = current
        /\ pc' = [pc EXCEPT ![w] = "committing"]
    BY <1>5, CurrentDone DEF HandlerReturns, DeadLetter
  <2>2. CASE x = w
    BY <2>1, <2>2 DEF Done, Delivery!Accounted, Delivery!Settled
  <2>3. CASE x # w
    BY <1>2, <1>4, <2>1, <2>3
  <2> QED
    BY <2>2, <2>3
<1>6. ASSUME NEW w \in Workers, SkipDuplicate(w)
      PROVE  Delivery!Accounted(current[x])'
  <2>1. /\ Contains(cache[w], Log[position])
        /\ current' = [current EXCEPT ![w] = position]
        /\ pc' = [pc EXCEPT ![w] = "committing"]
    BY <1>6 DEF SkipDuplicate, Fetch
  <2>2. Delivery!Accounted(position)
    BY <2>1, DuplicateAccounted
  <2>3. CASE x = w
    BY <1>2, <1>3, <2>1, <2>2, <2>3
  <2>4. CASE x # w
    BY <1>2, <1>4, <2>1, <2>4
  <2> QED
    BY <2>3, <2>4
\* Every other step leaves the workers that were committing alone, or moves
\* one of them on.
<1>7. ASSUME NEW w \in Workers,
             \/ Start(w) \/ Take(w) \/ HandlerRaises(w) \/ Abandon(w)
             \/ Commit(w) \/ CommitRaises(w) \/ StartRaises(w) \/ Crash(w)
      PROVE  Delivery!Accounted(current[x])'
  <2>1. x # w => pc'[x] = pc[x] /\ current'[x] = current[x]
    BY <1>2, <1>7 DEF Start, Take, Fetch, HandlerRaises, Abandon, Commit,
                      NextRecord, CommitRaises, StartRaises, Crash
  <2>2. pc'[w] # "committing"
    BY <1>2, <1>7 DEF Start, Take, HandlerRaises, Abandon, Commit,
                      NextRecord, CommitRaises, StartRaises, Crash
  <2> QED
    BY <1>4, <2>1, <2>2
<1>8. ASSUME NEW w \in Workers, Assign(w) \/ Expire(w)
      PROVE  Delivery!Accounted(current[x])'
  BY <1>4, <1>8 DEF Assign, Expire, loopVars
<1>9. CASE UNCHANGED vars
  BY <1>4, <1>9 DEF vars, loopVars
<1> QED
  BY <1>5, <1>6, <1>7, <1>8, <1>9 DEF Next, Step

LEMMA OwnerStep ==
    ASSUME IInv, [Next]_vars
    PROVE  OwnerAccounted'
<1> SUFFICES ASSUME owner' # Nobody, NEW o \in Offsets, o < position'
             PROVE  \/ Delivery!Accounted(o)'
                    \/ (Working(owner) /\ o = current[owner])'
  BY DEF OwnerAccounted
<1>1. Grows /\ TypeInv
  BY OutcomesGrow DEF IInv
<1>2. /\ pc \in [Workers -> PCs]
      /\ current \in [Workers -> Offsets \union {0}]
      /\ owner \in Workers \union {Nobody}
      /\ position \in Nat
      /\ committed \in Nat
      /\ o \in Nat
  BY <1>1, OffsetsProperties, SMTT(30) DEF TypeInv, TypeOK
<1>3. Delivery!Accounted(o) => Delivery!Accounted(o)'
  BY <1>1, AccountedStays
\* The record was below the position already.
<1>4. ASSUME o < position, owner' = owner
      PROVE  \/ Delivery!Accounted(o)'
             \/ Working(owner) /\ o = current[owner]
  BY <1>3, <1>4 DEF IInv, OwnerAccounted
<1>5. ASSUME NEW w \in Workers, SkipDuplicate(w) \/ Take(w)
      PROVE  \/ Delivery!Accounted(o)'
             \/ (Working(owner) /\ o = current[owner])'
  <2>1. /\ pc[w] = "idle"
        /\ owner = w
        /\ owner' = owner
        /\ position' = position + 1
        /\ current' = [current EXCEPT ![w] = position]
    BY <1>5 DEF SkipDuplicate, Take, Fetch
  <2>2. CASE o < position
    BY <1>4, <2>1, <2>2 DEF Working
  <2>3. CASE o = position
    <3>1. CASE SkipDuplicate(w)
      BY <1>3, <2>3, <3>1, DuplicateAccounted DEF SkipDuplicate, IInv
    <3>2. CASE Take(w)
      <4>1. pc'[w] = "handling" /\ current'[w] = o
        BY <1>2, <2>1, <2>3, <3>2 DEF Take
      <4> QED
        BY <2>1, <4>1 DEF Working
    <3> QED
      BY <1>5, <3>1, <3>2
  <2> QED
    BY <1>2, <2>1, <2>2, <2>3
<1>6. ASSUME NEW w \in Workers, HandlerReturns(w) \/ DeadLetter(w)
      PROVE  \/ Delivery!Accounted(o)'
             \/ (Working(owner) /\ o = current[owner])'
  <2>1. /\ owner' = owner /\ position' = position
        /\ current' = current
        /\ pc' = [pc EXCEPT ![w] = "committing"]
        /\ current[w] \in Done'
    BY <1>1, <1>6, CurrentDone DEF HandlerReturns, DeadLetter, brokerVars
  <2>2. Delivery!Accounted(current[w])'
    BY <2>1 DEF Done, Delivery!Accounted, Delivery!Settled
  <2>3. CASE Working(owner) /\ o = current[owner] /\ owner # w
    BY <1>2, <2>1, <2>3 DEF Working
  <2>4. CASE o = current[w]
    BY <2>1, <2>2, <2>4
  <2> QED
    BY <1>4, <2>1, <2>3, <2>4
<1>7. ASSUME NEW w \in Workers, Abandon(w)
      PROVE  \/ Delivery!Accounted(o)'
             \/ (Working(owner) /\ o = current[owner])'
  <2>1. /\ owner' = owner /\ position' = position
        /\ pc' = [pc EXCEPT ![w] = "idle"]
        /\ current' = [current EXCEPT ![w] = 0]
        /\ current[w] \in abandoned'
    BY <1>7 DEF Abandon, NextRecord, brokerVars
  <2>2. CASE Working(owner) /\ o = current[owner] /\ owner # w
    BY <1>2, <2>1, <2>2 DEF Working
  <2>3. CASE o = current[w]
    BY <2>1, <2>3 DEF Delivery!Accounted
  <2> QED
    BY <1>4, <2>1, <2>2, <2>3
<1>8. ASSUME NEW w \in Workers, HandlerRaises(w)
      PROVE  \/ Delivery!Accounted(o)'
             \/ (Working(owner) /\ o = current[owner])'
  <2>1. /\ owner' = owner /\ position' = position /\ current' = current
        /\ pc[w] = "handling"
        /\ pc' \in {[pc EXCEPT ![w] = "gave_up"], [pc EXCEPT ![w] = "handling"]}
    BY <1>8 DEF HandlerRaises, brokerVars
  <2>2. Working(owner) => Working(owner)'
    BY <1>2, <2>1 DEF Working
  <2> QED
    BY <1>4, <2>1, <2>2
<1>9. ASSUME NEW w \in Workers, Start(w) \/ Commit(w) \/ CommitRaises(w) \/ StartRaises(w)
      PROVE  \/ Delivery!Accounted(o)'
             \/ (Working(owner) /\ o = current[owner])'
  <2>1. /\ owner' = owner /\ position' = position
        /\ ~ Working(w)
        /\ \A x \in Workers \ {w} : pc'[x] = pc[x] /\ current'[x] = current[x]
    BY <1>2, <1>9 DEF Start, Commit, CommitRaises, StartRaises, NextRecord, brokerVars, Working
  <2> QED
    BY <1>2, <1>4, <2>1 DEF Working
\* A new owner starts at the committed offset, below which all is settled.
<1>10. ASSUME NEW w \in Workers, Assign(w)
       PROVE  Delivery!Accounted(o)'
  <2>1. position' = committed
    BY <1>10 DEF Assign
  <2>2. Delivery!Accounted(o)
    BY <2>1 DEF IInv, CommittedAccounted, Delivery!RetiredAccounted
  <2> QED
    BY <1>3, <2>2
<1>11. ASSUME NEW w \in Workers, Crash(w)
       PROVE  \/ Delivery!Accounted(o)'
              \/ (Working(owner) /\ o = current[owner])'
  <2>1. /\ owner # w /\ owner' = owner /\ position' = position
        /\ \A x \in Workers \ {w} : pc'[x] = pc[x] /\ current'[x] = current[x]
    BY <1>2, <1>11 DEF Crash
  <2> QED
    BY <1>2, <1>4, <2>1 DEF Working
<1>12. CASE UNCHANGED vars \/ \E w \in Workers : Expire(w)
  <2>1. /\ owner' = owner /\ position' = position
        /\ pc' = pc /\ current' = current
    BY <1>12 DEF vars, brokerVars, loopVars, Expire
  <2> QED
    BY <1>4, <2>1 DEF Working
<1> QED
  BY <1>5, <1>6, <1>7, <1>8, <1>9, <1>10, <1>11, <1>12 DEF Next, Step

LEMMA CommittedStep ==
    ASSUME IInv, [Next]_vars
    PROVE  CommittedBehind' /\ CommittedAccounted'
<1>1. Grows /\ TypeInv
  BY OutcomesGrow DEF IInv
<1>2. committed \in Nat /\ position \in Nat /\ committed <= position
  BY <1>1, OffsetsProperties DEF IInv, TypeInv, TypeOK, CommittedBehind
<1>3. ASSUME NEW o \in Offsets, o < committed
      PROVE  Delivery!Accounted(o)'
  <2>1. Delivery!Accounted(o)
    BY <1>3 DEF IInv, CommittedAccounted, Delivery!RetiredAccounted
  <2> QED
    BY <1>1, <2>1, AccountedStays
<1>4. ASSUME committed' = committed
      PROVE  CommittedAccounted'
  BY <1>3, <1>4 DEF CommittedAccounted, Delivery!RetiredAccounted
\* The one step that moves the committed offset: the owner's own commit.  It
\* is not working on a record any more, so the whole prefix is accounted for.
<1>5. ASSUME NEW w \in Workers, Commit(w)
      PROVE  CommittedBehind' /\ CommittedAccounted'
  <2>1. CASE owner # w
    <3>1. committed' = committed /\ position' = position
      BY <1>5, <2>1 DEF Commit
    <3> QED
      BY <1>2, <1>4, <3>1 DEF CommittedBehind
  <2>2. CASE owner = w
    <3>1. /\ committed' = position /\ position' = position
          /\ ~ Working(owner)
          /\ owner # Nobody
      BY <1>5, <2>2 DEF Commit, Working
    <3>2. ASSUME NEW o \in Offsets, o < position
          PROVE  Delivery!Accounted(o)'
      <4>1. Delivery!Accounted(o)
        BY <3>1, <3>2 DEF IInv, OwnerAccounted
      <4> QED
        BY <1>1, <4>1, AccountedStays
    <3> QED
      BY <1>2, <3>1, <3>2
         DEF CommittedBehind, CommittedAccounted, Delivery!RetiredAccounted
  <2> QED
    BY <2>1, <2>2
<1>6. ASSUME NEW w \in Workers, SkipDuplicate(w) \/ Take(w)
      PROVE  CommittedBehind' /\ CommittedAccounted'
  <2>1. committed' = committed /\ position' = position + 1
    BY <1>6 DEF SkipDuplicate, Take, Fetch
  <2> QED
    BY <1>2, <1>4, <2>1 DEF CommittedBehind
<1>7. ASSUME NEW w \in Workers, Assign(w)
      PROVE  CommittedBehind' /\ CommittedAccounted'
  <2>1. committed' = committed /\ position' = committed
    BY <1>7 DEF Assign
  <2> QED
    BY <1>2, <1>4, <2>1 DEF CommittedBehind
<1>8. ASSUME NEW w \in Workers,
             \/ Start(w) \/ HandlerReturns(w) \/ HandlerRaises(w) \/ DeadLetter(w)
             \/ Abandon(w) \/ CommitRaises(w) \/ StartRaises(w) \/ Crash(w) \/ Expire(w)
      PROVE  CommittedBehind' /\ CommittedAccounted'
  <2>1. committed' = committed /\ position' = position
    BY <1>8 DEF Start, HandlerReturns, HandlerRaises, DeadLetter, Abandon,
                CommitRaises, StartRaises, Crash, Expire, brokerVars
  <2> QED
    BY <1>2, <1>4, <2>1 DEF CommittedBehind
<1>9. CASE UNCHANGED vars
  BY <1>2, <1>4, <1>9 DEF vars, brokerVars, CommittedBehind
<1> QED
  BY <1>5, <1>6, <1>7, <1>8, <1>9 DEF Next, Step

LEMMA IInvInit == Init => IInv
<1> SUFFICES ASSUME Init PROVE IInv
  OBVIOUS
<1>1. TypeInv
  BY TypeInit
<1>2. CacheTruthful
  BY DEF Init, CacheTruthful, Cached
<1>3. CommittingDone /\ OwnerAccounted /\ CommittedBehind
  BY DEF Init, CommittingDone, OwnerAccounted, CommittedBehind
<1>4. CommittedAccounted
  BY OffsetsProperties
     DEF Init, CommittedAccounted, Delivery!RetiredAccounted
<1> QED
  BY <1>1, <1>2, <1>3, <1>4 DEF IInv

LEMMA IInvStep == IInv /\ [Next]_vars => IInv'
<1> SUFFICES ASSUME IInv, [Next]_vars PROVE IInv'
  OBVIOUS
<1>1. TypeInv'
  BY TypeStep DEF IInv
<1>2. CacheTruthful'
  BY CacheStep DEF IInv
<1>3. CommittingDone'
  BY CommittingStep DEF IInv
<1> QED
  BY <1>1, <1>2, <1>3, OwnerStep, CommittedStep DEF IInv

LEMMA IInvAlways == Spec => []IInv
BY IInvInit, IInvStep, PTL DEF Spec

\* Whatever fails and however workers and partition change hands, an offset
\* is committed only when every record below it is settled or was abandoned
\* together with its dead-letter publish.
THEOREM CommittedIsAccounted == Spec => []CommittedAccounted
<1>1. IInv => CommittedAccounted
  BY DEF IInv
<1> QED
  BY <1>1, IInvAlways, PTL

LEMMA DeliveryInit == Init => Delivery!Init
<1> SUFFICES ASSUME Init PROVE Delivery!Init
  OBVIOUS
<1>1. Handled = {}
  BY DEF Init, Handled
<1>2. {o \in Offsets : o < committed} = {}
  BY OffsetsProperties DEF Init
<1> QED
  BY <1>1, <1>2 DEF Init, Delivery!Init

\* Each step of the loop is one step of the abstract specification: a handler
\* that returns handles a message, an abandoned record is dropped, a commit
\* retires the prefix it covers.  The other steps are invisible.
LEMMA DeliveryStep ==
    ASSUME IInv, [Next]_vars
    PROVE  [Delivery!Next]_Delivery!vars
<1> DEFINE Retired == {o \in Offsets : o < committed}
<1> USE DEF Delivery!vars
<1>1. TypeInv /\ IInv'
  BY IInvStep DEF IInv
<1>2. ASSUME NEW w \in Workers, HandlerReturns(w)
      PROVE  Delivery!Next
  <2>1. /\ successes \in [Services -> [Offsets -> Nat]]
        /\ ServiceOf[w] \in Services
        /\ current[w] \in Offsets
        /\ successes' = [successes EXCEPT ![ServiceOf[w]][current[w]] = @ + 1]
        /\ UNCHANGED <<deadLettered, abandoned, committed>>
    BY <1>1, <1>2 DEF TypeInv, TypeOK, InHand, HandlerReturns, brokerVars
  <2>2. \A s \in Services, o \in Offsets :
            successes'[s][o] = IF s = ServiceOf[w] /\ o = current[w]
                               THEN successes[s][o] + 1 ELSE successes[s][o]
    BY <2>1
  <2>3. successes[ServiceOf[w]][current[w]] + 1 > 0
    BY <2>1
  <2>4. Handled' = Handled \union {current[w]}
    BY <2>1, <2>2, <2>3 DEF Handled
  <2>5. Delivery!Handle(current[w])
    BY <2>1, <2>4 DEF Delivery!Handle
  <2> QED
    BY <2>1, <2>5 DEF Delivery!Next
<1>3. ASSUME NEW w \in Workers, DeadLetter(w)
      PROVE  Delivery!Next
  <2>1. /\ current[w] \in Offsets
        /\ deadLettered' = deadLettered \union {current[w]}
        /\ UNCHANGED <<successes, abandoned, committed>>
    BY <1>1, <1>3 DEF TypeInv, InHand, DeadLetter, brokerVars
  <2>2. Handled' = Handled
    BY <2>1 DEF Handled
  <2>3. Delivery!DeadLetter(current[w])
    BY <2>1, <2>2 DEF Delivery!DeadLetter
  <2> QED
    BY <2>1, <2>3 DEF Delivery!Next
<1>4. ASSUME NEW w \in Workers, Abandon(w)
      PROVE  Delivery!Next
  <2>1. /\ current[w] \in Offsets
        /\ abandoned' = abandoned \union {current[w]}
        /\ UNCHANGED <<successes, deadLettered, committed>>
    BY <1>1, <1>4 DEF TypeInv, InHand, Abandon, brokerVars
  <2>2. Handled' = Handled
    BY <2>1 DEF Handled
  <2>3. Delivery!Drop(current[w])
    BY <2>1, <2>2 DEF Delivery!Drop
  <2> QED
    BY <2>1, <2>3 DEF Delivery!Next
<1>5. ASSUME NEW w \in Workers, Commit(w)
      PROVE  Delivery!Next
  <2> DEFINE covered == {o \in Offsets : o < committed'}
  <2>1. UNCHANGED <<successes, deadLettered, abandoned>>
    BY <1>5 DEF Commit, outcomeVars
  <2>2. Handled' = Handled
    BY <2>1 DEF Handled
  <2>3. /\ committed \in Nat /\ committed' \in Nat /\ committed <= committed'
        /\ Offsets \subseteq Nat
    <3>1. committed \in Nat /\ position \in Nat /\ Offsets \subseteq Nat
      BY <1>1, OffsetsProperties DEF TypeInv, TypeOK
    <3>2. committed <= position
      BY DEF IInv, CommittedBehind
    <3>3. committed' \in {committed, position}
      BY <1>5 DEF Commit
    <3> QED
      BY <3>1, <3>2, <3>3
  <2>4. \A o \in covered : Delivery!Accounted(o)
    <3>1. \A o \in covered : Delivery!Accounted(o)'
      BY <1>1 DEF IInv, CommittedAccounted, Delivery!RetiredAccounted
    <3> QED
      BY <2>1, <2>2, <3>1 DEF Delivery!Accounted, Delivery!Settled
  <2>5. ASSUME NEW o \in Retired PROVE o \in covered
    BY <2>3
  <2>6. covered = Retired \union covered
    BY <2>5
  <2>7. \E S \in SUBSET Offsets :
            /\ \A o \in S : Delivery!Accounted(o)
            /\ covered = Retired \union S
    BY <2>4, <2>6
  <2> QED
    BY <2>1, <2>2, <2>7 DEF Delivery!Next, Delivery!Retire
<1>6. ASSUME NEW w \in Workers,
             \/ Start(w) \/ SkipDuplicate(w) \/ Take(w) \/ HandlerRaises(w)
             \/ CommitRaises(w) \/ StartRaises(w) \/ Assign(w) \/ Crash(w) \/ Expire(w)
      PROVE  UNCHANGED Delivery!vars
  <2>1. UNCHANGED <<successes, deadLettered, abandoned, committed>>
    BY <1>6 DEF Start, SkipDuplicate, Take, Fetch, HandlerRaises, CommitRaises, StartRaises,
                Assign, Crash, Expire, brokerVars, outcomeVars
  <2> QED
    BY <2>1 DEF Handled
<1>7. CASE UNCHANGED vars
  BY <1>7 DEF vars, brokerVars, outcomeVars, Handled
<1> QED
  BY <1>2, <1>3, <1>4, <1>5, <1>6, <1>7 DEF Next, Step

\* The loop implements the delivery promise: every behaviour of it is one of
\* AtLeastOnceDelivery, with the abandoned records as the only losses.
THEOREM ImplementsDelivery == Spec => DeliversAtLeastOnce
<1>1. IInv /\ [Next]_vars => [Delivery!Next]_Delivery!vars
  BY DeliveryStep
<1> QED
  BY <1>1, DeliveryInit, IInvAlways, PTL DEF Spec, DeliversAtLeastOnce, Delivery!Spec

(***************************************************************************)
(* Repeated effects.  A worker may return for an identity when it has      *)
(* begun with a copy, or owns the partition and does not have the identity *)
(* in its cache; a partition nobody owns is one such chance, for the       *)
(* worker that is to get it.  A return uses up a chance, and only a        *)
(* rebalance, a crash or a forgotten entry makes one.                      *)
(***************************************************************************)

Handles(w, id) == pc[w] = "handling" /\ Log[current[w]] = id

Chances(id) ==
    {w \in Workers \union {Nobody} :
        \/ w \in Workers /\ Handles(w, id)
        \/ owner = w /\ (w = Nobody \/ id \notin Cached(cache[w]))}

Excuses == rebalances + crashes + forgotten

Explained(id) ==
    /\ IsFiniteSet(Returns(id)) /\ IsFiniteSet(Chances(id))
    /\ Successes(id) + Cardinality(Chances(id)) <= 1 + Excuses

RepeatsInv == \A id \in Ids : Explained(id)

LEMMA ExcusesType == TypeInv /\ TypeInv' => Excuses \in Nat /\ Excuses' \in Nat
<1> SUFFICES ASSUME TypeInv, TypeInv' PROVE Excuses \in Nat /\ Excuses' \in Nat
  OBVIOUS
<1>1. rebalances \in Nat /\ crashes \in Nat /\ forgotten \in Nat
  BY DEF TypeInv, TypeOK
<1>2. rebalances' \in Nat /\ crashes' \in Nat /\ forgotten' \in Nat
  BY DEF TypeInv, TypeOK
<1>3. Excuses \in Nat
  BY <1>1 DEF Excuses
<1>4. Excuses' \in Nat
  <2>1. PICK b \in Nat, c \in Nat, f \in Nat : b = rebalances' /\ c = crashes' /\ f = forgotten'
    BY <1>2
  <2>2. Excuses' = b + c + f
    BY <2>1 DEF Excuses
  <2> QED
    BY <2>2
<1> QED
  BY <1>3, <1>4

LEMMA ReturnsOf ==
    ASSUME NEW id, NEW p
    PROVE  p \in Returns(id) <=>
               \E s \in Services : \E o \in Offsets : \E n \in 1 .. successes[s][o] :
                   Log[o] = id /\ p = <<s, o, n>>
<1> DEFINE Of(s, o) == {<<s, o, n>> : n \in 1 .. successes[s][o]}
           By(s) == UNION {Of(s, o) : o \in {x \in Offsets : Log[x] = id}}
<1>1. \A s : p \in By(s) <=> \E o \in Offsets : Log[o] = id /\ p \in Of(s, o)
  <2> HIDE DEF Of
  <2> QED
    OBVIOUS
<1>2. p \in Returns(id) <=> \E s \in Services : p \in By(s)
  BY DEF Returns
<1> HIDE DEF By
<1> QED
  BY <1>1, <1>2

\* A return of the handler is one more return for the identity of its record only.
LEMMA OneMoreReturn ==
    ASSUME TypeInv, NEW w \in Workers, HandlerReturns(w), NEW id
    PROVE  /\ Log[current[w]] = id =>
                 \E p : p \notin Returns(id) /\ Returns(id)' = Returns(id) \union {p}
           /\ Log[current[w]] # id => Returns(id)' = Returns(id)
<1> DEFINE s == ServiceOf[w]
           o == current[w]
           k == successes[s][o]
<1>1. /\ s \in Services /\ o \in Offsets /\ k \in Nat
      /\ successes \in [Services -> [Offsets -> Nat]]
  BY DEF TypeInv, TypeOK, InHand, HandlerReturns
<1>2. /\ successes'[s][o] = k + 1
      /\ \A t \in Services, x \in Offsets : t # s \/ x # o => successes'[t][x] = successes[t][x]
  BY <1>1 DEF HandlerReturns
<1> HIDE DEF s, o, k
<1>3. 1 .. (k + 1) = (1 .. k) \union {k + 1} /\ k + 1 \notin 1 .. k
  BY <1>1
<1>4. ASSUME NEW p
      PROVE  p \in Returns(id)' <=>
               \E t \in Services : \E x \in Offsets : \E n \in 1 .. successes'[t][x] :
                   Log[x] = id /\ p = <<t, x, n>>
  <2> DEFINE Of(t, x) == {<<t, x, n>> : n \in 1 .. successes'[t][x]}
             By(t) == UNION {Of(t, x) : x \in {y \in Offsets : Log[y] = id}}
  <2>1. \A t : p \in By(t) <=> \E x \in Offsets : Log[x] = id /\ p \in Of(t, x)
    <3> HIDE DEF Of
    <3> QED
      OBVIOUS
  <2>2. p \in Returns(id)' <=> \E t \in Services : p \in By(t)
    BY DEF Returns
  <2> HIDE DEF By
  <2> QED
    BY <2>1, <2>2
<1>5. successes[s][o] = k
  BY DEF k
<1>6. CASE Log[o] = id
  <2>1. <<s, o, k + 1>> \notin Returns(id)
    <3> SUFFICES ASSUME <<s, o, k + 1>> \in Returns(id) PROVE FALSE
      OBVIOUS
    <3>1. PICK t \in Services, x \in Offsets :
              \E n \in 1 .. successes[t][x] : <<s, o, k + 1>> = <<t, x, n>>
      BY ReturnsOf
    <3>2. t = s /\ x = o /\ k + 1 \in 1 .. successes[t][x]
      BY <3>1
    <3>3. successes[t][x] = k
      BY <1>5, <3>2
    <3> QED
      BY <1>3, <3>2, <3>3
  <2>2. ASSUME NEW p PROVE p \in Returns(id)' <=> p \in Returns(id) \union {<<s, o, k + 1>>}
    <3>1. ASSUME p \in Returns(id) PROVE p \in Returns(id)'
      <4>1. PICK t \in Services, x \in Offsets :
                \E n \in 1 .. successes[t][x] : Log[x] = id /\ p = <<t, x, n>>
        BY <3>1, ReturnsOf
      <4>2. PICK n \in 1 .. successes[t][x] : Log[x] = id /\ p = <<t, x, n>>
        BY <4>1
      <4>3. n \in 1 .. successes'[t][x]
        BY <1>2, <1>3, <1>5
      <4> QED
        BY <1>4, <4>2, <4>3
    <3>2. <<s, o, k + 1>> \in Returns(id)'
      <4>1. k + 1 \in 1 .. successes'[s][o]
        BY <1>2, <1>3
      <4> QED
        BY <1>1, <1>4, <1>6, <4>1
    <3>3. ASSUME p \in Returns(id)' PROVE p \in Returns(id) \/ p = <<s, o, k + 1>>
      <4>1. PICK t \in Services, x \in Offsets :
                \E n \in 1 .. successes'[t][x] : Log[x] = id /\ p = <<t, x, n>>
        BY <1>4, <3>3
      <4>2. PICK n \in 1 .. successes'[t][x] : Log[x] = id /\ p = <<t, x, n>>
        BY <4>1
      <4>3. n \in 1 .. successes[t][x] \/ (t = s /\ x = o /\ n = k + 1)
        BY <1>2, <1>3, <1>5
      <4> QED
        BY <4>2, <4>3, ReturnsOf
    <3> QED
      BY <3>1, <3>2, <3>3
  <2> QED
    BY <1>6, <2>1, <2>2 DEF o
<1>7. CASE Log[o] # id
  <2>1. ASSUME NEW p PROVE p \in Returns(id)' <=> p \in Returns(id)
    BY <1>2, <1>4, <1>7, ReturnsOf
  <2> QED
    BY <1>7, <2>1 DEF o
<1> QED
  BY <1>6, <1>7 DEF o

\* How a step may keep the account of an identity: it makes no chance, or makes one for
\* an excuse, or uses one up, or hands one on.
LEMMA AccountKept ==
    ASSUME NEW id, Explained(id), TypeInv, TypeInv', NEW w, NEW z, NEW lost \in Nat,
           Excuses' >= Excuses + lost,
           \/ Returns(id)' = Returns(id) /\ Chances(id)' \subseteq Chances(id)
           \/ /\ Returns(id)' = Returns(id) /\ Chances(id)' \subseteq Chances(id) \union {w}
              /\ lost = 1
           \/ /\ \E p : p \notin Returns(id) /\ Returns(id)' = Returns(id) \union {p}
              /\ w \in Chances(id) /\ Chances(id)' \subseteq Chances(id) \ {w}
           \/ /\ Returns(id)' = Returns(id)
              /\ z \in Chances(id) /\ Chances(id)' \subseteq (Chances(id) \ {z}) \union {w}
    PROVE  Explained(id)'
<1> DEFINE R == Returns(id)
           U == Chances(id)
           V == Chances(id)'
<1>1. IsFiniteSet(U) /\ IsFiniteSet(R)
  BY DEF Explained
<1>2. PICK u \in Nat, r \in Nat : u = Cardinality(U) /\ r = Cardinality(R)
  BY <1>1, FS_CardinalityType
<1>3. PICK e \in Nat, e1 \in Nat : e = Excuses /\ e1 = Excuses'
  BY ExcusesType
<1>4. r + u <= 1 + e /\ e1 >= e + lost
  BY <1>2, <1>3 DEF Explained, Successes
<1>5. ASSUME NEW S, Returns(id)' = S, IsFiniteSet(S), NEW n \in Nat, n = Cardinality(S),
             NEW T, V \subseteq T, IsFiniteSet(T), NEW t \in Nat, t = Cardinality(T),
             n + t <= r + u + lost
      PROVE  Explained(id)'
  <2>1. IsFiniteSet(V) /\ Cardinality(V) <= t
    BY <1>5, FS_Subset
  <2>2. PICK v \in Nat : v = Cardinality(V)
    BY <2>1, FS_CardinalityType
  <2>3. v <= t
    BY <2>1, <2>2
  <2>4. n + t <= r + u + lost /\ n \in Nat /\ t \in Nat
    BY <1>5
  <2>5. n + v <= 1 + e1
    BY <1>4, <2>3, <2>4
  <2> QED
    BY <1>3, <1>5, <2>1, <2>2, <2>5 DEF Explained, Successes
<1>6. /\ IsFiniteSet(U \union {w})
      /\ Cardinality(U \union {w}) = u \/ Cardinality(U \union {w}) = u + 1
  <2> HIDE DEF U
  <2>1. CASE w \in U
    <3>1. U \union {w} = U
      BY <2>1
    <3> QED
      BY <1>1, <1>2, <3>1
  <2>2. CASE w \notin U
    BY <1>1, <1>2, <2>2, FS_AddElement
  <2> QED
    BY <2>1, <2>2
<1>7. \A x \in U : IsFiniteSet(U \ {x}) /\ Cardinality(U \ {x}) = u - 1 /\ u - 1 \in Nat
  <2> TAKE x \in U
  <2>1. IsFiniteSet(U \ {x}) /\ Cardinality(U \ {x}) = u - 1
    BY <1>1, <1>2, FS_RemoveElement
  <2> QED
    BY <2>1, FS_CardinalityType
<1>8. z \in U => /\ IsFiniteSet((U \ {z}) \union {w})
                 /\ \/ Cardinality((U \ {z}) \union {w}) = u - 1
                    \/ Cardinality((U \ {z}) \union {w}) = u
  <2> DEFINE Y == U \ {z}
  <2> SUFFICES ASSUME z \in U
               PROVE  /\ IsFiniteSet(Y \union {w})
                      /\ Cardinality(Y \union {w}) = u - 1 \/ Cardinality(Y \union {w}) = u
    OBVIOUS
  <2>1. IsFiniteSet(Y) /\ Cardinality(Y) = u - 1
    BY <1>7
  <2> HIDE DEF Y
  <2>2. CASE w \in Y
    <3>1. Y \union {w} = Y
      BY <2>2
    <3> QED
      BY <2>1, <3>1
  <2>3. CASE w \notin Y
    <3>1. IsFiniteSet(Y \union {w}) /\ Cardinality(Y \union {w}) = Cardinality(Y) + 1
      BY <2>1, <2>3, FS_AddElement
    <3> QED
      BY <1>2, <2>1, <3>1
  <2> QED
    BY <2>2, <2>3
<1>9. \A p : p \notin R => IsFiniteSet(R \union {p}) /\ Cardinality(R \union {p}) = r + 1
  BY <1>1, <1>2, FS_AddElement
<1> HIDE DEF U, V, R
<1>10. \/ Returns(id)' = R /\ V \subseteq U
       \/ Returns(id)' = R /\ V \subseteq U \union {w} /\ lost = 1
       \/ (\E p : p \notin R /\ Returns(id)' = R \union {p}) /\ w \in U /\ V \subseteq U \ {w}
       \/ Returns(id)' = R /\ z \in U /\ V \subseteq (U \ {z}) \union {w}
  BY DEF R, U, V
<1>15. r + 1 \in Nat /\ r + 1 + (u - 1) <= r + u + lost
  OBVIOUS
<1>11. CASE Returns(id)' = R /\ V \subseteq U
  BY <1>1, <1>2, <1>5, <1>11
<1>12. CASE Returns(id)' = R /\ V \subseteq U \union {w} /\ lost = 1
  <2>1. PICK t \in Nat : t = Cardinality(U \union {w}) /\ (t = u \/ t = u + 1)
    BY <1>2, <1>6
  <2>2. r + t <= r + u + lost
    BY <1>2, <1>12, <2>1
  <2> QED
    BY <1>1, <1>2, <1>5, <1>6, <1>12, <2>1, <2>2
<1>13. CASE (\E p : p \notin R /\ Returns(id)' = R \union {p}) /\ w \in U /\ V \subseteq U \ {w}
  <2>1. PICK p : p \notin R /\ Returns(id)' = R \union {p}
    BY <1>13
  <2>2. /\ IsFiniteSet(R \union {p}) /\ Cardinality(R \union {p}) = r + 1
        /\ r + 1 \in Nat /\ r + 1 + (u - 1) <= r + u + lost
    <3>1. IsFiniteSet(R \union {p}) /\ Cardinality(R \union {p}) = r + 1
      BY <1>9, <2>1
    <3> QED
      BY <1>15, <3>1
  <2>3. IsFiniteSet(U \ {w}) /\ Cardinality(U \ {w}) = u - 1 /\ u - 1 \in Nat
    BY <1>7, <1>13
  <2> QED
    BY <1>5, <1>13, <2>1, <2>2, <2>3
<1>14. CASE Returns(id)' = R /\ z \in U /\ V \subseteq (U \ {z}) \union {w}
  <2>1. PICK t \in Nat : t = Cardinality((U \ {z}) \union {w}) /\ (t = u - 1 \/ t = u)
    <3> DEFINE c == Cardinality((U \ {z}) \union {w})
    <3>1. u - 1 \in Nat
      BY <1>7, <1>14
    <3>2. c = u - 1 \/ c = u
      BY <1>8, <1>14
    <3> HIDE DEF c
    <3>3. c \in Nat
      BY <1>2, <3>1, <3>2
    <3>4. \E t \in Nat : t = c /\ (t = u - 1 \/ t = u)
      BY <3>2, <3>3
    <3> QED
      BY <3>4 DEF c
  <2>2. t <= u
    BY <2>1
  <2>3. r + t <= r + u + lost
    BY <2>2
  <2> QED
    BY <1>1, <1>2, <1>5, <1>8, <1>14, <2>1, <2>3
<1> QED
  BY <1>10, <1>11, <1>12, <1>13, <1>14

\* A step of one worker that leaves the partition where it is gives another no chance.
LEMMA OthersKnow ==
    ASSUME NEW w \in Workers, NEW id, owner' = owner,
           \A v \in Workers \ {w} :
               /\ cache'[v] = cache[v]
               /\ pc'[v] = "handling" => pc[v] = "handling" /\ current'[v] = current[v]
    PROVE  /\ Chances(id)' \subseteq Chances(id) \union {w}
           /\ w \notin Chances(id)' => Chances(id)' \subseteq Chances(id) \ {w}
           /\ (w \in Chances(id)' => w \in Chances(id)) => Chances(id)' \subseteq Chances(id)
BY DEF Chances, Handles

LEMMA RepeatsInit == Init => RepeatsInv
<1> SUFFICES ASSUME Init, NEW id \in Ids PROVE Explained(id)
  BY DEF RepeatsInv
<1>1. Returns(id) = {}
  BY OffsetsProperties DEF Returns, Init
<1>2. IsFiniteSet(Returns(id)) /\ Successes(id) = 0
  BY <1>1, FS_EmptySet DEF Successes
<1>3. Chances(id) = {} \union {Nobody}
  <2>1. owner = Nobody /\ \A w \in Workers : pc[w] = "down" /\ w # Nobody
    BY KafkaAssumption DEF Init
  <2>2. ASSUME NEW w PROVE w \in Chances(id) <=> w \in {} \union {Nobody}
    BY <2>1 DEF Chances, Handles
  <2> QED
    BY <2>2, Zenon
<1>4. IsFiniteSet(Chances(id)) /\ Cardinality(Chances(id)) = 1
  <2>1. IsFiniteSet({}) /\ Cardinality({}) = 0 /\ Nobody \notin {}
    BY FS_EmptySet
  <2>2. /\ IsFiniteSet({} \union {Nobody})
        /\ Cardinality({} \union {Nobody}) = Cardinality({}) + 1
    BY <2>1, FS_AddElement
  <2>3. Cardinality({} \union {Nobody}) = 1
    BY <2>1, <2>2
  <2> QED
    BY <1>3, <2>2, <2>3
<1> QED
  BY <1>2, <1>4 DEF Explained, Excuses, Init

LEMMA RepeatsStep == TypeInv /\ TypeInv' /\ RepeatsInv /\ [Next]_vars => RepeatsInv'
<1> SUFFICES ASSUME TypeInv, TypeInv', RepeatsInv, [Next]_vars, NEW id \in Ids
             PROVE  Explained(id)'
  BY DEF RepeatsInv
<1>1. Explained(id) /\ id # NoId
  BY CacheAssumption DEF RepeatsInv
<1>2. /\ crashes \in Nat /\ forgotten \in Nat /\ rebalances \in Nat
      /\ cache \in [Workers -> Caches] /\ pc \in [Workers -> PCs]
      /\ current \in [Workers -> Offsets \union {0}] /\ owner \in Workers \union {Nobody}
  BY DEF TypeInv, TypeOK
<1>3. ASSUME NEW w \in Workers, HandlerReturns(w) \/ DeadLetter(w) PROVE Explained(id)'
  <2> DEFINE mine == Log[current[w]]
             kept == Mark(cache[w], mine)
  <2>1. current[w] \in Offsets
    BY <1>3 DEF TypeInv, InHand, HandlerReturns, DeadLetter
  <2>2. mine \in Ids \union {NoId} /\ GoodCache(cache[w])
    BY <2>1, OffsetsProperties DEF TypeInv, TypeOK, GoodCache
  <2>3. /\ cache' = [cache EXCEPT ![w] = kept]
        /\ forgotten' = forgotten + (IF Overflows(cache[w], mine) THEN 1 ELSE 0)
        /\ pc' = [pc EXCEPT ![w] = "committing"] /\ UNCHANGED <<current, owner, crashes, rebalances>>
    BY <1>3 DEF HandlerReturns, DeadLetter, MarkCurrent, boundVars, brokerVars
  <2>4. /\ mine # NoId => mine \in Cached(kept)
        /\ ~ Overflows(cache[w], mine) => Cached(cache[w]) \subseteq Cached(kept)
    BY <2>2, MarkProperties DEF Contains
  <2>5. cache'[w] = kept /\ pc'[w] = "committing" /\ w # Nobody
    BY <1>2, <2>3
  <2>6. \A v \in Workers \ {w} :
            cache'[v] = cache[v] /\ pc'[v] = pc[v] /\ current'[v] = current[v]
    BY <1>2, <2>3
  <2> HIDE DEF kept
  <2>7. mine = id => w \notin Chances(id)'
    BY <1>1, <2>4, <2>5 DEF Chances, Handles
  <2>8. ~ Overflows(cache[w], mine) /\ w \in Chances(id)' => w \in Chances(id)
    BY <2>3, <2>4, <2>5 DEF Chances, Handles
  <2>9. /\ Chances(id)' \subseteq Chances(id) \union {w}
        /\ w \notin Chances(id)' => Chances(id)' \subseteq Chances(id) \ {w}
        /\ (w \in Chances(id)' => w \in Chances(id)) => Chances(id)' \subseteq Chances(id)
    BY <2>3, <2>6, OthersKnow
  <2>10. /\ Overflows(cache[w], mine) => Excuses' >= Excuses + 1
         /\ Excuses' >= Excuses + 0
    BY <1>2, <2>3 DEF Excuses
  <2>11. CASE HandlerReturns(w) /\ mine = id
    <3>1. w \in Chances(id)
      BY <2>11 DEF Chances, Handles, HandlerReturns
    <3>2. \E p : p \notin Returns(id) /\ Returns(id)' = Returns(id) \union {p}
      BY <2>11, OneMoreReturn
    <3> QED
      BY <1>1, <2>7, <2>9, <2>10, <2>11, <3>1, <3>2, AccountKept
  <2>12. CASE DeadLetter(w) \/ mine # id
    <3>1. Returns(id)' = Returns(id)
      <4>1. CASE DeadLetter(w)
        BY <4>1 DEF DeadLetter, Returns
      <4>2. CASE HandlerReturns(w) /\ mine # id
        BY <4>2, OneMoreReturn
      <4> QED
        BY <1>3, <2>12, <4>1, <4>2
    <3>2. CASE Overflows(cache[w], mine)
      BY <1>1, <2>9, <2>10, <3>1, <3>2, AccountKept
    <3>3. CASE ~ Overflows(cache[w], mine)
      BY <1>1, <2>8, <2>9, <2>10, <3>1, <3>3, AccountKept
    <3> QED
      BY <3>2, <3>3
  <2> QED
    BY <1>3, <2>11, <2>12
<1>4. ASSUME NEW w \in Workers, Expire(w) PROVE Explained(id)'
  <2>1. Returns(id)' = Returns(id) /\ owner' = owner
    BY <1>4 DEF Expire, Returns, outcomeVars, brokerVars
  <2>2. \A v \in Workers \ {w} :
            /\ cache'[v] = cache[v]
            /\ pc'[v] = "handling" => pc[v] = "handling" /\ current'[v] = current[v]
    BY <1>2, <1>4 DEF Expire
  <2>3. Excuses' >= Excuses + 1
    BY <1>2, <1>4 DEF Expire, Excuses, boundVars
  <2>4. Chances(id)' \subseteq Chances(id) \union {w}
    BY <2>1, <2>2, OthersKnow
  <2> QED
    BY <1>1, <2>1, <2>3, <2>4, AccountKept
<1>5. ASSUME NEW w \in Workers, Crash(w) PROVE Explained(id)'
  <2>1. Returns(id)' = Returns(id)
    BY <1>5 DEF Crash, Returns, outcomeVars
  <2>2. /\ pc'[w] = "down"
        /\ \A v \in Workers \ {w} : cache'[v] = cache[v] /\ pc'[v] = pc[v] /\ current'[v] = current[v]
        /\ owner' = IF owner = w THEN Nobody ELSE owner
    BY <1>2, <1>5 DEF Crash
  <2>3. Chances(id)' \subseteq Chances(id) \union {Nobody}
    BY <2>2 DEF Chances, Handles
  <2>4. Excuses' >= Excuses + 1
    BY <1>2, <1>5 DEF Crash, Excuses
  <2> QED
    BY <1>1, <2>1, <2>3, <2>4, AccountKept
<1>6. ASSUME NEW w \in Workers, Assign(w) PROVE Explained(id)'
  <2>1. Returns(id)' = Returns(id) /\ UNCHANGED <<cache, pc, current>>
    BY <1>6 DEF Assign, Returns, outcomeVars, loopVars
  <2>2. owner' = w /\ owner # w
    BY <1>6 DEF Assign
  <2>3. CASE owner = Nobody
    <3>1. Nobody \in Chances(id) /\ Chances(id)' \subseteq (Chances(id) \ {Nobody}) \union {w}
      BY <2>1, <2>2, <2>3 DEF Chances, Handles
    <3>2. Excuses' >= Excuses + 0
      BY <1>2, <1>6, <2>3 DEF Assign, Excuses
    <3> QED
      BY <1>1, <2>1, <3>1, <3>2, AccountKept
  <2>4. CASE owner # Nobody
    <3>1. Chances(id)' \subseteq Chances(id) \union {w}
      BY <2>1, <2>2, <2>4 DEF Chances, Handles
    <3>2. Excuses' >= Excuses + 1
      BY <1>2, <1>6, <2>4 DEF Assign, Excuses
    <3> QED
      BY <1>1, <2>1, <3>1, <3>2, AccountKept
  <2> QED
    BY <2>3, <2>4
<1>7. ASSUME NEW w \in Workers,
             \/ Start(w) \/ SkipDuplicate(w) \/ Take(w) \/ HandlerRaises(w)
             \/ Abandon(w) \/ Commit(w) \/ CommitRaises(w) \/ StartRaises(w)
      PROVE  Explained(id)'
  <2>1. Returns(id)' = Returns(id) /\ UNCHANGED <<owner, cache, rebalances, crashes, forgotten>>
    BY <1>7 DEF Start, SkipDuplicate, Take, Fetch, HandlerRaises, Abandon, Commit,
                CommitRaises, StartRaises, Returns, outcomeVars, brokerVars, boundVars
  <2>2. \A v \in Workers \ {w} : pc'[v] = pc[v] /\ current'[v] = current[v]
    BY <1>2, <1>7 DEF Start, SkipDuplicate, Take, Fetch, HandlerRaises, Abandon, NextRecord, Commit,
                CommitRaises, StartRaises
  <2>3. pc'[w] = "handling" =>
            \/ pc[w] = "handling" /\ current'[w] = current[w]
            \/ ~ Contains(cache[w], Log[current'[w]]) /\ owner = w
    BY <1>2, <1>7 DEF Start, SkipDuplicate, Take, Fetch, HandlerRaises, Abandon, NextRecord, Commit,
                CommitRaises, StartRaises
  <2>4. w \in Chances(id)' => w \in Chances(id)
    BY <1>1, <2>1, <2>3 DEF Chances, Handles, Contains
  <2>5. Excuses' >= Excuses + 0
    BY <1>2, <2>1 DEF Excuses
  <2> QED
    BY <1>1, <2>1, <2>2, <2>4, <2>5, OthersKnow, AccountKept
<1>8. CASE UNCHANGED vars
  <2>1. Returns(id)' = Returns(id) /\ Chances(id)' = Chances(id) /\ Excuses' = Excuses
    BY <1>8 DEF vars, brokerVars, loopVars, outcomeVars, boundVars, Returns, Chances, Handles, Excuses
  <2> QED
    BY <1>1, <2>1 DEF Explained, Successes
<1> QED
  BY <1>3, <1>4, <1>5, <1>6, <1>7, <1>8 DEF Next, Step

\* However the partition moves and whatever fails: over all workers and all the copies
\* of a message the handler returns at most once, plus once per rebalance, crash or
\* forgotten cache entry.
THEOREM RepeatsHaveReasons == Spec => []RepeatsAreExplained
<1>1. TypeInv /\ RepeatsInv => RepeatsAreExplained
  <2> SUFFICES ASSUME TypeInv, RepeatsInv, NEW id \in Ids
               PROVE  Successes(id) <= 1 + rebalances + crashes + forgotten
    BY DEF RepeatsAreExplained
  <2>1. Explained(id)
    BY DEF RepeatsInv
  <2>2. PICK n \in Nat, u \in Nat : n = Successes(id) /\ u = Cardinality(Chances(id))
    BY <2>1, FS_CardinalityType DEF Explained, Successes
  <2> QED
    BY <2>1, <2>2 DEF Explained, Excuses, TypeInv, TypeOK
<1> QED
  BY <1>1, TypeInit, TypeStep, RepeatsInit, RepeatsStep, PTL DEF Spec
=============================================================================
