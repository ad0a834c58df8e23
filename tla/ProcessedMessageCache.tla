------------------------ MODULE ProcessedMessageCache ------------------------
(***************************************************************************)
(* The consumer-side duplicate filter of common/message_processing.py.     *)
(*                                                                         *)
(* The code keeps an OrderedDict from a message identity to the time it    *)
(* was marked.  A key is re-inserted at the end whenever it is marked, so  *)
(* the order of the keys is the order of their times and the cache is      *)
(* modelled by that order alone: a sequence of distinct identities, the    *)
(* oldest first.  Entries leave the front in two ways: one by one when     *)
(* their time to live has passed (_purge_expired), which a consumer's      *)
(* specification offers as a step of the clock, and when the cache holds   *)
(* more than MaxEntries keys (mark).                                       *)
(***************************************************************************)
EXTENDS Naturals, Sequences

CONSTANTS
    Ids,         \* the identities extract_message_identity can return
    NoId,        \* its None: the payload carries no event id at all
    MaxEntries   \* max_entries (the code: at least 100, default 10000)

ASSUME CacheAssumption ==
    /\ NoId \notin Ids
    /\ MaxEntries \in Nat \ {0}

Cached(cache) == {cache[i] : i \in DOMAIN cache}

\* contains(): a message without identity is never a duplicate.
Contains(cache, id) == id # NoId /\ id \in Cached(cache)

\* entries.pop(key, None)
Without(cache, id) ==
    IF id \notin Cached(cache)
    THEN cache
    ELSE LET at == CHOOSE i \in DOMAIN cache : cache[i] = id
         IN  [i \in 1 .. Len(cache) - 1 |->
                 IF i < at THEN cache[i] ELSE cache[i + 1]]

\* The cache with the key moved (or added) to the end, before any eviction.
Touched(cache, id) == Append(Without(cache, id), id)

\* TRUE when marking id pushes the oldest entry out.
Overflows(cache, id) == id # NoId /\ Len(Touched(cache, id)) > MaxEntries

\* mark()
Mark(cache, id) ==
    IF id = NoId THEN cache
    ELSE IF Overflows(cache, id) THEN Tail(Touched(cache, id))
    ELSE Touched(cache, id)

\* One turn of the loop of _purge_expired.
DropOldest(cache) == Tail(cache)

Caches == {c \in Seq(Ids) : \A i, j \in DOMAIN c : c[i] = c[j] => i = j}
=============================================================================
