\* Two workers; any two failures.
CONSTANTS
    m1 = m1
    mAnon = mAnon
    mGarbage = mGarbage
    evt1 = evt1
    NoId = NoId
    NoMessage = NoMessage
    Ids = {evt1}
    MaxEntries = 1
    Workers = {w1, w2}
    Messages = {m1, mAnon, mGarbage}
    IdOf <- MCIdOf
    Garbage = {mGarbage}
    MaxRetries = 1
    MaxFaults = 2
SPECIFICATION FairSpec
INVARIANTS
    RepeatsAreExplained
PROPERTIES
    DeliversAtLeastOnce
    EveryMessageRetired
\* The system stops when the queue is empty.
CHECK_DEADLOCK FALSE
