\* Two workers of one service; the dead-letter producer may be out of reach.
CONSTANTS
    w1 = w1
    w2 = w2
    approval = approval
    remediation = remediation
    evt1 = evt1
    evt2 = evt2
    NoId = NoId
    Nobody = Nobody
    Ids <- MCIds
    MaxEntries = 1
    Workers = {w1, w2}
    Services = {approval}
    ServiceOf <- OneService
    Log <- MCLog
    MaxRetries = 1
    DlqOutages = TRUE
    MaxCrashes = 1
    MaxRebalances = 1
    MaxDead = 1
    MaxExpiries = 1
SPECIFICATION FairSpec
INVARIANTS
    CommittedAccounted
    RepeatsAreExplained
PROPERTIES
    DeliversAtLeastOnce
    EveryRecordTried
\* The log is finite and a task that dies stays dead: the system may stop.
CHECK_DEADLOCK FALSE
