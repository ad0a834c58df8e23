\* A human approves and an agent rejects, while one recommendation runs by
\* itself and another is blocked by the policy.
CONSTANTS
    rHigh = rHigh
    rAuto = rAuto
    rBlocked = rBlocked
    qHuman = qHuman
    qAgent = qAgent
    Nothing = Nothing
    Resolutions = {rHigh, rAuto, rBlocked}
    Requests = {qHuman, qAgent}
    Payload <- MCPayload
    Decision <- MCDecision
    MinConfidence = 80
    HighRiskConfidence = 95
    MaxAttempts = 2
    MaxFaults = 2
    MaxEvents = 3
SPECIFICATION FairSpec
INVARIANTS
    ExecutionsAuthorised
    ClaimsAreBacked
    RepeatsNeedFaults
PROPERTIES
    EveryDecisionConcluded
\* Every message is handled and every request is answered: the system stops.
CHECK_DEADLOCK FALSE
