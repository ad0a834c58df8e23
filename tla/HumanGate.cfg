\* No fault is needed: the first decision hides the recommendation from the gate.
CONSTANTS
    rHigh = rHigh
    rAuto = rAuto
    rBlocked = rBlocked
    qHuman = qHuman
    qAgent = qAgent
    Nothing = Nothing
    Resolutions = {rHigh}
    Requests = {qHuman, qAgent}
    Payload <- MCPayload
    Decision <- MCDecision
    MinConfidence = 80
    HighRiskConfidence = 95
    MaxAttempts = 2
    MaxFaults = 0
    MaxEvents = 3
SPECIFICATION Spec
PROPERTY HighRiskNeedsHuman
CHECK_DEADLOCK FALSE
