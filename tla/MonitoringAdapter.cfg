\* Two handlers and the worker, one commit may fail; two requests for one incident, and
\* two failures anywhere.
SPECIFICATION AdapterSpec
CONSTANTS
    recommended = recommended
    rejected = rejected
    executed = executed
    approved = approved
    opened = opened
    closed = closed
    NoEvent = NoEvent
    Sessions = {s1, s2}
    Events = {recommended, rejected, executed, approved}
    OtherEvents = {opened, closed}
    TimeOf <- MCTimeOf
    StatusOf <- MCStatusOf
    Limit = 2
    MaxFailures = 1
    first = first
    again = again
    Workflow = Workflow
    Nothing = Nothing
    Requests = {first, again}
    MaxFaults = 2
INVARIANTS
    RowTellsTheStore
    ExecutionsDecided
    ContinuationsAgree
PROPERTIES
    LatestTimeConverges
    PausedIsResumable
    ContinuationsSettle
\* The workflow ends, and the requests are answered.
CHECK_DEADLOCK FALSE
