\* Two handlers and the worker; no commit fails.
CONSTANTS
    recommended = recommended
    rejected = rejected
    executed = executed
    approved = approved
    opened = opened
    closed = closed
    NoEvent = NoEvent
    Sessions = {s1, s2}
    Events = {recommended, rejected, executed, approved}
    OtherEvents = {}
    TimeOf <- MCTimeOf
    StatusOf <- MCStatusOf
    Limit = 4
    MaxFailures = 0
SPECIFICATION ProjectionFairSpec
PROPERTIES
    StatusConverges
