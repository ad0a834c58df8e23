SPECIFICATION AlertStreamSpec
CONSTANTS
    MaxRows = 2
    MaxClicks = 2
    MaxFaults = 1
    MaxLate = 1
PROPERTIES
    AlertsSettle
    StreamConverges
CHECK_DEADLOCK FALSE
