SPECIFICATION Spec
CONSTANTS
    MaxTags = 3
    Unasked = {"humidity", "other"}
    Configurations <- MCConfigurations
INVARIANTS
    ReadingsInv
    ReportsFresh
PROPERTIES
    KeepsReporting
CHECK_DEADLOCK FALSE
