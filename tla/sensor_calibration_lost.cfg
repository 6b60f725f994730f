SPECIFICATION Spec
CONSTANTS
    MaxTags = 3
    Unasked = {"humidity", "other"}
    Configurations <- WithCalibration
PROPERTIES
    EveryTagReports
CHECK_DEADLOCK FALSE
