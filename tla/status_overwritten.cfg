SPECIFICATION FairSpec
CONSTANTS
    hub = hub
    app1 = app1
    app2 = app2
    Hub = hub
    Callers = {}
    MaxUpdates = 1
    Answers = {TRUE}
    LateChanges = TRUE
CHECK_DEADLOCK FALSE
PROPERTIES DestroyReturns
