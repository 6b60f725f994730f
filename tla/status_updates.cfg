SPECIFICATION FairSpec
CONSTANTS
    hub = hub
    app1 = app1
    app2 = app2
    Hub = hub
    Callers = {app1, app2}
    MaxUpdates = 7
    Answers = {TRUE}
    LateChanges = TRUE
CHECK_DEADLOCK FALSE
INVARIANTS TypeOK OneUpdate FreedAlone
PROPERTIES UpdateServed DestroyReturnsUnlessOverwritten
