SPECIFICATION Spec
CONSTANTS
    a = a
    b = b
    c = c
    h1 = h1
    h2 = h2
    h3 = h3
    v1 = v1
    v2 = v2
    Names = {a, b, c}
    OutProcess = {}
    Handles = {h1, h2, h3}
    Versions = {v1, v2}
    NoVersion = NoVersion
    AnySource = AnySource
    Creations <- Two
    Updates <- NoUpdates
    LinkEntries <- NoEntries
    Api = TRUE
    Faults = FALSE
    Downloads = {TRUE}
    MaxUpdates = 2
SYMMETRY Symmetry
CHECK_DEADLOCK FALSE
PROPERTIES RefusesTakenNames
