SPECIFICATION LiveSpec
CONSTANTS
    o1 = o1
    o2 = o2
    c1 = c1
    c2 = c2
    exact1 = exact1
    exact2 = exact2
    site = site
    Ops = {o1, o2}
    Candidates = {c1}
    Rules = {exact1, site}
    Exact <- MCExact
    Site <- MCSite
    NoRule = NoRule
    NoOp = NoOp
    NoTask = NoTask
    Tampering = TRUE
    MaxQueue = 2
    MaxEdits = 2
    MaxFaults = 2
CHECK_DEADLOCK FALSE
PROPERTIES
    RestartCompletes
    OutsideEditKept
