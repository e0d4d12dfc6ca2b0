SPECIFICATION Spec
CONSTANTS
    n1 = n1
    n2 = n2
    ch = ch
    other = other
    loop = loop
    first = first
    Channels = {ch}
    DefaultChannel = ch
    Nodes = {n1, n2}
    Pollers = {loop}
    Loop = loop
    Policies <- MCStickyOrPinned
    NoPolicy = NoPolicy
    NoNode = NoNode
    NoController = NoController
    Threshold = 2
    MaxEdits = 1
    MaxFaults = 2
CHECK_DEADLOCK FALSE
INVARIANTS
    NoLeak
