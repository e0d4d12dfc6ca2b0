SPECIFICATION LiveSpec
CONSTANTS
    Capacity = 1
    BackoffMax = 2
    MaxLines = 2
    MaxGenerations = 2
    LogFaults = 1
    LogChannel = 2
    MaxVersion = 2
    FeedFaults = 2
    FeedChannel = 3
    Nodes = {n1, n2, n3}
    Stale = 2
    BatchLimit = 1
    Grace = 2
    ProberChanges = 2
    Groups = {g1}
    NoGroup = NoGroup
    Unknown = Unknown
    MaxOps = 3
    MaxRules = 2
    DeploymentChanges = 2
    Data = {d1, legacy}
    Legacy = {legacy}
    Secrets = {blank, s1, s2}
    NoAuth = blank
    FreshSecret = s2
    NoFile = NoFile
    NoJournal = NoJournal
    NoRotation = NoRotation
    NoCandidate = NoCandidate
    MaxEdits = 1
    ApplyFaults = 2
CHECK_DEADLOCK FALSE
INVARIANTS
    LogScreenAgrees
    SweptInTime
    DeploymentProved
PROPERTIES
    NothingRewinds
    StreamsConverge
