SPECIFICATION Spec
CONSTANTS
    d1 = d1
    d2 = d2
    legacy = legacy
    s1 = s1
    s2 = s2
    blank = blank
    Data <- MCData
    Legacy <- MCLegacy
    Secrets <- MCSecrets
    NoAuth = blank
    FreshSecret = s2
    NoFile = NoFile
    NoJournal = NoJournal
    NoRotation = NoRotation
    NoCandidate = NoCandidate
    MaxEdits = 2
    MaxFaults = 2
SYMMETRY DataSymmetry
CHECK_DEADLOCK FALSE
INVARIANTS
    TypeOK
    JournalProvesFile
    RecoveryContext
    EngineAgrees
    VerifiedIsLive
    CredentialKept
PROPERTIES
    AcceptedFileKept
    ImplementsAgreement
