SPECIFICATION Spec
CONSTANTS
    Domains = {d1, d2}
    NoLease = NoLease
    Lease = 2
    WorkTimeout = 1
    CleanupTimeout = 0
    Pulse = 1
    OpenFor = 1
    Threshold = 2
    RateWindow = 1
    MaximumStarts = 2
    Concurrency = 1
    Cooldown = 1
    MaxBackoff = 2
    Generations = 2
    MaxStreak = 2
    MaxChanges = 1
    Conns = {c1, c2}
    Public4 = {1, 2}
    Public6 = {3}
    Resolvers = {r1, r2}
    Quorum = 2
    ResolverTimeout = 1
    ConnectTimeout = 1
    ProofTimeout = 1
    TotalTimeout = 2
    MaxRedirects = 1
    MaxTunnels = 2
    Providers = {p1, p2}
    ProviderContents <- SomeProviderContents
    GeoContents <- SomeGeoContents
    CustomContents <- SomeCustomContents
    Limit = 1
    RecordDomains = {1}
    RecordRetention = 2
    RecordLease = 1
    RecordTime = 3
    RecordRuns = 2
CHECK_DEADLOCK FALSE
SYMMETRY Symmetry
INVARIANTS
    ValidationBounded
    EvidenceHonest
    ProbeSound
    DecisionGrounded
    RecordsKept
