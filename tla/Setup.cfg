SPECIFICATION PartSpec
CONSTANTS
    Requests = {q1, q2}
    None = None
    Pasted <- SomePasted
    Urls = {"u1", "u2"}
    Contents <- SomeContents
    MaxRows = 2
    IntakeChanges = 1
    Links = {"k1", "k2", "k3"}
    Bound = {"k1"}
    MaxAsked = 2
    Routings <- SomeRoutings
    Nodes = {"n1", "n2"}
    Own = Own
    Home = Home
    MaxChanges = 2
    MaxFaults = 2
CHECK_DEADLOCK FALSE
SYMMETRY Symmetry
INVARIANTS
    ConfigurationSound
    IntakeSound
    ModeSound
    DiagnosticsTrue
