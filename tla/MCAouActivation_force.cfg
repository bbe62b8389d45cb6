CONSTANTS
    a = a
    b = b
    Die <- MCDie
    SeparateRsp <- MCDie
    QuietWindow = 1
    Bus <- MCQuiet
    FlitBeats = 2
    DataBound = 1
    Traffic = {"req", "rsp"}
    Faults = {"link", "force"}
SPECIFICATION Spec
SYMMETRY MCSym
INVARIANTS
    NoInvalidActmsg
    SessionAgreement
    NoDuplicateActmsg
    DataOnlyInSession
    FreshSessionStartsEmpty
