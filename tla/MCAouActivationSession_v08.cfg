CONSTANTS
    a = a
    b = b
    Die <- MCDie
    SeparateRsp <- MCDie
    QuietWindow = 1
    Bus <- MCBus
    FlitBeats = 2
    DataBound = 1
    Traffic = {"req", "rsp"}
    Faults = {}
    Grantor = a
SPECIFICATION Spec
PROPERTY ImplementsSession
INVARIANTS
    TypeOK
