CONSTANTS
    a = a
    b = b
    Die <- MCDie
    SeparateRsp <- MCNone
    QuietWindow = 1
    Bus <- MCQuiet
    FlitBeats = 2
    DataBound = 0
    Traffic = {"req", "rsp"}
    Faults = {"link", "timeout"}
SPECIFICATION Spec
SYMMETRY MCSym
INVARIANTS
    ActFifoNeverDrops
    NoSessionOnDeadLink
PROPERTIES
    NoSilentLoss
