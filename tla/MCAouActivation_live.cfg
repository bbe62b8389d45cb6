CONSTANTS
    a = a
    b = b
    Die <- MCDie
    SeparateRsp <- MCDie
    QuietWindow = 1
    Bus <- MCQuiet
    FlitBeats = 2
    DataBound = 1
    Traffic = {"rsp"}
    Faults = {}
SPECIFICATION LiveSpec
PROPERTIES
    SessionComesUp
    SessionGoesDown
