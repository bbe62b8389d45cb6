CONSTANTS
    SeparateRsp = TRUE
    Class <- MCAwB
    ReqClass <- MCAw
    ShortClass = {"B"}
    RpCount = 1
    Max <- MCMax2
    Wrap <- MCWrap4
    TxMax <- MCMax2
    Gran <- MCGran1
    Quiescent = FALSE
SPECIFICATION Spec
INVARIANT RxFifoNeverOverflows
