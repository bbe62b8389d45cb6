CONSTANTS
    SeparateRsp = TRUE
    Class <- MCAwB
    ReqClass <- MCAw
    ShortClass = {"B"}
    RpCount = 1
    Max <- MCMax
    Wrap <- MCWrap
    TxMax <- MCMax
    Gran <- MCGran
    Quiescent = TRUE
SPECIFICATION Spec
INVARIANTS
    TypeOK
    RxFifoNeverOverflows
    CreditCovered
    CreditConserved
