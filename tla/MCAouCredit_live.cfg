CONSTANTS
    SeparateRsp = TRUE
    Class <- MCAw
    ReqClass <- MCAw
    ShortClass = {}
    RpCount = 2
    Max <- MCMax2
    Wrap <- MCWrap4
    TxMax <- MCMax2
    Gran <- MCGran1
    Quiescent = TRUE
SPECIFICATION LiveSpec
PROPERTY CreditReturns
