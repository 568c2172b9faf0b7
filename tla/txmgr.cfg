SPECIFICATION FairSpec
CONSTANTS
    Call = {a, b}
    Impatient = {a}
    NoCall = noCall
    NoTx = noTx
    NoNonce = noNonce
    Market <- MCMarket
    FeeSample = {1, 2, 3, 4, 5, 7}
    PriceBump = 100
    FeeLimitMultiplier = 2
    NumConfirmations = 2
    SafeAbort = 1
    MaxAttempts = 2
    MaxFaults = 1
PROPERTIES ImplementsTxSend 
CHECK_DEADLOCK FALSE
