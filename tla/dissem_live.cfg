SPECIFICATION FairSpec
CONSTANTS
    TargetBatchSize = 6
    SeqWindowSize = 2
    SubSafetyMargin = 1
    TxsSize = 2
    NoBlock = NoBlock
    NoBatch = NoBatch
    Txs = {"other", "oracle", "bad"}
    MaxL2 = 2
    MaxL1 = 2
    MaxReorgs = 1
    MaxCrashes = 1
 
PROPERTY BuiltIsSent
