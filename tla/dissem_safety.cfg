SPECIFICATION Spec
CONSTANTS
    TargetBatchSize = 6
    SeqWindowSize = 2
    SubSafetyMargin = 1
    TxsSize = 2
    NoBlock = NoBlock
    NoBatch = NoBatch
    Txs = {"none", "other", "oracle"}
    MaxL2 = 3
    MaxL1 = 2
    MaxReorgs = 1
    MaxCrashes = 1
INVARIANTS TypeOK HoldsChain SubBatchConsecutive 
PROPERTIES BatchStands UnforcedIsWhole 
