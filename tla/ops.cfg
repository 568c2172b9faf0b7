SPECIFICATION FairSpec
CONSTANTS
    Account = {"a"}
    Adjustment <- MCAdjustment
    TxGas = 3
    BlockGas = 12
    Gas64 = 32
    MaxSteps = 8
    MaxNumber = 3
    MaxNonce = 1
    MaxBlocks = 4
    Byte = 16
    WordBytes = 4
    AddressBytes = 3
    Uint64 = 4096
    Indexes <- MCIndexes
    PredeployProxyCount = 18
    L2Namespace = 256
    CodeNamespace = 512
    ImplementationSlot = 99
    Layouts <- MCLayouts
    Configs <- MCConfigs
    L1Blocks <- MCL1Blocks
    MaxExtra = 32
    TestAddress = "a"
    Message <- MCMessage
    Coinbase = 1001
    L1FeeOverhead = 100
    L1FeeMultiplier = 1200
    BaseFeeSlot = 5
    NumberSlot = 3
    BaseFees = {0, 1}
    MaxMessages = 3
INVARIANTS PendingExact ReceiptsFound  Packs  
PROPERTIES FeesMoveEther ToolEnds
CHECK_DEADLOCK FALSE
