SPECIFICATION VFairSpec
CONSTANTS
    Address = {"alice", "bob"}
    Vault = vault
    Hash <- MCHash
    ZeroHash = zero
    InitialHash = genesis
    BlockNum = {1, 2, 3}
    Amount = {2}
    DAProvider = {"inbox"}
    Period = {1}
    InitialAssertionID = 0
    InitialBlockNum = 0
    InitialConfig <- MCConfig
    InitialValidators = {"alice", "bob"}
    MaxAssertionID = 4
    MaxBlock = 9
    MaxBalance = 9
    MaxStakes = 2
    MaxChallenges = 1
    Node <- MCNode
    Variant = {"coded", "forks"}
    blockHash <- MCBlockHash
    Word = 4
    MaxSafe = 3
    MaxFaults = 1
    NoCall = noCall
INVARIANT BelievesAsserted
PROPERTIES Confirms 
