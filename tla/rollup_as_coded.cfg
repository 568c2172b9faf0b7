SPECIFICATION Spec
CONSTANTS
    Address = {alice, bob}
    Vault = vault
    Hash = {h1, h2}
    ZeroHash = zero
    InitialHash = genesis
    BlockNum = {1, 2}
    Amount = {1, 2}
    DAProvider = {"inbox"}
    Period = {0, 1}
    InitialAssertionID = 0
    InitialBlockNum = 0
    InitialConfig <- MCConfig
    InitialValidators = {alice}
    MaxAssertionID = 3
    MaxBlock = 3
    MaxBalance = 4
    MaxStakes = 2
    MaxChallenges = 1
INVARIANTS StakeFloor 
