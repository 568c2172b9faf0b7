SPECIFICATION QuietForkSpec
CONSTANTS
    Address = {alice, bob, carol}
    Vault = vault
    Hash = {h1, h2}
    ZeroHash = zero
    InitialHash = genesis
    BlockNum = {1, 2}
    Amount = {2}
    DAProvider = {"inbox"}
    Period = {1}
    InitialAssertionID = 0
    InitialBlockNum = 0
    InitialConfig <- MCConfig
    InitialValidators = {alice, bob, carol}
    MaxAssertionID = 3
    MaxBlock = 2
    MaxBalance = 6
    MaxStakes = 3
    MaxChallenges = 1
SYMMETRY Symmetry
INVARIANTS Solvent StakeCountExact PortalSound
PROPERTY ConfirmedByAll
