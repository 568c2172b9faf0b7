SPECIFICATION Spec
CONSTANTS
    User = {"user"}
    App = {"app"}
    Token <- MCTokens
    NoToken = "none"
    Value = {1}
    HashKind = {"root", "block"}
    Pausable = {"L1Portal", "L2Bridge"}
    GenesisEther <- MCGenesisEther
    MaxNonce = 2
    MaxMessages = 3
    chainOf <- MCChainOf
    remoteToken <- MCRemoteToken
    GenesisTokens <- MCGenesisTokens
    RawCall <- MCRawCall
    Recipient = {"user", "app"}
CHECK_DEADLOCK FALSE
INVARIANTS TypeOK EtherBacked TokensBacked EscrowHeld OwnSender
