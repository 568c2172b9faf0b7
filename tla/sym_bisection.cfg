SPECIFICATION BisectSpec
CONSTANTS
    Address = {a, b}
    Hash = {zero, start, h}
    ZeroHash = zero
    StartHash = start
    NoBisection = NoBisection
    Steps = {5, 6}
    ChallengePeriod = 1
    MaxBlock = 3
    InclusionVerifies = TRUE
SYMMETRY Symmetry
CHECK_DEADLOCK FALSE
INVARIANT TimeoutDeserved
PROPERTY Narrows
