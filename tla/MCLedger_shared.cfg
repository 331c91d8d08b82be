SPECIFICATION FairSpec
CONSTANTS
    Writers = {w1, w2}
    NoWriter = NoWriter
    Setups <- SomeSetups
    MaxDigest = 4
INVARIANTS TypeOK ChainVerifies HeadFileOnChain IntactLinks NoSilentLoss
PROPERTIES AppendEnds
CHECK_DEADLOCK FALSE
