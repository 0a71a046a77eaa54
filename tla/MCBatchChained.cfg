SPECIFICATION Spec
CONSTANTS
    b1 = b1
    b2 = b2
    w1 = w1
    w2 = w2
    Batch <- OneBatch
    Alias <- Names
    Scenarios <- Chained
    FreshWallet <- TwoWallets
    WalletSize = 3
    ReuseWallet = ReuseWallet
    OutputWallet = OutputWallet
    TempWallet = TempWallet
    NoWallet = NoWallet
    FailedSplits <- NoneFailed
    MaxPostFails = 1
INVARIANTS StagesChained
CHECK_DEADLOCK FALSE
