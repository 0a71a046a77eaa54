SPECIFICATION Spec
CONSTANTS
    b1 = b1
    b2 = b2
    w1 = w1
    w2 = w2
    Batch <- TwoBatches
    Alias <- Names
    Scenarios <- Plain
    FreshWallet <- TwoWallets
    WalletSize = 3
    ReuseWallet = ReuseWallet
    OutputWallet = OutputWallet
    TempWallet = TempWallet
    NoWallet = NoWallet
    FailedSplits <- NoneOrSomeFailed
    MaxPostFails = 1
SYMMETRY BatchSymmetry
INVARIANTS TypeOK ConflictsAsScripted SignedByOwner DoneBatchesForgotten ReusePoolUnspent InputsIdentified
CHECK_DEADLOCK FALSE
