SPECIFICATION Spec
CONSTANTS
    w1 = w1
    w2 = w2
    s1 = s1
    s2 = s2
    NoWallet = NoWallet
    Wallet <- TwoWallets
    BigWallet <- BigOnes
    Spender <- TwoSpenders
    WalletSize = 3
    MaxInputs = 2
    Width = 8
SYMMETRY SpenderSymmetry
INVARIANTS TypeOK OvershootBounded HandedOnce QueueSound DepartedDrained
PROPERTIES ReadyIsFrozen ImplementsSupply
