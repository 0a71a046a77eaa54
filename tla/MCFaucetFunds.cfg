SPECIFICATION FairSpec
CONSTANTS
    w1 = w1
    w2 = w2
    s1 = s1
    NoWallet = NoWallet
    Wallet <- TwoWallets
    BigWallet <- BigOnes
    Spender <- OneSpender
    WalletSize = 4
    MaxInputs = 2
    Width = 6
    FaucetSplitNumber = 2
INVARIANTS TypeOK HandedOutIsPosted LostOnlyByOverlap
PROPERTIES ImplementsPool FundsReachQueue FreshWalletNonEmpty
