---------------------------- MODULE MCWalletPool ----------------------------
(* Small instances of the pool, and the mutated operators. *)
EXTENDS WalletPool, TLC

CONSTANTS w1, w2, s1, s2

TwoWallets == {w1, w2}
BigOnes == {w1}
TwoSpenders == {s1, s2}

SpenderSymmetry == Permutations(TwoSpenders)
=============================================================================
