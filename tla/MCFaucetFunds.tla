---------------------------- MODULE MCFaucetFunds ----------------------------
(* A small instance of the faucet requests. *)
EXTENDS FaucetFunds

CONSTANTS w1, w2, s1

TwoWallets == {w1, w2}
BigOnes == {w1}
OneSpender == {s1}
=============================================================================
