---------------------------- MODULE FreshSupply ----------------------------
(***************************************************************************)
(* What the evil wallet's pool of Fresh faucet outputs promises to the     *)
(* spamming functions: outputs are deposited by the faucet requests and    *)
(* each deposited output is handed out to at most one transaction.         *)
(***************************************************************************)
EXTENDS Integers

CONSTANT Output       \* every output the faucet requests may ever deposit

VARIABLES deposited,  \* outputs stored in the pool so far
          handed      \* how many times each output was handed out

supplyVars == <<deposited, handed>>

SupplyInit ==
    /\ deposited = {}
    /\ handed = [o \in Output |-> 0]

\* A faucet request stores one more output.
Deposit ==
    \E o \in Output \ deposited :
        /\ deposited' = deposited \union {o}
        /\ UNCHANGED handed

\* A transaction takes an output nobody took before.
HandOut ==
    \E o \in deposited :
        /\ handed[o] = 0
        /\ handed' = [handed EXCEPT ![o] = 1]
        /\ UNCHANGED deposited

SupplyNext == Deposit \/ HandOut

SupplySpec == SupplyInit /\ [][SupplyNext]_supplyVars

============================================================================
