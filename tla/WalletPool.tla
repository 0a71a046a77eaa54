----------------------------- MODULE WalletPool -----------------------------
(***************************************************************************)
(* The pool of Fresh faucet outputs of the evil wallet                     *)
(* (pkg/evilwallet: Wallet, Wallets, the faucet requests that fill it and  *)
(* the transaction creation that empties it).                              *)
(*                                                                         *)
(* A faucet request creates one wallet, allocates addresses in it, stores  *)
(* the split outputs under them and queues the wallet.  A spender is a     *)
(* goroutine of the spammer inside CreateTransaction: it takes the first   *)
(* wallet of the queue under the lock of Wallets, and then, once per input *)
(* it needs, compares the two atomic counters WITHOUT a lock, claims the   *)
(* next index under the wallet's lock and reads the output of that index.  *)
(*                                                                         *)
(* A wallet is identified with the request that created it: walletID comes *)
(* from an atomic counter and is never reused.  The goroutines of          *)
(* splitOutputs are seen through the addresses they still have to fill.    *)
(***************************************************************************)
EXTENDS Integers, Sequences, FiniteSets

CONSTANTS Wallet,      \* the faucet requests, each with the wallet it fills
          BigWallet,   \* those of RequestFreshBigFaucetWallet
          Spender,     \* goroutines that run CreateTransaction
          NoWallet,    \* the nil wallet
          WalletSize,  \* bound on the addresses allocated in one wallet
          MaxInputs,   \* bound on the fresh inputs of one transaction
          Width        \* the counters are unsigned: they wrap at Width (2^32)

\* WalletSize is far from the width of the counters: a big wallet has
\* faucetSplitNumber^2 outputs, and about a hundred goroutines spend at once.
ASSUME PoolAssumption ==
    /\ IsFiniteSet(Spender)
    /\ Spender # {}
    /\ BigWallet \subseteq Wallet
    /\ NoWallet \notin Wallet
    /\ WalletSize \in Nat \ {0}
    /\ MaxInputs \in Nat \ {0}
    /\ Width \in Nat
    /\ WalletSize + Cardinality(Spender) < Width

Index == 0 .. Width - 1

VARIABLES
    stage,             \* progress of the request that fills the wallet
    wallets,           \* keys of Wallets.wallets
    faucetWallets,     \* queue of the wallets ready to be spent
    nextAddrIdxToUse,
    nextAddrToSpent,
    addresses,         \* addresses allocated and still without an output
    unspentOutputs,    \* indices whose output is stored in the wallet
    pc,                \* where in CreateTransaction the spender is
    input,             \* buildOptions.inputWallet of the spender
    index,             \* the index it claimed
    needed,            \* inputs its transaction still lacks
    result,            \* how its last transaction ended
    handed             \* history: how often each output was handed out

fillVars == <<stage, addresses, unspentOutputs, nextAddrIdxToUse>>
poolVars == <<wallets, faucetWallets>>
spendVars == <<pc, input, index, needed, result, handed>>
vars == <<fillVars, poolVars, nextAddrToSpent, spendVars>>

PoolInit ==
    /\ stage = [w \in Wallet |-> "none"]
    /\ wallets = {}
    /\ faucetWallets = <<>>
    /\ nextAddrIdxToUse = [w \in Wallet |-> 0]
    /\ nextAddrToSpent = [w \in Wallet |-> 0]
    /\ addresses = [w \in Wallet |-> {}]
    /\ unspentOutputs = [w \in Wallet |-> {}]
    /\ pc = [s \in Spender |-> "idle"]
    /\ input = [s \in Spender |-> NoWallet]
    /\ index = [s \in Spender |-> 0]
    /\ needed = [s \in Spender |-> 0]
    /\ result = [s \in Spender |-> "none"]
    /\ handed = [w \in Wallet |-> [i \in Index |-> 0]]

-----------------------------------------------------------------------------
(* Wallet *)

\* The subtraction of two uint32 is never negative: it wraps.
UnspentOutputsLeft(w) == (nextAddrIdxToUse[w] - nextAddrToSpent[w]) % Width

MutIsEmpty(w) == UnspentOutputsLeft(w) <= 1
IsEmpty(w) == UnspentOutputsLeft(w) <= 0

\* What GetUnspentOutput looks at before it claims an index.
MutHasUnspentOutput(w) == nextAddrToSpent[w] <= nextAddrIdxToUse[w]
HasUnspentOutput(w) == nextAddrToSpent[w] < nextAddrIdxToUse[w]

\* An unsigned counter of the wallet moves on.
Inc(counter, w) == [counter EXCEPT ![w] = (@ + 1) % Width]

-----------------------------------------------------------------------------
(* The faucet requests *)

\* NewWallet(Fresh): the wallet is registered, and not queued yet.
NewWallet(w) ==
    /\ stage[w] = "none"
    /\ stage' = [stage EXCEPT ![w] = "fill"]
    /\ wallets' = wallets \union {w}
    /\ UNCHANGED <<addresses, unspentOutputs, nextAddrIdxToUse, faucetWallets,
                   nextAddrToSpent, spendVars>>

\* createSplitOutputs takes one more address for an output to be.
Address(w) ==
    /\ stage[w] = "fill"
    /\ nextAddrIdxToUse[w] < WalletSize
    /\ nextAddrIdxToUse' = Inc(nextAddrIdxToUse, w)
    /\ addresses' = [addresses EXCEPT ![w] = @ \union {nextAddrIdxToUse[w]}]
    /\ UNCHANGED <<stage, unspentOutputs, poolVars, nextAddrToSpent, spendVars>>

\* addOutputsToOutputManager stores the output of an allocated address.
AddUnspentOutput(w) ==
    /\ \E i \in addresses[w] :
        /\ unspentOutputs' = [unspentOutputs EXCEPT ![w] = @ \union {i}]
        /\ addresses' = [addresses EXCEPT ![w] = @ \ {i}]
    /\ UNCHANGED <<stage, nextAddrIdxToUse, poolVars, nextAddrToSpent, spendVars>>

\* One goroutine of splitOutputs fails before its outputs are stored: the
\* error is logged only, and its addresses stay without an output.
SplitFails(w) ==
    /\ w \in BigWallet
    /\ \E hole \in (SUBSET addresses[w]) \ {{}} :
            addresses' = [addresses EXCEPT ![w] = @ \ hole]
    /\ UNCHANGED <<stage, unspentOutputs, nextAddrIdxToUse, poolVars,
                   nextAddrToSpent, spendVars>>

\* The request returns an error: the wallet stays registered, never queued.
\* A big request can fail only before the goroutines of splitOutputs start.
RequestFails(w) ==
    /\ stage[w] = "fill"
    /\ w \in BigWallet => nextAddrIdxToUse[w] = 0
    /\ stage' = [stage EXCEPT ![w] = "failed"]
    /\ addresses' = [addresses EXCEPT ![w] = {}]
    /\ UNCHANGED <<unspentOutputs, nextAddrIdxToUse, poolVars, nextAddrToSpent,
                   spendVars>>

\* wg.Wait of splitOutputs: no goroutine has an output left to store.
MutSplitsDone(w) == TRUE
SplitsDone(w) == addresses[w] = {}

MutEnqueue(w) == <<w>> \o faucetWallets
Enqueue(w) == Append(faucetWallets, w)

\* Every goroutine has ended and the request calls SetWalletReady.
SetWalletReady(w) ==
    /\ stage[w] = "fill"
    /\ SplitsDone(w)
    /\ nextAddrIdxToUse[w] > 0
    /\ stage' = [stage EXCEPT ![w] = "ready"]
    /\ faucetWallets' = IF IsEmpty(w) THEN faucetWallets ELSE Enqueue(w)
    /\ UNCHANGED <<addresses, unspentOutputs, nextAddrIdxToUse, wallets,
                   nextAddrToSpent, spendVars>>

Fill(w) == \/ NewWallet(w) \/ Address(w) \/ AddUnspentOutput(w)
           \/ SplitFails(w) \/ RequestFails(w) \/ SetWalletReady(w)

-----------------------------------------------------------------------------
(* The spenders *)

isFaucetWalletAvailable(queue) == queue # <<>>

\* The queue once the empty head, and only the head, has been dropped.
MutTrimmedQueue == faucetWallets
TrimmedQueue == IF isFaucetWalletAvailable(faucetWallets) /\ IsEmpty(Head(faucetWallets))
                THEN Tail(faucetWallets)
                ELSE faucetWallets

\* CreateTransaction starts with n inputs to find: updateInputWallet takes the
\* wallet freshWallet returns, or the transaction ends without one.
freshWallet(s) ==
    /\ pc[s] = "idle"
    /\ faucetWallets' = TrimmedQueue
    /\ wallets' = IF TrimmedQueue = faucetWallets THEN wallets
                                                  ELSE wallets \ {Head(faucetWallets)}
    /\ IF isFaucetWalletAvailable(TrimmedQueue)
       THEN /\ pc' = [pc EXCEPT ![s] = "check"]
            /\ input' = [input EXCEPT ![s] = Head(TrimmedQueue)]
            /\ \E n \in 1 .. MaxInputs : needed' = [needed EXCEPT ![s] = n]
            /\ result' = [result EXCEPT ![s] = "none"]
       ELSE /\ result' = [result EXCEPT ![s] = "NoFreshOutputsAvailable"]
            /\ UNCHANGED <<pc, input, needed>>
    /\ UNCHANGED <<fillVars, nextAddrToSpent, index, handed>>

\* The spender leaves CreateTransaction.
MutReturn(s, outcome) ==
    /\ pc' = [pc EXCEPT ![s] = "idle"]
    /\ result' = [result EXCEPT ![s] = outcome]
    /\ UNCHANGED <<input, needed, index>>
Return(s, outcome) ==
    /\ pc' = [pc EXCEPT ![s] = "idle"]
    /\ input' = [input EXCEPT ![s] = NoWallet]
    /\ needed' = [needed EXCEPT ![s] = 0]
    /\ index' = [index EXCEPT ![s] = 0]
    /\ result' = [result EXCEPT ![s] = outcome]

\* GetUnspentOutput compares the counters: nothing keeps them as they are.
CheckCounters(s) ==
    /\ pc[s] = "check"
    /\ IF HasUnspentOutput(input[s])
       THEN /\ pc' = [pc EXCEPT ![s] = "claim"]
            /\ UNCHANGED <<input, index, needed, result>>
       ELSE Return(s, "NoFreshOutputsAvailable")
    /\ UNCHANGED <<fillVars, poolVars, nextAddrToSpent, handed>>

MutAdvance(w) == UNCHANGED nextAddrToSpent
Advance(w) == nextAddrToSpent' = Inc(nextAddrToSpent, w)

getAndIncNextAddrToSpent(s) ==
    /\ pc[s] = "claim"
    /\ index' = [index EXCEPT ![s] = nextAddrToSpent[input[s]]]
    /\ Advance(input[s])
    /\ pc' = [pc EXCEPT ![s] = "read"]
    /\ UNCHANGED <<fillVars, poolVars, input, needed, result, handed>>

\* The output read at the claimed index is not nil.
MutOutputFound(s) == TRUE
OutputFound(s) == index[s] \in unspentOutputs[input[s]]

\* The output of the claimed index is read, nil if there is none, and
\* matchInputsWithAliases adds it to the inputs or gives the transaction up.
ReadOutput(s) ==
    /\ pc[s] = "read"
    /\ IF OutputFound(s)
       THEN /\ handed' = [handed EXCEPT ![input[s]][index[s]] = @ + 1]
            /\ IF needed[s] > 1
               THEN /\ pc' = [pc EXCEPT ![s] = "check"]
                    /\ needed' = [needed EXCEPT ![s] = @ - 1]
                    /\ UNCHANGED <<input, index, result>>
               ELSE Return(s, "created")
       ELSE /\ Return(s, "NoFreshOutputsAvailable")
            /\ UNCHANGED handed
    /\ UNCHANGED <<fillVars, poolVars, nextAddrToSpent>>

Spend(s) == \/ freshWallet(s) \/ CheckCounters(s)
            \/ getAndIncNextAddrToSpent(s) \/ ReadOutput(s)

PoolNext == \/ \E w \in Wallet : Fill(w)
            \/ \E s \in Spender : Spend(s)

Spec == PoolInit /\ [][PoolNext]_vars

-----------------------------------------------------------------------------
(* Properties *)

Queued == {faucetWallets[k] : k \in 1 .. Len(faucetWallets)}

\* Spenders of wallet w that passed the counter check, or that hold an index.
Claiming(w) == {s \in Spender : input[s] = w /\ pc[s] = "claim"}
Holding(w, i) == {s \in Spender : input[s] = w /\ pc[s] = "read" /\ index[s] = i}

\* Type invariant of the pool.
TypeOK ==
    /\ stage \in [Wallet -> {"none", "fill", "failed", "ready"}]
    /\ wallets \in SUBSET Wallet
    /\ faucetWallets \in Seq(Wallet)
    /\ nextAddrIdxToUse \in [Wallet -> 0 .. WalletSize]
    /\ nextAddrToSpent \in [Wallet -> Index]
    /\ addresses \in [Wallet -> SUBSET Index]
    /\ unspentOutputs \in [Wallet -> SUBSET Index]
    /\ pc \in [Spender -> {"idle", "check", "claim", "read"}]
    /\ input \in [Spender -> Wallet \union {NoWallet}]
    /\ \A s \in Spender : input[s] = NoWallet <=> pc[s] = "idle"
    /\ index \in [Spender -> Index]
    /\ needed \in [Spender -> 0 .. MaxInputs]
    /\ \A s \in Spender : needed[s] = 0 <=> pc[s] = "idle"
    /\ result \in [Spender -> {"none", "created", "NoFreshOutputsAvailable"}]
    /\ handed \in [Wallet -> [Index -> Nat]]

\* The unlocked check of GetUnspentOutput lets nextAddrToSpent run past
\* nextAddrIdxToUse, but by fewer steps than there are spenders: every claim
\* beyond the end belongs to a spender that checked before the end was
\* reached.  Hence the counter never wraps back onto an index already spent.
OvershootBounded ==
    \A w \in Wallet :
        nextAddrToSpent[w] + Cardinality(Claiming(w))
            <= nextAddrIdxToUse[w] + Cardinality(Spender) - 1

\* No output is given to two transactions, nor twice to one, whatever the
\* interleaving of the goroutines inside GetUnspentOutput.
HandedOnce == \A w \in Wallet, i \in Index : handed[w][i] <= 1

\* freshWallet dereferences wallets[faucetWallets[0]] and, having dropped an
\* empty head, returns the next wallet without looking at it: the queue holds
\* registered wallets, once each, and all but the first are untouched.
QueueSound ==
    /\ Queued \subseteq wallets
    /\ \A j, k \in 1 .. Len(faucetWallets) :
            faucetWallets[j] = faucetWallets[k] => j = k
    /\ \A k \in 2 .. Len(faucetWallets) :
            /\ nextAddrToSpent[faucetWallets[k]] = 0
            /\ nextAddrIdxToUse[faucetWallets[k]] > 0

\* No output of a wallet that left the queue is lost: each was handed out or
\* is in the hands of a spender between its claim and its read.
DepartedDrained ==
    \A w \in Wallet : stage[w] = "ready" /\ w \notin Queued =>
        \A i \in unspentOutputs[w] : handed[w][i] = 1 \/ Holding(w, i) # {}

\* IndexTempIDMap and UnspentOutput are read under two separate locks: sound
\* because nothing is stored in a wallet once a spender can hold it.
ReadyIsFrozen ==
    [][\A w \in Wallet : w \in Queued \/ (\E s \in Spender : input[s] = w) =>
            UNCHANGED <<unspentOutputs[w], nextAddrIdxToUse[w], addresses[w]>>]_vars

\* The pool implements the supply: outputs are handed out after they were
\* deposited, and once.
Supply == INSTANCE FreshSupply WITH
            Output <- Wallet \X Index,
            deposited <- {o \in Wallet \X Index : o[2] \in unspentOutputs[o[1]]},
            handed <- [o \in Wallet \X Index |-> handed[o[1]][o[2]]]

ImplementsSupply == Supply!SupplySpec

\* The comment of freshWallet: it "returns the first non-empty wallet from the
\* faucetWallets queue".
FreshWalletNonEmpty ==
    [][\A s \in Spender : pc[s] = "idle" /\ pc'[s] = "check" =>
            nextAddrToSpent[input'[s]] < nextAddrIdxToUse[input'[s]]]_vars

=============================================================================
