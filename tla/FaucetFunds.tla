----------------------------- MODULE FaucetFunds -----------------------------
(***************************************************************************)
(* The faucet requests in detail (pkg/evilwallet: faucetfunds.go, the      *)
(* posting of evilwallet.go, AwaitTransactionsAcceptance).                 *)
(*                                                                         *)
(* WalletPool sees of a request only what it does to the wallet it fills.  *)
(* Here the request runs: it asks the faucet for one output, splits it,    *)
(* and, if it is a big request, splits every output of the first split in  *)
(* a goroutine of its own.  A split takes addresses, stores the outputs in *)
(* the wallet, gives them their OutputIDs and only then posts their        *)
(* transaction; the goroutines append its id to a slice they share without *)
(* a lock.  The spenders are those of WalletPool, and the requests are     *)
(* shown to implement it.                                                  *)
(***************************************************************************)
EXTENDS Integers, Sequences, FiniteSets

CONSTANTS Wallet, BigWallet, Spender, NoWallet, WalletSize, MaxInputs, Width,
          FaucetSplitNumber  \* outputs of a split, at most

\* What WalletPool assumes of the constants that it shares.
ASSUME PoolAssumption ==
    /\ IsFiniteSet(Spender) /\ Spender # {}
    /\ BigWallet \subseteq Wallet
    /\ NoWallet \notin Wallet
    /\ WalletSize \in Nat \ {0} /\ MaxInputs \in Nat \ {0} /\ Width \in Nat
    /\ WalletSize + Cardinality(Spender) < Width

ASSUME SplitAssumption ==
    /\ FaucetSplitNumber \in Nat \ {0}
    /\ FaucetSplitNumber * FaucetSplitNumber <= WalletSize

\* A split of a request: each goroutine of splitOutputs is one, and a request
\* that is not big has the first only.
Split == 1 .. FaucetSplitNumber
SplitsOf(w) == IF w \in BigWallet THEN Split ELSE {1}

Index == 0 .. Width - 1

VARIABLES
    \* as in WalletPool
    wallets, faucetWallets, nextAddrIdxToUse, nextAddrToSpent, unspentOutputs,
    pc, input, index, needed, result, handed,
    \* the requests
    request,       \* what the request is at
    split,         \* what each of its splits is at
    splitOutputs,  \* the addresses each split took, by their index
    outputIDs,     \* indices whose stored output has an OutputID
    txIDs,         \* splits whose transaction id is in the shared slice
    seen           \* the slice as a goroutine read it for its append

poolVars == <<wallets, faucetWallets, nextAddrIdxToUse, unspentOutputs>>
spendVars == <<nextAddrToSpent, pc, input, index, needed, result, handed>>
idVars == <<txIDs, seen>>
splitVars == <<split, splitOutputs, outputIDs, idVars>>
requestVars == <<request, splitVars>>
vars == <<poolVars, spendVars, requestVars>>

\* A split that is not over: a goroutine that wg.Wait waits for.
Running == {"addresses", "outputs", "append", "appending"}

-----------------------------------------------------------------------------
(* The pool this implements *)

\* The wallet that a big request will queue is made after the first split.
PoolStage(w) ==
    CASE request[w] \in {"fill", "await"} -> "fill"
      [] request[w] = "done" -> "ready"
      [] w \notin BigWallet /\ request[w] = "faucet" -> "fill"
      [] w \notin BigWallet /\ request[w] = "failed" -> "failed"
      [] OTHER -> "none"

PoolAddresses(w) ==
    IF request[w] = "failed" THEN {}
    ELSE (UNION {splitOutputs[w][k] : k \in {j \in Split : split[w][j] # "failed"}})
            \ unspentOutputs[w]

Pool == INSTANCE WalletPool WITH
            stage <- [w \in Wallet |-> PoolStage(w)],
            addresses <- [w \in Wallet |-> PoolAddresses(w)]

Init ==
    /\ wallets = {}
    /\ faucetWallets = <<>>
    /\ nextAddrIdxToUse = [w \in Wallet |-> 0]
    /\ nextAddrToSpent = [w \in Wallet |-> 0]
    /\ unspentOutputs = [w \in Wallet |-> {}]
    /\ pc = [s \in Spender |-> "idle"]
    /\ input = [s \in Spender |-> NoWallet]
    /\ index = [s \in Spender |-> 0]
    /\ needed = [s \in Spender |-> 0]
    /\ result = [s \in Spender |-> "none"]
    /\ handed = [w \in Wallet |-> [i \in Index |-> 0]]
    /\ request = [w \in Wallet |-> "none"]
    /\ split = [w \in Wallet |-> [k \in Split |-> "off"]]
    /\ splitOutputs = [w \in Wallet |-> [k \in Split |-> {}]]
    /\ outputIDs = [w \in Wallet |-> {}]
    /\ txIDs = [w \in Wallet |-> {}]
    /\ seen = [w \in Wallet |-> [k \in Split |-> {}]]

-----------------------------------------------------------------------------
(* The first steps of a request *)

Ask(w) == request' = [request EXCEPT ![w] = "faucet"]

\* receiveWallet is registered before the faucet is asked; a big request does
\* not queue it, and fills another one from it.
RequestFreshFaucetWallet(w) ==
    /\ w \notin BigWallet
    /\ request[w] = "none"
    /\ Ask(w)
    /\ wallets' = wallets \union {w}
    /\ UNCHANGED <<faucetWallets, nextAddrIdxToUse, unspentOutputs, spendVars, splitVars>>

RequestFreshBigFaucetWallet(w) ==
    /\ w \in BigWallet
    /\ request[w] = "none"
    /\ Ask(w)
    /\ UNCHANGED <<poolVars, spendVars, splitVars>>

\* The faucet refuses, or its output is not accepted in time.
requestFaucetFundsFails(w) ==
    /\ request[w] = "faucet"
    /\ request' = [request EXCEPT ![w] = "failed"]
    /\ UNCHANGED <<poolVars, spendVars, splitVars>>

\* Splits 1 to n of the request begin.
MutBegin(w, n) ==
    split' = [split EXCEPT ![w] = [k \in Split |-> IF k <= n + 1 THEN "addresses" ELSE "off"]]
Begin(w, n) ==
    split' = [split EXCEPT ![w] = [k \in Split |-> IF k <= n THEN "addresses" ELSE "off"]]

\* The output from the faucet is there, and is split into the wallet.
requestFaucetFunds(w) ==
    /\ w \notin BigWallet
    /\ request[w] = "faucet"
    /\ request' = [request EXCEPT ![w] = "fill"]
    /\ Begin(w, 1)
    /\ UNCHANGED <<poolVars, spendVars, splitOutputs, outputIDs, idVars>>

\* It is split into a wallet that nobody else sees, so in one step, and a
\* goroutine starts on each of these outputs; their transaction is not awaited.
requestAndSplitFaucetFunds(w) ==
    /\ w \in BigWallet
    /\ request[w] = "faucet"
    /\ request' = [request EXCEPT ![w] = "fill"]
    /\ wallets' = wallets \union {w}
    /\ \E n \in Split : Begin(w, n)
    /\ UNCHANGED <<faucetWallets, nextAddrIdxToUse, unspentOutputs, spendVars,
                   splitOutputs, outputIDs, idVars>>

-----------------------------------------------------------------------------
(* One split *)

Goto(w, k, step) == split' = [split EXCEPT ![w][k] = step]

\* The addresses are taken one at a time, between those of other goroutines.
createSplitOutputs(w, k) ==
    /\ split[w][k] = "addresses"
    /\ Cardinality(splitOutputs[w][k]) < FaucetSplitNumber
    /\ splitOutputs' = [splitOutputs EXCEPT ![w][k] = @ \union {nextAddrIdxToUse[w]}]
    /\ nextAddrIdxToUse' = [nextAddrIdxToUse EXCEPT ![w] = (@ + 1) % Width]
    /\ UNCHANGED <<wallets, faucetWallets, unspentOutputs, spendVars, request, split,
                   outputIDs, idVars>>

\* A split fails: a goroutine only logs it, another request ends with it.
\* Whatever it has stored in the wallet stays there.
Fails(w, k) ==
    /\ Goto(w, k, "failed")
    /\ request' = IF w \in BigWallet THEN request
                                     ELSE [request EXCEPT ![w] = "failed"]
    /\ UNCHANGED <<poolVars, spendVars, splitOutputs, idVars>>

\* There are fewer outputs than FaucetSplitNumber when the amount does not
\* cover the deposits of more.
CreateTransaction(w, k) ==
    /\ split[w][k] = "addresses"
    /\ splitOutputs[w][k] # {}
    /\ Goto(w, k, "outputs")
    /\ UNCHANGED <<poolVars, spendVars, request, splitOutputs, outputIDs, idVars>>

\* The transaction cannot be created: its addresses stay without an output.
CreateTransactionFails(w, k) ==
    /\ split[w][k] = "addresses"
    /\ splitOutputs[w][k] # {}
    /\ Fails(w, k)
    /\ UNCHANGED outputIDs

\* The first output of the split, in the order of its transaction, that a set
\* of indices lacks.
NextOf(w, k, done, i) ==
    /\ i \in splitOutputs[w][k] \ done
    /\ \A j \in splitOutputs[w][k] \ done : i <= j

AddOutput(w, k) ==
    /\ split[w][k] = "outputs"
    /\ \E i \in Index :
        /\ NextOf(w, k, unspentOutputs[w], i)
        /\ unspentOutputs' = [unspentOutputs EXCEPT ![w] = @ \union {i}]
    /\ UNCHANGED <<wallets, faucetWallets, nextAddrIdxToUse, spendVars, requestVars>>

Stored(w, k) == split[w][k] = "outputs" /\ splitOutputs[w][k] \subseteq unspentOutputs[w]

\* RequestBlockIssuanceData or the signing of the transaction fails.
RequestBlockIssuanceDataFails(w, k) ==
    /\ Stored(w, k)
    /\ Fails(w, k)
    /\ UNCHANGED outputIDs

\* The stored outputs of the transaction get their OutputIDs, one after the
\* other; only the split itself looks at them before the wallet is queued.
MutSetTxOutputIDs(w, k) ==
    outputIDs[w] \union {i \in splitOutputs[w][k] : \E j \in splitOutputs[w][k] : i < j}
setTxOutputIDs(w, k) == outputIDs[w] \union splitOutputs[w][k]

\* Then the block is posted.  A goroutine goes on to append the id of its
\* transaction, another request to await it.
PrepareAndPostBlock(w, k) ==
    /\ Stored(w, k)
    /\ outputIDs' = [outputIDs EXCEPT ![w] = setTxOutputIDs(w, k)]
    /\ IF w \in BigWallet
       THEN Goto(w, k, "append") /\ UNCHANGED <<request, txIDs>>
       ELSE /\ Goto(w, k, "end")
            /\ request' = [request EXCEPT ![w] = "await"]
            /\ txIDs' = [txIDs EXCEPT ![w] = {k}]
    /\ UNCHANGED <<poolVars, spendVars, splitOutputs, seen>>

\* The block is not built, or posting it ends with an error.
PostWithBlockFails(w, k) ==
    /\ Stored(w, k)
    /\ outputIDs' = [outputIDs EXCEPT ![w] = setTxOutputIDs(w, k)]
    /\ Fails(w, k)

\* append reads the slice, and some time later the result is assigned to it.
ReadTxIDs(w, k) ==
    /\ split[w][k] = "append"
    /\ seen' = [seen EXCEPT ![w][k] = txIDs[w]]
    /\ Goto(w, k, "appending")
    /\ UNCHANGED <<poolVars, spendVars, request, splitOutputs, outputIDs, txIDs>>

\* What the slice may hold then.  If another goroutine has assigned to it in
\* between, both may have written the same element, and pointer and length may
\* come from different assignments: an id may be missing, and none is new.
MutAppended(w, k) == {seen[w][k]}
Appended(w, k) ==
    IF seen[w][k] = txIDs[w] THEN {txIDs[w] \union {k}}
    ELSE SUBSET (seen[w][k] \union txIDs[w] \union {k})

AppendTxID(w, k) ==
    /\ split[w][k] = "appending"
    /\ \E ids \in Appended(w, k) : txIDs' = [txIDs EXCEPT ![w] = ids]
    /\ Goto(w, k, "end")
    /\ UNCHANGED <<poolVars, spendVars, request, splitOutputs, outputIDs, seen>>

-----------------------------------------------------------------------------
(* The end of a request *)

\* wg.Wait of splitOutputs.
MutSplitsDone(w) == \E k \in Split : split[w][k] = "end"
SplitsDone(w) == \A k \in Split : split[w][k] \notin Running

WaitForSplits(w) ==
    /\ w \in BigWallet
    /\ request[w] = "fill"
    /\ SplitsDone(w)
    /\ request' = [request EXCEPT ![w] = "await"]
    /\ UNCHANGED <<poolVars, spendVars, splitVars>>

MutReady(w) == faucetWallets
Ready(w) == Append(faucetWallets, w)

\* The wait ends when every id is accepted, rejected or timed out; whatever it
\* found is only logged, and txIDs goes out of scope.
AwaitTransactionsAcceptance(w) ==
    /\ txIDs' = [txIDs EXCEPT ![w] = {}]
    /\ seen' = [seen EXCEPT ![w] = [k \in Split |-> {}]]

\* Then the wallet is queued, unless it looks empty.
SetWalletReady(w) ==
    /\ request[w] = "await"
    /\ AwaitTransactionsAcceptance(w)
    /\ request' = [request EXCEPT ![w] = "done"]
    /\ faucetWallets' = IF nextAddrIdxToUse[w] = nextAddrToSpent[w] THEN faucetWallets
                                                                    ELSE Ready(w)
    /\ UNCHANGED <<wallets, nextAddrIdxToUse, unspentOutputs, spendVars,
                   split, splitOutputs, outputIDs>>

SplitStep(w, k) ==
    \/ createSplitOutputs(w, k) \/ CreateTransaction(w, k)
    \/ CreateTransactionFails(w, k) \/ AddOutput(w, k) \/ RequestBlockIssuanceDataFails(w, k)
    \/ PrepareAndPostBlock(w, k) \/ PostWithBlockFails(w, k)
    \/ ReadTxIDs(w, k) \/ AppendTxID(w, k)

RequestStep(w) ==
    \/ requestFaucetFunds(w) \/ requestFaucetFundsFails(w)
    \/ requestAndSplitFaucetFunds(w) \/ WaitForSplits(w) \/ SetWalletReady(w)

Start(w) == RequestFreshFaucetWallet(w) \/ RequestFreshBigFaucetWallet(w)

Spend(s) == UNCHANGED <<requestVars, unspentOutputs>> /\ Pool!Spend(s)

Next == \/ \E w \in Wallet : Start(w) \/ RequestStep(w)
        \/ \E w \in Wallet, k \in Split : SplitStep(w, k)
        \/ \E s \in Spender : Spend(s)

Spec == Init /\ [][Next]_vars

\* Every wait of a request has a time limit and every call to a node an
\* answer, so goroutines that can step do.  Nothing makes a request start, nor
\* a spender ask: a spam ends at its first NoFreshOutputsAvailable.
FairSpec ==
    /\ Spec
    /\ \A w \in Wallet : WF_vars(RequestStep(w))
    /\ \A w \in Wallet, k \in Split : WF_vars(SplitStep(w, k))

-----------------------------------------------------------------------------
(* Properties *)

\* Type invariant of the requests; that of the pool is WalletPool's.
TypeOK ==
    /\ request \in [Wallet -> {"none", "faucet", "fill", "await", "done", "failed"}]
    /\ split \in [Wallet -> [Split -> {"off", "end", "failed"} \union Running]]
    /\ \A w \in Wallet, k \in Split : split[w][k] # "off" => k \in SplitsOf(w)
    /\ splitOutputs \in [Wallet -> [Split -> SUBSET Index]]
    /\ outputIDs \in [Wallet -> SUBSET Index]
    /\ txIDs \in [Wallet -> SUBSET Split]
    /\ seen \in [Wallet -> [Split -> SUBSET Split]]

\* The requests, with their goroutines, failures and lost answers, do to the
\* pool only what WalletPool says, and so all it guarantees holds with them.
ImplementsPool == Pool!Spec

\* An output that a spender is given has an OutputID and the node has got its
\* transaction, unless the split that made it had failed and was only logged:
\* the wallet is queued after its last goroutine is over, not after the last
\* output is stored.
HandedOutIsPosted ==
    \A w \in Wallet, i \in Index : handed[w][i] > 0 =>
        \E k \in Split :
            /\ i \in splitOutputs[w][k]
            /\ \/ split[w][k] = "failed"
               \/ split[w][k] = "end" /\ i \in outputIDs[w]

\* Two goroutines appended one after the other if one of them read what the
\* other wrote.
Serial(w, j, k) == j \in seen[w][k] \/ k \in seen[w][j]

\* The unlocked append loses the id of a transaction, whose acceptance is then
\* not awaited, only if the appends of two goroutines overlapped.
LostOnlyByOverlap ==
    \A w \in Wallet : request[w] # "done" =>
        LET ended == {k \in Split : split[w][k] = "end"}
        IN  /\ txIDs[w] \subseteq ended
            /\ (\A j, k \in ended : j # k => Serial(w, j, k)) => txIDs[w] = ended

\* Funds that reached a request reach the queue of the spenders: once the
\* outputs of a big request are being split, or another request has posted its
\* split, the wallet is queued, whichever goroutines fail, whatever ids their
\* appends lose and whatever the await finds.  (Whether the spam then uses them
\* up is open: it may end with outputs left.)
Provided(w) == request[w] = "await" \/ (request[w] = "fill" /\ w \in BigWallet)

FundsReachQueue ==
    \A w \in Wallet : Provided(w) ~> \E k \in 1 .. Len(faucetWallets) : faucetWallets[k] = w

\* With one spender freshWallet never yields a drained wallet, whatever the
\* requests left in the wallets.
FreshWalletNonEmpty == Pool!FreshWalletNonEmpty

=============================================================================
