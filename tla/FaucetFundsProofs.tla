--------------------------- MODULE FaucetFundsProofs ---------------------------
(***************************************************************************)
(* Proofs about the faucet requests in detail, for any number of requests, *)
(* spenders and splits: they implement the pool, what they hand out was    *)
(* posted, and an id is only lost when two appends overlap.                *)
(***************************************************************************)
EXTENDS FaucetFunds, FiniteSetTheorems, FunctionTheorems, TLAPS

-----------------------------------------------------------------------------
(* The inductive invariant: what holds of each wallet and its request, and  *)
(* of the wallets that are spent from                                       *)

\* The types of the part that is WalletPool's.
PoolTyped ==
    /\ faucetWallets \in Seq(Wallet)
    /\ nextAddrIdxToUse \in [Wallet -> 0 .. WalletSize]
    /\ nextAddrToSpent \in [Wallet -> Index]
    /\ unspentOutputs \in [Wallet -> SUBSET Index]
    /\ pc \in [Spender -> {"idle", "check", "claim", "read"}]
    /\ input \in [Spender -> Wallet \union {NoWallet}]
    /\ \A s \in Spender : input[s] = NoWallet <=> pc[s] = "idle"
    /\ index \in [Spender -> Index]
    /\ handed \in [Wallet -> [Index -> Nat]]

\* Which splits there are follows from where the request is: none before the
\* faucet has paid, the first at least afterwards, and none still runs when the
\* request awaits its transactions.
RequestSound(w) ==
    /\ request[w] \in {"none", "faucet"} \/ (request[w] = "failed" /\ w \in BigWallet) =>
            \A k \in Split : split[w][k] = "off"
    /\ request[w] # "fill" => \A k \in Split : split[w][k] \notin Running
    /\ request[w] \in {"fill", "await", "done"} => split[w][1] # "off"

\* What a split has done follows from where it is.
SplitSound(w) ==
    \A k \in Split :
        /\ split[w][k] = "off" => splitOutputs[w][k] = {}
        /\ split[w][k] \notin {"off", "addresses"} => splitOutputs[w][k] # {}
        /\ split[w][k] \in {"append", "appending", "end"} =>
                splitOutputs[w][k] \subseteq unspentOutputs[w] \intersect outputIDs[w]
        /\ Cardinality(splitOutputs[w][k]) <= FaucetSplitNumber

\* The splits of a request share out the addresses of its wallet.
AddressesShared(w) ==
    /\ \A i \in Index : i < nextAddrIdxToUse[w] <=> \E k \in Split : i \in splitOutputs[w][k]
    /\ \A j, k \in Split : j # k => splitOutputs[w][j] \intersect splitOutputs[w][k] = {}
    /\ \A i \in unspentOutputs[w] : i < nextAddrIdxToUse[w]

\* A goroutine reads only ids of splits that have ended, and the slice has no
\* others.
Ended(w) == {k \in Split : split[w][k] = "end"}
SliceSound(w) == request[w] # "done" =>
    /\ txIDs[w] \subseteq Ended(w)
    /\ \A k \in Split : seen[w][k] \subseteq Ended(w)

\* What LostOnlyByOverlap says of one wallet.
SerialKeeps(w) == request[w] # "done" =>
    ((\A j, k \in Ended(w) : j # k => Serial(w, j, k)) => txIDs[w] = Ended(w))

RequestInv(w) == /\ RequestSound(w) /\ SplitSound(w) /\ AddressesShared(w)
                 /\ SliceSound(w) /\ SerialKeeps(w)

\* Wallets are spent from once their request is over.
SpentWhenDone ==
    /\ \A k \in 1 .. Len(faucetWallets) : request[faucetWallets[k]] = "done"
    /\ \A s \in Spender : input[s] # NoWallet => request[input[s]] = "done"
    /\ \A w \in Wallet, i \in Index : handed[w][i] > 0 =>
            request[w] = "done" /\ i \in unspentOutputs[w]

FundsInv == TypeOK /\ PoolTyped /\ SpentWhenDone /\ \A w \in Wallet : RequestInv(w)

-----------------------------------------------------------------------------
(* Numbers *)

\* There is a first split, and all addresses of a wallet lie far below the
\* width of the counters.
LEMMA ConstantFacts ==
    /\ 1 \in Split
    /\ Width \in Nat /\ WalletSize \in Nat /\ WalletSize + 1 < Width
    /\ FaucetSplitNumber \in Nat
    /\ FaucetSplitNumber * FaucetSplitNumber \in Nat
    /\ FaucetSplitNumber * FaucetSplitNumber <= WalletSize
<1>1. Cardinality(Spender) \in Nat /\ Cardinality(Spender) > 0
  BY PoolAssumption, FS_CardinalityType, FS_EmptySet
<1> QED BY <1>1, PoolAssumption, SplitAssumption DEF Split

\* Splits with at most FaucetSplitNumber addresses each have not more than a
\* wallet has room for: each address is told by its split and its place there.
LEMMA RoomForAll ==
    ASSUME NEW outputs \in [Split -> SUBSET Index], NEW n \in Nat,
           \A k \in Split : Cardinality(outputs[k]) <= FaucetSplitNumber,
           \A i \in 0 .. n - 1 : \E k \in Split : i \in outputs[k]
    PROVE  n <= WalletSize
<1> DEFINE Place == 1 .. FaucetSplitNumber
           Placing(k) == Injection(outputs[k], Place)
           Of(i) == CHOOSE k \in Split : i \in outputs[k]
           Name == [i \in 0 .. n - 1 |->
                        <<Of(i), (CHOOSE g \in Placing(Of(i)) : TRUE)[i]>>]
<1> USE ConstantFacts
<1>1. ASSUME NEW k \in Split PROVE Placing(k) # {}
  <2>1. IsFiniteSet(outputs[k])
    <3>1. Width - 1 \in Int /\ outputs[k] \in SUBSET (0 .. Width - 1)
      BY DEF Index
    <3>2. IsFiniteSet(0 .. Width - 1)
      BY <3>1, FS_Interval
    <3> QED BY <3>1, <3>2, FS_Subset
  <2> DEFINE c == Cardinality(outputs[k])
  <2>2. c \in Nat /\ ExistsBijection(1 .. c, outputs[k])
    BY <2>1, FS_CardinalityType
  <2>3. ExistsBijection(outputs[k], 1 .. c)
    BY <2>2, Fun_ExistsBijSymmetric
  <2>4. PICK g \in Bijection(outputs[k], 1 .. c) : TRUE
    BY <2>3 DEF ExistsBijection
  <2>5. g \in [outputs[k] -> 1 .. c] /\ IsInjective(g)
    BY <2>4 DEF Bijection, Injection
  <2>6. 1 .. c \subseteq Place
    BY <2>2
  <2>7. g \in Injection(outputs[k], Place)
    BY <2>5, <2>6 DEF Injection
  <2> QED BY <2>7
<1>2. ASSUME NEW i \in 0 .. n - 1 PROVE Of(i) \in Split /\ i \in outputs[Of(i)]
  BY <1>2
<1>3. ASSUME NEW i \in 0 .. n - 1
      PROVE  (CHOOSE g \in Placing(Of(i)) : TRUE) \in Placing(Of(i))
  BY <1>1, <1>2
<1>4. Name \in [0 .. n - 1 -> Split \X Place]
  BY <1>2, <1>3 DEF Injection
<1>5. ASSUME NEW i \in 0 .. n - 1, NEW j \in 0 .. n - 1, Name[i] = Name[j]
      PROVE  i = j
  <2> DEFINE Gi == (CHOOSE g \in Placing(Of(i)) : TRUE)
             Gj == (CHOOSE g \in Placing(Of(j)) : TRUE)
  <2>1. Name[i] = <<Of(i), Gi[i]>> /\ Name[j] = <<Of(j), Gj[j]>>
    OBVIOUS
  <2>2. Of(i) = Of(j) /\ Gi[i] = Gj[j]
    <3>1. <<Of(i), Gi[i]>> = <<Of(j), Gj[j]>>
      BY <1>5, <2>1, Zenon
    <3> HIDE DEF Of, Gi, Gj
    <3> QED BY <3>1
  <2>3. Gi = Gj
    <3> HIDE DEF Of, Placing
    <3> QED BY <2>2
  <2>4. /\ Gi \in Placing(Of(i)) /\ Gi[i] = Gi[j]
        /\ i \in outputs[Of(i)] /\ j \in outputs[Of(i)]
    <3> HIDE DEF Of, Gi, Gj, Placing
    <3> QED BY <1>2, <1>3, <2>2, <2>3 DEF Gi
  <2> HIDE DEF Of, Gi
  <2> QED BY <2>4 DEF Injection, IsInjective
<1>6. Name \in Injection(0 .. n - 1, Split \X Place)
  BY <1>4, <1>5, Fun_IsInj
<1>7. /\ IsFiniteSet(Split \X Place)
      /\ Cardinality(Split \X Place) = FaucetSplitNumber * FaucetSplitNumber
  <2>1. IsFiniteSet(Place) /\ Cardinality(Place) = FaucetSplitNumber
    BY FS_Interval
  <2>2. Split = Place
    BY DEF Split
  <2>3. Cardinality(Place \X Place) = Cardinality(Place) * Cardinality(Place)
        /\ IsFiniteSet(Place \X Place)
    BY <2>1, FS_Product
  <2> HIDE DEF Place
  <2> QED BY <2>1, <2>2, <2>3
<1>8. Cardinality(0 .. n - 1) <= FaucetSplitNumber * FaucetSplitNumber
  BY <1>6, <1>7, FS_Injection
<1>9. Cardinality(0 .. n - 1) = n
  BY FS_Interval
<1> QED BY <1>8, <1>9

-----------------------------------------------------------------------------
(* What the steps of one wallet's request leave alone *)

\* Nothing happens to the request of w.
SameAt(w) == UNCHANGED <<request[w], split[w], splitOutputs[w], outputIDs[w], txIDs[w],
                         seen[w], nextAddrIdxToUse[w], unspentOutputs[w]>>

\* Of the wallets only w changes, and no spender does anything.
OnlyAt(w) == (\A v \in Wallet \ {w} : SameAt(v)) /\ UNCHANGED spendVars

\* A request to which nothing happens keeps its part of the invariant.
LEMMA SameKept ==
    ASSUME NEW w \in Wallet, RequestInv(w), SameAt(w)
    PROVE  RequestInv(w)'
<1>1. RequestSound(w)'
  BY DEF RequestInv, RequestSound, SameAt
<1>2. SplitSound(w)'
  BY DEF RequestInv, SplitSound, SameAt
<1>3. AddressesShared(w)'
  BY DEF RequestInv, AddressesShared, SameAt
<1>4. SliceSound(w)' /\ SerialKeeps(w)'
  BY DEF RequestInv, SliceSound, SerialKeeps, Serial, Ended, SameAt
<1> QED BY <1>1, <1>2, <1>3, <1>4 DEF RequestInv

\* A request that fills its wallet and leaves the queue alone keeps what is
\* known of the wallets that are spent from: no request leaves "done".
LEMMA FillingKeeps ==
    ASSUME FundsInv, TypeOK', NEW w \in Wallet, OnlyAt(w), RequestInv(w)',
           request[w] # "done", UNCHANGED faucetWallets,
           nextAddrIdxToUse' \in [Wallet -> 0 .. WalletSize],
           unspentOutputs' \in [Wallet -> SUBSET Index]
    PROVE  FundsInv'
<1> USE DEF FundsInv
<1>1. PoolTyped'
  BY DEF PoolTyped, OnlyAt, spendVars
<1>2. ASSUME NEW v \in Wallet, request[v] = "done"
      PROVE  request'[v] = "done" /\ unspentOutputs'[v] = unspentOutputs[v]
  BY <1>2 DEF OnlyAt, SameAt
<1>3. SpentWhenDone'
  <2>1. \A k \in 1 .. Len(faucetWallets) : faucetWallets[k] \in Wallet
    BY DEF PoolTyped
  <2>2. \A k \in 1 .. Len(faucetWallets) : request'[faucetWallets[k]] = "done"
    BY <1>2, <2>1 DEF SpentWhenDone
  <2>3. \A s \in Spender : input[s] # NoWallet => request'[input[s]] = "done"
    BY <1>2 DEF SpentWhenDone, PoolTyped
  <2>4. \A v \in Wallet, i \in Index : handed[v][i] > 0 =>
            request'[v] = "done" /\ i \in unspentOutputs'[v]
    BY <1>2 DEF SpentWhenDone
  <2> QED BY <2>2, <2>3, <2>4 DEF SpentWhenDone, OnlyAt, spendVars
<1>4. ASSUME NEW v \in Wallet PROVE RequestInv(v)'
  BY SameKept DEF OnlyAt
<1> QED BY <1>1, <1>3, <1>4

\* Before the first request nothing is there.
LEMMA FundsInit == Init => FundsInv
<1> SUFFICES ASSUME Init PROVE FundsInv
  OBVIOUS
<1> USE ConstantFacts
<1>1. 0 \in Index /\ 0 \in 0 .. WalletSize
  BY DEF Index
<1>2. TypeOK
  BY DEF Init, TypeOK
<1>3. PoolTyped
  BY <1>1, PoolAssumption DEF Init, PoolTyped
<1>4. SpentWhenDone
  BY DEF Init, SpentWhenDone
<1>5. ASSUME NEW w \in Wallet PROVE RequestInv(w)
  <2>1. RequestSound(w)
    BY DEF Init, RequestSound, Running
  <2>2. SplitSound(w)
    BY FS_EmptySet DEF Init, SplitSound
  <2>3. AddressesShared(w)
    BY DEF Init, AddressesShared, Index
  <2>4. Ended(w) = {} /\ txIDs[w] = {} /\ \A k \in Split : seen[w][k] = {}
    BY DEF Init, Ended
  <2>5. SliceSound(w) /\ SerialKeeps(w)
    BY <2>4 DEF SliceSound, SerialKeeps
  <2> QED BY <2>1, <2>2, <2>3, <2>5 DEF RequestInv
<1> QED BY <1>2, <1>3, <1>4, <1>5 DEF FundsInv

-----------------------------------------------------------------------------
(* The first steps of a request *)

\* The request starts, or the faucet gives it nothing.
LEMMA AskingKeeps ==
    ASSUME FundsInv, NEW w \in Wallet, Start(w) \/ requestFaucetFundsFails(w)
    PROVE  FundsInv' /\ OnlyAt(w)
<1> USE DEF FundsInv
<1>1. /\ request[w] \in {"none", "faucet"} /\ request' = [request EXCEPT ![w] = request'[w]]
      /\ request'[w] \in {"faucet", "failed"}
      /\ UNCHANGED <<faucetWallets, nextAddrIdxToUse, unspentOutputs, spendVars, split,
                     splitOutputs, outputIDs, txIDs, seen>>
  BY DEF Start, RequestFreshFaucetWallet, RequestFreshBigFaucetWallet, Ask,
         requestFaucetFundsFails, poolVars, splitVars, idVars, TypeOK
<1>2. TypeOK'
  BY <1>1 DEF TypeOK
<1>3. OnlyAt(w)
  BY <1>1 DEF OnlyAt, SameAt, TypeOK
<1>4. RequestInv(w)'
  <2>1. \A k \in Split : split[w][k] = "off"
    BY <1>1 DEF RequestInv, RequestSound
  <2>2. RequestSound(w)'
    BY <1>1, <2>1 DEF RequestSound, Running
  <2>3. SplitSound(w)' /\ AddressesShared(w)'
    BY <1>1 DEF RequestInv, SplitSound, AddressesShared
  <2>4. SliceSound(w)' /\ SerialKeeps(w)'
    BY <1>1 DEF RequestInv, SliceSound, SerialKeeps, Ended, Serial
  <2> QED BY <2>2, <2>3, <2>4 DEF RequestInv
<1> QED BY <1>1, <1>2, <1>3, <1>4, FillingKeeps DEF PoolTyped

\* The faucet has paid, and the splits of the request begin.
LEMMA BeginningKeeps ==
    ASSUME FundsInv, NEW w \in Wallet, requestFaucetFunds(w) \/ requestAndSplitFaucetFunds(w)
    PROVE  FundsInv' /\ OnlyAt(w)
<1> USE DEF FundsInv
<1>1. PICK n \in Split : Begin(w, n) /\ (w \notin BigWallet => n = 1)
  BY ConstantFacts DEF requestFaucetFunds, requestAndSplitFaucetFunds
<1>2. /\ request[w] = "faucet" /\ request' = [request EXCEPT ![w] = "fill"]
      /\ UNCHANGED <<faucetWallets, nextAddrIdxToUse, unspentOutputs, spendVars,
                     splitOutputs, outputIDs, txIDs, seen>>
  BY DEF requestFaucetFunds, requestAndSplitFaucetFunds, poolVars, idVars
<1>3. \A k \in Split : split'[w][k] = IF k <= n THEN "addresses" ELSE "off"
  BY <1>1 DEF Begin, TypeOK
<1>4. TypeOK'
  <2>1. split' \in [Wallet -> [Split -> {"off", "end", "failed"} \union Running]]
    BY <1>1 DEF Begin, TypeOK, Running
  <2>2. \A v \in Wallet, k \in Split : split'[v][k] # "off" => k \in SplitsOf(v)
    <3>1. ASSUME NEW k \in Split, split'[w][k] # "off" PROVE k \in SplitsOf(w)
      BY <1>1, <1>3, <3>1 DEF SplitsOf, Split
    <3> QED BY <1>1, <3>1 DEF Begin, TypeOK
  <2> QED BY <1>2, <2>1, <2>2 DEF TypeOK
<1>5. OnlyAt(w)
  BY <1>1, <1>2 DEF OnlyAt, SameAt, Begin, TypeOK
<1>6. RequestInv(w)'
  <2>1. \A k \in Split : split[w][k] = "off"
    BY <1>2 DEF RequestInv, RequestSound
  <2>2. \A k \in Split : splitOutputs[w][k] = {}
    BY <2>1 DEF RequestInv, SplitSound
  <2>3. request'[w] = "fill" /\ split'[w][1] = "addresses"
    BY <1>2, <1>3, ConstantFacts DEF TypeOK, Split
  <2>4. RequestSound(w)'
    BY <2>3 DEF RequestSound
  <2>5. SplitSound(w)'
    BY <1>2, <1>3, <2>2 DEF RequestInv, SplitSound
  <2>6. AddressesShared(w)'
    BY <1>2 DEF RequestInv, AddressesShared
  <2>7. Ended(w) = {} /\ Ended(w)' = {}
    BY <1>3, <2>1 DEF Ended
  <2>8. SliceSound(w)' /\ SerialKeeps(w)'
    BY <1>2, <2>7 DEF RequestInv, SliceSound, SerialKeeps
  <2> QED BY <2>4, <2>5, <2>6, <2>8 DEF RequestInv
<1> QED BY <1>2, <1>4, <1>5, <1>6, FillingKeeps DEF PoolTyped

\* A big request goes on to await its transactions.
LEMMA WaitingKeeps ==
    ASSUME FundsInv, NEW w \in Wallet, WaitForSplits(w)
    PROVE  FundsInv' /\ OnlyAt(w)
<1> USE DEF FundsInv
<1>1. /\ request[w] = "fill" /\ request' = [request EXCEPT ![w] = "await"]
      /\ UNCHANGED <<faucetWallets, nextAddrIdxToUse, unspentOutputs, spendVars, split,
                     splitOutputs, outputIDs, txIDs, seen>>
  BY DEF WaitForSplits, poolVars, splitVars, idVars
<1>2. TypeOK'
  BY <1>1 DEF TypeOK
<1>3. OnlyAt(w)
  BY <1>1 DEF OnlyAt, SameAt, TypeOK
<1>4. RequestInv(w)'
  <2>1. request'[w] = "await"
    BY <1>1 DEF TypeOK
  <2>2. RequestSound(w)'
    BY <1>1, <2>1 DEF RequestInv, RequestSound, WaitForSplits, SplitsDone
  <2>3. SplitSound(w)' /\ AddressesShared(w)'
    BY <1>1 DEF RequestInv, SplitSound, AddressesShared
  <2>4. SliceSound(w)' /\ SerialKeeps(w)'
    BY <1>1 DEF RequestInv, SliceSound, SerialKeeps, Ended, Serial
  <2> QED BY <2>2, <2>3, <2>4 DEF RequestInv
<1> QED BY <1>1, <1>2, <1>3, <1>4, FillingKeeps DEF PoolTyped

-----------------------------------------------------------------------------
(* One split *)

\* A split runs while its request fills the wallet; a request that is not big
\* has no other.
LEMMA RunningSplit ==
    ASSUME FundsInv, NEW w \in Wallet, NEW k \in Split, split[w][k] \in Running
    PROVE  /\ request[w] = "fill" /\ split[w][k] # "off" /\ split[w][1] # "off"
           /\ w \notin BigWallet => k = 1 /\ \A j \in Split \ {k} : split[w][j] = "off"
<1>1. request[w] = "fill" /\ split[w][k] # "off" /\ split[w][1] # "off"
  BY DEF FundsInv, RequestInv, RequestSound, Running
<1>2. ASSUME w \notin BigWallet PROVE k = 1 /\ \A j \in Split \ {k} : split[w][j] = "off"
  BY <1>1, <1>2 DEF FundsInv, TypeOK, SplitsOf
<1> QED BY <1>1, <1>2

\* A split that is not over moves on, and its request stays where it is.
LEMMA GoingOn ==
    ASSUME FundsInv, NEW w \in Wallet, NEW k \in Split, split[w][k] \in Running,
           NEW step \in {"end", "failed"} \union Running, Goto(w, k, step)
    PROVE  /\ split' \in [Wallet -> [Split -> {"off", "end", "failed"} \union Running]]
           /\ \A v \in Wallet, j \in Split : split'[v][j] # "off" => j \in SplitsOf(v)
           /\ \A v \in Wallet \ {w} : split'[v] = split[v]
           /\ \A j \in Split : split'[w][j] = IF j = k THEN step ELSE split[w][j]
           /\ UNCHANGED request => RequestSound(w)'
<1> USE DEF FundsInv
<1>1. split' \in [Wallet -> [Split -> {"off", "end", "failed"} \union Running]]
  BY DEF Goto, TypeOK
<1>2. \A v \in Wallet \ {w} : split'[v] = split[v]
  BY DEF Goto, TypeOK
<1>3. \A j \in Split : split'[w][j] = IF j = k THEN step ELSE split[w][j]
  BY DEF Goto, TypeOK
<1>4. step # "off" /\ request[w] = "fill" /\ split[w][k] # "off" /\ split[w][1] # "off"
  BY RunningSplit DEF Running
<1>5. \A v \in Wallet, j \in Split : split'[v][j] # "off" => j \in SplitsOf(v)
  <2>1. ASSUME NEW v \in Wallet, NEW j \in Split, split'[v][j] # "off"
        PROVE  split[v][j] # "off"
    BY <1>2, <1>3, <1>4, <2>1
  <2> QED BY <2>1 DEF TypeOK
<1>6. UNCHANGED request => RequestSound(w)'
  BY <1>3, <1>4, ConstantFacts DEF RequestSound
<1> QED BY <1>1, <1>2, <1>3, <1>5, <1>6

\* A split that moves on without ending or failing keeps what the slice says.
LEMMA SliceKept ==
    ASSUME FundsInv, NEW w \in Wallet, Ended(w)' = Ended(w),
           UNCHANGED <<request, txIDs>>,
           \A j \in Ended(w) : seen'[w][j] = seen[w][j],
           \A j \in Split : seen'[w][j] = seen[w][j] \/ seen'[w][j] = txIDs[w]
    PROVE  SliceSound(w)' /\ SerialKeeps(w)'
<1> USE DEF FundsInv, RequestInv
<1>1. SliceSound(w)'
  BY DEF SliceSound
<1>2. SerialKeeps(w)'
  BY DEF SerialKeeps, Serial
<1> QED BY <1>1, <1>2

\* A split takes an address: the one nobody has taken yet.
LEMMA AddressingKeeps ==
    ASSUME FundsInv, NEW w \in Wallet, NEW k \in Split, createSplitOutputs(w, k)
    PROVE  /\ FundsInv' /\ OnlyAt(w)
           /\ nextAddrIdxToUse[w] < WalletSize
           /\ nextAddrIdxToUse'[w] = nextAddrIdxToUse[w] + 1
<1> USE DEF FundsInv
<1> DEFINE i == nextAddrIdxToUse[w]
<1>1. /\ split[w][k] = "addresses" /\ Cardinality(splitOutputs[w][k]) < FaucetSplitNumber
      /\ splitOutputs' = [splitOutputs EXCEPT ![w][k] = @ \union {i}]
      /\ nextAddrIdxToUse' = [nextAddrIdxToUse EXCEPT ![w] = (i + 1) % Width]
      /\ UNCHANGED <<faucetWallets, unspentOutputs, spendVars, request, split,
                     outputIDs, txIDs, seen>>
  BY DEF createSplitOutputs, idVars
<1>2. i \in Nat /\ i <= WalletSize /\ i \in Index /\ i + 1 < Width /\ (i + 1) % Width = i + 1
  <2>1. i \in Nat /\ i <= WalletSize /\ Width \in Nat /\ i + 1 < Width
    BY ConstantFacts DEF PoolTyped
  <2> QED BY <2>1 DEF Index
<1>3. \A j \in Split : splitOutputs'[w][j] =
            IF j = k THEN splitOutputs[w][k] \union {i} ELSE splitOutputs[w][j]
  BY <1>1 DEF TypeOK
<1>4. nextAddrIdxToUse'[w] = i + 1
  BY <1>1, <1>2 DEF PoolTyped
<1>5. TypeOK'
  <2>1. splitOutputs' \in [Wallet -> [Split -> SUBSET Index]]
    BY <1>1, <1>2 DEF TypeOK
  <2> QED BY <1>1, <2>1 DEF TypeOK
<1>6. OnlyAt(w)
  BY <1>1 DEF OnlyAt, SameAt, TypeOK, PoolTyped
<1>7. AddressesShared(w)'
  <2>1. \A a \in Index : a < i <=> \E j \in Split : a \in splitOutputs[w][j]
    BY DEF RequestInv, AddressesShared
  <2>2. \A a \in Index : (\E j \in Split : a \in splitOutputs'[w][j]) <=>
            a = i \/ \E j \in Split : a \in splitOutputs[w][j]
    <3> HIDE DEF i
    <3> QED BY <1>3
  <2>3. \A a \in Index : a < i + 1 <=> a < i \/ a = i
    <3>1. Index \subseteq Nat
      BY DEF Index
    <3> HIDE DEF i
    <3> QED BY <1>2, <3>1
  <2>4. \A a \in Index : a < nextAddrIdxToUse'[w] <=> \E j \in Split : a \in splitOutputs'[w][j]
    <3> HIDE DEF i
    <3> QED BY <1>4, <2>1, <2>2, <2>3
  <2>5. \A j \in Split : i \notin splitOutputs[w][j]
    BY <1>2, <2>1
  <2>6. \A j, l \in Split : j # l => splitOutputs'[w][j] \intersect splitOutputs'[w][l] = {}
    BY <1>3, <2>5 DEF RequestInv, AddressesShared
  <2>7. \A a \in unspentOutputs'[w] : a < nextAddrIdxToUse'[w]
    <3>1. unspentOutputs[w] \subseteq Nat
      BY DEF PoolTyped, Index
    <3> QED BY <1>1, <1>2, <1>4, <3>1 DEF RequestInv, AddressesShared
  <2> QED BY <2>4, <2>6, <2>7 DEF AddressesShared
<1>8. SplitSound(w)'
  <2>1. \A j \in Split : Cardinality(splitOutputs'[w][j]) <= FaucetSplitNumber
    <3>1. IsFiniteSet(splitOutputs[w][k])
      <4>1. Width - 1 \in Int /\ splitOutputs[w][k] \in SUBSET (0 .. Width - 1)
        BY ConstantFacts DEF Index, TypeOK
      <4>2. IsFiniteSet(0 .. Width - 1)
        BY <4>1, FS_Interval
      <4> QED BY <4>1, <4>2, FS_Subset
    <3>2. Cardinality(splitOutputs[w][k]) \in Nat
      BY <3>1, FS_CardinalityType
    <3>3. Cardinality(splitOutputs[w][k] \union {i}) \in
                {Cardinality(splitOutputs[w][k]), Cardinality(splitOutputs[w][k]) + 1}
      BY <3>1, FS_AddElement
    <3>4. Cardinality(splitOutputs[w][k] \union {i}) <= FaucetSplitNumber
      BY <1>1, <3>2, <3>3, ConstantFacts
    <3> QED BY <1>3, <3>4 DEF RequestInv, SplitSound
  <2>2. ASSUME NEW j \in Split
        PROVE  /\ split'[w][j] = "off" => splitOutputs'[w][j] = {}
               /\ split'[w][j] \notin {"off", "addresses"} => splitOutputs'[w][j] # {}
               /\ split'[w][j] \in {"append", "appending", "end"} =>
                    splitOutputs'[w][j] \subseteq unspentOutputs'[w] \intersect outputIDs'[w]
    <3>1. CASE j = k
      BY <1>1, <3>1
    <3>2. CASE j # k
      BY <1>1, <1>3, <3>2 DEF RequestInv, SplitSound
    <3> QED BY <3>1, <3>2
  <2> QED BY <2>1, <2>2 DEF SplitSound
<1>9. RequestInv(w)'
  <2>1. RequestSound(w)'
    BY <1>1 DEF RequestInv, RequestSound
  <2>2. SliceSound(w)' /\ SerialKeeps(w)'
    BY <1>1 DEF RequestInv, SliceSound, SerialKeeps, Ended, Serial
  <2> QED BY <1>7, <1>8, <2>1, <2>2 DEF RequestInv
<1>10. i + 1 <= WalletSize
  <2>1. splitOutputs'[w] \in [Split -> SUBSET Index]
    BY <1>5 DEF TypeOK
  <2>2. PICK outputs : outputs = splitOutputs'[w]
    OBVIOUS
  <2>3. PICK n : n = nextAddrIdxToUse'[w]
    OBVIOUS
  <2>4. \A j \in Split : Cardinality(outputs[j]) <= FaucetSplitNumber
    BY <1>8, <2>2 DEF SplitSound
  <2>5. \A a \in 0 .. n - 1 : \E j \in Split : a \in outputs[j]
    <3>1. \A a \in 0 .. n - 1 : a \in Index /\ a < n
      BY <1>2, <1>4, <2>3, ConstantFacts DEF Index
    <3> QED BY <1>7, <2>2, <2>3, <3>1 DEF AddressesShared
  <2>6. n \in Nat /\ outputs \in [Split -> SUBSET Index]
    BY <1>2, <1>4, <2>1, <2>2, <2>3
  <2>7. n <= WalletSize
    BY <2>4, <2>5, <2>6, RoomForAll
  <2> QED BY <1>4, <2>3, <2>7
<1>11. nextAddrIdxToUse' \in [Wallet -> 0 .. WalletSize]
  BY <1>1, <1>2, <1>10 DEF PoolTyped
<1>12. request[w] = "fill"
  BY <1>1, RunningSplit DEF Running
<1>13. UNCHANGED faucetWallets /\ unspentOutputs' \in [Wallet -> SUBSET Index]
  BY <1>1 DEF PoolTyped
<1>14. request[w] # "done"
  BY <1>12
<1>15. FundsInv'
  <2> HIDE DEF i
  <2> QED BY <1>5, <1>6, <1>9, <1>11, <1>13, <1>14, FillingKeeps
<1>16. nextAddrIdxToUse[w] < WalletSize
  BY <1>2, <1>10, ConstantFacts
<1> QED BY <1>4, <1>6, <1>15, <1>16

\* The transaction of a split is created, or a stored output of it is added.
LEMMA StoringKeeps ==
    ASSUME FundsInv, NEW w \in Wallet, NEW k \in Split, CreateTransaction(w, k) \/ AddOutput(w, k)
    PROVE  FundsInv' /\ OnlyAt(w)
<1> USE DEF FundsInv
<1>1. /\ split[w][k] \in {"addresses", "outputs"} /\ request[w] = "fill"
      /\ UNCHANGED <<faucetWallets, nextAddrIdxToUse, spendVars, request,
                     splitOutputs, outputIDs, txIDs, seen>>
  <2>1. split[w][k] \in {"addresses", "outputs"}
    BY DEF CreateTransaction, AddOutput
  <2> QED BY <2>1, RunningSplit DEF Running, CreateTransaction, AddOutput, poolVars, idVars,
             requestVars, splitVars
<1>2. \A j \in Split : splitOutputs[w][j] \subseteq Index
  BY DEF TypeOK
<1>3. CASE CreateTransaction(w, k)
  <2>1. UNCHANGED unspentOutputs /\ Goto(w, k, "outputs") /\ splitOutputs[w][k] # {}
    BY <1>3 DEF CreateTransaction, poolVars
  <2>2. /\ split' \in [Wallet -> [Split -> {"off", "end", "failed"} \union Running]]
        /\ \A v \in Wallet, j \in Split : split'[v][j] # "off" => j \in SplitsOf(v)
        /\ \A v \in Wallet \ {w} : split'[v] = split[v]
        /\ \A j \in Split : split'[w][j] = IF j = k THEN "outputs" ELSE split[w][j]
        /\ RequestSound(w)'
    BY <1>1, <2>1, GoingOn DEF Running
  <2>3. TypeOK'
    BY <1>1, <2>2 DEF TypeOK
  <2>4. OnlyAt(w)
    BY <1>1, <2>1, <2>2 DEF OnlyAt, SameAt
  <2>5. SplitSound(w)'
    <3>1. ASSUME NEW j \in Split
          PROVE  /\ split'[w][j] = "off" => splitOutputs[w][j] = {}
                 /\ split'[w][j] \notin {"off", "addresses"} => splitOutputs[w][j] # {}
                 /\ split'[w][j] \in {"append", "appending", "end"} =>
                      splitOutputs[w][j] \subseteq unspentOutputs[w] \intersect outputIDs[w]
                 /\ Cardinality(splitOutputs[w][j]) <= FaucetSplitNumber
      BY <2>1, <2>2 DEF RequestInv, SplitSound
    <3> QED BY <1>1, <2>1, <3>1 DEF SplitSound
  <2>6. AddressesShared(w)'
    BY <1>1, <2>1 DEF RequestInv, AddressesShared
  <2>7. Ended(w)' = Ended(w)
    BY <1>1, <2>2 DEF Ended
  <2>8. SliceSound(w)' /\ SerialKeeps(w)'
    BY <1>1, <2>7, SliceKept
  <2>9. RequestInv(w)'
    BY <2>2, <2>5, <2>6, <2>8 DEF RequestInv
  <2> QED BY <1>1, <2>1, <2>3, <2>4, <2>9, FillingKeeps DEF PoolTyped
<1>4. CASE AddOutput(w, k)
  <2>1. PICK i \in splitOutputs[w][k] :
            unspentOutputs' = [unspentOutputs EXCEPT ![w] = @ \union {i}]
    BY <1>4 DEF AddOutput, NextOf
  <2>2. UNCHANGED split
    BY <1>4 DEF AddOutput, requestVars, splitVars
  <2>3. unspentOutputs' \in [Wallet -> SUBSET Index]
    BY <1>2, <2>1 DEF PoolTyped
  <2>4. unspentOutputs'[w] = unspentOutputs[w] \union {i}
    BY <2>1 DEF PoolTyped
  <2>5. TypeOK'
    BY <1>1, <2>2 DEF TypeOK
  <2>6. OnlyAt(w)
    BY <1>1, <2>1, <2>2 DEF OnlyAt, SameAt, PoolTyped
  <2>7. RequestSound(w)'
    BY <1>1, <2>2 DEF RequestInv, RequestSound
  <2>8. SplitSound(w)'
    <3>1. ASSUME NEW j \in Split, split[w][j] \in {"append", "appending", "end"}
          PROVE  splitOutputs[w][j] \subseteq unspentOutputs'[w] \intersect outputIDs[w]
      BY <2>4, <3>1 DEF RequestInv, SplitSound
    <3> QED BY <1>1, <2>2, <3>1 DEF RequestInv, SplitSound
  <2>9. AddressesShared(w)'
    <3>1. i < nextAddrIdxToUse[w]
      BY <1>2 DEF RequestInv, AddressesShared
    <3> QED BY <1>1, <2>4, <3>1 DEF RequestInv, AddressesShared
  <2>10. SliceSound(w)' /\ SerialKeeps(w)'
    BY <1>1, <2>2 DEF RequestInv, SliceSound, SerialKeeps, Ended, Serial
  <2>11. RequestInv(w)'
    BY <2>7, <2>8, <2>9, <2>10 DEF RequestInv
  <2> QED BY <1>1, <2>3, <2>5, <2>6, <2>11, FillingKeeps DEF PoolTyped
<1> QED BY <1>3, <1>4

\* A split fails, wherever it is.
LEMMA FailingKeeps ==
    ASSUME FundsInv, NEW w \in Wallet, NEW k \in Split,
           \/ CreateTransactionFails(w, k)
           \/ RequestBlockIssuanceDataFails(w, k)
           \/ PostWithBlockFails(w, k)
    PROVE  FundsInv' /\ OnlyAt(w)
<1> USE DEF FundsInv
<1>1. /\ split[w][k] \in {"addresses", "outputs"} /\ request[w] = "fill"
      /\ split[w][k] \in Running /\ splitOutputs[w][k] # {} /\ Fails(w, k)
  <2>1. split[w][k] \in {"addresses", "outputs"} /\ splitOutputs[w][k] # {} /\ Fails(w, k)
    BY DEF CreateTransactionFails, RequestBlockIssuanceDataFails, PostWithBlockFails, Stored,
           RequestInv, SplitSound
  <2> QED BY <2>1, RunningSplit DEF Running
<1>2. outputIDs' \in [Wallet -> SUBSET Index] /\ outputIDs[w] \subseteq outputIDs'[w]
        /\ \A v \in Wallet \ {w} : outputIDs'[v] = outputIDs[v]
  <2>1. CASE UNCHANGED outputIDs
    BY <2>1 DEF TypeOK
  <2>2. CASE outputIDs' = [outputIDs EXCEPT ![w] = setTxOutputIDs(w, k)]
    BY <2>2 DEF setTxOutputIDs, TypeOK
  <2> QED BY <2>1, <2>2
          DEF CreateTransactionFails, RequestBlockIssuanceDataFails, PostWithBlockFails
<1>3. /\ Goto(w, k, "failed")
      /\ UNCHANGED <<faucetWallets, nextAddrIdxToUse, unspentOutputs, spendVars,
                     splitOutputs, txIDs, seen>>
      /\ request' = IF w \in BigWallet THEN request ELSE [request EXCEPT ![w] = "failed"]
  BY <1>1 DEF Fails, poolVars, idVars
<1>4. /\ split' \in [Wallet -> [Split -> {"off", "end", "failed"} \union Running]]
      /\ \A v \in Wallet, j \in Split : split'[v][j] # "off" => j \in SplitsOf(v)
      /\ \A v \in Wallet \ {w} : split'[v] = split[v]
      /\ \A j \in Split : split'[w][j] = IF j = k THEN "failed" ELSE split[w][j]
      /\ UNCHANGED request => RequestSound(w)'
  BY <1>1, <1>3, GoingOn
<1>5. TypeOK'
  <2>1. request' \in [Wallet -> {"none", "faucet", "fill", "await", "done", "failed"}]
    BY <1>3 DEF TypeOK
  <2> QED BY <1>2, <1>3, <1>4, <2>1 DEF TypeOK
<1>6. OnlyAt(w)
  BY <1>2, <1>3, <1>4 DEF OnlyAt, SameAt, TypeOK
<1>7. RequestSound(w)'
  <2>1. CASE w \notin BigWallet
    <3>1. \A j \in Split \ {k} : split[w][j] = "off"
      BY <1>1, <2>1, RunningSplit
    <3>2. request'[w] = "failed"
      BY <1>3, <2>1 DEF TypeOK
    <3> QED BY <1>4, <2>1, <3>1, <3>2 DEF RequestSound, Running
  <2> QED BY <1>3, <1>4, <2>1
<1>8. SplitSound(w)'
  <2>1. ASSUME NEW j \in Split
        PROVE  /\ split'[w][j] = "off" => splitOutputs[w][j] = {}
               /\ split'[w][j] \notin {"off", "addresses"} => splitOutputs[w][j] # {}
               /\ split'[w][j] \in {"append", "appending", "end"} =>
                    splitOutputs[w][j] \subseteq unspentOutputs[w] \intersect outputIDs'[w]
               /\ Cardinality(splitOutputs[w][j]) <= FaucetSplitNumber
    BY <1>1, <1>2, <1>4 DEF RequestInv, SplitSound
  <2> QED BY <1>3, <2>1 DEF SplitSound
<1>9. AddressesShared(w)'
  BY <1>3 DEF RequestInv, AddressesShared
<1>10. SliceSound(w)' /\ SerialKeeps(w)'
  <2>1. Ended(w)' = Ended(w)
    BY <1>1, <1>4 DEF Ended
  <2>2. request'[w] # "done" /\ request[w] # "done"
    BY <1>1, <1>3 DEF TypeOK
  <2> QED BY <1>3, <2>1, <2>2 DEF RequestInv, SliceSound, SerialKeeps, Serial
<1>11. RequestInv(w)'
  BY <1>7, <1>8, <1>9, <1>10 DEF RequestInv
<1> QED BY <1>1, <1>3, <1>5, <1>6, <1>11, FillingKeeps DEF PoolTyped

\* A split posts its transaction, after its outputs got their OutputIDs.
LEMMA PostingKeeps ==
    ASSUME FundsInv, NEW w \in Wallet, NEW k \in Split, PrepareAndPostBlock(w, k)
    PROVE  FundsInv' /\ OnlyAt(w)
<1> USE DEF FundsInv
<1>1. /\ split[w][k] = "outputs" /\ split[w][k] \in Running /\ request[w] = "fill"
      /\ splitOutputs[w][k] \subseteq unspentOutputs[w] /\ splitOutputs[w][k] # {}
      /\ outputIDs' = [outputIDs EXCEPT ![w] = @ \union splitOutputs[w][k]]
      /\ UNCHANGED <<faucetWallets, nextAddrIdxToUse, unspentOutputs, spendVars,
                     splitOutputs, seen>>
  <2>1. split[w][k] = "outputs" /\ split[w][k] \in Running
    BY DEF PrepareAndPostBlock, Stored, Running
  <2> QED BY <2>1, RunningSplit
          DEF PrepareAndPostBlock, Stored, setTxOutputIDs, poolVars, RequestInv, SplitSound
<1>2. PICK step \in {"append", "end"} : /\ Goto(w, k, step)
                                        /\ w \in BigWallet <=> step = "append"
  BY DEF PrepareAndPostBlock
<1>3. /\ w \in BigWallet => UNCHANGED <<request, txIDs>>
      /\ w \notin BigWallet => /\ request' = [request EXCEPT ![w] = "await"]
                               /\ txIDs' = [txIDs EXCEPT ![w] = {k}]
  BY DEF PrepareAndPostBlock
<1>4. /\ split' \in [Wallet -> [Split -> {"off", "end", "failed"} \union Running]]
      /\ \A v \in Wallet, j \in Split : split'[v][j] # "off" => j \in SplitsOf(v)
      /\ \A v \in Wallet \ {w} : split'[v] = split[v]
      /\ \A j \in Split : split'[w][j] = IF j = k THEN step ELSE split[w][j]
      /\ UNCHANGED request => RequestSound(w)'
  BY <1>1, <1>2, GoingOn DEF Running
<1>5. outputIDs'[w] = outputIDs[w] \union splitOutputs[w][k]
  BY <1>1 DEF TypeOK
<1>6. TypeOK'
  <2>1. request' \in [Wallet -> {"none", "faucet", "fill", "await", "done", "failed"}]
    BY <1>3 DEF TypeOK
  <2>2. txIDs' \in [Wallet -> SUBSET Split]
    <3>1. CASE w \notin BigWallet
      <4>1. {k} \in SUBSET Split /\ txIDs \in [Wallet -> SUBSET Split]
        BY DEF TypeOK
      <4>2. txIDs' = [txIDs EXCEPT ![w] = {k}]
        BY <1>3, <3>1
      <4> QED BY <4>1, <4>2
    <3> QED BY <1>3, <3>1 DEF TypeOK
  <2>3. outputIDs' \in [Wallet -> SUBSET Index]
    BY <1>1 DEF TypeOK
  <2> QED BY <1>1, <1>4, <2>1, <2>2, <2>3 DEF TypeOK
<1>7. OnlyAt(w)
  BY <1>1, <1>3, <1>4 DEF OnlyAt, SameAt, TypeOK
<1>8. SplitSound(w)'
  <2>1. ASSUME NEW j \in Split
        PROVE  /\ split'[w][j] = "off" => splitOutputs[w][j] = {}
               /\ split'[w][j] \notin {"off", "addresses"} => splitOutputs[w][j] # {}
               /\ split'[w][j] \in {"append", "appending", "end"} =>
                    splitOutputs[w][j] \subseteq unspentOutputs[w] \intersect outputIDs'[w]
               /\ Cardinality(splitOutputs[w][j]) <= FaucetSplitNumber
    BY <1>1, <1>2, <1>4, <1>5 DEF RequestInv, SplitSound
  <2> QED BY <1>1, <2>1 DEF SplitSound
<1>9. AddressesShared(w)'
  BY <1>1 DEF RequestInv, AddressesShared
<1>10. RequestSound(w)' /\ SliceSound(w)' /\ SerialKeeps(w)'
  <2>1. CASE w \in BigWallet
    <3>1. Ended(w)' = Ended(w)
      BY <1>1, <1>2, <1>4, <2>1 DEF Ended
    <3> QED BY <1>1, <1>3, <1>4, <2>1, <3>1, SliceKept
  <2>2. CASE w \notin BigWallet
    <3>1. k = 1 /\ \A j \in Split \ {k} : split[w][j] = "off"
      BY <1>1, <2>2, RunningSplit
    <3>2. request'[w] = "await" /\ txIDs'[w] = {k} /\ step = "end"
      BY <1>2, <1>3, <2>2 DEF TypeOK
    <3>3. RequestSound(w)'
      BY <1>4, <2>2, <3>1, <3>2 DEF RequestSound, Running
    <3>4. Ended(w)' = {k} /\ Ended(w) = {}
      <4>1. \A j \in Split : split'[w][j] = "end" <=> j = k
        BY <1>4, <3>1, <3>2
      <4>2. \A j \in Split : split[w][j] # "end"
        BY <1>1, <3>1
      <4> QED BY <4>1, <4>2 DEF Ended
    <3>5. \A j \in Split : seen'[w][j] = {}
      BY <1>1, <3>4 DEF RequestInv, SliceSound
    <3> QED BY <3>2, <3>3, <3>4, <3>5 DEF SliceSound, SerialKeeps
  <2> QED BY <2>1, <2>2
<1>11. RequestInv(w)'
  BY <1>8, <1>9, <1>10 DEF RequestInv
<1> QED BY <1>1, <1>6, <1>7, <1>11, FillingKeeps DEF PoolTyped

\* A goroutine reads the slice for its append: it finds only splits that ended.
LEMMA ReadingKeeps ==
    ASSUME FundsInv, NEW w \in Wallet, NEW k \in Split, ReadTxIDs(w, k)
    PROVE  FundsInv' /\ OnlyAt(w)
<1> USE DEF FundsInv
<1>1. /\ split[w][k] = "append" /\ split[w][k] \in Running /\ request[w] = "fill"
      /\ Goto(w, k, "appending") /\ seen' = [seen EXCEPT ![w][k] = txIDs[w]]
      /\ UNCHANGED <<faucetWallets, nextAddrIdxToUse, unspentOutputs, spendVars, request,
                     splitOutputs, outputIDs, txIDs>>
  <2>1. split[w][k] = "append" /\ split[w][k] \in Running
    BY DEF ReadTxIDs, Running
  <2> QED BY <2>1, RunningSplit DEF ReadTxIDs, poolVars
<1>2. /\ split' \in [Wallet -> [Split -> {"off", "end", "failed"} \union Running]]
      /\ \A v \in Wallet, j \in Split : split'[v][j] # "off" => j \in SplitsOf(v)
      /\ \A v \in Wallet \ {w} : split'[v] = split[v]
      /\ \A j \in Split : split'[w][j] = IF j = k THEN "appending" ELSE split[w][j]
      /\ RequestSound(w)'
  BY <1>1, GoingOn DEF Running
<1>3. seen' \in [Wallet -> [Split -> SUBSET Split]]
  BY <1>1 DEF TypeOK
<1>4. \A j \in Split : seen'[w][j] = IF j = k THEN txIDs[w] ELSE seen[w][j]
  BY <1>1 DEF TypeOK
<1>5. TypeOK'
  BY <1>1, <1>2, <1>3 DEF TypeOK
<1>6. OnlyAt(w)
  BY <1>1, <1>2 DEF OnlyAt, SameAt, TypeOK
<1>7. SplitSound(w)'
  BY <1>1, <1>2 DEF RequestInv, SplitSound
<1>8. AddressesShared(w)'
  BY <1>1 DEF RequestInv, AddressesShared
<1>9. SliceSound(w)' /\ SerialKeeps(w)'
  <2>1. Ended(w)' = Ended(w) /\ k \notin Ended(w)
    BY <1>1, <1>2 DEF Ended
  <2> QED BY <1>1, <1>4, <2>1, SliceKept DEF Ended
<1>10. RequestInv(w)'
  BY <1>2, <1>7, <1>8, <1>9 DEF RequestInv
<1> QED BY <1>1, <1>5, <1>6, <1>10, FillingKeeps DEF PoolTyped

\* The result of the append is assigned: if an id gets lost by it, somebody
\* else has assigned since the goroutine read, which neither of them saw.
LEMMA AppendingKeeps ==
    ASSUME FundsInv, NEW w \in Wallet, NEW k \in Split, AppendTxID(w, k)
    PROVE  FundsInv' /\ OnlyAt(w)
<1> USE DEF FundsInv
<1>1. /\ split[w][k] = "appending" /\ split[w][k] \in Running /\ request[w] = "fill"
      /\ Goto(w, k, "end")
      /\ UNCHANGED <<faucetWallets, nextAddrIdxToUse, unspentOutputs, spendVars, request,
                     splitOutputs, outputIDs, seen>>
  <2>1. split[w][k] = "appending" /\ split[w][k] \in Running
    BY DEF AppendTxID, Running
  <2> QED BY <2>1, RunningSplit DEF AppendTxID, poolVars
<1>2. PICK ids \in Appended(w, k) : txIDs' = [txIDs EXCEPT ![w] = ids]
  BY DEF AppendTxID
<1>3. /\ split' \in [Wallet -> [Split -> {"off", "end", "failed"} \union Running]]
      /\ \A v \in Wallet, j \in Split : split'[v][j] # "off" => j \in SplitsOf(v)
      /\ \A v \in Wallet \ {w} : split'[v] = split[v]
      /\ \A j \in Split : split'[w][j] = IF j = k THEN "end" ELSE split[w][j]
      /\ RequestSound(w)'
  BY <1>1, GoingOn DEF Running
<1>4. ids \subseteq Split /\ ids \subseteq seen[w][k] \union txIDs[w] \union {k}
  BY <1>2 DEF Appended, TypeOK
<1>5. TypeOK'
  <2>1. txIDs' \in [Wallet -> SUBSET Split]
    BY <1>2, <1>4 DEF TypeOK
  <2> QED BY <1>1, <1>3, <2>1 DEF TypeOK
<1>6. OnlyAt(w)
  BY <1>1, <1>2, <1>3 DEF OnlyAt, SameAt, TypeOK
<1>7. SplitSound(w)'
  BY <1>1, <1>3 DEF RequestInv, SplitSound
<1>8. AddressesShared(w)'
  BY <1>1 DEF RequestInv, AddressesShared
<1>9. /\ Ended(w)' = Ended(w) \union {k} /\ k \notin Ended(w) /\ txIDs'[w] = ids
      /\ request[w] # "done"
  BY <1>1, <1>2, <1>3 DEF Ended, TypeOK
<1>10. txIDs[w] \subseteq Ended(w) /\ \A j \in Split : seen[w][j] \subseteq Ended(w)
  BY <1>9 DEF RequestInv, SliceSound
<1>11. SliceSound(w)'
  BY <1>1, <1>4, <1>9, <1>10 DEF SliceSound
<1>12. SerialKeeps(w)'
  <2> SUFFICES ASSUME \A i, j \in Ended(w) \union {k} : i # j => Serial(w, i, j)
               PROVE  ids = Ended(w) \union {k}
    BY <1>1, <1>9 DEF SerialKeeps, Serial
  <2>1. txIDs[w] = Ended(w)
    BY <1>9 DEF RequestInv, SerialKeeps
  <2>2. ASSUME NEW j \in Ended(w) PROVE j \in seen[w][k]
    <3>1. k \notin seen[w][j] /\ j # k
      BY <1>9, <1>10 DEF Ended
    <3> QED BY <3>1 DEF Serial
  <2>3. seen[w][k] = txIDs[w]
    BY <1>10, <2>1, <2>2
  <2> QED BY <1>2, <2>1, <2>3 DEF Appended
<1>13. RequestInv(w)'
  BY <1>3, <1>7, <1>8, <1>11, <1>12 DEF RequestInv
<1> QED BY <1>1, <1>5, <1>6, <1>13, FillingKeeps DEF PoolTyped

-----------------------------------------------------------------------------
(* The end of a request, and the spenders *)

\* The request is over, and its wallet may be queued.
LEMMA QueueingKeeps ==
    ASSUME FundsInv, NEW w \in Wallet, SetWalletReady(w)
    PROVE  FundsInv' /\ OnlyAt(w)
<1> USE DEF FundsInv
<1>1. /\ request[w] = "await" /\ request' = [request EXCEPT ![w] = "done"]
      /\ txIDs' = [txIDs EXCEPT ![w] = {}]
      /\ seen' = [seen EXCEPT ![w] = [k \in Split |-> {}]]
      /\ faucetWallets' = faucetWallets \/ faucetWallets' = Append(faucetWallets, w)
      /\ UNCHANGED <<nextAddrIdxToUse, unspentOutputs, spendVars, split, splitOutputs, outputIDs>>
  BY DEF SetWalletReady, AwaitTransactionsAcceptance, Ready
<1>2. TypeOK'
  <2>1. txIDs' \in [Wallet -> SUBSET Split] /\ seen' \in [Wallet -> [Split -> SUBSET Split]]
    BY <1>1 DEF TypeOK
  <2>2. request' \in [Wallet -> {"none", "faucet", "fill", "await", "done", "failed"}]
    BY <1>1 DEF TypeOK
  <2> QED BY <1>1, <2>1, <2>2 DEF TypeOK
<1>3. faucetWallets' \in Seq(Wallet)
  <2>1. Append(faucetWallets, w) \in Seq(Wallet)
    BY DEF PoolTyped
  <2> QED BY <1>1, <2>1 DEF PoolTyped
<1>4. PoolTyped'
  BY <1>1, <1>3 DEF PoolTyped, spendVars
<1>5. \A v \in Wallet : request'[v] = IF v = w THEN "done" ELSE request[v]
  BY <1>1 DEF TypeOK
<1>6. SpentWhenDone'
  <2>1. \A k \in 1 .. Len(faucetWallets') : request'[faucetWallets'[k]] = "done"
    <3>1. faucetWallets \in Seq(Wallet)
      BY DEF PoolTyped
    <3>2. ASSUME NEW k \in 1 .. Len(faucetWallets')
          PROVE  \/ faucetWallets'[k] = w
                 \/ k \in 1 .. Len(faucetWallets) /\ faucetWallets'[k] = faucetWallets[k]
      BY SMTT(30), <1>1, <3>1, <3>2
    <3>3. \A k \in 1 .. Len(faucetWallets) : faucetWallets[k] \in Wallet
      BY <3>1
    <3>4. ASSUME NEW k \in 1 .. Len(faucetWallets')
          PROVE  request'[faucetWallets'[k]] = "done"
      BY <1>5, <3>2, <3>3, <3>4 DEF SpentWhenDone
    <3> QED BY <3>4
  <2>2. ASSUME NEW s \in Spender, input[s] # NoWallet PROVE request'[input[s]] = "done"
    <3>1. input[s] \in Wallet
      BY <2>2 DEF PoolTyped
    <3>2. request[input[s]] = "done"
      BY <2>2 DEF SpentWhenDone
    <3> QED BY <1>5, <3>1, <3>2
  <2>3. \A v \in Wallet, i \in Index : handed[v][i] > 0 =>
            request'[v] = "done" /\ i \in unspentOutputs[v]
    BY <1>5 DEF SpentWhenDone
  <2> QED BY <1>1, <2>1, <2>2, <2>3 DEF SpentWhenDone, spendVars
<1>7. ASSUME NEW v \in Wallet PROVE RequestInv(v)'
  <2>1. CASE v # w
    <3>1. SameAt(v)
      BY <1>1, <2>1 DEF SameAt, TypeOK
    <3> QED BY <3>1, SameKept
  <2>2. CASE v = w
    <3>1. RequestSound(v)'
      BY <1>1, <1>5, <2>2 DEF RequestInv, RequestSound
    <3>2. SplitSound(v)' /\ AddressesShared(v)'
      BY <1>1 DEF RequestInv, SplitSound, AddressesShared
    <3>3. SliceSound(v)' /\ SerialKeeps(v)'
      BY <1>5, <2>2 DEF SliceSound, SerialKeeps
    <3> QED BY <3>1, <3>2, <3>3 DEF RequestInv
  <2> QED BY <2>1, <2>2
<1>8. OnlyAt(w)
  BY <1>1 DEF OnlyAt, SameAt, TypeOK
<1> QED BY <1>2, <1>4, <1>6, <1>7, <1>8

\* A spender takes only outputs that are stored, from wallets in the queue.
LEMMA SpendingKeeps ==
    ASSUME FundsInv, NEW s \in Spender, Spend(s)
    PROVE  FundsInv'
<1> USE DEF FundsInv
<1>1. UNCHANGED <<request, split, splitOutputs, outputIDs, txIDs, seen, nextAddrIdxToUse,
                  unspentOutputs>>
  BY DEF Spend, requestVars, splitVars, idVars, Pool!Spend, Pool!freshWallet,
         Pool!CheckCounters, Pool!getAndIncNextAddrToSpent, Pool!ReadOutput, Pool!fillVars
<1>2. TypeOK'
  BY <1>1 DEF TypeOK
<1>3. ASSUME NEW w \in Wallet PROVE RequestInv(w)'
  BY <1>1, SameKept DEF SameAt
<1>4. 0 \in Index
  BY ConstantFacts DEF Index
<1>5. CASE Pool!freshWallet(s)
  <2>1. /\ pc[s] = "idle" /\ UNCHANGED <<nextAddrToSpent, index, handed>>
        /\ \/ faucetWallets' = faucetWallets
           \/ faucetWallets # <<>> /\ faucetWallets' = Tail(faucetWallets)
        /\ \/ UNCHANGED <<pc, input>>
           \/ /\ faucetWallets' # <<>>
              /\ pc' = [pc EXCEPT ![s] = "check"]
              /\ input' = [input EXCEPT ![s] = Head(faucetWallets')]
    <3>1. faucetWallets' = Pool!TrimmedQueue
      BY <1>5 DEF Pool!freshWallet
    <3>2. \/ Pool!TrimmedQueue = faucetWallets
          \/ faucetWallets # <<>> /\ Pool!TrimmedQueue = Tail(faucetWallets)
      BY DEF Pool!TrimmedQueue, Pool!isFaucetWalletAvailable
    <3>3. \/ UNCHANGED <<pc, input>>
          \/ /\ Pool!TrimmedQueue # <<>>
             /\ pc' = [pc EXCEPT ![s] = "check"]
             /\ input' = [input EXCEPT ![s] = Head(Pool!TrimmedQueue)]
      BY <1>5 DEF Pool!freshWallet, Pool!isFaucetWalletAvailable
    <3>4. pc[s] = "idle" /\ UNCHANGED <<nextAddrToSpent, index, handed>>
      BY <1>5 DEF Pool!freshWallet
    <3> QED BY <3>1, <3>2, <3>3, <3>4
  <2>2. PICK queue : queue = faucetWallets'
    OBVIOUS
  <2> DEFINE line == faucetWallets
  <2>3. /\ queue \in Seq(Wallet) /\ (queue # <<>> => Head(queue) \in Wallet)
        /\ \A k \in 1 .. Len(queue) : request[queue[k]] = "done"
    <3>1. line \in Seq(Wallet) /\ \A k \in 1 .. Len(line) : request[line[k]] = "done"
      BY DEF PoolTyped, SpentWhenDone
    <3>2. CASE queue = line
      BY <3>1, <3>2
    <3>3. CASE line # <<>> /\ queue = Tail(line)
      <4>1. /\ queue \in Seq(Wallet) /\ Len(queue) = Len(line) - 1
            /\ \A k \in 1 .. Len(queue) : queue[k] = line[k + 1]
        <5> HIDE DEF line
        <5> QED BY <3>1, <3>3
      <4>2. Len(line) \in Nat /\ \A k \in 1 .. Len(queue) : k + 1 \in 1 .. Len(line)
        <5> HIDE DEF line
        <5> QED BY <3>1, <4>1
      <4> QED BY <3>1, <4>1, <4>2
    <3> QED BY <2>1, <2>2, <3>2, <3>3
  <2>4. \A k \in 1 .. Len(queue) : request[queue[k]] = "done"
    BY <2>3
  <2>5. queue # <<>> => Head(queue) \in Wallet /\ request[Head(queue)] = "done"
    BY <2>3, <2>4
  <2>6. CASE UNCHANGED <<pc, input>>
    <3>1. PoolTyped'
      BY <1>1, <2>1, <2>2, <2>3, <2>6 DEF PoolTyped
    <3>2. SpentWhenDone'
      BY <1>1, <2>1, <2>2, <2>4, <2>6 DEF SpentWhenDone
    <3> QED BY <1>2, <1>3, <3>1, <3>2
  <2>7. CASE /\ queue # <<>>
             /\ pc' = [pc EXCEPT ![s] = "check"]
             /\ input' = [input EXCEPT ![s] = Head(queue)]
    <3>1. PICK w \in Wallet : w = Head(queue) /\ request[w] = "done"
      BY <2>5, <2>7
    <3>2. /\ pc' \in [Spender -> {"idle", "check", "claim", "read"}]
          /\ input' \in [Spender -> Wallet \union {NoWallet}]
      BY <2>7, <3>1 DEF PoolTyped
    <3>3. \A t \in Spender : pc'[t] = (IF t = s THEN "check" ELSE pc[t])
                          /\ input'[t] = (IF t = s THEN w ELSE input[t])
      BY <2>7, <3>1 DEF PoolTyped
    <3>4. \A t \in Spender : input'[t] = NoWallet <=> pc'[t] = "idle"
      BY <3>3, PoolAssumption DEF PoolTyped
    <3>5. PoolTyped'
      BY <1>1, <2>1, <2>2, <2>3, <3>2, <3>4 DEF PoolTyped
    <3>6. \A t \in Spender : input'[t] # NoWallet => request[input'[t]] = "done"
      BY <3>1, <3>3 DEF SpentWhenDone
    <3>7. SpentWhenDone'
      BY <1>1, <2>1, <2>2, <2>4, <3>6 DEF SpentWhenDone
    <3> QED BY <1>2, <1>3, <3>5, <3>7
  <2> QED BY <2>1, <2>2, <2>6, <2>7
<1>6. ASSUME Pool!Return(s, "created") \/ Pool!Return(s, "NoFreshOutputsAvailable")
      PROVE  /\ pc' \in [Spender -> {"idle", "check", "claim", "read"}]
             /\ input' \in [Spender -> Wallet \union {NoWallet}]
             /\ \A t \in Spender : input'[t] = NoWallet <=> pc'[t] = "idle"
             /\ index' \in [Spender -> Index]
             /\ \A t \in Spender : input'[t] # NoWallet => input'[t] = input[t]
  <2>1. /\ pc' = [pc EXCEPT ![s] = "idle"] /\ input' = [input EXCEPT ![s] = NoWallet]
        /\ index' = [index EXCEPT ![s] = 0]
    BY <1>6 DEF Pool!Return
  <2> QED BY <1>4, <2>1 DEF PoolTyped
<1>7. CASE Pool!CheckCounters(s)
  <2>1. UNCHANGED <<faucetWallets, nextAddrToSpent, handed>> /\ pc[s] = "check"
    BY <1>7 DEF Pool!CheckCounters, Pool!poolVars
  <2>2. /\ pc' \in [Spender -> {"idle", "check", "claim", "read"}]
        /\ input' \in [Spender -> Wallet \union {NoWallet}]
        /\ \A t \in Spender : input'[t] = NoWallet <=> pc'[t] = "idle"
        /\ index' \in [Spender -> Index]
        /\ \A t \in Spender : input'[t] # NoWallet => input'[t] = input[t]
    <3>1. CASE Pool!Return(s, "NoFreshOutputsAvailable")
      BY <1>6, <3>1
    <3>2. CASE pc' = [pc EXCEPT ![s] = "claim"] /\ UNCHANGED <<input, index>>
      BY <2>1, <3>2 DEF PoolTyped
    <3> QED BY <1>7, <3>1, <3>2 DEF Pool!CheckCounters
  <2>3. PoolTyped'
    BY <1>1, <2>1, <2>2 DEF PoolTyped
  <2>4. SpentWhenDone'
    BY <1>1, <2>1, <2>2 DEF SpentWhenDone
  <2> QED BY <1>2, <1>3, <2>3, <2>4
<1>8. CASE Pool!getAndIncNextAddrToSpent(s)
  <2>1. /\ pc[s] = "claim" /\ input[s] \in Wallet
        /\ index' = [index EXCEPT ![s] = nextAddrToSpent[input[s]]]
        /\ nextAddrToSpent' = [nextAddrToSpent EXCEPT ![input[s]] = (@ + 1) % Width]
        /\ pc' = [pc EXCEPT ![s] = "read"]
        /\ UNCHANGED <<faucetWallets, handed, input>>
    BY <1>8 DEF Pool!getAndIncNextAddrToSpent, Pool!poolVars, Pool!Advance, Pool!Inc, PoolTyped
  <2>2. (nextAddrToSpent[input[s]] + 1) % Width \in Index
    <3>1. nextAddrToSpent[input[s]] \in Nat
      BY <2>1 DEF PoolTyped, Index
    <3> QED BY <3>1, ConstantFacts DEF Index
  <2>3. nextAddrToSpent' \in [Wallet -> Index] /\ index' \in [Spender -> Index]
    BY <2>1, <2>2 DEF PoolTyped
  <2>4. PoolTyped'
    BY <1>1, <2>1, <2>3 DEF PoolTyped
  <2>5. SpentWhenDone'
    BY <1>1, <2>1 DEF SpentWhenDone
  <2> QED BY <1>2, <1>3, <2>4, <2>5
<1>9. CASE Pool!ReadOutput(s)
  <2>1. /\ pc[s] = "read" /\ input[s] \in Wallet /\ index[s] \in Index
        /\ input[s] # NoWallet
        /\ UNCHANGED <<faucetWallets, nextAddrToSpent>>
    BY <1>9, PoolAssumption DEF Pool!ReadOutput, Pool!poolVars, PoolTyped
  <2>2. /\ pc' \in [Spender -> {"idle", "check", "claim", "read"}]
        /\ input' \in [Spender -> Wallet \union {NoWallet}]
        /\ \A t \in Spender : input'[t] = NoWallet <=> pc'[t] = "idle"
        /\ index' \in [Spender -> Index]
        /\ \A t \in Spender : input'[t] # NoWallet => input'[t] = input[t]
    <3>1. CASE Pool!Return(s, "created") \/ Pool!Return(s, "NoFreshOutputsAvailable")
      BY <1>6, <3>1
    <3>2. CASE pc' = [pc EXCEPT ![s] = "check"] /\ UNCHANGED <<input, index>>
      BY <2>1, <3>2 DEF PoolTyped
    <3> QED BY <1>9, <3>1, <3>2 DEF Pool!ReadOutput
  <2>3. \/ UNCHANGED handed
        \/ /\ index[s] \in unspentOutputs[input[s]]
           /\ handed' = [handed EXCEPT ![input[s]][index[s]] = @ + 1]
    BY <1>9 DEF Pool!ReadOutput, Pool!OutputFound
  <2>4. handed' \in [Wallet -> [Index -> Nat]]
    <3>1. handed \in [Wallet -> [Index -> Nat]]
      BY DEF PoolTyped
    <3>2. PICK w \in Wallet : w = input[s]
      BY <2>1
    <3>3. PICK i \in Index : i = index[s]
      BY <2>1
    <3>4. handed[w][i] + 1 \in Nat
      BY <3>1
    <3>5. [handed[w] EXCEPT ![i] = @ + 1] \in [Index -> Nat]
      BY <3>1, <3>4
    <3> QED BY <2>3, <3>1, <3>2, <3>3, <3>5
  <2>5. ASSUME NEW w \in Wallet, NEW i \in Index, handed'[w][i] > 0
        PROVE  request[w] = "done" /\ i \in unspentOutputs[w]
    <3>1. CASE handed'[w][i] = handed[w][i]
      BY <2>5, <3>1 DEF SpentWhenDone
    <3>2. CASE w = input[s] /\ i = index[s] /\ i \in unspentOutputs[w]
      BY <2>1, <3>2 DEF SpentWhenDone
    <3> QED BY SMTT(30), <2>3, <3>1, <3>2 DEF PoolTyped
  <2>6. PoolTyped'
    BY <1>1, <2>1, <2>2, <2>4 DEF PoolTyped
  <2>7. SpentWhenDone'
    BY <1>1, <2>1, <2>2, <2>5 DEF SpentWhenDone
  <2> QED BY <1>2, <1>3, <2>6, <2>7
<1> QED BY <1>5, <1>7, <1>8, <1>9 DEF Spend, Pool!Spend

-----------------------------------------------------------------------------
(* The invariants *)

\* Every step keeps the invariant.
LEMMA FundsNext == FundsInv /\ [Next]_vars => FundsInv'
<1> SUFFICES ASSUME FundsInv, [Next]_vars PROVE FundsInv'
  OBVIOUS
<1>1. ASSUME NEW w \in Wallet, Start(w) \/ RequestStep(w) PROVE FundsInv'
  BY <1>1, AskingKeeps, BeginningKeeps, WaitingKeeps, QueueingKeeps DEF RequestStep
<1>2. ASSUME NEW w \in Wallet, NEW k \in Split, SplitStep(w, k) PROVE FundsInv'
  BY <1>2, AddressingKeeps, StoringKeeps, FailingKeeps, PostingKeeps, ReadingKeeps,
     AppendingKeeps DEF SplitStep
<1>3. ASSUME UNCHANGED vars PROVE FundsInv'
  <2>1. /\ TypeOK' /\ PoolTyped' /\ SpentWhenDone'
        /\ \A w \in Wallet : SameAt(w)
    BY <1>3 DEF FundsInv, vars, poolVars, spendVars, requestVars, splitVars, idVars,
                TypeOK, PoolTyped, SpentWhenDone, SameAt
  <2> QED BY <2>1, SameKept DEF FundsInv
<1> QED BY <1>1, <1>2, <1>3, SpendingKeeps DEF Next

\* The invariant holds of every behaviour.
LEMMA FundsInvariant == Spec => []FundsInv
BY FundsInit, FundsNext, PTL DEF Spec

\* The requests and the slice their goroutines share are well typed, and a
\* request that is not big has one split only.
THEOREM FundsTyped == Spec => []TypeOK
<1>1. FundsInv => TypeOK
  BY DEF FundsInv
<1> QED BY <1>1, FundsInvariant, PTL

\* The unlocked append loses an id only when the appends of two goroutines
\* overlapped: if of any two that are over one read what the other had
\* written, the slice holds all ids.
THEOREM OnlyOverlapLoses == Spec => []LostOnlyByOverlap
<1>1. FundsInv => LostOnlyByOverlap
  <2> SUFFICES ASSUME FundsInv, NEW w \in Wallet, request[w] # "done"
               PROVE  /\ txIDs[w] \subseteq Ended(w)
                      /\ (\A j, k \in Ended(w) : j # k => Serial(w, j, k)) => txIDs[w] = Ended(w)
    BY DEF LostOnlyByOverlap, Ended
  <2> QED BY DEF FundsInv, RequestInv, SliceSound, SerialKeeps
<1> QED BY <1>1, FundsInvariant, PTL

\* A spender is given only outputs whose transaction was posted and that have
\* their OutputID, but for those a failed split left in the wallet: the wallet
\* is queued after its last goroutine is over.
THEOREM HandedOutWasPosted == Spec => []HandedOutIsPosted
<1>1. FundsInv => HandedOutIsPosted
  <2> SUFFICES ASSUME FundsInv, NEW w \in Wallet, NEW i \in Index, handed[w][i] > 0
               PROVE  \E k \in Split : /\ i \in splitOutputs[w][k]
                                       /\ \/ split[w][k] = "failed"
                                          \/ split[w][k] = "end" /\ i \in outputIDs[w]
    BY DEF HandedOutIsPosted
  <2> USE DEF FundsInv, RequestInv
  <2>1. request[w] = "done" /\ i \in unspentOutputs[w]
    BY DEF SpentWhenDone
  <2>2. PICK k \in Split : i \in splitOutputs[w][k]
    BY <2>1 DEF AddressesShared
  <2>3. split[w][k] \in {"end", "failed"}
    <3>1. split[w][k] \in {"off", "end", "failed"} \union Running
      BY DEF TypeOK
    <3>2. split[w][k] # "off" /\ split[w][k] \notin Running
      BY <2>1, <2>2 DEF RequestSound, SplitSound
    <3> QED BY <3>1, <3>2
  <2> QED BY <2>2, <2>3 DEF SplitSound
<1> QED BY <1>1, FundsInvariant, PTL

-----------------------------------------------------------------------------
(* The requests implement the pool *)

\* The variables of the pool that are functions of the requests.
stages == [w \in Wallet |-> PoolStage(w)]
unfilled == [w \in Wallet |-> PoolAddresses(w)]

\* The addresses that still wait for an output, before and after a step.
LEMMA OpenAddresses ==
    ASSUME NEW w \in Wallet
    PROVE  /\ \A i : i \in PoolAddresses(w) <=>
                /\ request[w] # "failed" /\ i \notin unspentOutputs[w]
                /\ \E k \in Split : split[w][k] # "failed" /\ i \in splitOutputs[w][k]
           /\ \A i : i \in PoolAddresses(w)' <=>
                /\ request'[w] # "failed" /\ i \notin unspentOutputs'[w]
                /\ \E k \in Split : split'[w][k] # "failed" /\ i \in splitOutputs'[w][k]
<1>1. ASSUME NEW at, NEW outputs, NEW i
      PROVE  i \in UNION {outputs[k] : k \in {j \in Split : at[j] # "failed"}} <=>
                \E k \in Split : at[k] # "failed" /\ i \in outputs[k]
  OBVIOUS
<1> QED BY <1>1 DEF PoolAddresses

\* Of the pool, too, only the wallet of the request changes.
LEMMA PoolElsewhere ==
    ASSUME NEW w \in Wallet, OnlyAt(w)
    PROVE  /\ stages' = [stages EXCEPT ![w] = PoolStage(w)']
           /\ unfilled' = [unfilled EXCEPT ![w] = PoolAddresses(w)']
           /\ nextAddrToSpent' = nextAddrToSpent
           /\ UNCHANGED spendVars
<1>1. ASSUME NEW v \in Wallet, v # w
      PROVE  PoolStage(v)' = PoolStage(v) /\ PoolAddresses(v)' = PoolAddresses(v)
  <2>1. SameAt(v)
    BY <1>1 DEF OnlyAt
  <2>2. PoolStage(v)' = PoolStage(v)
    BY <2>1 DEF SameAt, PoolStage
  <2>3. \A i : i \in PoolAddresses(v)' <=> i \in PoolAddresses(v)
    BY <2>1, OpenAddresses DEF SameAt
  <2> QED BY <2>2, <2>3
<1>2. stages' = [stages EXCEPT ![w] = PoolStage(w)']
  BY <1>1 DEF stages
<1>3. unfilled' = [unfilled EXCEPT ![w] = PoolAddresses(w)']
  BY <1>1 DEF unfilled
<1> QED BY <1>2, <1>3 DEF OnlyAt, spendVars

\* What the pool does not see.
LEMMA PoolStutters ==
    ASSUME NEW w \in Wallet, OnlyAt(w), UNCHANGED poolVars,
           PoolStage(w)' = PoolStage(w), PoolAddresses(w)' = PoolAddresses(w)
    PROVE  UNCHANGED Pool!vars
<1>1. stages' = stages /\ unfilled' = unfilled /\ UNCHANGED <<nextAddrToSpent, spendVars>>
  BY PoolElsewhere DEF stages, unfilled
<1> QED BY <1>1 DEF Pool!vars, Pool!fillVars, Pool!poolVars, Pool!spendVars, poolVars, spendVars,
                    stages, unfilled

\* The pool starts empty.
LEMMA PoolStarts == Init => Pool!PoolInit
<1> SUFFICES ASSUME Init PROVE Pool!PoolInit
  OBVIOUS
<1>1. stages = [w \in Wallet |-> "none"]
  BY DEF Init, stages, PoolStage
<1>2. ASSUME NEW w \in Wallet PROVE PoolAddresses(w) = {}
  <2>1. \A i : i \notin PoolAddresses(w)
    BY OpenAddresses DEF Init
  <2> QED BY <2>1
<1>3. unfilled = [w \in Wallet |-> {}]
  BY <1>2 DEF unfilled
<1> QED BY <1>1, <1>3 DEF Init, Pool!PoolInit, Pool!Index, Index, stages, unfilled

\* A wallet that is registered is new to the pool.
LEMMA PoolNewWallet ==
    ASSUME FundsInv, NEW w \in Wallet,
           RequestFreshFaucetWallet(w) \/ requestAndSplitFaucetFunds(w), OnlyAt(w)
    PROVE  Pool!NewWallet(w)
<1> USE DEF FundsInv
<1>1. /\ wallets' = wallets \union {w}
      /\ UNCHANGED <<faucetWallets, nextAddrIdxToUse, unspentOutputs, splitOutputs>>
      /\ request[w] # "failed" /\ request'[w] # "failed"
      /\ \A k \in Split : split[w][k] = "off"
      /\ PoolStage(w) = "none" /\ PoolStage(w)' = "fill"
  <2>1. CASE RequestFreshFaucetWallet(w)
    BY <2>1 DEF RequestFreshFaucetWallet, Ask, splitVars, PoolStage, TypeOK, RequestInv,
                RequestSound
  <2>2. CASE requestAndSplitFaucetFunds(w)
    BY <2>2 DEF requestAndSplitFaucetFunds, PoolStage, TypeOK, RequestInv, RequestSound
  <2> QED BY <2>1, <2>2
<1>2. \A k \in Split : splitOutputs[w][k] = {}
  BY <1>1 DEF RequestInv, SplitSound
<1>3. \A i : i \notin PoolAddresses(w) /\ i \notin PoolAddresses(w)'
  BY <1>1, <1>2, OpenAddresses
<1>4. PoolAddresses(w)' = PoolAddresses(w)
  BY <1>3
<1>5. stages[w] = "none" /\ stages' = [stages EXCEPT ![w] = "fill"] /\ unfilled' = unfilled
      /\ UNCHANGED <<nextAddrToSpent, spendVars>>
  BY <1>1, <1>4, PoolElsewhere DEF stages, unfilled
<1> QED BY <1>1, <1>5 DEF Pool!NewWallet, Pool!spendVars, spendVars, stages, unfilled

\* A request that is not big fails.
LEMMA PoolRequestFails ==
    ASSUME FundsInv, NEW w \in Wallet, w \notin BigWallet, OnlyAt(w), UNCHANGED poolVars,
           request[w] \in {"faucet", "fill"}, request'[w] = "failed"
    PROVE  Pool!RequestFails(w)
<1>1. PoolStage(w) = "fill" /\ PoolStage(w)' = "failed"
  BY DEF PoolStage
<1>2. PoolAddresses(w)' = {}
  <2>1. \A i : i \notin PoolAddresses(w)'
    BY OpenAddresses
  <2> QED BY <2>1
<1>3. /\ stages[w] = "fill" /\ stages' = [stages EXCEPT ![w] = "failed"]
      /\ unfilled' = [unfilled EXCEPT ![w] = {}]
      /\ UNCHANGED <<nextAddrToSpent, spendVars>>
  BY <1>1, <1>2, PoolElsewhere DEF stages
<1> QED BY <1>3 DEF Pool!RequestFails, Pool!poolVars, Pool!spendVars, poolVars, spendVars,
                    stages, unfilled

\* A split takes an address: the pool has room for it.
LEMMA PoolAddress ==
    ASSUME FundsInv, NEW w \in Wallet, NEW k \in Split, createSplitOutputs(w, k)
    PROVE  Pool!Address(w)
<1> USE DEF FundsInv
<1>1. /\ OnlyAt(w) /\ nextAddrIdxToUse[w] < WalletSize
      /\ \A i \in Index : i < nextAddrIdxToUse[w] <=> \E j \in Split : i \in splitOutputs[w][j]
      /\ nextAddrIdxToUse[w] \in Index /\ ~(nextAddrIdxToUse[w] < nextAddrIdxToUse[w])
  <2>1. OnlyAt(w) /\ nextAddrIdxToUse[w] < WalletSize
    BY AddressingKeeps
  <2>2. nextAddrIdxToUse[w] \in 0 .. WalletSize
    BY DEF PoolTyped
  <2>3. nextAddrIdxToUse[w] \in Index /\ ~(nextAddrIdxToUse[w] < nextAddrIdxToUse[w])
    BY <2>2, ConstantFacts DEF Index
  <2> QED BY <2>1, <2>3 DEF RequestInv, AddressesShared
<1>2. /\ split[w][k] = "addresses" /\ request[w] = "fill"
      /\ splitOutputs' = [splitOutputs EXCEPT ![w][k] = @ \union {nextAddrIdxToUse[w]}]
      /\ nextAddrIdxToUse' = [nextAddrIdxToUse EXCEPT ![w] = (@ + 1) % Width]
      /\ UNCHANGED <<wallets, faucetWallets, unspentOutputs, request, split>>
  BY RunningSplit DEF createSplitOutputs, Running
<1>3. \A j \in Split : splitOutputs'[w][j] =
          IF j = k THEN splitOutputs[w][k] \union {nextAddrIdxToUse[w]} ELSE splitOutputs[w][j]
  BY <1>2 DEF TypeOK
<1>4. PoolStage(w) = "fill" /\ PoolStage(w)' = "fill"
  BY <1>2 DEF PoolStage
<1>5. nextAddrIdxToUse[w] \notin unspentOutputs[w]
  BY <1>1 DEF RequestInv, AddressesShared
<1>6. PoolAddresses(w)' = PoolAddresses(w) \union {nextAddrIdxToUse[w]}
  <2>1. \A i : i \in PoolAddresses(w)' <=> i \in PoolAddresses(w) \union {nextAddrIdxToUse[w]}
    BY <1>2, <1>3, <1>5, OpenAddresses
  <2> QED BY <2>1
<1>7. /\ stages[w] = "fill" /\ stages' = stages
      /\ unfilled' = [unfilled EXCEPT ![w] = @ \union {nextAddrIdxToUse[w]}]
      /\ UNCHANGED <<nextAddrToSpent, spendVars>>
  BY <1>1, <1>4, <1>6, PoolElsewhere DEF stages, unfilled
<1> QED BY <1>1, <1>2, <1>7 DEF Pool!Address, Pool!Inc, Pool!poolVars, Pool!spendVars, spendVars,
                              stages, unfilled

\* An output is stored under an address that waited for it.
LEMMA PoolAddUnspentOutput ==
    ASSUME FundsInv, NEW w \in Wallet, NEW k \in Split, AddOutput(w, k)
    PROVE  Pool!AddUnspentOutput(w)
<1> USE DEF FundsInv
<1>1. PICK i \in splitOutputs[w][k] :
            /\ i \notin unspentOutputs[w]
            /\ unspentOutputs' = [unspentOutputs EXCEPT ![w] = @ \union {i}]
  BY DEF AddOutput, NextOf
<1>2. /\ split[w][k] = "outputs" /\ request[w] = "fill"
      /\ UNCHANGED <<wallets, faucetWallets, nextAddrIdxToUse, request, split, splitOutputs>>
  BY RunningSplit DEF AddOutput, requestVars, splitVars, Running
<1>3. OnlyAt(w)
  BY StoringKeeps
<1>4. unspentOutputs'[w] = unspentOutputs[w] \union {i}
  BY <1>1 DEF PoolTyped
<1>5. PoolStage(w)' = PoolStage(w)
  BY <1>2 DEF PoolStage
<1>6. i \in PoolAddresses(w)
  BY <1>1, <1>2, OpenAddresses
<1>7. PoolAddresses(w)' = PoolAddresses(w) \ {i}
  <2>1. \A a : a \in PoolAddresses(w)' <=> a \in PoolAddresses(w) \ {i}
    BY <1>2, <1>4, OpenAddresses
  <2> QED BY <2>1
<1>8. /\ i \in unfilled[w] /\ stages' = stages
      /\ unfilled' = [unfilled EXCEPT ![w] = @ \ {i}]
      /\ UNCHANGED <<nextAddrToSpent, spendVars>>
  BY <1>3, <1>5, <1>6, <1>7, PoolElsewhere DEF stages, unfilled
<1> QED BY <1>1, <1>2, <1>8 DEF Pool!AddUnspentOutput, Pool!poolVars, Pool!spendVars, spendVars,
                              stages, unfilled

\* A goroutine of a big request fails: its addresses that have no output yet
\* stay without one, and if there are none the pool does not notice.
LEMMA PoolSplitFails ==
    ASSUME FundsInv, NEW w \in BigWallet, NEW k \in Split, Fails(w, k), OnlyAt(w),
           split[w][k] \in Running
    PROVE  Pool!SplitFails(w) \/ UNCHANGED Pool!vars
<1> USE DEF FundsInv
<1>1. /\ w \in Wallet /\ request[w] = "fill"
      /\ UNCHANGED <<poolVars, request, splitOutputs>>
      /\ \A j \in Split : split'[w][j] = IF j = k THEN "failed" ELSE split[w][j]
  BY PoolAssumption, RunningSplit DEF Fails, Goto, TypeOK
<1>2. PICK hole : hole = splitOutputs[w][k] \ unspentOutputs[w]
  OBVIOUS
<1>3. PoolStage(w)' = PoolStage(w)
  BY <1>1 DEF PoolStage
<1>4. split[w][k] # "failed"
  BY DEF Running
<1>5. hole \subseteq PoolAddresses(w)
  BY <1>1, <1>2, <1>4, OpenAddresses
<1>6. PoolAddresses(w)' = PoolAddresses(w) \ hole
  <2>1. \A j \in Split \ {k} : splitOutputs[w][j] \intersect splitOutputs[w][k] = {}
    BY <1>1 DEF RequestInv, AddressesShared
  <2>2. UNCHANGED unspentOutputs
    BY <1>1 DEF poolVars
  <2>3. ASSUME NEW a PROVE a \in PoolAddresses(w)' <=> a \in PoolAddresses(w) \ hole
    BY <1>1, <1>2, <1>4, <2>1, <2>2, OpenAddresses
  <2> QED BY <2>3
<1>7. CASE hole = {}
  BY <1>1, <1>3, <1>6, <1>7, PoolStutters
<1>8. CASE hole # {}
  <2>1. /\ hole \in (SUBSET unfilled[w]) \ {{}} /\ stages' = stages
        /\ unfilled' = [unfilled EXCEPT ![w] = @ \ hole]
        /\ UNCHANGED <<nextAddrToSpent, spendVars>>
    BY <1>1, <1>3, <1>5, <1>6, <1>8, PoolElsewhere DEF stages, unfilled
  <2> QED BY <1>1, <2>1 DEF Pool!SplitFails, Pool!poolVars, Pool!spendVars, poolVars, spendVars,
                            stages, unfilled
<1> QED BY <1>7, <1>8

\* A difference of counters is zero, also when it may wrap, only between equals.
LEMMA ModularDifference ==
    ASSUME NEW a \in Nat, NEW b \in Nat, NEW c \in Nat, a < b, c < b
    PROVE  (a - c) % b <= 0 <=> a = c
<1>1. CASE a >= c
  <2>1. (a - c) % b = a - c
    BY <1>1
  <2> QED BY <1>1, <2>1
<1>2. CASE a < c
  <2>1. (a - c) % b = a - c + b
    BY <1>2
  <2> QED BY <1>2, <2>1
<1> QED BY <1>1, <1>2

\* The wallet is ready: no split of it has an output left to store, and the
\* first has taken an address.
LEMMA PoolSetWalletReady ==
    ASSUME FundsInv, NEW w \in Wallet, SetWalletReady(w)
    PROVE  Pool!SetWalletReady(w)
<1> USE DEF FundsInv
<1>1. /\ request[w] = "await" /\ request' = [request EXCEPT ![w] = "done"]
      /\ faucetWallets' = (IF nextAddrIdxToUse[w] = nextAddrToSpent[w] THEN faucetWallets
                                                                        ELSE Append(faucetWallets, w))
      /\ UNCHANGED <<wallets, nextAddrIdxToUse, unspentOutputs, split, splitOutputs>>
  BY DEF SetWalletReady, Ready
<1>2. OnlyAt(w)
  BY QueueingKeeps
<1>3. request'[w] = "done"
  BY <1>1 DEF TypeOK
<1>4. PoolStage(w) = "fill" /\ PoolStage(w)' = "ready"
  BY <1>1, <1>3 DEF PoolStage
<1>5. \A k \in Split : split[w][k] \in {"off", "end", "failed"}
  <2>1. \A k \in Split : split[w][k] \in {"off", "end", "failed"} \union Running
    BY DEF TypeOK
  <2>2. \A k \in Split : split[w][k] \notin Running
    BY <1>1 DEF RequestInv, RequestSound
  <2> QED BY <2>1, <2>2
<1>6. \A i : i \notin PoolAddresses(w) /\ i \notin PoolAddresses(w)'
  <2>1. \A k \in Split : split[w][k] # "failed" => splitOutputs[w][k] \subseteq unspentOutputs[w]
    BY <1>5 DEF RequestInv, SplitSound
  <2> QED BY <1>1, <2>1, OpenAddresses
<1>7. PoolAddresses(w) = {} /\ PoolAddresses(w)' = {}
  BY <1>6
<1>8. nextAddrIdxToUse[w] > 0
  <2>1. 1 \in Split /\ split[w][1] # "off"
    BY <1>1, ConstantFacts DEF RequestInv, RequestSound
  <2>2. splitOutputs[w][1] # {}
    BY <1>5, <2>1 DEF RequestInv, SplitSound
  <2>3. PICK i \in Index : i \in splitOutputs[w][1]
    BY <2>1, <2>2 DEF TypeOK
  <2>4. i < nextAddrIdxToUse[w]
    BY <2>1, <2>3 DEF RequestInv, AddressesShared
  <2>5. i \in Nat /\ nextAddrIdxToUse[w] \in Nat
    BY DEF Index, PoolTyped
  <2> QED BY <2>4, <2>5
<1>9. Pool!IsEmpty(w) <=> nextAddrIdxToUse[w] = nextAddrToSpent[w]
  <2>1. /\ nextAddrIdxToUse[w] \in Nat /\ nextAddrToSpent[w] \in Nat /\ Width \in Nat
        /\ nextAddrIdxToUse[w] < Width /\ nextAddrToSpent[w] < Width
    BY ConstantFacts DEF PoolTyped, Index
  <2> QED BY <2>1, ModularDifference DEF Pool!IsEmpty, Pool!UnspentOutputsLeft
<1>10. /\ stages[w] = "fill" /\ unfilled[w] = {}
       /\ stages' = [stages EXCEPT ![w] = "ready"] /\ unfilled' = unfilled
       /\ UNCHANGED <<nextAddrToSpent, spendVars>>
  BY <1>2, <1>4, <1>7, PoolElsewhere DEF stages, unfilled
<1> QED BY <1>1, <1>8, <1>9, <1>10 DEF Pool!SetWalletReady, Pool!SplitsDone, Pool!Enqueue,
           Pool!spendVars, spendVars, stages, unfilled

\* The steps of a split that only take it on do nothing to the pool.
LEMMA PoolUnaware ==
    ASSUME FundsInv, NEW w \in Wallet, NEW k \in Split,
           \/ CreateTransaction(w, k) \/ PrepareAndPostBlock(w, k)
           \/ ReadTxIDs(w, k) \/ AppendTxID(w, k)
    PROVE  UNCHANGED Pool!vars
<1> USE DEF FundsInv
<1>1. OnlyAt(w)
  BY StoringKeeps, PostingKeeps, ReadingKeeps, AppendingKeeps
<1>2. /\ UNCHANGED <<poolVars, splitOutputs>>
      /\ split[w][k] \in Running /\ request[w] = "fill"
      /\ \E step \in {"end"} \union Running : Goto(w, k, step)
  <2>1. split[w][k] \in Running
    BY DEF CreateTransaction, PrepareAndPostBlock, Stored, ReadTxIDs, AppendTxID, Running
  <2>2. UNCHANGED <<poolVars, splitOutputs>>
    BY DEF CreateTransaction, PrepareAndPostBlock, ReadTxIDs, AppendTxID
  <2>3. \E step \in {"end"} \union Running : Goto(w, k, step)
    BY DEF CreateTransaction, PrepareAndPostBlock, ReadTxIDs, AppendTxID, Running
  <2> QED BY <2>1, <2>2, <2>3, RunningSplit
<1>3. request'[w] \in {"fill", "await"}
  <2>1. UNCHANGED request \/ request' = [request EXCEPT ![w] = "await"]
    BY DEF CreateTransaction, PrepareAndPostBlock, ReadTxIDs, AppendTxID
  <2> QED BY <1>2, <2>1 DEF TypeOK
<1>4. PoolStage(w)' = PoolStage(w)
  BY <1>2, <1>3 DEF PoolStage
<1>5. \A j \in Split : split'[w][j] = "failed" <=> split[w][j] = "failed"
  BY <1>2 DEF Goto, TypeOK, Running
<1>6. UNCHANGED unspentOutputs
  BY <1>2 DEF poolVars
<1>7. \A i : i \in PoolAddresses(w)' <=> i \in PoolAddresses(w)
  BY <1>2, <1>3, <1>5, <1>6, OpenAddresses
<1>8. PoolAddresses(w)' = PoolAddresses(w)
  BY <1>7
<1> QED BY <1>1, <1>2, <1>4, <1>8, PoolStutters

\* Nor do the steps of a request before the pool knows its wallet, and that at
\* which it has no address yet or only waits.
LEMMA PoolUnawareOfRequest ==
    ASSUME FundsInv, NEW w \in Wallet,
           \/ RequestFreshBigFaucetWallet(w) \/ requestFaucetFunds(w) \/ WaitForSplits(w)
           \/ requestFaucetFundsFails(w) /\ w \in BigWallet
    PROVE  UNCHANGED Pool!vars
<1> USE DEF FundsInv
<1>1. OnlyAt(w)
  BY AskingKeeps, BeginningKeeps, WaitingKeeps DEF Start
<1>2. UNCHANGED <<poolVars, splitOutputs>>
  BY DEF RequestFreshBigFaucetWallet, requestFaucetFunds, WaitForSplits, requestFaucetFundsFails,
         splitVars
<1>3. PoolStage(w)' = PoolStage(w)
  BY DEF RequestFreshBigFaucetWallet, requestFaucetFunds, WaitForSplits, requestFaucetFundsFails,
         Ask, PoolStage, TypeOK
<1>4. UNCHANGED unspentOutputs
  BY <1>2 DEF poolVars
<1>5. CASE WaitForSplits(w)
  <2>1. request[w] = "fill" /\ request'[w] = "await" /\ UNCHANGED split
    BY <1>5 DEF WaitForSplits, splitVars, TypeOK
  <2>2. \A i : i \in PoolAddresses(w)' <=> i \in PoolAddresses(w)
    BY <1>2, <1>4, <2>1, OpenAddresses
  <2>3. PoolAddresses(w)' = PoolAddresses(w)
    BY <2>2
  <2> QED BY <1>1, <1>2, <1>3, <2>3, PoolStutters
<1>6. CASE ~WaitForSplits(w)
  <2>1. request[w] \in {"none", "faucet"}
    BY <1>6 DEF RequestFreshBigFaucetWallet, requestFaucetFunds, requestFaucetFundsFails
  <2>2. \A j \in Split : splitOutputs[w][j] = {}
    BY <2>1 DEF RequestInv, RequestSound, SplitSound
  <2>3. \A i : i \notin PoolAddresses(w)' /\ i \notin PoolAddresses(w)
    BY <1>2, <2>2, OpenAddresses
  <2>4. PoolAddresses(w)' = PoolAddresses(w)
    BY <2>3
  <2> QED BY <1>1, <1>2, <1>3, <2>4, PoolStutters
<1> QED BY <1>5, <1>6

\* The requests do to the pool only what WalletPool says of them: what its
\* theorems say of the pool holds with the requests in detail.
THEOREM RequestsImplementPool == Spec => ImplementsPool
<1>1. FundsInv /\ [Next]_vars => [Pool!PoolNext]_(Pool!vars)
  <2> SUFFICES ASSUME FundsInv, [Next]_vars PROVE Pool!PoolNext \/ UNCHANGED Pool!vars
    OBVIOUS
  <2>1. ASSUME NEW w \in Wallet, Start(w) \/ RequestStep(w)
        PROVE  Pool!Fill(w) \/ UNCHANGED Pool!vars
    <3>1. CASE RequestFreshFaucetWallet(w) \/ requestAndSplitFaucetFunds(w)
      <4>1. OnlyAt(w)
        BY <3>1, AskingKeeps, BeginningKeeps DEF Start
      <4> QED BY <3>1, <4>1, PoolNewWallet DEF Pool!Fill
    <3>2. CASE requestFaucetFundsFails(w) /\ w \notin BigWallet
      <4>1. OnlyAt(w)
        BY <3>2, AskingKeeps
      <4>2. request[w] = "faucet" /\ request'[w] = "failed" /\ UNCHANGED poolVars
        BY <3>2 DEF requestFaucetFundsFails, FundsInv, TypeOK
      <4> QED BY <3>2, <4>1, <4>2, PoolRequestFails DEF Pool!Fill
    <3>3. CASE SetWalletReady(w)
      BY <3>3, PoolSetWalletReady DEF Pool!Fill
    <3> QED BY <2>1, <3>1, <3>2, <3>3, PoolUnawareOfRequest DEF Start, RequestStep
  <2>2. ASSUME NEW w \in Wallet, NEW k \in Split, SplitStep(w, k)
        PROVE  Pool!Fill(w) \/ UNCHANGED Pool!vars
    <3>1. CASE \/ CreateTransactionFails(w, k) \/ RequestBlockIssuanceDataFails(w, k)
               \/ PostWithBlockFails(w, k)
      <4>1. OnlyAt(w)
        BY <3>1, FailingKeeps
      <4>2. Fails(w, k) /\ split[w][k] \in Running
        BY <3>1 DEF CreateTransactionFails, RequestBlockIssuanceDataFails, PostWithBlockFails,
                    Stored, Running
      <4>3. CASE w \in BigWallet
        BY <4>1, <4>2, <4>3, PoolSplitFails DEF Pool!Fill
      <4>4. CASE w \notin BigWallet
        <5>1. request[w] = "fill" /\ request'[w] = "failed" /\ UNCHANGED poolVars
          BY <4>2, <4>4, RunningSplit DEF Fails, FundsInv, TypeOK
        <5> QED BY <4>1, <4>4, <5>1, PoolRequestFails DEF Pool!Fill
      <4> QED BY <4>3, <4>4
    <3>2. CASE createSplitOutputs(w, k) \/ AddOutput(w, k)
      BY <3>2, PoolAddress, PoolAddUnspentOutput DEF Pool!Fill
    <3> QED BY <2>2, <3>1, <3>2, PoolUnaware DEF SplitStep
  <2>3. ASSUME NEW s \in Spender, Spend(s) PROVE Pool!Spend(s)
    BY <2>3 DEF Spend
  <2>4. ASSUME UNCHANGED vars PROVE UNCHANGED Pool!vars
    <3>1. \A w \in Wallet : PoolStage(w)' = PoolStage(w)
      BY <2>4 DEF vars, requestVars, PoolStage
    <3>2. ASSUME NEW w \in Wallet PROVE PoolAddresses(w)' = PoolAddresses(w)
      <4>1. \A i : i \in PoolAddresses(w)' <=> i \in PoolAddresses(w)
        BY <2>4, OpenAddresses DEF vars, requestVars, splitVars, poolVars
      <4> QED BY <4>1
    <3>3. stages' = stages /\ unfilled' = unfilled
      BY <3>1, <3>2 DEF stages, unfilled
    <3> QED BY <2>4, <3>3 DEF vars, poolVars, spendVars, Pool!vars, Pool!fillVars, Pool!poolVars,
                              Pool!spendVars, stages, unfilled
  <2> QED BY <2>1, <2>2, <2>3, <2>4 DEF Next, Pool!PoolNext
<1> QED BY <1>1, PoolStarts, FundsInvariant, PTL DEF Spec, ImplementsPool, Pool!Spec

=============================================================================
