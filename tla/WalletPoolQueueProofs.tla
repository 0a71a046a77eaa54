------------------------ MODULE WalletPoolQueueProofs ------------------------
(***************************************************************************)
(* Proofs about the queue of the pool and about what the pool implements,  *)
(* from the invariant of WalletPoolProofs: the queue stays sound, a wallet *)
(* that can be spent is frozen, no output of a wallet that left the queue  *)
(* is lost, and every step of the pool is a step of FreshSupply.           *)
(***************************************************************************)
EXTENDS WalletPoolProofs, SequenceTheorems

\* What the stage of a request says of its wallet: only a wallet that is being
\* filled has addresses to fill, only a ready one was ever spent from.
FillSound ==
    \A w \in Wallet :
        /\ stage[w] = "fill" => w \in wallets
        /\ stage[w] # "fill" => addresses[w] = {}
        /\ stage[w] # "ready" => /\ nextAddrToSpent[w] = 0
                                 /\ \A s \in Spender : input[s] # w
        /\ stage[w] = "ready" => nextAddrIdxToUse[w] > 0
        /\ addresses[w] \union unspentOutputs[w] \subseteq 0 .. nextAddrIdxToUse[w] - 1

\* The queued wallets are ready, nobody holds one behind the head, and a ready
\* wallet that is not queued is spent to its end.
LineSound ==
    /\ \A k \in 1 .. Len(faucetWallets) : stage[faucetWallets[k]] = "ready"
    /\ \A k \in 2 .. Len(faucetWallets) : \A s \in Spender : input[s] # faucetWallets[k]
    /\ \A w \in Wallet : stage[w] = "ready" /\ w \notin Queued =>
            nextAddrToSpent[w] >= nextAddrIdxToUse[w]

\* An output below the spent counter was handed out or is about to be.
SpentAccounted ==
    \A w \in Wallet, i \in Index : i < nextAddrToSpent[w] /\ i \in unspentOutputs[w] =>
        handed[w][i] = 1 \/ Holding(w, i) # {}

QueueInv == PoolInv /\ QueueSound /\ FillSound /\ LineSound /\ SpentAccounted

-----------------------------------------------------------------------------

\* A remainder of a difference of two numbers below the divisor is 0 only if
\* they are equal.
LEMMA ModularDifference ==
    ASSUME NEW a \in Nat, NEW b \in Nat, NEW c \in Nat, a < b, c < b
    PROVE  (a - c) % b <= 0 <=> a = c
<1>1. CASE a >= c
  <2>1. (a - c) % b = a - c
    BY <1>1
  <2> QED BY <1>1, <2>1
<1>2. CASE a < c
  <2>1. (a - c) % b = a - c + b
    BY <1>2
  <2> QED BY <1>2, <2>1
<1> QED BY <1>1, <1>2

\* IsEmpty is what it says, also with wrapping counters.
LEMMA EmptyMeansSpent ==
    ASSUME TypeOK, NEW w \in Wallet
    PROVE  IsEmpty(w) <=> nextAddrIdxToUse[w] = nextAddrToSpent[w]
<1>1. /\ nextAddrIdxToUse[w] \in Nat /\ nextAddrToSpent[w] \in Nat /\ Width \in Nat
      /\ nextAddrIdxToUse[w] < Width /\ nextAddrToSpent[w] < Width
  BY SMTT(30), PoolAssumption, SpenderFacts DEF TypeOK, Index
<1>2. (nextAddrIdxToUse[w] - nextAddrToSpent[w]) % Width <= 0
        <=> nextAddrIdxToUse[w] = nextAddrToSpent[w]
  BY ZenonT(30), <1>1, ModularDifference
<1> QED BY <1>2 DEF IsEmpty, UnspentOutputsLeft

\* The queue of the empty pool.
LEMMA QueueInit == PoolInit => QueueSound /\ FillSound /\ LineSound /\ SpentAccounted
<1> SUFFICES ASSUME PoolInit PROVE QueueSound /\ FillSound /\ LineSound /\ SpentAccounted
  OBVIOUS
<1>1. Len(faucetWallets) = 0 /\ Queued = {}
  BY DEF PoolInit, Queued
<1>2. QueueSound
  BY <1>1 DEF PoolInit, QueueSound
<1>3. FillSound
  BY PoolAssumption DEF PoolInit, FillSound
<1>4. LineSound
  BY <1>1 DEF PoolInit, LineSound
<1>5. SpentAccounted
  BY DEF PoolInit, SpentAccounted, Index
<1> QED BY <1>2, <1>3, <1>4, <1>5

\* What the steps of a request do to the other parts of the pool.
LEMMA FillSteps ==
    ASSUME QueueInv, NEW w \in Wallet, Fill(w)
    PROVE  /\ UNCHANGED <<nextAddrToSpent, spendVars>>
           /\ FillSound'
           /\ \A v \in Wallet : stage[v] = "ready" =>
                /\ stage'[v] = "ready"
                /\ nextAddrIdxToUse'[v] = nextAddrIdxToUse[v]
                /\ unspentOutputs'[v] = unspentOutputs[v]
                /\ addresses'[v] = addresses[v]
<1> USE DEF QueueInv, PoolInv
<1>1. CASE NewWallet(w)
  BY <1>1 DEF NewWallet, TypeOK, FillSound, spendVars
<1>2. CASE Address(w)
  <2>1. nextAddrIdxToUse[w] \in Nat /\ nextAddrIdxToUse[w] < WalletSize
    BY <1>2 DEF TypeOK, Address
  <2>2. (nextAddrIdxToUse[w] + 1) % Width = nextAddrIdxToUse[w] + 1
    BY <2>1, Wrapping, PoolAssumption, SpenderFacts
  <2>3. nextAddrIdxToUse' = [nextAddrIdxToUse EXCEPT ![w] = nextAddrIdxToUse[w] + 1]
    BY <1>2, <2>2 DEF Address, Inc
  <2> QED BY <1>2, <2>1, <2>3 DEF Address, TypeOK, FillSound, spendVars, poolVars
<1>3. CASE AddUnspentOutput(w)
  <2>1. stage[w] = "fill"
    BY <1>3 DEF AddUnspentOutput, FillSound
  <2> QED BY <1>3, <2>1 DEF AddUnspentOutput, TypeOK, FillSound, spendVars, poolVars
<1>4. CASE SplitFails(w)
  <2>1. stage[w] = "fill"
    BY <1>4 DEF SplitFails, FillSound
  <2> QED BY <1>4, <2>1 DEF SplitFails, TypeOK, FillSound, spendVars, poolVars
<1>5. CASE RequestFails(w)
  BY <1>5 DEF RequestFails, TypeOK, FillSound, spendVars, poolVars
<1>6. CASE SetWalletReady(w)
  BY <1>6 DEF SetWalletReady, SplitsDone, TypeOK, FillSound, spendVars, poolVars
<1> QED BY <1>1, <1>2, <1>3, <1>4, <1>5, <1>6 DEF Fill

-----------------------------------------------------------------------------
(* The queue *)

\* The parts of the invariant that steps on the queue can disturb.
LineGoal == QueueSound /\ LineSound /\ SpentAccounted

\* A step that leaves the queue alone, takes no wallet away, and moves no
\* counter of a wallet that is not ready.
LEMMA LineFrame ==
    ASSUME QueueInv, faucetWallets' = faucetWallets, wallets \subseteq wallets',
           UNCHANGED <<nextAddrToSpent, spendVars>>,
           \A v \in Wallet : stage[v] = "ready" =>
                /\ stage'[v] = "ready"
                /\ nextAddrIdxToUse'[v] = nextAddrIdxToUse[v]
                /\ unspentOutputs'[v] = unspentOutputs[v],
           \A v \in Wallet : stage'[v] = "ready" => stage[v] = "ready"
    PROVE  LineGoal'
<1> USE DEF QueueInv, PoolInv
<1>1. /\ Queued' = Queued
      /\ faucetWallets \in Seq(Wallet)
      /\ \A k \in 1 .. Len(faucetWallets) : faucetWallets[k] \in Wallet
  BY DEF Queued, TypeOK
<1>2. QueueSound'
  BY <1>1 DEF QueueSound, LineSound
<1>3. LineSound'
  BY <1>1 DEF LineSound, spendVars
<1>4. SpentAccounted'
  <2> SUFFICES ASSUME NEW w \in Wallet, NEW i \in Index,
                      i < nextAddrToSpent[w], i \in unspentOutputs'[w]
               PROVE  handed'[w][i] = 1 \/ Holding(w, i)' # {}
    BY DEF SpentAccounted
  <2>1. Holding(w, i)' = Holding(w, i)
    BY DEF Holding, spendVars
  <2>2. stage[w] = "ready"
    BY DEF FillSound, Index
  <2> QED BY <2>1, <2>2 DEF SpentAccounted, spendVars
<1> QED BY <1>2, <1>3, <1>4 DEF LineGoal

\* A wallet that becomes ready is not empty, and goes to the end of the queue.
LEMMA LineReady ==
    ASSUME QueueInv, NEW w \in Wallet, SetWalletReady(w)
    PROVE  LineGoal'
<1> USE DEF QueueInv, PoolInv
<1>1. /\ UNCHANGED <<nextAddrToSpent, spendVars, wallets, unspentOutputs, nextAddrIdxToUse>>
      /\ \A v \in Wallet : stage'[v] = IF v = w THEN "ready" ELSE stage[v]
      /\ stage[w] = "fill" /\ nextAddrIdxToUse[w] > 0
  BY DEF SetWalletReady, TypeOK
<1>2. nextAddrToSpent[w] = 0 /\ \A s \in Spender : input[s] # w
  BY <1>1 DEF FillSound
<1>3. faucetWallets' = Append(faucetWallets, w)
  BY <1>1, <1>2, EmptyMeansSpent DEF SetWalletReady, Enqueue
<1> DEFINE n == Len(faucetWallets)
<1>4. /\ n \in Nat /\ Len(faucetWallets') = n + 1
      /\ \A k \in 1 .. n : faucetWallets'[k] = faucetWallets[k] /\ faucetWallets[k] \in Wallet
      /\ faucetWallets'[n + 1] = w
  <2>1. faucetWallets \in Seq(Wallet)
    BY DEF TypeOK
  <2> QED BY <1>3, <2>1
<1>5. \A k \in 1 .. n : faucetWallets[k] # w
  BY <1>1 DEF LineSound
<1>6. Queued' = Queued \union {w}
  BY <1>4 DEF Queued
<1>7. QueueSound'
  <2>1. Queued' \subseteq wallets'
    BY <1>1, <1>6 DEF QueueSound, FillSound
  <2>2. \A j, k \in 1 .. n + 1 : faucetWallets'[j] = faucetWallets'[k] => j = k
    BY <1>4, <1>5 DEF QueueSound
  <2>3. \A k \in 2 .. n + 1 : nextAddrToSpent'[faucetWallets'[k]] = 0
                                /\ nextAddrIdxToUse'[faucetWallets'[k]] > 0
    BY <1>1, <1>2, <1>4 DEF QueueSound
  <2> QED BY <1>4, <2>1, <2>2, <2>3 DEF QueueSound
<1>8. LineSound'
  <2>1. \A k \in 1 .. n + 1 : stage'[faucetWallets'[k]] = "ready"
    BY <1>1, <1>4 DEF LineSound
  <2>2. \A k \in 2 .. n + 1 : \A s \in Spender : input'[s] # faucetWallets'[k]
    BY <1>1, <1>2, <1>4 DEF LineSound, spendVars
  <2>3. \A v \in Wallet : stage'[v] = "ready" /\ v \notin Queued' =>
            nextAddrToSpent'[v] >= nextAddrIdxToUse'[v]
    BY <1>1, <1>6 DEF LineSound
  <2> QED BY <1>4, <2>1, <2>2, <2>3 DEF LineSound
<1>9. SpentAccounted'
  BY <1>1 DEF SpentAccounted, Holding, spendVars
<1> QED BY <1>7, <1>8, <1>9 DEF LineGoal

\* freshWallet drops an empty head, and a spender takes the head that is left.
LEMMA LineFresh ==
    ASSUME QueueInv, NEW s \in Spender, freshWallet(s)
    PROVE  LineGoal' /\ FillSound'
<1> USE DEF QueueInv, PoolInv
<1> DEFINE n == Len(faucetWallets)
<1>1. UNCHANGED <<fillVars, nextAddrToSpent, handed>> /\ faucetWallets' = TrimmedQueue
  BY DEF freshWallet
<1>2. /\ faucetWallets \in Seq(Wallet) /\ n \in Nat
      /\ \A k \in 1 .. n : faucetWallets[k] \in Wallet
  BY DEF TypeOK
<1>3. CASE TrimmedQueue = faucetWallets
  <2>1. wallets' = wallets /\ Queued' = Queued
    BY <1>1, <1>3 DEF freshWallet, Queued
  <2>2. \A t \in Spender : input'[t] = input[t] \/ (n > 0 /\ input'[t] = faucetWallets[1])
    BY <1>2, <1>3 DEF freshWallet, isFaucetWalletAvailable, TypeOK
  <2>3. QueueSound'
    BY <1>1, <1>3, <2>1 DEF QueueSound, fillVars
  <2>4. LineSound'
    BY <1>1, <1>2, <1>3, <2>1, <2>2 DEF LineSound, QueueSound, fillVars
  <2>5. FillSound'
    BY <1>1, <1>2, <2>1, <2>2 DEF FillSound, LineSound, fillVars
  <2>6. \A w \in Wallet, i \in Index : Holding(w, i) \subseteq Holding(w, i)'
    BY DEF freshWallet, Holding, TypeOK
  <2>7. SpentAccounted'
    BY <1>1, <2>6 DEF SpentAccounted, fillVars
  <2> QED BY <2>3, <2>4, <2>5, <2>7 DEF LineGoal
<1>4. CASE TrimmedQueue # faucetWallets
  <2> DEFINE head == faucetWallets[1]
  <2>1. /\ n > 0 /\ TrimmedQueue = Tail(faucetWallets) /\ head \in Wallet
        /\ wallets' = wallets \ {head}
        /\ nextAddrIdxToUse[head] = nextAddrToSpent[head]
    <3>1. faucetWallets # <<>> /\ IsEmpty(Head(faucetWallets)) /\ n > 0
      BY <1>2, <1>4 DEF TrimmedQueue, isFaucetWalletAvailable
    <3>2. Head(faucetWallets) = head /\ head \in Wallet
      BY <1>2, <3>1
    <3>3. nextAddrIdxToUse[head] = nextAddrToSpent[head]
      BY <3>1, <3>2, EmptyMeansSpent
    <3>4. TrimmedQueue = Tail(faucetWallets)
      BY <3>1 DEF TrimmedQueue, isFaucetWalletAvailable
    <3> QED BY <1>4, <3>1, <3>2, <3>3, <3>4 DEF freshWallet
  <2>2. /\ Len(faucetWallets') = n - 1
        /\ \A k \in 1 .. n - 1 : faucetWallets'[k] = faucetWallets[k + 1]
    BY <1>1, <1>2, <2>1
  <2>3. \A k \in 1 .. n - 1 : /\ faucetWallets'[k] \in Wallet
                               /\ faucetWallets'[k] # head
                               /\ k + 1 \in 2 .. n
    BY <1>2, <2>1, <2>2 DEF QueueSound
  <2>4. \A t \in Spender : \/ input'[t] = input[t]
                           \/ n - 1 > 0 /\ input'[t] = faucetWallets'[1]
    <3>1. faucetWallets' \in Seq(Wallet) /\ TrimmedQueue = faucetWallets'
      BY <1>1, <1>2, <2>1
    <3>2. CASE faucetWallets' = <<>>
      <4>1. ~isFaucetWalletAvailable(TrimmedQueue)
        BY <3>1, <3>2 DEF isFaucetWalletAvailable
      <4>2. input' = input
        BY <4>1 DEF freshWallet
      <4> QED BY <4>2
    <3>3. CASE faucetWallets' # <<>>
      <4>1. Head(faucetWallets') = faucetWallets'[1] /\ Len(faucetWallets') > 0
        BY <3>1, <3>3
      <4>2. isFaucetWalletAvailable(TrimmedQueue)
        BY <3>1, <3>3 DEF isFaucetWalletAvailable
      <4>3. input' = [input EXCEPT ![s] = faucetWallets'[1]]
        BY <3>1, <4>1, <4>2 DEF freshWallet
      <4>4. \A t \in Spender : input'[t] = IF t = s THEN faucetWallets'[1] ELSE input[t]
        BY <4>3 DEF TypeOK
      <4>5. n - 1 > 0
        BY <2>2, <4>1
      <4> QED BY <4>4, <4>5
    <3> QED BY <3>2, <3>3
  <2>5. Queued \ {head} = Queued'
    <3>1. ASSUME NEW k \in 1 .. n, faucetWallets[k] # head
          PROVE  k - 1 \in 1 .. n - 1 /\ faucetWallets'[k - 1] = faucetWallets[k]
      BY <1>2, <2>2, <3>1
    <3> QED BY <1>2, <2>2, <2>3, <3>1 DEF Queued
  <2>6. QueueSound'
    <3>1. Queued' \subseteq wallets'
      BY <2>1, <2>5 DEF QueueSound
    <3>2. \A j, k \in 1 .. n - 1 : faucetWallets'[j] = faucetWallets'[k] => j = k
      BY <1>2, <2>2, <2>3 DEF QueueSound
    <3>3. ASSUME NEW k \in 2 .. n - 1
          PROVE  nextAddrToSpent'[faucetWallets'[k]] = 0
                    /\ nextAddrIdxToUse'[faucetWallets'[k]] > 0
      <4>1. k + 1 \in 2 .. n /\ faucetWallets'[k] = faucetWallets[k + 1]
        BY <1>2, <2>2
      <4> QED BY <1>1, <4>1 DEF QueueSound, fillVars
    <3> QED BY <2>2, <3>1, <3>2, <3>3 DEF QueueSound
  <2>7. LineSound'
    <3>1. \A k \in 1 .. n - 1 : stage'[faucetWallets'[k]] = "ready"
      BY <1>1, <1>2, <2>2, <2>3 DEF LineSound, fillVars
    <3>2. ASSUME NEW k \in 2 .. n - 1, NEW t \in Spender PROVE input'[t] # faucetWallets'[k]
      <4>1. input[t] # faucetWallets'[k]
        BY <1>2, <2>2, <2>3 DEF LineSound
      <4>2. faucetWallets'[1] # faucetWallets'[k]
        BY <1>2, <2>2, <2>3 DEF QueueSound
      <4> QED BY <2>4, <4>1, <4>2
    <3>3. \A v \in Wallet : stage'[v] = "ready" /\ v \notin Queued' =>
              nextAddrToSpent'[v] >= nextAddrIdxToUse'[v]
      <4>1. nextAddrToSpent[head] >= nextAddrIdxToUse[head]
        BY SMTT(30), <2>1, PoolAssumption DEF TypeOK
      <4> QED BY <1>1, <2>5, <4>1 DEF LineSound, fillVars
    <3> QED BY <2>2, <3>1, <3>2, <3>3 DEF LineSound
  <2>8. FillSound'
    <3>1. stage[head] = "ready"
      BY <1>2, <2>1 DEF LineSound
    <3>2. n - 1 > 0 => stage[faucetWallets'[1]] = "ready"
      BY <1>2, <2>2, <2>3 DEF LineSound
    <3>3. ASSUME NEW w \in Wallet, stage[w] # "ready", NEW t \in Spender PROVE input'[t] # w
      BY <2>4, <3>2, <3>3 DEF FillSound
    <3> QED BY <1>1, <2>1, <3>1, <3>3 DEF FillSound, fillVars
  <2>9. \A w \in Wallet, i \in Index : Holding(w, i) \subseteq Holding(w, i)'
    BY DEF freshWallet, Holding, TypeOK
  <2>10. SpentAccounted'
    BY <1>1, <2>9 DEF SpentAccounted, fillVars
  <2> QED BY <2>6, <2>7, <2>8, <2>10 DEF LineGoal
<1> QED BY <1>3, <1>4

\* The other steps of a spender: the queue stays, and so does what a spender
\* may hold, up to the index it claims and the output it reads.
LEMMA LineSpend ==
    ASSUME QueueInv, PoolInv', NEW s \in Spender,
           CheckCounters(s) \/ getAndIncNextAddrToSpent(s) \/ ReadOutput(s)
    PROVE  LineGoal' /\ FillSound'
<1> USE DEF QueueInv, PoolInv
<1> DEFINE w == input[s]
<1>1. /\ UNCHANGED <<fillVars, poolVars>>
      /\ \A t \in Spender : input'[t] \in {input[t], NoWallet}
      /\ w \in Wallet
  <2>1. UNCHANGED <<fillVars, poolVars>> /\ pc[s] # "idle"
    BY DEF CheckCounters, getAndIncNextAddrToSpent, ReadOutput
  <2>2. input' = input \/ input' = [input EXCEPT ![s] = NoWallet]
    BY DEF CheckCounters, getAndIncNextAddrToSpent, ReadOutput, Return
  <2>3. \A t \in Spender : input'[t] \in {input[t], NoWallet}
    BY SMTT(30), <2>2 DEF TypeOK
  <2>4. w \in Wallet
    BY <2>1 DEF TypeOK
  <2> QED BY <2>1, <2>3, <2>4
<1>2. stage[w] = "ready" /\ \A k \in 2 .. Len(faucetWallets) : faucetWallets[k] # w
  BY <1>1 DEF FillSound, LineSound
<1>3. /\ \A v \in Wallet \ {w} : nextAddrToSpent'[v] = nextAddrToSpent[v]
      /\ \A v \in Wallet : /\ nextAddrToSpent[v] \in Nat
                           /\ nextAddrToSpent'[v] \in Nat
                           /\ nextAddrToSpent'[v] >= nextAddrToSpent[v]
  <2>1. \A v \in Wallet : nextAddrToSpent[v] \in Nat /\ nextAddrToSpent'[v] \in Nat
    BY PoolAssumption DEF TypeOK, Index
  <2>2. CASE getAndIncNextAddrToSpent(s)
    <3>1. nextAddrToSpent' = [nextAddrToSpent EXCEPT ![w] = nextAddrToSpent[w] + 1]
      BY <2>2, NoWrap DEF getAndIncNextAddrToSpent, Advance, Inc
    <3>2. \A v \in Wallet : nextAddrToSpent'[v] =
              IF v = w THEN nextAddrToSpent[v] + 1 ELSE nextAddrToSpent[v]
      BY <3>1 DEF TypeOK
    <3> HIDE DEF w
    <3> QED BY <2>1, <3>2
  <2>3. CASE CheckCounters(s) \/ ReadOutput(s)
    BY <2>1, <2>3 DEF CheckCounters, ReadOutput
  <2> QED BY <2>2, <2>3
<1>4. /\ faucetWallets \in Seq(Wallet)
      /\ \A k \in 1 .. Len(faucetWallets) : faucetWallets[k] \in Wallet
      /\ Queued' = Queued
  BY <1>1 DEF TypeOK, Queued, poolVars
<1>5. QueueSound'
  BY <1>1, <1>2, <1>3, <1>4 DEF QueueSound, fillVars, poolVars
<1>6. LineSound'
  <2>1. \A v \in Wallet : nextAddrIdxToUse[v] \in Nat /\ nextAddrIdxToUse'[v] = nextAddrIdxToUse[v]
    BY <1>1 DEF TypeOK, fillVars
  <2>2. ASSUME NEW v \in Wallet, stage[v] = "ready", v \notin Queued
        PROVE  nextAddrToSpent'[v] >= nextAddrIdxToUse'[v]
    <3>1. nextAddrToSpent[v] >= nextAddrIdxToUse[v]
      BY <2>2 DEF LineSound
    <3> QED BY <1>3, <2>1, <3>1
  <2>3. \A k \in 2 .. Len(faucetWallets) : \A t \in Spender : input'[t] # faucetWallets[k]
    <3>1. \A k \in 2 .. Len(faucetWallets) : faucetWallets[k] # NoWallet
      BY <1>4, PoolAssumption
    <3> QED BY <1>1, <3>1 DEF LineSound
  <2> QED BY <1>1, <1>4, <2>2, <2>3 DEF LineSound, fillVars, poolVars
<1>7. FillSound'
  BY <1>1, <1>2, <1>3, PoolAssumption DEF FillSound, fillVars, poolVars
<1>8. SpentAccounted'
  <2> SUFFICES ASSUME NEW v \in Wallet, NEW i \in Index,
                      i < nextAddrToSpent'[v], i \in unspentOutputs'[v]
               PROVE  handed'[v][i] = 1 \/ Holding(v, i)' # {}
    BY DEF SpentAccounted
  <2>1. CASE i >= nextAddrToSpent[v]
    <3>1. getAndIncNextAddrToSpent(s)
      <4>1. nextAddrToSpent'[v] # nextAddrToSpent[v]
        BY <1>3, <2>1 DEF Index
      <4> QED BY <4>1 DEF CheckCounters, ReadOutput
    <3>2. v = w /\ nextAddrToSpent'[v] = nextAddrToSpent[v] + 1
      <4>1. v = w
        BY <1>1, <1>3, <2>1 DEF Index
      <4>2. nextAddrToSpent' = [nextAddrToSpent EXCEPT ![w] = nextAddrToSpent[w] + 1]
        BY <3>1, NoWrap DEF getAndIncNextAddrToSpent, Advance, Inc
      <4> QED BY <1>1, <4>1, <4>2 DEF TypeOK
    <3>3. i = nextAddrToSpent[v]
      BY <1>3, <2>1, <3>2 DEF Index
    <3>4. s \in Holding(v, i)'
      BY <3>1, <3>2, <3>3 DEF getAndIncNextAddrToSpent, Holding, TypeOK
    <3> QED BY <3>4
  <2>2. CASE i < nextAddrToSpent[v] /\ handed[v][i] = 1
    <3>1. handed'[v][i] >= 1
      <4>1. CASE handed' = handed
        BY <2>2, <4>1
      <4>2. CASE ReadOutput(s) /\ OutputFound(s)
        <5>1. handed' = [handed EXCEPT ![w][index[s]] = @ + 1]
          BY <4>2 DEF ReadOutput
        <5>2. handed \in [Wallet -> [Index -> Nat]]
          BY DEF TypeOK
        <5> HIDE DEF w
        <5> QED BY <1>1, <2>2, <5>1, <5>2
      <4> QED BY <4>1, <4>2 DEF CheckCounters, getAndIncNextAddrToSpent, ReadOutput
    <3>2. handed'[v][i] \in Nat /\ handed'[v][i] <= 1
      BY DEF TypeOK, HandedOnce
    <3> QED BY <3>1, <3>2
  <2>3. CASE i < nextAddrToSpent[v] /\ Holding(v, i) # {}
    <3>1. PICK t \in Spender : input[t] = v /\ pc[t] = "read" /\ index[t] = i
      BY <2>3 DEF Holding
    <3>2. CASE t # s \/ ~ReadOutput(s)
      <4>1. t # s
        BY <3>1, <3>2 DEF CheckCounters, getAndIncNextAddrToSpent
      <4>2. \A x \in Spender \ {s} : /\ input'[x] = input[x]
                                     /\ pc'[x] = pc[x]
                                     /\ index'[x] = index[x]
        <5>1. CASE CheckCounters(s)
          BY SMTT(30), <5>1 DEF CheckCounters, Return, TypeOK
        <5>2. CASE getAndIncNextAddrToSpent(s)
          BY <5>2 DEF getAndIncNextAddrToSpent, TypeOK
        <5>3. CASE ReadOutput(s)
          <6>1. CASE pc' = [pc EXCEPT ![s] = "check"] /\ UNCHANGED <<input, index>>
            BY <6>1 DEF TypeOK
          <6>2. CASE \E outcome \in {"created", "NoFreshOutputsAvailable"} : Return(s, outcome)
            BY <6>2 DEF Return, TypeOK
          <6> QED BY <5>3, <6>1, <6>2 DEF ReadOutput
        <5> QED BY <5>1, <5>2, <5>3
      <4> QED BY <3>1, <4>1, <4>2 DEF Holding
    <3>3. CASE t = s /\ ReadOutput(s)
      <4>1. OutputFound(s) /\ w = v /\ index[s] = i
        BY <1>1, <3>1, <3>3 DEF OutputFound, fillVars
      <4>2. handed[v][i] = 0
        BY <3>1 DEF InFlightSound
      <4>3. handed' = [handed EXCEPT ![v][i] = @ + 1]
        BY <3>3, <4>1 DEF ReadOutput
      <4>4. handed'[v][i] = 1
        BY <4>2, <4>3 DEF TypeOK
      <4> QED BY <4>4
    <3> QED BY <3>2, <3>3
  <2> QED BY <1>1, <1>3, <2>1, <2>2, <2>3 DEF SpentAccounted, Index, fillVars
<1> QED BY <1>5, <1>6, <1>7, <1>8 DEF LineGoal

\* QueueInv is inductive.
LEMMA QueueInvNext == QueueInv /\ [PoolNext]_vars => QueueInv'
<1> SUFFICES ASSUME QueueInv, [PoolNext]_vars PROVE LineGoal' /\ FillSound'
  BY PoolInvNext DEF QueueInv, LineGoal
<1>1. PoolInv'
  BY PoolInvNext DEF QueueInv
<1>2. ASSUME NEW w \in Wallet, Fill(w) PROVE LineGoal' /\ FillSound'
  <2>1. CASE SetWalletReady(w)
    BY <1>2, <2>1, FillSteps, LineReady
  <2>2. CASE ~SetWalletReady(w)
    <3>1. /\ faucetWallets' = faucetWallets /\ wallets \subseteq wallets'
          /\ \A v \in Wallet : stage'[v] = "ready" => stage[v] = "ready"
      BY <1>2, <2>2 DEF Fill, NewWallet, Address, AddUnspentOutput, SplitFails,
                        RequestFails, poolVars, QueueInv, PoolInv, TypeOK
    <3> QED BY <1>2, <3>1, FillSteps, LineFrame
  <2> QED BY <2>1, <2>2
<1>3. ASSUME NEW s \in Spender, Spend(s) PROVE LineGoal' /\ FillSound'
  BY <1>1, <1>3, LineFresh, LineSpend DEF Spend
<1>4. CASE UNCHANGED vars
  <2>1. LineGoal'
    BY <1>4, LineFrame DEF vars, fillVars, poolVars
  <2>2. FillSound'
    BY <1>4 DEF QueueInv, FillSound, vars, fillVars, poolVars, spendVars
  <2> QED BY <2>1, <2>2
<1> QED BY <1>2, <1>3, <1>4 DEF PoolNext

\* The invariant holds in every reachable state.
LEMMA QueueInvariant == Spec => []QueueInv
<1>1. PoolInit => QueueInv
  BY TypeInit, OvershootInit, HandedInit, QueueInit DEF QueueInv, PoolInv
<1> QED BY <1>1, QueueInvNext, PTL DEF Spec

\* freshWallet (wallets.go) always finds the wallet of the head registered, and
\* what it returns after it dropped an empty head is a wallet nobody touched.
THEOREM QueueStaysSound == Spec => []QueueSound
<1>1. QueueInv => QueueSound
  BY DEF QueueInv
<1> QED BY <1>1, QueueInvariant, PTL

\* When freshWallet drops a wallet, every output in it was handed out or is in
\* the hands of a spender: the unlocked check loses none.
THEOREM DepartedAreDrained == Spec => []DepartedDrained
<1>1. QueueInv => DepartedDrained
  <2> SUFFICES ASSUME QueueInv, NEW w \in Wallet, stage[w] = "ready", w \notin Queued,
                      NEW i \in unspentOutputs[w]
               PROVE  handed[w][i] = 1 \/ Holding(w, i) # {}
    BY DEF DepartedDrained
  <2>1. /\ i \in Index /\ i \in 0 .. nextAddrIdxToUse[w] - 1
        /\ nextAddrToSpent[w] >= nextAddrIdxToUse[w]
        /\ nextAddrIdxToUse[w] \in Nat /\ nextAddrToSpent[w] \in Nat
    BY PoolAssumption DEF QueueInv, PoolInv, TypeOK, FillSound, LineSound, Index
  <2>2. i < nextAddrToSpent[w]
    BY <2>1
  <2> QED BY <2>1, <2>2 DEF QueueInv, SpentAccounted
<1> QED BY <1>1, QueueInvariant, PTL

\* Nothing is stored in a wallet once a spender can hold it, which is why
\* GetUnspentOutput may read its two maps under two separate locks.
THEOREM ReadyStaysFrozen == Spec => ReadyIsFrozen
<1> DEFINE Frozen(w) == UNCHANGED <<unspentOutputs[w], nextAddrIdxToUse[w], addresses[w]>>
<1>1. QueueInv /\ [PoolNext]_vars =>
        [\A w \in Wallet : w \in Queued \/ (\E s \in Spender : input[s] = w) => Frozen(w)]_vars
  <2> SUFFICES ASSUME QueueInv, [PoolNext]_vars, NEW w \in Wallet,
                      w \in Queued \/ (\E s \in Spender : input[s] = w)
               PROVE  Frozen(w)
    OBVIOUS
  <2>1. stage[w] = "ready"
    BY DEF QueueInv, LineSound, FillSound, Queued
  <2>2. ASSUME NEW v \in Wallet, Fill(v) PROVE Frozen(w)
    BY <2>1, <2>2, FillSteps
  <2>3. ASSUME NEW s \in Spender, Spend(s) PROVE Frozen(w)
    BY <2>3 DEF Spend, freshWallet, CheckCounters, getAndIncNextAddrToSpent, ReadOutput, fillVars
  <2> QED BY <2>2, <2>3 DEF PoolNext, vars, fillVars
<1> QED BY <1>1, QueueInvariant, PTL DEF Spec, ReadyIsFrozen

-----------------------------------------------------------------------------
(* The refinement *)

\* The empty pool is an empty supply.
LEMMA SupplyStarts == PoolInit => Supply!SupplyInit
<1> SUFFICES ASSUME PoolInit PROVE Supply!SupplyInit
  OBVIOUS
<1>1. {o \in Wallet \X Index : o[2] \in unspentOutputs[o[1]]} = {}
  BY DEF PoolInit
<1>2. \A o \in Wallet \X Index : handed[o[1]][o[2]] = 0
  BY DEF PoolInit
<1> QED BY <1>1, <1>2 DEF Supply!SupplyInit

\* An output that is stored for the first time is a deposit.
LEMMA StoringDeposits ==
    ASSUME QueueInv, NEW w \in Wallet, AddUnspentOutput(w)
    PROVE  [Supply!SupplyNext]_(Supply!supplyVars)
<1> DEFINE Stored == {o \in Wallet \X Index : o[2] \in unspentOutputs[o[1]]}
<1>1. PICK i \in addresses[w] :
        unspentOutputs' = [unspentOutputs EXCEPT ![w] = @ \union {i}]
  BY DEF AddUnspentOutput
<1>2. i \in Index /\ <<w, i>> \in Wallet \X Index /\ handed' = handed
  BY <1>1 DEF QueueInv, PoolInv, TypeOK, AddUnspentOutput, spendVars
<1>3. \A v \in Wallet : unspentOutputs'[v] =
        IF v = w THEN unspentOutputs[v] \union {i} ELSE unspentOutputs[v]
  BY <1>1 DEF QueueInv, PoolInv, TypeOK
<1>4. Stored' = Stored \union {<<w, i>>}
  <2>1. ASSUME NEW o \in Wallet \X Index
        PROVE  o[2] \in unspentOutputs'[o[1]] <=>
                    o[2] \in unspentOutputs[o[1]] \/ o = <<w, i>>
    <3>1. o[1] \in Wallet /\ o[2] \in Index /\ o = <<o[1], o[2]>>
      OBVIOUS
    <3>2. o = <<w, i>> <=> o[1] = w /\ o[2] = i
      BY <3>1
    <3> QED BY <1>3, <3>1, <3>2
  <2> QED BY <1>2, <2>1
<1>5. CASE <<w, i>> \in Stored
  BY <1>2, <1>4, <1>5 DEF Supply!supplyVars
<1>6. CASE <<w, i>> \notin Stored
  <2>1. Supply!Deposit
    BY <1>2, <1>4, <1>6 DEF Supply!Deposit
  <2> QED BY <2>1 DEF Supply!SupplyNext
<1> QED BY <1>5, <1>6

\* An output that is read is in the pool and was not handed out before.
LEMMA ReadingHandsOut ==
    ASSUME QueueInv, NEW s \in Spender, ReadOutput(s)
    PROVE  [Supply!SupplyNext]_(Supply!supplyVars)
<1> USE DEF QueueInv, PoolInv
<1> DEFINE w == input[s]
           i == index[s]
           Stored == {o \in Wallet \X Index : o[2] \in unspentOutputs[o[1]]}
           Given == [o \in Wallet \X Index |-> handed[o[1]][o[2]]]
<1>1. pc[s] = "read" /\ w \in Wallet /\ i \in Index /\ unspentOutputs' = unspentOutputs
  BY DEF ReadOutput, TypeOK, fillVars
<1>2. CASE ~OutputFound(s)
  BY <1>1, <1>2 DEF ReadOutput, Supply!supplyVars
<1>3. CASE OutputFound(s)
  <2>1. <<w, i>> \in Stored /\ Given[<<w, i>>] = 0
    BY <1>1, <1>3 DEF OutputFound, InFlightSound
  <2>2. handed' = [handed EXCEPT ![w][i] = @ + 1] /\ handed[w][i] = 0
    BY <1>1, <1>3 DEF ReadOutput, InFlightSound
  <2>3. \A v \in Wallet, j \in Index :
            handed'[v][j] = IF v = w /\ j = i THEN 1 ELSE handed[v][j]
    <3>1. handed \in [Wallet -> [Index -> Nat]]
      BY DEF TypeOK
    <3> HIDE DEF w, i
    <3> QED BY <1>1, <2>2, <3>1
  <2>4. Given' = [Given EXCEPT ![<<w, i>>] = 1]
    <3>1. ASSUME NEW o \in Wallet \X Index
          PROVE  handed'[o[1]][o[2]] = IF o = <<w, i>> THEN 1 ELSE handed[o[1]][o[2]]
      <4>1. o[1] \in Wallet /\ o[2] \in Index /\ o = <<o[1], o[2]>>
        OBVIOUS
      <4>2. o = <<w, i>> <=> o[1] = w /\ o[2] = i
        BY <4>1
      <4> QED BY <2>3, <4>1, <4>2
    <3> HIDE DEF w, i
    <3> QED BY <1>1, <3>1
  <2>5. Supply!HandOut
    BY <1>1, <2>1, <2>4 DEF Supply!HandOut
  <2> QED BY <2>5 DEF Supply!SupplyNext
<1> QED BY <1>2, <1>3

\* The pool hands out only outputs that were stored in it, each of them once:
\* every step of the wallets and of the spenders is a step of FreshSupply.
THEOREM PoolImplementsSupply == Spec => ImplementsSupply
<1>1. QueueInv /\ [PoolNext]_vars => [Supply!SupplyNext]_(Supply!supplyVars)
  <2> SUFFICES ASSUME QueueInv, [PoolNext]_vars
               PROVE  [Supply!SupplyNext]_(Supply!supplyVars)
    OBVIOUS
  <2>1. ASSUME UNCHANGED <<unspentOutputs, handed>>
        PROVE  [Supply!SupplyNext]_(Supply!supplyVars)
    BY <2>1 DEF Supply!supplyVars
  <2>2. ASSUME NEW w \in Wallet, Fill(w), ~AddUnspentOutput(w)
        PROVE  UNCHANGED <<unspentOutputs, handed>>
    BY <2>2 DEF Fill, NewWallet, Address, SplitFails, RequestFails, SetWalletReady, spendVars
  <2>3. ASSUME NEW s \in Spender, Spend(s), ~ReadOutput(s)
        PROVE  UNCHANGED <<unspentOutputs, handed>>
    BY <2>3 DEF Spend, freshWallet, CheckCounters, getAndIncNextAddrToSpent, fillVars
  <2>4. CASE UNCHANGED vars
    BY <2>1, <2>4 DEF vars, fillVars, spendVars
  <2> QED BY <2>1, <2>2, <2>3, <2>4, StoringDeposits, ReadingHandsOut DEF PoolNext
<1> QED BY <1>1, SupplyStarts, QueueInvariant, PTL DEF Spec, ImplementsSupply, Supply!SupplySpec

-----------------------------------------------------------------------------
(* What the comment of freshWallet says, with one spender *)

\* With a single goroutine the counter of a wallet never passes its end: the
\* check still holds when the index is claimed.
LEMMA NeverPast ==
    ASSUME Cardinality(Spender) = 1, QueueInv, NEW w \in Wallet
    PROVE  nextAddrToSpent[w] <= nextAddrIdxToUse[w]
<1>1. Claiming(w) \in SUBSET Spender
  BY DEF Claiming
<1>2. Cardinality(Claiming(w)) \in Nat
  BY <1>1, SpenderFacts
<1>3. nextAddrToSpent[w] + Cardinality(Claiming(w)) <= nextAddrIdxToUse[w] + 1 - 1
  BY DEF QueueInv, PoolInv, OvershootBounded
<1>4. nextAddrToSpent[w] \in Nat /\ nextAddrIdxToUse[w] \in Nat
  BY PoolAssumption, SpenderFacts DEF QueueInv, PoolInv, TypeOK, Index
<1> QED BY <1>2, <1>3, <1>4

\* A single spender gets a wallet that still has an output from freshWallet,
\* as its comment says: the head that it does not drop has one, and the next
\* in the queue is untouched.  With two spenders a run refutes it.
THEOREM OneSpenderIsServed ==
    ASSUME Cardinality(Spender) = 1
    PROVE  Spec => FreshWalletNonEmpty
<1>1. QueueInv /\ [PoolNext]_vars =>
        [\A s \in Spender : pc[s] = "idle" /\ pc'[s] = "check" =>
            nextAddrToSpent[input'[s]] < nextAddrIdxToUse[input'[s]]]_vars
  <2> SUFFICES ASSUME QueueInv, PoolNext, NEW s \in Spender, pc[s] = "idle", pc'[s] = "check"
               PROVE  nextAddrToSpent[input'[s]] < nextAddrIdxToUse[input'[s]]
    OBVIOUS
  <2> USE DEF QueueInv, PoolInv
  <2>1. PICK t \in Spender : Spend(t)
    BY DEF PoolNext, Fill, NewWallet, Address, AddUnspentOutput, SplitFails, RequestFails,
           SetWalletReady, spendVars
  <2>2. t = s /\ freshWallet(s)
    BY <2>1 DEF Spend, freshWallet, CheckCounters, getAndIncNextAddrToSpent, ReadOutput, Return,
                TypeOK
  <2>3. isFaucetWalletAvailable(TrimmedQueue) /\ input' = [input EXCEPT ![s] = Head(TrimmedQueue)]
    BY <2>2 DEF freshWallet
  <2>4. PICK w : w = Head(TrimmedQueue)
    OBVIOUS
  <2>5. input'[s] = w
    BY <2>3, <2>4 DEF TypeOK
  <2>6. faucetWallets \in Seq(Wallet) /\ faucetWallets # <<>>
    BY <2>3 DEF TrimmedQueue, isFaucetWalletAvailable, TypeOK
  <2>7. CASE IsEmpty(Head(faucetWallets))
    <3>1. TrimmedQueue = Tail(faucetWallets)
      BY <2>6, <2>7 DEF TrimmedQueue, isFaucetWalletAvailable
    <3>2. Len(faucetWallets) >= 2 /\ w = faucetWallets[2]
      BY <2>3, <2>4, <2>6, <3>1 DEF isFaucetWalletAvailable
    <3>3. nextAddrToSpent[w] = 0 /\ nextAddrIdxToUse[w] > 0
      BY <2>6, <3>2 DEF QueueSound
    <3> QED BY <2>5, <3>3
  <2>8. CASE ~IsEmpty(Head(faucetWallets))
    <3>1. w = Head(faucetWallets) /\ w \in Wallet
      BY <2>4, <2>6, <2>8 DEF TrimmedQueue
    <3>2. nextAddrIdxToUse[w] # nextAddrToSpent[w]
      BY <2>8, <3>1, EmptyMeansSpent
    <3>3. nextAddrToSpent[w] \in Nat /\ nextAddrIdxToUse[w] \in Nat
      BY <3>1, PoolAssumption, SpenderFacts DEF TypeOK, Index
    <3> QED BY <2>5, <3>1, <3>2, <3>3, NeverPast
  <2> QED BY <2>7, <2>8
<1> QED BY <1>1, QueueInvariant, PTL DEF Spec, FreshWalletNonEmpty

=============================================================================
