-------------------------- MODULE WalletPoolProofs --------------------------
(***************************************************************************)
(* Proofs about the pool of Fresh outputs, for any number of wallets and   *)
(* spenders, any wallet size and any width of the counters within          *)
(* PoolAssumption.                                                         *)
(***************************************************************************)
EXTENDS WalletPool, FiniteSetTheorems, TLAPS

\* Strengthening of HandedOnce: an index at or past nextAddrToSpent was never
\* handed out; an index a spender holds lies below it, was not handed out, and
\* is held by that spender only.
InFlightSound ==
    /\ \A w \in Wallet, i \in Index : i >= nextAddrToSpent[w] => handed[w][i] = 0
    /\ \A s \in Spender : pc[s] = "read" =>
            /\ index[s] < nextAddrToSpent[input[s]]
            /\ handed[input[s]][index[s]] = 0
    /\ \A s, t \in Spender :
            pc[s] = "read" /\ pc[t] = "read" /\ input[s] = input[t]
                /\ index[s] = index[t] => s = t

PoolInv == TypeOK /\ OvershootBounded /\ HandedOnce /\ InFlightSound

-----------------------------------------------------------------------------

\* A counter below the width does not wrap, and a wrapped one stays in range.
LEMMA Wrapping ==
    ASSUME NEW a \in Nat, NEW b \in Nat, a < b
    PROVE  /\ (a + 1) % b \in 0 .. b - 1
           /\ a + 1 < b => (a + 1) % b = a + 1
BY SMT

\* The spenders are finitely many and at least one, and so are any of them.
LEMMA SpenderFacts ==
    /\ Cardinality(Spender) \in Nat
    /\ Cardinality(Spender) > 0
    /\ \A S \in SUBSET Spender : /\ IsFiniteSet(S)
                                 /\ Cardinality(S) \in Nat
                                 /\ Cardinality(S) <= Cardinality(Spender)
<1>1. IsFiniteSet(Spender) /\ Spender # {}
  BY PoolAssumption
<1>2. Cardinality(Spender) \in Nat /\ Cardinality(Spender) > 0
  BY <1>1, FS_CardinalityType, FS_EmptySet
<1>3. ASSUME NEW S \in SUBSET Spender
      PROVE  /\ IsFiniteSet(S)
             /\ Cardinality(S) \in Nat
             /\ Cardinality(S) <= Cardinality(Spender)
  BY <1>1, FS_Subset, FS_CardinalityType
<1> QED BY <1>2, <1>3

\* A spender about to claim finds the counter at least two below the width.
LEMMA NoWrap ==
    ASSUME TypeOK, OvershootBounded, NEW s \in Spender, pc[s] = "claim"
    PROVE  /\ input[s] \in Wallet
           /\ nextAddrToSpent[input[s]] + 1 < Width
           /\ (nextAddrToSpent[input[s]] + 1) % Width = nextAddrToSpent[input[s]] + 1
<1> DEFINE w == input[s]
<1>1. w \in Wallet
  BY DEF TypeOK
<1>2. s \in Claiming(w) /\ Claiming(w) \in SUBSET Spender
  BY DEF Claiming
<1>3. Cardinality(Claiming(w)) \in Nat /\ Cardinality(Claiming(w)) > 0
  BY <1>2, SpenderFacts, FS_EmptySet
<1>4. /\ nextAddrToSpent[w] \in Nat /\ nextAddrIdxToUse[w] \in Nat
      /\ nextAddrIdxToUse[w] <= WalletSize
  BY <1>1, PoolAssumption DEF TypeOK, Index
<1>5. nextAddrToSpent[w] + Cardinality(Claiming(w))
        <= nextAddrIdxToUse[w] + Cardinality(Spender) - 1
  BY <1>1 DEF OvershootBounded
<1>6. nextAddrToSpent[w] + 1 < Width
  <2> HIDE DEF w
  <2> QED BY <1>3, <1>4, <1>5, SpenderFacts, PoolAssumption
<1>7. Width \in Nat /\ nextAddrToSpent[w] < Width
  BY <1>4, <1>6, PoolAssumption
<1> QED BY <1>1, <1>4, <1>6, <1>7, Wrapping

-----------------------------------------------------------------------------
(* Type correctness *)

\* The empty pool is well typed.
LEMMA TypeInit == PoolInit => TypeOK
BY PoolAssumption, SpenderFacts DEF PoolInit, TypeOK, Index

\* What TypeOK says of where a spender is and what it still needs.
ProgressTyped ==
    /\ pc \in [Spender -> {"idle", "check", "claim", "read"}]
    /\ input \in [Spender -> Wallet \union {NoWallet}]
    /\ \A s \in Spender : input[s] = NoWallet <=> pc[s] = "idle"
    /\ index \in [Spender -> Index]
    /\ needed \in [Spender -> 0 .. MaxInputs]
    /\ \A s \in Spender : needed[s] = 0 <=> pc[s] = "idle"
    /\ result \in [Spender -> {"none", "created", "NoFreshOutputsAvailable"}]

\* A spender that leaves CreateTransaction keeps its part of TypeOK.
LEMMA ReturnTyped ==
    ASSUME TypeOK, NEW s \in Spender,
           NEW outcome \in {"created", "NoFreshOutputsAvailable"},
           Return(s, outcome)
    PROVE  ProgressTyped'
<1>1. 0 \in Index /\ 0 \in 0 .. MaxInputs
  BY PoolAssumption, SpenderFacts DEF Index
<1>2. /\ pc' \in [Spender -> {"idle", "check", "claim", "read"}]
      /\ input' \in [Spender -> Wallet \union {NoWallet}]
      /\ index' \in [Spender -> Index]
      /\ needed' \in [Spender -> 0 .. MaxInputs]
      /\ result' \in [Spender -> {"none", "created", "NoFreshOutputsAvailable"}]
  BY <1>1 DEF TypeOK, Return
<1>3. \A t \in Spender : input'[t] = NoWallet <=> pc'[t] = "idle"
  BY DEF TypeOK, Return
<1>4. \A t \in Spender : needed'[t] = 0 <=> pc'[t] = "idle"
  BY DEF TypeOK, Return
<1> QED BY <1>2, <1>3, <1>4 DEF ProgressTyped

\* Every step of the pool keeps the types.
LEMMA TypeNext == TypeOK /\ [PoolNext]_vars => TypeOK'
<1> SUFFICES ASSUME TypeOK, [PoolNext]_vars PROVE TypeOK'
  OBVIOUS
<1> USE PoolAssumption, SpenderFacts
<1>1. ASSUME NEW w \in Wallet, NewWallet(w) PROVE TypeOK'
  BY <1>1 DEF TypeOK, NewWallet, spendVars
<1>2. ASSUME NEW w \in Wallet, Address(w) PROVE TypeOK'
  <2>1. nextAddrIdxToUse[w] \in Index
    BY <1>2 DEF TypeOK, Address, Index
  <2>2. (nextAddrIdxToUse[w] + 1) % Width = nextAddrIdxToUse[w] + 1
    BY <1>2, <2>1, Wrapping DEF TypeOK, Address, Index
  <2>3. nextAddrIdxToUse' \in [Wallet -> 0 .. WalletSize]
    BY <1>2, <2>2 DEF TypeOK, Address, Inc
  <2>4. addresses' \in [Wallet -> SUBSET Index]
    BY <1>2, <2>1 DEF TypeOK, Address
  <2> QED BY <1>2, <2>3, <2>4 DEF TypeOK, Address, spendVars, poolVars
<1>3. ASSUME NEW w \in Wallet, AddUnspentOutput(w) PROVE TypeOK'
  BY <1>3 DEF TypeOK, AddUnspentOutput, spendVars, poolVars
<1>4. ASSUME NEW w \in Wallet, SplitFails(w) PROVE TypeOK'
  BY <1>4 DEF TypeOK, SplitFails, spendVars, poolVars
<1>5. ASSUME NEW w \in Wallet, RequestFails(w) PROVE TypeOK'
  BY <1>5 DEF TypeOK, RequestFails, spendVars, poolVars
<1>6. ASSUME NEW w \in Wallet, SetWalletReady(w) PROVE TypeOK'
  <2>1. faucetWallets' \in Seq(Wallet)
    BY <1>6 DEF TypeOK, SetWalletReady, Enqueue
  <2> QED BY <1>6, <2>1 DEF TypeOK, SetWalletReady, spendVars
<1>7. ASSUME NEW s \in Spender, freshWallet(s) PROVE TypeOK'
  <2>1. /\ TrimmedQueue \in Seq(Wallet)
        /\ TrimmedQueue # <<>> => Head(TrimmedQueue) \in Wallet
    <3>1. faucetWallets \in Seq(Wallet)
      BY DEF TypeOK
    <3>2. faucetWallets # <<>> => Tail(faucetWallets) \in Seq(Wallet)
      BY <3>1
    <3>3. TrimmedQueue \in Seq(Wallet)
      BY <3>1, <3>2 DEF TrimmedQueue, isFaucetWalletAvailable
    <3> QED BY <3>3
  <2>2. faucetWallets' \in Seq(Wallet) /\ wallets' \in SUBSET Wallet
    BY <1>7, <2>1 DEF TypeOK, freshWallet
  <2>3. ProgressTyped'
    <3>1. CASE TrimmedQueue = <<>>
      BY <1>7, <3>1 DEF TypeOK, freshWallet, isFaucetWalletAvailable, ProgressTyped
    <3>2. CASE TrimmedQueue # <<>>
      <4>1. PICK n \in 1 .. MaxInputs : needed' = [needed EXCEPT ![s] = n]
        BY <1>7, <3>2 DEF freshWallet, isFaucetWalletAvailable
      <4>2. n \in 0 .. MaxInputs /\ n # 0
        BY <4>1
      <4>3. /\ needed' \in [Spender -> 0 .. MaxInputs]
            /\ \A t \in Spender : needed'[t] = IF t = s THEN n ELSE needed[t]
        BY <4>1, <4>2 DEF TypeOK
      <4>4. Head(TrimmedQueue) \in Wallet /\ Head(TrimmedQueue) # NoWallet
        BY <2>1, <3>2
      <4>5. /\ pc' = [pc EXCEPT ![s] = "check"]
            /\ input' = [input EXCEPT ![s] = Head(TrimmedQueue)]
            /\ result' = [result EXCEPT ![s] = "none"]
            /\ index' = index
        BY <1>7, <3>2 DEF freshWallet, isFaucetWalletAvailable
      <4>6. /\ pc' \in [Spender -> {"idle", "check", "claim", "read"}]
            /\ input' \in [Spender -> Wallet \union {NoWallet}]
            /\ result' \in [Spender -> {"none", "created", "NoFreshOutputsAvailable"}]
            /\ index' \in [Spender -> Index]
        BY <4>4, <4>5 DEF TypeOK
      <4>7. \A t \in Spender : input'[t] = NoWallet <=> pc'[t] = "idle"
        BY <4>4, <4>5 DEF TypeOK
      <4>8. \A t \in Spender : needed'[t] = 0 <=> pc'[t] = "idle"
        BY <4>2, <4>3, <4>5 DEF TypeOK
      <4> QED BY <4>3, <4>6, <4>7, <4>8 DEF ProgressTyped
    <3> QED BY <3>1, <3>2
  <2> QED BY <1>7, <2>2, <2>3 DEF TypeOK, ProgressTyped, freshWallet, fillVars
<1>8. ASSUME NEW s \in Spender, CheckCounters(s) PROVE TypeOK'
  <2>1. CASE HasUnspentOutput(input[s])
    <3>1. UNCHANGED <<fillVars, poolVars, nextAddrToSpent, input, index, needed, result, handed>>
          /\ pc' = [pc EXCEPT ![s] = "claim"]
      BY <1>8, <2>1 DEF CheckCounters
    <3>2. \A t \in Spender : pc'[t] = "idle" <=> pc[t] = "idle"
      BY <1>8, <3>1 DEF TypeOK, CheckCounters
    <3>3. pc' \in [Spender -> {"idle", "check", "claim", "read"}]
      BY <3>1 DEF TypeOK
    <3> QED BY <3>1, <3>2, <3>3 DEF TypeOK, fillVars, poolVars
  <2>2. CASE ~HasUnspentOutput(input[s])
    <3>1. ProgressTyped'
      BY <1>8, <2>2, ReturnTyped DEF CheckCounters
    <3> QED BY <1>8, <3>1 DEF TypeOK, ProgressTyped, CheckCounters, fillVars, poolVars
  <2> QED BY <2>1, <2>2
<1>9. ASSUME NEW s \in Spender, getAndIncNextAddrToSpent(s) PROVE TypeOK'
  <2>1. input[s] \in Wallet /\ nextAddrToSpent[input[s]] \in Index
    BY <1>9 DEF TypeOK, getAndIncNextAddrToSpent
  <2>2. (nextAddrToSpent[input[s]] + 1) % Width \in Index
    BY <2>1, Wrapping DEF Index
  <2> QED BY <1>9, <2>1, <2>2
          DEF TypeOK, getAndIncNextAddrToSpent, Advance, Inc, fillVars, poolVars
<1>10. ASSUME NEW s \in Spender, ReadOutput(s) PROVE TypeOK'
  <2>1. input[s] \in Wallet /\ index[s] \in Index
    BY <1>10 DEF TypeOK, ReadOutput
  <2>2. handed' \in [Wallet -> [Index -> Nat]]
    <3>1. handed[input[s]] \in [Index -> Nat] /\ handed[input[s]][index[s]] + 1 \in Nat
      BY <2>1 DEF TypeOK
    <3>2. CASE OutputFound(s)
      <4> DEFINE h == [handed[input[s]] EXCEPT ![index[s]] = @ + 1]
      <4>1. h \in [Index -> Nat]
        BY <2>1, <3>1
      <4>2. handed' = [handed EXCEPT ![input[s]] = h]
        BY <1>10, <3>2 DEF ReadOutput
      <4> HIDE DEF h
      <4> QED BY <2>1, <4>1, <4>2 DEF TypeOK
    <3>3. CASE ~OutputFound(s)
      BY <1>10, <3>3 DEF TypeOK, ReadOutput
    <3> QED BY <3>2, <3>3
  <2>3. ProgressTyped'
    <3>1. CASE OutputFound(s) /\ needed[s] > 1
      <4>1. needed[s] - 1 \in 0 .. MaxInputs /\ needed[s] - 1 # 0
        BY <3>1 DEF TypeOK
      <4>2. /\ pc' = [pc EXCEPT ![s] = "check"]
            /\ needed' = [needed EXCEPT ![s] = needed[s] - 1]
            /\ UNCHANGED <<input, index, result>>
        BY <1>10, <3>1 DEF ReadOutput
      <4>3. pc[s] # "idle"
        BY <1>10 DEF ReadOutput
      <4>4. \A t \in Spender : needed'[t] = 0 <=> pc'[t] = "idle"
        BY <4>1, <4>2, <4>3 DEF TypeOK
      <4>5. \A t \in Spender : input'[t] = NoWallet <=> pc'[t] = "idle"
        BY <4>2, <4>3 DEF TypeOK
      <4> QED BY <4>1, <4>2, <4>4, <4>5 DEF TypeOK, ProgressTyped
    <3>2. CASE ~(OutputFound(s) /\ needed[s] > 1)
      BY <1>10, <3>2, ReturnTyped DEF ReadOutput
    <3> QED BY <3>1, <3>2
  <2> QED BY <1>10, <2>2, <2>3 DEF TypeOK, ProgressTyped, ReadOutput, fillVars, poolVars
<1>11. CASE UNCHANGED vars
  BY <1>11 DEF TypeOK, vars, fillVars, poolVars, spendVars
<1> QED BY <1>1, <1>2, <1>3, <1>4, <1>5, <1>6, <1>7, <1>8, <1>9, <1>10, <1>11
        DEF PoolNext, Fill, Spend

\* TypeOK holds of the pool, whatever the constants.
THEOREM TypeCorrect == Spec => []TypeOK
BY TypeInit, TypeNext, PTL DEF Spec

-----------------------------------------------------------------------------
(* How far the unlocked check lets the counter run *)

\* No index of the empty pool has been claimed.
LEMMA OvershootInit == PoolInit => OvershootBounded
<1> SUFFICES ASSUME PoolInit, NEW w \in Wallet
             PROVE  nextAddrToSpent[w] + Cardinality(Claiming(w))
                        <= nextAddrIdxToUse[w] + Cardinality(Spender) - 1
  BY DEF OvershootBounded
<1>1. Claiming(w) = {}
  BY DEF PoolInit, Claiming
<1> QED BY <1>1, SpenderFacts, FS_EmptySet DEF PoolInit

\* A step that keeps the claiming spenders and the counters keeps the bound.
LEMMA OvershootFrame ==
    ASSUME TypeOK, OvershootBounded, nextAddrToSpent' = nextAddrToSpent,
           \A w \in Wallet : nextAddrIdxToUse[w] <= nextAddrIdxToUse'[w],
           TypeOK',
           \A s \in Spender : pc'[s] = "claim" <=> pc[s] = "claim",
           \A s \in Spender : pc[s] = "claim" => input'[s] = input[s]
    PROVE  OvershootBounded'
<1> SUFFICES ASSUME NEW w \in Wallet
             PROVE  nextAddrToSpent'[w] + Cardinality(Claiming(w)')
                        <= nextAddrIdxToUse'[w] + Cardinality(Spender) - 1
  BY DEF OvershootBounded
<1>1. Claiming(w)' = Claiming(w)
  BY DEF Claiming
<1>2. Cardinality(Claiming(w)) \in Nat /\ Cardinality(Spender) \in Nat
  BY SpenderFacts DEF Claiming
<1>3. /\ nextAddrToSpent[w] \in Nat
      /\ nextAddrIdxToUse[w] \in Nat /\ nextAddrIdxToUse'[w] \in Nat
  BY PoolAssumption DEF TypeOK, Index
<1>4. nextAddrToSpent[w] + Cardinality(Claiming(w))
        <= nextAddrIdxToUse[w] + Cardinality(Spender) - 1
  BY DEF OvershootBounded
<1> QED BY <1>1, <1>2, <1>3, <1>4

\* The bound is inductive: a spender that starts to claim saw the counter
\* below the end, and one that claims stops claiming.
LEMMA OvershootNext ==
    TypeOK /\ OvershootBounded /\ [PoolNext]_vars => OvershootBounded'
<1> SUFFICES ASSUME TypeOK, OvershootBounded, [PoolNext]_vars
             PROVE  OvershootBounded'
  OBVIOUS
<1>0. TypeOK'
  BY TypeNext
<1>1. ASSUME NEW w \in Wallet, Fill(w) PROVE OvershootBounded'
  <2>1. UNCHANGED <<nextAddrToSpent, pc, input>>
    BY <1>1 DEF Fill, NewWallet, Address, AddUnspentOutput, SplitFails,
                RequestFails, SetWalletReady, spendVars
  <2>2. ASSUME NEW v \in Wallet PROVE nextAddrIdxToUse[v] <= nextAddrIdxToUse'[v]
    <3>1. nextAddrIdxToUse[v] \in 0 .. WalletSize
      BY DEF TypeOK
    <3>2. CASE Address(w)
      <4>1. nextAddrIdxToUse[w] \in Nat /\ nextAddrIdxToUse[w] < WalletSize
        BY <3>2 DEF TypeOK, Address
      <4>2. (nextAddrIdxToUse[w] + 1) % Width = nextAddrIdxToUse[w] + 1
        BY <4>1, Wrapping, PoolAssumption, SpenderFacts
      <4> QED BY <3>1, <3>2, <4>1, <4>2 DEF TypeOK, Address, Inc
    <3>3. CASE UNCHANGED nextAddrIdxToUse
      BY <3>1, <3>3
    <3> QED BY <1>1, <3>2, <3>3 DEF Fill, NewWallet, AddUnspentOutput,
                                    SplitFails, RequestFails, SetWalletReady
  <2> QED BY <1>0, <2>1, <2>2, OvershootFrame
<1>2. ASSUME NEW s \in Spender, freshWallet(s) PROVE OvershootBounded'
  <2>1. UNCHANGED <<nextAddrToSpent, nextAddrIdxToUse>>
    BY <1>2 DEF freshWallet, fillVars
  <2>2. /\ \A t \in Spender : pc'[t] = "claim" <=> pc[t] = "claim"
        /\ \A t \in Spender : pc[t] = "claim" => input'[t] = input[t]
    BY <1>2 DEF freshWallet, TypeOK
  <2>3. \A v \in Wallet : nextAddrIdxToUse[v] <= nextAddrIdxToUse'[v]
    BY <2>1, PoolAssumption DEF TypeOK
  <2> QED BY <1>0, <2>1, <2>2, <2>3, OvershootFrame
<1>3. ASSUME NEW s \in Spender, CheckCounters(s) PROVE OvershootBounded'
  <2>1. UNCHANGED <<nextAddrToSpent, nextAddrIdxToUse>> /\ pc[s] = "check"
    BY <1>3 DEF CheckCounters, fillVars
  <2>2. \A v \in Wallet : nextAddrIdxToUse[v] <= nextAddrIdxToUse'[v]
    BY <2>1, PoolAssumption DEF TypeOK
  <2>3. CASE ~HasUnspentOutput(input[s])
    <3>1. /\ \A t \in Spender : pc'[t] = "claim" <=> pc[t] = "claim"
          /\ \A t \in Spender : pc[t] = "claim" => input'[t] = input[t]
      BY <1>3, <2>3 DEF CheckCounters, Return, TypeOK
    <3> QED BY <1>0, <2>1, <2>2, <3>1, OvershootFrame
  <2>4. CASE HasUnspentOutput(input[s])
    <3> SUFFICES ASSUME NEW w \in Wallet
                 PROVE  nextAddrToSpent'[w] + Cardinality(Claiming(w)')
                            <= nextAddrIdxToUse'[w] + Cardinality(Spender) - 1
      BY DEF OvershootBounded
    <3>1. pc' = [pc EXCEPT ![s] = "claim"] /\ input' = input
      BY <1>3, <2>4 DEF CheckCounters
    <3>2. /\ nextAddrToSpent[w] \in Nat /\ nextAddrIdxToUse[w] \in Nat
          /\ Cardinality(Claiming(w)') \in Nat
          /\ Cardinality(Claiming(w)') <= Cardinality(Spender)
          /\ Cardinality(Spender) \in Nat
      <4>1. Claiming(w)' \in SUBSET Spender
        BY DEF Claiming
      <4>2. nextAddrToSpent[w] \in Nat /\ nextAddrIdxToUse[w] \in Nat
        BY PoolAssumption DEF TypeOK, Index
      <4> QED BY <4>1, <4>2, SpenderFacts
    <3>3. CASE w = input[s]
      BY <2>1, <2>4, <3>2, <3>3 DEF HasUnspentOutput
    <3>4. CASE w # input[s]
      <4>1. Claiming(w)' = Claiming(w)
        BY <3>1, <3>4, <2>1 DEF Claiming, TypeOK
      <4> QED BY <2>1, <4>1 DEF OvershootBounded
    <3> QED BY <3>3, <3>4
  <2> QED BY <2>3, <2>4
<1>4. ASSUME NEW s \in Spender, getAndIncNextAddrToSpent(s) PROVE OvershootBounded'
  <2> SUFFICES ASSUME NEW w \in Wallet
               PROVE  nextAddrToSpent'[w] + Cardinality(Claiming(w)')
                          <= nextAddrIdxToUse'[w] + Cardinality(Spender) - 1
    BY DEF OvershootBounded
  <2>1. /\ pc[s] = "claim" /\ pc' = [pc EXCEPT ![s] = "read"]
        /\ UNCHANGED <<input, nextAddrIdxToUse>>
    BY <1>4 DEF getAndIncNextAddrToSpent, fillVars
  <2>2. /\ input[s] \in Wallet
        /\ nextAddrToSpent' = [nextAddrToSpent EXCEPT
                                  ![input[s]] = nextAddrToSpent[input[s]] + 1]
    BY <1>4, <2>1, NoWrap DEF getAndIncNextAddrToSpent, Advance, Inc
  <2>3. nextAddrToSpent[w] + Cardinality(Claiming(w))
            <= nextAddrIdxToUse[w] + Cardinality(Spender) - 1
    BY DEF OvershootBounded
  <2>4. /\ nextAddrToSpent[w] \in Nat /\ nextAddrIdxToUse[w] \in Nat
        /\ IsFiniteSet(Claiming(w)) /\ Cardinality(Claiming(w)) \in Nat
        /\ Cardinality(Spender) \in Nat
    <3>1. Claiming(w) \in SUBSET Spender
      BY DEF Claiming
    <3>2. nextAddrToSpent[w] \in Nat /\ nextAddrIdxToUse[w] \in Nat
      BY PoolAssumption DEF TypeOK, Index
    <3> QED BY <3>1, <3>2, SpenderFacts
  <2>5. CASE w = input[s]
    <3>1. s \in Claiming(w) /\ Claiming(w)' = Claiming(w) \ {s}
      BY <2>1, <2>5 DEF Claiming, TypeOK
    <3>2. Cardinality(Claiming(w)') = Cardinality(Claiming(w)) - 1
      BY <2>4, <3>1, FS_RemoveElement
    <3>3. nextAddrToSpent'[w] = nextAddrToSpent[w] + 1
      BY <2>2, <2>5 DEF TypeOK
    <3> QED BY <2>1, <2>3, <2>4, <3>2, <3>3
  <2>6. CASE w # input[s]
    <3>1. Claiming(w)' = Claiming(w)
      BY <2>1, <2>6 DEF Claiming, TypeOK
    <3>2. nextAddrToSpent'[w] = nextAddrToSpent[w]
      BY <2>2, <2>6 DEF TypeOK
    <3> QED BY <2>1, <2>3, <3>1, <3>2
  <2> QED BY <2>5, <2>6
<1>5. ASSUME NEW s \in Spender, ReadOutput(s) PROVE OvershootBounded'
  <2>1. UNCHANGED <<nextAddrToSpent, nextAddrIdxToUse>>
    BY <1>5 DEF ReadOutput, fillVars
  <2>2. /\ \A t \in Spender : pc'[t] = "claim" <=> pc[t] = "claim"
        /\ \A t \in Spender : pc[t] = "claim" => input'[t] = input[t]
    BY <1>5 DEF ReadOutput, Return, TypeOK
  <2>3. \A v \in Wallet : nextAddrIdxToUse[v] <= nextAddrIdxToUse'[v]
    BY <2>1, PoolAssumption DEF TypeOK
  <2> QED BY <1>0, <2>1, <2>2, <2>3, OvershootFrame
<1>6. CASE UNCHANGED vars
  <2>1. \A v \in Wallet : nextAddrIdxToUse[v] <= nextAddrIdxToUse'[v]
    BY <1>6, PoolAssumption DEF TypeOK, vars, fillVars
  <2> QED BY <1>0, <1>6, <2>1, OvershootFrame DEF vars, fillVars, spendVars
<1> QED BY <1>1, <1>2, <1>3, <1>4, <1>5, <1>6 DEF PoolNext, Spend

\* The spent counter of a wallet passes its end by fewer than the spenders.
THEOREM OvershootIsBounded == Spec => []OvershootBounded
<1>1. PoolInit => TypeOK /\ OvershootBounded
  BY TypeInit, OvershootInit
<1>2. TypeOK /\ OvershootBounded /\ [PoolNext]_vars => (TypeOK /\ OvershootBounded)'
  BY TypeNext, OvershootNext
<1> QED BY <1>1, <1>2, PTL DEF Spec

-----------------------------------------------------------------------------
(* No output is handed out twice *)

\* Nothing of the empty pool was handed out or is held by a spender.
LEMMA HandedInit == PoolInit => HandedOnce /\ InFlightSound
BY DEF PoolInit, HandedOnce, InFlightSound

\* A step that moves no counter, hands nothing out and makes no spender hold
\* an index it did not hold.
LEMMA HandedFrame ==
    ASSUME HandedOnce, InFlightSound, nextAddrToSpent' = nextAddrToSpent,
           handed' = handed,
           \A s \in Spender : pc'[s] = "read" =>
                /\ pc[s] = "read"
                /\ input'[s] = input[s]
                /\ index'[s] = index[s]
    PROVE  HandedOnce' /\ InFlightSound'
<1>1. HandedOnce'
  BY DEF HandedOnce
<1>2. \A w \in Wallet, i \in Index : i >= nextAddrToSpent'[w] => handed'[w][i] = 0
  BY DEF InFlightSound
<1>3. \A s \in Spender : pc'[s] = "read" =>
            /\ index'[s] < nextAddrToSpent'[input'[s]]
            /\ handed'[input'[s]][index'[s]] = 0
  BY DEF InFlightSound
<1>4. \A s, t \in Spender :
            pc'[s] = "read" /\ pc'[t] = "read" /\ input'[s] = input'[t]
                /\ index'[s] = index'[t] => s = t
  BY DEF InFlightSound
<1> QED BY <1>1, <1>2, <1>3, <1>4 DEF InFlightSound

\* The claim: the index taken was at the counter, so nobody holds it and it
\* was never handed out; the counter moves past it.
LEMMA HandedClaim ==
    ASSUME TypeOK, OvershootBounded, HandedOnce, InFlightSound,
           NEW s \in Spender, getAndIncNextAddrToSpent(s)
    PROVE  HandedOnce' /\ InFlightSound'
<1> DEFINE w == input[s]
           n == nextAddrToSpent[w]
<1>1. /\ pc[s] = "claim" /\ pc' = [pc EXCEPT ![s] = "read"]
      /\ index' = [index EXCEPT ![s] = n]
      /\ UNCHANGED <<input, handed>>
  BY DEF getAndIncNextAddrToSpent
<1>2. /\ w \in Wallet
      /\ nextAddrToSpent' = [nextAddrToSpent EXCEPT ![w] = n + 1]
  BY <1>1, NoWrap DEF getAndIncNextAddrToSpent, Advance, Inc
<1>3. n \in Index /\ n \in Nat
  BY <1>2, PoolAssumption DEF TypeOK, Index
<1>4. \A v \in Wallet : /\ nextAddrToSpent[v] \in Nat
                        /\ nextAddrToSpent'[v] \in Nat
                        /\ nextAddrToSpent'[v] >= nextAddrToSpent[v]
  <2>1. \A v \in Wallet : nextAddrToSpent[v] \in Nat
    BY PoolAssumption DEF TypeOK, Index
  <2>2. \A v \in Wallet : nextAddrToSpent'[v] = IF v = w THEN n + 1 ELSE nextAddrToSpent[v]
    BY <1>2 DEF TypeOK
  <2> HIDE DEF w
  <2> QED BY <1>3, <2>1, <2>2
<1>5. \A i \in Index : i \in Int
  BY DEF Index
<1>6. /\ \A t \in Spender : pc'[t] = IF t = s THEN "read" ELSE pc[t]
      /\ \A t \in Spender : index'[t] = IF t = s THEN n ELSE index[t]
      /\ \A t \in Spender : index[t] \in Int
      /\ \A t \in Spender : pc[t] = "read" => input[t] \in Wallet
      /\ nextAddrToSpent'[w] = n + 1
  BY <1>1, <1>2, <1>5 DEF TypeOK
<1>7. HandedOnce'
  BY <1>1 DEF HandedOnce
<1> HIDE DEF n
<1>8. \A v \in Wallet, i \in Index : i >= nextAddrToSpent'[v] => handed'[v][i] = 0
  BY <1>1, <1>4, <1>5 DEF InFlightSound
<1>9. ASSUME NEW t \in Spender, pc'[t] = "read"
      PROVE  /\ index'[t] < nextAddrToSpent'[input'[t]]
             /\ handed'[input'[t]][index'[t]] = 0
  <2>1. CASE t = s
    <3>1. handed[w][n] = 0
      BY <1>2, <1>3 DEF InFlightSound, n
    <3> QED BY <1>1, <1>3, <1>6, <2>1, <3>1
  <2>2. CASE t # s
    BY <1>1, <1>4, <1>6, <1>9, <2>2 DEF InFlightSound
  <2> QED BY <2>1, <2>2
<1>10. ASSUME NEW t \in Spender, NEW u \in Spender, pc'[t] = "read", pc'[u] = "read",
              input'[t] = input'[u], index'[t] = index'[u]
       PROVE  t = u
  <2>1. ASSUME NEW v \in Spender, pc[v] = "read", input[v] = w
        PROVE  index[v] < n
    BY <2>1 DEF InFlightSound, n
  <2>2. CASE t # s /\ u # s
    BY <1>1, <1>6, <1>10, <2>2 DEF InFlightSound
  <2>3. CASE t = s /\ u # s
    BY <1>1, <1>3, <1>6, <1>10, <2>1, <2>3
  <2>4. CASE t # s /\ u = s
    BY <1>1, <1>3, <1>6, <1>10, <2>1, <2>4
  <2> QED BY <2>2, <2>3, <2>4
<1> QED BY <1>7, <1>8, <1>9, <1>10 DEF InFlightSound

\* The read: the index handed out was held by this spender alone, who lets
\* it go.
LEMMA HandedRead ==
    ASSUME TypeOK, HandedOnce, InFlightSound, NEW s \in Spender, ReadOutput(s)
    PROVE  HandedOnce' /\ InFlightSound'
<1> DEFINE w == input[s]
           i == index[s]
<1>1. /\ pc[s] = "read" /\ pc'[s] # "read"
      /\ \A t \in Spender : t # s => /\ pc'[t] = pc[t]
                                     /\ input'[t] = input[t]
                                     /\ index'[t] = index[t]
      /\ UNCHANGED nextAddrToSpent
  BY DEF ReadOutput, Return, TypeOK
<1>2. w \in Wallet /\ i \in Index
  BY <1>1 DEF TypeOK
<1>3. CASE ~OutputFound(s)
  <2>1. handed' = handed
    BY <1>3 DEF ReadOutput
  <2> QED BY <1>1, <2>1, HandedFrame
<1>4. CASE OutputFound(s)
  <2>1. handed' = [handed EXCEPT ![w][i] = @ + 1]
    BY <1>4 DEF ReadOutput
  <2>2. handed[w][i] = 0 /\ i < nextAddrToSpent[w]
    BY <1>1 DEF InFlightSound
  <2>3. /\ handed'[w][i] = 1
        /\ \A v \in Wallet, j \in Index :
                v # w \/ j # i => handed'[v][j] = handed[v][j]
    <3>1. handed \in [Wallet -> [Index -> Nat]]
      BY DEF TypeOK
    <3> HIDE DEF w, i
    <3> QED BY <1>2, <2>1, <2>2, <3>1
  <2>4. HandedOnce'
    BY <2>3 DEF HandedOnce
  <2>5. ASSUME NEW v \in Wallet, NEW j \in Index, j >= nextAddrToSpent'[v]
        PROVE  handed'[v][j] = 0
    <3>1. v # w \/ j # i
      BY <1>1, <1>2, <2>2, <2>5, PoolAssumption DEF TypeOK, Index
    <3> QED BY <1>1, <2>3, <2>5, <3>1 DEF InFlightSound
  <2>6. ASSUME NEW t \in Spender, pc'[t] = "read"
        PROVE  /\ index'[t] < nextAddrToSpent'[input'[t]]
               /\ handed'[input'[t]][index'[t]] = 0
    <3>1. t # s /\ pc[t] = "read" /\ input'[t] = input[t] /\ index'[t] = index[t]
      BY <1>1, <2>6
    <3>2. input[t] \in Wallet /\ index[t] \in Index
      BY <3>1 DEF TypeOK
    <3>3. input[t] # w \/ index[t] # i
      BY <1>1, <3>1 DEF InFlightSound
    <3> QED BY <1>1, <2>3, <3>1, <3>2, <3>3 DEF InFlightSound
  <2>7. \A t, u \in Spender :
            pc'[t] = "read" /\ pc'[u] = "read" /\ input'[t] = input'[u]
                /\ index'[t] = index'[u] => t = u
    BY <1>1 DEF InFlightSound
  <2> QED BY <2>4, <2>5, <2>6, <2>7 DEF InFlightSound
<1> QED BY <1>3, <1>4

\* PoolInv is inductive.
LEMMA PoolInvNext == PoolInv /\ [PoolNext]_vars => PoolInv'
<1> SUFFICES ASSUME PoolInv, [PoolNext]_vars PROVE HandedOnce' /\ InFlightSound'
  BY TypeNext, OvershootNext DEF PoolInv
<1> USE DEF PoolInv
<1>1. ASSUME NEW w \in Wallet, Fill(w) PROVE HandedOnce' /\ InFlightSound'
  <2>1. UNCHANGED <<nextAddrToSpent, spendVars>>
    BY <1>1 DEF Fill, NewWallet, Address, AddUnspentOutput, SplitFails,
                RequestFails, SetWalletReady
  <2> QED BY <2>1, HandedFrame DEF spendVars
<1>2. ASSUME NEW s \in Spender, freshWallet(s) PROVE HandedOnce' /\ InFlightSound'
  <2>1. /\ UNCHANGED <<nextAddrToSpent, handed>>
        /\ \A t \in Spender : pc'[t] = "read" =>
                pc[t] = "read" /\ input'[t] = input[t] /\ index'[t] = index[t]
    BY <1>2 DEF freshWallet, TypeOK
  <2> QED BY <2>1, HandedFrame
<1>3. ASSUME NEW s \in Spender, CheckCounters(s) PROVE HandedOnce' /\ InFlightSound'
  <2>1. /\ UNCHANGED <<nextAddrToSpent, handed>>
        /\ \A t \in Spender : pc'[t] = "read" =>
                pc[t] = "read" /\ input'[t] = input[t] /\ index'[t] = index[t]
    BY <1>3 DEF CheckCounters, Return, TypeOK
  <2> QED BY <2>1, HandedFrame
<1>4. ASSUME NEW s \in Spender, getAndIncNextAddrToSpent(s)
      PROVE  HandedOnce' /\ InFlightSound'
  BY <1>4, HandedClaim
<1>5. ASSUME NEW s \in Spender, ReadOutput(s) PROVE HandedOnce' /\ InFlightSound'
  BY <1>5, HandedRead
<1>6. CASE UNCHANGED vars
  BY <1>6, HandedFrame DEF vars, spendVars
<1> QED BY <1>1, <1>2, <1>3, <1>4, <1>5, <1>6 DEF PoolNext, Spend

\* No output of the pool is handed out twice, however many goroutines race
\* through the unlocked check, and although the counters are modular.
THEOREM NoDoubleHandOut == Spec => []HandedOnce
<1>1. PoolInit => PoolInv
  BY TypeInit, OvershootInit, HandedInit DEF PoolInv
<1>2. PoolInv => HandedOnce
  BY DEF PoolInv
<1> QED BY <1>1, <1>2, PoolInvNext, PTL DEF Spec

=============================================================================
