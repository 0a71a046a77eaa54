------------------------- MODULE FundsRequesterProofs -------------------------
(***************************************************************************)
(* Proofs about the faucet requester beside a spam, for any number of      *)
(* workers, any parameters of the spam and any size of the splits.         *)
(***************************************************************************)
EXTENDS FundsRequester, TLAPS

\* Every output of a finite spam came with a wallet, one that is counted or one
\* whose worker is about to count it, and what it did not bring is lacking.
Funded == ~Infinite => left + used + lacking = (walletsReady + returning) * WalletSize

\* The requester shut the pool down when enough wallets were counted.
EnoughCounted == pool = "off" => ~Infinite /\ walletsReady >= totalWalletsNeeded

FundsInv == TypeOK /\ Funded /\ EnoughCounted

\* The parameters are numbers, and so is what is planned from them.
LEMMA PlanFacts ==
    ASSUME TypeOK
    PROVE  /\ params.NSpend \in Nat \ {0} /\ params.rate \in Nat \ {0}
           /\ params.duration \in Int /\ (~Infinite => params.duration \in Nat)
           /\ params.type \in DOMAIN scenariosMap
           /\ WalletSize \in Nat \ {0} /\ Taken \in Nat /\ numOfInputs \in Nat
           /\ totalWalletsNeeded \in Int
           /\ Workers \in Nat /\ MaxQueued \in Nat
<1>1. /\ params.NSpend \in Nat \ {0} /\ params.rate \in Nat \ {0}
      /\ params.duration \in Nat \union {InfiniteDuration}
      /\ params.type \in DOMAIN scenariosMap
      /\ numOfInputs = EvaluateNumOfBatchInputs(params.type, params.NSpend)
      /\ Taken = Cardinality(inputsOf(scenariosMap[params.type]))
  BY RequesterAssumption DEF TypeOK, numOfInputs, NumOfInputs, Taken, Inputs
<1>2. params.duration \in Int /\ (~Infinite => params.duration \in Nat)
  BY <1>1 DEF InfiniteDuration, Infinite
<1>3. /\ Second \in Nat \ {0} /\ FaucetSplitNumber \in Nat \ {0}
      /\ Workers \in Nat /\ MaxQueued \in Nat
  BY RequesterAssumption
<1>4. WalletSize \in Nat \ {0}
  BY <1>3 DEF WalletSize
<1>5. Taken \in Nat
  BY <1>1, ScenariosAssumption
<1>6. numOfInputs \in Nat
  <2>1. EvaluateNumOfBatchInputs(params.type, 1) \in Nat
    BY <1>1, ScenariosAssumption
  <2>2. CASE params.type = "ds"
    BY <1>1, <2>2 DEF EvaluateNumOfBatchInputs
  <2>3. CASE params.type # "ds"
    <3>1. EvaluateNumOfBatchInputs(params.type, params.NSpend)
            = EvaluateNumOfBatchInputs(params.type, 1)
      BY <1>1, <2>3 DEF EvaluateNumOfBatchInputs
    <3> QED BY <1>1, <2>1, <3>1
  <2> QED BY <2>2, <2>3
<1>7. totalWalletsNeeded \in Int
  BY <1>1, <1>2, <1>3, <1>4, <1>6 DEF totalWalletsNeeded, BigWalletsNeeded, WalletSize
<1> QED BY <1>1, <1>2, <1>3, <1>4, <1>5, <1>6, <1>7

\* Nothing has been requested at first.
LEMMA FundsInit == Init => FundsInv
<1> SUFFICES ASSUME Init PROVE FundsInv
  OBVIOUS
<1>1. TypeOK
  <2>1. Workers \in Nat /\ MaxQueued \in Nat
    BY RequesterAssumption
  <2>2. overshot \in BOOLEAN
    BY DEF Init
  <2> QED BY <2>1, <2>2 DEF Init, TypeOK
<1> QED BY <1>1, PlanFacts DEF Init, FundsInv, Funded, EnoughCounted

\* Every step keeps the books.
LEMMA FundsNext == FundsInv /\ [Next]_vars => FundsInv'
<1> SUFFICES ASSUME FundsInv, [Next]_vars PROVE FundsInv'
  OBVIOUS
<1>1. TypeOK /\ Funded /\ EnoughCounted
  BY DEF FundsInv
<1>2. /\ WalletSize \in Nat /\ Taken \in Nat /\ totalWalletsNeeded \in Int
      /\ Workers \in Nat /\ MaxQueued \in Nat
      /\ requesting \in Nat /\ returning \in Nat /\ queued \in Nat
      /\ walletsReady \in Nat /\ left \in Nat /\ holes \in Nat /\ used \in Nat
      /\ sent \in Nat /\ lacking \in Nat
  BY <1>1, PlanFacts DEF TypeOK
<1>3. params' = params
  BY DEF Next, Requester, Tasks, Spam, Return, Submit, RequesterSeesDone, StartTask,
         RequestSucceeds, RequestGives, RequestFails, CountWallet, awaitFaucetFundsReady,
         SendBatch, BatchFails, FindsNoOutput, Overshoot, SpamEnds, Shutdown, vars
<1>4. /\ (Infinite)' = Infinite /\ totalWalletsNeeded' = totalWalletsNeeded
      /\ Taken' = Taken
  BY <1>3 DEF Infinite, totalWalletsNeeded, numOfInputs, Taken
<1> HIDE DEF totalWalletsNeeded, Taken, MaxBatchesSent, WalletSize, Infinite
<1>5. CASE Return
  BY <1>1, <1>2, <1>3, <1>4, <1>5
     DEF Return, allRequested, FundsInv, TypeOK, Funded, EnoughCounted, queueVars, spamVars
<1>6. CASE Submit
  BY <1>1, <1>2, <1>3, <1>4, <1>6
     DEF Submit, FundsInv, TypeOK, Funded, EnoughCounted, queueVars, spamVars
<1>7. CASE StartTask
  BY <1>1, <1>2, <1>3, <1>4, <1>7
     DEF StartTask, FundsInv, TypeOK, Funded, EnoughCounted, queueVars, spamVars
<1>8. CASE RequestSucceeds
  <2>1. PICK f \in Fillings : RequestGives(f)
    BY <1>8 DEF RequestSucceeds
  <2>2. f.outputs \in 0 .. WalletSize /\ f.empty \in Nat /\ WalletSize - f.outputs \in Nat
    BY <1>2, RequesterAssumption
  <2>3. /\ left' = left + f.outputs /\ holes' = holes + f.empty /\ returning' = returning + 1
        /\ lacking' = IF Infinite THEN 0 ELSE lacking + (WalletSize - f.outputs)
        /\ walletsReady' = walletsReady /\ used' = used
    BY <2>1 DEF RequestGives, Count, spamVars
  <2>4. (walletsReady + (returning + 1)) * WalletSize
            = (walletsReady + returning) * WalletSize + WalletSize
    BY <1>2
  <2>5. Funded'
    BY <1>1, <1>2, <1>4, <2>2, <2>3, <2>4 DEF Funded, WalletSize
  <2>6. TypeOK'
    BY <1>1, <1>2, <1>3, <2>1, <2>2, <2>3 DEF RequestGives, TypeOK, spamVars
  <2>7. EnoughCounted'
    BY <1>1, <1>4, <2>1 DEF RequestGives, EnoughCounted
  <2> QED BY <2>5, <2>6, <2>7 DEF FundsInv
<1>9. CASE RequestFails
  BY <1>1, <1>2, <1>3, <1>4, <1>9
     DEF RequestFails, RunningAfterFailure, FundsInv, TypeOK, Funded, EnoughCounted, queueVars, spamVars
<1>10. CASE CountWallet
  <2>1. /\ returning' = returning - 1 /\ left' = left /\ used' = used /\ lacking' = lacking
        /\ returning > 0
        /\ walletsReady' = IF Infinite THEN 0 ELSE walletsReady + 1
    BY <1>10 DEF CountWallet, Count, queueVars, spamVars
  <2>2. walletsReady + 1 + (returning - 1) = walletsReady + returning
    BY <1>2
  <2>3. Funded'
    BY <1>1, <1>4, <2>1, <2>2 DEF Funded, WalletSize
  <2>4. TypeOK'
    BY <1>1, <1>2, <1>3, <1>10, <2>1 DEF CountWallet, TypeOK, queueVars, spamVars
  <2>5. EnoughCounted'
    BY <1>1, <1>2, <1>4, <1>10, <2>1 DEF CountWallet, EnoughCounted
  <2> QED BY <2>3, <2>4, <2>5 DEF FundsInv
<1>11. ASSUME NEW n \in Nat, Take(n), holes' \in Nat, overshot' \in BOOLEAN, sent' \in Nat,
              spam' \in {"awaiting", "spamming", "finished"},
              UNCHANGED <<params, ctx, requester, poolVars, lacking>>
       PROVE  FundsInv'
  BY <1>1, <1>2, <1>4, <1>11 DEF Take, Count, FundsInv, TypeOK, Funded, EnoughCounted, poolVars
<1>12. CASE SendBatch
  BY <1>1, <1>2, <1>11, <1>12 DEF SendBatch, Count, TypeOK
<1>13. CASE BatchFails
  BY <1>1, <1>2, <1>11, <1>13 DEF BatchFails, TypeOK
<1>14. CASE FindsNoOutput
  BY <1>1, <1>2, <1>11, <1>14 DEF FindsNoOutput, TypeOK
<1>15. CASE Overshoot
  BY <1>1, <1>2, <1>11, <1>15 DEF Overshoot, TypeOK
<1>16. CASE RequesterSeesDone \/ awaitFaucetFundsReady \/ SpamEnds \/ Shutdown \/ UNCHANGED vars
  BY <1>1, <1>2, <1>3, <1>4, <1>16
     DEF RequesterSeesDone, awaitFaucetFundsReady, SpamEnds, Shutdown, vars, FundsInv, TypeOK,
         Funded, EnoughCounted, poolVars, queueVars, spamVars
<1> QED BY <1>5, <1>6, <1>7, <1>8, <1>9, <1>10, <1>12, <1>13, <1>14, <1>15,
        <1>16 DEF Next, Requester, Tasks, Spam

\* The books are kept for ever.
THEOREM FundsStaySound == Spec => []FundsInv
<1>1. FundsInv /\ [Next]_vars => FundsInv'
  BY FundsNext
<1> QED BY FundsInit, <1>1, PTL DEF Spec

\* The counters of the requester are in their ranges: running counts the
\* requests under way, whichever of them fail, and no more than Workers run.
THEOREM FundsTyped == Spec => []TypeOK
<1>1. FundsInv => TypeOK
  BY DEF FundsInv
<1> QED BY FundsStaySound, <1>1, PTL

-----------------------------------------------------------------------------
(* The plan *)

\* A quotient that is rounded down and one more make up for what is divided.
LEMMA RoundedDown == \A x \in Nat, w \in Nat \ {0} : ((x \div w) + 1) * w > x
OBVIOUS

\* A part of a finite duration is left out.
LEMMA NeededFacts ==
    ASSUME TypeOK, ~Infinite
    PROVE  /\ outputsNeeded \in Nat
           /\ totalWalletsNeeded = (outputsNeeded \div WalletSize) + 1
<1>1. /\ params.rate \in Nat /\ params.duration \in Nat /\ numOfInputs \in Nat
      /\ Second \in Nat \ {0}
  BY PlanFacts, RequesterAssumption
<1>2. PICK q \in Nat : q = params.duration \div Second
  BY <1>1
<1>3. params.rate * q * numOfInputs \in Nat
  BY <1>1
<1> QED BY <1>2, <1>3 DEF outputsNeeded, totalWalletsNeeded, BigWalletsNeeded, WalletSize

\* When the requester has returned because enough was requested, the outputs
\* that the plan counts have been brought, but for those that the splits left
\* out of wallets counted ready: for any duration and any scenario, however the
\* workers, the counting and the spam interleaved, and whatever requests failed.
THEOREM PlanIsDelivered == Spec => []PlanDelivered
<1>1. ASSUME FundsInv, pool = "off"
      PROVE  left + used + lacking > outputsNeeded
  <2>1. /\ TypeOK /\ ~Infinite /\ walletsReady >= totalWalletsNeeded
        /\ left + used + lacking = (walletsReady + returning) * WalletSize
    BY <1>1 DEF FundsInv, Funded, EnoughCounted
  <2>2. /\ WalletSize \in Nat \ {0} /\ walletsReady \in Nat /\ returning \in Nat
        /\ totalWalletsNeeded \in Int
    BY <2>1, PlanFacts DEF TypeOK
  <2>3. outputsNeeded \in Nat /\ totalWalletsNeeded = (outputsNeeded \div WalletSize) + 1
    BY <2>1, NeededFacts
  <2> HIDE DEF totalWalletsNeeded, outputsNeeded, WalletSize
  <2>4. totalWalletsNeeded * WalletSize > outputsNeeded
    BY <2>2, <2>3, RoundedDown
  <2>5. PICK k \in Nat : walletsReady + returning = totalWalletsNeeded + k
    <3>1. walletsReady + returning - totalWalletsNeeded \in Nat
      BY <2>1, <2>2
    <3> QED BY <2>2, <3>1
  <2>6. (totalWalletsNeeded + k) * WalletSize = totalWalletsNeeded * WalletSize + k * WalletSize
    BY <2>2
  <2>7. k * WalletSize \in Nat /\ totalWalletsNeeded * WalletSize \in Int
    BY <2>2
  <2> QED BY <2>1, <2>3, <2>4, <2>5, <2>6, <2>7
<1>2. FundsInv => PlanDelivered
  BY <1>1 DEF PlanDelivered
<1> QED BY FundsStaySound, <1>2, PTL

=============================================================================
