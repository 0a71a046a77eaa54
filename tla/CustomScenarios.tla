-------------------------- MODULE CustomScenarios --------------------------
(***************************************************************************)
(* The scenarios that ship with the tool (pkg/evilwallet/customscenarios)  *)
(* and what the spammer reads off one before it starts (pkg/spammer/utils).*)
(* An EvilBatch is a sequence of stages, a stage a sequence of             *)
(* transactions, each with the aliases of its inputs and outputs.          *)
(***************************************************************************)
EXTENDS Integers, Sequences, FiniteSets, SequencesExt, Functions, TLC

ScenarioAlias(in, out) == [Inputs |-> in, Outputs |-> out]

SingleTransactionBatch == << <<ScenarioAlias(<<"1">>, <<"2">>)>> >>

NSpendBatch(nSpent) ==
    << [i \in 1 .. nSpent |-> ScenarioAlias(<<ToString(nSpent + 1)>>, <<ToString(i)>>)] >>

\* A circular conflict set: the i-th transaction spends inputs i and i + 1.
ConflictSetCircle(size) ==
    << [i \in 1 .. size |-> ScenarioAlias(<<ToString(i - 1), ToString(i % size)>>,
                                          <<ToString(size + i - 1)>>)] >>

\* Two double spends, aggregated.
Scenario1 ==
    << <<ScenarioAlias(<<"1">>, <<"2", "3">>)>>,
       <<ScenarioAlias(<<"2">>, <<"4">>), ScenarioAlias(<<"2">>, <<"5">>)>>,
       <<ScenarioAlias(<<"3">>, <<"6">>), ScenarioAlias(<<"3">>, <<"7">>)>>,
       <<ScenarioAlias(<<"6", "5">>, <<"8">>)>> >>

Scenario2 ==
    << <<ScenarioAlias(<<"A">>, <<"C">>)>>,
       <<ScenarioAlias(<<"B">>, <<"D">>), ScenarioAlias(<<"B">>, <<"G">>)>>,
       <<ScenarioAlias(<<"C", "D">>, <<"E">>), ScenarioAlias(<<"D">>, <<"F">>)>> >>

Scenario3 ==
    << <<ScenarioAlias(<<"A">>, <<"C">>), ScenarioAlias(<<"A">>, <<"D">>)>>,
       <<ScenarioAlias(<<"B">>, <<"E">>), ScenarioAlias(<<"B">>, <<"F">>)>>,
       <<ScenarioAlias(<<"D", "E">>, <<"G">>)>> >>

Scenario4 ==
    << <<ScenarioAlias(<<"1">>, <<"A">>), ScenarioAlias(<<"1">>, <<"B">>)>>,
       <<ScenarioAlias(<<"2">>, <<"C">>), ScenarioAlias(<<"2">>, <<"D">>)>>,
       <<ScenarioAlias(<<"3">>, <<"E">>), ScenarioAlias(<<"3">>, <<"F">>)>>,
       <<ScenarioAlias(<<"D", "E">>, <<"G">>)>>,
       <<ScenarioAlias(<<"G">>, <<"H">>), ScenarioAlias(<<"G">>, <<"I">>)>>,
       <<ScenarioAlias(<<"A", "I">>, <<"J">>)>>,
       <<ScenarioAlias(<<"J">>, <<"K">>)>> >>

\* The circle, with its outputs aggregated.
Scenario5 ==
    ConflictSetCircle(4) \o << <<ScenarioAlias(<<"4", "6">>, <<"8">>)>>,
                               <<ScenarioAlias(<<"5", "7">>, <<"9">>)>> >>

\* Five levels deep.
Scenario6 ==
    << <<ScenarioAlias(<<"1">>, <<"A", "B">>)>>,
       <<ScenarioAlias(<<"A">>, <<"C", "D">>), ScenarioAlias(<<"B">>, <<"E">>)>>,
       <<ScenarioAlias(<<"C">>, <<"F", "G">>), ScenarioAlias(<<"C", "D">>, <<"H">>),
         ScenarioAlias(<<"D">>, <<"I">>), ScenarioAlias(<<"F", "D">>, <<"J">>)>>,
       <<ScenarioAlias(<<"G">>, <<"K">>), ScenarioAlias(<<"I">>, <<"L">>)>>,
       <<ScenarioAlias(<<"K", "I">>, <<"M">>), ScenarioAlias(<<"L">>, <<"N">>)>> >>

\* Two separate conflict sets, aggregated.
Scenario7 ==
    << <<ScenarioAlias(<<"A">>, <<"E">>)>>,
       <<ScenarioAlias(<<"A", "B">>, <<"F">>), ScenarioAlias(<<"B">>, <<"G">>)>>,
       <<ScenarioAlias(<<"C">>, <<"H">>), ScenarioAlias(<<"D">>, <<"I">>)>>,
       <<ScenarioAlias(<<"E", "G">>, <<"J">>), ScenarioAlias(<<"H">>, <<"K">>)>>,
       <<ScenarioAlias(<<"J", "K">>, <<"L">>), ScenarioAlias(<<"I", "K">>, <<"M">>)>> >>

NoConflictsScenario1 ==
    << <<ScenarioAlias(<<"1">>, <<"3", "4">>), ScenarioAlias(<<"2">>, <<"5", "6">>)>>,
       <<ScenarioAlias(<<"6", "4">>, <<"7">>), ScenarioAlias(<<"3", "5">>, <<"8">>)>>,
       <<ScenarioAlias(<<"8", "7">>, <<"9">>)>> >>

scenariosMap ==
    "tx" :> SingleTransactionBatch @@ "ds" :> NSpendBatch(2)
        @@ "conflict-circle" :> ConflictSetCircle(4)
        @@ "guava" :> Scenario1 @@ "orange" :> Scenario2 @@ "mango" :> Scenario3
        @@ "pear" :> Scenario4 @@ "lemon" :> Scenario5 @@ "banana" :> Scenario6
        @@ "kiwi" :> Scenario7 @@ "peace" :> NoConflictsScenario1

\* The transactions of a batch in the order in which they are created, each
\* with its stage and its aliases as sets: a Go map has no order.
Transactions(batch) ==
    FlattenSeq([s \in DOMAIN batch |-> [k \in DOMAIN batch[s] |->
        [stage |-> s, inputs |-> ToSet(batch[s][k].Inputs),
         outputs |-> ToSet(batch[s][k].Outputs)]]])

inputsOf(batch) == UNION {t.inputs : t \in ToSet(Transactions(batch))}
outputsOf(batch) == UNION {t.outputs : t \in ToSet(Transactions(batch))}

-----------------------------------------------------------------------------
(* What the spammer plans with; nSpend is the parameter NSpend. *)

\* Every use of an input that is no output counts, twice if it is spent twice.
EvaluateNumOfBatchInputs(type, nSpend) ==
    LET txs == Transactions(scenariosMap[type])
        fresh(t) == t.inputs \ outputsOf(scenariosMap[type])
    IN  CASE type \notin DOMAIN scenariosMap -> 1
          [] type = "ds" -> nSpend
          [] type = "tx" -> 1
          [] OTHER -> SumFunction([k \in DOMAIN txs |-> Cardinality(fresh(txs[k]))])

\* Duration in parts of a second; Second of them make one.
MutBigWalletsNeeded(rate, duration, spammingBatchSize, splitFactor, Second) ==
    (rate * (duration \div Second) * spammingBatchSize) \div (splitFactor * splitFactor)
BigWalletsNeeded(rate, duration, spammingBatchSize, splitFactor, Second) ==
    ((rate * (duration \div Second) * spammingBatchSize) \div (splitFactor * splitFactor)) + 1

MinFaucetFundsDeposit(rate, duration, spammingBatchSize, minReady, Second) ==
    LET ready == IF duration # -1 /\ duration < minReady THEN duration ELSE minReady
    IN  (ready \div Second) * rate * spammingBatchSize
=============================================================================
