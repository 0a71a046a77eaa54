-------------------------- MODULE CreateTransaction --------------------------
(***************************************************************************)
(* The batches of conflicting transactions (pkg/evilwallet: EvilScenario,  *)
(* AliasManager, OutputManager, CreateTransaction; the spamming function   *)
(* that posts them).                                                       *)
(*                                                                         *)
(* A scenario names the inputs and outputs of its transactions by aliases. *)
(* A batch is one run through the scenario by one worker of the spammer:   *)
(* it prefixes the aliases with a number of its own, creates all the       *)
(* transactions one after the other, then posts them stage by stage and    *)
(* clears its aliases.  The workers share the alias manager, the fresh     *)
(* wallets and, for deep spam, one Reuse wallet.                           *)
(*                                                                         *)
(* The races of the fresh wallets' counters are the subject of WalletPool; *)
(* here an output is taken from a wallet in one step.                      *)
(***************************************************************************)
EXTENDS Integers, Sequences, FiniteSets

CONSTANTS Batch,        \* the batches, each run by one worker
          Alias,        \* the names a scenario may use
          Scenarios,    \* the scenarios checked
          FreshWallet,  \* the wallets of the faucet queue
          WalletSize,   \* outputs of each
          ReuseWallet,  \* the wallet deep spam collects and spends outputs in
          OutputWallet, \* scenario.OutputWallet without deep spam
          TempWallet,   \* the wallet CreateTransaction makes for middle outputs
          NoWallet,     \* the nil wallet
          FailedSplits, \* what failed splits may have left of the fresh outputs
          MaxPostFails  \* bound: posts that fail, in all

\* A transaction of a scenario; the sequence is the order of creation, stage
\* the index in the EvilBatch it belongs to.
Transaction == [stage : Nat \ {0}, inputs : SUBSET Alias, outputs : SUBSET Alias]

\* NewOptions refuses a transaction without inputs or without outputs; inputs
\* and outputs that are not named by aliases are those of the faucet requests.
checkInputsAndOutputs(t) == t.inputs # {} /\ t.outputs # {}

\* An output of a fresh wallet, at an index; an output that a batch creates
\* for an alias of its k-th transaction.
FreshOutput(w, i) == <<w, i, "fresh">>
BatchOutput(b, k, a) == <<b, k, a>>

FreshOutputs == {FreshOutput(w, i) : w \in FreshWallet, i \in 0 .. WalletSize - 1}

ASSUME BatchAssumption ==
    /\ IsFiniteSet(Batch) /\ IsFiniteSet(FreshWallet)
    /\ FailedSplits \subseteq [missing : SUBSET FreshOutputs,
                               unidentified : SUBSET FreshOutputs]
    /\ Scenarios \subseteq Seq(Transaction)
    /\ \A scenario \in Scenarios :
            /\ Len(scenario) > 0
            /\ \A k \in 1 .. Len(scenario) : checkInputsAndOutputs(scenario[k])
    /\ WalletSize \in Nat /\ MaxPostFails \in Nat
    /\ NoWallet \notin FreshWallet \union {ReuseWallet, OutputWallet, TempWallet}
    /\ {ReuseWallet, OutputWallet, TempWallet} \intersect FreshWallet = {}
    /\ Batch \intersect FreshWallet = {}

VARIABLES
    scenario,        \* EvilScenario.ConflictBatch
    reuse,           \* EvilScenario.Reuse: deep spam
    createAccounts,  \* account spam: AccountSpammingFunction runs the batches
    missing,         \* indices of the fresh wallets that a failed split left empty
    unidentified,    \* fresh outputs that a failed split left without OutputID
    BatchesCreated,
    prefix,          \* the number that prefixes the aliases of a batch
    inputMap,        \* AliasManager.inputMap
    tempIDWalletMap, \* OutputManager.tempIDWalletMap
    faucetWallets,   \* queue of the fresh wallets
    nextAddrToSpent,
    reuseTempIDPool, \* outputs of the Reuse wallet
    stored,          \* outputs the batches stored in some wallet
    outputIDs,       \* those of them that got their OutputID
    pc,              \* where the batch is
    tx,              \* the transaction it creates
    inputWallet,     \* buildOptions.inputWallet of that transaction
    matched,         \* the outputs its input aliases were matched with
    posted,          \* transactions of the batch that PrepareAndPostBlock is done with
    built,           \* history: the transactions the batch built
    panicked         \* a nil wallet was dereferenced: the program is gone

aliasVars == <<BatchesCreated, prefix, inputMap>>
scenarioVars == <<scenario, reuse, createAccounts, missing, unidentified>>
storeVars == <<tempIDWalletMap, reuseTempIDPool, stored>>
outputVars == <<storeVars, outputIDs>>
freshVars == <<faucetWallets, nextAddrToSpent>>
txVars == <<pc, tx, inputWallet, matched>>
vars == <<scenarioVars, aliasVars, outputVars, freshVars, txVars, posted,
          built, panicked>>

EmptyMap == [x \in {} |-> x]

\* A Go map with one more entry.
Put(map, key, value) ==
    [x \in DOMAIN map \union {key} |-> IF x = key THEN value ELSE map[x]]

\* The scenarios that the spam programs make: nested conflicts, with deep spam
\* or not, and accounts, which are created by single transactions.
SpamNestedConflicts == createAccounts = FALSE /\ reuse \in BOOLEAN

\* Account spam refuses any other scenario.
Flat == Len(scenario) = 1

SpamAccounts == createAccounts = TRUE /\ reuse = FALSE /\ Flat

\* A split that fails is only logged: before its transaction is created it
\* leaves its addresses empty, before the OutputIDs are set its outputs without.
Init ==
    /\ scenario \in Scenarios
    /\ SpamNestedConflicts \/ SpamAccounts
    /\ \E left \in FailedSplits :
            missing = left.missing /\ unidentified = left.unidentified
    /\ BatchesCreated = 0
    /\ prefix = [b \in Batch |-> 0]
    /\ inputMap = EmptyMap
    /\ tempIDWalletMap = [o \in FreshOutputs \ missing |-> o[1]]
    /\ faucetWallets \in {q \in [1 .. Cardinality(FreshWallet) -> FreshWallet] :
                            \A i, j \in DOMAIN q : q[i] = q[j] => i = j}
    /\ nextAddrToSpent = [w \in FreshWallet |-> 0]
    /\ reuseTempIDPool = {}
    /\ stored = {}
    /\ outputIDs = {}
    /\ pc = [b \in Batch |-> "idle"]
    /\ tx = [b \in Batch |-> 0]
    /\ inputWallet = [b \in Batch |-> NoWallet]
    /\ matched = [b \in Batch |-> EmptyMap]
    /\ posted = [b \in Batch |-> {}]
    /\ built = [b \in Batch |-> <<>>]
    /\ panicked = FALSE

-----------------------------------------------------------------------------
(* EvilScenario *)

Goto(b, place) == pc' = [pc EXCEPT ![b] = place]

\* The names under which the alias manager knows the aliases of batch b.
MutName(b, a) == <<1, a>>
Name(b, a) == <<prefix[b], a>>

Tx(b) == scenario[tx[b]]

\* ConflictBatchWithPrefix takes the next number for the batch.
nextBatchPrefix(b) ==
    /\ pc[b] = "idle" /\ ~panicked
    /\ BatchesCreated' = BatchesCreated + 1
    /\ prefix' = [prefix EXCEPT ![b] = BatchesCreated + 1]
    /\ tx' = [tx EXCEPT ![b] = 1]
    /\ Goto(b, "wallet")
    /\ UNCHANGED <<scenarioVars, inputMap, outputVars, freshVars, inputWallet,
                   matched, posted, built, panicked>>

scenarioInputs == UNION {scenario[k].inputs : k \in 1 .. Len(scenario)}
scenarioOutputs == UNION {scenario[k].outputs : k \in 1 .. Len(scenario)}

\* Outputs the scenario does not spend itself go to the output wallet.
batchOutputs == scenarioOutputs \ scenarioInputs

\* With deep spam the output wallet is the Reuse wallet.  The outputs of
\* account spam are not kept.
WalletOf(a) == IF createAccounts \/ a \notin batchOutputs THEN TempWallet
               ELSE IF reuse THEN ReuseWallet ELSE OutputWallet

-----------------------------------------------------------------------------
(* The input wallet *)

\* GetInput finds the alias.
HasInput(b, a) == Name(b, a) \in DOMAIN inputMap

\* The transaction cannot be created: the batch is given up as it stands.
Fail(b) ==
    /\ Goto(b, "failed")
    /\ UNCHANGED <<tx, inputWallet, matched>>

\* freshWallet drops an empty head and takes the next wallet.
UseFreshWallet(b) ==
    LET head == Head(faucetWallets)
        queue == IF faucetWallets # <<>> /\ nextAddrToSpent[head] = WalletSize
                 THEN Tail(faucetWallets) ELSE faucetWallets
    IN  /\ faucetWallets' = queue
        /\ IF queue = <<>>
           THEN Fail(b)
           ELSE /\ inputWallet' = [inputWallet EXCEPT ![b] = Head(queue)]
                /\ Goto(b, "inputs")
                /\ UNCHANGED <<tx, matched>>
        /\ UNCHANGED nextAddrToSpent

\* updateInputWallet looks at the first alias that the iteration of a map
\* yields: if it is known, the wallet stays nil.
updateInputWallet(b) ==
    /\ pc[b] = "wallet" /\ ~panicked
    /\ \E a \in Tx(b).inputs :
        IF HasInput(b, a)
        THEN /\ inputWallet' = [inputWallet EXCEPT ![b] = NoWallet]
             /\ Goto(b, "inputs")
             /\ UNCHANGED <<tx, matched, freshVars>>
        ELSE IF reuse /\ reuseTempIDPool # {}
        THEN /\ inputWallet' = [inputWallet EXCEPT ![b] = ReuseWallet]
             /\ Goto(b, "inputs")
             /\ UNCHANGED <<tx, matched, freshVars>>
        ELSE UseFreshWallet(b)
    /\ UNCHANGED <<scenarioVars, aliasVars, outputVars, posted, built, panicked>>

-----------------------------------------------------------------------------
(* The inputs *)

Unmatched(b) == Tx(b).inputs \ DOMAIN matched[b]

\* Dereferencing a nil wallet ends the program.
Panic ==
    /\ panicked' = TRUE
    /\ UNCHANGED <<scenarioVars, aliasVars, outputVars, freshVars, txVars,
                   posted, built>>

Match(b, a, o) == matched' = [matched EXCEPT ![b] = Put(@, a, o)]

\* A known alias gives its output.
MatchKnown(b) ==
    /\ pc[b] = "inputs" /\ ~panicked
    /\ \E a \in Unmatched(b) :
        /\ HasInput(b, a)
        /\ Match(b, a, inputMap[Name(b, a)])
    /\ UNCHANGED <<scenarioVars, aliasVars, outputVars, freshVars, pc, tx,
                   inputWallet, posted, built, panicked>>

\* The alias stands for the output from now on.
AddInputAlias(b, a, o) == inputMap' = Put(inputMap, Name(b, a), o)

\* GetUnspentOutput of a fresh wallet moves to the next index.
getAndIncNextAddrToSpent(w) ==
    /\ w \in FreshWallet
    /\ nextAddrToSpent[w] < WalletSize
    /\ nextAddrToSpent' = [nextAddrToSpent EXCEPT ![w] = @ + 1]
    /\ UNCHANGED reuseTempIDPool

\* It gives the output of that index, if there is one.
TakeFresh(w, o) ==
    /\ getAndIncNextAddrToSpent(w)
    /\ o = FreshOutput(w, nextAddrToSpent[w])
    /\ o \notin missing

\* GetReuseAddress takes any output out of the pool of the Reuse wallet.
MutRemaining(o) == reuseTempIDPool
Remaining(o) == reuseTempIDPool \ {o}

TakeReuse(w, o) ==
    /\ w = ReuseWallet
    /\ o \in reuseTempIDPool
    /\ reuseTempIDPool' = Remaining(o)
    /\ UNCHANGED nextAddrToSpent

\* An unknown alias takes an unspent output of the input wallet.
MatchUnknown(b) ==
    /\ pc[b] = "inputs" /\ ~panicked
    /\ \E a \in Unmatched(b) :
        /\ ~HasInput(b, a)
        /\ \E o \in stored \union {FreshOutput(w, nextAddrToSpent[w]) : w \in FreshWallet} :
            /\ TakeFresh(inputWallet[b], o) \/ TakeReuse(inputWallet[b], o)
            /\ AddInputAlias(b, a, o)
            /\ Match(b, a, o)
    /\ UNCHANGED <<scenarioVars, BatchesCreated, prefix, tempIDWalletMap, stored,
                   outputIDs, faucetWallets, pc, tx, inputWallet, posted, built,
                   panicked>>

\* The input wallet has nothing left for an unknown alias.
MatchFails(b) ==
    /\ pc[b] = "inputs" /\ ~panicked
    /\ \E a \in Unmatched(b) : ~HasInput(b, a)
    /\ \/ inputWallet[b] = ReuseWallet /\ reuseTempIDPool = {}
       \/ inputWallet[b] \in FreshWallet /\ nextAddrToSpent[inputWallet[b]] >= WalletSize
    /\ Fail(b)
    /\ UNCHANGED <<scenarioVars, aliasVars, outputVars, freshVars, posted, built,
                   panicked>>

\* There is no output at the next index, and the index is used up.
MatchFindsNone(b) ==
    /\ pc[b] = "inputs" /\ ~panicked
    /\ \E a \in Unmatched(b) : ~HasInput(b, a)
    /\ getAndIncNextAddrToSpent(inputWallet[b])
    /\ FreshOutput(inputWallet[b], nextAddrToSpent[inputWallet[b]]) \in missing
    /\ Fail(b)
    /\ UNCHANGED <<scenarioVars, aliasVars, outputVars, faucetWallets, posted, built,
                   panicked>>

\* An unknown alias is looked for in a nil wallet.
MatchPanics(b) ==
    /\ pc[b] = "inputs" /\ ~panicked
    /\ inputWallet[b] = NoWallet
    /\ \E a \in Unmatched(b) : ~HasInput(b, a)
    /\ Panic

-----------------------------------------------------------------------------
(* Building the transaction and keeping its outputs *)

\* The wallet whose key signs an input: the input wallet, and without one the
\* wallet that the output manager has for the output.
MutSigner(b, o) == inputWallet[b]
Signer(b, o) == IF inputWallet[b] = NoWallet THEN tempIDWalletMap[o]
                                             ELSE inputWallet[b]

\* An output can be named as an input by its OutputID.
Identified(o) == IF o[1] \in FreshWallet THEN o \notin unidentified ELSE o \in outputIDs

\* prepareTransactionBuild; another batch may have put an output in the Reuse
\* wallet and not yet in the map.  The OutputIDs of the inputs go into the
\* transaction as they are now.
Build(b) ==
    /\ pc[b] = "inputs" /\ ~panicked
    /\ Unmatched(b) = {}
    /\ inputWallet[b] = NoWallet =>
            \A a \in Tx(b).inputs : matched[b][a] \in DOMAIN tempIDWalletMap
    /\ built' = [built EXCEPT ![b] = Append(@,
            [inputs  |-> matched[b],
             named   |-> {a \in Tx(b).inputs : Identified(matched[b][a])},
             signers |-> [a \in Tx(b).inputs |-> Signer(b, matched[b][a])]])]
    /\ Goto(b, "outputs")
    /\ UNCHANGED <<scenarioVars, aliasVars, outputVars, freshVars, tx,
                   inputWallet, matched, posted, panicked>>

BuildPanics(b) ==
    /\ pc[b] = "inputs" /\ ~panicked
    /\ Unmatched(b) = {}
    /\ inputWallet[b] = NoWallet
    /\ \E a \in Tx(b).inputs : matched[b][a] \notin DOMAIN tempIDWalletMap
    /\ Panic

\* The outputs the k-th transaction creates.
OutputsOf(b, k) == {BatchOutput(b, k, a) : a \in scenario[k].outputs}

\* AddOutput stores an output in its wallet, and then names the wallet in the
\* map; the outputs are added one after the other.
AddUnspentOutput(b) ==
    /\ pc[b] = "outputs" /\ ~panicked
    /\ OutputsOf(b, tx[b]) \intersect stored \subseteq DOMAIN tempIDWalletMap
    /\ \E a \in Tx(b).outputs :
        LET o == BatchOutput(b, tx[b], a)
        IN  /\ o \notin stored
            /\ stored' = stored \union {o}
            /\ reuseTempIDPool' = IF WalletOf(a) = ReuseWallet
                                  THEN reuseTempIDPool \union {o}
                                  ELSE reuseTempIDPool
    /\ UNCHANGED <<scenarioVars, aliasVars, tempIDWalletMap, outputIDs, freshVars,
                   txVars, posted, built, panicked>>

setTempIDWalletMap(b) ==
    /\ pc[b] = "outputs" /\ ~panicked
    /\ \E a \in Tx(b).outputs :
        LET o == BatchOutput(b, tx[b], a)
        IN  /\ o \in stored \ DOMAIN tempIDWalletMap
            /\ tempIDWalletMap' = Put(tempIDWalletMap, o, WalletOf(a))
    /\ UNCHANGED <<scenarioVars, aliasVars, reuseTempIDPool, stored, outputIDs,
                   freshVars, txVars, posted, built, panicked>>

\* The aliases of the outputs are kept by the TempID of an output WITHOUT an
\* address and looked up by that of the output WITH one: the hashes differ,
\* the look-up yields the empty alias, and each output overwrites the last.
EmptyAlias == <<0, "">>

MutOutputName(b, o) == Name(b, o[3])
OutputName(b, o) == EmptyAlias

\* Every output was added.
MutAllAdded(b) == OutputsOf(b, tx[b]) \subseteq stored
AllAdded(b) == OutputsOf(b, tx[b]) \subseteq DOMAIN tempIDWalletMap

registerOutputAliases(b) ==
    /\ pc[b] = "outputs" /\ ~panicked
    /\ AllAdded(b)
    /\ \E o \in OutputsOf(b, tx[b]) : inputMap' = Put(inputMap, OutputName(b, o), o)
    /\ inputWallet' = [inputWallet EXCEPT ![b] = NoWallet]
    /\ matched' = [matched EXCEPT ![b] = EmptyMap]
    /\ IF tx[b] < Len(scenario)
       THEN tx' = [tx EXCEPT ![b] = @ + 1] /\ Goto(b, "wallet")
       ELSE UNCHANGED tx /\ Goto(b, "post")
    /\ UNCHANGED <<scenarioVars, BatchesCreated, prefix, outputVars, freshVars,
                   posted, built, panicked>>

-----------------------------------------------------------------------------
(* Posting the batch *)

Unposted(b) == (1 .. Len(scenario)) \ posted[b]

\* The transactions of a stage are posted in parallel, and the next stage
\* waits for them.
Posts(b, k) ==
    /\ pc[b] = "post" /\ ~panicked
    /\ k \in Unposted(b)
    /\ \A j \in Unposted(b) : scenario[j].stage >= scenario[k].stage
    /\ posted' = [posted EXCEPT ![b] = @ \union {k}]
    /\ UNCHANGED <<scenarioVars, aliasVars, storeVars, freshVars, txVars, built,
                   panicked>>

\* The outputs get their OutputIDs when the transaction is signed, whether its
\* block is posted then or not.
PrepareAndPostBlock(b) ==
    \E k \in Unposted(b) : Posts(b, k) /\ outputIDs' = outputIDs \union OutputsOf(b, k)

\* Transactions whose post has failed so far: their outputs have no OutputID.
FailedPosts == UNION {{<<c, k>> : k \in {j \in posted[c] : ~ (OutputsOf(c, j) \subseteq outputIDs)}}
                        : c \in Batch}

\* The account is not ready or the issuance data do not come; the failure is
\* only counted.
PostFails(b) ==
    /\ Cardinality(FailedPosts) < MaxPostFails
    /\ \E k \in Unposted(b) : Posts(b, k) /\ UNCHANGED outputIDs

\* ClearAliases forgets the input aliases of the batch.
MutKept(b) == DOMAIN inputMap
Kept(b) == DOMAIN inputMap \ {Name(b, a) : a \in scenarioInputs}

ClearAliases(b) ==
    /\ pc[b] = "post" /\ ~panicked
    /\ Unposted(b) = {}
    /\ inputMap' = [n \in Kept(b) |-> inputMap[n]]
    /\ Goto(b, "done")
    /\ UNCHANGED <<scenarioVars, BatchesCreated, prefix, outputVars, freshVars, tx,
                   inputWallet, matched, posted, built, panicked>>

Step(b) ==
    \/ nextBatchPrefix(b) \/ updateInputWallet(b)
    \/ MatchKnown(b) \/ MatchUnknown(b) \/ MatchFails(b) \/ MatchFindsNone(b)
    \/ MatchPanics(b)
    \/ Build(b) \/ BuildPanics(b)
    \/ AddUnspentOutput(b) \/ setTempIDWalletMap(b) \/ registerOutputAliases(b)
    \/ PrepareAndPostBlock(b) \/ PostFails(b) \/ ClearAliases(b)

Next == \E b \in Batch : Step(b)

Spec == Init /\ [][Next]_vars

-----------------------------------------------------------------------------
(* Properties *)

Output == FreshOutputs
            \union {BatchOutput(b, k, a) : b \in Batch, k \in 1 .. Len(scenario), a \in Alias}

\* The numbers of the built transactions, and the output one spends by an alias.
BuiltBy(b) == 1 .. Len(built[b])
Spends(b, k) == built[b][k].inputs

\* Type invariant of the batches.
TypeOK ==
    /\ scenario \in Scenarios
    /\ reuse \in BOOLEAN /\ createAccounts \in BOOLEAN
    /\ missing \subseteq FreshOutputs /\ unidentified \subseteq FreshOutputs
    /\ BatchesCreated \in 0 .. Cardinality(Batch)
    /\ prefix \in [Batch -> 0 .. BatchesCreated]
    /\ \A b \in Batch : prefix[b] = 0 <=> pc[b] = "idle"
    /\ DOMAIN inputMap \subseteq {EmptyAlias} \union ((1 .. BatchesCreated) \X Alias)
    /\ \A n \in DOMAIN inputMap : inputMap[n] \in Output
    /\ DOMAIN tempIDWalletMap \subseteq Output
    /\ \A o \in DOMAIN tempIDWalletMap : tempIDWalletMap[o] # NoWallet
    /\ faucetWallets \in Seq(FreshWallet)
    /\ nextAddrToSpent \in [FreshWallet -> 0 .. WalletSize]
    /\ reuseTempIDPool \subseteq stored
    /\ stored \subseteq Output
    /\ outputIDs \subseteq DOMAIN tempIDWalletMap \intersect stored
    /\ \A o \in stored \ DOMAIN tempIDWalletMap : pc[o[1]] = "outputs"
    /\ pc \in [Batch -> {"idle", "wallet", "inputs", "outputs", "post", "done", "failed"}]
    /\ tx \in [Batch -> 0 .. Len(scenario)]
    /\ inputWallet \in [Batch -> FreshWallet \union {ReuseWallet, NoWallet}]
    /\ \A b \in Batch : DOMAIN matched[b] \subseteq Alias
    /\ \A b \in Batch : posted[b] \subseteq 1 .. Len(scenario)
    /\ panicked \in BOOLEAN

\* What the spammer is for: two transactions spend the same output exactly when
\* they belong to one batch and name it by the same alias.  A conflict that the
\* scenario asks for is really one, and no two batches conflict by accident,
\* although they share the wallets and the alias manager.
ConflictsAsScripted ==
    \A b, c \in Batch : \A j \in BuiltBy(b), k \in BuiltBy(c) :
        \A x \in DOMAIN Spends(b, j), y \in DOMAIN Spends(c, k) :
            Spends(b, j)[x] = Spends(c, k)[y] <=> b = c /\ x = y

\* The inputs of the k-th transaction are all named by earlier transactions,
\* or none is.
Uniform(k) ==
    LET earlier == UNION {scenario[j].inputs : j \in 1 .. k - 1}
    IN  scenario[k].inputs \subseteq earlier \/ scenario[k].inputs \intersect earlier = {}

\* One wallet is chosen for all inputs of a transaction, and yet each input is
\* signed with the key of the wallet it lies in: for a transaction that is not
\* uniform this fails, when the head of the queue has changed in between.
SignedByOwner ==
    \A b \in Batch : \A k \in BuiltBy(b) : Uniform(k) =>
        \A a \in DOMAIN Spends(b, k) :
            LET o == Spends(b, k)[a]
            IN  built[b][k].signers[a] = IF o \in DOMAIN tempIDWalletMap
                                         THEN tempIDWalletMap[o] ELSE ReuseWallet

\* The alias manager does not grow with the batches that were posted: only
\* batches under way, and those given up, have names in it.
DoneBatchesForgotten ==
    \A b \in Batch : pc[b] = "done" =>
        \A a \in Alias : Name(b, a) \notin DOMAIN inputMap

\* The outputs of the Reuse wallet are unspent: none is an input of a
\* transaction already, so deep spam does not double-spend by itself.
ReusePoolUnspent ==
    \A b \in Batch : \A k \in BuiltBy(b) : \A a \in DOMAIN Spends(b, k) :
        Spends(b, k)[a] \notin reuseTempIDPool

\* All transactions of a batch are built before the first is posted, and yet no
\* transaction spends an output of its own batch that has no OutputID yet,
\* since no input alias is ever given to one.  The inputs without OutputID are
\* those that a failed split left in a fresh wallet, and, in deep spam, outputs
\* from the pool of the Reuse wallet, which get theirs when they are posted.
InputsIdentified ==
    \A b \in Batch : \A k \in BuiltBy(b) : \A a \in DOMAIN Spends(b, k) :
        \/ a \in built[b][k].named
        \/ Spends(b, k)[a] \in unidentified
        \/ WalletOf(Spends(b, k)[a][3]) = ReuseWallet

\* The comment of matchInputsWithAliases: "No output found for given alias, use
\* internal Fresh output if wallets are non-empty".  A batch always finds a
\* wallet to look in.
NoPanic == ~panicked

\* The comment of CreateTransaction: "provided only an alias, but inputs are
\* stored in an alias manager", that is, an alias that an earlier transaction
\* of the batch gave to its output stands for that output.
StagesChained ==
    \A b \in Batch : \A k \in BuiltBy(b) :
        \A a \in DOMAIN Spends(b, k) : \A j \in 1 .. k - 1 :
            a \in scenario[j].outputs => Spends(b, k)[a] = BatchOutput(b, j, a)

=============================================================================
