---------------------- MODULE CreateTransactionProofs ----------------------
(***************************************************************************)
(* Proofs about the batches, for any number of batches, any scenarios and  *)
(* any fresh wallets within BatchAssumption: two transactions spend the    *)
(* same output exactly when the scenario asks for it, the alias manager    *)
(* forgets the batches that were posted, and every input is identified,    *)
(* unspent and signed by its owner.                                        *)
(***************************************************************************)
EXTENDS CreateTransaction, FiniteSetTheorems, TLAPS

\* The Go maps from some keys of K to values of V.
Map(K, V) == UNION {[S -> V] : S \in SUBSET K}

BatchOutputs == {BatchOutput(b, k, a) : b \in Batch, k \in 1 .. Len(scenario), a \in Alias}
OwnedWallets == FreshWallet \union {ReuseWallet, OutputWallet, TempWallet}

\* What TypeOK leaves open of the maps and histories.
MapsTyped ==
    /\ inputMap \in [DOMAIN inputMap -> Output]
    /\ tempIDWalletMap \in [DOMAIN tempIDWalletMap -> OwnedWallets]
    /\ matched \in [Batch -> Map(Alias, Output)]
    /\ posted \in [Batch -> SUBSET (1 .. Len(scenario))]
    /\ built \in [Batch -> Seq([inputs  : Map(Alias, Output),
                                named   : SUBSET Alias,
                                signers : Map(Alias, OwnedWallets)])]

\* Every batch under way has a number of its own.
Numbered ==
    /\ BatchesCreated = Cardinality({b \in Batch : pc[b] # "idle"})
    /\ \A b, c \in Batch : pc[b] # "idle" /\ prefix[b] = prefix[c] => b = c

\* How the transactions that a batch built and the inputs it matched follow
\* from where the batch is.
ProgressSound ==
    \A b \in Batch :
        /\ pc[b] = "idle" <=> tx[b] = 0
        /\ pc[b] \in {"idle", "wallet", "post", "done"} => matched[b] = EmptyMap
        /\ pc[b] \in {"wallet", "inputs", "failed"} => Len(built[b]) = tx[b] - 1
        /\ pc[b] \in {"idle", "outputs", "post", "done"} => Len(built[b]) = tx[b]
        /\ pc[b] \in {"post", "done"} => tx[b] = Len(scenario)
        /\ pc[b] \in {"inputs", "failed"} => DOMAIN matched[b] \subseteq Tx(b).inputs
        /\ pc[b] = "outputs" => matched[b] = Spends(b, tx[b])
        /\ \A k \in BuiltBy(b) : DOMAIN Spends(b, k) = scenario[k].inputs

\* The wallet an output lies in, once it is stored.
Owner(o) == IF o \in FreshOutputs THEN o[1] ELSE WalletOf(o[3])

\* Only the batches store outputs.  The map lags behind the wallets by one
\* output per batch, and names the right wallets.  Of the fresh outputs it
\* knows those that are there.
StoreSound ==
    /\ stored \subseteq BatchOutputs
    /\ \A o \in reuseTempIDPool : WalletOf(o[3]) = ReuseWallet
    /\ FreshOutputs \ missing \subseteq DOMAIN tempIDWalletMap
    /\ DOMAIN tempIDWalletMap \subseteq FreshOutputs \union stored
    /\ \A o \in DOMAIN tempIDWalletMap : tempIDWalletMap[o] = Owner(o)
    /\ \A o \in stored \ DOMAIN tempIDWalletMap :
            pc[o[1]] = "outputs" /\ o \in OutputsOf(o[1], tx[o[1]])
    /\ \A b \in Batch : \A k \in 1 .. Len(scenario) :
            k < tx[b] \/ pc[b] \in {"post", "done"} =>
                OutputsOf(b, k) \subseteq DOMAIN tempIDWalletMap

\* An output that was taken out of a wallet to be spent.
Taken(o) == \/ /\ o \notin missing
               /\ \E w \in FreshWallet : \E i \in 0 .. nextAddrToSpent[w] - 1 : o = FreshOutput(w, i)
            \/ o \in stored \ reuseTempIDPool /\ WalletOf(o[3]) = ReuseWallet

\* Alias a of batch b stands for output o: in the alias manager, among the
\* inputs just matched, or in a transaction already built.
Use(b, a, o) ==
    \/ pc[b] # "idle" /\ HasInput(b, a) /\ inputMap[Name(b, a)] = o
    \/ a \in DOMAIN matched[b] /\ matched[b][a] = o
    \/ \E k \in BuiltBy(b) : a \in DOMAIN Spends(b, k) /\ Spends(b, k)[a] = o

\* No two aliases stand for one output, and no alias for two.
UsesApart ==
    \A b, c \in Batch : \A x, y \in Alias : \A o, p \in Output :
        Use(b, x, o) /\ Use(c, y, p) => (o = p <=> b = c /\ x = y)

\* What an alias stands for is no longer to be had from a wallet.
UsesTaken == \A b \in Batch : \A x \in Alias : \A o \in Output : Use(b, x, o) => Taken(o)

\* Until the batch is done, its aliases are in the alias manager, and there
\* are no others of it.
UsesNamed ==
    \A b \in Batch : \A x \in Alias :
        /\ pc[b] # "done" => \A o \in Output : Use(b, x, o) => HasInput(b, x)
        /\ pc[b] # "idle" /\ HasInput(b, x) =>
                /\ pc[b] # "done"
                /\ \/ x \in DOMAIN matched[b]
                   \/ \E k \in BuiltBy(b) : x \in DOMAIN Spends(b, k)

\* The input aliases of the transactions before the k-th.
Earlier(k) == UNION {scenario[j].inputs : j \in 1 .. k - 1}

\* The input wallet is nil only when some alias is known, and then a uniform
\* transaction has only known ones; with a wallet it takes every input from it.
WalletChosen ==
    \A b \in Batch : pc[b] = "inputs" =>
        IF inputWallet[b] = NoWallet
        THEN Tx(b).inputs \intersect Earlier(tx[b]) # {}
        ELSE /\ ~ (Tx(b).inputs \subseteq Earlier(tx[b]))
             /\ Uniform(tx[b]) =>
                    \A a \in DOMAIN matched[b] : Owner(matched[b][a]) = inputWallet[b]

\* The signatures of the built transactions are those of the owners.
SignedSound ==
    \A b \in Batch : \A k \in BuiltBy(b) : Uniform(k) =>
        \A a \in DOMAIN Spends(b, k) : built[b][k].signers[a] = Owner(Spends(b, k)[a])

BatchInv == /\ TypeOK /\ MapsTyped /\ Numbered /\ ProgressSound /\ StoreSound
            /\ UsesApart /\ UsesTaken /\ UsesNamed
            /\ WalletChosen /\ SignedSound /\ InputsIdentified

-----------------------------------------------------------------------------
(* Maps, outputs and names *)

\* A typed map with one more typed entry.
LEMMA PutTyped ==
    ASSUME NEW K, NEW V, NEW map \in Map(K, V), NEW key \in K, NEW value \in V
    PROVE  Put(map, key, value) \in Map(K, V)
<1>1. PICK S \in SUBSET K : map \in [S -> V]
  BY DEF Map
<1>2. Put(map, key, value) \in [S \union {key} -> V]
  BY <1>1 DEF Put
<1> QED BY <1>2 DEF Map

\* The entries of a typed map.
LEMMA MapEntries ==
    ASSUME NEW K, NEW V, NEW map \in Map(K, V)
    PROVE  DOMAIN map \subseteq K /\ \A x \in DOMAIN map : map[x] \in V
BY DEF Map

\* The empty map is typed.
LEMMA EmptyTyped ==
    ASSUME NEW K, NEW V
    PROVE  EmptyMap \in Map(K, V) /\ DOMAIN EmptyMap = {}
<1>1. EmptyMap \in [{} -> V]
  BY DEF EmptyMap
<1> QED BY <1>1 DEF Map

\* An output is a fresh one or a batch's, and says which.
LEMMA OutputFacts ==
    /\ Output = FreshOutputs \union BatchOutputs
    /\ FreshOutputs \intersect BatchOutputs = {}
    /\ \A o \in FreshOutputs : /\ o[1] \in FreshWallet
                               /\ \E i \in 0 .. WalletSize - 1 : o = FreshOutput(o[1], i)
    /\ \A o \in BatchOutputs : /\ o[1] \in Batch /\ o[2] \in 1 .. Len(scenario) /\ o[3] \in Alias
                               /\ o = BatchOutput(o[1], o[2], o[3])
    /\ \A w \in FreshWallet : \A i \in 0 .. WalletSize - 1 : FreshOutput(w, i) \in FreshOutputs
    /\ \A b \in Batch : \A k \in 1 .. Len(scenario) : \A a \in Alias :
            BatchOutput(b, k, a) \in BatchOutputs
<1>1. Output = FreshOutputs \union BatchOutputs
  BY DEF Output, FreshOutputs, BatchOutputs
<1>2. \A o \in FreshOutputs : o[1] \in FreshWallet /\ \E i \in 0 .. WalletSize - 1 : o = FreshOutput(o[1], i)
  BY DEF FreshOutputs, FreshOutput
<1>3. \A o \in BatchOutputs : /\ o[1] \in Batch /\ o[2] \in 1 .. Len(scenario) /\ o[3] \in Alias
                              /\ o = BatchOutput(o[1], o[2], o[3])
  BY DEF BatchOutputs, BatchOutput
<1>4. FreshOutputs \intersect BatchOutputs = {}
  BY <1>2, <1>3, BatchAssumption
<1> QED BY <1>1, <1>2, <1>3, <1>4 DEF FreshOutputs, BatchOutputs

\* An output is told by its parts.
LEMMA OutputParts ==
    /\ \A w, v, i, j : FreshOutput(w, i) = FreshOutput(v, j) => w = v /\ i = j
    /\ \A w, i : FreshOutput(w, i)[1] = w
    /\ \A b, k, a : /\ BatchOutput(b, k, a)[1] = b
                    /\ BatchOutput(b, k, a)[2] = k
                    /\ BatchOutput(b, k, a)[3] = a
BY DEF FreshOutput, BatchOutput

\* What a scenario is made of.
LEMMA ScenarioFacts ==
    ASSUME scenario \in Scenarios
    PROVE  /\ Len(scenario) \in Nat /\ Len(scenario) > 0
           /\ \A k \in 1 .. Len(scenario) : /\ scenario[k].inputs \subseteq Alias
                                             /\ scenario[k].outputs \subseteq Alias
                                             /\ scenario[k].inputs # {}
                                             /\ scenario[k].outputs # {}
<1>1. scenario \in Seq(Transaction) /\ Len(scenario) > 0
  BY BatchAssumption
<1>2. \A k \in 1 .. Len(scenario) : scenario[k] \in Transaction /\ checkInputsAndOutputs(scenario[k])
  BY <1>1, BatchAssumption
<1> QED BY <1>1, <1>2 DEF Transaction, checkInputsAndOutputs

\* No step changes the scenario, so what is read off it stays.
LEMMA ScenarioFrame ==
    ASSUME UNCHANGED scenarioVars
    PROVE  /\ scenario' = scenario /\ reuse' = reuse /\ createAccounts' = createAccounts
           /\ missing' = missing /\ unidentified' = unidentified
           /\ Output' = Output /\ BatchOutputs' = BatchOutputs
           /\ \A o : Owner(o)' = Owner(o)
           /\ \A a : WalletOf(a)' = WalletOf(a)
           /\ \A k : Earlier(k)' = Earlier(k)
           /\ \A k : Uniform(k)' <=> Uniform(k)
           /\ \A b, k : OutputsOf(b, k)' = OutputsOf(b, k)
<1>1. /\ scenario' = scenario /\ reuse' = reuse /\ createAccounts' = createAccounts
      /\ missing' = missing /\ unidentified' = unidentified
  BY DEF scenarioVars
<1>2. batchOutputs' = batchOutputs
  BY <1>1 DEF batchOutputs, scenarioInputs, scenarioOutputs
<1>3. \A a : WalletOf(a)' = WalletOf(a)
  BY <1>1, <1>2 DEF WalletOf
<1>4. \A o : Owner(o)' = Owner(o)
  BY <1>3 DEF Owner
<1>5. Output' = Output /\ BatchOutputs' = BatchOutputs
  BY <1>1 DEF Output, BatchOutputs
<1> QED BY <1>1, <1>3, <1>4, <1>5 DEF Earlier, Uniform, OutputsOf

\* The scenario, and whether it is deep or account spam, never change.
LEMMA ScenarioStays == [Next]_vars => UNCHANGED scenarioVars
<1> SUFFICES ASSUME NEW b \in Batch, Step(b) PROVE UNCHANGED scenarioVars
  BY DEF Next, vars
<1> QED BY DEF Step, nextBatchPrefix, updateInputWallet, MatchKnown, MatchUnknown,
               MatchFails, MatchFindsNone, MatchPanics, Panic, Build, BuildPanics, AddUnspentOutput,
               setTempIDWalletMap, registerOutputAliases, PrepareAndPostBlock, PostFails,
               Posts, ClearAliases

-----------------------------------------------------------------------------
(* The initial states *)

\* Before the first batch the wallets hold the outputs of the faucet requests,
\* and the alias manager is empty.
LEMMA BatchInit == Init => BatchInv
<1> SUFFICES ASSUME Init PROVE BatchInv
  OBVIOUS
<1>1. /\ scenario \in Scenarios /\ reuse \in BOOLEAN /\ createAccounts \in BOOLEAN
      /\ BatchesCreated = 0 /\ inputMap = EmptyMap /\ DOMAIN EmptyMap = {}
      /\ reuseTempIDPool = {} /\ stored = {} /\ outputIDs = {} /\ panicked = FALSE
      /\ \A b \in Batch : /\ prefix[b] = 0 /\ pc[b] = "idle" /\ tx[b] = 0
                          /\ inputWallet[b] = NoWallet /\ matched[b] = EmptyMap
                          /\ posted[b] = {} /\ built[b] = <<>>
  BY DEF Init, SpamNestedConflicts, SpamAccounts, EmptyMap
<1>2. /\ missing \subseteq FreshOutputs /\ unidentified \subseteq FreshOutputs
      /\ DOMAIN tempIDWalletMap = FreshOutputs \ missing
      /\ \A o \in FreshOutputs \ missing : tempIDWalletMap[o] = o[1] /\ o[1] \in FreshWallet
      /\ tempIDWalletMap \in [FreshOutputs \ missing -> OwnedWallets]
  <2>1. tempIDWalletMap = [o \in FreshOutputs \ missing |-> o[1]]
    BY DEF Init
  <2>2. missing \subseteq FreshOutputs /\ unidentified \subseteq FreshOutputs
    BY BatchAssumption DEF Init
  <2> QED BY <2>1, <2>2, OutputFacts DEF OwnedWallets
<1>3. \A b \in Batch : BuiltBy(b) = {}
  BY <1>1 DEF BuiltBy
<1>4. \A b \in Batch : \A x \in Alias : \A o \in Output : ~Use(b, x, o)
  BY <1>1, <1>3 DEF Use
<1>5. TypeOK
  <2>1. Cardinality(Batch) \in Nat /\ Cardinality(FreshWallet) \in Nat
    BY BatchAssumption, FS_CardinalityType
  <2>2. faucetWallets \in Seq(FreshWallet)
    <3>1. faucetWallets \in [1 .. Cardinality(FreshWallet) -> FreshWallet]
      BY DEF Init
    <3> QED BY <2>1, <3>1
  <2>3. nextAddrToSpent \in [FreshWallet -> 0 .. WalletSize]
    BY BatchAssumption DEF Init
  <2>4. DOMAIN tempIDWalletMap \subseteq Output /\ \A o \in DOMAIN tempIDWalletMap : tempIDWalletMap[o] # NoWallet
    BY <1>2, OutputFacts, BatchAssumption
  <2>5. tx \in [Batch -> 0 .. Len(scenario)]
    BY <1>1, ScenarioFacts DEF Init
  <2>6. /\ prefix \in [Batch -> 0 .. BatchesCreated]
        /\ pc \in [Batch -> {"idle", "wallet", "inputs", "outputs", "post", "done", "failed"}]
        /\ inputWallet \in [Batch -> FreshWallet \union {ReuseWallet, NoWallet}]
    BY DEF Init
  <2>7. /\ \A b \in Batch : prefix[b] = 0 <=> pc[b] = "idle"
        /\ DOMAIN inputMap = {}
        /\ BatchesCreated \in 0 .. Cardinality(Batch)
        /\ \A b \in Batch : DOMAIN matched[b] = {}
        /\ \A b \in Batch : posted[b] \subseteq 1 .. Len(scenario)
    BY <1>1, <2>1
  <2> QED BY <1>1, <1>2, <2>2, <2>3, <2>4, <2>5, <2>6, <2>7 DEF TypeOK
<1>6. MapsTyped
  <2>1. /\ matched \in [Batch -> Map(Alias, Output)]
        /\ posted \in [Batch -> SUBSET (1 .. Len(scenario))]
    BY EmptyTyped DEF Init
  <2>2. inputMap \in [DOMAIN inputMap -> Output]
    BY <1>1 DEF EmptyMap
  <2> QED BY <1>2, <2>1, <2>2 DEF MapsTyped, Init
<1>7. Numbered
  <2>1. {b \in Batch : pc[b] # "idle"} = {}
    BY <1>1
  <2> QED BY <1>1, <2>1, FS_EmptySet DEF Numbered
<1>8. ProgressSound
  BY <1>1, <1>3 DEF ProgressSound
<1>9. StoreSound
  BY <1>1, <1>2, ScenarioFacts DEF StoreSound, Owner
<1>10. UsesApart /\ UsesTaken /\ UsesNamed
  BY <1>1, <1>4 DEF UsesApart, UsesTaken, UsesNamed
<1>11. WalletChosen /\ SignedSound /\ InputsIdentified
  BY <1>1, <1>3 DEF WalletChosen, SignedSound, InputsIdentified
<1> QED BY <1>5, <1>6, <1>7, <1>8, <1>9, <1>10, <1>11 DEF BatchInv

-----------------------------------------------------------------------------
(* What a step leaves alone *)

\* No batch starts.
LEMMA NumberedFrame ==
    ASSUME Numbered, UNCHANGED <<BatchesCreated, prefix>>,
           \A b \in Batch : pc'[b] = "idle" <=> pc[b] = "idle"
    PROVE  Numbered'
<1>1. {b \in Batch : pc'[b] = "idle"} = {b \in Batch : pc[b] = "idle"}
  OBVIOUS
<1>2. {b \in Batch : pc'[b] # "idle"} = {b \in Batch : pc[b] # "idle"}
  OBVIOUS
<1> QED BY <1>2 DEF Numbered

\* Nothing is stored, and no batch starts or ends storing its outputs.
LEMMA StoreFrame ==
    ASSUME StoreSound, UNCHANGED <<scenarioVars, storeVars, tx>>,
           \A b \in Batch : /\ pc'[b] = "outputs" <=> pc[b] = "outputs"
                            /\ pc'[b] \in {"post", "done"} => pc[b] \in {"post", "done"}
    PROVE  StoreSound'
<1>1. \A o \in stored : o[1] \in Batch
  BY OutputFacts DEF StoreSound
<1>2. stored' = stored /\ reuseTempIDPool' = reuseTempIDPool /\ tempIDWalletMap' = tempIDWalletMap
  BY DEF storeVars
<1> QED BY <1>1, <1>2, ScenarioFrame DEF StoreSound

\* No batch chooses a wallet or matches an input.
LEMMA WalletFrame ==
    ASSUME WalletChosen, UNCHANGED scenarioVars,
           \A b \in Batch : pc'[b] = "inputs" =>
                /\ pc[b] = "inputs"
                /\ inputWallet'[b] = inputWallet[b] /\ tx'[b] = tx[b] /\ matched'[b] = matched[b]
    PROVE  WalletChosen'
BY ScenarioFrame DEF WalletChosen, Tx

\* No transaction is built.
LEMMA BuiltFrame ==
    ASSUME SignedSound, InputsIdentified, UNCHANGED <<scenarioVars, built>>
    PROVE  SignedSound' /\ InputsIdentified'
BY ScenarioFrame DEF SignedSound, InputsIdentified, BuiltBy, Spends

\* An output that was taken stays so, unless a wallet or the pool gets it back.
LEMMA TakenFrame ==
    ASSUME TypeOK, UNCHANGED scenarioVars,
           \A w \in FreshWallet : nextAddrToSpent'[w] >= nextAddrToSpent[w],
           nextAddrToSpent' \in [FreshWallet -> 0 .. WalletSize],
           stored \ reuseTempIDPool \subseteq stored' \ reuseTempIDPool'
    PROVE  \A o : Taken(o) => Taken(o)'
<1> SUFFICES ASSUME NEW o, Taken(o) PROVE Taken(o)'
  OBVIOUS
<1>1. CASE o \in stored \ reuseTempIDPool /\ WalletOf(o[3]) = ReuseWallet
  BY <1>1, ScenarioFrame DEF Taken
<1>2. CASE /\ o \notin missing
           /\ \E w \in FreshWallet : \E i \in 0 .. nextAddrToSpent[w] - 1 : o = FreshOutput(w, i)
  <2>0. PICK w \in FreshWallet : \E i \in 0 .. nextAddrToSpent[w] - 1 : o = FreshOutput(w, i)
    BY <1>2
  <2>1. PICK i \in 0 .. nextAddrToSpent[w] - 1 : o = FreshOutput(w, i)
    BY <2>0
  <2>2. nextAddrToSpent[w] \in Nat /\ nextAddrToSpent'[w] \in Nat
    BY BatchAssumption DEF TypeOK
  <2>3. i \in 0 .. nextAddrToSpent'[w] - 1
    BY <2>1, <2>2
  <2>4. \E v \in FreshWallet : \E j \in 0 .. nextAddrToSpent'[v] - 1 : o = FreshOutput(v, j)
    BY <2>1, <2>3
  <2> QED BY <1>2, <2>4, ScenarioFrame DEF Taken
<1> QED BY <1>1, <1>2 DEF Taken

\* The aliases stand for what they stood for, or for nothing.
LEMMA UsesFrame ==
    ASSUME UsesApart, UsesTaken, UNCHANGED scenarioVars,
           \A b \in Batch : \A x \in Alias : \A o \in Output : Use(b, x, o)' => Use(b, x, o),
           \A o : Taken(o) => Taken(o)'
    PROVE  UsesApart' /\ UsesTaken'
<1>1. Output' = Output
  BY ScenarioFrame
<1> QED BY <1>1 DEF UsesApart, UsesTaken

\* A step that touches no alias, no matched input and no built transaction.
LEMMA UsesSame ==
    ASSUME UsesApart, UsesTaken, UsesNamed, UNCHANGED <<scenarioVars, prefix, inputMap, matched, built>>,
           \A b \in Batch : /\ pc'[b] = "idle" <=> pc[b] = "idle"
                            /\ pc'[b] = "done" <=> pc[b] = "done",
           \A o : Taken(o) => Taken(o)'
    PROVE  UsesApart' /\ UsesTaken' /\ UsesNamed'
<1>1. \A b \in Batch : \A x \in Alias : \A o : Use(b, x, o)' <=> Use(b, x, o)
  BY DEF Use, HasInput, Name, BuiltBy, Spends
<1>2. UsesApart' /\ UsesTaken'
  BY <1>1, UsesFrame
<1>3. UsesNamed'
  <2>1. Output' = Output
    BY ScenarioFrame
  <2> QED BY <1>1, <2>1 DEF UsesNamed, HasInput, Name, BuiltBy, Spends
<1> QED BY <1>2, <1>3

-----------------------------------------------------------------------------
(* The steps *)

\* A batch under way has a number, and is at a transaction of the scenario.
LEMMA BatchFacts ==
    ASSUME TypeOK, ProgressSound, NEW b \in Batch, pc[b] # "idle"
    PROVE  /\ prefix[b] \in 1 .. BatchesCreated /\ prefix[b] # 0
           /\ tx[b] \in 1 .. Len(scenario) /\ tx[b] \in Nat
           /\ Tx(b).inputs \subseteq Alias /\ Tx(b).outputs \subseteq Alias
           /\ Tx(b).inputs # {} /\ Tx(b).outputs # {}
<1>1. tx[b] \in 0 .. Len(scenario) /\ tx[b] # 0 /\ Len(scenario) \in Nat
  BY ScenarioFacts DEF TypeOK, ProgressSound
<1>2. prefix[b] \in 0 .. BatchesCreated /\ prefix[b] # 0
  BY DEF TypeOK
<1> QED BY <1>1, <1>2, ScenarioFacts DEF TypeOK, Tx

\* Nothing but the panic flag changes.
LEMMA PanicStep ==
    ASSUME BatchInv, UNCHANGED <<scenarioVars, aliasVars, outputVars, freshVars, txVars, posted, built>>,
           panicked' \in BOOLEAN
    PROVE  BatchInv'
<1> USE DEF BatchInv
<1>1. TypeOK'
  BY ScenarioFrame DEF TypeOK, scenarioVars, aliasVars, outputVars, storeVars, freshVars, txVars
<1>2. MapsTyped'
  BY ScenarioFrame DEF MapsTyped, aliasVars, outputVars, storeVars, txVars
<1>3. Numbered' /\ WalletChosen'
  BY NumberedFrame, WalletFrame DEF aliasVars, txVars
<1>4. ProgressSound'
  BY ScenarioFrame DEF ProgressSound, txVars, BuiltBy, Spends, Tx
<1>5. StoreSound'
  BY StoreFrame DEF txVars, outputVars
<1>6. \A o : Taken(o) => Taken(o)'
  BY ScenarioFrame DEF Taken, outputVars, storeVars, freshVars
<1>7. UsesApart' /\ UsesTaken' /\ UsesNamed'
  BY <1>6, UsesSame DEF aliasVars, txVars
<1>8. SignedSound' /\ InputsIdentified'
  BY BuiltFrame
<1> QED BY <1>1, <1>2, <1>3, <1>4, <1>5, <1>7, <1>8

\* A new batch takes a number no name in the alias manager has.
LEMMA StartStep ==
    ASSUME BatchInv, NEW b \in Batch, nextBatchPrefix(b)
    PROVE  BatchInv'
<1> USE DEF BatchInv
<1> DEFINE Started == {c \in Batch : pc[c] # "idle"}
<1>1. /\ UNCHANGED <<scenarioVars, inputMap, outputVars, freshVars, inputWallet, matched,
                     posted, built, panicked>>
      /\ pc[b] = "idle" /\ BatchesCreated' = BatchesCreated + 1
      /\ pc' = [pc EXCEPT ![b] = "wallet"]
      /\ prefix' = [prefix EXCEPT ![b] = BatchesCreated + 1]
      /\ tx' = [tx EXCEPT ![b] = 1]
  BY DEF nextBatchPrefix, Goto
<1>2. /\ \A c \in Batch : pc'[c] = IF c = b THEN "wallet" ELSE pc[c]
      /\ \A c \in Batch : prefix'[c] = IF c = b THEN BatchesCreated + 1 ELSE prefix[c]
      /\ \A c \in Batch : tx'[c] = IF c = b THEN 1 ELSE tx[c]
      /\ \A c \in Batch : prefix[c] \in 0 .. BatchesCreated
      /\ BatchesCreated \in Nat /\ Len(scenario) \in Nat /\ Len(scenario) > 0
  BY <1>1, ScenarioFacts, BatchAssumption, FS_CardinalityType DEF TypeOK
<1>3. /\ BatchesCreated' = Cardinality(Started') /\ BatchesCreated' \in 0 .. Cardinality(Batch)
  <2>1. Started' = Started \union {b} /\ b \notin Started
    BY <1>1, <1>2
  <2>2. IsFiniteSet(Started)
    BY BatchAssumption, FS_Subset
  <2>3. Cardinality(Started') = Cardinality(Started) + 1
    BY <2>1, <2>2, FS_AddElement
  <2>4. Started' \subseteq Batch
    OBVIOUS
  <2>5. Cardinality(Started') <= Cardinality(Batch) /\ Cardinality(Batch) \in Nat
    BY <2>4, BatchAssumption, FS_Subset, FS_CardinalityType
  <2> HIDE DEF Started
  <2>6. BatchesCreated = Cardinality(Started)
    BY DEF Numbered, Started
  <2> QED BY <1>1, <1>2, <2>3, <2>5, <2>6
<1>4. Numbered'
  <2>1. BatchesCreated' = Cardinality({c \in Batch : pc'[c] # "idle"})
    BY <1>3
  <2>2. ASSUME NEW c \in Batch, NEW d \in Batch, pc'[c] # "idle", prefix'[c] = prefix'[d]
        PROVE  c = d
    <3>1. BatchesCreated + 1 \notin 0 .. BatchesCreated
      BY <1>2
    <3>2. CASE c = b \/ d = b
      BY <1>2, <2>2, <3>1, <3>2
    <3>3. CASE c # b /\ d # b
      <4>1. pc[c] # "idle" /\ prefix[c] = prefix[d]
        BY <1>2, <2>2, <3>3
      <4> QED BY <4>1 DEF Numbered
    <3> QED BY <3>2, <3>3
  <2> HIDE DEF Started
  <2> QED BY <2>1, <2>2 DEF Numbered
<1>5. TypeOK'
  <2>1. /\ prefix' \in [Batch -> 0 .. BatchesCreated']
        /\ tx' \in [Batch -> 0 .. Len(scenario)]
        /\ pc' \in [Batch -> {"idle", "wallet", "inputs", "outputs", "post", "done", "failed"}]
    BY <1>1, <1>2 DEF TypeOK
  <2>2. DOMAIN inputMap' \subseteq {EmptyAlias} \union ((1 .. BatchesCreated') \X Alias)
    BY <1>1, <1>2 DEF TypeOK
  <2>3. \A c \in Batch : prefix'[c] = 0 <=> pc'[c] = "idle"
    <3>1. \A c \in Batch : prefix[c] = 0 <=> pc[c] = "idle"
      BY DEF TypeOK
    <3> QED BY <1>2, <3>1
  <2>4. \A o \in stored \ DOMAIN tempIDWalletMap : pc'[o[1]] = "outputs"
    BY <1>1, <1>2, OutputFacts DEF TypeOK, StoreSound
  <2> QED BY <1>1, <1>3, <2>1, <2>2, <2>3, <2>4, ScenarioFrame
          DEF TypeOK, scenarioVars, outputVars, storeVars, freshVars
<1>6. MapsTyped'
  BY <1>1, ScenarioFrame DEF MapsTyped, outputVars, storeVars
<1>7. ProgressSound'
  BY <1>1, <1>2, ScenarioFrame DEF ProgressSound, BuiltBy, Spends, Tx
<1>8. StoreSound'
  <2>1. \A o \in stored : o[1] \in Batch
    BY OutputFacts DEF StoreSound
  <2> QED BY <1>1, <1>2, <2>1, ScenarioFrame DEF StoreSound, outputVars, storeVars
<1>9. \A o : Taken(o) => Taken(o)'
  BY <1>1, ScenarioFrame DEF Taken, outputVars, storeVars, freshVars
<1>10. \A x \in Alias : Name(b, x)' \notin DOMAIN inputMap
  <2>1. DOMAIN inputMap \subseteq {EmptyAlias} \union ((1 .. BatchesCreated) \X Alias)
    BY DEF TypeOK
  <2>2. ASSUME NEW x PROVE Name(b, x)' = <<BatchesCreated + 1, x>>
    BY <1>2 DEF Name
  <2>3. \A x : <<BatchesCreated + 1, x>> # EmptyAlias
    <3>1. EmptyAlias[1] = 0 /\ BatchesCreated + 1 # 0
      BY <1>2 DEF EmptyAlias
    <3> QED BY <3>1
  <2>4. \A x : <<BatchesCreated + 1, x>> \notin (1 .. BatchesCreated) \X Alias
    BY <1>2
  <2> QED BY <2>1, <2>2, <2>3, <2>4
<1>11. BuiltBy(b) = {} /\ DOMAIN matched[b] = {}
  <2>1. tx[b] = 0 /\ Len(built[b]) = tx[b] /\ matched[b] = EmptyMap
    BY <1>1 DEF ProgressSound
  <2>2. DOMAIN EmptyMap = {}
    BY DEF EmptyMap
  <2> QED BY <2>1, <2>2 DEF BuiltBy
<1>12. \A x \in Alias : \A o : ~Use(b, x, o)'
  BY <1>1, <1>10, <1>11 DEF Use, HasInput, BuiltBy
<1>13. ASSUME NEW c \in Batch, c # b, NEW x, NEW o
       PROVE  /\ HasInput(c, x)' <=> HasInput(c, x)
              /\ Use(c, x, o)' <=> Use(c, x, o)
  BY <1>1, <1>2, <1>13 DEF Use, HasInput, Name, BuiltBy, Spends
<1>14. UsesApart' /\ UsesTaken'
  BY <1>1, <1>9, <1>12, <1>13, UsesFrame
<1>15. UsesNamed'
  <2>1. Output' = Output
    BY <1>1, ScenarioFrame
  <2>2. \A x \in Alias : ~HasInput(b, x)'
    BY <1>1, <1>10 DEF HasInput
  <2>3. ASSUME NEW c \in Batch, NEW x \in Alias, c # b
        PROVE  /\ pc'[c] # "done" => \A o \in Output : Use(c, x, o)' => HasInput(c, x)'
               /\ pc'[c] # "idle" /\ HasInput(c, x)' =>
                    /\ pc'[c] # "done"
                    /\ \/ x \in DOMAIN matched'[c]
                       \/ \E k \in BuiltBy(c)' : x \in DOMAIN Spends(c, k)'
    <3>1. BuiltBy(c)' = BuiltBy(c) /\ \A k : Spends(c, k)' = Spends(c, k)
      BY <1>1 DEF BuiltBy, Spends
    <3>2. matched'[c] = matched[c] /\ pc'[c] = pc[c] /\ (HasInput(c, x)' <=> HasInput(c, x))
      BY <1>1, <1>2, <1>13, <2>3
    <3>3. pc'[c] # "done" => \A o \in Output : Use(c, x, o)' => HasInput(c, x)'
      BY <1>13, <2>3, <3>2 DEF UsesNamed
    <3> QED BY <3>1, <3>2, <3>3 DEF UsesNamed
  <2> QED BY <1>2, <1>12, <2>1, <2>2, <2>3 DEF UsesNamed
<1>16. WalletChosen'
  BY <1>1, <1>2, WalletFrame
<1>17. SignedSound' /\ InputsIdentified'
  BY <1>1, BuiltFrame
<1> QED BY <1>4, <1>5, <1>6, <1>7, <1>8, <1>14, <1>15, <1>16, <1>17

\* What the histories hold is typed, and what a transaction spends is in use.
LEMMA BuiltFacts ==
    ASSUME MapsTyped, NEW b \in Batch, NEW k \in BuiltBy(b)
    PROVE  /\ k \in Nat /\ DOMAIN Spends(b, k) \subseteq Alias
           /\ \A x \in DOMAIN Spends(b, k) : Spends(b, k)[x] \in Output /\ Use(b, x, Spends(b, k)[x])
<1> DEFINE BuiltTx == [inputs  : Map(Alias, Output), named : SUBSET Alias,
                       signers : Map(Alias, OwnedWallets)]
<1>1. built[b] \in Seq(BuiltTx)
  BY DEF MapsTyped
<1>2. built[b][k].inputs \in Map(Alias, Output) /\ k \in Nat
  <2> HIDE DEF BuiltTx
  <2>1. built[b][k] \in BuiltTx /\ k \in Nat
    BY <1>1 DEF BuiltBy
  <2> QED BY <2>1 DEF BuiltTx
<1>3. /\ DOMAIN Spends(b, k) \subseteq Alias
      /\ \A x \in DOMAIN Spends(b, k) : Spends(b, k)[x] \in Output
  BY <1>2, MapEntries DEF Spends
<1> QED BY <1>2, <1>3 DEF Use

\* The known aliases of a batch are those of its earlier transactions and
\* those it has just matched.
LEMMA KnownAliases ==
    ASSUME BatchInv, NEW b \in Batch, pc[b] \in {"wallet", "inputs"}, NEW x \in Alias
    PROVE  HasInput(b, x) <=> x \in Earlier(tx[b]) \union DOMAIN matched[b]
<1> USE DEF BatchInv
<1>1. BuiltBy(b) = 1 .. tx[b] - 1 /\ \A k \in BuiltBy(b) : DOMAIN Spends(b, k) = scenario[k].inputs
  BY DEF ProgressSound, BuiltBy
<1>2. x \in Earlier(tx[b]) <=> \E k \in BuiltBy(b) : x \in DOMAIN Spends(b, k)
  BY <1>1 DEF Earlier
<1>3. ASSUME NEW k \in BuiltBy(b), x \in DOMAIN Spends(b, k) PROVE HasInput(b, x)
  BY <1>3, BuiltFacts DEF UsesNamed
<1>4. ASSUME x \in DOMAIN matched[b] PROVE HasInput(b, x)
  <2>1. matched[b][x] \in Output
    BY <1>4, MapEntries DEF MapsTyped
  <2> QED BY <1>4, <2>1 DEF Use, UsesNamed
<1> QED BY <1>2, <1>3, <1>4 DEF UsesNamed

\* A batch chooses its wallet, or gives up, an index being used up or not.
LEMMA MoveStep ==
    ASSUME BatchInv, NEW b \in Batch, NEW place \in {"inputs", "failed"},
           pc[b] \in {"wallet", "inputs"}, pc' = [pc EXCEPT ![b] = place],
           UNCHANGED <<scenarioVars, aliasVars, outputVars, tx, matched, posted, built, panicked>>,
           nextAddrToSpent' \in [FreshWallet -> 0 .. WalletSize],
           \A w \in FreshWallet : nextAddrToSpent'[w] >= nextAddrToSpent[w],
           inputWallet' \in [Batch -> FreshWallet \union {ReuseWallet, NoWallet}],
           faucetWallets' \in Seq(FreshWallet),
           WalletChosen'
    PROVE  BatchInv'
<1> USE DEF BatchInv
<1>1. /\ \A c \in Batch : pc'[c] = IF c = b THEN place ELSE pc[c]
      /\ pc' \in [Batch -> {"idle", "wallet", "inputs", "outputs", "post", "done", "failed"}]
  BY DEF TypeOK
<1>2. TypeOK'
  <2>1. \A c \in Batch : prefix'[c] = 0 <=> pc'[c] = "idle"
    BY <1>1 DEF TypeOK, aliasVars
  <2>2. \A o \in stored \ DOMAIN tempIDWalletMap : pc'[o[1]] = "outputs"
    BY <1>1, OutputFacts DEF TypeOK, StoreSound
  <2> QED BY <1>1, <2>1, <2>2, ScenarioFrame DEF TypeOK, scenarioVars, aliasVars, outputVars, storeVars
<1>3. MapsTyped'
  BY ScenarioFrame DEF MapsTyped, aliasVars, outputVars, storeVars
<1>4. Numbered'
  BY <1>1, NumberedFrame DEF aliasVars
<1>5. ProgressSound'
  <2>1. DOMAIN matched[b] \subseteq Tx(b).inputs
    BY EmptyTyped DEF ProgressSound
  <2> QED BY <1>1, <2>1, ScenarioFrame DEF ProgressSound, BuiltBy, Spends, Tx
<1>6. StoreSound'
  BY <1>1, StoreFrame DEF outputVars
<1>7. \A o : Taken(o) => Taken(o)'
  BY TakenFrame DEF outputVars, storeVars
<1>8. UsesApart' /\ UsesTaken' /\ UsesNamed'
  BY <1>1, <1>7, UsesSame DEF aliasVars
<1>9. SignedSound' /\ InputsIdentified'
  BY BuiltFrame
<1> QED BY <1>2, <1>3, <1>4, <1>5, <1>6, <1>8, <1>9

\* Dropping the empty head leaves a queue of fresh wallets.
LEMMA QueueTyped ==
    ASSUME TypeOK, NEW b \in Batch, UseFreshWallet(b)
    PROVE  /\ faucetWallets' \in Seq(FreshWallet)
           /\ \/ Fail(b)
              \/ /\ \E w \in FreshWallet : inputWallet' = [inputWallet EXCEPT ![b] = w]
                 /\ Goto(b, "inputs") /\ UNCHANGED <<tx, matched>>
           /\ UNCHANGED nextAddrToSpent
<1> DEFINE queue == IF faucetWallets # <<>> /\ nextAddrToSpent[Head(faucetWallets)] = WalletSize
                    THEN Tail(faucetWallets) ELSE faucetWallets
<1>1. faucetWallets \in Seq(FreshWallet)
  BY DEF TypeOK
<1>2. queue \in Seq(FreshWallet)
  BY <1>1
<1>3. queue # <<>> => Head(queue) \in FreshWallet
  BY <1>2
<1> QED BY <1>2, <1>3 DEF UseFreshWallet

\* The wallet is nil exactly when the first alias looked at is known.
LEMMA WalletStep ==
    ASSUME BatchInv, NEW b \in Batch, updateInputWallet(b)
    PROVE  BatchInv'
<1> USE DEF BatchInv
<1>1. /\ pc[b] = "wallet"
      /\ UNCHANGED <<scenarioVars, aliasVars, outputVars, posted, built, panicked>>
  BY DEF updateInputWallet
<1>2. PICK a \in Tx(b).inputs :
        IF HasInput(b, a)
        THEN /\ inputWallet' = [inputWallet EXCEPT ![b] = NoWallet]
             /\ Goto(b, "inputs")
             /\ UNCHANGED <<tx, matched, freshVars>>
        ELSE IF reuse /\ reuseTempIDPool # {}
        THEN /\ inputWallet' = [inputWallet EXCEPT ![b] = ReuseWallet]
             /\ Goto(b, "inputs")
             /\ UNCHANGED <<tx, matched, freshVars>>
        ELSE UseFreshWallet(b)
  BY DEF updateInputWallet
<1>3. a \in Alias /\ DOMAIN matched[b] = {}
  BY <1>1, BatchFacts, EmptyTyped DEF ProgressSound
<1>4. HasInput(b, a) <=> a \in Earlier(tx[b])
  BY <1>1, <1>3, KnownAliases
<1>5. faucetWallets \in Seq(FreshWallet) /\ inputWallet \in [Batch -> FreshWallet \union {ReuseWallet, NoWallet}]
  BY DEF TypeOK
<1>0. UNCHANGED nextAddrToSpent => /\ nextAddrToSpent' \in [FreshWallet -> 0 .. WalletSize]
                                    /\ \A w \in FreshWallet : nextAddrToSpent'[w] >= nextAddrToSpent[w]
  BY BatchAssumption DEF TypeOK
<1>6. CASE /\ Fail(b) /\ faucetWallets' \in Seq(FreshWallet) /\ UNCHANGED nextAddrToSpent
  <2>1. pc' = [pc EXCEPT ![b] = "failed"] /\ UNCHANGED <<tx, inputWallet, matched>>
    BY <1>6 DEF Fail, Goto
  <2>2. WalletChosen'
    BY <1>1, <2>1, WalletFrame DEF TypeOK
  <2> QED BY <1>1, <1>5, <1>6, <1>0, <2>1, <2>2, MoveStep
<1>7. ASSUME NEW w \in FreshWallet \union {ReuseWallet, NoWallet},
             inputWallet' = [inputWallet EXCEPT ![b] = w], Goto(b, "inputs"),
             UNCHANGED <<tx, matched, nextAddrToSpent>>, faucetWallets' \in Seq(FreshWallet),
             w = NoWallet <=> HasInput(b, a)
      PROVE  BatchInv'
  <2>1. /\ pc' = [pc EXCEPT ![b] = "inputs"]
        /\ \A c \in Batch : c # b => pc'[c] = pc[c] /\ inputWallet'[c] = inputWallet[c]
        /\ inputWallet'[b] = w
        /\ inputWallet' \in [Batch -> FreshWallet \union {ReuseWallet, NoWallet}]
    BY <1>5, <1>7 DEF Goto, TypeOK
  <2>2. ASSUME NEW c \in Batch, pc'[c] = "inputs"
        PROVE  IF inputWallet'[c] = NoWallet
               THEN Tx(c).inputs \intersect Earlier(tx[c]) # {}
               ELSE /\ ~ (Tx(c).inputs \subseteq Earlier(tx[c]))
                    /\ Uniform(tx[c]) =>
                            \A x \in DOMAIN matched[c] : Owner(matched[c][x]) = inputWallet'[c]
    <3>1. CASE c = b
      BY <1>3, <1>4, <1>7, <2>1, <3>1
    <3>2. CASE c # b
      BY <2>1, <2>2, <3>2 DEF WalletChosen
    <3> QED BY <3>1, <3>2
  <2>3. WalletChosen'
    BY <1>1, <1>7, <2>2, ScenarioFrame DEF WalletChosen, Tx
  <2> QED BY <1>1, <1>7, <1>0, <2>1, <2>3, MoveStep
<1>8. NoWallet \notin FreshWallet \union {ReuseWallet}
  BY BatchAssumption
<1>9. CASE HasInput(b, a) \/ (reuse /\ reuseTempIDPool # {})
  BY <1>2, <1>5, <1>7, <1>8, <1>9 DEF freshVars
<1>10. CASE UseFreshWallet(b) /\ ~HasInput(b, a)
  BY <1>6, <1>7, <1>8, <1>10, QueueTyped
<1> QED BY <1>2, <1>9, <1>10

\* The counter of a fresh wallet moves on by one, within the wallet.
LEMMA NextIndex ==
    ASSUME TypeOK, NEW w, getAndIncNextAddrToSpent(w)
    PROVE  /\ w \in FreshWallet /\ nextAddrToSpent[w] \in 0 .. WalletSize - 1
           /\ nextAddrToSpent' = [nextAddrToSpent EXCEPT ![w] = nextAddrToSpent[w] + 1]
           /\ nextAddrToSpent' \in [FreshWallet -> 0 .. WalletSize]
           /\ \A v \in FreshWallet : nextAddrToSpent'[v] >= nextAddrToSpent[v]
           /\ reuseTempIDPool' = reuseTempIDPool
<1>1. nextAddrToSpent \in [FreshWallet -> 0 .. WalletSize] /\ WalletSize \in Nat
  BY BatchAssumption DEF TypeOK
<1>2. /\ w \in FreshWallet /\ nextAddrToSpent[w] < WalletSize
      /\ nextAddrToSpent' = [nextAddrToSpent EXCEPT ![w] = nextAddrToSpent[w] + 1]
      /\ reuseTempIDPool' = reuseTempIDPool
  BY DEF getAndIncNextAddrToSpent
<1>3. nextAddrToSpent[w] \in 0 .. WalletSize - 1
  BY <1>1, <1>2
<1>4. \A v \in FreshWallet : nextAddrToSpent'[v] = IF v = w THEN nextAddrToSpent[w] + 1 ELSE nextAddrToSpent[v]
  BY <1>1, <1>2
<1> QED BY <1>1, <1>2, <1>3, <1>4

\* A wallet without outputs ends the batch, and so does an empty index.
LEMMA FailStep ==
    ASSUME BatchInv, NEW b \in Batch, MatchFails(b) \/ MatchFindsNone(b)
    PROVE  BatchInv'
<1>1. /\ pc[b] = "inputs" /\ pc' = [pc EXCEPT ![b] = "failed"]
      /\ UNCHANGED <<tx, inputWallet, matched, scenarioVars, aliasVars, tempIDWalletMap, stored,
                     outputIDs, faucetWallets, posted, built, panicked>>
  BY DEF MatchFails, MatchFindsNone, Fail, Goto, outputVars, storeVars, freshVars
<1>2. /\ inputWallet' \in [Batch -> FreshWallet \union {ReuseWallet, NoWallet}]
      /\ faucetWallets' \in Seq(FreshWallet)
  BY <1>1 DEF BatchInv, TypeOK
<1>3. WalletChosen'
  BY <1>1, WalletFrame DEF BatchInv, TypeOK
<1>4. /\ nextAddrToSpent' \in [FreshWallet -> 0 .. WalletSize]
      /\ \A w \in FreshWallet : nextAddrToSpent'[w] >= nextAddrToSpent[w]
      /\ reuseTempIDPool' = reuseTempIDPool
  <2>1. CASE MatchFails(b)
    BY <2>1, BatchAssumption DEF MatchFails, BatchInv, TypeOK, freshVars, outputVars, storeVars
  <2>2. CASE MatchFindsNone(b)
    BY <2>2, NextIndex DEF MatchFindsNone, BatchInv
  <2> QED BY <2>1, <2>2
<1>5. UNCHANGED outputVars
  BY <1>1, <1>4 DEF outputVars, storeVars
<1> QED BY <1>1, <1>2, <1>3, <1>4, <1>5, MoveStep

\* What matching an alias with an output does, wherever the output is from.
LEMMA MatchFacts ==
    ASSUME BatchInv, NEW b \in Batch, NEW a \in Unmatched(b), NEW o \in Output,
           pc[b] = "inputs", Match(b, a, o),
           UNCHANGED <<scenarioVars, BatchesCreated, prefix, tempIDWalletMap, stored, outputIDs,
                       faucetWallets, pc, tx, inputWallet, posted, built, panicked>>
    PROVE  /\ a \in Alias /\ a \in Tx(b).inputs /\ a \notin DOMAIN matched[b]
           /\ matched' \in [Batch -> Map(Alias, Output)]
           /\ \A c \in Batch : c # b => matched'[c] = matched[c]
           /\ DOMAIN matched'[b] = DOMAIN matched[b] \union {a}
           /\ matched'[b][a] = o
           /\ \A x \in DOMAIN matched[b] : matched'[b][x] = matched[b][x]
           /\ \A c \in Batch : DOMAIN matched'[c] \subseteq Alias
           /\ Numbered' /\ ProgressSound' /\ SignedSound' /\ InputsIdentified'
<1> USE DEF BatchInv
<1>1. a \in Alias /\ a \in Tx(b).inputs /\ a \notin DOMAIN matched[b]
  BY BatchFacts DEF Unmatched
<1>2. matched \in [Batch -> Map(Alias, Output)] /\ matched' = [matched EXCEPT ![b] = Put(matched[b], a, o)]
  BY DEF MapsTyped, Match
<1>3. Put(matched[b], a, o) \in Map(Alias, Output)
  BY <1>1, <1>2, PutTyped
<1>4. /\ matched' \in [Batch -> Map(Alias, Output)]
      /\ \A c \in Batch : c # b => matched'[c] = matched[c]
      /\ matched'[b] = Put(matched[b], a, o)
  BY <1>2, <1>3
<1>5. /\ DOMAIN matched'[b] = DOMAIN matched[b] \union {a}
      /\ matched'[b][a] = o
      /\ \A x \in DOMAIN matched[b] : matched'[b][x] = matched[b][x]
  <2>1. /\ DOMAIN Put(matched[b], a, o) = DOMAIN matched[b] \union {a}
        /\ Put(matched[b], a, o)[a] = o
        /\ \A x \in DOMAIN matched[b] : x # a => Put(matched[b], a, o)[x] = matched[b][x]
    BY DEF Put
  <2> QED BY <1>1, <1>4, <2>1
<1>6. \A c \in Batch : DOMAIN matched'[c] \subseteq Alias
  BY <1>4, MapEntries
<1>7. Numbered'
  BY NumberedFrame
<1>8. ProgressSound'
  BY <1>1, <1>4, <1>5, ScenarioFrame DEF ProgressSound, BuiltBy, Spends, Tx
<1>9. SignedSound' /\ InputsIdentified'
  BY BuiltFrame
<1> QED BY <1>1, <1>4, <1>5, <1>6, <1>7, <1>8, <1>9

\* A known alias stands for what it stood for.
LEMMA MatchKnownStep ==
    ASSUME BatchInv, NEW b \in Batch, MatchKnown(b)
    PROVE  BatchInv'
<1> USE DEF BatchInv
<1>1. /\ pc[b] = "inputs"
      /\ UNCHANGED <<scenarioVars, aliasVars, outputVars, freshVars, pc, tx, inputWallet,
                     posted, built, panicked>>
  BY DEF MatchKnown
<1>2. PICK a \in Unmatched(b) : HasInput(b, a) /\ Match(b, a, inputMap[Name(b, a)])
  BY DEF MatchKnown
<1> DEFINE o == inputMap[Name(b, a)]
<1>3. o \in Output
  BY <1>2 DEF HasInput, TypeOK
<1>4. /\ a \in Alias /\ a \in Tx(b).inputs /\ a \notin DOMAIN matched[b]
      /\ matched' \in [Batch -> Map(Alias, Output)]
      /\ \A c \in Batch : c # b => matched'[c] = matched[c]
      /\ DOMAIN matched'[b] = DOMAIN matched[b] \union {a}
      /\ matched'[b][a] = o
      /\ \A x \in DOMAIN matched[b] : matched'[b][x] = matched[b][x]
      /\ \A c \in Batch : DOMAIN matched'[c] \subseteq Alias
      /\ Numbered' /\ ProgressSound' /\ SignedSound' /\ InputsIdentified'
  BY <1>1, <1>2, <1>3, MatchFacts DEF aliasVars, outputVars, storeVars, freshVars
<1>5. TypeOK'
  BY <1>1, <1>4, ScenarioFrame
     DEF TypeOK, scenarioVars, aliasVars, outputVars, storeVars, freshVars
<1>6. MapsTyped'
  BY <1>1, <1>4, ScenarioFrame DEF MapsTyped, aliasVars, outputVars, storeVars
<1>7. StoreSound'
  BY <1>1, StoreFrame DEF outputVars
<1>8. \A p : Taken(p) => Taken(p)'
  BY <1>1, ScenarioFrame DEF Taken, outputVars, storeVars, freshVars
<1>9. \A c \in Batch : \A x : HasInput(c, x)' <=> HasInput(c, x)
  BY <1>1 DEF HasInput, Name, aliasVars
<1>10. ASSUME NEW c \in Batch, NEW x \in Alias, NEW p, Use(c, x, p)' PROVE Use(c, x, p)
  <2>1. BuiltBy(c)' = BuiltBy(c) /\ \A k : Spends(c, k)' = Spends(c, k)
    BY <1>1 DEF BuiltBy, Spends
  <2>2. CASE c = b /\ x = a /\ p = o
    BY <1>1, <1>2, <2>2 DEF Use
  <2>3. CASE ~ (c = b /\ x = a /\ p = o)
    BY <1>1, <1>4, <1>10, <2>1, <2>3 DEF Use, HasInput, Name, aliasVars
  <2> QED BY <2>2, <2>3
<1>11. UsesApart' /\ UsesTaken'
  BY <1>1, <1>8, <1>10, UsesFrame
<1>12. UsesNamed'
  <2>1. Output' = Output
    BY <1>1, ScenarioFrame
  <2>2. \A c \in Batch : DOMAIN matched[c] \subseteq DOMAIN matched'[c]
    BY <1>4
  <2> QED BY <1>1, <1>9, <1>10, <2>1, <2>2 DEF UsesNamed, BuiltBy, Spends
<1>13. WalletChosen'
  <2>1. ASSUME inputWallet[b] # NoWallet, Uniform(tx[b]) PROVE FALSE
    <3>1. a \in Earlier(tx[b])
      BY <1>1, <1>2, <1>4, KnownAliases
    <3>2. Tx(b).inputs \subseteq Earlier(tx[b]) \/ Tx(b).inputs \intersect Earlier(tx[b]) = {}
      BY <2>1 DEF Uniform, Earlier, Tx
    <3>3. ~ (Tx(b).inputs \subseteq Earlier(tx[b]))
      BY <1>1, <2>1 DEF WalletChosen
    <3> QED BY <1>4, <3>1, <3>2, <3>3
  <2> QED BY <1>1, <1>4, <2>1, ScenarioFrame DEF WalletChosen, Tx
<1> QED BY <1>4, <1>5, <1>6, <1>7, <1>11, <1>12, <1>13

\* An output taken out of the input wallet was not taken before, and lies in it.
LEMMA TakeFacts ==
    ASSUME BatchInv, NEW b \in Batch, NEW o, UNCHANGED <<scenarioVars, stored>>,
           TakeFresh(inputWallet[b], o) \/ TakeReuse(inputWallet[b], o)
    PROVE  /\ o \in Output /\ ~Taken(o) /\ Taken(o)'
           /\ inputWallet[b] # NoWallet /\ Owner(o) = inputWallet[b]
           /\ nextAddrToSpent' \in [FreshWallet -> 0 .. WalletSize]
           /\ reuseTempIDPool' \subseteq reuseTempIDPool
           /\ \A p : Taken(p) => Taken(p)'
<1> USE DEF BatchInv
<1> DEFINE w == inputWallet[b]
<1>1. /\ nextAddrToSpent \in [FreshWallet -> 0 .. WalletSize] /\ WalletSize \in Nat
      /\ reuseTempIDPool \subseteq stored /\ stored \subseteq BatchOutputs
  BY BatchAssumption DEF TypeOK, StoreSound
<1>2. CASE TakeFresh(w, o)
  <2> DEFINE i == nextAddrToSpent[w]
  <2>1. /\ w \in FreshWallet /\ i \in Nat /\ i < WalletSize /\ o = FreshOutput(w, i)
        /\ nextAddrToSpent' = [nextAddrToSpent EXCEPT ![w] = i + 1]
        /\ reuseTempIDPool' = reuseTempIDPool
        /\ o \notin missing
    BY <1>1, <1>2, NextIndex DEF TakeFresh
  <2>2. i \in 0 .. WalletSize - 1 /\ o \in FreshOutputs /\ o \notin BatchOutputs /\ o \in Output
    BY <1>1, <2>1, OutputFacts
  <2>3. \A v \in FreshWallet : nextAddrToSpent'[v] = IF v = w THEN i + 1 ELSE nextAddrToSpent[v]
    BY <1>1, <2>1
  <2>4. nextAddrToSpent' \in [FreshWallet -> 0 .. WalletSize]
    BY <1>1, <2>1
  <2>5. ~Taken(o)
    <3>1. ASSUME NEW v \in FreshWallet, NEW j \in 0 .. nextAddrToSpent[v] - 1, o = FreshOutput(v, j)
          PROVE  FALSE
      <4>1. w = v /\ i = j
        BY <2>1, <3>1, OutputFacts DEF FreshOutput
      <4>2. j < nextAddrToSpent[v] /\ j = nextAddrToSpent[v]
        BY <1>1, <4>1
      <4> QED BY <4>2
    <3> QED BY <1>1, <2>2, <3>1 DEF Taken
  <2>6. Taken(o)'
    <3>1. i \in 0 .. nextAddrToSpent'[w] - 1
      BY <2>1, <2>3
    <3> QED BY <2>1, <3>1, ScenarioFrame DEF Taken
  <2>7. Owner(o) = w /\ w # NoWallet
    BY <2>1, <2>2, OutputParts, BatchAssumption DEF Owner
  <2>8. \A p : Taken(p) => Taken(p)'
    <3>1. \A v \in FreshWallet : nextAddrToSpent'[v] >= nextAddrToSpent[v]
      BY <1>1, <2>1, <2>3
    <3> QED BY <2>1, <2>4, <3>1, TakenFrame
  <2> QED BY <2>1, <2>2, <2>4, <2>5, <2>6, <2>7, <2>8
<1>3. CASE TakeReuse(w, o)
  <2>1. /\ w = ReuseWallet /\ o \in reuseTempIDPool /\ reuseTempIDPool' = reuseTempIDPool \ {o}
        /\ nextAddrToSpent' = nextAddrToSpent
    BY <1>3 DEF TakeReuse, Remaining
  <2>2. o \in BatchOutputs /\ o \notin FreshOutputs /\ o \in Output /\ WalletOf(o[3]) = ReuseWallet
    BY <1>1, <2>1, OutputFacts DEF StoreSound
  <2>3. ~Taken(o)
    <3>1. ASSUME NEW v \in FreshWallet, NEW j \in 0 .. nextAddrToSpent[v] - 1 PROVE o # FreshOutput(v, j)
      <4>1. j \in 0 .. WalletSize - 1
        BY <1>1
      <4> QED BY <2>2, <4>1, OutputFacts
    <3> QED BY <2>1, <3>1 DEF Taken
  <2>4. Taken(o)'
    BY <1>1, <2>1, <2>2, ScenarioFrame DEF Taken
  <2>5. Owner(o) = w /\ w # NoWallet
    BY <2>1, <2>2, BatchAssumption DEF Owner
  <2>6. \A p : Taken(p) => Taken(p)'
    <3>1. \A v \in FreshWallet : nextAddrToSpent'[v] >= nextAddrToSpent[v]
      BY <1>1, <2>1
    <3> QED BY <1>1, <2>1, <3>1, TakenFrame
  <2> QED BY <1>1, <2>1, <2>2, <2>3, <2>4, <2>5, <2>6
<1> QED BY <1>2, <1>3

\* An unknown alias gets an output nothing stands for.
LEMMA MatchUnknownStep ==
    ASSUME BatchInv, NEW b \in Batch, MatchUnknown(b)
    PROVE  BatchInv'
<1> USE DEF BatchInv
<1>1. /\ pc[b] = "inputs"
      /\ UNCHANGED <<scenarioVars, BatchesCreated, prefix, tempIDWalletMap, stored, outputIDs,
                     faucetWallets, pc, tx, inputWallet, posted, built, panicked>>
  BY DEF MatchUnknown
<1>2. PICK a \in Unmatched(b), o \in stored \union {FreshOutput(w, nextAddrToSpent[w]) : w \in FreshWallet} :
        /\ ~HasInput(b, a)
        /\ TakeFresh(inputWallet[b], o) \/ TakeReuse(inputWallet[b], o)
        /\ AddInputAlias(b, a, o)
        /\ Match(b, a, o)
  BY DEF MatchUnknown
<1>3. /\ o \in Output /\ ~Taken(o) /\ Taken(o)'
      /\ inputWallet[b] # NoWallet /\ Owner(o) = inputWallet[b]
      /\ nextAddrToSpent' \in [FreshWallet -> 0 .. WalletSize]
      /\ reuseTempIDPool' \subseteq reuseTempIDPool
      /\ \A p : Taken(p) => Taken(p)'
  BY <1>1, <1>2, TakeFacts
<1>4. /\ a \in Alias /\ a \in Tx(b).inputs /\ a \notin DOMAIN matched[b]
      /\ matched' \in [Batch -> Map(Alias, Output)]
      /\ \A c \in Batch : c # b => matched'[c] = matched[c]
      /\ DOMAIN matched'[b] = DOMAIN matched[b] \union {a}
      /\ matched'[b][a] = o
      /\ \A x \in DOMAIN matched[b] : matched'[b][x] = matched[b][x]
      /\ \A c \in Batch : DOMAIN matched'[c] \subseteq Alias
      /\ Numbered' /\ ProgressSound' /\ SignedSound' /\ InputsIdentified'
  BY <1>1, <1>2, <1>3, MatchFacts
<1>5. /\ inputMap' = Put(inputMap, Name(b, a), o)
      /\ DOMAIN inputMap' = DOMAIN inputMap \union {Name(b, a)}
      /\ inputMap'[Name(b, a)] = o
      /\ \A n \in DOMAIN inputMap : n # Name(b, a) => inputMap'[n] = inputMap[n]
  BY <1>2 DEF AddInputAlias, Put
<1>6. \A c \in Batch, x \in Alias : Name(c, x) = Name(b, a) <=> c = b /\ x = a
  BY <1>1, BatchFacts DEF Numbered, Name
<1>7. \A c \in Batch, x \in Alias : /\ Name(c, x)' = Name(c, x)
                                    /\ HasInput(c, x)' <=> HasInput(c, x) \/ (c = b /\ x = a)
  BY <1>1, <1>5, <1>6 DEF HasInput, Name
<1>8. TypeOK'
  <2>1. DOMAIN inputMap' \subseteq {EmptyAlias} \union ((1 .. BatchesCreated) \X Alias)
    <3>1. Name(b, a) \in (1 .. BatchesCreated) \X Alias
      BY <1>1, <1>4, BatchFacts DEF Name
    <3> QED BY <1>5, <3>1 DEF TypeOK
  <2>2. \A n \in DOMAIN inputMap' : inputMap'[n] \in Output
    BY <1>3, <1>5 DEF TypeOK
  <2> QED BY <1>1, <1>3, <1>4, <2>1, <2>2, ScenarioFrame DEF TypeOK, scenarioVars
<1>9. MapsTyped'
  <2>1. inputMap' \in [DOMAIN inputMap' -> Output]
    BY <1>3, <1>5 DEF MapsTyped, Put
  <2> QED BY <1>1, <1>4, <2>1, ScenarioFrame DEF MapsTyped
<1>10. StoreSound'
  <2>1. \A p \in reuseTempIDPool' : WalletOf(p[3]) = ReuseWallet
    BY <1>3 DEF StoreSound
  <2> QED BY <1>1, <2>1, ScenarioFrame DEF StoreSound
<1>11. ASSUME NEW c \in Batch, NEW x \in Alias, NEW p, Use(c, x, p)'
       PROVE  Use(c, x, p) \/ (c = b /\ x = a /\ p = o)
  <2>1. BuiltBy(c)' = BuiltBy(c) /\ \A k : Spends(c, k)' = Spends(c, k)
    BY <1>1 DEF BuiltBy, Spends
  <2>2. CASE \E k \in BuiltBy(c)' : x \in DOMAIN Spends(c, k)' /\ Spends(c, k)'[x] = p
    BY <2>1, <2>2 DEF Use
  <2>3. CASE x \in DOMAIN matched'[c] /\ matched'[c][x] = p
    BY <1>4, <2>3 DEF Use
  <2>4. CASE pc'[c] # "idle" /\ HasInput(c, x)' /\ inputMap'[Name(c, x)'] = p
    BY <1>1, <1>5, <1>6, <1>7, <2>4 DEF Use, HasInput
  <2> QED BY <1>11, <2>2, <2>3, <2>4 DEF Use
<1>12. \A p \in Output : ~Use(b, a, p)
  BY <1>1, <1>2, <1>4 DEF UsesNamed
<1>13. \A c \in Batch, x \in Alias : ~Use(c, x, o)
  BY <1>3 DEF UsesTaken
<1>14. Output' = Output
  BY <1>1, ScenarioFrame
<1>15. UsesApart'
  <2> SUFFICES ASSUME NEW c \in Batch, NEW d \in Batch, NEW x \in Alias, NEW y \in Alias,
                      NEW p \in Output, NEW q \in Output, Use(c, x, p)', Use(d, y, q)'
               PROVE  p = q <=> c = d /\ x = y
    BY <1>14 DEF UsesApart
  <2> QED BY <1>11, <1>12, <1>13 DEF UsesApart
<1>16. UsesTaken'
  BY <1>3, <1>11, <1>14 DEF UsesTaken
<1>17. UsesNamed'
  <2>1. \A c \in Batch : DOMAIN matched[c] \subseteq DOMAIN matched'[c]
    BY <1>4
  <2>2. ASSUME NEW c \in Batch, NEW x \in Alias
        PROVE  /\ pc'[c] # "done" => \A p \in Output : Use(c, x, p)' => HasInput(c, x)'
               /\ pc'[c] # "idle" /\ HasInput(c, x)' =>
                    /\ pc'[c] # "done"
                    /\ x \in DOMAIN matched'[c] \/ \E k \in BuiltBy(c) : x \in DOMAIN Spends(c, k)
    BY <1>1, <1>4, <1>7, <1>11, <2>1 DEF UsesNamed
  <2> QED BY <1>1, <1>14, <2>2 DEF UsesNamed, BuiltBy, Spends
<1>18. WalletChosen'
  BY <1>1, <1>3, <1>4, ScenarioFrame DEF WalletChosen, Tx
<1> QED BY <1>4, <1>8, <1>9, <1>10, <1>15, <1>16, <1>17, <1>18

\* A transaction is built of the inputs that were matched, and signed by the
\* wallets they lie in.
LEMMA BuildStep ==
    ASSUME BatchInv, NEW b \in Batch, Build(b)
    PROVE  BatchInv'
<1> USE DEF BatchInv
<1>0. PICK k \in Nat : k = tx[b]
  BY BatchFacts DEF Build
<1> DEFINE new == [inputs  |-> matched[b],
                   named   |-> {a \in Tx(b).inputs : Identified(matched[b][a])},
                   signers |-> [a \in Tx(b).inputs |-> Signer(b, matched[b][a])]]
           BuiltTx == [inputs  : Map(Alias, Output), named : SUBSET Alias,
                       signers : Map(Alias, OwnedWallets)]
<1>1. /\ pc[b] = "inputs" /\ pc' = [pc EXCEPT ![b] = "outputs"]
      /\ Unmatched(b) = {}
      /\ inputWallet[b] = NoWallet => \A a \in Tx(b).inputs : matched[b][a] \in DOMAIN tempIDWalletMap
      /\ built' = [built EXCEPT ![b] = Append(built[b], new)]
      /\ UNCHANGED <<scenarioVars, aliasVars, outputVars, freshVars, tx, inputWallet, matched,
                     posted, panicked>>
  BY DEF Build, Goto
<1>2. /\ k \in 1 .. Len(scenario) /\ Tx(b).inputs \subseteq Alias
      /\ Tx(b) = scenario[k]
      /\ DOMAIN matched[b] = Tx(b).inputs
      /\ Len(built[b]) = k - 1
      /\ matched[b] \in Map(Alias, Output)
  BY <1>0, <1>1, BatchFacts DEF ProgressSound, Unmatched, MapsTyped, Tx
<1>3. \A a \in Tx(b).inputs : /\ matched[b][a] \in Output /\ Use(b, a, matched[b][a])
                              /\ Taken(matched[b][a])
  BY <1>2, MapEntries DEF Use, UsesTaken
<1>4. \A a \in Tx(b).inputs : Signer(b, matched[b][a]) \in OwnedWallets
  <2>1. inputWallet[b] # NoWallet => inputWallet[b] \in OwnedWallets
    BY DEF TypeOK, OwnedWallets
  <2>2. \A o \in DOMAIN tempIDWalletMap : tempIDWalletMap[o] \in OwnedWallets
    BY DEF MapsTyped
  <2> QED BY <1>1, <2>1, <2>2 DEF Signer
<1>5. new \in BuiltTx
  <2>1. new.signers \in [Tx(b).inputs -> OwnedWallets]
    BY <1>4
  <2>2. new.signers \in Map(Alias, OwnedWallets)
    BY <1>2, <2>1 DEF Map
  <2>3. new.named \in SUBSET Alias
    BY <1>2
  <2> QED BY <1>2, <2>2, <2>3
<1>6. /\ built \in [Batch -> Seq(BuiltTx)] /\ built' \in [Batch -> Seq(BuiltTx)]
      /\ \A c \in Batch : c # b => built'[c] = built[c]
      /\ built'[b] = Append(built[b], new)
  <2>1. built \in [Batch -> Seq(BuiltTx)]
    BY DEF MapsTyped
  <2> HIDE DEF new, BuiltTx
  <2> QED BY <1>1, <1>5, <2>1
<1>7. /\ BuiltBy(b)' = 1 .. k /\ BuiltBy(b) = 1 .. k - 1
      /\ built'[b][k] = new
      /\ \A j \in 1 .. k - 1 : built'[b][j] = built[b][j]
  <2>1. built[b] \in Seq(BuiltTx)
    BY <1>6
  <2> HIDE DEF new, BuiltTx
  <2> QED BY <1>2, <1>5, <1>6, <2>1 DEF BuiltBy
<1>8. \A c \in Batch : pc'[c] = IF c = b THEN "outputs" ELSE pc[c]
  BY <1>1 DEF TypeOK
<1>9. /\ \A c \in Batch : c # b => BuiltBy(c)' = BuiltBy(c)
      /\ \A c \in Batch : \A j : c # b => Spends(c, j)' = Spends(c, j)
      /\ \A j \in 1 .. k - 1 : Spends(b, j)' = Spends(b, j)
      /\ Spends(b, k)' = matched[b]
  <2>1. new.inputs = matched[b]
    OBVIOUS
  <2> HIDE DEF new, BuiltTx
  <2> QED BY <1>6, <1>7, <2>1 DEF BuiltBy, Spends
<1>10. TypeOK'
  <2>1. /\ pc' \in [Batch -> {"idle", "wallet", "inputs", "outputs", "post", "done", "failed"}]
        /\ \A c \in Batch : prefix[c] = 0 <=> pc'[c] = "idle"
    BY <1>1, <1>8 DEF TypeOK
  <2>2. \A o \in stored \ DOMAIN tempIDWalletMap : pc'[o[1]] = "outputs"
    BY <1>8, OutputFacts DEF TypeOK, StoreSound
  <2> QED BY <1>1, <2>1, <2>2, ScenarioFrame
          DEF TypeOK, scenarioVars, aliasVars, outputVars, storeVars, freshVars
<1>11. MapsTyped'
  BY <1>1, <1>6, ScenarioFrame DEF MapsTyped, aliasVars, outputVars, storeVars
<1>12. Numbered'
  BY <1>1, <1>8, NumberedFrame DEF aliasVars
<1>13. ProgressSound'
  <2>1. Len(built'[b]) = k
    <3> HIDE DEF new, BuiltTx
    <3> QED BY <1>2, <1>6
  <2>2. \A j \in BuiltBy(b)' : DOMAIN Spends(b, j)' = scenario[j].inputs
    <3>1. \A j \in 1 .. k - 1 : DOMAIN Spends(b, j) = scenario[j].inputs
      BY <1>7 DEF ProgressSound
    <3> HIDE DEF new, BuiltTx
    <3> QED BY <1>2, <1>7, <1>9, <3>1
  <2>3. ASSUME NEW c \in Batch, c # b
        PROVE  \A j \in BuiltBy(c)' : DOMAIN Spends(c, j)' = scenario[j].inputs
    BY <1>9, <2>3 DEF ProgressSound
  <2> QED BY <1>0, <1>1, <1>2, <1>6, <1>8, <1>9, <2>1, <2>2, <2>3, ScenarioFrame DEF ProgressSound, Tx
<1>14. StoreSound'
  <2>1. \A o \in stored : o[1] \in Batch
    BY OutputFacts DEF StoreSound
  <2> QED BY <1>1, <1>8, <2>1, ScenarioFrame DEF StoreSound, outputVars, storeVars
<1>15. \A p : Taken(p) => Taken(p)'
  BY <1>1, ScenarioFrame DEF Taken, outputVars, storeVars, freshVars
<1>16. \A c \in Batch : \A x : HasInput(c, x)' <=> HasInput(c, x)
  BY <1>1 DEF HasInput, Name, aliasVars
<1>17. ASSUME NEW c \in Batch, NEW x \in Alias, NEW p, Use(c, x, p)' PROVE Use(c, x, p)
  <2>1. CASE \E j \in BuiltBy(c)' : x \in DOMAIN Spends(c, j)' /\ Spends(c, j)'[x] = p
    <3>1. PICK j \in BuiltBy(c)' : x \in DOMAIN Spends(c, j)' /\ Spends(c, j)'[x] = p
      BY <2>1
    <3> HIDE DEF new, BuiltTx
    <3>2. CASE c = b /\ j = k
      BY <1>9, <3>1, <3>2 DEF Use
    <3>3. CASE ~ (c = b /\ j = k)
      <4>1. j \in BuiltBy(c) /\ Spends(c, j)' = Spends(c, j)
        BY <1>0, <1>7, <1>9, <3>1, <3>3
      <4> QED BY <3>1, <4>1 DEF Use
    <3> QED BY <3>2, <3>3
  <2>2. CASE ~ \E j \in BuiltBy(c)' : x \in DOMAIN Spends(c, j)' /\ Spends(c, j)'[x] = p
    BY <1>1, <1>8, <1>16, <1>17, <2>2 DEF Use, Name, aliasVars
  <2> QED BY <2>1, <2>2
<1>18. UsesApart' /\ UsesTaken'
  BY <1>1, <1>15, <1>17, UsesFrame
<1>19. UsesNamed'
  <2>1. Output' = Output
    BY <1>1, ScenarioFrame
  <2>2. ASSUME NEW c \in Batch, NEW x, \E j \in BuiltBy(c) : x \in DOMAIN Spends(c, j)
        PROVE  \E j \in BuiltBy(c)' : x \in DOMAIN Spends(c, j)'
    BY <1>2, <1>7, <1>9, <2>2
  <2> QED BY <1>1, <1>8, <1>16, <1>17, <2>1, <2>2 DEF UsesNamed
<1>20. WalletChosen'
  BY <1>1, <1>8, WalletFrame
<1>21. SignedSound'
  <2>1. ASSUME Uniform(k), NEW a \in Tx(b).inputs PROVE new.signers[a] = Owner(matched[b][a])
    <3>1. CASE inputWallet[b] = NoWallet
      BY <1>1, <3>1 DEF StoreSound, Signer
    <3>2. CASE inputWallet[b] # NoWallet
      BY <1>0, <1>1, <1>2, <2>1, <3>2 DEF WalletChosen, Signer
    <3> QED BY <3>1, <3>2
  <2>2. \A j : Uniform(j)' <=> Uniform(j)
    BY <1>1, ScenarioFrame
  <2>3. \A o : Owner(o)' = Owner(o)
    BY <1>1, ScenarioFrame
  <2>4. Uniform(k) => \A a \in DOMAIN Spends(b, k)' : built'[b][k].signers[a] = Owner(Spends(b, k)'[a])
    BY <1>2, <1>7, <1>9, <2>1
  <2>5. ASSUME NEW c \in Batch, NEW j \in BuiltBy(c)', c # b \/ j # k, Uniform(j)
        PROVE  \A a \in DOMAIN Spends(c, j)' : built'[c][j].signers[a] = Owner(Spends(c, j)'[a])
    <3> HIDE DEF new, BuiltTx
    <3>1. j \in BuiltBy(c) /\ Spends(c, j)' = Spends(c, j) /\ built'[c][j] = built[c][j]
      <4>1. CASE c # b
        BY <1>6, <1>9, <2>5, <4>1
      <4>2. CASE c = b
        <5>1. j \in 1 .. k - 1
          BY <1>7, <2>5, <4>2
        <5> QED BY <1>7, <1>9, <4>2, <5>1
      <4> QED BY <4>1, <4>2
    <3> QED BY <2>5, <3>1 DEF SignedSound
  <2> HIDE DEF new, BuiltTx
  <2>6. ASSUME NEW c \in Batch, NEW j \in BuiltBy(c)', Uniform(j)'
        PROVE  \A a \in DOMAIN Spends(c, j)' : built'[c][j].signers[a] = Owner(Spends(c, j)[a])'
    BY <2>2, <2>3, <2>4, <2>5, <2>6
  <2> QED BY <2>6 DEF SignedSound
<1>22. InputsIdentified'
  <2> DEFINE Unnamed(o) == o \in unidentified \/ WalletOf(o[3]) = ReuseWallet
  <2>1. ASSUME NEW a \in Tx(b).inputs
        PROVE  a \in new.named \/ Unnamed(matched[b][a])
    BY <1>3, OutputParts DEF Taken, Identified
  <2>2. unidentified' = unidentified /\ \A a : WalletOf(a)' = WalletOf(a)
    BY <1>1, ScenarioFrame
  <2>3. \A a \in DOMAIN Spends(b, k)' : a \in built'[b][k].named \/ Unnamed(Spends(b, k)'[a])
    <3> HIDE DEF Unnamed
    <3> QED BY <1>2, <1>7, <1>9, <2>1
  <2>4. ASSUME NEW c \in Batch, NEW j \in BuiltBy(c)', c # b \/ j # k
        PROVE  \A a \in DOMAIN Spends(c, j)' : a \in built'[c][j].named \/ Unnamed(Spends(c, j)'[a])
    <3> HIDE DEF new, BuiltTx
    <3>1. j \in BuiltBy(c) /\ Spends(c, j)' = Spends(c, j) /\ built'[c][j] = built[c][j]
      <4>1. CASE c # b
        BY <1>6, <1>9, <2>4, <4>1
      <4>2. CASE c = b
        <5>1. j \in 1 .. k - 1
          BY <1>7, <2>4, <4>2
        <5> QED BY <1>7, <1>9, <4>2, <5>1
      <4> QED BY <4>1, <4>2
    <3> QED BY <3>1 DEF InputsIdentified
  <2> HIDE DEF new, BuiltTx
  <2>5. ASSUME NEW c \in Batch, NEW j \in BuiltBy(c)'
        PROVE  \A a \in DOMAIN Spends(c, j)' : a \in built'[c][j].named \/ Unnamed(Spends(c, j)'[a])
    <3> HIDE DEF Unnamed
    <3> QED BY <2>3, <2>4, <2>5
  <2> QED BY <2>2, <2>5 DEF InputsIdentified
<1> QED BY <1>10, <1>11, <1>12, <1>13, <1>14, <1>18, <1>19, <1>20, <1>21, <1>22

\* An output is stored in its wallet, before the map names the wallet.
LEMMA StoreStep ==
    ASSUME BatchInv, NEW b \in Batch, AddUnspentOutput(b)
    PROVE  BatchInv'
<1> USE DEF BatchInv
<1>1. /\ pc[b] = "outputs" /\ OutputsOf(b, tx[b]) \intersect stored \subseteq DOMAIN tempIDWalletMap
      /\ UNCHANGED <<scenarioVars, aliasVars, tempIDWalletMap, outputIDs, freshVars, txVars,
                     posted, built, panicked>>
  BY DEF AddUnspentOutput
<1>2. PICK a \in Tx(b).outputs :
        /\ BatchOutput(b, tx[b], a) \notin stored
        /\ stored' = stored \union {BatchOutput(b, tx[b], a)}
        /\ reuseTempIDPool' = IF WalletOf(a) = ReuseWallet
                              THEN reuseTempIDPool \union {BatchOutput(b, tx[b], a)}
                              ELSE reuseTempIDPool
  BY DEF AddUnspentOutput
<1>3. PICK o : o = BatchOutput(b, tx[b], a)
  OBVIOUS
<1>4. /\ o \in BatchOutputs /\ o \in Output /\ o[1] = b /\ o[3] = a
      /\ o \in OutputsOf(b, tx[b])
  BY <1>1, <1>3, BatchFacts, OutputFacts, OutputParts DEF OutputsOf, Tx
<1>5. TypeOK'
  <2>1. \A p \in stored' \ DOMAIN tempIDWalletMap : pc[p[1]] = "outputs"
    BY <1>1, <1>2, <1>3, <1>4 DEF TypeOK
  <2>2. /\ reuseTempIDPool' \subseteq stored' /\ stored' \subseteq Output
        /\ outputIDs \subseteq DOMAIN tempIDWalletMap \intersect stored'
    BY <1>2, <1>3, <1>4 DEF TypeOK
  <2> QED BY <1>1, <2>1, <2>2, ScenarioFrame DEF TypeOK, scenarioVars, aliasVars, freshVars, txVars
<1>6. MapsTyped'
  BY <1>1, ScenarioFrame DEF MapsTyped, aliasVars, txVars
<1>7. Numbered' /\ WalletChosen'
  BY <1>1, NumberedFrame, WalletFrame DEF aliasVars, txVars
<1>8. ProgressSound'
  BY <1>1, ScenarioFrame DEF ProgressSound, txVars, BuiltBy, Spends, Tx
<1>9. StoreSound'
  <2>1. stored' \subseteq BatchOutputs
    BY <1>2, <1>3, <1>4 DEF StoreSound
  <2>2. \A p \in reuseTempIDPool' : WalletOf(p[3]) = ReuseWallet
    BY <1>2, <1>3, <1>4 DEF StoreSound
  <2>3. \A p \in stored' \ DOMAIN tempIDWalletMap : pc[p[1]] = "outputs" /\ p \in OutputsOf(p[1], tx[p[1]])
    BY <1>1, <1>2, <1>3, <1>4 DEF StoreSound
  <2> QED BY <1>1, <1>2, <2>1, <2>2, <2>3, ScenarioFrame DEF StoreSound, txVars
<1>10. \A p : Taken(p) => Taken(p)'
  <2>1. nextAddrToSpent' = nextAddrToSpent /\ stored \ reuseTempIDPool \subseteq stored' \ reuseTempIDPool'
    BY <1>1, <1>2, <1>3 DEF freshVars
  <2> QED BY <1>1, <2>1, ScenarioFrame DEF Taken
<1>11. UsesApart' /\ UsesTaken' /\ UsesNamed'
  BY <1>1, <1>10, UsesSame DEF aliasVars, txVars
<1>12. SignedSound' /\ InputsIdentified'
  BY <1>1, BuiltFrame
<1> QED BY <1>5, <1>6, <1>7, <1>8, <1>9, <1>11, <1>12

\* The map names the wallet the output was stored in.
LEMMA NameWalletStep ==
    ASSUME BatchInv, NEW b \in Batch, setTempIDWalletMap(b)
    PROVE  BatchInv'
<1> USE DEF BatchInv
<1>1. /\ pc[b] = "outputs"
      /\ UNCHANGED <<scenarioVars, aliasVars, reuseTempIDPool, stored, outputIDs, freshVars, txVars,
                     posted, built, panicked>>
  BY DEF setTempIDWalletMap
<1>2. PICK a \in Tx(b).outputs :
        /\ BatchOutput(b, tx[b], a) \in stored \ DOMAIN tempIDWalletMap
        /\ tempIDWalletMap' = Put(tempIDWalletMap, BatchOutput(b, tx[b], a), WalletOf(a))
  BY DEF setTempIDWalletMap
<1>3. PICK o : o = BatchOutput(b, tx[b], a)
  OBVIOUS
<1>4. /\ o \in BatchOutputs /\ o \in Output /\ o \notin FreshOutputs /\ o \in stored /\ o[3] = a
  BY <1>1, <1>2, <1>3, BatchFacts, OutputFacts, OutputParts
<1>5. Owner(o) = WalletOf(a) /\ WalletOf(a) \in OwnedWallets /\ WalletOf(a) # NoWallet
  BY <1>4, BatchAssumption DEF Owner, WalletOf, OwnedWallets
<1>6. /\ DOMAIN tempIDWalletMap' = DOMAIN tempIDWalletMap \union {o}
      /\ tempIDWalletMap'[o] = Owner(o)
      /\ \A p \in DOMAIN tempIDWalletMap : tempIDWalletMap'[p] = tempIDWalletMap[p]
      /\ tempIDWalletMap' \in [DOMAIN tempIDWalletMap' -> OwnedWallets]
  BY <1>2, <1>3, <1>5 DEF MapsTyped, Put
<1>7. TypeOK'
  <2>1. /\ DOMAIN tempIDWalletMap' \subseteq Output
        /\ \A p \in DOMAIN tempIDWalletMap' : tempIDWalletMap'[p] # NoWallet
        /\ outputIDs \subseteq DOMAIN tempIDWalletMap' \intersect stored
        /\ \A p \in stored \ DOMAIN tempIDWalletMap' : pc[p[1]] = "outputs"
    BY <1>4, <1>5, <1>6 DEF TypeOK
  <2> QED BY <1>1, <2>1, ScenarioFrame DEF TypeOK, scenarioVars, aliasVars, freshVars, txVars
<1>8. MapsTyped'
  BY <1>1, <1>6, ScenarioFrame DEF MapsTyped, aliasVars, txVars
<1>9. Numbered' /\ WalletChosen'
  BY <1>1, NumberedFrame, WalletFrame DEF aliasVars, txVars
<1>10. ProgressSound'
  BY <1>1, ScenarioFrame DEF ProgressSound, txVars, BuiltBy, Spends, Tx
<1>11. StoreSound'
  <2>1. \A p \in DOMAIN tempIDWalletMap' : tempIDWalletMap'[p] = Owner(p)
    BY <1>6 DEF StoreSound
  <2> QED BY <1>1, <1>4, <1>6, <2>1, ScenarioFrame DEF StoreSound, txVars
<1>12. \A p : Taken(p) => Taken(p)'
  BY <1>1, ScenarioFrame DEF Taken, freshVars
<1>13. UsesApart' /\ UsesTaken' /\ UsesNamed'
  BY <1>1, <1>12, UsesSame DEF aliasVars, txVars
<1>14. SignedSound' /\ InputsIdentified'
  BY <1>1, BuiltFrame
<1> QED BY <1>7, <1>8, <1>9, <1>10, <1>11, <1>13, <1>14

\* Registering the outputs touches the empty alias only: the names of the
\* batches stay what they are.
LEMMA RegisterStep ==
    ASSUME BatchInv, NEW b \in Batch, registerOutputAliases(b)
    PROVE  BatchInv'
<1> USE DEF BatchInv
<1>1. /\ pc[b] = "outputs" /\ OutputsOf(b, tx[b]) \subseteq DOMAIN tempIDWalletMap
      /\ inputWallet' = [inputWallet EXCEPT ![b] = NoWallet]
      /\ matched' = [matched EXCEPT ![b] = EmptyMap]
      /\ UNCHANGED <<scenarioVars, BatchesCreated, prefix, outputVars, freshVars, posted, built,
                     panicked>>
  BY DEF registerOutputAliases, AllAdded
<1>2. PICK o \in OutputsOf(b, tx[b]) : inputMap' = Put(inputMap, EmptyAlias, o)
  BY DEF registerOutputAliases, OutputName
<1>3. \/ tx[b] < Len(scenario) /\ tx' = [tx EXCEPT ![b] = tx[b] + 1] /\ pc' = [pc EXCEPT ![b] = "wallet"]
      \/ tx[b] = Len(scenario) /\ tx' = tx /\ pc' = [pc EXCEPT ![b] = "post"]
  <2>1. tx[b] \in 1 .. Len(scenario) /\ Len(scenario) \in Nat
    BY <1>1, BatchFacts, ScenarioFacts DEF TypeOK
  <2> QED BY <2>1 DEF registerOutputAliases, Goto
<1>4. o \in Output
  BY <1>1, <1>2 DEF TypeOK
<1>5. /\ DOMAIN inputMap' = DOMAIN inputMap \union {EmptyAlias}
      /\ inputMap'[EmptyAlias] = o
      /\ \A n \in DOMAIN inputMap : n # EmptyAlias => inputMap'[n] = inputMap[n]
      /\ inputMap' \in [DOMAIN inputMap' -> Output]
  BY <1>2, <1>4 DEF MapsTyped, Put
<1>6. /\ matched' \in [Batch -> Map(Alias, Output)] /\ matched'[b] = EmptyMap
      /\ \A c \in Batch : c # b => matched'[c] = matched[c]
      /\ DOMAIN EmptyMap = {}
  BY <1>1, EmptyTyped DEF MapsTyped
<1>7. /\ \A c \in Batch : c # b => pc'[c] = pc[c] /\ tx'[c] = tx[c] /\ inputWallet'[c] = inputWallet[c]
      /\ \/ tx[b] < Len(scenario) /\ tx'[b] = tx[b] + 1 /\ pc'[b] = "wallet"
         \/ tx[b] = Len(scenario) /\ tx'[b] = tx[b] /\ pc'[b] = "post"
      /\ tx[b] \in Nat /\ tx[b] # 0
  <2>1. tx[b] \in Nat /\ tx[b] # 0
    BY <1>1, BatchFacts
  <2>2. /\ \A c \in Batch : c # b => inputWallet'[c] = inputWallet[c]
        /\ tx \in [Batch -> 0 .. Len(scenario)] /\ DOMAIN pc = Batch
    BY <1>1 DEF TypeOK
  <2> QED BY <1>3, <2>1, <2>2
<1>8. TypeOK'
  <2>1. /\ pc' \in [Batch -> {"idle", "wallet", "inputs", "outputs", "post", "done", "failed"}]
        /\ tx' \in [Batch -> 0 .. Len(scenario)]
        /\ inputWallet' \in [Batch -> FreshWallet \union {ReuseWallet, NoWallet}]
    <3>1. /\ pc \in [Batch -> {"idle", "wallet", "inputs", "outputs", "post", "done", "failed"}]
          /\ tx \in [Batch -> 0 .. Len(scenario)]
          /\ inputWallet \in [Batch -> FreshWallet \union {ReuseWallet, NoWallet}]
          /\ Len(scenario) \in Nat
      BY ScenarioFacts DEF TypeOK
    <3>2. tx[b] < Len(scenario) => tx[b] + 1 \in 0 .. Len(scenario)
      BY <1>7, <3>1
    <3>3. tx' \in [Batch -> 0 .. Len(scenario)]
      BY <1>3, <3>1, <3>2
    <3> QED BY <1>1, <1>3, <3>1, <3>3
  <2>2. \A c \in Batch : prefix[c] = 0 <=> pc'[c] = "idle"
    BY <1>1, <1>7 DEF TypeOK
  <2>3. \A c \in Batch : DOMAIN matched'[c] \subseteq Alias
    BY <1>6, MapEntries
  <2>4. \A p \in stored \ DOMAIN tempIDWalletMap : pc'[p[1]] = "outputs"
    BY <1>1, <1>7, OutputFacts DEF StoreSound
  <2>5. /\ DOMAIN inputMap' \subseteq {EmptyAlias} \union ((1 .. BatchesCreated) \X Alias)
        /\ \A n \in DOMAIN inputMap' : inputMap'[n] \in Output
    BY <1>5 DEF TypeOK
  <2> QED BY <1>1, <2>1, <2>2, <2>3, <2>4, <2>5, ScenarioFrame
          DEF TypeOK, scenarioVars, outputVars, storeVars, freshVars
<1>9. MapsTyped'
  BY <1>1, <1>5, <1>6, ScenarioFrame DEF MapsTyped, outputVars, storeVars
<1>10. Numbered'
  BY <1>1, <1>7, NumberedFrame
<1>11. BuiltBy(b) = 1 .. tx[b] /\ \A c \in Batch : BuiltBy(c)' = BuiltBy(c) /\ \A k : Spends(c, k)' = Spends(c, k)
  BY <1>1 DEF ProgressSound, BuiltBy, Spends
<1>12. ProgressSound'
  <2>1. \A c \in Batch : \A k \in BuiltBy(c)' : DOMAIN Spends(c, k)' = scenario[k].inputs
    BY <1>11 DEF ProgressSound
  <2>2. Len(built[b]) = tx[b]
    BY <1>1 DEF ProgressSound
  <2> DEFINE Sound(c) ==
        /\ pc'[c] = "idle" <=> tx'[c] = 0
        /\ pc'[c] \in {"idle", "wallet", "post", "done"} => matched'[c] = EmptyMap
        /\ pc'[c] \in {"wallet", "inputs", "failed"} => Len(built[c]) = tx'[c] - 1
        /\ pc'[c] \in {"idle", "outputs", "post", "done"} => Len(built[c]) = tx'[c]
        /\ pc'[c] \in {"post", "done"} => tx'[c] = Len(scenario)
        /\ pc'[c] \in {"inputs", "failed"} => DOMAIN matched'[c] \subseteq scenario[tx'[c]].inputs
        /\ pc'[c] = "outputs" => matched'[c] = Spends(c, tx'[c])
  <2>3. Sound(b)
    BY <1>6, <1>7, <2>2
  <2>4. ASSUME NEW c \in Batch, c # b PROVE Sound(c)
    BY <1>6, <1>7, <2>4 DEF ProgressSound, Tx
  <2>5. \A c \in Batch : Sound(c)
    BY <2>3, <2>4
  <2> QED BY <1>1, <1>11, <2>1, <2>5, ScenarioFrame DEF ProgressSound, Tx
<1>13. StoreSound'
  <2>1. \A p \in stored \ DOMAIN tempIDWalletMap : p[1] \in Batch /\ p[1] # b
    BY <1>1, OutputFacts DEF StoreSound
  <2>2. ASSUME NEW c \in Batch, NEW k \in 1 .. Len(scenario), k < tx'[c] \/ pc'[c] \in {"post", "done"}
        PROVE  OutputsOf(c, k) \subseteq DOMAIN tempIDWalletMap
    <3>1. CASE c = b
      <4>1. k < tx[b] \/ k = tx[b]
        BY <1>7, <2>2, <3>1, ScenarioFacts DEF TypeOK
      <4> QED BY <1>1, <3>1, <4>1 DEF StoreSound
    <3>2. CASE c # b
      BY <1>7, <2>2, <3>2 DEF StoreSound
    <3> QED BY <3>1, <3>2
  <2>3. \A p \in stored \ DOMAIN tempIDWalletMap : pc'[p[1]] = "outputs" /\ p \in OutputsOf(p[1], tx'[p[1]])
    BY <1>7, <2>1 DEF StoreSound
  <2> QED BY <1>1, <2>2, <2>3, ScenarioFrame DEF StoreSound, outputVars, storeVars
<1>14. \A p : Taken(p) => Taken(p)'
  BY <1>1, ScenarioFrame DEF Taken, outputVars, storeVars, freshVars
<1>15. ASSUME NEW c \in Batch, NEW x \in Alias, pc[c] # "idle"
       PROVE  /\ HasInput(c, x)' <=> HasInput(c, x)
              /\ HasInput(c, x) => inputMap'[Name(c, x)] = inputMap[Name(c, x)]
  <2>1. Name(c, x) # EmptyAlias /\ Name(c, x)' = Name(c, x)
    <3>1. prefix[c] # 0 /\ EmptyAlias[1] = 0 /\ Name(c, x)[1] = prefix[c]
      BY <1>15, BatchFacts DEF EmptyAlias, Name
    <3> QED BY <1>1, <3>1 DEF Name
  <2> QED BY <1>5, <2>1 DEF HasInput
<1>16. ASSUME NEW c \in Batch, NEW x \in Alias, NEW p, Use(c, x, p)' PROVE Use(c, x, p)
  <2>1. CASE \E k \in BuiltBy(c)' : x \in DOMAIN Spends(c, k)' /\ Spends(c, k)'[x] = p
    BY <1>11, <2>1 DEF Use
  <2>2. CASE x \in DOMAIN matched'[c] /\ matched'[c][x] = p
    BY <1>6, <2>2 DEF Use
  <2>3. CASE pc'[c] # "idle" /\ HasInput(c, x)' /\ inputMap'[Name(c, x)'] = p
    <3>1. pc[c] # "idle" /\ Name(c, x)' = Name(c, x)
      BY <1>1, <1>7, <2>3 DEF Name
    <3> QED BY <1>15, <2>3, <3>1 DEF Use
  <2> QED BY <1>16, <2>1, <2>2, <2>3 DEF Use
<1>17. UsesApart' /\ UsesTaken'
  BY <1>1, <1>14, <1>16, UsesFrame
<1>18. UsesNamed'
  <2>1. Output' = Output
    BY <1>1, ScenarioFrame
  <2>2. ASSUME NEW c \in Batch, NEW x \in Alias, pc'[c] # "done", NEW p \in Output, Use(c, x, p)'
        PROVE  HasInput(c, x)'
    <3>1. HasInput(c, x)
      BY <1>1, <1>7, <1>16, <2>2 DEF UsesNamed
    <3>2. Name(c, x)' = Name(c, x)
      BY <1>1 DEF Name
    <3> QED BY <1>5, <3>1, <3>2 DEF HasInput
  <2>3. ASSUME NEW c \in Batch, NEW x \in Alias, pc'[c] # "idle", HasInput(c, x)'
        PROVE  /\ pc'[c] # "done"
               /\ x \in DOMAIN matched'[c] \/ \E k \in BuiltBy(c)' : x \in DOMAIN Spends(c, k)'
    <3>1. pc[c] # "idle" /\ HasInput(c, x)
      BY <1>1, <1>7, <1>15, <2>3
    <3>2. /\ pc[c] # "done" /\ pc'[c] # "done"
          /\ x \in DOMAIN matched[c] \/ \E k \in BuiltBy(c) : x \in DOMAIN Spends(c, k)
      BY <1>7, <3>1 DEF UsesNamed
    <3>3. matched[b] = Spends(b, tx[b]) /\ tx[b] \in BuiltBy(b)
      BY <1>1, <1>7, <1>11 DEF ProgressSound
    <3> QED BY <1>6, <1>11, <3>2, <3>3
  <2> QED BY <2>1, <2>2, <2>3 DEF UsesNamed
<1>19. WalletChosen'
  BY <1>1, <1>6, <1>7, WalletFrame
<1>20. SignedSound' /\ InputsIdentified'
  BY <1>1, BuiltFrame
<1> QED BY <1>8, <1>9, <1>10, <1>12, <1>13, <1>17, <1>18, <1>19, <1>20

\* The outputs of a posted transaction get their OutputIDs, or do not.
LEMMA PostStep ==
    ASSUME BatchInv, NEW b \in Batch, NEW k \in Unposted(b), Posts(b, k),
           outputIDs' \in {outputIDs, outputIDs \union OutputsOf(b, k)}
    PROVE  BatchInv'
<1> USE DEF BatchInv
<1>1. /\ pc[b] = "post" /\ posted' = [posted EXCEPT ![b] = posted[b] \union {k}]
      /\ UNCHANGED <<scenarioVars, aliasVars, storeVars, freshVars, txVars, built, panicked>>
  BY DEF Posts
<1>2. posted \in [Batch -> SUBSET (1 .. Len(scenario))] /\ k \in 1 .. Len(scenario)
  BY DEF MapsTyped, Unposted
<1>3. posted' \in [Batch -> SUBSET (1 .. Len(scenario))]
  BY <1>1, <1>2
<1>4. OutputsOf(b, k) \subseteq DOMAIN tempIDWalletMap \intersect stored
  <2>1. OutputsOf(b, k) \subseteq DOMAIN tempIDWalletMap
    BY <1>1, <1>2 DEF StoreSound
  <2>2. OutputsOf(b, k) \subseteq BatchOutputs
    BY <1>2, ScenarioFacts DEF OutputsOf, BatchOutputs, TypeOK
  <2> QED BY <2>1, <2>2, OutputFacts DEF StoreSound
<1>5. TypeOK'
  <2>1. outputIDs' \subseteq DOMAIN tempIDWalletMap \intersect stored
    BY <1>4 DEF TypeOK
  <2> QED BY <1>1, <1>3, <2>1, ScenarioFrame
          DEF TypeOK, scenarioVars, aliasVars, storeVars, freshVars, txVars
<1>6. MapsTyped'
  BY <1>1, <1>3, ScenarioFrame DEF MapsTyped, aliasVars, storeVars, txVars
<1>7. Numbered' /\ WalletChosen'
  BY <1>1, NumberedFrame, WalletFrame DEF aliasVars, txVars
<1>8. ProgressSound'
  BY <1>1, ScenarioFrame DEF ProgressSound, txVars, BuiltBy, Spends, Tx
<1>9. StoreSound'
  BY <1>1, StoreFrame DEF txVars
<1>10. \A o : Taken(o) => Taken(o)'
  BY <1>1, ScenarioFrame DEF Taken, storeVars, freshVars
<1>11. UsesApart' /\ UsesTaken' /\ UsesNamed'
  BY <1>1, <1>10, UsesSame DEF aliasVars, txVars
<1>12. SignedSound' /\ InputsIdentified'
  BY <1>1, BuiltFrame
<1> QED BY <1>5, <1>6, <1>7, <1>8, <1>9, <1>11, <1>12

\* A batch that was posted takes its names out of the alias manager, and no
\* others.
LEMMA ClearStep ==
    ASSUME BatchInv, NEW b \in Batch, ClearAliases(b)
    PROVE  BatchInv'
<1> USE DEF BatchInv
<1>1. /\ pc[b] = "post" /\ pc' = [pc EXCEPT ![b] = "done"]
      /\ inputMap' = [n \in Kept(b) |-> inputMap[n]]
      /\ UNCHANGED <<scenarioVars, BatchesCreated, prefix, outputVars, freshVars, tx, inputWallet,
                     matched, posted, built, panicked>>
  BY DEF ClearAliases, Goto
<1>2. /\ \A c \in Batch : pc'[c] = IF c = b THEN "done" ELSE pc[c]
      /\ pc' \in [Batch -> {"idle", "wallet", "inputs", "outputs", "post", "done", "failed"}]
  BY <1>1 DEF TypeOK
<1>3. /\ DOMAIN inputMap' = Kept(b) /\ Kept(b) \subseteq DOMAIN inputMap
      /\ \A n \in Kept(b) : inputMap'[n] = inputMap[n] /\ inputMap[n] \in Output
      /\ inputMap' \in [DOMAIN inputMap' -> Output]
  BY <1>1 DEF Kept, TypeOK
<1>4. TypeOK'
  <2>1. /\ \A c \in Batch : prefix[c] = 0 <=> pc'[c] = "idle"
        /\ DOMAIN inputMap' \subseteq {EmptyAlias} \union ((1 .. BatchesCreated) \X Alias)
        /\ \A n \in DOMAIN inputMap' : inputMap'[n] \in Output
    BY <1>1, <1>2, <1>3 DEF TypeOK
  <2>2. \A p \in stored \ DOMAIN tempIDWalletMap : pc'[p[1]] = "outputs"
    BY <1>1, <1>2, OutputFacts DEF StoreSound
  <2> QED BY <1>1, <1>2, <2>1, <2>2, ScenarioFrame
          DEF TypeOK, scenarioVars, outputVars, storeVars, freshVars
<1>5. MapsTyped'
  BY <1>1, <1>3, ScenarioFrame DEF MapsTyped, outputVars, storeVars
<1>6. Numbered'
  BY <1>1, <1>2, NumberedFrame
<1>7. ProgressSound'
  BY <1>1, <1>2, ScenarioFrame DEF ProgressSound, BuiltBy, Spends, Tx
<1>8. StoreSound'
  BY <1>1, <1>2, StoreFrame DEF outputVars
<1>9. \A o : Taken(o) => Taken(o)'
  BY <1>1, ScenarioFrame DEF Taken, outputVars, storeVars, freshVars
<1>10. ASSUME NEW c \in Batch, NEW x \in Alias, c # b, pc[c] # "idle"
       PROVE  /\ Name(c, x)' = Name(c, x)
              /\ HasInput(c, x)' <=> HasInput(c, x)
  <2>1. \A y : Name(c, x) # Name(b, y)
    <3>1. prefix[c] # prefix[b]
      BY <1>10 DEF Numbered
    <3> QED BY <3>1 DEF Name
  <2>2. Name(c, x)' = Name(c, x)
    BY <1>1 DEF Name
  <2> QED BY <1>3, <2>1, <2>2 DEF HasInput, Kept
<1>11. ASSUME NEW x \in Alias PROVE ~HasInput(b, x)'
  <2>1. Name(b, x)' = Name(b, x)
    BY <1>1 DEF Name
  <2>2. HasInput(b, x) => x \in scenarioInputs
    <3>1. /\ DOMAIN matched[b] = {} /\ BuiltBy(b) = 1 .. Len(scenario)
          /\ \A k \in BuiltBy(b) : DOMAIN Spends(b, k) = scenario[k].inputs
      BY <1>1, EmptyTyped DEF ProgressSound, BuiltBy
    <3> QED BY <1>1, <3>1 DEF UsesNamed, scenarioInputs
  <2> QED BY <1>3, <2>1, <2>2 DEF HasInput, Kept
<1>12. \A c \in Batch : BuiltBy(c)' = BuiltBy(c) /\ \A k : Spends(c, k)' = Spends(c, k)
  BY <1>1 DEF BuiltBy, Spends
<1>13. ASSUME NEW c \in Batch, NEW x \in Alias, NEW p, Use(c, x, p)' PROVE Use(c, x, p)
  <2>1. CASE pc'[c] # "idle" /\ HasInput(c, x)' /\ inputMap'[Name(c, x)'] = p
    <3>1. c # b /\ pc[c] # "idle"
      BY <1>2, <1>11, <2>1
    <3> QED BY <1>3, <1>10, <2>1, <3>1 DEF Use, HasInput
  <2>2. CASE ~ (pc'[c] # "idle" /\ HasInput(c, x)' /\ inputMap'[Name(c, x)'] = p)
    BY <1>1, <1>12, <1>13, <2>2 DEF Use
  <2> QED BY <2>1, <2>2
<1>14. UsesApart' /\ UsesTaken'
  BY <1>1, <1>9, <1>13, UsesFrame
<1>15. UsesNamed'
  <2>1. Output' = Output
    BY <1>1, ScenarioFrame
  <2>2. ASSUME NEW c \in Batch, pc[c] = "idle" PROVE \A x \in Alias : \A p : ~Use(c, x, p)
    <3>1. BuiltBy(c) = {} /\ DOMAIN matched[c] = {}
      BY <2>2, EmptyTyped DEF ProgressSound, BuiltBy
    <3> QED BY <2>2, <3>1 DEF Use
  <2>3. ASSUME NEW c \in Batch, NEW x \in Alias, pc'[c] # "done", NEW p \in Output, Use(c, x, p)'
        PROVE  HasInput(c, x)'
    BY <1>2, <1>10, <1>13, <2>2, <2>3 DEF UsesNamed
  <2>4. ASSUME NEW c \in Batch, NEW x \in Alias, pc'[c] # "idle", HasInput(c, x)'
        PROVE  /\ pc'[c] # "done"
               /\ x \in DOMAIN matched'[c] \/ \E k \in BuiltBy(c)' : x \in DOMAIN Spends(c, k)'
    <3>1. c # b /\ pc[c] # "idle" /\ HasInput(c, x)
      BY <1>2, <1>10, <1>11, <2>4
    <3> QED BY <1>1, <1>2, <1>12, <3>1 DEF UsesNamed
  <2> QED BY <2>1, <2>3, <2>4 DEF UsesNamed
<1>16. WalletChosen'
  BY <1>1, <1>2, WalletFrame
<1>17. SignedSound' /\ InputsIdentified'
  BY <1>1, BuiltFrame
<1> QED BY <1>4, <1>5, <1>6, <1>7, <1>8, <1>14, <1>15, <1>16, <1>17

-----------------------------------------------------------------------------
(* The theorems *)

\* BatchInv is inductive.
LEMMA BatchInvNext == BatchInv /\ [Next]_vars => BatchInv'
<1> SUFFICES ASSUME BatchInv, [Next]_vars PROVE BatchInv'
  OBVIOUS
<1>1. ASSUME NEW b \in Batch, MatchPanics(b) \/ BuildPanics(b) PROVE BatchInv'
  <2>1. Panic
    BY <1>1 DEF MatchPanics, BuildPanics
  <2> QED BY <2>1, PanicStep DEF Panic
<1>2. ASSUME NEW b \in Batch, PrepareAndPostBlock(b) PROVE BatchInv'
  BY <1>2, PostStep DEF PrepareAndPostBlock
<1>3. ASSUME NEW b \in Batch, PostFails(b) PROVE BatchInv'
  BY <1>3, PostStep DEF PostFails
<1>4. CASE UNCHANGED vars
  <2>1. panicked' \in BOOLEAN
    BY <1>4 DEF BatchInv, TypeOK, vars
  <2> QED BY <1>4, <2>1, PanicStep DEF vars
<1>5. ASSUME NEW b \in Batch, Step(b) PROVE BatchInv'
  BY <1>1, <1>2, <1>3, <1>5, StartStep, WalletStep, MatchKnownStep, MatchUnknownStep, FailStep,
     BuildStep, StoreStep, NameWalletStep, RegisterStep, ClearStep DEF Step
<1> QED BY <1>4, <1>5 DEF Next

\* The invariant holds in every reachable state.
LEMMA BatchInvariant == Spec => []BatchInv
BY BatchInit, BatchInvNext, PTL DEF Spec

\* TypeOK holds of the batches, whatever the constants.
THEOREM BatchesTyped == Spec => []TypeOK
<1>1. BatchInv => TypeOK
  BY DEF BatchInv
<1> QED BY <1>1, BatchInvariant, PTL

\* Two transactions spend one output exactly when they are of one batch and
\* name it by one alias, however many workers share the wallets.
THEOREM ConflictsAreScripted == Spec => []ConflictsAsScripted
<1>1. BatchInv => ConflictsAsScripted
  <2> SUFFICES ASSUME BatchInv, NEW b \in Batch, NEW c \in Batch,
                      NEW j \in BuiltBy(b), NEW k \in BuiltBy(c),
                      NEW x \in DOMAIN Spends(b, j), NEW y \in DOMAIN Spends(c, k)
               PROVE  Spends(b, j)[x] = Spends(c, k)[y] <=> b = c /\ x = y
    BY DEF ConflictsAsScripted
  <2>1. /\ x \in Alias /\ Spends(b, j)[x] \in Output /\ Use(b, x, Spends(b, j)[x])
        /\ y \in Alias /\ Spends(c, k)[y] \in Output /\ Use(c, y, Spends(c, k)[y])
    BY BuiltFacts DEF BatchInv
  <2> QED BY <2>1 DEF BatchInv, UsesApart
<1> QED BY <1>1, BatchInvariant, PTL

\* A uniform transaction is signed with the keys of the wallets its inputs lie
\* in, whenever the map learns of them.
THEOREM UniformSignedByOwner == Spec => []SignedByOwner
<1>1. BatchInv => SignedByOwner
  <2> SUFFICES ASSUME BatchInv, NEW b \in Batch, NEW k \in BuiltBy(b), Uniform(k),
                      NEW a \in DOMAIN Spends(b, k), NEW o, o = Spends(b, k)[a]
               PROVE  built[b][k].signers[a] = IF o \in DOMAIN tempIDWalletMap
                                               THEN tempIDWalletMap[o] ELSE ReuseWallet
    BY DEF SignedByOwner
  <2> USE DEF BatchInv
  <2>1. built[b][k].signers[a] = Owner(o)
    BY DEF SignedSound
  <2>2. CASE o \in DOMAIN tempIDWalletMap
    BY <2>1, <2>2 DEF StoreSound
  <2>3. CASE o \notin DOMAIN tempIDWalletMap
    <3>1. Taken(o) /\ a \in Alias /\ o \in Output
      BY BuiltFacts DEF UsesTaken
    <3>2. o \in FreshOutputs => o \in missing
      BY <2>3 DEF StoreSound
    <3>3. \A w \in FreshWallet : \A i \in 0 .. nextAddrToSpent[w] - 1 : FreshOutput(w, i) \in FreshOutputs
      BY BatchAssumption, OutputFacts DEF TypeOK
    <3>4. o \in stored /\ WalletOf(o[3]) = ReuseWallet
      BY <3>1, <3>2, <3>3 DEF Taken
    <3>5. o \notin FreshOutputs
      BY <3>4, OutputFacts DEF StoreSound
    <3> QED BY <2>1, <2>3, <3>4, <3>5 DEF Owner
  <2> QED BY <2>2, <2>3
<1> QED BY <1>1, BatchInvariant, PTL

\* ClearAliases leaves no name of a posted batch in the alias manager.
THEOREM DoneBatchesAreForgotten == Spec => []DoneBatchesForgotten
<1>1. BatchInv => DoneBatchesForgotten
  BY DEF BatchInv, UsesNamed, DoneBatchesForgotten, HasInput
<1> QED BY <1>1, BatchInvariant, PTL

\* Deep spam never finds an output in the Reuse wallet that is spent already.
THEOREM ReusePoolStaysUnspent == Spec => []ReusePoolUnspent
<1>1. BatchInv => ReusePoolUnspent
  <2> SUFFICES ASSUME BatchInv, NEW b \in Batch, NEW k \in BuiltBy(b), NEW a \in DOMAIN Spends(b, k)
               PROVE  Spends(b, k)[a] \notin reuseTempIDPool
    BY DEF ReusePoolUnspent
  <2> USE DEF BatchInv
  <2>1. Taken(Spends(b, k)[a])
    BY BuiltFacts DEF UsesTaken
  <2>2. \A w \in FreshWallet : \A i \in 0 .. nextAddrToSpent[w] - 1 : FreshOutput(w, i) \notin stored
    BY BatchAssumption, OutputFacts DEF TypeOK, StoreSound
  <2> QED BY <2>1, <2>2 DEF Taken, TypeOK
<1> QED BY <1>1, BatchInvariant, PTL

\* An input without OutputID is one that a failed split left so, or comes from
\* the Reuse wallet.
THEOREM InputsAreIdentified == Spec => []InputsIdentified
<1>1. BatchInv => InputsIdentified
  BY DEF BatchInv
<1> QED BY <1>1, BatchInvariant, PTL

=============================================================================
