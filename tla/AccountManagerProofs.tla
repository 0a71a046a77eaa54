------------------------- MODULE AccountManagerProofs -------------------------
(***************************************************************************)
(* Proofs about the account commands, for any aliases, any commands and    *)
(* any bounds: by which steps keys and delegations may be lost, and with   *)
(* which key a delegation is claimed, through failures, crashes, saving    *)
(* and loading.                                                            *)
(***************************************************************************)
EXTENDS AccountManager, TLAPS

-----------------------------------------------------------------------------
(* The inductive invariant *)

Seeds == (Alias \union {EmptyAlias}) \X (0 .. MaxProcesses)
Wallets == [seed : Seeds, LatestUsedIndex : Nat]
Accounts == [AccountID : {GenesisAccountAlias, FaucetRequestsAlias}, OutputID : {EmptyOutputID}]
Delegations == [Alias : Alias \union {EmptyAlias, GenesisAccountAlias},
                OutputID : Nat, AddressIndex : Nat]
Kinds == {"basic", "account", "delegation"}

\* The memory of the process.
MemoryTyped ==
    /\ accounts \in [DOMAIN accounts -> Accounts]
    /\ wallets \in [DOMAIN wallets -> Wallets] /\ DOMAIN wallets \subseteq Alias
    /\ delegations \in [DOMAIN delegations -> SUBSET Delegations]

CommandTyped ==
    /\ cmd \in [op : CreateOps \union {"none", "delegate", "allot", "claim"},
                step : {"idle", "request", "funds", "build", "accept", "claim", "failed",
                        "panicked"},
                alias : Alias \union {EmptyAlias, GenesisAccountAlias},
                wallet : Alias \union {EmptyAlias},
                inputs : SUBSET (IF cmd.op = "claim" THEN Delegations ELSE Nat),
                key : Key, tx : Nat, todo : SUBSET Delegations,
                passed : SUBSET Delegations]
    /\ cmd.tx <= outputs

\* No two transactions make the same output; one that is pending has not made
\* it, and its block is not accepted.
NodeSound ==
    /\ outputs \in 0 .. MaxOutputs
    /\ accepted \subseteq 1 .. outputs
    /\ DOMAIN ledger \subseteq 1 .. outputs
    /\ ledger \in [DOMAIN ledger -> [kind : Kinds, key : Key]]
    /\ \A t \in pending :
        /\ t.output \in (1 .. outputs) \ (DOMAIN ledger \union accepted)
        /\ t.kind \in Kinds /\ t.key \in Key
        /\ \A u \in pending : t.output = u.output => t = u

\* A claim has dealt with the delegations of its alias but for those it has
\* before it and those it passed over: they are spent.  The transaction it
\* awaits spends the delegation it is about.
ClaimSound ==
    cmd.op = "claim" /\ cmd.step \in {"claim", "accept"} =>
        /\ cmd.todo \subseteq Delegated(cmd.alias)
        /\ \A d \in Delegated(cmd.alias) \ (cmd.todo \union cmd.passed) :
                d.OutputID \notin DOMAIN ledger
        /\ cmd.step = "accept" => \E d \in cmd.todo :
            /\ cmd.inputs = {d}
            /\ cmd.tx \in DOMAIN ledger => d.OutputID \notin DOMAIN ledger
            /\ \A t \in pending : t.output = cmd.tx => d.OutputID \in t.inputs

\* What the handlers know at their steps: the wallet is there, a transaction
\* they await pays to the key they remember, and a delegation uses the wallet
\* it is counted to.
CommandSound ==
    /\ cmd.step = "idle" => cmd.op = "none"
    /\ cmd.step \notin {"idle", "failed", "panicked"} => cmd.wallet \in DOMAIN wallets
    /\ cmd.op = "delegate" /\ cmd.alias # GenesisAccountAlias => cmd.wallet = cmd.alias
    /\ cmd.step = "accept" =>
        /\ cmd.key.seed = wallets[cmd.wallet].seed
        /\ cmd.tx \in DOMAIN ledger => ledger[cmd.tx].key = cmd.key
        /\ \A t \in pending : t.output = cmd.tx => t.key = cmd.key
    /\ cmd.step = "claim" => cmd.op = "claim"
    /\ cmd.op = "claim" => cmd.step \in {"claim", "accept", "failed", "panicked"}
    /\ ClaimSound

\* No transaction will make this output any more.
Settled(o) == o \in 1 .. outputs /\ \A t \in pending : t.output # o

\* A delegation whose claim will be signed with the right key of these wallets.
Signable(d, ws) ==
    /\ Settled(d.OutputID)
    /\ d.Alias \in DOMAIN ws
    /\ d.Alias # GenesisAccountAlias /\ d.OutputID \in DOMAIN ledger =>
        ledger[d.OutputID].key = [seed |-> ws[d.Alias].seed, index |-> d.AddressIndex]

ListedSignable ==
    \A a \in DOMAIN delegations : \A d \in delegations[a] :
        d.Alias = a /\ Signable(d, wallets)

\* What can be loaded is as sound as the memory it was written from.
FileSound ==
    file.is = "state" =>
        /\ file.AccountState \subseteq Accounts
        /\ file.Wallets \in [DOMAIN file.Wallets -> Wallets]
        /\ DOMAIN file.Wallets \subseteq Alias
        /\ file.Delegation \subseteq Delegations
        /\ \A d \in file.Delegation : Signable(d, file.Wallets)

AccountInv ==
    /\ TypeOK /\ MemoryTyped /\ CommandTyped /\ NodeSound
    /\ CommandSound
    /\ ListedSignable
    /\ FileSound

-----------------------------------------------------------------------------
(* What a step leaves alone *)

\* A step takes nothing back that a listed delegation rests on.
NodeKept ==
    \A o : Settled(o) =>
        /\ Settled(o)'
        /\ o \in DOMAIN ledger' => o \in DOMAIN ledger /\ ledger'[o].key = ledger[o].key

\* Nor a wallet, or an index of one.
WalletsKept ==
    /\ DOMAIN wallets \subseteq DOMAIN wallets'
    /\ \A w \in DOMAIN wallets : /\ wallets'[w].seed = wallets[w].seed
                                 /\ wallets[w].LatestUsedIndex <= wallets'[w].LatestUsedIndex

\* The node at rest.
LEMMA NodeFrame ==
    ASSUME NodeSound, UNCHANGED nodeVars
    PROVE  NodeSound' /\ NodeKept
BY DEF nodeVars, NodeSound, NodeKept, Settled

\* The state file at rest.
LEMMA FileFrame ==
    ASSUME FileSound, NodeKept, UNCHANGED file
    PROVE  FileSound'
<1>1. ASSUME file.is = "state", NEW d \in file.Delegation
      PROVE  Signable(d, file.Wallets)'
  <2>1. Signable(d, file.Wallets)
    BY <1>1 DEF FileSound
  <2>2. /\ Settled(d.OutputID)'
        /\ d.OutputID \in DOMAIN ledger' =>
            d.OutputID \in DOMAIN ledger /\ ledger'[d.OutputID].key = ledger[d.OutputID].key
    BY <2>1 DEF NodeKept, Signable
  <2> QED BY <2>1, <2>2 DEF Signable
<1> QED BY <1>1 DEF FileSound

\* The delegations at rest, while keys and wallets are kept.
LEMMA ListFrame ==
    ASSUME AccountInv, NodeKept, WalletsKept, MemoryTyped', UNCHANGED delegations
    PROVE  ListedSignable'
<1>1. ASSUME NEW a \in DOMAIN delegations, NEW d \in delegations[a]
      PROVE  d.Alias = a /\ Signable(d, wallets)'
  <2>1. d.Alias = a /\ Signable(d, wallets)
    BY <1>1 DEF AccountInv, ListedSignable
  <2>2. /\ Settled(d.OutputID)'
        /\ d.OutputID \in DOMAIN ledger' =>
            d.OutputID \in DOMAIN ledger /\ ledger'[d.OutputID].key = ledger[d.OutputID].key
    BY <2>1 DEF NodeKept, Signable
  <2> QED BY <2>1, <2>2 DEF Signable, WalletsKept
<1> QED BY <1>1 DEF ListedSignable

\* A step that neither starts nor ends a process.
LEMMA RunningStep ==
    ASSUME AccountInv, process = "running" \/ UNCHANGED cmd,
           UNCHANGED <<process, processes, accounts, file>>,
           MemoryTyped', ListedSignable',
           \A a \in DOMAIN delegations' : delegations'[a] # {},
           NodeSound', NodeKept, CommandTyped', CommandSound'
    PROVE  AccountInv'
<1>1. FileSound'
  BY FileFrame DEF AccountInv
<1>2. TypeOK'
  <2>1. \A a \in DOMAIN delegations' :
            /\ delegations'[a] # {}
            /\ \A d \in delegations'[a] : d.Alias = a /\ d.OutputID \in 1 .. outputs'
    BY DEF ListedSignable, Signable, Settled
  <2>2. \A w \in DOMAIN wallets' : KeyOf(wallets', w) \in Key
    BY DEF MemoryTyped, KeyOf, Key, Wallets, Seeds
  <2>3. cmd'.step \in {"idle", "request", "funds", "build", "accept", "claim", "failed",
                       "panicked"} /\ cmd'.key \in Key /\ cmd'.tx \in 0 .. outputs'
    BY DEF CommandTyped, NodeSound
  <2>4. \A a \in DOMAIN accounts : accounts[a].OutputID \in 0 .. MaxOutputs
    BY DEF AccountInv, TypeOK
  <2> QED BY <2>1, <2>2, <2>3, <2>4 DEF AccountInv, TypeOK, NodeSound, MemoryTyped
<1> QED BY <1>1, <1>2 DEF AccountInv

\* The same, when it leaves its delegations alone.
LEMMA RunningFrame ==
    ASSUME AccountInv, process = "running" \/ UNCHANGED cmd,
           UNCHANGED <<process, processes, accounts, delegations, file>>,
           MemoryTyped', WalletsKept,
           NodeSound', NodeKept, CommandTyped', CommandSound'
    PROVE  AccountInv'
<1>1. ListedSignable'
  BY ListFrame
<1>2. \A a \in DOMAIN delegations' : delegations'[a] # {}
  BY DEF AccountInv, TypeOK
<1> QED BY <1>1, <1>2, RunningStep

\* The first facts about the constants.
LEMMA ConstantFacts ==
    /\ NoKey \in Key /\ MaxProcesses \in Nat /\ MaxOutputs \in Nat
    /\ NoCommand.op = "none" /\ NoCommand.step = "idle"
    /\ NoCommand.tx = 0 /\ NoCommand.inputs = {} /\ NoCommand.todo = {}
    /\ EmptyMap = [x \in DOMAIN EmptyMap |-> EmptyMap[x]] /\ DOMAIN EmptyMap = {}
<1>1. NoKey \in Key /\ MaxProcesses \in Nat /\ MaxOutputs \in Nat
  BY AccountAssumption DEF NoKey, Key
<1>2. EmptyMap = [x \in DOMAIN EmptyMap |-> EmptyMap[x]] /\ DOMAIN EmptyMap = {}
  BY DEF EmptyMap
<1>3. /\ NoCommand.op = "none" /\ NoCommand.step = "idle"
      /\ NoCommand.tx = 0 /\ NoCommand.inputs = {} /\ NoCommand.todo = {}
  BY DEF NoCommand
<1> QED BY <1>1, <1>2, <1>3

\* No command is under way at first, nor when the process has stopped.
LEMMA NoCommandFacts ==
    ASSUME NodeSound, cmd = NoCommand
    PROVE  CommandTyped /\ CommandSound
<1>1. NoCommand \in [op : {"none"}, step : {"idle"}, alias : {EmptyAlias},
                     wallet : {EmptyAlias}, inputs : {{}}, key : {NoKey}, tx : {0},
                     todo : {{}}, passed : {{}}]
  BY DEF NoCommand
<1>2. CommandSound
  BY ConstantFacts DEF CommandSound, ClaimSound
<1>3. CommandTyped
  BY <1>1, ConstantFacts DEF CommandTyped, NodeSound
<1> QED BY <1>2, <1>3

-----------------------------------------------------------------------------
(* Commands begin and fail *)

\* A command that fails or panics is only to be ended.
LEMMA FailFacts ==
    ASSUME CommandTyped, CommandSound, outputs \in Nat, outputs' \in Nat, outputs <= outputs',
           NEW step \in {"failed", "panicked"}, Goto(step)
    PROVE  CommandTyped' /\ CommandSound'
<1>1. /\ cmd' = [cmd EXCEPT !.step = step]
      /\ cmd'.step = step /\ cmd'.op = cmd.op /\ cmd'.alias = cmd.alias
      /\ cmd'.wallet = cmd.wallet /\ cmd'.tx = cmd.tx
  BY DEF Goto, CommandTyped
<1>2. CommandTyped'
  BY <1>1 DEF CommandTyped
<1>3. CommandSound'
  BY <1>1 DEF CommandSound, ClaimSound
<1> QED BY <1>2, <1>3

\* A step that changes the command only.
LEMMA CommandStep ==
    ASSUME AccountInv, process = "running",
           UNCHANGED <<process, processes, managerVars, file, nodeVars>>,
           CommandTyped', CommandSound'
    PROVE  AccountInv'
<1>1. NodeSound' /\ NodeKept
  BY NodeFrame DEF AccountInv
<1>2. MemoryTyped' /\ WalletsKept
  BY DEF AccountInv, managerVars, WalletsKept, MemoryTyped, Wallets
<1> QED BY <1>1, <1>2, RunningFrame DEF managerVars

\* Commands that fail at once, or whose wait does.
LEMMA FailStep ==
    ASSUME AccountInv, unknownSubcommand \/ AwaitFails
    PROVE  AccountInv'
<1>1. /\ Goto("failed") /\ process = "running"
      /\ UNCHANGED <<process, processes, managerVars, file, nodeVars>>
  BY DEF unknownSubcommand, AwaitFails, At
<1>2. CommandTyped' /\ CommandSound'
  BY <1>1, FailFacts DEF AccountInv, NodeSound, nodeVars
<1> QED BY <1>1, <1>2, CommandStep

\* A command of allot begins, with a wallet that is there.
LEMMA AllotStep ==
    ASSUME AccountInv, NEW alias \in Alias, allot(alias)
    PROVE  AccountInv'
<1>1. /\ process = "running"
      /\ UNCHANGED <<process, processes, managerVars, file, nodeVars>>
      /\ outputs \in Nat /\ outputs' = outputs
  BY DEF allot, At, nodeVars, AccountInv, NodeSound
<1>2. CASE Goto("failed")
  <2>1. CommandTyped' /\ CommandSound'
    BY <1>1, <1>2, FailFacts DEF AccountInv
  <2> QED BY <1>1, <2>1, CommandStep
<1>3. CASE alias \in DOMAIN wallets /\ \E step \in {"request", "build"} :
              cmd' = [NoCommand EXCEPT !.op = "allot", !.step = step,
                                       !.alias = alias, !.wallet = alias]
  <2>1. PICK step \in {"request", "build"} :
            cmd' = [op |-> "allot", step |-> step, alias |-> alias, wallet |-> alias,
                    inputs |-> {}, key |-> NoKey, tx |-> 0, todo |-> {}, passed |-> {}]
    BY <1>3 DEF NoCommand
  <2>2. CommandTyped'
    BY <1>1, <2>1, ConstantFacts DEF CommandTyped
  <2>3. CommandSound'
    BY <1>1, <1>3, <2>1 DEF CommandSound, ClaimSound, managerVars
  <2> QED BY <1>1, <2>2, <2>3, CommandStep
<1> QED BY <1>2, <1>3 DEF allot

\* A claim has before it all delegations of its alias.
LEMMA ClaimStep ==
    ASSUME AccountInv, NEW alias \in Alias, claim(alias)
    PROVE  AccountInv'
<1>1. /\ process = "running"
      /\ UNCHANGED <<process, processes, managerVars, file, nodeVars>>
      /\ outputs \in Nat /\ outputs' = outputs
  BY DEF claim, At, nodeVars, AccountInv, NodeSound
<1>2. CASE Goto("failed")
  <2>1. CommandTyped' /\ CommandSound'
    BY <1>1, <1>2, FailFacts DEF AccountInv
  <2> QED BY <1>1, <2>1, CommandStep
<1>3. CASE /\ alias \in DOMAIN delegations /\ alias \in DOMAIN wallets
           /\ cmd' = [NoCommand EXCEPT !.op = "claim", !.step = "claim", !.alias = alias,
                                       !.wallet = alias, !.todo = delegations[alias]]
  <2>1. cmd' = [op |-> "claim", step |-> "claim", alias |-> alias, wallet |-> alias,
                inputs |-> {}, key |-> NoKey, tx |-> 0, todo |-> delegations[alias],
                passed |-> {}]
    BY <1>3 DEF NoCommand
  <2>2. CommandTyped'
    BY <1>1, <1>3, <2>1, ConstantFacts DEF CommandTyped, AccountInv, MemoryTyped
  <2>3. CommandSound'
    BY <1>1, <1>3, <2>1 DEF CommandSound, ClaimSound, managerVars, Delegated
  <2> QED BY <1>1, <2>2, <2>3, CommandStep
<1> QED BY <1>2, <1>3 DEF claim

\* A wallet that is made when there is none.
LEMMA WalletMade ==
    ASSUME AccountInv, NEW alias \in Alias, wallets' = getOrCreateWallet(wallets, alias),
           UNCHANGED <<process, processes, accounts, delegations>>
    PROVE  /\ MemoryTyped' /\ WalletsKept
           /\ alias \in DOMAIN wallets'
<1>1. <<alias, processes>> \in Seeds /\ MemoryTyped
  BY DEF AccountInv, TypeOK, Seeds
<1>2. CASE alias \in DOMAIN wallets
  <2>1. wallets' = wallets
    BY <1>2 DEF getOrCreateWallet
  <2> QED BY <1>1, <1>2, <2>1 DEF MemoryTyped, WalletsKept, Wallets
<1>3. CASE alias \notin DOMAIN wallets
  <2>1. wallets' = [x \in DOMAIN wallets \union {alias} |->
            IF x = alias THEN [seed |-> <<alias, processes>>, LatestUsedIndex |-> 0]
                         ELSE wallets[x]]
    BY <1>3 DEF getOrCreateWallet, Put
  <2>2. MemoryTyped'
    BY <1>1, <2>1 DEF MemoryTyped, Wallets
  <2>3. WalletsKept /\ alias \in DOMAIN wallets'
    BY <1>1, <1>3, <2>1 DEF WalletsKept, MemoryTyped, Wallets
  <2> QED BY <2>2, <2>3
<1> QED BY <1>2, <1>3

\* create and delegate begin.
LEMMA BeginStep ==
    ASSUME AccountInv, NEW alias \in Alias, NEW op \in CreateOps \union {"delegate"},
           Begin(op, alias)
    PROVE  AccountInv'
<1>1. /\ process = "running" /\ wallets' = getOrCreateWallet(wallets, alias)
      /\ UNCHANGED <<process, processes, accounts, delegations, file, nodeVars>>
      /\ outputs \in Nat /\ outputs' = outputs
  BY DEF Begin, At, nodeVars, AccountInv, NodeSound
<1>2. NodeSound' /\ NodeKept
  BY <1>1, NodeFrame DEF AccountInv
<1>3. MemoryTyped' /\ WalletsKept /\ alias \in DOMAIN wallets'
  BY <1>1, WalletMade
<1>4. PICK step \in {"request", "failed"} :
          cmd' = [op |-> op, step |-> step, alias |-> CountedTo(op, alias), wallet |-> alias,
                  inputs |-> {}, key |-> NoKey, tx |-> 0, todo |-> {}, passed |-> {}]
  BY DEF Begin, NoCommand
<1>5. CountedTo(op, alias) \in {alias, GenesisAccountAlias}
  BY DEF CountedTo
<1>6. CommandTyped'
  BY <1>1, <1>4, <1>5, ConstantFacts DEF CommandTyped
<1>7. op # "claim"
  BY DEF CreateOps, CreateOp
<1>8. CommandSound'
  BY <1>3, <1>4, <1>5, <1>7 DEF CommandSound, ClaimSound
<1> QED BY <1>1, <1>2, <1>3, <1>6, <1>8, RunningFrame

\* destroy makes the wallet too, and then fails.
LEMMA DestroyStep ==
    ASSUME AccountInv, NEW alias \in Alias, destroyAccount(alias)
    PROVE  AccountInv'
<1>1. /\ process = "running" /\ wallets' = getOrCreateWallet(wallets, alias)
      /\ Goto("failed") \/ Goto("panicked")
      /\ UNCHANGED <<process, processes, accounts, delegations, file, nodeVars>>
      /\ outputs \in Nat /\ outputs' = outputs
  BY DEF destroyAccount, At, nodeVars, AccountInv, NodeSound
<1>2. NodeSound' /\ NodeKept
  BY <1>1, NodeFrame DEF AccountInv
<1>3. MemoryTyped' /\ WalletsKept /\ alias \in DOMAIN wallets'
  BY <1>1, WalletMade
<1>4. CommandTyped' /\ CommandSound'
  BY <1>1, FailFacts DEF AccountInv
<1> QED BY <1>1, <1>2, <1>3, <1>4, RunningFrame

-----------------------------------------------------------------------------
(* Addresses and transactions *)

\* The wallet of the command hands out its next address.
TakesAddress == wallets' = getAddress(wallets, cmd.wallet)

\* No earlier key is lost by that, and the new one belongs to the wallet.
LEMMA AddressTaken ==
    ASSUME AccountInv, cmd.wallet \in DOMAIN wallets, TakesAddress,
           UNCHANGED <<accounts, delegations>>
    PROVE  /\ MemoryTyped' /\ WalletsKept
           /\ DOMAIN wallets' = DOMAIN wallets
           /\ KeyOf(wallets', cmd.wallet) \in Key
           /\ KeyOf(wallets', cmd.wallet).seed = wallets'[cmd.wallet].seed
<1> DEFINE w == cmd.wallet
<1>1. MemoryTyped /\ w \in DOMAIN wallets
  BY DEF AccountInv
<1>2. /\ wallets[w] \in Wallets
      /\ wallets' = [wallets EXCEPT ![w] =
            [seed |-> wallets[w].seed, LatestUsedIndex |-> wallets[w].LatestUsedIndex + 1]]
  <2>1. wallets[w] \in Wallets
    BY <1>1 DEF MemoryTyped
  <2>2. wallets' = [wallets EXCEPT ![w].LatestUsedIndex = @ + 1]
    BY DEF TakesAddress, getAddress
  <2>3. [wallets[w] EXCEPT !.LatestUsedIndex = @ + 1] =
            [seed |-> wallets[w].seed, LatestUsedIndex |-> wallets[w].LatestUsedIndex + 1]
    BY <2>1 DEF Wallets
  <2> QED BY <1>1, <2>1, <2>2, <2>3
<1>3. /\ DOMAIN wallets' = DOMAIN wallets
      /\ wallets'[w] = [seed |-> wallets[w].seed,
                        LatestUsedIndex |-> wallets[w].LatestUsedIndex + 1]
      /\ \A x \in DOMAIN wallets : x # w => wallets'[x] = wallets[x]
      /\ wallets' = [x \in DOMAIN wallets' |-> wallets'[x]]
  BY <1>1, <1>2
<1>4. \A x \in DOMAIN wallets : wallets[x] \in Wallets /\ wallets'[x] \in Wallets
  BY <1>1, <1>2, <1>3 DEF MemoryTyped, Wallets
<1>5. WalletsKept
  BY <1>1, <1>2, <1>3, <1>4 DEF WalletsKept, Wallets
<1>6. /\ KeyOf(wallets', w) = [seed |-> wallets'[w].seed, index |-> wallets'[w].LatestUsedIndex]
      /\ KeyOf(wallets', w) \in Key
  BY <1>1, <1>3, <1>4 DEF KeyOf, Key, Wallets, Seeds
<1>7. MemoryTyped'
  BY <1>1, <1>3, <1>4 DEF MemoryTyped
<1> QED BY <1>1, <1>3, <1>5, <1>6, <1>7

\* The faucet is asked to pay a new address.
LEMMA RequestStep ==
    ASSUME AccountInv, RequestFaucetFunds
    PROVE  AccountInv'
<1>1. /\ process = "running" /\ cmd.step = "request" /\ TakesAddress
      /\ UNCHANGED <<process, processes, accounts, delegations, file, nodeVars>>
      /\ outputs \in Nat /\ outputs' = outputs
      /\ \/ cmd' = [cmd EXCEPT !.step = "funds", !.key = KeyOf(wallets', cmd.wallet)]
         \/ Goto("failed")
  BY DEF RequestFaucetFunds, TakesAddress, At, nodeVars, AccountInv, NodeSound
<1>2. cmd.wallet \in DOMAIN wallets
  BY <1>1 DEF AccountInv, CommandSound, ClaimSound
<1>3. NodeSound' /\ NodeKept
  BY <1>1, NodeFrame DEF AccountInv
<1>4. /\ MemoryTyped' /\ WalletsKept
      /\ KeyOf(wallets', cmd.wallet) \in Key
      /\ DOMAIN wallets' = DOMAIN wallets
  BY <1>1, <1>2, AddressTaken
<1>5. CommandTyped' /\ CommandSound'
  <2>1. CASE Goto("failed")
    BY <1>1, <2>1, FailFacts DEF AccountInv
  <2>2. CASE cmd' = [cmd EXCEPT !.step = "funds", !.key = KeyOf(wallets', cmd.wallet)]
    <3>1. CommandTyped'
      BY <1>1, <1>4, <2>2 DEF CommandTyped, AccountInv
    <3>2. CommandSound'
      BY <1>1, <1>2, <1>4, <2>2 DEF CommandSound, ClaimSound, CommandTyped, AccountInv
    <3> QED BY <3>1, <3>2
  <2> QED BY <1>1, <2>1, <2>2
<1> QED BY <1>1, <1>3, <1>4, <1>5, RunningFrame

\* Nothing is built, and an address may be lost.
LEMMA BuildFailsStep ==
    ASSUME AccountInv, BuildFails
    PROVE  AccountInv'
<1>1. /\ process = "running" /\ cmd.step \in {"build", "claim"} /\ Goto("failed")
      /\ TakesAddress \/ UNCHANGED wallets
      /\ UNCHANGED <<process, processes, accounts, delegations, file, nodeVars>>
      /\ outputs \in Nat /\ outputs' = outputs
  BY DEF BuildFails, TakesAddress, nodeVars, AccountInv, NodeSound
<1>2. cmd.wallet \in DOMAIN wallets
  BY <1>1 DEF AccountInv, CommandSound, ClaimSound
<1>3. CommandTyped' /\ CommandSound'
  BY <1>1, FailFacts DEF AccountInv
<1>4. CASE TakesAddress
  <2>1. NodeSound' /\ NodeKept
    BY <1>1, NodeFrame DEF AccountInv
  <2>2. MemoryTyped' /\ WalletsKept
    BY <1>1, <1>2, <1>4, AddressTaken
  <2> QED BY <1>1, <1>3, <2>1, <2>2, RunningFrame
<1>5. CASE UNCHANGED wallets
  BY <1>1, <1>3, <1>5, CommandStep DEF managerVars
<1> QED BY <1>1, <1>4, <1>5

\* A block goes out with a transaction that pays the next address.
Posts(inputs) ==
    /\ TakesAddress
    /\ outputs < MaxOutputs
    /\ outputs' = outputs + 1
    /\ \E t : /\ t.inputs = inputs /\ t.output = outputs' /\ t.kind \in Kinds
              /\ t.key = KeyOf(wallets', cmd.wallet)
              /\ pending' = pending \union {t}
    /\ UNCHANGED <<process, processes, accounts, delegations, file, ledger, accepted>>

\* It makes an output that no other transaction makes.
LEMMA PostsFacts ==
    ASSUME AccountInv, NEW inputs, Posts(inputs), cmd.wallet \in DOMAIN wallets
    PROVE  NodeSound' /\ NodeKept
<1>1. PICK t : /\ t.output = outputs' /\ t.kind \in Kinds
               /\ t.key = KeyOf(wallets', cmd.wallet)
               /\ pending' = pending \union {t}
  BY DEF Posts
<1>2. t.key \in Key
  BY <1>1, AddressTaken DEF Posts
<1>3. /\ outputs' = outputs + 1 /\ outputs < MaxOutputs
      /\ ledger' = ledger /\ accepted' = accepted
      /\ outputs \in 0 .. MaxOutputs /\ MaxOutputs \in Nat
      /\ \A u \in pending : u.output \in 1 .. outputs
  BY ConstantFacts DEF Posts, AccountInv, NodeSound
<1>4. NodeSound'
  <2>1. /\ outputs' \in 0 .. MaxOutputs /\ 1 .. outputs \subseteq 1 .. outputs'
        /\ outputs' \in 1 .. outputs' /\ outputs' \notin 1 .. outputs
    BY <1>3
  <2>2. t.output \in (1 .. outputs') \ (DOMAIN ledger \union accepted)
    BY <1>1, <2>1 DEF AccountInv, NodeSound
  <2>3. \A u \in pending : t.output # u.output
    BY <1>1, <1>3, <2>1
  <2> QED BY <1>1, <1>2, <1>3, <2>1, <2>2, <2>3 DEF AccountInv, NodeSound
<1>5. NodeKept
  BY <1>1, <1>3 DEF NodeKept, Settled
<1> QED BY <1>4, <1>5

\* A command that goes on to await the transaction it posted.
LEMMA AwaitFacts ==
    ASSUME AccountInv, NEW inputs, Posts(inputs), cmd.wallet \in DOMAIN wallets,
           cmd'.step = "accept", cmd'.tx = outputs',
           cmd'.key = KeyOf(wallets', cmd.wallet),
           cmd'.op = cmd.op, cmd'.alias = cmd.alias, cmd'.wallet = cmd.wallet,
           cmd'.todo = cmd.todo, cmd'.passed = cmd.passed,
           cmd.op = "claim" =>
                /\ cmd.step \in {"claim", "accept"}
                /\ \E d \in cmd.todo : cmd'.inputs = {d} /\ d.OutputID \in inputs
    PROVE  CommandSound'
<1>1. PICK t : /\ t.inputs = inputs /\ t.output = outputs'
               /\ t.key = KeyOf(wallets', cmd.wallet)
               /\ pending' = pending \union {t}
  BY DEF Posts
<1>2. /\ DOMAIN wallets' = DOMAIN wallets
      /\ KeyOf(wallets', cmd.wallet).seed = wallets'[cmd.wallet].seed
  BY AddressTaken DEF Posts
<1>3. outputs' \notin DOMAIN ledger' /\ \A u \in pending : u.output # outputs'
  BY DEF Posts, AccountInv, NodeSound
<1>4. \A u \in pending' : u.output = cmd'.tx => u.key = cmd'.key
  BY <1>1, <1>3
<1>5. ClaimSound'
  <2>1. SUFFICES ASSUME cmd.op = "claim" PROVE ClaimSound'
    BY DEF ClaimSound
  <2>2. PICK d \in cmd.todo : cmd'.inputs = {d} /\ d.OutputID \in inputs
    BY <2>1
  <2>3. \A u \in pending' : u.output = cmd'.tx => d.OutputID \in u.inputs
    BY <1>1, <1>3, <2>2
  <2>4. /\ ClaimSound /\ cmd.step \in {"claim", "accept"}
        /\ ledger' = ledger /\ Delegated(cmd.alias)' = Delegated(cmd.alias)
    BY <2>1 DEF AccountInv, CommandSound, ClaimSound, Posts, Delegated
  <2> QED BY <1>3, <2>1, <2>2, <2>3, <2>4 DEF ClaimSound
<1>6. cmd'.op = "delegate" /\ cmd'.alias # GenesisAccountAlias => cmd'.wallet = cmd'.alias
  BY DEF AccountInv, CommandSound, ClaimSound
<1> QED BY <1>2, <1>3, <1>4, <1>5, <1>6 DEF CommandSound, ClaimSound

\* The rest of a step that posts.
LEMMA PostsStep ==
    ASSUME AccountInv, process = "running", NEW inputs, Posts(inputs),
           cmd.wallet \in DOMAIN wallets,
           CommandTyped', CommandSound'
    PROVE  AccountInv'
<1>1. NodeSound' /\ NodeKept
  BY PostsFacts
<1>2. MemoryTyped' /\ WalletsKept
  BY AddressTaken DEF Posts
<1> QED BY <1>1, <1>2, RunningFrame DEF Posts

\* Accounts and delegations are created, mana is allotted.
LEMMA CreateStep ==
    ASSUME AccountInv,
           \/ createAccountWithFaucet \/ transitionImplicitAccount
           \/ createDelegationTransaction \/ createAllotTransaction
    PROVE  AccountInv'
<1> DEFINE key == KeyOf(wallets', cmd.wallet)
<1>1. /\ process = "running" /\ cmd.step = "build" /\ cmd.op # "claim"
      /\ cmd.wallet \in DOMAIN wallets
  BY DEF createAccountWithFaucet, transitionImplicitAccount, createDelegationTransaction,
         createAllotTransaction, At, AccountInv, CommandSound, ClaimSound
<1>2. /\ Posts(cmd.inputs)
      /\ \/ cmd' = [Awaiting EXCEPT !.tx = outputs', !.key = key]
         \/ cmd' = [NoCommand EXCEPT !.tx = outputs', !.key = key]
         \/ Goto("failed")
  <2>1. ASSUME NEW kind \in Kinds, NEW signed, NEW step,
               Post(cmd.inputs, kind, signed, step)
        PROVE  /\ Posts(cmd.inputs)
               /\ cmd' = [step EXCEPT !.tx = outputs', !.key = key] \/ Goto("failed")
    <3>1. \E t : t.inputs = cmd.inputs /\ t.output = outputs' /\ t.kind \in Kinds /\ t.key = key
                 /\ pending' = pending \union {t}
      <4> DEFINE u == [inputs |-> cmd.inputs, output |-> outputs', kind |-> kind, key |-> key,
                       signed |-> signed]
      <4>1. u.inputs = cmd.inputs /\ u.output = outputs' /\ u.kind = kind /\ u.key = key
        OBVIOUS
      <4>2. pending' = pending \union {u}
        BY <2>1 DEF Post
      <4> HIDE DEF u, key
      <4> QED BY <4>1, <4>2
    <3> QED BY <2>1, <3>1 DEF Post, Posts, TakesAddress
  <2>2. CASE Post(cmd.inputs, "account", TRUE, Awaiting)
    BY <2>1, <2>2 DEF Kinds
  <2>3. CASE Post(cmd.inputs, "delegation", TRUE, Awaiting)
    BY <2>1, <2>3 DEF Kinds
  <2>4. CASE Post(cmd.inputs, "basic", TRUE, NoCommand)
    BY <2>1, <2>4 DEF Kinds
  <2> QED BY <2>2, <2>3, <2>4 DEF createAccountWithFaucet, transitionImplicitAccount,
             createDelegationTransaction, createAllotTransaction
<1>3. key \in Key /\ outputs' \in Nat /\ outputs \in Nat /\ outputs <= outputs'
  BY <1>1, <1>2, AddressTaken DEF Posts, AccountInv, NodeSound
<1> HIDE DEF key
<1>4. CommandTyped' /\ CommandSound'
  <2>1. CASE Goto("failed")
    BY <1>3, <2>1, FailFacts DEF AccountInv
  <2>2. CASE cmd' = [NoCommand EXCEPT !.tx = outputs', !.key = key]
    <3>1. cmd' = [op |-> "none", step |-> "idle", alias |-> EmptyAlias, wallet |-> EmptyAlias,
                  inputs |-> {}, key |-> key, tx |-> outputs', todo |-> {}, passed |-> {}]
      BY <2>2 DEF NoCommand
    <3>2. CommandTyped'
      BY <1>3, <3>1 DEF CommandTyped
    <3>3. CommandSound'
      BY <3>1 DEF CommandSound, ClaimSound
    <3> QED BY <3>2, <3>3
  <2>3. CASE cmd' = [Awaiting EXCEPT !.tx = outputs', !.key = key]
    <3>1. /\ cmd' = [cmd EXCEPT !.step = "accept", !.tx = outputs', !.key = key]
          /\ CommandTyped
      BY <2>3 DEF Awaiting, AccountInv
    <3>2. CommandTyped'
      <4>1. cmd' = [op |-> cmd.op, step |-> "accept", alias |-> cmd.alias,
                    wallet |-> cmd.wallet, inputs |-> cmd.inputs, key |-> key,
                    tx |-> outputs', todo |-> cmd.todo, passed |-> cmd.passed]
        BY <3>1 DEF CommandTyped
      <4> QED BY <1>3, <3>1, <4>1 DEF CommandTyped
    <3>3. /\ cmd'.step = "accept" /\ cmd'.tx = outputs' /\ cmd'.key = key
          /\ cmd'.op = cmd.op /\ cmd'.alias = cmd.alias /\ cmd'.wallet = cmd.wallet
          /\ cmd'.todo = cmd.todo /\ cmd'.passed = cmd.passed
      BY <3>1 DEF CommandTyped
    <3>4. CommandSound'
      BY <1>1, <1>2, <3>3, AwaitFacts DEF key
    <3> QED BY <3>2, <3>4
  <2> QED BY <1>2, <2>1, <2>2, <2>3
<1> QED BY <1>1, <1>2, <1>4, PostsStep

\* A delegation is claimed; it is the only input.
LEMMA ClaimDelegationStep ==
    ASSUME AccountInv, ClaimDelegation
    PROVE  AccountInv'
<1> DEFINE key == KeyOf(wallets', cmd.wallet)
<1>1. /\ process = "running" /\ cmd.step = "claim" /\ cmd.op = "claim"
      /\ cmd.wallet \in DOMAIN wallets
  BY DEF ClaimDelegation, At, AccountInv, CommandSound, ClaimSound
<1>2. PICK d \in cmd.todo :
          Post({d.OutputID}, "basic", SignsFor(d),
               [cmd EXCEPT !.step = "accept", !.inputs = {d}])
  BY DEF ClaimDelegation
<1>3. \/ cmd' = [cmd EXCEPT !.step = "accept", !.inputs = {d}, !.tx = outputs', !.key = key]
      \/ Goto("failed")
  BY <1>2 DEF Post
<1>4. Posts({d.OutputID})
  <2>1. \E t : t.inputs = {d.OutputID} /\ t.output = outputs' /\ t.kind \in Kinds /\ t.key = key
               /\ pending' = pending \union {t}
    <3> DEFINE u == [inputs |-> {d.OutputID}, output |-> outputs', kind |-> "basic",
                     key |-> key, signed |-> SignsFor(d)]
    <3>1. u.inputs = {d.OutputID} /\ u.output = outputs' /\ u.kind \in Kinds /\ u.key = key
      BY DEF Kinds
    <3>2. pending' = pending \union {u}
      BY <1>2 DEF Post
    <3> HIDE DEF u, key
    <3> QED BY <3>1, <3>2
  <2> QED BY <1>2, <2>1 DEF Post, Posts, TakesAddress
<1>5. key \in Key /\ outputs' \in Nat /\ outputs \in Nat /\ outputs <= outputs'
  BY <1>1, <1>4, AddressTaken DEF Posts, AccountInv, NodeSound
<1> HIDE DEF key
<1>6. CommandTyped' /\ CommandSound'
  <2>1. CASE Goto("failed")
    BY <1>5, <2>1, FailFacts DEF AccountInv
  <2>2. CASE cmd' = [cmd EXCEPT !.step = "accept", !.inputs = {d}, !.tx = outputs',
                                !.key = key]
    <3>1. CommandTyped
      BY DEF AccountInv
    <3>2. d \in Delegations
      BY <1>2, <3>1 DEF CommandTyped
    <3>3. CommandTyped'
      <4>1. cmd' = [op |-> "claim", step |-> "accept", alias |-> cmd.alias,
                    wallet |-> cmd.wallet, inputs |-> {d}, key |-> key,
                    tx |-> outputs', todo |-> cmd.todo, passed |-> cmd.passed]
        BY <1>1, <2>2, <3>1 DEF CommandTyped
      <4> QED BY <1>5, <3>1, <3>2, <4>1 DEF CommandTyped
    <3>4. /\ cmd'.step = "accept" /\ cmd'.tx = outputs' /\ cmd'.key = key
          /\ cmd'.op = cmd.op /\ cmd'.alias = cmd.alias /\ cmd'.wallet = cmd.wallet
          /\ cmd'.todo = cmd.todo /\ cmd'.inputs = {d} /\ cmd'.passed = cmd.passed
      BY <2>2, <3>1 DEF CommandTyped
    <3>5. CommandSound'
      BY <1>1, <1>2, <1>4, <3>4, AwaitFacts DEF key
    <3> QED BY <3>3, <3>5
  <2> QED BY <1>3, <2>1, <2>2
<1> QED BY <1>1, <1>4, <1>6, PostsStep

-----------------------------------------------------------------------------
(* Answers of the node *)

\* registerAccount stores back what was there.
LEMMA RegisterNothing ==
    ASSUME MemoryTyped, NEW alias, NEW account, registerAccount(alias, account)
    PROVE  accounts' = accounts
BY DEF registerAccount, MemoryTyped

\* The funds are there: the command goes on, or is done.
LEMMA FundsStep ==
    ASSUME AccountInv, FundsArrive
    PROVE  AccountInv'
<1>1. /\ process = "running" /\ cmd.step = "funds" /\ CommandTyped /\ CommandSound /\ NodeSound
      /\ UNCHANGED <<process, processes, wallets, delegations, file, nodeVars>>
      /\ outputs \in Nat /\ outputs' = outputs
  BY DEF FundsArrive, At, nodeVars, AccountInv, NodeSound
<1>2. UNCHANGED accounts
  <2>1. ASSUME NEW o, registerAccount(cmd.alias, [AccountID |-> o, OutputID |-> o])
        PROVE  UNCHANGED accounts
    BY <2>1 DEF registerAccount, AccountInv, MemoryTyped
  <2> QED BY <2>1 DEF FundsArrive
<1>3. PICK o \in DOMAIN ledger : \E step \in AfterFunds(cmd.inputs \union {o}) :
          cmd' = IF step = "idle" THEN NoCommand
                 ELSE [cmd EXCEPT !.step = step, !.inputs = @ \union {o}]
  BY DEF FundsArrive
<1>4. PICK step \in {"idle", "request", "build"} :
          cmd' = IF step = "idle" THEN NoCommand
                 ELSE [cmd EXCEPT !.step = step, !.inputs = @ \union {o}]
  BY <1>3 DEF AfterFunds
<1>5. CommandTyped' /\ CommandSound'
  <2>1. CASE step = "idle"
    <3>1. cmd' = NoCommand /\ NodeSound'
      BY <1>1, <1>4, <2>1, NodeFrame
    <3>2. CommandTyped' /\ CommandSound'
      BY <3>1, ConstantFacts
         DEF CommandTyped, CommandSound, ClaimSound, NodeSound, NoCommand
    <3> QED BY <3>2
  <2>2. CASE step # "idle"
    <3>1. cmd' = [op |-> cmd.op, step |-> step, alias |-> cmd.alias, wallet |-> cmd.wallet,
                  inputs |-> cmd.inputs \union {o}, key |-> cmd.key, tx |-> cmd.tx,
                  todo |-> cmd.todo, passed |-> cmd.passed]
      BY <1>1, <1>4, <2>2 DEF CommandTyped
    <3>2. cmd.op # "claim" /\ o \in Nat
      BY <1>1, <1>3 DEF CommandSound, ClaimSound, NodeSound
    <3>3. CommandTyped'
      BY <1>1, <1>4, <2>2, <3>1, <3>2 DEF CommandTyped
    <3>4. CommandSound'
      BY <1>1, <1>4, <2>2, <3>1, <3>2 DEF CommandSound, ClaimSound
    <3> QED BY <3>3, <3>4
  <2> QED BY <2>1, <2>2
<1> QED BY <1>1, <1>2, <1>5, CommandStep DEF managerVars

\* The node has accepted the block of a new account.
LEMMA CreateAcceptedStep ==
    ASSUME AccountInv, CreateAccepted
    PROVE  AccountInv'
<1>1. /\ process = "running" /\ NodeSound /\ NodeSound'
      /\ UNCHANGED <<process, processes, wallets, delegations, file, nodeVars>>
      /\ outputs \in Nat /\ outputs' = outputs
  BY NodeFrame DEF CreateAccepted, At, nodeVars, AccountInv, NodeSound
<1>2. UNCHANGED accounts
  BY RegisterNothing DEF CreateAccepted, AccountInv
<1>3. CommandTyped' /\ CommandSound'
  <2>1. CASE cmd' = NoCommand
    <3>1. CommandTyped' /\ CommandSound'
      BY <1>1, <2>1, ConstantFacts
         DEF CommandTyped, CommandSound, ClaimSound, NodeSound, NoCommand
    <3> QED BY <3>1
  <2>2. CASE Goto("failed")
    BY <1>1, <2>2, FailFacts DEF AccountInv
  <2> QED BY <2>1, <2>2 DEF CreateAccepted, Done
<1> QED BY <1>1, <1>2, <1>3, CommandStep DEF managerVars

\* The delegation that was accepted lies where its claim will look for it.
LEMMA RegisterDelegationStep ==
    ASSUME AccountInv, registerDelegationOutput
    PROVE  AccountInv'
<1>1. /\ process = "running" /\ cmd.step = "accept" /\ cmd.op = "delegate"
      /\ cmd.tx \in accepted
      /\ UNCHANGED <<process, processes, accounts, wallets, file, nodeVars>>
      /\ MemoryTyped /\ CommandTyped /\ CommandSound /\ NodeSound
      /\ outputs \in Nat /\ outputs' = outputs
  BY DEF registerDelegationOutput, At, nodeVars, AccountInv, NodeSound
<1>2. NodeSound' /\ NodeKept
  BY <1>1, NodeFrame
<1>3. CASE cmd.alias \notin DOMAIN wallets
  <2>1. Goto("panicked") /\ UNCHANGED delegations
    BY <1>3 DEF registerDelegationOutput
  <2>2. CommandTyped' /\ CommandSound'
    BY <1>1, <2>1, FailFacts
  <2> QED BY <1>1, <2>1, <2>2, CommandStep DEF managerVars
<1>4. CASE cmd.alias \in DOMAIN wallets
  <2>1. PICK a : a = cmd.alias
    OBVIOUS
  <2>2. PICK new : new = Delegation
    OBVIOUS
  <2>3. PICK ds : ds = Delegated(a) \union {new}
    OBVIOUS
  <2>4. /\ delegations' = Put(delegations, a, ds)
        /\ cmd' = NoCommand \/ Goto("failed")
    BY <1>4, <2>1, <2>2, <2>3 DEF registerDelegationOutput, Done
  <2>5. /\ DOMAIN delegations' = DOMAIN delegations \union {a}
        /\ delegations'[a] = ds
        /\ \A x \in DOMAIN delegations : x # a => delegations'[x] = delegations[x]
        /\ delegations' = [x \in DOMAIN delegations' |-> delegations'[x]]
    BY <2>4 DEF Put
  <2>6. /\ new \in Delegations /\ new.Alias = a
        /\ new.OutputID = cmd.tx /\ new.AddressIndex = cmd.key.index
    BY <1>1, <2>1, <2>2 DEF Delegation, CommandTyped, Delegations, Key
  <2>8. MemoryTyped'
    <3>1. ds \subseteq Delegations
      BY <1>1, <2>3, <2>6 DEF Delegated, MemoryTyped
    <3> QED BY <1>1, <2>5, <3>1 DEF MemoryTyped
  <2>10. Signable(new, wallets)'
    <3>1. Settled(cmd.tx)
      BY <1>1 DEF Settled, NodeSound
    <3>2. a # GenesisAccountAlias /\ cmd.tx \in DOMAIN ledger =>
              ledger[cmd.tx].key = [seed |-> wallets[a].seed, index |-> cmd.key.index]
      <4>1. cmd.key = [seed |-> cmd.key.seed, index |-> cmd.key.index]
        BY <1>1 DEF CommandTyped, Key
      <4> QED BY <1>1, <2>1, <4>1 DEF CommandSound, ClaimSound
    <3>3. Signable(new, wallets)
      BY <1>4, <2>1, <2>6, <3>1, <3>2 DEF Signable
    <3> QED BY <1>1, <3>3 DEF Signable, Settled, nodeVars
  <2>11. \A x \in DOMAIN delegations : \A d \in delegations[x] :
             d.Alias = x /\ Signable(d, wallets)'
    BY <1>1 DEF AccountInv, ListedSignable, Signable, Settled, nodeVars
  <2>12. ListedSignable'
    <3>1. ASSUME NEW x \in DOMAIN delegations', NEW d \in delegations'[x]
          PROVE  d.Alias = x /\ Signable(d, wallets)'
      <4>1. (d = new /\ x = a) \/ (x \in DOMAIN delegations /\ d \in delegations[x])
        BY <2>3, <2>5, <3>1 DEF Delegated
      <4> QED BY <2>6, <2>10, <2>11, <4>1
    <3> QED BY <3>1 DEF ListedSignable
  <2>14. \A x \in DOMAIN delegations' : delegations'[x] # {}
    BY <2>3, <2>5 DEF AccountInv, TypeOK
  <2>15. CommandTyped' /\ CommandSound'
    <3>1. CASE cmd' = NoCommand
      BY <1>1, <3>1, ConstantFacts
         DEF CommandTyped, CommandSound, ClaimSound, NodeSound, NoCommand
    <3>2. CASE Goto("failed")
      BY <1>1, <3>2, FailFacts
    <3> QED BY <2>4, <3>1, <3>2
  <2> QED BY <1>1, <1>2, <2>8, <2>12, <2>14, <2>15, RunningStep
<1> QED BY <1>3, <1>4

\* The claim passes over a delegation.
LEMMA SkipStep ==
    ASSUME AccountInv, SkipDelegation
    PROVE  AccountInv'
<1>1. /\ process = "running" /\ cmd.step = "claim" /\ cmd.op = "claim"
      /\ UNCHANGED <<process, processes, managerVars, file, nodeVars>>
      /\ CommandTyped /\ CommandSound /\ outputs' = outputs
  BY DEF SkipDelegation, At, nodeVars, AccountInv, CommandSound, ClaimSound
<1>2. PICK d \in cmd.todo :
          cmd' = [cmd EXCEPT !.todo = @ \ {d}, !.passed = @ \union {d}]
  BY DEF SkipDelegation
<1>3. cmd' = [op |-> "claim", step |-> "claim", alias |-> cmd.alias, wallet |-> cmd.wallet,
              inputs |-> cmd.inputs, key |-> cmd.key, tx |-> cmd.tx,
              todo |-> cmd.todo \ {d}, passed |-> cmd.passed \union {d}]
  BY <1>1, <1>2 DEF CommandTyped
<1>4. CommandTyped'
  BY <1>1, <1>3 DEF CommandTyped
<1>5. CommandSound'
  <2>1. ClaimSound'
    BY <1>1, <1>3 DEF CommandSound, ClaimSound, Delegated, managerVars, nodeVars
  <2> QED BY <1>1, <1>3, <2>1 DEF CommandSound, ClaimSound, managerVars
<1> QED BY <1>1, <1>4, <1>5, CommandStep

\* The claim of a delegation has its answer: it is spent.
LEMMA ClaimAcceptedStep ==
    ASSUME AccountInv, ClaimAccepted
    PROVE  AccountInv'
<1>1. /\ process = "running" /\ cmd.step = "accept" /\ cmd.op = "claim"
      /\ UNCHANGED <<process, processes, managerVars, file, nodeVars>>
      /\ CommandTyped /\ CommandSound /\ outputs \in Nat /\ outputs' = outputs
  BY DEF ClaimAccepted, At, nodeVars, AccountInv, NodeSound
<1>2. CASE Goto("failed")
  <2>1. CommandTyped' /\ CommandSound'
    BY <1>1, <1>2, FailFacts
  <2> QED BY <1>1, <1>2, <2>1, CommandStep
<1>3. CASE /\ cmd.tx \in DOMAIN ledger
           /\ cmd' = [cmd EXCEPT !.step = "claim", !.todo = @ \ cmd.inputs, !.inputs = {}]
  <2>1. PICK d \in cmd.todo : cmd.inputs = {d} /\ d.OutputID \notin DOMAIN ledger
    BY <1>1, <1>3 DEF CommandSound, ClaimSound
  <2>2. cmd' = [op |-> "claim", step |-> "claim", alias |-> cmd.alias,
                wallet |-> cmd.wallet, inputs |-> {}, key |-> cmd.key, tx |-> cmd.tx,
                todo |-> cmd.todo \ {d}, passed |-> cmd.passed]
    BY <1>1, <1>3, <2>1 DEF CommandTyped
  <2>3. CommandTyped'
    BY <1>1, <2>2 DEF CommandTyped
  <2>4. ClaimSound'
    BY <1>1, <2>1, <2>2 DEF CommandSound, ClaimSound, Delegated, managerVars, nodeVars
  <2>5. CommandSound'
    BY <1>1, <2>2, <2>4 DEF CommandSound, ClaimSound, managerVars
  <2> QED BY <1>1, <2>3, <2>5, CommandStep
<1> QED BY <1>2, <1>3 DEF ClaimAccepted

\* The list of an alias goes when the loop is over.
LEMMA RemoveStep ==
    ASSUME AccountInv, removeDelegations
    PROVE  AccountInv'
<1>1. /\ process = "running"
      /\ delegations' = [a \in DOMAIN delegations \ {cmd.alias} |-> delegations[a]]
      /\ cmd' = NoCommand
      /\ UNCHANGED <<process, processes, accounts, wallets, file, nodeVars>>
      /\ MemoryTyped /\ NodeSound
  BY DEF removeDelegations, At, Others, Done, AccountInv
<1>2. NodeSound' /\ NodeKept
  BY <1>1, NodeFrame
<1>3. MemoryTyped'
  BY <1>1 DEF MemoryTyped
<1>4. ListedSignable'
  BY <1>1 DEF AccountInv, ListedSignable, Signable, Settled, nodeVars
<1>5. \A a \in DOMAIN delegations' : delegations'[a] # {}
  BY <1>1 DEF AccountInv, TypeOK
<1>6. CommandTyped' /\ CommandSound'
  BY <1>1, <1>2, ConstantFacts
         DEF CommandTyped, CommandSound, ClaimSound, NodeSound, NoCommand
<1> QED BY <1>1, <1>2, <1>3, <1>4, <1>5, <1>6, RunningStep

\* What the node does changes no more than the node.
LEMMA NodeStep ==
    ASSUME AccountInv, NodeSound', NodeKept,
           UNCHANGED <<process, processes, managerVars, file, cmd>>,
           outputs <= outputs', CommandSound'
    PROVE  AccountInv'
<1>1. MemoryTyped' /\ WalletsKept
  BY DEF AccountInv, managerVars, MemoryTyped, WalletsKept, Wallets
<1>2. CommandTyped'
  BY DEF AccountInv, CommandTyped, NodeSound
<1> QED BY <1>1, <1>2, RunningFrame DEF managerVars

\* The faucet pays.
LEMMA FaucetPaysStep ==
    ASSUME AccountInv, FaucetPays
    PROVE  AccountInv'
<1>1. /\ cmd.step = "funds" /\ outputs < MaxOutputs /\ outputs' = outputs + 1
      /\ ledger' = Put(ledger, outputs', [kind |-> "basic", key |-> cmd.key])
      /\ UNCHANGED <<process, processes, managerVars, file, cmd, pending, accepted>>
      /\ CommandTyped /\ CommandSound /\ NodeSound
      /\ outputs \in 0 .. MaxOutputs /\ MaxOutputs \in Nat
  BY ConstantFacts DEF FaucetPays, At, AccountInv, NodeSound
<1>2. /\ outputs' \in 0 .. MaxOutputs /\ outputs <= outputs'
      /\ 1 .. outputs \subseteq 1 .. outputs'
      /\ outputs' \in 1 .. outputs' /\ outputs' \notin 1 .. outputs
  BY <1>1
<1>3. PICK new : new = outputs'
  OBVIOUS
<1>4. /\ DOMAIN ledger' = DOMAIN ledger \union {new}
      /\ ledger'[new] = [kind |-> "basic", key |-> cmd.key]
      /\ \A o \in DOMAIN ledger : ledger'[o] = ledger[o]
      /\ ledger' = [o \in DOMAIN ledger' |-> ledger'[o]]
  BY <1>1, <1>2, <1>3 DEF Put, NodeSound
<1>5. NodeSound'
  <2>1. [kind |-> "basic", key |-> cmd.key] \in [kind : Kinds, key : Key]
    BY <1>1 DEF CommandTyped, Kinds
  <2>2. \A t \in pending : t.output \in (1 .. outputs') \ (DOMAIN ledger' \union accepted)
    BY <1>1, <1>2, <1>3, <1>4 DEF NodeSound
  <2> QED BY <1>1, <1>2, <1>3, <1>4, <2>1, <2>2 DEF NodeSound
<1>6. NodeKept
  BY <1>1, <1>2, <1>3, <1>4 DEF NodeKept, Settled
<1>7. CommandSound'
  BY <1>1 DEF CommandSound, ClaimSound, managerVars
<1> QED BY <1>1, <1>2, <1>5, <1>6, <1>7, NodeStep

\* The node judges a block.
LEMMA AcceptBlockStep ==
    ASSUME AccountInv, AcceptBlock
    PROVE  AccountInv'
<1>1. PICK t \in pending :
          /\ pending' = pending \ {t}
          /\ accepted' = IF t.output = cmd.tx THEN {t.output} ELSE accepted
          /\ \/ ledger' = [o \in (DOMAIN ledger \ t.inputs) \union {t.output} |->
                               IF o = t.output THEN [kind |-> t.kind, key |-> t.key]
                                               ELSE ledger[o]]
             \/ UNCHANGED ledger
  BY DEF AcceptBlock
<1>2. /\ UNCHANGED <<process, processes, managerVars, file, cmd, outputs>>
      /\ CommandTyped /\ CommandSound /\ NodeSound /\ outputs \in Nat /\ outputs <= outputs'
  BY DEF AcceptBlock, AccountInv, NodeSound
<1>3. /\ t.output \in (1 .. outputs) \ (DOMAIN ledger \union accepted)
      /\ t.kind \in Kinds /\ t.key \in Key
      /\ \A u \in pending' : u \in pending /\ u.output # t.output
  BY <1>1, <1>2 DEF NodeSound
<1>4. /\ DOMAIN ledger' \subseteq DOMAIN ledger \union {t.output}
      /\ \A o \in DOMAIN ledger' :
            \/ o = t.output /\ ledger'[o] = [kind |-> t.kind, key |-> t.key]
            \/ o # t.output /\ o \in DOMAIN ledger /\ ledger'[o] = ledger[o]
      /\ ledger' = [o \in DOMAIN ledger' |-> ledger'[o]]
  BY <1>1, <1>2, <1>3 DEF NodeSound
<1>5. NodeSound'
  <2>1. [kind |-> t.kind, key |-> t.key] \in [kind : Kinds, key : Key]
    BY <1>3
  <2>2. ledger' \in [DOMAIN ledger' -> [kind : Kinds, key : Key]]
    BY <1>2, <1>4, <2>1 DEF NodeSound
  <2>3. accepted' \subseteq accepted \union {t.output}
    BY <1>1
  <2>4. \A u \in pending' :
            u.output \in (1 .. outputs) \ (DOMAIN ledger' \union accepted')
    BY <1>2, <1>3, <1>4, <2>3 DEF NodeSound
  <2> QED BY <1>2, <1>3, <1>4, <2>2, <2>3, <2>4 DEF NodeSound
<1>6. NodeKept
  <2>1. ASSUME NEW o, Settled(o)
        PROVE  /\ Settled(o)'
               /\ o \in DOMAIN ledger' => o \in DOMAIN ledger /\ ledger'[o].key = ledger[o].key
    <3>1. o # t.output /\ o \in 1 .. outputs /\ \A u \in pending' : u.output # o
      BY <1>3, <2>1 DEF Settled
    <3> QED BY <1>2, <1>4, <3>1 DEF Settled
  <2> QED BY <2>1 DEF NodeKept
<1>7. ClaimSound'
  <2>1. SUFFICES ASSUME cmd.op = "claim", cmd.step \in {"claim", "accept"}
                 PROVE  ClaimSound'
    BY <1>2 DEF ClaimSound
  <2>2. ClaimSound /\ Delegated(cmd.alias)' = Delegated(cmd.alias)
    BY <1>2 DEF CommandSound, Delegated, managerVars
  <2>3. \A d \in Delegated(cmd.alias) :
            /\ d.OutputID # t.output
            /\ d.OutputID \notin DOMAIN ledger => d.OutputID \notin DOMAIN ledger'
    <3>1. \A d \in Delegated(cmd.alias) : Settled(d.OutputID)
      BY DEF AccountInv, ListedSignable, Signable, Delegated
    <3> QED BY <1>4, <3>1 DEF Settled
  <2>4. ASSUME cmd.step = "accept"
        PROVE  \E d \in cmd.todo :
                /\ cmd.inputs = {d}
                /\ cmd.tx \in DOMAIN ledger' => d.OutputID \notin DOMAIN ledger'
                /\ \A u \in pending' : u.output = cmd.tx => d.OutputID \in u.inputs
    <3>1. PICK d \in cmd.todo :
            /\ cmd.inputs = {d}
            /\ cmd.tx \in DOMAIN ledger => d.OutputID \notin DOMAIN ledger
            /\ \A u \in pending : u.output = cmd.tx => d.OutputID \in u.inputs
      BY <2>1, <2>2, <2>4 DEF ClaimSound
    <3>2. d \in Delegated(cmd.alias)
      BY <2>1, <2>2 DEF ClaimSound
    <3>3. ASSUME cmd.tx \in DOMAIN ledger', cmd.tx \notin DOMAIN ledger
          PROVE  d.OutputID \notin DOMAIN ledger'
      <4>1. cmd.tx = t.output /\ d.OutputID \in t.inputs
        BY <1>4, <3>1, <3>3
      <4>2. DOMAIN ledger' = (DOMAIN ledger \ t.inputs) \union {t.output}
        BY <1>1, <3>3
      <4> QED BY <2>3, <3>2, <4>1, <4>2
    <3> QED BY <1>1, <2>3, <3>1, <3>2, <3>3
  <2> QED BY <1>2, <2>1, <2>2, <2>3, <2>4 DEF ClaimSound
<1>8. CommandSound'
  <2>1. cmd.step = "accept" =>
            /\ cmd.key.seed = wallets[cmd.wallet].seed
            /\ cmd.tx \in DOMAIN ledger' => ledger'[cmd.tx].key = cmd.key
            /\ \A u \in pending' : u.output = cmd.tx => u.key = cmd.key
    BY <1>1, <1>2, <1>3, <1>4 DEF CommandSound, ClaimSound
  <2> QED BY <1>2, <1>7, <2>1 DEF CommandSound, managerVars
<1> QED BY <1>2, <1>5, <1>6, <1>8, NodeStep

-----------------------------------------------------------------------------
(* Processes start, save and stop *)

\* The memory of a process that has stopped is empty.
LEMMA StopFacts ==
    ASSUME Stop, NodeSound', processes' \in 0 .. MaxProcesses
    PROVE  /\ TypeOK' /\ MemoryTyped' /\ CommandTyped' /\ CommandSound'
           /\ ListedSignable'
<1>1. /\ process' = "stopped" /\ accounts' = EmptyMap /\ wallets' = EmptyMap
      /\ delegations' = EmptyMap /\ cmd' = NoCommand
  BY DEF Stop
<1>2. MemoryTyped'
  BY <1>1, ConstantFacts DEF MemoryTyped
<1>3. CommandTyped' /\ CommandSound'
  BY <1>1, ConstantFacts
         DEF CommandTyped, CommandSound, ClaimSound, NodeSound, NoCommand
<1>4. ListedSignable'
  BY <1>1, ConstantFacts DEF ListedSignable
<1>5. TypeOK'
  <2>1. cmd'.step = "idle" /\ cmd'.key \in Key /\ cmd'.tx \in 0 .. outputs'
    BY <1>1, ConstantFacts DEF NoCommand, NodeSound
  <2> QED BY <1>1, <2>1, ConstantFacts DEF TypeOK, NodeSound
<1> QED BY <1>2, <1>3, <1>4, <1>5

\* The process ends without saving.
LEMMA CrashStep ==
    ASSUME AccountInv, Crash
    PROVE  AccountInv'
<1>1. NodeSound' /\ NodeKept
  BY NodeFrame DEF AccountInv, Crash
<1>2. FileSound'
  BY <1>1, FileFrame DEF AccountInv, Crash
<1>3. Stop /\ processes' \in 0 .. MaxProcesses
  BY DEF Crash, AccountInv, TypeOK
<1> QED BY <1>1, <1>2, <1>3, StopFacts DEF AccountInv

\* The file takes over what the process has.
LEMMA WriteFileStep ==
    ASSUME AccountInv, WriteFile
    PROVE  AccountInv'
<1>1. NodeSound' /\ NodeKept /\ MemoryTyped
  BY NodeFrame DEF AccountInv, WriteFile
<1>2. Stop /\ processes' \in 0 .. MaxProcesses /\ UNCHANGED nodeVars
  BY DEF WriteFile, AccountInv, TypeOK
<1>3. PICK ws : ws = wallets
  OBVIOUS
<1>4. PICK ds : ds = UNION {delegations[a] : a \in DOMAIN delegations}
  OBVIOUS
<1>5. /\ file'.is = "state" /\ file' # NoFile
      /\ file'.Wallets = ws /\ file'.Delegation = ds
      /\ file'.AccountState = {accounts[a] : a \in DOMAIN accounts}
  <2>1. /\ file' = toManagerState
        /\ ws = [w \in DOMAIN wallets |-> WrittenWallet(w)]
    BY <1>1, <1>3 DEF WriteFile, WrittenWallet, MemoryTyped
  <2>2. file' = [is |-> "state", AccountState |-> {accounts[a] : a \in DOMAIN accounts},
                 Wallets |-> ws, Delegation |-> ds]
    BY <1>4, <2>1 DEF toManagerState
  <2>3. NoFile.is = "missing"
    BY DEF NoFile
  <2> QED BY <2>1, <2>2, <2>3
<1>6. \A d \in ds : d \in Delegations /\ Signable(d, ws)
  BY <1>1, <1>3, <1>4 DEF AccountInv, ListedSignable, MemoryTyped
<1>7. \A d \in ds : Signable(d, ws)'
  BY <1>2, <1>6 DEF Signable, Settled, nodeVars
<1>8. {accounts[a] : a \in DOMAIN accounts} \subseteq Accounts
  BY <1>1 DEF MemoryTyped
<1>9. FileSound'
  <2>1. \A d \in file'.Delegation : Signable(d, file.Wallets)'
    BY <1>5, <1>7 DEF Signable
  <2> QED BY <1>1, <1>3, <1>5, <1>6, <1>8, <2>1 DEF FileSound, MemoryTyped
<1> QED BY <1>1, <1>2, <1>9, StopFacts DEF AccountInv

\* The file is gone for a moment, the memory is not.
LEMMA SaveStep ==
    ASSUME AccountInv, SaveStateToFile
    PROVE  AccountInv'
<1>1. /\ process = "running" /\ process' = "saving" /\ cmd' = NoCommand
      /\ file' = Torn
      /\ UNCHANGED <<processes, accounts, wallets, delegations>>
  BY DEF SaveStateToFile, managerVars
<1>2. NodeSound' /\ NodeKept
  BY NodeFrame DEF AccountInv, SaveStateToFile
<1>3. CommandTyped' /\ CommandSound'
  BY <1>1, <1>2, ConstantFacts
         DEF CommandTyped, CommandSound, ClaimSound, NodeSound, NoCommand
<1>4. MemoryTyped' /\ WalletsKept
  BY <1>1 DEF AccountInv, MemoryTyped, WalletsKept, Wallets
<1>5. ListedSignable'
  BY <1>1, <1>2, <1>4, ListFrame
<1>6. FileSound'
  <2>1. Torn # NoFile /\ Torn.is # "state"
    BY DEF Torn, NoFile
  <2> QED BY <1>1, <2>1 DEF AccountInv, FileSound
<1>7. TypeOK'
  <2>1. cmd'.step = "idle" /\ cmd'.key \in Key /\ cmd'.tx \in 0 .. outputs'
    BY <1>1, <1>2, ConstantFacts DEF NoCommand, NodeSound
  <2>2. /\ \A a \in DOMAIN accounts' : accounts'[a].OutputID \in 0 .. MaxOutputs
        /\ DOMAIN wallets' \subseteq Alias
        /\ \A w \in DOMAIN wallets' : KeyOf(wallets', w) \in Key
        /\ \A a \in DOMAIN delegations' : delegations'[a] # {}
        /\ processes' \in 0 .. MaxProcesses
    BY <1>1 DEF AccountInv, TypeOK, KeyOf
  <2>3. \A a \in DOMAIN delegations' : \A d \in delegations'[a] :
            d.Alias = a /\ d.OutputID \in 1 .. outputs'
    BY <1>5 DEF ListedSignable, Signable, Settled
  <2> QED BY <1>1, <1>2, <2>1, <2>2, <2>3 DEF TypeOK, NodeSound
<1> QED BY <1>2, <1>3, <1>4, <1>5, <1>6, <1>7 DEF AccountInv

\* The file is deleted.
LEMMA DeleteFileStep ==
    ASSUME AccountInv, DeleteFile
    PROVE  AccountInv'
<1>1. FileSound'
  <2>1. NoFile.is # "state"
    BY DEF NoFile
  <2> QED BY <2>1 DEF DeleteFile, FileSound
<1>2. NodeSound' /\ NodeKept
  BY NodeFrame DEF AccountInv, DeleteFile
<1>3. UNCHANGED <<process, processes, accounts, wallets, delegations, cmd, pending, ledger,
                  accepted, outputs>>
  BY DEF DeleteFile, managerVars, nodeVars
<1>4. TypeOK' /\ MemoryTyped' /\ CommandTyped' /\ CommandSound' /\ ListedSignable'
  BY SMTT(30), <1>3 DEF AccountInv, TypeOK, MemoryTyped, CommandTyped, CommandSound, ClaimSound,
              Delegated, ListedSignable, Signable, Settled, KeyOf
<1> QED BY <1>1, <1>2, <1>4 DEF AccountInv

\* A process starts with what the file has.
LEMMA StartStep ==
    ASSUME AccountInv, Start
    PROVE  AccountInv'
<1>1. /\ process = "stopped" /\ process' = "running" /\ processes' = processes + 1
      /\ processes \in 0 .. MaxProcesses /\ processes < MaxProcesses
      /\ cmd = NoCommand /\ cmd' = NoCommand
      /\ UNCHANGED <<file, nodeVars>> /\ FileSound /\ NodeSound
  BY DEF Start, AccountInv, TypeOK
<1>2. NodeSound' /\ NodeKept
  BY <1>1, NodeFrame
<1>3. FileSound'
  BY <1>1, <1>2, FileFrame
<1>4. /\ GenesisAccounts \in [DOMAIN GenesisAccounts -> Accounts]
      /\ \A s \in Accounts :
            Put(GenesisAccounts, EmptyAlias, s)
                \in [DOMAIN Put(GenesisAccounts, EmptyAlias, s) -> Accounts]
  BY DEF GenesisAccounts, Accounts, Put
<1>5. /\ accounts' \in [DOMAIN accounts' -> Accounts]
      /\ wallets' \in [DOMAIN wallets' -> Wallets] /\ DOMAIN wallets' \subseteq Alias
      /\ delegations' \in [DOMAIN delegations' -> SUBSET Delegations]
      /\ ListedSignable'
      /\ \A a \in DOMAIN delegations' : delegations'[a] # {}
  <2>1. CASE /\ file.is = "state"
             /\ accounts' \in LoadedAccounts(file)
             /\ wallets' = file.Wallets
             /\ delegations' = LoadedDelegations(file)
    <3>1. PICK s \in file.AccountState : accounts' = Put(GenesisAccounts, EmptyAlias, s)
      BY <2>1 DEF LoadedAccounts
    <3>2. PICK ws : ws = file.Wallets
      OBVIOUS
    <3>3. PICK ds : ds = file.Delegation
      OBVIOUS
    <3>4. /\ s \in Accounts /\ ds \subseteq Delegations
          /\ ws \in [DOMAIN ws -> Wallets] /\ DOMAIN ws \subseteq Alias
      BY <1>1, <2>1, <3>2, <3>3 DEF FileSound
    <3>5. /\ DOMAIN delegations' = {d.Alias : d \in ds}
          /\ \A a \in DOMAIN delegations' : delegations'[a] = {d \in ds : d.Alias = a}
          /\ delegations' = [a \in DOMAIN delegations' |-> delegations'[a]]
      BY <2>1, <3>3 DEF LoadedDelegations
    <3>6. ListedSignable'
      <4>1. \A d \in ds : Signable(d, file.Wallets)'
        BY <1>1, <1>3, <2>1, <3>3 DEF FileSound
      <4>2. \A d \in ds : Signable(d, wallets)'
        BY <1>1, <2>1, <4>1 DEF Signable
      <4> QED BY <3>5, <4>2 DEF ListedSignable
    <3>7. delegations' \in [DOMAIN delegations' -> SUBSET Delegations]
      BY <3>4, <3>5
    <3>8. \A a \in DOMAIN delegations' : delegations'[a] # {}
      BY <3>5
    <3> QED BY <1>4, <2>1, <3>1, <3>2, <3>4, <3>6, <3>7, <3>8
  <2>2. CASE /\ file = NoFile
             /\ accounts' = GenesisAccounts
             /\ wallets' = EmptyMap
             /\ delegations' = EmptyMap
    <3> QED BY <1>4, <2>2, ConstantFacts DEF ListedSignable
  <2> QED BY <2>1, <2>2 DEF Start
<1>6. MemoryTyped'
  BY <1>1, <1>5 DEF MemoryTyped, FileSound
<1>7. CommandTyped' /\ CommandSound'
  BY <1>1, <1>2, ConstantFacts
         DEF CommandTyped, CommandSound, ClaimSound, NodeSound, NoCommand
<1>8. TypeOK'
  <2>1. cmd'.step = "idle" /\ cmd'.key \in Key /\ cmd'.tx \in 0 .. outputs'
    BY <1>1, <1>2, ConstantFacts DEF NoCommand, NodeSound
  <2>2. \A a \in DOMAIN accounts' : accounts'[a].OutputID \in 0 .. MaxOutputs
    BY <1>5, ConstantFacts DEF Accounts, EmptyOutputID
  <2>3. \A w \in DOMAIN wallets' : KeyOf(wallets', w) \in Key
    BY <1>5 DEF KeyOf, Key, Wallets, Seeds
  <2>4. \A a \in DOMAIN delegations' : \A d \in delegations'[a] :
            d.Alias = a /\ d.OutputID \in 1 .. outputs'
    BY <1>5 DEF ListedSignable, Signable, Settled
  <2>5. processes' \in 0 .. MaxProcesses
    BY <1>1, ConstantFacts
  <2> QED BY <1>1, <1>2, <1>5, <2>1, <2>2, <2>3, <2>4, <2>5 DEF TypeOK, NodeSound
<1> QED BY <1>2, <1>3, <1>5, <1>6, <1>7, <1>8 DEF AccountInv

-----------------------------------------------------------------------------
(* The theorems *)

\* No process has run yet.
LEMMA InitStep == Init => AccountInv
<1> SUFFICES ASSUME Init PROVE AccountInv
  OBVIOUS
<1>1. /\ process = "stopped" /\ processes = 0 /\ accounts = EmptyMap /\ wallets = EmptyMap
      /\ delegations = EmptyMap /\ file = NoFile /\ cmd = NoCommand /\ pending = {}
      /\ ledger = EmptyMap /\ accepted = {} /\ outputs = 0
  BY DEF Init
<1>2. NodeSound
  BY <1>1, ConstantFacts DEF NodeSound
<1>3. MemoryTyped
  BY <1>1, ConstantFacts DEF MemoryTyped
<1>4. CommandTyped /\ CommandSound
  BY <1>1, <1>2, NoCommandFacts
<1>5. ListedSignable
  BY <1>1, ConstantFacts DEF ListedSignable
<1>6. FileSound
  <2>1. NoFile.is # "state"
    BY DEF NoFile
  <2> QED BY <1>1, <2>1, ConstantFacts DEF FileSound
<1>7. TypeOK
  <2>1. cmd.step = "idle" /\ cmd.key \in Key /\ cmd.tx = 0
    BY <1>1, ConstantFacts DEF NoCommand
  <2> QED BY <1>1, <2>1, ConstantFacts DEF TypeOK
<1> QED BY <1>2, <1>3, <1>4, <1>5, <1>6, <1>7 DEF AccountInv

\* Every step keeps the invariant.
LEMMA NextStep == AccountInv /\ [Next]_vars => AccountInv'
<1> SUFFICES ASSUME AccountInv, [Next]_vars PROVE AccountInv'
  OBVIOUS
<1>1. CASE Start \/ DeleteFile \/ SaveStateToFile \/ WriteFile \/ Crash
  BY <1>1, StartStep, DeleteFileStep, SaveStep, WriteFileStep, CrashStep
<1>2. CASE Command
  <2>1. CASE unknownSubcommand
    BY <2>1, FailStep
  <2>2. CASE \E alias \in Alias : \E op \in CreateOps \union {"delegate"} : Begin(op, alias)
    BY <2>2, BeginStep
  <2>3. CASE \E alias \in Alias : allot(alias) \/ claim(alias) \/ destroyAccount(alias)
    BY <2>3, AllotStep, ClaimStep, DestroyStep
  <2> QED BY <1>2, <2>1, <2>2, <2>3 DEF Command
<1>3. CASE Proceed
  <2>1. CASE RequestFaucetFunds \/ FundsArrive \/ AwaitFails \/ BuildFails
    BY <2>1, RequestStep, FundsStep, FailStep, BuildFailsStep
  <2>2. CASE \/ createAccountWithFaucet \/ transitionImplicitAccount
             \/ createDelegationTransaction \/ createAllotTransaction
    BY <2>2, CreateStep
  <2>3. CASE CreateAccepted \/ registerDelegationOutput
    BY <2>3, CreateAcceptedStep, RegisterDelegationStep
  <2>4. CASE SkipDelegation \/ ClaimDelegation \/ ClaimAccepted \/ removeDelegations
    BY <2>4, SkipStep, ClaimDelegationStep, ClaimAcceptedStep, RemoveStep
  <2> QED BY <1>3, <2>1, <2>2, <2>3, <2>4 DEF Proceed
<1>4. CASE FaucetPays \/ AcceptBlock
  BY <1>4, FaucetPaysStep, AcceptBlockStep
<1>5. CASE UNCHANGED vars
  <2>1. /\ UNCHANGED <<process, processes, accounts, wallets, delegations, file, cmd>>
        /\ UNCHANGED nodeVars
    BY <1>5 DEF vars, managerVars
  <2>2. NodeSound' /\ NodeKept /\ CommandSound'
    BY <2>1, NodeFrame DEF AccountInv, CommandSound, ClaimSound, Delegated, nodeVars
  <2> QED BY <2>1, <2>2, NodeStep DEF AccountInv, NodeSound, nodeVars, managerVars
<1> QED BY <1>1, <1>2, <1>3, <1>4, <1>5 DEF Next, Node

\* The invariant holds for ever.
THEOREM AccountsStaySound == Spec => []AccountInv
<1>1. AccountInv /\ [Next]_vars => AccountInv'
  BY NextStep
<1> QED BY InitStep, <1>1, PTL DEF Spec

\* Memory, state file, command and node have their types.
THEOREM AccountsTyped == Spec => []TypeOK
<1>1. AccountInv => TypeOK
  BY DEF AccountInv
<1> QED BY AccountsStaySound, <1>1, PTL

\* More indices of the same seeds are more keys.
LEMMA KeysGrow ==
    ASSUME NEW ws, NEW vs,
           \A w \in DOMAIN ws :
            /\ w \in DOMAIN vs /\ vs[w].seed = ws[w].seed
            /\ ws[w].LatestUsedIndex \in Nat /\ vs[w].LatestUsedIndex \in Nat
            /\ ws[w].LatestUsedIndex <= vs[w].LatestUsedIndex
    PROVE  KeysOf(ws) \subseteq KeysOf(vs)
<1>1. ASSUME NEW w \in DOMAIN ws, NEW i \in 1 .. ws[w].LatestUsedIndex
      PROVE  /\ w \in DOMAIN vs /\ i \in 1 .. vs[w].LatestUsedIndex
             /\ [seed |-> ws[w].seed, index |-> i] = [seed |-> vs[w].seed, index |-> i]
  OBVIOUS
<1> QED BY <1>1 DEF KeysOf

\* A command takes no address back.
LEMMA WalletsGrow ==
    ASSUME AccountInv, Command \/ Proceed \/ Node
    PROVE  WalletsKept
<1>1. MemoryTyped /\ CommandSound
  BY DEF AccountInv
<1>2. CASE UNCHANGED wallets
  BY <1>1, <1>2 DEF WalletsKept, MemoryTyped, Wallets
<1>3. CASE \E alias \in Alias :
              /\ wallets' = getOrCreateWallet(wallets, alias)
              /\ UNCHANGED <<process, processes, accounts, delegations>>
  BY <1>3, WalletMade
<1>4. CASE /\ cmd.step \in {"request", "build", "claim"} /\ TakesAddress
           /\ UNCHANGED <<accounts, delegations>>
  <2>1. cmd.wallet \in DOMAIN wallets
    BY <1>1, <1>4 DEF CommandSound
  <2> QED BY <1>4, <2>1, AddressTaken
<1>5. CASE Command
  BY <1>2, <1>3, <1>5 DEF Command, unknownSubcommand, Begin, allot, claim, destroyAccount,
                          managerVars
<1>6. CASE Proceed
  <2>1. CASE \/ createAccountWithFaucet \/ transitionImplicitAccount
             \/ createDelegationTransaction \/ createAllotTransaction \/ ClaimDelegation
    BY <1>4, <2>1 DEF createAccountWithFaucet, transitionImplicitAccount, ClaimDelegation,
           createDelegationTransaction, createAllotTransaction, At, Post, TakesAddress
  <2>2. CASE RequestFaucetFunds \/ BuildFails
    BY <1>2, <1>4, <2>2 DEF RequestFaucetFunds, BuildFails, At, TakesAddress
  <2>3. CASE \/ FundsArrive \/ AwaitFails \/ CreateAccepted \/ registerDelegationOutput
             \/ SkipDelegation \/ ClaimAccepted \/ removeDelegations
    BY <1>2, <2>3 DEF FundsArrive, AwaitFails, CreateAccepted, registerDelegationOutput,
           SkipDelegation, ClaimAccepted, removeDelegations, managerVars
  <2> QED BY <1>6, <2>1, <2>2, <2>3 DEF Proceed
<1>7. CASE Node
  BY <1>2, <1>7 DEF Node, FaucetPays, AcceptBlock, managerVars
<1> QED BY <1>5, <1>6, <1>7

\* No command, and nothing the node does, starts or ends a process or touches
\* the file.
LEMMA ProcessStays ==
    ASSUME Command \/ Proceed \/ Node
    PROVE  UNCHANGED <<process, file>>
<1>1. CASE Command
  BY <1>1 DEF Command, unknownSubcommand, Begin, allot, claim, destroyAccount
<1>2. CASE Proceed
  BY <1>2 DEF Proceed, RequestFaucetFunds, FundsArrive, AwaitFails, createAccountWithFaucet,
         transitionImplicitAccount, createDelegationTransaction, createAllotTransaction, Post,
         BuildFails, CreateAccepted, registerDelegationOutput, SkipDelegation,
         ClaimDelegation, ClaimAccepted, removeDelegations
<1>3. CASE Node
  BY <1>3 DEF Node, FaucetPays, AcceptBlock
<1> QED BY <1>1, <1>2, <1>3

\* What a process starts with is in the file, what it saves is in its memory.
LEMMA KnownOverFile ==
    ASSUME AccountInv, Start \/ DeleteFile \/ SaveStateToFile \/ WriteFile
    PROVE  KnownKeys' = KnownKeys /\ KnownDelegations' = KnownDelegations
<1>1. NoFile.is # "state" /\ Torn.is # "state" /\ DOMAIN EmptyMap = {}
  BY ConstantFacts DEF NoFile, Torn
<1>2. CASE Start
  <2>1. process = "stopped" /\ process' = "running"
    BY <1>2 DEF Start
  <2>2. CASE file.is = "state" /\ wallets' = file.Wallets
             /\ delegations' = LoadedDelegations(file)
    <3>1. PICK ds : ds = file.Delegation
      OBVIOUS
    <3>2. /\ DOMAIN delegations' = {d.Alias : d \in ds}
          /\ \A a \in DOMAIN delegations' : delegations'[a] = {d \in ds : d.Alias = a}
      BY <2>2, <3>1 DEF LoadedDelegations
    <3>3. UNION {delegations'[a] : a \in DOMAIN delegations'} = ds
      BY <3>2
    <3> QED BY <2>1, <2>2, <3>1, <3>3 DEF KnownKeys, KnownDelegations, SavedWallets,
                                           SavedDelegations
  <2>3. CASE file = NoFile /\ wallets' = EmptyMap /\ delegations' = EmptyMap
    <3>1. UNION {delegations'[a] : a \in DOMAIN delegations'} = {}
      BY <1>1, <2>3
    <3> QED BY <1>1, <2>1, <2>3, <3>1 DEF KnownKeys, KnownDelegations, SavedWallets,
                                           SavedDelegations
  <2> QED BY <1>2, <2>2, <2>3 DEF Start
<1>3. CASE DeleteFile
  <2>1. process = "stopped" /\ process' = "stopped" /\ file = Torn /\ file' = NoFile
    BY <1>3 DEF DeleteFile
  <2> QED BY <1>1, <2>1 DEF KnownKeys, KnownDelegations, SavedWallets, SavedDelegations
<1>4. CASE SaveStateToFile
  <2>1. /\ process = "running" /\ process' = "saving"
        /\ UNCHANGED <<wallets, delegations>>
    BY <1>4 DEF SaveStateToFile, managerVars
  <2> QED BY <2>1 DEF KnownKeys, KnownDelegations
<1>5. CASE WriteFile
  <2>1. /\ process = "saving" /\ process' = "stopped" /\ file' = toManagerState
        /\ wallets = [w \in DOMAIN wallets |-> wallets[w]]
    BY <1>5 DEF WriteFile, Stop, AccountInv, MemoryTyped
  <2>2. /\ file'.is = "state" /\ file'.Wallets = wallets
        /\ file'.Delegation = UNION {delegations[a] : a \in DOMAIN delegations}
    BY <2>1 DEF toManagerState, WrittenWallet
  <2> QED BY <2>1, <2>2 DEF KnownKeys, KnownDelegations, SavedWallets, SavedDelegations
<1> QED BY <1>2, <1>3, <1>4, <1>5

\* An address that was handed out is known to the processes from then on,
\* unless one of them ends without writing the file: getAddress,
\* toManagerState, fromManagerState and failing commands lose no index.
THEOREM KeysAreLostUnsaved == Spec => KeysLostUnsaved
<1>1. ASSUME AccountInv, [Next]_vars
      PROVE  KnownKeys \subseteq KnownKeys' \/ EndsUnwritten
  <2>1. CASE Start \/ DeleteFile \/ SaveStateToFile \/ WriteFile
    BY <1>1, <2>1, KnownOverFile
  <2>2. CASE Crash
    BY <2>2 DEF Crash, Stop, EndsUnwritten
  <2>3. CASE Command \/ Proceed \/ Node
    <3>1. WalletsKept /\ UNCHANGED <<process, file>>
      BY <1>1, <2>3, WalletsGrow, ProcessStays
    <3>2. MemoryTyped /\ MemoryTyped'
      BY <1>1, NextStep DEF AccountInv
    <3>3. KeysOf(wallets) \subseteq KeysOf(wallets')
      BY <3>1, <3>2, KeysGrow DEF WalletsKept, MemoryTyped, Wallets
    <3> QED BY <3>1, <3>3 DEF KnownKeys, SavedWallets
  <2>4. CASE UNCHANGED vars
    BY <2>4 DEF vars, managerVars, KnownKeys, SavedWallets
  <2> QED BY <1>1, <2>1, <2>2, <2>3, <2>4 DEF Next
<1>2. AccountInv /\ [Next]_vars => [KnownKeys \subseteq KnownKeys' \/ EndsUnwritten]_vars
  BY <1>1
<1> QED BY AccountsStaySound, <1>2, PTL DEF Spec, KeysLostUnsaved

\* A delegation that is no longer listed is lost by a process that ended
\* without writing the file, or a claim with its alias has ended, and then its
\* output is spent or the claim has passed over it.
THEOREM DelegationsAreClaimed == Spec => DelegationsLeaveByClaim
<1> DEFINE Left(d) ==
        /\ At("claim") /\ cmd.alias = d.Alias /\ cmd' = NoCommand
        /\ d.OutputID \notin DOMAIN ledger \/ d \in cmd.passed
<1>1. ASSUME AccountInv, [Next]_vars, NEW d \in KnownDelegations \ KnownDelegations'
      PROVE  EndsUnwritten \/ Left(d)
  <2>1. CASE Start \/ DeleteFile \/ SaveStateToFile \/ WriteFile
    BY <1>1, <2>1, KnownOverFile
  <2>2. CASE Crash
    BY <2>2 DEF Crash, Stop, EndsUnwritten
  <2>3. CASE UNCHANGED <<process, file, delegations>>
    BY <1>1, <2>3 DEF KnownDelegations, SavedDelegations
  <2>4. CASE registerDelegationOutput
    <3>1. process = "running" /\ process' = "running"
      BY <2>4 DEF registerDelegationOutput, At
    <3>2. \A a \in DOMAIN delegations :
            a \in DOMAIN delegations' /\ delegations[a] \subseteq delegations'[a]
      BY <2>4 DEF registerDelegationOutput, Put, Delegated
    <3>3. KnownDelegations \subseteq KnownDelegations'
      BY <3>1, <3>2 DEF KnownDelegations
    <3> QED BY <1>1, <3>3
  <2>5. CASE removeDelegations
    <3>1. /\ At("claim") /\ cmd.todo = {} /\ cmd' = NoCommand
          /\ process = "running" /\ process' = "running"
          /\ delegations' = [a \in DOMAIN delegations \ {cmd.alias} |-> delegations[a]]
      BY <2>5 DEF removeDelegations, At, Claimed, Done, Others
    <3>2. PICK a \in DOMAIN delegations : d \in delegations[a]
      BY <1>1, <3>1 DEF KnownDelegations
    <3>3. a = cmd.alias
      BY <1>1, <3>1, <3>2 DEF KnownDelegations
    <3>4. d.Alias = a /\ ClaimSound /\ cmd.op = "claim"
      BY <1>1, <3>1, <3>2 DEF AccountInv, ListedSignable, CommandSound, At
    <3> QED BY <3>1, <3>2, <3>3, <3>4 DEF ClaimSound, Delegated, At
  <2>6. CASE Command \/ Proceed \/ Node
    <3>1. UNCHANGED <<process, file>>
      BY <2>6, ProcessStays
    <3>2. UNCHANGED delegations \/ registerDelegationOutput \/ removeDelegations
      <4>1. CASE Command
        BY <4>1 DEF Command, unknownSubcommand, Begin, allot, claim, destroyAccount,
               managerVars
      <4>2. CASE Proceed
        BY <4>2 DEF Proceed, RequestFaucetFunds, FundsArrive, AwaitFails,
               createAccountWithFaucet, transitionImplicitAccount,
               createDelegationTransaction, createAllotTransaction, Post, BuildFails,
               CreateAccepted, SkipDelegation, ClaimDelegation, ClaimAccepted, managerVars
      <4>3. CASE Node
        BY <4>3 DEF Node, FaucetPays, AcceptBlock, managerVars
      <4> QED BY <2>6, <4>1, <4>2, <4>3
    <3> QED BY <2>3, <2>4, <2>5, <3>1, <3>2
  <2>7. CASE UNCHANGED vars
    BY <2>3, <2>7 DEF vars, managerVars
  <2> QED BY <1>1, <2>1, <2>2, <2>6, <2>7 DEF Next
<1>2. AccountInv /\ [Next]_vars =>
        [\A d \in KnownDelegations \ KnownDelegations' :
            \/ EndsUnwritten
            \/ /\ At("claim") /\ cmd.alias = d.Alias /\ cmd' = NoCommand
               /\ d.OutputID \notin DOMAIN ledger \/ d \in cmd.passed]_vars
  BY <1>1
<1> QED BY AccountsStaySound, <1>2, PTL DEF Spec, DelegationsLeaveByClaim

\* The claim of a listed delegation is signed with the key of its address,
\* unless the delegation was made without an alias.
THEOREM ClaimsHaveTheKey == Spec => []DelegationsSignable
<1>1. ASSUME AccountInv, NEW a \in DOMAIN delegations \ {GenesisAccountAlias},
             NEW d \in delegations[a], d.OutputID \in DOMAIN ledger
      PROVE  /\ a \in DOMAIN wallets
             /\ ledger[d.OutputID].key = [seed |-> wallets[a].seed, index |-> d.AddressIndex]
  <2>1. d.Alias = a /\ Signable(d, wallets)
    BY <1>1 DEF AccountInv, ListedSignable
  <2> QED BY <1>1, <2>1 DEF Signable
<1>2. AccountInv => DelegationsSignable
  BY <1>1 DEF DelegationsSignable
<1> QED BY AccountsStaySound, <1>2, PTL

=============================================================================
