--------------------------- MODULE AccountManager ---------------------------
(***************************************************************************)
(* The account commands (pkg/walletmanager, components/accounts).          *)
(*                                                                         *)
(* A process loads its wallets, accounts and delegations from a file, runs *)
(* a chain of commands one after the other, and saves when it ends.  The   *)
(* commands post transactions to a node and wait for it with timeouts: the *)
(* answer may come late, a block may be accepted without its transaction,  *)
(* the process may stop at any step.                                       *)
(*                                                                         *)
(* External, modelled from how the code uses them: the faucet, which pays  *)
(* an address some time or never; the node, which accepts or drops blocks. *)
(* Amounts, mana and slots are left out.                                   *)
(***************************************************************************)
EXTENDS Integers, FiniteSets

CONSTANTS Alias,                \* the aliases that are used in commands
          Commands,             \* the commands that are used
          GenesisAccountAlias, FaucetRequestsAlias,
          EmptyAlias,           \* "", what a parameter is when not given
          MaxInputs,            \* bound: faucet requests of one command
          MaxOutputs,           \* bound: outputs that are ever created
          MaxProcesses          \* bound: processes started

ASSUME AccountAssumption ==
    /\ MaxInputs \in Nat \ {0}
    /\ MaxOutputs \in Nat /\ MaxProcesses \in Nat
    /\ GenesisAccountAlias # FaucetRequestsAlias
    /\ EmptyAlias \notin {GenesisAccountAlias, FaucetRequestsAlias}

VARIABLES
    process,     \* "stopped", "running" or "saving"
    processes,   \* processes started so far
    accounts,    \* Manager.accounts: alias -> [AccountID, OutputID]
    wallets,     \* Manager.wallets: alias -> [seed, LatestUsedIndex]
    delegations, \* Manager.delegations: alias -> set of delegations
    file,        \* the state file
    cmd,         \* the command under way
    pending,     \* external: transactions in blocks the node has not judged
    ledger,      \* external: unspent outputs -> [kind, key]
    accepted,    \* external: the awaited transaction, once its block is accepted
    outputs      \* external: outputs created or reserved so far

managerVars == <<accounts, wallets, delegations>>
nodeVars == <<pending, ledger, accepted, outputs>>
vars == <<process, processes, managerVars, file, cmd, nodeVars>>

EmptyMap == [x \in {} |-> x]
Put(map, key, value) ==
    [x \in DOMAIN map \union {key} |-> IF x = key THEN value ELSE map[x]]

\* An address is the key of an index of a seed; index 0 is never used.
NoKey == [seed |-> <<EmptyAlias, 0>>, index |-> 0]

\* A claim goes through the delegations in todo; passed is history: those it
\* went past without claiming them.
NoCommand == [op |-> "none", step |-> "idle", alias |-> EmptyAlias, wallet |-> EmptyAlias,
              inputs |-> {}, key |-> NoKey, tx |-> 0, todo |-> {}, passed |-> {}]

\* What the state file may hold besides a state.
NoFile == [is |-> "missing"]
Torn == [is |-> "torn"]

EmptyOutputID == 0

\* setupGenesisAccount
GenesisAccounts ==
    [a \in {GenesisAccountAlias, FaucetRequestsAlias} |->
        [AccountID |-> a, OutputID |-> EmptyOutputID]]

Init ==
    /\ process = "stopped"
    /\ processes = 0
    /\ accounts = EmptyMap
    /\ wallets = EmptyMap
    /\ delegations = EmptyMap
    /\ file = NoFile
    /\ cmd = NoCommand
    /\ pending = {}
    /\ ledger = EmptyMap
    /\ accepted = {}
    /\ outputs = 0

-----------------------------------------------------------------------------
(* Loading and saving *)

\* toManagerState flattens the maps into lists.  The alias of an account is
\* not written, those of wallets and delegations are.
MutWrittenWallet(w) == [wallets[w] EXCEPT !.LatestUsedIndex = 0]
WrittenWallet(w) == wallets[w]

toManagerState ==
    [is |-> "state",
     AccountState |-> {accounts[a] : a \in DOMAIN accounts},
     Wallets |-> [w \in DOMAIN wallets |-> WrittenWallet(w)],
     Delegation |-> UNION {delegations[a] : a \in DOMAIN delegations}]

\* fromManagerState: every account is stored under the empty alias it has in
\* the file, the last one stays.
LoadedAccounts(state) ==
    {Put(GenesisAccounts, EmptyAlias, s) : s \in state.AccountState}

\* The delegations are grouped by their alias again.
MutLoadedDelegations(state) ==
    [a \in {d.Alias : d \in state.Delegation} |->
        {CHOOSE d \in state.Delegation : d.Alias = a}]
LoadedDelegations(state) ==
    [a \in {d.Alias : d \in state.Delegation} |->
        {d \in state.Delegation : d.Alias = a}]

\* RunManager with a file it can decode, and without a file; it does not start
\* with a file it cannot decode, nor when the node or the faucet fails.
Start ==
    /\ process = "stopped"
    /\ processes < MaxProcesses
    /\ processes' = processes + 1
    /\ process' = "running"
    /\ \/ /\ file.is = "state"
          /\ accounts' \in LoadedAccounts(file)
          /\ wallets' = file.Wallets
          /\ delegations' = LoadedDelegations(file)
       \/ /\ file = NoFile
          /\ accounts' = GenesisAccounts
          /\ wallets' = EmptyMap
          /\ delegations' = EmptyMap
    /\ UNCHANGED <<file, cmd, nodeVars>>

\* "failed to load wallet from file, please delete the file and try again"
DeleteFile ==
    /\ process = "stopped"
    /\ file = Torn
    /\ file' = NoFile
    /\ UNCHANGED <<process, processes, managerVars, cmd, nodeVars>>

\* The memory of the process is gone.
Stop ==
    /\ process' = "stopped"
    /\ accounts' = EmptyMap
    /\ wallets' = EmptyMap
    /\ delegations' = EmptyMap
    /\ cmd' = NoCommand

\* SaveStateToFile is deferred: it runs after the last command and when a
\* command panics; a failed command is logged as fatal, which may end the
\* program at once.  The file is truncated before it is written.
SaveStateToFile ==
    /\ process = "running"
    /\ cmd.step \in {"idle", "failed", "panicked"}
    /\ process' = "saving"
    /\ file' = Torn
    /\ cmd' = NoCommand
    /\ UNCHANGED <<processes, managerVars, nodeVars>>

WriteFile ==
    /\ process = "saving"
    /\ file' = toManagerState
    /\ Stop
    /\ UNCHANGED <<processes, nodeVars>>

\* The process is killed at any step, or LogFatal ends it, or the state does
\* not encode (the lists are written with a length of one byte) and the file
\* is left as it was.
Crash ==
    /\ process # "stopped"
    /\ Stop
    /\ UNCHANGED <<processes, file, nodeVars>>

-----------------------------------------------------------------------------
(* Wallets and addresses *)

\* The seed of a new wallet is random.
getOrCreateWallet(ws, alias) ==
    IF alias \in DOMAIN ws THEN ws
    ELSE Put(ws, alias, [seed |-> <<alias, processes>>, LatestUsedIndex |-> 0])

getAddress(ws, alias) == [ws EXCEPT ![alias].LatestUsedIndex = @ + 1]

KeyOf(ws, alias) == [seed |-> ws[alias].seed, index |-> ws[alias].LatestUsedIndex]

At(step) == process = "running" /\ cmd.step = step
Goto(step) == cmd' = [cmd EXCEPT !.step = step]
Done == cmd' = NoCommand

-----------------------------------------------------------------------------
(* The commands begin *)

\* What the flags of create come to: an implicit account cannot do without the
\* block issuer feature, such a command is skipped; transition is for implicit
\* accounts only.
CreateFlags == [Implicit : BOOLEAN, Transition : BOOLEAN, NoBIF : BOOLEAN]

CreateOp(flags) == IF ~flags.Implicit THEN "create"
                   ELSE IF flags.Transition THEN "createTransition"
                   ELSE "createImplicit"

CreateOps == {CreateOp(flags) : flags \in {f \in CreateFlags : ~(f.Implicit /\ f.NoBIF)}}

\* CreateAccount and delegateToAccount make the wallet if there is none.
\* A delegation without alias is then counted to the genesis account, and
\* its wallet stays the one of the empty alias; its address may not parse.
CountedTo(op, alias) ==
    IF op = "delegate" /\ alias = EmptyAlias THEN GenesisAccountAlias ELSE alias

Begin(op, alias) ==
    /\ At("idle")
    /\ op \in CreateOps \union {"delegate"}
    /\ wallets' = getOrCreateWallet(wallets, alias)
    /\ \E step \in {"request"} \union (IF op = "delegate" THEN {"failed"} ELSE {}) :
        cmd' = [NoCommand EXCEPT !.op = op, !.step = step,
                                 !.alias = CountedTo(op, alias), !.wallet = alias]
    /\ UNCHANGED <<process, processes, accounts, delegations, file, nodeVars>>

\* convert, stake and update are read from the command line, but there is no
\* handler for them.
unknownSubcommand ==
    /\ At("idle")
    /\ Goto("failed")
    /\ UNCHANGED <<process, processes, managerVars, file, nodeVars>>

\* allot needs a wallet and an account.  The number of faucet requests is a
\* quotient of integers, which may be zero.
allot(alias) ==
    /\ At("idle")
    /\ \/ /\ alias \in DOMAIN wallets /\ alias \in DOMAIN accounts
          /\ \E step \in {"request", "build"} :
                cmd' = [NoCommand EXCEPT !.op = "allot", !.step = step,
                                         !.alias = alias, !.wallet = alias]
       \/ /\ alias \notin DOMAIN wallets \/ alias \notin DOMAIN accounts
          /\ Goto("failed")
    /\ UNCHANGED <<process, processes, managerVars, file, nodeVars>>

claim(alias) ==
    /\ At("idle")
    /\ IF alias \in DOMAIN delegations /\ alias \in DOMAIN wallets
       THEN cmd' = [NoCommand EXCEPT !.op = "claim", !.step = "claim", !.alias = alias,
                                     !.wallet = alias, !.todo = delegations[alias]]
       ELSE Goto("failed")
    /\ UNCHANGED <<process, processes, managerVars, file, nodeVars>>

\* destroyAccount makes a wallet before it looks for the account.  The only
\* accounts there are have no output (see registerAccount), GetOutput gives
\* nil for them, and nil.Type() panics: the handler never gets any further.
destroyAccount(alias) ==
    /\ At("idle")
    /\ wallets' = getOrCreateWallet(wallets, alias)
    /\ \/ alias \notin DOMAIN accounts /\ Goto("failed")
       \/ /\ alias \in DOMAIN accounts
          /\ accounts[alias].OutputID \notin DOMAIN ledger
          /\ Goto("panicked")
    /\ UNCHANGED <<process, processes, accounts, delegations, file, nodeVars>>

-----------------------------------------------------------------------------
(* Faucet funds *)

\* getFaucetFundsOutput takes the next address and asks the faucet, which may
\* refuse.
RequestFaucetFunds ==
    /\ At("request")
    /\ wallets' = getAddress(wallets, cmd.wallet)
    /\ \/ cmd' = [cmd EXCEPT !.step = "funds", !.key = KeyOf(wallets', cmd.wallet)]
       \/ Goto("failed")
    /\ UNCHANGED <<process, processes, accounts, delegations, file, nodeVars>>

\* An account that is created implicitly is registered when it is there; the
\* others go on to build a transaction, or ask for more.
AfterFunds(inputs) ==
    CASE cmd.op = "createImplicit" -> {"idle"}
      [] cmd.op \in {"create", "createTransition"} -> {"build"}
      [] OTHER -> IF Cardinality(inputs) < MaxInputs THEN {"request", "build"} ELSE {"build"}

\* registerAccount makes the record of the account, and then overwrites the
\* variable that holds it with what the map has for the alias: it stores back
\* what was there, or nothing.
registerAccount(alias, account) ==
    accounts' = IF alias \in DOMAIN accounts
                THEN [accounts EXCEPT ![alias] = accounts[alias]]
                ELSE accounts

\* AwaitAddressUnspentOutputToBeAccepted sees a basic output at the address,
\* and checkOutputStatus finds an implicit account; else the wait fails.
FundsArrive ==
    /\ At("funds")
    /\ \E o \in DOMAIN ledger :
        /\ ledger[o] = [kind |-> "basic", key |-> cmd.key]
        /\ \E step \in AfterFunds(cmd.inputs \union {o}) :
            cmd' = IF step = "idle" THEN NoCommand
                   ELSE [cmd EXCEPT !.step = step, !.inputs = @ \union {o}]
        /\ IF cmd.op \in {"createImplicit", "createTransition"}
           THEN registerAccount(cmd.alias, [AccountID |-> o, OutputID |-> o])
           ELSE UNCHANGED accounts
    /\ UNCHANGED <<process, processes, wallets, delegations, file, nodeVars>>

\* A wait ends with an error at the latest after MaxAcceptanceAwait; also a
\* wait for a block that the node will still accept.
MutWaits == {"funds"}
Waits == {"funds", "accept"}

AwaitFails ==
    /\ process = "running"
    /\ cmd.step \in Waits
    /\ Goto("failed")
    /\ UNCHANGED <<process, processes, managerVars, file, nodeVars>>

-----------------------------------------------------------------------------
(* Transactions *)

\* Building takes an address for the new output.  PostWithBlock may fail and
\* the block may have arrived all the same.
Post(inputs, kind, signed, step) ==
    /\ outputs < MaxOutputs
    /\ wallets' = getAddress(wallets, cmd.wallet)
    /\ outputs' = outputs + 1
    /\ LET key == KeyOf(wallets', cmd.wallet)
       IN  /\ pending' = pending \union {[inputs |-> inputs, output |-> outputs',
                                          kind |-> kind, key |-> key, signed |-> signed]}
           /\ \/ cmd' = [step EXCEPT !.tx = outputs', !.key = key]
              \/ Goto("failed")
    /\ UNCHANGED <<process, processes, accounts, delegations, file, ledger, accepted>>

Awaiting == [cmd EXCEPT !.step = "accept"]

\* The faucet outputs carry their keys, so what spends them is signed.
createAccountWithFaucet ==
    /\ At("build") /\ cmd.op = "create"
    /\ Post(cmd.inputs, "account", TRUE, Awaiting)

transitionImplicitAccount ==
    /\ At("build") /\ cmd.op = "createTransition"
    /\ Post(cmd.inputs, "account", TRUE, Awaiting)

createDelegationTransaction ==
    /\ At("build") /\ cmd.op = "delegate"
    /\ Post(cmd.inputs, "delegation", TRUE, Awaiting)

\* allot does not wait for the node.
createAllotTransaction ==
    /\ At("build") /\ cmd.op = "allot"
    /\ Post(cmd.inputs, "basic", TRUE, NoCommand)

\* The node gives no issuance data, or the transaction cannot be built: an
\* address may be lost on it.
BuildFails ==
    /\ process = "running" /\ cmd.step \in {"build", "claim"}
    /\ cmd.step = "claim" => cmd.todo # {}
    /\ wallets' \in {wallets, getAddress(wallets, cmd.wallet)}
    /\ Goto("failed")
    /\ UNCHANGED <<process, processes, accounts, delegations, file, nodeVars>>

\* The new account is looked up at the node before it is registered.
CreateAccepted ==
    /\ At("accept") /\ cmd.op \in {"create", "createTransition"}
    /\ cmd.tx \in accepted
    /\ \/ /\ cmd.tx \in DOMAIN ledger
          /\ registerAccount(cmd.alias, [AccountID |-> cmd.tx, OutputID |-> cmd.tx])
          /\ Done
       \/ /\ cmd.tx \notin DOMAIN ledger
          /\ UNCHANGED accounts
          /\ Goto("failed")
    /\ UNCHANGED <<process, processes, wallets, delegations, file, nodeVars>>

\* registerDelegationOutput, for the address the delegation was made with.
\* The command may still fail on the pool stake it was asked to check.
MutDelegation == [Alias |-> cmd.alias, OutputID |-> cmd.tx,
                  AddressIndex |-> cmd.key.index - 1]
Delegation == [Alias |-> cmd.alias, OutputID |-> cmd.tx, AddressIndex |-> cmd.key.index]

Delegated(alias) == IF alias \in DOMAIN delegations THEN delegations[alias] ELSE {}

registerDelegationOutput ==
    /\ At("accept") /\ cmd.op = "delegate"
    /\ cmd.tx \in accepted
    /\ IF cmd.alias \in DOMAIN wallets
       THEN /\ delegations' = Put(delegations, cmd.alias,
                                  Delegated(cmd.alias) \union {Delegation})
            /\ Done \/ Goto("failed")
       ELSE /\ Goto("panicked")
            /\ UNCHANGED delegations
    /\ UNCHANGED <<process, processes, accounts, wallets, file, nodeVars>>

-----------------------------------------------------------------------------
(* Claiming *)

\* GetRewards fails, or GetOutput does: the loop goes on.
SkipDelegation ==
    /\ At("claim")
    /\ \E d \in cmd.todo :
        cmd' = [cmd EXCEPT !.todo = @ \ {d}, !.passed = @ \union {d}]
    /\ UNCHANGED <<process, processes, managerVars, file, nodeVars>>

\* The input is signed with the key of the delegation's index in the wallet
\* of the alias.
SignsFor(d) ==
    ledger[d.OutputID].key = [seed |-> wallets[cmd.alias].seed, index |-> d.AddressIndex]

ClaimDelegation ==
    /\ At("claim")
    /\ \E d \in cmd.todo :
        /\ d.OutputID \in DOMAIN ledger
        /\ Post({d.OutputID}, "basic", SignsFor(d),
                [cmd EXCEPT !.step = "accept", !.inputs = {d}])

ClaimAccepted ==
    /\ At("accept") /\ cmd.op = "claim"
    /\ cmd.tx \in accepted
    /\ \/ /\ cmd.tx \in DOMAIN ledger
          /\ cmd' = [cmd EXCEPT !.step = "claim", !.todo = @ \ cmd.inputs, !.inputs = {}]
       \/ /\ cmd.tx \notin DOMAIN ledger
          /\ Goto("failed")
    /\ UNCHANGED <<process, processes, managerVars, file, nodeVars>>

\* The delegations of the alias go when the loop is over, and only then: also
\* those that it passed over.
MutClaimed == TRUE
Claimed == cmd.todo = {}

MutOthers(alias) == [delegations EXCEPT ![alias] = {}]
Others(alias) == [a \in DOMAIN delegations \ {alias} |-> delegations[a]]

removeDelegations ==
    /\ At("claim")
    /\ Claimed
    /\ delegations' = Others(cmd.alias)
    /\ Done
    /\ UNCHANGED <<process, processes, accounts, wallets, file, nodeVars>>

-----------------------------------------------------------------------------
(* The faucet and the node *)

\* Funds that come when nothing waits for them any more change nothing that the
\* program reads, and are left out.
FaucetPays ==
    /\ At("funds")
    /\ outputs < MaxOutputs
    /\ \A o \in DOMAIN ledger : ledger[o].key # cmd.key
    /\ outputs' = outputs + 1
    /\ ledger' = Put(ledger, outputs', [kind |-> "basic", key |-> cmd.key])
    /\ UNCHANGED <<process, processes, managerVars, file, cmd, pending, accepted>>

\* A block is accepted; its transaction takes effect if it is valid, and may
\* fail for reasons of the node.  A block that is dropped stays pending.  One
\* that nothing waits for any more matters if it claims a delegation.
Claims(t) == \E o \in t.inputs \intersect DOMAIN ledger : ledger[o].kind = "delegation"

AcceptBlock ==
    /\ \E t \in pending :
        /\ t.output = cmd.tx \/ Claims(t)
        /\ pending' = pending \ {t}
        /\ accepted' = IF t.output = cmd.tx THEN {t.output} ELSE accepted
        /\ \/ /\ t.signed /\ t.inputs # {} /\ t.inputs \subseteq DOMAIN ledger
              /\ ledger' = [o \in (DOMAIN ledger \ t.inputs) \union {t.output} |->
                                IF o = t.output THEN [kind |-> t.kind, key |-> t.key]
                                                ELSE ledger[o]]
           \/ UNCHANGED ledger
    /\ UNCHANGED <<process, processes, managerVars, file, cmd, outputs>>

Node == FaucetPays \/ AcceptBlock

\* What a process does once a command has begun.
Proceed ==
    \/ RequestFaucetFunds \/ FundsArrive \/ AwaitFails
    \/ createAccountWithFaucet \/ transitionImplicitAccount
    \/ createDelegationTransaction \/ createAllotTransaction \/ BuildFails
    \/ CreateAccepted \/ registerDelegationOutput
    \/ SkipDelegation \/ ClaimDelegation \/ ClaimAccepted \/ removeDelegations

Command ==
    \/ Commands \intersect {"convert", "stake", "update"} # {} /\ unknownSubcommand
    \/ \E alias \in Alias :
        \/ \E op \in Commands \intersect (CreateOps \union {"delegate"}) : Begin(op, alias)
        \/ "allot" \in Commands /\ allot(alias)
        \/ "claim" \in Commands /\ claim(alias)
        \/ "destroy" \in Commands /\ destroyAccount(alias)

Next ==
    \/ Start \/ DeleteFile \/ SaveStateToFile \/ WriteFile \/ Crash
    \/ Command \/ Proceed \/ Node

\* A process that waits or computes goes on; node, faucet and user need not.
Spec == Init /\ [][Next]_vars /\ WF_vars(Proceed)

-----------------------------------------------------------------------------
(* Properties *)

Key == [seed : (Alias \union {EmptyAlias}) \X (0 .. MaxProcesses), index : Nat]

\* Type invariant of the account commands.
TypeOK ==
    /\ process \in {"stopped", "running", "saving"}
    /\ processes \in 0 .. MaxProcesses
    /\ \A a \in DOMAIN accounts : accounts[a].OutputID \in 0 .. MaxOutputs
    /\ DOMAIN wallets \subseteq Alias
    /\ \A w \in DOMAIN wallets : KeyOf(wallets, w) \in Key
    /\ \A a \in DOMAIN delegations :
        /\ delegations[a] # {}
        /\ \A d \in delegations[a] : d.Alias = a /\ d.OutputID \in 1 .. outputs
    /\ process # "running" => cmd = NoCommand
    /\ cmd.step \in {"idle", "request", "funds", "build", "accept", "claim", "failed",
                     "panicked"}
    /\ cmd.key \in Key
    /\ cmd.tx \in 0 .. outputs
    /\ DOMAIN ledger \subseteq 1 .. outputs
    /\ accepted \subseteq 1 .. outputs
    /\ outputs \in 0 .. MaxOutputs

\* What a process knows, or will know when it loads the file.
KeysOf(ws) ==
    UNION {{[seed |-> ws[w].seed, index |-> i] : i \in 1 .. ws[w].LatestUsedIndex} :
           w \in DOMAIN ws}

SavedWallets == IF file.is = "state" THEN file.Wallets ELSE EmptyMap
SavedDelegations == IF file.is = "state" THEN file.Delegation ELSE {}

KnownKeys == KeysOf(IF process = "stopped" THEN SavedWallets ELSE wallets)

KnownDelegations ==
    IF process = "stopped" THEN SavedDelegations
    ELSE UNION {delegations[a] : a \in DOMAIN delegations}

\* The process ends and has not written the file: killed, by LogFatal, or while
\* the file is truncated.
EndsUnwritten == process # "stopped" /\ process' = "stopped" /\ file' = file

\* An address that was handed out stays known, in memory, over saving and
\* loading, and is not handed out twice (getAddress takes the index after the
\* last known one), whatever commands fail.  Only a process that ends without
\* writing the file loses addresses: those it handed out itself, and when it
\* had truncated the file, those of earlier processes too.
KeysLostUnsaved == [][KnownKeys \subseteq KnownKeys' \/ EndsUnwritten]_vars

\* A delegation leaves the list when a process ends so, or when a claim with
\* its alias ends: then its output is spent, or this claim got no answer about
\* its rewards or its output.
DelegationsLeaveByClaim ==
    [][\A d \in KnownDelegations \ KnownDelegations' :
            \/ EndsUnwritten
            \/ /\ At("claim") /\ cmd.alias = d.Alias /\ cmd' = NoCommand
               /\ d.OutputID \notin DOMAIN ledger \/ d \in cmd.passed]_vars

\* A listed delegation lies at the address that its claim will sign for, with
\* the wallet of the alias and the index that is written down: unless it was
\* made without alias, for the wallet is not that of the genesis account then.
DelegationsSignable ==
    \A a \in DOMAIN delegations \ {GenesisAccountAlias} :
        \A d \in delegations[a] : d.OutputID \in DOMAIN ledger =>
            /\ a \in DOMAIN wallets
            /\ ledger[d.OutputID].key = [seed |-> wallets[a].seed, index |-> d.AddressIndex]

\* A command comes to an end although the faucet may never pay and the node
\* never answer: every wait has a timeout, and the loop over the delegations
\* gets shorter.
CommandsEnd == cmd.op # "none" ~> cmd.step \in {"idle", "failed", "panicked"}

\* The README: "Spam with the account created by the evil-tools app".  When a
\* creation succeeds, the account can be found under its alias.
CreatedIsStored ==
    [][(cmd.op = "create" /\ cmd' = NoCommand /\ process' = "running")
            => /\ cmd.alias \in DOMAIN accounts'
               /\ accounts'[cmd.alias].OutputID = cmd.tx]_vars

=============================================================================
