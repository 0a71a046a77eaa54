# A verification project for evil-tools

evil-tools (`src/`) stresses a node of an IOTA test network: it asks a faucet for funds,
splits them into thousands of outputs, and spams the node with transactions, many of them
double spends that follow a scripted *scenario*. It also keeps accounts and delegations on
that network. This directory holds TLA+ modules translated from the Go code, TLC runs on
small instances, and TLAPS proofs for all instances.

Contents: [the system](#1-the-system) · [the modules](#2-the-modules-and-the-code) ·
[the runs](#3-the-runs) · [the proofs](#4-the-proofs) · [where the code departs from its
comments](#5-where-the-code-departs-from-its-comments) ·
[what is not modelled](#6-what-is-not-modelled) · [plan](#7-plan).

To check: `tlc -workers 2 -config MCWalletPool.cfg MCWalletPool` (likewise the other
`.cfg` files; section 3 says which module each belongs to), and `tlapm WalletPoolProofs.tla` (likewise the
other `...Proofs.tla`).

## 1. The system

| component | state | operations | talks to |
|---|---|---|---|
| **Fresh wallet pool** `pkg/evilwallet/wallet.go`, `wallets.go` | per wallet: two atomic uint32 counters, the outputs by index; for all: map of wallets, queue of the ready ones | `NewWallet`, `Address`, `AddUnspentOutput`, `GetUnspentOutput`, `freshWallet`, `SetWalletReady` | filled by faucet requests, emptied by spenders |
| **Faucet requests** `faucetfunds.go` | none of their own | request, super split, up to `n` concurrent splits | pool, output manager, faucet |
| **Reuse wallets** `wallets.go` | pool of TempIDs per wallet | `GetReuseAddress`, `reuseWallet` | filled and emptied by batches of deep spam |
| **Scenario batches** `evilwallet.go`, `evilscenario.go`, `aliasmanager.go`, `options.go` | number of batches, input and output aliases | `ConflictBatchWithPrefix`, `CreateTransaction`, `ClearAliases` | pool, output manager, spamming functions |
| **Output manager** `output_manager.go` | which wallet an output is in, what the node said of it | `AddOutput`, `Track`, awaits | node |
| **Spammer** `pkg/spammer/spammer.go` | ticker, two contexts, two unbuffered channels, batch and goroutine counters | `Spam`, spamming functions, `CheckIfAllSent`, `StopSpamming` | one goroutine per batch |
| **Faucet requester** `programs/faucet.go` | counters of running and finished requests, pool of two workers | poll, submit, request | pool; spam through `UnspentOutputsLeft` |
| **Account manager** `pkg/walletmanager`, `components/accounts` | wallets (seed, last index), accounts, delegations; a state file | create, convert, destroy, allot, delegate, claim; load, save | node and faucet, with waits of at most 90 seconds |
| **Connector** `pkg/models/connector.go` | list of clients, index of the one used last | `GetClients`, `GetClient`, `AddClient`, `RemoveClient`; HTTP calls | node; used by whatever posts in parallel |
| **Helpers** `pkg/utils`, `pkg/spammer/utils.go` | none | funds planning, splitting, awaiting | |
| **Wiring, information** `main.go`, `components`, `pkg/info` | none | parameters, signals, printing | |

### What makes each of them hard, and what makes it correct

* **Pool.** `GetUnspentOutput` compares the two counters without a lock and claims the index
  in a second step, so that several goroutines may pass the check for the last output; the
  counters are unsigned and are subtracted. A split may fail and leave holes. *Correct:* no
  output is handed out twice, none in a queued wallet is lost, the queue holds each ready
  wallet once, a wallet no longer changes once it can be spent.
* **Faucet requests.** Up to `n` goroutines split into one wallet, each in several steps that may
  fail, and a failure is only logged. The outputs of a split are in the wallet before its
  transaction is posted. The goroutines append to one slice without a lock. *Correct:* the wallet is
  queued after the last goroutine is over, so that nobody is given an output whose transaction is
  still to be posted; whatever else fails, a wallet whose funds came is queued.
* **Spammer.** Every tick starts a goroutine, all of them count batches and then compare,
  and those that find the limit reached send on a channel that is received from once. *Correct:*
  the batches beyond the limit are bounded by the goroutines alive; `Spam` returns only for
  a reason, and does so although other workers stay blocked; the ticking goroutine ends
  after a shutdown.
* **Batches.** They run concurrently on one alias manager, one queue of fresh wallets and
  one Reuse wallet, any transaction may fail halfway. *Correct:* two transactions conflict
  exactly where the scenario says so; each input is signed with the key it needs; outputs
  of deep spam are not spent twice by accident; the alias manager does not grow.
* **Requester.** It polls counters that its own tasks and the spam change, counts a wallet as
  ready whatever its splits came to, and reads a sum of unsigned differences. *Correct:* when
  it shuts its pool down, as many outputs as planned were brought, but for those that failed
  splits left out; when the count is down to zero wallets are requested again, failed
  requests or not; it returns when the count is low again and again.
* **Accounts.** Every wait may time out while the block is accepted later; a command that
  fails may end the program before the deferred save; the save truncates the file first;
  records lose fields on the way to the file and back. *Correct:* an address is forgotten, and
  may be handed out again, only when a process ends without writing the file; a delegation leaves the list
  only then, or when a claim of its alias ends; its claim can be signed; every command ends.

* **Connector.** The turn is an index into a list that shrinks and grows, and a stage takes its
  clients one by one. *Correct:* the transactions of a stage go to different clients as long as
  there are enough; while the list stays as it is, no client is used again before all others were.

`PROJECT.json` lists the hazards of the code, each at its line, with the properties that
would catch it.

## 2. The modules and the code

```
FreshSupply  <-- implemented by -- WalletPool --------- WalletPoolProofs, WalletPoolQueueProofs
WalletPool   <-- implemented by -- FaucetFunds -------- FaucetFundsProofs
                                   Connector ---------- ConnectorProofs
                                   Spammer ------------ SpammerProofs
CustomScenarios -- extended by --> FundsRequester ----- FundsRequesterProofs
       |
       +---- instances for ------> CreateTransaction -- CreateTransactionProofs
                                   AccountManager ----- AccountManagerProofs
```

`PROJECT.json` maps every definition to its lines. The names are those of the code where the
code has one. The definitions `Mut...` in the modules are not part of any specification:
each is a plausible mistake in the definition beside it, used to see that the properties
notice it.

### `WalletPool`: the pool at the grain of its locks

A wallet is the faucet request that fills it: `stage` is the progress of that request,
`addresses` the indices allocated and still without an output, `unspentOutputs` those with one.
A spender is a goroutine inside `CreateTransaction`; its `pc` is `check` before the comparison
of the counters (`wallet.go:214`), `claim` before the index is taken under the lock, `read`
before the output is looked up. `HasUnspentOutput`, `IsEmpty` and `UnspentOutputsLeft`
are the three expressions over the counters, the subtraction modulo `Width`. `SplitFails` is a goroutine of
`splitOutputs` whose error is only logged, `RequestFails` a request that returns an error. One
`SetWalletReady` covers `wg.Wait` and the enqueueing. `handed` is a history variable.

`FreshSupply` is what the pool promises: outputs are deposited, and each deposited output
is handed out at most once. `ImplementsSupply` is `FreshSupply` with the outputs being pairs of
wallet and index.

### `FaucetFunds`: the requests with the goroutines inside

`WalletPool` sees only what a request does to the wallet it fills. `FaucetFunds` runs the request: it
asks the faucet, splits what it gets, and, if it is a big request (`BigWallet`), makes the wallet only
then and splits every output of the first split in a goroutine of its own (`split[w][k]`). A split
takes its addresses one at a time (`addresses`), stores its outputs one at a time (`outputs`), and
then names them and posts its block. Each place where the code returns an error is an action
(`CreateTransactionFails`, `RequestBlockIssuanceDataFails`, `PostWithBlockFails`): it leaves in the
wallet what is there, ends a small request and merely the goroutine of a big one.

`txIDs = append(txIDs, ...)` is not locked. `ReadTxIDs` is the read of the slice and `AppendTxID` the
assignment. If the slice was assigned to in between, `Appended` allows every outcome of that race in
which no id is invented. `WaitForSplits` is `wg.Wait` and `SetWalletReady` the end of the awaits with
the queueing, which ignores what the awaits found.

`Pool` is `WalletPool` with `stage` and `addresses` computed from the requests: the addresses of a
failed split or request are given up, the others without an output are still to be filled. `ImplementsPool` is its
specification, so that all that holds of the pool holds with these requests. The spenders are those of
`WalletPool`, action by action.

### `Spammer`: one spam

`maxDuration` keeps the sign of the duration (infinite, zero, positive), since that decides
whether `MaxBatchesSent` is set. `ctx` and `newContext` are apart: the loop watches the first,
the workers get the second. `tick` is the one-element channel of the ticker. A worker goes
`started` (the goroutine exists) → `batch` (counted itself) → `check` (counted its batch) →
`sendDone`/`sendFailed` (blocked on the channel) → `leave`. `Receive` is the rendezvous with
`Spam`, which also stops the ticker and, through the deferred cancel, ends `newContext`.

### `CustomScenarios`, `CreateTransaction`: scenarios and their batches

`CustomScenarios` holds the scenarios that ship with the tool and the arithmetic the spammer
plans with. `CreateTransaction` runs batches of one scenario concurrently: prefix, choice of one
input wallet per transaction, one step per input alias, building, `AddOutput` in its two steps,
`registerOutputAliases`, posting stage by stage, `ClearAliases`. Where the code ranges over a map,
the model picks any element. A nil wallet that is dereferenced sets `panicked`. The inside of
`GetUnspentOutput` is one step here: its races are the subject of `WalletPool`.

Three kinds of spam are initial states: nested conflicts, the same with deep spam, and accounts
(scenarios of one transaction only, whose outputs are not kept). A transaction names its inputs by the
`OutputID`s they have when it is built; an output of a batch gets one when its own
transaction is signed. `built` keeps which inputs had one. What splits that failed left of the fresh wallets is
chosen at the start (`FailedSplits`): indices without an output (`missing`), at which `MatchFindsNone` uses the index up
and ends the batch, and outputs without OutputID (`unidentified`), which are handed out like the others. `PostFails` is a post that ends
before the signing, an error that is only counted.

The aliases of outputs deserve a word. `prepareOutputs` keys them by the hash of an output that
has no address yet, and `registerOutputAliases` looks them up by the hash of the output that
has one. The look-up yields the empty alias, so every output is registered under that; the model
does the same.

### `FundsRequester`: the requester and the spam it feeds

The requester, its pool of two workers and the spam are three groups of actions on shared counters.
`queued`, `requesting` and `returning` are tasks in the pool, inside
`RequestFreshBigFaucetWallet`, and between the two counters they update at the end. A request
brings one of `Fillings`: all outputs of a wallet, or fewer, with empty indices or without, since splits that fail
are only logged, and a split of a small amount makes fewer outputs. The wallet is counted ready all the same.

The queue is known by its sums: `left` outputs, `holes` indices without one, and whether the counter of its first
wallet is past the end (`overshot`, as `WalletPool` and the run `pool_stuck` have it). `UnspentOutputsLeft`, which
`canSubmit` reads, is the sum of the unsigned differences: holes count, and an overshoot makes it nearly `Width`.

A batch takes what its scenario takes. The first one that finds no output ends the spam (`FindsNoOutput`, `Overshoot`), as
`NoFreshOutputsAvailable` does, with outputs left or not; batches under way may still take theirs.
`totalWalletsNeeded` and `minFundsDeposit` are computed from the parameters by `CustomScenarios`. For an infinite spam
the counters that only a finite one reads stay at 0. `lacking` is a history variable: what the wallets brought less than
`WalletSize`.

### `Connector`: whose turn it is

A worker in `GetClients` has the mutex (`wanted[w] > 0`) and takes clients one by one; `AddClient` and
`RemoveClient` come between. `getClientPanics` is the index into an empty list. `window` is a history variable, the
last uses since the list last changed, at most as many as there are clients. The comments' "client instance that was used
the longest time ago" is `UsesInTurn` as long as the list does not change: no client comes twice in the window. Over a change it
is not so, since nothing adjusts `lastUsed` (section 5).

### `AccountManager`: account commands, the state file, the node

One process runs commands one after another; `cmd` is the command under way and the step it
has reached. The steps that change state or may fail are actions: taking an address and asking the
faucet, waiting for the funds, building and posting (an address is taken for the new output), waiting
for the block, registering, and for `claim` the loop over the delegations. Each command has its own
posting action. `CreateFlags` and `CreateOp` are the flags of `create` and the three kinds of creation they
come to; `unknownSubcommand` is a command that is read from the command line and has no handler. `SaveStateToFile`
truncates the file and `WriteFile` writes it; `Crash` may come at any step, and a file that is
torn must be deleted by hand, as the message of the program says. `toManagerState` and
`LoadedAccounts`/`LoadedDelegations` are the conversions, with what they lose. A claim goes through `cmd.todo`, and
`cmd.passed`, a history field, has the delegations it went past without claiming them.

`KnownKeys` and `KnownDelegations` are what the program knows: what the process has in memory, and when none runs, what the
file would give to the next. No history variable says what should be known; the properties compare each step with the one before, so that a loss shows in the
step that brings it about. Faucet and node are
external: they pay, accept and reject in any order and at any time, or never.

## 3. The runs

| run | module, cfg | distinct states | shows |
|---|---|---|---|
| `pool` | MCWalletPool, MCWalletPool | 152,606 | two spenders interleave inside `GetUnspentOutput` while two requests fill wallets |
| `faucet` | MCFaucetFunds, MCFaucetFunds | 288,156 | requests with their goroutines and failures implement those of `WalletPool`; what is handed out is posted or from a failed split; a wallet whose funds came is queued; with one spender `freshWallet` keeps its comment |
| `pool_stuck` | MCWalletPool, MCPoolStuck | – | with two spenders `freshWallet` does not (section 5) |
| `spammer` | MCSpammer, MCSpammer | 24,184 | batches bounded, stops justified, stops happen |
| `spammer_deadline` | MCSpammer, MCSpammerDeadline | – | the deadline alone stops nothing (section 5) |
| `batch` | MCCreateTransaction, MCCreateTransaction | 328,779 | two batches of each of four scripts, with and without deep spam, and of account spam; splits may have failed, and one post may fail |
| `batch_panics` | MCCreateTransaction, MCBatchPanics | – | a batch looks in a nil wallet (section 5) |
| `batch_chained` | MCCreateTransaction, MCBatchChained | – | stages do not chain (section 5) |
| `requester` | MCFundsRequester, MCFundsRequester | 222,056 | the plan is delivered and drained funds are requested again, over five spams with failed splits and overshoots |
| `accounts` | MCAccountManager, MCAccountManager | 826,520 | all commands under two aliases, late answers, partial claims, crashes, a restart: by which steps addresses and delegations are lost, and that commands end |
| `connector` | MCConnector, MCConnector | 225,955 | three workers, a list that changes: use in turn between changes, conflicts to different clients |
| `account_created` | MCAccountManager, MCAccountCreated | – | a created account is not stored (section 5) |

### Bounds, and why they are enough

* **Pool.** Two wallets make a queue with a wallet behind the head; two spenders make the race past
  the last output, and the proofs cover any number. Wallets of up to three outputs with
  transactions of up to two inputs give transactions that span the end of a wallet, and holes in
  front of, between and behind outputs. `Width` is 8: the counters may wrap below zero, which they do
  in the code, and are far from wrapping at the top, which they are in the code as well
  (`PoolAssumption`: a wallet has `faucetSplitNumber`² outputs, the counter 2³²).
* **Faucet requests.** One big and one small request beside each other share the queue. With
  `FaucetSplitNumber` 2 the big one has two goroutines of two outputs each, enough for every overlap of
  their addresses, stores and appends, for one failing while the other goes on, and for holes. One spender,
  since the races of several are the run `pool`; the refinement carries their results over. `Width` is 6.
* **Spammer.** Three workers: one that is received, one that is blocked on the same channel
  and one on the way. `MaxGoroutines` is 1, so that ticks are skipped; `MaxBatchesSent` is 2, so that
  one batch does not end the spam; `BatchBound` stops the counter of a spam that has no end.
* **Batches.** Two batches on two wallets of three outputs, so that wallets change in the middle of a
  batch and run out. The scripts are `tx`, `ds`, the first two stages of `guava` (a stage that names
  the outputs of an earlier one) and a circle of three (known and unknown aliases in one transaction). Either no split
  failed, or some left each wallet its first output without OutputID and its second index empty: outputs before
  and behind a hole. At most one post fails (`MaxPostFails`), before, between or after those of either batch.
  The batches are symmetric, and so are the wallets.
* **Requester.** Two units of time make a second; the spams last whole seconds or a second and a half, one has several
  stages, one is infinite; wallets have four outputs, and a request brings all, half of them with the other half empty
  or not there, only empty indices, or nothing. The spams are planned with one or two wallets. `Width` is 64, far above what the
  queue ever holds, so that a wrapped count is above every limit. `MaxQueued` bounds the queue of the pool,
  which the code leaves to grow while both workers are busy.
* **Accounts.** Two processes (one restart), the alias with a name and the empty one, two faucet
  requests per command, four outputs in all: enough for two delegations, of one alias or of two, of which one
  is claimed before a failure or a restart. The second process may be the one that truncates the file with the keys of the first and dies; the
  properties see the loss in that step, so no third start is needed to notice it.
* **Connector.** Five clients on three urls, three of them in the list at the start, three workers, stages of up
  to four transactions: lists shorter and longer than a stage, removals at, before and behind
  `lastUsed`, and two clients with one url. The list may become empty, and then a client is indexed
  all the same.

### Fairness

* **Faucet requests:** weak fairness of each split and of each request once it has started: every wait has a time limit
  and every call to the node is assumed to return, with an answer or an error. Nothing makes a request start, and no step
  need succeed: each has its failure beside it. Nothing is assumed of spenders: a spam ends at its first
  `NoFreshOutputsAvailable`, or at its last batch, with outputs left.
* **Spammer:** weak fairness of the ticker, the deadline, the loop and each worker; strong
  fairness of the loop noticing its context, because `select` picks at random among the
  cases that are ready. A batch terminates: the HTTP client is assumed to return. Nothing is assumed
  about a batch succeeding, nor about a shutdown.
* **Requester:** weak fairness of the poll, the pool's workers and each request's end; strong
  fairness of a request bringing some output (`RequestDelivers`), since a faucet that never answers feeds nobody. The spam
  and the shutdown owe nothing.
* **Accounts:** weak fairness of the command under way, whose waits have timeouts. Faucet, node
  and user owe nothing.
* **Pool, connector, batches:** none; only safety is claimed.

Deadlock is not checked where the system may really stop: all batches done or the program gone,
a spam over with its workers blocked (they do block for ever), the requester returned, all bounds on outputs
used up, the program gone because an empty list of clients was indexed.

## 4. The proofs

Every safety property that a passing run checks is proved but one (see the end of this section): the type
invariants, the other invariants, `ReadyIsFrozen` and the three refinements, for every value of the constants that
the named assumptions allow. The proofs are of one
pattern: an invariant that is inductive (`...Inv`), a lemma that the initial states have it, one lemma
or step per action that keeps it, and theorems that read the properties off it. What a proof needs besides the
property is said here, module by module.

### The pool: `WalletPoolProofs`, `WalletPoolQueueProofs`

From `PoolAssumption` alone (finitely many spenders, wallets smaller than the width of the counters):

* `TypeCorrect`: `Spec => []TypeOK`. Not quite for free: that `nextAddrIdxToUse` never wraps needs
  the bound on the wallet.
* `OvershootIsBounded`: `Spec => []OvershootBounded`. The spent counter passes the end of a wallet by
  fewer steps than there are spenders. The invariant counts the spenders at `claim` together with
  the counter: a check that succeeds adds one to the count while the counter is still below
  the end, and a claim moves one from the count to the counter. The lemma `OvershootFrame` is
  the case of all steps that move neither.
* `NoDoubleHandOut`: `Spec => []HandedOnce`. `PoolInv` strengthens it with `InFlightSound`: an index is
  held by at most one spender, has not been handed out before, and nothing at or above the spent
  counter is held or handed. This is inductive only because the counter does not wrap, which is
  `OvershootBounded` again.

`QueueInv` adds what the queue needs: `FillSound` (only a wallet being filled has addresses without an output,
only a ready one was ever spent from), `LineSound` (queued wallets are ready, nobody holds one behind the head,
and a ready wallet that is not queued is spent to its end) and `SpentAccounted` (an output below the spent
counter was handed out or is held). `LineSound` rests on `EmptyMeansSpent`: since the two counters
lie below `Width`, the modular difference is 0 only if they are equal, so that `freshWallet` drops no wallet
that has an output left.

* `QueueStaysSound`, `DepartedAreDrained`: `QueueSound` and `DepartedDrained`. The overshoot of `pool_stuck` loses
  nothing of a wallet that leaves the queue; it only keeps wallets from leaving it.
* `ReadyStaysFrozen`: the action property `ReadyIsFrozen`.
* `PoolImplementsSupply`: `Spec => ImplementsSupply`. `Deposit` is `AddUnspentOutput`, `HandOut` a `ReadOutput`
  that finds its output, all else stutters; `HandedOnce` gives the guard of `HandOut`.
* `OneSpenderIsServed`: with a single spender, `Spec => FreshWalletNonEmpty`, the comment of `freshWallet`. With
  two, the run `pool_stuck` refutes it: the assumption is exactly what is missing. Its lemma `NeverPast` is that one
  spender does not pass the end of a wallet.

### The faucet requests: `FaucetFundsProofs`

From `PoolAssumption` (that of `WalletPool`, stated on the constants the two share) and `SplitAssumption`. `FundsInv`
says of each request which splits there are at its stage (`RequestSound`), what a split has done where it is
(`SplitSound`), that the splits share out the addresses of the wallet without overlap (`AddressesShared`), that the slice
has only ids of splits that ended (`SliceSound`) and what `LostOnlyByOverlap` says (`SerialKeeps`); and that wallets are
spent from only when their request is over (`SpentWhenDone`).

* `FundsTyped`, `OnlyOverlapLoses`: `TypeOK` and `LostOnlyByOverlap`.
* `HandedOutWasPosted`: `HandedOutIsPosted`. By `SpentWhenDone` nothing is handed out before the request is over, by
  `RequestSound` no split runs then, and by `AddressesShared` each output belongs to one that did.
* `RequestsImplementPool`: `Spec => ImplementsPool`, one lemma per action of the pool. That an address fits in the wallet
  is a guard of `WalletPool` and a consequence here: `RoomForAll` counts the addresses of all splits by an
  injection into the pairs of a split and a place in it.

With it the theorems of the pool carry over to these requests.

### The batches: `CreateTransactionProofs`

From `BatchAssumption`: finitely many batches and fresh wallets, scenarios whose transactions have inputs and
outputs, and wallets and batches that are told apart. Any scenarios, also those that the tool does not ship.
`BatchInv` has, beside the types, `Numbered` (the counter is the number of batches started, so that prefixes differ),
`ProgressSound` (what was matched and built follows from where the batch is), `StoreSound` (the map from
outputs to wallets lags behind by the output under way and is right otherwise), and the core: an alias of a batch *stands for*
an output (`Use`) in the alias manager, among the inputs just matched, or in a built transaction.

* `ConflictsAreScripted`: by `UsesApart`, no two aliases stand for one output and no alias for two. What makes
  it inductive is `UsesTaken` (what an alias stands for is not to be had from a wallet any more, so that the next
  output is a new one) and `UsesNamed` (until the batch is done, its aliases are in the alias manager, so that a known
  alias is found again).
* `DoneBatchesAreForgotten` and `ReusePoolStaysUnspent` follow from `UsesNamed` and `UsesTaken`.
* `UniformSignedByOwner`: by `WalletChosen`, the one alias that `updateInputWallet` looks at speaks for all of a uniform
  transaction, and `SignedSound`.
* `InputsAreIdentified`, `BatchesTyped`: conjuncts of the invariant. An input without OutputID is one that a failed split left
  so, or one whose wallet is the Reuse wallet: by `UsesNamed` and the look-up under the empty alias, no
  alias ever stands for an output of a batch that was not taken from that wallet.

### The accounts: `AccountManagerProofs`

From `AccountAssumption`. `AccountInv` says of the memory, the command and the file what they are, of the node
that no two transactions make one output (`NodeSound`), of the command what the handler may rely on at its step
(`CommandSound`: the wallet is still there, a transaction that is awaited pays to the key that is remembered), and of a file that
can be loaded that what it lists can be signed for (`FileSound`). `NodeKept` is what a late answer of the node cannot take back.

* `KeysAreLostUnsaved`: `Spec => KeysLostUnsaved`. Each action keeps the wallets and their indices (`WalletsKept`), `WriteFile` and
  `Start` carry them over, and deleting a torn file loses nothing that the truncation had not lost: what
  remains are the steps that end a process without writing. It says nothing in favour of those (section 5).
* `DelegationsAreClaimed`: `Spec => DelegationsLeaveByClaim`. Only `removeDelegations` takes delegations from the list, and `ClaimSound`
  says what it takes: a claim has before it (`todo`) or has passed over each delegation of its alias whose output is not
  spent. That an acceptance of the claim means the delegation is spent rests on what a pending transaction spends, which `ClaimSound` has for the awaited one.
* `ClaimsHaveTheKey`: `Spec => []DelegationsSignable`, through failing commands, crashes, torn files, saving and loading. It needs
  `ListedSignable`, which says of each delegation that no transaction will make its output any more: an answer that comes after
  the registration cannot change whose key it takes.
* `AccountsTyped`: `TypeOK`.

### The requester: `FundsRequesterProofs`

From `RequesterAssumption` and `ScenariosAssumption` (what is counted of the shipped scenarios are
numbers: the prover does not evaluate the folds that count, TLC does). `FundsInv` keeps the books of a finite
spam: the outputs left, those used and those lacking are what the wallets counted or about to be would hold (`Funded`), and
the pool of workers is shut down only after enough were counted (`EnoughCounted`).

* `FundsTyped`: `TypeOK`.
* `PlanIsDelivered`: `Spec => []PlanDelivered`, for any rate, duration, scenario and split number, however requests fail, splits fail,
  wallets are counted and batches interleave. `RoundedDown` is why the one wallet that `BigWalletsNeeded` adds is
  needed. The theorem is about the plan as it is computed, and not about what the spam would need (section 5).

### The spammer: `SpammerProofs`

From `SpammerAssumption` (finitely many workers):

* `SpammerTypeCorrect`: the goroutine counter is the number of workers that have counted themselves,
  hence never negative.
* `OvershootIsAccounted`, `BatchesAreBounded`: `OvershootAccounted` is inductive together with `TypeOK`: each batch
  beyond the limit belongs to a worker between counting and leaving, or to the one received. The bound
  follows by counting them.
* `StopsAreJustified`: by an invariant on the senders: whoever waits on `done` saw the limit reached,
  whoever waits on `failed` saw the end of the outputs.

### The connector: `ConnectorProofs`

From `ConnectorAssumption` (the list starts with one of each client; a stage has at
least one transaction), for any number of clients, urls and workers:

* `ConnectorTypeCorrect`: with the types goes that no client is in the list twice, which `AddClient`
  and `RemoveClient` keep (`CutElements` says what the list is after a removal, `CutKeepsOneOfEach`
  that it has no repetition then) and which the next theorem needs.
* `ConflictsAreSpread`: `Spec => []ConflictsSpread`. The invariant `TakenInTurn` says where the clients
  are that a worker took: going back from `lastUsed` they are the last uses, one place each (`Back`). Fewer
  places than the list is long are different places, hence different clients. `MutexHeld` says that the others
  take nothing meanwhile; a list that has shrunk below the batch before it began falls out of the premise.
* `ClientsTakeTurns`: `Spec => []UsesInTurn`. The same `Back` places the uses of all workers: `WindowInTurn` says that the window is
  the last uses, one place each, going back from `lastUsed`. A change of the list empties the window.

The assumptions are evaluated on every run. Where a strengthening is not itself the property of a run (`QueueInv`'s,
`BatchInv`'s, `AccountInv`'s and the like), it is defined in the proof module and proved only.

**Only model-checked:**

* all liveness: `FundsReachQueue`, `StopsWhenAllSent`, `StopsWhenDry`, `LoopEnds`, `RefillsWhenDrained`,
  `ReturnsWhenDrained`, `CommandsEnd`. The prover does not do fairness or `ENABLED`.
* the action property `FreshWalletNonEmpty` of `FaucetFunds`. It is `OneSpenderIsServed` through `RequestsImplementPool`, but to cite the first
  one needs an instance of its module, whose assumption the prover does not let be discharged.

## 5. Where the code departs from its comments

Each of these five is the counterexample of a run; the lines and quotations are in `PROJECT.json`.

* `pool_stuck`: two goroutines that both pass the check for the last output push the spent
  counter past the end. The subtraction wraps, the drained wallet counts as full, and `freshWallet`
  returns it for good: the wallets behind it are never reached. The overshoot
  hands no output out twice (`NoDoubleHandOut`), but it cuts off all the outputs behind.
* `spammer_deadline`: the deadline is set on a context the loop does not watch. If batches keep
  failing once it has passed, `Spam` never returns.
* `batch_panics`: one alias decides about the input wallet of the whole transaction. If it is known,
  the wallet is nil, and an alias that is not known is looked for in it.
  `conflict-circle` has such transactions.
* `batch_chained`: aliases of outputs are stored and looked up under different hashes, so a later stage
  takes fresh outputs instead of those of the earlier one.
* `account_created`: `registerAccount` overwrites the record it has made by the one the map
  holds: no created account is ever stored.

Against a comment or a document as well, each seen while modelling; the modules do what the code does there, and the
properties are stated so as to leave out just this:

* `pkg/models/connector.go:35`, `41`, `125` and `136` promise "the client instance that was used the longest time ago". Right after a
  change of the list this fails, since `lastUsed` stays an index into the old one: with the clients a, b, c and b used last,
  removing a makes `lastUsed` the index of c and the list b, c, so the next use is that of b again, while c waits. A client that is
  added has its turn by its place in the list, not as the one that was never used. `UsesInTurn` starts anew at a change.
* `components/accounts/component.go:65` says "save wallet state on shutdown". A command that fails goes to `LogFatal` (line 76), which
  may end the program before the deferred save: the keys and delegations of the commands before it are lost, and the next
  process hands out the same indices again. `SaveStateToFile` truncates the file before it writes (`save.go:68`): a
  process that dies in between loses what all earlier ones saved, for the torn file has to be deleted. Both are `EndsUnwritten`,
  which `KeysLostUnsaved` and `DelegationsLeaveByClaim` name.
* `src/README.md:95` has `info delegations` "List all delegations done with the evil-tools app to be claimed". `claim` passes over a
  delegation whose rewards or whose output the node did not give (`claim.go:36-48`), goes on, and at its end removes all
  delegations of the alias (`claim.go:86`): one that is still to be claimed is no longer listed. `DelegationsLeaveByClaim` lets those go that the
  claim passed over.
* `pkg/spammer/utils.go:10` says that `BigWalletsNeeded` "calculates how many big wallets needs to be prepared for a spam". Three kinds of spam
  need more. It cuts the duration down to whole seconds, while `setupSpamDetails` counts the batches of the fraction as well: a
  spam of a second and a half is planned as one of a second. Since stages do not chain, a batch of `guava` takes five outputs while
  `EvaluateNumOfBatchInputs` counts one. And `walletsReady` counts wallets that failed splits left short (`faucetfunds.go:162`) or that a small amount
  was split into (`faucetfunds.go:189`). Once the planned wallets are counted the requester returns,
  and no more are asked for. `PlanDelivered` is about the plan only.

Seen on the way, without a comment or document to hold against them:

* `NoFreshOutputsAvailable` ends the whole spam (`spammer.go:186`), also when the wallets behind the head are full: the wallet of the
  transaction ran out in its midst, or its next index is one that a failed split left empty. So nothing promises that the funds that reach
  the queue are spent.
* `canSubmit` reads a sum in which the indices that failed splits left empty count as outputs, and in which the difference of a counter
  that overshot is nearly 2³². After the overshoot of `pool_stuck` the requester never asks again while the head is stuck; with many
  empty indices and nobody to run over them it does not either. `RefillsWhenDrained` and `ReturnsWhenDrained` have the count itself as their condition.
* A delegation made without `FromAlias` is counted to the genesis account, while its address is one of the wallet of the empty
  alias: if the genesis account has no wallet the registration panics, else the claim signs for another address.
* The requester returns only if as many wallets are ready as were planned, and submits only while few outputs
  are left. A finite spam that ends with more than that leaves it polling until the shutdown.
* `running` is incremented inside the task, so with two workers it never reaches the limit of four
  pending requests: the limit has no effect.
* Workers that find the limit reached after another one was received stay blocked on `done` and hold their place
  in the goroutine count.
* Stages that chained would meet another obstacle: all transactions of a batch are built before the first is
  posted, and outputs get their `OutputID`s when posted. `InputsIdentified` holds since no stage names an
  output of an earlier one. It has to leave out deep spam, which may name an output that has none, and the outputs that a
  failed split left in a queued wallet before `setTxOutputIDs`.
* `HandedOutIsPosted` has to leave out splits that failed: their outputs stay in the wallet, are handed
  out like the others, and what spends them cannot succeed.
* `GetClients` cannot be given more clients than exist but returns some twice, so that the comparison of
  payloads and clients before a stage is posted never fires. An empty list is indexed.
* `convert`, `stake` and `update` are parsed and then rejected as unknown.
* `WithScenarioInputWalletForDeepSpam` accepts only wallets of the kind `RestrictedReuse`, and deep spam uses one of the kind `Reuse`.
* `OutputManager.Track` returns true when no output was confirmed, `AwaitWalletOutputsToBeConfirmed` counts a
  nil output in its wait group and never out again, `DelegationEnd` compares an epoch with a slot: none of them
  has a caller.
* `destroyAccount` panics on the only accounts there are, which have no output: the rest of it is
  unreachable.
* A transaction that mixes known and unknown aliases and escapes the panic may be signed with the key of
  another wallet than its inputs' when the head of the queue has changed: `SignedByOwner` is stated for the
  transactions whose aliases are all known or all unknown.

## 6. What is not modelled

* Amounts, remainders, mana and slots, hence the wait for a slot to be committed (`AwaitCommitment`); kinds of addresses and of outputs beyond what the commands look at.
  Where an amount decides something (the number of outputs of a split, the number of faucet requests of
  a command) the model takes any number.
* The other spamming functions (data, blowball), of which `Spammer` sees one step: they use no wallet, and what
  they share is the ticker, the counters and the channels.
* `reuseWallet`'s choice among Reuse wallets: a process registers one, and the operations that would mark it ready,
  and so let it be deleted, have no caller. Likewise `Track` and the waits of the output manager.
* `destroyAccount` below its look-up (unreachable) and the readiness of accounts, which needs a
  stored account.
* The HTTP calls, which are assumed to return; what the node's answers contain.
* `LogFatal` may or may not end the process at once: the accounts model allows both.
* `SplitBalanceEqually`, the epochs of delegations: sums without state, that no step depends on.
* Error counters, information output, parameters and wiring: they keep no state a property could
  be about.

Hazards that no property covers are listed in `PROJECT.json` with the reason.

## 7. Plan

The order was: the pool (what everything spends from), the spammer (what drives it), the batches (what the tool
is for), the requester (what ties pool and spam together), the accounts, then the inside of a faucet request and
the connector. That is modelled, with the runs above; one composition is left out, the pool under several
scenarios with the requester's polling, because its state space is the product of two runs that are
large already, and the counters they share are in `FundsRequester`.

What the plan had to prove is proved: the pool with its queue, the connector, the faucet requests, the batches, the
accounts, the requester, and each refinement. What is left, in this order:

1. `FreshWalletNonEmpty` of `FaucetFunds`, directly: the invariant of `OneSpenderIsServed` restated on the
   variables of `FaucetFunds`.
2. Conditions on the parameters of a spam under which the plan suffices, with what must be assumed of the splits.
3. An abstract specification of the accounts (a book of keys and delegations, and the steps that may tear pages out of it), which
   `KeysLostUnsaved` and `DelegationsLeaveByClaim` state piecewise.
4. The hazards without a property, as far as they can be modelled without amounts and slots.
