--------------------------- MODULE FundsRequester ---------------------------
(***************************************************************************)
(* The faucet requester of the spammer program (programs/faucet.go) beside *)
(* the spam that uses up what it requests (programs/spammers.go), as       *)
(* components/spammer starts them.                                         *)
(*                                                                         *)
(* The requester polls: while few Fresh outputs are left it submits a task *)
(* to a pool of two workers, each task requesting one big wallet, until as *)
(* many wallets are ready as the spam was planned to need.  A wallet is    *)
(* counted ready whatever its splits came to.  The spam waits for its first*)
(* funds and then takes outputs, batch by batch, until one is not found.   *)
(* What a request does inside is the subject of FaucetFunds, what the      *)
(* wallets do that of WalletPool and what a batch does that of             *)
(* CreateTransaction; here they add and take outputs, and the queue is     *)
(* known only by its sums.                                                 *)
(***************************************************************************)
EXTENDS CustomScenarios

CONSTANTS Params,                    \* the parameters a spam may have
          Second,                    \* units of time in a second
          MinSpamDurationFundsReady, \* in those units
          FaucetSplitNumber,
          Width,                     \* values of the unsigned counters
          Workers,                   \* of the pool
          Fillings,                  \* what the splits of a wallet may come to
          MaxPendingRequestsRunning,
          MaxQueued                  \* bound: tasks that wait in the pool

InfiniteDuration == -1
WalletSize == FaucetSplitNumber * FaucetSplitNumber

ASSUME RequesterAssumption ==
    /\ Params \subseteq [type : DOMAIN scenariosMap, NSpend : Nat \ {0},
                         rate : Nat \ {0}, duration : Nat \union {InfiniteDuration}]
    /\ {Second, FaucetSplitNumber, Width, Workers, MaxQueued} \subseteq Nat \ {0}
    /\ MinSpamDurationFundsReady \in Nat
    /\ MaxPendingRequestsRunning \in Nat
    /\ Fillings \subseteq [outputs : 0 .. WalletSize, empty : 0 .. WalletSize]
    /\ \A f \in Fillings : f.outputs + f.empty <= WalletSize

\* What is counted of the scenarios that ship are numbers.
ASSUME ScenariosAssumption ==
    \A type \in DOMAIN scenariosMap :
        /\ EvaluateNumOfBatchInputs(type, 1) \in Nat
        /\ Cardinality(inputsOf(scenariosMap[type])) \in Nat

VARIABLES
    params,       \* the parameters of this spam
    ctx,          \* "open" | "done": the daemon's context
    requester,    \* "polling" | "returned"
    pool,         \* "on" | "off": shut down
    queued,       \* tasks waiting in the pool
    requesting,   \* workers inside RequestFreshBigFaucetWallet
    returning,    \* workers between running.Dec and walletsReady.Inc
    running,
    walletsReady,
    left,         \* unspent outputs of the queued wallets
    holes,        \* indices of the queued wallets that have no output
    overshot,     \* the counter of the first wallet is past its last index
    spam,         \* "awaiting" | "spamming" | "finished": no batch starts
    sent,         \* batches counted
    used,         \* history: outputs the spam has taken
    lacking       \* history: outputs that the wallets were short of WalletSize

poolVars == <<pool, queued, requesting, returning, running, walletsReady>>
queueVars == <<left, holes, overshot>>
spamVars == <<spam, sent, used>>
vars == <<params, ctx, requester, poolVars, queueVars, spamVars, lacking>>

Infinite == params.duration = InfiniteDuration
NumOfInputs == [p \in Params |-> EvaluateNumOfBatchInputs(p.type, p.NSpend)]
numOfInputs == NumOfInputs[params]
totalWalletsNeeded ==
    BigWalletsNeeded(params.rate, params.duration, numOfInputs, FaucetSplitNumber, Second)
minFundsDeposit ==
    MinFaucetFundsDeposit(params.rate, params.duration, numOfInputs,
                          MinSpamDurationFundsReady, Second)

Init ==
    /\ params \in Params
    /\ ctx = "open"
    /\ requester = "polling"
    /\ pool = "on"
    /\ queued = 0 /\ requesting = 0 /\ returning = 0 /\ running = 0
    /\ walletsReady = 0
    /\ left = 0 /\ holes = 0 /\ overshot = FALSE
    /\ spam = "awaiting"
    /\ sent = 0 /\ used = 0 /\ lacking = 0

\* A counter that only a finite spam reads stays put in an infinite one.
Count(n) == IF Infinite THEN 0 ELSE n

-----------------------------------------------------------------------------
(* The requester *)

\* The sum over the queue of how far the counters are apart: indices count,
\* whether they have an output or not, and the unsigned difference of a counter
\* that is past the end is nearly Width.
UnspentOutputsLeft == left + holes + (IF overshot THEN Width - 1 ELSE 0)

allRequested == ~Infinite /\ walletsReady >= totalWalletsNeeded

MutCanSubmit == running < MaxPendingRequestsRunning /\ UnspentOutputsLeft <= minFundsDeposit
canSubmit == running < MaxPendingRequestsRunning /\ UnspentOutputsLeft <= 2 * minFundsDeposit

\* wp.Shutdown drops the tasks that wait.
Return ==
    /\ requester = "polling" /\ ctx = "open"
    /\ allRequested
    /\ requester' = "returned"
    /\ pool' = "off"
    /\ queued' = 0
    /\ UNCHANGED <<params, ctx, requesting, returning, running, walletsReady, queueVars,
                   spamVars, lacking>>

Submit ==
    /\ requester = "polling" /\ ctx = "open"
    /\ ~allRequested
    /\ canSubmit
    /\ queued < MaxQueued
    /\ queued' = queued + 1
    /\ UNCHANGED <<params, ctx, requester, pool, requesting, returning, running,
                   walletsReady, queueVars, spamVars, lacking>>

\* The context ends the requester, and leaves the pool as it is.
RequesterSeesDone ==
    /\ requester = "polling" /\ ctx = "done"
    /\ requester' = "returned"
    /\ UNCHANGED <<params, ctx, poolVars, queueVars, spamVars, lacking>>

-----------------------------------------------------------------------------
(* The tasks of the pool *)

StartTask ==
    /\ pool = "on"
    /\ queued > 0
    /\ requesting + returning < Workers
    /\ queued' = queued - 1
    /\ requesting' = requesting + 1
    /\ running' = running + 1
    /\ UNCHANGED <<params, ctx, requester, pool, returning, walletsReady, queueVars,
                   spamVars, lacking>>

\* The wallet got outputs, and addresses that the split left empty: splits that
\* fail are only logged, and too small an amount is split into fewer outputs.
\* The wallet is queued if it got any address, and counted in a later step.
RequestGives(filling) ==
    /\ requesting > 0
    /\ requesting' = requesting - 1
    /\ returning' = returning + 1
    /\ running' = running - 1
    /\ left' = left + filling.outputs
    /\ holes' = holes + filling.empty
    /\ lacking' = Count(lacking + (WalletSize - filling.outputs))
    /\ UNCHANGED <<params, ctx, requester, pool, queued, walletsReady, overshot, spamVars>>

RequestSucceeds == \E filling \in Fillings : RequestGives(filling)

MutRunningAfterFailure == running
RunningAfterFailure == running - 1

RequestFails ==
    /\ requesting > 0
    /\ requesting' = requesting - 1
    /\ running' = RunningAfterFailure
    /\ UNCHANGED <<params, ctx, requester, pool, queued, returning, walletsReady,
                   queueVars, spamVars, lacking>>

CountWallet ==
    /\ returning > 0
    /\ returning' = returning - 1
    /\ walletsReady' = Count(walletsReady + 1)
    /\ UNCHANGED <<params, ctx, requester, pool, queued, requesting, running,
                   queueVars, spamVars, lacking>>

-----------------------------------------------------------------------------
(* The spam *)

MaxBatchesSent == (params.duration * params.rate) \div Second + 1

\* Each input alias of the scenario takes one output (see CreateTransaction).
Inputs == [p \in Params |-> Cardinality(inputsOf(scenariosMap[p.type]))]
Taken == Inputs[params]

\* Enough outputs, the timeout or the context ends the wait for the first funds.
awaitFaucetFundsReady ==
    /\ spam = "awaiting"
    /\ spam' = "spamming"
    /\ UNCHANGED <<params, ctx, requester, poolVars, queueVars, sent, used, lacking>>

Take(n) ==
    /\ n <= left
    /\ left' = left - n
    /\ used' = Count(used + n)

SendBatch ==
    /\ spam = "spamming"
    /\ Take(Taken)
    /\ sent' = Count(sent + 1)
    /\ spam' = IF ~Infinite /\ sent' >= MaxBatchesSent THEN "finished" ELSE spam
    /\ UNCHANGED <<params, ctx, requester, poolVars, holes, overshot, lacking>>

\* A batch that fails otherwise may have taken some of its outputs; one that is
\* under way when the spam ends takes its outputs still.
BatchFails ==
    /\ spam # "awaiting"
    /\ \E n \in 1 .. Taken : Take(n)
    /\ UNCHANGED <<params, ctx, requester, poolVars, holes, overshot, spam, sent, lacking>>

\* A batch finds no output, because the wallet it takes from has none left or
\* the next index is empty, and that ends the spam.
FindsNoOutput ==
    /\ spam = "spamming"
    /\ \E n \in 0 .. Taken - 1 : Take(n)
    /\ holes' \in {holes, holes - 1} /\ holes' >= 0
    /\ spam' = "finished"
    /\ UNCHANGED <<params, ctx, requester, poolVars, overshot, sent, lacking>>

\* Two batches see the last index of the first wallet, and both count it: the
\* later one finds no output there.
Overshoot ==
    /\ spam = "spamming"
    /\ \/ Take(1) /\ UNCHANGED holes
       \/ holes > 0 /\ holes' = holes - 1 /\ Take(0)
    /\ overshot' = TRUE
    /\ spam' = "finished"
    /\ UNCHANGED <<params, ctx, requester, poolVars, sent, lacking>>

\* The daemon's context ends the ticks.
SpamEnds ==
    /\ spam = "spamming" /\ ctx = "done"
    /\ spam' = "finished"
    /\ UNCHANGED <<params, ctx, requester, poolVars, queueVars, sent, used, lacking>>

Shutdown ==
    /\ ctx = "open"
    /\ ctx' = "done"
    /\ UNCHANGED <<params, requester, poolVars, queueVars, spamVars, lacking>>

-----------------------------------------------------------------------------
Requester == Return \/ Submit \/ RequesterSeesDone
Tasks == StartTask \/ RequestSucceeds \/ RequestFails \/ CountWallet
Spam == awaitFaucetFundsReady \/ SendBatch \/ BatchFails \/ FindsNoOutput \/ Overshoot
            \/ SpamEnds

Next == Requester \/ Tasks \/ Spam \/ Shutdown

\* The timer of the requester fires again and again, a worker takes the next
\* task and finishes it, and of requests that are made again and again one
\* comes to a wallet with outputs.  The spam owes nothing.
RequestDelivers == \E filling \in Fillings : filling.outputs > 0 /\ RequestGives(filling)

Fairness ==
    /\ WF_vars(Requester)
    /\ WF_vars(StartTask)
    /\ WF_vars(RequestSucceeds \/ RequestFails)
    /\ SF_vars(RequestDelivers)
    /\ WF_vars(CountWallet)

Spec == Init /\ [][Next]_vars /\ Fairness

-----------------------------------------------------------------------------
(* Properties *)

TypeOK ==
    /\ params \in Params
    /\ ctx \in {"open", "done"}
    /\ requester \in {"polling", "returned"}
    /\ pool \in {"on", "off"}
    /\ queued \in 0 .. MaxQueued
    /\ requesting \in Nat /\ returning \in Nat
    /\ requesting + returning <= Workers
    /\ running = requesting
    /\ {walletsReady, left, holes, sent, used, lacking} \subseteq Nat
    /\ overshot \in BOOLEAN
    /\ spam \in {"awaiting", "spamming", "finished"}

outputsNeeded == params.rate * (params.duration \div Second) * numOfInputs

\* "All were requested" means what BigWalletsNeeded was to plan: when the
\* requester shuts the pool down, more outputs were brought than it takes for
\* the spam's whole seconds at its rate, however the requests, their counting
\* and the spam interleaved and whichever requests failed.  What is short of
\* that, splits that failed or were smaller left out of wallets counted ready.
\* (The spam may well need more: it sends parts of seconds too, and a batch may
\* take more outputs than are counted for it.)
PlanDelivered == pool = "off" => left + used + lacking > outputsNeeded

\* Funds that are used up are requested until there are new ones, whether or
\* not the spam goes on, as long as the requester polls: requests that fail are
\* made again.  Both are what the wallets count, so empty indices that nobody
\* reaches, and a counter past the end, stop the requests for ever.
RefillsWhenDrained ==
    UnspentOutputsLeft = 0 /\ requester = "polling"
        ~> UnspentOutputsLeft > 0 \/ requester = "returned" \/ ctx = "done"

\* When the count of a finite spam's outputs is low again and again, the
\* requester returns.  (One that ends with many outputs left, or with the
\* counter of a wallet past the end, does not.)
ReturnsWhenDrained ==
    ~Infinite /\ ([]<>(UnspentOutputsLeft <= 2 * minFundsDeposit)) => <>(requester = "returned")
=============================================================================
