------------------------------- MODULE Spammer -------------------------------
(***************************************************************************)
(* The life of one Spammer (pkg/spammer): Spam starts a goroutine that     *)
(* starts one more goroutine, a worker, at every tick, and then waits on   *)
(* the unbuffered channels done and failed.  A worker runs the spamming    *)
(* function: it prepares a batch, posts it, counts it and, once enough     *)
(* batches were counted, sends on done; it sends on failed when the pool   *)
(* of fresh outputs is exhausted.                                          *)
(*                                                                         *)
(* The two contexts of Spam are kept apart: ctx, cancelled at shutdown, is *)
(* the one the ticking goroutine watches; newContext, which also ends at   *)
(* the deadline, is only handed to the workers.                            *)
(***************************************************************************)
EXTENDS Integers, FiniteSets

CONSTANTS Worker,         \* bound on the goroutines alive at once
          MaxGoroutines,  \* more than that running, and a tick is skipped (100)
          MaxBatchesSent, \* int(MaxDuration * Rate) + 1
          BatchBound      \* bound on the batches of a spammer without an end

ASSUME SpammerAssumption ==
    /\ IsFiniteSet(Worker)
    /\ MaxGoroutines \in Nat
    /\ MaxBatchesSent \in Nat \ {0}
    /\ BatchBound \in Nat

VARIABLES
    maxDuration,    \* sign of MaxDuration: -1 is InfiniteDuration
    ctx,            \* "open" or "done": the context of the program
    newContext,     \* the context of the workers
    spam,           \* Spam: "waiting" on the channels, or "returned"
    loop,           \* the ticking goroutine: "running" or "ended"
    tick,           \* the one-element channel of spamTicker holds a tick
    pc,             \* the workers
    goroutineCount,
    batchPrepared,
    dry             \* history: a worker met NoFreshOutputsAvailable

contexts == <<ctx, newContext>>
vars == <<maxDuration, contexts, spam, loop, tick, pc, goroutineCount,
          batchPrepared, dry>>

Init ==
    /\ maxDuration \in {-1, 0, 1}
    /\ ctx = "open"
    /\ newContext = "open"
    /\ spam = "waiting"
    /\ loop = "running"
    /\ tick = FALSE
    /\ pc = [w \in Worker |-> "free"]
    /\ goroutineCount = 0
    /\ batchPrepared = 0
    /\ dry = FALSE

At(w, from, to) == pc[w] = from /\ pc' = [pc EXCEPT ![w] = to]

-----------------------------------------------------------------------------
(* Time and the environment *)

\* spamTicker fires, unless StopSpamming stopped it; a tick nobody consumed
\* yet absorbs the next one.
Tick ==
    /\ spam = "waiting"
    /\ ~tick
    /\ tick' = TRUE
    /\ UNCHANGED <<maxDuration, contexts, spam, loop, pc, goroutineCount,
                   batchPrepared, dry>>

\* context.WithDeadline: MaxDuration has passed since the start.
Deadline ==
    /\ maxDuration > 0
    /\ newContext = "open"
    /\ newContext' = "done"
    /\ UNCHANGED <<maxDuration, ctx, spam, loop, tick, pc, goroutineCount,
                   batchPrepared, dry>>

\* The program is shut down.
Shutdown ==
    /\ ctx = "open"
    /\ ctx' = "done"
    /\ newContext' = "done"
    /\ UNCHANGED <<maxDuration, spam, loop, tick, pc, goroutineCount,
                   batchPrepared, dry>>

-----------------------------------------------------------------------------
(* The ticking goroutine *)

\* A tick starts a worker, unless too many have been counted as running.
SkipTick == goroutineCount > MaxGoroutines

HandleTick ==
    /\ loop = "running"
    /\ tick
    /\ tick' = FALSE
    /\ IF SkipTick
       THEN UNCHANGED pc
       ELSE \E w \in Worker : At(w, "free", "started")
    /\ UNCHANGED <<maxDuration, contexts, spam, loop, goroutineCount,
                   batchPrepared, dry>>

\* The goroutine returns only when the context of the program is done.
MutDoneSeen == ctx = "done" /\ tick
DoneSeen == ctx = "done"

LoopSeesDone ==
    /\ loop = "running"
    /\ DoneSeen
    /\ loop' = "ended"
    /\ UNCHANGED <<maxDuration, contexts, spam, tick, pc, goroutineCount,
                   batchPrepared, dry>>

-----------------------------------------------------------------------------
(* The workers *)

\* The worker counts itself, after the loop has gone on.
Enter(w) ==
    /\ At(w, "started", "batch")
    /\ goroutineCount' = goroutineCount + 1
    /\ UNCHANGED <<maxDuration, contexts, spam, loop, tick, batchPrepared, dry>>

\* The spamming function prepares the batch, posts its blocks whatever
\* becomes of them, and counts it.
BatchSent(w) ==
    /\ At(w, "batch", "check")
    /\ maxDuration >= 0 \/ batchPrepared < BatchBound
    /\ batchPrepared' = batchPrepared + 1
    /\ UNCHANGED <<maxDuration, contexts, spam, loop, tick, goroutineCount, dry>>

\* The batch could not be prepared: nothing is counted, and only one of the
\* errors is passed on.
BatchFails(w) ==
    /\ \/ At(w, "batch", "leave") /\ UNCHANGED dry
       \/ At(w, "batch", "sendFailed") /\ dry' = TRUE
    /\ UNCHANGED <<maxDuration, contexts, spam, loop, tick, goroutineCount,
                   batchPrepared>>

\* Only a positive duration sets MaxBatchesSent; otherwise it stays 0.
BatchLimit == IF maxDuration > 0 THEN MaxBatchesSent ELSE 0

\* Enough batches were counted for a spammer that has an end.
MutAllSentLater == maxDuration >= 0 /\ batchPrepared > BatchLimit
MutAllSentExactly == maxDuration >= 0 /\ batchPrepared = BatchLimit
MutAllSentAlways == batchPrepared >= BatchLimit
AllSent == maxDuration >= 0 /\ batchPrepared >= BatchLimit

CheckIfAllSent(w) ==
    /\ \/ AllSent /\ At(w, "check", "sendDone")
       \/ ~AllSent /\ At(w, "check", "leave")
    /\ UNCHANGED <<maxDuration, contexts, spam, loop, tick, goroutineCount,
                   batchPrepared, dry>>

MutLeave(w) ==
    /\ At(w, "leave", "free")
    /\ UNCHANGED <<maxDuration, contexts, spam, loop, tick, goroutineCount,
                   batchPrepared, dry>>
Leave(w) ==
    /\ At(w, "leave", "free")
    /\ goroutineCount' = goroutineCount - 1
    /\ UNCHANGED <<maxDuration, contexts, spam, loop, tick, batchPrepared, dry>>

-----------------------------------------------------------------------------
(* Spam *)

\* The select of Spam waits on both channels.
MutOnlyDone(w) == At(w, "sendDone", "leave")
MutOnlyFailed(w) == At(w, "sendFailed", "leave")
Meet(w) == At(w, "sendDone", "leave") \/ At(w, "sendFailed", "leave")

\* A worker and Spam meet on done or failed; StopSpamming stops the ticker
\* and the deferred cancel ends newContext.
Receive(w) ==
    /\ spam = "waiting"
    /\ Meet(w)
    /\ spam' = "returned"
    /\ newContext' = "done"
    /\ UNCHANGED <<maxDuration, ctx, loop, tick, goroutineCount, batchPrepared, dry>>

WorkerStep(w) == \/ Enter(w) \/ BatchSent(w) \/ BatchFails(w)
                 \/ CheckIfAllSent(w) \/ Leave(w)

Next == \/ Tick \/ Deadline \/ Shutdown
        \/ HandleTick \/ LoopSeesDone
        \/ \E w \in Worker : WorkerStep(w) \/ Receive(w)

Spec == Init /\ [][Next]_vars

\* The clock runs, the goroutines are scheduled, and the select of the loop
\* picks at random among the cases that are ready.
Fairness ==
    /\ WF_vars(Tick) /\ WF_vars(Deadline)
    /\ WF_vars(HandleTick) /\ SF_vars(LoopSeesDone)
    /\ \A w \in Worker : WF_vars(WorkerStep(w)) /\ WF_vars(Receive(w))

FairSpec == Spec /\ Fairness

-----------------------------------------------------------------------------
(* Properties *)

Counted == {w \in Worker : pc[w] \notin {"free", "started"}}
Finishing == {w \in Worker : pc[w] \in {"check", "sendDone"}}

\* Type invariant; the counter of the goroutines agrees with those that
\* passed Inc and not Dec, so it never goes below zero.
TypeOK ==
    /\ maxDuration \in {-1, 0, 1}
    /\ ctx \in {"open", "done"} /\ newContext \in {"open", "done"}
    /\ spam \in {"waiting", "returned"}
    /\ loop \in {"running", "ended"}
    /\ tick \in BOOLEAN
    /\ pc \in [Worker -> {"free", "started", "batch", "check", "sendDone",
                          "sendFailed", "leave"}]
    /\ goroutineCount = Cardinality(Counted)
    /\ batchPrepared \in Nat
    /\ dry \in BOOLEAN

\* A worker looks at the limit only once it has counted its batch: a limit of
\* 0 stops the spammer where a limit of 1 would.
StopAfter == IF maxDuration > 0 THEN MaxBatchesSent ELSE 1

\* The workers stop a spammer after the batches it was sized for: the batches
\* counted beyond that belong to workers that count or wait on done,
\* one per worker, and to the one that was received.
OvershootAccounted ==
    maxDuration >= 0 =>
        batchPrepared <= StopAfter - 1 + Cardinality(Finishing)
                            + (IF spam = "returned" THEN 1 ELSE 0)

\* What OvershootAccounted comes to for the user: a spammer with an end never
\* prepares more than MaxBatchesSent batches and one per goroutine.
BatchesBounded ==
    maxDuration >= 0 => batchPrepared <= StopAfter + Cardinality(Worker)

\* Spam never gives up by itself: it has returned only if enough batches were
\* counted or the fresh outputs ran out.
StopJustified ==
    spam = "returned" =>
        dry \/ (maxDuration >= 0 /\ batchPrepared >= StopAfter)

\* Once the last batch is counted, or the outputs are exhausted, Spam returns,
\* although the other workers may block on the same channels for ever.
StopsWhenAllSent ==
    maxDuration >= 0 /\ batchPrepared >= StopAfter ~> spam = "returned"

\* A worker that meets the end of the fresh outputs ends the spammer.
StopsWhenDry == dry ~> spam = "returned"

\* After a shutdown the ticking goroutine ends, even if ticks keep coming,
\* so that no more workers are started.
LoopEnds == ctx = "done" ~> loop = "ended"

\* The comment of Spam: "Function will stop after maxDuration time will pass
\* or when maxBlkSent will be exceeded".
StopsAfterMaxDuration == maxDuration > 0 /\ newContext = "done" ~> spam = "returned"

=============================================================================
