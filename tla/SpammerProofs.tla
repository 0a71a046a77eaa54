--------------------------- MODULE SpammerProofs ---------------------------
(***************************************************************************)
(* Proofs about the spammer, for any number of worker goroutines and any   *)
(* MaxBatchesSent.                                                         *)
(***************************************************************************)
EXTENDS Spammer, FiniteSetTheorems, TLAPS

\* Sets of workers are finite.
LEMMA WorkerFacts ==
    /\ IsFiniteSet(Worker) /\ Cardinality(Worker) \in Nat
    /\ \A S \in SUBSET Worker : /\ IsFiniteSet(S)
                                /\ Cardinality(S) \in Nat
                                /\ Cardinality(S) <= Cardinality(Worker)
BY SpammerAssumption, FS_Subset, FS_CardinalityType

\* How many workers are in a given set of places when one of them moves.
LEMMA OneMoves ==
    ASSUME NEW A \in SUBSET Worker, NEW B \in SUBSET Worker, NEW w \in Worker,
           \A v \in Worker : v # w => (v \in A <=> v \in B)
    PROVE  /\ (w \in A <=> w \in B) => Cardinality(B) = Cardinality(A)
           /\ w \notin A /\ w \in B => Cardinality(B) = Cardinality(A) + 1
           /\ w \in A /\ w \notin B => Cardinality(B) = Cardinality(A) - 1
<1>1. ASSUME w \in A <=> w \in B PROVE Cardinality(B) = Cardinality(A)
  <2>1. A = B
    BY <1>1
  <2> QED BY <2>1
<1>2. ASSUME w \notin A, w \in B PROVE Cardinality(B) = Cardinality(A) + 1
  <2>1. B = A \union {w}
    BY <1>2
  <2> QED BY <1>2, <2>1, WorkerFacts, FS_AddElement
<1>3. ASSUME w \in A, w \notin B PROVE Cardinality(B) = Cardinality(A) - 1
  <2>1. B = A \ {w}
    BY <1>3
  <2> QED BY <1>3, <2>1, WorkerFacts, FS_RemoveElement
<1> QED BY <1>1, <1>2, <1>3

\* The sets of workers the invariants count.
LEMMA Subsets == /\ Counted \in SUBSET Worker /\ Counted' \in SUBSET Worker
                 /\ Finishing \in SUBSET Worker /\ Finishing' \in SUBSET Worker
BY DEF Counted, Finishing

\* How a worker that moves from one place to another changes the two counts.
LEMMA Moves ==
    ASSUME TypeOK, NEW w \in Worker,
           NEW from \in {"free", "started", "batch", "check", "sendDone",
                         "sendFailed", "leave"},
           NEW to \in {"free", "started", "batch", "check", "sendDone",
                       "sendFailed", "leave"},
           At(w, from, to)
    PROVE  /\ pc' \in [Worker -> {"free", "started", "batch", "check", "sendDone",
                                  "sendFailed", "leave"}]
           /\ \A v \in Worker : v # w =>
                   (v \in Counted <=> v \in Counted') /\
                   (v \in Finishing <=> v \in Finishing')
           /\ w \in Counted <=> from \notin {"free", "started"}
           /\ w \in Counted' <=> to \notin {"free", "started"}
           /\ w \in Finishing <=> from \in {"check", "sendDone"}
           /\ w \in Finishing' <=> to \in {"check", "sendDone"}
BY DEF TypeOK, At, Counted, Finishing

Inv == TypeOK /\ OvershootAccounted

\* Nothing has been counted at the start.
LEMMA InvInit == Init => Inv
<1> SUFFICES ASSUME Init PROVE Inv
  OBVIOUS
<1>1. Counted = {} /\ Finishing = {}
  BY DEF Init, Counted, Finishing
<1>2. Cardinality({}) = 0
  BY FS_EmptySet
<1>3. TypeOK
  BY <1>1, <1>2 DEF Init, TypeOK
<1>4. OvershootAccounted
  BY <1>1, <1>2, SpammerAssumption DEF Init, OvershootAccounted, StopAfter
<1> QED BY <1>3, <1>4 DEF Inv

\* Inv is inductive: every step moves at most one worker.
LEMMA InvNext == Inv /\ [Next]_vars => Inv'
<1> SUFFICES ASSUME Inv, [Next]_vars PROVE Inv'
  OBVIOUS
<1> USE DEF Inv
<1>0. /\ Cardinality(Counted) \in Nat /\ Cardinality(Finishing) \in Nat
      /\ MaxBatchesSent \in Nat /\ batchPrepared \in Nat
  BY Subsets, WorkerFacts, SpammerAssumption DEF TypeOK
<1>1. ASSUME UNCHANGED <<pc, goroutineCount, batchPrepared, maxDuration, spam, dry>>,
             ctx' \in {"open", "done"}, newContext' \in {"open", "done"},
             loop' \in {"running", "ended"}, tick' \in BOOLEAN
      PROVE  Inv'
  <2>1. Counted' = Counted /\ Finishing' = Finishing
    BY <1>1 DEF Counted, Finishing
  <2> QED BY <1>1, <2>1 DEF TypeOK, OvershootAccounted, StopAfter
<1>2. CASE Tick \/ Deadline \/ Shutdown \/ LoopSeesDone \/ UNCHANGED vars
  BY <1>1, <1>2 DEF TypeOK, Tick, Deadline, Shutdown, LoopSeesDone, contexts, vars
<1>3. CASE HandleTick
  <2>1. CASE SkipTick
    BY <1>1, <1>3, <2>1 DEF TypeOK, HandleTick, contexts
  <2>2. CASE ~SkipTick
    <3>1. PICK w \in Worker : At(w, "free", "started")
      BY <1>3, <2>2 DEF HandleTick
    <3>2. /\ UNCHANGED <<maxDuration, contexts, spam, loop, goroutineCount,
                         batchPrepared, dry>>
          /\ tick' = FALSE
      BY <1>3 DEF HandleTick
    <3>3. /\ Cardinality(Counted') = Cardinality(Counted)
          /\ Cardinality(Finishing') = Cardinality(Finishing)
      BY <3>1, Moves, OneMoves, Subsets
    <3>4. pc' \in [Worker -> {"free", "started", "batch", "check", "sendDone",
                              "sendFailed", "leave"}]
      BY <3>1, Moves
    <3> QED BY <3>2, <3>3, <3>4 DEF TypeOK, OvershootAccounted, StopAfter, contexts
  <2> QED BY <2>1, <2>2
<1>4. ASSUME NEW w \in Worker, Enter(w) PROVE Inv'
  <2>1. At(w, "started", "batch") /\ goroutineCount' = goroutineCount + 1
    BY <1>4 DEF Enter
  <2>2. /\ Cardinality(Counted') = Cardinality(Counted) + 1
        /\ Cardinality(Finishing') = Cardinality(Finishing)
    BY <2>1, Moves, OneMoves, Subsets
  <2>3. pc' \in [Worker -> {"free", "started", "batch", "check", "sendDone",
                            "sendFailed", "leave"}]
    BY <2>1, Moves
  <2> QED BY <1>4, <2>1, <2>2, <2>3 DEF TypeOK, OvershootAccounted, StopAfter, Enter, contexts
<1>5. ASSUME NEW w \in Worker, BatchSent(w) PROVE Inv'
  <2>1. At(w, "batch", "check") /\ batchPrepared' = batchPrepared + 1
    BY <1>5 DEF BatchSent
  <2>2. /\ Cardinality(Counted') = Cardinality(Counted)
        /\ Cardinality(Finishing') = Cardinality(Finishing) + 1
    BY <2>1, Moves, OneMoves, Subsets
  <2>3. pc' \in [Worker -> {"free", "started", "batch", "check", "sendDone",
                            "sendFailed", "leave"}]
    BY <2>1, Moves
  <2> QED BY <1>0, <1>5, <2>1, <2>2, <2>3
          DEF TypeOK, OvershootAccounted, StopAfter, BatchSent, contexts
<1>6. ASSUME NEW w \in Worker, BatchFails(w) PROVE Inv'
  <2>1. /\ Cardinality(Counted') = Cardinality(Counted)
        /\ Cardinality(Finishing') = Cardinality(Finishing)
        /\ pc' \in [Worker -> {"free", "started", "batch", "check", "sendDone",
                               "sendFailed", "leave"}]
    <3>1. CASE At(w, "batch", "leave")
      BY <3>1, Moves, OneMoves, Subsets
    <3>2. CASE At(w, "batch", "sendFailed")
      BY <3>2, Moves, OneMoves, Subsets
    <3> QED BY <1>6, <3>1, <3>2 DEF BatchFails
  <2> QED BY <1>6, <2>1 DEF TypeOK, OvershootAccounted, StopAfter, BatchFails, contexts
<1>7. ASSUME NEW w \in Worker, CheckIfAllSent(w) PROVE Inv'
  <2>1. UNCHANGED <<maxDuration, contexts, spam, loop, tick, goroutineCount,
                    batchPrepared, dry>>
    BY <1>7 DEF CheckIfAllSent
  <2>2. CASE AllSent /\ At(w, "check", "sendDone")
    <3>1. /\ Cardinality(Counted') = Cardinality(Counted)
          /\ Cardinality(Finishing') = Cardinality(Finishing)
          /\ pc' \in [Worker -> {"free", "started", "batch", "check", "sendDone",
                                 "sendFailed", "leave"}]
      BY <2>2, Moves, OneMoves, Subsets
    <3> QED BY <2>1, <3>1 DEF TypeOK, OvershootAccounted, StopAfter, contexts
  <2>3. CASE ~AllSent /\ At(w, "check", "leave")
    <3>1. /\ Cardinality(Counted') = Cardinality(Counted)
          /\ pc' \in [Worker -> {"free", "started", "batch", "check", "sendDone",
                                 "sendFailed", "leave"}]
      BY <2>3, Moves, OneMoves, Subsets
    <3>2. Cardinality(Finishing') \in Nat
      BY Subsets, WorkerFacts
    <3>3. maxDuration >= 0 => batchPrepared <= StopAfter - 1
      BY <1>0, <2>3 DEF TypeOK, AllSent, BatchLimit, StopAfter
    <3>4. OvershootAccounted'
      BY <1>0, <2>1, <3>2, <3>3 DEF TypeOK, OvershootAccounted, StopAfter
    <3> QED BY <2>1, <3>1, <3>4 DEF TypeOK, contexts
  <2> QED BY <1>7, <2>2, <2>3 DEF CheckIfAllSent
<1>8. ASSUME NEW w \in Worker, Leave(w) PROVE Inv'
  <2>1. At(w, "leave", "free") /\ goroutineCount' = goroutineCount - 1
    BY <1>8 DEF Leave
  <2>2. /\ Cardinality(Counted') = Cardinality(Counted) - 1
        /\ Cardinality(Finishing') = Cardinality(Finishing)
    BY <2>1, Moves, OneMoves, Subsets
  <2>3. pc' \in [Worker -> {"free", "started", "batch", "check", "sendDone",
                            "sendFailed", "leave"}]
    BY <2>1, Moves
  <2> QED BY <1>8, <2>1, <2>2, <2>3 DEF TypeOK, OvershootAccounted, StopAfter, Leave, contexts
<1>9. ASSUME NEW w \in Worker, Receive(w) PROVE Inv'
  <2>1. /\ spam = "waiting" /\ spam' = "returned" /\ newContext' = "done"
        /\ UNCHANGED <<maxDuration, ctx, loop, tick, goroutineCount, batchPrepared, dry>>
    BY <1>9 DEF Receive
  <2>2. /\ Cardinality(Counted') = Cardinality(Counted)
        /\ \/ Cardinality(Finishing') = Cardinality(Finishing)
           \/ Cardinality(Finishing') = Cardinality(Finishing) - 1
        /\ pc' \in [Worker -> {"free", "started", "batch", "check", "sendDone",
                               "sendFailed", "leave"}]
    <3>1. CASE At(w, "sendDone", "leave")
      BY <3>1, Moves, OneMoves, Subsets
    <3>2. CASE At(w, "sendFailed", "leave")
      BY <3>2, Moves, OneMoves, Subsets
    <3> QED BY <1>9, <3>1, <3>2 DEF Receive, Meet
  <2>3. OvershootAccounted'
    BY <1>0, <2>1, <2>2 DEF TypeOK, OvershootAccounted, StopAfter
  <2> QED BY <2>1, <2>2, <2>3 DEF TypeOK
<1> QED BY <1>2, <1>3, <1>4, <1>5, <1>6, <1>7, <1>8, <1>9 DEF Next, WorkerStep

\* The types, and the agreement of goroutineCount with the running workers.
THEOREM SpammerTypeCorrect == Spec => []TypeOK
<1>1. Inv => TypeOK
  BY DEF Inv
<1> QED BY <1>1, InvInit, InvNext, PTL DEF Spec

\* Every batch that CheckIfAllSent lets through beyond the limit belongs to a
\* worker on its way from counting to leaving, or to the one Spam received.
THEOREM OvershootIsAccounted == Spec => []OvershootAccounted
<1>1. Inv => OvershootAccounted
  BY DEF Inv
<1> QED BY <1>1, InvInit, InvNext, PTL DEF Spec

\* A spammer with an end prepares at most StopAfter batches and one more
\* per goroutine, however its workers interleave and whenever it stops.
THEOREM BatchesAreBounded == Spec => []BatchesBounded
<1>1. Inv => BatchesBounded
  <2> SUFFICES ASSUME Inv, maxDuration >= 0
               PROVE  batchPrepared <= StopAfter + Cardinality(Worker)
    BY DEF BatchesBounded
  <2>1. /\ Cardinality(Finishing) \in Nat /\ Cardinality(Worker) \in Nat
        /\ Cardinality(Finishing) <= Cardinality(Worker)
    BY Subsets, WorkerFacts
  <2>2. batchPrepared <= StopAfter - 1 + Cardinality(Finishing)
                            + (IF spam = "returned" THEN 1 ELSE 0)
    BY DEF Inv, OvershootAccounted
  <2> QED BY <2>1, <2>2, SpammerAssumption DEF Inv, TypeOK, StopAfter
<1> QED BY <1>1, InvInit, InvNext, PTL DEF Spec

-----------------------------------------------------------------------------

\* Strengthening of StopJustified: what each blocked sender has seen, and
\* that a worker that looks at the limit has counted a batch.
SendersJustified ==
    \A w \in Worker :
        /\ pc[w] = "check" => batchPrepared >= 1
        /\ pc[w] = "sendDone" => maxDuration >= 0 /\ batchPrepared >= StopAfter
        /\ pc[w] = "sendFailed" => dry

StopInv == Inv /\ SendersJustified /\ StopJustified

\* The strengthened invariant is inductive.
LEMMA StopInvNext == StopInv /\ [Next]_vars => StopInv'
<1> SUFFICES ASSUME Inv, SendersJustified, StopJustified, [Next]_vars
             PROVE  SendersJustified' /\ StopJustified'
  BY InvNext DEF StopInv
<1>0. /\ batchPrepared \in Nat /\ MaxBatchesSent \in Nat
      /\ \A w \in Worker, to \in STRING, v \in Worker :
            pc' = [pc EXCEPT ![w] = to] => pc'[v] = IF v = w THEN to ELSE pc[v]
  BY SpammerAssumption DEF Inv, TypeOK
<1>1. CASE Tick \/ Deadline \/ Shutdown \/ LoopSeesDone \/ UNCHANGED vars
  BY <1>1 DEF SendersJustified, StopJustified, StopAfter, Tick, Deadline, Shutdown,
              LoopSeesDone, contexts, vars
<1>2. CASE HandleTick
  <2>1. UNCHANGED <<maxDuration, spam, batchPrepared, dry>>
    BY <1>2 DEF HandleTick
  <2>2. CASE UNCHANGED pc
    BY <2>1, <2>2 DEF SendersJustified, StopJustified, StopAfter
  <2>3. ASSUME NEW w \in Worker, At(w, "free", "started")
        PROVE  SendersJustified' /\ StopJustified'
    BY <1>0, <2>1, <2>3 DEF SendersJustified, StopJustified, StopAfter, At
  <2> QED BY <1>2, <2>2, <2>3 DEF HandleTick
<1>3. ASSUME NEW w \in Worker, Enter(w) PROVE SendersJustified' /\ StopJustified'
  BY <1>0, <1>3 DEF SendersJustified, StopJustified, StopAfter, Enter, At
<1>4. ASSUME NEW w \in Worker, BatchSent(w) PROVE SendersJustified' /\ StopJustified'
  BY <1>0, <1>4 DEF SendersJustified, StopJustified, StopAfter, BatchSent, At
<1>5. ASSUME NEW w \in Worker, BatchFails(w) PROVE SendersJustified' /\ StopJustified'
  <2>1. UNCHANGED <<maxDuration, spam, batchPrepared>>
    BY <1>5 DEF BatchFails
  <2>2. CASE At(w, "batch", "leave") /\ UNCHANGED dry
    BY <1>0, <2>1, <2>2 DEF SendersJustified, StopJustified, StopAfter, At
  <2>3. CASE At(w, "batch", "sendFailed") /\ dry' = TRUE
    BY <1>0, <2>1, <2>3 DEF SendersJustified, StopJustified, StopAfter, At
  <2> QED BY <1>5, <2>2, <2>3 DEF BatchFails
<1>6. ASSUME NEW w \in Worker, CheckIfAllSent(w)
      PROVE  SendersJustified' /\ StopJustified'
  <2>1. UNCHANGED <<maxDuration, spam, batchPrepared, dry>>
    BY <1>6 DEF CheckIfAllSent
  <2>2. CASE AllSent /\ At(w, "check", "sendDone")
    <3>1. batchPrepared >= 1
      BY <2>2 DEF SendersJustified, At
    <3>2. maxDuration >= 0 /\ batchPrepared >= StopAfter
      BY <1>0, <2>2, <3>1 DEF AllSent, BatchLimit, StopAfter
    <3> QED BY <1>0, <2>1, <2>2, <3>2 DEF SendersJustified, StopJustified, StopAfter, At
  <2>3. CASE At(w, "check", "leave")
    BY <1>0, <2>1, <2>3 DEF SendersJustified, StopJustified, StopAfter, At
  <2> QED BY <1>6, <2>2, <2>3 DEF CheckIfAllSent
<1>7. ASSUME NEW w \in Worker, Leave(w) PROVE SendersJustified' /\ StopJustified'
  BY <1>0, <1>7 DEF SendersJustified, StopJustified, StopAfter, Leave, At
<1>8. ASSUME NEW w \in Worker, Receive(w) PROVE SendersJustified' /\ StopJustified'
  <2>1. UNCHANGED <<maxDuration, batchPrepared, dry>>
    BY <1>8 DEF Receive
  <2>2. CASE At(w, "sendDone", "leave")
    <3>1. maxDuration >= 0 /\ batchPrepared >= StopAfter
      BY <2>2 DEF SendersJustified, At
    <3>2. StopJustified'
      BY <2>1, <3>1 DEF StopJustified, StopAfter
    <3>3. SendersJustified'
      BY <1>0, <2>1, <2>2 DEF SendersJustified, StopAfter, At
    <3> QED BY <3>2, <3>3
  <2>3. CASE At(w, "sendFailed", "leave")
    BY <1>0, <2>1, <2>3 DEF SendersJustified, StopJustified, StopAfter, At
  <2> QED BY <1>8, <2>2, <2>3 DEF Receive, Meet
<1> QED BY <1>1, <1>2, <1>3, <1>4, <1>5, <1>6, <1>7, <1>8 DEF Next, WorkerStep

\* Spam returns only after enough batches or the end of the fresh outputs:
\* neither the deadline nor a shutdown makes it return.
THEOREM StopsAreJustified == Spec => []StopJustified
<1>1. Init => StopInv
  BY InvInit DEF Init, StopInv, SendersJustified, StopJustified
<1>2. StopInv => StopJustified
  BY DEF StopInv
<1> QED BY <1>1, <1>2, StopInvNext, PTL DEF Spec

=============================================================================
