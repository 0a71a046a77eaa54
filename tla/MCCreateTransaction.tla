------------------------ MODULE MCCreateTransaction ------------------------
(* Small instances of the batches, on the shipped scenarios or their start. *)
EXTENDS CreateTransaction, CustomScenarios

CONSTANTS b1, b2, w1, w2

TwoBatches == {b1, b2}
OneBatch == {b1}
TwoWallets == {w1, w2}
Names == {ToString(i) : i \in 0 .. 8}

\* The first two stages of "guava": both transactions of stage 2 spend the
\* output of stage 1.
GuavaStart == Transactions(SubSeq(Scenario1, 1, 2))

Plain == {Transactions(SingleTransactionBatch), Transactions(NSpendBatch(2)),
          GuavaStart, Transactions(ConflictSetCircle(3))}
Chained == {Transactions(Scenario1)}
Mixed == {Transactions(ConflictSetCircle(4))}

\* No split failed, or some left each wallet its first output without OutputID
\* and its second index empty.
NoneFailed == {[missing |-> {}, unidentified |-> {}]}
SomeFailed == {[missing |-> {FreshOutput(w, 1) : w \in TwoWallets},
                unidentified |-> {FreshOutput(w, 0) : w \in TwoWallets}]}
NoneOrSomeFailed == NoneFailed \union SomeFailed

BatchSymmetry == Permutations(TwoBatches) \union Permutations(TwoWallets)
=============================================================================
