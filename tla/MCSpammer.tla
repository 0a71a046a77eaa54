------------------------------ MODULE MCSpammer ------------------------------
(* Small instance of the spammer. *)
EXTENDS Spammer

CONSTANTS g1, g2, g3

ThreeWorkers == {g1, g2, g3}
=============================================================================
