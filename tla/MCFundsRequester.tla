-------------------------- MODULE MCFundsRequester --------------------------
(* Spams of one and of several stages, finite and infinite, of whole seconds   *)
(* and of parts of one.                                                        *)
EXTENDS FundsRequester

P(type, n, rate, duration) ==
    [type |-> type, NSpend |-> n, rate |-> rate, duration |-> duration]

\* Two units make a second.
ShortSpams ==
    {P("tx", 2, 1, 6), P("tx", 2, 2, 3), P("ds", 2, 1, 4), P("guava", 2, 1, 2),
     P("tx", 2, 1, InfiniteDuration)}
F(outputs, empty) == [outputs |-> outputs, empty |-> empty]

\* A wallet of four outputs: all of them, half of them, with the other half
\* empty or not even tried, only empty indices, and nothing.
AnySplits == {F(4, 0), F(2, 2), F(2, 0), F(0, 2), F(0, 0)}
=============================================================================
