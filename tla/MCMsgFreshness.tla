--------------------------- MODULE MCMsgFreshness ---------------------------
(* Instances of MsgFreshness for TLC. *)
EXTENDS MsgFreshness

BudgetOne == [i \in 1 .. 1 |-> 3]
BudgetTwo == [i \in 1 .. 2 |-> IF i = 1 THEN 3 ELSE 1]
=============================================================================
