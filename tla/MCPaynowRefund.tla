--------------------------- MODULE MCPaynowRefund ---------------------------
(* A payment of three units, two operators.                                *)
EXTENDS PaynowRefund, TLC

CONSTANTS o1, o2

OperatorSymmetry == Permutations(Operators)

=============================================================================
