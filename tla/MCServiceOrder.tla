--------------------------- MODULE MCServiceOrder ---------------------------
(* One order, two payments for it.                                         *)
EXTENDS ServiceOrder, TLC

CONSTANTS p1, p2

PaymentSymmetry == Permutations(Payments)

=============================================================================
