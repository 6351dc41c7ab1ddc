------------------------------ MODULE MCRenewal ------------------------------
(* Three periods, the first at a discount, and two concurrent operations.  *)
EXTENDS Renewal, TLC

CallerSymmetry == Permutations(Callers)

=============================================================================
