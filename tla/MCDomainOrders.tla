---------------------------- MODULE MCDomainOrders ----------------------------
(* Two orders for a name that is free, elsewhere or ours; two callers.     *)
EXTENDS DomainOrders, TLC

CallerSymmetry == Permutations(Callers)

=============================================================================
