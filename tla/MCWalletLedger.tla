--------------------------- MODULE MCWalletLedger ---------------------------
(* A small wallet for TLC: two customers, one subaccount, three callers.   *)
EXTENDS WalletLedger

CONSTANTS u1, u2, sub, k1, k2, k3

MCRequests ==
    { [user |-> u1, key |-> k1, delta |-> 2],        \* a top-up web hook
      [user |-> u1, key |-> k2, delta |-> -2],       \* a renewal
      [user |-> u1, key |-> NoKey, delta |-> -1],    \* a charge without a key
      [user |-> u2, key |-> k1, delta |-> 2],        \* an operator reuses a key
      [user |-> sub, key |-> k3, delta |-> 1] }      \* a credit to a subaccount

=============================================================================
