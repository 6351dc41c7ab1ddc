---------------------------- MODULE WalletPromise ----------------------------
(***************************************************************************)
(* What the wallet promises to the rest of the platform, with no           *)
(* transactions, locks or duplicate deliveries in sight: a customer has a  *)
(* balance that is never negative, and a money movement that carries an    *)
(* idempotency key happens at most once whoever asks for it, and however   *)
(* often.  WalletLedger is shown to implement this module.                 *)
(***************************************************************************)
EXTENDS Integers

CONSTANTS
    Users,          \* customers that own a wallet
    Movements,      \* records with a user, a key and a delta
    NoKey           \* the key of a movement that may be repeated

VARIABLES
    wallet,         \* [Users -> Nat]
    booked          \* the keys whose movement has happened

promiseVars == <<wallet, booked>>

PromiseInit ==
    /\ wallet = [u \in Users |-> 0]
    /\ booked = {}

\* One movement of money.
Move(m) ==
    /\ m.key \notin booked
    /\ wallet[m.user] + m.delta >= 0
    /\ wallet' = [wallet EXCEPT ![m.user] = @ + m.delta]
    /\ booked' = booked \cup ({m.key} \ {NoKey})

PromiseNext == \E m \in Movements : Move(m)

Promise == PromiseInit /\ [][PromiseNext]_promiseVars

=============================================================================
