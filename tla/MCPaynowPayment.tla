--------------------------- MODULE MCPaynowPayment ---------------------------
(* One record, its payment and one that Paynow opens beside it.            *)
EXTENDS PaynowPayment

CONSTANTS own, repeat, h1, h2

=============================================================================
