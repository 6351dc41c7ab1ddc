-------------------------- MODULE MCStripeWebhook --------------------------
(* One customer pays twice: the first payment is reported by two events.   *)
EXTENDS StripeWebhook

CONSTANTS e1, e2, e3, s1, s2, u1

MCSession == [e \in Events |-> IF e = e3 THEN s2 ELSE s1]
MCPayer == [s \in Sessions |-> u1]
MCPaid == [s \in Sessions |-> IF s = s1 THEN 2 ELSE 5]

=============================================================================
