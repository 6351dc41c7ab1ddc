------------------------- MODULE MCAutoscaleBilling -------------------------
(* Two levels, at a grosz and a half and at three grosz a block.           *)
EXTENDS AutoscaleBilling

Prices == <<6, 12>>

=============================================================================
