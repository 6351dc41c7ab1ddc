--------------------------- MODULE MCTopUpReversal ---------------------------
EXTENDS TopUpReversal, TLC
CONSTANTS refund, dispute, w1, w2
\* A refund of half and a dispute of the whole of a payment of 4, credited net of
\* VAT with 3: the half is 1.5, rounded up to 2.
MCAmount == [e \in Reversals |-> IF e = refund THEN 2 ELSE 4]
WorkerSymmetry == Permutations(Reversers)
=============================================================================
