--------------------------- MODULE MCRawRetention ---------------------------
(* One snapshot batch, its request, and one or two sweeping replicas.      *)
EXTENDS RawRetention, TLC

CONSTANTS b1, r1

MCReqBatch == r1 :> b1
Symmetry   == Permutations(Sweeps)
=============================================================================
