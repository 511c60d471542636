-------------------------- MODULE MCIngestRecovery --------------------------
(* Instances of IngestRecovery for TLC.                                    *)
EXTENDS IngestRecovery, TLC

\* Every request persists the one batch of the instance.
MCReqBatch == [r \in Requests |-> CHOOSE b \in Batches : TRUE]

\* Workers are interchangeable, and so are requests and reconcilers.
Symmetry == Permutations(Workers) \cup Permutations(Requests) \cup Permutations(Recons)
=============================================================================
