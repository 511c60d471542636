---------------------------- MODULE MCIngestPaths ----------------------------
(* One instance of IngestRecovery for three questions: a trace batch under  *)
(* the object's lock, as the worker runs; one without it, as a processor    *)
(* does that is created without retentionExecutionEnabled; and an evaluator *)
(* score with the retry of its request.  The batch of a behaviour is chosen *)
(* at its start; nothing is done with the others.                           *)
EXTENDS IngestRecovery, TLC

CONSTANTS b1, b2, s1, r1, r2, q1, q2

VARIABLE focus

MCReqBatch == (r1 :> b1) @@ (r2 :> b2) @@ (q1 :> s1) @@ (q2 :> s1)

PathsInit == Init /\ focus \in Batches

\* A batch without the object lock, and a score, where more steps interleave,
\* are checked with one reconciler at a time: the first with one fault, the
\* other with one fault less and one worker at a time.
Unlocked == focus \notin Coordinated
OfScore  == focus \in ScoreBatches

PathsNext ==
    /\ Next
    /\ \A r \in Requests : ReqBatch[r] # focus => req'[r] = req[r]
    /\ OfScore \/ Unlocked => Cardinality({c \in Recons : rpc'[c] # "idle"}) <= 1
    /\ OfScore => Cardinality({w \in Workers : wpc'[w] # "idle"}) <= 1
    /\ OfScore => faults' < MaxFaults
    /\ Unlocked => faults' <= 1
    /\ UNCHANGED focus

PathsSpec == PathsInit /\ [][PathsNext]_<<vars, focus>>

\* Workers are interchangeable, and so are a score's requests and reconcilers.
Symmetry == Permutations(Workers) \cup Permutations({q1, q2}) \cup Permutations(Recons)
=============================================================================
