-------------------------- MODULE MCEvaluatorFeed ---------------------------
\* Instances of EvaluatorFeed for TLC: a trace written by two batches, next to
\* one stored before the feed existed, or by the import runs of two processes.
EXTENDS EvaluatorFeed, TLC

CONSTANTS b1, b2, o1, o2, w1, w2

\* The root with an observation, and the observation alone.
MCBatchKeys == (b1 :> {<<1, Root>>, <<1, o1>>}) @@ (b2 :> {<<1, o1>>})
MCNoBatches == [b \in {} |-> {}]

\* The second trace outlives the run.
MCExpires == [t \in Traces |-> IF t = 1 THEN MaxClock ELSE MaxClock + 1]

MCNothingExpires == [t \in Traces |-> MaxClock + 1]

\* Two versions of the provider's tree that share only the root.
MCTreeObs == (1 :> {o1}) @@ (2 :> {o2})
MCOneTree == 1 :> {o1}

\* A bootstrap scan, which begins with older traces as well, is followed
\* through one mishap less.
FeedNext == Next /\ (consumer = "scan" => mishaps' < MaxMishaps)
FeedSpec == Init /\ [][FeedNext]_vars

Symmetry == Permutations({w1, w2})
=============================================================================
