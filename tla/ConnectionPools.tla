--------------------------- MODULE ConnectionPools ---------------------------
(***************************************************************************)
(* The Postgres connections of a worker process.  An advisory lock lives   *)
(* in a session, so who holds one holds a client of a bounded pool for as  *)
(* long, and queries the process's main pool meanwhile.  Neither a wait    *)
(* for a client nor a wait for a lock is timed.                            *)
(***************************************************************************)
EXTENDS Integers, FiniteSets, Sequences, FiniteSetsExt, SequencesExt

CONSTANTS
    Processors,     \* concurrent jobs of the ingest worker
    Casts,          \* the other parts of the process to follow, together
    Targets,        \* what the actors are about: each a raw object and records,
                    \* a sequence of merge-lock buckets
    PoolSize        \* clients of a pool

Others == {"recovery", "sweep", "retention", "import"}
Actors == Processors \cup Others

\* Each job may hold a main client, recovery one and a sweep two, and a query
\* needs one more: 10 clients and 4 jobs in the worker.
ASSUME PoolAssumption ==
    /\ Processors \cap Others = {} /\ IsFiniteSet(Processors)
    /\ Casts \subseteq SUBSET Others
    /\ \A to \in Targets : \A p \in Processors : to[p].records \in Seq(Nat)
    /\ PoolSize \in Nat /\ PoolSize > Cardinality(Processors) + 3

VARIABLES
    cast,           \* which of the other parts run
    target,         \* one of them
    depth,          \* each actor: how much of its plan it holds
    waiting,        \* whether it waits for the next thing of its plan
    query           \* where the query or the transaction it makes is

poolVars == <<cast, target, depth, waiting, query>>

-----------------------------------------------------------------------------
\* What an actor takes, in order, and holds until it leaves.

Client(pool) == [is |-> "client", of |-> pool, id |-> 0]
Lock(what, id) == [is |-> "lock", of |-> what, id |-> id]
Try(what, id) == [is |-> "try", of |-> what, id |-> id]
Shared == [is |-> "shared", of |-> "fence", id |-> 0]
Exclusive == [is |-> "exclusive", of |-> "fence", id |-> 0]

\* withRawRetentionObjectLock, tryWithRawRetentionObjectLock, and
\* withRawRetentionExecutionLock: a client of the caller's pool.
ObjectLock(a) == <<Client("main"), Lock("object", target[a].object)>>
TryObjectLock(a) == <<Client("main"), Try("object", target[a].object)>>
ExecutionLock == <<Client("main"), Try("execution", 0)>>

LocksOf(buckets) ==
    IF buckets = <<>> THEN <<>>
    ELSE <<Client("merge")>> \o [i \in DOMAIN buckets |-> Lock("bucket", buckets[i])]

\* Seeded bug: the locks in the order of the records.
MergeLocksAsTheyCome(a) == LocksOf(target[a].records)

\* The buckets of a set, each once and in order.
Ascending(buckets) ==
    CHOOSE list \in [1 .. Cardinality(buckets) -> buckets] :
        \A i, j \in DOMAIN list : i < j => list[i] < list[j]

\* withLangfuseMergeLocks: a client of its own pool, then the buckets in order.
MergeLocks(a) == LocksOf(Ascending(Range(target[a].records)))

\* Seeded bug: the fence on the caller's pool.
FenceOfCaller(side) == <<Client("main"), side>>

\* withFence: a client of the fence's own pool.
Fence(side) == <<Client("fence"), side>>

Steps(a) ==
    CASE a \in Processors -> ObjectLock(a) \o MergeLocks(a) \o Fence(Shared)
      [] a = "recovery"   -> ObjectLock(a)
      [] a = "sweep"      -> ExecutionLock \o TryObjectLock(a)
      [] a = "retention"  -> Fence(Exclusive)
      [] a = "import"     -> Fence(Shared)

-----------------------------------------------------------------------------
\* Who holds what.

NextStep(a) == Steps(a)[depth[a] + 1]
Holds(a, step) == \E i \in 1 .. depth[a] : Steps(a)[i] = step

InUse(pool) ==
    (UNION {{<<a, i>> : i \in {j \in 1 .. depth[a] : Steps(a)[j] = Client(pool)}} : a \in Actors})
    \cup {<<a, 0>> : a \in {b \in Actors :
                              pool = "main" /\ query[b] \in {"running", "lock", "locked"}}}
PoolFull(pool) == Cardinality(InUse(pool)) >= PoolSize

\* Who stands in the way of a lock.  A shared request queues behind an
\* exclusive one that waits already.
Blockers(a, step) ==
    {b \in Actors \ {a} :
        CASE step.is \in {"lock", "try"} ->
                 Holds(b, Lock(step.of, step.id)) \/ Holds(b, Try(step.of, step.id))
          [] step.is = "shared" ->
                 Holds(b, Exclusive) \/ (waiting[b] /\ NextStep(b) = Exclusive)
          [] step.is = "exclusive" -> Holds(b, Shared) \/ Holds(b, Exclusive)}

Granted(a, step) ==
    IF step.is = "client" THEN ~PoolFull(step.of) ELSE Blockers(a, step) = {}

\* The points of a plan where the callback runs.
Inside(a, d) == d = Len(Steps(a)) \/ (d > 0 /\ Steps(a)[d + 1].is = "client")
InCallback(a) == a \in Processors \cup cast /\ ~waiting[a] /\ query[a] = "none"
Around(a) == LET outer == {d \in 1 .. depth[a] - 1 : Inside(a, d)}
             IN  IF outer = {} THEN 0 ELSE Max(outer)

-----------------------------------------------------------------------------
PoolsInit ==
    /\ cast \in Casts
    /\ target \in Targets
    /\ depth = [a \in Actors |-> 0]
    /\ waiting = [a \in Actors |-> FALSE]
    /\ query = [a \in Actors |-> "none"]

\* pool.connect() of the next lock.
Enter(a) ==
    /\ InCallback(a) /\ depth[a] < Len(Steps(a))
    /\ waiting' = [waiting EXCEPT ![a] = TRUE]
    /\ UNCHANGED <<cast, target, depth, query>>

\* A client is followed by its lock statement, the last lock by the callback.
Grant(a) ==
    /\ waiting[a] /\ Granted(a, NextStep(a))
    /\ depth' = [depth EXCEPT ![a] = @ + 1]
    /\ waiting' = [waiting EXCEPT ![a] = ~Inside(a, depth[a] + 1)]
    /\ UNCHANGED <<cast, target, query>>

\* A try-lock that is not granted gives its client back.
TryFails(a) ==
    /\ waiting[a] /\ NextStep(a).is = "try" /\ ~Granted(a, NextStep(a))
    /\ depth' = [depth EXCEPT ![a] = Around(a)]
    /\ waiting' = [waiting EXCEPT ![a] = FALSE]
    /\ UNCHANGED <<cast, target, query>>

\* The callback is done or throws: the finally unlocks, and releases the client.
Leave(a) ==
    /\ InCallback(a) /\ depth[a] > 0
    /\ depth' = [depth EXCEPT ![a] = Around(a)]
    /\ UNCHANGED <<cast, target, waiting, query>>

\* A query of the callback, on the main pool.
Query(a, from, to) ==
    /\ query[a] = from /\ query' = [query EXCEPT ![a] = to]
    /\ UNCHANGED <<cast, target, depth, waiting>>

Ask(a) == InCallback(a) /\ depth[a] > 0 /\ Query(a, "none", "client")
GetClient(a) == ~PoolFull("main") /\ Query(a, "client", "running")
EndQuery(a) == \E at \in {"running", "locked"} : Query(a, at, "none")

\* A publication's transaction takes the project's feed lock.
Publishes(a) == Holds(a, Shared)
WantFeedLock(a) == Publishes(a) /\ Query(a, "running", "lock")
GetFeedLock(a) == (\A b \in Actors : query[b] # "locked") /\ Query(a, "lock", "locked")

PoolsNext ==
    \E a \in Actors :
        \/ Enter(a) \/ Grant(a) \/ TryFails(a) \/ Leave(a)
        \/ Ask(a) \/ GetClient(a) \/ WantFeedLock(a) \/ GetFeedLock(a) \/ EndQuery(a)

PoolsSpec == PoolsInit /\ [][PoolsNext]_poolVars

-----------------------------------------------------------------------------
(* What the state may be. *)
PoolsTypeOK ==
    /\ cast \in Casts
    /\ waiting \in [Actors -> BOOLEAN]
    /\ query \in [Actors -> {"none", "client", "running", "lock", "locked"}]
    /\ \A a \in Actors : depth[a] \in 0 .. Len(Steps(a))
    /\ \A pool \in {"main", "merge", "fence"} : Cardinality(InUse(pool)) <= PoolSize

Holders(pool) == {slot[1] : slot \in InUse(pool)}

\* Waits that only members of S could end.
WaitsFor(a, S) ==
    \/ /\ waiting[a] /\ NextStep(a).is = "client"
       /\ PoolFull(NextStep(a).of) /\ Holders(NextStep(a).of) \subseteq S
    \/ waiting[a] /\ NextStep(a).is \notin {"client", "try"} /\ Blockers(a, NextStep(a)) \cap S # {}
    \/ query[a] = "client" /\ PoolFull("main") /\ Holders("main") \subseteq S
    \/ query[a] = "lock" /\ \E b \in S \ {a} : query[b] = "locked"

(* "N concurrent shared writers could consume every connection and then      *)
(* deadlock waiting for their own nested queries" (evaluator-lifecycle-      *)
(* fence.ts), and "overlapping batches cannot deadlock" (langfuse-field-     *)
(* provenance.ts): no parts of the process wait for clients and locks that   *)
(* only they hold, though the object locks do use the main pool.             *)
NobodyWaitsForever ==
    \A S \in SUBSET {a \in Actors : waiting[a] \/ query[a] \in {"client", "lock"}} :
        S # {} => \E a \in S : ~WaitsFor(a, S)
=============================================================================
