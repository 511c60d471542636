---------------------------- MODULE LifecyclePlan ---------------------------
(***************************************************************************)
(* The dry-run lifecycle plan: listings of the pending and the failed      *)
(* prefix, then of each project's raw prefix, under a budget, beside the   *)
(* workers and sweeps that go on meanwhile.  A listing is read one key at  *)
(* a time, in key order.  A batch stands for its key under each prefix.    *)
(***************************************************************************)
EXTENDS Integers, FiniteSets, FiniteSetsExt

CONSTANTS
    Accepted,        \* the batches accepted before the plan: 1 .. n in key order
    Owned,          \* the project of each
    DayOf,          \* the day in its raw key, 0 if the key is not canonical
    Registered,     \* the projects: 1 .. n in order of creation
    CutoffDay,      \* the plan's day less each project's retention days
    Bookkeeping,    \* keys under pending-ingest/.internal, which sort first: -n .. 0
    Limits,         \* scanLimit
    ProjectLimits   \* projectLimit

ASSUME PlanAssumption ==
    /\ Accepted \subseteq Nat \ {0} /\ Registered \subseteq Nat \ {0} /\ Bookkeeping \subseteq Int \ Accepted
    /\ IsFiniteSet(Accepted) /\ IsFiniteSet(Registered) /\ IsFiniteSet(Bookkeeping)
    /\ Limits \subseteq Nat \ {0} /\ ProjectLimits \subseteq Nat \ {0}

VARIABLES
    raw,            \* batches whose raw object is stored
    marked,         \* batches with a pending marker
    diagnosed,      \* batches with a failed diagnostic
    refs,           \* batches with an applied reference in ClickHouse
    before,         \* those that had one when the plan began
    limit, projects,\* the plan's scanLimit, and the projects it includes
    listing,        \* the listings of the pending and of the failed prefix
    counts,         \* references past the cutoff, by project; -1 when incomplete
    scan,           \* the listing of the current project's raw prefix
    budget,         \* rawScanBudgetRemaining
    report          \* the projects planned

planVars == <<raw, marked, diagnosed, refs, before, limit, projects,
              listing, counts, scan, budget, report>>
storageVars == <<raw, marked, diagnosed, refs>>

NotBegun == [at |-> -99, found |-> {}, examined |-> 0, state |-> "open"]
NoCounts == [p \in Registered |-> -2]

PlanInit ==
    /\ raw = Accepted
    /\ marked \in SUBSET {b \in Accepted : DayOf[b] # 0} /\ diagnosed = {} /\ refs = Accepted \ marked
    /\ before = refs
    /\ limit \in Limits
    /\ \E n \in ProjectLimits : projects = {p \in Registered : p <= n}
    /\ listing = [prefix \in {"pending", "failed"} |-> NotBegun]
    /\ counts = NoCounts /\ scan = NotBegun /\ budget = limit
    /\ report = [p \in {} |-> {}]

----------------------------------------------------------------------------
\* A complete UTC day is the safety margin: the cutoff day is not past.
IsPast(b, p) == Owned[b] = p /\ DayOf[b] # 0 /\ DayOf[b] < CutoffDay[p]

\* What goes on meanwhile: a batch is applied, or fails for good, and then its
\* marker is removed; or a sweep removes its object.  No marker comes back.
Applied(b) ==
    /\ b \in marked \ refs /\ refs' = refs \cup {b}
    /\ UNCHANGED <<raw, marked, diagnosed>>
Diagnosed(b) ==
    /\ b \in marked \ (refs \cup diagnosed) /\ diagnosed' = diagnosed \cup {b}
    /\ UNCHANGED <<raw, marked, refs>>
Unmarked(b) ==
    /\ b \in marked \cap (refs \cup diagnosed) /\ marked' = marked \ {b}
    /\ UNCHANGED <<raw, diagnosed, refs>>
Swept(b) ==
    /\ b \in raw \ marked /\ IsPast(b, Owned[b])
    /\ raw' = raw \ {b} /\ refs' = refs \ {b} /\ diagnosed' = diagnosed \ {b}
    /\ UNCHANGED marked

Meanwhile ==
    /\ \E b \in Accepted : Applied(b) \/ Diagnosed(b) \/ Unmarked(b) \/ Swept(b)
    /\ UNCHANGED <<before, limit, projects, listing, counts, scan, budget, report>>

----------------------------------------------------------------------------
\* One key of a listing, under a limit; a key to ignore counts all the same.
NextKey(l, keys, ignored, most) ==
    LET rest == {k \in keys : k > l.at} IN
    IF rest = {} THEN [l EXCEPT !.state = "complete"]
    ELSE IF l.examined + 1 > most THEN [l EXCEPT !.state = "cut"]
    ELSE [l EXCEPT !.at = Min(rest), !.examined = @ + 1, !.found = @ \cup ({Min(rest)} \ ignored)]

KeysUnder(prefix) == IF prefix = "pending" THEN marked \cup Bookkeeping ELSE diagnosed

ListPrefix(prefix) ==
    /\ listing[prefix].state = "open"
    /\ listing' = [listing EXCEPT ![prefix] = NextKey(@, KeysUnder(prefix), Bookkeeping, limit)]
    /\ UNCHANGED <<storageVars, before, limit, projects, counts, scan, budget, report>>

\* One query for all projects, or none when a read limit throws.  Its cutoff is
\* an instant: what it counts of the cutoff day comes on top, and is left out.
CountIndexed ==
    /\ counts = NoCounts
    /\ \/ counts' = [p \in Registered |-> IF p \in projects
                        THEN Cardinality({b \in refs : IsPast(b, p)}) ELSE -1]
       \/ counts' = [p \in Registered |-> -1]
    /\ UNCHANGED <<storageVars, before, limit, projects, listing, scan, budget, report>>

Prepared ==
    /\ counts # NoCounts
    /\ \A prefix \in DOMAIN listing : listing[prefix].state # "open"
Left == projects \ DOMAIN report
Planning == Min(Left)

\* Seeded bug: each project is listed up to the limit.
ScanRawUnshared ==
    /\ Prepared /\ Left # {} /\ scan.state = "open"
    /\ scan' = NextKey(scan, {b \in raw : Owned[b] = Planning}, {}, limit)
    /\ UNCHANGED <<storageVars, before, limit, projects, listing, counts, budget, report>>

\* A project for which nothing of the budget is left is not listed at all.
ScanRaw ==
    /\ Prepared /\ Left # {} /\ scan.state = "open"
    /\ scan' = IF budget = 0 THEN [scan EXCEPT !.state = "cut"]
               ELSE NextKey(scan, {b \in raw : Owned[b] = Planning}, {}, budget)
    /\ UNCHANGED <<storageVars, before, limit, projects, listing, counts, budget, report>>

\* Seeded bug: only the raw listing has to be complete.
CoveredByRaw == scan.state = "complete"

Covered == /\ \A prefix \in DOMAIN listing : listing[prefix].state = "complete"
           /\ scan.state = "complete"

\* expiredCandidates, protectedByPending, withFailedDiagnostic.
Classify ==
    /\ scan.state # "open"
    /\ LET past == {b \in scan.found : IsPast(b, Planning)} IN
       report' = [p \in DOMAIN report \cup {Planning} |->
           IF p \in DOMAIN report THEN report[p]
           ELSE [past |-> past, protected |-> past \cap listing["pending"].found,
                 failed |-> past \cap listing["failed"].found,
                 listed |-> scan.state = "complete", covered |-> Covered]]
    /\ budget' = budget - scan.examined
    /\ scan' = NotBegun
    /\ UNCHANGED <<storageVars, before, limit, projects, listing, counts>>

PlanNext ==
    \/ Meanwhile \/ CountIndexed \/ ScanRaw \/ Classify
    \/ \E prefix \in {"pending", "failed"} : ListPrefix(prefix)

PlanSpec == PlanInit /\ [][PlanNext]_planVars

(* What the state may be. *)
PlanTypeOK ==
    /\ raw \subseteq Accepted /\ marked \subseteq Accepted
    /\ diagnosed \subseteq Accepted /\ refs \subseteq Accepted /\ before \subseteq Accepted
    /\ limit \in Limits /\ projects \subseteq Registered
    /\ budget \in 0 .. limit
    /\ counts \in [Registered -> -2 .. Cardinality(Accepted)]
    /\ DOMAIN report \subseteq projects

(* What a plan says of a project stays true of what goes on: "A matching     *)
(* pending-ingest intent puts an expired raw batch under protectedByPending, *)
(* never expiredWithoutPendingMarker" (spec/lifecycle-planning-v1.md) where  *)
(* coverage is complete; a complete listing missed nothing that is still     *)
(* there, and a count nothing; only objects of days before the cutoff are    *)
(* candidates; and an incomplete scan is visibly incomplete: what a limit    *)
(* kept out is not passed for absent.                                        *)
NeverPending == \A p \in DOMAIN report :
    report[p].covered => (report[p].past \ report[p].protected) \cap marked = {}
NothingMissed == \A p \in DOMAIN report :
    /\ report[p].listed => {b \in raw : IsPast(b, p)} \subseteq report[p].past
    /\ counts[p] >= 0 => counts[p] >= Cardinality({b \in refs \cap before : IsPast(b, p)})

PlanHolds == NeverPending /\ NothingMissed /\ budget >= 0
=============================================================================
