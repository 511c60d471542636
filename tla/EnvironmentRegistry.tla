-------------------------- MODULE EnvironmentRegistry --------------------------
(***************************************************************************)
(* The environments of a project: a bounded list in Postgres of the names  *)
(* its traces in ClickHouse carry.  Writers add to it what they have just  *)
(* written; the workers rebuild it from the traces in checkpointed chunks  *)
(* and swap it in, while rows keep being written, observed and removed.    *)
(* Only admission, visibility and the swap take the project's lock.        *)
(***************************************************************************)
EXTENDS Integers, Sequences, FiniteSets, FiniteSetsExt, Functions

CONSTANTS
    Replicas,       \* worker replicas
    Slots,          \* the (timestamp, id) keys of traces: 1 .. n, newest last
    Names,          \* environment names, numbers in the order of their spelling
    Cap,            \* MAX_OBSERVED_ENVIRONMENTS_PER_PROJECT
    ScanSize,       \* ENVIRONMENT_REBUILD_PAGE_SIZE
    MaxWrites,      \* bound on traces written or removed
    MaxRebuilds,    \* bound on rebuilds
    MaxLapses,      \* bound on errors, deaths and leases that are outlived
    Nobody

ASSUME RegistryAssumption ==
    /\ Slots \subseteq Nat \ {0} /\ Slots # {} /\ IsFiniteSet(Slots) /\ Names \subseteq Nat \ {0}
    /\ Cap \in Nat \ {0} /\ ScanSize \in Nat \ {0}
    /\ {MaxWrites, MaxRebuilds, MaxLapses} \subseteq Nat /\ Nobody \notin Replicas

VARIABLES
    traces,     \* the environment of the trace with each key; 0: no such trace
    unobserved, \* what was written and is still to be observed by its writer
    registry,   \* project_environments: first and last seen (0: not listed),
                \* hidden, and whether updated_at is after rebuild_started_at
    overflow,   \* overflowed, and whether last_overflow_at is after the start
    rebuild,    \* rebuild_started_at as a number (0: none), the cursor, the
                \* candidates, and whether next_rebuild_at has come
    locked,     \* who holds the project's advisory lock
    chunk,      \* the chunk each replica is running
    counts      \* rebuilds begun, writes and lapses so far

envVars == <<traces, unobserved, registry, overflow, rebuild, locked, chunk, counts>>

Beginning == Max(Slots) + 1
NotListed == [first |-> 0, last |-> 0, hidden |-> FALSE, recent |-> FALSE]
NoRebuild == [started |-> 0, cursor |-> Beginning, candidates |-> <<>>, due |-> FALSE]
NoChunk == [pc |-> "idle", started |-> 0, cursor |-> Beginning, candidates |-> <<>>,
            current |-> [n \in Names |-> NotListed], stats |-> {}]

EnvInit ==
    /\ traces = [s \in Slots |-> 0] /\ unobserved = {}
    /\ registry = [n \in Names |-> NotListed]
    /\ overflow = [flag |-> FALSE, recent |-> FALSE]
    /\ rebuild = NoRebuild /\ locked = Nobody
    /\ chunk = [r \in Replicas |-> NoChunk]
    /\ counts = [rebuilds |-> 0, writes |-> 0, lapses |-> 0]

Listed(n) == registry[n].last # 0
ListedNames == {n \in Names : Listed(n)}
Count(what, bound) == counts[what] < bound /\ counts' = [counts EXCEPT ![what] = @ + 1]
Lapse == Count("lapses", MaxLapses)

\* The most recently seen first, then by name.
ByRecency(a, b) == a.last > b.last \/ (a.last = b.last /\ a.name < b.name)
Recent(entries, n) ==
    {e \in entries : Cardinality({x \in entries : ByRecency(x, e)}) < n}

-----------------------------------------------------------------------------
\* What writers do.

\* A row is written (a trace may be written again with another environment) or
\* removed: by retention, or because it moved under another key.
WriteTrace(s, n) ==
    /\ Count("writes", MaxWrites) /\ traces[s] # n
    /\ traces' = [traces EXCEPT ![s] = n]
    /\ unobserved' = IF n = 0 THEN unobserved ELSE unobserved \cup {<<s, n>>}
    /\ UNCHANGED <<registry, overflow, rebuild, locked, chunk>>

\* mergeObservations: one entry for each name.
Merged(rows) ==
    {[name |-> n, first |-> Min({r[1] : r \in {q \in rows : q[2] = n}}),
                  last |-> Max({r[1] : r \in {q \in rows : q[2] = n}})]
        : n \in {r[2] : r \in rows}}

\* Listed names are extended, the most recent new ones admitted as far as
\* there is room.
Admit(rows) ==
    LET incoming == Merged(rows)
        novel == {e \in incoming : ~Listed(e.name)}
        admitted == Recent(novel, Max({0, Cap - Cardinality(ListedNames)}))
        changed == admitted \cup (incoming \ novel)
    IN  /\ unobserved' = unobserved \ rows
        /\ registry' = [n \in Names |->
              IF \A e \in changed : e.name # n THEN registry[n]
              ELSE LET e == CHOOSE x \in changed : x.name = n IN
                   [hidden |-> registry[n].hidden, recent |-> TRUE,
                    first |-> IF Listed(n) THEN Min({e.first, registry[n].first}) ELSE e.first,
                    last |-> Max({e.last, registry[n].last})]]
        /\ overflow' = IF admitted = novel THEN overflow ELSE [flag |-> TRUE, recent |-> TRUE]
        /\ UNCHANGED <<traces, rebuild, locked, chunk, counts>>

\* Seeded bug: the observation does not wait for the project's lock.
ObserveUnlocked(rows) == rows # {} /\ Admit(rows)

\* observeProjectEnvironments: one transaction under the lock.
Observe(rows) == rows # {} /\ locked = Nobody /\ Admit(rows)

\* Seeded bug: visibility is set without the project's lock.
SetHiddenUnlocked(n, hidden) ==
    /\ Listed(n) /\ registry' = [registry EXCEPT ![n].hidden = hidden]
    /\ UNCHANGED <<traces, unobserved, overflow, rebuild, locked, chunk, counts>>

\* setProjectEnvironmentHidden.
SetHidden(n, hidden) ==
    /\ Listed(n) /\ locked = Nobody
    /\ registry' = [registry EXCEPT ![n].hidden = hidden]
    /\ UNCHANGED <<traces, unobserved, overflow, rebuild, locked, chunk, counts>>

-----------------------------------------------------------------------------
\* The rebuild.

\* next_rebuild_at comes: the interval after a rebuild, the lease after a claim
\* or an error.  A lease that ends while its holder runs counts as a lapse.
RebuildComesDue ==
    /\ ~rebuild.due /\ rebuild' = [rebuild EXCEPT !.due = TRUE]
    /\ CASE rebuild.started = 0 -> Count("rebuilds", MaxRebuilds)
         [] rebuild.started # 0 /\ \A r \in Replicas : chunk[r].pc = "idle" -> UNCHANGED counts
         [] OTHER -> Lapse
    /\ UNCHANGED <<traces, unobserved, registry, overflow, locked, chunk>>

\* claimDueEnvironmentRegistryRebuilds: a rebuild that was begun is resumed
\* with the same start; what was updated so far is before a new start.
ClaimRebuild(r) ==
    LET starts == rebuild.started = 0
        started == IF starts THEN counts.rebuilds ELSE rebuild.started
    IN  /\ rebuild.due /\ chunk[r].pc = "idle"
        /\ rebuild' = [rebuild EXCEPT !.started = started, !.due = FALSE]
        /\ chunk' = [chunk EXCEPT ![r] = [NoChunk EXCEPT !.pc = "scan", !.started = started,
                        !.cursor = rebuild.cursor, !.candidates = rebuild.candidates]]
        /\ IF starts THEN /\ registry' = [n \in Names |-> [registry[n] EXCEPT !.recent = FALSE]]
                          /\ overflow' = [overflow EXCEPT !.recent = FALSE]
           ELSE UNCHANGED <<registry, overflow>>
        /\ UNCHANGED <<traces, unobserved, locked, counts>>

\* scanEnvironmentTracePage: the next keys below the cursor, newest first.
Page(cursor) ==
    LET below == {s \in Slots : s < cursor /\ traces[s] # 0}
    IN  {s \in below : Cardinality({q \in below : q > s}) < ScanSize}

\* New names are added in the order of the page, newest first, up to one more
\* than the cap.
Extended(candidates, page) ==
    LET first == {s \in page : /\ traces[s] \notin Range(candidates)
                               /\ \A q \in page : traces[q] = traces[s] => q <= s}
        nth(i) == CHOOSE s \in first : Cardinality({q \in first : q > s}) = i - 1
        added == Min({Cardinality(first), Cap + 1 - Len(candidates)})
    IN  candidates \o [i \in 1 .. added |-> traces[nth(i)]]

\* The chunk reads one page: it has found too many names, or has come to the
\* end, or will leave a checkpoint.
ScanPage(r) ==
    LET page == Page(chunk[r].cursor)
        found == Extended(chunk[r].candidates, page)
        complete == Len(found) > Cap \/ Cardinality(page) < ScanSize
    IN  /\ chunk[r].pc = "scan"
        /\ chunk' = [chunk EXCEPT ![r].candidates = found,
                        ![r].pc = IF complete THEN "finalize" ELSE "checkpoint",
                        ![r].cursor = IF complete THEN @ ELSE Min(page)]
        /\ UNCHANGED <<traces, unobserved, registry, overflow, rebuild, locked, counts>>

Claims(r) == rebuild.started # 0 /\ rebuild.started = chunk[r].started
EndChunk(r) == chunk' = [chunk EXCEPT ![r] = NoChunk]

\* checkpointEnvironmentRegistryRebuild, or an error when the claim was lost.
Checkpoint(r) ==
    /\ chunk[r].pc = "checkpoint"
    /\ EndChunk(r)
    /\ rebuild' = IF Claims(r) THEN [rebuild EXCEPT !.cursor = chunk[r].cursor, !.due = TRUE,
                                                    !.candidates = chunk[r].candidates]
                  ELSE rebuild
    /\ UNCHANGED <<traces, unobserved, registry, overflow, locked, counts>>

\* finalizeEnvironmentRegistryRebuild: the lock, the claim, the current rows.
BeginSwap(r) ==
    /\ chunk[r].pc = "finalize" /\ locked = Nobody
    /\ IF Claims(r) THEN locked' = r /\ chunk' = [chunk EXCEPT ![r].pc = "stats", ![r].current = registry]
       ELSE UNCHANGED locked /\ EndChunk(r)
    /\ UNCHANGED <<traces, unobserved, registry, overflow, rebuild, counts>>

RecentNames(r) == {n \in Names : chunk[r].current[n].recent}
Selected(candidates) == SubSeq(candidates, 1, IF Len(candidates) < Cap THEN Len(candidates) ELSE Cap)

\* getRetainedEnvironmentStats: what the traces say of the candidates and of
\* the names that were observed since the start, under the lock.
LoadStats(r) ==
    LET names == Range(Selected(chunk[r].candidates)) \cup RecentNames(r)
        rows == {<<s, traces[s]>> : s \in {q \in Slots : traces[q] \in names}}
    IN  /\ chunk[r].pc = "stats"
        /\ chunk' = [chunk EXCEPT ![r].pc = "swap", ![r].stats = Merged(rows)]
        /\ UNCHANGED <<traces, unobserved, registry, overflow, rebuild, locked, counts>>

\* Names observed since the start have their slots first.
SwapIn(r, kept) ==
    LET c == chunk[r]
        recent == {e \in c.stats : e.name \in RecentNames(r)}
        reserved == Recent(recent, Cap)
        selected == reserved \cup Recent(c.stats \ recent, Cap - Cardinality(reserved))
        overflowed == Len(c.candidates) > Cap \/ selected # c.stats \/ kept
    IN  /\ registry' = [n \in Names |->
              IF \A e \in selected : e.name # n THEN NotListed
              ELSE LET e == CHOOSE x \in selected : x.name = n IN
                   [first |-> e.first, last |-> e.last, hidden |-> c.current[n].hidden, recent |-> TRUE]]
        /\ overflow' = [flag |-> overflowed, recent |-> overflowed]
        /\ rebuild' = NoRebuild

\* Seeded bug: a rebuild clears an overflow that was observed before the swap.
SwapForgetsOverflow(r) ==
    /\ chunk[r].pc = "swap" /\ locked' = Nobody /\ EndChunk(r)
    /\ IF Claims(r) THEN SwapIn(r, FALSE) ELSE UNCHANGED <<registry, overflow, rebuild>>
    /\ UNCHANGED <<traces, unobserved, counts>>

\* The swap, if the rebuild is still the claimed one; an overflow observed
\* since it started is kept.
Swap(r) ==
    /\ chunk[r].pc = "swap" /\ locked' = Nobody /\ EndChunk(r)
    /\ IF Claims(r) THEN SwapIn(r, overflow.recent) ELSE UNCHANGED <<registry, overflow, rebuild>>
    /\ UNCHANGED <<traces, unobserved, counts>>

\* An error in a chunk is recorded, if the claim still holds: due again after
\* another lease.  A replica that dies records nothing.  Both roll back a swap.
ChunkEnds(r, recorded) ==
    /\ chunk[r].pc # "idle" /\ EndChunk(r) /\ Lapse
    /\ locked' = IF locked = r THEN Nobody ELSE locked
    /\ rebuild' = IF recorded /\ Claims(r) THEN [rebuild EXCEPT !.due = FALSE] ELSE rebuild
    /\ UNCHANGED <<traces, unobserved, registry, overflow>>

-----------------------------------------------------------------------------
Rebuild(r) == ClaimRebuild(r) \/ ScanPage(r) \/ Checkpoint(r) \/ BeginSwap(r) \/ LoadStats(r) \/ Swap(r)

EnvNext ==
    \/ \E s \in Slots, n \in Names \cup {0} : WriteTrace(s, n)
    \/ \E rows \in SUBSET unobserved : Observe(rows)
    \/ \E n \in Names, hidden \in BOOLEAN : SetHidden(n, hidden)
    \/ RebuildComesDue
    \/ \E r \in Replicas : Rebuild(r) \/ \E recorded \in BOOLEAN : ChunkEnds(r, recorded)

EnvSpec == EnvInit /\ [][EnvNext]_envVars

\* Intervals and leases pass, and the workers keep claiming what is due.
EnvProgress == RebuildComesDue \/ \E r \in Replicas : Rebuild(r)

-----------------------------------------------------------------------------
EnvTypeOK ==
    /\ traces \in [Slots -> Names \cup {0}] /\ unobserved \subseteq Slots \X Names
    /\ Cardinality(ListedNames) <= Cap
    /\ \A n \in ListedNames : registry[n].first \in 1 .. registry[n].last
    /\ rebuild.started \in 0 .. MaxRebuilds /\ rebuild.cursor \in 1 .. Beginning
    /\ Len(rebuild.candidates) <= Cap
    /\ locked \in Replicas \cup {Nobody}
    /\ \A r \in Replicas : chunk[r].pc \in {"stats", "swap"} <=> locked = r

\* A trace whose writer is done has its environment in the list, and its time
\* within the span the list gives, or the list says that it overflowed;
\* whatever rebuilds overlapped the writing, the observing and each other.
ListedWithItsSpan ==
    \A s \in Slots :
        traces[s] # 0 /\ <<s, traces[s]>> \notin unobserved =>
            LET e == registry[traces[s]] IN
            (Listed(traces[s]) /\ e.first <= s /\ s <= e.last) \/ overflow.flag

\* What the user hides stays hidden, and what they show shown, as long as it
\* is listed: no observation and no swap of a list read earlier undoes it.
HiddenKept ==
    [][\A n \in Names :
          Listed(n) /\ Listed(n)' /\ registry'[n].hidden # registry[n].hidden
          => UNCHANGED <<chunk, unobserved>>]_envVars
=============================================================================
