----------------------------- MODULE ImportRuns -----------------------------
(***************************************************************************)
(* Pull imports as writers of evaluator traces. A run claims the source's  *)
(* checkpoint under a five-minute lease, completes the snapshots an        *)
(* earlier run left pending, fetches the provider's traces, stages them in *)
(* Postgres, and materializes what is pending: under the shared fence it   *)
(* tombstones the tree, writes the new one and publishes it in the         *)
(* transaction that clears the pending snapshot. A change to scores alone  *)
(* leaves the tree and the feed as they are. The recovery pass is a run    *)
(* that only completes pending snapshots. One source; a page is all of its *)
(* traces.                                                                 *)
(***************************************************************************)
EXTENDS TraceStore

CONSTANTS
    Trees,          \* versions of a provider's trace tree; numbers
    TreeObs,        \* [Trees -> SUBSET Obs]: the observations of each
    ScoreSets       \* versions of a trace's scores

\* The provider's trees, and its first content of a trace.
ASSUME ImportAssumption ==
    /\ TreeObs \in [Trees -> SUBSET Obs]
    /\ None \notin [tree : Trees, scores : ScoreSets]
    /\ None \notin [content : [tree : Trees, scores : ScoreSets], gen : Nat]
    /\ \E c \in [tree : Trees, scores : ScoreSets] :
         \A d \in [tree : Trees, scores : ScoreSets] : c.tree <= d.tree /\ c.scores <= d.scores

VARIABLES
    ckpt,       \* import_checkpoints
    run,        \* what each process is doing
    provider,   \* what the provider holds for each trace
    told        \* history: the content that was announced last, and the generation
                \* of its scores

importVars == <<ckpt, run, provider, told>>

Contents == [tree : Trees, scores : ScoreSets]

KeysIn(t, table) == IF table = Root THEN {RootKey(t)} ELSE ObsKeys(t)
TreeKeys(t, tree) == {RootKey(t)} \cup ({t} \X TreeObs[tree])

SnapshotSteps == {"expire", "discard", "tombstone", "insert", "scores", "publish"}
RunSteps == {"off", "claim", "next", "stage"} \cup SnapshotSteps

Off == [pc |-> "off", phase |-> "none", queue |-> {}, cur |-> None, snap |-> NotStaged,
        todo |-> {}, cand |-> 0, page |-> [t \in {} |-> None]]

ImportInit ==
    /\ ckpt = [status |-> "idle", token |-> None, lease |-> FALSE]
    /\ run = [w \in Workers |-> Off]
    /\ provider = [t \in Traces |-> CHOOSE c \in Contents :
                      \A d \in Contents : c.tree <= d.tree /\ c.scores <= d.scores]
    /\ told = [t \in Traces |-> None]

\* The checkpoint is this run's and its lease has not expired.
Holds(w) == ckpt.status = "running" /\ ckpt.token = w /\ ckpt.lease

\* The steps of one snapshot, during which the run is inside the fence.
Materializing(w) == run[w].pc \in SnapshotSteps

-----------------------------------------------------------------------------
ProviderEdit(t) ==
    /\ Mishap("edit")
    /\ \/ \E tree \in Trees \ {provider[t].tree} : provider' = [provider EXCEPT ![t].tree = tree]
       \/ \E scores \in ScoreSets \ {provider[t].scores} :
            provider' = [provider EXCEPT ![t].scores = scores]
    /\ UNCHANGED <<storeVars, ckpt, run, told>>

\* Five minutes pass without a renewal, while the process hangs.
LeaseExpires ==
    /\ Mishap("pause") /\ Holds(ckpt.token)
    /\ ckpt' = [ckpt EXCEPT !.lease = FALSE]
    /\ UNCHANGED <<storeVars, run, provider, told>>

\* claimImportRun, for an import or for the recovery pass.
Claim(w) ==
    /\ run[w].pc = "off"
    /\ ~(ckpt.status = "running" /\ ckpt.lease)
    /\ \E phase \in {"import", "recovery"} :
         /\ phase = "recovery" => \E t \in Traces : staged[t].pending
         /\ run' = [run EXCEPT ![w] = [Off EXCEPT !.pc = "claim", !.phase = phase]]
    /\ ckpt' = [status |-> "running", token |-> w, lease |-> TRUE]
    /\ UNCHANGED <<storeVars, provider, mishaps, told>>

\* (An idle checkpoint stands for one in error too: both can be claimed.)
\* A statement guarded by the lease affects no row and the run throws:
\* markImportRunFailed touches the checkpoint only while it is still ours.
Throw(w) ==
    /\ run' = [run EXCEPT ![w] = Off]
    /\ ckpt' = IF ckpt.status = "running" /\ ckpt.token = w
                 THEN [status |-> "idle", token |-> None, lease |-> FALSE]
                 ELSE ckpt
    /\ DropShared(w)
    /\ UNCHANGED <<clock, rows, refs, marked, cutoff, feed, acts, watermark, staged>>

\* Seeded bug: an import fetches its page without completing what an earlier
\* run left pending.
ClaimForRecoveryOnly(w) ==
    /\ run[w].pc = "claim"
    /\ UNCHANGED <<provider, mishaps, told>>
    /\ IF Holds(w)
         THEN LET pending == {t \in Traces : staged[t].pending /\ run[w].phase = "recovery"}
              IN  /\ staged' = [t \in Traces |->
                        IF t \in pending THEN [staged[t] EXCEPT !.token = w] ELSE staged[t]]
                  /\ run' = [run EXCEPT ![w].pc = "next", ![w].queue = pending]
                  /\ UNCHANGED <<clock, rows, refs, marked, cutoff, feed, acts, watermark,
                                 shared, exclusive, ckpt>>
         ELSE Throw(w)

\* claimPendingEvaluatorImportSnapshots: take over every pending snapshot.
ClaimPending(w) ==
    /\ run[w].pc = "claim"
    /\ UNCHANGED <<provider, mishaps, told>>
    /\ IF Holds(w)
         THEN LET pending == {t \in Traces : staged[t].pending}
              IN  /\ staged' = [t \in Traces |->
                        IF t \in pending THEN [staged[t] EXCEPT !.token = w] ELSE staged[t]]
                  /\ run' = [run EXCEPT ![w].pc = "next", ![w].queue = pending]
                  /\ UNCHANGED <<clock, rows, refs, marked, cutoff, feed, acts, watermark,
                                 shared, exclusive, ckpt>>
         ELSE Throw(w)

\* Seeded bug: the new tree is inserted over the old one.
FirstStepInserts(t, snap) ==
    CASE Expired(t) -> "expire"
      [] ~Expired(t) /\ snap.required -> "insert"
      [] OTHER -> "scores"

\* The next pending snapshot in trace order: enter the fence, renew the
\* lease, read the cutoff. The fence keeps retention, and so the cutoff, out.
FirstStep(t, snap) ==
    CASE Expired(t) -> "expire"
      [] ~Expired(t) /\ snap.required -> "tombstone"
      [] OTHER -> "scores"

BeginSnapshot(w) ==
    /\ run[w].pc = "next" /\ run[w].queue # {}
    /\ ~exclusive
    /\ UNCHANGED <<provider, mishaps, told>>
    /\ IF Holds(w)
         THEN LET t == Min(run[w].queue)
              IN  /\ TakeShared(w)
                  /\ run' = [run EXCEPT ![w].pc = FirstStep(t, staged[t]), ![w].cur = t,
                                        ![w].queue = @ \ {t}, ![w].snap = staged[t],
                                        ![w].todo = Tables]
                  /\ UNCHANGED <<clock, rows, refs, marked, cutoff, feed, acts, watermark,
                                 staged, ckpt>>
         ELSE Throw(w)

\* recordExpiredEvaluatorTraceId, then tombstones just above the generation:
\* the marker first, the tables concurrently.
TombstoneExpired(w, table) ==
    /\ run[w].pc = "expire" /\ table \in run[w].todo
    /\ marked' = marked \cup {run[w].cur}
    /\ rows' = Tombstone(KeysIn(run[w].cur, table), JustAfter(run[w].snap.gen))
    /\ run' = [run EXCEPT ![w].todo = @ \ {table},
                          ![w].pc = IF @ = "expire" /\ run[w].todo = {table}
                                      THEN "discard" ELSE @]
    /\ UNCHANGED <<clock, refs, cutoff, feed, acts, watermark, staged, shared, exclusive,
                   ckpt, provider, mishaps, told>>

\* The staged row is still the one this run is materializing.
StillOurs(w) ==
    LET s == staged[run[w].cur]
    IN  s.pending /\ s.gen = run[w].snap.gen /\ s.token = w /\ Holds(w)

Cleared(w) == [staged EXCEPT ![run[w].cur].pending = FALSE, ![run[w].cur].required = FALSE,
                             ![run[w].cur].token = None]

Between(w) == [Off EXCEPT !.pc = "next", !.phase = run[w].phase, !.queue = run[w].queue]

Discard(w) ==
    /\ run[w].pc = "discard"
    /\ UNCHANGED <<provider, mishaps, told>>
    /\ IF StillOurs(w)
         THEN /\ staged' = Cleared(w)
              /\ DropShared(w)
              /\ run' = [run EXCEPT ![w] = Between(w)]
              /\ UNCHANGED <<clock, rows, refs, marked, cutoff, feed, acts, watermark, ckpt>>
         ELSE Throw(w)

\* tombstoneImportedTraceSnapshot: just below the generation, so that the
\* rows to come win whichever statement runs last.
TombstoneTree(w, table) ==
    /\ run[w].pc = "tombstone" /\ table \in run[w].todo
    /\ rows' = Tombstone(KeysIn(run[w].cur, table), JustBefore(run[w].snap.gen))
    /\ run' = [run EXCEPT ![w].todo = IF @ = {table} THEN Tables ELSE @ \ {table},
                          ![w].pc = IF run[w].todo = {table} THEN "insert" ELSE @]
    /\ UNCHANGED <<clock, refs, marked, cutoff, feed, acts, watermark, staged, shared,
                   exclusive, ckpt, provider, mishaps, told>>

\* Then the cutoff again.
InsertTree(w, table) ==
    /\ run[w].pc = "insert" /\ table \in run[w].todo
    /\ LET t == run[w].cur
           tree == run[w].snap.hash.tree
       IN  rows' = Put(TreeKeys(t, tree) \cap KeysIn(t, table), At(run[w].snap.gen), tree, TRUE)
    /\ run' = [run EXCEPT ![w].todo = IF @ = {table} THEN Tables ELSE @ \ {table},
                          ![w].pc = CASE run[w].todo # {table} -> @
                                     [] run[w].todo = {table} /\ Expired(run[w].cur) -> "expire"
                                     [] OTHER -> "publish"]
    /\ UNCHANGED <<clock, refs, marked, cutoff, feed, acts, watermark, staged, shared,
                   exclusive, ckpt, provider, mishaps, told>>

\* Scores only: replace them, recheck, and announce the trace to the score
\* feed while the snapshot is still pending. Of two runs, the scores of the
\* later generation are what is stored, whichever announces them.
PublishScores(w) ==
    /\ run[w].pc = "scores"
    /\ LET s == run[w].snap
       IN  told' = [told EXCEPT ![run[w].cur] =
              IF @ = None \/ @.gen > s.gen THEN @
              ELSE [@ EXCEPT !.content.scores = s.hash.scores, !.gen = s.gen]]
    /\ run' = [run EXCEPT ![w].pc = "publish"]
    /\ UNCHANGED <<storeVars, ckpt, provider, mishaps>>

\* One transaction: clear the snapshot if it is still ours, and publish the
\* tree if it changed.
PublishImport(w) ==
    /\ run[w].pc = "publish"
    /\ UNCHANGED <<provider, mishaps>>
    /\ LET t == run[w].cur
           s == run[w].snap
       IN  IF StillOurs(w) /\ ~Expired(t)
             THEN /\ staged' = Cleared(w)
                  /\ IF staged[t].required
                       THEN /\ Publish({t}, s.gen, s.gen)
                            /\ told' = [told EXCEPT ![t] = [content |-> s.hash, gen |-> s.gen]]
                       ELSE UNCHANGED <<feed, acts, watermark, told>>
                  /\ DropShared(w)
                  /\ run' = [run EXCEPT ![w] = Between(w)]
                  /\ UNCHANGED <<clock, rows, refs, marked, cutoff, ckpt>>
             ELSE Throw(w) /\ UNCHANGED told

\* Nothing is pending any more: a run that has staged its page, or one of
\* the recovery pass, is over.
Emptied(w) == run[w].pc = "next" /\ run[w].queue = {}

\* Renew the lease, take the clock and read every trace of the page.
FetchPage(w) ==
    /\ Emptied(w) /\ run[w].phase = "import"
    /\ UNCHANGED <<provider, mishaps, told>>
    /\ IF Holds(w)
         THEN /\ run' = [run EXCEPT ![w].pc = "stage", ![w].page = provider, ![w].cand = clock]
              /\ UNCHANGED <<storeVars, ckpt>>
         ELSE Throw(w)

\* Seeded bug: a change within the millisecond keeps the generation.
RestageSameGeneration(s, c, w, cand) ==
    CASE s.hash = None ->
           [hash |-> c, gen |-> cand, pending |-> TRUE, required |-> TRUE, token |-> w]
      [] s.hash = c ->
           [s EXCEPT !.token = IF s.pending THEN w ELSE @]
      [] OTHER ->
           [hash |-> c, gen |-> Max({cand, s.gen}), pending |-> TRUE,
            required |-> s.hash.tree # c.tree, token |-> w]

\* stageEvaluatorImportTraces: unchanged content keeps its generation;
\* changed content gets a later one, and reopens the trace only if the tree
\* changed. What is left of the run is what a recovery pass does.
Restage(s, c, w, cand) ==
    CASE s.hash = None ->
           [hash |-> c, gen |-> cand, pending |-> TRUE, required |-> TRUE, token |-> w]
      [] s.hash = c ->
           [s EXCEPT !.token = IF s.pending THEN w ELSE @]
      [] OTHER ->
           [hash |-> c, gen |-> Max({cand, s.gen + 1}), pending |-> TRUE,
            required |-> s.hash.tree # c.tree, token |-> w]

Stage(w) ==
    /\ run[w].pc = "stage"
    /\ UNCHANGED <<provider, mishaps, told>>
    /\ IF Holds(w)
         THEN /\ staged' = [t \in Traces |-> Restage(staged[t], run[w].page[t], w, run[w].cand)]
              /\ run' = [run EXCEPT ![w] = [Off EXCEPT !.pc = "claim", !.phase = "recovery"]]
              /\ UNCHANGED <<clock, rows, refs, marked, cutoff, feed, acts, watermark,
                             shared, exclusive, ckpt>>
         ELSE Throw(w)

\* saveImportProgress and markImportRunIdle.
FinishRun(w) ==
    /\ Emptied(w) /\ run[w].phase = "recovery"
    /\ UNCHANGED <<provider, mishaps, told>>
    /\ IF Holds(w)
         THEN /\ ckpt' = [status |-> "idle", token |-> None, lease |-> FALSE]
              /\ run' = [run EXCEPT ![w] = Off]
              /\ UNCHANGED storeVars
         ELSE Throw(w)

\* A statement or a request fails, and the run with it. When the process
\* dies instead, the checkpoint is free for the next claim once its lease has
\* run out.
FailRun(w) ==
    /\ Mishap("failure") /\ run[w].pc # "off"
    /\ Throw(w)
    /\ UNCHANGED <<provider, told>>

ImportStep(w) ==
    \/ ClaimPending(w) \/ BeginSnapshot(w)
    \/ \E table \in Tables :
         TombstoneExpired(w, table) \/ TombstoneTree(w, table) \/ InsertTree(w, table)
    \/ Discard(w) \/ PublishScores(w) \/ PublishImport(w)
    \/ FetchPage(w) \/ Stage(w) \/ FinishRun(w)

ImportNext ==
    \/ LeaseExpires
    \/ \E t \in Traces : ProviderEdit(t)
    \/ \E w \in Workers : Claim(w) \/ ImportStep(w) \/ FailRun(w)

ImportTypeOK ==
    /\ staged \in [Traces -> [hash : Contents \cup {None}, gen : Nat, pending : BOOLEAN,
                              required : BOOLEAN, token : Workers \cup {None}]]
    /\ ckpt \in [status : {"idle", "running"}, token : Workers \cup {None},
                 lease : BOOLEAN]
    /\ \A w \in Workers :
         /\ run[w].pc \in RunSteps
         /\ run[w].queue \subseteq Traces
         /\ w \in shared <=> Materializing(w)
    /\ provider \in [Traces -> Contents]
    /\ told \in [Traces -> [content : Contents, gen : Nat] \cup {None}]
=============================================================================
