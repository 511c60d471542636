---------------------------- MODULE ImportWindows ----------------------------
(***************************************************************************)
(* How a pull import walks a provider's traces (langfuse-importer.ts,      *)
(* langsmith-importer.ts): oldest first, in pages of a window that begins  *)
(* at the checkpoint's anchor, with at most MaxPages pages in a run.  What *)
(* becomes of a page that was staged is ImportRuns.tla's; here it has      *)
(* landed, because recovery completes it whatever happens to the run.      *)
(*                                                                         *)
(* Traces are numbered in the provider's order, which sorts by timestamp;  *)
(* traces with one timestamp keep their order from request to request, and *)
(* a new trace comes last: spec/langfuse-importer-v1.md, "Known limits".   *)
(***************************************************************************)
EXTENDS Integers, FiniteSets

CONSTANTS
    Provider,      \* "langfuse" or "langsmith"
    Pullers,       \* processes that run imports
    MaxSource,     \* bound: traces the provider ever holds
    Stamps,        \* their timestamps, positive numbers
    PageSize,      \* pageSize
    MaxPages,      \* maxPagesPerRun
    Unmappable,    \* traces whose detail is invalid for the mapper
    MaxSetbacks    \* bound: failed requests, deaths and expired leases

ASSUME WindowAssumption ==
    /\ Provider \subseteq {"langfuse", "langsmith"}
    /\ MaxSource \in Nat /\ Stamps \subseteq Nat \ {0}
    /\ Unmappable \subseteq 1 .. MaxSource
    /\ PageSize \in Nat \ {0} /\ MaxPages \in Nat \ {0}
    /\ MaxSetbacks \in Nat

VARIABLES
    provider,    \* which one
    upstream,    \* the provider's traces: a set of [id, at]
    checkpoint,  \* import_checkpoints: anchor (0 for none), offset of the next page
    tenure,      \* who holds the run token, and whether its lease is live
    pull,        \* what each process is doing
    landed,      \* ids staged for materialization
    setbacks

windowVars == <<provider, upstream, checkpoint, tenure, pull, landed, setbacks>>

----------------------------------------------------------------------------
(* The provider. *)

Earlier(a, b) == a.at < b.at \/ (a.at = b.at /\ a.id < b.id)

Window(anchor) == {x \in upstream : x.at >= anchor}
Rank(x, anchor) == Cardinality({y \in Window(anchor) : Earlier(y, x)})

(* listTraces(page, limit, fromTimestamp), queryRuns(cursor, limit,        *)
(* startTime): pages are counted in the window at the time of the request, *)
(* and a cursor is an offset in the window it was issued for.              *)
PageAt(anchor, offset) ==
    {x \in Window(anchor) : Rank(x, anchor) \in offset .. offset + PageSize - 1}

(* page >= meta.totalPages; LangSmith may return a cursor for an empty page. *)
LastPage(anchor, offset) ==
    LET left == Cardinality(Window(anchor)) - offset
    IN CASE provider = "langfuse" -> {left <= PageSize}
         [] provider = "langsmith" /\ left = PageSize -> BOOLEAN
         [] OTHER -> {left < PageSize}

Newest(traces) == CHOOSE t \in {x.at : x \in traces} : \A x \in traces : x.at <= t

(* A trace as new as any, at the end of the window. *)
Appear ==
    /\ Cardinality(upstream) < MaxSource
    /\ \E at \in Stamps :
          /\ \A x \in upstream : x.at <= at
          /\ upstream' = upstream \cup {[id |-> Cardinality(upstream) + 1, at |-> at]}
    /\ UNCHANGED <<provider, checkpoint, tenure, pull, landed, setbacks>>

----------------------------------------------------------------------------
(* One run. *)

Resting == [pc |-> "off"]

(* The run token is ours and its lease has not expired. *)
HasLease(w) == tenure.holder = {w} /\ tenure.live

(* Seeded bug: the token of a run that died is never taken over. *)
MayClaimReleased == tenure.holder = {}

(* The run token is free, or its lease has expired. *)
MayClaim == tenure.holder = {} \/ ~tenure.live

(* claimImportRun and getImportCheckpoint: the anchor stays fixed for the  *)
(* run.                                                                    *)
ClaimWindow(w) ==
    /\ pull[w].pc = "off"
    /\ MayClaim
    /\ tenure' = [holder |-> {w}, live |-> TRUE]
    /\ pull' = [pull EXCEPT ![w] =
           [pc |-> "list", anchor |-> checkpoint.anchor, offset |-> checkpoint.offset,
            newest |-> 0, fetched |-> 0, page |-> {}, last |-> FALSE]]
    /\ UNCHANGED <<provider, upstream, checkpoint, landed, setbacks>>

(* A statement that requires the lease throws, or a request fails:         *)
(* markImportRunFailed gives up the token if it still is ours.             *)
Abandon(w) ==
    /\ pull' = [pull EXCEPT ![w] = Resting]
    /\ tenure' = IF tenure.holder = {w} THEN [holder |-> {}, live |-> FALSE] ELSE tenure

(* renewImportRunLease, then the list request. *)
FetchWindow(w) ==
    /\ pull[w].pc = "list"
    /\ IF HasLease(w)
       THEN /\ \E last \in LastPage(pull[w].anchor, pull[w].offset) :
                  pull' = [pull EXCEPT ![w].pc = "stage", ![w].last = last,
                               ![w].page = PageAt(pull[w].anchor, pull[w].offset)]
            /\ UNCHANGED tenure
       ELSE Abandon(w)
    /\ UNCHANGED <<provider, upstream, checkpoint, landed, setbacks>>

(* The details of each trace, with the invalid ones left out, staged and   *)
(* materialized under the lease.                                           *)
StageWindow(w) ==
    /\ pull[w].pc = "stage"
    /\ IF HasLease(w)
       THEN /\ landed' = landed \cup ({x.id : x \in pull[w].page} \ Unmappable)
            /\ pull' = [pull EXCEPT ![w].pc = "save",
                            ![w].newest = IF pull[w].page = {} THEN @ ELSE Newest(pull[w].page)]
            /\ UNCHANGED tenure
       ELSE Abandon(w) /\ UNCHANGED landed
    /\ UNCHANGED <<provider, upstream, checkpoint, setbacks>>

(* isLastPage, isExhausted: the anchor moves to the newest trace this run  *)
(* saw and the next run begins a window there; otherwise only the page     *)
(* moves, which was counted against the old anchor.                        *)
PagesDone(w) == pull[w].last \/ pull[w].page = {}

NextWindow(w) ==
    [anchor |-> IF pull[w].newest = 0 THEN pull[w].anchor ELSE pull[w].newest, offset |-> 0]

(* Seeded bug: the anchor moves with every page (the importer's first      *)
(* version).                                                               *)
ProgressMovesAnchor(w) ==
    IF PagesDone(w) THEN NextWindow(w)
    ELSE [NextWindow(w) EXCEPT !.offset = pull[w].offset + PageSize]

Progress(w) ==
    IF PagesDone(w) THEN NextWindow(w)
    ELSE [anchor |-> pull[w].anchor, offset |-> pull[w].offset + PageSize]

(* saveImportProgress requires the run's token and a live lease. *)
StoreWindow(w) ==
    /\ pull[w].pc = "save"
    /\ IF HasLease(w)
       THEN /\ checkpoint' = Progress(w)
            /\ pull' = [pull EXCEPT
                   ![w].pc = IF PagesDone(w) \/ pull[w].fetched + 1 = MaxPages THEN "finish" ELSE "list",
                   ![w].offset = Progress(w).offset, ![w].fetched = @ + 1]
            /\ UNCHANGED tenure
       ELSE Abandon(w) /\ UNCHANGED checkpoint
    /\ UNCHANGED <<provider, upstream, landed, setbacks>>

(* markImportRunIdle, or the lease is lost and markImportRunFailed. *)
FinishWindow(w) ==
    /\ pull[w].pc = "finish"
    /\ Abandon(w)
    /\ UNCHANGED <<provider, upstream, checkpoint, landed, setbacks>>

PullStep(w) ==
    FetchWindow(w) \/ StageWindow(w) \/ StoreWindow(w) \/ FinishWindow(w)

Setback == setbacks < MaxSetbacks /\ setbacks' = setbacks + 1

(* A request fails or is answered with an error. *)
PullFails(w) ==
    /\ pull[w].pc \in {"list", "stage"}
    /\ Setback /\ Abandon(w)
    /\ UNCHANGED <<provider, upstream, checkpoint, landed>>

(* The process dies; its token stays until the lease expires. *)
PullerDies(w) ==
    /\ pull[w].pc # "off"
    /\ Setback
    /\ pull' = [pull EXCEPT ![w] = Resting]
    /\ UNCHANGED <<provider, upstream, checkpoint, tenure, landed>>

(* Five minutes without a renewal: the holder is dead, ... *)
DeadTenureLapses ==
    /\ tenure.live
    /\ \E w \in Pullers : HasLease(w) /\ pull[w].pc = "off"
    /\ tenure' = [tenure EXCEPT !.live = FALSE]
    /\ UNCHANGED <<provider, upstream, checkpoint, pull, landed, setbacks>>

(* ... or hangs, and goes on later. *)
TenureLapses ==
    /\ \E w \in Pullers : HasLease(w) /\ pull[w].pc # "off"
    /\ Setback
    /\ tenure' = [tenure EXCEPT !.live = FALSE]
    /\ UNCHANGED <<provider, upstream, checkpoint, pull, landed>>

----------------------------------------------------------------------------

WindowsInit ==
    /\ provider \in Provider
    /\ upstream = {}
    /\ checkpoint = [anchor |-> 0, offset |-> 0]
    /\ tenure = [holder |-> {}, live |-> FALSE]
    /\ pull = [w \in Pullers |-> Resting]
    /\ landed = {}
    /\ setbacks = 0

WindowsNext ==
    \/ Appear \/ DeadTenureLapses \/ TenureLapses
    \/ \E w \in Pullers :
           ClaimWindow(w) \/ PullStep(w) \/ PullFails(w) \/ PullerDies(w)

WindowsSpec == WindowsInit /\ [][WindowsNext]_windowVars

(* The scheduler keeps starting imports, a run goes on, and the lease of a *)
(* dead one runs out.                                                      *)
WindowsProgress == DeadTenureLapses \/ \E w \in Pullers : ClaimWindow(w) \/ PullStep(w)

----------------------------------------------------------------------------
(* Properties. *)

WindowsTypeOK ==
    /\ checkpoint \in [anchor : Stamps \cup {0}, offset : 0 .. MaxSource + PageSize]
    /\ landed \subseteq 1 .. MaxSource
    /\ \A x, y \in upstream : x.id = y.id => x = y
    /\ \A w \in Pullers : pull[w].pc \in {"off", "list", "stage", "save", "finish"}

(* An interrupted run resumes "rather than restarting the whole backfill   *)
(* or silently skipping the gap" (langfuse-importer.ts): every trace       *)
(* before the stored position, in its window or before it, has landed,     *)
(* however runs were interrupted, overlapped or took over.  Traces that    *)
(* cannot be mapped are excepted.                                          *)
NothingPassed ==
    \A x \in upstream :
        \/ x.id \in landed \cup Unmappable
        \/ x.at >= checkpoint.anchor /\ Rank(x, checkpoint.anchor) >= checkpoint.offset

(* Everything the provider has is imported. *)
CaughtUp == {x.id : x \in upstream} \subseteq landed \cup Unmappable

=============================================================================
