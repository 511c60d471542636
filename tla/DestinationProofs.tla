-------------------------- MODULE DestinationProofs --------------------------
(***************************************************************************)
(* Proofs about the scheduled destinations (Destinations), for any traces, *)
(* workers, kinds of rule, sizes of a page and of a run, and any number of *)
(* changes, failures, crashes and claims that go stale.                    *)
(*                                                                         *)
(* The runs: what a run has of the feed lies after its position, and in    *)
(* order (Ordered); so it only ever moves on from where it started, and    *)
(* the rule with it (PositionsMoveForward).                                *)
(* The claims: until it is lost, a claim is held by one run, or by the     *)
(* scanner, and its delivery is pending (HeldPending, HeldOnce,            *)
(* ScannerHolds).  What was answered ok is marked delivered, or its holder *)
(* is about to mark it (AnswersKept), so that it cannot be claimed again;  *)
(* and a run sends a version of the handoff window only when the activity  *)
(* is its own, or the scanner never sent it (SendersMay, SentKept).        *)
(* What is passed (SentInv): a run knows every row between its position    *)
(* and the last of its entries, and which of them are gone (Known,         *)
(* EntriesFull, PageFull, Looked); what it read of a row that is still the *)
(* current one is what is stored (Loaded, StagedFine); so what its         *)
(* position passes is sent, staged or gone (SentTo, StagedFull), and the   *)
(* same for the scores (ScoresListed, ScoresTo).  Of what others change in *)
(* the meantime it needs only that a row moves beyond every position that  *)
(* was given out, and that a row at rest does not change (Moves).          *)
(***************************************************************************)
EXTENDS Destinations, SequenceTheorems, FiniteSetTheorems, WellFoundedInduction, TLAPS

-----------------------------------------------------------------------------
\* The destinations: types.

Moments == Nat \X Nat
AnyKeys == Nat \X Nat \X Nat
PerTrace == [Traces -> Nat]
FeedRows == [trace : Traces, ver : Nat \ {0}, src : Nat]
Entries == [trace : Traces, ver : Nat \ {0}, src : Nat, shown : BOOLEAN]
StagedRows == [trace : Traces, ver : Nat \ {0}, rev : Nat, score : Nat]
Queries == {"summaries", "pending", "traces", "observations", "scores"}
AnyRun == [pc : Pcs, from : Moments, at : Moments, sfrom : Moments, sat : Moments,
           page : SUBSET FeedRows, got : SUBSET Queries, seen : PerTrace, held : SUBSET Traces,
           entries : Seq(Entries), more : BOOLEAN, blocked : BOOLEAN, covers : BOOLEAN,
           sent : Nat, examined : Nat, tree : PerTrace, score : PerTrace,
           staged : Seq(StagedRows), changed : SUBSET (Nat \X Traces),
           rescored : SUBSET [trace : Traces, score : Nat], again : BOOLEAN]

FeedTypes ==
    /\ stored \in [Traces -> [src : Nat, rev : Nat]]
    /\ feedRow \in [Traces -> [ver : Nat, src : Nat]]
    /\ \A t \in Traces : feedRow[t] # NoRow => feedRow[t].ver # 0
    /\ published \in Nat

DestTypes ==
    /\ FeedTypes
    /\ kind \in Kinds
    /\ rule \in [due : BOOLEAN, pos : Moments, spos : Moments]
    /\ scores \in [Traces -> [rev : Nat, ver : Nat, writing : BOOLEAN]]
    /\ scanner \in [key : AnyKeys, answer : {"none", "failed", "delivered"}]
    /\ handoff \in [open : BOOLEAN, until : Nat]
    /\ history \in [ok : SUBSET AnyKeys, twice : SUBSET AnyKeys, rejected : SUBSET AnyKeys,
                    lost : SUBSET AnyKeys, overlap : BOOLEAN]
    /\ DOMAIN deliveries \subseteq AnyKeys

\* What a run has of the feed is after its position and in order.
Ordered(r) ==
    /\ ~Before(r.at, r.from)
    /\ ~Before(r.sat, r.sfrom)
    /\ \A e \in r.page : Before(r.at, FeedPlace(e))
    /\ \A i \in 1 .. Len(r.entries) : Before(r.at, FeedPlace(r.entries[i]))
    /\ \A i \in 1 .. Len(r.entries) : \A e \in r.page : Before(FeedPlace(r.entries[i]), FeedPlace(e))
    /\ \A i, j \in 1 .. Len(r.entries) :
          i < j => Before(FeedPlace(r.entries[i]), FeedPlace(r.entries[j]))

Holding == {"claim", "version status", "post", "mark", "mark failed", "cover", "release"}
InDelivery == Holding \cup {"scanner status"}
AtEntry == InDelivery \cup {"send", "load", "forward", "stage"}

AtItsPlace(r) ==
    /\ r.pc = "list" => r.entries = <<>>
    /\ r.pc \in AtEntry => r.entries # <<>>
    /\ r.covers => r.pc \in Holding
    /\ r.pc = "stored" => \A p \in r.changed : Before(r.sat, p)

GoodRun(r) == r \in AnyRun /\ Ordered(r) /\ AtItsPlace(r)
Aside(r) == GoodRun(r) /\ r.pc \notin InDelivery /\ ~r.covers
RunInv == \A w \in Workers : GoodRun(run[w])
DestInv == DestTypes /\ run \in [Workers -> AnyRun] /\ RunInv

\* The order of the feed.
LEMMA BeforeOrders ==
    /\ \A p, q, s \in Moments : Before(p, q) /\ Before(q, s) => Before(p, s)
    /\ \A p, q, s \in Moments : ~Before(q, p) /\ Before(q, s) => Before(p, s)
    /\ \A p, q, s \in Moments : ~Before(q, p) /\ ~Before(s, q) => ~Before(s, p)
    /\ \A p, q \in Moments : Before(p, q) => ~Before(q, p)
    /\ \A p \in Moments : ~Before(p, p)
BY DEF Before, Moments

LEMMA PlacesAreMoments ==
    /\ \A e \in FeedRows : FeedPlace(e) \in Moments
    /\ \A e \in Entries : FeedPlace(e) \in Moments
BY SettledFeedAssumption DEF FeedRows, Entries, FeedPlace, Moments

LEMMA EndPageGood ==
    ASSUME NEW r \in AnyRun, Ordered(r), r.entries = <<>>, ~r.covers
    PROVE  Aside(EndPage(r))
<1>1. PICK x : x = EndPage(r)
      OBVIOUS
<1>2. \E pc \in {"scores", "record", "list"}, b \in BOOLEAN : x = [r EXCEPT !.pc = pc, !.again = b]
      <2>1. CASE r.blocked \/ ~r.more
            <3>1. x = [r EXCEPT !.pc = IF kind = "export" THEN "scores" ELSE "record"]
                  BY <1>1, <2>1 DEF EndPage
            <3>2. x = [r EXCEPT !.pc = IF kind = "export" THEN "scores" ELSE "record", !.again = r.again]
                  BY <3>1 DEF AnyRun
            <3> QED BY <3>2, Zenon DEF AnyRun
      <2>2. CASE ~r.blocked /\ r.more /\ Full(r)
            BY <1>1, <2>2, Zenon DEF EndPage
      <2>3. CASE ~r.blocked /\ r.more /\ ~Full(r)
            <3>1. x = [r EXCEPT !.pc = "list", !.again = r.again]
                  BY <1>1, <2>3 DEF EndPage, AnyRun
            <3> QED BY <3>1, Zenon DEF AnyRun
      <2> QED BY <2>1, <2>2, <2>3, Zenon
<1>3. PICK pc \in {"scores", "record", "list"}, b \in BOOLEAN : x = [r EXCEPT !.pc = pc, !.again = b]
      BY <1>2, Zenon
<1>4. x \in AnyRun
      <2>1. pc \in Pcs
            BY Zenon DEF Pcs
      <2> HIDE DEF Pcs
      <2> QED BY <1>3, <2>1 DEF AnyRun
<1>5. /\ x.pc = pc /\ x.entries = r.entries /\ x.page = r.page /\ x.at = r.at /\ x.from = r.from
      /\ x.sat = r.sat /\ x.sfrom = r.sfrom /\ x.covers = r.covers
      BY <1>3 DEF AnyRun
<1>6. Ordered(x)
      BY <1>5 DEF Ordered
<1> QED BY <1>1, <1>4, <1>5, <1>6, Zenon DEF Aside, GoodRun, AtItsPlace, AtEntry, InDelivery, Holding

\* Runs that differ in nothing the order is about.
SameOrder(x, r) ==
    /\ x.entries = r.entries /\ x.page = r.page /\ x.covers = r.covers
    /\ x.at = r.at /\ x.from = r.from /\ x.sat = r.sat /\ x.sfrom = r.sfrom

LEMMA OrderStays ==
    ASSUME NEW r, NEW x, SameOrder(x, r), Ordered(r)
    PROVE  Ordered(x)
BY DEF SameOrder, Ordered

LEMMA WalkedGood ==
    ASSUME NEW r \in AnyRun, Ordered(r), ~r.covers
    PROVE  Aside(Walked(r))
<1> DEFINE known == [r EXCEPT !.examined = @ + Len(r.entries), !.seen = NoVersions, !.held = {}]
<1>1. known \in AnyRun
      <2>1. NoVersions \in PerTrace /\ {} \in SUBSET Traces
            BY DEF NoVersions, PerTrace
      <2>2. r.entries \in Seq(Entries) /\ r.examined \in Nat
            BY DEF AnyRun
      <2>3. Len(r.entries) \in Nat
            BY <2>2, LenProperties
      <2>4. r.examined + Len(r.entries) \in Nat
            BY <2>2, <2>3
      <2> QED BY <2>1, <2>4 DEF AnyRun
<1>2. SameOrder(known, r) /\ known.pc = r.pc /\ known.blocked = r.blocked /\ known.more = r.more
      BY DEF AnyRun, SameOrder
<1>3. Ordered(known)
      BY <1>2, OrderStays
<1>4. Walked(r) = CASE r.entries = <<>> -> EndPage(known)
          [] r.entries # <<>> /\ Webhook -> [known EXCEPT !.pc = "send"]
          [] r.entries # <<>> /\ ~Webhook -> [known EXCEPT !.pc = "load"]
      BY DEF Walked
<1> HIDE DEF known
<1>5. CASE r.entries = <<>>
      <2>1. Walked(r) = EndPage(known)
            BY <1>4, <1>5
      <2>2. Aside(EndPage(known))
            BY <1>1, <1>2, <1>3, <1>5, EndPageGood DEF SameOrder
      <2> QED BY <2>1, <2>2
<1>6. CASE r.entries # <<>>
      <2>1. PICK pc \in {"send", "load"} : Walked(r) = [known EXCEPT !.pc = pc]
            BY <1>4, <1>6
      <2>2. PICK x : x = [known EXCEPT !.pc = pc]
            OBVIOUS
      <2>3. pc \in Pcs
            BY Zenon DEF Pcs
      <2>4. x \in AnyRun /\ x.pc = pc /\ SameOrder(x, known)
            <3> HIDE DEF Pcs
            <3> QED BY <1>1, <2>2, <2>3 DEF AnyRun, SameOrder
      <2>5. Ordered(x)
            BY <1>3, <2>4, OrderStays
      <2> QED BY <1>2, <1>6, <2>1, <2>2, <2>4, <2>5, Zenon
              DEF Aside, GoodRun, AtItsPlace, AtEntry, InDelivery, Holding, SameOrder
<1> QED BY <1>5, <1>6

LEMMA BlockedGood ==
    ASSUME NEW r \in AnyRun, Ordered(r), ~r.covers
    PROVE  Aside(BlockedPage(r))
<1> DEFINE x == [r EXCEPT !.page = {}, !.blocked = TRUE]
<1>1. x \in AnyRun /\ x.entries = r.entries /\ x.page = {} /\ x.covers = r.covers
      /\ x.at = r.at /\ x.from = r.from /\ x.sat = r.sat /\ x.sfrom = r.sfrom
      BY DEF AnyRun
<1>2. BlockedPage(r) = Walked(x)
      BY DEF BlockedPage
<1> HIDE DEF x
<1>3. Ordered(x)
      BY <1>1 DEF Ordered
<1> QED BY <1>1, <1>2, <1>3, WalkedGood

LEMMA ListedGood ==
    ASSUME NEW r \in AnyRun, Ordered(r), ~r.covers, NEW e \in FirstOf(r.page), NEW shown \in BOOLEAN
    PROVE  Aside(Listed(r, e, shown))
<1> DEFINE n == [trace |-> e.trace, ver |-> e.ver, src |-> e.src, shown |-> shown]
           x == [r EXCEPT !.page = @ \ {e}, !.pc = "walk", !.entries = Append(@, n)]
<1>1. e \in r.page /\ e \in FeedRows /\ \A o \in r.page \ {e} : Before(FeedPlace(e), FeedPlace(o))
      BY DEF FirstOf, AnyRun
<1>2. n \in Entries /\ FeedPlace(n) = FeedPlace(e)
      BY <1>1 DEF FeedRows, Entries, FeedPlace
<1>3. Listed(r, e, shown) = IF x.page = {} THEN Walked(x) ELSE x
      BY DEF Listed
<1> HIDE DEF n
<1>4. /\ r.entries \in Seq(Entries) /\ Append(r.entries, n) \in Seq(Entries)
      /\ Len(r.entries) \in Nat /\ Len(Append(r.entries, n)) = Len(r.entries) + 1
      /\ \A i \in 1 .. Len(r.entries) : Append(r.entries, n)[i] = r.entries[i]
      /\ Append(r.entries, n)[Len(r.entries) + 1] = n
      <2>1. r.entries \in Seq(Entries)
            BY DEF AnyRun
      <2> QED BY <2>1, <1>2, AppendProperties, LenProperties
<1>5. /\ x \in AnyRun /\ x.pc = "walk" /\ x.entries = Append(r.entries, n) /\ x.page = r.page \ {e} /\ x.covers = r.covers
      /\ x.at = r.at /\ x.from = r.from /\ x.sat = r.sat /\ x.sfrom = r.sfrom
      <2>1. "walk" \in Pcs
            BY DEF Pcs
      <2> HIDE DEF Pcs
      <2>2. r.page \ {e} \in SUBSET FeedRows
            BY DEF AnyRun
      <2> QED BY <1>4, <2>1, <2>2 DEF AnyRun
<1> HIDE DEF x
<1>6. Ordered(x)
      <2>1. \A i \in 1 .. Len(x.entries) : i \in 1 .. Len(r.entries) \/ i = Len(r.entries) + 1
            BY <1>4, <1>5
      <2>2. \A i \in 1 .. Len(x.entries) : Before(x.at, FeedPlace(x.entries[i]))
            BY <1>1, <1>2, <1>4, <1>5, <2>1 DEF Ordered
      <2>3. ASSUME NEW i \in 1 .. Len(x.entries), NEW o \in x.page
            PROVE  Before(FeedPlace(x.entries[i]), FeedPlace(o))
            <3>1. CASE i \in 1 .. Len(r.entries)
                  BY <3>1, <1>4, <1>5 DEF Ordered
            <3>2. CASE i = Len(r.entries) + 1
                  BY <3>2, <1>1, <1>2, <1>4, <1>5
            <3> QED BY <2>1, <3>1, <3>2
      <2>4. ASSUME NEW i \in 1 .. Len(x.entries), NEW j \in 1 .. Len(x.entries), i < j
            PROVE  Before(FeedPlace(x.entries[i]), FeedPlace(x.entries[j]))
            <3>1. i \in 1 .. Len(r.entries)
                  BY <2>4, <1>4, <1>5
            <3>2. CASE j \in 1 .. Len(r.entries)
                  BY <2>4, <3>1, <3>2, <1>4, <1>5 DEF Ordered
            <3>3. CASE j = Len(r.entries) + 1
                  BY <3>1, <3>3, <1>1, <1>2, <1>4, <1>5 DEF Ordered
            <3> QED BY <2>1, <3>2, <3>3
      <2>5. /\ ~Before(x.at, x.from) /\ ~Before(x.sat, x.sfrom)
            /\ \A o \in x.page : Before(x.at, FeedPlace(o))
            BY <1>5 DEF Ordered
      <2> QED BY <2>2, <2>3, <2>4, <2>5 DEF Ordered
<1>7. Aside(Walked(x))
      BY <1>5, <1>6, WalkedGood
<1>8. Aside(x)
      BY <1>5, <1>6 DEF Aside, GoodRun, AtItsPlace, AtEntry, InDelivery, Holding
<1> QED BY <1>3, <1>7, <1>8

LEMMA PassedGood ==
    ASSUME NEW r \in AnyRun, Ordered(r), r.entries # <<>>, NEW pc \in {"send", "forward", "stage"}
    PROVE  Aside(PassedTo(r, pc))
<1> DEFINE x == [r EXCEPT !.at = FeedPlace(Head(r.entries)), !.entries = Tail(@), !.covers = FALSE,
                          !.pc = pc]
           y == [x EXCEPT !.tree = NoVersions, !.seen = NoVersions, !.score = NoVersions]
<1>1. PassedTo(r, pc) = IF x.entries = <<>> THEN EndPage(y) ELSE x
      BY DEF PassedTo
<1>2. r.entries \in Seq(Entries)
      BY DEF AnyRun
<1>3. /\ Head(r.entries) = r.entries[1] /\ Tail(r.entries) \in Seq(Entries)
      /\ Len(r.entries) \in Nat /\ Len(r.entries) >= 1
      /\ Len(Tail(r.entries)) = Len(r.entries) - 1
      /\ \A i \in 1 .. Len(r.entries) - 1 : Tail(r.entries)[i] = r.entries[i + 1]
      BY <1>2, HeadTailProperties, LenProperties, EmptySeq
<1>4. \A i \in 1 .. Len(r.entries) : r.entries[i] \in Entries
      BY <1>2, ElementOfSeq
<1>5. \A i \in 1 .. Len(r.entries) : FeedPlace(r.entries[i]) \in Moments
      BY <1>4, PlacesAreMoments
<1>6. /\ x \in AnyRun /\ x.pc = pc /\ x.entries = Tail(r.entries) /\ x.page = r.page /\ ~x.covers
      /\ x.at = FeedPlace(r.entries[1]) /\ x.from = r.from /\ x.sat = r.sat /\ x.sfrom = r.sfrom
      <2>1. pc \in Pcs
            BY Zenon DEF Pcs
      <2> HIDE DEF Pcs
      <2>2. FeedPlace(Head(r.entries)) \in Moments
            BY <1>3, <1>5
      <2> QED BY <1>3, <2>1, <2>2 DEF AnyRun
<1> HIDE DEF x
<1>7. Ordered(x)
      <2>1. ~Before(x.at, x.from)
            <3>1. r.from \in Moments /\ r.at \in Moments /\ x.at \in Moments
                  BY <1>6 DEF AnyRun
            <3>2. Before(r.at, x.at) /\ ~Before(r.at, r.from)
                  BY <1>3, <1>6 DEF Ordered
            <3> QED BY <3>1, <3>2, <1>6, BeforeOrders
      <2>2. \A o \in x.page : Before(x.at, FeedPlace(o))
            BY <1>3, <1>6 DEF Ordered
      <2>3. \A i \in 1 .. Len(x.entries) :
               i \in 1 .. Len(r.entries) - 1 /\ i + 1 \in 1 .. Len(r.entries) /\ 1 < i + 1
               /\ x.entries[i] = r.entries[i + 1]
            BY <1>3, <1>6
      <2>4. \A i \in 1 .. Len(x.entries) : Before(x.at, FeedPlace(x.entries[i]))
            BY <1>3, <1>6, <2>3 DEF Ordered
      <2>5. \A i \in 1 .. Len(x.entries) : \A e \in x.page : Before(FeedPlace(x.entries[i]), FeedPlace(e))
            BY <1>6, <2>3 DEF Ordered
      <2>6. ASSUME NEW i \in 1 .. Len(x.entries), NEW j \in 1 .. Len(x.entries), i < j
            PROVE  Before(FeedPlace(x.entries[i]), FeedPlace(x.entries[j]))
            <3>1. i + 1 < j + 1
                  BY <2>6, <1>3, <1>6
            <3> QED BY <2>3, <3>1 DEF Ordered
      <2>7. ~Before(x.sat, x.sfrom)
            BY <1>6 DEF Ordered
      <2> QED BY <2>1, <2>2, <2>4, <2>5, <2>6, <2>7 DEF Ordered
<1>8. CASE x.entries = <<>>
      <2>1. y \in AnyRun /\ SameOrder(y, x)
            <3>1. NoVersions \in PerTrace
                  BY DEF NoVersions, PerTrace
            <3> QED BY <1>6, <3>1 DEF AnyRun, SameOrder
      <2> HIDE DEF y
      <2>2. Ordered(y) /\ y.entries = <<>> /\ ~y.covers
            BY <1>6, <1>7, <1>8, <2>1, OrderStays DEF SameOrder
      <2>3. Aside(EndPage(y))
            BY <2>1, <2>2, EndPageGood
      <2> QED BY <1>1, <1>8, <2>3
<1>9. CASE x.entries # <<>>
      <2>1. Aside(x)
            BY <1>6, <1>7, <1>9, Zenon DEF Aside, GoodRun, AtItsPlace, AtEntry, InDelivery, Holding
      <2> QED BY <1>1, <1>9, <2>1
<1> QED BY <1>8, <1>9

\* A run that has nothing of the feed.
RunAt(pc, from, at, sfrom, sat) ==
    [pc |-> pc, from |-> from, at |-> at, sfrom |-> sfrom, sat |-> sat,
     page |-> {}, got |-> {}, seen |-> NoVersions, held |-> {},
     entries |-> <<>>, more |-> FALSE, blocked |-> FALSE, covers |-> FALSE,
     sent |-> 0, examined |-> 0, tree |-> NoVersions, score |-> NoVersions,
     staged |-> <<>>, changed |-> {}, rescored |-> {}, again |-> FALSE]

LEMMA RunAtIs ==
    ASSUME NEW pc, NEW from, NEW at, NEW sfrom, NEW sat
    PROVE  [Idle EXCEPT !.pc = pc, !.from = from, !.at = at, !.sfrom = sfrom, !.sat = sat]
             = RunAt(pc, from, at, sfrom, sat)
<1>1. PICK x : x = [Idle EXCEPT !.pc = pc, !.from = from, !.at = at, !.sfrom = sfrom, !.sat = sat]
      OBVIOUS
<1>2. x = [pc |-> pc, from |-> from, at |-> at, sfrom |-> sfrom, sat |-> sat,
           page |-> {}, got |-> {}, seen |-> NoVersions, held |-> {},
           entries |-> <<>>, more |-> FALSE, blocked |-> FALSE, covers |-> FALSE,
           sent |-> 0, examined |-> 0, tree |-> NoVersions, score |-> NoVersions,
           staged |-> <<>>, changed |-> {}, rescored |-> {}, again |-> FALSE]
      BY <1>1 DEF Idle
<1>3. x = RunAt(pc, from, at, sfrom, sat)
      BY <1>2 DEF RunAt
<1> QED BY <1>1, <1>3

LEMMA IdleGood ==
    ASSUME NEW from \in Moments, NEW at \in Moments, ~Before(at, from),
           NEW sfrom \in Moments, NEW sat \in Moments, ~Before(sat, sfrom),
           NEW pc \in {"idle", "record", "list"}
    PROVE  Aside(RunAt(pc, from, at, sfrom, sat))
<1>1. PICK x : x = RunAt(pc, from, at, sfrom, sat)
      OBVIOUS
<1>2. NoVersions \in PerTrace
      BY DEF NoVersions, PerTrace
<1>3. <<>> \in Seq(Entries) /\ <<>> \in Seq(StagedRows) /\ Len(<<>>) = 0
      BY EmptySeq
<1>4. pc \in Pcs
      BY Zenon DEF Pcs
<1>5. x \in AnyRun
      BY <1>1, <1>2, <1>3, <1>4 DEF AnyRun, RunAt
<1>6. /\ x.pc = pc /\ x.entries = <<>> /\ x.page = {} /\ ~x.covers
      /\ x.from = from /\ x.at = at /\ x.sfrom = sfrom /\ x.sat = sat
      BY <1>1 DEF RunAt
<1>7. Ordered(x)
      BY <1>3, <1>6 DEF Ordered
<1> QED BY <1>1, <1>5, <1>6, <1>7, Zenon DEF Aside, GoodRun, AtItsPlace, AtEntry, InDelivery, Holding

-----------------------------------------------------------------------------
\* The steps of a run outside of a delivery.

GoesAside(w) == \E x : Aside(x) /\ run' = [run EXCEPT ![w] = x]

LEMMA OfTyped ==
    ASSUME NEW T, NEW values \in PerTrace
    PROVE  Of(T, values) \in PerTrace
BY DEF Of, PerTrace

LEMMA ReadsTyped ==
    ASSUME DestTypes
    PROVE  /\ Summaries \in PerTrace /\ Revisions \in PerTrace
           /\ [t \in Traces |-> scores[t].rev] \in PerTrace
           /\ \A T \in SUBSET Traces : PendingTraces(T) \in SUBSET Traces
BY DEF DestTypes, FeedTypes, Summaries, Revisions, PendingTraces, PerTrace

LEMMA ClaimRuleAside ==
    ASSUME DestInv, NEW w \in Workers, ClaimRule(w)
    PROVE  GoesAside(w)
<1> DEFINE x == RunAt("list", rule.pos, rule.pos, rule.spos, rule.spos)
<1>1. rule.pos \in Moments /\ rule.spos \in Moments
      BY DEF DestInv, DestTypes
<1>2. Aside(x)
      BY <1>1, BeforeOrders, IdleGood
<1>3. run' = [run EXCEPT ![w] = x]
      <2>1. [Idle EXCEPT !.pc = "list", !.from = rule.pos, !.at = rule.pos,
                         !.sfrom = rule.spos, !.sat = rule.spos] = x
            BY RunAtIs, Zenon
      <2> QED BY <2>1 DEF ClaimRule, Go
<1> HIDE DEF x
<1> QED BY <1>2, <1>3 DEF GoesAside

LEMMA RowsAhead ==
    ASSUME DestTypes, NEW position \in Moments
    PROVE  /\ Activities(position) \in SUBSET FeedRows
           /\ \A e \in Activities(position) : Before(position, FeedPlace(e))
<1>1. ASSUME NEW e \in Activities(position)
      PROVE  e \in FeedRows /\ Before(position, FeedPlace(e))
      <2>1. PICK t \in Traces : feedRow[t] # NoRow /\ Before(position, At(t)) /\ e = Row(t)
            BY DEF Activities
      <2> QED BY <2>1 DEF DestTypes, FeedTypes, Row, At, FeedPlace, FeedRows
<1> QED BY <1>1

LEMMA ReadPageAside ==
    ASSUME DestInv, NEW w \in Workers, ReadPage(w)
    PROVE  GoesAside(w)
<1>1. PICK r : r = run[w]
      OBVIOUS
<1>2. r \in AnyRun /\ Ordered(r) /\ AtItsPlace(r) /\ r.pc = "list" /\ ~r.covers
      BY <1>1, Zenon DEF DestInv, RunInv, GoodRun, AtItsPlace, Holding, ReadPage, Go
<1>3. PICK limit : limit = IF MaxPerRun - r.sent < pageSize THEN MaxPerRun - r.sent ELSE pageSize
      OBVIOUS
<1>4. PICK rows : rows = Activities(r.at)
      OBVIOUS
<1> DEFINE page == [r EXCEPT !.pc = "look", !.more = Cardinality(rows) > limit, !.got = {},
                          !.page = PageOf(rows, limit)]
<1>5. run' = [run EXCEPT ![w] = IF rows = {} THEN EndPage(page) ELSE page]
      BY <1>1, <1>3, <1>4 DEF ReadPage, Go
<1>6. r.at \in Moments
      BY <1>2 DEF AnyRun
<1>7. PageOf(rows, limit) \in SUBSET FeedRows /\ \A e \in PageOf(rows, limit) : Before(r.at, FeedPlace(e))
      BY <1>4, <1>6, RowsAhead DEF DestInv, PageOf
<1>8. /\ page \in AnyRun /\ page.pc = "look" /\ page.entries = r.entries /\ page.page = PageOf(rows, limit)
      /\ ~page.covers
      /\ page.at = r.at /\ page.from = r.from /\ page.sat = r.sat /\ page.sfrom = r.sfrom
      <2>1. "look" \in Pcs
            BY DEF Pcs
      <2>2. (Cardinality(rows) > limit) \in BOOLEAN
            OBVIOUS
      <2> HIDE DEF Pcs
      <2> QED BY <1>2, <1>7, <2>1, <2>2 DEF AnyRun
<1> HIDE DEF page
<1>9. r.entries = <<>>
      BY <1>2 DEF AtItsPlace
<1>10. Ordered(page)
      BY <1>2, <1>7, <1>8, <1>9, EmptySeq DEF Ordered
<1>11. Aside(EndPage(page))
      BY <1>8, <1>9, <1>10, EndPageGood
<1>12. Aside(page)
      BY <1>8, <1>10 DEF Aside, GoodRun, AtItsPlace, AtEntry, InDelivery, Holding
<1> QED BY <1>5, <1>11, <1>12 DEF GoesAside

\* A run that reads keeps what it has of the feed.
LEMMA ReaderGood ==
    ASSUME NEW r \in AnyRun, Ordered(r), NEW x \in AnyRun, SameOrder(x, r), ~r.covers,
           x.pc \notin InDelivery, x.pc \notin {"list", "stored"}, x.pc \in AtEntry => x.entries # <<>>
    PROVE  Aside(x)
BY OrderStays DEF Aside, GoodRun, AtItsPlace, SameOrder

LEMMA LookUpAside ==
    ASSUME DestInv, NEW w \in Workers, NEW what \in {"summaries", "pending"}, LookUp(w, what)
    PROVE  GoesAside(w)
<1>1. PICK r : r = run[w]
      OBVIOUS
<1>2. r \in AnyRun /\ Ordered(r) /\ ~r.covers
      BY <1>1, Zenon DEF DestInv, RunInv, GoodRun, AtItsPlace, Holding, LookUp, Go
<1>3. PageIds(r) \in SUBSET Traces
      BY <1>2 DEF AnyRun, PageIds, FeedRows
<1>4. PICK got, seen, held, pc :
         /\ got = (IF Cardinality(r.got \cup {what}) = 2 THEN {} ELSE r.got \cup {what})
         /\ seen = (IF what = "summaries" THEN Of(PageIds(r), Summaries) ELSE r.seen)
         /\ held = (IF what = "pending" THEN PendingTraces(PageIds(r)) ELSE r.held)
         /\ pc = (IF Cardinality(r.got \cup {what}) = 2 THEN "walk" ELSE r.pc)
      OBVIOUS
<1>5. r.pc = "look" /\ run' = [run EXCEPT ![w] = [r EXCEPT !.got = got, !.seen = seen, !.held = held, !.pc = pc]]
      BY <1>1, <1>2, <1>4 DEF LookUp, Go, AnyRun
<1>6. got \in SUBSET Queries /\ seen \in PerTrace /\ held \in SUBSET Traces /\ pc \in {"look", "walk"}
      <2>1. r.got \cup {what} \in SUBSET Queries
            BY <1>2 DEF AnyRun, Queries
      <2>2. r.seen \in PerTrace /\ r.held \in SUBSET Traces
            BY <1>2 DEF AnyRun
      <2>3. Of(PageIds(r), Summaries) \in PerTrace /\ PendingTraces(PageIds(r)) \in SUBSET Traces
            BY <1>3, ReadsTyped, OfTyped DEF DestInv
      <2> QED BY <1>4, <1>5, <2>1, <2>2, <2>3
<1>7. PICK x : x = [r EXCEPT !.got = got, !.seen = seen, !.held = held, !.pc = pc]
      OBVIOUS
<1>8. x \in AnyRun /\ SameOrder(x, r) /\ x.pc = pc
      <2>1. pc \in Pcs
            BY <1>6, Zenon DEF Pcs
      <2> HIDE DEF Pcs
      <2> QED BY <1>2, <1>6, <1>7, <2>1 DEF AnyRun, SameOrder
<1>9. Aside(x)
      BY <1>2, <1>6, <1>8, ReaderGood, Zenon DEF AtEntry, InDelivery, Holding
<1> QED BY <1>5, <1>7, <1>9 DEF GoesAside

LEMMA DecidedGood ==
    ASSUME NEW r \in AnyRun, Ordered(r), ~r.covers, NEW e \in FirstOf(r.page)
    PROVE  Aside(Decided(r, e))
<1>1. (r.seen[e.trace] = e.src) \in BOOLEAN
      OBVIOUS
<1>2. Aside(Listed(r, e, r.seen[e.trace] = e.src))
      BY <1>1, ListedGood
<1> QED BY <1>2, BlockedGood DEF Decided

LEMMA WalkEntryAside ==
    ASSUME DestInv, NEW w \in Workers, WalkEntry(w) \/ LookAgain(w)
    PROVE  GoesAside(w)
<1>1. PICK r : r = run[w]
      OBVIOUS
<1>2. r \in AnyRun /\ Ordered(r) /\ ~r.covers
      BY <1>1, Zenon DEF DestInv, RunInv, GoodRun, AtItsPlace, Holding, WalkEntry, LookAgain, Go
<1>3. PICK x : /\ run' = [run EXCEPT ![w] = x]
               /\ \/ x = BlockedPage(r)
                  \/ \E e \in FirstOf(r.page) :
                        \/ x = Decided(r, e)
                        \/ \E pc \in {"pending again", "trace again"} : x = [r EXCEPT !.pc = pc]
                        \/ x = [r EXCEPT !.pc = "pending last", !.seen[e.trace] = Summaries[e.trace]]
      <2>1. CASE WalkEntry(w)
            BY <1>1, <2>1, Zenon DEF WalkEntry, Go
      <2>2. CASE LookAgain(w)
            BY <1>1, <2>2, Zenon DEF LookAgain, Go
      <2> QED BY <2>1, <2>2, Zenon
<1>4. CASE x = BlockedPage(r)
      BY <1>2, <1>3, <1>4, BlockedGood DEF GoesAside
<1>5. ASSUME NEW e \in FirstOf(r.page), x = Decided(r, e)
      PROVE  GoesAside(w)
      BY <1>2, <1>3, <1>5, DecidedGood, Zenon DEF GoesAside
<1>6. ASSUME NEW pc \in {"pending again", "trace again"}, x = [r EXCEPT !.pc = pc]
      PROVE  GoesAside(w)
      <2>1. pc \in Pcs
            BY Zenon DEF Pcs
      <2>2. x \in AnyRun /\ SameOrder(x, r) /\ x.pc = pc
            <3> HIDE DEF Pcs
            <3> QED BY <1>2, <1>6, <2>1, Zenon DEF AnyRun, SameOrder
      <2>3. Aside(x)
            BY <1>2, <2>2, ReaderGood, Zenon DEF AtEntry, InDelivery, Holding
      <2> QED BY <1>3, <2>3, Zenon DEF GoesAside
<1>7. ASSUME NEW e \in FirstOf(r.page),
             x = [r EXCEPT !.pc = "pending last", !.seen[e.trace] = Summaries[e.trace]]
      PROVE  GoesAside(w)
      <2>1. "pending last" \in Pcs
            BY DEF Pcs
      <2>2. e.trace \in Traces
            BY <1>2 DEF AnyRun, FirstOf, FeedRows
      <2>3. PICK seen : seen = [r.seen EXCEPT ![e.trace] = Summaries[e.trace]]
            OBVIOUS
      <2>4. seen \in PerTrace
            BY <1>2, <2>2, <2>3, ReadsTyped DEF DestInv, AnyRun, PerTrace
      <2>5. x = [r EXCEPT !.pc = "pending last", !.seen = seen]
            BY <1>2, <1>7, <2>3 DEF AnyRun
      <2>6. x \in AnyRun /\ SameOrder(x, r) /\ x.pc = "pending last"
            <3> HIDE DEF Pcs
            <3> QED BY <1>2, <2>1, <2>4, <2>5, Zenon DEF AnyRun, SameOrder
      <2>7. Aside(x)
            BY <1>2, <2>6, ReaderGood, Zenon DEF AtEntry, InDelivery, Holding
      <2> QED BY <1>3, <2>7, Zenon DEF GoesAside
<1> QED BY <1>3, <1>4, <1>5, <1>6, <1>7, Zenon

LEMMA StoppedGood ==
    ASSUME NEW r \in AnyRun, Ordered(r)
    PROVE  Aside(Stopped(r))
<1>1. r.from \in Moments /\ r.at \in Moments /\ ~Before(r.at, r.from) /\ Origin \in Moments
      BY DEF AnyRun, Ordered, Origin, Moments
<1>2. Stopped(r) = RunAt("record", r.from, r.at, Origin, Origin)
      <2>1. PICK x, from, at : /\ x = [Idle EXCEPT !.pc = "record", !.from = from, !.at = at]
                               /\ from = r.from /\ at = r.at
            BY Zenon
      <2>2. x = Stopped(r)
            BY <2>1 DEF Stopped
      <2>3. x = [pc |-> "record", from |-> from, at |-> at, sfrom |-> Origin, sat |-> Origin,
                 page |-> {}, got |-> {}, seen |-> NoVersions, held |-> {},
                 entries |-> <<>>, more |-> FALSE, blocked |-> FALSE, covers |-> FALSE,
                 sent |-> 0, examined |-> 0, tree |-> NoVersions, score |-> NoVersions,
                 staged |-> <<>>, changed |-> {}, rescored |-> {}, again |-> FALSE]
            BY <2>1 DEF Idle
      <2> QED BY <2>1, <2>2, <2>3 DEF RunAt
<1>3. Aside(RunAt("record", r.from, r.at, Origin, Origin))
      BY <1>1, BeforeOrders, IdleGood
<1> QED BY <1>2, <1>3

LEMMA IdleAside == Aside(Idle)
<1>1. Origin \in Moments /\ ~Before(Origin, Origin)
      BY BeforeOrders DEF Origin, Moments
<1>2. Idle = RunAt("idle", Origin, Origin, Origin, Origin)
      BY DEF Idle, RunAt
<1>3. Aside(RunAt("idle", Origin, Origin, Origin, Origin))
      BY <1>1, IdleGood
<1> QED BY <1>2, <1>3

LEMMA EntriesTyped ==
    ASSUME NEW r \in AnyRun
    PROVE  /\ EntryIds(r) \in SUBSET Traces
           /\ r.entries # <<>> => Head(r.entries) \in Entries
<1>1. r.entries \in Seq(Entries)
      BY DEF AnyRun
<1>2. \A i \in DOMAIN r.entries : r.entries[i] \in Entries
      BY <1>1, ElementOfSeq, LenProperties
<1>3. EntryIds(r) \in SUBSET Traces
      BY <1>2 DEF EntryIds, Entries
<1> QED BY <1>1, <1>3, HeadTailProperties

LEMMA PassEntryAside ==
    ASSUME DestInv, NEW w \in Workers, PassEntry(w)
    PROVE  GoesAside(w)
<1>1. run[w] \in AnyRun /\ Ordered(run[w]) /\ run[w].entries # <<>>
      BY DEF DestInv, RunInv, GoodRun, PassEntry
<1>2. Aside(Passed(run[w]))
      BY <1>1, PassedGood DEF Passed
<1> QED BY <1>2 DEF PassEntry, Go, GoesAside

LEMMA LoadAside ==
    ASSUME DestInv, NEW w \in Workers,
           LoadObservations(w) \/ \E table \in {"traces", "observations", "scores"} : LoadRows(w, table)
    PROVE  GoesAside(w)
<1>1. PICK r : r = run[w]
      OBVIOUS
<1>2. r \in AnyRun /\ Ordered(r) /\ AtItsPlace(r) /\ EntryIds(r) \in SUBSET Traces
      BY <1>1, EntriesTyped DEF DestInv, RunInv, GoodRun
<1>3. PICK got, seen, tree, score, pc :
         /\ r.pc = "load"
         /\ run' = [run EXCEPT ![w] = [r EXCEPT !.got = got, !.seen = seen, !.tree = tree,
                                                !.score = score, !.pc = pc]]
         /\ got \in SUBSET Queries /\ pc \in {"load", "forward", "stage"}
         /\ seen \in {r.seen, Of(EntryIds(r), Summaries)}
         /\ tree \in {r.tree, Of(EntryIds(r), Revisions)}
         /\ score \in {r.score, Of(EntryIds(r), [t \in Traces |-> scores[t].rev])}
      <2>1. CASE LoadObservations(w)
            <3>1. r.pc = "load" /\ run' = [run EXCEPT ![w] = [r EXCEPT !.tree = Of(EntryIds(r), Revisions), !.pc = "forward"]]
                  BY <1>1, <2>1 DEF LoadObservations, Go
            <3>2. [r EXCEPT !.tree = Of(EntryIds(r), Revisions), !.pc = "forward"]
                    = [r EXCEPT !.got = r.got, !.seen = r.seen, !.tree = Of(EntryIds(r), Revisions),
                                !.score = r.score, !.pc = "forward"]
                  BY <1>2 DEF AnyRun
            <3>3. r.got \in SUBSET Queries
                  BY <1>2 DEF AnyRun
            <3> QED BY <3>1, <3>2, <3>3, Zenon
      <2>2. ASSUME NEW table \in {"traces", "observations", "scores"}, LoadRows(w, table)
            PROVE  \E got, seen, tree, score, pc :
                     /\ r.pc = "load"
                     /\ run' = [run EXCEPT ![w] = [r EXCEPT !.got = got, !.seen = seen, !.tree = tree,
                                                            !.score = score, !.pc = pc]]
                     /\ got \in SUBSET Queries /\ pc \in {"load", "forward", "stage"}
                     /\ seen \in {r.seen, Of(EntryIds(r), Summaries)}
                     /\ tree \in {r.tree, Of(EntryIds(r), Revisions)}
                     /\ score \in {r.score, Of(EntryIds(r), [t \in Traces |-> scores[t].rev])}
            <3>1. PICK got, seen, tree, score, pc :
                     /\ got = IF Cardinality(r.got \cup {table}) = 3 THEN {} ELSE r.got \cup {table}
                     /\ seen = IF table = "traces" THEN Of(EntryIds(r), Summaries) ELSE r.seen
                     /\ tree = IF table = "observations" THEN Of(EntryIds(r), Revisions) ELSE r.tree
                     /\ score = IF table = "scores" THEN Of(EntryIds(r), [t \in Traces |-> scores[t].rev])
                                ELSE r.score
                     /\ pc = IF Cardinality(r.got \cup {table}) = 3 THEN "stage" ELSE r.pc
                  OBVIOUS
            <3>2. r.pc = "load" /\ run' = [run EXCEPT ![w] =
                     [r EXCEPT !.got = got, !.seen = seen, !.tree = tree, !.score = score, !.pc = pc]]
                  BY <1>1, <1>2, <2>2, <3>1 DEF LoadRows, Go, AnyRun
            <3>3. r.got \cup {table} \in SUBSET Queries
                  BY <1>2 DEF AnyRun, Queries
            <3>4. got \in SUBSET Queries /\ pc \in {"load", "stage"}
                  BY <3>1, <3>2, <3>3
            <3>5. /\ seen \in {r.seen, Of(EntryIds(r), Summaries)}
                  /\ tree \in {r.tree, Of(EntryIds(r), Revisions)}
                  /\ score \in {r.score, Of(EntryIds(r), [t \in Traces |-> scores[t].rev])}
                  BY <3>1
            <3> QED BY <3>2, <3>4, <3>5, Zenon
      <2> QED BY <2>1, <2>2, Zenon
<1>4. seen \in PerTrace /\ tree \in PerTrace /\ score \in PerTrace
      <2>1. r.seen \in PerTrace /\ r.tree \in PerTrace /\ r.score \in PerTrace
            BY <1>2 DEF AnyRun
      <2> QED BY <1>2, <1>3, <2>1, ReadsTyped, OfTyped DEF DestInv
<1>5. PICK x : x = [r EXCEPT !.got = got, !.seen = seen, !.tree = tree, !.score = score, !.pc = pc]
      OBVIOUS
<1>6. x \in AnyRun /\ SameOrder(x, r) /\ x.pc = pc
      <2>1. pc \in Pcs
            BY <1>3, Zenon DEF Pcs
      <2> HIDE DEF Pcs
      <2> QED BY <1>2, <1>3, <1>4, <1>5, <2>1 DEF AnyRun, SameOrder
<1>7. r.entries # <<>> /\ ~r.covers
      BY <1>2, <1>3 DEF AtItsPlace, AtEntry, Holding
<1>8. Aside(x)
      BY <1>2, <1>3, <1>6, <1>7, ReaderGood, Zenon DEF InDelivery, Holding, SameOrder
<1> QED BY <1>3, <1>5, <1>8 DEF GoesAside

LEMMA ForwardAside ==
    ASSUME DestInv, NEW w \in Workers, ForwardEntry(w)
    PROVE  GoesAside(w)
<1>1. PICK r : r = run[w]
      OBVIOUS
<1>2. r \in AnyRun /\ Ordered(r) /\ r.pc = "forward" /\ r.entries # <<>>
      BY <1>1 DEF DestInv, RunInv, GoodRun, AtItsPlace, AtEntry, ForwardEntry
<1>3. PICK y : y = [r EXCEPT !.sent = @ + 1]
      OBVIOUS
<1>4. y \in AnyRun /\ SameOrder(y, r)
      <2>1. PICK n : n = r.sent + 1
            OBVIOUS
      <2>2. n \in Nat /\ y = [r EXCEPT !.sent = n]
            BY <1>2, <1>3, <2>1 DEF AnyRun
      <2> QED BY <1>2, <2>2 DEF AnyRun, SameOrder
<1>5. Ordered(y) /\ y.entries # <<>>
      BY <1>2, <1>4, OrderStays DEF SameOrder
<1>6. Aside(PassedTo(r, "forward")) /\ Aside(PassedTo(y, "forward")) /\ Aside(Stopped(r))
      BY <1>2, <1>4, <1>5, PassedGood, StoppedGood
<1>7. \E x \in {PassedTo(r, "forward"), PassedTo(y, "forward"), Stopped(r)} : run' = [run EXCEPT ![w] = x]
      BY <1>1, <1>3 DEF ForwardEntry, Go
<1> QED BY <1>6, <1>7 DEF GoesAside

LEMMA StageEntryAside ==
    ASSUME DestInv, NEW w \in Workers, StageEntry(w)
    PROVE  GoesAside(w)
<1>1. PICK r : r = run[w]
      OBVIOUS
<1>2. r \in AnyRun /\ Ordered(r) /\ r.pc = "stage" /\ r.entries # <<>> /\ ~r.covers
      BY <1>1, Zenon DEF DestInv, RunInv, GoodRun, AtItsPlace, AtEntry, Holding, StageEntry, Go
<1>3. PICK e : e = Head(r.entries)
      OBVIOUS
<1>4. e \in Entries
      BY <1>2, <1>3, EntriesTyped
<1>5. PICK row : row = [trace |-> e.trace, ver |-> e.ver, rev |-> r.tree[e.trace], score |-> r.score[e.trace]]
      OBVIOUS
<1>6. row \in StagedRows
      BY <1>2, <1>4, <1>5 DEF AnyRun, StagedRows, Entries, PerTrace
<1>7. PICK y : y = [r EXCEPT !.sent = @ + 1, !.staged = Append(@, row)]
      OBVIOUS
<1>8. y \in AnyRun /\ SameOrder(y, r)
      <2>1. Append(r.staged, row) \in Seq(StagedRows)
            BY <1>2, <1>6, AppendProperties DEF AnyRun
      <2>2. PICK rows, n : rows = Append(r.staged, row) /\ n = r.sent + 1
            OBVIOUS
      <2>3. n \in Nat
            BY <1>2, <2>2 DEF AnyRun
      <2>4. y = [r EXCEPT !.sent = n, !.staged = rows]
            BY <1>2, <1>7, <2>2 DEF AnyRun
      <2> QED BY <1>2, <2>1, <2>2, <2>3, <2>4, Zenon DEF AnyRun, SameOrder
<1>9. Ordered(y) /\ y.entries # <<>>
      BY <1>2, <1>8, OrderStays DEF SameOrder
<1>10. Aside(PassedTo(r, "stage")) /\ Aside(PassedTo(y, "stage"))
      BY <1>2, <1>8, <1>9, PassedGood
<1>11. PICK z : z = [r EXCEPT !.pc = "scores", !.entries = <<>>, !.seen = NoVersions,
                                !.tree = NoVersions, !.score = NoVersions]
      OBVIOUS
<1>12. Aside(z)
      <2>1. NoVersions \in PerTrace /\ <<>> \in Seq(Entries) /\ Len(<<>>) = 0
            BY EmptySeq DEF NoVersions, PerTrace
      <2>2. "scores" \in Pcs
            BY DEF Pcs
      <2>3. /\ z \in AnyRun /\ z.pc = "scores" /\ z.entries = <<>> /\ z.page = r.page /\ ~z.covers
            /\ z.at = r.at /\ z.from = r.from /\ z.sat = r.sat /\ z.sfrom = r.sfrom
            <3> HIDE DEF Pcs
            <3> QED BY <1>2, <1>11, <2>1, <2>2 DEF AnyRun
      <2>4. Ordered(z)
            BY <1>2, <2>1, <2>3 DEF Ordered
      <2> QED BY <2>3, <2>4 DEF Aside, GoodRun, AtItsPlace, AtEntry, InDelivery, Holding
<1>13. \E x \in {PassedTo(r, "stage"), PassedTo(y, "stage"), z} : run' = [run EXCEPT ![w] = x]
      <2>1. Staged(r, e) = PassedTo(y, "stage")
            BY <1>5, <1>7 DEF Staged
      <2>2. run' = [run EXCEPT ![w] = CASE ~Wanted(e) -> PassedTo(r, "stage")
                [] Wanted(e) /\ r.seen[e.trace] = e.src -> Staged(r, e)
                [] Wanted(e) /\ r.seen[e.trace] # e.src -> z]
            BY <1>1, <1>3, <1>11 DEF StageEntry, Go
      <2>3. CASE ~Wanted(e)
            BY <2>2, <2>3
      <2>4. CASE Wanted(e) /\ r.seen[e.trace] = e.src
            BY <2>1, <2>2, <2>4
      <2>5. CASE Wanted(e) /\ r.seen[e.trace] # e.src
            BY <2>2, <2>5
      <2> QED BY <2>3, <2>4, <2>5
<1> QED BY <1>10, <1>12, <1>13 DEF GoesAside

LEMMA ScoresAside ==
    ASSUME DestInv, NEW w \in Workers, ListScores(w) \/ MatchScores(w) \/ StageScores(w) \/ Upload(w)
    PROVE  GoesAside(w)
<1>1. PICK r : r = run[w]
      OBVIOUS
<1>2. r \in AnyRun /\ Ordered(r) /\ AtItsPlace(r) /\ ~r.covers
      BY <1>1, Zenon DEF DestInv, RunInv, GoodRun, AtItsPlace, Holding, ListScores, MatchScores, StageScores, Upload, Go
<1>3. ASSUME NEW sat \in Moments, ~Before(sat, r.sat), NEW changed \in SUBSET (Nat \X Traces),
             NEW rescored \in SUBSET [trace : Traces, score : Nat],
             NEW pc \in {"stored", "rescore", "upload", "record"},
             pc = "stored" => \A p \in changed : Before(sat, p),
             run' = [run EXCEPT ![w] = [r EXCEPT !.pc = pc, !.sat = sat, !.changed = changed,
                                                 !.rescored = rescored]]
      PROVE  GoesAside(w)
      <2>1. PICK x : x = [r EXCEPT !.pc = pc, !.sat = sat, !.changed = changed, !.rescored = rescored]
            OBVIOUS
      <2>2. pc \in Pcs
            BY Zenon DEF Pcs
      <2>3. /\ x \in AnyRun /\ x.pc = pc /\ x.changed = changed /\ x.sat = sat
            /\ x.entries = r.entries /\ x.page = r.page /\ ~x.covers
            /\ x.at = r.at /\ x.from = r.from /\ x.sfrom = r.sfrom
            <3> HIDE DEF Pcs
            <3> QED BY <1>2, <2>1, <2>2 DEF AnyRun
      <2>4. ~Before(x.sat, x.sfrom)
            <3>1. r.sat \in Moments /\ r.sfrom \in Moments /\ ~Before(r.sat, r.sfrom)
                  BY <1>2 DEF AnyRun, Ordered
            <3> QED BY <1>3, <2>3, <3>1, BeforeOrders
      <2>5. Ordered(x)
            BY <1>2, <2>3, <2>4 DEF Ordered
      <2>6. Aside(x)
            BY <1>3, <2>3, <2>5, Zenon DEF Aside, GoodRun, AtItsPlace, AtEntry, InDelivery, Holding
      <2> QED BY <1>3, <2>1, <2>6 DEF GoesAside
<1>4. r.sat \in Moments /\ ~Before(r.sat, r.sat)
      BY <1>2, BeforeOrders DEF AnyRun
<1>5. r.changed \in SUBSET (Nat \X Traces) /\ r.rescored \in SUBSET [trace : Traces, score : Nat]
      BY <1>2 DEF AnyRun
<1>6. CASE ListScores(w)
      <2>1. PICK rows : rows = {ScorePlace(t) : t \in ScoreRows(r.sat)}
            OBVIOUS
      <2>2. PICK pc \in {"upload", "stored"} : run' = [run EXCEPT ![w] = [r EXCEPT !.changed = rows, !.pc = pc]]
            BY <1>1, <1>6, <2>1 DEF ListScores, Go
      <2>3. rows \in SUBSET (Nat \X Traces) /\ \A p \in rows : Before(r.sat, p)
            <3>1. \A t \in Traces : ScorePlace(t) \in Nat \X Traces
                  BY DEF ScorePlace, DestInv, DestTypes
            <3> QED BY <2>1, <3>1 DEF ScoreRows
      <2>4. run' = [run EXCEPT ![w] = [r EXCEPT !.pc = pc, !.sat = r.sat, !.changed = rows,
                                                !.rescored = r.rescored]]
            BY <1>2, <2>2 DEF AnyRun
      <2>5. pc = "stored" => \A p \in rows : Before(r.sat, p)
            BY <2>3
      <2>6. pc \in {"stored", "rescore", "upload", "record"}
            OBVIOUS
      <2> QED BY <1>3, <1>4, <1>5, <2>3, <2>4, <2>5, <2>6, Zenon
<1>7. CASE MatchScores(w)
      <2>1. PICK last \in r.changed, changed \in SUBSET r.changed :
               run' = [run EXCEPT ![w] = [r EXCEPT !.pc = "rescore", !.sat = last, !.changed = changed]]
            <3>1. PICK last \in r.changed :
                     run' = [run EXCEPT ![w] = [r EXCEPT !.pc = "rescore", !.sat = last,
                               !.changed = {p \in @ : stored[p[2]].src # 0 /\ p[2] \in Matching}]]
                  BY <1>1, <1>7, Zenon DEF MatchScores, Go
            <3>2. PICK changed : changed = {p \in r.changed : stored[p[2]].src # 0 /\ p[2] \in Matching}
                  BY Zenon
            <3>3. run' = [run EXCEPT ![w] = [r EXCEPT !.pc = "rescore", !.sat = last, !.changed = changed]]
                  BY <1>2, <3>1, <3>2 DEF AnyRun
            <3> QED BY <3>2, <3>3, Zenon
      <2>2. r.pc = "stored"
            BY <1>1, <1>7, Zenon DEF MatchScores, Go
      <2>3. last \in Moments /\ Before(r.sat, last)
            BY <1>2, <1>5, <2>1, <2>2, SettledFeedAssumption DEF AtItsPlace, Moments
      <2>4. ~Before(last, r.sat)
            BY <1>4, <2>3, BeforeOrders
      <2>5. changed \in SUBSET (Nat \X Traces)
            BY <1>5, <2>1
      <2>6. run' = [run EXCEPT ![w] = [r EXCEPT !.pc = "rescore", !.sat = last, !.changed = changed,
                                                !.rescored = r.rescored]]
            BY <1>2, <2>1 DEF AnyRun
      <2> QED BY <1>3, <1>5, <2>3, <2>4, <2>5, <2>6, Zenon
<1>8. CASE StageScores(w)
      <2>1. PICK rescored : rescored = {[trace |-> p[2], score |-> scores[p[2]].rev] : p \in r.changed}
            OBVIOUS
      <2>2. rescored \in SUBSET [trace : Traces, score : Nat]
            BY <1>5, <2>1 DEF DestInv, DestTypes
      <2>3. run' = [run EXCEPT ![w] = [r EXCEPT !.pc = "upload", !.changed = {}, !.rescored = rescored]]
            BY <1>1, <1>8, <2>1 DEF StageScores, Go
      <2>4. run' = [run EXCEPT ![w] = [r EXCEPT !.pc = "upload", !.sat = r.sat, !.changed = {},
                                                !.rescored = rescored]]
            BY <1>2, <2>3 DEF AnyRun
      <2> QED BY <1>3, <1>4, <2>2, <2>4, Zenon
<1>9. CASE Upload(w)
      <2>1. run' = [run EXCEPT ![w] = [r EXCEPT !.pc = "record"]]
            BY <1>1, <1>9 DEF Upload, Go
      <2>2. run' = [run EXCEPT ![w] = [r EXCEPT !.pc = "record", !.sat = r.sat, !.changed = r.changed,
                                                !.rescored = r.rescored]]
            BY <1>2, <2>1 DEF AnyRun
      <2> QED BY <1>3, <1>4, <1>5, <2>2, Zenon
<1> QED BY <1>6, <1>7, <1>8, <1>9

LEMMA EndsAside ==
    ASSUME DestInv, NEW w \in Workers, RecordRun(w) \/ UploadFails(w) \/ RunThrows(w) \/ WorkerDies(w)
    PROVE  GoesAside(w)
<1>1. Aside(Stopped(run[w])) /\ Aside(Idle)
      BY StoppedGood, IdleAside DEF DestInv, RunInv, GoodRun
<1>2. \E x \in {Stopped(run[w]), Idle} : run' = [run EXCEPT ![w] = x]
      <2>1. CASE RunThrows(w)
            <3>1. PICK x \in {Stopped(run[w]), Idle} : x = IF kind = "export" THEN Idle ELSE Stopped(run[w])
                  OBVIOUS
            <3>2. run' = [run EXCEPT ![w] = x]
                  BY <2>1, <3>1 DEF RunThrows, DestInv
            <3> QED BY <3>2
      <2> QED BY <2>1 DEF RecordRun, UploadFails, WorkerDies, Go
<1> QED BY <1>1, <1>2 DEF GoesAside

-----------------------------------------------------------------------------
\* Claims on deliveries.

\* A run at these holds the claim on its version, or on its activity.
Sending == {"post", "mark", "mark failed"}
HoldsVersion(r, k) == r.pc \in Sending /\ VersionKey(Head(r.entries)) = k
HoldsActivity(r, k) == r.covers /\ r.pc \in Holding /\ ActivityKey(Head(r.entries)) = k
Holds(r, k) == HoldsVersion(r, k) \/ HoldsActivity(r, k)
ActivityOf(v) == <<v[1], 0, v[3]>>
IsLost(k) == k \in history.lost

\* Until it is lost, a claim that is held is pending and held by one.
HeldPending == \A w \in Workers : \A k : Holds(run[w], k) => IsLost(k) \/ Status(k) = "pending"
HeldOnce == \A v, w \in Workers : \A k : v # w /\ Holds(run[v], k) /\ Holds(run[w], k) => IsLost(k)
ScannerHolds ==
    /\ scanner.key = NoKey => scanner.answer = "none"
    /\ scanner.key # NoKey => handoff.open /\ scanner.key[2] = 0
    /\ scanner.key # NoKey /\ ~IsLost(scanner.key) => Status(scanner.key) = "pending"
    /\ scanner.key # NoKey /\ ~IsLost(scanner.key) => \A w \in Workers : ~Holds(run[w], scanner.key)
CoversHold == \A w \in Workers : run[w].pc \in {"cover", "release"} => run[w].covers

\* What was answered is delivered, or the one that knows it is about to mark it.
OnlyMarking(k) == Status(k) = "pending" /\ \A w \in Workers : Holds(run[w], k) => run[w].pc = "mark"
AnswerKept(k) ==
    \/ IsLost(k)
    \/ Status(k) = "delivered"
    \/ k[2] # 0 /\ OnlyMarking(k)
    \/ k[2] = 0 /\ scanner.key = k /\ scanner.answer = "delivered"
AnswersKept == \A k \in history.ok : AnswerKept(k)
TwiceLost == \A k \in history.twice : IsLost(k)

\* A run sends a version of the handoff window when the activity is its own,
\* or the scanner never sent it.
MaySend(r) ==
    LET a == ActivityKey(Head(r.entries)) IN
    \/ IsLost(a) \/ r.covers \/ Status(a) = "covered"
    \/ ~handoff.open /\ a \notin history.ok
    \/ ~handoff.open /\ Head(r.entries).ver > handoff.until
SendersMay == \A w \in Workers : run[w].pc \in Holding => MaySend(run[w])

\* Once it was sent, the scanner does not get the activity.
Closing(a) ==
    /\ Status(a) = "pending" /\ (scanner.key = a => scanner.key = NoKey)
    /\ \A w \in Workers : Holds(run[w], a) => run[w].pc \in {"mark", "cover"}
ScannerKept(v) ==
    LET a == ActivityOf(v) IN
    \/ IsLost(a)
    \/ handoff.open /\ (Status(a) = "covered" \/ Closing(a))
    \/ ~handoff.open /\ (a \notin history.ok \/ v[2] > handoff.until)
SentKept == \A v \in history.ok : v[2] # 0 => ScannerKept(v)

ClaimsInv ==
    HeldPending /\ HeldOnce /\ ScannerHolds /\ CoversHold /\ AnswersKept /\ TwiceLost /\ SendersMay /\ SentKept

LEMMA StatusWith ==
    ASSUME NEW key, NEW status, deliveries' = With(key, status)
    PROVE  \A k : Status(k)' = IF k = key THEN status ELSE Status(k)
BY DEF With, Status

\* A step of one run.
LEMMA OneRuns ==
    ASSUME run \in [Workers -> AnyRun], NEW w \in Workers, NEW x, run' = [run EXCEPT ![w] = x]
    PROVE  run'[w] = x /\ \A v \in Workers : v # w => run'[v] = run[v]
OBVIOUS

LEMMA HoldsNothing ==
    ASSUME NEW x, x.pc \notin Holding
    PROVE  \A k : ~Holds(x, k)
BY Zenon DEF Holding, Sending, Holds, HoldsVersion, HoldsActivity

\* A run that has left its delivery changes nothing for the others.
LEMMA AsideClaims ==
    ASSUME DestInv, ClaimsInv, NEW w \in Workers, NEW x, x.pc \notin Holding, run' = [run EXCEPT ![w] = x],
           UNCHANGED <<deliveries, scanner, handoff>>,
           history'.ok = history.ok, history'.twice = history.twice, history'.lost = history.lost
    PROVE  ClaimsInv'
<1>1. /\ run'[w] = x /\ \A v \in Workers : v # w => run'[v] = run[v]
      /\ \A k : ~Holds(x, k)
      BY OneRuns, HoldsNothing DEF DestInv
<1>2. \A v \in Workers : \A k : Holds(run'[v], k) => v # w /\ Holds(run[v], k) /\ run'[v] = run[v]
      BY <1>1
<1>3. \A k : Status(k)' = Status(k) /\ (IsLost(k)' <=> IsLost(k))
      BY DEF Status, IsLost
<1>4. HeldPending' /\ HeldOnce'
      BY <1>2, <1>3 DEF ClaimsInv, HeldPending, HeldOnce
<1>5. ScannerHolds'
      BY <1>2, <1>3 DEF ClaimsInv, ScannerHolds
<1>6. CoversHold'
      BY <1>1, Zenon DEF ClaimsInv, CoversHold, Holding
<1>7. AnswersKept' /\ TwiceLost'
      BY <1>2, <1>3 DEF ClaimsInv, AnswersKept, TwiceLost, AnswerKept, OnlyMarking
<1>8. SendersMay'
      BY <1>1, <1>3 DEF ClaimsInv, SendersMay, MaySend
<1>9. SentKept'
      BY <1>2, <1>3 DEF ClaimsInv, SentKept, ScannerKept, Closing
<1> QED BY <1>4, <1>5, <1>6, <1>7, <1>8, <1>9 DEF ClaimsInv

-----------------------------------------------------------------------------
\* The steps of a delivery.

DeliveryAt(r, pc, covers, sent) == [r EXCEPT !.pc = pc, !.covers = covers, !.sent = sent]

LEMMA DeliveryGood ==
    ASSUME NEW r \in AnyRun, Ordered(r), r.entries # <<>>, NEW pc \in InDelivery, NEW covers \in BOOLEAN,
           NEW sent \in Nat, covers => pc \in Holding
    PROVE  /\ GoodRun(DeliveryAt(r, pc, covers, sent))
           /\ DeliveryAt(r, pc, covers, sent).entries = r.entries
           /\ DeliveryAt(r, pc, covers, sent).pc = pc
           /\ DeliveryAt(r, pc, covers, sent).covers = covers
<1>p. PICK x : x = DeliveryAt(r, pc, covers, sent)
      OBVIOUS
<1>1. pc \in Pcs
      BY Zenon DEF Pcs, InDelivery, Holding
<1>2. /\ x \in AnyRun /\ x.entries = r.entries /\ x.pc = pc /\ x.covers = covers /\ x.page = r.page
      /\ x.at = r.at /\ x.from = r.from /\ x.sat = r.sat /\ x.sfrom = r.sfrom
      <2> HIDE DEF Pcs
      <2> QED BY <1>p, <1>1 DEF AnyRun, DeliveryAt
<1>3. Ordered(x)
      BY <1>2 DEF Ordered
<1> QED BY <1>p, <1>2, <1>3, Zenon DEF GoodRun, AtItsPlace, AtEntry, InDelivery, Holding

\* What a run in a delivery is.
AtDelivery(r) ==
    /\ r \in AnyRun /\ Ordered(r) /\ r.entries # <<>>
    /\ Head(r.entries) \in Entries
    /\ VersionKey(Head(r.entries)) \in AnyKeys /\ ActivityKey(Head(r.entries)) \in AnyKeys
    /\ VersionKey(Head(r.entries))[2] # 0 /\ ActivityKey(Head(r.entries))[2] = 0
    /\ ActivityOf(VersionKey(Head(r.entries))) = ActivityKey(Head(r.entries))
    /\ VersionKey(Head(r.entries))[2] = Head(r.entries).ver
    /\ r.sent \in Nat /\ r.covers \in BOOLEAN
    /\ r.covers => r.pc \in Holding

LEMMA DeliveryIs ==
    ASSUME DestInv, NEW w \in Workers, run[w].pc \in AtEntry
    PROVE  AtDelivery(run[w])
<1>1. PICK r : r = run[w]
      OBVIOUS
<1>2. r \in AnyRun /\ Ordered(r) /\ r.entries # <<>> /\ (r.covers => r.pc \in Holding)
      BY <1>1 DEF DestInv, RunInv, GoodRun, AtItsPlace
<1>3. PICK e : e = Head(r.entries)
      OBVIOUS
<1>4. e \in Entries
      BY <1>2, <1>3, EntriesTyped
<1>5. /\ e.trace \in Nat /\ e.ver \in Nat \ {0} /\ e.src \in Nat
      BY <1>4, SettledFeedAssumption DEF Entries
<1>6. /\ VersionKey(e) \in AnyKeys /\ ActivityKey(e) \in AnyKeys
      /\ VersionKey(e)[2] # 0 /\ ActivityKey(e)[2] = 0
      /\ ActivityOf(VersionKey(e)) = ActivityKey(e) /\ VersionKey(e)[2] = e.ver
      BY <1>5 DEF VersionKey, ActivityKey, ActivityOf, AnyKeys
<1>7. r.sent \in Nat /\ r.covers \in BOOLEAN
      BY <1>2 DEF AnyRun
<1> QED BY <1>1, <1>2, <1>3, <1>4, <1>6, <1>7 DEF AtDelivery

\* A step of a run that holds no more than before, and may send.
LEMMA StayClaims ==
    ASSUME DestInv, ClaimsInv, NEW w \in Workers, NEW x, run' = [run EXCEPT ![w] = x],
           UNCHANGED <<deliveries, scanner, handoff, history>>,
           x.pc \in {"cover", "release"} => x.covers,
           \A k : Holds(x, k) => Holds(run[w], k),
           \A k : Holds(x, k) /\ run[w].pc = "mark" => x.pc = "mark",
           \A k : Holds(x, k) /\ run[w].pc \in {"mark", "cover"} => x.pc \in {"mark", "cover"},
           x.pc \in Holding => MaySend(x)
    PROVE  ClaimsInv'
<1>1. /\ run'[w] = x /\ \A v \in Workers : v # w => run'[v] = run[v]
      BY OneRuns DEF DestInv
<1>2. \A v \in Workers : \A k : Holds(run'[v], k) => Holds(run[v], k)
      BY <1>1
<1>3. \A k : Status(k)' = Status(k) /\ (IsLost(k)' <=> IsLost(k))
      BY DEF Status, IsLost
<1>4. HeldPending' /\ HeldOnce'
      BY <1>2, <1>3 DEF ClaimsInv, HeldPending, HeldOnce
<1>5. ScannerHolds'
      BY <1>2, <1>3 DEF ClaimsInv, ScannerHolds
<1>6. CoversHold'
      BY <1>1, Zenon DEF ClaimsInv, CoversHold, Holding
<1>7. AnswersKept'
      BY <1>1, <1>2, <1>3 DEF ClaimsInv, AnswersKept, AnswerKept, OnlyMarking
<1>8. TwiceLost'
      BY <1>3 DEF ClaimsInv, TwiceLost
<1>9. SendersMay'
      BY <1>1, <1>3 DEF ClaimsInv, SendersMay, MaySend
<1>10. SentKept'
      BY <1>1, <1>2, <1>3 DEF ClaimsInv, SentKept, ScannerKept, Closing
<1> QED BY <1>4, <1>5, <1>6, <1>7, <1>8, <1>9, <1>10 DEF ClaimsInv

\* A claim that is taken.
LEMMA TakeClaims ==
    ASSUME DestInv, ClaimsInv, NEW w \in Workers, NEW x, run' = [run EXCEPT ![w] = x], NEW key,
           Claimable(key), deliveries' = With(key, "pending"), UNCHANGED <<scanner, handoff, history>>,
           x.pc \in {"claim", "post"},
           \A k : Holds(x, k) => k = key \/ Holds(run[w], k),
           run[w].pc \notin {"mark", "cover"},
           MaySend(x)
    PROVE  ClaimsInv'
<1>1. /\ run'[w] = x /\ \A v \in Workers : v # w => run'[v] = run[v]
      BY OneRuns DEF DestInv
<1>2. \A k : Status(k)' = (IF k = key THEN "pending" ELSE Status(k)) /\ (IsLost(k)' <=> IsLost(k))
      BY StatusWith DEF IsLost
<1>3. Status(key) \notin {"pending", "delivered", "covered"}
      BY DEF Claimable
<1>4. \A v \in Workers : \A k : Holds(run'[v], k) => Holds(run[v], k) \/ (v = w /\ k = key)
      BY <1>1
<1>5. \A v \in Workers : Holds(run[v], key) => IsLost(key)
      BY <1>3 DEF ClaimsInv, HeldPending
<1>6. HeldPending'
      BY <1>2, <1>4, <1>5 DEF ClaimsInv, HeldPending
<1>7. HeldOnce'
      BY <1>2, <1>4, <1>5 DEF ClaimsInv, HeldOnce
<1>8. scanner.key = key => scanner.key = NoKey \/ IsLost(key)
      BY <1>3 DEF ClaimsInv, ScannerHolds
<1>9. ScannerHolds'
      BY <1>2, <1>4, <1>8 DEF ClaimsInv, ScannerHolds
<1>10. CoversHold'
      BY <1>1 DEF ClaimsInv, CoversHold
<1>11. TwiceLost'
      BY <1>2 DEF ClaimsInv, TwiceLost
<1>12. AnswersKept'
      <2>1. ASSUME NEW k \in history.ok PROVE AnswerKept(k)'
            <3>1. AnswerKept(k)
                  BY <2>1 DEF ClaimsInv, AnswersKept
            <3>2. CASE k = key
                  BY <1>2, <1>3, <3>1, <3>2 DEF AnswerKept, OnlyMarking
            <3>3. CASE k # key
                  BY <1>1, <1>2, <1>4, <3>1, <3>3 DEF AnswerKept, OnlyMarking
            <3> QED BY <3>2, <3>3
      <2> QED BY <2>1 DEF AnswersKept
<1>13. SendersMay'
      <2>1. ASSUME NEW y, MaySend(y) PROVE MaySend(y)'
            BY <1>2, <1>3, <2>1 DEF MaySend
      <2> QED BY <1>1, <2>1 DEF ClaimsInv, SendersMay
<1>14. SentKept'
      <2>1. ASSUME NEW v \in history.ok, v[2] # 0 PROVE ScannerKept(v)'
            <3>1. ScannerKept(v)
                  BY <2>1 DEF ClaimsInv, SentKept
            <3>2. CASE ActivityOf(v) = key
                  BY <1>2, <1>3, <3>1, <3>2 DEF ScannerKept, Closing
            <3>3. CASE ActivityOf(v) # key
                  BY <1>1, <1>2, <1>4, <3>1, <3>3 DEF ScannerKept, Closing
            <3> QED BY <3>2, <3>3
      <2> QED BY <2>1 DEF SentKept
<1> QED BY <1>6, <1>7, <1>9, <1>10, <1>11, <1>12, <1>13, <1>14 DEF ClaimsInv

\* A run that goes on with the same entry.
GoesOn(x, r, pc, covers) == GoodRun(x) /\ x.entries = r.entries /\ x.pc = pc /\ (x.covers <=> covers)

LEMMA GoingOn ==
    ASSUME NEW r, AtDelivery(r), NEW pc \in InDelivery, NEW covers \in BOOLEAN,
           NEW sent \in Nat, covers => pc \in Holding
    PROVE  GoesOn(DeliveryAt(r, pc, covers, sent), r, pc, covers)
<1>1. r \in AnyRun /\ Ordered(r) /\ r.entries # <<>>
      BY DEF AtDelivery
<1> QED BY <1>1, DeliveryGood DEF GoesOn

LEMMA GoesOnSame ==
    ASSUME NEW r, AtDelivery(r), NEW pc \in Holding
    PROVE  GoesOn([r EXCEPT !.pc = pc], r, pc, r.covers)
<1>1. r \in AnyRun /\ r.sent \in Nat /\ r.covers \in BOOLEAN /\ pc \in InDelivery
      BY Zenon DEF AtDelivery, InDelivery
<1>2. [r EXCEPT !.pc = pc] = DeliveryAt(r, pc, r.covers, r.sent)
      BY <1>1 DEF AnyRun, DeliveryAt
<1>3. GoesOn(DeliveryAt(r, pc, r.covers, r.sent), r, pc, r.covers)
      BY <1>1, GoingOn
<1> QED BY <1>2, <1>3

LEMMA GoesOnCovering ==
    ASSUME NEW r, AtDelivery(r)
    PROVE  GoesOn([r EXCEPT !.pc = "claim", !.covers = TRUE], r, "claim", TRUE)
<1>1. r \in AnyRun /\ r.sent \in Nat /\ "claim" \in InDelivery /\ "claim" \in Holding
      BY Zenon DEF AtDelivery, InDelivery, Holding
<1>2. [r EXCEPT !.pc = "claim", !.covers = TRUE] = DeliveryAt(r, "claim", TRUE, r.sent)
      BY <1>1 DEF AnyRun, DeliveryAt
<1>3. GoesOn(DeliveryAt(r, "claim", TRUE, r.sent), r, "claim", TRUE)
      BY <1>1, GoingOn
<1> QED BY <1>2, <1>3

LEMMA GoesOnAsking ==
    ASSUME NEW r, AtDelivery(r), ~r.covers
    PROVE  GoesOn([r EXCEPT !.pc = "scanner status"], r, "scanner status", FALSE)
<1>1. r \in AnyRun /\ r.sent \in Nat /\ "scanner status" \in InDelivery /\ r.covers \in BOOLEAN
      BY Zenon DEF AtDelivery, InDelivery, Holding
<1>2. [r EXCEPT !.pc = "scanner status"] = DeliveryAt(r, "scanner status", FALSE, r.sent)
      BY <1>1, Zenon DEF AnyRun, DeliveryAt
<1>3. GoesOn(DeliveryAt(r, "scanner status", FALSE, r.sent), r, "scanner status", FALSE)
      BY <1>1, GoingOn, Zenon
<1> QED BY <1>2, <1>3, Zenon

LEMMA GoesOnSent ==
    ASSUME NEW r, AtDelivery(r)
    PROVE  GoesOn([r EXCEPT !.pc = "mark", !.sent = @ + 1], r, "mark", r.covers)
<1>1. r \in AnyRun /\ r.sent \in Nat /\ r.covers \in BOOLEAN /\ "mark" \in InDelivery /\ "mark" \in Holding
      BY Zenon DEF AtDelivery, InDelivery, Holding
<1>n. PICK n \in Nat : n = r.sent + 1
      BY <1>1
<1>2. [r EXCEPT !.pc = "mark", !.sent = @ + 1] = DeliveryAt(r, "mark", r.covers, n)
      BY <1>1, <1>n DEF AnyRun, DeliveryAt
<1>3. GoesOn(DeliveryAt(r, "mark", r.covers, n), r, "mark", r.covers)
      BY <1>1, GoingOn
<1> QED BY <1>2, <1>3

\* A holder records how its delivery went.
LEMMA MarkClaims ==
    ASSUME DestInv, ClaimsInv, NEW w \in Workers, NEW x, run' = [run EXCEPT ![w] = x], NEW key,
           NEW status \in {"delivered", "failed", "covered"}, Holds(run[w], key),
           deliveries' = With(key, status), UNCHANGED <<scanner, handoff, history>>,
           x.pc \in {"cover", "release"} => x.covers,
           \A k : Holds(x, k) => k # key /\ k[2] = 0 /\ Holds(run[w], k),
           \A k : ~Holds(x, k) \/ (run[w].pc = "mark" /\ x.pc = "cover")
                  \/ (run[w].pc = "mark failed" /\ x.pc = "release"),
           x.pc \notin {"mark", "claim", "version status", "post", "mark failed"},
           x.pc \in Holding => MaySend(x),
           status = "covered" => key[2] = 0 /\ run[w].pc = "cover",
           status = "failed" => run[w].pc \in {"mark failed", "release"},
           status = "delivered" => key[2] # 0 /\ run[w].pc = "mark"
    PROVE  ClaimsInv'
<1>1. /\ run'[w] = x /\ \A v \in Workers : v # w => run'[v] = run[v]
      BY OneRuns, Zenon DEF DestInv
<1>2. \A k : Status(k)' = (IF k = key THEN status ELSE Status(k)) /\ (IsLost(k)' <=> IsLost(k))
      BY StatusWith, Zenon DEF IsLost
<1>3. IsLost(key) \/ Status(key) = "pending"
      BY Zenon DEF ClaimsInv, HeldPending
<1>4. \A v \in Workers : v # w /\ Holds(run[v], key) => IsLost(key)
      BY Zenon DEF ClaimsInv, HeldOnce
<1>5. \A v \in Workers : \A k : Holds(run'[v], k) => Holds(run[v], k) /\ (k = key => IsLost(key))
      BY <1>1, <1>4, Zenon
<1>6. HeldPending'
      BY <1>2, <1>5, Zenon DEF ClaimsInv, HeldPending
<1>7. HeldOnce'
      BY <1>2, <1>5, Zenon DEF ClaimsInv, HeldOnce
<1>8. scanner.key = key => scanner.key = NoKey \/ IsLost(key)
      BY Zenon DEF ClaimsInv, ScannerHolds
<1>9. ScannerHolds'
      BY <1>2, <1>5, <1>8, Zenon DEF ClaimsInv, ScannerHolds
<1>10. CoversHold'
      BY <1>1, Zenon DEF ClaimsInv, CoversHold
<1>11. TwiceLost'
      BY <1>2, Zenon DEF ClaimsInv, TwiceLost
<1>12. AnswersKept'
      <2>1. ASSUME NEW k \in history.ok PROVE AnswerKept(k)'
            <3>1. AnswerKept(k)
                  BY <2>1, Zenon DEF ClaimsInv, AnswersKept
            <3>2. CASE k = key
                  <4>1. CASE IsLost(key)
                        BY <1>2, <3>2, <4>1, Zenon DEF AnswerKept
                  <4>2. CASE ~IsLost(key) /\ status = "delivered"
                        BY <1>2, <3>2, <4>2, Zenon DEF AnswerKept
                  <4>3. CASE ~IsLost(key) /\ status # "delivered"
                        <5>1. Status(key) # "delivered" /\ run[w].pc # "mark"
                              BY <1>3, <4>3, Zenon
                        <5>2. ~OnlyMarking(key)
                              BY <5>1, Zenon DEF OnlyMarking
                        <5>3. scanner.key = key /\ scanner.answer = "delivered"
                              BY <3>1, <3>2, <4>3, <5>1, <5>2, Zenon DEF AnswerKept
                        <5>4. scanner.key # NoKey
                              BY <5>3, Zenon DEF ClaimsInv, ScannerHolds
                        <5> QED BY <1>8, <4>3, <5>3, <5>4, Zenon
                  <4> QED BY <4>1, <4>2, <4>3, Zenon
            <3>3. CASE k # key
                  <4>1. k[2] # 0 => ~Holds(x, k)
                        BY Zenon
                  <4>2. OnlyMarking(k) /\ k[2] # 0 => OnlyMarking(k)'
                        BY <1>1, <1>2, <3>3, <4>1, Zenon DEF OnlyMarking
                  <4> QED BY <1>2, <3>1, <3>3, <4>2, Zenon DEF AnswerKept
            <3> QED BY <3>2, <3>3, Zenon
      <2> QED BY <2>1, Zenon DEF AnswersKept
<1>13. SendersMay'
      <2>1. ASSUME NEW y, MaySend(y) PROVE MaySend(y)'
            BY <1>2, <1>3, <2>1, Zenon DEF MaySend
      <2> QED BY <1>1, <2>1, Zenon DEF ClaimsInv, SendersMay
<1>14. SentKept'
      <2>1. ASSUME NEW v \in history.ok, v[2] # 0 PROVE ScannerKept(v)'
            <3>1. ScannerKept(v)
                  BY <2>1, Zenon DEF ClaimsInv, SentKept
            <3>2. PICK a : a = ActivityOf(v) /\ a[2] = 0
                  <4>1. ActivityOf(v)[2] = 0
                        BY Zenon DEF ActivityOf
                  <4> QED BY <4>1, Zenon
            <3>3. ASSUME a = key, Closing(a) PROVE status = "covered"
                  BY <3>2, <3>3, Zenon DEF Closing
            <3>4. ASSUME a = key, Status(a) = "covered" PROVE IsLost(a)
                  BY <1>3, <3>4, Zenon
            <3>5. ASSUME a # key, Closing(a) PROVE Closing(a)'
                  <4>1. Holds(x, a) => x.pc \in {"mark", "cover"}
                        BY <3>5, Zenon DEF Closing
                  <4> QED BY <1>1, <1>2, <3>5, <4>1, Zenon DEF Closing
            <3> QED BY <1>2, <3>1, <3>2, <3>3, <3>4, <3>5, Zenon DEF ScannerKept
      <2> QED BY <2>1, Zenon DEF SentKept
<1> QED BY <1>6, <1>7, <1>9, <1>10, <1>11, <1>12, <1>13, <1>14, Zenon DEF ClaimsInv

\* Nothing the scanner did not answer is known as answered.
LEMMA NotAnswered ==
    ASSUME ClaimsInv, NEW a, a[2] = 0, ~IsLost(a), Status(a) # "delivered",
           scanner.key = a => scanner.key = NoKey
    PROVE  a \notin history.ok
BY DEF ClaimsInv, AnswersKept, AnswerKept, ScannerHolds

\* The request was answered ok.
LEMMA AnsweredClaims ==
    ASSUME DestInv, ClaimsInv, NEW w \in Workers, NEW x, run' = [run EXCEPT ![w] = x],
           NEW e, e = Head(run[w].entries), e = Head(x.entries), run[w].pc = "post", x.pc = "mark",
           x.covers = run[w].covers, e \in Entries, ActivityOf(VersionKey(e)) = ActivityKey(e),
           UNCHANGED <<deliveries, scanner, handoff>>, Answered(VersionKey(e))
    PROVE  ClaimsInv'
<1>1. /\ run'[w] = x /\ \A v \in Workers : v # w => run'[v] = run[v]
      BY OneRuns DEF DestInv
<1>2. PICK key, a : key = VersionKey(e) /\ a = ActivityKey(e)
      OBVIOUS
<1>3. key[2] = e.ver /\ key[2] # 0 /\ a[2] = 0 /\ ActivityOf(key) = a
      BY <1>2 DEF VersionKey, ActivityKey, Entries
<1>4. /\ history'.ok = history.ok \cup {key}
      /\ history'.twice = (IF key \in history.ok THEN history.twice \cup {key} ELSE history.twice)
      /\ history'.lost = history.lost
      BY <1>2 DEF Answered, DestInv, DestTypes
<1>5. \A k : Holds(x, k) <=> Holds(run[w], k)
      BY DEF Holds, HoldsVersion, HoldsActivity, Sending, Holding
<1>6. \A v \in Workers : \A k : Holds(run'[v], k) <=> Holds(run[v], k)
      BY <1>1, <1>5
<1>7. \A k : Status(k)' = Status(k) /\ (IsLost(k)' <=> IsLost(k))
      BY <1>4 DEF Status, IsLost
<1>8. Holds(run[w], key) /\ (x.covers => Holds(run[w], a))
      BY <1>2 DEF Holds, HoldsVersion, HoldsActivity, Sending, Holding
<1>9. HeldPending' /\ HeldOnce'
      BY <1>6, <1>7 DEF ClaimsInv, HeldPending, HeldOnce
<1>10. ScannerHolds'
      BY <1>6, <1>7 DEF ClaimsInv, ScannerHolds
<1>11. CoversHold'
      BY <1>1 DEF ClaimsInv, CoversHold
<1>12. IsLost(key) \/ Status(key) = "pending"
      BY <1>8 DEF ClaimsInv, HeldPending
<1>13. AnswersKept'
      <2>1. ASSUME NEW k \in history.ok PROVE AnswerKept(k)'
            BY <1>1, <1>6, <1>7, <2>1 DEF ClaimsInv, AnswersKept, AnswerKept, OnlyMarking
      <2>2. AnswerKept(key)'
            <3>1. ASSUME ~IsLost(key) PROVE \A v \in Workers : Holds(run'[v], key) => run'[v].pc = "mark"
                  BY <1>1, <1>8, <3>1 DEF ClaimsInv, HeldOnce
            <3> QED BY <1>3, <1>7, <1>12, <3>1 DEF AnswerKept, OnlyMarking
      <2> QED BY <1>4, <2>1, <2>2 DEF AnswersKept
<1>14. TwiceLost'
      <2>1. ASSUME key \in history.ok PROVE IsLost(key)
            <3>1. AnswerKept(key)
                  BY <2>1 DEF ClaimsInv, AnswersKept
            <3>2. ~OnlyMarking(key)
                  BY <1>8 DEF OnlyMarking
            <3> QED BY <1>3, <1>12, <3>1, <3>2 DEF AnswerKept
      <2> QED BY <1>4, <1>7, <2>1 DEF ClaimsInv, TwiceLost
<1>15. \A d : ActivityKey(d) # key
      BY <1>3 DEF ActivityKey
<1>16. SendersMay'
      <2>1. ASSUME NEW y, MaySend(y) PROVE MaySend(y)'
            BY <1>4, <1>7, <1>15, <2>1 DEF MaySend
      <2>2. MaySend(x)
            BY Zenon DEF ClaimsInv, SendersMay, MaySend, Holding
      <2> QED BY <1>1, <2>1, <2>2 DEF ClaimsInv, SendersMay
<1>17. SentKept'
      <2>1. ASSUME NEW v \in history.ok, v[2] # 0 PROVE ScannerKept(v)'
            <3>1. ScannerKept(v)
                  BY <2>1 DEF ClaimsInv, SentKept
            <3>2. ActivityOf(v) # key
                  BY <1>3 DEF ActivityOf
            <3>3. ASSUME Closing(ActivityOf(v)) PROVE Closing(ActivityOf(v))'
                  BY <1>1, <1>6, <1>7, <3>3 DEF Closing
            <3> QED BY <1>4, <1>7, <3>1, <3>2, <3>3 DEF ScannerKept
      <2>2. ScannerKept(key)'
            <3>1. MaySend(run[w])
                  BY Zenon DEF ClaimsInv, SendersMay, Holding
            <3>2. IsLost(a) \/ run[w].covers \/ Status(a) = "covered"
                  \/ (~handoff.open /\ a \notin history.ok) \/ (~handoff.open /\ key[2] > handoff.until)
                  BY <1>2, <1>3, <3>1 DEF MaySend
            <3>3. ASSUME ~IsLost(a), run[w].covers
                  PROVE  a \notin history.ok /\ Closing(a)'
                  <4>1. Status(a) = "pending" /\ \A v \in Workers : v # w => ~Holds(run[v], a)
                        BY <1>8, <3>3 DEF ClaimsInv, HeldPending, HeldOnce
                  <4>2. scanner.key = a => scanner.key = NoKey
                        BY <1>8, <3>3 DEF ClaimsInv, ScannerHolds
                  <4>3. a # NoKey
                        BY <1>2, SettledFeedAssumption DEF ActivityKey, NoKey, Entries
                  <4> QED BY <1>1, <1>3, <1>6, <1>7, <3>3, <4>1, <4>2, <4>3, NotAnswered DEF Closing
            <3>4. ASSUME ~IsLost(a), Status(a) = "covered", ~handoff.open
                  PROVE  a \notin history.ok
                  <4>1. scanner.key = NoKey
                        BY <3>4 DEF ClaimsInv, ScannerHolds
                  <4> QED BY <1>3, <3>4, <4>1, NotAnswered
            <3>5. a # key
                  BY <1>3
            <3> QED BY <1>3, <1>4, <1>7, <3>2, <3>3, <3>4, <3>5 DEF ScannerKept
      <2> QED BY <1>4, <2>1, <2>2 DEF SentKept
<1> QED BY <1>9, <1>10, <1>11, <1>13, <1>14, <1>16, <1>17 DEF ClaimsInv

LEMMA StaleClaims ==
    ASSUME DestInv, ClaimsInv, NEW key, GoesStale(key)
    PROVE  ClaimsInv'
<1>1. \A k : Status(k)' = (IF k = key THEN "stale" ELSE Status(k)) /\ (IsLost(k)' <=> IsLost(k) \/ k = key)
      <2>1. history'.lost = history.lost \cup {key}
            BY DEF GoesStale, DestInv, DestTypes
      <2>2. deliveries' = With(key, "stale")
            BY DEF GoesStale
      <2> QED BY <2>1, <2>2, StatusWith DEF IsLost
<1>2. /\ UNCHANGED <<run, scanner, handoff>> /\ Status(key) = "pending"
      /\ history'.ok = history.ok /\ history'.twice = history.twice
      BY DEF GoesStale, WebhookOnly, DestInv, DestTypes
<1>3. HeldPending' /\ HeldOnce'
      BY <1>1, <1>2 DEF ClaimsInv, HeldPending, HeldOnce
<1>4. ScannerHolds'
      BY <1>1, <1>2 DEF ClaimsInv, ScannerHolds
<1>5. CoversHold' /\ TwiceLost'
      BY <1>1, <1>2 DEF ClaimsInv, CoversHold, TwiceLost
<1>6. AnswersKept'
      BY <1>1, <1>2 DEF ClaimsInv, AnswersKept, AnswerKept, OnlyMarking
<1>7. SendersMay'
      BY <1>1, <1>2 DEF ClaimsInv, SendersMay, MaySend
<1>8. SentKept'
      BY <1>1, <1>2 DEF ClaimsInv, SentKept, ScannerKept, Closing
<1> QED BY <1>3, <1>4, <1>5, <1>6, <1>7, <1>8 DEF ClaimsInv

\* The scanner.
LEMMA ScannerClaimsClaims ==
    ASSUME DestInv, ClaimsInv, NEW t \in Traces, ScannerClaims(t)
    PROVE  ClaimsInv'
<1>1. PICK key : /\ key = <<t, 0, stored[t].src>> /\ Claimable(key)
                 /\ deliveries' = With(key, "pending") /\ scanner' = [key |-> key, answer |-> "none"]
      BY DEF ScannerClaims
<1>2. /\ UNCHANGED <<run, handoff, history>> /\ handoff.open /\ scanner.key = NoKey /\ scanner.answer = "none"
      BY DEF ScannerClaims, ScannerOnly, ClaimsInv, ScannerHolds
<1>3. key[2] = 0 /\ key # NoKey /\ scanner'.key = key /\ scanner'.answer = "none"
      BY <1>1, SettledFeedAssumption DEF NoKey
<1>4. \A k : Status(k)' = (IF k = key THEN "pending" ELSE Status(k)) /\ (IsLost(k)' <=> IsLost(k))
      BY <1>1, <1>2, StatusWith DEF IsLost
<1>5. Status(key) \notin {"pending", "delivered", "covered"}
      BY <1>1 DEF Claimable
<1>6. \A w \in Workers : Holds(run[w], key) => IsLost(key)
      BY <1>5 DEF ClaimsInv, HeldPending
<1>7. HeldPending' /\ HeldOnce'
      BY <1>2, <1>4 DEF ClaimsInv, HeldPending, HeldOnce
<1>8. ScannerHolds'
      BY <1>2, <1>3, <1>4, <1>6 DEF ScannerHolds
<1>9. CoversHold' /\ TwiceLost'
      BY <1>2, <1>4 DEF ClaimsInv, CoversHold, TwiceLost
<1>10. AnswersKept'
      BY <1>2, <1>3, <1>4, <1>5 DEF ClaimsInv, AnswersKept, AnswerKept, OnlyMarking
<1>11. SendersMay'
      BY <1>2, <1>4, <1>5 DEF ClaimsInv, SendersMay, MaySend
<1>12. SentKept'
      BY <1>2, <1>3, <1>4, <1>5 DEF ClaimsInv, SentKept, ScannerKept, Closing
<1> QED BY <1>7, <1>8, <1>9, <1>10, <1>11, <1>12 DEF ClaimsInv

LEMMA ScannerPostsClaims ==
    ASSUME DestInv, ClaimsInv, ScannerPosts
    PROVE  ClaimsInv'
<1>1. PICK key : key = scanner.key
      OBVIOUS
<1>2. /\ key # NoKey /\ scanner.answer = "none" /\ handoff.open /\ key[2] = 0
      /\ IsLost(key) \/ (Status(key) = "pending" /\ \A w \in Workers : ~Holds(run[w], key))
      BY <1>1 DEF ScannerPosts, ClaimsInv, ScannerHolds
<1>3. UNCHANGED <<run, deliveries, handoff>>
      BY DEF ScannerPosts, ScannerOnly
<1>4. \/ scanner'.answer = "failed" /\ history' = history
      \/ /\ scanner'.answer = "delivered" /\ history'.ok = history.ok \cup {key}
         /\ history'.twice = (IF key \in history.ok THEN history.twice \cup {key} ELSE history.twice)
         /\ history'.lost = history.lost
      BY <1>1 DEF ScannerPosts, Answered, DestInv, DestTypes
<1>5. scanner'.key = key
      BY <1>1 DEF ScannerPosts, DestInv, DestTypes
<1>6. \A k : Status(k)' = Status(k) /\ (IsLost(k)' <=> IsLost(k))
      BY <1>3, <1>4 DEF Status, IsLost
<1>7. HeldPending' /\ HeldOnce'
      BY <1>3, <1>6 DEF ClaimsInv, HeldPending, HeldOnce
<1>8. ScannerHolds'
      BY <1>2, <1>3, <1>5, <1>6 DEF ScannerHolds
<1>9. CoversHold'
      BY <1>3 DEF ClaimsInv, CoversHold
<1>10. ASSUME key \in history.ok PROVE IsLost(key)
      BY <1>1, <1>2, <1>10 DEF ClaimsInv, AnswersKept, AnswerKept
<1>11. TwiceLost'
      BY <1>4, <1>6, <1>10 DEF ClaimsInv, TwiceLost
<1>12. AnswersKept'
      <2>1. ASSUME NEW k \in history.ok PROVE AnswerKept(k)'
            BY <1>1, <1>2, <1>3, <1>6, <2>1 DEF ClaimsInv, AnswersKept, AnswerKept, OnlyMarking
      <2>2. scanner'.answer = "delivered" => AnswerKept(key)'
            BY <1>2, <1>5 DEF AnswerKept
      <2> QED BY <1>4, <2>1, <2>2 DEF AnswersKept
<1>13. SendersMay'
      BY <1>2, <1>3, <1>6 DEF ClaimsInv, SendersMay, MaySend
<1>14. SentKept'
      <2>1. ASSUME NEW v \in history.ok, v[2] # 0 PROVE ScannerKept(v)'
            BY <1>1, <1>2, <1>3, <1>5, <1>6, <2>1 DEF ClaimsInv, SentKept, ScannerKept, Closing
      <2> QED BY <1>2, <1>4, <2>1 DEF SentKept
<1> QED BY <1>7, <1>8, <1>9, <1>11, <1>12, <1>13, <1>14 DEF ClaimsInv

LEMMA ScannerMarksClaims ==
    ASSUME DestInv, ClaimsInv, ScannerMarks
    PROVE  ClaimsInv'
<1>1. PICK key, answer : key = scanner.key /\ answer = scanner.answer
      OBVIOUS
<1>2. /\ key # NoKey /\ answer \in {"failed", "delivered"} /\ handoff.open /\ key[2] = 0
      /\ IsLost(key) \/ (Status(key) = "pending" /\ \A w \in Workers : ~Holds(run[w], key))
      BY <1>1 DEF ScannerMarks, ClaimsInv, ScannerHolds, DestInv, DestTypes
<1>3. /\ UNCHANGED <<run, handoff, history>> /\ scanner' = [key |-> NoKey, answer |-> "none"]
      /\ deliveries' = With(key, answer)
      BY <1>1 DEF ScannerMarks, ScannerOnly
<1>4. \A k : Status(k)' = (IF k = key THEN answer ELSE Status(k)) /\ (IsLost(k)' <=> IsLost(k))
      BY <1>3, StatusWith DEF IsLost
<1>5. HeldPending' /\ HeldOnce'
      BY <1>2, <1>3, <1>4 DEF ClaimsInv, HeldPending, HeldOnce
<1>6. ScannerHolds'
      BY <1>3 DEF ScannerHolds
<1>7. CoversHold' /\ TwiceLost'
      BY <1>3, <1>4 DEF ClaimsInv, CoversHold, TwiceLost
<1>8. AnswersKept'
      <2>1. ASSUME NEW k \in history.ok PROVE AnswerKept(k)'
            <3>1. AnswerKept(k)
                  BY <2>1 DEF ClaimsInv, AnswersKept
            <3>2. CASE k = key
                  BY <1>1, <1>2, <1>4, <3>1, <3>2 DEF AnswerKept
            <3>3. CASE k # key
                  BY <1>1, <1>3, <1>4, <3>1, <3>3 DEF AnswerKept, OnlyMarking
            <3> QED BY <3>2, <3>3
      <2> QED BY <1>3, <2>1 DEF AnswersKept
<1>9. SendersMay'
      BY <1>2, <1>3, <1>4 DEF ClaimsInv, SendersMay, MaySend
<1>10. SentKept'
      <2>1. ASSUME NEW v \in history.ok, v[2] # 0 PROVE ScannerKept(v)'
            <3>1. ScannerKept(v)
                  BY <2>1 DEF ClaimsInv, SentKept
            <3>2. CASE ActivityOf(v) = key
                  BY <1>1, <1>2, <1>4, <3>1, <3>2 DEF ScannerKept, Closing
            <3>3. CASE ActivityOf(v) # key
                  BY <1>2, <1>3, <1>4, <3>1, <3>3 DEF ScannerKept, Closing
            <3> QED BY <3>2, <3>3
      <2> QED BY <1>3, <2>1 DEF SentKept
<1> QED BY <1>5, <1>6, <1>7, <1>8, <1>9, <1>10 DEF ClaimsInv

LEMMA ScannerDiesClaims ==
    ASSUME DestInv, ClaimsInv, ScannerDies
    PROVE  ClaimsInv'
<1>1. PICK key : key = scanner.key
      OBVIOUS
<1>2. /\ key # NoKey /\ handoff.open /\ key[2] = 0
      BY <1>1 DEF ScannerDies, ClaimsInv, ScannerHolds
<1>3. /\ UNCHANGED <<run, handoff, deliveries>> /\ scanner' = [key |-> NoKey, answer |-> "none"]
      /\ history'.ok = history.ok /\ history'.twice = history.twice
      /\ history'.lost = history.lost \cup {key}
      BY <1>1 DEF ScannerDies, ScannerOnly, Lost, DestInv, DestTypes
<1>4. \A k : Status(k)' = Status(k) /\ (IsLost(k)' <=> IsLost(k) \/ k = key)
      BY <1>3 DEF Status, IsLost
<1>5. HeldPending' /\ HeldOnce'
      BY <1>3, <1>4 DEF ClaimsInv, HeldPending, HeldOnce
<1>6. ScannerHolds'
      BY <1>3 DEF ScannerHolds
<1>7. CoversHold' /\ TwiceLost'
      BY <1>3, <1>4 DEF ClaimsInv, CoversHold, TwiceLost
<1>8. AnswersKept'
      BY <1>1, <1>3, <1>4 DEF ClaimsInv, AnswersKept, AnswerKept, OnlyMarking
<1>9. SendersMay'
      BY <1>3, <1>4 DEF ClaimsInv, SendersMay, MaySend
<1>10. SentKept'
      BY <1>3, <1>4 DEF ClaimsInv, SentKept, ScannerKept, Closing
<1> QED BY <1>5, <1>6, <1>7, <1>8, <1>9, <1>10 DEF ClaimsInv

\* When the window ends, the scanner has answered nothing that was sent.
LEMMA HandoffEndsClaims ==
    ASSUME DestInv, ClaimsInv, HandoffEnds
    PROVE  ClaimsInv'
<1>1. /\ UNCHANGED <<run, deliveries, scanner, history>> /\ handoff.open /\ scanner.key = NoKey
      /\ scanner.answer = "none" /\ ~handoff'.open
      BY DEF HandoffEnds, ClaimsInv, ScannerHolds
<1>2. \A k : Status(k)' = Status(k) /\ (IsLost(k)' <=> IsLost(k))
      BY <1>1 DEF Status, IsLost
<1>3. HeldPending' /\ HeldOnce'
      BY <1>1, <1>2 DEF ClaimsInv, HeldPending, HeldOnce
<1>4. ScannerHolds'
      BY <1>1 DEF ScannerHolds
<1>5. CoversHold' /\ TwiceLost'
      BY <1>1, <1>2 DEF ClaimsInv, CoversHold, TwiceLost
<1>6. AnswersKept'
      BY <1>1, <1>2 DEF ClaimsInv, AnswersKept, AnswerKept, OnlyMarking
<1>7. SendersMay'
      BY <1>1, <1>2 DEF ClaimsInv, SendersMay, MaySend
<1>8. SentKept'
      <2>1. ASSUME NEW v \in history.ok, v[2] # 0, ~IsLost(ActivityOf(v)) PROVE ActivityOf(v) \notin history.ok
            <3>1. Status(ActivityOf(v)) # "delivered"
                  BY <1>1, <2>1 DEF ClaimsInv, SentKept, ScannerKept, Closing
            <3>2. ActivityOf(v)[2] = 0
                  BY DEF ActivityOf
            <3> QED BY <1>1, <2>1, <3>1, <3>2, NotAnswered
      <2> QED BY <1>1, <1>2, <2>1 DEF SentKept, ScannerKept
<1> QED BY <1>3, <1>4, <1>5, <1>6, <1>7, <1>8 DEF ClaimsInv

-----------------------------------------------------------------------------
\* The actions of a delivery.

\* Where a step of a delivery leads: the run is good, and the claims are.
Steps(w) == \E x : GoodRun(x) /\ run' = [run EXCEPT ![w] = x]

LEMMA BeginDeliverySteps ==
    ASSUME DestInv, ClaimsInv, NEW w \in Workers, BeginDelivery(w)
    PROVE  Steps(w) /\ ClaimsInv'
<1>1. PICK r, e, a : r = run[w] /\ e = Head(r.entries) /\ a = ActivityKey(e)
      OBVIOUS
<1>2. r.pc = "send" /\ AtDelivery(r) /\ ~r.covers
      <2>1. r.pc = "send"
            BY <1>1, Zenon DEF BeginDelivery
      <2>2. AtDelivery(r)
            BY <1>1, <2>1, DeliveryIs DEF AtEntry
      <2> QED BY <2>1, <2>2 DEF AtDelivery, Holding
<1>3. r \in AnyRun /\ Ordered(r) /\ r.entries # <<>> /\ a[2] = 0 /\ e \in Entries
      BY <1>1, <1>2 DEF AtDelivery
<1>4. PICK y, z, u : /\ y = [r EXCEPT !.pc = "claim", !.covers = TRUE]
                     /\ z = [r EXCEPT !.pc = "scanner status"]
                     /\ u = [r EXCEPT !.pc = "claim"]
      BY Zenon
<1>5. GoesOn(y, r, "claim", TRUE)
      BY <1>2, <1>4, GoesOnCovering, Zenon
<1>6. GoesOn(z, r, "scanner status", FALSE)
      BY <1>2, <1>4, GoesOnAsking, Zenon
<1>7. GoesOn(u, r, "claim", r.covers)
      BY <1>2, <1>4, GoesOnSame, Zenon DEF Holding
<1>8. CASE Claim(a) /\ run' = [run EXCEPT ![w] = y]
      <2>1. Claimable(a) /\ deliveries' = With(a, "pending") /\ UNCHANGED <<scanner, handoff, history>>
            BY <1>8 DEF Claim, WebhookOnly
      <2>2. \A k : Holds(y, k) => k = a
            BY <1>1, <1>5 DEF GoesOn, Holds, HoldsVersion, HoldsActivity, Sending
      <2>3. MaySend(y)
            BY <1>5 DEF GoesOn, MaySend
      <2>4. ClaimsInv'
            BY <1>1, <1>2, <1>5, <1>8, <2>1, <2>2, <2>3, TakeClaims DEF GoesOn
      <2> QED BY <1>5, <1>8, <2>4 DEF GoesOn, Steps
<1>9. CASE ReadOnly /\ run' = [run EXCEPT ![w] = z]
      <2>1. ClaimsInv'
            BY <1>6, <1>9, AsideClaims, Zenon DEF GoesOn, ReadOnly, WebhookOnly, Holding
      <2> QED BY <1>6, <1>9, <2>1, Zenon DEF GoesOn, Steps
<1>10. CASE ReadOnly /\ run' = [run EXCEPT ![w] = Passed(r)]
      <2>1. Aside(Passed(r))
            BY <1>3, PassedGood DEF Passed
      <2>2. ClaimsInv'
            BY <1>10, <2>1, AsideClaims, Zenon DEF ReadOnly, WebhookOnly, Aside, InDelivery
      <2> QED BY <1>10, <2>1, <2>2 DEF Steps, Aside
<1>11. CASE ReadOnly /\ run' = [run EXCEPT ![w] = u] /\ ~handoff.open
            /\ (e.ver > handoff.until \/ Status(a) # "delivered")
      <2>1. MaySend(u)
            <3>1. CASE Status(a) # "delivered" /\ ~IsLost(a)
                  <4>1. scanner.key = NoKey
                        BY <1>11 DEF ClaimsInv, ScannerHolds
                  <4>2. a \notin history.ok
                        BY <1>3, <3>1, <4>1, NotAnswered
                  <4> QED BY <1>1, <1>7, <1>11, <4>2 DEF GoesOn, MaySend
            <3>2. CASE IsLost(a) \/ e.ver > handoff.until
                  BY <1>1, <1>7, <1>11, <3>2 DEF GoesOn, MaySend
            <3> QED BY <1>11, <3>1, <3>2
      <2>2. \A k : ~Holds(u, k)
            BY <1>2, <1>7 DEF GoesOn, Holds, HoldsVersion, HoldsActivity, Sending
      <2>3. UNCHANGED <<deliveries, scanner, handoff, history>>
            BY <1>11 DEF ReadOnly, WebhookOnly
      <2>4. ClaimsInv'
            BY <1>7, <1>11, <2>1, <2>2, <2>3, StayClaims DEF GoesOn
      <2> QED BY <1>7, <1>11, <2>4 DEF GoesOn, Steps
<1>12. \/ Claim(a) /\ run' = [run EXCEPT ![w] = y]
       \/ ReadOnly /\ run' = [run EXCEPT ![w] = z]
       \/ ReadOnly /\ run' = [run EXCEPT ![w] = Passed(r)]
       \/ /\ ReadOnly /\ run' = [run EXCEPT ![w] = u] /\ ~handoff.open
          /\ e.ver > handoff.until \/ Status(a) # "delivered"
      <2>1. /\ Mode(e) = "check" => ~handoff.open
            /\ Mode(e) = "none" => ~handoff.open /\ e.ver > handoff.until
            <3>1. e.ver \in Nat /\ handoff.until \in Nat
                  BY <1>3 DEF Entries, DestInv, DestTypes
            <3> QED BY <3>1 DEF Mode
      <2> QED BY <1>1, <1>4, <2>1, Zenon DEF BeginDelivery, Go
<1> QED BY <1>8, <1>9, <1>10, <1>11, <1>12

\* A step that leaves the delivery.
LEMMA LeavingSteps ==
    ASSUME DestInv, ClaimsInv, NEW w \in Workers, NEW x, Aside(x), run' = [run EXCEPT ![w] = x],
           UNCHANGED <<deliveries, scanner, handoff, history>>
    PROVE  Steps(w) /\ ClaimsInv'
<1>1. x.pc \notin Holding /\ GoodRun(x)
      BY Zenon DEF Aside, InDelivery
<1>2. ClaimsInv'
      BY <1>1, AsideClaims
<1> QED BY <1>1, <1>2 DEF Steps

\* A run in a delivery.
LEMMA InItsDelivery ==
    ASSUME DestInv, ClaimsInv, NEW w \in Workers, run[w].pc \in InDelivery
    PROVE  /\ AtDelivery(run[w]) /\ Aside(Passed(run[w])) /\ Aside(Stopped(run[w]))
           /\ run[w].pc \in Holding => MaySend(run[w])
           /\ run[w].pc \in {"cover", "release"} => run[w].covers
<1>1. PICK r : r = run[w]
      OBVIOUS
<1>2. AtDelivery(r)
      BY <1>1, DeliveryIs DEF AtEntry
<1>3. r \in AnyRun /\ Ordered(r) /\ r.entries # <<>>
      BY <1>2 DEF AtDelivery
<1>4. Aside(Passed(r)) /\ Aside(Stopped(r))
      BY <1>3, PassedGood, StoppedGood DEF Passed
<1>5. /\ r.pc \in Holding => MaySend(r)
      /\ r.pc \in {"cover", "release"} => r.covers
      BY <1>1 DEF ClaimsInv, SendersMay, CoversHold
<1> QED BY <1>1, <1>2, <1>4, <1>5

LEMMA ScannerStatusSteps ==
    ASSUME DestInv, ClaimsInv, NEW w \in Workers, ScannerStatus(w)
    PROVE  Steps(w) /\ ClaimsInv'
<1>1. PICK r, a, x : r = run[w] /\ a = ActivityKey(Head(r.entries)) /\ x = [r EXCEPT !.pc = "claim"]
      OBVIOUS
<1>2. r.pc = "scanner status" /\ UNCHANGED <<deliveries, scanner, handoff, history>>
      BY <1>1, Zenon DEF ScannerStatus, Go, ReadOnly, WebhookOnly
<1>3. AtDelivery(r) /\ Aside(Passed(r)) /\ Aside(Stopped(r)) /\ ~r.covers
      BY <1>1, <1>2, InItsDelivery, Zenon DEF InDelivery, Holding, AtDelivery
<1>4. \/ run' = [run EXCEPT ![w] = Passed(r)]
      \/ Status(a) = "covered" /\ run' = [run EXCEPT ![w] = x]
      \/ run' = [run EXCEPT ![w] = Stopped(r)]
      BY <1>1, Zenon DEF ScannerStatus, Go
<1>5. CASE Status(a) = "covered" /\ run' = [run EXCEPT ![w] = x]
      <2>1. GoesOn(x, r, "claim", r.covers)
            BY <1>1, <1>3, GoesOnSame, Zenon DEF Holding
      <2>2. MaySend(x) /\ \A k : ~Holds(x, k)
            BY <1>1, <1>3, <1>5, <2>1 DEF GoesOn, MaySend, Holds, HoldsVersion, HoldsActivity, Sending
      <2>3. ClaimsInv'
            BY <1>2, <1>5, <2>1, <2>2, StayClaims, Zenon DEF GoesOn
      <2> QED BY <1>5, <2>1, <2>3 DEF GoesOn, Steps
<1> QED BY <1>2, <1>3, <1>4, <1>5, LeavingSteps, Zenon

LEMMA ClaimVersionSteps ==
    ASSUME DestInv, ClaimsInv, NEW w \in Workers, ClaimVersion(w)
    PROVE  Steps(w) /\ ClaimsInv'
<1>1. PICK r, key, x, y : /\ r = run[w] /\ key = VersionKey(Head(r.entries))
                          /\ x = [r EXCEPT !.pc = "post"] /\ y = [r EXCEPT !.pc = "version status"]
      BY Zenon
<1>2. r.pc = "claim"
      BY <1>1, Zenon DEF ClaimVersion, Go
<1>3. AtDelivery(r) /\ MaySend(r)
      BY <1>1, <1>2, InItsDelivery, Zenon DEF InDelivery, Holding
<1>4. CASE Claim(key) /\ run' = [run EXCEPT ![w] = x]
      <2>1. GoesOn(x, r, "post", r.covers)
            BY <1>1, <1>3, GoesOnSame, Zenon DEF Holding
      <2>2. MaySend(x)
            BY <1>3, <2>1 DEF GoesOn, MaySend
      <2>3. \A k : Holds(x, k) => k = key \/ Holds(r, k)
            BY <1>1, <1>2, <2>1, Zenon DEF GoesOn, Holds, HoldsVersion, HoldsActivity, Holding
      <2>4. Claimable(key) /\ deliveries' = With(key, "pending") /\ UNCHANGED <<scanner, handoff, history>>
            BY <1>4 DEF Claim, WebhookOnly
      <2>5. ClaimsInv'
            BY <1>1, <1>2, <1>4, <2>1, <2>2, <2>3, <2>4, TakeClaims, Zenon DEF GoesOn
      <2> QED BY <1>4, <2>1, <2>5 DEF GoesOn, Steps
<1>5. CASE ReadOnly /\ run' = [run EXCEPT ![w] = y]
      <2>1. GoesOn(y, r, "version status", r.covers)
            BY <1>1, <1>3, GoesOnSame, Zenon DEF Holding
      <2>2. MaySend(y)
            BY <1>3, <2>1, Zenon DEF GoesOn, MaySend
      <2>3. \A k : Holds(y, k) => Holds(r, k)
            BY <1>2, <2>1, Zenon DEF GoesOn, Holds, HoldsVersion, HoldsActivity, Holding, Sending
      <2>4. ClaimsInv'
            BY <1>1, <1>2, <1>5, <2>1, <2>2, <2>3, StayClaims, Zenon DEF GoesOn, ReadOnly, WebhookOnly
      <2> QED BY <1>5, <2>1, <2>4, Zenon DEF GoesOn, Steps
<1> QED BY <1>1, <1>4, <1>5, Zenon DEF ClaimVersion, Go

LEMMA VersionStatusSteps ==
    ASSUME DestInv, ClaimsInv, NEW w \in Workers, VersionStatus(w)
    PROVE  Steps(w) /\ ClaimsInv'
<1>1. PICK r : r = run[w]
      OBVIOUS
<1>2. r.pc = "version status" /\ UNCHANGED <<deliveries, scanner, handoff, history>>
      BY <1>1, Zenon DEF VersionStatus, Go, ReadOnly, WebhookOnly
<1>3. AtDelivery(r) /\ Aside(Passed(r)) /\ Aside(Stopped(r)) /\ r.covers \in BOOLEAN
      BY <1>1, <1>2, InItsDelivery, Zenon DEF InDelivery, Holding, AtDelivery
<1>4. \/ run' = [run EXCEPT ![w] = Passed(r)]
      \/ run' = [run EXCEPT ![w] = Stopped(r)]
      \/ r.covers /\ \E pc \in {"cover", "release"} : run' = [run EXCEPT ![w] = [r EXCEPT !.pc = pc]]
      BY <1>1, <1>3, Zenon DEF VersionStatus, Go
<1>5. ASSUME r.covers, NEW pc \in {"cover", "release"}, run' = [run EXCEPT ![w] = [r EXCEPT !.pc = pc]]
      PROVE  Steps(w) /\ ClaimsInv'
      <2>1. PICK x : x = [r EXCEPT !.pc = pc]
            OBVIOUS
      <2>2. GoesOn(x, r, pc, r.covers)
            BY <1>3, <2>1, GoesOnSame, Zenon DEF Holding
      <2>3. MaySend(x) /\ x.covers
            BY <1>5, <2>2 DEF GoesOn, MaySend
      <2>4. \A k : Holds(x, k) => Holds(r, k)
            BY <1>2, <2>2, Zenon DEF GoesOn, Holds, HoldsVersion, HoldsActivity, Holding, Sending
      <2>5. ClaimsInv'
            BY <1>1, <1>2, <1>5, <2>1, <2>3, <2>4, StayClaims, Zenon
      <2> QED BY <1>5, <2>1, <2>2, <2>5 DEF GoesOn, Steps
<1> QED BY <1>2, <1>3, <1>4, <1>5, LeavingSteps, Zenon

LEMMA PostSteps ==
    ASSUME DestInv, ClaimsInv, NEW w \in Workers, NEW ok \in BOOLEAN, Post(w, ok)
    PROVE  Steps(w) /\ ClaimsInv'
<1>1. PICK r, e, x, y : /\ r = run[w] /\ e = Head(r.entries)
                        /\ x = [r EXCEPT !.pc = "mark", !.sent = @ + 1]
                        /\ y = [r EXCEPT !.pc = "mark failed"]
      BY Zenon
<1>2. r.pc = "post" /\ UNCHANGED <<deliveries, scanner, handoff>>
      BY <1>1, Zenon DEF Post, Go, WebhookOnly
<1>3. AtDelivery(r) /\ MaySend(r)
      BY <1>1, <1>2, InItsDelivery, Zenon DEF InDelivery, Holding
<1>4. CASE ok
      <2>1. GoesOn(x, r, "mark", r.covers)
            BY <1>1, <1>3, GoesOnSent, Zenon
      <2>2. run' = [run EXCEPT ![w] = x] /\ Answered(VersionKey(e))
            BY <1>1, <1>4, Zenon DEF Post, Go
      <2>3. e \in Entries /\ ActivityOf(VersionKey(e)) = ActivityKey(e) /\ r.covers \in BOOLEAN
            BY <1>1, <1>3, Zenon DEF AtDelivery
      <2>4. x.covers = r.covers /\ Head(x.entries) = e /\ x.pc = "mark"
            BY <1>1, <1>3, <2>3, Zenon DEF AtDelivery, AnyRun
      <2>5. ClaimsInv'
            BY <1>1, <1>2, <2>2, <2>3, <2>4, AnsweredClaims, Zenon
      <2> QED BY <2>1, <2>2, <2>5 DEF GoesOn, Steps
<1>5. CASE ~ok
      <2>1. GoesOn(y, r, "mark failed", r.covers)
            BY <1>1, <1>3, GoesOnSame, Zenon DEF Holding
      <2>2. run' = [run EXCEPT ![w] = y] /\ UNCHANGED history
            BY <1>1, <1>5, Zenon DEF Post, Go
      <2>3. MaySend(y)
            BY <1>3, <2>1, Zenon DEF GoesOn, MaySend
      <2>4. \A k : Holds(y, k) => Holds(r, k)
            BY <1>2, <2>1, Zenon DEF GoesOn, Holds, HoldsVersion, HoldsActivity, Holding, Sending
      <2>5. ClaimsInv'
            BY <1>1, <1>2, <2>1, <2>2, <2>3, <2>4, StayClaims, Zenon DEF GoesOn
      <2> QED BY <2>1, <2>2, <2>5, Zenon DEF GoesOn, Steps
<1> QED BY <1>4, <1>5

\* A holder records an outcome and is done, or goes on to its activity.
LEMMA RecordedSteps ==
    ASSUME DestInv, ClaimsInv, NEW w \in Workers, NEW x, Aside(x), run' = [run EXCEPT ![w] = x], NEW key,
           NEW status \in {"delivered", "failed", "covered"}, Holds(run[w], key), Mark(key, status),
           status = "covered" => key[2] = 0 /\ run[w].pc = "cover",
           status = "failed" => run[w].pc \in {"mark failed", "release"},
           status = "delivered" => key[2] # 0 /\ run[w].pc = "mark"
    PROVE  Steps(w) /\ ClaimsInv'
<1>1. GoodRun(x) /\ x.pc \notin Holding
      BY Zenon DEF Aside, InDelivery
<1>2. \A k : ~Holds(x, k)
      BY <1>1, HoldsNothing, Zenon
<1>3. deliveries' = With(key, status) /\ UNCHANGED <<scanner, handoff, history>>
      BY Zenon DEF Mark, WebhookOnly
<1>4. x.pc \notin {"mark", "claim", "version status", "post", "mark failed", "cover", "release"}
      BY <1>1, Zenon DEF Holding
<1>5. ClaimsInv'
      BY <1>1, <1>2, <1>3, <1>4, MarkClaims, Zenon
<1> QED BY <1>1, <1>5, Zenon DEF Steps

LEMMA MarkSteps ==
    ASSUME DestInv, ClaimsInv, NEW w \in Workers, NEW pc, NEW next, NEW status,
           \/ pc = "mark" /\ next = "cover" /\ status = "delivered"
           \/ pc = "mark failed" /\ next = "release" /\ status = "failed",
           run[w].pc = pc, run[w].covers, run' = [run EXCEPT ![w] = [run[w] EXCEPT !.pc = next]],
           Mark(VersionKey(Head(run[w].entries)), status)
    PROVE  Steps(w) /\ ClaimsInv'
<1>1. PICK r, key, x : r = run[w] /\ key = VersionKey(Head(r.entries)) /\ x = [r EXCEPT !.pc = next]
      BY Zenon
<1>2. \/ pc = "mark" /\ next = "cover" /\ status = "delivered"
      \/ pc = "mark failed" /\ next = "release" /\ status = "failed"
      BY Zenon
<1>3. AtDelivery(r) /\ MaySend(r)
      BY <1>1, <1>2, InItsDelivery, Zenon DEF InDelivery, Holding
<1>4. GoesOn(x, r, next, r.covers)
      BY <1>1, <1>2, <1>3, GoesOnSame, Zenon DEF Holding
<1>5. MaySend(x) /\ x.covers /\ x.pc = next /\ GoodRun(x)
      BY <1>1, <1>3, <1>4, Zenon DEF GoesOn, MaySend
<1>6. Holds(r, key) /\ key[2] # 0
      BY <1>1, <1>2, <1>3, Zenon DEF Holds, HoldsVersion, Sending, AtDelivery
<1>7. \A k : Holds(x, k) => k # key /\ k[2] = 0 /\ Holds(r, k)
      <2>1. \A k : Holds(x, k) => k = ActivityKey(Head(r.entries))
            BY <1>2, <1>4, Zenon DEF GoesOn, Holds, HoldsVersion, HoldsActivity, Sending
      <2>2. Holds(r, ActivityKey(Head(r.entries))) /\ ActivityKey(Head(r.entries))[2] = 0
            BY <1>1, <1>2, <1>3, Zenon DEF AtDelivery, Holds, HoldsActivity, Holding
      <2> QED BY <1>6, <2>1, <2>2, Zenon
<1>8. deliveries' = With(key, status) /\ UNCHANGED <<scanner, handoff, history>>
      BY <1>1, Zenon DEF Mark, WebhookOnly
<1>9. ClaimsInv'
      <2>1. run' = [run EXCEPT ![w] = x]
            BY <1>1, Zenon
      <2>2. CASE pc = "mark"
            BY <1>1, <1>2, <1>5, <1>6, <1>7, <1>8, <2>1, <2>2, MarkClaims, Zenon
      <2>3. CASE pc = "mark failed"
            BY <1>1, <1>2, <1>5, <1>6, <1>7, <1>8, <2>1, <2>3, MarkClaims, Zenon
      <2> QED BY <1>2, <2>2, <2>3, Zenon
<1> QED BY <1>1, <1>5, <1>9, Zenon DEF Steps

LEMMA MarkDeliveredSteps ==
    ASSUME DestInv, ClaimsInv, NEW w \in Workers, MarkDelivered(w) \/ MarkFailed(w)
    PROVE  Steps(w) /\ ClaimsInv'
<1>1. PICK r, key : r = run[w] /\ key = VersionKey(Head(r.entries))
      OBVIOUS
<1>2. r.pc \in {"mark", "mark failed"}
      BY <1>1, Zenon DEF MarkDelivered, MarkFailed, Go
<1>3. AtDelivery(r) /\ Aside(Passed(r)) /\ Aside(Stopped(r))
      BY <1>1, <1>2, InItsDelivery, Zenon DEF InDelivery, Holding
<1>4. Holds(r, key) /\ key[2] # 0
      BY <1>1, <1>2, <1>3, Zenon DEF Holds, HoldsVersion, Sending, AtDelivery
<1>5. CASE MarkDelivered(w)
      <2>1. r.pc = "mark" /\ Mark(key, "delivered")
            BY <1>1, <1>5 DEF MarkDelivered, Go
      <2>2. CASE r.covers
            <3>1. run' = [run EXCEPT ![w] = [r EXCEPT !.pc = "cover"]]
                  BY <1>1, <1>5, <2>2 DEF MarkDelivered, Go
            <3>2. /\ run[w].pc = r.pc /\ run[w].covers /\ run' = [run EXCEPT ![w] = [run[w] EXCEPT !.pc = "cover"]]
                  /\ Mark(VersionKey(Head(run[w].entries)), "delivered")
                  BY <1>1, <2>1, <2>2, <3>1
            <3> QED BY ONLY DestInv, ClaimsInv, w \in Workers, <2>1, <3>2, MarkSteps, Zenon
      <2>3. CASE ~r.covers
            <3>1. run' = [run EXCEPT ![w] = Passed(r)]
                  BY <1>1, <1>5, <2>3 DEF MarkDelivered, Go
            <3> QED BY <1>1, <1>3, <1>4, <2>1, <3>1, RecordedSteps, Zenon
      <2> QED BY <2>2, <2>3
<1>6. CASE MarkFailed(w)
      <2>1. r.pc = "mark failed" /\ Mark(key, "failed")
            BY <1>1, <1>6, Zenon DEF MarkFailed, Go
      <2>2. CASE r.covers
            <3>1. run' = [run EXCEPT ![w] = [r EXCEPT !.pc = "release"]]
                  BY <1>1, <1>6, <2>2, Zenon DEF MarkFailed, Go
            <3>2. /\ run[w].pc = r.pc /\ run[w].covers /\ run' = [run EXCEPT ![w] = [run[w] EXCEPT !.pc = "release"]]
                  /\ Mark(VersionKey(Head(run[w].entries)), "failed")
                  BY <1>1, <2>1, <2>2, <3>1, Zenon
            <3> QED BY ONLY DestInv, ClaimsInv, w \in Workers, <2>1, <3>2, MarkSteps, Zenon
      <2>3. CASE ~r.covers
            <3>1. run' = [run EXCEPT ![w] = Stopped(r)]
                  BY <1>1, <1>6, <2>3, Zenon DEF MarkFailed, Go
            <3> QED BY <1>1, <1>3, <1>4, <2>1, <3>1, RecordedSteps, Zenon
      <2> QED BY <2>2, <2>3
<1> QED BY <1>5, <1>6

LEMMA MarkCoveredSteps ==
    ASSUME DestInv, ClaimsInv, NEW w \in Workers, MarkCovered(w) \/ Release(w)
    PROVE  Steps(w) /\ ClaimsInv'
<1>1. PICK r, a : r = run[w] /\ a = ActivityKey(Head(r.entries))
      OBVIOUS
<1>2. r.pc \in {"cover", "release"}
      BY <1>1 DEF MarkCovered, Release, Go
<1>3. AtDelivery(r) /\ Aside(Passed(r)) /\ Aside(Stopped(r)) /\ r.covers
      BY <1>1, <1>2, InItsDelivery, Zenon DEF InDelivery, Holding
<1>4. Holds(r, a) /\ a[2] = 0
      BY <1>1, <1>2, <1>3, Zenon DEF Holds, HoldsActivity, Holding, AtDelivery
<1>5. CASE MarkCovered(w)
      <2>1. r.pc = "cover" /\ Mark(a, "covered") /\ run' = [run EXCEPT ![w] = Passed(r)]
            BY <1>1, <1>5 DEF MarkCovered, Go
      <2> QED BY <1>1, <1>3, <1>4, <2>1, RecordedSteps, Zenon
<1>6. CASE Release(w)
      <2>1. r.pc = "release" /\ Mark(a, "failed") /\ run' = [run EXCEPT ![w] = Stopped(r)]
            BY <1>1, <1>6 DEF Release, Go
      <2> QED BY <1>1, <1>3, <1>4, <2>1, RecordedSteps, Zenon
<1> QED BY <1>5, <1>6

-----------------------------------------------------------------------------
\* Every step.

LEMMA FeedTyped ==
    ASSUME FeedTypes, FeedNext
    PROVE  FeedTypes'
<1>1. ASSUME NEW t \in Traces, RemoveOld(t) \/ WriteRows(t) \/ ExpireTrace(t) \/ PruneRow(t)
      PROVE  FeedTypes'
      <2>1. CASE RemoveOld(t) \/ ExpireTrace(t)
            BY <2>1 DEF FeedTypes, RemoveOld, ExpireTrace
      <2>2. CASE PruneRow(t)
            BY <2>2 DEF FeedTypes, PruneRow, NoRow
      <2>3. CASE WriteRows(t)
            <3>1. PICK src \in {stored[t].rev + 1} \cup ({stored[t].src} \ {0}) :
                        stored' = [stored EXCEPT ![t] = [src |-> src, rev |-> @.rev + 1]]
                  BY <2>3 DEF WriteRows
            <3>2. src \in Nat /\ stored[t].rev + 1 \in Nat
                  BY <3>1 DEF FeedTypes
            <3>3. stored' \in [Traces -> [src : Nat, rev : Nat]]
                  BY <3>1, <3>2 DEF FeedTypes
            <3> QED BY <2>3, <3>3 DEF FeedTypes, WriteRows
      <2> QED BY <1>1, <2>1, <2>2, <2>3
<1>2. ASSUME NEW T \in SUBSET Traces, PublishTraces(T)
      PROVE  FeedTypes'
      <2>1. PICK n \in Nat : n = published + 1 /\ n # 0
            BY DEF FeedTypes
      <2>2. /\ published' = n /\ stored' = stored
            /\ feedRow' = [t \in Traces |-> IF t \in T THEN [ver |-> n, src |-> stored[t].src] ELSE feedRow[t]]
            BY <1>2, <2>1 DEF PublishTraces
      <2>3. feedRow' \in [Traces -> [ver : Nat, src : Nat]]
            BY <2>1, <2>2 DEF FeedTypes
      <2> QED BY <2>1, <2>2, <2>3 DEF FeedTypes, NoRow
<1> QED BY <1>1, <1>2 DEF FeedNext

LEMMA WithTyped ==
    ASSUME DestTypes, NEW key \in AnyKeys, NEW status, deliveries' = With(key, status)
    PROVE  DOMAIN deliveries' \subseteq AnyKeys
BY DEF With, DestTypes

LEMMA AnsweredTyped ==
    ASSUME DestTypes, NEW key \in AnyKeys, Answered(key)
    PROVE  history' \in [ok : SUBSET AnyKeys, twice : SUBSET AnyKeys, rejected : SUBSET AnyKeys,
                         lost : SUBSET AnyKeys, overlap : BOOLEAN]
BY DEF Answered, DestTypes

\* A step beside the deliveries.
Beside ==
    /\ UNCHANGED <<feedVars, kind, scores, scanner, handoff, deliveries>>
    /\ history' \in [ok : SUBSET AnyKeys, twice : SUBSET AnyKeys, rejected : SUBSET AnyKeys,
                     lost : SUBSET AnyKeys, overlap : BOOLEAN]
    /\ history'.ok = history.ok /\ history'.twice = history.twice /\ history'.lost = history.lost
    /\ rule' \in [due : BOOLEAN, pos : Moments, spos : Moments]

LEMMA BesideTyped ==
    ASSUME DestTypes, Beside
    PROVE  DestTypes'
BY DEF DestTypes, Beside, FeedTypes, feedVars

LEMMA BesideStays ==
    ASSUME DestTypes, UNCHANGED <<feedVars, kind, rule, scores, scanner, handoff, history, deliveries>>
    PROVE  Beside
BY DEF DestTypes, Beside

LEMMA AsideBeside ==
    ASSUME DestInv, NEW w \in Workers,
           \/ ClaimRule(w) \/ ReadPage(w) \/ (\E what \in {"summaries", "pending"} : LookUp(w, what))
           \/ WalkEntry(w) \/ LookAgain(w) \/ PassEntry(w) \/ LoadObservations(w) \/ ForwardEntry(w)
           \/ (\E table \in {"traces", "observations", "scores"} : LoadRows(w, table))
           \/ StageEntry(w) \/ ListScores(w) \/ MatchScores(w) \/ StageScores(w) \/ Upload(w)
           \/ RecordRun(w) \/ UploadFails(w) \/ RunThrows(w) \/ WorkerDies(w)
    PROVE  Beside
<1>1. CASE ClaimRule(w)
      <2>1. rule' \in [due : BOOLEAN, pos : Moments, spos : Moments]
            BY <1>1 DEF ClaimRule, DestInv, DestTypes
      <2>2. history' = history \/ history' = [history EXCEPT !.overlap = TRUE]
            BY <1>1 DEF ClaimRule
      <2> QED BY <1>1, <2>1, <2>2 DEF ClaimRule, Beside, DestInv, DestTypes
<1>2. CASE ForwardEntry(w)
      <2>1. PICK r, e : r = run[w] /\ e = Head(r.entries)
            OBVIOUS
      <2>2. VersionKey(e) \in AnyKeys
            BY <1>2, <2>1, DeliveryIs DEF ForwardEntry, AtEntry, AtDelivery
      <2>3. history' = history \/ history' = [history EXCEPT !.rejected = @ \cup {VersionKey(e)}]
            BY <1>2, <2>1 DEF ForwardEntry
      <2> QED BY <1>2, <2>2, <2>3 DEF ForwardEntry, Beside, DestInv, DestTypes
<1>3. CASE RecordRun(w)
      <2>1. PICK r : r = run[w]
            OBVIOUS
      <2>2. r \in AnyRun
            BY <2>1 DEF DestInv
      <2>3. r.from \in Moments /\ r.at \in Moments /\ r.sfrom \in Moments /\ r.sat \in Moments /\ r.again \in BOOLEAN
            BY <2>2 DEF AnyRun
      <2>4. rule' = [due |-> rule.due \/ r.again, pos |-> Recorded(rule.pos, r.from, r.at),
                     spos |-> Recorded(rule.spos, r.sfrom, r.sat)]
            BY <1>3, <2>1 DEF RecordRun
      <2>5. rule' \in [due : BOOLEAN, pos : Moments, spos : Moments]
            BY <2>3, <2>4 DEF Recorded, DestInv, DestTypes
      <2> QED BY <1>3, <2>5 DEF RecordRun, Beside, DestInv, DestTypes
<1>4. ASSUME RunOnly \/ ExportOnly \/ RunThrows(w) \/ WorkerDies(w)
      PROVE  Beside
      BY <1>4, BesideStays DEF DestInv, RunOnly, ExportOnly, RunThrows, WorkerDies
<1>5. CASE ReadPage(w) \/ (\E what \in {"summaries", "pending"} : LookUp(w, what))
           \/ WalkEntry(w) \/ LookAgain(w) \/ PassEntry(w) \/ LoadObservations(w)
           \/ (\E table \in {"traces", "observations", "scores"} : LoadRows(w, table))
           \/ StageEntry(w) \/ ListScores(w) \/ MatchScores(w) \/ StageScores(w) \/ Upload(w) \/ UploadFails(w)
      BY <1>4, <1>5, Zenon DEF ReadPage, LookUp, WalkEntry, LookAgain, PassEntry, LoadObservations, LoadRows,
                        StageEntry, ListScores, MatchScores, StageScores, Upload, UploadFails
<1> QED BY <1>1, <1>2, <1>3, <1>4, <1>5

LEMMA DeliveryTyped ==
    ASSUME DestInv, NEW w \in Workers,
           \/ BeginDelivery(w) \/ ScannerStatus(w) \/ ClaimVersion(w) \/ VersionStatus(w)
           \/ (\E ok \in BOOLEAN : Post(w, ok))
           \/ MarkDelivered(w) \/ MarkCovered(w) \/ MarkFailed(w) \/ Release(w)
    PROVE  DestTypes'
<1>1. PICK v, a : v = VersionKey(Head(run[w].entries)) /\ a = ActivityKey(Head(run[w].entries))
      OBVIOUS
<1>2. run[w].pc \in AtEntry
      BY Zenon DEF BeginDelivery, ScannerStatus, ClaimVersion, VersionStatus, Post, MarkDelivered, MarkCovered,
             MarkFailed, Release, Go, AtEntry, InDelivery, Holding
<1>3. v \in AnyKeys /\ a \in AnyKeys
      BY <1>1, <1>2, DeliveryIs DEF AtDelivery
<1>4. /\ WebhookOnly
      /\ deliveries' = deliveries \/ \E key \in {v, a}, status \in KeyStatus : deliveries' = With(key, status)
      /\ history' = history \/ Answered(v)
      <2>1. CASE BeginDelivery(w)
            BY <1>1, <2>1, Zenon DEF BeginDelivery, Claim, ReadOnly, KeyStatus
      <2>2. CASE ScannerStatus(w) \/ VersionStatus(w)
            BY <2>2, Zenon DEF ScannerStatus, VersionStatus, ReadOnly
      <2>3. CASE ClaimVersion(w)
            BY <1>1, <2>3, Zenon DEF ClaimVersion, Claim, ReadOnly, KeyStatus
      <2>4. CASE \E ok \in BOOLEAN : Post(w, ok)
            BY <1>1, <2>4, Zenon DEF Post
      <2>5. CASE MarkDelivered(w) \/ MarkCovered(w) \/ MarkFailed(w) \/ Release(w)
            BY <1>1, <2>5, Zenon DEF MarkDelivered, MarkCovered, MarkFailed, Release, Mark, KeyStatus
      <2> QED BY <2>1, <2>2, <2>3, <2>4, <2>5
<1>5. DOMAIN deliveries' \subseteq AnyKeys
      BY <1>3, <1>4, WithTyped DEF DestInv, DestTypes
<1>6. history' \in [ok : SUBSET AnyKeys, twice : SUBSET AnyKeys, rejected : SUBSET AnyKeys,
                    lost : SUBSET AnyKeys, overlap : BOOLEAN]
      BY <1>3, <1>4, AnsweredTyped DEF DestInv, DestTypes
<1> QED BY <1>4, <1>5, <1>6 DEF DestInv, DestTypes, FeedTypes, WebhookOnly, feedVars

LEMMA ScannerTyped ==
    ASSUME DestTypes, ScannerNext \/ HandoffEnds \/ \E key \in DOMAIN deliveries : GoesStale(key)
    PROVE  DestTypes' /\ UNCHANGED run
<1>n. NoKey \in AnyKeys
      BY DEF NoKey, AnyKeys
<1>1. ASSUME NEW t \in Traces, ScannerClaims(t) PROVE DestTypes' /\ UNCHANGED run
      <2>1. PICK key : key = <<t, 0, stored[t].src>>
            OBVIOUS
      <2>2. key \in AnyKeys
            BY <2>1, SettledFeedAssumption DEF AnyKeys, DestTypes, FeedTypes
      <2>3. /\ deliveries' = With(key, "pending") /\ scanner' = [key |-> key, answer |-> "none"]
            /\ UNCHANGED <<feedVars, kind, rule, run, scores, handoff, history>>
            BY <1>1, <2>1 DEF ScannerClaims, ScannerOnly
      <2>4. DOMAIN deliveries' \subseteq AnyKeys
            BY <2>2, <2>3, WithTyped
      <2> QED BY <2>2, <2>3, <2>4 DEF DestTypes, FeedTypes, feedVars
<1>2. CASE ScannerPosts
      <2>1. scanner.key \in AnyKeys
            BY DEF DestTypes
      <2>2. history' = history \/ Answered(scanner.key)
            BY <1>2 DEF ScannerPosts
      <2>3. history' \in [ok : SUBSET AnyKeys, twice : SUBSET AnyKeys, rejected : SUBSET AnyKeys,
                          lost : SUBSET AnyKeys, overlap : BOOLEAN]
            BY <2>1, <2>2, AnsweredTyped DEF DestTypes
      <2>4. scanner' \in [key : AnyKeys, answer : {"none", "failed", "delivered"}]
            BY <1>2 DEF ScannerPosts, DestTypes
      <2> QED BY <1>2, <2>3, <2>4 DEF ScannerPosts, ScannerOnly, DestTypes, FeedTypes, feedVars
<1>3. CASE ScannerMarks
      <2>1. scanner.key \in AnyKeys /\ deliveries' = With(scanner.key, scanner.answer)
            BY <1>3 DEF ScannerMarks, DestTypes
      <2>2. DOMAIN deliveries' \subseteq AnyKeys
            BY <2>1, WithTyped
      <2> QED BY <1>n, <1>3, <2>2 DEF ScannerMarks, ScannerOnly, DestTypes, FeedTypes, feedVars
<1>4. CASE ScannerDies
      BY <1>n, <1>4 DEF ScannerDies, Lost, ScannerOnly, DestTypes, FeedTypes, feedVars
<1>5. CASE HandoffEnds
      BY <1>5 DEF HandoffEnds, DestTypes, FeedTypes, feedVars
<1>6. ASSUME NEW key \in DOMAIN deliveries, GoesStale(key) PROVE DestTypes' /\ UNCHANGED run
      <2>1. key \in AnyKeys
            BY DEF DestTypes
      <2>2. DOMAIN deliveries' \subseteq AnyKeys
            BY <1>6, <2>1, WithTyped DEF GoesStale
      <2> QED BY <1>6, <2>1, <2>2 DEF GoesStale, WebhookOnly, DestTypes, FeedTypes, feedVars
<1> QED BY <1>1, <1>2, <1>3, <1>4, <1>5, <1>6 DEF ScannerNext

LEMMA ScoresTyped ==
    ASSUME DestTypes, NEW t \in Traces, WriteScores(t) \/ PublishScores(t)
    PROVE  DestTypes'
<1>1. CASE WriteScores(t)
      <2>1. PICK n \in Nat : n = scores[t].rev + 1
            BY DEF DestTypes
      <2>2. scores' = [scores EXCEPT ![t].rev = n, ![t].writing = TRUE]
            BY <1>1, <2>1 DEF WriteScores
      <2>3. scores' \in [Traces -> [rev : Nat, ver : Nat, writing : BOOLEAN]]
            <3>1. PICK old \in [rev : Nat, ver : Nat, writing : BOOLEAN] : old = scores[t]
                  BY DEF DestTypes
            <3>2. [old EXCEPT !.rev = n, !.writing = TRUE] \in [rev : Nat, ver : Nat, writing : BOOLEAN]
                  BY <2>1
            <3>3. DOMAIN scores = Traces
                  BY DEF DestTypes
            <3>4. scores' = [scores EXCEPT ![t] = [old EXCEPT !.rev = n, !.writing = TRUE]]
                  BY ONLY <2>2, <3>1, <3>3, t \in Traces
            <3> QED BY <3>2, <3>4 DEF DestTypes
      <2> QED BY <1>1, <2>3 DEF WriteScores, ScoresOnly, DestTypes, FeedTypes
<1>2. CASE PublishScores(t)
      <2>1. PICK n \in Nat : n = published + 1
            BY DEF DestTypes, FeedTypes
      <2>2. published' = n /\ scores' = [scores EXCEPT ![t].ver = n, ![t].writing = FALSE]
            BY <1>2, <2>1 DEF PublishScores
      <2>3. scores' \in [Traces -> [rev : Nat, ver : Nat, writing : BOOLEAN]]
            <3>1. PICK old \in [rev : Nat, ver : Nat, writing : BOOLEAN] : old = scores[t]
                  BY DEF DestTypes
            <3>2. [old EXCEPT !.ver = n, !.writing = FALSE] \in [rev : Nat, ver : Nat, writing : BOOLEAN]
                  BY <2>1
            <3>3. DOMAIN scores = Traces
                  BY DEF DestTypes
            <3>4. scores' = [scores EXCEPT ![t] = [old EXCEPT !.ver = n, !.writing = FALSE]]
                  BY ONLY <2>2, <3>1, <3>3, t \in Traces
            <3> QED BY <3>2, <3>4 DEF DestTypes
      <2> QED BY <1>2, <2>1, <2>2, <2>3 DEF PublishScores, ScoresOnly, DestTypes, FeedTypes
<1> QED BY <1>1, <1>2

\* A step that no delivery takes part in.
LEMMA ClaimsStay ==
    ASSUME ClaimsInv, UNCHANGED <<run, deliveries, scanner, handoff>>,
           history'.ok = history.ok, history'.twice = history.twice, history'.lost = history.lost
    PROVE  ClaimsInv'
<1>1. \A k : Status(k)' = Status(k) /\ (IsLost(k)' <=> IsLost(k))
      BY DEF Status, IsLost
<1>2. HeldPending' /\ HeldOnce' /\ ScannerHolds'
      BY <1>1 DEF ClaimsInv, HeldPending, HeldOnce, ScannerHolds
<1>3. CoversHold' /\ TwiceLost'
      BY <1>1 DEF ClaimsInv, CoversHold, TwiceLost
<1>4. AnswersKept' /\ SendersMay'
      BY <1>1 DEF ClaimsInv, AnswersKept, AnswerKept, OnlyMarking, SendersMay, MaySend
<1>5. SentKept'
      BY <1>1 DEF ClaimsInv, SentKept, ScannerKept, Closing
<1> QED BY <1>2, <1>3, <1>4, <1>5 DEF ClaimsInv

LEMMA RunsGood ==
    ASSUME DestInv, NEW w \in Workers, Steps(w) \/ GoesAside(w)
    PROVE  run' \in [Workers -> AnyRun] /\ RunInv'
<1>1. PICK x : GoodRun(x) /\ run' = [run EXCEPT ![w] = x]
      BY DEF Steps, GoesAside, Aside
<1>2. \A v \in Workers : GoodRun(run'[v])
      BY <1>1 DEF DestInv, RunInv
<1>3. ASSUME NEW y, GoodRun(y) PROVE GoodRun(y)'
      BY <1>3 DEF GoodRun, Ordered, AtItsPlace, AnyRun, PerTrace
<1>4. x \in AnyRun
      BY <1>1 DEF GoodRun
<1>5. run' \in [Workers -> AnyRun]
      BY <1>1, <1>4 DEF DestInv
<1> QED BY <1>2, <1>3, <1>5 DEF RunInv

\* A step of one worker.
LEMMA WorkerKeeps ==
    ASSUME DestInv, ClaimsInv, NEW w \in Workers, Advance(w) \/ UploadFails(w) \/ RunThrows(w) \/ WorkerDies(w)
    PROVE  DestInv' /\ ClaimsInv'
<1>1. CASE \/ ClaimRule(w) \/ ReadPage(w) \/ (\E what \in {"summaries", "pending"} : LookUp(w, what))
           \/ WalkEntry(w) \/ LookAgain(w) \/ PassEntry(w) \/ LoadObservations(w) \/ ForwardEntry(w)
           \/ (\E table \in {"traces", "observations", "scores"} : LoadRows(w, table))
           \/ StageEntry(w) \/ ListScores(w) \/ MatchScores(w) \/ StageScores(w) \/ Upload(w)
           \/ RecordRun(w) \/ UploadFails(w) \/ RunThrows(w) \/ WorkerDies(w)
      <2>1. Beside
            BY <1>1, AsideBeside
      <2>2. GoesAside(w)
            BY <1>1, ClaimRuleAside, ReadPageAside, LookUpAside, WalkEntryAside, PassEntryAside, LoadAside,
               ForwardAside, StageEntryAside, ScoresAside, EndsAside
      <2>3. PICK x : Aside(x) /\ run' = [run EXCEPT ![w] = x]
            BY <2>2 DEF GoesAside
      <2>4. ClaimsInv'
            <3>1. x.pc \notin Holding
                  BY <2>3, Zenon DEF Aside, InDelivery
            <3>2. /\ UNCHANGED <<deliveries, scanner, handoff>>
                  /\ history'.ok = history.ok /\ history'.twice = history.twice /\ history'.lost = history.lost
                  BY <2>1 DEF Beside
            <3> QED BY <2>3, <3>1, <3>2, AsideClaims
      <2>5. DestTypes'
            BY <2>1, BesideTyped DEF DestInv
      <2> QED BY <2>2, <2>4, <2>5, RunsGood DEF DestInv
<1>2. CASE \/ BeginDelivery(w) \/ ScannerStatus(w) \/ ClaimVersion(w) \/ VersionStatus(w)
           \/ (\E ok \in BOOLEAN : Post(w, ok))
           \/ MarkDelivered(w) \/ MarkCovered(w) \/ MarkFailed(w) \/ Release(w)
      <2>1. Steps(w) /\ ClaimsInv'
            BY <1>2, BeginDeliverySteps, ScannerStatusSteps, ClaimVersionSteps, VersionStatusSteps, PostSteps,
               MarkDeliveredSteps, MarkCoveredSteps
      <2>2. DestTypes'
            BY <1>2, DeliveryTyped
      <2> QED BY <2>1, <2>2, RunsGood DEF DestInv
<1> QED BY <1>1, <1>2 DEF Advance

LEMMA RunsStay ==
    ASSUME DestInv, UNCHANGED run
    PROVE  run' \in [Workers -> AnyRun] /\ RunInv'
<1>1. ASSUME NEW y, GoodRun(y) PROVE GoodRun(y)'
      BY <1>1 DEF GoodRun, Ordered, AtItsPlace, AnyRun, PerTrace
<1>2. \A w \in Workers : GoodRun(run'[w])
      BY DEF DestInv, RunInv
<1> QED BY <1>1, <1>2 DEF DestInv, RunInv

LEMMA DestKeeps ==
    ASSUME DestInv, ClaimsInv, [DestNext]_destAll
    PROVE  DestInv' /\ ClaimsInv'
<1>1. CASE FeedNext /\ UNCHANGED destVars
      <2>1. DestTypes'
            BY <1>1, FeedTyped DEF DestInv, DestTypes, destVars
      <2> QED BY <1>1, <2>1, RunsStay, ClaimsStay DEF DestInv, destVars
<1>2. CASE \E w \in Workers : Advance(w) \/ UploadFails(w) \/ RunThrows(w) \/ WorkerDies(w)
      BY <1>2, WorkerKeeps
<1>3. CASE ComesDue
      <2>1. Beside
            BY <1>3 DEF ComesDue, Beside, DestInv, DestTypes
      <2>2. DestTypes'
            BY <2>1, BesideTyped DEF DestInv
      <2> QED BY <1>3, <2>2, RunsStay, ClaimsStay DEF ComesDue, DestInv
<1>4. CASE ScannerNext \/ HandoffEnds \/ \E key \in DOMAIN deliveries : GoesStale(key)
      <2>1. DestTypes' /\ UNCHANGED run
            BY <1>4, ScannerTyped DEF DestInv
      <2>2. ClaimsInv'
            BY <1>4, ScannerClaimsClaims, ScannerPostsClaims, ScannerMarksClaims, ScannerDiesClaims,
               HandoffEndsClaims, StaleClaims DEF ScannerNext
      <2> QED BY <2>1, <2>2, RunsStay DEF DestInv
<1>5. CASE \E t \in Traces : WriteScores(t) \/ PublishScores(t)
      <2>1. DestTypes'
            BY <1>5, ScoresTyped DEF DestInv
      <2>2. UNCHANGED <<run, deliveries, scanner, handoff, history>>
            BY <1>5 DEF WriteScores, PublishScores, ScoresOnly
      <2> QED BY <2>1, <2>2, RunsStay, ClaimsStay DEF DestInv
<1>6. CASE UNCHANGED destAll
      <2>1. UNCHANGED <<feedVars, kind, rule, run, deliveries, scores, scanner, handoff, history>>
            BY <1>6 DEF destAll, destVars
      <2>2. DestTypes'
            BY <2>1, BesideStays, BesideTyped DEF DestInv
      <2> QED BY <2>1, <2>2, RunsStay, ClaimsStay DEF DestInv
<1> QED BY <1>1, <1>2, <1>3, <1>4, <1>5, <1>6 DEF DestNext

LEMMA DestStarts ==
    ASSUME DestInit
    PROVE  DestInv /\ ClaimsInv
<1>1. \A w \in Workers : run[w] = Idle
      BY DEF DestInit
<1>2. GoodRun(Idle) /\ Idle.pc = "idle" /\ ~Idle.covers
      BY IdleAside DEF Aside, Idle
<1>3. run \in [Workers -> AnyRun] /\ RunInv
      BY <1>1, <1>2 DEF DestInit, RunInv, GoodRun
<1>4. DestTypes
      <2>1. FeedTypes
            BY DEF DestInit, FeedInit, FeedTypes, NoRow
      <2>2. NoKey \in AnyKeys /\ Origin \in Moments
            BY DEF NoKey, AnyKeys, Origin, Moments
      <2>3. DOMAIN deliveries = {}
            BY DEF DestInit
      <2> QED BY <2>1, <2>2, <2>3 DEF DestInit, DestTypes
<1>5. \A k : ~Holds(Idle, k)
      BY <1>2, HoldsNothing, Zenon DEF Holding
<1>6. history.ok = {} /\ history.twice = {} /\ scanner.key = NoKey /\ scanner.answer = "none"
      BY DEF DestInit
<1>7. ClaimsInv
      BY <1>1, <1>2, <1>5, <1>6, Zenon DEF ClaimsInv, HeldPending, HeldOnce, ScannerHolds, CoversHold, AnswersKept,
         TwiceLost, SendersMay, SentKept, Holding
<1> QED BY <1>3, <1>4, <1>7 DEF DestInv

\* The claims are kept as ClaimsInv says, in every behaviour: nobody but the
\* holder of a claim marks its delivery, and what was sent is remembered.
THEOREM ClaimsAreKept == DestSpec => [](DestInv /\ ClaimsInv)
<1>1. DestInit => DestInv /\ ClaimsInv
      BY DestStarts
<1>2. DestInv /\ ClaimsInv /\ [DestNext]_destAll => DestInv' /\ ClaimsInv'
      BY DestKeeps
<1> QED BY <1>1, <1>2, PTL DEF DestSpec

\* A webhook version that was answered ok is sent once, and not as well by a
\* worker of before the migration, unless a claim on it was lost (SentOnce).
THEOREM EachVersionSentOnce == DestSpec => []SentOnce
<1>1. DestInv /\ ClaimsInv => SentOnce
      <2> SUFFICES ASSUME DestInv, ClaimsInv PROVE SentOnce
          OBVIOUS
      <2>1. history.twice \subseteq history.lost
            BY DEF ClaimsInv, TwiceLost, IsLost
      <2>2. ASSUME NEW a \in history.ok, NEW v \in history.ok, a[2] = 0, v[2] # 0, a[1] = v[1], a[3] = v[3],
                   handoff.open \/ v[2] <= handoff.until, ~IsLost(a)
            PROVE  FALSE
            <3>1. a \in AnyKeys /\ v \in AnyKeys /\ handoff.until \in Nat
                  BY DEF DestInv, DestTypes
            <3>2. a = ActivityOf(v) /\ v[2] \in Nat
                  BY <2>2, <3>1 DEF AnyKeys, ActivityOf
            <3>3. ScannerKept(v)
                  BY <2>2 DEF ClaimsInv, SentKept
            <3>4. handoff.open /\ (Status(a) = "covered" \/ Closing(a))
                  BY <2>2, <3>1, <3>2, <3>3 DEF ScannerKept
            <3>5. AnswerKept(a)
                  BY <2>2 DEF ClaimsInv, AnswersKept
            <3>6. Status(a) # "delivered"
                  BY <3>4 DEF Closing
            <3>7. scanner.key = a /\ scanner.answer = "delivered"
                  BY <2>2, <3>5, <3>6 DEF AnswerKept
            <3> QED BY <2>2, <3>4, <3>7 DEF Closing, ClaimsInv, ScannerHolds
      <2> QED BY <2>1, <2>2 DEF SentOnce, IsLost
<1> QED BY <1>1, ClaimsAreKept, PTL

\* What a run stores is not before what is stored.
LEMMA RecordedForward ==
    ASSUME NEW pos \in Moments, NEW from \in Moments, NEW to \in Moments, ~Before(to, from)
    PROVE  ~Before(Recorded(pos, from, to), pos)
BY BeforeOrders DEF Recorded

LEMMA StepsForward ==
    ASSUME DestInv, [DestNext]_destAll
    PROVE  ~Before(rule'.pos, rule.pos) /\ ~Before(rule'.spos, rule.spos)
<1>1. rule.pos \in Moments /\ rule.spos \in Moments
      BY DEF DestInv, DestTypes
<1>2. ASSUME NEW w \in Workers, RecordRun(w)
      PROVE  ~Before(rule'.pos, rule.pos) /\ ~Before(rule'.spos, rule.spos)
      <2>1. PICK r : r = run[w]
            OBVIOUS
      <2>2. r \in AnyRun /\ Ordered(r)
            BY <2>1 DEF DestInv, RunInv, GoodRun
      <2>3. /\ r.from \in Moments /\ r.at \in Moments /\ r.sfrom \in Moments /\ r.sat \in Moments
            /\ ~Before(r.at, r.from) /\ ~Before(r.sat, r.sfrom)
            BY <2>2 DEF AnyRun, Ordered
      <2>4. rule'.pos = Recorded(rule.pos, r.from, r.at) /\ rule'.spos = Recorded(rule.spos, r.sfrom, r.sat)
            BY <1>2, <2>1 DEF RecordRun
      <2> QED BY <1>1, <2>3, <2>4, RecordedForward
<1>3. ASSUME rule'.pos = rule.pos, rule'.spos = rule.spos
      PROVE  ~Before(rule'.pos, rule.pos) /\ ~Before(rule'.spos, rule.spos)
      BY <1>1, <1>3, BeforeOrders
<1>4. (\E w \in Workers : RecordRun(w)) \/ (rule'.pos = rule.pos /\ rule'.spos = rule.spos)
      <2>1. CASE FeedNext /\ UNCHANGED destVars
            BY <2>1 DEF destVars
      <2>2. ASSUME NEW w \in Workers, Advance(w) \/ UploadFails(w) \/ RunThrows(w) \/ WorkerDies(w), ~RecordRun(w)
            PROVE  rule'.pos = rule.pos /\ rule'.spos = rule.spos
            <3>1. CASE ClaimRule(w)
                  BY <3>1 DEF ClaimRule, DestInv, DestTypes
            <3>2. CASE \/ BeginDelivery(w) \/ ScannerStatus(w) \/ ClaimVersion(w) \/ VersionStatus(w)
                       \/ (\E ok \in BOOLEAN : Post(w, ok))
                       \/ MarkDelivered(w) \/ MarkCovered(w) \/ MarkFailed(w) \/ Release(w)
                  <4>1. WebhookOnly
                        BY <3>2, Zenon DEF BeginDelivery, Claim, ScannerStatus, ClaimVersion, VersionStatus, Post,
                                    MarkDelivered, MarkCovered, MarkFailed, Release, Mark, ReadOnly
                  <4> QED BY <4>1 DEF WebhookOnly
            <3>3. CASE \/ ReadPage(w) \/ (\E what \in {"summaries", "pending"} : LookUp(w, what))
                       \/ WalkEntry(w) \/ LookAgain(w) \/ PassEntry(w) \/ LoadObservations(w)
                       \/ (\E table \in {"traces", "observations", "scores"} : LoadRows(w, table))
                       \/ StageEntry(w) \/ ListScores(w) \/ MatchScores(w) \/ StageScores(w)
                  <4>1. RunOnly
                        BY <3>3, Zenon DEF ReadPage, LookUp, WalkEntry, LookAgain, PassEntry, LoadObservations,
                                    LoadRows, StageEntry, ListScores, MatchScores, StageScores
                  <4> QED BY <4>1 DEF RunOnly
            <3>4. CASE Upload(w) \/ UploadFails(w) \/ ForwardEntry(w) \/ RunThrows(w) \/ WorkerDies(w)
                  BY <3>4 DEF Upload, UploadFails, ForwardEntry, RunThrows, WorkerDies, ExportOnly
            <3> QED BY <2>2, <3>1, <3>2, <3>3, <3>4 DEF Advance
      <2>3. CASE ComesDue
            BY <2>3 DEF ComesDue, DestInv, DestTypes
      <2>4. CASE ScannerNext \/ HandoffEnds \/ \E key \in DOMAIN deliveries : GoesStale(key)
            BY <2>4 DEF ScannerNext, ScannerClaims, ScannerPosts, ScannerMarks, ScannerDies, ScannerOnly,
                        HandoffEnds, GoesStale, WebhookOnly
      <2>5. CASE \E t \in Traces : WriteScores(t) \/ PublishScores(t)
            BY <2>5 DEF WriteScores, PublishScores, ScoresOnly
      <2>6. CASE UNCHANGED destAll
            BY <2>6 DEF destAll, destVars
      <2> QED BY <2>1, <2>2, <2>3, <2>4, <2>5, <2>6 DEF DestNext
<1> QED BY <1>2, <1>3, <1>4

\* However runs overlap, fail and die, what they store never moves the
\* positions of a rule back (PositionForward).
THEOREM PositionsMoveForward == DestSpec => PositionForward
<1>1. DestInv /\ [DestNext]_destAll => [~Before(rule'.pos, rule.pos) /\ ~Before(rule'.spos, rule.spos)]_destAll
      BY StepsForward
<1> QED BY <1>1, ClaimsAreKept, PTL DEF DestSpec, PositionForward

-----------------------------------------------------------------------------
\* What is passed is sent: the feed and what is known of it.

\* What a step may do to the feed and to the scores, for whoever holds an
\* older position: a row is moved beyond it, and only a row that stays is at rest.
Moves ==
    /\ published <= published'
    /\ \A t \in Traces :
          /\ feedRow'[t] = feedRow[t] \/ feedRow'[t].ver = 0 \/ feedRow'[t].ver > published
          /\ writing'[t] = "none" /\ feedRow'[t].ver # 0 /\ feedRow'[t].ver <= published =>
                /\ writing[t] = "none" /\ feedRow'[t] = feedRow[t]
                /\ stored'[t].rev = stored[t].rev
                /\ stored'[t].src \in {0, stored[t].src}
          /\ scores[t].rev <= scores'[t].rev
          /\ ~scores'[t].writing /\ scores'[t].ver <= published => scores'[t] = scores[t]
          /\ scores'[t].ver = scores[t].ver \/ scores'[t].ver > published

FeedOk ==
    /\ writing \in [Traces -> {"none", "removed", "written"}]
    /\ dest \in [Traces -> [ver : Nat, rev : Nat, score : Nat]]
    /\ \A t \in Traces :
          /\ feedRow[t].ver <= published
          /\ feedRow[t].ver = 0 => feedRow[t] = NoRow
          /\ feedRow[t].ver # 0 => feedRow[t].src # 0
          /\ stored[t].src <= stored[t].rev /\ feedRow[t].src <= stored[t].rev
          /\ stored[t].src # 0 => feedRow[t].src <= stored[t].src
          /\ writing[t] = "written" => stored[t].src # 0
          /\ scores[t].ver <= published
          /\ scores[t].ver = 0 /\ ~scores[t].writing => scores[t].rev = 0

Given(pos) == pos[1] <= published
\* An entry is a row of the feed, or of an earlier feed.
GivenRow(t, ver) == ver <= published /\ (feedRow[t].ver # 0 => ver <= feedRow[t].ver)
Issued(e) == GivenRow(e.trace, e.ver) /\ (feedRow[e.trace].ver = e.ver => feedRow[e.trace].src = e.src)
Current(t, ver) == feedRow[t].ver = ver /\ writing[t] = "none"
Gone(e) == Current(e.trace, e.ver) => stored[e.trace].src = 0
Whole(t, ver, rev) == Current(t, ver) => stored[t].rev = rev
ScoreSettled(t, pos) == ~scores[t].writing /\ (scores[t].ver = 0 \/ ~Before(pos, ScorePlace(t)))
FineScore(t, pos, score) == score <= scores[t].rev /\ (ScoreSettled(t, pos) => score = scores[t].rev)
GoneTo(t, at) == feedRow[t].ver # 0 /\ ~Before(at, At(t)) /\ writing[t] = "none" => stored[t].src = 0

\* Nothing between a run and its entries is missing from them.
Listing(r, t) == \E i \in 1 .. Len(r.entries) : FeedPlace(r.entries[i]) = At(t)
Paging(r, t) == \E e \in r.page : FeedPlace(e) = At(t)
EntriesFull(r) ==
    \A t \in Traces : \A i \in 1 .. Len(r.entries) :
       feedRow[t].ver # 0 /\ Before(r.at, At(t)) /\ ~Before(FeedPlace(r.entries[i]), At(t)) => Listing(r, t)
PageFull(r) ==
    \A t \in Traces : \A e \in r.page :
       feedRow[t].ver # 0 /\ Before(r.at, At(t)) /\ ~Before(FeedPlace(e), At(t)) => Listing(r, t) \/ Paging(r, t)

Walking == {"walk", "pending again", "trace again", "pending last"}
Known(r) ==
    /\ Given(r.from) /\ Given(r.at) /\ Given(r.sfrom) /\ Given(r.sat)
    /\ \A e \in r.page : Issued(e)
    /\ \A i \in 1 .. Len(r.entries) : Issued(r.entries[i])
    /\ \A i \in 1 .. Len(r.entries) : ~r.entries[i].shown => Gone(r.entries[i])
Looked(r) ==
    /\ r.pc = "look" => r.got \in {{}, {"summaries"}, {"pending"}}
    /\ r.pc \in Walking => r.got = {}
    /\ r.pc \in Walking \/ (r.pc = "look" /\ "summaries" \in r.got) =>
          \A e \in r.page : r.seen[e.trace] < e.src => Gone(e)
Loaded(r) ==
    /\ r.pc \in {"load", "forward", "stage"} => r.page = {}
    /\ r.pc = "load" => r.got \subseteq {"traces", "observations", "scores"} /\ r.got # {"traces", "observations", "scores"}
    /\ r.pc \in {"forward", "stage"} \/ (r.pc = "load" /\ "observations" \in r.got) =>
          \A i \in 1 .. Len(r.entries) : Whole(r.entries[i].trace, r.entries[i].ver, r.tree[r.entries[i].trace])
    /\ r.pc = "stage" \/ (r.pc = "load" /\ "scores" \in r.got) =>
          \A i \in 1 .. Len(r.entries) : FineScore(r.entries[i].trace, r.sfrom, r.score[r.entries[i].trace])

\* What an export has staged.
StagedFine(r) ==
    \A i \in 1 .. Len(r.staged) :
       LET s == r.staged[i] IN
       /\ GivenRow(s.trace, s.ver) /\ Whole(s.trace, s.ver, s.rev) /\ FineScore(s.trace, r.sfrom, s.score)
       /\ ~Before(r.at, FeedPlace(s))
StagedOrdered(r) ==
    \A i, j \in 1 .. Len(r.staged) : i < j => Before(FeedPlace(r.staged[i]), FeedPlace(r.staged[j]))
IsStaged(r, t) == \E i \in 1 .. Len(r.staged) : r.staged[i].trace = t /\ r.staged[i].ver = feedRow[t].ver
StagedFull(r) ==
    \A t \in Matching : AtRest(t) /\ Before(r.from, At(t)) /\ ~Before(r.at, At(t)) => IsStaged(r, t)

\* Its score pass.
Rescoring == {"upload", "record"}
NewScore(r, t) == scores[t].ver # 0 /\ Before(r.sfrom, ScorePlace(t))
ScoresListed(r) ==
    /\ r.pc \notin {"rescore", "upload", "record"} => r.sat = r.sfrom
    /\ r.pc = "stored" => \A t \in Traces :
          NewScore(r, t) => ScorePlace(t) \in r.changed \/ \A p \in r.changed : Before(p, ScorePlace(t))
    /\ r.pc \in {"stored", "rescore"} => \A p \in r.changed : Given(p) /\ scores[p[2]].ver # 0
    /\ r.pc = "rescore" => \A t \in Matching :
          NewScore(r, t) /\ ~Before(r.sat, ScorePlace(t)) => ScorePlace(t) \in r.changed \/ GoneTo(t, r.at)
    /\ r.pc \in Rescoring => \A t \in Matching :
          NewScore(r, t) /\ ~Before(r.sat, ScorePlace(t)) => (\E s \in r.rescored : s.trace = t) \/ GoneTo(t, r.at)
    /\ r.pc \in Rescoring => \A s \in r.rescored : FineScore(s.trace, r.sat, s.score)
    /\ r.pc \notin Rescoring => r.rescored = {}

RunKnows(r) ==
    /\ Known(r) /\ EntriesFull(r) /\ PageFull(r) /\ Looked(r) /\ Loaded(r)
    /\ kind = "export" => StagedFine(r) /\ StagedOrdered(r) /\ StagedFull(r) /\ ScoresListed(r)

\* What a position has passed.
SentTo(pos) == \A t \in Matching : AtRest(t) /\ ~Before(pos, At(t)) => Has(t)
ScoresTo(pos, spos) ==
    \A t \in Matching : AtRest(t) /\ ~Before(pos, At(t)) /\ ScoreSettled(t, spos) => dest[t].score = scores[t].rev
RunSent(r) ==
    /\ r.pc # "idle" => SentTo(r.from)
    /\ r.pc # "idle" /\ (kind # "export" \/ r.pc = "record") => SentTo(r.at)
    /\ kind = "export" /\ r.pc = "record" /\ ~history.overlap => ScoresTo(r.at, r.sat)
    /\ r.pc \in {"mark", "cover"} => VersionKey(Head(r.entries)) \in history.ok

RowsFine ==
    kind = "export" => \A t \in Traces :
       /\ GivenRow(t, dest[t].ver) /\ dest[t].score <= scores[t].rev
       /\ dest[t].ver # 0 => Whole(t, dest[t].ver, dest[t].rev)
AnswersFine ==
    /\ \A k \in DOMAIN deliveries :
          /\ Status(k) = "delivered" => k \in history.ok
          /\ Status(k) = "covered" => k[2] = 0
    /\ scanner.answer = "delivered" => scanner.key \in history.ok
DestFine == RowsFine /\ AnswersFine
RuleFine ==
    /\ Given(rule.pos) /\ Given(rule.spos)
    /\ SentTo(rule.pos)
    /\ kind = "export" /\ ~history.overlap => ScoresTo(rule.pos, rule.spos)
Alone ==
    ~history.overlap =>
       /\ \A v, w \in Workers : v # w => run[v].pc = "idle" \/ run[w].pc = "idle"
       /\ \A w \in Workers : run[w].pc # "idle" =>
             rule.pos = run[w].from /\ (kind = "export" => rule.spos = run[w].sfrom)
\* The steps are those of the kind of rule.
Fits(r) ==
    /\ r.pc \in InDelivery \cup {"send"} => Webhook
    /\ r.pc = "forward" => kind = "otlp"
    /\ r.pc \in {"stage", "scores", "stored", "rescore", "upload"} => kind = "export"
SentInv ==
    /\ pageSize \in PageSizes
    /\ FeedOk /\ DestFine /\ RuleFine /\ Alone
    /\ \A w \in Workers : RunKnows(run[w]) /\ RunSent(run[w]) /\ Fits(run[w])

Stable == DestTypes /\ DestTypes' /\ FeedOk /\ FeedOk' /\ Moves /\ kind' = kind

LEMMA GivenStays ==
    ASSUME Stable, NEW pos \in Moments, Given(pos)
    PROVE  Given(pos)'
BY DEF Stable, DestTypes, FeedTypes, Moves, Moments, Given

LEMMA RowStays ==
    ASSUME Stable, NEW t \in Traces, NEW ver \in Nat, ver # 0, ver <= published
    PROVE  /\ feedRow'[t].ver = ver => feedRow'[t] = feedRow[t]
           /\ Current(t, ver)' => Current(t, ver) /\ stored'[t].rev = stored[t].rev
                                  /\ stored'[t].src \in {0, stored[t].src}
           /\ feedRow'[t].ver # 0 => feedRow'[t] = feedRow[t] \/ ver < feedRow'[t].ver
<1>1. /\ feedRow'[t] = feedRow[t] \/ feedRow'[t].ver = 0 \/ feedRow'[t].ver > published
      /\ writing'[t] = "none" /\ feedRow'[t].ver # 0 /\ feedRow'[t].ver <= published =>
            /\ writing[t] = "none" /\ feedRow'[t] = feedRow[t]
            /\ stored'[t].rev = stored[t].rev
            /\ stored'[t].src \in {0, stored[t].src}
      BY DEF Stable, Moves
<1>2. feedRow'[t].ver \in Nat /\ feedRow[t].ver \in Nat /\ published \in Nat
      BY DEF Stable, DestTypes, FeedTypes
<1> QED BY <1>1, <1>2 DEF Current

LEMMA GivenRowStays ==
    ASSUME Stable, NEW t \in Traces, NEW ver \in Nat, GivenRow(t, ver)
    PROVE  GivenRow(t, ver)'
<1>1. feedRow'[t] = feedRow[t] \/ feedRow'[t].ver = 0 \/ feedRow'[t].ver > published
      BY DEF Stable, Moves
<1>2. feedRow'[t].ver \in Nat /\ published \in Nat /\ published' \in Nat /\ published <= published'
      BY DEF Stable, DestTypes, FeedTypes, Moves
<1> QED BY <1>1, <1>2 DEF GivenRow

LEMMA IssuedStays ==
    ASSUME Stable, NEW e, e.trace \in Traces, e.ver \in Nat \ {0}, Issued(e)
    PROVE  Issued(e)' /\ (Gone(e) => Gone(e)')
<1>1. PICK t, ver : t = e.trace /\ ver = e.ver
      OBVIOUS
<1>2. t \in Traces /\ ver \in Nat /\ ver # 0 /\ ver <= published /\ GivenRow(t, ver)
      BY <1>1 DEF Issued, GivenRow
<1>3. /\ feedRow'[t].ver = ver => feedRow'[t] = feedRow[t]
      /\ Current(t, ver)' => Current(t, ver) /\ stored'[t].src \in {0, stored[t].src}
      BY <1>2, RowStays
<1>4. GivenRow(t, ver)'
      BY <1>2, GivenRowStays
<1> QED BY <1>1, <1>3, <1>4 DEF Issued, Gone

LEMMA WholeStays ==
    ASSUME Stable, NEW t \in Traces, NEW ver \in Nat \ {0}, ver <= published, NEW rev, Whole(t, ver, rev)
    PROVE  Whole(t, ver, rev)'
<1>1. Current(t, ver)' => Current(t, ver) /\ stored'[t].rev = stored[t].rev
      BY RowStays
<1> QED BY <1>1 DEF Whole

LEMMA SettledStays ==
    ASSUME Stable, NEW t \in Traces, NEW pos \in Moments, Given(pos), ScoreSettled(t, pos)'
    PROVE  ScoreSettled(t, pos) /\ scores'[t] = scores[t]
<1>1. /\ ~scores'[t].writing /\ scores'[t].ver <= published => scores'[t] = scores[t]
      /\ scores'[t].ver \in Nat /\ published \in Nat /\ pos[1] \in Nat
      BY DEF Stable, Moves, DestTypes, FeedTypes, Moments
<1>2. scores'[t].ver <= published /\ ~scores'[t].writing
      BY <1>1 DEF ScoreSettled, ScorePlace, Before, Given
<1> QED BY <1>1, <1>2 DEF ScoreSettled, ScorePlace

LEMMA FineStays ==
    ASSUME Stable, NEW t \in Traces, NEW pos \in Moments, Given(pos), NEW score \in Nat, FineScore(t, pos, score)
    PROVE  FineScore(t, pos, score)'
<1>1. scores[t].rev <= scores'[t].rev /\ scores[t].rev \in Nat /\ scores'[t].rev \in Nat
      BY DEF Stable, Moves, DestTypes
<1>2. ScoreSettled(t, pos)' => ScoreSettled(t, pos) /\ scores'[t] = scores[t]
      BY SettledStays
<1> QED BY <1>1, <1>2 DEF FineScore

\* What a position has passed only ever stays, or is gone.
LEMMA PassedStays ==
    ASSUME Stable, NEW t \in Traces, NEW pos \in Moments, Given(pos),
           feedRow'[t].ver # 0, ~Before(pos, At(t)')
    PROVE  /\ feedRow'[t] = feedRow[t] /\ ~Before(pos, At(t))
           /\ AtRest(t)' => AtRest(t) /\ stored'[t].rev = stored[t].rev
           /\ writing'[t] = "none" => writing[t] = "none" /\ stored'[t].src \in {0, stored[t].src}
<1>1. /\ feedRow'[t] = feedRow[t] \/ feedRow'[t].ver = 0 \/ feedRow'[t].ver > published
      /\ writing'[t] = "none" /\ feedRow'[t].ver # 0 /\ feedRow'[t].ver <= published =>
            /\ writing[t] = "none" /\ feedRow'[t] = feedRow[t]
            /\ stored'[t].rev = stored[t].rev
            /\ stored'[t].src \in {0, stored[t].src}
      BY DEF Stable, Moves
<1>2. /\ feedRow'[t].ver \in Nat /\ published \in Nat /\ pos[1] \in Nat
      /\ feedRow'[t].ver # 0 => feedRow'[t].src # 0
      BY DEF Stable, DestTypes, FeedTypes, Moments, FeedOk
<1>3. feedRow'[t].ver <= published
      BY <1>2 DEF Before, At, Given
<1>4. feedRow'[t] = feedRow[t]
      BY <1>1, <1>2, <1>3
<1>5. writing'[t] = "none" => writing[t] = "none" /\ stored'[t].rev = stored[t].rev /\ stored'[t].src \in {0, stored[t].src}
      BY <1>1, <1>3
<1>6. AtRest(t)' => AtRest(t) /\ stored'[t].rev = stored[t].rev
      BY <1>2, <1>4, <1>5 DEF AtRest, NoRow
<1> QED BY <1>4, <1>5, <1>6 DEF At

LEMMA GoneToStays ==
    ASSUME Stable, NEW t \in Traces, NEW at \in Moments, Given(at), GoneTo(t, at)
    PROVE  GoneTo(t, at)'
<1> SUFFICES ASSUME feedRow'[t].ver # 0, ~Before(at, At(t)'), writing'[t] = "none"
             PROVE  stored'[t].src = 0
    BY DEF GoneTo
<1>1. feedRow'[t] = feedRow[t] /\ ~Before(at, At(t)) /\ writing[t] = "none" /\ stored'[t].src \in {0, stored[t].src}
      BY PassedStays
<1> QED BY <1>1 DEF GoneTo

-----------------------------------------------------------------------------
\* What a run knows stays true while it stands still.

LEMMA RunParts ==
    ASSUME NEW r \in AnyRun
    PROVE  /\ r.from \in Moments /\ r.at \in Moments /\ r.sfrom \in Moments /\ r.sat \in Moments
           /\ \A e \in r.page : e \in FeedRows /\ e.trace \in Traces /\ e.ver \in Nat \ {0} /\ e.ver \in Nat
           /\ \A i \in 1 .. Len(r.entries) : /\ r.entries[i] \in Entries /\ r.entries[i].trace \in Traces
                                             /\ r.entries[i].ver \in Nat \ {0} /\ r.entries[i].ver \in Nat
           /\ \A i \in 1 .. Len(r.staged) : /\ r.staged[i] \in StagedRows /\ r.staged[i].trace \in Traces
                                            /\ r.staged[i].ver \in Nat \ {0} /\ r.staged[i].ver \in Nat
                                            /\ r.staged[i].score \in Nat /\ r.staged[i].rev \in Nat
           /\ \A t \in Traces : r.seen[t] \in Nat /\ r.tree[t] \in Nat /\ r.score[t] \in Nat
           /\ \A p \in r.changed : p[1] \in Nat /\ p[2] \in Traces /\ p \in Moments /\ p = <<p[1], p[2]>>
           /\ \A s \in r.rescored : s.trace \in Traces /\ s.score \in Nat
<1>1. r.from \in Moments /\ r.at \in Moments /\ r.sfrom \in Moments /\ r.sat \in Moments
      BY DEF AnyRun
<1>2. r.page \in SUBSET FeedRows /\ r.entries \in Seq(Entries) /\ r.staged \in Seq(StagedRows)
      BY DEF AnyRun
<1>3. r.seen \in PerTrace /\ r.tree \in PerTrace /\ r.score \in PerTrace
      BY DEF AnyRun
<1>4. r.changed \in SUBSET (Nat \X Traces) /\ r.rescored \in SUBSET [trace : Traces, score : Nat]
      BY DEF AnyRun
<1>5. \A i \in 1 .. Len(r.entries) : r.entries[i] \in Entries
      BY <1>2
<1>6. \A i \in 1 .. Len(r.staged) : r.staged[i] \in StagedRows
      BY <1>2
<1>7. \A p \in r.changed : p[1] \in Nat /\ p[2] \in Traces /\ p \in Moments /\ p = <<p[1], p[2]>>
      BY <1>4, SettledFeedAssumption DEF Moments
<1> QED BY <1>1, <1>2, <1>3, <1>4, <1>5, <1>6, <1>7 DEF FeedRows, Entries, StagedRows, PerTrace

LEMMA KnownStays ==
    ASSUME Stable, NEW r \in AnyRun, Known(r)
    PROVE  Known(r)'
<1>1. Given(r.from)' /\ Given(r.at)' /\ Given(r.sfrom)' /\ Given(r.sat)'
      BY GivenStays, RunParts DEF Known
<1>2. \A e \in r.page : Issued(e)'
      BY IssuedStays, RunParts DEF Known
<1>3. \A i \in 1 .. Len(r.entries) : Issued(r.entries[i])' /\ (Gone(r.entries[i]) => Gone(r.entries[i])')
      BY IssuedStays, RunParts DEF Known
<1> QED BY <1>1, <1>2, <1>3 DEF Known

\* Whatever appears in the feed appears behind what was given before.
LEMMA NotBetween ==
    ASSUME Stable, NEW t \in Traces, NEW ver \in Nat, NEW trace, ver <= published,
           feedRow'[t].ver # 0, ~Before(<<ver, trace>>, At(t)')
    PROVE  feedRow'[t] = feedRow[t] /\ At(t)' = At(t)
<1>1. feedRow'[t] = feedRow[t] \/ feedRow'[t].ver = 0 \/ feedRow'[t].ver > published
      BY DEF Stable, Moves
<1>2. feedRow'[t].ver \in Nat /\ published \in Nat
      BY DEF Stable, DestTypes, FeedTypes
<1>3. feedRow'[t].ver <= published
      BY <1>2 DEF Before, At
<1> QED BY <1>1, <1>2, <1>3 DEF At

LEMMA FullStays ==
    ASSUME Stable, NEW r \in AnyRun, Known(r), EntriesFull(r), PageFull(r)
    PROVE  EntriesFull(r)' /\ PageFull(r)'
<1>1. ASSUME NEW t \in Traces, NEW i \in 1 .. Len(r.entries), feedRow'[t].ver # 0, Before(r.at, At(t)'),
             ~Before(FeedPlace(r.entries[i]), At(t)')
      PROVE  Listing(r, t)'
      <2>1. r.entries[i].ver \in Nat /\ r.entries[i].ver <= published
            BY RunParts DEF Known, Issued, GivenRow
      <2>2. feedRow'[t] = feedRow[t] /\ At(t)' = At(t)
            BY <1>1, <2>1, NotBetween DEF FeedPlace
      <2> QED BY <1>1, <2>2 DEF EntriesFull, Listing
<1>2. ASSUME NEW t \in Traces, NEW e \in r.page, feedRow'[t].ver # 0, Before(r.at, At(t)'),
             ~Before(FeedPlace(e), At(t)')
      PROVE  Listing(r, t)' \/ Paging(r, t)'
      <2>1. e.ver \in Nat /\ e.ver <= published
            BY RunParts DEF Known, Issued, GivenRow
      <2>2. feedRow'[t] = feedRow[t] /\ At(t)' = At(t)
            BY <1>2, <2>1, NotBetween DEF FeedPlace
      <2> QED BY <1>2, <2>2 DEF PageFull, Listing, Paging
<1> QED BY <1>1, <1>2 DEF EntriesFull, PageFull

LEMMA LookedStays ==
    ASSUME Stable, NEW r \in AnyRun, Known(r), Looked(r)
    PROVE  Looked(r)'
<1>1. \A e \in r.page : Gone(e) => Gone(e)'
      BY IssuedStays, RunParts DEF Known
<1> QED BY <1>1 DEF Looked

LEMMA LoadedStays ==
    ASSUME Stable, NEW r \in AnyRun, Known(r), Loaded(r)
    PROVE  Loaded(r)'
<1>1. ASSUME NEW i \in 1 .. Len(r.entries), NEW t, NEW ver, t = r.entries[i].trace, ver = r.entries[i].ver
      PROVE  /\ Whole(t, ver, r.tree[t]) => Whole(t, ver, r.tree[t])'
             /\ FineScore(t, r.sfrom, r.score[t]) => FineScore(t, r.sfrom, r.score[t])'
      <2>1. t \in Traces /\ ver \in Nat \ {0} /\ ver <= published
            BY <1>1, RunParts DEF Known, Issued, GivenRow
      <2>2. r.score[t] \in Nat /\ r.sfrom \in Moments /\ Given(r.sfrom)
            BY <2>1, RunParts DEF Known
      <2> QED BY <2>1, <2>2, WholeStays, FineStays
<1> QED BY <1>1 DEF Loaded

LEMMA StagedStays ==
    ASSUME Stable, NEW r \in AnyRun, Known(r), StagedFine(r), StagedOrdered(r), StagedFull(r)
    PROVE  StagedFine(r)' /\ StagedOrdered(r)' /\ StagedFull(r)'
<1>1. ASSUME NEW i \in 1 .. Len(r.staged), NEW s, s = r.staged[i]
      PROVE  GivenRow(s.trace, s.ver)' /\ Whole(s.trace, s.ver, s.rev)' /\ FineScore(s.trace, r.sfrom, s.score)'
      <2>1. s.trace \in Traces /\ s.ver \in Nat \ {0} /\ s.ver \in Nat /\ s.score \in Nat
            BY <1>1, RunParts
      <2>2. GivenRow(s.trace, s.ver) /\ Whole(s.trace, s.ver, s.rev) /\ FineScore(s.trace, r.sfrom, s.score)
            BY <1>1 DEF StagedFine
      <2>3. s.ver <= published /\ r.sfrom \in Moments /\ Given(r.sfrom)
            BY <2>2, RunParts DEF GivenRow, Known
      <2> QED BY <2>1, <2>2, <2>3, GivenRowStays, WholeStays, FineStays
<1>2. StagedFine(r)'
      BY <1>1 DEF StagedFine
<1>3. StagedFull(r)'
      <2>1. ASSUME NEW t \in Matching, AtRest(t)', Before(r.from, At(t)'), ~Before(r.at, At(t)')
            PROVE  IsStaged(r, t)'
            <3>1. t \in Traces /\ r.at \in Moments /\ Given(r.at)
                  BY RunParts, DestinationAssumption DEF Known
            <3>2. feedRow'[t].ver # 0
                  <4>1. feedRow'[t] # NoRow /\ (feedRow'[t].ver = 0 => feedRow'[t] = NoRow)
                        BY <2>1, <3>1 DEF AtRest, Stable, FeedOk
                  <4> QED BY <4>1
            <3>3. feedRow'[t] = feedRow[t] /\ AtRest(t) /\ ~Before(r.at, At(t))
                  BY <2>1, <3>1, <3>2, PassedStays
            <3>4. IsStaged(r, t)
                  BY <2>1, <3>3 DEF StagedFull, At
            <3> QED BY <3>3, <3>4 DEF IsStaged
      <2> QED BY <2>1 DEF StagedFull
<1> QED BY <1>2, <1>3 DEF StagedOrdered

LEMMA ScoresListedStays ==
    ASSUME Stable, NEW r \in AnyRun, Known(r), ScoresListed(r)
    PROVE  ScoresListed(r)'
<1>1. r.at \in Moments /\ r.sat \in Moments /\ Given(r.at) /\ Given(r.sat) /\ r.sat[1] \in Nat
      BY RunParts DEF Known, Moments
<1>2. ASSUME NEW t \in Traces
      PROVE  /\ scores'[t].ver \in Nat /\ scores[t].ver \in Nat /\ published \in Nat
             /\ scores'[t].ver = scores[t].ver \/ scores'[t].ver > published
             /\ GoneTo(t, r.at) => GoneTo(t, r.at)'
      BY <1>1, GoneToStays DEF Stable, DestTypes, FeedTypes, Moves
<1>3. ASSUME r.pc = "stored", NEW t \in Traces, NewScore(r, t)'
      PROVE  ScorePlace(t)' \in r.changed \/ \A p \in r.changed : Before(p, ScorePlace(t)')
      <2>1. CASE scores'[t].ver = scores[t].ver
            BY <1>3, <2>1 DEF ScoresListed, NewScore, ScorePlace
      <2>2. CASE scores'[t].ver > published
            <3>1. ASSUME NEW p \in r.changed PROVE Before(p, ScorePlace(t)')
                  <4>1. p[1] \in Nat /\ p[1] <= published
                        BY <1>3, RunParts DEF ScoresListed, Given
                  <4> QED BY <1>2, <2>2, <4>1 DEF Before, ScorePlace
            <3> QED BY <3>1
      <2> QED BY <1>2, <2>1, <2>2
<1>4. ASSUME r.pc \in {"stored", "rescore"}, NEW p \in r.changed
      PROVE  Given(p)' /\ scores'[p[2]].ver # 0
      <2>1. p \in Moments /\ p[2] \in Traces /\ Given(p) /\ scores[p[2]].ver # 0
            BY <1>4, RunParts DEF ScoresListed
      <2> QED BY <1>2, <2>1, GivenStays
<1>5. ASSUME NEW t \in Traces, NewScore(r, t)', ~Before(r.sat, ScorePlace(t)')
      PROVE  NewScore(r, t) /\ ~Before(r.sat, ScorePlace(t)) /\ ScorePlace(t)' = ScorePlace(t)
      <2>1. scores'[t].ver <= published
            BY <1>1, <1>2, <1>5 DEF Before, ScorePlace, Given
      <2>2. scores'[t].ver = scores[t].ver
            BY <1>2, <2>1
      <2> QED BY <1>5, <2>2 DEF NewScore, ScorePlace
<1>6. r.pc = "rescore" => \A t \in Matching :
          NewScore(r, t)' /\ ~Before(r.sat, ScorePlace(t)') => ScorePlace(t)' \in r.changed \/ GoneTo(t, r.at)'
      BY <1>2, <1>5, DestinationAssumption DEF ScoresListed
<1>7. r.pc \in Rescoring => \A t \in Matching :
          NewScore(r, t)' /\ ~Before(r.sat, ScorePlace(t)') => (\E s \in r.rescored : s.trace = t) \/ GoneTo(t, r.at)'
      BY <1>2, <1>5, DestinationAssumption DEF ScoresListed
<1>8. ASSUME r.pc \in Rescoring, NEW s \in r.rescored PROVE FineScore(s.trace, r.sat, s.score)'
      <2>1. s.trace \in Traces /\ s.score \in Nat /\ FineScore(s.trace, r.sat, s.score)
            BY <1>8, RunParts DEF ScoresListed
      <2> QED BY <1>1, <2>1, FineStays
<1> QED BY <1>3, <1>4, <1>6, <1>7, <1>8 DEF ScoresListed

LEMMA KnowsStays ==
    ASSUME Stable, NEW r \in AnyRun, RunKnows(r)
    PROVE  RunKnows(r)'
<1>1. Known(r) /\ EntriesFull(r) /\ PageFull(r) /\ Looked(r) /\ Loaded(r)
      BY DEF RunKnows
<1>2. Known(r)' /\ EntriesFull(r)' /\ PageFull(r)' /\ Looked(r)' /\ Loaded(r)'
      BY <1>1, KnownStays, FullStays, LookedStays, LoadedStays
<1>3. kind = "export" => StagedFine(r)' /\ StagedOrdered(r)' /\ StagedFull(r)' /\ ScoresListed(r)'
      BY <1>1, StagedStays, ScoresListedStays DEF RunKnows
<1> QED BY <1>2, <1>3 DEF RunKnows, Stable

-----------------------------------------------------------------------------
\* Every step moves the feed on.

\* What the rows and the marks of one trace are.
RowOk(row, kept, mark, last) ==
    /\ row.ver <= last
    /\ row.ver = 0 => row = NoRow
    /\ row.ver # 0 => row.src # 0
    /\ kept.src <= kept.rev /\ row.src <= kept.rev
    /\ kept.src # 0 => row.src <= kept.src
    /\ mark = "written" => kept.src # 0
RowMoves(row, kept, mark, last, row2, kept2, mark2) ==
    /\ row2 = row \/ row2.ver = 0 \/ row2.ver > last
    /\ mark2 = "none" /\ row2.ver # 0 /\ row2.ver <= last =>
          /\ mark = "none" /\ row2 = row
          /\ kept2.rev = kept.rev
          /\ kept2.src \in {0, kept.src}
ScoreOk(s, last) == s.ver <= last /\ (s.ver = 0 /\ ~s.writing => s.rev = 0)
ScoreMoves(s, last, s2) ==
    /\ s.rev <= s2.rev
    /\ ~s2.writing /\ s2.ver <= last => s2 = s
    /\ s2.ver = s.ver \/ s2.ver > last

Marks == {"none", "removed", "written"}

LEMMA OkByTrace ==
    FeedOk <=> /\ writing \in [Traces -> Marks]
               /\ dest \in [Traces -> [ver : Nat, rev : Nat, score : Nat]]
               /\ \A t \in Traces : RowOk(feedRow[t], stored[t], writing[t], published)
               /\ \A t \in Traces : ScoreOk(scores[t], published)
BY DEF FeedOk, RowOk, ScoreOk, Marks

LEMMA MovesByTrace ==
    ASSUME published <= published',
           \A t \in Traces : RowMoves(feedRow[t], stored[t], writing[t], published,
                                      feedRow'[t], stored'[t], writing'[t]),
           \A t \in Traces : ScoreMoves(scores[t], published, scores'[t])
    PROVE  Moves
BY DEF Moves, RowMoves, ScoreMoves

LEMMA RowStands ==
    ASSUME NEW row \in [ver : Nat, src : Nat], NEW kept \in [src : Nat, rev : Nat], NEW mark, NEW last \in Nat,
           NEW next \in Nat, last <= next, RowOk(row, kept, mark, last)
    PROVE  RowOk(row, kept, mark, next) /\ RowMoves(row, kept, mark, last, row, kept, mark)
BY DEF RowOk, RowMoves

LEMMA ScoreStands ==
    ASSUME NEW s \in [rev : Nat, ver : Nat, writing : BOOLEAN], NEW last \in Nat,
           NEW next \in Nat, last <= next, ScoreOk(s, last)
    PROVE  ScoreOk(s, next) /\ ScoreMoves(s, last, s)
BY DEF ScoreOk, ScoreMoves

LEMMA ByTraceTypes ==
    ASSUME DestTypes, NEW t \in Traces
    PROVE  /\ feedRow[t] \in [ver : Nat, src : Nat] /\ stored[t] \in [src : Nat, rev : Nat] /\ published \in Nat
           /\ scores[t] \in [rev : Nat, ver : Nat, writing : BOOLEAN]
BY DEF DestTypes, FeedTypes

\* A step that takes one trace on.
LEMMA OneTraceMoves ==
    ASSUME DestTypes, FeedOk, NEW t \in Traces, published' = published,
           writing' \in [Traces -> Marks], UNCHANGED <<scores, dest>>,
           \A u \in Traces : u # t => feedRow'[u] = feedRow[u] /\ stored'[u] = stored[u] /\ writing'[u] = writing[u],
           RowOk(feedRow'[t], stored'[t], writing'[t], published),
           RowMoves(feedRow[t], stored[t], writing[t], published, feedRow'[t], stored'[t], writing'[t])
    PROVE  Moves /\ FeedOk'
<1>1. published \in Nat /\ published <= published'
      BY DEF DestTypes, FeedTypes
<1>2. ASSUME NEW u \in Traces, u # t
      PROVE  /\ RowOk(feedRow'[u], stored'[u], writing'[u], published')
             /\ RowMoves(feedRow[u], stored[u], writing[u], published, feedRow'[u], stored'[u], writing'[u])
      <2>1. RowOk(feedRow[u], stored[u], writing[u], published)
            BY OkByTrace
      <2>2. /\ RowOk(feedRow[u], stored[u], writing[u], published)
            /\ RowMoves(feedRow[u], stored[u], writing[u], published, feedRow[u], stored[u], writing[u])
            BY <1>1, <2>1, ByTraceTypes, RowStands
      <2> QED BY <1>2, <2>2
<1>3. ASSUME NEW u \in Traces
      PROVE  ScoreOk(scores'[u], published') /\ ScoreMoves(scores[u], published, scores'[u])
      <2>1. ScoreOk(scores[u], published)
            BY OkByTrace
      <2>2. ScoreOk(scores[u], published) /\ ScoreMoves(scores[u], published, scores[u])
            BY <1>1, <2>1, ByTraceTypes, ScoreStands
      <2> QED BY <2>2
<1>4. Moves
      BY <1>1, <1>2, <1>3, MovesByTrace
<1>5. FeedOk'
      <2>1. dest' \in [Traces -> [ver : Nat, rev : Nat, score : Nat]]
            BY OkByTrace
      <2>2. \A u \in Traces : RowOk(feedRow'[u], stored'[u], writing'[u], published')
            BY <1>2
      <2> QED BY <1>3, <2>1, <2>2 DEF FeedOk, RowOk, ScoreOk, Marks
<1> QED BY <1>4, <1>5

LEMMA FeedMoves ==
    ASSUME DestTypes, FeedOk, FeedNext, UNCHANGED <<scores, dest>>
    PROVE  Moves /\ FeedOk'
<1>1. ASSUME NEW t \in Traces, RemoveOld(t) \/ WriteRows(t) \/ ExpireTrace(t) \/ PruneRow(t)
      PROVE  Moves /\ FeedOk'
      <2>1. PICK row, kept, mark : row = feedRow[t] /\ kept = stored[t] /\ mark = writing[t]
            OBVIOUS
      <2>2. row \in [ver : Nat, src : Nat] /\ kept \in [src : Nat, rev : Nat] /\ published \in Nat
            BY <2>1, ByTraceTypes
      <2>3. RowOk(row, kept, mark, published) /\ writing \in [Traces -> Marks]
            BY <2>1, OkByTrace
      <2>4. stored \in [Traces -> [src : Nat, rev : Nat]] /\ feedRow \in [Traces -> [ver : Nat, src : Nat]]
            BY DEF DestTypes, FeedTypes
      <2>5. CASE RemoveOld(t)
            <3>1. /\ writing'[t] = "removed" /\ feedRow'[t] = row /\ stored'[t].src = 0 /\ stored'[t].rev = kept.rev
                  /\ published' = published /\ writing' \in [Traces -> Marks]
                  /\ \A u \in Traces : u # t => feedRow'[u] = feedRow[u] /\ stored'[u] = stored[u] /\ writing'[u] = writing[u]
                  BY <2>1, <2>3, <2>4, <2>5 DEF RemoveOld, Marks
            <3>2. RowOk(feedRow'[t], stored'[t], writing'[t], published)
                  BY <2>2, <2>3, <3>1 DEF RowOk
            <3>3. RowMoves(feedRow[t], stored[t], writing[t], published, feedRow'[t], stored'[t], writing'[t])
                  BY <2>1, <3>1 DEF RowMoves
            <3> QED BY <3>1, <3>2, <3>3, OneTraceMoves
      <2>6. CASE ExpireTrace(t)
            <3>1. /\ writing'[t] = mark /\ mark = "none" /\ feedRow'[t] = row
                  /\ stored'[t].src = 0 /\ stored'[t].rev = kept.rev
                  /\ published' = published /\ writing' \in [Traces -> Marks]
                  /\ \A u \in Traces : u # t => feedRow'[u] = feedRow[u] /\ stored'[u] = stored[u] /\ writing'[u] = writing[u]
                  BY <2>1, <2>3, <2>4, <2>6 DEF ExpireTrace
            <3>2. RowOk(feedRow'[t], stored'[t], writing'[t], published)
                  BY <2>2, <2>3, <3>1 DEF RowOk
            <3>3. RowMoves(feedRow[t], stored[t], writing[t], published, feedRow'[t], stored'[t], writing'[t])
                  BY <2>1, <3>1 DEF RowMoves
            <3> QED BY <3>1, <3>2, <3>3, OneTraceMoves
      <2>7. CASE PruneRow(t)
            <3>1. /\ writing'[t] = mark /\ feedRow'[t] = NoRow /\ stored'[t] = kept
                  /\ published' = published /\ writing' \in [Traces -> Marks]
                  /\ \A u \in Traces : u # t => feedRow'[u] = feedRow[u] /\ stored'[u] = stored[u] /\ writing'[u] = writing[u]
                  BY <2>1, <2>3, <2>4, <2>7 DEF PruneRow
            <3>2. RowOk(feedRow'[t], stored'[t], writing'[t], published)
                  BY <2>2, <2>3, <3>1 DEF RowOk, NoRow
            <3>3. RowMoves(feedRow[t], stored[t], writing[t], published, feedRow'[t], stored'[t], writing'[t])
                  BY <3>1 DEF RowMoves, NoRow
            <3> QED BY <3>1, <3>2, <3>3, OneTraceMoves
      <2>8. CASE WriteRows(t)
            <3>1. PICK src \in {kept.rev + 1} \cup ({kept.src} \ {0}) :
                        stored' = [stored EXCEPT ![t] = [src |-> src, rev |-> @.rev + 1]]
                  BY <2>1, <2>8 DEF WriteRows
            <3>2. PICK new : new = [src |-> src, rev |-> kept.rev + 1]
                  OBVIOUS
            <3>3. /\ writing'[t] = "written" /\ feedRow'[t] = row /\ stored'[t] = new
                  /\ published' = published /\ writing' \in [Traces -> Marks]
                  /\ \A u \in Traces : u # t => feedRow'[u] = feedRow[u] /\ stored'[u] = stored[u] /\ writing'[u] = writing[u]
                  BY <2>1, <2>3, <2>4, <2>8, <3>1, <3>2 DEF WriteRows, Marks
            <3>4. new.src = src /\ new.rev = kept.rev + 1 /\ src # 0 /\ (src = kept.rev + 1 \/ src = kept.src)
                  BY <2>2, <3>1, <3>2
            <3>5. RowOk(row, new, "written", published)
                  BY <2>2, <2>3, <3>4 DEF RowOk
            <3>6. RowMoves(feedRow[t], stored[t], writing[t], published, feedRow'[t], stored'[t], writing'[t])
                  BY <2>1, <3>3 DEF RowMoves
            <3> QED BY <3>3, <3>5, <3>6, OneTraceMoves
      <2> QED BY <1>1, <2>5, <2>6, <2>7, <2>8
<1>2. ASSUME NEW T \in SUBSET Traces, PublishTraces(T)
      PROVE  Moves /\ FeedOk'
      <2>1. PICK n : n = published + 1
            OBVIOUS
      <2>2. published \in Nat /\ n \in Nat /\ published < n /\ published <= n /\ published' = n /\ stored' = stored
            BY <1>2, <2>1 DEF PublishTraces, DestTypes, FeedTypes
      <2>3. \A t \in Traces : /\ t \in T => feedRow'[t] = [ver |-> n, src |-> stored[t].src] /\ writing'[t] = "none"
                                            /\ writing[t] = "written"
                              /\ t \notin T => feedRow'[t] = feedRow[t] /\ writing'[t] = writing[t]
            BY <1>2, <2>2 DEF PublishTraces
      <2>4. writing' \in [Traces -> Marks]
            <3>1. writing \in [Traces -> Marks]
                  BY OkByTrace
            <3> QED BY <1>2, <3>1 DEF PublishTraces, Marks
      <2>5. ASSUME NEW t \in Traces
            PROVE  /\ RowOk(feedRow'[t], stored'[t], writing'[t], n)
                   /\ RowMoves(feedRow[t], stored[t], writing[t], published, feedRow'[t], stored'[t], writing'[t])
                   /\ ScoreOk(scores[t], n) /\ ScoreMoves(scores[t], published, scores[t])
            <3>1. RowOk(feedRow[t], stored[t], writing[t], published) /\ ScoreOk(scores[t], published)
                  BY OkByTrace
            <3>2. /\ feedRow[t] \in [ver : Nat, src : Nat] /\ stored[t] \in [src : Nat, rev : Nat]
                  /\ scores[t] \in [rev : Nat, ver : Nat, writing : BOOLEAN]
                  BY ByTraceTypes
            <3>3. ScoreOk(scores[t], n) /\ ScoreMoves(scores[t], published, scores[t])
                  BY <2>2, <3>1, <3>2, ScoreStands
            <3>4. CASE t \notin T
                  <4>1. /\ RowOk(feedRow[t], stored[t], writing[t], n)
                        /\ RowMoves(feedRow[t], stored[t], writing[t], published, feedRow[t], stored[t], writing[t])
                        BY <2>2, <3>1, <3>2, RowStands
                  <4> QED BY <2>2, <2>3, <3>3, <3>4, <4>1
            <3>5. CASE t \in T
                  <4>1. PICK row : row = [ver |-> n, src |-> stored[t].src]
                        OBVIOUS
                  <4>2. row.ver = n /\ row.src = stored[t].src /\ stored[t].src # 0 /\ stored[t].src <= stored[t].rev
                        BY <2>3, <3>1, <3>5, <4>1 DEF RowOk
                  <4>3. feedRow'[t] = row /\ writing'[t] = "none" /\ stored'[t] = stored[t]
                        BY <2>2, <2>3, <3>5, <4>1
                  <4>4. RowOk(row, stored[t], "none", n)
                        BY <2>2, <3>2, <4>2 DEF RowOk
                  <4>5. RowMoves(feedRow[t], stored[t], writing[t], published, row, stored[t], "none")
                        BY <2>2, <4>2 DEF RowMoves
                  <4> QED BY <3>3, <4>3, <4>4, <4>5
            <3> QED BY <3>4, <3>5
      <2>6. Moves
            BY <2>2, <2>5, MovesByTrace
      <2>7. FeedOk'
            <3>1. dest \in [Traces -> [ver : Nat, rev : Nat, score : Nat]]
                  BY OkByTrace
            <3> QED BY <2>2, <2>4, <2>5, <3>1 DEF FeedOk, RowOk, ScoreOk, Marks
      <2> QED BY <2>6, <2>7
<1> QED BY <1>1, <1>2 DEF FeedNext

\* A step that leaves the feed alone.
LEMMA FeedStands ==
    ASSUME DestTypes, FeedOk, UNCHANGED <<feedVars, scores>>, dest' \in [Traces -> [ver : Nat, rev : Nat, score : Nat]]
    PROVE  Moves /\ FeedOk'
<1>1. published \in Nat /\ published <= published' /\ published' = published
      BY DEF DestTypes, FeedTypes, feedVars
<1>2. ASSUME NEW u \in Traces
      PROVE  /\ RowOk(feedRow[u], stored[u], writing[u], published)
             /\ RowMoves(feedRow[u], stored[u], writing[u], published, feedRow'[u], stored'[u], writing'[u])
             /\ ScoreOk(scores[u], published) /\ ScoreMoves(scores[u], published, scores'[u])
      <2>1. RowOk(feedRow[u], stored[u], writing[u], published) /\ ScoreOk(scores[u], published)
            BY OkByTrace
      <2>2. RowMoves(feedRow[u], stored[u], writing[u], published, feedRow[u], stored[u], writing[u])
            BY <1>1, <2>1, ByTraceTypes, RowStands
      <2>3. ScoreMoves(scores[u], published, scores[u])
            BY <1>1, <2>1, ByTraceTypes, ScoreStands
      <2> QED BY <2>1, <2>2, <2>3 DEF feedVars
<1>3. Moves
      BY <1>1, <1>2, MovesByTrace
<1>4. FeedOk'
      BY DEF FeedOk, feedVars
<1> QED BY <1>3, <1>4

LEMMA ScoresMove ==
    ASSUME DestTypes, FeedOk, NEW t \in Traces, WriteScores(t) \/ PublishScores(t)
    PROVE  Moves /\ FeedOk'
<1>1. PICK old, n, m : old = scores[t] /\ n = published + 1 /\ m = old.rev + 1
      OBVIOUS
<1>2. /\ old \in [rev : Nat, ver : Nat, writing : BOOLEAN] /\ published \in Nat /\ n \in Nat /\ published < n
      /\ published <= n /\ m \in Nat /\ old.rev <= m
      BY <1>1, ByTraceTypes
<1>3. UNCHANGED <<stored, writing, feedRow, dest>>
      BY DEF WriteScores, PublishScores, ScoresOnly
<1>4. /\ published' \in Nat /\ published <= published'
      /\ ScoreOk(scores'[t], published') /\ ScoreMoves(scores[t], published, scores'[t])
      /\ \A u \in Traces : u # t => scores'[u] = scores[u]
      <2>1. ScoreOk(old, published) /\ DOMAIN scores = Traces
            BY <1>1, OkByTrace DEF DestTypes
      <2>2. CASE WriteScores(t)
            <3>1. PICK new : new = [old EXCEPT !.rev = m, !.writing = TRUE]
                  OBVIOUS
            <3>2. scores' = [scores EXCEPT ![t] = new] /\ published' = published
                  BY <1>1, <2>1, <2>2, <3>1 DEF WriteScores
            <3>3. new.rev = m /\ new.writing /\ new.ver = old.ver
                  BY <1>2, <3>1
            <3>4. ScoreOk(new, published) /\ ScoreMoves(old, published, new)
                  BY <1>2, <2>1, <3>3 DEF ScoreOk, ScoreMoves
            <3> QED BY <1>1, <1>2, <2>1, <3>2, <3>4
      <2>3. CASE PublishScores(t)
            <3>1. PICK new : new = [old EXCEPT !.ver = n, !.writing = FALSE]
                  OBVIOUS
            <3>2. scores' = [scores EXCEPT ![t] = new] /\ published' = n
                  BY <1>1, <2>1, <2>3, <3>1 DEF PublishScores
            <3>3. new.rev = old.rev /\ new.ver = n
                  BY <1>2, <3>1
            <3>4. ScoreOk(new, n) /\ ScoreMoves(old, published, new)
                  BY <1>2, <2>1, <3>3 DEF ScoreOk, ScoreMoves
            <3> QED BY <1>1, <1>2, <2>1, <3>2, <3>4
      <2> QED BY <2>2, <2>3
<1>5. ASSUME NEW u \in Traces
      PROVE  /\ RowOk(feedRow[u], stored[u], writing[u], published')
             /\ RowMoves(feedRow[u], stored[u], writing[u], published, feedRow'[u], stored'[u], writing'[u])
             /\ ScoreOk(scores'[u], published') /\ ScoreMoves(scores[u], published, scores'[u])
      <2>1. RowOk(feedRow[u], stored[u], writing[u], published) /\ ScoreOk(scores[u], published)
            BY OkByTrace
      <2>2. /\ RowOk(feedRow[u], stored[u], writing[u], published')
            /\ RowMoves(feedRow[u], stored[u], writing[u], published, feedRow[u], stored[u], writing[u])
            BY <1>2, <1>4, <2>1, ByTraceTypes, RowStands
      <2>3. ScoreOk(scores[u], published') /\ ScoreMoves(scores[u], published, scores[u])
            BY <1>2, <1>4, <2>1, ByTraceTypes, ScoreStands
      <2> QED BY <1>3, <1>4, <2>2, <2>3
<1>6. Moves
      BY <1>4, <1>5, MovesByTrace
<1>7. FeedOk'
      <2>1. dest \in [Traces -> [ver : Nat, rev : Nat, score : Nat]] /\ writing \in [Traces -> Marks]
            BY OkByTrace
      <2> QED BY <1>3, <1>5, <2>1 DEF FeedOk, RowOk, ScoreOk, Marks
<1> QED BY <1>6, <1>7

-----------------------------------------------------------------------------
\* What a run knows after each of its steps.

\* What it knows of the feed, wherever it is.
Feeds(r) ==
    /\ Known(r) /\ EntriesFull(r) /\ PageFull(r)
    /\ kind = "export" => /\ StagedFine(r) /\ StagedOrdered(r) /\ StagedFull(r)
                          /\ r.sat = r.sfrom /\ r.rescored = {}
SameFeed(x, r) ==
    /\ x.from = r.from /\ x.at = r.at /\ x.sfrom = r.sfrom /\ x.sat = r.sat
    /\ x.page = r.page /\ x.entries = r.entries /\ x.staged = r.staged /\ x.rescored = r.rescored

\* Where a step leaves a run.
Calm == {"list", "scores", "send", "claim", "version status", "post", "mark failed", "release", "scanner status"}
Goes(x, r, at) ==
    /\ RunKnows(x)
    /\ x.from = r.from /\ x.at = at /\ (kind = "export" => x.sfrom = r.sfrom)
    /\ x.pc \notin {"idle", "mark", "cover"}
    /\ x.pc = "record" => kind # "export"

LEMMA FeedsOf ==
    ASSUME NEW r, RunKnows(r), r.pc \notin {"rescore", "upload", "record"}
    PROVE  Feeds(r)
BY DEF RunKnows, Feeds, ScoresListed, Rescoring

LEMMA FeedsSame ==
    ASSUME NEW r, NEW x, Feeds(r), SameFeed(x, r)
    PROVE  Feeds(x)
BY DEF Feeds, SameFeed, Known, EntriesFull, PageFull, Listing, Paging, StagedFine, StagedOrdered, StagedFull, IsStaged

LEMMA KnowsCalm ==
    ASSUME NEW x, Feeds(x), x.pc \in Calm \cup {"idle", "mark", "cover"} \/ (x.pc = "record" /\ kind # "export")
    PROVE  RunKnows(x)
BY Zenon DEF Calm, RunKnows, Feeds, Looked, Loaded, ScoresListed, Walking, Rescoring

LEMMA KnowsAtLoad ==
    ASSUME NEW x, Feeds(x), x.pc = "load", x.got = {}, x.page = {}
    PROVE  RunKnows(x)
BY DEF RunKnows, Feeds, Looked, Loaded, ScoresListed, Walking, Rescoring

LEMMA KnowsWalking ==
    ASSUME NEW x, Feeds(x), x.pc \in Walking, x.got = {},
           \A e \in x.page : x.seen[e.trace] < e.src => Gone(e)
    PROVE  RunKnows(x)
BY Zenon DEF RunKnows, Feeds, Looked, Loaded, ScoresListed, Walking, Rescoring

LEMMA EndPageKnows ==
    ASSUME NEW r \in AnyRun, Feeds(r)
    PROVE  Goes(EndPage(r), r, r.at)
<1>1. PICK x : x = EndPage(r)
      OBVIOUS
<1>2. \E pc \in {"scores", "record", "list"}, b \in BOOLEAN :
         x = [r EXCEPT !.pc = pc, !.again = b] /\ (pc = "record" => kind # "export")
      <2>1. CASE r.blocked \/ ~r.more
            <3>1. PICK last : last = IF kind = "export" THEN "scores" ELSE "record"
                  OBVIOUS
            <3>2. x = [r EXCEPT !.pc = last]
                  BY <1>1, <2>1, <3>1 DEF EndPage
            <3>3. x = [r EXCEPT !.pc = last, !.again = r.again]
                  BY <3>2 DEF AnyRun
            <3> QED BY <3>1, <3>3, Zenon DEF AnyRun
      <2>2. CASE ~r.blocked /\ r.more /\ Full(r)
            <3>1. PICK last : last = IF kind = "export" THEN "scores" ELSE "record"
                  OBVIOUS
            <3>2. x = [r EXCEPT !.pc = last, !.again = TRUE]
                  BY <1>1, <2>2, <3>1 DEF EndPage
            <3> QED BY <3>1, <3>2, Zenon
      <2>3. CASE ~r.blocked /\ r.more /\ ~Full(r)
            <3>1. x = [r EXCEPT !.pc = "list", !.again = r.again]
                  BY <1>1, <2>3 DEF EndPage, AnyRun
            <3> QED BY <3>1, Zenon DEF AnyRun
      <2> QED BY <2>1, <2>2, <2>3, Zenon
<1>3. PICK pc \in {"scores", "record", "list"}, b \in BOOLEAN :
         x = [r EXCEPT !.pc = pc, !.again = b] /\ (pc = "record" => kind # "export")
      BY <1>2, Zenon
<1>4. SameFeed(x, r) /\ x.pc = pc
      BY <1>3 DEF AnyRun, SameFeed
<1>5. RunKnows(x)
      BY <1>3, <1>4, FeedsSame, KnowsCalm, Zenon DEF Calm
<1> QED BY <1>1, <1>3, <1>4, <1>5 DEF Goes, SameFeed

LEMMA WalkedKnows ==
    ASSUME NEW r \in AnyRun, Feeds(r), r.got = {}, r.page = {}
    PROVE  Goes(Walked(r), r, r.at)
<1>1. PICK n, known : /\ n = r.examined + Len(r.entries)
                      /\ known = [r EXCEPT !.examined = n, !.seen = NoVersions, !.held = {}]
      BY Zenon
<1>2. n \in Nat
      <2>1. r.entries \in Seq(Entries) /\ r.examined \in Nat
            BY DEF AnyRun
      <2>2. Len(r.entries) \in Nat
            BY <2>1, LenProperties
      <2> QED BY <1>1, <2>1, <2>2
<1>3. known \in AnyRun /\ SameFeed(known, r) /\ known.got = {} /\ known.page = {}
      <2>1. NoVersions \in PerTrace /\ {} \in SUBSET Traces
            BY DEF NoVersions, PerTrace
      <2> QED BY <1>1, <1>2, <2>1 DEF AnyRun, SameFeed
<1>4. Walked(r) = CASE r.entries = <<>> -> EndPage(known)
          [] r.entries # <<>> /\ Webhook -> [known EXCEPT !.pc = "send"]
          [] r.entries # <<>> /\ ~Webhook -> [known EXCEPT !.pc = "load"]
      BY <1>1 DEF Walked, AnyRun
<1>5. Feeds(known)
      BY <1>3, FeedsSame
<1>6. CASE r.entries = <<>>
      <2>1. Goes(EndPage(known), known, known.at)
            BY <1>3, <1>5, EndPageKnows
      <2> QED BY <1>3, <1>4, <1>6, <2>1 DEF Goes, SameFeed
<1>7. CASE r.entries # <<>>
      <2>1. PICK pc \in {"send", "load"} : Walked(r) = [known EXCEPT !.pc = pc]
            BY <1>4, <1>7
      <2>2. PICK x : x = [known EXCEPT !.pc = pc]
            OBVIOUS
      <2>3. SameFeed(x, known) /\ x.got = {} /\ x.pc = pc /\ x.page = {}
            BY <1>3, <2>2 DEF AnyRun, SameFeed
      <2>4. Feeds(x)
            BY <1>5, <2>3, FeedsSame
      <2>5. RunKnows(x)
            BY <2>3, <2>4, KnowsCalm, KnowsAtLoad, Zenon DEF Calm
      <2> QED BY <1>3, <2>1, <2>2, <2>3, <2>5 DEF Goes, SameFeed
<1> QED BY <1>6, <1>7

LEMMA BlockedKnows ==
    ASSUME NEW r \in AnyRun, Feeds(r), r.got = {}
    PROVE  Goes(BlockedPage(r), r, r.at)
<1>1. PICK x : x = [r EXCEPT !.page = {}, !.blocked = TRUE]
      OBVIOUS
<1>2. /\ x \in AnyRun /\ x.entries = r.entries /\ x.page = {} /\ x.got = {} /\ x.staged = r.staged
      /\ x.at = r.at /\ x.from = r.from /\ x.sat = r.sat /\ x.sfrom = r.sfrom /\ x.rescored = r.rescored
      BY <1>1 DEF AnyRun
<1>3. Feeds(x)
      BY <1>2 DEF Feeds, Known, EntriesFull, PageFull, Listing, StagedFine, StagedOrdered, StagedFull, IsStaged
<1>4. Goes(Walked(x), x, x.at)
      BY <1>2, <1>3, WalkedKnows
<1> QED BY <1>1, <1>2, <1>4 DEF BlockedPage, Goes

LEMMA ListedKnows ==
    ASSUME NEW r \in AnyRun, Feeds(r), r.got = {}, NEW e \in FirstOf(r.page), NEW shown \in BOOLEAN,
           ~shown => Gone(e), \A o \in r.page : r.seen[o.trace] < o.src => Gone(o)
    PROVE  Goes(Listed(r, e, shown), r, r.at)
<1>1. PICK n, x : /\ n = [trace |-> e.trace, ver |-> e.ver, src |-> e.src, shown |-> shown]
                  /\ x = [r EXCEPT !.page = @ \ {e}, !.pc = "walk", !.entries = Append(@, n)]
      BY Zenon
<1>2. e \in r.page /\ e \in FeedRows /\ \A o \in r.page \ {e} : Before(FeedPlace(e), FeedPlace(o))
      BY DEF FirstOf, AnyRun
<1>3. n \in Entries /\ FeedPlace(n) = FeedPlace(e) /\ (Issued(n) <=> Issued(e)) /\ (Gone(n) <=> Gone(e)) /\ n.shown = shown
      BY <1>1, <1>2 DEF FeedRows, Entries, FeedPlace, Issued, Gone
<1>4. Listed(r, e, shown) = IF x.page = {} THEN Walked(x) ELSE x
      BY <1>1 DEF Listed
<1>5. /\ r.entries \in Seq(Entries) /\ Append(r.entries, n) \in Seq(Entries)
      /\ Len(r.entries) \in Nat /\ Len(Append(r.entries, n)) = Len(r.entries) + 1
      /\ \A i \in 1 .. Len(r.entries) : Append(r.entries, n)[i] = r.entries[i]
      /\ Append(r.entries, n)[Len(r.entries) + 1] = n
      <2>1. r.entries \in Seq(Entries)
            BY DEF AnyRun
      <2> QED BY <2>1, <1>3, AppendProperties, LenProperties
<1>6. /\ x \in AnyRun /\ x.pc = "walk" /\ x.entries = Append(r.entries, n) /\ x.page = r.page \ {e} /\ x.got = {}
      /\ x.at = r.at /\ x.from = r.from /\ x.sat = r.sat /\ x.sfrom = r.sfrom /\ x.seen = r.seen
      /\ x.staged = r.staged /\ x.rescored = r.rescored
      <2>1. "walk" \in Pcs
            BY DEF Pcs
      <2> HIDE DEF Pcs
      <2>2. r.page \ {e} \in SUBSET FeedRows
            BY DEF AnyRun
      <2> QED BY <1>1, <1>5, <2>1, <2>2 DEF AnyRun
<1>7. /\ \A i \in 1 .. Len(x.entries) : i \in 1 .. Len(r.entries) \/ i = Len(r.entries) + 1
      /\ \A i \in 1 .. Len(r.entries) : i \in 1 .. Len(x.entries) /\ x.entries[i] = r.entries[i]
      /\ Len(r.entries) + 1 \in 1 .. Len(x.entries) /\ x.entries[Len(r.entries) + 1] = n
      BY <1>5, <1>6
<1>8. Known(x)
      <2>1. Known(r)
            BY DEF Feeds
      <2>2. Issued(n) /\ (~n.shown => Gone(n))
            BY <1>2, <1>3, <2>1 DEF Known
      <2>3. \A i \in 1 .. Len(x.entries) : Issued(x.entries[i]) /\ (~x.entries[i].shown => Gone(x.entries[i]))
            BY <1>7, <2>1, <2>2 DEF Known
      <2> QED BY <1>6, <2>1, <2>3 DEF Known
<1>9. ASSUME NEW t \in Traces
      PROVE  /\ Listing(r, t) => Listing(x, t)
             /\ FeedPlace(e) = At(t) => Listing(x, t)
      BY <1>3, <1>7 DEF Listing
<1>10. ASSUME NEW t \in Traces, Listing(r, t) \/ Paging(r, t)
       PROVE  Listing(x, t) \/ Paging(x, t)
       BY <1>6, <1>9, <1>10 DEF Paging
<1>11. EntriesFull(x)
      <2>1. ASSUME NEW t \in Traces, NEW i \in 1 .. Len(x.entries), feedRow[t].ver # 0, Before(r.at, At(t)),
                   ~Before(FeedPlace(x.entries[i]), At(t))
            PROVE  Listing(x, t)
            <3>1. CASE i \in 1 .. Len(r.entries)
                  BY <1>7, <1>9, <2>1, <3>1 DEF Feeds, EntriesFull
            <3>2. CASE i = Len(r.entries) + 1
                  <4>1. ~Before(FeedPlace(e), At(t))
                        BY <1>3, <1>7, <2>1, <3>2
                  <4>2. Listing(r, t) \/ Paging(r, t)
                        BY <1>2, <2>1, <4>1 DEF Feeds, PageFull
                  <4>3. ASSUME Paging(r, t) PROVE FeedPlace(e) = At(t)
                        BY <1>2, <4>1, <4>3 DEF Paging
                  <4> QED BY <1>9, <4>2, <4>3
            <3> QED BY <1>7, <3>1, <3>2
      <2> QED BY <1>6, <2>1 DEF EntriesFull
<1>12. PageFull(x)
      <2>1. ASSUME NEW t \in Traces, NEW o \in x.page, feedRow[t].ver # 0, Before(r.at, At(t)),
                   ~Before(FeedPlace(o), At(t))
            PROVE  Listing(x, t) \/ Paging(x, t)
            BY <1>6, <1>10, <2>1 DEF Feeds, PageFull
      <2> QED BY <1>6, <2>1 DEF PageFull
<1>13. Feeds(x)
      BY <1>6, <1>8, <1>11, <1>12 DEF Feeds, StagedFine, StagedOrdered, StagedFull, IsStaged
<1>14. ASSUME x.page = {} PROVE Goes(Walked(x), r, r.at)
      BY <1>6, <1>13, <1>14, WalkedKnows DEF Goes
<1>15. Goes(x, r, r.at)
      <2>1. RunKnows(x)
            BY <1>6, <1>13, KnowsWalking, Zenon DEF Walking
      <2> QED BY <1>6, <2>1 DEF Goes
<1> QED BY <1>4, <1>14, <1>15

LEMMA DecidedKnows ==
    ASSUME NEW r \in AnyRun, Feeds(r), r.got = {}, NEW e \in FirstOf(r.page),
           \A o \in r.page : r.seen[o.trace] < o.src => Gone(o)
    PROVE  Goes(Decided(r, e), r, r.at)
<1>1. CASE r.seen[e.trace] > e.src
      BY <1>1, BlockedKnows DEF Decided
<1>2. CASE ~(r.seen[e.trace] > e.src)
      <2>1. e \in r.page /\ e.trace \in Traces /\ e.src \in Nat /\ r.seen[e.trace] \in Nat
            BY DEF FirstOf, AnyRun, FeedRows, PerTrace
      <2>2. PICK shown \in BOOLEAN : shown <=> r.seen[e.trace] = e.src
            OBVIOUS
      <2>3. ~shown => Gone(e)
            BY <1>2, <2>1, <2>2
      <2>4. Goes(Listed(r, e, shown), r, r.at)
            BY <2>3, ListedKnows
      <2>5. shown = (r.seen[e.trace] = e.src)
            BY <2>2
      <2> QED BY <1>2, <2>4, <2>5 DEF Decided
<1> QED BY <1>1, <1>2

\* The first entry is next: whatever a run newly passes with it is the entry.
LEMMA TailParts ==
    ASSUME NEW r \in AnyRun, r.entries # <<>>
    PROVE  /\ Head(r.entries) = r.entries[1] /\ Tail(r.entries) \in Seq(Entries)
           /\ Len(r.entries) \in Nat /\ 1 \in 1 .. Len(r.entries)
           /\ Len(Tail(r.entries)) = Len(r.entries) - 1
           /\ \A i \in 1 .. Len(Tail(r.entries)) :
                 i + 1 \in 1 .. Len(r.entries) /\ Tail(r.entries)[i] = r.entries[i + 1]
           /\ \A i \in 1 .. Len(r.entries) : i = 1 \/ (i - 1 \in 1 .. Len(Tail(r.entries)) /\ Tail(r.entries)[i - 1] = r.entries[i])
           /\ Head(r.entries) \in Entries /\ FeedPlace(Head(r.entries)) \in Moments
           /\ \A i \in 1 .. Len(r.entries) : FeedPlace(r.entries[i]) \in Moments
<1>1. r.entries \in Seq(Entries)
      BY DEF AnyRun
<1>2. PICK s : s = r.entries
      OBVIOUS
<1>3. s \in Seq(Entries) /\ s # <<>>
      BY <1>1, <1>2
<1>4. /\ Head(s) = s[1] /\ Tail(s) \in Seq(Entries) /\ Len(s) \in Nat /\ Len(s) >= 1
      /\ Len(Tail(s)) = Len(s) - 1 /\ \A i \in 1 .. Len(s) - 1 : Tail(s)[i] = s[i + 1]
      BY <1>3, HeadTailProperties, LenProperties, EmptySeq
<1>5. 1 \in 1 .. Len(s) /\ \A i \in 1 .. Len(Tail(s)) : i + 1 \in 1 .. Len(s) /\ Tail(s)[i] = s[i + 1]
      BY <1>4
<1>6. ASSUME NEW i \in 1 .. Len(s), i # 1
      PROVE  i - 1 \in 1 .. Len(Tail(s)) /\ Tail(s)[i - 1] = s[i]
      <2>1. i - 1 \in 1 .. Len(s) - 1 /\ (i - 1) + 1 = i
            BY <1>4, <1>6
      <2> QED BY <1>4, <2>1
<1>7. \A i \in 1 .. Len(s) : s[i] \in Entries
      BY <1>3, ElementOfSeq
<1>8. \A i \in 1 .. Len(s) : FeedPlace(s[i]) \in Moments
      BY <1>7, PlacesAreMoments
<1> QED BY <1>2, <1>4, <1>5, <1>6, <1>7, <1>8

LEMMA NextPassed ==
    ASSUME NEW r \in AnyRun, Ordered(r), Known(r), EntriesFull(r), r.entries # <<>>,
           NEW t \in Traces, feedRow[t].ver # 0, feedRow[t].ver \in Nat,
           Before(r.at, At(t)), ~Before(FeedPlace(Head(r.entries)), At(t))
    PROVE  Head(r.entries).trace = t /\ Head(r.entries).ver = feedRow[t].ver /\ Head(r.entries).src = feedRow[t].src
<1>1. Listing(r, t)
      BY TailParts DEF EntriesFull
<1>2. PICK i \in 1 .. Len(r.entries) : FeedPlace(r.entries[i]) = At(t)
      BY <1>1 DEF Listing
<1>3. i = 1
      <2> SUFFICES ASSUME i # 1 PROVE FALSE
          OBVIOUS
      <2>1. 1 < i
            BY TailParts
      <2>2. Before(FeedPlace(r.entries[1]), FeedPlace(r.entries[i]))
            BY <2>1, TailParts DEF Ordered
      <2> QED BY <1>2, <2>2, TailParts
<1>4. FeedPlace(Head(r.entries)) = At(t) /\ Issued(Head(r.entries))
      BY <1>2, <1>3, TailParts DEF Known
<1> QED BY <1>4 DEF FeedPlace, At, Issued

LEMMA NextIsShown ==
    ASSUME DestTypes, FeedOk, NEW r \in AnyRun, Ordered(r), Known(r), EntriesFull(r), r.entries # <<>>,
           NEW t \in Matching, AtRest(t), Before(r.at, At(t)), ~Before(FeedPlace(Head(r.entries)), At(t))
    PROVE  /\ Head(r.entries).trace = t /\ Head(r.entries).ver = feedRow[t].ver
           /\ Head(r.entries).src = feedRow[t].src /\ Wanted(Head(r.entries))
           /\ Current(t, Head(r.entries).ver)
<1>1. t \in Traces
      BY DestinationAssumption
<1>2. feedRow[t].ver \in Nat /\ feedRow[t].ver # 0 /\ feedRow[t].src # 0
      <2>1. feedRow[t] \in [ver : Nat, src : Nat]
            BY <1>1, ByTraceTypes
      <2>2. feedRow[t] # NoRow /\ (feedRow[t].ver = 0 => feedRow[t] = NoRow) /\ (feedRow[t].ver # 0 => feedRow[t].src # 0)
            BY <1>1 DEF AtRest, FeedOk
      <2> QED BY <2>1, <2>2
<1>3. PICK e : e = Head(r.entries)
      OBVIOUS
<1>4. e.trace = t /\ e.ver = feedRow[t].ver /\ e.src = feedRow[t].src
      BY <1>1, <1>2, <1>3, NextPassed
<1>5. ~e.shown => Gone(e)
      BY <1>3, TailParts DEF Known
<1>6. Current(t, e.ver)
      BY <1>4 DEF Current, AtRest
<1>7. e.shown
      BY <1>2, <1>4, <1>5, <1>6 DEF Gone, AtRest
<1> QED BY <1>3, <1>4, <1>6, <1>7 DEF Wanted

\* What is staged, up to a place.
StagedUp(r, at) ==
    /\ \A i \in 1 .. Len(r.staged) :
          LET s == r.staged[i] IN
          /\ GivenRow(s.trace, s.ver) /\ Whole(s.trace, s.ver, s.rev) /\ FineScore(s.trace, r.sfrom, s.score)
          /\ ~Before(at, FeedPlace(s))
    /\ StagedOrdered(r)
    /\ \A t \in Matching : AtRest(t) /\ Before(r.from, At(t)) /\ ~Before(at, At(t)) => IsStaged(r, t)

LEMMA PassedKnows ==
    ASSUME NEW r \in AnyRun, Ordered(r), r.entries # <<>>, Known(r), EntriesFull(r), PageFull(r),
           kind = "export" => /\ StagedUp(r, FeedPlace(Head(r.entries)))
                              /\ r.sat = r.sfrom /\ r.rescored = {},
           NEW pc \in {"send", "forward", "stage"}, pc = "send" \/ (r.pc = pc /\ Loaded(r)),
           \A u \in Traces : feedRow[u].ver \in Nat
    PROVE  Goes(PassedTo(r, pc), r, FeedPlace(Head(r.entries)))
<1>1. PICK at, x, y : /\ at = FeedPlace(Head(r.entries))
                      /\ x = [r EXCEPT !.at = at, !.entries = Tail(@), !.covers = FALSE, !.pc = pc]
                      /\ y = [x EXCEPT !.tree = NoVersions, !.seen = NoVersions, !.score = NoVersions]
      BY Zenon
<1>2. PassedTo(r, pc) = IF x.entries = <<>> THEN EndPage(y) ELSE x
      BY <1>1 DEF PassedTo
<1>3. at \in Moments /\ r.at \in Moments /\ Before(r.at, at)
      BY <1>1, TailParts DEF AnyRun, Ordered
<1>4. /\ x \in AnyRun /\ x.pc = pc /\ x.entries = Tail(r.entries) /\ x.page = r.page /\ x.at = at /\ x.from = r.from
      /\ x.sat = r.sat /\ x.sfrom = r.sfrom /\ x.staged = r.staged /\ x.rescored = r.rescored
      /\ x.tree = r.tree /\ x.score = r.score
      <2>1. pc \in Pcs
            BY Zenon DEF Pcs
      <2> HIDE DEF Pcs
      <2> QED BY <1>1, <1>3, <2>1, TailParts, Zenon DEF AnyRun
<1>5. \A i \in 1 .. Len(x.entries) : i + 1 \in 1 .. Len(r.entries) /\ x.entries[i] = r.entries[i + 1]
      BY <1>4, TailParts
<1>6. Known(x)
      <2>1. Given(at)
            <3>1. Issued(r.entries[1])
                  BY TailParts DEF Known
            <3> QED BY <1>1, <3>1, TailParts DEF Issued, GivenRow, Given, FeedPlace
      <2> QED BY <1>4, <1>5, <2>1 DEF Known
<1>7. ASSUME NEW t \in Traces, feedRow[t].ver # 0, Before(at, At(t))
      PROVE  Before(r.at, At(t)) /\ (Listing(r, t) => Listing(x, t))
      <2>1. At(t) \in Moments
            BY SettledFeedAssumption DEF At, Moments
      <2>2. Before(r.at, At(t))
            BY <1>3, <1>7, <2>1, BeforeOrders
      <2>3. ASSUME Listing(r, t) PROVE Listing(x, t)
            <3>1. PICK i \in 1 .. Len(r.entries) : FeedPlace(r.entries[i]) = At(t)
                  BY <2>3 DEF Listing
            <3>2. i # 1
                  BY <1>1, <1>3, <1>7, <3>1, BeforeOrders, TailParts
            <3>3. i - 1 \in 1 .. Len(x.entries) /\ x.entries[i - 1] = r.entries[i]
                  BY <1>4, <3>2, TailParts
            <3> QED BY <3>1, <3>3 DEF Listing
      <2> QED BY <2>2, <2>3
<1>8. EntriesFull(x)
      <2>1. ASSUME NEW t \in Traces, NEW i \in 1 .. Len(x.entries), feedRow[t].ver # 0, Before(at, At(t)),
                   ~Before(FeedPlace(x.entries[i]), At(t))
            PROVE  Listing(x, t)
            BY <1>5, <1>7, <2>1 DEF EntriesFull
      <2> QED BY <1>4, <2>1 DEF EntriesFull
<1>9. PageFull(x)
      <2>1. ASSUME NEW t \in Traces, NEW e \in x.page, feedRow[t].ver # 0, Before(at, At(t)),
                   ~Before(FeedPlace(e), At(t))
            PROVE  Listing(x, t) \/ Paging(x, t)
            BY <1>4, <1>7, <2>1 DEF PageFull, Paging
      <2> QED BY <1>4, <2>1 DEF PageFull
<1>10. Feeds(x)
      <2>1. kind = "export" => StagedFine(x) /\ StagedOrdered(x) /\ StagedFull(x)
            BY <1>1, <1>4 DEF StagedUp, StagedFine, StagedOrdered, StagedFull, IsStaged
      <2> QED BY <1>4, <1>6, <1>8, <1>9, <2>1 DEF Feeds
<1>11. Loaded(x)
      <2>1. CASE pc = "send"
            BY <1>4, <2>1 DEF Loaded
      <2>2. CASE r.pc = pc /\ Loaded(r) /\ pc # "send"
            BY <1>4, <1>5, <2>2 DEF Loaded
      <2> QED BY <2>1, <2>2
<1>12. RunKnows(x)
      BY <1>4, <1>10, <1>11, Zenon DEF RunKnows, Feeds, Looked, ScoresListed, Walking, Rescoring
<1>13. CASE x.entries = <<>>
      <2>1. y \in AnyRun /\ SameFeed(y, x)
            <3>1. NoVersions \in PerTrace
                  BY DEF NoVersions, PerTrace
            <3>2. y = [x EXCEPT !.tree = NoVersions, !.seen = NoVersions, !.score = NoVersions] /\ x \in AnyRun
                  BY <1>1, <1>4
            <3>3. y \in AnyRun
                  BY ONLY <3>1, <3>2 DEF AnyRun
            <3>4. SameFeed(y, x)
                  BY ONLY <3>2 DEF AnyRun, SameFeed
            <3> QED BY <3>3, <3>4
      <2>2. Feeds(y)
            BY <1>10, <2>1, FeedsSame
      <2>3. Goes(EndPage(y), y, y.at)
            BY <2>1, <2>2, EndPageKnows
      <2> QED BY <1>1, <1>2, <1>4, <1>13, <2>1, <2>3 DEF Goes, SameFeed
<1>14. CASE x.entries # <<>>
      BY <1>1, <1>2, <1>4, <1>12, <1>14 DEF Goes
<1> QED BY <1>13, <1>14

\* An entry nobody wants is passed with nothing to stage.
LEMMA UnwantedStaged ==
    ASSUME DestTypes, FeedOk, NEW r \in AnyRun, Ordered(r), Feeds(r), r.entries # <<>>, ~Wanted(Head(r.entries)),
           kind = "export"
    PROVE  StagedUp(r, FeedPlace(Head(r.entries)))
<1>1. PICK at : at = FeedPlace(Head(r.entries))
      OBVIOUS
<1>2. at \in Moments /\ r.at \in Moments /\ Before(r.at, at)
      BY <1>1, TailParts DEF AnyRun, Ordered
<1>3. ASSUME NEW i \in 1 .. Len(r.staged) PROVE ~Before(at, FeedPlace(r.staged[i]))
      <2>1. FeedPlace(r.staged[i]) \in Moments /\ ~Before(r.at, FeedPlace(r.staged[i]))
            <3>1. r.staged[i].ver \in Nat /\ r.staged[i].trace \in Traces
                  BY RunParts
            <3> QED BY <3>1, SettledFeedAssumption DEF FeedPlace, Moments, Feeds, StagedFine
      <2> QED BY <1>2, <2>1, BeforeOrders
<1>4. ASSUME NEW t \in Matching, AtRest(t), Before(r.from, At(t)), ~Before(at, At(t))
      PROVE  IsStaged(r, t)
      <2>1. ~Before(r.at, At(t))
            BY <1>1, <1>4, NextIsShown DEF Feeds
      <2> QED BY <1>4, <2>1 DEF Feeds, StagedFull
<1> QED BY <1>1, <1>3, <1>4 DEF StagedUp, Feeds, StagedFine

-----------------------------------------------------------------------------
\* The steps of a run that reads.

\* Where a step of a run leads.
Leads(w) == \E x : run' = [run EXCEPT ![w] = x] /\ Goes(x, run[w], run[w].at)

\* A run before its score pass.
Reading(r) == r \in AnyRun /\ Ordered(r) /\ AtItsPlace(r) /\ RunKnows(r) /\ Feeds(r)

LEMMA RunReads ==
    ASSUME DestInv, SentInv, NEW w \in Workers, run[w].pc \notin {"rescore", "upload", "record"}
    PROVE  Reading(run[w])
BY FeedsOf DEF DestInv, RunInv, GoodRun, SentInv, Reading

LEMMA FewerBefore ==
    ASSUME NEW A, NEW B, IsFiniteSet(B), A \subseteq B, NEW limit, Cardinality(B) < limit, limit \in Int
    PROVE  Cardinality(A) < limit
<1>1. IsFiniteSet(A) /\ Cardinality(A) <= Cardinality(B)
      BY FS_Subset
<1>2. Cardinality(A) \in Nat /\ Cardinality(B) \in Nat
      BY <1>1, FS_CardinalityType
<1> QED BY <1>1, <1>2

\* A page is the beginning of the rows.
LEMMA PageIsFull ==
    ASSUME DestTypes, FeedOk, NEW position \in Moments, NEW limit \in Int,
           NEW e \in PageOf(Activities(position), limit),
           NEW t \in Traces, feedRow[t].ver # 0, Before(position, At(t)), ~Before(FeedPlace(e), At(t))
    PROVE  \E o \in PageOf(Activities(position), limit) : FeedPlace(o) = At(t)
<1>1. PICK rows : rows = Activities(position)
      OBVIOUS
<1>2. PICK row : row = Row(t)
      OBVIOUS
<1>3. row \in rows /\ FeedPlace(row) = At(t)
      BY <1>1, <1>2 DEF Activities, NoRow, Row, FeedPlace, At
<1>4. e \in rows /\ Cardinality({o \in rows : Before(FeedPlace(o), FeedPlace(e))}) < limit
      BY <1>1 DEF PageOf
<1>5. rows \in SUBSET FeedRows
      BY <1>1, RowsAhead
<1>6. IsFiniteSet(rows)
      <2>1. PICK T : T = {u \in Traces : feedRow[u] # NoRow /\ Before(position, At(u))}
            OBVIOUS
      <2>2. IsFiniteSet(T)
            BY <2>1, SettledFeedAssumption, FS_Subset
      <2>3. rows = {Row(u) : u \in T}
            BY <1>1, <2>1 DEF Activities
      <2>4. PICK f : f = [u \in T |-> Row(u)]
            OBVIOUS
      <2>5. f \in Surjection(T, rows)
            BY <2>3, <2>4 DEF Surjection
      <2> QED BY <2>2, <2>5, FS_Surjection
<1>7. \A o \in rows : Before(FeedPlace(o), FeedPlace(row)) => Before(FeedPlace(o), FeedPlace(e))
      <2>1. FeedPlace(e) \in Moments /\ FeedPlace(row) \in Moments /\ \A o \in rows : FeedPlace(o) \in Moments
            BY <1>3, <1>4, <1>5, PlacesAreMoments
      <2>2. ~Before(FeedPlace(e), FeedPlace(row))
            BY <1>3
      <2> QED BY <2>1, <2>2 DEF Moments, Before
<1>8. Cardinality({o \in rows : Before(FeedPlace(o), FeedPlace(row))}) < limit
      <2>1. PICK A, B : /\ A = {o \in rows : Before(FeedPlace(o), FeedPlace(row))}
                        /\ B = {o \in rows : Before(FeedPlace(o), FeedPlace(e))}
            OBVIOUS
      <2>2. A \subseteq B /\ B \subseteq rows
            BY <1>7, <2>1
      <2>3. IsFiniteSet(B)
            BY <1>6, <2>2, FS_Subset
      <2> QED BY <1>4, <2>1, <2>2, <2>3, FewerBefore
<1>9. row \in PageOf(rows, limit)
      BY <1>3, <1>8 DEF PageOf
<1> QED BY <1>1, <1>3, <1>9

LEMMA ReadPageKnows ==
    ASSUME DestInv, SentInv, NEW w \in Workers, ReadPage(w), pageSize \in Nat, MaxPerRun \in Nat
    PROVE  Leads(w)
<1>1. PICK r : r = run[w]
      OBVIOUS
<1>2. Reading(r) /\ r.pc = "list" /\ r.entries = <<>> /\ r \in AnyRun /\ r.at \in Moments /\ r.sent \in Nat
      <2>1. r.pc = "list" /\ Reading(r)
            BY <1>1, RunReads DEF ReadPage, Go
      <2>2. r.entries = <<>> /\ r \in AnyRun
            BY <2>1 DEF Reading, AtItsPlace
      <2> QED BY <2>1, <2>2 DEF AnyRun
<1>3. PICK limit, rows : limit = (IF MaxPerRun - r.sent < pageSize THEN MaxPerRun - r.sent ELSE pageSize)
                         /\ rows = Activities(r.at)
      OBVIOUS
<1>4. PICK more, list, page : /\ more = (Cardinality(rows) > limit) /\ list = PageOf(rows, limit)
                              /\ page = [r EXCEPT !.pc = "look", !.more = more, !.got = {}, !.page = list]
      BY Zenon
<1>5. run' = [run EXCEPT ![w] = IF rows = {} THEN EndPage(page) ELSE page]
      BY <1>1, <1>3, <1>4 DEF ReadPage, Go
<1>6. limit \in Int
      BY <1>2, <1>3
<1>7. rows \in SUBSET FeedRows /\ list \in SUBSET rows /\ list \in SUBSET FeedRows
      BY <1>2, <1>3, <1>4, RowsAhead DEF DestInv, PageOf
<1>8. /\ page \in AnyRun /\ page.pc = "look" /\ page.entries = <<>> /\ page.page = list /\ page.got = {}
      /\ page.at = r.at /\ page.from = r.from /\ page.sat = r.sat /\ page.sfrom = r.sfrom
      /\ page.staged = r.staged /\ page.rescored = r.rescored
      <2>1. "look" \in Pcs
            BY DEF Pcs
      <2>2. more \in BOOLEAN
            BY <1>4
      <2> HIDE DEF Pcs
      <2> QED BY <1>2, <1>4, <1>7, <2>1, <2>2, Zenon DEF AnyRun
<1>9. Feeds(page)
      <2>1. Len(<<>>) = 0
            BY EmptySeq
      <2>2. ASSUME NEW e \in list PROVE Issued(e)
            <3>1. PICK t \in Traces : feedRow[t] # NoRow /\ e = Row(t)
                  BY <1>3, <1>7, <2>2 DEF Activities
            <3>2. e.trace = t /\ e.ver = feedRow[t].ver /\ e.src = feedRow[t].src
                  BY <3>1 DEF Row
            <3>3. feedRow[t].ver \in Nat /\ feedRow[t].ver <= published
                  BY ByTraceTypes DEF DestInv, SentInv, FeedOk
            <3> QED BY <3>2, <3>3 DEF Issued, GivenRow
      <2>3. Known(page)
            BY <1>2, <1>8, <2>1, <2>2 DEF Known, Reading, Feeds
      <2>4. EntriesFull(page)
            BY <1>8, <2>1 DEF EntriesFull
      <2>5. PageFull(page)
            <3>1. ASSUME NEW t \in Traces, NEW e \in list, feedRow[t].ver # 0, Before(r.at, At(t)),
                         ~Before(FeedPlace(e), At(t))
                  PROVE  \E o \in list : FeedPlace(o) = At(t)
                  BY <1>2, <1>3, <1>4, <1>6, <3>1, PageIsFull DEF DestInv, SentInv
            <3> QED BY <1>8, <3>1 DEF PageFull, Paging
      <2> QED BY <1>2, <1>8, <2>3, <2>4, <2>5 DEF Feeds, Reading, StagedFine, StagedOrdered, StagedFull, IsStaged
<1>10. Goes(EndPage(page), r, r.at)
      BY <1>8, <1>9, EndPageKnows DEF Goes
<1>11. Goes(page, r, r.at)
      <2>1. RunKnows(page)
            BY <1>8, <1>9 DEF RunKnows, Feeds, Looked, Loaded, ScoresListed, Walking, Rescoring
      <2> QED BY <1>8, <2>1 DEF Goes
<1> QED BY <1>1, <1>5, <1>10, <1>11 DEF Leads

\* What looks older than its row is gone.
LEMMA OlderIsGone ==
    ASSUME DestTypes, FeedOk, NEW e, e.trace \in Traces, e.src \in Nat, Issued(e), Summaries[e.trace] < e.src
    PROVE  Gone(e)
<1>1. PICK t : t = e.trace
      OBVIOUS
<1>2. stored[t].src \in Nat /\ stored[t].src < e.src /\ (stored[t].src # 0 => feedRow[t].src <= stored[t].src)
      BY <1>1, ByTraceTypes DEF Summaries, FeedOk
<1>3. feedRow[t].src \in Nat /\ (feedRow[t].ver = e.ver => feedRow[t].src = e.src)
      BY <1>1, ByTraceTypes DEF Issued
<1> QED BY <1>1, <1>2, <1>3 DEF Gone, Current

LEMMA LookUpKnows ==
    ASSUME DestInv, SentInv, NEW w \in Workers, NEW what \in {"summaries", "pending"}, LookUp(w, what)
    PROVE  Leads(w)
<1>1. PICK r : r = run[w]
      OBVIOUS
<1>2. r.pc = "look" /\ Reading(r) /\ r \in AnyRun /\ what \notin r.got
      <2>1. r.pc = "look" /\ Reading(r) /\ what \notin r.got
            BY <1>1, RunReads DEF LookUp, Go
      <2> QED BY <2>1 DEF Reading
<1>3. PICK all, got, seen, held, pc :
         /\ all = r.got \cup {what}
         /\ got = (IF Cardinality(all) = 2 THEN {} ELSE all)
         /\ seen = (IF what = "summaries" THEN Of(PageIds(r), Summaries) ELSE r.seen)
         /\ held = (IF what = "pending" THEN PendingTraces(PageIds(r)) ELSE r.held)
         /\ pc = (IF Cardinality(all) = 2 THEN "walk" ELSE r.pc)
      OBVIOUS
<1>4. run' = [run EXCEPT ![w] = [r EXCEPT !.got = got, !.seen = seen, !.held = held, !.pc = pc]]
      BY <1>1, <1>2, <1>3 DEF LookUp, Go, AnyRun
<1>5. PICK x : x = [r EXCEPT !.got = got, !.seen = seen, !.held = held, !.pc = pc]
      OBVIOUS
<1>6. SameFeed(x, r) /\ x.got = got /\ x.seen = seen /\ x.pc = pc
      BY <1>2, <1>5 DEF AnyRun, SameFeed
<1>7. r.got \in {{}, {"summaries"}, {"pending"}}
      BY <1>2 DEF Reading, RunKnows, Looked
<1>8. \/ r.got = {} /\ got = {what} /\ pc = "look"
      \/ r.got = {"pending"} /\ what = "summaries" /\ got = {} /\ pc = "walk"
      \/ r.got = {"summaries"} /\ what = "pending" /\ got = {} /\ pc = "walk"
      <2>1. CASE r.got = {}
            <3>1. all = {what} /\ Cardinality(all) = 1
                  BY <1>3, <2>1, FS_Singleton
            <3> QED BY <1>2, <1>3, <2>1, <3>1
      <2>2. CASE r.got # {}
            <3>1. PICK one \in {"summaries", "pending"} : r.got = {one} /\ one # what
                  BY <1>2, <1>7, <2>2
            <3>2. all = {one} \cup {what}
                  BY <1>3, <3>1
            <3>3. Cardinality(all) = 2
                  <4>1. IsFiniteSet({one}) /\ Cardinality({one}) = 1
                        BY FS_Singleton
                  <4>2. Cardinality({one} \cup {what}) = Cardinality({one}) + 1
                        BY <3>1, <4>1, FS_AddElement
                  <4> QED BY <3>2, <4>1, <4>2
            <3> QED BY <1>3, <3>1, <3>3
      <2> QED BY <2>1, <2>2
<1>9. what = "summaries" \/ "summaries" \in r.got => \A e \in r.page : seen[e.trace] < e.src => Gone(e)
      <2>1. CASE what = "summaries"
            <3>1. ASSUME NEW e \in r.page, seen[e.trace] < e.src PROVE Gone(e)
                  <4>1. e.trace \in Traces /\ e.src \in Nat /\ Issued(e) /\ e.trace \in PageIds(r)
                        BY <1>2 DEF Reading, Feeds, Known, AnyRun, FeedRows, PageIds
                  <4>2. seen[e.trace] = Summaries[e.trace]
                        BY <1>3, <2>1, <4>1 DEF Of
                  <4> QED BY <3>1, <4>1, <4>2, OlderIsGone DEF DestInv, SentInv
            <3> QED BY <3>1
      <2>2. CASE what = "pending" /\ "summaries" \in r.got
            BY <1>2, <1>3, <2>2 DEF Reading, RunKnows, Looked
      <2> QED BY <2>1, <2>2
<1>10. Looked(x) /\ Loaded(x) /\ (kind = "export" => ScoresListed(x))
      <2>1. Looked(x)
            BY <1>6, <1>8, <1>9, Zenon DEF Looked, SameFeed, Walking
      <2>2. pc \in {"look", "walk"}
            BY <1>8
      <2>3. Loaded(x)
            BY <1>6, <2>2 DEF Loaded
      <2>4. kind = "export" => ScoresListed(x)
            BY <1>2, <1>6, <2>2 DEF ScoresListed, Reading, Feeds, SameFeed, Rescoring
      <2> QED BY <2>1, <2>3, <2>4
<1>11. RunKnows(x)
      BY <1>2, <1>6, <1>10, FeedsSame DEF RunKnows, Feeds, Reading
<1>12. Goes(x, r, r.at)
      BY <1>6, <1>8, <1>11 DEF Goes, SameFeed
<1> QED BY <1>1, <1>4, <1>5, <1>12 DEF Leads

LEMMA WalkKnows ==
    ASSUME DestInv, SentInv, NEW w \in Workers, WalkEntry(w) \/ LookAgain(w)
    PROVE  Leads(w)
<1>1. PICK r : r = run[w]
      OBVIOUS
<1>2. r.pc \in Walking /\ Reading(r) /\ r \in AnyRun /\ Feeds(r)
      <2>1. r.pc \in Walking
            BY <1>1, Zenon DEF WalkEntry, LookAgain, Go, Walking
      <2>2. Reading(r)
            BY <1>1, <2>1, RunReads, Zenon DEF Walking
      <2> QED BY <2>1, <2>2 DEF Reading
<1>3. r.got = {} /\ \A o \in r.page : r.seen[o.trace] < o.src => Gone(o)
      BY <1>2 DEF Reading, RunKnows, Looked
<1>4. PICK x : /\ run' = [run EXCEPT ![w] = x]
               /\ \/ x = BlockedPage(r)
                  \/ \E e \in FirstOf(r.page) :
                        \/ x = Decided(r, e)
                        \/ \E pc \in {"pending again", "trace again"} : x = [r EXCEPT !.pc = pc]
                        \/ x = [r EXCEPT !.pc = "pending last", !.seen[e.trace] = Summaries[e.trace]]
      <2>1. CASE WalkEntry(w)
            BY <1>1, <2>1, Zenon DEF WalkEntry, Go
      <2>2. CASE LookAgain(w)
            BY <1>1, <2>2, Zenon DEF LookAgain, Go
      <2> QED BY <2>1, <2>2, Zenon
<1>5. CASE x = BlockedPage(r)
      BY <1>1, <1>2, <1>3, <1>4, <1>5, BlockedKnows DEF Leads
<1>6. ASSUME NEW e \in FirstOf(r.page), x = Decided(r, e)
      PROVE  Leads(w)
      BY <1>1, <1>2, <1>3, <1>4, <1>6, DecidedKnows, Zenon DEF Leads
<1>7. ASSUME NEW pc \in {"pending again", "trace again"}, x = [r EXCEPT !.pc = pc]
      PROVE  Leads(w)
      <2>1. SameFeed(x, r) /\ x.got = {} /\ x.seen = r.seen /\ x.pc = pc
            BY <1>2, <1>3, <1>7, Zenon DEF AnyRun, SameFeed
      <2>2. Feeds(x)
            BY <1>2, <2>1, FeedsSame, Zenon
      <2>3. RunKnows(x)
            BY <1>3, <2>1, <2>2, KnowsWalking, Zenon DEF Walking, SameFeed
      <2>4. Goes(x, r, r.at)
            BY <2>1, <2>3, Zenon DEF Goes, SameFeed
      <2> QED BY <1>1, <1>4, <2>4, Zenon DEF Leads
<1>8. ASSUME NEW e \in FirstOf(r.page),
             x = [r EXCEPT !.pc = "pending last", !.seen[e.trace] = Summaries[e.trace]]
      PROVE  Leads(w)
      <2>1. e.trace \in Traces
            BY <1>2 DEF AnyRun, FirstOf, FeedRows
      <2>2. PICK seen : seen = [r.seen EXCEPT ![e.trace] = Summaries[e.trace]]
            OBVIOUS
      <2>3. x = [r EXCEPT !.pc = "pending last", !.seen = seen]
            BY <1>2, <1>8, <2>2 DEF AnyRun
      <2>4. SameFeed(x, r) /\ x.got = {} /\ x.seen = seen /\ x.pc = "pending last"
            BY <1>2, <1>3, <2>3 DEF AnyRun, SameFeed
      <2>5. Feeds(x)
            BY <1>2, <2>4, FeedsSame, Zenon
      <2>6. ASSUME NEW o \in r.page, seen[o.trace] < o.src PROVE Gone(o)
            <3>1. o.trace \in Traces /\ o.src \in Nat /\ Issued(o)
                  BY <1>2 DEF Feeds, Known, AnyRun, FeedRows
            <3>2. CASE o.trace = e.trace
                  <4>1. DOMAIN r.seen = Traces
                        BY <1>2 DEF AnyRun, PerTrace
                  <4>2. seen[o.trace] = Summaries[o.trace]
                        BY <2>2, <3>1, <3>2, <4>1
                  <4> QED BY <2>6, <3>1, <4>2, OlderIsGone DEF DestInv, SentInv
            <3>3. CASE o.trace # e.trace
                  <4>1. seen[o.trace] = r.seen[o.trace]
                        BY <1>2, <2>2, <3>1, <3>3 DEF AnyRun, PerTrace
                  <4> QED BY <1>3, <2>6, <4>1
            <3> QED BY <3>2, <3>3
      <2>7. RunKnows(x)
            BY <2>4, <2>5, <2>6, KnowsWalking, Zenon DEF Walking, SameFeed
      <2>8. Goes(x, r, r.at)
            BY <2>4, <2>7, Zenon DEF Goes, SameFeed
      <2> QED BY <1>1, <1>4, <2>8, Zenon DEF Leads
<1> QED BY <1>4, <1>5, <1>6, <1>7, <1>8, Zenon

\* What is read of an entry's trace is what is stored of it.
LEMMA ReadsAreWhole ==
    ASSUME DestTypes, NEW r \in AnyRun, NEW i \in 1 .. Len(r.entries), NEW t, NEW ver,
           t = r.entries[i].trace, ver = r.entries[i].ver
    PROVE  /\ Whole(t, ver, Of(EntryIds(r), Revisions)[t])
           /\ FineScore(t, r.sfrom, Of(EntryIds(r), [u \in Traces |-> scores[u].rev])[t])
<1>1. t \in Traces
      BY RunParts
<1>2. t \in EntryIds(r)
      <2>1. r.entries \in Seq(Entries)
            BY DEF AnyRun
      <2>2. DOMAIN r.entries = 1 .. Len(r.entries)
            BY <2>1, LenProperties
      <2> QED BY <2>2 DEF EntryIds
<1>3. Of(EntryIds(r), Revisions)[t] = stored[t].rev
      BY <1>1, <1>2 DEF Of, Revisions
<1>4. Of(EntryIds(r), [u \in Traces |-> scores[u].rev])[t] = scores[t].rev /\ scores[t].rev \in Nat
      BY <1>1, <1>2, ByTraceTypes DEF Of
<1> QED BY <1>3, <1>4 DEF Whole, FineScore

LEMMA LoadObservationsKnows ==
    ASSUME DestInv, SentInv, NEW w \in Workers, LoadObservations(w)
    PROVE  Leads(w)
<1>1. PICK r : r = run[w]
      OBVIOUS
<1>2. r.pc = "load" /\ Reading(r) /\ r \in AnyRun /\ kind = "otlp"
      <2>1. r.pc = "load" /\ Reading(r)
            BY <1>1, RunReads DEF LoadObservations, Go
      <2> QED BY <2>1 DEF Reading, LoadObservations
<1>3. PICK tree, x : tree = Of(EntryIds(r), Revisions) /\ x = [r EXCEPT !.tree = tree, !.pc = "forward"]
      BY Zenon
<1>4. run' = [run EXCEPT ![w] = x]
      BY <1>1, <1>3 DEF LoadObservations, Go
<1>5. SameFeed(x, r) /\ x.tree = tree /\ x.pc = "forward"
      BY <1>2, <1>3 DEF AnyRun, SameFeed
<1>6. Feeds(x)
      BY <1>2, <1>5, FeedsSame DEF Reading
<1>7. Loaded(x)
      <2>1. \A i \in 1 .. Len(r.entries) : Whole(r.entries[i].trace, r.entries[i].ver, tree[r.entries[i].trace])
            BY <1>2, <1>3, ReadsAreWhole DEF DestInv
      <2>2. r.page = {}
            BY <1>2 DEF Reading, RunKnows, Loaded
      <2> QED BY <1>5, <2>1, <2>2 DEF Loaded, SameFeed
<1>8. RunKnows(x)
      BY <1>2, <1>5, <1>6, <1>7 DEF RunKnows, Feeds, Looked, Walking
<1>9. Goes(x, r, r.at)
      BY <1>5, <1>8 DEF Goes, SameFeed
<1> QED BY <1>1, <1>4, <1>9 DEF Leads

Tables == {"traces", "observations", "scores"}

LEMMA ThreeTables ==
    ASSUME NEW all, all \subseteq Tables
    PROVE  Cardinality(all) = 3 <=> all = Tables
<1>1. IsFiniteSet(Tables) /\ Cardinality(Tables) = 3
      <2>1. IsFiniteSet({"traces"}) /\ Cardinality({"traces"}) = 1
            BY FS_Singleton
      <2>2. PICK two : two = {"traces"} \cup {"observations"}
            OBVIOUS
      <2>3. IsFiniteSet(two) /\ Cardinality(two) = 2
            BY <2>1, <2>2, FS_AddElement
      <2>4. IsFiniteSet(two \cup {"scores"}) /\ Cardinality(two \cup {"scores"}) = 3
            BY <2>2, <2>3, FS_AddElement
      <2>5. Tables = two \cup {"scores"}
            BY <2>2 DEF Tables
      <2> QED BY <2>4, <2>5
<1> QED BY <1>1, FS_Subset

LEMMA LoadRowsKnows ==
    ASSUME DestInv, SentInv, NEW w \in Workers, NEW table \in Tables, LoadRows(w, table)
    PROVE  Leads(w)
<1>1. PICK r : r = run[w]
      OBVIOUS
<1>2. r.pc = "load" /\ Reading(r) /\ r \in AnyRun /\ kind = "export" /\ table \notin r.got
      <2>1. r.pc = "load" /\ Reading(r)
            BY <1>1, RunReads DEF LoadRows, Go
      <2> QED BY <1>1, <2>1 DEF Reading, LoadRows
<1>3. r.got \subseteq Tables /\ r.got # Tables
      BY <1>2 DEF Reading, RunKnows, Loaded, Tables
<1>4. PICK all, got, seen, tree, score, pc :
         /\ all = r.got \cup {table}
         /\ got = IF Cardinality(all) = 3 THEN {} ELSE all
         /\ seen = IF table = "traces" THEN Of(EntryIds(r), Summaries) ELSE r.seen
         /\ tree = IF table = "observations" THEN Of(EntryIds(r), Revisions) ELSE r.tree
         /\ score = IF table = "scores" THEN Of(EntryIds(r), [t \in Traces |-> scores[t].rev]) ELSE r.score
         /\ pc = IF Cardinality(all) = 3 THEN "stage" ELSE r.pc
      OBVIOUS
<1>5. run' = [run EXCEPT ![w] = [r EXCEPT !.got = got, !.seen = seen, !.tree = tree, !.score = score, !.pc = pc]]
      BY <1>1, <1>2, <1>4 DEF LoadRows, Go, AnyRun
<1>6. PICK x : x = [r EXCEPT !.got = got, !.seen = seen, !.tree = tree, !.score = score, !.pc = pc]
      OBVIOUS
<1>7. SameFeed(x, r) /\ x.got = got /\ x.tree = tree /\ x.score = score /\ x.pc = pc
      BY <1>2, <1>6 DEF AnyRun, SameFeed
<1>8. all \subseteq Tables
      BY <1>3, <1>4
<1>9. \/ all = Tables /\ got = {} /\ pc = "stage"
      \/ all # Tables /\ got = all /\ pc = "load"
      BY <1>2, <1>4, <1>8, ThreeTables
<1>10. Feeds(x)
       BY <1>2, <1>7, FeedsSame DEF Reading
<1>11. "observations" \in all =>
          \A i \in 1 .. Len(r.entries) : Whole(r.entries[i].trace, r.entries[i].ver, tree[r.entries[i].trace])
       <2>1. CASE table = "observations"
             BY <1>2, <1>4, <2>1, ReadsAreWhole DEF DestInv
       <2>2. CASE table # "observations"
             BY <1>2, <1>4, <2>2 DEF Reading, RunKnows, Loaded
       <2> QED BY <2>1, <2>2
<1>12. "scores" \in all =>
          \A i \in 1 .. Len(r.entries) : FineScore(r.entries[i].trace, r.sfrom, score[r.entries[i].trace])
       <2>1. CASE table = "scores"
             BY <1>2, <1>4, <2>1, ReadsAreWhole DEF DestInv
       <2>2. CASE table # "scores"
             BY <1>2, <1>4, <2>2 DEF Reading, RunKnows, Loaded
       <2> QED BY <2>1, <2>2
<1>13. Loaded(x)
       <2>0. r.page = {}
             BY <1>2 DEF Reading, RunKnows, Loaded
       <2>1. CASE all = Tables
             <3>1. "observations" \in all /\ "scores" \in all /\ pc = "stage"
                   BY <1>9, <2>1 DEF Tables
             <3> QED BY <1>7, <1>11, <1>12, <2>0, <3>1 DEF Loaded, SameFeed
       <2>2. CASE all # Tables
             <3>1. got = all /\ pc = "load" /\ got \subseteq Tables /\ got # Tables
                   BY <1>8, <1>9, <2>2
             <3> QED BY <1>7, <1>11, <1>12, <2>0, <3>1 DEF Loaded, SameFeed, Tables
       <2> QED BY <2>1, <2>2
<1>14. pc \in {"load", "stage"}
       BY <1>9
<1>15. RunKnows(x)
       BY <1>7, <1>10, <1>13, <1>14, Zenon DEF RunKnows, Feeds, Looked, Walking, ScoresListed, Rescoring
<1>16. Goes(x, r, r.at)
       BY <1>7, <1>14, <1>15 DEF Goes, SameFeed
<1> QED BY <1>1, <1>5, <1>6, <1>16 DEF Leads

-----------------------------------------------------------------------------
\* The steps of the score pass.

LEMMA ListScoresKnows ==
    ASSUME DestInv, SentInv, NEW w \in Workers, ListScores(w)
    PROVE  Leads(w)
<1>1. PICK r : r = run[w]
      OBVIOUS
<1>2. r.pc = "scores" /\ Reading(r) /\ r \in AnyRun
      <2>1. r.pc = "scores" /\ Reading(r)
            BY <1>1, RunReads DEF ListScores, Go
      <2> QED BY <2>1 DEF Reading
<1>3. PICK rows, pc, x : /\ rows = {ScorePlace(t) : t \in ScoreRows(r.sat)}
                         /\ pc = IF rows = {} THEN "upload" ELSE "stored"
                         /\ x = [r EXCEPT !.changed = rows, !.pc = pc]
      BY Zenon
<1>4. run' = [run EXCEPT ![w] = x]
      BY <1>1, <1>3 DEF ListScores, Go
<1>5. SameFeed(x, r) /\ x.pc = pc /\ x.changed = rows
      BY <1>2, <1>3 DEF AnyRun, SameFeed
<1>6. Feeds(x)
      BY <1>2, <1>5, FeedsSame DEF Reading
<1>7. pc \in {"upload", "stored"} /\ (pc = "upload" <=> rows = {})
      BY <1>3
<1>8. ASSUME kind = "export" PROVE ScoresListed(x)
      <2>1. x.sat = x.sfrom /\ r.sat = x.sfrom /\ x.rescored = {}
            BY <1>5, <1>6, <1>8 DEF Feeds, SameFeed
      <2>2. ASSUME NEW t \in Traces, NewScore(x, t) PROVE ScorePlace(t) \in rows
            BY <1>3, <2>1, <2>2 DEF NewScore, ScoreRows
      <2>3. ASSUME NEW p \in rows PROVE Given(p) /\ scores[p[2]].ver # 0
            <3>1. PICK t \in Traces : p = ScorePlace(t) /\ scores[t].ver # 0
                  BY <1>3, <2>3 DEF ScoreRows
            <3>2. scores[t].ver <= published
                  BY DEF SentInv, FeedOk
            <3> QED BY <3>1, <3>2 DEF ScorePlace, Given
      <2>4. \A t \in Matching : ~(NewScore(x, t) /\ ~Before(x.sat, ScorePlace(t)))
            BY <2>1 DEF NewScore
      <2> QED BY <1>5, <1>7, <2>1, <2>2, <2>3, <2>4 DEF ScoresListed, Rescoring
<1>9. RunKnows(x)
      BY <1>5, <1>6, <1>7, <1>8, Zenon DEF RunKnows, Feeds, Looked, Loaded, Walking
<1>10. Goes(x, r, r.at)
       BY <1>5, <1>7, <1>9 DEF Goes, SameFeed
<1> QED BY <1>1, <1>4, <1>10 DEF Leads

LEMMA MatchScoresKnows ==
    ASSUME DestInv, SentInv, NEW w \in Workers, MatchScores(w)
    PROVE  Leads(w)
<1>1. PICK r : r = run[w]
      OBVIOUS
<1>2. r.pc = "stored" /\ Reading(r) /\ r \in AnyRun
      <2>1. r.pc = "stored" /\ Reading(r)
            BY <1>1, RunReads DEF MatchScores, Go
      <2> QED BY <2>1 DEF Reading
<1>3. PICK last \in r.changed :
         /\ \A p \in r.changed : p = last \/ Before(p, last)
         /\ run' = [run EXCEPT ![w] = [r EXCEPT !.pc = "rescore", !.sat = last,
                      !.changed = {p \in @ : stored[p[2]].src # 0 /\ p[2] \in Matching}]]
      BY <1>1, Zenon DEF MatchScores, Go
<1>4. PICK kept, x : /\ kept = {p \in r.changed : stored[p[2]].src # 0 /\ p[2] \in Matching}
                     /\ x = [r EXCEPT !.pc = "rescore", !.sat = last, !.changed = kept]
      BY Zenon
<1>5. run' = [run EXCEPT ![w] = x]
      BY <1>2, <1>3, <1>4 DEF AnyRun
<1>6. /\ x.pc = "rescore" /\ x.sat = last /\ x.changed = kept /\ x.from = r.from /\ x.at = r.at /\ x.sfrom = r.sfrom
      /\ x.page = r.page /\ x.entries = r.entries /\ x.staged = r.staged /\ x.rescored = r.rescored
      BY <1>2, <1>4 DEF AnyRun
<1>7. Fits(r)
      BY <1>1 DEF SentInv
<1>8. kind = "export" /\ ScoresListed(r)
      BY <1>2, <1>7 DEF Fits, Reading, RunKnows
<1>9. \A p \in r.changed : Given(p) /\ scores[p[2]].ver # 0 /\ p \in Moments
      BY <1>2, <1>8, RunParts DEF ScoresListed
<1>10. Known(x) /\ EntriesFull(x) /\ PageFull(x) /\ StagedFine(x) /\ StagedOrdered(x) /\ StagedFull(x)
      BY <1>2, <1>6, <1>8, <1>9 DEF Reading, Feeds, Known, EntriesFull, PageFull, Listing, Paging, StagedFine,
         StagedOrdered, StagedFull, IsStaged
<1>11. ASSUME NEW t \in Matching, NewScore(x, t), ~Before(last, ScorePlace(t))
       PROVE  ScorePlace(t) \in kept \/ GoneTo(t, r.at)
       <2>1. NewScore(r, t) /\ t \in Traces
             BY <1>6, <1>11, DestinationAssumption DEF NewScore
       <2>2. ScorePlace(t) \in r.changed
             BY <1>2, <1>8, <1>11, <2>1 DEF ScoresListed
       <2>3. CASE stored[t].src = 0
             BY <2>3 DEF GoneTo
       <2>4. CASE stored[t].src # 0
             BY <1>4, <2>2, <2>4 DEF ScorePlace
       <2> QED BY <2>3, <2>4
<1>12. r.rescored = {}
       BY <1>2, <1>8 DEF Reading, Feeds
<1>13. ScoresListed(x)
       BY <1>4, <1>6, <1>9, <1>11, <1>12, Zenon DEF ScoresListed, Rescoring
<1>14. RunKnows(x)
       BY <1>6, <1>10, <1>13 DEF RunKnows, Looked, Loaded, Walking
<1>15. Goes(x, r, r.at)
       BY <1>6, <1>14 DEF Goes
<1> QED BY <1>1, <1>5, <1>15, Zenon DEF Leads

LEMMA StageScoresKnows ==
    ASSUME DestInv, SentInv, NEW w \in Workers, StageScores(w)
    PROVE  Leads(w)
<1>1. PICK r : r = run[w]
      OBVIOUS
<1>2. r.pc = "rescore" /\ r \in AnyRun /\ RunKnows(r) /\ kind = "export"
      BY <1>1 DEF StageScores, Go, DestInv, SentInv, Fits
<1>3. PICK sent, x : /\ sent = {[trace |-> p[2], score |-> scores[p[2]].rev] : p \in r.changed}
                     /\ x = [r EXCEPT !.pc = "upload", !.changed = {}, !.rescored = sent]
      BY Zenon
<1>4. run' = [run EXCEPT ![w] = x]
      BY <1>1, <1>3 DEF StageScores, Go
<1>5. /\ x.pc = "upload" /\ x.sat = r.sat /\ x.changed = {} /\ x.from = r.from /\ x.at = r.at /\ x.sfrom = r.sfrom
      /\ x.page = r.page /\ x.entries = r.entries /\ x.staged = r.staged /\ x.rescored = sent
      BY <1>2, <1>3 DEF AnyRun
<1>6. Known(x) /\ EntriesFull(x) /\ PageFull(x) /\ StagedFine(x) /\ StagedOrdered(x) /\ StagedFull(x)
      BY <1>2, <1>5 DEF RunKnows, Known, EntriesFull, PageFull, Listing, Paging, StagedFine, StagedOrdered,
         StagedFull, IsStaged
<1>7. ASSUME NEW t \in Matching, NewScore(x, t), ~Before(r.sat, ScorePlace(t))
      PROVE  (\E s \in sent : s.trace = t) \/ GoneTo(t, r.at)
      <2>1. NewScore(r, t)
            BY <1>5, <1>7 DEF NewScore
      <2>2. ScorePlace(t) \in r.changed \/ GoneTo(t, r.at)
            BY <1>2, <1>7, <2>1 DEF RunKnows, ScoresListed
      <2>3. ASSUME ScorePlace(t) \in r.changed PROVE \E s \in sent : s.trace = t
            <3>1. PICK s : s = [trace |-> ScorePlace(t)[2], score |-> scores[ScorePlace(t)[2]].rev]
                  OBVIOUS
            <3>2. s \in sent /\ s.trace = t
                  BY <1>3, <2>3, <3>1 DEF ScorePlace
            <3> QED BY <3>2
      <2> QED BY <2>2, <2>3
<1>8. ASSUME NEW s \in sent PROVE FineScore(s.trace, r.sat, s.score)
      <2>1. PICK p \in r.changed : s = [trace |-> p[2], score |-> scores[p[2]].rev]
            BY <1>3, <1>8
      <2>2. p[2] \in Traces
            BY <1>2, RunParts
      <2>3. s.score = scores[s.trace].rev /\ scores[s.trace].rev \in Nat
            BY <2>1, <2>2, ByTraceTypes DEF DestInv
      <2> QED BY <2>3 DEF FineScore
<1>9. ScoresListed(x)
      BY <1>5, <1>7, <1>8 DEF ScoresListed, Rescoring
<1>10. RunKnows(x)
       BY <1>5, <1>6, <1>9 DEF RunKnows, Looked, Loaded, Walking
<1>11. Goes(x, r, r.at)
       BY <1>5, <1>10 DEF Goes
<1> QED BY <1>1, <1>4, <1>11 DEF Leads

-----------------------------------------------------------------------------
\* The steps that pass an entry.

\* Where a step past the first entry leads.
Passes(w) == \E x : /\ run' = [run EXCEPT ![w] = x]
                    /\ Goes(x, run[w], FeedPlace(Head(run[w].entries)))

\* A run with an entry before it.
AtItsEntry(r) == Reading(r) /\ r \in AnyRun /\ Ordered(r) /\ Feeds(r) /\ r.entries # <<>>

LEMMA RunAtEntry ==
    ASSUME DestInv, SentInv, NEW w \in Workers, run[w].pc \in AtEntry
    PROVE  AtItsEntry(run[w])
<1>1. Reading(run[w])
      BY RunReads, Zenon DEF AtEntry, InDelivery, Holding
<1> QED BY <1>1 DEF Reading, AtItsPlace, AtItsEntry

LEMMA StagedRowIs ==
    ASSUME DestInv, NEW r, AtItsEntry(r), NEW row,
           row = [trace |-> Head(r.entries).trace, ver |-> Head(r.entries).ver,
                  rev |-> r.tree[Head(r.entries).trace], score |-> r.score[Head(r.entries).trace]]
    PROVE  /\ row \in StagedRows
           /\ row.trace = Head(r.entries).trace /\ row.ver = Head(r.entries).ver
           /\ row.rev = r.tree[row.trace] /\ row.score = r.score[row.trace]
           /\ FeedPlace(row) = FeedPlace(Head(r.entries)) /\ GivenRow(row.trace, row.ver)
<1>1. PICK e : e = Head(r.entries)
      OBVIOUS
<1>2. e \in Entries /\ r \in AnyRun
      BY <1>1, TailParts DEF AtItsEntry
<1>3. e.trace \in Traces /\ e.ver \in Nat \ {0}
      BY <1>2 DEF Entries
<1>4. r.tree[e.trace] \in Nat /\ r.score[e.trace] \in Nat
      BY <1>2, <1>3, RunParts
<1>5. GivenRow(e.trace, e.ver)
      BY <1>1, TailParts DEF AtItsEntry, Feeds, Known, Issued
<1> QED BY <1>1, <1>3, <1>4, <1>5 DEF StagedRows, FeedPlace

LEMMA StagedAppended ==
    ASSUME NEW r \in AnyRun, NEW row \in StagedRows
    PROVE  /\ Append(r.staged, row) \in Seq(StagedRows) /\ Len(r.staged) \in Nat
           /\ Len(Append(r.staged, row)) = Len(r.staged) + 1
           /\ \A i \in 1 .. Len(Append(r.staged, row)) : i \in 1 .. Len(r.staged) \/ i = Len(r.staged) + 1
           /\ \A i \in 1 .. Len(r.staged) : i \in 1 .. Len(Append(r.staged, row)) /\ Append(r.staged, row)[i] = r.staged[i]
           /\ Len(r.staged) + 1 \in 1 .. Len(Append(r.staged, row))
           /\ Append(r.staged, row)[Len(r.staged) + 1] = row
<1>1. PICK s : s = r.staged
      OBVIOUS
<1>2. s \in Seq(StagedRows)
      BY <1>1 DEF AnyRun
<1>3. /\ Append(s, row) \in Seq(StagedRows) /\ Len(s) \in Nat /\ Len(Append(s, row)) = Len(s) + 1
      /\ \A i \in 1 .. Len(s) : Append(s, row)[i] = s[i]
      /\ Append(s, row)[Len(s) + 1] = row
      BY <1>2, AppendProperties, LenProperties
<1> QED BY <1>1, <1>3

LEMMA StagedHigher ==
    ASSUME DestInv, SentInv, NEW r, AtItsEntry(r), kind = "export", r.pc = "stage", Loaded(r),
           NEW row \in StagedRows, FeedPlace(row) = FeedPlace(Head(r.entries)),
           row.trace = Head(r.entries).trace, row.ver = Head(r.entries).ver, GivenRow(row.trace, row.ver),
           row.rev = r.tree[row.trace], row.score = r.score[row.trace],
           NEW y, y.staged = Append(r.staged, row), y.from = r.from, y.sfrom = r.sfrom
    PROVE  StagedUp(y, FeedPlace(Head(r.entries)))
<1>1. PICK at, n : at = FeedPlace(Head(r.entries)) /\ n = Len(r.staged) + 1
      OBVIOUS
<1>2. /\ at \in Moments /\ r.at \in Moments /\ Before(r.at, at) /\ r \in AnyRun /\ Ordered(r)
      /\ r.entries # <<>> /\ Known(r) /\ EntriesFull(r) /\ ~Before(at, at)
      <2>1. r \in AnyRun /\ Ordered(r) /\ r.entries # <<>> /\ Known(r) /\ EntriesFull(r)
            BY DEF AtItsEntry, Feeds
      <2>2. at \in Moments /\ r.at \in Moments /\ Before(r.at, at)
            BY <1>1, <2>1, TailParts DEF AnyRun, Ordered
      <2> QED BY <2>1, <2>2, BeforeOrders
<1>3. StagedFine(r) /\ StagedOrdered(r) /\ StagedFull(r)
      BY DEF AtItsEntry, Feeds
<1>4. /\ \A i \in 1 .. Len(y.staged) : i \in 1 .. Len(r.staged) \/ i = n
      /\ \A i \in 1 .. Len(r.staged) : i \in 1 .. Len(y.staged) /\ y.staged[i] = r.staged[i]
      /\ n \in 1 .. Len(y.staged) /\ y.staged[n] = row /\ Len(r.staged) \in Nat
      BY <1>1, <1>2, StagedAppended
<1>5. \A i \in 1 .. Len(r.staged) : /\ FeedPlace(r.staged[i]) \in Moments
                                    /\ ~Before(r.at, FeedPlace(r.staged[i]))
      <2>1. ASSUME NEW i \in 1 .. Len(r.staged)
            PROVE  FeedPlace(r.staged[i]) \in Moments /\ ~Before(r.at, FeedPlace(r.staged[i]))
            <3>1. r.staged[i].ver \in Nat /\ r.staged[i].trace \in Traces
                  BY <1>2, RunParts
            <3> QED BY <1>3, <3>1, SettledFeedAssumption DEF FeedPlace, Moments, StagedFine
      <2> QED BY <2>1
<1>6. \A i \in 1 .. Len(r.staged) : Before(FeedPlace(r.staged[i]), at) /\ ~Before(at, FeedPlace(r.staged[i]))
      BY <1>2, <1>5, BeforeOrders
<1>7. Whole(row.trace, row.ver, row.rev) /\ FineScore(row.trace, r.sfrom, row.score)
      <2>1. Head(r.entries) = r.entries[1] /\ 1 \in 1 .. Len(r.entries)
            BY <1>2, TailParts
      <2> QED BY <2>1 DEF Loaded
<1>8. ASSUME NEW i \in 1 .. Len(y.staged), NEW s, s = y.staged[i]
      PROVE  /\ GivenRow(s.trace, s.ver) /\ Whole(s.trace, s.ver, s.rev) /\ FineScore(s.trace, y.sfrom, s.score)
             /\ ~Before(at, FeedPlace(s))
      <2>1. CASE i \in 1 .. Len(r.staged)
            BY <1>3, <1>4, <1>6, <1>8, <2>1 DEF StagedFine
      <2>2. CASE i = n
            BY <1>1, <1>2, <1>4, <1>7, <1>8, <2>2
      <2> QED BY <1>4, <2>1, <2>2
<1>9. StagedOrdered(y)
      <2>1. ASSUME NEW i \in 1 .. Len(y.staged), NEW j \in 1 .. Len(y.staged), i < j
            PROVE  Before(FeedPlace(y.staged[i]), FeedPlace(y.staged[j]))
            <3>1. i \in 1 .. Len(r.staged)
                  BY <1>1, <1>4, <2>1
            <3>2. CASE j \in 1 .. Len(r.staged)
                  BY <1>3, <1>4, <2>1, <3>1, <3>2 DEF StagedOrdered
            <3>3. CASE j = n
                  BY <1>1, <1>4, <1>6, <3>1, <3>3
            <3> QED BY <1>4, <3>2, <3>3
      <2> QED BY <2>1 DEF StagedOrdered
<1>10. ASSUME NEW t \in Matching, AtRest(t), Before(y.from, At(t)), ~Before(at, At(t))
       PROVE  IsStaged(y, t)
       <2>1. CASE ~Before(r.at, At(t))
             BY <1>3, <1>4, <1>10, <2>1 DEF StagedFull, IsStaged
       <2>2. CASE Before(r.at, At(t))
             <3>1. row.trace = t /\ row.ver = feedRow[t].ver
                   BY <1>1, <1>2, <1>10, <2>2, NextIsShown DEF DestInv, SentInv
             <3> QED BY <1>4, <3>1 DEF IsStaged
       <2> QED BY <2>1, <2>2
<1> QED BY <1>1, <1>8, <1>9, <1>10 DEF StagedUp

LEMMA StageEntryKnows ==
    ASSUME DestInv, SentInv, NEW w \in Workers, StageEntry(w)
    PROVE  Leads(w) \/ Passes(w)
<1>1. PICK r : r = run[w]
      OBVIOUS
<1>2. /\ r.pc = "stage" /\ AtItsEntry(r) /\ Reading(r) /\ r \in AnyRun /\ Ordered(r) /\ Feeds(r) /\ r.entries # <<>>
      /\ kind = "export" /\ Loaded(r)
      <2>1. r.pc = "stage"
            BY <1>1 DEF StageEntry, Go
      <2>2. AtItsEntry(r)
            BY <1>1, <2>1, RunAtEntry DEF AtEntry
      <2>3. Fits(r) /\ RunKnows(r)
            BY <1>1 DEF SentInv
      <2> QED BY <2>1, <2>2, <2>3 DEF AtItsEntry, Fits, RunKnows
<1>3. Known(r) /\ EntriesFull(r) /\ PageFull(r) /\ r.sat = r.sfrom /\ r.rescored = {}
      BY <1>2 DEF Feeds
<1>4. \A u \in Traces : feedRow[u].ver \in Nat
      BY ByTraceTypes DEF DestInv
<1>5. PICK e, x : e = Head(r.entries) /\ x = [r EXCEPT !.pc = "scores", !.entries = <<>>, !.seen = NoVersions,
                                        !.tree = NoVersions, !.score = NoVersions]
      OBVIOUS
<1>6. run' = [run EXCEPT ![w] = CASE ~Wanted(e) -> PassedTo(r, "stage")
                [] Wanted(e) /\ r.seen[e.trace] = e.src -> Staged(r, e)
                [] Wanted(e) /\ r.seen[e.trace] # e.src -> x]
      BY <1>1, <1>5 DEF StageEntry, Go
<1>7. CASE ~Wanted(e)
      <2>1. StagedUp(r, FeedPlace(Head(r.entries)))
            BY <1>2, <1>5, <1>7, UnwantedStaged DEF DestInv, SentInv
      <2>2. Goes(PassedTo(r, "stage"), r, FeedPlace(Head(r.entries)))
            BY <1>2, <1>3, <1>4, <2>1, PassedKnows
      <2>3. run' = [run EXCEPT ![w] = PassedTo(r, "stage")]
            BY <1>6, <1>7
      <2> QED BY <1>1, <2>2, <2>3 DEF Passes
<1>8. CASE Wanted(e) /\ r.seen[e.trace] = e.src
      <2>1. PICK row, n, y :
               /\ row = [trace |-> e.trace, ver |-> e.ver, rev |-> r.tree[e.trace], score |-> r.score[e.trace]]
               /\ n = r.sent + 1
               /\ y = [r EXCEPT !.sent = n, !.staged = Append(@, row)]
            BY Zenon
      <2>2. run' = [run EXCEPT ![w] = PassedTo(y, "stage")]
            <3>1. run' = [run EXCEPT ![w] = Staged(r, e)]
                  BY <1>6, <1>8
            <3>2. y = [r EXCEPT !.sent = @ + 1, !.staged = Append(@, row)]
                  BY <1>2, <2>1 DEF AnyRun
            <3> QED BY <2>1, <3>1, <3>2 DEF Staged
      <2>3. /\ row \in StagedRows /\ FeedPlace(row) = FeedPlace(e) /\ row.trace = e.trace /\ row.ver = e.ver
            /\ row.rev = r.tree[row.trace] /\ row.score = r.score[row.trace] /\ GivenRow(row.trace, row.ver)
            BY <1>2, <1>5, <2>1, StagedRowIs
      <2>4. /\ y \in AnyRun /\ y.pc = "stage" /\ y.staged = Append(r.staged, row) /\ y.entries = r.entries
            /\ y.page = r.page /\ y.at = r.at /\ y.from = r.from /\ y.sat = r.sat /\ y.sfrom = r.sfrom
            /\ y.rescored = r.rescored /\ y.tree = r.tree /\ y.score = r.score
            <3>1. n \in Nat
                  BY <1>2, <2>1 DEF AnyRun
            <3>2. Append(r.staged, row) \in Seq(StagedRows)
                  BY <1>2, <2>3, StagedAppended
            <3>3. y = [r EXCEPT !.sent = n, !.staged = Append(r.staged, row)]
                  BY <1>2, <2>1 DEF AnyRun
            <3> QED BY ONLY <1>2, <3>1, <3>2, <3>3 DEF AnyRun
      <2>5. StagedUp(y, FeedPlace(Head(r.entries)))
            BY <1>2, <1>5, <2>3, <2>4, StagedHigher
      <2>6. Ordered(y) /\ Known(y) /\ EntriesFull(y) /\ PageFull(y) /\ Loaded(y)
            <3>1. Ordered(y)
                  BY <1>2, <2>4 DEF Ordered
            <3>2. Known(y) /\ EntriesFull(y) /\ PageFull(y)
                  BY <1>3, <2>4 DEF Known, EntriesFull, PageFull, Listing, Paging
            <3>3. Loaded(y)
                  BY <1>2, <2>4 DEF Loaded
            <3> QED BY <3>1, <3>2, <3>3
      <2>7. Goes(PassedTo(y, "stage"), y, FeedPlace(Head(y.entries)))
            BY <1>2, <1>3, <1>4, <2>4, <2>5, <2>6, PassedKnows
      <2>8. Goes(PassedTo(y, "stage"), r, FeedPlace(Head(r.entries)))
            BY <2>4, <2>7 DEF Goes
      <2> QED BY <1>1, <2>2, <2>8 DEF Passes
<1>9. CASE Wanted(e) /\ r.seen[e.trace] # e.src
      <2>1. run' = [run EXCEPT ![w] = x]
            BY <1>6, <1>9
      <2>2. /\ x.pc = "scores" /\ x.entries = <<>> /\ x.page = r.page /\ x.staged = r.staged /\ x.rescored = r.rescored
            /\ x.at = r.at /\ x.from = r.from /\ x.sat = r.sat /\ x.sfrom = r.sfrom
            BY <1>2, <1>5 DEF AnyRun
      <2>3. x.page = {} /\ Len(x.entries) = 0
            BY <1>2, <2>2, EmptySeq DEF Loaded
      <2>4. Known(x) /\ EntriesFull(x) /\ PageFull(x)
            BY <1>3, <2>2, <2>3 DEF Known, EntriesFull, PageFull
      <2>5. Feeds(x)
            BY <1>2, <2>2, <2>4 DEF Feeds, StagedFine, StagedOrdered, StagedFull, IsStaged
      <2>6. RunKnows(x)
            BY <2>2, <2>5, KnowsCalm, Zenon DEF Calm
      <2> QED BY <1>1, <2>1, <2>2, <2>6 DEF Goes, Leads
<1> QED BY <1>7, <1>8, <1>9

-----------------------------------------------------------------------------
\* Which steps are those of the kind of rule.

\* Where a step of a run leads, as far as its kind goes.
FitsNext(w) == \E x : run' = [run EXCEPT ![w] = x] /\ Fits(x)

LEMMA EndPageFits ==
    ASSUME NEW r \in AnyRun
    PROVE  Fits(EndPage(r)) /\ EndPage(r).pc \in {"scores", "record", "list"}
<1>1. PICK x : x = EndPage(r)
      OBVIOUS
<1>2. x.pc \in {"scores", "record", "list"} /\ (x.pc = "scores" => kind = "export")
      <2>1. CASE r.blocked \/ ~r.more
            <3>1. PICK last : last = IF kind = "export" THEN "scores" ELSE "record"
                  OBVIOUS
            <3>2. x = [r EXCEPT !.pc = last]
                  BY <1>1, <2>1, <3>1 DEF EndPage
            <3> QED BY <3>1, <3>2 DEF AnyRun
      <2>2. CASE ~r.blocked /\ r.more /\ Full(r)
            <3>1. PICK last : last = IF kind = "export" THEN "scores" ELSE "record"
                  OBVIOUS
            <3>2. x = [r EXCEPT !.pc = last, !.again = TRUE]
                  BY <1>1, <2>2, <3>1 DEF EndPage
            <3> QED BY <3>1, <3>2 DEF AnyRun
      <2>3. CASE ~r.blocked /\ r.more /\ ~Full(r)
            <3>1. x = [r EXCEPT !.pc = "list"]
                  BY <1>1, <2>3 DEF EndPage
            <3> QED BY <3>1 DEF AnyRun
      <2> QED BY <2>1, <2>2, <2>3
<1> QED BY <1>1, <1>2, Zenon DEF Fits, InDelivery, Holding

LEMMA WalkedFits ==
    ASSUME NEW r \in AnyRun
    PROVE  Fits(Walked(r))
<1>1. PICK n, known : /\ n = r.examined + Len(r.entries)
                      /\ known = [r EXCEPT !.examined = n, !.seen = NoVersions, !.held = {}]
      BY Zenon
<1>2. n \in Nat
      <2>1. r.entries \in Seq(Entries) /\ r.examined \in Nat
            BY DEF AnyRun
      <2>2. Len(r.entries) \in Nat
            BY <2>1, LenProperties
      <2> QED BY <1>1, <2>1, <2>2
<1>3. known \in AnyRun
      <2>1. NoVersions \in PerTrace /\ {} \in SUBSET Traces
            BY DEF NoVersions, PerTrace
      <2> QED BY <1>1, <1>2, <2>1 DEF AnyRun
<1>4. Walked(r) = CASE r.entries = <<>> -> EndPage(known)
          [] r.entries # <<>> /\ Webhook -> [known EXCEPT !.pc = "send"]
          [] r.entries # <<>> /\ ~Webhook -> [known EXCEPT !.pc = "load"]
      BY <1>1 DEF Walked, AnyRun
<1>5. CASE r.entries = <<>>
      BY <1>3, <1>4, <1>5, EndPageFits
<1>6. CASE r.entries # <<>> /\ Webhook
      <2>1. PICK x : x = [known EXCEPT !.pc = "send"]
            OBVIOUS
      <2>2. x.pc = "send" /\ Walked(r) = x
            BY <1>3, <1>4, <1>6, <2>1 DEF AnyRun
      <2> QED BY <1>6, <2>2 DEF Fits
<1>7. CASE r.entries # <<>> /\ ~Webhook
      <2>1. PICK x : x = [known EXCEPT !.pc = "load"]
            OBVIOUS
      <2>2. x.pc = "load" /\ Walked(r) = x
            BY <1>3, <1>4, <1>7, <2>1 DEF AnyRun
      <2> QED BY <2>2, Zenon DEF Fits, InDelivery, Holding
<1> QED BY <1>5, <1>6, <1>7

LEMMA BlockedFits ==
    ASSUME NEW r \in AnyRun
    PROVE  Fits(BlockedPage(r))
<1>1. PICK x : x = [r EXCEPT !.page = {}, !.blocked = TRUE]
      OBVIOUS
<1>2. x \in AnyRun
      BY <1>1 DEF AnyRun
<1> QED BY <1>1, <1>2, WalkedFits DEF BlockedPage

LEMMA ListedFits ==
    ASSUME NEW r \in AnyRun, NEW e \in FirstOf(r.page), NEW shown \in BOOLEAN
    PROVE  Fits(Listed(r, e, shown))
<1>1. PICK n, x : /\ n = [trace |-> e.trace, ver |-> e.ver, src |-> e.src, shown |-> shown]
                  /\ x = [r EXCEPT !.page = @ \ {e}, !.pc = "walk", !.entries = Append(@, n)]
      BY Zenon
<1>2. e \in FeedRows
      BY DEF FirstOf, AnyRun
<1>3. n \in Entries
      BY <1>1, <1>2 DEF FeedRows, Entries
<1>4. Listed(r, e, shown) = IF x.page = {} THEN Walked(x) ELSE x
      BY <1>1 DEF Listed
<1>5. Append(r.entries, n) \in Seq(Entries)
      <2>1. r.entries \in Seq(Entries)
            BY DEF AnyRun
      <2> QED BY <2>1, <1>3, AppendProperties
<1>6. x \in AnyRun /\ x.pc = "walk"
      <2>1. "walk" \in Pcs
            BY DEF Pcs
      <2> HIDE DEF Pcs
      <2>2. r.page \ {e} \in SUBSET FeedRows
            BY DEF AnyRun
      <2> QED BY <1>1, <1>5, <2>1, <2>2 DEF AnyRun
<1>7. Fits(x)
      BY <1>6 DEF Fits, InDelivery, Holding
<1> QED BY <1>4, <1>6, <1>7, WalkedFits

LEMMA DecidedFits ==
    ASSUME NEW r \in AnyRun, NEW e \in FirstOf(r.page)
    PROVE  Fits(Decided(r, e))
<1>1. CASE r.seen[e.trace] > e.src
      BY <1>1, BlockedFits DEF Decided
<1>2. CASE ~(r.seen[e.trace] > e.src)
      <2>1. PICK shown \in BOOLEAN : shown <=> r.seen[e.trace] = e.src
            OBVIOUS
      <2>2. Fits(Listed(r, e, shown))
            BY ListedFits
      <2>3. shown = (r.seen[e.trace] = e.src)
            BY <2>1
      <2> QED BY <1>2, <2>2, <2>3 DEF Decided
<1> QED BY <1>1, <1>2

LEMMA PassedToFits ==
    ASSUME NEW r \in AnyRun, r.entries # <<>>, NEW pc \in {"send", "forward", "stage"},
           pc = "send" => Webhook, pc = "forward" => kind = "otlp", pc = "stage" => kind = "export"
    PROVE  Fits(PassedTo(r, pc)) /\ PassedTo(r, pc).pc \notin {"idle", "mark", "cover"}
<1>1. PICK at, x, y : /\ at = FeedPlace(Head(r.entries))
                      /\ x = [r EXCEPT !.at = at, !.entries = Tail(@), !.covers = FALSE, !.pc = pc]
                      /\ y = [x EXCEPT !.tree = NoVersions, !.seen = NoVersions, !.score = NoVersions]
      BY Zenon
<1>2. PassedTo(r, pc) = IF x.entries = <<>> THEN EndPage(y) ELSE x
      BY <1>1 DEF PassedTo
<1>3. x \in AnyRun /\ x.pc = pc
      <2>1. pc \in Pcs
            BY Zenon DEF Pcs
      <2>2. at \in Moments /\ Tail(r.entries) \in Seq(Entries)
            BY <1>1, TailParts
      <2> HIDE DEF Pcs
      <2> QED BY <1>1, <2>1, <2>2 DEF AnyRun
<1>4. y \in AnyRun
      <2>1. NoVersions \in PerTrace
            BY DEF NoVersions, PerTrace
      <2>2. y = [x EXCEPT !.tree = NoVersions, !.seen = NoVersions, !.score = NoVersions] /\ x \in AnyRun
            BY <1>1, <1>3
      <2> QED BY ONLY <2>1, <2>2 DEF AnyRun
<1>5. Fits(x)
      BY <1>3, Zenon DEF Fits, InDelivery, Holding
<1> QED BY <1>2, <1>3, <1>4, <1>5, EndPageFits

LEMMA ReadFits ==
    ASSUME DestInv, SentInv, NEW w \in Workers,
           \/ ReadPage(w) \/ (\E what \in {"summaries", "pending"} : LookUp(w, what))
           \/ WalkEntry(w) \/ LookAgain(w)
    PROVE  FitsNext(w)
<1>1. PICK r : r = run[w]
      OBVIOUS
<1>2. r \in AnyRun
      BY <1>1 DEF DestInv
<1>3. CASE ReadPage(w)
      <2>1. PICK limit, rows : /\ limit = (IF MaxPerRun - r.sent < pageSize THEN MaxPerRun - r.sent ELSE pageSize)
                               /\ rows = Activities(r.at)
            OBVIOUS
      <2>2. PICK more, list, page : /\ more = (Cardinality(rows) > limit) /\ list = PageOf(rows, limit)
                                    /\ page = [r EXCEPT !.pc = "look", !.more = more, !.got = {}, !.page = list]
            BY Zenon
      <2>3. run' = [run EXCEPT ![w] = IF rows = {} THEN EndPage(page) ELSE page]
            BY <1>1, <1>3, <2>1, <2>2 DEF ReadPage, Go
      <2>4. rows \in SUBSET FeedRows /\ list \in SUBSET FeedRows
            <3>1. r.at \in Moments
                  BY <1>2 DEF AnyRun
            <3> QED BY <2>1, <2>2, <3>1, RowsAhead DEF DestInv, PageOf
      <2>5. page \in AnyRun /\ page.pc = "look"
            <3>1. "look" \in Pcs
                  BY DEF Pcs
            <3>2. more \in BOOLEAN
                  BY <2>2
            <3> HIDE DEF Pcs
            <3> QED BY <1>2, <2>2, <2>4, <3>1, <3>2, Zenon DEF AnyRun
      <2>6. Fits(page)
            BY <2>5 DEF Fits, InDelivery, Holding
      <2> QED BY <2>3, <2>5, <2>6, EndPageFits DEF FitsNext
<1>4. ASSUME NEW what \in {"summaries", "pending"}, LookUp(w, what)
      PROVE  FitsNext(w)
      <2>1. r.pc = "look"
            BY <1>1, <1>4 DEF LookUp, Go
      <2>2. PICK got, seen, held, pc :
               /\ run' = [run EXCEPT ![w] = [r EXCEPT !.got = got, !.seen = seen, !.held = held, !.pc = pc]]
               /\ pc \in {"walk", "look"}
            BY <1>1, <1>4, <2>1, <1>2, Zenon DEF LookUp, Go, AnyRun
      <2>3. PICK x : x = [r EXCEPT !.got = got, !.seen = seen, !.held = held, !.pc = pc]
            OBVIOUS
      <2>4. x.pc = pc
            BY <1>2, <2>3 DEF AnyRun
      <2>5. Fits(x)
            BY <2>2, <2>4, Zenon DEF Fits, InDelivery, Holding
      <2> QED BY <2>2, <2>3, <2>5 DEF FitsNext
<1>5. ASSUME WalkEntry(w) \/ LookAgain(w)
      PROVE  FitsNext(w)
      <2>1. PICK x : /\ run' = [run EXCEPT ![w] = x]
                     /\ \/ x = BlockedPage(r)
                        \/ \E e \in FirstOf(r.page) :
                              \/ x = Decided(r, e)
                              \/ \E pc \in {"pending again", "trace again"} : x = [r EXCEPT !.pc = pc]
                              \/ x = [r EXCEPT !.pc = "pending last", !.seen[e.trace] = Summaries[e.trace]]
            <3>1. CASE WalkEntry(w)
                  BY <1>1, <3>1, Zenon DEF WalkEntry, Go
            <3>2. CASE LookAgain(w)
                  BY <1>1, <3>2, Zenon DEF LookAgain, Go
            <3> QED BY <1>5, <3>1, <3>2, Zenon
      <2>2. x.pc \in Walking => Fits(x)
            BY Zenon DEF Walking, Fits, InDelivery, Holding
      <2>3. ASSUME NEW e \in FirstOf(r.page), x = [r EXCEPT !.pc = "pending last", !.seen[e.trace] = Summaries[e.trace]]
            PROVE  x.pc \in Walking
            <3>1. PICK seen : seen = [r.seen EXCEPT ![e.trace] = Summaries[e.trace]]
                  OBVIOUS
            <3>2. x = [r EXCEPT !.pc = "pending last", !.seen = seen]
                  BY <1>2, <2>3, <3>1 DEF AnyRun
            <3> QED BY <1>2, <3>2 DEF AnyRun, Walking
      <2>4. ASSUME NEW pc \in {"pending again", "trace again"}, x = [r EXCEPT !.pc = pc]
            PROVE  x.pc \in Walking
            BY <1>2, <2>4, Zenon DEF AnyRun, Walking
      <2> QED BY <1>2, <2>1, <2>2, <2>3, <2>4, BlockedFits, DecidedFits, Zenon DEF FitsNext
<1> QED BY <1>3, <1>4, <1>5

-----------------------------------------------------------------------------
\* What was passed stays at the destination.

\* What a step may do to what was answered.
Grew ==
    /\ kind' = kind
    /\ history.ok \subseteq history'.ok /\ history.rejected \subseteq history'.rejected
    /\ history.overlap => history'.overlap
\* The destination keeps what a position has passed.
KeepsAt(pos) ==
    \A t \in Matching :
       /\ feedRow'[t] = feedRow[t] /\ stored'[t].rev = stored[t].rev
       /\ AtRest(t) /\ ~Before(pos, At(t)) /\ Has(t)
       => Has(t)'
KeepsScores == (\A t \in Traces : dest'[t].score = dest[t].score) \/ history'.overlap \/ kind # "export"

LEMMA HasStays ==
    ASSUME DestTypes, Grew, dest' = dest, NEW t, feedRow'[t] = feedRow[t], stored'[t].rev = stored[t].rev, Has(t)
    PROVE  Has(t)'
<1>1. CASE Webhook
      BY <1>1 DEF Has, Grew, Webhook, VersionKey, ActivityKey
<1>2. CASE kind = "otlp"
      BY <1>2 DEF Has, Grew, Webhook, VersionKey, ActivityKey
<1>3. CASE kind = "export"
      BY <1>3 DEF Has, Grew, Webhook, VersionKey, ActivityKey
<1>4. Webhook \/ kind = "otlp" \/ kind = "export"
      BY DestinationAssumption DEF DestTypes, Webhook
<1> QED BY <1>1, <1>2, <1>3, <1>4

LEMMA KeepsAll ==
    ASSUME DestTypes, Grew, dest' = dest, NEW pos
    PROVE  KeepsAt(pos) /\ KeepsScores
BY HasStays DEF KeepsAt, KeepsScores

LEMMA SentToStays ==
    ASSUME Stable, NEW pos \in Moments, Given(pos), SentTo(pos), KeepsAt(pos)
    PROVE  SentTo(pos)'
<1>1. ASSUME NEW t \in Matching, AtRest(t)', ~Before(pos, At(t)')
      PROVE  Has(t)'
      <2>1. t \in Traces
            BY DestinationAssumption
      <2>2. feedRow'[t].ver # 0
            <3>1. feedRow'[t] # NoRow /\ (feedRow'[t].ver = 0 => feedRow'[t] = NoRow)
                  BY <1>1, <2>1 DEF AtRest, Stable, FeedOk
            <3> QED BY <3>1
      <2>3. feedRow'[t] = feedRow[t] /\ AtRest(t) /\ ~Before(pos, At(t)) /\ stored'[t].rev = stored[t].rev
            BY <1>1, <2>1, <2>2, PassedStays
      <2>4. Has(t)
            BY <2>3 DEF SentTo
      <2> QED BY <2>3, <2>4 DEF KeepsAt
<1> QED BY <1>1 DEF SentTo

LEMMA ScoresToStays ==
    ASSUME Stable, NEW pos \in Moments, NEW spos \in Moments, Given(pos), Given(spos), ScoresTo(pos, spos),
           \A t \in Traces : dest'[t].score = dest[t].score
    PROVE  ScoresTo(pos, spos)'
<1>1. ASSUME NEW t \in Matching, AtRest(t)', ~Before(pos, At(t)'), ScoreSettled(t, spos)'
      PROVE  dest'[t].score = scores'[t].rev
      <2>1. t \in Traces
            BY DestinationAssumption
      <2>2. feedRow'[t].ver # 0
            <3>1. feedRow'[t] # NoRow /\ (feedRow'[t].ver = 0 => feedRow'[t] = NoRow)
                  BY <1>1, <2>1 DEF AtRest, Stable, FeedOk
            <3> QED BY <3>1
      <2>3. AtRest(t) /\ ~Before(pos, At(t))
            BY <1>1, <2>1, <2>2, PassedStays
      <2>4. ScoreSettled(t, spos) /\ scores'[t] = scores[t]
            BY <1>1, <2>1, SettledStays
      <2> QED BY <2>1, <2>3, <2>4 DEF ScoresTo
<1> QED BY <1>1 DEF ScoresTo

LEMMA SentStands ==
    ASSUME Stable, Grew, NEW r \in AnyRun, Known(r), RunSent(r),
           r.pc # "idle" => KeepsAt(r.from) /\ KeepsAt(r.at) /\ KeepsScores
    PROVE  RunSent(r)'
<1>1. r.from \in Moments /\ r.at \in Moments /\ r.sat \in Moments /\ Given(r.from) /\ Given(r.at) /\ Given(r.sat)
      BY RunParts DEF Known
<1>2. ASSUME r.pc # "idle" PROVE SentTo(r.from)'
      BY <1>1, <1>2, SentToStays DEF RunSent
<1>3. ASSUME r.pc # "idle", kind # "export" \/ r.pc = "record" PROVE SentTo(r.at)'
      BY <1>1, <1>3, SentToStays DEF RunSent
<1>4. ASSUME kind = "export", r.pc = "record", ~history'.overlap PROVE ScoresTo(r.at, r.sat)'
      <2>1. ScoresTo(r.at, r.sat) /\ \A t \in Traces : dest'[t].score = dest[t].score
            BY <1>4 DEF RunSent, Grew, KeepsScores
      <2> QED BY <1>1, <2>1, ScoresToStays
<1>5. r.pc \in {"mark", "cover"} => VersionKey(Head(r.entries)) \in history'.ok
      BY DEF RunSent, Grew
<1>6. kind' = kind
      BY DEF Grew
<1> QED BY <1>2, <1>3, <1>4, <1>5, <1>6 DEF RunSent

LEMMA RowsStay ==
    ASSUME Stable, RowsFine, dest' = dest
    PROVE  RowsFine'
<1>1. ASSUME NEW t \in Traces, kind = "export"
      PROVE  /\ GivenRow(t, dest[t].ver)' /\ dest'[t].score <= scores'[t].rev
             /\ dest'[t].ver # 0 => Whole(t, dest[t].ver, dest[t].rev)'
      <2>1. PICK ver, rev, score : ver = dest[t].ver /\ rev = dest[t].rev /\ score = dest[t].score
            OBVIOUS
      <2>2. ver \in Nat /\ score \in Nat
            BY <2>1 DEF Stable, FeedOk
      <2>3. GivenRow(t, ver) /\ score <= scores[t].rev /\ (ver # 0 => Whole(t, ver, rev))
            BY <1>1, <2>1 DEF RowsFine
      <2>4. GivenRow(t, ver)'
            BY <2>2, <2>3, GivenRowStays
      <2>5. score <= scores'[t].rev
            <3>1. scores[t].rev \in Nat /\ scores'[t].rev \in Nat /\ scores[t].rev <= scores'[t].rev
                  BY DEF Stable, DestTypes, Moves
            <3> QED BY <2>2, <2>3, <3>1
      <2>6. ver # 0 => Whole(t, ver, rev)'
            BY <2>2, <2>3, WholeStays DEF GivenRow
      <2> QED BY <2>1, <2>4, <2>5, <2>6 DEF GivenRow, Whole, Current
<1>2. kind' = kind
      BY DEF Stable
<1> QED BY <1>1, <1>2 DEF RowsFine

LEMMA AnswersStay ==
    ASSUME AnswersFine, Grew, UNCHANGED <<deliveries, scanner>>
    PROVE  AnswersFine'
BY DEF AnswersFine, Grew, Status

LEMMA AnswersMark ==
    ASSUME AnswersFine, Grew, NEW key, NEW status, deliveries' = With(key, status),
           status = "delivered" => key \in history'.ok, status = "covered" => key[2] = 0,
           scanner' = scanner
    PROVE  AnswersFine'
<1>1. \A k : Status(k)' = IF k = key THEN status ELSE Status(k)
      BY StatusWith
<1>2. DOMAIN deliveries' = DOMAIN deliveries \cup {key}
      BY DEF With
<1> QED BY <1>1, <1>2 DEF AnswersFine, Grew

LEMMA RuleStays ==
    ASSUME Stable, Grew, RuleFine, rule'.pos = rule.pos, rule'.spos = rule.spos, KeepsAt(rule.pos), KeepsScores
    PROVE  RuleFine'
<1>1. PICK pos, spos : pos = rule.pos /\ spos = rule.spos
      OBVIOUS
<1>2. pos \in Moments /\ spos \in Moments /\ Given(pos) /\ Given(spos) /\ SentTo(pos)
      BY <1>1 DEF RuleFine, Stable, DestTypes
<1>3. Given(pos)' /\ Given(spos)'
      BY <1>2, GivenStays
<1>4. SentTo(pos)'
      BY <1>1, <1>2, SentToStays
<1>5. kind = "export" /\ ~history'.overlap => ScoresTo(pos, spos)'
      BY <1>1, <1>2, ScoresToStays DEF RuleFine, Grew, KeepsScores
<1>6. rule'.pos = pos /\ rule'.spos = spos /\ kind' = kind
      BY <1>1 DEF Grew
<1> QED BY <1>3, <1>4, <1>5, <1>6 DEF RuleFine, Given, SentTo, ScoresTo, ScoreSettled

LEMMA AloneStays ==
    ASSUME Alone, Grew, rule'.pos = rule.pos, rule'.spos = rule.spos,
           \A v \in Workers : run'[v].pc # "idle" =>
              /\ run[v].pc # "idle" /\ run'[v].from = run[v].from
              /\ kind = "export" => run'[v].sfrom = run[v].sfrom
    PROVE  Alone'
BY DEF Alone, Grew

\* A step of a run, and a step of something else.
Keeps(v) == run[v].pc # "idle" => KeepsAt(run[v].from) /\ KeepsAt(run[v].at) /\ KeepsScores

LEMMA RunMoves ==
    ASSUME Stable, Grew, DestInv, SentInv, pageSize' = pageSize, DestFine', RuleFine', Alone',
           NEW w \in Workers, NEW x, run' = [run EXCEPT ![w] = x], RunKnows(x)', RunSent(x)', Fits(x),
           \A v \in Workers : v # w => Keeps(v)
    PROVE  SentInv'
<1>1. run'[w] = x /\ \A v \in Workers : v # w => run'[v] = run[v]
      BY OneRuns DEF DestInv
<1>2. ASSUME NEW v \in Workers, v # w, NEW y, y = run[v]
      PROVE  RunKnows(y)' /\ RunSent(y)' /\ Fits(y)
      <2>1. y \in AnyRun /\ RunKnows(y) /\ RunSent(y) /\ Fits(y)
            BY <1>2 DEF DestInv, SentInv
      <2>2. RunKnows(y)'
            BY <2>1, KnowsStays
      <2>3. RunSent(y)'
            BY <1>2, <2>1, SentStands DEF Keeps, RunKnows
      <2> QED BY <2>1, <2>2, <2>3
<1>3. ASSUME NEW y, Fits(y) PROVE Fits(y)'
      BY <1>3 DEF Fits, Grew, Webhook
<1>4. \A v \in Workers : RunKnows(run[v])' /\ RunSent(run[v])' /\ Fits(run[v])'
      <2>1. ASSUME NEW v \in Workers, NEW y, y = run'[v]
            PROVE  RunKnows(y)' /\ RunSent(y)' /\ Fits(y)'
            BY <1>1, <1>2, <1>3, <2>1
      <2> QED BY <2>1
<1> QED BY <1>4 DEF SentInv, Stable

LEMMA RunsStand ==
    ASSUME Stable, Grew, DestInv, SentInv, pageSize' = pageSize, DestFine', RuleFine', Alone',
           run' = run, \A v \in Workers : Keeps(v)
    PROVE  SentInv'
<1>1. ASSUME NEW v \in Workers, NEW y, y = run[v]
      PROVE  RunKnows(y)' /\ RunSent(y)' /\ Fits(y)
      <2>1. y \in AnyRun /\ RunKnows(y) /\ RunSent(y) /\ Fits(y)
            BY <1>1 DEF DestInv, SentInv
      <2>2. RunKnows(y)'
            BY <2>1, KnowsStays
      <2>3. RunSent(y)'
            BY <1>1, <2>1, SentStands DEF Keeps, RunKnows
      <2> QED BY <2>1, <2>2, <2>3
<1>2. ASSUME NEW y, Fits(y) PROVE Fits(y)'
      BY <1>2 DEF Fits, Grew, Webhook
<1>3. \A v \in Workers : RunKnows(run[v])' /\ RunSent(run[v])' /\ Fits(run[v])'
      <2>1. ASSUME NEW v \in Workers, NEW y, y = run'[v]
            PROVE  RunKnows(y)' /\ RunSent(y)' /\ Fits(y)'
            BY <1>1, <1>2, <2>1
      <2> QED BY <2>1
<1> QED BY <1>3 DEF SentInv, Stable

-----------------------------------------------------------------------------
\* The steps that leave the runs alone.

LEMMA StableSteps ==
    ASSUME DestInv, DestInv', SentInv, Moves, FeedOk', kind' = kind
    PROVE  Stable
BY DEF DestInv, SentInv, Stable

LEMMA SameFeedStable ==
    ASSUME DestInv, DestInv', SentInv, UNCHANGED <<feedVars, scores, kind>>,
           dest' \in [Traces -> [ver : Nat, rev : Nat, score : Nat]]
    PROVE  Stable
<1>1. DestTypes /\ FeedOk
      BY DEF DestInv, SentInv
<1>2. Moves /\ FeedOk'
      BY <1>1, FeedStands
<1> QED BY <1>2, StableSteps

LEMMA GrewSame ==
    ASSUME UNCHANGED <<kind, history>>
    PROVE  Grew
BY DEF Grew

LEMMA GrewAnswered ==
    ASSUME DestTypes, kind' = kind, NEW key, Answered(key)
    PROVE  Grew /\ key \in history'.ok
BY DEF Grew, Answered, DestTypes

LEMMA RunsLeftAlone ==
    ASSUME DestInv, SentInv, Stable, Grew, AnswersFine', UNCHANGED <<pageSize, run, dest>>,
           rule'.pos = rule.pos, rule'.spos = rule.spos
    PROVE  SentInv'
<1>1. DestTypes /\ RowsFine /\ RuleFine /\ Alone
      BY DEF DestInv, SentInv, DestFine
<1>2. \A pos : KeepsAt(pos) /\ KeepsScores
      BY <1>1, KeepsAll
<1>3. RowsFine'
      BY <1>1, RowsStay
<1>4. RuleFine'
      BY <1>1, <1>2, RuleStays
<1>5. Alone'
      BY <1>1, AloneStays
<1>6. \A v \in Workers : Keeps(v)
      BY <1>2 DEF Keeps
<1>7. DestFine'
      BY <1>3 DEF DestFine
<1> QED BY <1>4, <1>5, <1>6, <1>7, RunsStand

LEMMA FeedSent ==
    ASSUME DestInv, DestInv', SentInv,
           \/ FeedNext /\ UNCHANGED destVars
           \/ (\E t \in Traces : WriteScores(t) \/ PublishScores(t))
    PROVE  SentInv'
<1>1. UNCHANGED <<kind, pageSize, rule, run, deliveries, scanner, dest, history>>
      BY DEF destVars, WriteScores, PublishScores, ScoresOnly
<1>2. Moves /\ FeedOk'
      <2>1. DestTypes /\ FeedOk
            BY DEF DestInv, SentInv
      <2>2. CASE FeedNext /\ UNCHANGED destVars
            BY <2>1, <2>2, FeedMoves DEF destVars
      <2>3. CASE \E t \in Traces : WriteScores(t) \/ PublishScores(t)
            BY <2>1, <2>3, ScoresMove
      <2> QED BY <2>2, <2>3
<1>3. Stable
      BY <1>1, <1>2, StableSteps
<1>4. Grew
      BY <1>1, GrewSame
<1>5. AnswersFine'
      BY <1>1, <1>4, AnswersStay DEF SentInv, DestFine
<1> QED BY <1>1, <1>3, <1>4, <1>5, RunsLeftAlone

LEMMA CalmSent ==
    ASSUME DestInv, DestInv', SentInv,
           ComesDue \/ HandoffEnds \/ ScannerNext \/ (\E key \in DOMAIN deliveries : GoesStale(key)) \/ UNCHANGED destAll
    PROVE  SentInv'
<1>1. /\ UNCHANGED <<feedVars, kind, pageSize, run, scores, dest>>
      /\ rule'.pos = rule.pos /\ rule'.spos = rule.spos
      <2>1. DestTypes
            BY DEF DestInv
      <2>2. CASE ComesDue
            BY <2>1, <2>2 DEF ComesDue, DestTypes
      <2>3. CASE HandoffEnds
            BY <2>3 DEF HandoffEnds
      <2>4. CASE ScannerNext
            BY <2>4 DEF ScannerNext, ScannerClaims, ScannerPosts, ScannerMarks, ScannerDies, ScannerOnly
      <2>5. CASE \E key \in DOMAIN deliveries : GoesStale(key)
            BY <2>5 DEF GoesStale, WebhookOnly
      <2>6. CASE UNCHANGED destAll
            BY <2>6 DEF destAll, destVars
      <2> QED BY <2>2, <2>3, <2>4, <2>5, <2>6
<1>2. Stable
      <2>1. dest \in [Traces -> [ver : Nat, rev : Nat, score : Nat]]
            BY DEF SentInv, FeedOk
      <2> QED BY <1>1, <2>1, SameFeedStable
<1>3. DestTypes /\ AnswersFine
      BY DEF DestInv, SentInv, DestFine
<1>4. Grew /\ AnswersFine'
      <2>1. CASE ComesDue \/ HandoffEnds \/ UNCHANGED destAll
            <3>1. UNCHANGED <<kind, history, deliveries>> /\ (scanner' = scanner)
                  BY <2>1 DEF ComesDue, HandoffEnds, destAll, destVars
            <3> QED BY <1>3, <3>1, GrewSame, AnswersStay
      <2>2. ASSUME NEW t \in Traces, ScannerClaims(t) PROVE Grew /\ AnswersFine'
            <3>1. PICK key : key = <<t, 0, stored[t].src>>
                  OBVIOUS
            <3>2. /\ deliveries' = With(key, "pending") /\ scanner' = [key |-> key, answer |-> "none"]
                  /\ UNCHANGED <<kind, history>>
                  BY <2>2, <3>1 DEF ScannerClaims, ScannerOnly
            <3>3. \A k : Status(k)' = IF k = key THEN "pending" ELSE Status(k)
                  BY <3>2, StatusWith
            <3>4. DOMAIN deliveries' = DOMAIN deliveries \cup {key}
                  BY <3>2 DEF With
            <3> QED BY <1>3, <3>2, <3>3, <3>4, GrewSame DEF AnswersFine
      <2>3. CASE ScannerPosts
            <3>1. UNCHANGED <<kind, deliveries>>
                  BY <2>3 DEF ScannerPosts, ScannerOnly
            <3>2. CASE scanner' = [scanner EXCEPT !.answer = "failed"] /\ UNCHANGED history
                  <4>1. scanner'.answer = "failed"
                        BY <1>3, <3>2 DEF DestTypes
                  <4> QED BY <1>3, <3>1, <3>2, <4>1, GrewSame DEF AnswersFine, Status
            <3>3. CASE scanner' = [scanner EXCEPT !.answer = "delivered"] /\ Answered(scanner.key)
                  <4>1. scanner'.key = scanner.key
                        BY <1>3, <3>3 DEF DestTypes
                  <4>2. Grew /\ scanner.key \in history'.ok
                        BY <1>3, <3>1, <3>3, GrewAnswered
                  <4> QED BY <1>3, <3>1, <4>1, <4>2 DEF AnswersFine, Status, Grew
            <3> QED BY <2>3, <3>2, <3>3 DEF ScannerPosts
      <2>4. CASE ScannerMarks
            <3>1. PICK key, status : key = scanner.key /\ status = scanner.answer
                  OBVIOUS
            <3>2. /\ deliveries' = With(key, status) /\ scanner'.answer = "none" /\ UNCHANGED <<kind, history>>
                  BY <2>4, <3>1 DEF ScannerMarks, ScannerOnly
            <3>3. \A k : Status(k)' = IF k = key THEN status ELSE Status(k)
                  BY <3>2, StatusWith
            <3>4. DOMAIN deliveries' = DOMAIN deliveries \cup {key}
                  BY <3>2 DEF With
            <3>5. status \in {"none", "failed", "delivered"} /\ (status = "delivered" => key \in history.ok)
                  BY <1>3, <3>1 DEF DestTypes, AnswersFine
            <3> QED BY <1>3, <3>2, <3>3, <3>4, <3>5, GrewSame DEF AnswersFine
      <2>5. CASE ScannerDies
            <3>1. kind' = kind /\ deliveries' = deliveries /\ scanner'.answer = "none" /\ Lost(scanner.key)
                  BY <2>5 DEF ScannerDies, ScannerOnly
            <3>2. Grew /\ history'.ok = history.ok
                  BY <1>3, <3>1 DEF Grew, Lost, DestTypes
            <3> QED BY <1>3, <3>1, <3>2 DEF AnswersFine, Status
      <2>6. ASSUME NEW key \in DOMAIN deliveries, GoesStale(key) PROVE Grew /\ AnswersFine'
            <3>1. /\ deliveries' = With(key, "stale") /\ scanner' = scanner /\ kind' = kind
                  /\ history' = [history EXCEPT !.lost = @ \cup {key}]
                  BY <2>6 DEF GoesStale, WebhookOnly
            <3>2. Grew
                  BY <1>3, <3>1 DEF Grew, DestTypes
            <3> QED BY <1>3, <3>1, <3>2, AnswersMark
      <2> QED BY <2>1, <2>2, <2>3, <2>4, <2>5, <2>6 DEF ScannerNext
<1> QED BY <1>1, <1>2, <1>4, RunsLeftAlone

-----------------------------------------------------------------------------
\* The steps of a run.

LEMMA NextTyped ==
    ASSUME DestInv, DestInv', NEW w \in Workers, NEW x, run' = [run EXCEPT ![w] = x]
    PROVE  x \in AnyRun
<1>1. run'[w] = x
      BY OneRuns DEF DestInv
<1>2. run' \in [Workers -> AnyRun]
      BY Zenon DEF DestInv, AnyRun, PerTrace, FeedRows, Entries, StagedRows, Moments, Queries, Pcs
<1> QED BY <1>1, <1>2

\* A run that goes on, whatever its step changes.
LEMMA MovedSent ==
    ASSUME DestInv, DestInv', SentInv, NEW w \in Workers, NEW x, NEW at, run' = [run EXCEPT ![w] = x],
           run[w].pc # "idle", RunKnows(x), Fits(x), x.pc # "idle", x.from = run[w].from,
           kind = "export" => x.sfrom = run[w].sfrom /\ x.pc # "record",
           x.pc \in {"mark", "cover"} => VersionKey(Head(x.entries)) \in history'.ok,
           x.at = at, kind # "export" => SentTo(at)',
           Stable, Grew, UNCHANGED <<pageSize, rule>>, DestFine',
           KeepsAt(rule.pos), KeepsAt(run[w].from), KeepsScores, \A v \in Workers : v # w => Keeps(v)
    PROVE  SentInv'
<1>1. run'[w] = x /\ \A v \in Workers : v # w => run'[v] = run[v]
      BY OneRuns DEF DestInv
<1>2. x \in AnyRun
      BY NextTyped
<1>3. RunKnows(x)'
      BY <1>2, KnowsStays
<1>4. SentTo(x.from)'
      <2>1. x.from \in Moments /\ Given(x.from)
            BY <1>2, RunParts DEF RunKnows, Known
      <2>2. SentTo(x.from) /\ KeepsAt(x.from)
            BY DEF SentInv, RunSent
      <2> QED BY <2>1, <2>2, SentToStays
<1>5. kind' = kind
      BY DEF Grew
<1>6. RunSent(x)'
      BY <1>4, <1>5 DEF RunSent
<1>7. RuleFine'
      BY RuleStays DEF SentInv
<1>8. Alone'
      BY <1>1, AloneStays DEF SentInv
<1> QED BY <1>3, <1>6, <1>7, <1>8, RunMoves

\* A run that goes on, while the destination stays as it is.
LEMMA MovedPlain ==
    ASSUME DestInv, DestInv', SentInv, NEW w \in Workers, NEW x, NEW at, run' = [run EXCEPT ![w] = x],
           run[w].pc # "idle", RunKnows(x), Fits(x), x.pc # "idle", x.from = run[w].from,
           kind = "export" => x.sfrom = run[w].sfrom /\ x.pc # "record",
           x.pc \in {"mark", "cover"} => VersionKey(Head(x.entries)) \in history'.ok,
           x.at = at, kind # "export" => SentTo(at)',
           Grew, UNCHANGED <<feedVars, kind, pageSize, rule, scores, dest>>, AnswersFine'
    PROVE  SentInv'
<1>1. Stable
      <2>1. dest' \in [Traces -> [ver : Nat, rev : Nat, score : Nat]]
            BY DEF SentInv, FeedOk
      <2> QED BY <2>1, SameFeedStable
<1>2. DestFine'
      <2>1. RowsFine'
            BY <1>1, RowsStay DEF SentInv, DestFine
      <2> QED BY <2>1 DEF DestFine
<1>3. \A pos : KeepsAt(pos) /\ KeepsScores
      BY KeepsAll DEF DestInv
<1>4. \A v \in Workers : Keeps(v)
      BY <1>3 DEF Keeps
<1> QED BY <1>1, <1>2, <1>3, <1>4, MovedSent

LEMMA SentToPlain ==
    ASSUME DestInv, DestInv', SentInv, NEW at \in Moments, Given(at), SentTo(at),
           Grew, UNCHANGED <<feedVars, kind, scores, dest>>
    PROVE  SentTo(at)'
<1>1. Stable
      <2>1. dest' \in [Traces -> [ver : Nat, rev : Nat, score : Nat]]
            BY DEF SentInv, FeedOk
      <2> QED BY <2>1, SameFeedStable
<1>2. KeepsAt(at)
      BY KeepsAll DEF DestInv
<1> QED BY <1>1, <1>2, SentToStays

LEMMA RunOnlySame ==
    ASSUME SentInv, RunOnly
    PROVE  Grew /\ AnswersFine' /\ UNCHANGED <<feedVars, kind, pageSize, rule, scores, dest, history, deliveries, scanner>>
<1>1. UNCHANGED <<feedVars, kind, pageSize, rule, scores, dest, history, deliveries, scanner>>
      BY DEF RunOnly
<1>2. Grew
      BY <1>1, GrewSame
<1>3. AnswersFine'
      BY <1>1, <1>2, AnswersStay DEF SentInv, DestFine
<1> QED BY <1>1, <1>2, <1>3

\* A step that reads.
LEMMA LeadsSent ==
    ASSUME DestInv, DestInv', SentInv, NEW w \in Workers, run[w].pc # "idle", Leads(w), FitsNext(w), RunOnly
    PROVE  SentInv'
<1>1. PICK x : run' = [run EXCEPT ![w] = x] /\ Goes(x, run[w], run[w].at)
      BY DEF Leads
<1>2. Fits(x)
      <2>1. PICK y : run' = [run EXCEPT ![w] = y] /\ Fits(y)
            BY DEF FitsNext
      <2>2. run'[w] = x /\ run'[w] = y
            BY <1>1, <2>1 DEF DestInv
      <2> QED BY <2>1, <2>2
<1>3. Grew /\ AnswersFine' /\ UNCHANGED <<feedVars, kind, pageSize, rule, scores, dest, history, deliveries, scanner>>
      BY RunOnlySame
<1>4. PICK at : at = run[w].at
      OBVIOUS
<1>5. ASSUME kind # "export" PROVE SentTo(at)'
      <2>1. at \in Moments /\ Given(at) /\ SentTo(at)
            BY <1>4, <1>5, RunParts DEF DestInv, SentInv, RunKnows, Known, RunSent
      <2> QED BY <1>3, <2>1, SentToPlain
<1> QED BY <1>1, <1>2, <1>3, <1>4, <1>5, MovedPlain DEF Goes

-----------------------------------------------------------------------------
\* The steps that read.

LEMMA ReaderFits ==
    ASSUME NEW w, NEW x, run' = [run EXCEPT ![w] = x],
           \/ x.pc = "forward" /\ kind = "otlp"
           \/ x.pc \in {"load", "stage", "stored", "rescore", "upload"} /\ kind = "export"
    PROVE  FitsNext(w)
<1>1. Fits(x)
      BY Zenon DEF Fits, InDelivery, Holding
<1> QED BY <1>1 DEF FitsNext

LEMMA LoadFits ==
    ASSUME DestInv, NEW w \in Workers, LoadObservations(w) \/ \E table \in Tables : LoadRows(w, table)
    PROVE  FitsNext(w)
<1>1. PICK r : r = run[w] /\ r \in AnyRun
      BY DEF DestInv
<1>2. CASE LoadObservations(w)
      <2>1. PICK tree, x : tree = Of(EntryIds(r), Revisions) /\ x = [r EXCEPT !.tree = tree, !.pc = "forward"]
            BY Zenon
      <2>2. kind = "otlp" /\ run' = [run EXCEPT ![w] = x]
            BY <1>1, <1>2, <2>1 DEF LoadObservations, Go
      <2>3. x.pc = "forward"
            BY <1>1, <2>1 DEF AnyRun
      <2> QED BY <2>2, <2>3, ReaderFits
<1>3. ASSUME NEW table \in Tables, LoadRows(w, table) PROVE FitsNext(w)
      <2>1. PICK all, got, seen, tree, score, pc, x :
               /\ all = r.got \cup {table}
               /\ got = IF Cardinality(all) = 3 THEN {} ELSE all
               /\ seen = IF table = "traces" THEN Of(EntryIds(r), Summaries) ELSE r.seen
               /\ tree = IF table = "observations" THEN Of(EntryIds(r), Revisions) ELSE r.tree
               /\ score = IF table = "scores" THEN Of(EntryIds(r), [t \in Traces |-> scores[t].rev]) ELSE r.score
               /\ pc = IF Cardinality(all) = 3 THEN "stage" ELSE r.pc
               /\ x = [r EXCEPT !.got = got, !.seen = seen, !.tree = tree, !.score = score, !.pc = pc]
            BY Zenon
      <2>2. kind = "export" /\ r.pc = "load" /\ run' = [run EXCEPT ![w] = x]
            BY <1>1, <1>3, <2>1, Zenon DEF LoadRows, Go, AnyRun
      <2>3. x.pc \in {"load", "stage"}
            BY <1>1, <2>1, <2>2 DEF AnyRun
      <2> QED BY <2>2, <2>3, ReaderFits
<1> QED BY <1>2, <1>3

LEMMA ScoresFit ==
    ASSUME DestInv, SentInv, NEW w \in Workers, ListScores(w) \/ MatchScores(w) \/ StageScores(w)
    PROVE  FitsNext(w)
<1>1. PICK r : r = run[w] /\ r \in AnyRun /\ Fits(r)
      BY DEF DestInv, SentInv
<1>2. kind = "export"
      BY <1>1, Zenon DEF Fits, ListScores, MatchScores, StageScores, Go
<1>3. CASE ListScores(w)
      <2>1. PICK rows, pc, x : /\ rows = {ScorePlace(t) : t \in ScoreRows(r.sat)}
                               /\ pc = IF rows = {} THEN "upload" ELSE "stored"
                               /\ x = [r EXCEPT !.changed = rows, !.pc = pc]
            BY Zenon
      <2>2. run' = [run EXCEPT ![w] = x]
            BY <1>1, <1>3, <2>1 DEF ListScores, Go
      <2>3. x.pc \in {"stored", "upload"}
            BY <1>1, <2>1 DEF AnyRun
      <2> QED BY <1>2, <2>2, <2>3, ReaderFits
<1>4. CASE MatchScores(w)
      <2>1. PICK last, rows, x : /\ rows = {p \in r.changed : stored[p[2]].src # 0 /\ p[2] \in Matching}
                                 /\ x = [r EXCEPT !.pc = "rescore", !.sat = last, !.changed = rows]
                                 /\ run' = [run EXCEPT ![w] = x]
            <3>1. PICK last : Go(w, "stored", [r EXCEPT !.pc = "rescore", !.sat = last,
                                 !.changed = {p \in @ : stored[p[2]].src # 0 /\ p[2] \in Matching}])
                  BY <1>1, <1>4, Zenon DEF MatchScores
            <3>2. PICK rows : rows = {p \in r.changed : stored[p[2]].src # 0 /\ p[2] \in Matching}
                  OBVIOUS
            <3>3. run' = [run EXCEPT ![w] = [r EXCEPT !.pc = "rescore", !.sat = last, !.changed = rows]]
                  BY <3>1, <3>2 DEF Go
            <3> QED BY <3>2, <3>3, Zenon
      <2>2. x.pc = "rescore"
            BY <1>1, <2>1 DEF AnyRun
      <2> QED BY <1>2, <2>1, <2>2, ReaderFits, Zenon
<1>5. CASE StageScores(w)
      <2>1. PICK rows, x : /\ rows = {[trace |-> p[2], score |-> scores[p[2]].rev] : p \in r.changed}
                           /\ x = [r EXCEPT !.pc = "upload", !.changed = {}, !.rescored = rows]
            BY Zenon
      <2>2. run' = [run EXCEPT ![w] = x]
            BY <1>1, <1>5, <2>1 DEF StageScores, Go
      <2>3. x.pc = "upload"
            BY <1>1, <2>1 DEF AnyRun
      <2> QED BY <1>2, <2>2, <2>3, ReaderFits
<1> QED BY <1>3, <1>4, <1>5

LEMMA ReadSent ==
    ASSUME DestInv, DestInv', SentInv, NEW w \in Workers,
           \/ ReadPage(w) \/ (\E what \in {"summaries", "pending"} : LookUp(w, what))
           \/ WalkEntry(w) \/ LookAgain(w)
           \/ LoadObservations(w) \/ (\E table \in {"traces", "observations", "scores"} : LoadRows(w, table))
           \/ ListScores(w) \/ MatchScores(w) \/ StageScores(w)
    PROVE  SentInv'
<1>1. Leads(w)
      <2>1. pageSize \in Nat /\ MaxPerRun \in Nat
            BY SettledFeedAssumption, DestinationAssumption DEF SentInv
      <2>2. CASE ReadPage(w)
            BY <2>1, <2>2, ReadPageKnows
      <2>3. CASE \E what \in {"summaries", "pending"} : LookUp(w, what)
            BY <2>3, LookUpKnows
      <2>4. CASE WalkEntry(w) \/ LookAgain(w)
            BY <2>4, WalkKnows
      <2>5. CASE LoadObservations(w)
            BY <2>5, LoadObservationsKnows
      <2>6. CASE \E table \in {"traces", "observations", "scores"} : LoadRows(w, table)
            BY <2>6, LoadRowsKnows DEF Tables
      <2>7. CASE ListScores(w)
            BY <2>7, ListScoresKnows
      <2>8. CASE MatchScores(w)
            BY <2>8, MatchScoresKnows
      <2>9. CASE StageScores(w)
            BY <2>9, StageScoresKnows
      <2> QED BY <2>2, <2>3, <2>4, <2>5, <2>6, <2>7, <2>8, <2>9
<1>2. FitsNext(w)
      <2>1. CASE \/ ReadPage(w) \/ (\E what \in {"summaries", "pending"} : LookUp(w, what))
                 \/ WalkEntry(w) \/ LookAgain(w)
            BY <2>1, ReadFits
      <2>2. CASE LoadObservations(w) \/ (\E table \in {"traces", "observations", "scores"} : LoadRows(w, table))
            BY <2>2, LoadFits DEF Tables
      <2>3. CASE ListScores(w) \/ MatchScores(w) \/ StageScores(w)
            BY <2>3, ScoresFit
      <2> QED BY <2>1, <2>2, <2>3
<1>3. RunOnly
      BY Zenon DEF ReadPage, LookUp, WalkEntry, LookAgain, LoadObservations, LoadRows, ListScores, MatchScores, StageScores
<1>4. run[w].pc # "idle"
      BY Zenon DEF ReadPage, LookUp, WalkEntry, LookAgain, LoadObservations, LoadRows, ListScores, MatchScores, StageScores, Go
<1> QED BY <1>1, <1>2, <1>3, <1>4, LeadsSent

\* A run that stages an entry, or steps over it.
LEMMA StageSent ==
    ASSUME DestInv, DestInv', SentInv, NEW w \in Workers, StageEntry(w)
    PROVE  SentInv'
<1>1. PICK r, e, x : /\ r = run[w] /\ r \in AnyRun /\ e = Head(r.entries) /\ r.pc = "stage" /\ Fits(r)
                     /\ x = [r EXCEPT !.pc = "scores", !.entries = <<>>, !.seen = NoVersions,
                                      !.tree = NoVersions, !.score = NoVersions]
      BY Zenon DEF DestInv, SentInv, StageEntry, Go
<1>2. kind = "export" /\ RunOnly
      BY <1>1 DEF Fits, StageEntry
<1>3. AtItsEntry(r)
      BY <1>1, RunAtEntry DEF AtEntry
<1>4. FitsNext(w)
      <2>1. run' = [run EXCEPT ![w] = CASE ~Wanted(e) -> PassedTo(r, "stage")
                [] Wanted(e) /\ r.seen[e.trace] = e.src -> Staged(r, e)
                [] Wanted(e) /\ r.seen[e.trace] # e.src -> x]
            BY <1>1 DEF StageEntry, Go
      <2>2. CASE ~Wanted(e)
            <3>1. Fits(PassedTo(r, "stage"))
                  BY <1>1, <1>2, <1>3, PassedToFits DEF AtItsEntry
            <3> QED BY <2>1, <2>2, <3>1 DEF FitsNext
      <2>3. CASE Wanted(e) /\ r.seen[e.trace] = e.src
            <3>1. PICK row, n, y :
                     /\ row = [trace |-> e.trace, ver |-> e.ver, rev |-> r.tree[e.trace], score |-> r.score[e.trace]]
                     /\ n = r.sent + 1
                     /\ y = [r EXCEPT !.sent = n, !.staged = Append(@, row)]
                  BY Zenon
            <3>2. run' = [run EXCEPT ![w] = PassedTo(y, "stage")]
                  <4>1. run' = [run EXCEPT ![w] = Staged(r, e)]
                        BY <2>1, <2>3
                  <4>2. y = [r EXCEPT !.sent = @ + 1, !.staged = Append(@, row)]
                        BY <1>1, <3>1 DEF AnyRun
                  <4> QED BY <3>1, <4>1, <4>2 DEF Staged
            <3>3. y \in AnyRun /\ y.entries = r.entries
                  <4>1. n \in Nat
                        BY <1>1, <3>1 DEF AnyRun
                  <4>2. row \in StagedRows
                        BY <1>1, <1>3, <3>1, StagedRowIs
                  <4>3. Append(r.staged, row) \in Seq(StagedRows)
                        BY <1>1, <4>2, StagedAppended
                  <4>4. y = [r EXCEPT !.sent = n, !.staged = Append(r.staged, row)]
                        BY <1>1, <3>1 DEF AnyRun
                  <4> QED BY ONLY <1>1, <4>1, <4>3, <4>4, Zenon DEF AnyRun
            <3>4. Fits(PassedTo(y, "stage"))
                  BY <1>2, <1>3, <3>3, PassedToFits DEF AtItsEntry
            <3> QED BY <3>2, <3>4 DEF FitsNext
      <2>4. CASE Wanted(e) /\ r.seen[e.trace] # e.src
            <3>1. run' = [run EXCEPT ![w] = x] /\ x.pc = "scores"
                  BY <1>1, <2>1, <2>4 DEF AnyRun
            <3> QED BY <1>2, <3>1, Zenon DEF FitsNext, Fits, InDelivery, Holding
      <2> QED BY <2>2, <2>3, <2>4
<1>5. CASE Leads(w)
      BY <1>1, <1>2, <1>4, <1>5, LeadsSent
<1>6. CASE Passes(w)
      <2>1. PICK y : run' = [run EXCEPT ![w] = y] /\ Goes(y, run[w], FeedPlace(Head(run[w].entries)))
            BY <1>6 DEF Passes
      <2>2. Fits(y)
            <3>1. PICK z : run' = [run EXCEPT ![w] = z] /\ Fits(z)
                  BY <1>4 DEF FitsNext
            <3>2. run'[w] = y /\ run'[w] = z
                  BY <2>1, <3>1 DEF DestInv
            <3> QED BY <3>1, <3>2
      <2>3. Grew /\ AnswersFine' /\ UNCHANGED <<feedVars, kind, pageSize, rule, scores, dest, history, deliveries, scanner>>
            BY <1>2, RunOnlySame
      <2>4. PICK at : at = y.at
            OBVIOUS
      <2> QED BY <1>1, <1>2, <2>1, <2>2, <2>3, <2>4, MovedPlain DEF Goes
<1> QED BY <1>5, <1>6, StageEntryKnows

-----------------------------------------------------------------------------
\* What the destination has, by the kind of rule.

LEMMA HasSentNext ==
    ASSUME Webhook', NEW t, NEW e, e = [trace |-> t, ver |-> feedRow'[t].ver, src |-> feedRow'[t].src],
           {VersionKey(e), ActivityKey(e)} \cap history'.ok # {}
    PROVE  Has(t)'
<1>1. Webhook' /\ ~(kind' = "otlp") /\ ~(kind' = "export")
      BY DEF Webhook
<1> QED BY <1>1, Zenon DEF Has, VersionKey, ActivityKey

LEMMA HasForwardedNext ==
    ASSUME kind' = "otlp", NEW t,
           \/ dest'[t].rev = stored'[t].rev
           \/ VersionKey([trace |-> t, ver |-> feedRow'[t].ver, src |-> feedRow'[t].src]) \in history'.rejected
           \/ history'.overlap
    PROVE  Has(t)'
<1>1. ~Webhook' /\ kind' = "otlp" /\ ~(kind' = "export")
      BY DEF Webhook
<1> QED BY <1>1, Zenon DEF Has, VersionKey, ActivityKey

LEMMA HasExportedNext ==
    ASSUME kind' = "export", NEW t, dest'[t].ver = feedRow'[t].ver, dest'[t].rev = stored'[t].rev
    PROVE  Has(t)'
<1>1. ~Webhook' /\ ~(kind' = "otlp") /\ kind' = "export"
      BY DEF Webhook
<1> QED BY <1>1, Zenon DEF Has, VersionKey, ActivityKey

LEMMA HasExported ==
    ASSUME kind = "export", NEW t, Has(t)
    PROVE  dest[t].ver = feedRow[t].ver /\ dest[t].rev = stored[t].rev
<1>1. ~Webhook /\ ~(kind = "otlp") /\ kind = "export"
      BY DEF Webhook
<1> QED BY <1>1, Zenon DEF Has, VersionKey, ActivityKey

-----------------------------------------------------------------------------
\* The steps of a delivery.

\* The next position of a run that has sent its entry, or stepped over it.
LEMMA NextSentTo ==
    ASSUME DestInv, SentInv, NEW r, AtItsEntry(r), SentTo(r.at), KeepsAt(r.at), UNCHANGED feedVars,
           NEW e, e = Head(r.entries), NEW at, at = FeedPlace(e),
           \A t \in Matching :
              /\ Wanted(e) /\ e.trace = t /\ e.ver = feedRow[t].ver /\ e.src = feedRow[t].src
              /\ Current(t, e.ver)
              => Has(t)'
    PROVE  SentTo(at)'
<1>1. ASSUME NEW t \in Matching, AtRest(t)', ~Before(at, At(t)')
      PROVE  Has(t)'
      <2>1. AtRest(t) /\ ~Before(at, At(t)) /\ feedRow'[t] = feedRow[t] /\ stored'[t].rev = stored[t].rev
            BY <1>1 DEF feedVars, AtRest, At
      <2>2. CASE ~Before(r.at, At(t))
            <3>1. Has(t)
                  BY <2>1, <2>2 DEF SentTo
            <3> QED BY <2>1, <2>2, <3>1 DEF KeepsAt
      <2>3. CASE Before(r.at, At(t))
            <3>1. /\ DestTypes /\ FeedOk /\ r \in AnyRun /\ Ordered(r) /\ Known(r) /\ EntriesFull(r) /\ r.entries # <<>>
                  BY DEF DestInv, SentInv, AtItsEntry, Feeds
            <3>2. e.trace = t /\ e.ver = feedRow[t].ver /\ e.src = feedRow[t].src /\ Wanted(e) /\ Current(t, e.ver)
                  BY <2>1, <2>3, <3>1, NextIsShown
            <3> QED BY <3>2
      <2> QED BY <2>2, <2>3
<1> QED BY <1>1 DEF SentTo

LEMMA DeliveryKnows ==
    ASSUME DestInv, SentInv, NEW w \in Workers, NEW r, r = run[w], r.pc \in InDelivery \cup {"send"}
    PROVE  /\ AtItsEntry(r) /\ Reading(r) /\ r \in AnyRun /\ Feeds(r) /\ r.entries # <<>> /\ Webhook /\ kind # "export"
           /\ r.from \in Moments /\ r.at \in Moments /\ Given(r.at) /\ SentTo(r.at) /\ r.pc # "idle"
<1>1. AtItsEntry(r)
      BY RunAtEntry DEF AtEntry
<1>2. Reading(r) /\ r \in AnyRun /\ Feeds(r) /\ r.entries # <<>>
      BY <1>1 DEF AtItsEntry
<1>3. Webhook /\ kind # "export"
      BY DEF SentInv, Fits, Webhook
<1>4. r.pc # "idle"
      BY Zenon DEF InDelivery, Holding
<1>5. SentTo(r.at)
      BY <1>3, <1>4 DEF SentInv, RunSent
<1>6. r.from \in Moments /\ r.at \in Moments /\ Given(r.at)
      BY <1>2, RunParts DEF Feeds, Known
<1> QED BY <1>1, <1>2, <1>3, <1>4, <1>5, <1>6

\* A step of a delivery leaves the feed, the rule and the destination of an
\* OTLP or export rule alone.
DeliveryOnly == Grew /\ AnswersFine' /\ UNCHANGED <<feedVars, kind, pageSize, rule, scores, dest>>

LEMMA StaysSent ==
    ASSUME DestInv, DestInv', SentInv, NEW w \in Workers, NEW r, r = run[w], r.pc \in InDelivery \cup {"send"},
           NEW x, run' = [run EXCEPT ![w] = x], SameFeed(x, r), x.pc \in InDelivery,
           x.pc \in {"mark", "cover"} => VersionKey(Head(r.entries)) \in history'.ok,
           DeliveryOnly
    PROVE  SentInv'
<1>1. /\ Feeds(r) /\ Webhook /\ kind # "export" /\ r.at \in Moments /\ Given(r.at) /\ SentTo(r.at) /\ r.pc # "idle"
      BY DeliveryKnows
<1>2. RunKnows(x)
      <2>1. Feeds(x)
            BY <1>1, FeedsSame
      <2>2. x.pc \in Calm \cup {"idle", "mark", "cover"}
            BY Zenon DEF Calm, InDelivery, Holding
      <2> QED BY <2>1, <2>2, KnowsCalm
<1>3. Fits(x)
      BY <1>1, Zenon DEF Fits, InDelivery, Holding
<1>4. /\ x.pc # "idle" /\ x.from = run[w].from /\ x.entries = r.entries
      BY Zenon DEF SameFeed, InDelivery, Holding
<1>5. PICK at : at = r.at /\ x.at = at
      BY DEF SameFeed
<1>6. SentTo(at)'
      BY <1>1, <1>5, SentToPlain DEF DeliveryOnly
<1> QED BY <1>1, <1>2, <1>3, <1>4, <1>5, <1>6, MovedPlain DEF DeliveryOnly

LEMMA StoppedKnows ==
    ASSUME DestTypes, NEW r, Reading(r), kind # "export"
    PROVE  /\ RunKnows(Stopped(r)) /\ Fits(Stopped(r)) /\ Stopped(r).pc = "record"
           /\ Stopped(r).from = r.from /\ Stopped(r).at = r.at
<1>1. PICK x : x = Stopped(r)
      OBVIOUS
<1>2. x = RunAt("record", r.from, r.at, Origin, Origin)
      <2>1. PICK from, at : from = r.from /\ at = r.at
            OBVIOUS
      <2>2. x = [Idle EXCEPT !.pc = "record", !.from = from, !.at = at]
            BY <1>1, <2>1 DEF Stopped
      <2>3. x = [pc |-> "record", from |-> from, at |-> at, sfrom |-> Origin, sat |-> Origin,
                 page |-> {}, got |-> {}, seen |-> NoVersions, held |-> {},
                 entries |-> <<>>, more |-> FALSE, blocked |-> FALSE, covers |-> FALSE,
                 sent |-> 0, examined |-> 0, tree |-> NoVersions, score |-> NoVersions,
                 staged |-> <<>>, changed |-> {}, rescored |-> {}, again |-> FALSE]
            BY <2>2 DEF Idle
      <2> QED BY <2>1, <2>3 DEF RunAt
<1>3. /\ x.pc = "record" /\ x.from = r.from /\ x.at = r.at /\ x.sfrom = Origin /\ x.sat = Origin
      /\ x.page = {} /\ x.entries = <<>>
      BY <1>2 DEF RunAt
<1>4. Given(Origin)
      BY DEF Given, Origin, DestTypes, FeedTypes
<1>5. Known(r)
      BY DEF Reading, Feeds
<1>6. Len(x.entries) = 0
      BY <1>3, EmptySeq
<1>7. Feeds(x)
      BY <1>3, <1>4, <1>5, <1>6 DEF Feeds, Known, EntriesFull, PageFull
<1>8. RunKnows(x)
      BY <1>3, <1>7, KnowsCalm
<1>9. Fits(x)
      BY <1>3 DEF Fits, InDelivery, Holding
<1> QED BY <1>1, <1>3, <1>8, <1>9

LEMMA StopsSent ==
    ASSUME DestInv, DestInv', SentInv, NEW w \in Workers, NEW r, r = run[w], r.pc \in InDelivery \cup {"send"},
           run' = [run EXCEPT ![w] = Stopped(r)], DeliveryOnly
    PROVE  SentInv'
<1>1. /\ Reading(r) /\ kind # "export" /\ r.at \in Moments /\ Given(r.at) /\ SentTo(r.at) /\ r.pc # "idle"
      BY DeliveryKnows
<1>2. PICK x : x = Stopped(r)
      OBVIOUS
<1>3. RunKnows(x) /\ Fits(x) /\ x.pc = "record" /\ x.from = r.from /\ x.at = r.at
      BY <1>1, <1>2, StoppedKnows DEF DestInv
<1>4. PICK at : at = r.at
      OBVIOUS
<1>5. SentTo(at)'
      BY <1>1, <1>4, SentToPlain DEF DeliveryOnly
<1>6. run' = [run EXCEPT ![w] = x]
      BY <1>2
<1> QED BY <1>1, <1>3, <1>4, <1>5, <1>6, MovedPlain DEF DeliveryOnly

LEMMA PassesSent ==
    ASSUME DestInv, DestInv', SentInv, NEW w \in Workers, NEW r, r = run[w], r.pc \in InDelivery \cup {"send"},
           run' = [run EXCEPT ![w] = Passed(r)], DeliveryOnly, NEW e, e = Head(r.entries),
           Wanted(e) => {VersionKey(e), ActivityKey(e)} \cap history'.ok # {}
    PROVE  SentInv'
<1>1. /\ AtItsEntry(r) /\ Reading(r) /\ r \in AnyRun /\ Feeds(r) /\ r.entries # <<>> /\ Webhook /\ kind # "export"
      /\ SentTo(r.at) /\ r.pc # "idle"
      BY DeliveryKnows
<1>2. PICK x, at : x = Passed(r) /\ at = FeedPlace(e)
      OBVIOUS
<1>3. Goes(x, r, at)
      <2>1. Ordered(r) /\ Known(r) /\ EntriesFull(r) /\ PageFull(r)
            BY <1>1 DEF Reading, Feeds
      <2>2. \A u \in Traces : feedRow[u].ver \in Nat
            BY ByTraceTypes DEF DestInv
      <2>3. Goes(PassedTo(r, "send"), r, FeedPlace(Head(r.entries)))
            BY <1>1, <2>1, <2>2, PassedKnows
      <2> QED BY <1>2, <2>3 DEF Passed
<1>4. Fits(x)
      BY <1>1, <1>2, PassedToFits DEF Passed
<1>5. SentTo(at)'
      <2>1. KeepsAt(r.at)
            BY KeepsAll DEF DestInv, DeliveryOnly
      <2>2. ASSUME NEW t \in Matching, Wanted(e), e.trace = t, e.ver = feedRow[t].ver, e.src = feedRow[t].src
            PROVE  Has(t)'
            <3>1. PICK o : o = [trace |-> t, ver |-> feedRow'[t].ver, src |-> feedRow'[t].src]
                  OBVIOUS
            <3>2. o.trace = e.trace /\ o.ver = e.ver /\ o.src = e.src
                  BY <2>2, <3>1 DEF DeliveryOnly, feedVars
            <3>3. {VersionKey(o), ActivityKey(o)} \cap history'.ok # {}
                  BY <2>2, <3>2 DEF VersionKey, ActivityKey
            <3>4. Webhook'
                  BY <1>1 DEF DeliveryOnly, Webhook
            <3> QED BY <3>1, <3>3, <3>4, HasSentNext
      <2>3. UNCHANGED feedVars
            BY DEF DeliveryOnly
      <2>4. \A t \in Matching :
               /\ Wanted(e) /\ e.trace = t /\ e.ver = feedRow[t].ver /\ e.src = feedRow[t].src
               /\ Current(t, e.ver)
               => Has(t)'
            BY <2>2
      <2> QED BY <1>1, <1>2, <2>1, <2>3, <2>4, NextSentTo
<1>6. run' = [run EXCEPT ![w] = x]
      BY <1>2
<1> QED BY <1>1, <1>3, <1>4, <1>5, <1>6, MovedPlain DEF DeliveryOnly, Goes

\* What a delivery changes beside its run.
LEMMA ReadsOnly ==
    ASSUME SentInv, ReadOnly
    PROVE  DeliveryOnly
<1>1. UNCHANGED <<feedVars, kind, pageSize, rule, scores, dest, history, deliveries, scanner>>
      BY DEF ReadOnly, WebhookOnly
<1>2. Grew
      BY <1>1, GrewSame
<1>3. AnswersFine'
      BY <1>1, <1>2, AnswersStay DEF SentInv, DestFine
<1> QED BY <1>1, <1>2, <1>3 DEF DeliveryOnly

LEMMA MarksOnly ==
    ASSUME SentInv, NEW key, NEW status, deliveries' = With(key, status), UNCHANGED history, WebhookOnly,
           status = "delivered" => key \in history.ok, status = "covered" => key[2] = 0
    PROVE  DeliveryOnly
<1>1. UNCHANGED <<feedVars, kind, pageSize, rule, scores, dest, history, scanner>>
      BY DEF WebhookOnly
<1>2. Grew
      BY <1>1, GrewSame
<1>3. AnswersFine'
      BY <1>1, <1>2, AnswersMark DEF SentInv, DestFine
<1> QED BY <1>1, <1>2, <1>3 DEF DeliveryOnly

LEMMA AnswersOnly ==
    ASSUME DestInv, SentInv, NEW key, Answered(key), UNCHANGED deliveries, WebhookOnly
    PROVE  DeliveryOnly /\ key \in history'.ok
<1>1. UNCHANGED <<feedVars, kind, pageSize, rule, scores, dest, deliveries, scanner>>
      BY DEF WebhookOnly
<1>2. Grew /\ key \in history'.ok
      BY <1>1, GrewAnswered DEF DestInv
<1>3. AnswersFine'
      BY <1>1, <1>2, AnswersStay DEF SentInv, DestFine
<1> QED BY <1>1, <1>2, <1>3 DEF DeliveryOnly

LEMMA DeliveredIsOk ==
    ASSUME SentInv, NEW key
    PROVE  /\ Status(key) = "delivered" => key \in history.ok
           /\ Status(key) = "covered" => key[2] = 0
BY DEF SentInv, DestFine, AnswersFine, Status

LEMMA EntryKeys ==
    ASSUME DestInv, NEW w \in Workers, NEW r, r = run[w], r.pc \in InDelivery \cup {"send"}, NEW e, e = Head(r.entries)
    PROVE  /\ VersionKey(e)[2] # 0 /\ ActivityKey(e)[2] = 0
           /\ r \in AnyRun /\ r.sent \in Nat
<1>1. AtDelivery(run[w])
      BY DeliveryIs DEF AtEntry
<1> QED BY <1>1 DEF AtDelivery

LEMMA SameFeedGoing ==
    ASSUME NEW r \in AnyRun, NEW pc
    PROVE  SameFeed([r EXCEPT !.pc = pc], r) /\ [r EXCEPT !.pc = pc].pc = pc
BY DEF AnyRun, SameFeed

\* A step of a delivery to another program counter.
LEMMA PcSent ==
    ASSUME DestInv, DestInv', SentInv, NEW w \in Workers, NEW r, r = run[w], r.pc \in InDelivery \cup {"send"},
           NEW pc \in InDelivery, run' = [run EXCEPT ![w] = [r EXCEPT !.pc = pc]],
           pc \in {"mark", "cover"} => VersionKey(Head(r.entries)) \in history'.ok,
           DeliveryOnly
    PROVE  SentInv'
<1>1. r \in AnyRun
      BY DEF DestInv
<1>2. PICK x : x = [r EXCEPT !.pc = pc]
      OBVIOUS
<1>3. SameFeed(x, r) /\ x.pc = pc
      BY <1>1, <1>2, SameFeedGoing
<1>4. run' = [run EXCEPT ![w] = x]
      BY <1>2
<1> QED BY <1>3, <1>4, StaysSent

LEMMA BeginDeliverySent ==
    ASSUME DestInv, DestInv', SentInv, NEW w \in Workers, BeginDelivery(w)
    PROVE  SentInv'
<1>1. PICK r, e : r = run[w] /\ e = Head(r.entries)
      OBVIOUS
<1>2. /\ r.pc = "send" /\ r.pc \in InDelivery \cup {"send"} /\ r \in AnyRun
      /\ VersionKey(e)[2] # 0 /\ ActivityKey(e)[2] = 0
      <2>1. r.pc = "send"
            BY <1>1, Zenon DEF BeginDelivery
      <2> QED BY <1>1, <2>1, EntryKeys
<1>3. \/ /\ Claim(ActivityKey(e))
         /\ run' = [run EXCEPT ![w] = [r EXCEPT !.pc = "claim", !.covers = TRUE]]
      \/ /\ run' = [run EXCEPT ![w] = [r EXCEPT !.pc = "scanner status"]] /\ ReadOnly
      \/ /\ Status(ActivityKey(e)) = "delivered" /\ run' = [run EXCEPT ![w] = Passed(r)] /\ ReadOnly
      \/ /\ run' = [run EXCEPT ![w] = [r EXCEPT !.pc = "claim"]] /\ ReadOnly
      BY <1>1, Zenon DEF BeginDelivery, Go
<1>4. CASE /\ Claim(ActivityKey(e))
           /\ run' = [run EXCEPT ![w] = [r EXCEPT !.pc = "claim", !.covers = TRUE]]
      <2>1. DeliveryOnly
            BY <1>4, MarksOnly DEF Claim
      <2>2. PICK x : x = [r EXCEPT !.pc = "claim", !.covers = TRUE]
            OBVIOUS
      <2>3. SameFeed(x, r) /\ x.pc = "claim"
            BY ONLY <1>2, <2>2 DEF AnyRun, SameFeed
      <2>4. x.pc \in InDelivery /\ run' = [run EXCEPT ![w] = x]
            BY <1>4, <2>2, <2>3 DEF InDelivery, Holding
      <2> QED BY <1>1, <1>2, <2>1, <2>3, <2>4, StaysSent
<1>5. CASE run' = [run EXCEPT ![w] = [r EXCEPT !.pc = "scanner status"]] /\ ReadOnly
      BY <1>1, <1>2, <1>5, ReadsOnly, PcSent, Zenon DEF InDelivery
<1>6. CASE Status(ActivityKey(e)) = "delivered" /\ run' = [run EXCEPT ![w] = Passed(r)] /\ ReadOnly
      <2>1. ActivityKey(e) \in history'.ok
            BY <1>6, DeliveredIsOk DEF ReadOnly
      <2> QED BY <1>1, <1>2, <1>6, <2>1, ReadsOnly, PassesSent
<1>7. CASE run' = [run EXCEPT ![w] = [r EXCEPT !.pc = "claim"]] /\ ReadOnly
      BY <1>1, <1>2, <1>7, ReadsOnly, PcSent, Zenon DEF InDelivery, Holding
<1> QED BY <1>3, <1>4, <1>5, <1>6, <1>7, Zenon

LEMMA PassEntrySent ==
    ASSUME DestInv, DestInv', SentInv, NEW w \in Workers, PassEntry(w)
    PROVE  SentInv'
<1>1. PICK r, e : r = run[w] /\ e = Head(r.entries)
      OBVIOUS
<1>2. r.pc = "send" /\ ~Wanted(e) /\ run' = [run EXCEPT ![w] = Passed(r)] /\ RunOnly
      BY <1>1 DEF PassEntry, Go
<1>3. DeliveryOnly
      BY <1>2, RunOnlySame DEF DeliveryOnly
<1> QED BY <1>1, <1>2, <1>3, PassesSent

LEMMA ScannerStatusSent ==
    ASSUME DestInv, DestInv', SentInv, NEW w \in Workers, ScannerStatus(w)
    PROVE  SentInv'
<1>1. PICK r, e, status : r = run[w] /\ e = Head(r.entries) /\ status = Status(ActivityKey(e))
      OBVIOUS
<1>2. r.pc = "scanner status" /\ r.pc \in InDelivery \cup {"send"} /\ DeliveryOnly /\ UNCHANGED history
      BY <1>1, ReadsOnly, Zenon DEF ScannerStatus, Go, InDelivery, ReadOnly
<1>3. run' = [run EXCEPT ![w] = CASE status = "delivered" -> Passed(r)
                [] status = "covered" -> [r EXCEPT !.pc = "claim"]
                [] status \notin {"delivered", "covered"} -> Stopped(r)]
      BY <1>1, Zenon DEF ScannerStatus, Go
<1>4. CASE status = "delivered"
      <2>1. run' = [run EXCEPT ![w] = Passed(r)]
            BY <1>3, <1>4
      <2>2. ActivityKey(e) \in history'.ok
            BY <1>1, <1>2, <1>4, DeliveredIsOk, Zenon
      <2> QED BY <1>1, <1>2, <2>1, <2>2, PassesSent, Zenon
<1>5. CASE status = "covered"
      <2>1. run' = [run EXCEPT ![w] = [r EXCEPT !.pc = "claim"]]
            BY <1>3, <1>5
      <2> QED BY <1>1, <1>2, <2>1, PcSent, Zenon DEF InDelivery, Holding
<1>6. CASE status \notin {"delivered", "covered"}
      <2>1. run' = [run EXCEPT ![w] = Stopped(r)]
            BY <1>3, <1>6
      <2> QED BY <1>1, <1>2, <2>1, StopsSent, Zenon
<1> QED BY <1>4, <1>5, <1>6

LEMMA ClaimVersionSent ==
    ASSUME DestInv, DestInv', SentInv, NEW w \in Workers, ClaimVersion(w)
    PROVE  SentInv'
<1>1. PICK r, key : r = run[w] /\ key = VersionKey(Head(r.entries))
      OBVIOUS
<1>2. /\ r.pc = "claim" /\ r.pc \in InDelivery \cup {"send"}
      BY <1>1, Zenon DEF ClaimVersion, Go, InDelivery, Holding
<1>3. CASE run' = [run EXCEPT ![w] = [r EXCEPT !.pc = "post"]] /\ Claim(key)
      <2>1. DeliveryOnly
            BY <1>3, MarksOnly DEF Claim
      <2> QED BY <1>1, <1>2, <1>3, <2>1, PcSent, Zenon DEF InDelivery, Holding
<1>4. CASE run' = [run EXCEPT ![w] = [r EXCEPT !.pc = "version status"]] /\ ReadOnly
      BY <1>1, <1>2, <1>4, ReadsOnly, PcSent, Zenon DEF InDelivery, Holding
<1> QED BY <1>1, <1>3, <1>4, Zenon DEF ClaimVersion, Go

LEMMA VersionStatusSent ==
    ASSUME DestInv, DestInv', SentInv, NEW w \in Workers, VersionStatus(w)
    PROVE  SentInv'
<1>1. PICK r, e, status : r = run[w] /\ e = Head(r.entries) /\ status = Status(VersionKey(e))
      OBVIOUS
<1>2. /\ r.pc = "version status" /\ r.pc \in InDelivery \cup {"send"} /\ DeliveryOnly /\ UNCHANGED history
      /\ r \in AnyRun
      BY <1>1, ReadsOnly, Zenon DEF VersionStatus, Go, InDelivery, Holding, ReadOnly, DestInv
<1>3. status \in {"delivered", "covered"} => VersionKey(e) \in history'.ok
      <2>1. VersionKey(e)[2] # 0
            BY <1>1, <1>2, EntryKeys, Zenon
      <2> QED BY <1>1, <1>2, <2>1, DeliveredIsOk, Zenon
<1>4. \/ status \in {"delivered", "covered"} /\ run' = [run EXCEPT ![w] = [r EXCEPT !.pc = "cover"]]
      \/ run' = [run EXCEPT ![w] = [r EXCEPT !.pc = "release"]]
      \/ status \in {"delivered", "covered"} /\ run' = [run EXCEPT ![w] = Passed(r)]
      \/ run' = [run EXCEPT ![w] = Stopped(r)]
      <2>1. PICK done, pc : /\ done \in BOOLEAN /\ (done <=> status \in {"delivered", "covered"})
                            /\ pc = IF done THEN "cover" ELSE "release"
            <3>1. PICK done \in BOOLEAN : done <=> status \in {"delivered", "covered"}
                  OBVIOUS
            <3> QED BY <3>1
      <2>2. run' = [run EXCEPT ![w] = CASE r.covers -> [r EXCEPT !.pc = pc]
                       [] ~r.covers /\ done -> Passed(r)
                       [] ~r.covers /\ ~done -> Stopped(r)]
            BY <1>1, <2>1, Zenon DEF VersionStatus, Go
      <2>3. CASE r.covers
            <3>1. run' = [run EXCEPT ![w] = [r EXCEPT !.pc = pc]]
                  BY <2>2, <2>3
            <3> QED BY <2>1, <3>1
      <2>4. CASE ~r.covers /\ done
            <3>1. run' = [run EXCEPT ![w] = Passed(r)]
                  BY <2>2, <2>4
            <3> QED BY <2>1, <2>4, <3>1
      <2>5. CASE ~r.covers /\ ~done
            <3>1. run' = [run EXCEPT ![w] = Stopped(r)]
                  BY <2>2, <2>5
            <3> QED BY <3>1
      <2> QED BY <1>2, <2>1, <2>3, <2>4, <2>5, Zenon DEF AnyRun
<1>5. CASE status \in {"delivered", "covered"} /\ run' = [run EXCEPT ![w] = [r EXCEPT !.pc = "cover"]]
      BY <1>1, <1>2, <1>3, <1>5, PcSent, Zenon DEF InDelivery, Holding
<1>6. CASE run' = [run EXCEPT ![w] = [r EXCEPT !.pc = "release"]]
      BY <1>1, <1>2, <1>6, PcSent, Zenon DEF InDelivery, Holding
<1>7. CASE status \in {"delivered", "covered"} /\ run' = [run EXCEPT ![w] = Passed(r)]
      BY <1>1, <1>2, <1>3, <1>7, PassesSent, Zenon
<1>8. CASE run' = [run EXCEPT ![w] = Stopped(r)]
      BY <1>1, <1>2, <1>8, StopsSent, Zenon
<1> QED BY <1>4, <1>5, <1>6, <1>7, <1>8

LEMMA PostSent ==
    ASSUME DestInv, DestInv', SentInv, NEW w \in Workers, NEW ok \in BOOLEAN, Post(w, ok)
    PROVE  SentInv'
<1>1. PICK r, e : r = run[w] /\ e = Head(r.entries) /\ r \in AnyRun
      BY DEF DestInv
<1>2. /\ r.pc = "post" /\ r.pc \in InDelivery \cup {"send"} /\ UNCHANGED deliveries /\ WebhookOnly
      BY <1>1, Zenon DEF Post, Go, InDelivery, Holding
<1>3. CASE ok
      <2>1. Answered(VersionKey(e)) /\ run' = [run EXCEPT ![w] = [r EXCEPT !.pc = "mark", !.sent = @ + 1]]
            BY <1>1, <1>3 DEF Post, Go
      <2>2. DeliveryOnly /\ VersionKey(e) \in history'.ok
            BY <1>2, <2>1, AnswersOnly
      <2>3. PICK n, x : n = r.sent + 1 /\ x = [r EXCEPT !.pc = "mark", !.sent = n]
            BY Zenon
      <2>4. run' = [run EXCEPT ![w] = x]
            BY <1>1, <2>1, <2>3 DEF AnyRun
      <2>5. SameFeed(x, r) /\ x.pc = "mark"
            BY ONLY <1>1, <2>3 DEF AnyRun, SameFeed
      <2>6. x.pc \in InDelivery
            BY <2>5 DEF InDelivery, Holding
      <2> QED BY <1>1, <1>2, <2>2, <2>4, <2>5, <2>6, StaysSent
<1>4. CASE ~ok
      <2>1. run' = [run EXCEPT ![w] = [r EXCEPT !.pc = "mark failed"]] /\ UNCHANGED history /\ ReadOnly
            BY <1>1, <1>4, Zenon DEF Post, Go, ReadOnly
      <2> QED BY <1>1, <1>2, <2>1, ReadsOnly, PcSent, Zenon DEF InDelivery, Holding
<1> QED BY <1>3, <1>4

LEMMA MarkSent ==
    ASSUME DestInv, DestInv', SentInv, NEW w \in Workers, MarkDelivered(w) \/ MarkCovered(w) \/ MarkFailed(w) \/ Release(w)
    PROVE  SentInv'
<1>1. PICK r, e : r = run[w] /\ e = Head(r.entries) /\ r \in AnyRun /\ RunSent(r)
      BY DEF DestInv, SentInv
<1>2. /\ r.pc \in {"mark", "cover", "mark failed", "release"} /\ r.pc \in InDelivery \cup {"send"} /\ UNCHANGED history
      <2>1. r.pc \in {"mark", "cover", "mark failed", "release"}
            BY <1>1, Zenon DEF MarkDelivered, MarkCovered, MarkFailed, Release, Go
      <2> QED BY <2>1, Zenon DEF InDelivery, Holding, MarkDelivered, MarkCovered, MarkFailed, Release, Mark
<1>3. r.pc \in {"mark", "cover"} => VersionKey(e) \in history.ok /\ VersionKey(e) \in history'.ok
      BY <1>1, <1>2, Zenon DEF RunSent
<1>4. ActivityKey(e)[2] = 0
      BY <1>1, <1>2, EntryKeys, Zenon
<1>5. CASE MarkDelivered(w)
      <2>1. /\ r.pc = "mark" /\ Mark(VersionKey(e), "delivered")
            /\ run' = [run EXCEPT ![w] = IF r.covers THEN [r EXCEPT !.pc = "cover"] ELSE Passed(r)]
            BY <1>1, <1>5 DEF MarkDelivered, Go
      <2>2. DeliveryOnly
            BY <1>3, <2>1, MarksOnly DEF Mark
      <2>3. CASE r.covers
            <3>1. run' = [run EXCEPT ![w] = [r EXCEPT !.pc = "cover"]]
                  BY <2>1, <2>3
            <3>2. VersionKey(Head(r.entries)) \in history'.ok /\ "cover" \in InDelivery
                  BY <1>1, <1>3, <2>1 DEF InDelivery, Holding
            <3> QED BY <1>1, <1>2, <2>2, <3>1, <3>2, PcSent, Zenon
      <2>4. CASE ~r.covers
            <3>1. run' = [run EXCEPT ![w] = Passed(r)]
                  BY <2>1, <2>4
            <3> QED BY <1>1, <1>2, <1>3, <2>1, <2>2, <3>1, PassesSent
      <2> QED BY <2>3, <2>4
<1>6. CASE MarkCovered(w)
      <2>1. /\ r.pc = "cover" /\ Mark(ActivityKey(e), "covered") /\ run' = [run EXCEPT ![w] = Passed(r)]
            BY <1>1, <1>6 DEF MarkCovered, Go
      <2>2. DeliveryOnly
            BY <1>4, <2>1, MarksOnly DEF Mark
      <2> QED BY <1>1, <1>2, <1>3, <2>1, <2>2, PassesSent
<1>7. CASE MarkFailed(w)
      <2>1. /\ Mark(VersionKey(e), "failed")
            /\ run' = [run EXCEPT ![w] = IF r.covers THEN [r EXCEPT !.pc = "release"] ELSE Stopped(r)]
            BY <1>1, <1>7, Zenon DEF MarkFailed, Go
      <2>2. DeliveryOnly
            BY <2>1, MarksOnly DEF Mark
      <2>3. CASE r.covers
            <3>1. run' = [run EXCEPT ![w] = [r EXCEPT !.pc = "release"]]
                  BY <2>1, <2>3
            <3> QED BY <1>1, <1>2, <2>2, <3>1, PcSent, Zenon DEF InDelivery, Holding
      <2>4. CASE ~r.covers
            <3>1. run' = [run EXCEPT ![w] = Stopped(r)]
                  BY <2>1, <2>4
            <3> QED BY <1>1, <1>2, <2>2, <3>1, StopsSent, Zenon
      <2> QED BY <2>3, <2>4
<1>8. CASE Release(w)
      <2>1. Mark(ActivityKey(e), "failed") /\ run' = [run EXCEPT ![w] = Stopped(r)]
            BY <1>1, <1>8 DEF Release, Go
      <2>2. DeliveryOnly
            BY <2>1, MarksOnly DEF Mark
      <2> QED BY <1>1, <1>2, <2>1, <2>2, StopsSent, Zenon
<1> QED BY <1>5, <1>6, <1>7, <1>8

LEMMA DeliverySent ==
    ASSUME DestInv, DestInv', SentInv, NEW w \in Workers,
           \/ PassEntry(w) \/ BeginDelivery(w) \/ ScannerStatus(w) \/ ClaimVersion(w) \/ VersionStatus(w)
           \/ (\E ok \in BOOLEAN : Post(w, ok))
           \/ MarkDelivered(w) \/ MarkCovered(w) \/ MarkFailed(w) \/ Release(w)
    PROVE  SentInv'
BY PassEntrySent, BeginDeliverySent, ScannerStatusSent, ClaimVersionSent, VersionStatusSent, PostSent, MarkSent

-----------------------------------------------------------------------------
\* The steps of a forwarded entry.

LEMMA HasForwarded ==
    ASSUME kind = "otlp", NEW t, Has(t)
    PROVE  \/ dest[t].rev = stored[t].rev
           \/ VersionKey([trace |-> t, ver |-> feedRow[t].ver, src |-> feedRow[t].src]) \in history.rejected
           \/ history.overlap
<1>1. ~Webhook /\ kind = "otlp" /\ ~(kind = "export")
      BY DEF Webhook
<1> QED BY <1>1, Zenon DEF Has, VersionKey, ActivityKey

LEMMA OlderNotPassed ==
    ASSUME DestTypes, NEW at \in Moments, NEW e \in Entries, GivenRow(e.trace, e.ver), Before(at, FeedPlace(e)),
           feedRow[e.trace].ver # 0
    PROVE  Before(at, At(e.trace))
<1>1. e.ver \in Nat /\ e.trace \in Nat /\ feedRow[e.trace].ver \in Nat /\ e.ver <= feedRow[e.trace].ver
      BY SettledFeedAssumption DEF Entries, GivenRow, DestTypes, FeedTypes
<1>2. at[1] \in Nat /\ at[2] \in Nat
      BY DEF Moments
<1>3. at[1] < e.ver \/ (at[1] = e.ver /\ at[2] < e.trace)
      BY DEF Before, FeedPlace
<1>4. at[1] < feedRow[e.trace].ver \/ (at[1] = feedRow[e.trace].ver /\ at[2] < e.trace)
      BY <1>1, <1>2, <1>3
<1> QED BY <1>4 DEF Before, At

\* Alone, a run that forwards a trace takes nothing from what was passed.
LEMMA ForwardKeeps ==
    ASSUME DestInv, SentInv, NEW r, AtItsEntry(r), kind = "otlp", NEW e, e = Head(r.entries),
           UNCHANGED <<feedVars, kind, history>>,
           \A t \in Traces : t # e.trace => dest'[t] = dest[t],
           NEW pos \in Moments, history.overlap \/ ~Before(r.at, pos)
    PROVE  KeepsAt(pos)
<1>1. /\ r \in AnyRun /\ e \in Entries /\ r.at \in Moments /\ Before(r.at, FeedPlace(e)) /\ GivenRow(e.trace, e.ver)
      <2>1. r \in AnyRun /\ r.entries # <<>> /\ Ordered(r) /\ Known(r)
            BY DEF AtItsEntry, Feeds
      <2>2. e = r.entries[1] /\ 1 \in 1 .. Len(r.entries) /\ e \in Entries
            BY <2>1, TailParts
      <2> QED BY <2>1, <2>2 DEF AnyRun, Ordered, Known, Issued
<1>2. ASSUME NEW t \in Matching, AtRest(t), ~Before(pos, At(t)), Has(t)
      PROVE  Has(t)'
      <2>1. t \in Traces /\ kind' = "otlp" /\ feedRow' = feedRow /\ stored' = stored /\ history' = history
            BY DestinationAssumption DEF feedVars
      <2>2. CASE history.overlap
            BY <2>1, <2>2, HasForwardedNext
      <2>3. CASE t # e.trace
            <3>1. dest'[t] = dest[t]
                  BY <2>1, <2>3
            <3>2. \/ dest[t].rev = stored[t].rev
                  \/ VersionKey([trace |-> t, ver |-> feedRow[t].ver, src |-> feedRow[t].src]) \in history.rejected
                  \/ history.overlap
                  BY <1>2, HasForwarded
            <3>3. \/ dest'[t].rev = stored'[t].rev
                  \/ VersionKey([trace |-> t, ver |-> feedRow'[t].ver, src |-> feedRow'[t].src]) \in history'.rejected
                  \/ history'.overlap
                  BY <2>1, <3>1, <3>2
            <3> QED BY <2>1, <3>3, HasForwardedNext
      <2>4. CASE ~history.overlap /\ t = e.trace
            <3>1. feedRow[t] # NoRow /\ FeedTypes
                  BY <1>2 DEF AtRest, DestInv, DestTypes
            <3>2. feedRow[t].ver # 0 /\ At(t) \in Moments
                  BY <2>1, <3>1, SettledFeedAssumption DEF FeedTypes, At, Moments
            <3>3. Before(r.at, At(t))
                  BY <1>1, <2>4, <3>2, OlderNotPassed DEF DestInv
            <3> QED BY <1>1, <1>2, <2>4, <3>2, <3>3, BeforeOrders
      <2> QED BY <2>2, <2>3, <2>4
<1> QED BY <1>2 DEF KeepsAt

LEMMA OthersKeep ==
    ASSUME SentInv, NEW w \in Workers, run[w].pc # "idle", NEW v \in Workers, v # w
    PROVE  history.overlap \/ run[v].pc = "idle"
BY DEF SentInv, Alone

LEMMA RuleIsAt ==
    ASSUME SentInv, NEW w \in Workers, run[w].pc # "idle"
    PROVE  history.overlap \/ (rule.pos = run[w].from /\ (kind = "export" => rule.spos = run[w].sfrom))
BY DEF SentInv, Alone

LEMMA ForwardKnows ==
    ASSUME DestInv, SentInv, NEW w \in Workers, NEW r, r = run[w], r.pc = "forward"
    PROVE  /\ AtItsEntry(r) /\ Reading(r) /\ r \in AnyRun /\ Ordered(r) /\ Feeds(r) /\ Loaded(r) /\ r.entries # <<>>
           /\ kind = "otlp" /\ r.from \in Moments /\ r.at \in Moments /\ ~Before(r.at, r.from)
           /\ Given(r.at) /\ SentTo(r.at)
<1>1. AtItsEntry(r)
      BY RunAtEntry DEF AtEntry
<1>2. Reading(r) /\ r \in AnyRun /\ Ordered(r) /\ Feeds(r) /\ r.entries # <<>>
      BY <1>1 DEF AtItsEntry
<1>3. kind = "otlp" /\ Loaded(r)
      BY DEF SentInv, Fits, RunKnows
<1>4. SentTo(r.at)
      BY <1>3 DEF SentInv, RunSent
<1>5. r.from \in Moments /\ r.at \in Moments /\ Given(r.at) /\ ~Before(r.at, r.from)
      BY <1>2, RunParts DEF Feeds, Known, Ordered
<1> QED BY <1>1, <1>2, <1>3, <1>4, <1>5

\* The run after its entry, whatever it counts.
LEMMA ForwardGoes ==
    ASSUME DestInv, SentInv, NEW r, AtItsEntry(r), Loaded(r), r.pc = "forward", kind = "otlp",
           NEW n \in Nat, NEW y, y = [r EXCEPT !.sent = n]
    PROVE  Goes(PassedTo(y, "forward"), r, FeedPlace(Head(r.entries))) /\ Fits(PassedTo(y, "forward"))
<1>1. /\ r \in AnyRun /\ Ordered(r) /\ Feeds(r) /\ r.entries # <<>> /\ \A u \in Traces : feedRow[u].ver \in Nat
      BY ByTraceTypes DEF AtItsEntry, DestInv
<1>2. /\ y \in AnyRun /\ y.pc = "forward" /\ y.entries = r.entries /\ y.page = r.page /\ y.at = r.at
      /\ y.from = r.from /\ y.sat = r.sat /\ y.sfrom = r.sfrom /\ y.tree = r.tree
      /\ y.score = r.score /\ y.got = r.got
      BY ONLY <1>1, n \in Nat, y = [r EXCEPT !.sent = n], r.pc = "forward" DEF AnyRun
<1>3. Ordered(y) /\ Known(y) /\ EntriesFull(y) /\ PageFull(y) /\ Loaded(y)
      <2>1. Ordered(y)
            BY <1>1, <1>2 DEF Ordered
      <2>2. Known(y) /\ EntriesFull(y) /\ PageFull(y)
            BY <1>1, <1>2 DEF Feeds, Known, EntriesFull, PageFull, Listing, Paging
      <2>3. Loaded(y)
            BY <1>2 DEF Loaded
      <2> QED BY <2>1, <2>2, <2>3
<1>4. Goes(PassedTo(y, "forward"), y, FeedPlace(Head(y.entries)))
      BY <1>1, <1>2, <1>3, PassedKnows
<1>5. Goes(PassedTo(y, "forward"), r, FeedPlace(Head(r.entries)))
      BY <1>2, <1>4 DEF Goes
<1>6. Fits(PassedTo(y, "forward"))
      BY <1>1, <1>2, PassedToFits
<1> QED BY <1>5, <1>6

\* Passed without a change at the destination.
LEMMA ForwardPasses ==
    ASSUME DestInv, DestInv', SentInv, NEW w \in Workers, NEW r, r = run[w], r.pc = "forward",
           run' = [run EXCEPT ![w] = PassedTo(r, "forward")],
           Grew, AnswersFine', UNCHANGED <<feedVars, kind, pageSize, rule, scores, dest>>,
           NEW e, e = Head(r.entries), Wanted(e) => VersionKey(e) \in history'.rejected
    PROVE  SentInv'
<1>1. /\ AtItsEntry(r) /\ r \in AnyRun /\ Loaded(r) /\ kind = "otlp" /\ SentTo(r.at)
      BY ForwardKnows
<1>2. PICK x, at, n : x = PassedTo(r, "forward") /\ at = FeedPlace(e) /\ n = r.sent
      OBVIOUS
<1>3. Goes(x, r, at) /\ Fits(x)
      <2>1. n \in Nat /\ r = [r EXCEPT !.sent = n]
            BY <1>1, <1>2 DEF AnyRun
      <2> QED BY <1>1, <1>2, <2>1, ForwardGoes
<1>4. SentTo(at)'
      <2>1. KeepsAt(r.at)
            BY KeepsAll DEF DestInv
      <2>2. ASSUME NEW t \in Matching, Wanted(e), e.trace = t, e.ver = feedRow[t].ver, e.src = feedRow[t].src
            PROVE  Has(t)'
            <3>1. feedRow' = feedRow /\ kind' = "otlp"
                  BY <1>1 DEF feedVars
            <3>2. VersionKey([trace |-> t, ver |-> feedRow'[t].ver, src |-> feedRow'[t].src]) \in history'.rejected
                  BY <2>2, <3>1 DEF VersionKey
            <3> QED BY <3>1, <3>2, HasForwardedNext
      <2>3. \A t \in Matching :
               /\ Wanted(e) /\ e.trace = t /\ e.ver = feedRow[t].ver /\ e.src = feedRow[t].src
               /\ Current(t, e.ver)
               => Has(t)'
            BY <2>2
      <2> QED BY <1>1, <1>2, <2>1, <2>3, NextSentTo
<1>5. run' = [run EXCEPT ![w] = x] /\ run[w].pc # "idle"
      BY <1>2
<1> QED BY <1>1, <1>3, <1>4, <1>5, MovedPlain DEF Goes

LEMMA ForwardSends ==
    ASSUME DestInv, DestInv', SentInv, NEW w \in Workers, NEW r, r = run[w], r.pc = "forward",
           run' = [run EXCEPT ![w] = PassedTo([r EXCEPT !.sent = @ + 1], "forward")],
           NEW e, e = Head(r.entries),
           dest' = [dest EXCEPT ![e.trace] = [ver |-> e.ver, rev |-> r.tree[e.trace], score |-> 0]],
           UNCHANGED <<feedVars, kind, pageSize, rule, scores, history, deliveries, scanner>>
    PROVE  SentInv'
<1>1. /\ AtItsEntry(r) /\ r \in AnyRun /\ Loaded(r) /\ kind = "otlp" /\ SentTo(r.at) /\ r.entries # <<>>
      /\ r.from \in Moments /\ r.at \in Moments /\ ~Before(r.at, r.from)
      BY ForwardKnows
<1>2. PICK n, y, x, at : /\ n = r.sent + 1 /\ y = [r EXCEPT !.sent = n] /\ x = PassedTo(y, "forward")
                         /\ at = FeedPlace(e)
      OBVIOUS
<1>3. Goes(x, r, at) /\ Fits(x)
      <2>1. n \in Nat
            BY <1>1, <1>2 DEF AnyRun
      <2> QED BY <1>1, <1>2, <2>1, ForwardGoes
<1>4. run' = [run EXCEPT ![w] = x] /\ run[w].pc # "idle"
      <2>1. y = [r EXCEPT !.sent = @ + 1]
            BY <1>1, <1>2 DEF AnyRun
      <2> QED BY <1>2, <2>1
<1>5. e \in Entries /\ e.trace \in Traces /\ e.ver \in Nat /\ r.tree[e.trace] \in Nat
      <2>1. e \in Entries
            BY <1>1, TailParts
      <2>2. e.trace \in Traces /\ e.ver \in Nat
            BY <2>1 DEF Entries
      <2> QED BY <1>1, <2>1, <2>2, RunParts
<1>6. /\ dest \in [Traces -> [ver : Nat, rev : Nat, score : Nat]]
      /\ dest' \in [Traces -> [ver : Nat, rev : Nat, score : Nat]]
      /\ \A t \in Traces : t # e.trace => dest'[t] = dest[t]
      /\ dest'[e.trace].rev = r.tree[e.trace]
      <2>1. dest \in [Traces -> [ver : Nat, rev : Nat, score : Nat]]
            BY DEF SentInv, FeedOk
      <2>2. PICK d : d = [ver |-> e.ver, rev |-> r.tree[e.trace], score |-> 0]
            OBVIOUS
      <2>3. d \in [ver : Nat, rev : Nat, score : Nat] /\ d.rev = r.tree[e.trace]
            BY <1>5, <2>2
      <2>4. dest' = [dest EXCEPT ![e.trace] = d]
            BY <2>2
      <2> QED BY ONLY <1>5, <2>1, <2>3, <2>4
<1>7. Stable
      BY <1>6, SameFeedStable
<1>8. Grew /\ AnswersFine'
      <2>1. Grew
            BY GrewSame
      <2> QED BY <2>1, AnswersStay DEF SentInv, DestFine
<1>9. DestFine'
      <2>1. kind' # "export"
            BY <1>1
      <2> QED BY <1>8, <2>1 DEF DestFine, RowsFine
<1>10. ASSUME NEW pos \in Moments, history.overlap \/ ~Before(r.at, pos) PROVE KeepsAt(pos)
       BY <1>1, <1>6, <1>10, ForwardKeeps, Zenon
<1>11. rule.pos \in Moments /\ KeepsAt(rule.pos)
       <2>1. rule.pos \in Moments
             BY DEF DestInv, DestTypes
       <2>2. history.overlap \/ rule.pos = r.from
             BY <1>4, RuleIsAt
       <2> QED BY <1>1, <1>10, <2>1, <2>2
<1>12. KeepsAt(r.from) /\ KeepsAt(r.at)
       BY <1>1, <1>10, BeforeOrders
<1>13. KeepsScores
       BY <1>1 DEF KeepsScores
<1>14. ASSUME NEW v \in Workers, v # w PROVE Keeps(v)
       <2>1. CASE run[v].pc = "idle"
             BY <2>1 DEF Keeps
       <2>2. CASE history.overlap
             <3>1. run[v] \in AnyRun
                   BY DEF DestInv
             <3>2. run[v].from \in Moments /\ run[v].at \in Moments
                   BY <3>1, RunParts
             <3> QED BY <1>10, <1>13, <2>2, <3>2 DEF Keeps
       <2> QED BY <1>4, <1>14, <2>1, <2>2, OthersKeep
<1>15. SentTo(at)'
       <2>1. ASSUME NEW t \in Matching, e.trace = t, e.ver = feedRow[t].ver, Current(t, e.ver)
             PROVE  Has(t)'
             <3>1. stored[t].rev = r.tree[t]
                   <4>1. e = r.entries[1] /\ 1 \in 1 .. Len(r.entries)
                         BY <1>1, TailParts
                   <4>2. Whole(e.trace, e.ver, r.tree[e.trace])
                         BY <1>1, <4>1 DEF Loaded
                   <4> QED BY <2>1, <4>2 DEF Whole
             <3>2. dest'[t].rev = stored'[t].rev /\ kind' = "otlp"
                   BY <1>1, <1>6, <2>1, <3>1 DEF feedVars
             <3> QED BY <3>2, HasForwardedNext
       <2>2. \A t \in Matching :
               /\ Wanted(e) /\ e.trace = t /\ e.ver = feedRow[t].ver /\ e.src = feedRow[t].src
               /\ Current(t, e.ver)
               => Has(t)'
             BY <2>1
       <2> QED BY <1>1, <1>2, <1>12, <2>2, NextSentTo
<1>16. /\ RunKnows(x) /\ x.pc # "idle" /\ x.from = run[w].from /\ x.pc \notin {"mark", "cover"} /\ x.at = at
       BY <1>3 DEF Goes
<1> QED BY <1>1, <1>3, <1>4, <1>7, <1>8, <1>9, <1>11, <1>12, <1>13, <1>14, <1>15, <1>16, MovedSent

LEMMA ForwardSent ==
    ASSUME DestInv, DestInv', SentInv, NEW w \in Workers, ForwardEntry(w)
    PROVE  SentInv'
<1>1. PICK r, e : r = run[w] /\ e = Head(r.entries)
      OBVIOUS
<1>2. /\ r.pc = "forward" /\ UNCHANGED <<feedVars, kind, pageSize, rule, deliveries, scores, scanner, handoff, troubles>>
      BY <1>1 DEF ForwardEntry
<1>3. CASE ~Wanted(e) /\ run' = [run EXCEPT ![w] = PassedTo(r, "forward")] /\ UNCHANGED <<dest, history>>
      <2>1. Grew
            BY <1>2, <1>3, GrewSame
      <2>2. AnswersFine'
            BY <1>2, <2>1, AnswersStay DEF SentInv, DestFine
      <2> QED BY <1>1, <1>2, <1>3, <2>1, <2>2, ForwardPasses
<1>4. CASE /\ run' = [run EXCEPT ![w] = PassedTo([r EXCEPT !.sent = @ + 1], "forward")] /\ UNCHANGED history
           /\ dest' = [dest EXCEPT ![e.trace] = [ver |-> e.ver, rev |-> r.tree[e.trace], score |-> 0]]
      BY <1>1, <1>2, <1>4, ForwardSends
<1>5. CASE /\ run' = [run EXCEPT ![w] = PassedTo(r, "forward")] /\ UNCHANGED dest
           /\ history' = [history EXCEPT !.rejected = @ \cup {VersionKey(e)}]
      <2>1. Grew /\ VersionKey(e) \in history'.rejected
            BY <1>2, <1>5 DEF Grew, DestInv, DestTypes
      <2>2. AnswersFine'
            BY <1>2, <2>1, AnswersStay DEF SentInv, DestFine
      <2> QED BY <1>1, <1>2, <1>5, <2>1, <2>2, ForwardPasses
<1>6. CASE run' = [run EXCEPT ![w] = Stopped(r)] /\ UNCHANGED <<dest, history>>
      <2>1. /\ Reading(r) /\ kind = "otlp" /\ r.at \in Moments /\ Given(r.at) /\ SentTo(r.at)
            BY <1>1, <1>2, ForwardKnows
      <2>2. PICK x, at : x = Stopped(r) /\ at = r.at
            OBVIOUS
      <2>3. RunKnows(x) /\ Fits(x) /\ x.pc = "record" /\ x.from = r.from /\ x.at = at
            BY <2>1, <2>2, StoppedKnows DEF DestInv
      <2>4. Grew
            BY <1>2, <1>6, GrewSame
      <2>5. AnswersFine'
            BY <1>2, <2>4, AnswersStay DEF SentInv, DestFine
      <2>6. SentTo(at)'
            BY <1>2, <1>6, <2>1, <2>2, <2>4, SentToPlain
      <2>7. run' = [run EXCEPT ![w] = x] /\ run[w].pc # "idle"
            BY <1>1, <1>2, <1>6, <2>2
      <2> QED BY <1>1, <1>2, <1>6, <2>1, <2>3, <2>4, <2>5, <2>6, <2>7, MovedPlain
<1> QED BY <1>1, <1>3, <1>4, <1>5, <1>6 DEF ForwardEntry, Go

-----------------------------------------------------------------------------
\* What a consumer makes of the files of a run.

FamilyOf(F, S) == F # {} /\ \A T \in F : T \subseteq S
HasSmallest(F) == \E T \in F : \A U \in F : U \subseteq T => U = T

\* A family of subsets of a finite set has a smallest member: what stands in
\* for induction over a finite set.
LEMMA SmallestMember ==
    ASSUME NEW S, IsFiniteSet(S), NEW F, FamilyOf(F, S)
    PROVE  HasSmallest(F)
<1> DEFINE R == StrictSubsetOrdering(S)
<1>1. IsWellFoundedOn(R, FiniteSubsetsOf(S))
      BY FS_StrictSubsetOrderingWellFounded
<1>2. F \subseteq FiniteSubsetsOf(S) /\ F # {}
      BY FS_Subset DEF FiniteSubsetsOf, FamilyOf
<1>3. \A T \in F : T \subseteq S
      BY DEF FamilyOf
<1> HIDE DEF R
<1>4. PICK T \in F : \A U \in F : ~(<<U, T>> \in R)
      BY <1>1, <1>2, WFMin
<1> QED BY <1>3, <1>4 DEF R, StrictSubsetOrdering, HasSmallest

\* A nonempty finite set of numbers has a greatest.
LEMMA GreatestOf ==
    ASSUME NEW S \in SUBSET Nat, IsFiniteSet(S), S # {}
    PROVE  Max(S) \in S /\ \A y \in S : Max(S) >= y
<1> DEFINE Top(T) == \E x \in T : \A y \in T : x >= y
           F == {T \in SUBSET S : T # {} /\ ~Top(T)}
<1>1. ASSUME F # {} PROVE FALSE
      <2>1. PICK T \in F : \A U \in F : U \subseteq T => U = T
            <3>1. FamilyOf(F, S)
                  BY <1>1 DEF FamilyOf
            <3> HIDE DEF F
            <3>2. HasSmallest(F)
                  BY ONLY <3>1, IsFiniteSet(S), SmallestMember
            <3> QED BY <3>2 DEF HasSmallest
      <2>2. PICK x \in T : x \in Nat
            OBVIOUS
      <2>3. \A y \in T : y \in Nat
            OBVIOUS
      <2>4. T \ {x} \notin F
            BY <2>1, <2>2
      <2>5. CASE T \ {x} = {}
            <3>1. \A y \in T : y = x
                  BY <2>5
            <3> QED BY <2>1, <2>2, <3>1
      <2>6. CASE Top(T \ {x})
            <3>1. PICK z \in T \ {x} : \A y \in T \ {x} : z >= y
                  BY <2>6
            <3>2. (IF z >= x THEN z ELSE x) \in T /\ \A y \in T : (IF z >= x THEN z ELSE x) >= y
                  BY ONLY <2>2, <2>3, <3>1
            <3> QED BY <2>1, <3>2
      <2> QED BY <2>4, <2>5, <2>6
<1>2. Top(S)
      BY <1>1
<1> QED BY <1>2 DEF Max

\* What a consumer makes of the tree of a trace, and of its scores.
GotTree(r, t, tables, old, new) ==
    \/ /\ new.ver = old.ver /\ new.rev = old.rev
       /\ "trees" \in tables =>
             \A i \in 1 .. Len(r.staged) : r.staged[i].trace = t => ~(r.staged[i].ver >= old.ver)
    \/ \E i \in 1 .. Len(r.staged) :
          /\ r.staged[i].trace = t /\ r.staged[i].ver >= old.ver
          /\ new.ver = r.staged[i].ver /\ new.rev = r.staged[i].rev
          /\ \A j \in 1 .. Len(r.staged) : r.staged[j].trace = t /\ r.staged[j].ver >= old.ver => i >= j
Unscored(r, t) ==
    /\ \A i \in 1 .. Len(r.staged) : r.staged[i].trace # t
    /\ \A s \in r.rescored : s.trace # t
GotScore(r, t, tables, old, new) ==
    \/ new.score = old.score /\ ("scores" \in tables => Unscored(r, t))
    \/ /\ \A s \in r.rescored : s.trace # t
       /\ \E i \in 1 .. Len(r.staged) : r.staged[i].trace = t /\ new.score = r.staged[i].score
    \/ \E s \in r.rescored : s.trace = t /\ new.score = s.score

LEMMA GreatestPlace ==
    ASSUME NEW r \in AnyRun, NEW S, S \subseteq 1 .. Len(r.staged), S # {}
    PROVE  /\ Max(S) \in S /\ \A y \in S : Max(S) >= y
           /\ Max(S) \in 1 .. Len(r.staged) /\ r.staged[Max(S)] \in StagedRows
<1>1. r.staged \in Seq(StagedRows) /\ Len(r.staged) \in Nat
      <2>1. r.staged \in Seq(StagedRows)
            BY DEF AnyRun
      <2> QED BY <2>1, LenProperties
<1>2. IsFiniteSet(1 .. Len(r.staged))
      BY <1>1, FS_Interval
<1>3. IsFiniteSet(S) /\ S \in SUBSET Nat
      <2>1. IsFiniteSet(S)
            BY <1>2, FS_Subset
      <2> QED BY <1>1, <2>1
<1>4. Max(S) \in S /\ \A y \in S : Max(S) >= y
      BY <1>3, GreatestOf
<1> QED BY <1>1, <1>4, ElementOfSeq

LEMMA ReceivedIs ==
    ASSUME NEW r \in AnyRun, NEW d \in [Traces -> [ver : Nat, rev : Nat, score : Nat]], NEW tables,
           NEW t \in Traces, NEW new, new = Received(d, r, tables)[t]
    PROVE  /\ new \in [ver : Nat, rev : Nat, score : Nat]
           /\ GotTree(r, t, tables, d[t], new) /\ GotScore(r, t, tables, d[t], new)
<1>1. PICK of, trees, again :
         /\ of = {i \in DOMAIN r.staged : r.staged[i].trace = t}
         /\ trees = {i \in of : r.staged[i].ver >= d[t].ver}
         /\ again = {s \in r.rescored : s.trace = t}
      OBVIOUS
<1>2. PICK tree, score :
         /\ tree = IF trees = {} \/ "trees" \notin tables THEN d[t] ELSE r.staged[Max(trees)]
         /\ score = IF "scores" \notin tables \/ (of = {} /\ again = {}) THEN d[t].score
                    ELSE IF again = {} THEN r.staged[Max(of)].score
                    ELSE (CHOOSE s \in again : TRUE).score
      OBVIOUS
<1>3. new = [ver |-> tree.ver, rev |-> tree.rev, score |-> score]
      BY <1>1, <1>2 DEF Received
<1>4. DOMAIN r.staged = 1 .. Len(r.staged)
      <2>1. r.staged \in Seq(StagedRows)
            BY DEF AnyRun
      <2> QED BY <2>1, LenProperties
<1>5. of \subseteq 1 .. Len(r.staged) /\ trees \subseteq 1 .. Len(r.staged)
      BY <1>1, <1>4
<1>6. d[t].ver \in Nat /\ d[t].rev \in Nat /\ d[t].score \in Nat
      OBVIOUS
<1>7. GotTree(r, t, tables, d[t], tree) /\ tree.ver \in Nat /\ tree.rev \in Nat
      <2>1. CASE trees = {} \/ "trees" \notin tables
            <3>1. tree = d[t]
                  BY <1>2, <2>1
            <3>2. "trees" \in tables =>
                     \A i \in 1 .. Len(r.staged) : r.staged[i].trace = t => ~(r.staged[i].ver >= d[t].ver)
                  BY <1>1, <1>4, <2>1
            <3> QED BY <1>6, <3>1, <3>2 DEF GotTree
      <2>2. CASE trees # {} /\ "trees" \in tables
            <3>1. PICK i : i = Max(trees)
                  OBVIOUS
            <3>2. i \in trees /\ (\A y \in trees : i >= y) /\ i \in 1 .. Len(r.staged) /\ r.staged[i] \in StagedRows
                  BY <1>5, <2>2, <3>1, GreatestPlace
            <3>3. tree = r.staged[i]
                  BY <1>2, <2>2, <3>1
            <3>4. tree.ver \in Nat /\ tree.rev \in Nat
                  BY <3>2, <3>3 DEF StagedRows
            <3>5. r.staged[i].trace = t /\ r.staged[i].ver >= d[t].ver
                  BY <1>1, <3>2
            <3>6. \A j \in 1 .. Len(r.staged) : r.staged[j].trace = t /\ r.staged[j].ver >= d[t].ver => i >= j
                  BY <1>1, <1>4, <3>2
            <3> QED BY <3>2, <3>3, <3>4, <3>5, <3>6 DEF GotTree
      <2> QED BY <2>1, <2>2
<1>8. /\ score \in Nat
      /\ \/ score = d[t].score /\ ("scores" \in tables => Unscored(r, t))
         \/ /\ \A s \in r.rescored : s.trace # t
            /\ \E i \in 1 .. Len(r.staged) : r.staged[i].trace = t /\ score = r.staged[i].score
         \/ \E s \in r.rescored : s.trace = t /\ score = s.score
      <2>1. CASE "scores" \notin tables \/ (of = {} /\ again = {})
            <3>1. score = d[t].score
                  BY <1>2, <2>1
            <3>2. "scores" \in tables => Unscored(r, t)
                  BY <1>1, <1>4, <2>1 DEF Unscored
            <3> QED BY <1>6, <3>1, <3>2
      <2>2. CASE "scores" \in tables /\ of # {} /\ again = {}
            <3>1. PICK i : i = Max(of)
                  OBVIOUS
            <3>2. i \in of /\ i \in 1 .. Len(r.staged) /\ r.staged[i] \in StagedRows
                  BY <1>5, <2>2, <3>1, GreatestPlace
            <3>3. score = r.staged[i].score
                  BY <1>2, <2>2, <3>1
            <3>4. score \in Nat
                  BY <3>2, <3>3 DEF StagedRows
            <3>5. r.staged[i].trace = t /\ \A s \in r.rescored : s.trace # t
                  BY <1>1, <2>2, <3>2
            <3> QED BY <3>2, <3>3, <3>4, <3>5
      <2>3. CASE "scores" \in tables /\ again # {}
            <3>1. PICK s : s = CHOOSE o \in again : TRUE
                  OBVIOUS
            <3>2. s \in again
                  BY <2>3, <3>1
            <3>3. score = s.score
                  BY <1>2, <2>3, <3>1
            <3>4. s \in r.rescored /\ s.trace = t
                  BY <1>1, <3>2
            <3>5. s.score \in Nat
                  BY <3>4, RunParts
            <3> QED BY <3>3, <3>4, <3>5
      <2> QED BY <2>1, <2>2, <2>3
<1>9. /\ new.ver = tree.ver /\ new.rev = tree.rev /\ new.score = score /\ new \in [ver : Nat, rev : Nat, score : Nat]
      BY <1>3, <1>7, <1>8
<1> QED BY <1>7, <1>8, <1>9 DEF GotTree, GotScore

-----------------------------------------------------------------------------
\* The steps of an upload.

\* A run about to upload, and what was received of it.
Uploads(w, r, tables) ==
    /\ r = run[w] /\ r.pc = "upload"
    /\ dest' = Received(dest, r, tables)
    /\ UNCHANGED <<feedVars, kind, pageSize, rule, deliveries, scores, scanner, handoff, history>>

LEMMA UploadKnows ==
    ASSUME DestInv, SentInv, NEW w \in Workers, NEW r, NEW tables, Uploads(w, r, tables)
    PROVE  /\ r \in AnyRun /\ Ordered(r) /\ kind = "export" /\ RunKnows(r) /\ SentTo(r.from)
           /\ StagedFine(r) /\ StagedOrdered(r) /\ StagedFull(r) /\ ScoresListed(r)
           /\ r.from \in Moments /\ r.at \in Moments /\ r.sfrom \in Moments /\ r.sat \in Moments
           /\ dest \in [Traces -> [ver : Nat, rev : Nat, score : Nat]] /\ RowsFine
           /\ dest' \in [Traces -> [ver : Nat, rev : Nat, score : Nat]]
           /\ \A t \in Traces : GotTree(r, t, tables, dest[t], dest'[t]) /\ GotScore(r, t, tables, dest[t], dest'[t])
           /\ feedRow' = feedRow /\ stored' = stored /\ writing' = writing /\ published' = published
           /\ scores' = scores /\ kind' = kind /\ history' = history
<1>1. r \in AnyRun /\ Ordered(r) /\ RunKnows(r) /\ Fits(r) /\ RunSent(r)
      BY DEF Uploads, DestInv, RunInv, GoodRun, SentInv
<1>2. r.pc = "upload"
      BY DEF Uploads
<1>3. kind = "export" /\ SentTo(r.from)
      BY <1>1, <1>2 DEF Fits, RunSent
<1>4. StagedFine(r) /\ StagedOrdered(r) /\ StagedFull(r) /\ ScoresListed(r)
      BY <1>1, <1>3 DEF RunKnows
<1>5. dest \in [Traces -> [ver : Nat, rev : Nat, score : Nat]] /\ RowsFine
      BY DEF SentInv, FeedOk, DestFine
<1>6. \A t \in Traces : /\ dest'[t] \in [ver : Nat, rev : Nat, score : Nat]
                        /\ GotTree(r, t, tables, dest[t], dest'[t]) /\ GotScore(r, t, tables, dest[t], dest'[t])
      <2>1. ASSUME NEW t \in Traces, NEW new, new = Received(dest, r, tables)[t]
            PROVE  /\ new \in [ver : Nat, rev : Nat, score : Nat]
                   /\ GotTree(r, t, tables, dest[t], new) /\ GotScore(r, t, tables, dest[t], new)
            BY <1>1, <1>5, <2>1, ReceivedIs
      <2>2. dest' = Received(dest, r, tables)
            BY DEF Uploads
      <2> QED BY <2>1, <2>2
<1>7. dest' \in [Traces -> [ver : Nat, rev : Nat, score : Nat]]
      <2>1. dest' = [t \in Traces |-> dest'[t]]
            BY DEF Uploads, Received
      <2> QED BY <1>6, <2>1
<1>8. r.from \in Moments /\ r.at \in Moments /\ r.sfrom \in Moments /\ r.sat \in Moments
      BY <1>1, RunParts
<1> QED BY <1>1, <1>3, <1>4, <1>5, <1>6, <1>7, <1>8 DEF Uploads, feedVars

LEMMA UploadStable ==
    ASSUME DestInv, DestInv', SentInv, NEW w \in Workers, NEW r, NEW tables, Uploads(w, r, tables)
    PROVE  Stable /\ Grew /\ AnswersFine'
<1>1. UNCHANGED <<feedVars, scores, kind, history, deliveries, scanner>>
      BY DEF Uploads
<1>2. Stable
      BY <1>1, UploadKnows, SameFeedStable
<1>3. Grew
      BY <1>1, GrewSame
<1> QED BY <1>1, <1>2, <1>3, AnswersStay DEF SentInv, DestFine

\* A trace of the feed, at rest or not, and a row that was staged of it.
LEMMA StagedRow ==
    ASSUME NEW r \in AnyRun, StagedFine(r), NEW i \in 1 .. Len(r.staged), NEW t, t = r.staged[i].trace
    PROVE  /\ t \in Traces /\ r.staged[i].ver \in Nat \ {0}
           /\ GivenRow(t, r.staged[i].ver) /\ Whole(t, r.staged[i].ver, r.staged[i].rev)
           /\ FineScore(t, r.sfrom, r.staged[i].score) /\ ~Before(r.at, FeedPlace(r.staged[i]))
BY RunParts DEF StagedFine

\* What was received of a trace at rest is what is stored of it.
LEMMA RestReceived ==
    ASSUME DestTypes, FeedOk, RowsFine, kind = "export", NEW r \in AnyRun, StagedFine(r), StagedOrdered(r),
           NEW t \in Traces, AtRest(t),
           NEW tables, NEW new, GotTree(r, t, tables, dest[t], new), dest[t].ver \in Nat,
           \/ dest[t].ver = feedRow[t].ver /\ dest[t].rev = stored[t].rev
           \/ "trees" \in tables /\ IsStaged(r, t)
    PROVE  new.ver = feedRow[t].ver /\ new.rev = stored[t].rev
<1>1. /\ feedRow[t].ver \in Nat /\ feedRow[t].ver # 0 /\ writing[t] = "none"
      BY ByTraceTypes DEF AtRest, FeedOk
<1>2. GivenRow(t, dest[t].ver) /\ dest[t].ver <= feedRow[t].ver
      BY <1>1 DEF RowsFine, GivenRow
<1>3. ASSUME NEW i \in 1 .. Len(r.staged), r.staged[i].trace = t
      PROVE  /\ r.staged[i].ver \in Nat /\ r.staged[i].ver <= feedRow[t].ver
             /\ r.staged[i].ver = feedRow[t].ver => r.staged[i].rev = stored[t].rev
      BY <1>1, <1>3, StagedRow DEF GivenRow, Whole, Current
<1>4. CASE /\ new.ver = dest[t].ver /\ new.rev = dest[t].rev
           /\ "trees" \in tables =>
                 \A i \in 1 .. Len(r.staged) : r.staged[i].trace = t => ~(r.staged[i].ver >= dest[t].ver)
      <2>1. CASE dest[t].ver = feedRow[t].ver /\ dest[t].rev = stored[t].rev
            BY <1>4, <2>1
      <2>2. CASE "trees" \in tables /\ IsStaged(r, t)
            <3>1. PICK i \in 1 .. Len(r.staged) : r.staged[i].trace = t /\ r.staged[i].ver = feedRow[t].ver
                  BY <2>2 DEF IsStaged
            <3>2. ~(feedRow[t].ver >= dest[t].ver)
                  BY <1>4, <2>2, <3>1
            <3> QED BY <1>1, <1>2, <3>2
      <2> QED BY <2>1, <2>2
<1>5. ASSUME NEW i \in 1 .. Len(r.staged), r.staged[i].trace = t, r.staged[i].ver >= dest[t].ver,
             new.ver = r.staged[i].ver, new.rev = r.staged[i].rev,
             \A j \in 1 .. Len(r.staged) : r.staged[j].trace = t /\ r.staged[j].ver >= dest[t].ver => i >= j
      PROVE  new.ver = feedRow[t].ver /\ new.rev = stored[t].rev
      <2>1. r.staged[i].ver = feedRow[t].ver
            <3>1. CASE dest[t].ver = feedRow[t].ver
                  BY <1>1, <1>3, <1>5, <3>1
            <3>2. CASE IsStaged(r, t)
                  <4>1. PICK j \in 1 .. Len(r.staged) : r.staged[j].trace = t /\ r.staged[j].ver = feedRow[t].ver
                        BY <3>2 DEF IsStaged
                  <4>2. i >= j
                        BY <1>1, <1>2, <1>5, <4>1
                  <4>3. CASE i = j
                        BY <4>1, <4>3
                  <4>4. CASE j < i
                        <5>1. Before(FeedPlace(r.staged[j]), FeedPlace(r.staged[i]))
                              BY <4>4 DEF StagedOrdered
                        <5>2. feedRow[t].ver <= r.staged[i].ver
                              BY <1>1, <1>3, <1>5, <4>1, <5>1, SettledFeedAssumption DEF Before, FeedPlace
                        <5> QED BY <1>1, <1>3, <1>5, <5>2
                  <4>5. i \in Int /\ j \in Int
                        OBVIOUS
                  <4> QED BY <4>2, <4>3, <4>4, <4>5
            <3> QED BY <3>1, <3>2
      <2> QED BY <1>3, <1>5, <2>1
<1> QED BY <1>4, <1>5 DEF GotTree

LEMMA UploadKeeps ==
    ASSUME DestInv, SentInv, NEW w \in Workers, NEW r, NEW tables, Uploads(w, r, tables), NEW pos
    PROVE  KeepsAt(pos)
<1>1. /\ r \in AnyRun /\ kind = "export" /\ StagedFine(r) /\ StagedOrdered(r) /\ RowsFine /\ DestTypes /\ FeedOk
      /\ dest \in [Traces -> [ver : Nat, rev : Nat, score : Nat]]
      /\ \A t \in Traces : GotTree(r, t, tables, dest[t], dest'[t])
      /\ feedRow' = feedRow /\ stored' = stored /\ kind' = kind
      BY UploadKnows DEF DestInv, SentInv
<1>2. ASSUME NEW t \in Matching, AtRest(t), Has(t)
      PROVE  Has(t)'
      <2>1. t \in Traces
            BY DestinationAssumption
      <2>2. dest[t].ver = feedRow[t].ver /\ dest[t].rev = stored[t].rev
            BY <1>1, <1>2, HasExported
      <2>3. dest[t].ver \in Nat
            BY <1>1, <2>1
      <2>4. dest'[t].ver = feedRow[t].ver /\ dest'[t].rev = stored[t].rev
            BY <1>1, <1>2, <2>1, <2>2, <2>3, RestReceived
      <2> QED BY <1>1, <2>4, HasExportedNext
<1> QED BY <1>2 DEF KeepsAt

LEMMA UploadSent ==
    ASSUME DestInv, SentInv, NEW w \in Workers, NEW r, NEW tables, Uploads(w, r, tables), "trees" \in tables,
           NEW at, at = r.at
    PROVE  SentTo(at)'
<1>1. /\ r \in AnyRun /\ kind = "export" /\ StagedFine(r) /\ StagedOrdered(r) /\ StagedFull(r) /\ SentTo(r.from)
      /\ RowsFine /\ DestTypes /\ FeedOk /\ dest \in [Traces -> [ver : Nat, rev : Nat, score : Nat]]
      /\ \A t \in Traces : GotTree(r, t, tables, dest[t], dest'[t])
      /\ feedRow' = feedRow /\ stored' = stored /\ writing' = writing /\ kind' = kind
      BY UploadKnows DEF DestInv, SentInv
<1>2. ASSUME NEW t \in Matching, AtRest(t)', ~Before(at, At(t)')
      PROVE  Has(t)'
      <2>1. t \in Traces /\ AtRest(t) /\ ~Before(r.at, At(t))
            BY <1>1, <1>2, DestinationAssumption DEF AtRest, At
      <2>2. dest[t].ver \in Nat
            BY <1>1, <2>1
      <2>3. CASE ~Before(r.from, At(t))
            <3>1. Has(t)
                  BY <1>1, <2>1, <2>3 DEF SentTo
            <3>2. dest[t].ver = feedRow[t].ver /\ dest[t].rev = stored[t].rev
                  BY <1>1, <3>1, HasExported
            <3>3. dest'[t].ver = feedRow[t].ver /\ dest'[t].rev = stored[t].rev
                  BY <1>1, <2>1, <2>2, <3>2, RestReceived
            <3> QED BY <1>1, <3>3, HasExportedNext
      <2>4. CASE Before(r.from, At(t))
            <3>1. IsStaged(r, t)
                  BY <1>1, <2>1, <2>4 DEF StagedFull
            <3>2. dest'[t].ver = feedRow[t].ver /\ dest'[t].rev = stored[t].rev
                  BY <1>1, <2>1, <2>2, <3>1, RestReceived
            <3> QED BY <1>1, <3>2, HasExportedNext
      <2> QED BY <2>3, <2>4
<1> QED BY <1>2 DEF SentTo

\* The scores that were received are those of the trace, or older.
LEMMA ScoresReceived ==
    ASSUME NEW r \in AnyRun, StagedFine(r), r.pc = "upload", ScoresListed(r), DestTypes, NEW t \in Traces,
           dest[t].score <= scores[t].rev, NEW tables, NEW new, GotScore(r, t, tables, dest[t], new)
    PROVE  new.score <= scores[t].rev
<1>1. ASSUME NEW i \in 1 .. Len(r.staged), r.staged[i].trace = t PROVE r.staged[i].score <= scores[t].rev
      BY <1>1, StagedRow DEF FineScore
<1>2. ASSUME NEW s \in r.rescored, s.trace = t PROVE s.score <= scores[t].rev
      BY <1>2 DEF ScoresListed, Rescoring, FineScore
<1> QED BY <1>1, <1>2 DEF GotScore

LEMMA UploadRows ==
    ASSUME DestInv, SentInv, NEW w \in Workers, NEW r, NEW tables, Uploads(w, r, tables)
    PROVE  RowsFine'
<1>1. /\ r \in AnyRun /\ r.pc = "upload" /\ kind = "export" /\ StagedFine(r) /\ ScoresListed(r) /\ RowsFine /\ DestTypes
      /\ \A t \in Traces : GotTree(r, t, tables, dest[t], dest'[t]) /\ GotScore(r, t, tables, dest[t], dest'[t])
      /\ feedRow' = feedRow /\ stored' = stored /\ writing' = writing /\ kind' = kind /\ scores' = scores
      /\ published' = published
      BY UploadKnows DEF DestInv, Uploads
<1>2. ASSUME NEW t \in Traces, NEW new, GotTree(r, t, tables, dest[t], new), GotScore(r, t, tables, dest[t], new)
      PROVE  /\ GivenRow(t, new.ver) /\ new.score <= scores[t].rev
             /\ new.ver # 0 => Whole(t, new.ver, new.rev)
      <2>1. GivenRow(t, dest[t].ver) /\ dest[t].score <= scores[t].rev /\ (dest[t].ver # 0 => Whole(t, dest[t].ver, dest[t].rev))
            BY <1>1 DEF RowsFine
      <2>2. new.score <= scores[t].rev
            BY <1>1, <1>2, <2>1, ScoresReceived
      <2>3. ASSUME NEW i \in 1 .. Len(r.staged), r.staged[i].trace = t
            PROVE  GivenRow(t, r.staged[i].ver) /\ Whole(t, r.staged[i].ver, r.staged[i].rev)
            BY <1>1, <2>3, StagedRow
      <2> QED BY <1>2, <2>1, <2>2, <2>3 DEF GotTree
<1>3. ASSUME NEW t \in Traces
      PROVE  /\ GivenRow(t, dest[t].ver)' /\ dest'[t].score <= scores'[t].rev
             /\ dest'[t].ver # 0 => Whole(t, dest[t].ver, dest[t].rev)'
      <2>1. PICK new : new = dest'[t]
            OBVIOUS
      <2>2. /\ GivenRow(t, new.ver) /\ new.score <= scores[t].rev
            /\ new.ver # 0 => Whole(t, new.ver, new.rev)
            BY <1>1, <1>2, <2>1
      <2> QED BY <1>1, <2>1, <2>2 DEF GivenRow, Whole, Current
<1> QED BY <1>3 DEF RowsFine

\* The scores of a trace at rest that was passed, after an upload.
LEMMA PassedScores ==
    ASSUME NEW r \in AnyRun, StagedFine(r), r.pc = "upload", ScoresListed(r), Ordered(r),
           NEW t \in Traces, NEW tables, NEW new, GotScore(r, t, tables, dest[t], new),
           ScoreSettled(t, r.sfrom), scores[t].ver \in Nat,
           "scores" \notin tables \/ Unscored(r, t) => dest[t].score = scores[t].rev
    PROVE  new.score = scores[t].rev
<1>1. ScorePlace(t) \in Moments
      BY SettledFeedAssumption DEF ScorePlace, Moments
<1>2. r.sfrom \in Moments /\ r.sat \in Moments /\ ~Before(r.sat, r.sfrom)
      BY RunParts DEF Ordered
<1>3. ScoreSettled(t, r.sat)
      BY <1>1, <1>2, BeforeOrders DEF ScoreSettled
<1>4. ASSUME NEW i \in 1 .. Len(r.staged), r.staged[i].trace = t PROVE r.staged[i].score = scores[t].rev
      BY <1>4, StagedRow DEF FineScore
<1>5. ASSUME NEW s \in r.rescored, s.trace = t PROVE s.score = scores[t].rev
      BY <1>3, <1>5 DEF ScoresListed, Rescoring, FineScore
<1> QED BY <1>4, <1>5 DEF GotScore

\* The scores of a trace at rest that its run has just passed.
LEMMA JustPassedScores ==
    ASSUME NEW r \in AnyRun, StagedFine(r), StagedFull(r), r.pc = "upload", ScoresListed(r), Ordered(r),
           DestTypes, FeedOk,
           NEW t \in Matching, AtRest(t), ~Before(r.at, At(t)),
           NEW tables, "scores" \in tables, NEW new, GotScore(r, t, tables, dest[t], new),
           ScoreSettled(t, r.sat), ScoresTo(r.from, r.sfrom)
    PROVE  new.score = scores[t].rev
<1>1. t \in Traces /\ scores[t].ver \in Nat
      BY DestinationAssumption DEF DestTypes
<1>2. CASE \E s \in r.rescored : s.trace = t
      <2>1. ASSUME NEW s \in r.rescored, s.trace = t PROVE s.score = scores[t].rev
            BY <2>1 DEF ScoresListed, Rescoring, FineScore
      <2> QED BY <1>2, <2>1 DEF GotScore, Unscored
<1>3. CASE ~\E s \in r.rescored : s.trace = t
      <2>1. ~GoneTo(t, r.at)
            BY <1>1 DEF GoneTo, AtRest, FeedOk
      <2>2. ~(NewScore(r, t) /\ ~Before(r.sat, ScorePlace(t)))
            BY <1>3, <2>1 DEF ScoresListed, Rescoring
      <2>3. ScoreSettled(t, r.sfrom)
            BY <2>2 DEF ScoreSettled, NewScore
      <2>4. Unscored(r, t) => dest[t].score = scores[t].rev
            <3>1. ASSUME Unscored(r, t) PROVE ~Before(r.from, At(t))
                  <4>1. ~IsStaged(r, t)
                        BY <3>1 DEF Unscored, IsStaged
                  <4> QED BY <4>1 DEF StagedFull
            <3> QED BY <2>3, <3>1 DEF ScoresTo
      <2> QED BY <1>1, <2>3, <2>4, PassedScores
<1> QED BY <1>2, <1>3

LEMMA UploadScores ==
    ASSUME DestInv, SentInv, NEW w \in Workers, NEW r, NEW tables, Uploads(w, r, tables), ~history.overlap,
           NEW at, NEW sat, \/ at = r.from /\ sat = r.sfrom
                            \/ at = r.at /\ sat = r.sat /\ "scores" \in tables
    PROVE  ScoresTo(at, sat)'
<1>1. /\ r \in AnyRun /\ r.pc = "upload" /\ kind = "export" /\ StagedFine(r) /\ StagedFull(r) /\ ScoresListed(r)
      /\ Ordered(r) /\ DestTypes /\ FeedOk
      /\ \A t \in Traces : GotScore(r, t, tables, dest[t], dest'[t])
      /\ feedRow' = feedRow /\ stored' = stored /\ writing' = writing /\ scores' = scores
      BY UploadKnows DEF DestInv, SentInv, Uploads
<1>2. ScoresTo(r.from, r.sfrom)
      <2>1. rule.pos = r.from /\ rule.spos = r.sfrom
            BY <1>1, RuleIsAt DEF Uploads
      <2> QED BY <1>1, <2>1 DEF SentInv, RuleFine
<1>3. ASSUME NEW t \in Matching, AtRest(t)', ~Before(at, At(t)'), ScoreSettled(t, sat)'
      PROVE  dest'[t].score = scores'[t].rev
      <2>1. t \in Traces /\ AtRest(t) /\ ~Before(at, At(t)) /\ ScoreSettled(t, sat)
            BY <1>1, <1>3, DestinationAssumption DEF AtRest, At, ScoreSettled, ScorePlace
      <2>2. PICK new : new = dest'[t] /\ GotScore(r, t, tables, dest[t], new)
            BY <1>1, <2>1
      <2>3. scores[t].ver \in Nat
            BY <1>1, <2>1 DEF DestTypes
      <2>4. CASE at = r.from /\ sat = r.sfrom
            <3>1. dest[t].score = scores[t].rev
                  BY <1>2, <2>1, <2>4 DEF ScoresTo
            <3>2. new.score = scores[t].rev
                  BY <1>1, <2>1, <2>2, <2>3, <2>4, <3>1, PassedScores
            <3> QED BY <1>1, <2>2, <3>2
      <2>5. CASE at = r.at /\ sat = r.sat /\ "scores" \in tables
            <3>1. new.score = scores[t].rev
                  BY <1>1, <1>2, <2>1, <2>2, <2>5, JustPassedScores
            <3> QED BY <1>1, <2>2, <3>1
      <2> QED BY <2>4, <2>5
<1> QED BY <1>3 DEF ScoresTo

\* What an upload leaves of the rule and of the other runs.
LEMMA UploadLeaves ==
    ASSUME DestInv, DestInv', SentInv, NEW w \in Workers, NEW r, NEW tables, Uploads(w, r, tables)
    PROVE  /\ DestFine' /\ RuleFine'
           /\ \A v \in Workers : v # w => Keeps(v)
<1>1. Stable /\ Grew /\ AnswersFine'
      BY UploadStable
<1>2. DestFine'
      BY <1>1, UploadRows DEF DestFine
<1>3. \A pos : KeepsAt(pos)
      BY UploadKeeps
<1>4. run[w].pc # "idle" /\ r = run[w] /\ rule' = rule /\ history' = history
      BY DEF Uploads
<1>5. RuleFine'
      <2>1. PICK pos, spos : pos = rule.pos /\ spos = rule.spos
            OBVIOUS
      <2>2. pos \in Moments /\ spos \in Moments /\ Given(pos) /\ Given(spos) /\ SentTo(pos)
            BY <2>1 DEF DestInv, DestTypes, SentInv, RuleFine
      <2>3. SentTo(pos)' /\ Given(pos)' /\ Given(spos)'
            BY <1>1, <1>3, <2>2, SentToStays, GivenStays
      <2>4. kind = "export" /\ ~history'.overlap => ScoresTo(pos, spos)'
            <3>1. CASE kind = "export" /\ ~history.overlap
                  <4>1. pos = r.from /\ spos = r.sfrom
                        BY <1>4, <2>1, <3>1, RuleIsAt
                  <4> QED BY <3>1, <4>1, UploadScores
            <3> QED BY <1>4, <3>1
      <2>5. rule'.pos = pos /\ rule'.spos = spos /\ kind' = kind
            BY <1>4, <2>1 DEF Uploads
      <2> QED BY <2>3, <2>4, <2>5 DEF RuleFine, Given, SentTo, ScoresTo, ScoreSettled
<1>6. ASSUME NEW v \in Workers, v # w PROVE Keeps(v)
      <2>1. CASE run[v].pc = "idle"
            BY <2>1 DEF Keeps
      <2>2. CASE history.overlap
            BY <1>3, <1>4, <2>2 DEF Keeps, KeepsScores
      <2> QED BY <1>4, <1>6, <2>1, <2>2, OthersKeep
<1> QED BY <1>2, <1>5, <1>6

LEMMA IdleKnows ==
    ASSUME DestTypes
    PROVE  RunKnows(Idle) /\ RunSent(Idle) /\ Fits(Idle)
<1>1. PICK x : x = Idle
      OBVIOUS
<1>2. /\ x.pc = "idle" /\ x.from = Origin /\ x.at = Origin /\ x.sfrom = Origin /\ x.sat = Origin
      /\ x.page = {} /\ x.entries = <<>> /\ x.staged = <<>> /\ x.rescored = {}
      BY <1>1 DEF Idle
<1>3. Given(Origin)
      BY DEF Given, Origin, DestTypes, FeedTypes
<1>4. Len(x.entries) = 0 /\ Len(x.staged) = 0
      BY <1>2, EmptySeq
<1>5. Known(x) /\ EntriesFull(x) /\ PageFull(x)
      BY <1>2, <1>3, <1>4 DEF Known, EntriesFull, PageFull
<1>6. StagedFine(x) /\ StagedOrdered(x) /\ StagedFull(x)
      BY <1>2, <1>4 DEF StagedFine, StagedOrdered, StagedFull
<1>7. Feeds(x)
      BY <1>2, <1>5, <1>6 DEF Feeds
<1>8. RunKnows(x)
      BY <1>2, <1>7, KnowsCalm
<1>9. RunSent(x) /\ Fits(x)
      BY <1>2 DEF RunSent, Fits, InDelivery, Holding
<1> QED BY <1>1, <1>8, <1>9

LEMMA UploadsSent ==
    ASSUME DestInv, DestInv', SentInv, NEW w \in Workers, Upload(w)
    PROVE  SentInv'
<1>1. PICK r, tables : r = run[w] /\ tables = {"trees", "scores"}
      OBVIOUS
<1>2. Uploads(w, r, tables)
      BY <1>1 DEF Uploads, Upload, Go, ExportOnly
<1>3. /\ r \in AnyRun /\ Ordered(r) /\ kind = "export" /\ RunKnows(r) /\ SentTo(r.from)
      /\ r.from \in Moments /\ r.at \in Moments /\ Given(r.from)
      BY <1>2, UploadKnows DEF RunKnows, Known
<1>4. PICK x : x = [r EXCEPT !.pc = "record"]
      OBVIOUS
<1>5. /\ run' = [run EXCEPT ![w] = x]
      BY <1>1, <1>4 DEF Upload, Go
<1>6. /\ x.pc = "record" /\ x.from = r.from /\ x.at = r.at /\ x.sfrom = r.sfrom /\ x.sat = r.sat
      /\ x.page = r.page /\ x.entries = r.entries /\ x.staged = r.staged /\ x.rescored = r.rescored
      BY <1>3, <1>4 DEF AnyRun
<1>7. RunKnows(x)
      <2>1. Known(r) /\ EntriesFull(r) /\ PageFull(r) /\ StagedFine(r) /\ StagedOrdered(r) /\ StagedFull(r) /\ ScoresListed(r)
            BY <1>3 DEF RunKnows
      <2>2. Known(x) /\ EntriesFull(x) /\ PageFull(x)
            BY <1>6, <2>1 DEF Known, EntriesFull, PageFull, Listing, Paging
      <2>3. StagedFine(x) /\ StagedOrdered(x) /\ StagedFull(x)
            BY <1>6, <2>1 DEF StagedFine, StagedOrdered, StagedFull, IsStaged
      <2>4. ScoresListed(x)
            <3>1. r.pc = "upload"
                  BY <1>2 DEF Uploads
            <3> QED BY <1>6, <2>1, <3>1 DEF ScoresListed, Rescoring, NewScore
      <2>5. Looked(x) /\ Loaded(x)
            BY <1>6 DEF Looked, Loaded, Walking
      <2> QED BY <2>2, <2>3, <2>4, <2>5 DEF RunKnows
<1>8. Stable /\ Grew
      BY <1>2, UploadStable
<1>9. RunKnows(x)'
      <2>1. x \in AnyRun
            BY <1>5, NextTyped
      <2> QED BY <1>7, <1>8, <2>1, KnowsStays
<1>10. RunSent(x)'
       <2>1. SentTo(x.from)'
             <3>1. KeepsAt(x.from)
                   BY <1>2, UploadKeeps
             <3> QED BY <1>3, <1>6, <1>8, <3>1, SentToStays
       <2>2. SentTo(x.at)'
             BY <1>1, <1>2, <1>6, UploadSent
       <2>3. ~history'.overlap => ScoresTo(x.at, x.sat)'
             <3>1. history' = history
                   BY <1>2 DEF Uploads
             <3> QED BY <1>1, <1>2, <1>6, <3>1, UploadScores
       <2> QED BY <1>6, <2>1, <2>2, <2>3 DEF RunSent
<1>11. Fits(x)
       BY <1>6 DEF Fits, InDelivery, Holding
<1>12. DestFine' /\ RuleFine' /\ \A v \in Workers : v # w => Keeps(v)
       BY <1>2, UploadLeaves
<1>13. Alone' /\ pageSize' = pageSize
       <2>1. run'[w] = x /\ \A v \in Workers : v # w => run'[v] = run[v]
             BY <1>5, OneRuns DEF DestInv
       <2>2. run[w].pc # "idle" /\ rule' = rule /\ pageSize' = pageSize
             BY <1>2 DEF Uploads
       <2> QED BY <1>1, <1>6, <1>8, <2>1, <2>2, AloneStays DEF SentInv
<1> QED BY <1>5, <1>8, <1>9, <1>10, <1>11, <1>12, <1>13, RunMoves

\* A run that ends, and leaves no trace.
LEMMA IdleMoves ==
    ASSUME DestInv, DestInv', SentInv, NEW w \in Workers, run' = [run EXCEPT ![w] = Idle],
           Stable, Grew, UNCHANGED <<pageSize, rule>>, DestFine', RuleFine', \A v \in Workers : v # w => Keeps(v)
    PROVE  SentInv'
<1>1. PICK x : x = Idle
      OBVIOUS
<1>2. RunKnows(x) /\ RunSent(x) /\ Fits(x) /\ x.pc = "idle"
      BY <1>1, IdleKnows DEF DestInv, Idle
<1>3. run' = [run EXCEPT ![w] = x]
      BY <1>1
<1>4. RunKnows(x)' /\ RunSent(x)'
      <2>1. x \in AnyRun
            BY <1>3, NextTyped
      <2> QED BY <1>2, <2>1, KnowsStays DEF RunSent
<1>5. Alone'
      <2>1. run'[w] = x /\ \A v \in Workers : v # w => run'[v] = run[v]
            BY <1>3, OneRuns DEF DestInv
      <2> QED BY <1>2, <2>1, AloneStays DEF SentInv
<1> QED BY <1>2, <1>3, <1>4, <1>5, RunMoves

LEMMA UploadFailsSent ==
    ASSUME DestInv, DestInv', SentInv, NEW w \in Workers, UploadFails(w)
    PROVE  SentInv'
<1>1. PICK tables : Uploads(w, run[w], tables)
      BY DEF Uploads, UploadFails, Go, ExportOnly
<1>2. DestFine' /\ RuleFine' /\ \A v \in Workers : v # w => Keeps(v)
      BY <1>1, UploadLeaves
<1>3. Stable /\ Grew
      BY <1>1, UploadStable
<1>4. run' = [run EXCEPT ![w] = Idle] /\ UNCHANGED <<pageSize, rule>>
      BY DEF UploadFails, Go, ExportOnly
<1> QED BY <1>2, <1>3, <1>4, IdleMoves

-----------------------------------------------------------------------------
\* The start and the end of a run.

LEMMA PlainSteps ==
    ASSUME DestInv, DestInv', SentInv, Grew, UNCHANGED <<feedVars, kind, scores, dest, deliveries, scanner>>
    PROVE  Stable /\ DestFine' /\ (\A pos : KeepsAt(pos)) /\ KeepsScores /\ \A v \in Workers : Keeps(v)
<1>1. Stable
      <2>1. dest' \in [Traces -> [ver : Nat, rev : Nat, score : Nat]]
            BY DEF SentInv, FeedOk
      <2> QED BY <2>1, SameFeedStable
<1>2. DestFine'
      BY <1>1, RowsStay, AnswersStay DEF SentInv, DestFine
<1>3. (\A pos : KeepsAt(pos)) /\ KeepsScores
      BY KeepsAll DEF DestInv
<1> QED BY <1>1, <1>2, <1>3 DEF Keeps

LEMMA ClaimRuleSent ==
    ASSUME DestInv, DestInv', SentInv, NEW w \in Workers, ClaimRule(w)
    PROVE  SentInv'
<1>1. PICK pos, spos, x : /\ pos = rule.pos /\ spos = rule.spos
                          /\ x = [Idle EXCEPT !.pc = "list", !.from = pos, !.at = pos, !.sfrom = spos, !.sat = spos]
      BY Zenon
<1>2. /\ run' = [run EXCEPT ![w] = x] /\ run[w].pc = "idle"
      /\ UNCHANGED <<feedVars, kind, pageSize, deliveries, scores, scanner, handoff, dest>>
      BY <1>1 DEF ClaimRule, Go
<1>3. rule'.pos = rule.pos /\ rule'.spos = rule.spos
      BY DEF ClaimRule, DestInv, DestTypes
<1>4. Grew /\ ((\E v \in Workers : run[v].pc # "idle") => history'.overlap)
      BY DEF ClaimRule, Grew, DestInv, DestTypes
<1>5. Stable /\ DestFine' /\ (\A p : KeepsAt(p)) /\ KeepsScores /\ \A v \in Workers : Keeps(v)
      BY <1>2, <1>4, PlainSteps
<1>6. x = RunAt("list", pos, pos, spos, spos)
      BY <1>1, RunAtIs, Zenon
<1>7. /\ x.pc = "list" /\ x.from = pos /\ x.at = pos /\ x.sfrom = spos /\ x.sat = spos
      /\ x.page = {} /\ x.entries = <<>> /\ x.staged = <<>> /\ x.rescored = {}
      BY <1>6 DEF RunAt
<1>8. Given(pos) /\ Given(spos) /\ SentTo(pos) /\ pos \in Moments
      BY <1>1 DEF SentInv, RuleFine, DestInv, DestTypes
<1>9. RunKnows(x)
      <2>1. Len(x.entries) = 0 /\ Len(x.staged) = 0
            BY <1>7, EmptySeq
      <2>2. Known(x) /\ EntriesFull(x) /\ PageFull(x)
            BY <1>7, <1>8, <2>1 DEF Known, EntriesFull, PageFull
      <2>3. StagedFine(x) /\ StagedOrdered(x) /\ StagedFull(x)
            BY <1>7, <2>1 DEF StagedFine, StagedOrdered, StagedFull
      <2>4. Feeds(x)
            BY <1>7, <2>2, <2>3 DEF Feeds
      <2> QED BY <1>7, <2>4, KnowsCalm, Zenon DEF Calm
<1>10. RunKnows(x)'
       <2>1. x \in AnyRun
             BY <1>2, NextTyped
       <2> QED BY <1>5, <1>9, <2>1, KnowsStays
<1>11. RunSent(x)'
       <2>1. SentTo(pos)'
             BY <1>5, <1>8, SentToStays
       <2> QED BY <1>7, <2>1 DEF RunSent
<1>12. Fits(x)
       BY <1>7 DEF Fits, InDelivery, Holding
<1>13. RuleFine'
       BY <1>3, <1>4, <1>5, RuleStays DEF SentInv
<1>14. Alone'
       <2>1. run'[w] = x /\ \A v \in Workers : v # w => run'[v] = run[v]
             BY <1>2, OneRuns DEF DestInv
       <2>2. ASSUME ~history'.overlap
             PROVE  \A v \in Workers : v # w => run'[v].pc = "idle"
             BY <1>4, <2>1, <2>2
       <2>3. rule'.pos = run'[w].from /\ rule'.spos = run'[w].sfrom
             BY <1>1, <1>3, <1>7, <2>1
       <2> QED BY <2>2, <2>3 DEF Alone
<1> QED BY <1>2, <1>4, <1>5, <1>10, <1>11, <1>12, <1>13, <1>14, RunMoves

\* The position a run stores is one it has sent to.
LEMMA RecordedFine ==
    ASSUME DestInv, SentInv, NEW w \in Workers, NEW r, r = run[w], r.pc = "record",
           NEW pos, NEW spos, pos = Recorded(rule.pos, r.from, r.at), spos = Recorded(rule.spos, r.sfrom, r.sat)
    PROVE  /\ pos \in Moments /\ spos \in Moments /\ Given(pos) /\ Given(spos) /\ SentTo(pos)
           /\ kind = "export" /\ ~history.overlap => ScoresTo(pos, spos)
<1>1. /\ r \in AnyRun /\ Known(r) /\ SentTo(r.at)
      /\ kind = "export" /\ ~history.overlap => ScoresTo(r.at, r.sat)
      BY DEF DestInv, SentInv, RunKnows, RunSent
<1>2. /\ rule.pos \in Moments /\ rule.spos \in Moments /\ Given(rule.pos) /\ Given(rule.spos) /\ SentTo(rule.pos)
      /\ r.at \in Moments /\ r.sat \in Moments /\ Given(r.at) /\ Given(r.sat)
      BY <1>1, RunParts DEF DestInv, DestTypes, SentInv, RuleFine, Known
<1>3. history.overlap \/ (rule.pos = r.from /\ (kind = "export" => rule.spos = r.sfrom))
      BY RuleIsAt
<1>4. CASE rule.pos = r.from
      BY <1>1, <1>2, <1>3, <1>4 DEF Recorded
<1>5. CASE rule.pos # r.from
      BY <1>1, <1>2, <1>3, <1>5 DEF Recorded
<1> QED BY <1>4, <1>5

LEMMA RecordRunSent ==
    ASSUME DestInv, DestInv', SentInv, NEW w \in Workers, RecordRun(w)
    PROVE  SentInv'
<1>1. PICK r, pos, spos : /\ r = run[w] /\ pos = Recorded(rule.pos, r.from, r.at)
                          /\ spos = Recorded(rule.spos, r.sfrom, r.sat)
      OBVIOUS
<1>2. PICK x : x = Idle /\ x.pc = "idle"
      <2>1. PICK x : x = Idle
            OBVIOUS
      <2>2. x.pc = "idle"
            BY <2>1 DEF Idle
      <2> QED BY <2>1, <2>2
<1>3. /\ r.pc = "record" /\ run' = [run EXCEPT ![w] = x] /\ rule'.pos = pos /\ rule'.spos = spos
      /\ UNCHANGED <<feedVars, kind, pageSize, deliveries, scores, scanner, handoff, dest, history>>
      BY <1>1, <1>2 DEF RecordRun, Go
<1>4. Grew
      BY <1>3, GrewSame
<1>5. Stable /\ DestFine' /\ (\A p : KeepsAt(p)) /\ KeepsScores /\ \A v \in Workers : Keeps(v)
      BY <1>3, <1>4, PlainSteps
<1>6. /\ pos \in Moments /\ spos \in Moments /\ Given(pos) /\ Given(spos) /\ SentTo(pos)
      /\ kind = "export" /\ ~history.overlap => ScoresTo(pos, spos)
      BY <1>1, <1>3, RecordedFine
<1>7. RuleFine'
      <2>1. Given(pos)' /\ Given(spos)'
            BY <1>5, <1>6, GivenStays
      <2>2. SentTo(pos)'
            BY <1>5, <1>6, SentToStays
      <2>3. kind = "export" /\ ~history.overlap => ScoresTo(pos, spos)'
            <3>1. \A t \in Traces : dest'[t].score = dest[t].score
                  BY <1>3
            <3> QED BY <1>5, <1>6, <3>1, ScoresToStays
      <2> QED BY <1>3, <2>1, <2>2, <2>3 DEF RuleFine, Given, SentTo, ScoresTo, ScoreSettled
<1>8. RunKnows(x)' /\ RunSent(x)' /\ Fits(x)
      <2>1. RunKnows(x) /\ RunSent(x) /\ Fits(x)
            BY <1>2, IdleKnows DEF DestInv
      <2>2. x \in AnyRun
            BY <1>3, NextTyped
      <2> QED BY <1>2, <1>5, <2>1, <2>2, KnowsStays DEF RunSent
<1>9. Alone'
      <2>1. run'[w] = x /\ \A v \in Workers : v # w => run'[v] = run[v]
            BY <1>3, OneRuns DEF DestInv
      <2>2. \A v \in Workers : v # w => history.overlap \/ run[v].pc = "idle"
            BY <1>1, <1>3, OthersKeep
      <2> QED BY <1>2, <1>3, <2>1, <2>2 DEF Alone
<1> QED BY <1>3, <1>4, <1>5, <1>7, <1>8, <1>9, RunMoves

LEMMA WorkerDiesSent ==
    ASSUME DestInv, DestInv', SentInv, NEW w \in Workers, run' = [run EXCEPT ![w] = Idle],
           UNCHANGED <<feedVars, kind, pageSize, rule, deliveries, scores, scanner, handoff, dest, history>>
    PROVE  SentInv'
<1>1. Grew
      BY GrewSame
<1>2. Stable /\ DestFine' /\ (\A p : KeepsAt(p)) /\ KeepsScores /\ \A v \in Workers : Keeps(v)
      BY <1>1, PlainSteps
<1>3. RuleFine'
      BY <1>1, <1>2, RuleStays DEF SentInv
<1> QED BY <1>1, <1>2, <1>3, IdleMoves

LEMMA RunThrowsSent ==
    ASSUME DestInv, DestInv', SentInv, NEW w \in Workers, RunThrows(w)
    PROVE  SentInv'
<1>1. PICK r : r = run[w] /\ RunSent(r) /\ Fits(r) /\ RunKnows(r)
      BY DEF SentInv
<1>2. /\ r.pc \notin {"idle", "record"}
      /\ run' = [run EXCEPT ![w] = IF kind = "export" THEN Idle ELSE Stopped(r)]
      /\ UNCHANGED <<feedVars, kind, pageSize, rule, deliveries, scores, scanner, handoff, dest, history>>
      BY <1>1 DEF RunThrows, DestInv
<1>3. CASE kind = "export"
      <2>1. run' = [run EXCEPT ![w] = Idle]
            BY <1>2, <1>3
      <2> QED BY <1>2, <2>1, WorkerDiesSent
<1>4. CASE kind # "export"
      <2>1. Reading(r)
            <3>1. r.pc \notin {"rescore", "upload", "record"}
                  BY <1>1, <1>2, <1>4 DEF Fits
            <3> QED BY <1>1, <3>1, RunReads
      <2>2. PICK x, at : x = Stopped(r) /\ at = r.at
            OBVIOUS
      <2>3. RunKnows(x) /\ Fits(x) /\ x.pc = "record" /\ x.from = r.from /\ x.at = at
            BY <1>4, <2>1, <2>2, StoppedKnows DEF DestInv
      <2>4. run' = [run EXCEPT ![w] = x]
            BY <1>2, <1>4, <2>2
      <2>5. Grew
            BY <1>2, GrewSame
      <2>6. AnswersFine'
            BY <1>2, <2>5, AnswersStay DEF SentInv, DestFine
      <2>7. SentTo(at)'
            <3>1. r.at \in Moments /\ Given(r.at) /\ SentTo(r.at)
                  BY <1>1, <1>2, <1>4, <2>1, RunParts DEF Reading, Feeds, Known, RunSent
            <3> QED BY <1>2, <2>2, <2>5, <3>1, SentToPlain
      <2> QED BY <1>1, <1>2, <1>4, <2>3, <2>4, <2>5, <2>6, <2>7, MovedPlain
<1> QED BY <1>3, <1>4

-----------------------------------------------------------------------------
\* What is passed is sent: the steps together.

LEMMA WorkerSent ==
    ASSUME DestInv, DestInv', SentInv, NEW w \in Workers, Advance(w) \/ UploadFails(w) \/ RunThrows(w) \/ WorkerDies(w)
    PROVE  SentInv'
<1>1. CASE ClaimRule(w)
      BY <1>1, ClaimRuleSent
<1>2. CASE \/ ReadPage(w) \/ (\E what \in {"summaries", "pending"} : LookUp(w, what))
           \/ WalkEntry(w) \/ LookAgain(w)
           \/ LoadObservations(w) \/ (\E table \in {"traces", "observations", "scores"} : LoadRows(w, table))
           \/ ListScores(w) \/ MatchScores(w) \/ StageScores(w)
      BY <1>2, ReadSent
<1>3. CASE \/ PassEntry(w) \/ BeginDelivery(w) \/ ScannerStatus(w) \/ ClaimVersion(w) \/ VersionStatus(w)
           \/ (\E ok \in BOOLEAN : Post(w, ok))
           \/ MarkDelivered(w) \/ MarkCovered(w) \/ MarkFailed(w) \/ Release(w)
      BY <1>3, DeliverySent
<1>4. CASE ForwardEntry(w)
      BY <1>4, ForwardSent
<1>5. CASE StageEntry(w)
      BY <1>5, StageSent
<1>6. CASE Upload(w)
      BY <1>6, UploadsSent
<1>7. CASE RecordRun(w)
      BY <1>7, RecordRunSent
<1>8. CASE UploadFails(w)
      BY <1>8, UploadFailsSent
<1>9. CASE RunThrows(w)
      BY <1>9, RunThrowsSent
<1>10. CASE WorkerDies(w)
       BY <1>10, WorkerDiesSent DEF WorkerDies
<1> QED BY <1>1, <1>2, <1>3, <1>4, <1>5, <1>6, <1>7, <1>8, <1>9, <1>10 DEF Advance

LEMMA SentKeeps ==
    ASSUME DestInv, DestInv', SentInv, [DestNext]_destAll
    PROVE  SentInv'
<1>1. CASE FeedNext /\ UNCHANGED destVars
      BY <1>1, FeedSent
<1>2. CASE \E w \in Workers : Advance(w) \/ UploadFails(w) \/ RunThrows(w) \/ WorkerDies(w)
      BY <1>2, WorkerSent
<1>3. CASE ComesDue \/ ScannerNext \/ HandoffEnds \/ (\E key \in DOMAIN deliveries : GoesStale(key))
      BY <1>3, CalmSent
<1>4. CASE \E t \in Traces : WriteScores(t) \/ PublishScores(t)
      BY <1>4, FeedSent
<1>5. CASE UNCHANGED destAll
      BY <1>5, CalmSent
<1> QED BY <1>1, <1>2, <1>3, <1>4, <1>5 DEF DestNext

LEMMA SentStarts ==
    ASSUME DestInit, DestInv
    PROVE  SentInv
<1>1. /\ \A w \in Workers : run[w] = Idle
      /\ pageSize \in PageSizes /\ rule.pos = Origin /\ rule.spos = Origin
      /\ writing = [t \in Traces |-> "none"] /\ feedRow = [t \in Traces |-> NoRow]
      /\ stored = [t \in Traces |-> [src |-> 0, rev |-> 0]]
      /\ scores = [t \in Traces |-> [rev |-> 0, ver |-> 0, writing |-> FALSE]]
      /\ dest = [t \in Traces |-> NothingSent] /\ deliveries = <<>> /\ scanner.answer = "none"
      BY DEF DestInit, FeedInit
<1>2. FeedOk
      BY <1>1 DEF FeedOk, NoRow, NothingSent, DestInv, DestTypes, FeedTypes
<1>3. DestFine
      <2>1. RowsFine
            BY <1>1 DEF RowsFine, GivenRow, NothingSent, DestInv, DestTypes, FeedTypes
      <2>2. DOMAIN deliveries = {}
            <3>1. Len(deliveries) = 0 /\ deliveries \in Seq(Nat)
                  BY <1>1, EmptySeq
            <3> QED BY <3>1, LenProperties
      <2>3. AnswersFine
            BY <1>1, <2>2 DEF AnswersFine
      <2> QED BY <2>1, <2>3 DEF DestFine
<1>4. RuleFine
      <2>1. \A t \in Matching : ~AtRest(t)
            BY <1>1, DestinationAssumption DEF AtRest
      <2>2. Given(Origin)
            BY DEF Given, Origin, DestInv, DestTypes, FeedTypes
      <2> QED BY <1>1, <2>1, <2>2 DEF RuleFine, SentTo, ScoresTo
<1>5. Alone
      BY <1>1 DEF Alone, Idle
<1>6. \A w \in Workers : RunKnows(run[w]) /\ RunSent(run[w]) /\ Fits(run[w])
      BY <1>1, IdleKnows DEF DestInv
<1> QED BY <1>1, <1>2, <1>3, <1>4, <1>5, <1>6 DEF SentInv

\* Whatever changes, fails, overlaps, dies or goes stale: a trace at rest that
\* the stored position of a rule has passed is at its destination as it is
\* stored now, and an exported trace with the scores that the score position
\* has passed (recordExportRun, recordOtlpForwardRun, recordWebhookRun store a
\* position only after what precedes it was sent, readSettledTraceFeed never
\* passes a trace that is still to change under its row).
THEOREM PassedWasSent == DestSpec => []PassedIsSent
<1>1. DestInit => DestInv /\ ClaimsInv /\ SentInv
      BY DestStarts, SentStarts
<1>2. DestInv /\ ClaimsInv /\ SentInv /\ [DestNext]_destAll => DestInv' /\ ClaimsInv' /\ SentInv'
      BY DestKeeps, SentKeeps
<1>3. SentInv => PassedIsSent
      BY DEF SentInv, RuleFine, SentTo, ScoresTo, ScoreSettled, ScorePlace, PassedIsSent, TracesAreSent, ScoresAreSent
<1> QED BY <1>1, <1>2, <1>3, PTL DEF DestSpec
=============================================================================
