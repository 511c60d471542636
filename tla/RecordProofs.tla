---------------------------- MODULE RecordProofs ----------------------------
(***************************************************************************)
(* Proofs about the merge and the moved rows of a stored record            *)
(* (RecordMerge), for any number of batches, days and contents, and any    *)
(* number of failed attempts and purges: a record all of whose batches are *)
(* in has the last value sent of each field, whatever the order they were  *)
(* processed in (MergedAsTheyCame), and one visible row (OneRowIsLeft).    *)
(*                                                                         *)
(* The rows of a merged record: the lock keeps every merge alone, from its *)
(* read of the stored row to the record of the field times. Some visible   *)
(* row is none older than what is stored under the other days, so a merge  *)
(* that writes it at that version or later hides all of them, and the days *)
(* it deletes are those that it moved from.                                *)
(*                                                                         *)
(* The fields of a merged record: D are the batches that are done. A field *)
(* of a visible row is "fine" for D when no batch of D sent it later, and  *)
(* the times recorded say of every batch to come whether it is newer than  *)
(* those of D that sent the field. A failed attempt leaves a row that is   *)
(* fine for D and for its own batch too, which the retry finds: fine is    *)
(* weaker than equal to the last of D. When no batch is left, it is equal. *)
(*                                                                         *)
(* The row of a record that is written whole: the newest batch's is in its *)
(* place once it is written, as the versions of all others are smaller,    *)
(* and it is the only one unless two jobs overlapped.                      *)
(***************************************************************************)
EXTENDS RecordMerge, FiniteSetTheorems, TLAPS

-----------------------------------------------------------------------------
\* Types.

Costs == [from : Nat, derived : BOOLEAN]
Metas == [from : Nat, label : BOOLEAN]
Rows == [day : Days, time : Nat, name : Nat, usage : Nat, cost : Costs, metadata : Metas]
StoredRows == [ver : Batches, gone : BOOLEAN, row : Rows]
Work == [pc : {"resolved", "written", "cleaned"}, row : Rows, ver : Batches, write : BOOLEAN,
         drop : SUBSET Days, times : [Fields -> Int]]
Jobs == {IdleJob, [pc |-> "done"]} \cup Work
Pasts == [overlap : BOOLEAN, implied : BOOLEAN, legacy : {0, 1}, failures : Nat, purges : Nat]

MergeTypes ==
    /\ record \in {"merged", "whole"}
    /\ content \in [Batches -> Contents]
    /\ table \in [Days -> {NoStored} \cup StoredRows]
    /\ job \in [Batches -> Jobs]
    /\ lock \in Batches \cup {0}
    /\ sentAt \in [Fields -> Int]
    /\ past \in Pasts

-----------------------------------------------------------------------------
\* The fields of a record, as far as the batches of D are in.

SentBy(f, D) == {b \in D : f \in Sends(b)}
Newer(c, f, D) == \A e \in SentBy(f, D) : e < c

\* The value v of field f is none older than any of D sent: what a batch of D
\* sent last, or what a batch sent whose job is not done.
Fine(v, f, D) ==
    /\ v \in Senders(f) \/ SentBy(f, D) = {}
    /\ \A e \in SentBy(f, D) : e <= v
    /\ f # "time" => v \in Senders(f) \cup {0}

FineRow(row, D) ==
    /\ Fine(row.time, "time", D) /\ Fine(row.name, "name", D)
    /\ Fine(row.usage, "usage", D) /\ Fine(row.metadata.from, "metadata", D)

\* The cost was sent, or it is derived from the usage of the row.
FineCost(row, D) ==
    \/ /\ row.cost.derived = TRUE /\ row.metadata.label = TRUE
       /\ row.cost.from = row.usage /\ row.usage # 0 /\ content[row.usage].priced
       /\ SentBy("cost", D) = {}
    \/ /\ row.cost.derived = FALSE /\ row.metadata.label = FALSE
       /\ Fine(row.cost.from, "cost", D)
       /\ row.cost.from = 0 => ~(row.usage # 0 /\ content[row.usage].priced)

GoodRow(row, D) == row \in Rows /\ FineRow(row, D) /\ FineCost(row, D)

\* Field times tell of each batch to come whether it is newer than those of D
\* that sent the field.
TimesOk(times, D) ==
    /\ times \in [Fields -> Nat]
    /\ \A f \in Fields : \A c \in Batches \ D : c >= times[f] <=> Newer(c, f, D)

\* That much of it the merge of b relies on.
TimesFit(times, b, D) ==
    /\ times \in [Fields -> Nat]
    /\ \A f \in Fields :
          /\ f \in Sends(b) => (b >= times[f] <=> Newer(b, f, D))
          /\ f \notin Sends(b) \/ ~(b >= times[f]) =>
                \A c \in Batches \ (D \cup {b}) : c >= times[f] <=> Newer(c, f, D)

\* Batches are numbers, and the last is one of them.
LEMMA BatchNumbers ==
    /\ \A b \in Batches : b \in Nat /\ b >= 1 /\ b <= MaxBatches
    /\ MaxBatches \in Batches /\ MaxBatches \in Nat
BY MergeAssumption DEF Batches

\* A batch sends fields of a record, whose time falls on a day.
LEMMA SendsFields ==
    ASSUME content \in [Batches -> Contents], NEW b \in Batches
    PROVE  /\ Sends(b) \subseteq Fields /\ content[b].day \in Days
           /\ \A f : f \in Sends(b) <=> b \in Senders(f)
<1>1. content[b] \in [sends : SUBSET Fields, day : Days, priced : BOOLEAN]
      BY ContentAssumption
<1> QED BY <1>1 DEF Sends, Senders

\* What is fine for more batches is fine for fewer.
LEMMA FineForFewer ==
    ASSUME NEW D, NEW E, D \subseteq E
    PROVE  /\ \A v, f : Fine(v, f, E) => Fine(v, f, D)
           /\ \A row : GoodRow(row, E) => GoodRow(row, D)
<1>1. \A f : SentBy(f, D) \subseteq SentBy(f, E)
      BY DEF SentBy
<1>2. \A v, f : Fine(v, f, E) => Fine(v, f, D)
      BY <1>1 DEF Fine
<1>3. \A row : FineCost(row, E) => FineCost(row, D)
      BY <1>1, <1>2 DEF FineCost
<1> QED BY <1>2, <1>3 DEF GoodRow, FineRow

\* The merge of b takes a field, or keeps it.
LEMMA FieldMoves ==
    ASSUME content \in [Batches -> Contents], NEW D \in SUBSET Batches, NEW b \in Batches \ D,
           NEW f, NEW v \in Nat, Fine(v, f, D), NEW new,
           \/ f \in Sends(b) /\ Newer(b, f, D) /\ new = b
           \/ ~(f \in Sends(b) /\ Newer(b, f, D)) /\ new = v
    PROVE  Fine(new, f, D \cup {b})
<1>1. \A e \in D : e \in Nat
      BY BatchNumbers
<1>2. b \in Nat /\ (f \in Sends(b) <=> b \in Senders(f))
      BY BatchNumbers, SendsFields
<1>3. \A e : e \in SentBy(f, D \cup {b}) <=> e \in SentBy(f, D) \/ (e = b /\ f \in Sends(b))
      BY DEF SentBy
<1>4. \A e \in SentBy(f, D) : e \in Nat
      BY <1>1 DEF SentBy
<1>5. CASE f \in Sends(b) /\ Newer(b, f, D) /\ new = b
      BY <1>2, <1>3, <1>4, <1>5 DEF Fine, Newer
<1>6. CASE ~(f \in Sends(b)) /\ new = v
      BY <1>3, <1>6 DEF Fine
<1>7. CASE f \in Sends(b) /\ ~Newer(b, f, D) /\ new = v
      <2>1. PICK e \in SentBy(f, D) : ~(e < b)
            BY <1>7 DEF Newer
      <2>2. v \in Senders(f) /\ e <= v /\ b <= v
            BY <1>2, <1>4, <2>1 DEF Fine
      <2> QED BY <1>3, <1>7, <2>2 DEF Fine
<1> QED BY <1>5, <1>6, <1>7

\* So do the times recorded of the fields.
LEMMA TimeMoves ==
    ASSUME content \in [Batches -> Contents], NEW D \in SUBSET Batches, NEW b \in Batches \ D,
           NEW times, TimesFit(times, b, D), NEW f \in Fields, NEW c \in Batches \ (D \cup {b}),
             NEW at,
           \/ f \in Sends(b) /\ b >= times[f] /\ at = b
           \/ ~(f \in Sends(b) /\ b >= times[f]) /\ at = times[f]
    PROVE  at \in Nat /\ (c >= at <=> Newer(c, f, D \cup {b}))
<1>1. \A e \in D : e \in Nat
      BY BatchNumbers
<1>2. b \in Nat /\ c \in Nat /\ times[f] \in Nat /\ c # b
      BY BatchNumbers DEF TimesFit
<1>3. \A e : e \in SentBy(f, D \cup {b}) <=> e \in SentBy(f, D) \/ (e = b /\ f \in Sends(b))
      BY DEF SentBy
<1>4. \A e \in SentBy(f, D) : e \in Nat /\ e # b
      BY <1>1 DEF SentBy
<1>5. CASE f \in Sends(b) /\ b >= times[f] /\ at = b
      <2>1. \A e \in SentBy(f, D) : e < b
            BY <1>5 DEF TimesFit, Newer
      <2>2. Newer(c, f, D \cup {b}) <=> b < c
            BY <1>2, <1>3, <1>4, <1>5, <2>1 DEF Newer
      <2> QED BY <1>2, <1>5, <2>2
<1>6. CASE f \notin Sends(b) /\ at = times[f]
      <2>1. Newer(c, f, D \cup {b}) <=> Newer(c, f, D)
            BY <1>3, <1>6 DEF Newer
      <2> QED BY <1>2, <1>6, <2>1 DEF TimesFit
<1>7. CASE f \in Sends(b) /\ ~(b >= times[f]) /\ at = times[f]
      <2>1. PICK e \in SentBy(f, D) : ~(e < b)
            BY <1>7 DEF TimesFit, Newer
      <2>2. Newer(c, f, D \cup {b}) <=> Newer(c, f, D)
            BY <1>2, <1>3, <1>4, <1>7, <2>1 DEF Newer
      <2> QED BY <1>2, <1>7, <2>2 DEF TimesFit
<1> QED BY <1>5, <1>6, <1>7

\* A row without a derived cost, whose fields are fine, is good when enriched.
LEMMA EnrichedIsGood ==
    ASSUME content \in [Batches -> Contents], NEW E \in SUBSET Batches, NEW row \in Rows,
           row.metadata.label = FALSE, row.cost.derived = FALSE,
           FineRow(row, E), Fine(row.cost.from, "cost", E)
    PROVE  GoodRow(Enriched(row), E) /\ Enriched(row).time = row.time
             /\ Enriched(row).day = row.day
<1>1. /\ row.usage \in Nat /\ row.cost \in Costs /\ row.metadata \in Metas
      /\ row.cost.from \in Nat /\ row.metadata.from \in Nat
      BY DEF Rows, Costs, Metas
<1>2. CASE row.cost.from = 0 /\ row.usage # 0 /\ content[row.usage].priced
      <2>1. PICK cost, metadata : /\ cost = [from |-> row.usage, derived |-> TRUE]
                                  /\ metadata = [row.metadata EXCEPT !.label = TRUE]
            OBVIOUS
      <2>2. /\ cost \in Costs /\ cost.from = row.usage /\ cost.derived = TRUE
            /\ metadata \in Metas /\ metadata.from = row.metadata.from /\ metadata.label = TRUE
            BY <1>1, <2>1 DEF Costs, Metas
      <2>3. PICK r : r = [row EXCEPT !.cost = cost, !.metadata = metadata]
            OBVIOUS
      <2>4. Enriched(row) = r
            BY <1>1, <1>2, <2>1, <2>3 DEF Enriched, Rows, Metas
      <2>5. /\ r \in Rows /\ r.time = row.time /\ r.name = row.name /\ r.usage = row.usage
            /\ r.day = row.day /\ r.cost = cost /\ r.metadata = metadata
            BY <2>2, <2>3 DEF Rows
      <2>6. SentBy("cost", E) = {}
            <3>1. \A e \in SentBy("cost", E) : e \in Nat /\ e >= 1
                  BY BatchNumbers DEF SentBy
            <3> QED BY <1>2, <3>1 DEF Fine
      <2>7. FineRow(r, E)
            BY <2>2, <2>5 DEF FineRow
      <2>8. FineCost(r, E)
            BY <1>2, <2>2, <2>5, <2>6 DEF FineCost
      <2> QED BY <2>4, <2>5, <2>7, <2>8 DEF GoodRow
<1>3. CASE ~(row.cost.from = 0 /\ row.usage # 0 /\ content[row.usage].priced)
      <2>1. Enriched(row) = row
            BY <1>3 DEF Enriched
      <2>2. FineCost(row, E)
            BY <1>3 DEF FineCost
      <2> QED BY <2>1, <2>2 DEF GoodRow
<1> QED BY <1>2, <1>3

\* The row of a batch.
LEMMA IncomingRow ==
    ASSUME content \in [Batches -> Contents], NEW b \in Batches
    PROVE  /\ Incoming(b) \in Rows
           /\ Incoming(b).day = content[b].day /\ Incoming(b).time = b
           /\ Incoming(b).name = Sent(b, "name") /\ Incoming(b).usage = Sent(b, "usage")
           /\ Incoming(b).cost = [from |-> Sent(b, "cost"), derived |-> FALSE]
           /\ Incoming(b).metadata = [from |-> Sent(b, "metadata"), label |-> FALSE]
<1>1. b \in Nat /\ content[b].day \in Days
      BY BatchNumbers, SendsFields
<1>2. \A f : Sent(b, f) \in Nat
      BY <1>1 DEF Sent
<1>3. PICK cost, metadata : /\ cost = [NoCost EXCEPT !.from = Sent(b, "cost")]
                            /\ metadata = [from |-> Sent(b, "metadata"), label |-> FALSE]
      OBVIOUS
<1>4. /\ cost = [from |-> Sent(b, "cost"), derived |-> FALSE]
      /\ cost \in Costs /\ metadata \in Metas
      BY <1>2, <1>3 DEF NoCost, Costs, Metas
<1>5. Sent(b, "name") \in Nat /\ Sent(b, "usage") \in Nat
      BY <1>2
<1>6. PICK row : row = [day |-> content[b].day, time |-> b, name |-> Sent(b, "name"),
                        usage |-> Sent(b, "usage"), cost |-> cost, metadata |-> metadata]
      OBVIOUS
<1>7. Incoming(b) = row
      BY <1>3, <1>6 DEF Incoming
<1>8. /\ row \in Rows /\ row.day = content[b].day /\ row.time = b
      /\ row.name = Sent(b, "name") /\ row.usage = Sent(b, "usage")
      /\ row.cost = cost /\ row.metadata = metadata
      BY <1>1, <1>4, <1>5, <1>6 DEF Rows
<1> QED BY <1>3, <1>4, <1>7, <1>8

\* The first row of a record.
LEMMA FirstIsGood ==
    ASSUME content \in [Batches -> Contents], NEW b \in Batches
    PROVE  /\ Enriched(Incoming(b)) \in Rows
           /\ GoodRow(Enriched(Incoming(b)), {b})
           /\ Enriched(Incoming(b)).day = content[b].day /\ Enriched(Incoming(b)).time = b
           /\ TimesOk([f \in Fields |-> Sent(b, f)], {b})
<1>1. b \in Nat /\ b >= 1 /\ content[b].day \in Days
      BY BatchNumbers, SendsFields
<1>2. \A f : /\ Sent(b, f) \in Nat
             /\ f \in Sends(b) => Sent(b, f) = b /\ b \in Senders(f)
             /\ f \notin Sends(b) => Sent(b, f) = 0
      BY <1>1, SendsFields DEF Sent
<1>3. \A f : SentBy(f, {b}) = IF f \in Sends(b) THEN {b} ELSE {}
      BY DEF SentBy
<1>4. ASSUME NEW f
      PROVE  Fine(Sent(b, f), f, {b})
      <2>1. CASE f \in Sends(b)
            <3>1. Sent(b, f) = b /\ b \in Senders(f) /\ SentBy(f, {b}) = {b}
                  BY <1>2, <1>3, <2>1
            <3> QED BY <1>1, <3>1 DEF Fine
      <2>2. CASE f \notin Sends(b)
            <3>1. Sent(b, f) = 0 /\ SentBy(f, {b}) = {}
                  BY <1>2, <1>3, <2>2
            <3> QED BY <3>1 DEF Fine
      <2> QED BY <2>1, <2>2
<1>5. Fine(b, "time", {b})
      <2>1. CASE "time" \in Sends(b)
            <3>1. b \in Senders("time") /\ SentBy("time", {b}) = {b}
                  BY <1>2, <1>3, <2>1
            <3> QED BY <1>1, <3>1 DEF Fine
      <2>2. CASE "time" \notin Sends(b)
            <3>1. SentBy("time", {b}) = {}
                  BY <1>3, <2>2
            <3> QED BY <3>1 DEF Fine
      <2> QED BY <2>1, <2>2
<1>6. PICK row : row = Incoming(b)
      OBVIOUS
<1>7. /\ row \in Rows /\ row.day = content[b].day /\ row.time = b
      /\ row.name = Sent(b, "name") /\ row.usage = Sent(b, "usage")
      /\ row.cost.from = Sent(b, "cost") /\ row.cost.derived = FALSE
      /\ row.metadata.from = Sent(b, "metadata") /\ row.metadata.label = FALSE
  <2>1. /\ row \in Rows /\ row.day = content[b].day /\ row.time = b
        /\ row.name = Sent(b, "name") /\ row.usage = Sent(b, "usage")
        /\ row.cost = [from |-> Sent(b, "cost"), derived |-> FALSE]
        /\ row.metadata = [from |-> Sent(b, "metadata"), label |-> FALSE]
        BY <1>6, IncomingRow
  <2> QED BY <2>1
<1>8. FineRow(row, {b}) /\ Fine(row.cost.from, "cost", {b})
      BY <1>4, <1>5, <1>7 DEF FineRow
<1>9. /\ GoodRow(Enriched(row), {b}) /\ Enriched(row).time = row.time
      /\ Enriched(row).day = row.day
      BY <1>7, <1>8, EnrichedIsGood
<1>10. TimesOk([f \in Fields |-> Sent(b, f)], {b})
      <2>1. ASSUME NEW f \in Fields, NEW c \in Batches \ {b}
            PROVE  c >= Sent(b, f) <=> Newer(c, f, {b})
            <3>1. c \in Nat /\ c # b
                  BY BatchNumbers
            <3>2. CASE f \in Sends(b)
                  <4>1. Sent(b, f) = b /\ SentBy(f, {b}) = {b}
                        BY <1>2, <1>3, <3>2
                  <4> QED BY <1>1, <3>1, <4>1 DEF Newer
            <3>3. CASE f \notin Sends(b)
                  <4>1. Sent(b, f) = 0 /\ SentBy(f, {b}) = {}
                        BY <1>2, <1>3, <3>3
                  <4> QED BY <3>1, <4>1 DEF Newer
            <3> QED BY <3>2, <3>3
      <2> QED BY <1>2, <2>1 DEF TimesOk
<1> QED BY <1>6, <1>7, <1>9, <1>10 DEF GoodRow

\* A merge mixes the row of a batch with the stored one.
LEMMA MixedRow ==
    ASSUME NEW old \in Rows, NEW new \in Rows, NEW taken
    PROVE  /\ FieldByField(old, new, taken) \in Rows
           /\ FieldByField(old, new, taken).day = IF "time" \in taken THEN new.day ELSE old.day
           /\ FieldByField(old, new, taken).time = IF "time" \in taken THEN new.time ELSE old.time
           /\ FieldByField(old, new, taken).name = IF "name" \in taken THEN new.name ELSE old.name
           /\ FieldByField(old, new, taken).usage =
                  IF "usage" \in taken THEN new.usage ELSE old.usage
           /\ FieldByField(old, new, taken).cost = IF "cost" \in taken THEN new.cost ELSE old.cost
           /\ FieldByField(old, new, taken).metadata =
                  IF "metadata" \in taken THEN new.metadata ELSE old.metadata
<1>1. PICK day, time, name, usage, cost, metadata :
        /\ day = IF "time" \in taken THEN new.day ELSE old.day
        /\ time = IF "time" \in taken THEN new["time"] ELSE old["time"]
        /\ name = IF "name" \in taken THEN new["name"] ELSE old["name"]
        /\ usage = IF "usage" \in taken THEN new["usage"] ELSE old["usage"]
        /\ cost = IF "cost" \in taken THEN new["cost"] ELSE old["cost"]
        /\ metadata = IF "metadata" \in taken THEN new["metadata"] ELSE old["metadata"]
      OBVIOUS
<1>2. FieldByField(old, new, taken) =
         [day |-> day, time |-> time, name |-> name, usage |-> usage, cost |-> cost,
          metadata |-> metadata]
      BY <1>1 DEF FieldByField
<1>3. /\ day \in Days /\ time \in Nat /\ name \in Nat /\ usage \in Nat
      /\ cost \in Costs /\ metadata \in Metas
      BY <1>1 DEF Rows
<1> QED BY <1>1, <1>2, <1>3 DEF Rows

\* What the cost rules do to a row, of which they keep the rest.
RestOf(r, row) ==
    /\ r \in Rows /\ r.day = row.day /\ r.time = row.time /\ r.name = row.name
    /\ r.usage = row.usage /\ r.metadata.from = row.metadata.from

Relabelled(r, row, cost, label) ==
    RestOf(r, row) /\ r.cost = cost /\ r.metadata.label = label

\* A row whose label is set, and one whose cost is cleared as well.
LEMMA Relabelling ==
    ASSUME NEW row \in Rows, NEW label \in BOOLEAN
    PROVE  /\ Relabelled([row EXCEPT !.metadata.label = label], row, row.cost, label)
           /\ Relabelled([row EXCEPT !.cost = NoCost, !.metadata.label = label], row, NoCost, label)
<1>1. row.metadata \in Metas /\ row.cost \in Costs /\ NoCost \in Costs
      BY DEF Rows, NoCost, Costs
<1>2. PICK metadata : metadata = [row.metadata EXCEPT !.label = label]
      OBVIOUS
<1>3. metadata \in Metas /\ metadata.from = row.metadata.from /\ metadata.label = label
      BY <1>1, <1>2 DEF Metas
<1>4. PICK r1, r2 : /\ r1 = [row EXCEPT !.metadata = metadata]
                    /\ r2 = [row EXCEPT !.cost = NoCost, !.metadata = metadata]
      OBVIOUS
<1>5. /\ r1 \in Rows /\ r1.day = row.day /\ r1.time = row.time /\ r1.name = row.name
      /\ r1.usage = row.usage /\ r1.cost = row.cost /\ r1.metadata = metadata
      BY <1>3, <1>4 DEF Rows
<1>6. /\ r2 \in Rows /\ r2.day = row.day /\ r2.time = row.time /\ r2.name = row.name
      /\ r2.usage = row.usage /\ r2.cost = NoCost /\ r2.metadata = metadata
      BY <1>1, <1>3, <1>4 DEF Rows
<1>7. /\ r1 = [row EXCEPT !.metadata.label = label]
      /\ r2 = [row EXCEPT !.cost = NoCost, !.metadata.label = label]
      BY <1>2, <1>4 DEF Rows
<1>8. Relabelled(r1, row, row.cost, label) /\ Relabelled(r2, row, NoCost, label)
      BY <1>3, <1>5, <1>6 DEF Relabelled, RestOf
<1> QED BY <1>7, <1>8

CostRuled(m, old, row, times, taken) ==
    /\ "cost" \in taken => Relabelled(m.row, row, row.cost, FALSE) /\ m.times = times
    /\ "cost" \notin taken /\ old.cost.from # 0 /\ old.metadata.label /\ "usage" \in taken =>
          /\ Relabelled(m.row, row, NoCost, FALSE)
          /\ m.times = [times EXCEPT !["cost"] = 0]
    /\ "cost" \notin taken /\ old.cost.from # 0 /\ old.metadata.label /\ "usage" \notin taken =>
          Relabelled(m.row, row, row.cost, TRUE) /\ m.times = times
    /\ "cost" \notin taken /\ ~(old.cost.from # 0 /\ old.metadata.label) =>
          m.row = row /\ m.times = times

\* The cost rules, case by case: the cost is sent, or was derived from a usage that
\* changes, or was derived from a usage that stays, or none of these.
LEMMA CostRulesGive ==
    ASSUME NEW old \in Rows, NEW row \in Rows, NEW times, NEW taken, NEW m,
           m = CostRules(old, row, times, taken)
    PROVE  CostRuled(m, old, row, times, taken)
<1>1. PICK r1, r2, r3 :
          /\ r1 = [row EXCEPT !.metadata.label = FALSE]
          /\ r2 = [row EXCEPT !.cost = NoCost, !.metadata.label = FALSE]
          /\ r3 = [row EXCEPT !.metadata.label = TRUE]
      OBVIOUS
<1>2. /\ Relabelled(r1, row, row.cost, FALSE) /\ Relabelled(r2, row, NoCost, FALSE)
      /\ Relabelled(r3, row, row.cost, TRUE)
      BY <1>1, Relabelling
<1>3. PICK t2 : t2 = [times EXCEPT !["cost"] = 0]
      OBVIOUS
<1>4. ASSUME "cost" \in taken
      PROVE  m = [row |-> r1, times |-> times]
      BY <1>1, <1>4, Zenon DEF CostRules
<1>5. ASSUME "cost" \notin taken, old.cost.from # 0 /\ old.metadata.label, "usage" \in taken
      PROVE  m = [row |-> r2, times |-> t2]
      BY <1>1, <1>3, <1>5, Zenon DEF CostRules
<1>6. ASSUME "cost" \notin taken, old.cost.from # 0 /\ old.metadata.label, "usage" \notin taken
      PROVE  m = [row |-> r3, times |-> times]
      BY <1>1, <1>6, Zenon DEF CostRules
<1>7. ASSUME "cost" \notin taken, ~(old.cost.from # 0 /\ old.metadata.label)
      PROVE  m = [row |-> row, times |-> times]
      BY <1>7, Zenon DEF CostRules
<1>8. "cost" \in taken => Relabelled(m.row, row, row.cost, FALSE) /\ m.times = times
  <2>1. ASSUME "cost" \in taken
        PROVE  m.row = r1 /\ m.times = times
        BY <1>4, <2>1
  <2> QED BY <1>2, <2>1, Zenon
<1>9. "cost" \notin taken /\ old.cost.from # 0 /\ old.metadata.label /\ "usage" \in taken =>
         Relabelled(m.row, row, NoCost, FALSE) /\ m.times = t2
  <2>1. ASSUME "cost" \notin taken /\ old.cost.from # 0 /\ old.metadata.label /\ "usage" \in taken
        PROVE  m.row = r2 /\ m.times = t2
        BY <1>5, <2>1
  <2> QED BY <1>2, <2>1, Zenon
<1>10. "cost" \notin taken /\ old.cost.from # 0 /\ old.metadata.label /\ "usage" \notin taken =>
          Relabelled(m.row, row, row.cost, TRUE) /\ m.times = times
  <2>1. ASSUME "cost" \notin taken /\ old.cost.from # 0 /\ old.metadata.label
                 /\ "usage" \notin taken
        PROVE  m.row = r3 /\ m.times = times
        BY <1>6, <2>1
  <2> QED BY <1>2, <2>1, Zenon
<1>11. "cost" \notin taken /\ ~(old.cost.from # 0 /\ old.metadata.label) =>
          m.row = row /\ m.times = times
      BY <1>7
<1> QED BY <1>3, <1>8, <1>9, <1>10, <1>11 DEF CostRuled

\* An enriched row is a row of the same time.
LEMMA EnrichedIsRow ==
    ASSUME NEW row \in Rows
    PROVE  /\ Enriched(row) \in Rows
           /\ Enriched(row).day = row.day /\ Enriched(row).time = row.time
<1>1. row.metadata \in Metas /\ row.usage \in Nat
      BY DEF Rows
<1>2. PICK cost, metadata : /\ cost = [from |-> row.usage, derived |-> TRUE]
                            /\ metadata = [row.metadata EXCEPT !.label = TRUE]
      OBVIOUS
<1>3. cost \in Costs /\ metadata \in Metas
      BY <1>1, <1>2 DEF Costs, Metas
<1>4. PICK r : r = [row EXCEPT !.cost = cost, !.metadata = metadata]
      OBVIOUS
<1>5. r \in Rows /\ r.day = row.day /\ r.time = row.time
      BY <1>3, <1>4 DEF Rows
<1>6. Enriched(row) = row \/ Enriched(row) = r
      BY <1>2, <1>4 DEF Enriched, Rows
<1> QED BY <1>5, <1>6

\* A merge, as its two steps.
LEMMA MergeSteps ==
    ASSUME NEW b, NEW stored, NEW times, NEW s, s = StoredSentAt(b, stored, times),
           NEW taken, taken = Taken(b, s),
           NEW at, at = [f \in Fields |-> IF f \in taken THEN b ELSE s[f]],
           NEW plain, plain = FieldByField(stored.row, Incoming(b), taken)
    PROVE  Merged(b, stored, times) = CostRules(stored.row, plain, at, taken)
BY DEF Merged

\* A merge makes a row, and field times.
LEMMA MergedIsRow ==
    ASSUME content \in [Batches -> Contents], NEW b \in Batches, NEW stored, NEW times,
           stored.row \in Rows, NEW s, s = StoredSentAt(b, stored, times), s \in [Fields -> Int]
    PROVE  /\ Merged(b, stored, times).row \in Rows
           /\ Merged(b, stored, times).times \in [Fields -> Int]
<1>1. PICK taken : taken = Taken(b, s)
      OBVIOUS
<1>2. PICK at : at = [f \in Fields |-> IF f \in taken THEN b ELSE s[f]]
      OBVIOUS
<1>3. PICK old, plain : old = stored.row /\ plain = FieldByField(old, Incoming(b), taken)
      OBVIOUS
<1>4. PICK m : m = CostRules(old, plain, at, taken)
      OBVIOUS
<1>5. Merged(b, stored, times) = m
      BY <1>1, <1>2, <1>3, <1>4, MergeSteps
<1>6. old \in Rows /\ plain \in Rows
      BY <1>3, IncomingRow, MixedRow
<1>7. b \in Int
      BY BatchNumbers
<1>8. at \in [Fields -> Int]
      BY <1>2, <1>7
<1>9. [at EXCEPT !["cost"] = 0] \in [Fields -> Int]
  <2>1. [at EXCEPT !["cost"] = 0] = [f \in Fields |-> IF f = "cost" THEN 0 ELSE at[f]]
        BY <1>8
  <2>2. \A f \in Fields : (IF f = "cost" THEN 0 ELSE at[f]) \in Int
        BY <1>8
  <2> QED BY <2>1, <2>2
<1>10. /\ \A row, cost, label : Relabelled(m.row, row, cost, label) => m.row \in Rows
       /\ plain \in Rows
      BY <1>6 DEF Relabelled, RestOf
<1>11. /\ "cost" \in taken => Relabelled(m.row, plain, plain.cost, FALSE) /\ m.times = at
       /\ "cost" \notin taken /\ old.cost.from # 0 /\ old.metadata.label /\ "usage" \in taken =>
             /\ Relabelled(m.row, plain, NoCost, FALSE)
             /\ m.times = [at EXCEPT !["cost"] = 0]
       /\ "cost" \notin taken /\ old.cost.from # 0 /\ old.metadata.label
            /\ "usage" \notin taken =>
             Relabelled(m.row, plain, plain.cost, TRUE) /\ m.times = at
       /\ "cost" \notin taken /\ ~(old.cost.from # 0 /\ old.metadata.label) =>
             m.row = plain /\ m.times = at
  <2>1. CostRuled(m, old, plain, at, taken)
        BY <1>4, <1>6, CostRulesGive
  <2> QED BY <2>1, Zenon DEF CostRuled
<1>12. /\ m.row \in Rows
       /\ m.times = at \/ m.times = [at EXCEPT !["cost"] = 0]
  <2>1. CASE "cost" \in taken
        BY <1>10, <1>11, <2>1, Zenon
  <2>2. CASE "cost" \notin taken /\ ~(old.cost.from # 0 /\ old.metadata.label)
        BY <1>10, <1>11, <2>2, Zenon
  <2>3. CASE "cost" \notin taken /\ old.cost.from # 0 /\ old.metadata.label
        BY <1>10, <1>11, <2>3, Zenon
  <2> QED BY <2>1, <2>2, <2>3
<1> QED BY <1>5, <1>8, <1>9, <1>12

\* A merge makes a good row of a good row, and records fitting times.
LEMMA MergedIsGood ==
    ASSUME content \in [Batches -> Contents], NEW D \in SUBSET Batches, NEW b \in Batches \ D,
           NEW stored, NEW times, NEW s, s = StoredSentAt(b, stored, times),
           GoodRow(stored.row, D), TimesFit(s, b, D)
    PROVE  /\ GoodRow(Enriched(Merged(b, stored, times).row), D \cup {b})
           /\ TimesOk(Merged(b, stored, times).times, D \cup {b})
<1>1. PICK taken : taken = Taken(b, s)
      OBVIOUS
<1>2. PICK at : at = [f \in Fields |-> IF f \in taken THEN b ELSE s[f]]
      OBVIOUS
<1>3. PICK old, new, plain : /\ old = stored.row /\ new = Incoming(b)
                             /\ plain = FieldByField(old, new, taken)
      OBVIOUS
<1>4. PICK m : m = CostRules(old, plain, at, taken)
      OBVIOUS
<1>5. Merged(b, stored, times) = m
      BY <1>1, <1>2, <1>3, <1>4, MergeSteps
<1>6. /\ old \in Rows /\ FineRow(old, D) /\ FineCost(old, D)
      /\ old.time \in Nat /\ old.name \in Nat /\ old.usage \in Nat
      /\ old.cost \in Costs /\ old.metadata \in Metas
      /\ old.cost.from \in Nat /\ old.metadata.from \in Nat
      BY <1>3 DEF GoodRow, Rows, Costs, Metas
<1>7. /\ new \in Rows /\ new.time = b
      /\ new.name = Sent(b, "name") /\ new.usage = Sent(b, "usage")
      /\ new.cost = [from |-> Sent(b, "cost"), derived |-> FALSE]
      /\ new.metadata = [from |-> Sent(b, "metadata"), label |-> FALSE]
      BY <1>3, IncomingRow
<1>8. /\ plain \in Rows
      /\ plain.time = IF "time" \in taken THEN new.time ELSE old.time
      /\ plain.name = IF "name" \in taken THEN new.name ELSE old.name
      /\ plain.usage = IF "usage" \in taken THEN new.usage ELSE old.usage
      /\ plain.cost = IF "cost" \in taken THEN new.cost ELSE old.cost
      /\ plain.metadata = IF "metadata" \in taken THEN new.metadata ELSE old.metadata
      BY <1>3, <1>6, <1>7, MixedRow
<1>9. b \in Nat /\ b >= 1 /\ Sends(b) \subseteq Fields
      BY BatchNumbers, SendsFields
<1>10. /\ \A f \in Fields : f \in taken <=> f \in Sends(b) /\ Newer(b, f, D)
       /\ \A f \in Fields : f \in taken <=> f \in Sends(b) /\ b >= s[f]
       /\ \A f \in taken : f \in Fields /\ f \in Sends(b)
       BY <1>1, <1>9 DEF Taken, TimesFit
<1>11. \A f \in taken : Sent(b, f) = b
       BY <1>10 DEF Sent
<1>12. PICK E : E = D \cup {b} /\ E \in SUBSET Batches
       OBVIOUS
<1>13. ASSUME NEW f \in Fields, NEW v \in Nat, Fine(v, f, D), NEW x,
              x = IF f \in taken THEN b ELSE v
       PROVE  Fine(x, f, E)
       BY <1>10, <1>12, <1>13, FieldMoves
<1>14. FineRow(plain, E)
   <2>1. plain.time = IF "time" \in taken THEN b ELSE old.time
         BY <1>7, <1>8
   <2>2. plain.name = IF "name" \in taken THEN b ELSE old.name
         BY <1>7, <1>8, <1>11
   <2>3. plain.usage = IF "usage" \in taken THEN b ELSE old.usage
         BY <1>7, <1>8, <1>11
   <2>4. plain.metadata.from = IF "metadata" \in taken THEN b ELSE old.metadata.from
         BY <1>7, <1>8, <1>11
   <2>5. /\ Fine(old.time, "time", D) /\ Fine(old.name, "name", D)
         /\ Fine(old.usage, "usage", D) /\ Fine(old.metadata.from, "metadata", D)
         BY <1>6 DEF FineRow
   <2>6. {"time", "name", "usage", "metadata"} \subseteq Fields
         BY DEF Fields
   <2>7. Fine(plain.time, "time", E)
         BY <1>6, <1>13, <2>1, <2>5, <2>6
   <2>8. Fine(plain.name, "name", E)
         BY <1>6, <1>13, <2>2, <2>5, <2>6
   <2>9. Fine(plain.usage, "usage", E)
         BY <1>6, <1>13, <2>3, <2>5, <2>6
   <2>10. Fine(plain.metadata.from, "metadata", E)
         BY <1>6, <1>13, <2>4, <2>5, <2>6
   <2> QED BY <2>7, <2>8, <2>9, <2>10 DEF FineRow
<1>15. ASSUME NEW c \in Batches \ E, NEW f \in Fields
       PROVE  at[f] \in Nat /\ (c >= at[f] <=> Newer(c, f, E))
  <2>1. \/ f \in Sends(b) /\ b >= s[f] /\ at[f] = b
        \/ ~(f \in Sends(b) /\ b >= s[f]) /\ at[f] = s[f]
        BY <1>2, <1>10
  <2>2. c \in Batches \ (D \cup {b})
        BY <1>12
  <2>3. at[f] \in Nat /\ (c >= at[f] <=> Newer(c, f, D \cup {b}))
        BY <2>1, <2>2, TimeMoves
  <2> QED BY <1>12, <2>3
<1>16. at \in [Fields -> Nat]
       BY <1>2, <1>9 DEF TimesFit
<1>17. TimesOk(at, E)
  <2>1. \A f \in Fields : \A c \in Batches \ E : c >= at[f] <=> Newer(c, f, E)
        BY <1>15
  <2> QED BY <1>16, <2>1 DEF TimesOk
<1>19. /\ "cost" \in taken => Relabelled(m.row, plain, plain.cost, FALSE) /\ m.times = at
       /\ "cost" \notin taken /\ old.cost.from # 0 /\ old.metadata.label /\ "usage" \in taken =>
             /\ Relabelled(m.row, plain, NoCost, FALSE)
             /\ m.times = [at EXCEPT !["cost"] = 0]
       /\ "cost" \notin taken /\ old.cost.from # 0 /\ old.metadata.label
            /\ "usage" \notin taken =>
             Relabelled(m.row, plain, plain.cost, TRUE) /\ m.times = at
       /\ "cost" \notin taken /\ ~(old.cost.from # 0 /\ old.metadata.label) =>
             m.row = plain /\ m.times = at
  <2>1. CostRuled(m, old, plain, at, taken)
        BY <1>4, <1>6, <1>8, CostRulesGive
  <2> QED BY <2>1, Zenon DEF CostRuled
<1>20. \A r : RestOf(r, plain) => r \in Rows /\ FineRow(r, E)
       BY <1>14 DEF RestOf, FineRow
<1>21. CASE "cost" \in taken
   <2>1. RestOf(m.row, plain) /\ m.row.cost = plain.cost /\ m.row.metadata.label = FALSE
         BY <1>19, <1>21 DEF Relabelled
   <2>2. plain.cost.from = b /\ plain.cost.derived = FALSE
         BY <1>7, <1>8, <1>11, <1>21
   <2>3. Fine(b, "cost", E)
         <3>1. \A e \in SentBy("cost", E) : e <= b
               BY <1>10, <1>12, <1>21, BatchNumbers DEF Newer, SentBy, Fields
         <3>2. b \in Senders("cost")
               BY <1>10, <1>21, SendsFields
         <3> QED BY <3>1, <3>2 DEF Fine
   <2>4. GoodRow(Enriched(m.row), E)
         BY <1>12, <1>20, <2>1, <2>2, <2>3, EnrichedIsGood
   <2>5. m.times = at
         BY <1>19, <1>21
   <2> QED BY <1>5, <1>12, <1>17, <2>4, <2>5
<1>22. CASE "cost" \notin taken /\ old.cost.from # 0 /\ old.metadata.label
   <2>1. /\ old.cost.derived = TRUE /\ old.metadata.label = TRUE
         /\ old.cost.from = old.usage /\ old.usage # 0 /\ content[old.usage].priced
         /\ SentBy("cost", D) = {}
         BY <1>6, <1>22 DEF FineCost
   <2>2. Newer(b, "cost", D) /\ "cost" \in Fields
         BY <2>1 DEF Newer, Fields
   <2>3. "cost" \notin Sends(b)
         BY <1>10, <1>22, <2>2
   <2>4. SentBy("cost", E) = {}
         BY <1>12, <2>1, <2>3 DEF SentBy
   <2>5. CASE "usage" \in taken
         <3>1. /\ RestOf(m.row, plain) /\ m.row.cost = NoCost /\ m.row.metadata.label = FALSE
               /\ m.times = [at EXCEPT !["cost"] = 0]
               BY <1>19, <1>22, <2>5 DEF Relabelled
         <3>2. m.row.cost.from = 0 /\ m.row.cost.derived = FALSE /\ Fine(0, "cost", E)
               BY <2>4, <3>1 DEF NoCost, Fine
         <3>3. GoodRow(Enriched(m.row), E)
               BY <1>12, <1>20, <3>1, <3>2, EnrichedIsGood
         <3>4. m.times = [f \in Fields |-> IF f = "cost" THEN 0 ELSE at[f]]
               BY <1>16, <3>1
         <3>5. \A c \in Batches \ E : c >= 0 /\ Newer(c, "cost", E)
               BY <2>4, BatchNumbers DEF Newer
         <3>6. ASSUME NEW f \in Fields, NEW c \in Batches \ E
               PROVE  c >= m.times[f] <=> Newer(c, f, E)
               BY <1>15, <3>4, <3>5
         <3>7. m.times \in [Fields -> Nat]
               BY <1>16, <3>4
         <3>8. TimesOk(m.times, E)
               BY <3>6, <3>7 DEF TimesOk
         <3> QED BY <1>5, <1>12, <3>3, <3>8
   <2>6. CASE "usage" \notin taken
         <3>1. /\ RestOf(m.row, plain) /\ m.row.cost = plain.cost /\ m.row.metadata.label = TRUE
               /\ m.times = at
               BY <1>19, <1>22, <2>6 DEF Relabelled
         <3>2. plain.cost = old.cost /\ plain.usage = old.usage
               BY <1>8, <1>22, <2>6
         <3>3. FineCost(m.row, E)
               BY <2>1, <2>4, <3>1, <3>2 DEF FineCost, RestOf
         <3>4. Enriched(m.row) = m.row
               BY <1>22, <3>1, <3>2 DEF Enriched
         <3>5. GoodRow(m.row, E)
               BY <1>20, <3>1, <3>3 DEF GoodRow
         <3> QED BY <1>5, <1>12, <1>17, <3>1, <3>4, <3>5
   <2> QED BY <2>5, <2>6
<1>23. CASE "cost" \notin taken /\ ~(old.cost.from # 0 /\ old.metadata.label)
   <2>1. m.row = plain /\ m.times = at
         BY <1>19, <1>23
   <2>2. /\ old.cost.derived = FALSE /\ old.metadata.label = FALSE
         /\ Fine(old.cost.from, "cost", D)
         BY <1>6, <1>23 DEF FineCost
   <2>3. plain.cost = old.cost /\ plain.metadata.label = FALSE
         BY <1>7, <1>8, <1>23, <2>2
   <2>4. Fine(old.cost.from, "cost", E)
         BY <1>6, <1>13, <1>23, <2>2 DEF Fields
   <2>5. GoodRow(Enriched(m.row), E)
         BY <1>8, <1>12, <1>14, <2>1, <2>2, <2>3, <2>4, EnrichedIsGood
   <2> QED BY <1>5, <1>12, <1>17, <2>1, <2>5
<1> QED BY <1>21, <1>22, <1>23

-----------------------------------------------------------------------------
\* The inductive invariant.

Done == {b \in Batches : job[b].pc = "done"}
Underway(b) == job[b].pc \in {"written", "cleaned"}
StoredAs(d, ver, row) == table[d] = [ver |-> ver, gone |-> FALSE, row |-> row]

\* Some visible row is none older than any other row or tombstone.
Freshest ==
    \/ table = [d \in Days |-> NoStored]
    \/ \E d \in Visible : \A e \in Days : table[e].ver <= table[d].ver

\* What a merge that holds the lock relies on until it is done.
JobStands(b) ==
    /\ job[b].write = TRUE
    /\ job[b].row.day \notin job[b].drop
    /\ \A d \in Days : table[d].ver <= job[b].ver
    /\ utc => \A d \in Visible : d = job[b].row.day \/ d \in job[b].drop
    /\ Underway(b) => StoredAs(job[b].row.day, job[b].ver, job[b].row)
    /\ job[b].pc = "cleaned" /\ utc => Visible = {job[b].row.day}

Locked ==
    /\ lock # 0 => Running(lock)
    /\ \A b \in Batches : Running(b) => lock = b

Kept == Done # {} => table # [d \in Days |-> NoStored]

MergedRows ==
    record = "merged" =>
        /\ Locked /\ Freshest /\ Kept
        /\ Settled /\ utc => \E d \in Days : Visible = {d}
        /\ \A b \in Batches : Running(b) => JobStands(b)

\* No merge had to guess when the fields of another batch were sent.
Told == record = "merged" /\ utc /\ past.implied = FALSE /\ past.purges = 0

TimesTell ==
    \/ sentAt = NoTimes /\ Done \subseteq {past.legacy}
    \/ sentAt # NoTimes /\ TimesOk(sentAt, Done)

MergedFields ==
    Told =>
        /\ \A d \in Visible : GoodRow(table[d].row, Done)
        /\ TimesTell
        /\ \A b \in Batches : Running(b) =>
              /\ b \notin Done
              /\ GoodRow(job[b].row, Done \cup {b}) /\ TimesOk(job[b].times, Done \cup {b})

\* The newest batch of a whole row.
Final == MaxBatches
FinalDay == content[Final].day
FinalStands == table[FinalDay].ver = Final /\ table[FinalDay].gone = FALSE
FinalAlone == utc /\ past.overlap = FALSE => Visible = {FinalDay}
FinalIn == Final \in Done \/ (Running(Final) /\ Underway(Final))

\* What a job of a whole row relies on, as long as it is the only one.
WholeJob(b) ==
    /\ job[b].ver = b /\ job[b].row.day = content[b].day /\ job[b].row.time = b
    /\ job[b].pc # "cleaned"
    /\ b = Final => FinalDay \notin job[b].drop /\ job[b].write = TRUE
    /\ past.overlap = FALSE =>
          /\ \A c \in Batches : Running(c) => c = b
          /\ b = Final /\ utc => \A d \in Visible : d = FinalDay \/ d \in job[b].drop
          /\ Final \in Done => job[b].write = FALSE

WholeRows ==
    record = "whole" =>
        /\ lock = 0
        /\ \A d \in Visible : table[d].ver = Final => d = FinalDay /\ table[d].row.time = Final
        /\ \A b \in Batches : Running(b) => WholeJob(b)
        /\ FinalIn => FinalStands
        /\ Final \in Done => FinalAlone

MergeInv == MergeTypes /\ MergedRows /\ MergedFields /\ WholeRows

-----------------------------------------------------------------------------
\* Tables, and what the steps do to them.

Tables == [Days -> {NoStored} \cup StoredRows]

\* What a table has under its days.
LEMMA Entries ==
    ASSUME table \in Tables
    PROVE  /\ \A d \in Days : table[d].ver \in Nat /\ table[d].ver <= MaxBatches
           /\ \A d \in Days : table[d] # NoStored <=> table[d].ver # 0
           /\ \A d \in Visible : /\ d \in Days /\ table[d] \in StoredRows
                                 /\ table[d].ver \in Batches /\ table[d].row \in Rows
                                 /\ table[d].gone = FALSE
<1>1. ASSUME NEW e \in StoredRows
      PROVE  /\ e.ver \in Batches /\ e.gone \in BOOLEAN /\ e.row \in Rows
             /\ e.ver \in Nat /\ e.ver <= MaxBatches /\ e.ver # 0
  <2>1. e.ver \in Batches /\ e.gone \in BOOLEAN /\ e.row \in Rows
        BY DEF StoredRows
  <2>2. e.ver \in Nat /\ e.ver >= 1 /\ e.ver <= MaxBatches
        BY <2>1, BatchNumbers
  <2> QED BY <2>1, <2>2
<1>2. NoStored.ver = 0
      BY DEF NoStored
<1>3. \A d \in Days : table[d] = NoStored \/ table[d] \in StoredRows
      BY DEF Tables
<1>4. \A d \in Visible : d \in Days /\ table[d] # NoStored /\ ~table[d].gone
      BY DEF Visible
<1>5. \A d \in Days : table[d].ver \in Nat /\ table[d].ver <= MaxBatches
      BY <1>1, <1>2, <1>3, BatchNumbers
<1>6. \A d \in Days : table[d] # NoStored <=> table[d].ver # 0
      BY <1>1, <1>2, <1>3
<1>7. \A d \in Visible : /\ d \in Days /\ table[d] \in StoredRows
                         /\ table[d].ver \in Batches /\ table[d].row \in Rows
                         /\ table[d].gone = FALSE
      BY <1>1, <1>3, <1>4
<1> QED BY <1>5, <1>6, <1>7

\* A row or tombstone is put under a day.
Puts(was, is, d, ver, gone, row) ==
    /\ ver >= was[d].ver => is[d] = [ver |-> ver, gone |-> gone, row |-> row]
    /\ ~(ver >= was[d].ver) => is[d] = was[d]

\* A put changes one day of a table, unless what it has there is newer.
LEMMA PutGives ==
    ASSUME NEW tab \in Tables, NEW day \in Days, NEW ver \in Batches, NEW gone \in BOOLEAN,
           NEW row \in Rows
    PROVE  /\ Put(tab, day, ver, gone, row) \in Tables
           /\ Puts(tab, Put(tab, day, ver, gone, row), day, ver, gone, row)
           /\ \A d \in Days : d # day => Put(tab, day, ver, gone, row)[d] = tab[d]
<1>1. PICK e : e = [ver |-> ver, gone |-> gone, row |-> row]
      OBVIOUS
<1>2. e \in StoredRows
      BY <1>1 DEF StoredRows
<1>3. PICK with : with = [tab EXCEPT ![day] = e]
      OBVIOUS
<1>4. with \in Tables /\ with[day] = e /\ \A d \in Days : d # day => with[d] = tab[d]
      BY <1>2, <1>3 DEF Tables
<1>5. Put(tab, day, ver, gone, row) = IF ver >= tab[day].ver THEN with ELSE tab
      BY <1>1, <1>3 DEF Put
<1>6. CASE ver >= tab[day].ver
      BY <1>1, <1>4, <1>5, <1>6 DEF Puts
<1>7. CASE ~(ver >= tab[day].ver)
      BY <1>5, <1>7 DEF Puts
<1> QED BY <1>6, <1>7

\* Jobs.
LEMMA JobParts ==
    ASSUME job \in [Batches -> Jobs], NEW b \in Batches
    PROVE  /\ job[b].pc \in {"waiting", "resolved", "written", "cleaned", "done"}
           /\ job[b].pc = "waiting" => job[b] = IdleJob
           /\ job[b].pc = "done" => job[b] = [pc |-> "done"]
           /\ Running(b) => job[b] \in Work
           /\ job[b].pc \in {"resolved", "written", "cleaned"} => Running(b) /\ job[b] \in Work
<1>1. job[b] = IdleJob \/ job[b] = [pc |-> "done"] \/ job[b] \in Work
      BY DEF Jobs
<1>2. IdleJob.pc = "waiting" /\ [pc |-> "done"].pc = "done"
      BY DEF IdleJob
<1>3. \A j \in Work : j.pc \in {"resolved", "written", "cleaned"}
      BY DEF Work
<1> QED BY <1>1, <1>2, <1>3 DEF Running

\* The parts of the work of a job, which it keeps as it goes on.
LEMMA WorkParts ==
    ASSUME NEW j \in Work
    PROVE  /\ j.row \in Rows /\ j.row.day \in Days /\ j.ver \in Batches /\ j.write \in BOOLEAN
           /\ j.drop \in SUBSET Days /\ j.times \in [Fields -> Int]
           /\ \A p \in {"resolved", "written", "cleaned"} :
                 /\ [j EXCEPT !.pc = p] \in Work /\ [j EXCEPT !.pc = p].pc = p
                 /\ [j EXCEPT !.pc = p].row = j.row /\ [j EXCEPT !.pc = p].ver = j.ver
                 /\ [j EXCEPT !.pc = p].write = j.write /\ [j EXCEPT !.pc = p].drop = j.drop
                 /\ [j EXCEPT !.pc = p].times = j.times
<1>1. \A r \in Rows : r.day \in Days
      BY DEF Rows
<1>2. /\ j.row \in Rows /\ j.ver \in Batches /\ j.write \in BOOLEAN
      /\ j.drop \in SUBSET Days /\ j.times \in [Fields -> Int]
      BY DEF Work
<1>3. ASSUME NEW p \in {"resolved", "written", "cleaned"}
      PROVE  /\ [j EXCEPT !.pc = p] \in Work /\ [j EXCEPT !.pc = p].pc = p
             /\ [j EXCEPT !.pc = p].row = j.row /\ [j EXCEPT !.pc = p].ver = j.ver
             /\ [j EXCEPT !.pc = p].write = j.write /\ [j EXCEPT !.pc = p].drop = j.drop
             /\ [j EXCEPT !.pc = p].times = j.times
      BY DEF Work
<1> QED BY <1>1, <1>2, <1>3

Prepared(j, row, ver, write, drop, times) ==
    /\ j \in Work /\ j.pc = "resolved" /\ j.row = Enriched(row)
    /\ j.row.day = row.day /\ j.row.time = row.time
    /\ j.ver = ver /\ j.write = write /\ j.drop = drop /\ j.times = times

\* The work of a job whose row is resolved.
LEMMA ResolvedWork ==
    ASSUME NEW row \in Rows, NEW ver \in Batches, NEW write \in BOOLEAN,
           NEW drop \in SUBSET Days, NEW times \in [Fields -> Int], NEW b, NEW j,
           j = Resolved(b, row, ver, write, drop, times)
    PROVE  Prepared(j, row, ver, write, drop, times)
<1>1. PICK rich : rich = Enriched(row)
      OBVIOUS
<1>2. rich \in Rows /\ rich.day = row.day /\ rich.time = row.time
      BY <1>1, EnrichedIsRow
<1>3. j = [pc |-> "resolved", row |-> rich, ver |-> ver, write |-> write, drop |-> drop,
           times |-> times]
      BY <1>1 DEF Resolved
<1>4. /\ j \in Work /\ j.pc = "resolved" /\ j.row = rich
      /\ j.ver = ver /\ j.write = write /\ j.drop = drop /\ j.times = times
      BY <1>2, <1>3 DEF Work
<1> QED BY <1>1, <1>2, <1>4 DEF Prepared

-----------------------------------------------------------------------------
\* What each step does, for the proofs that it keeps the invariant.

Same == record' = record /\ utc' = utc /\ content' = content

\* The job of b becomes j, the others stay.
Becomes(b, j) == /\ job' \in [Batches -> Jobs] /\ job'[b] = j
                 /\ \A c \in Batches : c # b => job'[c] = job[c]

\* One job changes.
LEMMA JobBecomes ==
    ASSUME job \in [Batches -> Jobs], NEW b \in Batches, NEW j \in Jobs,
           job' = [job EXCEPT ![b] = j]
    PROVE  Becomes(b, j)
BY DEF Becomes

\* A merge resolves its row against the stored one, or is the first.
Merges(b, j, ver, row, times) ==
    /\ j \in Work /\ j.pc = "resolved" /\ j.write = TRUE /\ j.ver = ver
    /\ j.row = Enriched(row) /\ j.row.day = row.day /\ j.times = times
    /\ ver \in Batches /\ row \in Rows /\ times \in [Fields -> Int]

FirstRow(b, j, ver, row, times) ==
    /\ Visible = {} /\ ver = b /\ row = Incoming(b) /\ j.drop = {}
    /\ times = [f \in Fields |-> Sent(b, f)]

MergedRow(b, j, ver, row, times, d) ==
    /\ ver = NewestVersion(b, table[d].ver)
    /\ row = Merged(b, table[d], sentAt).row
    /\ times = Merged(b, table[d], sentAt).times
    /\ StoredSentAt(b, table[d], sentAt) \in [Fields -> Int]
    /\ j.drop = OtherDays(row.day, ver)
    /\ past'.implied = FALSE => ~(sentAt = NoTimes /\ table[d].ver \notin {b, past.legacy})

\* A merge takes the lock and prepares the first row, or one merged with a stored row.
LEMMA MergeDoes ==
    ASSUME MergeTypes, NEW b \in Batches, Merge(b)
    PROVE  /\ record = "merged" /\ job[b].pc = "waiting" /\ lock = 0 /\ lock' = b
           /\ Same /\ table' = table /\ sentAt' = sentAt
           /\ past' \in Pasts /\ past'.overlap = past.overlap /\ past'.legacy = past.legacy
           /\ past'.purges = past.purges
           /\ past'.implied = FALSE => past.implied = FALSE
           /\ \E j, ver, row, times :
                 /\ Becomes(b, j) /\ Merges(b, j, ver, row, times)
                 /\ \/ FirstRow(b, j, ver, row, times)
                    \/ \E d \in Newest : MergedRow(b, j, ver, row, times, d)
<1>1. /\ record = "merged" /\ job[b].pc = "waiting" /\ lock = 0 /\ lock' = b
      /\ Same /\ table' = table /\ sentAt' = sentAt
      BY DEF Merge, Same
<1>2. /\ content \in [Batches -> Contents] /\ table \in Tables /\ job \in [Batches -> Jobs]
      /\ sentAt \in [Fields -> Int] /\ past \in Pasts
      BY DEF MergeTypes, Tables
<1>3. \A f : Sent(b, f) \in Int
      BY BatchNumbers DEF Sent
<1>4. \A d, v : OtherDays(d, v) \in SUBSET Days
      BY DEF OtherDays, StoredRowKeys, Visible
<1>5. CASE MergeFirst(b)
  <2>1. PICK row, times : row = Incoming(b) /\ times = [f \in Fields |-> Sent(b, f)]
        OBVIOUS
  <2>2. row \in Rows /\ times \in [Fields -> Int]
        BY <1>2, <1>3, <2>1, IncomingRow
  <2>3. PICK j : j = Resolved(b, row, b, TRUE, {}, times)
        OBVIOUS
  <2>4. /\ j \in Work /\ j.pc = "resolved" /\ j.write = TRUE /\ j.ver = b
        /\ j.row = Enriched(row) /\ j.row.day = row.day /\ j.times = times /\ j.drop = {}
    <3>1. {} \in SUBSET Days /\ TRUE \in BOOLEAN
          OBVIOUS
    <3>2. Prepared(j, row, b, TRUE, {}, times)
          BY <2>2, <2>3, <3>1, ResolvedWork
    <3> QED BY <3>2 DEF Prepared
  <2>5. job' = [job EXCEPT ![b] = j] /\ Visible = {} /\ past' = past
        BY <1>5, <2>1, <2>3 DEF MergeFirst
  <2>6. Becomes(b, j)
        BY <1>2, <2>4, <2>5, JobBecomes DEF Jobs
  <2>7. Merges(b, j, b, row, times)
        BY <2>2, <2>4 DEF Merges
  <2>8. FirstRow(b, j, b, row, times)
        BY <2>1, <2>4, <2>5 DEF FirstRow
  <2> QED BY <1>1, <1>2, <2>5, <2>6, <2>7, <2>8
<1>6. CASE MergeStored(b)
  <2>1. PICK d \in Newest :
           /\ job' = [job EXCEPT ![b] =
                  Resolved(b, Merged(b, table[d], sentAt).row, NewestVersion(b, table[d].ver), TRUE,
                           OtherDays(Merged(b, table[d], sentAt).row.day,
                                     NewestVersion(b, table[d].ver)),
                           Merged(b, table[d], sentAt).times)]
           /\ past' = [past EXCEPT !.implied =
                  @ \/ (sentAt = NoTimes /\ table[d].ver \notin {b, past.legacy})]
        BY <1>6 DEF MergeStored
  <2>2. d \in Visible /\ table[d].ver \in Batches /\ table[d].row \in Rows
        BY <1>2, Entries DEF Newest
  <2>3. PICK s : s = StoredSentAt(b, table[d], sentAt)
        OBVIOUS
  <2>4. s \in [Fields -> Int]
    <3>1. ASSUME NEW f \in Fields
          PROVE  s[f] \in Int
          <4>1. sentAt[f] \in Int /\ Sent(b, f) \in Int /\ table[d].ver \in Int
                BY <1>2, <1>3, <2>2 DEF Batches
          <4>2. CASE sentAt # NoTimes
                BY <2>3, <4>1, <4>2 DEF StoredSentAt
          <4>3. CASE sentAt = NoTimes /\ table[d].ver = b
                BY <2>3, <4>1, <4>3 DEF StoredSentAt
          <4>4. CASE sentAt = NoTimes /\ table[d].ver # b
                BY <2>3, <4>1, <4>4 DEF StoredSentAt
          <4> QED BY <4>2, <4>3, <4>4
    <3>2. s = [f \in Fields |-> s[f]]
          BY <2>3 DEF StoredSentAt
    <3> QED BY <3>1, <3>2
  <2>5. PICK row, times, ver, drop :
           /\ row = Merged(b, table[d], sentAt).row /\ times = Merged(b, table[d], sentAt).times
           /\ ver = NewestVersion(b, table[d].ver) /\ drop = OtherDays(row.day, ver)
        OBVIOUS
  <2>6. row \in Rows /\ times \in [Fields -> Int]
        BY <1>2, <2>2, <2>3, <2>4, <2>5, MergedIsRow
  <2>7. ver \in Batches /\ drop \in SUBSET Days
        BY <1>4, <2>2, <2>5 DEF NewestVersion
  <2>8. PICK j : j = Resolved(b, row, ver, TRUE, drop, times)
        OBVIOUS
  <2>9. /\ j \in Work /\ j.pc = "resolved" /\ j.write = TRUE /\ j.ver = ver
        /\ j.row = Enriched(row) /\ j.row.day = row.day /\ j.times = times /\ j.drop = drop
    <3>1. Prepared(j, row, ver, TRUE, drop, times)
          BY <2>6, <2>7, <2>8, ResolvedWork
    <3> QED BY <3>1 DEF Prepared
  <2>10. job' = [job EXCEPT ![b] = j]
         BY <2>1, <2>5, <2>8
  <2>11. Becomes(b, j)
         BY <1>2, <2>9, <2>10, JobBecomes DEF Jobs
  <2>12. Merges(b, j, ver, row, times)
         BY <2>6, <2>7, <2>9 DEF Merges
  <2>13. PICK guess \in BOOLEAN : guess <=> sentAt = NoTimes
                /\ table[d].ver \notin {b, past.legacy}
         OBVIOUS
  <2>14. past' = [past EXCEPT !.implied = @ \/ guess]
         BY <2>1, <2>13
  <2>15. /\ past' \in Pasts /\ past'.overlap = past.overlap /\ past'.legacy = past.legacy
         /\ past'.purges = past.purges
         /\ past'.implied = FALSE => past.implied = FALSE /\ ~guess
         BY <1>2, <2>14 DEF Pasts
  <2>16. MergedRow(b, j, ver, row, times, d)
         BY <2>3, <2>4, <2>5, <2>9, <2>13, <2>15 DEF MergedRow
  <2> QED BY <1>1, <2>11, <2>12, <2>15, <2>16
<1> QED BY <1>5, <1>6 DEF Merge

\* The other steps.
PastSame == /\ past' \in Pasts /\ past'.overlap = past.overlap /\ past'.legacy = past.legacy
            /\ past'.implied = past.implied /\ past'.purges = past.purges

\* A whole row is prepared without a lock.
LEMMA ResolveDoes ==
    ASSUME MergeTypes, NEW b \in Batches, Resolve(b)
    PROVE  /\ record = "whole" /\ job[b].pc = "waiting" /\ lock' = lock
           /\ Same /\ table' = table /\ sentAt' = sentAt
           /\ past' \in Pasts
           /\ past'.overlap = FALSE => past.overlap = FALSE /\ \A c \in Batches : ~Running(c)
           /\ \E j \in Work :
                 /\ Becomes(b, j) /\ j.pc = "resolved" /\ j.ver = b
                 /\ j.row.day = content[b].day /\ j.row.time = b
                 /\ j.write = TRUE <=> ~Stale(b)
                 /\ j.drop = Replaced(b)
<1>1. /\ record = "whole" /\ job[b].pc = "waiting" /\ lock' = lock
      /\ Same /\ table' = table /\ sentAt' = sentAt
      BY DEF Resolve, Same
<1>2. /\ content \in [Batches -> Contents] /\ job \in [Batches -> Jobs] /\ past \in Pasts
      BY DEF MergeTypes
<1>3. PICK row : row = Incoming(b)
      OBVIOUS
<1>4. row \in Rows /\ row.day = content[b].day /\ row.time = b
      BY <1>2, <1>3, IncomingRow
<1>5. Replaced(b) \in SUBSET Days /\ NoTimes \in [Fields -> Int]
      BY DEF Replaced, OtherDays, StoredRowKeys, Visible, NoTimes
<1>6. PICK write \in BOOLEAN : write = ~Stale(b)
      BY DEF Stale
<1>7. PICK j : j = Resolved(b, row, b, write, Replaced(b), NoTimes)
      OBVIOUS
<1>8. Prepared(j, row, b, write, Replaced(b), NoTimes)
      BY <1>4, <1>5, <1>7, ResolvedWork
<1>9. job' = [job EXCEPT ![b] = j]
      BY <1>3, <1>6, <1>7 DEF Resolve
<1>10. Becomes(b, j)
       BY <1>2, <1>8, <1>9, JobBecomes DEF Prepared, Jobs
<1>11. PICK other \in BOOLEAN : other <=> \E c \in Batches : Running(c)
       OBVIOUS
<1>12. past' = [past EXCEPT !.overlap = @ \/ other]
       BY <1>11 DEF Resolve
<1>13. past' \in Pasts /\ (past'.overlap = FALSE => past.overlap = FALSE /\ ~other)
       BY <1>2, <1>12 DEF Pasts
<1> QED BY <1>1, <1>4, <1>6, <1>8, <1>10, <1>11, <1>13 DEF Prepared

\* The job of b goes on to p.
Moves(b, p) ==
    \E j \in Work :
       /\ Becomes(b, j) /\ j.pc = p /\ j.row = job[b].row /\ j.ver = job[b].ver
       /\ j.write = job[b].write /\ j.drop = job[b].drop /\ j.times = job[b].times

\* A job that goes on keeps its work.
LEMMA JobMoves ==
    ASSUME job \in [Batches -> Jobs], NEW b \in Batches, job[b] \in Work,
           NEW p \in {"resolved", "written", "cleaned"},
           job' = [job EXCEPT ![b] = [job[b] EXCEPT !.pc = p]]
    PROVE  Moves(b, p)
<1>1. PICK j : j = [job[b] EXCEPT !.pc = p]
      OBVIOUS
<1>2. /\ j \in Work /\ j.pc = p /\ j.row = job[b].row /\ j.ver = job[b].ver
      /\ j.write = job[b].write /\ j.drop = job[b].drop /\ j.times = job[b].times
      BY <1>1, WorkParts
<1>3. Becomes(b, j)
      BY <1>1, <1>2, JobBecomes DEF Jobs
<1> QED BY <1>2, <1>3 DEF Moves

\* The row is written, unless the stored one is newer.
LEMMA WriteDoes ==
    ASSUME MergeTypes, NEW b \in Batches, WriteRow(b)
    PROVE  /\ job[b].pc = "resolved" /\ job[b] \in Work /\ Running(b)
           /\ Same /\ sentAt' = sentAt /\ lock' = lock /\ past' = past
           /\ Moves(b, "written")
           /\ table' \in Tables
           /\ job[b].write = FALSE => table' = table
           /\ job[b].write = TRUE =>
                 Puts(table, table', job[b].row.day, job[b].ver, FALSE, job[b].row)
           /\ \A d \in Days : d # job[b].row.day => table'[d] = table[d]
<1>1. job[b].pc = "resolved" /\ Same /\ sentAt' = sentAt /\ lock' = lock /\ past' = past
      BY DEF WriteRow, Same
<1>2. table \in Tables /\ job \in [Batches -> Jobs]
      BY DEF MergeTypes, Tables
<1>3. job[b] \in Work /\ Running(b)
      BY <1>1, <1>2, JobParts
<1>4. Moves(b, "written")
      BY <1>2, <1>3, JobMoves DEF WriteRow
<1>5. PICK day, ver, row : day = job[b].row.day /\ ver = job[b].ver /\ row = job[b].row
      OBVIOUS
<1>6. day \in Days /\ ver \in Batches /\ row \in Rows /\ job[b].write \in BOOLEAN
      BY <1>3, <1>5, WorkParts
<1>7. PICK tab : tab = Put(table, day, ver, FALSE, row)
      OBVIOUS
<1>8. /\ tab \in Tables /\ Puts(table, tab, day, ver, FALSE, row)
      /\ \A d \in Days : d # day => tab[d] = table[d]
  <2>1. FALSE \in BOOLEAN
        OBVIOUS
  <2> QED BY <1>2, <1>6, <1>7, <2>1, PutGives
<1>9. CASE job[b].write = TRUE
  <2>1. table' = tab
        BY <1>5, <1>7, <1>9 DEF WriteRow
  <2> QED BY <1>1, <1>3, <1>4, <1>5, <1>8, <1>9, <2>1
<1>10. CASE job[b].write = FALSE
  <2>1. table' = table
        BY <1>10 DEF WriteRow
  <2> QED BY <1>1, <1>2, <1>3, <1>4, <1>10, <2>1
<1> QED BY <1>6, <1>9, <1>10

\* The days that the record moved from are deleted.
LEMMA DeleteDoes ==
    ASSUME MergeTypes, NEW b \in Batches, DeleteMoved(b)
    PROVE  /\ job[b].pc = "written" /\ job[b] \in Work /\ Running(b)
           /\ Same /\ sentAt' = sentAt /\ lock' = lock /\ past' = past
           /\ record = "merged" => Moves(b, "cleaned")
           /\ record = "whole" => Becomes(b, [pc |-> "done"])
           /\ table' \in Tables
           /\ \A d \in job[b].drop : Puts(table, table', d, job[b].ver, TRUE, job[b].row)
           /\ \A d \in Days \ job[b].drop : table'[d] = table[d]
<1>1. job[b].pc = "written" /\ Same /\ sentAt' = sentAt /\ lock' = lock /\ past' = past
      BY DEF DeleteMoved, Same
<1>2. table \in Tables /\ job \in [Batches -> Jobs]
      BY DEF MergeTypes, Tables
<1>3. job[b] \in Work /\ Running(b)
      BY <1>1, <1>2, JobParts
<1>4. record = "merged" => Moves(b, "cleaned")
  <2>1. ASSUME record = "merged"
        PROVE  job' = [job EXCEPT ![b] = [job[b] EXCEPT !.pc = "cleaned"]]
        BY <1>2, <2>1 DEF DeleteMoved
  <2> QED BY <1>2, <1>3, <2>1, JobMoves
<1>5. record = "whole" => Becomes(b, [pc |-> "done"])
  <2>1. ASSUME record = "whole"
        PROVE  job' = [job EXCEPT ![b] = [pc |-> "done"]]
        BY <1>2, <2>1 DEF DeleteMoved
  <2> QED BY <1>2, <2>1, JobBecomes DEF Jobs
<1>6. PICK drop, ver, row : drop = job[b].drop /\ ver = job[b].ver /\ row = job[b].row
      OBVIOUS
<1>7. drop \in SUBSET Days /\ ver \in Batches /\ row \in Rows
      BY <1>3, <1>6, WorkParts
<1>8. /\ table' = [d \in Days |-> table'[d]]
      /\ \A d \in drop : table'[d] = Put(table, d, ver, TRUE, row)[d]
      /\ \A d \in Days \ drop : table'[d] = table[d]
      BY <1>6, <1>7 DEF DeleteMoved
<1>9. ASSUME NEW d \in drop
      PROVE  /\ table'[d] \in {NoStored} \cup StoredRows
             /\ Puts(table, table', d, ver, TRUE, row)
  <2>1. PICK tab : tab = Put(table, d, ver, TRUE, row)
        OBVIOUS
  <2>2. tab \in Tables /\ Puts(table, tab, d, ver, TRUE, row)
    <3>1. TRUE \in BOOLEAN /\ d \in Days
          BY <1>7
    <3> QED BY <1>2, <1>7, <2>1, <3>1, PutGives
  <2>3. table'[d] = tab[d] /\ d \in Days
        BY <1>7, <1>8, <2>1
  <2> QED BY <2>2, <2>3 DEF Tables, Puts
<1>10. table' \in Tables
       BY <1>2, <1>8, <1>9 DEF Tables
<1> QED BY <1>1, <1>3, <1>4, <1>5, <1>6, <1>8, <1>9, <1>10

\* The field times are recorded, and the job is done.
LEMMA RecordDoes ==
    ASSUME MergeTypes, NEW b \in Batches, RecordTimes(b)
    PROVE  /\ job[b].pc = "cleaned" /\ job[b] \in Work /\ Running(b)
           /\ Same /\ table' = table /\ lock' = 0 /\ past' = past
           /\ sentAt' = job[b].times /\ sentAt' \in [Fields -> Int]
           /\ Becomes(b, [pc |-> "done"])
<1>1. job[b].pc = "cleaned" /\ job \in [Batches -> Jobs]
      BY DEF RecordTimes, MergeTypes
<1>2. job[b] \in Work /\ Running(b)
      BY <1>1, JobParts
<1>3. job[b].times \in [Fields -> Int]
      BY <1>2, WorkParts
<1>4. Becomes(b, [pc |-> "done"])
      BY <1>1, JobBecomes DEF RecordTimes, Jobs
<1> QED BY <1>1, <1>2, <1>3, <1>4 DEF RecordTimes, Same

\* An attempt fails: nothing stored changes, and the job waits again.
LEMMA FailDoes ==
    ASSUME MergeTypes, NEW b \in Batches, Fail(b)
    PROVE  /\ Running(b) /\ Same /\ table' = table /\ sentAt' = sentAt /\ PastSame
           /\ lock' = IF lock = b THEN 0 ELSE lock
           /\ Becomes(b, IdleJob)
<1>1. job \in [Batches -> Jobs] /\ past \in Pasts
      BY DEF MergeTypes
<1>2. past' = [past EXCEPT !.failures = @ + 1]
      BY DEF Fail
<1>3. PastSame
      BY <1>1, <1>2 DEF Pasts, PastSame
<1>4. Becomes(b, IdleJob)
      BY <1>1, JobBecomes DEF Fail, Jobs
<1> QED BY <1>3, <1>4 DEF Fail, Same

\* The field times are purged.
LEMMA PurgeDoes ==
    ASSUME MergeTypes, Purge
    PROVE  /\ Same /\ table' = table /\ lock' = lock /\ job' = job
           /\ sentAt' \in [Fields -> Int]
           /\ past' \in Pasts /\ past'.overlap = past.overlap /\ past'.purges # 0
<1>1. past \in Pasts /\ past' = [past EXCEPT !.purges = @ + 1]
      BY DEF MergeTypes, Purge
<1>2. past' \in Pasts /\ past'.overlap = past.overlap /\ past'.purges # 0
      BY <1>1 DEF Pasts
<1>3. sentAt' \in [Fields -> Int]
      BY DEF Purge, NoTimes
<1> QED BY <1>2, <1>3 DEF Purge, Same

-----------------------------------------------------------------------------
\* Types, and the rows of a merged record.

\* Who is done and who runs, after one job changed.
LEMMA JobsAfter ==
    ASSUME NEW b \in Batches, NEW j, Becomes(b, j)
    PROVE  /\ Done' = IF j.pc = "done" THEN Done \cup {b} ELSE Done \ {b}
           /\ Running(b)' <=> j.pc \notin {"waiting", "done"}
           /\ Underway(b)' <=> j.pc \in {"written", "cleaned"}
           /\ Settled' => j.pc = "done"
           /\ \A c \in Batches : c # b => /\ job'[c] = job[c]
                                          /\ (Running(c)' <=> Running(c))
                                          /\ (Underway(c)' <=> Underway(c))
<1>1. job'[b] = j /\ \A c \in Batches : c # b => job'[c] = job[c]
      BY DEF Becomes
<1>2. Done' = {c \in Batches : job'[c].pc = "done"}
      BY DEF Done
<1>3. Done' = IF j.pc = "done" THEN Done \cup {b} ELSE Done \ {b}
      BY <1>1, <1>2 DEF Done
<1>4. (Running(b)' <=> j.pc \notin {"waiting", "done"}) /\ (Settled' => j.pc = "done")
      BY <1>1 DEF Running, Settled
<1>5. Underway(b)' <=> j.pc \in {"written", "cleaned"}
      BY <1>1 DEF Underway
<1>6. \A c \in Batches : c # b => (Running(c)' <=> Running(c)) /\ (Underway(c)' <=> Underway(c))
      BY <1>1 DEF Running, Underway
<1> QED BY <1>1, <1>3, <1>4, <1>5, <1>6

\* Every step keeps the types.
LEMMA TypesKept ==
    ASSUME MergeTypes, [MergeNext]_mergeVars
    PROVE  MergeTypes'
<1>1. \A b \in Batches : \A j : Becomes(b, j) => job' \in [Batches -> Jobs]
      BY DEF Becomes
<1>2. \A b \in Batches : \A p : Moves(b, p) => job' \in [Batches -> Jobs]
      BY DEF Becomes, Moves
<1> USE DEF Same, Tables
<1>3. ASSUME NEW b \in Batches, Merge(b)
      PROVE  MergeTypes'
  <2>1. job' \in [Batches -> Jobs]
        BY <1>1, <1>3, MergeDoes
  <2> QED BY <1>3, <2>1, MergeDoes DEF MergeTypes
<1>4. ASSUME NEW b \in Batches, Resolve(b)
      PROVE  MergeTypes'
  <2>1. job' \in [Batches -> Jobs]
        BY <1>1, <1>4, ResolveDoes
  <2> QED BY <1>4, <2>1, ResolveDoes DEF MergeTypes
<1>5. ASSUME NEW b \in Batches, WriteRow(b)
      PROVE  MergeTypes'
  <2>1. job' \in [Batches -> Jobs]
        BY <1>2, <1>5, WriteDoes
  <2> QED BY <1>5, <2>1, WriteDoes DEF MergeTypes
<1>6. ASSUME NEW b \in Batches, DeleteMoved(b)
      PROVE  MergeTypes'
  <2>1. record = "merged" \/ record = "whole"
        BY DEF MergeTypes
  <2>2. job' \in [Batches -> Jobs]
        BY <1>1, <1>2, <1>6, <2>1, DeleteDoes
  <2> QED BY <1>6, <2>2, DeleteDoes DEF MergeTypes
<1>7. ASSUME NEW b \in Batches, RecordTimes(b)
      PROVE  MergeTypes'
  <2>1. job' \in [Batches -> Jobs]
        BY <1>1, <1>7, RecordDoes
  <2> QED BY <1>7, <2>1, RecordDoes DEF MergeTypes
<1>8. ASSUME NEW b \in Batches, Fail(b)
      PROVE  MergeTypes'
  <2>1. job' \in [Batches -> Jobs]
        BY <1>1, <1>8, FailDoes
  <2> QED BY <1>8, <2>1, FailDoes DEF MergeTypes, PastSame
<1>9. CASE Purge
      BY <1>9, PurgeDoes DEF MergeTypes
<1>10. CASE UNCHANGED mergeVars
       BY <1>10 DEF MergeTypes, mergeVars
<1> QED BY <1>3, <1>4, <1>5, <1>6, <1>7, <1>8, <1>9, <1>10 DEF MergeNext

\* Nothing of the rows, the jobs and the lock changes.
LEMMA RowsStand ==
    ASSUME MergedRows, record' = record, utc' = utc, table' = table, job' = job, lock' = lock
    PROVE  MergedRows'
BY DEF MergedRows, Locked, Freshest, Kept, Done, Settled, JobStands, Underway, Running,
       StoredAs, Visible

\* A merge relies on what it has just read.
LEMMA RowsMerge ==
    ASSUME MergeTypes, MergedRows, NEW b \in Batches, Merge(b)
    PROVE  MergedRows'
<1>1. PICK j, ver, row, times :
         /\ Becomes(b, j) /\ Merges(b, j, ver, row, times)
         /\ \/ FirstRow(b, j, ver, row, times)
            \/ \E d \in Newest : MergedRow(b, j, ver, row, times, d)
      BY MergeDoes
<1>2. /\ record = "merged" /\ job[b].pc = "waiting" /\ lock = 0 /\ lock' = b
      /\ record' = record /\ utc' = utc /\ table' = table /\ table \in Tables
      BY MergeDoes DEF Same, MergeTypes, Tables
<1>3. /\ j.pc = "resolved" /\ j.write = TRUE /\ j.ver = ver /\ j.row.day = row.day
      /\ ver \in Batches /\ ver \in Nat
      BY <1>1, BatchNumbers DEF Merges
<1>4. Freshest /\ Kept /\ Locked
      BY <1>2 DEF MergedRows
<1>5. /\ Done' = Done \ {b} /\ Running(b)' /\ ~Underway(b)' /\ ~Settled' /\ job'[b] = j
      /\ \A c \in Batches : c # b => (Running(c)' <=> Running(c))
      BY <1>1, <1>3, JobsAfter DEF Becomes
<1>6. \A c \in Batches : ~Running(c)
      BY <1>2, <1>4, BatchNumbers DEF Locked
<1>7. Locked'
      BY <1>2, <1>5, <1>6 DEF Locked
<1>8. Visible' = Visible /\ Freshest' /\ Kept'
      BY <1>2, <1>4, <1>5 DEF Visible, Freshest, Kept
<1>9. JobStands(b)'
  <2>1. CASE FirstRow(b, j, ver, row, times)
    <3>1. /\ table = [d \in Days |-> NoStored]
          /\ Visible = {} /\ ver = b /\ j.drop = {}
          BY <1>4, <2>1 DEF Freshest, FirstRow
    <3>2. \A d \in Days : table[d].ver = 0
          BY <3>1 DEF NoStored
    <3> QED BY <1>2, <1>3, <1>5, <1>8, <3>1, <3>2 DEF JobStands
  <2>2. ASSUME NEW d \in Newest, MergedRow(b, j, ver, row, times, d)
        PROVE  JobStands(b)'
    <3>1. /\ d \in Visible /\ \A e \in Visible : table[e].ver <= table[d].ver
          /\ ver = NewestVersion(b, table[d].ver) /\ j.drop = OtherDays(row.day, ver)
          BY <2>2 DEF Newest, MergedRow
    <3>2. PICK w \in Visible : \A e \in Days : table[e].ver <= table[w].ver
          BY <1>2, <1>4, <3>1 DEF Freshest, Visible
    <3>3. \A e \in Days : table[e].ver \in Nat
          BY <1>2, Entries
    <3>4. b \in Nat /\ d \in Days /\ w \in Days
          BY <3>1, BatchNumbers DEF Visible
    <3>5. ver >= table[d].ver
          BY <3>1, <3>3, <3>4 DEF NewestVersion
    <3>6. \A e \in Days : table[e].ver <= ver
          BY <1>3, <3>1, <3>2, <3>3, <3>4, <3>5
    <3>7. row.day \notin OtherDays(row.day, ver)
          BY DEF OtherDays
    <3>8. ASSUME utc, NEW e \in Visible, e # row.day
          PROVE  e \in OtherDays(row.day, ver)
      <4>1. PICK k : k = [day |-> e, ver |-> table[e].ver]
            OBVIOUS
      <4>2. k \in StoredRowKeys /\ k.day = e /\ k.ver <= ver
            BY <3>6, <4>1 DEF StoredRowKeys, Visible
      <4> QED BY <3>8, <4>2 DEF OtherDays
    <3>9. /\ job'[b].write = TRUE /\ job'[b].row.day \notin job'[b].drop
          /\ \A e \in Days : table'[e].ver <= job'[b].ver
          /\ job'[b].pc # "cleaned"
          BY <1>2, <1>3, <1>5, <3>1, <3>6, <3>7
    <3>10. utc' => \A e \in Visible' : e = job'[b].row.day \/ e \in job'[b].drop
          BY <1>2, <1>3, <1>5, <1>8, <3>1, <3>8
    <3> QED BY <1>5, <3>9, <3>10 DEF JobStands
  <2> QED BY <1>1, <2>1, <2>2
<1>10. \A c \in Batches : Running(c)' => JobStands(c)'
       BY <1>5, <1>6, <1>9
<1> QED BY <1>5, <1>7, <1>8, <1>10 DEF MergedRows

\* Its row is the newest when it is written.
LEMMA RowsWrite ==
    ASSUME MergeTypes, MergedRows, NEW b \in Batches, WriteRow(b), record = "merged"
    PROVE  MergedRows'
<1>1. /\ job[b].pc = "resolved" /\ job[b] \in Work /\ Running(b)
      /\ record' = record /\ utc' = utc /\ lock' = lock
      /\ Moves(b, "written")
      BY WriteDoes DEF Same
<1>2. PICK j \in Work :
         /\ Becomes(b, j) /\ j.pc = "written" /\ j.row = job[b].row /\ j.ver = job[b].ver
         /\ j.write = job[b].write /\ j.drop = job[b].drop
      BY <1>1 DEF Moves
<1>3. Freshest /\ Kept /\ Locked /\ JobStands(b)
      BY <1>1 DEF MergedRows
<1>4. /\ Done' = Done \ {b} /\ Running(b)' /\ ~Settled' /\ job'[b] = j
      /\ \A c \in Batches : c # b => (Running(c)' <=> Running(c))
      BY <1>2, JobsAfter DEF Becomes
<1>5. \A c \in Batches : Running(c) => c = b
      BY <1>1, <1>3 DEF Locked
<1>6. Locked'
      BY <1>1, <1>3, <1>4, <1>5 DEF Locked
<1>7. PICK day, ver, row : day = j.row.day /\ ver = j.ver /\ row = j.row
      OBVIOUS
<1>8. day \in Days /\ ver \in Batches /\ ver \in Nat /\ ver >= 1
      BY <1>7, WorkParts, BatchNumbers
<1>9. /\ j.write = TRUE /\ day \notin j.drop /\ \A d \in Days : table[d].ver <= ver
      /\ utc => \A d \in Visible : d = day \/ d \in j.drop
      BY <1>2, <1>3, <1>7 DEF JobStands
<1>10. table \in Tables /\ \A d \in Days : table[d].ver \in Nat
       BY Entries DEF MergeTypes, Tables
<1>11. /\ table'[day] = [ver |-> ver, gone |-> FALSE, row |-> row]
       /\ \A d \in Days : d # day => table'[d] = table[d]
  <2>1. /\ Puts(table, table', day, ver, FALSE, row)
        /\ \A d \in Days : d # day => table'[d] = table[d]
        BY <1>2, <1>7, <1>9, WriteDoes
  <2>2. ver >= table[day].ver
        BY <1>8, <1>9, <1>10
  <2> QED BY <2>1, <2>2 DEF Puts
<1>12. /\ table'[day].ver = ver /\ table'[day].gone = FALSE /\ table'[day] # NoStored
       /\ NoStored.ver = 0
       BY <1>8, <1>11 DEF NoStored
<1>13. day \in Visible' /\ \A d \in Visible' : d = day \/ d \in Visible
       BY <1>8, <1>11, <1>12 DEF Visible
<1>14. \A d \in Days : table'[d].ver <= ver
       BY <1>8, <1>9, <1>11, <1>12
<1>15. Freshest'
  <2>1. \A d \in Days : table'[d].ver <= table'[day].ver
        BY <1>12, <1>14
  <2> QED BY <1>13, <2>1 DEF Freshest
<1>16. Kept'
       BY <1>8, <1>12 DEF Kept
<1>17. StoredAs(day, ver, row)'
       BY <1>11 DEF StoredAs
<1>18. JobStands(b)'
  <2>1. utc' => \A d \in Visible' : d = day \/ d \in j.drop
        BY <1>1, <1>9, <1>13
  <2>2. job'[b].row.day = day /\ job'[b].ver = ver /\ job'[b].row = row
        BY <1>4, <1>7
  <2>3. StoredAs(job[b].row.day, job[b].ver, job[b].row)'
        BY <1>11, <2>2 DEF StoredAs
  <2> QED BY <1>2, <1>4, <1>9, <1>14, <2>1, <2>2, <2>3 DEF JobStands
<1>19. \A c \in Batches : Running(c)' => JobStands(c)'
       BY <1>4, <1>5, <1>18
<1> QED BY <1>4, <1>6, <1>15, <1>16, <1>19 DEF MergedRows

\* It is the only one when the days it moved from are deleted.
LEMMA RowsDelete ==
    ASSUME MergeTypes, MergedRows, NEW b \in Batches, DeleteMoved(b), record = "merged"
    PROVE  MergedRows'
<1>1. /\ job[b].pc = "written" /\ job[b] \in Work /\ Running(b)
      /\ record' = record /\ utc' = utc /\ lock' = lock
      /\ Moves(b, "cleaned")
      BY DeleteDoes DEF Same
<1>2. PICK j \in Work :
         /\ Becomes(b, j) /\ j.pc = "cleaned" /\ j.row = job[b].row /\ j.ver = job[b].ver
         /\ j.write = job[b].write /\ j.drop = job[b].drop
      BY <1>1 DEF Moves
<1>3. Freshest /\ Kept /\ Locked /\ JobStands(b)
      BY <1>1 DEF MergedRows
<1>4. /\ Done' = Done \ {b} /\ Running(b)' /\ ~Settled' /\ job'[b] = j
      /\ \A c \in Batches : c # b => (Running(c)' <=> Running(c))
      BY <1>2, JobsAfter DEF Becomes
<1>5. \A c \in Batches : Running(c) => c = b
      BY <1>1, <1>3 DEF Locked
<1>6. Locked'
      BY <1>1, <1>3, <1>4, <1>5 DEF Locked
<1>7. PICK day, ver, row : day = j.row.day /\ ver = j.ver /\ row = j.row
      OBVIOUS
<1>8. day \in Days /\ ver \in Batches /\ ver \in Nat /\ ver >= 1 /\ j.drop \in SUBSET Days
      BY <1>7, WorkParts, BatchNumbers
<1>9. /\ j.write = TRUE /\ day \notin j.drop /\ \A d \in Days : table[d].ver <= ver
      /\ utc => \A d \in Visible : d = day \/ d \in j.drop
      /\ table[day] = [ver |-> ver, gone |-> FALSE, row |-> row]
      BY <1>1, <1>2, <1>3, <1>7 DEF JobStands, Underway, StoredAs
<1>10. table \in Tables /\ \A d \in Days : table[d].ver \in Nat
       BY Entries DEF MergeTypes, Tables
<1>11. /\ \A d \in j.drop : table'[d] = [ver |-> ver, gone |-> TRUE, row |-> row]
       /\ \A d \in Days \ j.drop : table'[d] = table[d]
  <2>1. /\ \A d \in j.drop : Puts(table, table', d, ver, TRUE, row)
        /\ \A d \in Days \ j.drop : table'[d] = table[d]
        BY <1>2, <1>7, DeleteDoes
  <2>2. \A d \in j.drop : ver >= table[d].ver
        BY <1>8, <1>9, <1>10
  <2> QED BY <2>1, <2>2 DEF Puts
<1>12. \A d \in j.drop : table'[d].ver = ver /\ table'[d].gone = TRUE
       BY <1>11
<1>13. /\ table'[day].ver = ver /\ table'[day].gone = FALSE /\ table'[day] # NoStored
       /\ table'[day] = [ver |-> ver, gone |-> FALSE, row |-> row]
       /\ NoStored.ver = 0
       BY <1>8, <1>9, <1>11 DEF NoStored
<1>14. \A d \in Visible' : d \in Days \ j.drop /\ d \in Visible
       BY <1>11, <1>12 DEF Visible
<1>15. day \in Visible'
       BY <1>8, <1>13 DEF Visible
<1>16. \A d \in Days : table'[d].ver <= ver
       BY <1>8, <1>9, <1>11, <1>12
<1>17. Freshest'
  <2>1. \A d \in Days : table'[d].ver <= table'[day].ver
        BY <1>13, <1>16
  <2> QED BY <1>15, <2>1 DEF Freshest
<1>18. Kept'
       BY <1>8, <1>13 DEF Kept
<1>19. JobStands(b)'
  <2>1. utc' => Visible' = {day}
        BY <1>1, <1>9, <1>14, <1>15
  <2>2. job'[b].row.day = day /\ job'[b].ver = ver /\ job'[b].row = row
        BY <1>4, <1>7
  <2>3. StoredAs(job[b].row.day, job[b].ver, job[b].row)'
        BY <1>13, <2>2 DEF StoredAs
  <2> QED BY <1>2, <1>4, <1>9, <1>16, <2>1, <2>2, <2>3 DEF JobStands
<1>20. \A c \in Batches : Running(c)' => JobStands(c)'
       BY <1>4, <1>5, <1>19
<1> QED BY <1>4, <1>6, <1>17, <1>18, <1>20 DEF MergedRows

\* It stays when the merge is done.
LEMMA RowsRecord ==
    ASSUME MergeTypes, MergedRows, NEW b \in Batches, RecordTimes(b), record = "merged"
    PROVE  MergedRows'
<1>1. /\ job[b].pc = "cleaned" /\ job[b] \in Work /\ Running(b)
      /\ record' = record /\ utc' = utc /\ lock' = 0 /\ table' = table
      /\ Becomes(b, [pc |-> "done"])
      BY RecordDoes DEF Same
<1>2. Freshest /\ Locked /\ JobStands(b)
      BY <1>1 DEF MergedRows
<1>3. /\ ~Running(b)'
      /\ \A c \in Batches : c # b => (Running(c)' <=> Running(c))
      BY <1>1, JobsAfter
<1>4. \A c \in Batches : ~Running(c)'
      BY <1>1, <1>2, <1>3 DEF Locked
<1>5. PICK day \in Days : day = job[b].row.day
      BY <1>1, WorkParts
<1>6. /\ table[day].ver = job[b].ver /\ table[day].ver # 0
      /\ utc => Visible = {day}
  <2>1. job[b].ver \in Batches
        BY <1>1, WorkParts
  <2>2. job[b].ver # 0
        BY <2>1, BatchNumbers
  <2> QED BY <1>1, <1>2, <1>5, <2>2 DEF JobStands, Underway, StoredAs
<1>7. Kept'
      BY <1>1, <1>6 DEF Kept, NoStored
<1>8. Visible' = Visible /\ Freshest'
      BY <1>1, <1>2 DEF Visible, Freshest
<1>9. Locked'
      BY <1>1, <1>4 DEF Locked
<1> QED BY <1>1, <1>4, <1>6, <1>7, <1>8, <1>9 DEF MergedRows

\* It stays when the attempt fails.
LEMMA RowsFail ==
    ASSUME MergeTypes, MergedRows, NEW b \in Batches, Fail(b), record = "merged"
    PROVE  MergedRows'
<1>1. /\ Running(b) /\ record' = record /\ utc' = utc /\ table' = table
      /\ lock' = IF lock = b THEN 0 ELSE lock
      /\ Becomes(b, IdleJob) /\ IdleJob.pc = "waiting"
      BY FailDoes DEF Same, IdleJob
<1>2. Freshest /\ Kept /\ Locked
      BY <1>1 DEF MergedRows
<1>3. /\ ~Running(b)' /\ ~Settled' /\ Done' = Done \ {b}
      /\ \A c \in Batches : c # b => (Running(c)' <=> Running(c))
      BY <1>1, JobsAfter
<1>4. \A c \in Batches : ~Running(c)'
      BY <1>1, <1>2, <1>3 DEF Locked
<1>5. lock' = 0
      BY <1>1, <1>2 DEF Locked
<1>6. Locked' /\ Freshest' /\ Kept'
      BY <1>1, <1>2, <1>3, <1>4, <1>5 DEF Locked, Freshest, Kept, Visible
<1> QED BY <1>1, <1>3, <1>4, <1>6 DEF MergedRows

\* Every step keeps the rows of a merged record.
LEMMA MergedRowsKept ==
    ASSUME MergeTypes, MergedRows, [MergeNext]_mergeVars
    PROVE  MergedRows'
<1>1. record' = record
  <2>1. CASE MergeNext
        BY <2>1 DEF MergeNext, Merge, Resolve, WriteRow, DeleteMoved, RecordTimes, Fail, Purge
  <2>2. CASE UNCHANGED mergeVars
        BY <2>2 DEF mergeVars
  <2> QED BY <2>1, <2>2
<1>2. CASE record # "merged"
      BY <1>1, <1>2 DEF MergedRows
<1>3. CASE record = "merged"
  <2>1. ASSUME NEW b \in Batches, Resolve(b)
        PROVE  FALSE
        BY <1>3, <2>1 DEF Resolve
  <2>2. CASE Purge
        BY <2>2, PurgeDoes, RowsStand DEF Same
  <2>3. CASE UNCHANGED mergeVars
        BY <2>3, RowsStand DEF mergeVars
  <2> QED BY <1>3, <2>1, <2>2, <2>3, RowsMerge, RowsWrite, RowsDelete, RowsRecord, RowsFail
          DEF MergeNext
<1> QED BY <1>2, <1>3

-----------------------------------------------------------------------------
\* The rows of a record that is written whole.

\* The newest batch of a whole row is a batch, whose day is a day.
LEMMA TheFinal ==
    ASSUME content \in [Batches -> Contents]
    PROVE  Final \in Batches /\ Final \in Nat /\ FinalDay \in Days /\ \A b \in Batches : b \in Nat
             /\ b <= Final
BY BatchNumbers, SendsFields DEF Final, FinalDay

\* Nothing of the rows, the jobs and the lock changes.
LEMMA WholeStands ==
    ASSUME WholeRows, Same, table' = table, job' = job, lock' = lock,
           past'.overlap = past.overlap
    PROVE  WholeRows'
BY DEF WholeRows, WholeJob, FinalIn, FinalStands, FinalAlone, FinalDay, Final, Done, Underway,
       Running, Visible, Same

\* A job of a whole row reads what is stored.
LEMMA WholeResolve ==
    ASSUME MergeTypes, WholeRows, NEW b \in Batches, Resolve(b)
    PROVE  WholeRows'
<1>1. PICK j \in Work :
         /\ Becomes(b, j) /\ j.pc = "resolved" /\ j.ver = b
         /\ j.row.day = content[b].day /\ j.row.time = b
         /\ j.write = TRUE <=> ~Stale(b)
         /\ j.drop = Replaced(b)
      BY ResolveDoes
<1>2. /\ record = "whole" /\ job[b].pc = "waiting" /\ lock' = lock
      /\ record' = record /\ utc' = utc /\ content' = content /\ table' = table
      /\ past' \in Pasts
      /\ past'.overlap = FALSE => past.overlap = FALSE /\ \A c \in Batches : ~Running(c)
      BY ResolveDoes DEF Same
<1>3. /\ lock = 0
      /\ \A d \in Visible : table[d].ver = Final => d = FinalDay /\ table[d].row.time = Final
      /\ \A c \in Batches : Running(c) => WholeJob(c)
      /\ FinalIn => FinalStands
      /\ Final \in Done => FinalAlone
      BY <1>2 DEF WholeRows
<1>4. /\ Done' = Done \ {b} /\ Running(b)' /\ ~Underway(b)' /\ job'[b] = j
      /\ \A c \in Batches : c # b => /\ job'[c] = job[c] /\ (Running(c)' <=> Running(c))
                                     /\ (Underway(c)' <=> Underway(c))
      BY <1>1, JobsAfter DEF Becomes
<1>5. /\ Final \in Batches /\ Final \in Nat /\ FinalDay \in Days
      /\ \A c \in Batches : c \in Nat /\ c <= Final
      BY TheFinal DEF MergeTypes
<1>6. /\ table \in Tables /\ \A d \in Days : table[d].ver \in Nat /\ table[d].ver <= Final
      BY Entries DEF MergeTypes, Tables, Final
<1>7. Visible' = Visible /\ FinalDay' = FinalDay /\ Final' = Final
      BY <1>2 DEF Visible, FinalDay, Final
<1>8. b \notin Done
      BY <1>2 DEF Done
<1>9. FinalIn' => FinalIn
      BY <1>4, <1>5, <1>7 DEF FinalIn
<1>10. (FinalStands' <=> FinalStands) /\ (FinalAlone => FinalAlone')
       BY <1>2, <1>7 DEF FinalStands, FinalAlone
<1>11. ASSUME b = Final
       PROVE  /\ FinalDay \notin j.drop /\ j.write = TRUE
              /\ utc => \A d \in Visible : d = FinalDay \/ d \in j.drop
  <2>1. ~Stale(b)
    <3>1. \A d \in Visible : table[d].ver \in Nat /\ table[d].ver <= Final
          BY <1>6 DEF Visible
    <3> QED BY <1>5, <1>11, <3>1 DEF Stale
  <2>2. j.drop = OtherDays(FinalDay, b)
        BY <1>1, <1>11, <2>1 DEF Replaced, FinalDay
  <2>3. FinalDay \notin OtherDays(FinalDay, b)
        BY DEF OtherDays
  <2>4. ASSUME utc, NEW e \in Visible, e # FinalDay
        PROVE  e \in OtherDays(FinalDay, b)
    <3>1. PICK k : k = [day |-> e, ver |-> table[e].ver]
          OBVIOUS
    <3>2. k \in StoredRowKeys /\ k.day = e /\ k.ver <= b
          BY <1>6, <1>11, <3>1 DEF StoredRowKeys, Visible
    <3> QED BY <2>4, <3>2 DEF OtherDays
  <2> QED BY <1>1, <2>1, <2>2, <2>3, <2>4
<1>12. ASSUME Final \in Done
       PROVE  j.write = FALSE
  <2>1. FinalDay \in Visible /\ table[FinalDay].ver > b
    <3>1. FinalStands
          BY <1>3, <1>12 DEF FinalIn
    <3>2. table[FinalDay] # NoStored
          BY <1>5, <1>6, <3>1, Entries, BatchNumbers DEF FinalStands
    <3>3. b # Final
          BY <1>8, <1>12
    <3>4. table[FinalDay].ver = Final /\ table[FinalDay].gone = FALSE
          BY <3>1 DEF FinalStands
    <3>5. Final > b
          BY <1>5, <3>3
    <3> QED BY <1>5, <3>2, <3>4, <3>5 DEF Visible
  <2>2. Stale(b)
        BY <2>1 DEF Stale
  <2>3. j.write \in BOOLEAN
        BY WorkParts
  <2> QED BY <1>1, <2>2, <2>3
<1>13. WholeJob(b)'
  <2>1. /\ job'[b].ver = b /\ job'[b].row.day = content'[b].day /\ job'[b].row.time = b
        /\ job'[b].pc # "cleaned"
        BY <1>1, <1>2, <1>4
  <2>2. b = Final' => FinalDay' \notin job'[b].drop /\ job'[b].write = TRUE
        BY <1>4, <1>7, <1>11
  <2>3. past'.overlap = FALSE => \A c \in Batches : Running(c)' => c = b
        BY <1>2, <1>4
  <2>4. b = Final' /\ utc' => \A d \in Visible' : d = FinalDay' \/ d \in job'[b].drop
        BY <1>2, <1>4, <1>7, <1>11
  <2>5. Final' \in Done' => job'[b].write = FALSE
        BY <1>4, <1>7, <1>12
  <2> QED BY <2>1, <2>2, <2>3, <2>4, <2>5 DEF WholeJob
<1>14. ASSUME NEW c \in Batches, Running(c)', c # b
       PROVE  WholeJob(c)'
  <2>1. WholeJob(c) /\ Running(c) /\ job'[c] = job[c]
        BY <1>3, <1>4, <1>14
  <2>2. past'.overlap # FALSE
        BY <1>2, <2>1
  <2>3. /\ job'[c].ver = c /\ job'[c].row.day = content'[c].day /\ job'[c].row.time = c
        /\ job'[c].pc # "cleaned"
        /\ c = Final' => FinalDay' \notin job'[c].drop /\ job'[c].write = TRUE
        BY <1>2, <1>7, <2>1 DEF WholeJob
  <2> QED BY <2>2, <2>3 DEF WholeJob
<1>15. /\ lock' = 0
       /\ \A d \in Visible' : table'[d].ver = Final' => d = FinalDay'
            /\ table'[d].row.time = Final'
       BY <1>2, <1>3, <1>7
<1>16. (FinalIn' => FinalStands') /\ (Final' \in Done' => FinalAlone')
  <2>1. Final' \in Done' => Final \in Done
        BY <1>4, <1>7
  <2>2. Final \in Done /\ utc' /\ past'.overlap = FALSE => Visible' = {FinalDay'}
        BY <1>2, <1>3, <1>7 DEF FinalAlone
  <2> QED BY <1>3, <1>9, <1>10, <2>1, <2>2 DEF FinalAlone
<1> QED BY <1>13, <1>14, <1>15, <1>16 DEF WholeRows

\* It writes its row: that of the newest batch takes its place, and stays there.
LEMMA WholeWrite ==
    ASSUME MergeTypes, WholeRows, NEW b \in Batches, WriteRow(b), record = "whole"
    PROVE  WholeRows'
<1>1. /\ job[b].pc = "resolved" /\ job[b] \in Work /\ Running(b)
      /\ record' = record /\ utc' = utc /\ content' = content /\ lock' = lock /\ past' = past
      /\ Moves(b, "written")
      BY WriteDoes DEF Same
<1>2. PICK j \in Work :
         /\ Becomes(b, j) /\ j.pc = "written" /\ j.row = job[b].row /\ j.ver = job[b].ver
         /\ j.write = job[b].write /\ j.drop = job[b].drop
      BY <1>1 DEF Moves
<1>3. /\ lock = 0
      /\ \A d \in Visible : table[d].ver = Final => d = FinalDay /\ table[d].row.time = Final
      /\ \A c \in Batches : Running(c) => WholeJob(c)
      /\ FinalIn => FinalStands
      /\ Final \in Done => FinalAlone
      BY DEF WholeRows
<1>4. /\ Done' = Done \ {b} /\ Running(b)' /\ Underway(b)' /\ job'[b] = j
      /\ \A c \in Batches : c # b => /\ job'[c] = job[c] /\ (Running(c)' <=> Running(c))
                                     /\ (Underway(c)' <=> Underway(c))
      BY <1>2, JobsAfter DEF Becomes
<1>5. /\ Final \in Batches /\ Final \in Nat /\ FinalDay \in Days
      /\ \A c \in Batches : c \in Nat /\ c <= Final
      BY TheFinal DEF MergeTypes
<1>6. /\ table \in Tables /\ \A d \in Days : table[d].ver \in Nat /\ table[d].ver <= Final
      BY Entries DEF MergeTypes, Tables, Final
<1>7. FinalDay' = FinalDay /\ Final' = Final
      BY <1>1 DEF FinalDay, Final
<1>8. b \notin Done
      BY <1>1 DEF Done
<1>9. WholeJob(b)
      BY <1>1, <1>3
<1>10. PICK day, row : day = job[b].row.day /\ row = job[b].row
       OBVIOUS
<1>11. /\ day \in Days /\ day = content[b].day /\ row.time = b /\ job[b].ver = b
       /\ job[b].write \in BOOLEAN
       /\ b = Final => day = FinalDay /\ job[b].write = TRUE
       BY <1>1, <1>9, <1>10, WorkParts DEF WholeJob, FinalDay
<1>12. /\ job[b].write = FALSE => table' = table
       /\ job[b].write = TRUE => Puts(table, table', day, b, FALSE, row)
       /\ \A d \in Days : d # day => table'[d] = table[d]
       BY <1>10, <1>11, WriteDoes
<1>13. \/ table'[day] = table[day]
       \/ /\ table'[day] = [ver |-> b, gone |-> FALSE, row |-> row]
          /\ b >= table[day].ver /\ job[b].write = TRUE
       BY <1>11, <1>12 DEF Puts
<1>14. \A d \in Visible' : d = day \/ d \in Visible
       BY <1>12 DEF Visible
<1>15. ASSUME NEW d \in Visible', table'[d].ver = Final'
       PROVE  d = FinalDay' /\ table'[d].row.time = Final'
  <2>1. d \in Days
        BY DEF Visible
  <2>2. CASE table'[d] = table[d]
    <3>1. d \in Visible
          BY <2>2 DEF Visible
    <3> QED BY <1>3, <1>7, <1>15, <2>2, <3>1
  <2>3. CASE table'[d] # table[d]
    <3>1. d = day /\ table'[d] = [ver |-> b, gone |-> FALSE, row |-> row]
          BY <1>12, <1>13, <2>1, <2>3
    <3>2. b = Final
          BY <1>7, <1>15, <3>1
    <3> QED BY <1>7, <1>11, <3>1, <3>2
  <2> QED BY <2>2, <2>3
<1>16. ASSUME b = Final
       PROVE  FinalStands'
  <2>1. day = FinalDay /\ job[b].write = TRUE /\ b >= table[day].ver
        BY <1>5, <1>6, <1>11, <1>16
  <2>2. table'[day] = [ver |-> b, gone |-> FALSE, row |-> row]
        BY <1>12, <2>1 DEF Puts
  <2> QED BY <1>7, <1>16, <2>1, <2>2 DEF FinalStands
<1>17. ASSUME b # Final, FinalIn'
       PROVE  FinalStands'
  <2>1. FinalIn
        BY <1>4, <1>5, <1>7, <1>17 DEF FinalIn
  <2>2. FinalStands /\ ~(b >= table[FinalDay].ver)
    <3>1. FinalStands
          BY <1>3, <2>1
    <3>2. ~(b >= Final)
          BY <1>5, <1>17
    <3> QED BY <3>1, <3>2 DEF FinalStands
  <2>3. table'[FinalDay] = table[FinalDay]
        BY <1>5, <1>12, <1>13, <2>2
  <2> QED BY <1>7, <2>2, <2>3 DEF FinalStands
<1>18. ASSUME Final' \in Done'
       PROVE  FinalAlone'
  <2>1. Final \in Done
        BY <1>4, <1>7, <1>18
  <2>2. ASSUME past.overlap = FALSE
        PROVE  table' = table
        BY <1>9, <1>12, <2>1, <2>2 DEF WholeJob
  <2>3. ASSUME utc, past.overlap = FALSE
        PROVE  Visible' = {FinalDay}
    <3>1. Visible = {FinalDay}
          BY <1>3, <2>1, <2>3 DEF FinalAlone
    <3> QED BY <2>2, <2>3, <3>1 DEF Visible
  <2> QED BY <1>1, <1>7, <2>3 DEF FinalAlone
<1>19. ASSUME NEW c \in Batches, Running(c)'
       PROVE  WholeJob(c)'
  <2>1. WholeJob(c) /\ Running(c)
        BY <1>1, <1>3, <1>4, <1>19
  <2>2. /\ job'[c].ver = job[c].ver /\ job'[c].row = job[c].row /\ job'[c].drop = job[c].drop
        /\ job'[c].write = job[c].write /\ job'[c].pc # "cleaned"
        BY <1>2, <1>4, <2>1 DEF WholeJob
  <2>3. past.overlap = FALSE => c = b /\ \A e \in Batches : Running(e) => e = b
        BY <1>1, <1>9, <2>1 DEF WholeJob
  <2>4. past.overlap = FALSE => \A e \in Batches : Running(e)' => e = c
        BY <1>4, <2>3
  <2>5. /\ job'[c].ver = c /\ job'[c].row.day = content'[c].day /\ job'[c].row.time = c
        /\ job'[c].pc # "cleaned"
        /\ c = Final' => FinalDay' \notin job'[c].drop /\ job'[c].write = TRUE
        BY <1>1, <1>7, <2>1, <2>2 DEF WholeJob
  <2>6. ASSUME past.overlap = FALSE, c = Final', utc'
        PROVE  \A d \in Visible' : d = FinalDay' \/ d \in job'[c].drop
    <3>1. \A d \in Visible : d = FinalDay \/ d \in job[c].drop
          BY <1>1, <1>7, <2>1, <2>6 DEF WholeJob
    <3>2. day = FinalDay
          BY <1>7, <1>11, <2>3, <2>6
    <3> QED BY <1>7, <1>14, <2>2, <3>1, <3>2
  <2>7. past.overlap = FALSE /\ Final' \in Done' => job'[c].write = FALSE
        BY <1>4, <1>7, <2>1, <2>2 DEF WholeJob
  <2> QED BY <1>1, <2>4, <2>5, <2>6, <2>7 DEF WholeJob
<1>20. FinalIn' => FinalStands'
       BY <1>16, <1>17
<1> QED BY <1>1, <1>3, <1>15, <1>18, <1>19, <1>20 DEF WholeRows

\* It deletes the days that the record moved from: the newest batch leaves only its own
\* visible, and none of the others deletes that.
LEMMA WholeDelete ==
    ASSUME MergeTypes, WholeRows, NEW b \in Batches, DeleteMoved(b), record = "whole"
    PROVE  WholeRows'
<1>1. /\ job[b].pc = "written" /\ job[b] \in Work /\ Running(b)
      /\ record' = record /\ utc' = utc /\ content' = content /\ lock' = lock /\ past' = past
      /\ Becomes(b, [pc |-> "done"])
      BY DeleteDoes DEF Same
<1>2. /\ lock = 0
      /\ \A d \in Visible : table[d].ver = Final => d = FinalDay /\ table[d].row.time = Final
      /\ \A c \in Batches : Running(c) => WholeJob(c)
      /\ FinalIn => FinalStands
      /\ Final \in Done => FinalAlone
      BY DEF WholeRows
<1>3. /\ Done' = Done \cup {b} /\ ~Running(b)'
      /\ \A c \in Batches : c # b => /\ job'[c] = job[c] /\ (Running(c)' <=> Running(c))
                                     /\ (Underway(c)' <=> Underway(c))
      BY <1>1, JobsAfter
<1>4. /\ Final \in Batches /\ Final \in Nat /\ FinalDay \in Days
      /\ \A c \in Batches : c \in Nat /\ c <= Final
      BY TheFinal DEF MergeTypes
<1>5. /\ table \in Tables /\ \A d \in Days : table[d].ver \in Nat /\ table[d].ver <= Final
      BY Entries DEF MergeTypes, Tables, Final
<1>6. FinalDay' = FinalDay /\ Final' = Final
      BY <1>1 DEF FinalDay, Final
<1>7. WholeJob(b)
      BY <1>1, <1>2
<1>8. PICK drop, row : drop = job[b].drop /\ row = job[b].row
      OBVIOUS
<1>9. drop \in SUBSET Days /\ job[b].ver = b
      BY <1>1, <1>7, <1>8, WorkParts DEF WholeJob
<1>10. /\ \A d \in drop : Puts(table, table', d, b, TRUE, row)
       /\ \A d \in Days \ drop : table'[d] = table[d]
       BY <1>8, <1>9, DeleteDoes
<1>11. \A d \in Days : \/ table'[d] = table[d]
                       \/ /\ d \in drop /\ b >= table[d].ver /\ table'[d].gone = TRUE
                          /\ table'[d].ver = b
       BY <1>10 DEF Puts
<1>12. \A d \in Visible' : d \in Visible /\ table'[d] = table[d]
       BY <1>11 DEF Visible
<1>13. ASSUME FinalIn'
       PROVE  FinalStands /\ table'[FinalDay] = table[FinalDay]
  <2>1. FinalIn
        BY <1>1, <1>3, <1>4, <1>6, <1>13 DEF FinalIn, Underway
  <2>2. FinalStands
        BY <1>2, <2>1
  <2>3. b = Final => FinalDay \notin drop
        BY <1>7, <1>8 DEF WholeJob
  <2>4. b # Final => ~(b >= table[FinalDay].ver)
        BY <1>4, <2>2 DEF FinalStands
  <2> QED BY <1>4, <1>10, <1>11, <2>2, <2>3, <2>4
<1>14. FinalIn' => FinalStands'
       BY <1>6, <1>13 DEF FinalStands
<1>15. ASSUME Final' \in Done', utc, past.overlap = FALSE
       PROVE  Visible' = {FinalDay}
  <2>1. FinalStands' /\ FinalStands
        BY <1>13, <1>14, <1>15 DEF FinalIn
  <2>2. FinalDay \in Visible'
    <3>1. table'[FinalDay] = table[FinalDay] /\ table[FinalDay] # NoStored
      <4>1. table'[FinalDay] = table[FinalDay]
            BY <1>13, <1>15 DEF FinalIn
      <4>2. Final # 0
            BY <1>4, BatchNumbers
      <4>3. table[FinalDay] # NoStored
            BY <1>4, <1>5, <2>1, <4>2, Entries DEF FinalStands
      <4> QED BY <4>1, <4>3
    <3> QED BY <1>4, <2>1, <3>1 DEF Visible, FinalStands
  <2>3. ASSUME NEW d \in Visible', d # FinalDay
        PROVE  FALSE
    <3>1. d \in Visible /\ table'[d] = table[d] /\ d \in Days
          BY <1>12 DEF Visible
    <3>2. CASE b = Final
      <4>1. d \in drop
            BY <1>7, <1>8, <1>15, <2>3, <3>1, <3>2 DEF WholeJob
      <4>2. b >= table[d].ver
            BY <1>4, <1>5, <3>1, <3>2
      <4>3. table'[d] = [ver |-> b, gone |-> TRUE, row |-> row]
            BY <1>10, <4>1, <4>2 DEF Puts
      <4> QED BY <4>3 DEF Visible
    <3>3. CASE b # Final
      <4>1. Final \in Done
            BY <1>3, <1>6, <1>15, <3>3
      <4> QED BY <1>2, <1>15, <2>3, <3>1, <4>1 DEF FinalAlone
    <3> QED BY <3>2, <3>3
  <2> QED BY <2>2, <2>3
<1>16. Final' \in Done' => FinalAlone'
       BY <1>1, <1>6, <1>15 DEF FinalAlone
<1>17. ASSUME NEW c \in Batches, Running(c)'
       PROVE  WholeJob(c)'
  <2>1. c # b /\ Running(c) /\ job'[c] = job[c] /\ WholeJob(c)
        BY <1>2, <1>3, <1>17
  <2>2. past'.overlap # FALSE
        BY <1>1, <1>7, <2>1 DEF WholeJob
  <2>3. /\ job'[c].ver = c /\ job'[c].row.day = content'[c].day /\ job'[c].row.time = c
        /\ job'[c].pc # "cleaned"
        /\ c = Final' => FinalDay' \notin job'[c].drop /\ job'[c].write = TRUE
        BY <1>1, <1>6, <2>1 DEF WholeJob
  <2> QED BY <2>2, <2>3 DEF WholeJob
<1>18. \A d \in Visible' : table'[d].ver = Final' => d = FinalDay' /\ table'[d].row.time = Final'
       BY <1>2, <1>6, <1>12
<1> QED BY <1>1, <1>2, <1>14, <1>16, <1>17, <1>18 DEF WholeRows

\* It fails.
LEMMA WholeFail ==
    ASSUME MergeTypes, WholeRows, NEW b \in Batches, Fail(b), record = "whole"
    PROVE  WholeRows'
<1>1. /\ Running(b) /\ record' = record /\ utc' = utc /\ content' = content /\ table' = table
      /\ past'.overlap = past.overlap
      /\ lock' = IF lock = b THEN 0 ELSE lock
      /\ Becomes(b, IdleJob) /\ IdleJob.pc = "waiting"
      BY FailDoes DEF Same, IdleJob, PastSame
<1>2. /\ lock = 0
      /\ \A d \in Visible : table[d].ver = Final => d = FinalDay /\ table[d].row.time = Final
      /\ \A c \in Batches : Running(c) => WholeJob(c)
      /\ FinalIn => FinalStands
      /\ Final \in Done => FinalAlone
      BY DEF WholeRows
<1>3. /\ Done' = Done \ {b} /\ ~Running(b)'
      /\ \A c \in Batches : c # b => /\ job'[c] = job[c] /\ (Running(c)' <=> Running(c))
                                     /\ (Underway(c)' <=> Underway(c))
      BY <1>1, JobsAfter
<1>4. Final \in Batches
      BY TheFinal DEF MergeTypes
<1>5. FinalDay' = FinalDay /\ Final' = Final /\ Visible' = Visible
      BY <1>1 DEF FinalDay, Final, Visible
<1>6. FinalIn' => FinalIn
      BY <1>3, <1>4, <1>5 DEF FinalIn
<1>7. (FinalStands => FinalStands') /\ (FinalAlone => FinalAlone')
      BY <1>1, <1>5 DEF FinalStands, FinalAlone
<1>8. ASSUME NEW c \in Batches, Running(c)'
      PROVE  WholeJob(c)'
  <2>1. c # b /\ Running(c) /\ job'[c] = job[c] /\ WholeJob(c)
        BY <1>2, <1>3, <1>8
  <2>2. past'.overlap # FALSE
        BY <1>1, <2>1 DEF WholeJob
  <2>3. /\ job'[c].ver = c /\ job'[c].row.day = content'[c].day /\ job'[c].row.time = c
        /\ job'[c].pc # "cleaned"
        /\ c = Final' => FinalDay' \notin job'[c].drop /\ job'[c].write = TRUE
        BY <1>1, <1>5, <2>1 DEF WholeJob
  <2> QED BY <2>2, <2>3 DEF WholeJob
<1>9. Final' \in Done' => FinalAlone'
      BY <1>2, <1>3, <1>5, <1>7
<1>10. /\ lock' = 0
       /\ \A d \in Visible' : table'[d].ver = Final' => d = FinalDay'
            /\ table'[d].row.time = Final'
       BY <1>1, <1>2, <1>5
<1> QED BY <1>2, <1>6, <1>7, <1>8, <1>9, <1>10 DEF WholeRows

\* Every step keeps the rows of a record that is written whole.
LEMMA WholeRowsKept ==
    ASSUME MergeTypes, WholeRows, [MergeNext]_mergeVars
    PROVE  WholeRows'
<1>1. record' = record
  <2>1. CASE MergeNext
        BY <2>1 DEF MergeNext, Merge, Resolve, WriteRow, DeleteMoved, RecordTimes, Fail, Purge
  <2>2. CASE UNCHANGED mergeVars
        BY <2>2 DEF mergeVars
  <2> QED BY <2>1, <2>2
<1>2. CASE record # "whole"
      BY <1>1, <1>2 DEF WholeRows
<1>3. CASE record = "whole"
  <2>1. ASSUME NEW b \in Batches, Merge(b)
        PROVE  FALSE
        BY <1>3, <2>1 DEF Merge
  <2>2. ASSUME NEW b \in Batches, RecordTimes(b)
        PROVE  FALSE
        BY <1>3, <2>2, RecordDoes DEF WholeRows, WholeJob
  <2>3. CASE Purge
        BY <2>3, PurgeDoes, WholeStands
  <2>4. CASE UNCHANGED mergeVars
        BY <2>4, WholeStands DEF mergeVars, Same
  <2> QED BY <1>3, <2>1, <2>2, <2>3, <2>4, WholeResolve, WholeWrite, WholeDelete, WholeFail
          DEF MergeNext
<1> QED BY <1>2, <1>3

-----------------------------------------------------------------------------
\* The fields of a merged record.

\* What a row or field times are good for depends on what the batches send only.
LEMMA GoodStays ==
    ASSUME content' = content
    PROVE  /\ \A row, D : GoodRow(row, D)' <=> GoodRow(row, D)
           /\ \A times, D : TimesOk(times, D)' <=> TimesOk(times, D)
<1>1. \A f, D : SentBy(f, D)' = SentBy(f, D)
      BY DEF SentBy, Sends
<1>2. \A f : Senders(f)' = Senders(f)
      BY DEF Senders, Sends
<1>3. \A v, f, D : Fine(v, f, D)' <=> Fine(v, f, D)
      BY <1>1, <1>2 DEF Fine
<1>4. \A row, D : FineRow(row, D)' <=> FineRow(row, D)
      BY <1>3 DEF FineRow
<1>5. \A row, D : FineCost(row, D)' <=> FineCost(row, D)
      BY <1>1, <1>3 DEF FineCost
<1>6. \A c, f, D : Newer(c, f, D)' <=> Newer(c, f, D)
      BY <1>1 DEF Newer
<1>7. \A row, D : GoodRow(row, D)' <=> GoodRow(row, D)
      BY <1>4, <1>5 DEF GoodRow
<1>8. \A times, D : TimesOk(times, D)' <=> TimesOk(times, D)
      BY <1>6 DEF TimesOk
<1> QED BY <1>7, <1>8

\* The times of the stored row fit, unless the merge has to guess them.
LEMMA TimesFitThen ==
    ASSUME MergeTypes, TimesTell, NEW b \in Batches, b \notin Done, NEW stored, NEW s,
           s = StoredSentAt(b, stored, sentAt), s \in [Fields -> Int],
           stored.ver \in Batches,
           ~(sentAt = NoTimes /\ stored.ver \notin {b, past.legacy})
    PROVE  TimesFit(s, b, Done)
<1>1. content \in [Batches -> Contents] /\ past.legacy \in {0, 1} /\ sentAt \in [Fields -> Int]
      BY DEF MergeTypes, Pasts
<1>2. b \in Nat /\ b >= 1 /\ \A c \in Batches : c \in Nat /\ c >= 1
      BY BatchNumbers
<1>3. CASE sentAt # NoTimes
  <2>1. TimesOk(sentAt, Done)
        BY <1>3 DEF TimesTell
  <2>2. \A f \in Fields : s[f] = sentAt[f]
        BY <1>3 DEF StoredSentAt
  <2>3. sentAt \in [Fields -> Nat]
        BY <2>1 DEF TimesOk
  <2>4. s \in [Fields -> Nat]
        BY <2>2, <2>3
  <2>5. \A f \in Fields, c \in Batches \ Done : c >= s[f] <=> Newer(c, f, Done)
        BY <2>1, <2>2 DEF TimesOk
  <2> QED BY <2>4, <2>5 DEF TimesFit
<1>4. CASE sentAt = NoTimes
  <2>1. Done \subseteq {1}
        BY <1>1, <1>2, <1>4 DEF TimesTell, TimesOk, NoTimes, Done
  <2>2. \A c \in Batches \ Done : \A f : Newer(c, f, Done)
        BY <1>2, <2>1 DEF Newer, SentBy
  <2>3. CASE stored.ver = b
    <3>1. \A f \in Fields : s[f] = IF f \in Sends(b) THEN b ELSE 0
          BY <1>4, <2>3 DEF StoredSentAt, Sent
    <3>2. s \in [Fields -> Nat]
          BY <1>2, <3>1
    <3>3. \A f \in Fields : b >= s[f]
          BY <1>2, <3>1
    <3>4. ASSUME NEW f \in Fields, f \notin Sends(b), NEW c \in Batches
          PROVE  c >= s[f]
          BY <1>2, <3>1, <3>4
    <3> QED BY <2>2, <3>2, <3>3, <3>4 DEF TimesFit
  <2>4. CASE stored.ver # b
    <3>1. stored.ver = 1
          BY <1>1, <1>2, <1>4, <2>4
    <3>2. \A f \in Fields : s[f] = 0 \/ s[f] = 1
          BY <1>4, <2>4, <3>1 DEF StoredSentAt
    <3>3. s \in [Fields -> Nat]
          BY <3>2
    <3>4. \A f \in Fields, c \in Batches : c >= s[f]
          BY <1>2, <3>2
    <3> QED BY <2>2, <3>3, <3>4 DEF TimesFit
  <2> QED BY <2>3, <2>4
<1> QED BY <1>3, <1>4

\* A job that starts, or goes on, with a good row.
GoodJob(b) ==
    /\ b \notin Done
    /\ GoodRow(job[b].row, Done \cup {b}) /\ TimesOk(job[b].times, Done \cup {b})

\* A merge prepares a good row, from a good row or as the first.
LEMMA FieldsMerge ==
    ASSUME MergeTypes, MergedRows, MergedFields, NEW b \in Batches, Merge(b), Told'
    PROVE  MergedFields'
<1>1. PICK j, ver, row, times :
         /\ Becomes(b, j) /\ Merges(b, j, ver, row, times)
         /\ \/ FirstRow(b, j, ver, row, times)
            \/ \E d \in Newest : MergedRow(b, j, ver, row, times, d)
      BY MergeDoes
<1>2. /\ record = "merged" /\ job[b].pc = "waiting" /\ lock = 0 /\ utc' = utc
           /\ content' = content
      /\ table' = table /\ sentAt' = sentAt /\ past'.legacy = past.legacy
      /\ past'.implied = FALSE /\ past.implied = FALSE /\ past.purges = 0 /\ utc
      BY MergeDoes DEF Same, Told
<1>3. /\ Freshest /\ Kept /\ Locked
      /\ \A d \in Visible : GoodRow(table[d].row, Done)
      /\ TimesTell
      BY <1>2 DEF MergedRows, MergedFields, Told
<1>4. /\ content \in [Batches -> Contents] /\ table \in Tables
      BY DEF MergeTypes, Tables
<1>5. b \notin Done /\ Done \in SUBSET Batches
      BY <1>2 DEF Done
<1>6. /\ j.pc = "resolved" /\ j.row = Enriched(row) /\ j.times = times
      BY <1>1 DEF Merges
<1>7. /\ Done' = Done /\ job'[b] = j
      /\ \A c \in Batches : c # b => (Running(c)' <=> Running(c))
      BY <1>1, <1>5, <1>6, JobsAfter DEF Becomes
<1>8. \A c \in Batches : Running(c)' => c = b
      BY <1>2, <1>3, <1>7, BatchNumbers DEF Locked
<1>9. GoodRow(j.row, Done \cup {b}) /\ TimesOk(j.times, Done \cup {b})
  <2>1. CASE FirstRow(b, j, ver, row, times)
    <3>1. Visible = {} /\ row = Incoming(b) /\ times = [f \in Fields |-> Sent(b, f)]
          BY <2>1 DEF FirstRow
    <3>2. Done = {}
          BY <1>3, <3>1 DEF Freshest, Kept
    <3>3. Done \cup {b} = {b}
          BY <3>2
    <3> QED BY <1>4, <1>6, <3>1, <3>3, FirstIsGood
  <2>2. ASSUME NEW d \in Newest, MergedRow(b, j, ver, row, times, d)
        PROVE  GoodRow(j.row, Done \cup {b}) /\ TimesOk(j.times, Done \cup {b})
    <3>1. PICK stored, s : stored = table[d] /\ s = StoredSentAt(b, stored, sentAt)
          OBVIOUS
    <3>2. /\ row = Merged(b, stored, sentAt).row /\ times = Merged(b, stored, sentAt).times
          /\ s \in [Fields -> Int]
          /\ ~(sentAt = NoTimes /\ stored.ver \notin {b, past.legacy})
          BY <1>2, <2>2, <3>1 DEF MergedRow
    <3>3. d \in Visible /\ stored.ver \in Batches /\ GoodRow(stored.row, Done)
          BY <1>3, <1>4, <3>1, Entries DEF Newest
    <3>4. TimesFit(s, b, Done)
          BY <1>3, <1>5, <3>1, <3>2, <3>3, TimesFitThen
    <3>5. /\ GoodRow(Enriched(Merged(b, stored, sentAt).row), Done \cup {b})
          /\ TimesOk(Merged(b, stored, sentAt).times, Done \cup {b})
          BY <1>4, <1>5, <3>1, <3>3, <3>4, MergedIsGood
    <3> QED BY <1>6, <3>2, <3>5
  <2> QED BY <1>1, <2>1, <2>2
<1>10. GoodRow(j.row, Done \cup {b})' /\ TimesOk(j.times, Done \cup {b})'
       BY <1>2, <1>7, <1>9, GoodStays
<1>11. \A d \in Visible' : GoodRow(table[d].row, Done)'
       BY <1>2, <1>3, <1>7, GoodStays DEF Visible
<1>12. TimesTell'
       BY <1>2, <1>3, <1>7, GoodStays DEF TimesTell
<1> QED BY <1>5, <1>7, <1>8, <1>10, <1>11, <1>12 DEF MergedFields

\* Its row becomes the visible one: it is good for the batches done, so for fewer too.
LEMMA FieldsWrite ==
    ASSUME MergeTypes, MergedRows, MergedFields, NEW b \in Batches, WriteRow(b), Told'
    PROVE  MergedFields'
<1>1. /\ job[b].pc = "resolved" /\ job[b] \in Work /\ Running(b)
      /\ record' = record /\ utc' = utc /\ content' = content /\ sentAt' = sentAt /\ past' = past
      /\ lock' = lock /\ Moves(b, "written")
      BY WriteDoes DEF Same
<1>2. PICK j \in Work :
         /\ Becomes(b, j) /\ j.pc = "written" /\ j.row = job[b].row /\ j.times = job[b].times
      BY <1>1 DEF Moves
<1>3. Told /\ record = "merged"
      BY <1>1 DEF Told
<1>4. /\ Locked /\ \A d \in Visible : GoodRow(table[d].row, Done)
      /\ TimesTell /\ b \notin Done
      /\ GoodRow(job[b].row, Done \cup {b}) /\ TimesOk(job[b].times, Done \cup {b})
      BY <1>1, <1>3 DEF MergedRows, MergedFields
<1>5. /\ Done' = Done /\ job'[b] = j
      /\ \A c \in Batches : c # b => (Running(c)' <=> Running(c))
      BY <1>2, <1>4, JobsAfter DEF Becomes
<1>6. \A c \in Batches : Running(c)' => c = b
      BY <1>1, <1>4, <1>5 DEF Locked
<1>7. PICK day, row : day = job[b].row.day /\ row = job[b].row
      OBVIOUS
<1>8. day \in Days
      BY <1>1, <1>7, WorkParts
<1>9. \A d \in Visible' : (d \in Visible /\ table'[d] = table[d]) \/ table'[d].row = row
  <2>1. /\ \A d \in Days : d # day => table'[d] = table[d]
        /\ job[b].write = FALSE => table' = table
        /\ job[b].write = TRUE => Puts(table, table', day, job[b].ver, FALSE, row)
        BY <1>7, WriteDoes
  <2>2. job[b].write = TRUE \/ job[b].write = FALSE
        BY <1>1, WorkParts
  <2>3. table'[day] = table[day] \/ table'[day].row = row
        BY <2>1, <2>2 DEF Puts
  <2> QED BY <1>8, <2>1, <2>3 DEF Visible
<1>10. GoodRow(row, Done)
       BY <1>4, <1>7, FineForFewer
<1>11. \A d \in Visible' : GoodRow(table'[d].row, Done)
       BY <1>4, <1>9, <1>10
<1>12. \A r, D : GoodRow(r, D)' <=> GoodRow(r, D)
       BY <1>1, GoodStays
<1>13. \A d \in Visible' : GoodRow(table[d].row, Done)'
       BY <1>5, <1>11, <1>12
<1>14. TimesTell'
       BY <1>1, <1>4, <1>5, GoodStays DEF TimesTell
<1>15. GoodRow(j.row, Done \cup {b})' /\ TimesOk(j.times, Done \cup {b})'
       BY <1>1, <1>2, <1>4, <1>5, GoodStays
<1> QED BY <1>4, <1>5, <1>6, <1>13, <1>14, <1>15 DEF MergedFields

\* Nothing visible changes but the days that are deleted.
LEMMA FieldsDelete ==
    ASSUME MergeTypes, MergedRows, MergedFields, NEW b \in Batches, DeleteMoved(b), Told'
    PROVE  MergedFields'
<1>1. /\ job[b].pc = "written" /\ job[b] \in Work /\ Running(b)
      /\ record' = record /\ utc' = utc /\ content' = content /\ sentAt' = sentAt /\ past' = past
      /\ lock' = lock /\ (record = "merged" => Moves(b, "cleaned"))
      BY DeleteDoes DEF Same
<1>2. Told /\ record = "merged"
      BY <1>1 DEF Told
<1>3. PICK j \in Work :
         /\ Becomes(b, j) /\ j.pc = "cleaned" /\ j.row = job[b].row /\ j.times = job[b].times
      BY <1>1, <1>2 DEF Moves
<1>4. /\ Locked /\ \A d \in Visible : GoodRow(table[d].row, Done)
      /\ TimesTell /\ b \notin Done
      /\ GoodRow(job[b].row, Done \cup {b}) /\ TimesOk(job[b].times, Done \cup {b})
      BY <1>1, <1>2 DEF MergedRows, MergedFields
<1>5. /\ Done' = Done /\ job'[b] = j
      /\ \A c \in Batches : c # b => (Running(c)' <=> Running(c))
      BY <1>3, <1>4, JobsAfter DEF Becomes
<1>6. \A c \in Batches : Running(c)' => c = b
      BY <1>1, <1>4, <1>5 DEF Locked
<1>7. \A d \in Visible' : d \in Visible /\ table'[d] = table[d]
  <2>1. ASSUME NEW d \in Visible'
        PROVE  table'[d] = table[d]
    <3>1. d \in Days /\ ~table'[d].gone
          BY DEF Visible
    <3>2. CASE d \in job[b].drop
      <4>1. Puts(table, table', d, job[b].ver, TRUE, job[b].row)
            BY <3>2, DeleteDoes
      <4>2. CASE job[b].ver >= table[d].ver
        <5>1. table'[d] = [ver |-> job[b].ver, gone |-> TRUE, row |-> job[b].row]
              BY <4>1, <4>2 DEF Puts
        <5> QED BY <3>1, <5>1
      <4>3. CASE ~(job[b].ver >= table[d].ver)
            BY <4>1, <4>3 DEF Puts
      <4> QED BY <4>2, <4>3
    <3>3. CASE d \notin job[b].drop
          BY <3>1, <3>3, DeleteDoes
    <3> QED BY <3>2, <3>3
  <2> QED BY <2>1 DEF Visible
<1>8. \A d \in Visible' : GoodRow(table'[d].row, Done)
      BY <1>4, <1>7
<1>9. \A r, D : GoodRow(r, D)' <=> GoodRow(r, D)
      BY <1>1, GoodStays
<1>10. \A d \in Visible' : GoodRow(table[d].row, Done)'
       BY <1>5, <1>8, <1>9
<1>11. TimesTell'
       BY <1>1, <1>4, <1>5, GoodStays DEF TimesTell
<1>12. GoodRow(j.row, Done \cup {b})' /\ TimesOk(j.times, Done \cup {b})'
       BY <1>1, <1>3, <1>4, <1>5, GoodStays
<1> QED BY <1>4, <1>5, <1>6, <1>10, <1>11, <1>12 DEF MergedFields

\* The batch is done, and the times recorded are those of its merge.
LEMMA FieldsRecord ==
    ASSUME MergeTypes, MergedRows, MergedFields, NEW b \in Batches, RecordTimes(b), Told'
    PROVE  MergedFields'
<1>1. /\ job[b].pc = "cleaned" /\ job[b] \in Work /\ Running(b)
      /\ record' = record /\ utc' = utc /\ content' = content /\ table' = table /\ past' = past
      /\ sentAt' = job[b].times /\ Becomes(b, [pc |-> "done"])
      BY RecordDoes DEF Same
<1>2. Told /\ record = "merged" /\ utc
      BY <1>1 DEF Told
<1>3. /\ Locked /\ JobStands(b)
      /\ GoodRow(job[b].row, Done \cup {b}) /\ TimesOk(job[b].times, Done \cup {b})
      BY <1>1, <1>2 DEF MergedRows, MergedFields
<1>4. /\ Done' = Done \cup {b} /\ ~Running(b)'
      /\ \A c \in Batches : c # b => (Running(c)' <=> Running(c))
      BY <1>1, JobsAfter
<1>5. \A c \in Batches : ~Running(c)'
      BY <1>1, <1>3, <1>4 DEF Locked
<1>6. PICK day, row : day = job[b].row.day /\ row = job[b].row
      OBVIOUS
<1>7. Visible = {day} /\ table[day].row = row
      BY <1>1, <1>2, <1>3, <1>6 DEF JobStands, Underway, StoredAs
<1>8. Visible' = Visible
      BY <1>1 DEF Visible
<1>9. \A r, D : GoodRow(r, D)' <=> GoodRow(r, D)
      BY <1>1, GoodStays
<1>10. \A d \in Visible' : GoodRow(table'[d].row, Done')
       BY <1>1, <1>3, <1>4, <1>6, <1>7, <1>8
<1>11. \A d \in Visible' : GoodRow(table[d].row, Done)'
       BY <1>9, <1>10
<1>12. TimesTell'
  <2>1. sentAt' # NoTimes
    <3>1. sentAt'["time"] \in Nat /\ NoTimes["time"] = -1
          BY <1>1, <1>3 DEF TimesOk, NoTimes, Fields
    <3> QED BY <3>1
  <2>2. TimesOk(sentAt, Done)'
        BY <1>1, <1>3, <1>4, GoodStays
  <2> QED BY <2>1, <2>2 DEF TimesTell, NoTimes
<1> QED BY <1>5, <1>11, <1>12 DEF MergedFields

\* The batch is not done: its row is good for those that are.
LEMMA FieldsFail ==
    ASSUME MergeTypes, MergedRows, MergedFields, NEW b \in Batches, Fail(b), Told'
    PROVE  MergedFields'
<1>1. /\ Running(b) /\ record' = record /\ utc' = utc /\ content' = content /\ table' = table
      /\ sentAt' = sentAt /\ PastSame /\ Becomes(b, IdleJob) /\ IdleJob.pc = "waiting"
      BY FailDoes DEF Same, IdleJob
<1>2. Told /\ record = "merged"
      BY <1>1 DEF Told, PastSame
<1>3. /\ Locked /\ \A d \in Visible : GoodRow(table[d].row, Done)
      /\ TimesTell /\ b \notin Done
      BY <1>1, <1>2 DEF MergedRows, MergedFields
<1>4. /\ Done' = Done /\ ~Running(b)'
      /\ \A c \in Batches : c # b => (Running(c)' <=> Running(c))
      BY <1>1, <1>3, JobsAfter
<1>5. \A c \in Batches : ~Running(c)'
      BY <1>1, <1>3, <1>4 DEF Locked
<1>6. \A d \in Visible' : GoodRow(table[d].row, Done)'
      BY <1>1, <1>3, <1>4, GoodStays DEF Visible
<1>7. TimesTell'
      BY <1>1, <1>3, <1>4, GoodStays DEF TimesTell, PastSame
<1> QED BY <1>5, <1>6, <1>7 DEF MergedFields

\* Every step keeps the fields of a merged record.
LEMMA MergedFieldsKept ==
    ASSUME MergeTypes, MergedRows, MergedFields, [MergeNext]_mergeVars
    PROVE  MergedFields'
<1>1. CASE ~Told'
      BY <1>1 DEF MergedFields
<1>2. CASE Told'
  <2>1. ASSUME NEW b \in Batches, Resolve(b)
        PROVE  FALSE
        BY <1>2, <2>1, ResolveDoes DEF Told, Same
  <2>2. CASE Purge
        BY <1>2, <2>2, PurgeDoes DEF Told
  <2>3. CASE UNCHANGED mergeVars
    <3>1. /\ content' = content /\ table' = table /\ job' = job /\ sentAt' = sentAt
          /\ past' = past /\ Told
          BY <1>2, <2>3 DEF mergeVars, Told
    <3>2. /\ \A d \in Visible : GoodRow(table[d].row, Done)
          /\ TimesTell
          /\ \A b \in Batches : Running(b) =>
                /\ b \notin Done
                /\ GoodRow(job[b].row, Done \cup {b}) /\ TimesOk(job[b].times, Done \cup {b})
          BY <3>1 DEF MergedFields
    <3>3. /\ Done' = Done /\ Visible' = Visible
          /\ \A b \in Batches : Running(b)' <=> Running(b)
          BY <3>1 DEF Done, Visible, Running
    <3>4. TimesTell'
          BY <3>1, <3>2, <3>3, GoodStays DEF TimesTell
    <3>5. \A d \in Visible' : GoodRow(table[d].row, Done)'
          BY <3>1, <3>2, <3>3, GoodStays
    <3>6. ASSUME NEW b \in Batches, Running(b)'
          PROVE  /\ b \notin Done'
                 /\ GoodRow(job[b].row, Done \cup {b})' /\ TimesOk(job[b].times, Done \cup {b})'
          BY <3>1, <3>2, <3>3, <3>6, GoodStays
    <3> QED BY <3>4, <3>5, <3>6 DEF MergedFields
  <2> QED BY <1>2, <2>1, <2>2, <2>3, FieldsMerge, FieldsWrite, FieldsDelete, FieldsRecord,
             FieldsFail DEF MergeNext
<1> QED BY <1>1, <1>2

-----------------------------------------------------------------------------
\* The theorems.

\* The inductive invariant holds at first, whether or not a row was stored before field
\* times were recorded.
LEMMA MergeInitInv ==
    ASSUME MergeInit
    PROVE  MergeInv
<1>1. PICK legacy \in {0, 1} :
         /\ past = [overlap |-> FALSE, implied |-> FALSE, legacy |-> legacy,
                    failures |-> 0, purges |-> 0]
         /\ job = [b \in Batches |-> IF b = legacy THEN [pc |-> "done"] ELSE IdleJob]
         /\ table = IF legacy = 1
                    THEN Put([d \in Days |-> NoStored], content[1].day, 1, FALSE,
                             Enriched(Incoming(1)))
                    ELSE [d \in Days |-> NoStored]
      BY DEF MergeInit
<1>2. /\ record \in {"merged", "whole"} /\ utc \in BOOLEAN
      /\ content \in [Batches -> Contents] /\ sentAt = NoTimes /\ lock = 0
      BY DEF MergeInit
<1>3. 1 \in Batches /\ MaxBatches >= 1 /\ \A b \in Batches : b \in Nat /\ b >= 1
      BY MergeAssumption DEF Batches
<1>4. /\ past \in Pasts /\ past.legacy = legacy /\ past.overlap = FALSE
      /\ sentAt \in [Fields -> Int]
      BY <1>1, <1>2 DEF Pasts, NoTimes
<1>5. job \in [Batches -> Jobs]
      BY <1>1 DEF Jobs
<1>6. \A b \in Batches : ~Running(b)
      BY <1>1 DEF Running, IdleJob
<1>7. Done = {legacy} \cap Batches
      BY <1>1 DEF Done, IdleJob
<1>8. PICK none : none = [d \in Days |-> NoStored]
      OBVIOUS
<1>9. none \in Tables /\ NoStored.ver = 0 /\ \A d \in Days : none[d] = NoStored
      BY <1>8 DEF Tables, NoStored
<1>10. TimesTell
       BY <1>2, <1>4, <1>7 DEF TimesTell
<1>11. CASE legacy = 0
  <2>1. table = none /\ Done = {}
        BY <1>1, <1>3, <1>7, <1>8, <1>11
  <2>2. Visible = {}
        BY <1>9, <2>1 DEF Visible
  <2>3. Settled => FALSE
        BY <1>3, <2>1 DEF Settled, Done
  <2>4. MergeTypes
        BY <1>2, <1>4, <1>5, <1>9, <2>1 DEF MergeTypes, Tables
  <2>5. MergedRows
        BY <1>2, <1>6, <1>8, <2>1, <2>3 DEF MergedRows, Locked, Freshest, Kept
  <2>6. MergedFields
        BY <1>6, <1>10, <2>2 DEF MergedFields
  <2>7. FinalIn => FALSE
        BY <1>6, <2>1, TheFinal, <1>2 DEF FinalIn
  <2>8. WholeRows
        BY <1>2, <1>6, <2>1, <2>2, <2>7 DEF WholeRows
  <2> QED BY <2>4, <2>5, <2>6, <2>8 DEF MergeInv
<1>12. CASE legacy = 1
  <2>1. PICK day, row : day = content[1].day /\ row = Enriched(Incoming(1))
        OBVIOUS
  <2>2. /\ row \in Rows /\ day \in Days /\ row.day = day /\ row.time = 1 /\ GoodRow(row, {1})
        BY <1>2, <1>3, <2>1, FirstIsGood, SendsFields
  <2>3. table = Put(none, day, 1, FALSE, row)
        BY <1>1, <1>8, <1>12, <2>1
  <2>4. /\ table \in Tables /\ Puts(none, table, day, 1, FALSE, row)
        /\ \A d \in Days : d # day => table[d] = NoStored
    <3>1. FALSE \in BOOLEAN
          OBVIOUS
    <3>2. PICK first \in Batches : first = 1
          BY <1>3
    <3>3. PICK tab : tab = Put(none, day, first, FALSE, row)
          OBVIOUS
    <3>4. /\ tab \in Tables /\ Puts(none, tab, day, first, FALSE, row)
          /\ \A d \in Days : d # day => tab[d] = none[d]
      <4>1. none \in Tables /\ day \in Days /\ row \in Rows
            BY <1>9, <2>2
      <4> QED BY <3>1, <3>3, <4>1, PutGives
    <3>5. table = tab
          BY <2>3, <3>2, <3>3
    <3> QED BY <1>9, <3>2, <3>4, <3>5
  <2>5. /\ table[day] = [ver |-> 1, gone |-> FALSE, row |-> row]
        /\ table[day].ver = 1 /\ table[day].gone = FALSE /\ table[day].row = row
        /\ table[day] # NoStored
        BY <1>9, <2>2, <2>4 DEF Puts
  <2>6. Visible = {day}
        BY <2>2, <2>4, <2>5 DEF Visible
  <2>7. Done = {1}
        BY <1>3, <1>7, <1>12
  <2>8. MergeTypes
        BY <1>2, <1>4, <1>5, <2>4 DEF MergeTypes, Tables
  <2>9. Freshest
    <3>1. \A d \in Days : table[d].ver <= table[day].ver
          BY <1>9, <2>4, <2>5
    <3> QED BY <2>6, <3>1 DEF Freshest
  <2>10. Kept /\ Locked
         BY <1>2, <1>6, <2>2, <2>5 DEF Kept, Locked
  <2>11. MergedRows
         BY <1>6, <2>2, <2>6, <2>9, <2>10 DEF MergedRows
  <2>12. MergedFields
         BY <1>6, <1>10, <2>2, <2>5, <2>6, <2>7 DEF MergedFields
  <2>13. Final \in Done => Final = 1
         BY <2>7
  <2>14. \A d \in Visible : table[d].ver = Final => d = FinalDay /\ table[d].row.time = Final
         BY <2>1, <2>2, <2>5, <2>6 DEF FinalDay
  <2>15. FinalIn => FinalStands
    <3>1. ~Running(Final)
          BY <1>2, <1>6, TheFinal
    <3> QED BY <2>1, <2>5, <2>13, <3>1 DEF FinalIn, FinalStands, FinalDay
  <2>16. Final \in Done => FinalAlone
         BY <2>1, <2>6, <2>13 DEF FinalAlone, FinalDay
  <2>17. WholeRows
         BY <1>2, <1>6, <2>14, <2>15, <2>16 DEF WholeRows
  <2> QED BY <2>8, <2>11, <2>12, <2>17 DEF MergeInv
<1> QED BY <1>11, <1>12

\* Every step keeps the inductive invariant.
LEMMA MergeInvKept ==
    ASSUME MergeInv, [MergeNext]_mergeVars
    PROVE  MergeInv'
BY TypesKept, MergedRowsKept, MergedFieldsKept, WholeRowsKept DEF MergeInv

\* The last of the batches that send a field.
LEMMA TheLatest ==
    ASSUME MergeTypes, NEW f, NEW v, Fine(v, f, Batches)
    PROVE  /\ Senders(f) # {} => v = Latest(f)
           /\ f # "time" => v = Latest(f)
<1>1. SentBy(f, Batches) = Senders(f) /\ \A e \in Senders(f) : e \in Nat
      BY BatchNumbers DEF SentBy, Senders
<1>2. CASE Senders(f) # {}
  <2>1. v \in Senders(f) /\ \A e \in Senders(f) : e <= v
        BY <1>1, <1>2 DEF Fine
  <2>2. PICK l : l = LatestOf(Senders(f))
        OBVIOUS
  <2>3. l \in Senders(f) /\ \A e \in Senders(f) : e <= l
        BY <2>1, <2>2 DEF LatestOf
  <2>4. v = l
        BY <1>1, <2>1, <2>3
  <2> QED BY <1>2, <2>2, <2>4 DEF Latest
<1>3. CASE Senders(f) = {}
      BY <1>3 DEF Fine, Latest
<1> QED BY <1>2, <1>3

\* A row that is good for all batches has the last value sent of each field.
LEMMA GoodIsAsReceived ==
    ASSUME MergeTypes, NEW row, GoodRow(row, Batches)
    PROVE  LatestOfEachField(row)
<1>1. /\ row \in Rows /\ FineRow(row, Batches) /\ FineCost(row, Batches)
      BY DEF GoodRow
<1>2. /\ row.cost \in Costs /\ row.cost = [from |-> row.cost.from, derived |-> row.cost.derived]
      BY <1>1 DEF Rows, Costs
<1>3. /\ Senders("time") # {} => row.time = Latest("time")
      /\ row.name = Latest("name") /\ row.usage = Latest("usage")
      /\ row.metadata.from = Latest("metadata")
  <2>1. /\ Fine(row.time, "time", Batches) /\ Fine(row.name, "name", Batches)
        /\ Fine(row.usage, "usage", Batches) /\ Fine(row.metadata.from, "metadata", Batches)
        BY <1>1 DEF FineRow
  <2>2. Senders("time") # {} => row.time = Latest("time")
        BY <2>1, TheLatest
  <2>3. row.name = Latest("name")
        BY <2>1, TheLatest
  <2>4. row.usage = Latest("usage")
        BY <2>1, TheLatest
  <2>5. row.metadata.from = Latest("metadata")
        BY <2>1, TheLatest
  <2> QED BY <2>2, <2>3, <2>4, <2>5
<1>4. SentBy("cost", Batches) = Senders("cost")
      BY DEF SentBy, Senders
<1>5. CASE row.cost.derived = TRUE /\ row.metadata.label = TRUE
           /\ row.cost.from = row.usage /\ row.usage # 0 /\ content[row.usage].priced
           /\ SentBy("cost", Batches) = {}
      BY <1>2, <1>3, <1>4, <1>5 DEF LatestOfEachField, CostAsExpected
<1>6. CASE /\ row.cost.derived = FALSE /\ row.metadata.label = FALSE
           /\ Fine(row.cost.from, "cost", Batches)
           /\ row.cost.from = 0 => ~(row.usage # 0 /\ content[row.usage].priced)
  <2>1. row.cost.from = Latest("cost")
        BY <1>6, TheLatest
  <2>2. CASE Senders("cost") # {}
        BY <1>2, <1>3, <1>6, <2>1, <2>2 DEF LatestOfEachField, CostAsExpected
  <2>3. CASE Senders("cost") = {}
    <3>1. row.cost.from = 0
          BY <2>1, <2>3 DEF Latest
    <3>2. row.cost = NoCost
          BY <1>2, <1>6, <3>1 DEF NoCost
    <3> QED BY <1>3, <1>6, <2>3, <3>1, <3>2 DEF LatestOfEachField, CostAsExpected
  <2> QED BY <2>2, <2>3
<1> QED BY <1>1, <1>5, <1>6 DEF FineCost

\* The invariant says so of every settled record.
LEMMA InvIsAsReceived ==
    ASSUME MergeInv
    PROVE  MergedAsReceived
<1>1. MergeTypes /\ MergedFields
      BY DEF MergeInv
<1>2. SUFFICES ASSUME Settled, record = "merged", utc, ~past.implied, past.purges = 0,
                      NEW d \in Visible
               PROVE  LatestOfEachField(table[d].row)
      BY DEF MergedAsReceived
<1>3. Told /\ Done = Batches
      BY <1>1, <1>2 DEF Told, Done, Settled, MergeTypes, Pasts
<1>4. GoodRow(table[d].row, Batches)
      BY <1>1, <1>3 DEF MergedFields
<1> QED BY <1>1, <1>4, GoodIsAsReceived

\* The invariant leaves a settled record one visible row.
LEMMA InvIsOneRow ==
    ASSUME MergeInv
    PROVE  OneRow
<1>1. MergeTypes /\ MergedRows /\ WholeRows
      BY DEF MergeInv
<1>2. SUFFICES ASSUME Settled
               PROVE  /\ Visible # {}
                      /\ utc /\ ~past.overlap => Cardinality(Visible) = 1
                      /\ record = "whole" =>
                             \A d \in Newest : table[d].ver = MaxBatches
                               /\ table[d].row.time = MaxBatches
      BY DEF OneRow
<1>3. /\ Final \in Batches /\ Final \in Nat /\ FinalDay \in Days /\ Final = MaxBatches
           /\ Final # 0
      BY <1>1, TheFinal, BatchNumbers DEF MergeTypes, Final
<1>4. Final \in Done
      BY <1>2, <1>3 DEF Done, Settled
<1>5. \A d : Cardinality({d}) = 1
      BY FS_Singleton
<1>6. CASE record = "merged"
  <2>1. Visible # {}
    <3>1. Freshest /\ Kept
          BY <1>1, <1>6 DEF MergedRows
    <3> QED BY <1>4, <3>1 DEF Freshest, Kept
  <2>2. utc => \E d \in Days : Visible = {d}
        BY <1>1, <1>2, <1>6 DEF MergedRows
  <2> QED BY <1>5, <1>6, <2>1, <2>2
<1>7. CASE record = "whole"
  <2>1. FinalStands /\ FinalAlone
        BY <1>1, <1>4, <1>7 DEF WholeRows, FinalIn
  <2>2. table \in Tables
        BY <1>1 DEF MergeTypes, Tables
  <2>3. table[FinalDay] # NoStored
        BY <1>3, <2>1, <2>2, Entries DEF FinalStands
  <2>4. FinalDay \in Visible
        BY <1>3, <2>1, <2>3 DEF FinalStands, Visible
  <2>5. utc /\ ~past.overlap => Visible = {FinalDay}
        BY <1>1, <2>1 DEF FinalAlone, MergeTypes, Pasts
  <2>6. ASSUME NEW d \in Newest
        PROVE  table[d].ver = MaxBatches /\ table[d].row.time = MaxBatches
    <3>1. d \in Visible /\ d \in Days /\ table[FinalDay].ver <= table[d].ver
          BY <2>4 DEF Newest, Visible
    <3>2. table[d].ver \in Nat /\ table[d].ver <= MaxBatches
          BY <2>2, <3>1, Entries
    <3>3. table[d].ver = Final
          BY <1>3, <2>1, <3>1, <3>2 DEF FinalStands
    <3> QED BY <1>1, <1>3, <1>7, <3>1, <3>3 DEF WholeRows
  <2> QED BY <1>5, <2>4, <2>5, <2>6
<1> QED BY <1>1, <1>6, <1>7 DEF MergeTypes

\* Whatever the order in which the batches of a record are merged, with failed attempts and
\* retries between, a settled record has of every field the value that was sent last: as if
\* they had been merged in the order received (mergeByRecency, mergeObservationByRecency).
THEOREM MergedAsTheyCame == MergeSpec => []MergedAsReceived
<1>1. MergeInit => MergeInv
      BY MergeInitInv
<1>2. MergeInv /\ [MergeNext]_mergeVars => MergeInv'
      BY MergeInvKept
<1>3. MergeInv => MergedAsReceived
      BY InvIsAsReceived
<1> QED BY <1>1, <1>2, <1>3, PTL DEF MergeSpec

\* A settled record has one visible row, on whatever days its batches put it: of a merged
\* record always, of a whole row unless two of its jobs overlapped (deleteMovedRows).
THEOREM OneRowIsLeft == MergeSpec => []OneRow
<1>1. MergeInit => MergeInv
      BY MergeInitInv
<1>2. MergeInv /\ [MergeNext]_mergeVars => MergeInv'
      BY MergeInvKept
<1>3. MergeInv => OneRow
      BY InvIsOneRow
<1> QED BY <1>1, <1>2, <1>3, PTL DEF MergeSpec

=============================================================================
