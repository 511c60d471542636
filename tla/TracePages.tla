----------------------------- MODULE TracePages -----------------------------
(***************************************************************************)
(* A reader walks a filtered trace list page by page while traces come,    *)
(* go and change: the native API by a cursor (timestamp, id), the          *)
(* LangFuse-compatible one by page numbers, in either order.  The table is *)
(* the timestamp of each trace the filter accepts, as FINAL shows it.      *)
(***************************************************************************)
EXTENDS Integers, FiniteSets

CONSTANTS
    TraceIds,       \* 1 .. n
    Clock,          \* timestamps: 1 .. n
    Styles,         \* a subset of {"cursor", "asc", "desc"}
    ListLimit,      \* the query's limit
    MaxEdits        \* bound on the changes of the table

ASSUME PagesAssumption ==
    /\ TraceIds \subseteq Nat \ {0} /\ IsFiniteSet(TraceIds) /\ Clock \subseteq Nat \ {0}
    /\ Styles \subseteq {"cursor", "asc", "desc"} /\ ListLimit \in Nat \ {0} /\ MaxEdits \in Nat

VARIABLES
    shown,          \* each trace's timestamp, 0 for one the filter does not accept
    style,          \* how the reader walks
    reader,         \* its cursor or page, the queries of the page that are out, the
                    \* total, how often it was given each trace, whether it is done
    edits,          \* how often the table changed
    touched,        \* traces that changed since the walk began
    appended        \* whether all changes were new traces later than all there

pageVars == <<shown, style, reader, edits, touched, appended>>

NoCursor == <<>>
Queries == {"rows", "total"}
PagesInit ==
    /\ shown \in [TraceIds -> Clock \cup {0}]
    /\ style \in Styles
    /\ reader = [cursor |-> NoCursor, page |-> 1, asked |-> Queries, total |-> 0,
                  given |-> [t \in TraceIds |-> 0], done |-> FALSE]
    /\ edits = 0 /\ touched = {} /\ appended = TRUE

Shown == {t \in TraceIds : shown[t] # 0}
Key(t) == <<shown[t], t>>
Below(k, l) == k[1] < l[1] \/ (k[1] = l[1] /\ k[2] < l[2])

\* A trace is stored, moved, deleted, or begins or ceases to fit the filter.
Edit(t) ==
    /\ edits < MaxEdits
    /\ \E ts \in (Clock \cup {0}) \ {shown[t]} :
          /\ shown' = [shown EXCEPT ![t] = ts]
          /\ appended' = (appended /\ shown[t] = 0 /\ \A o \in Shown : Below(Key(o), <<ts, t>>))
    /\ touched' = touched \cup {t}
    /\ edits' = edits + 1
    /\ UNCHANGED <<style, reader>>

\* How many of the list come before t, oldest or newest first.
Earlier(list, t) == Cardinality({u \in list : Below(Key(u), Key(t))})
Later(list, t) == Cardinality({u \in list : Below(Key(t), Key(u))})

Gives(page) == [t \in TraceIds |-> reader.given[t] + IF t \in page THEN 1 ELSE 0]

\* What the cursor leaves of the list.
Following == {t \in Shown : reader.cursor = NoCursor \/ Below(Key(t), reader.cursor)}

\* Seeded bug: the cursor is the key of the extra row.
CursorPageSkips ==
    LET rows == {t \in Following : Later(Following, t) < ListLimit + 1}
        extra == CHOOSE t \in rows : \A u \in rows : ~Below(Key(u), Key(t)) IN
    [reader EXCEPT !.given = Gives({t \in rows : Later(rows, t) < ListLimit}),
                   !.done = Cardinality(rows) <= ListLimit,
                   !.cursor = IF Cardinality(rows) > ListLimit THEN Key(extra) ELSE @]

\* One row more than the page shows that there is another; the cursor is the
\* key of the last row that is on the page.
CursorPage ==
    LET rows == {t \in Following : Later(Following, t) < ListLimit + 1}
        page == {t \in rows : Later(rows, t) < ListLimit}
        last == CHOOSE t \in page : \A u \in page : ~Below(Key(u), Key(t)) IN
    [reader EXCEPT !.given = Gives(page),
                   !.done = Cardinality(rows) <= ListLimit,
                   !.cursor = IF Cardinality(rows) > ListLimit THEN Key(last) ELSE @]

GetCursorPage ==
    /\ style = "cursor" /\ ~reader.done
    /\ reader' = CursorPage
    /\ UNCHANGED <<shown, style, edits, touched, appended>>

\* A numbered page is two queries at once: its rows, at an offset into the list
\* as it is then, and how many traces there are.
Place(t) == IF style = "asc" THEN Earlier(Shown, t) ELSE Later(Shown, t)
ReadRows ==
    LET offset == (reader.page - 1) * ListLimit IN
    /\ style # "cursor" /\ "rows" \in reader.asked
    /\ reader' = [reader EXCEPT !.asked = @ \ {"rows"},
           !.given = Gives({t \in Shown : offset <= Place(t) /\ Place(t) < offset + ListLimit})]
    /\ UNCHANGED <<shown, style, edits, touched, appended>>

CountRows ==
    /\ style # "cursor" /\ "total" \in reader.asked
    /\ reader' = [reader EXCEPT !.asked = @ \ {"total"}, !.total = Cardinality(Shown)]
    /\ UNCHANGED <<shown, style, edits, touched, appended>>

\* The reader asks for the next page, if there is one.
TurnPage ==
    LET last == reader.page * ListLimit >= reader.total IN
    /\ style # "cursor" /\ reader.asked = {} /\ ~reader.done
    /\ reader' = IF last THEN [reader EXCEPT !.done = TRUE]
                 ELSE [reader EXCEPT !.page = @ + 1, !.asked = Queries]
    /\ UNCHANGED <<shown, style, edits, touched, appended>>

PagesNext ==
    \/ GetCursorPage \/ ReadRows \/ CountRows \/ TurnPage
    \/ \E t \in TraceIds : Edit(t)

PagesSpec == PagesInit /\ [][PagesNext]_pageVars

(* What the state may be. *)
PagesTypeOK ==
    /\ shown \in [TraceIds -> Clock \cup {0}]
    /\ style \in Styles /\ edits \in 0 .. MaxEdits
    /\ reader.given \in [TraceIds -> Nat] /\ reader.done \in BOOLEAN
    /\ reader.asked \subseteq Queries /\ reader.total \in 0 .. Cardinality(TraceIds)
    /\ touched \subseteq TraceIds /\ appended \in BOOLEAN

(* "keyset (timestamp, id) pagination - stable under concurrent inserts"     *)
(* (queries.ts): whatever happens to other traces, one that stays as it was  *)
(* is given once, however many share its timestamp.  Page numbers promise    *)
(* that of a table that is left alone, and oldest first (as the LangFuse     *)
(* importer asks) of one that only grows at its end.                         *)
Stable == style = "cursor" \/ edits = 0 \/ (style = "asc" /\ appended)
GivenOnce ==
    Stable => \A t \in Shown \ touched :
                  reader.given[t] <= 1 /\ (reader.done => reader.given[t] = 1)
=============================================================================
