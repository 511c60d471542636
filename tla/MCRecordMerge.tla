--------------------------- MODULE MCRecordMerge ----------------------------
\* What the batches of an instance of RecordMerge send.
EXTENDS RecordMerge

Send(sends, day, priced) == [sends |-> sends, day |-> day, priced |-> priced]

\* A create; usage of another model, which has no price; a cost; and a partial
\* update of the metadata that moves the record to another day.
MCContents ==
    {Send({"time", "name", "usage"}, 1, TRUE), Send({"usage"}, 2, FALSE),
     Send({"cost"}, 1, TRUE), Send({"time", "metadata"}, 2, TRUE)}

\* A create, and an update of its metadata that was received a day later.
MCCreateAndUpdate == {Send({"time", "name"}, 1, FALSE), Send({"metadata"}, 2, FALSE)}
=============================================================================
