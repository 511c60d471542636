---------------------------- MODULE DurableBatch ----------------------------
(***************************************************************************)
(* What the ingest path promises for a batch, whatever stores, queues and  *)
(* processes it is made of: once its intent is durable a batch is never    *)
(* forgotten.  It ends materialised or in quarantine, only a batch that    *)
(* ended may be retired, and nothing happens to a retired batch.  A        *)
(* success response is given only for a durable batch.                     *)
(***************************************************************************)
CONSTANT Batches

VARIABLES status, acked

Statuses == {"unseen", "intended", "materialized", "quarantined", "retired"}

Init ==
    /\ status = [b \in Batches |-> "unseen"]
    /\ acked = {}

Move(b, from, to) ==
    /\ status[b] \in from
    /\ status' = [status EXCEPT ![b] = to]
    /\ UNCHANGED acked

Intend(b)      == Move(b, {"unseen"}, "intended")
\* A quarantined batch may still be materialised, by a request that is retried.
Materialize(b) == Move(b, {"intended", "quarantined"}, "materialized")
Quarantine(b)  == Move(b, {"intended"}, "quarantined")
Retire(b)      == Move(b, {"materialized", "quarantined"}, "retired")

Ack(b) ==
    /\ status[b] # "unseen"
    /\ acked' = acked \cup {b}
    /\ UNCHANGED status

Next == \E b \in Batches :
    Intend(b) \/ Materialize(b) \/ Quarantine(b) \/ Retire(b) \/ Ack(b)

Spec == Init /\ [][Next]_<<status, acked>>
=============================================================================
