----------------------------- MODULE EventBatcher -----------------------------
(***************************************************************************)
(* The SDK's queue: the application's calls put events into a buffer; a    *)
(* timer, a full buffer, flush() and close() claim it; the claimed batches *)
(* are sent one after the other, with retries, until close() gives up.     *)
(* JavaScript runs each piece between two awaits without interruption, the *)
(* error hook included, which may itself record an event.                  *)
(***************************************************************************)
EXTENDS Integers, Sequences, FiniteSets, SequencesExt

CONSTANTS
    MaxEvents,          \* bound on events: event n is the n-th version of one trace
    MaxBatchSize,       \* maxBatchSize
    MaxQueuedEvents,    \* maxQueuedEvents
    MaxRetries,         \* maxRetries
    HookRecords         \* a subset of BOOLEAN: whether onError records an event

ASSUME BatcherAssumption ==
    /\ {MaxEvents, MaxRetries} \subseteq Nat /\ HookRecords \subseteq BOOLEAN
    /\ {MaxBatchSize, MaxQueuedEvents} \subseteq Nat \ {0}

VARIABLES
    queue,      \* the fields of the batcher, and what became of each event
    hook,       \* whether onError records an event
    sending,    \* send(): the attempt that runs, and whether the server took it
    flushing,   \* a call of flush(): the batches and the events it waits for
    closing,    \* the call of close(), and whether its timeout has expired
    server      \* what it took, the last version it stored, and a batch that was
                \* given up on its way there and may arrive yet

batcherVars == <<queue, hook, sending, flushing, closing, server>>

NotSending == [pc |-> "idle", attempt |-> 0, took |-> FALSE]
NoCall == [pc |-> "idle", upto |-> 0, events |-> {}]

BatcherInit ==
    /\ queue = [next |-> 1, closed |-> FALSE, buffer |-> <<>>, queued |-> 0, dropped |-> <<>>,
                chain |-> <<>>, claimed |-> 0,
                sent |-> {}, reported |-> {}, ignored |-> {}, reports |-> 0]
    /\ hook \in HookRecords
    /\ sending = NotSending
    /\ flushing = NoCall
    /\ closing = [pc |-> "open", upto |-> 0, aborted |-> FALSE]
    /\ server = [took |-> {}, last |-> 0, lost |-> <<>>]

-----------------------------------------------------------------------------
\* The synchronous pieces, as functions of the queue.

\* The buffer becomes a batch at the end of the chain.
Claimed(q) ==
    IF q.buffer = <<>> THEN q
    ELSE [q EXCEPT !.buffer = <<>>, !.queued = @ + Len(q.buffer),
                   !.chain = Append(@, q.buffer), !.claimed = @ + 1]

Told(q, events) == [q EXCEPT !.reported = @ \cup Range(events), !.reports = @ + Len(events)]
ToldDropped(q) == [Told(q, q.dropped) EXCEPT !.dropped = <<>>]

\* enqueue, up to the claim of a buffer that it filled.
Pushed(q) ==
    CASE q.closed -> [q EXCEPT !.ignored = @ \cup {q.next}, !.next = @ + 1]
      [] ~q.closed /\ Len(q.buffer) + q.queued >= MaxQueuedEvents ->
            [q EXCEPT !.dropped = Append(@, q.next), !.next = @ + 1]
      [] OTHER -> [q EXCEPT !.buffer = Append(@, q.next), !.next = @ + 1]
IsFull(q) == Len(q.buffer) >= MaxBatchSize

\* report: the hook records at most one event of its own in each piece.
Report(q, events) ==
    LET told == Told(q, events)
        pushed == Pushed(told)
    IN  IF ~hook \/ told.next > MaxEvents THEN told
        ELSE IF IsFull(pushed) THEN Claimed(ToldDropped(pushed)) ELSE pushed

ClaimBuffer(q) ==
    Claimed(IF q.dropped = <<>> THEN q ELSE Report([q EXCEPT !.dropped = <<>>], q.dropped))

-----------------------------------------------------------------------------
\* The application and the timer.

Enqueue ==
    /\ queue.next <= MaxEvents
    /\ LET pushed == Pushed(queue) IN
       queue' = IF IsFull(pushed) THEN ClaimBuffer(pushed) ELSE pushed
    /\ UNCHANGED <<hook, sending, flushing, closing, server>>

TimerFires ==
    /\ ~queue.closed /\ queue' = ClaimBuffer(queue)
    /\ UNCHANGED <<hook, sending, flushing, closing, server>>

Settled == queue.claimed - Len(queue.chain)

\* flush: it waits for the batches claimed by now, or for its timeout.
Flush ==
    /\ flushing.pc # "waiting"
    /\ queue' = ClaimBuffer(queue)
    /\ flushing' = [pc |-> "waiting", upto |-> queue'.claimed, events |-> 1 .. queue.next - 1]
    /\ UNCHANGED <<hook, sending, closing, server>>

FlushReturns ==
    /\ flushing.pc = "waiting" /\ Settled >= flushing.upto
    /\ flushing' = [flushing EXCEPT !.pc = "returned"]
    /\ UNCHANGED <<queue, hook, sending, closing, server>>

FlushTimesOut ==
    /\ flushing.pc = "waiting" /\ flushing' = NoCall
    /\ UNCHANGED <<queue, hook, sending, closing, server>>

\* close: nothing is accepted any more, and the timer is cleared.
Close ==
    /\ closing.pc = "open"
    /\ queue' = ClaimBuffer([queue EXCEPT !.closed = TRUE])
    /\ closing' = [closing EXCEPT !.pc = "waiting", !.upto = queue'.claimed]
    /\ UNCHANGED <<hook, sending, flushing, server>>

\* shutdownTimeoutMs: the request in flight and the retry wait are cancelled.
CloseTimesOut ==
    /\ closing.pc = "waiting" /\ ~closing.aborted
    /\ closing' = [closing EXCEPT !.aborted = TRUE]
    /\ UNCHANGED <<queue, hook, sending, flushing, server>>

\* Seeded bug: close returns when it finds the buffer empty.
CloseReturnsEarly ==
    /\ closing.pc = "waiting" /\ queue.buffer = <<>>
    /\ closing' = [closing EXCEPT !.pc = "returned"]
    /\ UNCHANGED <<queue, hook, sending, flushing, server>>

CloseReturns ==
    /\ closing.pc = "waiting" /\ Settled >= closing.upto
    /\ closing' = [closing EXCEPT !.pc = "returned"]
    /\ UNCHANGED <<queue, hook, sending, flushing, server>>

-----------------------------------------------------------------------------
\* send: the first batch of the chain.

BeginSend ==
    /\ sending.pc = "idle" /\ queue.chain # <<>>
    /\ sending' = [NotSending EXCEPT !.pc = "request"]
    /\ UNCHANGED <<queue, hook, flushing, closing, server>>

\* The batch's events replace one another's row in their order.
Stores(batch, lost) ==
    server' = [took |-> server.took \cup Range(batch), last |-> Last(batch), lost |-> lost]

\* The server takes the request, at most once, while it is in flight.
ServerTakes ==
    /\ sending.pc = "request" /\ ~sending.took
    /\ sending' = [sending EXCEPT !.took = TRUE]
    /\ Stores(Head(queue.chain), server.lost)
    /\ UNCHANGED <<queue, hook, flushing, closing>>

\* The client gives up a request that the server has not taken: it never gets
\* there, or is the one that may arrive yet.
Abandoned ==
    \/ UNCHANGED server
    \/ ~sending.took /\ server' = [took |-> server.took, last |-> server.last,
                                   lost |-> Head(queue.chain)]

\* The server takes a request that the client gave up, behind whatever it took
\* of the retries and of later batches.
ArrivesLate ==
    /\ server.lost # <<>> /\ Stores(server.lost, <<>>)
    /\ UNCHANGED <<queue, hook, sending, flushing, closing>>

\* The finally of send: the batch no longer counts as queued.
Settle(q) == [q EXCEPT !.chain = Tail(@), !.queued = @ - Len(Head(q.chain))]

\* Seeded bug: a batch that is given up still counts as queued.
GiveUpCounted(q) == [Report(q, Head(q.chain)) EXCEPT !.chain = Tail(@)]

\* The batch is reported, the hook's own event queued, and then it is done.
GiveUp(q) == Settle(Report(q, Head(q.chain)))

\* attempt's outcome: sent; rejected for good; or to be retried: the network
\* failed, whether or not the server took it, or said 408, 429 or 5xx.
Sent ==
    /\ sending.pc = "request" /\ sending.took
    /\ sending' = NotSending
    /\ queue' = [Settle(queue) EXCEPT !.sent = @ \cup Range(Head(queue.chain))]
    /\ UNCHANGED <<hook, flushing, closing, server>>

Rejected ==
    /\ sending.pc = "request" /\ ~sending.took
    /\ sending' = NotSending /\ queue' = GiveUp(queue)
    /\ UNCHANGED <<hook, flushing, closing, server>>

Fails ==
    /\ sending.pc = "request" /\ ~closing.aborted
    /\ IF sending.attempt >= MaxRetries THEN sending' = NotSending /\ queue' = GiveUp(queue)
       ELSE sending' = [sending EXCEPT !.pc = "wait"] /\ UNCHANGED queue
    /\ Abandoned
    /\ UNCHANGED <<hook, flushing, closing>>

\* Seeded bug: the request in flight does not know of close()'s timeout.
NeverAborted ==
    /\ sending.pc = "request" /\ closing.aborted /\ sending.took
    /\ sending' = NotSending /\ queue' = GiveUp(queue)
    /\ UNCHANGED <<hook, flushing, closing, server>>

\* A request that close()'s timeout cancels, or that begins after it.
Aborted ==
    /\ sending.pc = "request" /\ closing.aborted
    /\ sending' = NotSending /\ queue' = GiveUp(queue)
    /\ Abandoned
    /\ UNCHANGED <<hook, flushing, closing>>

\* Seeded bug: a batch that is tried again goes behind the others.
WaitEndsBehind ==
    /\ sending.pc = "wait" /\ sending' = NotSending
    /\ queue' = IF closing.aborted THEN GiveUp(queue)
                ELSE [queue EXCEPT !.chain = Append(Tail(@), Head(@))]
    /\ UNCHANGED <<hook, flushing, closing, server>>

\* wait: the retry, or its end with close()'s timeout.
WaitEnds ==
    /\ sending.pc = "wait"
    /\ IF closing.aborted THEN sending' = NotSending /\ queue' = GiveUp(queue)
       ELSE /\ sending' = [pc |-> "request", attempt |-> sending.attempt + 1, took |-> FALSE]
            /\ UNCHANGED queue
    /\ UNCHANGED <<hook, flushing, closing, server>>

-----------------------------------------------------------------------------
BatcherNext ==
    \/ Enqueue \/ TimerFires \/ Flush \/ FlushReturns \/ FlushTimesOut
    \/ Close \/ CloseTimesOut \/ CloseReturns
    \/ BeginSend \/ ServerTakes \/ ArrivesLate \/ Sent \/ Rejected \/ Fails \/ Aborted \/ WaitEnds

BatcherSpec == BatcherInit /\ [][BatcherNext]_batcherVars

-----------------------------------------------------------------------------
InChain == UNION {Range(queue.chain[i]) : i \in DOMAIN queue.chain}
Places == <<Range(queue.buffer), InChain, Range(queue.dropped),
            queue.sent, queue.reported, queue.ignored>>

BatcherTypeOK ==
    /\ queue.next \in 1 .. MaxEvents + 1 /\ Len(queue.buffer) < MaxBatchSize
    /\ UNION Range(Places) = 1 .. queue.next - 1
    /\ sending.attempt \in 0 .. MaxRetries /\ sending.pc \in {"idle", "request", "wait"}
    /\ sending.pc # "idle" => queue.chain # <<>>
    /\ server.took \cup Range(server.lost) \subseteq 1 .. MaxEvents

Counted ==
    /\ queue.reports = Cardinality(queue.reported)
    /\ queue.queued = Cardinality(InChain)
    /\ Len(queue.buffer) + queue.queued <= MaxQueuedEvents

ReturnedMeansDone ==
    LET done == queue.sent \cup queue.reported \cup queue.ignored
    IN  /\ closing.pc = "returned" => 1 .. queue.next - 1 \subseteq done
        /\ flushing.pc = "returned" => flushing.events \subseteq done

\* Every event is in one place: still to be sent, sent, reported (once), or
\* refused after close(); what counts against the queue's limit is what is in
\* it, so that a server outage never closes the queue for good; and when close()
\* returns, or flush() before its timeout, everything recorded before it was
\* sent or reported.
EachEventOnce ==
    /\ \A i, j \in DOMAIN Places : i < j => Places[i] \cap Places[j] = {}
    /\ Counted /\ ReturnedMeansDone

\* A later version of a trace is never replaced by an earlier one, whatever
\* was sent twice or claimed by whom: update() carries what trace() set.  Only
\* a request that arrives after the client gave it up may do so: nothing in the
\* SDK can call it back.
LaterVersionStays == [][ArrivesLate \/ server'.last >= server.last]_batcherVars

\* Timers expire, promises resolve, a cancelled fetch rejects; the server
\* promises nothing.
BatcherProgress == BeginSend \/ WaitEnds \/ Aborted \/ CloseTimesOut \/ CloseReturns
=============================================================================
