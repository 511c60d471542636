------------------------------ MODULE SdkProofs ------------------------------
(***************************************************************************)
(* Proofs about the SDK: the wrappers of the provider clients              *)
(* (Instrumentation) and the queue (EventBatcher), for streams of any      *)
(* length and any number of parts, events and batches.                     *)
(*                                                                         *)
(* The wrapper: what is gathered for a part is, in their order, the chunks *)
(* of that part that were read before the end, and only the first end      *)
(* counts.                                                                 *)
(* The queue: each piece of the code that JavaScript runs without          *)
(* interruption is a function of the queue.  Each keeps the order of the   *)
(* events, the places they are in and the counts, and each only moves      *)
(* events forward, so that what a call of flush or close waits for is      *)
(* either done or in a batch it waits for.                                 *)
(***************************************************************************)
EXTENDS EventBatcher, Instrumentation, SequenceTheorems, FiniteSetTheorems, TLAPS

-----------------------------------------------------------------------------
\* The wrappers.

Lists == Seq(Nat)
Outputs == [Parts -> Lists]
Ones == Seq({1})
Hows == {"open", "error", "whole", "bare", "output"}

SdkTypes ==
    /\ call \in [pc : {"new", "pending", "responded", "streaming", "done", "failed"}, shape : ResultShapes]
    /\ generation \in [ends : Nat, how : Hows, output : Outputs]
    /\ source \in [yielded : 0 .. MaxChunks, over : {"no", "yes"}, read : Lists]
    /\ reader \in [layers : Ones, nexts : 0 .. 2, gathered : Outputs]
    /\ finished \in BOOLEAN /\ failing \in BOOLEAN /\ settled \in BOOLEAN

\* Where the call stands, and whether its generation has ended.
EndsInv ==
    /\ call.pc # "streaming" => ~finished /\ generation.how # "output" /\ reader.layers = <<>>
    /\ reader.layers = <<>> => reader.nexts = 0
    /\ source.over = "yes" => finished
    /\ generation.how = "output" => finished
    /\ call.pc \in {"new", "pending", "responded"} => generation.ends = 0 /\ ~failing /\ ~settled
    /\ call.pc = "streaming" => settled /\ ~failing
    /\ call.pc = "streaming" /\ finished => generation.ends = 1
    /\ call.pc = "streaming" /\ ~finished => generation.ends = 0
    /\ call.pc = "done" => generation.ends = 1 /\ ~failing
    /\ call.pc = "failed" /\ failing => generation.ends = 0 /\ ~settled
    /\ call.pc = "failed" /\ ~failing => generation.ends = 1

\* A list of exactly the chunks of a part that were read, in their order.
IsPart(list, p) ==
    /\ InOrder(list)
    /\ Range(list) = {chunk \in Range(source.read) : PartOf(chunk) = p}

GatherInv ==
    /\ \A n \in Range(source.read) : n < source.yielded
    /\ \A p \in Parts : InOrder(reader.gathered[p])
    /\ \A p \in Parts : \A n \in Range(reader.gathered[p]) : n < source.yielded
    /\ ~finished => \A p \in Parts : IsPart(reader.gathered[p], p)
    /\ generation.how = "output" => \A p \in Parts : IsPart(generation.output[p], p)

SdkInv == SdkTypes /\ EndsInv /\ GatherInv

\* The part of a chunk.
LEMMA PartOfRange == ASSUME NEW n \in Nat PROVE PartOf(n) \in Parts
BY InstrumentationAssumption DEF PartOf, Parts

\* One number more at the end of an ordered list.
LEMMA OneMore ==
    ASSUME NEW list \in Seq(Nat), NEW n \in Nat
    PROVE  /\ Append(list, n) \in Seq(Nat)
           /\ Range(Append(list, n)) = Range(list) \cup {n}
           /\ InOrder(list) /\ (\A m \in Range(list) : m < n) => InOrder(Append(list, n))
<1>1. /\ Append(list, n) \in Seq(Nat) /\ Len(list) \in Nat
      /\ DOMAIN list = 1 .. Len(list) /\ DOMAIN Append(list, n) = 1 .. Len(list) + 1
      /\ \A i \in DOMAIN list : Append(list, n)[i] = list[i]
      /\ Append(list, n)[Len(list) + 1] = n
      BY AppendProperties, LenProperties
<1>2. Range(Append(list, n)) = Range(list) \cup {n}
      BY <1>1 DEF Range
<1>3. ASSUME InOrder(list), \A m \in Range(list) : m < n PROVE InOrder(Append(list, n))
      <2> SUFFICES ASSUME NEW i \in 1 .. Len(list) + 1, NEW j \in 1 .. Len(list) + 1, i < j
                   PROVE  Append(list, n)[i] < Append(list, n)[j]
          BY <1>1 DEF InOrder
      <2>1. i \in DOMAIN list /\ list[i] \in Range(list)
            BY <1>1 DEF Range
      <2>2. CASE j \in DOMAIN list
            BY <1>1, <1>3, <2>1, <2>2 DEF InOrder
      <2>3. CASE j = Len(list) + 1
            BY <1>1, <1>3, <2>1, <2>3
      <2> QED BY <1>1, <2>2, <2>3
<1> QED BY <1>1, <1>2, <1>3

\* Nothing was gathered yet.
LEMMA NothingReadYet ==
    /\ Empty \in Outputs /\ <<>> \in Lists /\ <<>> \in Ones /\ Range(<<>>) = {} /\ InOrder(<<>>)
    /\ \A p \in Parts : Empty[p] = <<>>
BY EmptySeq DEF Empty, Range, InOrder, Outputs, Lists, Ones

\* The inductive invariant holds at first.
LEMMA InitSdk == SdkInit => SdkInv
<1> SUFFICES ASSUME SdkInit PROVE SdkInv
    OBVIOUS
<1> USE InstrumentationAssumption, NothingReadYet
<1>0. 0 \in 0 .. MaxChunks /\ Shapes \subseteq ResultShapes
      OBVIOUS
<1>1. SdkTypes
      <2>1. call \in [pc : {"new", "pending", "responded", "streaming", "done", "failed"}, shape : ResultShapes]
            BY <1>0 DEF SdkInit
      <2>2. generation \in [ends : Nat, how : Hows, output : Outputs]
            BY DEF SdkInit, Hows
      <2>3. source \in [yielded : 0 .. MaxChunks, over : {"no", "yes"}, read : Lists]
            BY <1>0 DEF SdkInit
      <2>4. reader \in [layers : Ones, nexts : 0 .. 2, gathered : Outputs]
            BY DEF SdkInit
      <2> QED BY <2>1, <2>2, <2>3, <2>4 DEF SdkInit, SdkTypes
<1>2. EndsInv /\ GatherInv
      BY DEF SdkInit, EndsInv, GatherInv, IsPart
<1> QED BY <1>1, <1>2 DEF SdkInv

\* The steps that neither read nor gather.
LEMMA QuietSteps ==
    ASSUME SdkInv, Create \/ RequestFails \/ Responds \/ TellFailure \/ ReadResult
    PROVE  SdkInv'
<1> USE DEF SdkInv
<1>1. SdkTypes'
      <2>1. call' \in [pc : {"new", "pending", "responded", "streaming", "done", "failed"}, shape : ResultShapes]
            BY DEF SdkTypes, Create, RequestFails, Responds, TellFailure, ReadResult
      <2>2. generation' \in [ends : Nat, how : Hows, output : Outputs]
            BY NothingReadYet
            DEF SdkTypes, Create, RequestFails, Responds, TellFailure, ReadResult, End,
              NoEnd, Hows
      <2>3. UNCHANGED <<source, reader, finished>> /\ failing' \in BOOLEAN /\ settled' \in BOOLEAN
            BY DEF SdkTypes, Create, RequestFails, Responds, TellFailure, ReadResult
      <2> QED BY <2>1, <2>2, <2>3 DEF SdkTypes
<1>2. EndsInv'
      BY DEF SdkTypes, EndsInv, Create, RequestFails, Responds, TellFailure, ReadResult,
        End, NoEnd
<1>3. GatherInv'
      <2>1. UNCHANGED <<finished, source, reader>>
            BY DEF Create, RequestFails, Responds, TellFailure, ReadResult
      <2>2. generation'.how = "output" => generation' = generation
            BY DEF SdkTypes, Create, RequestFails, Responds, TellFailure, ReadResult, End, NoEnd
      <2> QED BY <2>1, <2>2 DEF GatherInv, IsPart
<1> QED BY <1>1, <1>2, <1>3

\* An iterator is made, by one layer of patches.
LEMMA OpenStep ==
    ASSUME SdkInv, NEW how \in {"iterate", "tee"}, Open(how) PROVE SdkInv'
<1> USE DEF SdkInv
<1> DEFINE ls == reader.layers
<1>1. Layers(how) = 1
      BY DEF Layers, FromIterator
<1>2. /\ reader' = [reader EXCEPT !.layers = Append(ls, 1)]
      /\ UNCHANGED <<call, failing, settled, generation, finished, source>>
      /\ call.pc = "streaming" /\ ls \in Ones
      BY <1>1 DEF Open, SdkTypes
<1> HIDE DEF ls
<1>3. Append(ls, 1) \in Ones /\ Append(ls, 1) # <<>>
      BY <1>2, AppendProperties DEF Ones
<1>4. /\ reader'.layers = Append(ls, 1) /\ reader'.nexts = reader.nexts
           /\ reader'.gathered = reader.gathered
      /\ reader' \in [layers : Ones, nexts : 0 .. 2, gathered : Outputs]
      BY <1>2, <1>3 DEF SdkTypes
<1>5. SdkTypes'
      BY <1>2, <1>4 DEF SdkTypes
<1>6. EndsInv' /\ GatherInv'
      BY <1>2, <1>3, <1>4 DEF EndsInv, GatherInv, IsPart
<1> QED BY <1>5, <1>6

\* The caller asks for the next chunk.
LEMMA NextStep1 ==
    ASSUME SdkInv, Next1 PROVE SdkInv'
<1> USE DEF SdkInv
<1>2. /\ UNCHANGED <<call, failing, settled, generation, finished, source>>
      /\ call.pc = "streaming" /\ reader.layers # <<>>
      /\ reader'.layers = reader.layers /\ reader'.gathered = reader.gathered
      /\ reader' \in [layers : Ones, nexts : 0 .. 2, gathered : Outputs]
      BY DEF Next1, SdkTypes
<1>5. SdkTypes'
      BY <1>2 DEF SdkTypes
<1>6. EndsInv' /\ GatherInv'
      BY <1>2 DEF EndsInv, GatherInv, IsPart
<1> QED BY <1>5, <1>6

\* The end of the stream, however it comes: the generation ends once.
LEMMA FinishStep ==
    ASSUME SdkInv, call.pc = "streaming",
             NEW nexts \in 0 .. 2, reader' = [reader EXCEPT !.nexts = nexts],
           reader.layers # <<>>,
           source' = source \/ source' = [source EXCEPT !.over = "yes"],
           UNCHANGED <<call, failing, settled>>,
           FinishOnce("output", reader.gathered) \/ FinishOnce("error", Empty)
    PROVE  SdkInv'
<1> USE DEF SdkInv
<1>1. /\ finished' = TRUE
      /\ source'.yielded = source.yielded /\ source'.read = source.read
      /\ source' \in [yielded : 0 .. MaxChunks, over : {"no", "yes"}, read : Lists]
      /\ reader'.layers = reader.layers /\ reader'.gathered = reader.gathered
      /\ reader' \in [layers : Ones, nexts : 0 .. 2, gathered : Outputs]
      BY DEF FinishOnce, SdkTypes
<1>2. \/ finished /\ generation' = generation
      \/ /\ ~finished /\ generation'.ends = generation.ends + 1
         /\ \/ generation'.how = "output" /\ generation'.output = reader.gathered
            \/ generation'.how = "error" /\ generation'.output = Empty
         /\ generation' \in [ends : Nat, how : Hows, output : Outputs]
      BY NothingReadYet DEF FinishOnce, End, NoEnd, SdkTypes, Hows
<1>3. SdkTypes'
      BY <1>1, <1>2 DEF SdkTypes
<1>4. EndsInv'
      BY <1>1, <1>2 DEF EndsInv, SdkTypes
<1>5. GatherInv'
      BY <1>1, <1>2 DEF GatherInv, IsPart
<1> QED BY <1>3, <1>4, <1>5

\* A chunk is read, and gathered unless the generation has ended.
LEMMA YieldsStep ==
    ASSUME SdkInv, Yields PROVE SdkInv'
<1> USE DEF SdkInv
<1> DEFINE n == source.yielded
           p == PartOf(n)
           list == reader.gathered[p]
           read == source.read
<1>0. /\ n \in Nat /\ n < MaxChunks /\ reader.nexts - 1 \in 0 .. 2 /\ read \in Lists
      /\ reader.layers \in Ones /\ reader.layers # <<>> /\ call.pc = "streaming"
      BY InstrumentationAssumption DEF Yields, SdkTypes, EndsInv
<1>1. p \in Parts /\ list \in Lists
      BY <1>0, PartOfRange DEF SdkTypes, Outputs
<1>2. Head(reader.layers) = 1
      BY <1>0 DEF Ones
<1>3. list \o [i \in 1 .. 1 |-> n] = Append(list, n)
      <2>1. [i \in 1 .. 1 |-> n] = <<n>>
            OBVIOUS
      <2> HIDE DEF list
      <2> QED BY <1>0, <1>1, <2>1, AppendIsConcat DEF Lists
<1>4. /\ source' = [source EXCEPT !.yielded = n + 1, !.read = IF finished THEN read ELSE Append(read, n)]
      /\ reader' = [reader EXCEPT !.nexts = reader.nexts - 1, !.gathered[p] = Append(list, n)]
      /\ UNCHANGED <<call, failing, settled, generation, finished>>
      BY <1>2, <1>3 DEF Yields
<1>b. (\A m \in Range(list) : m < n) /\ (\A m \in Range(read) : m < n) /\ InOrder(list)
      BY <1>1 DEF GatherInv
<1> HIDE DEF list, read
<1>5. /\ Append(list, n) \in Lists /\ Range(Append(list, n)) = Range(list) \cup {n}
      /\ InOrder(Append(list, n))
      /\ Append(read, n) \in Lists /\ Range(Append(read, n)) = Range(read) \cup {n}
      <2> HIDE DEF n
      <2> QED BY <1>0, <1>1, <1>b, OneMore DEF Lists
<1>6. /\ source'.yielded = n + 1 /\ source'.over = source.over
      /\ finished => source'.read = read
      /\ ~finished => source'.read = Append(read, n)
      /\ source' \in [yielded : 0 .. MaxChunks, over : {"no", "yes"}, read : Lists]
      <2>1. n + 1 \in 0 .. MaxChunks /\ (IF finished THEN read ELSE Append(read, n)) \in Lists
            BY <1>0, <1>5, InstrumentationAssumption
      <2> HIDE DEF n
      <2> QED BY <1>4, <2>1 DEF SdkTypes
<1>7. /\ reader'.layers = reader.layers
      /\ reader'.gathered = [reader.gathered EXCEPT ![p] = Append(list, n)]
      /\ reader' \in [layers : Ones, nexts : 0 .. 2, gathered : Outputs]
      <2> DEFINE g == [reader.gathered EXCEPT ![p] = Append(list, n)]
      <2> HIDE DEF p, n
      <2>1. g \in Outputs
            BY <1>1, <1>5 DEF SdkTypes, Outputs
      <2>2. reader' = [reader EXCEPT !.nexts = reader.nexts - 1, !.gathered = g]
            BY <1>4
      <2> HIDE DEF g
      <2>3. reader'.gathered = g /\ reader'.layers = reader.layers
            /\ reader' \in [layers : Ones, nexts : 0 .. 2, gathered : Outputs]
            BY <1>0, <2>1, <2>2 DEF SdkTypes
      <2> QED BY <2>3 DEF g
<1> HIDE DEF p, n
<1>8. /\ reader'.gathered[p] = Append(list, n)
      /\ \A q \in Parts \ {p} : reader'.gathered[q] = reader.gathered[q]
      BY <1>1, <1>7 DEF SdkTypes, Outputs
<1>9. SdkTypes'
      BY <1>4, <1>6, <1>7 DEF SdkTypes
<1>10. EndsInv'
      BY <1>0, <1>4, <1>6, <1>7 DEF EndsInv
<1>11. GatherInv'
      <2>1. \A m \in Range(source'.read) : m < source'.yielded
            <3>1. \A m \in Range(read) \cup {n} : m \in Nat
                  BY <1>0 DEF Range, Lists
            <3>2. \A m \in Range(read) \cup {n} : m < n + 1
                  BY <1>0, <1>b, <3>1
            <3>3. Range(source'.read) \subseteq Range(read) \cup {n}
                  BY <1>5, <1>6
            <3> QED BY <3>2, <3>3, <1>6
      <2>2. \A q \in Parts : InOrder(reader'.gathered[q])
            BY <1>5, <1>8 DEF GatherInv
      <2>3. \A q \in Parts : \A m \in Range(reader'.gathered[q]) : m < source'.yielded
            <3> SUFFICES ASSUME NEW q \in Parts, NEW m \in Range(reader'.gathered[q])
                         PROVE  m < n + 1
                BY <1>6
            <3>1. m = n \/ m \in Range(reader.gathered[q])
                  BY <1>5, <1>8 DEF list
            <3>2. m \in Range(reader.gathered[q]) => m < n
                  BY DEF GatherInv, n
            <3>3. m \in Nat
                  <4>1. reader'.gathered[q] \in Seq(Nat)
                        BY <1>7 DEF Outputs, Lists
                  <4> QED BY <4>1 DEF Range
            <3> QED BY <1>0, <3>1, <3>2, <3>3
      <2>4. ASSUME ~finished', NEW q \in Parts PROVE IsPart(reader.gathered[q], q)'
            <3>1. ~finished /\ IsPart(reader.gathered[q], q) /\ source'.read = Append(read, n)
                  BY <1>4, <1>6, <2>4 DEF GatherInv
            <3>2. Range(source'.read) = Range(source.read) \cup {n}
                  BY <1>5, <3>1 DEF read
            <3>3. InOrder(reader'.gathered[q])
                  BY <2>2
            <3>4. Range(reader'.gathered[q]) = IF q = p THEN Range(reader.gathered[q]) \cup {n}
                                               ELSE Range(reader.gathered[q])
                  BY <1>5, <1>8 DEF list
            <3>5. Range(reader.gathered[q]) = {chunk \in Range(source.read) : PartOf(chunk) = q}
                  BY <3>1 DEF IsPart
            <3>6. PartOf(n) = p
                  BY DEF p
            <3>7. Range(reader'.gathered[q]) = {chunk \in Range(source'.read) : PartOf(chunk) = q}
                  BY ONLY <3>2, <3>4, <3>5, <3>6
            <3> QED BY <3>3, <3>7 DEF IsPart, PartOf
      <2>5. ASSUME generation'.how = "output", NEW q \in Parts
                     PROVE IsPart(generation.output[q], q)'
            <3>1. generation' = generation /\ source'.read = source.read
                  BY <1>4, <1>6, <2>5 DEF EndsInv, read
            <3>2. IsPart(generation.output[q], q)
                  BY <3>1, <2>5 DEF GatherInv
            <3> QED BY <3>1, <3>2 DEF IsPart
      <2> QED BY ONLY <2>1, <2>2, <2>3, <2>4, <2>5 DEF GatherInv
<1> QED BY <1>9, <1>10, <1>11

\* Every step keeps the invariant.
LEMMA SdkStep == SdkInv /\ [SdkNext]_sdkVars => SdkInv'
<1> SUFFICES ASSUME SdkInv, [SdkNext]_sdkVars PROVE SdkInv'
    OBVIOUS
<1>1. CASE Create \/ RequestFails \/ Responds \/ TellFailure \/ ReadResult
      BY <1>1, QuietSteps
<1>2. ASSUME NEW how \in {"iterate", "tee"}, Open(how) PROVE SdkInv'
      BY <1>2, OpenStep
<1>3. CASE Next1
      BY <1>3, NextStep1
<1>4. CASE Yields
      BY <1>4, YieldsStep
<1>5. CASE Over
      <2>1. call.pc = "streaming" /\ reader.layers # <<>> /\ reader.nexts - 1 \in 0 .. 2
            BY <1>5 DEF Over, SdkInv, SdkTypes, EndsInv
      <2> QED BY <1>5, <2>1, FinishStep DEF Over
<1>6. ASSUME NEW how \in {"return", "throw"}, Leaves(how) PROVE SdkInv'
      <2>1. reader.nexts \in 0 .. 2 /\ reader' = [reader EXCEPT !.nexts = reader.nexts]
            BY <1>6 DEF Leaves, SdkInv, SdkTypes
      <2> QED BY <1>6, <2>1, FinishStep DEF Leaves
<1>7. CASE ReadAgain
      <2>1. /\ reader.nexts \in 0 .. 2 /\ reader' = [reader EXCEPT !.nexts = reader.nexts]
            /\ reader.layers # <<>> /\ call.pc = "streaming"
            <3>1. /\ reader.nexts \in 0 .. 2 /\ reader' = [reader EXCEPT !.nexts = reader.nexts]
                  /\ call.pc = "streaming" /\ Len(reader.layers) = 2
                  BY <1>7 DEF ReadAgain, SdkInv, SdkTypes
            <3>2. Len(<<>>) = 0
                  BY EmptySeq
            <3> QED BY ONLY <3>1, <3>2
      <2> QED BY <1>7, <2>1, FinishStep DEF ReadAgain
<1>8. CASE UNCHANGED sdkVars
      BY <1>8 DEF sdkVars, SdkInv, SdkTypes, EndsInv, GatherInv, IsPart
<1> QED BY <1>1, <1>2, <1>3, <1>4, <1>5, <1>6, <1>7, <1>8 DEF SdkNext

\* What the invariant says of a call.
LEMMA SdkInvHolds == SdkInv => RecordedOnce
<1> SUFFICES ASSUME SdkInv PROVE RecordedOnce
    OBVIOUS
<1>1. generation.how = "output" => \A p \in Parts : IsPart(generation.output[p], p)
      BY DEF SdkInv, GatherInv
<1>2. /\ generation.ends <= 1
      /\ call.pc = "done" \/ (call.pc = "failed" /\ ~failing) \/ source.over = "yes"
           => generation.ends = 1
      BY DEF SdkInv, SdkTypes, EndsInv
<1> QED BY <1>1, <1>2 DEF RecordedOnce, IsPart

\* For streams of any length and with any number of parts: a call ends its
\* generation at most once, exactly once when the caller has its result or its
\* error, and the output it records is, part by part and in order, what the caller
\* read (wrapOpenAI, wrapAnthropic and wrap-stream.ts).
THEOREM EachCallRecordedOnce == SdkSpec => []RecordedOnce
<1>1. SdkSpec => []SdkInv
      BY InitSdk, SdkStep, PTL DEF SdkSpec
<1> QED BY <1>1, SdkInvHolds, PTL

-----------------------------------------------------------------------------
\* The queue.

Chains == Seq(Lists)
Sets == SUBSET Nat
QueueRecord ==
    [next : Nat, closed : BOOLEAN, buffer : Lists, queued : Nat, dropped : Lists, chain : Chains,
     claimed : Nat, sent : Sets, reported : Sets, ignored : Sets, reports : Nat]

\* The events of a chain of batches.
Chained(chain) == UNION {Range(chain[i]) : i \in DOMAIN chain}
AllBefore(S, T) == \A m \in S, n \in T : m < n

ChainInOrder(chain) ==
    /\ \A i \in DOMAIN chain : InOrder(chain[i]) /\ chain[i] # <<>>
    /\ \A i, j \in DOMAIN chain : i < j => AllBefore(Range(chain[i]), Range(chain[j]))

QueueOrder(q) ==
    /\ InOrder(q.buffer) /\ InOrder(q.dropped) /\ ChainInOrder(q.chain)
    /\ AllBefore(Chained(q.chain), Range(q.buffer))

\* Where an event is; T is what of the chain was reported already.
Apart(q, T) ==
    /\ Range(q.buffer) \cap (Range(q.dropped) \cup q.sent \cup q.reported \cup q.ignored) = {}
    /\ Chained(q.chain) \cap (Range(q.buffer) \cup Range(q.dropped) \cup q.sent \cup q.ignored) = {}
    /\ Chained(q.chain) \cap q.reported = T
    /\ Range(q.dropped) \cap (q.sent \cup q.reported \cup q.ignored) = {}
    /\ q.sent \cap (q.reported \cup q.ignored) = {}
    /\ q.reported \cap q.ignored = {}
Whole(q) ==
    Range(q.buffer) \cup Chained(q.chain) \cup Range(q.dropped)
      \cup q.sent \cup q.reported \cup q.ignored = 1 .. q.next - 1
Counts(q) ==
    /\ q.queued = Cardinality(Chained(q.chain))
    /\ q.reports = Cardinality(q.reported)
    /\ Len(q.buffer) + q.queued <= MaxQueuedEvents
QueueInv(q, T) == q.next > 0 /\ QueueOrder(q) /\ Apart(q, T) /\ Whole(q) /\ Counts(q)

Done(q) == q.sent \cup q.reported \cup q.ignored
Covered(q, e, u) ==
    \/ e \in Done(q)
    \/ \E i \in DOMAIN q.chain : e \in Range(q.chain[i]) /\ q.claimed - Len(q.chain) + i <= u
LastOk(q, last) ==
    /\ last < q.next
    /\ \A i \in DOMAIN q.chain : last <= Last(q.chain[i])
    /\ \A n \in Range(q.buffer) : last < n

\* What the calls of flush and close wait for, or were told is done.
CallsOk(q, f, c) ==
    /\ c.pc # "open" => q.closed
    /\ q.closed => q.buffer = <<>> /\ q.dropped = <<>>
    /\ c.pc = "waiting" => \A e \in 1 .. q.next - 1 : Covered(q, e, c.upto)
    /\ c.pc = "returned" => 1 .. q.next - 1 \subseteq Done(q)
    /\ f.pc = "waiting" => \A e \in f.events : Covered(q, e, f.upto)
    /\ f.pc = "returned" => f.events \subseteq Done(q)

BatcherTypes ==
    /\ queue \in QueueRecord
    /\ sending \in [pc : {"idle", "request", "wait"}, attempt : Nat, took : BOOLEAN]
    /\ flushing \in [pc : {"idle", "waiting", "returned"}, upto : Nat, events : Sets]
    /\ closing \in [pc : {"open", "waiting", "returned"}, upto : Nat, aborted : BOOLEAN]
    /\ server.last \in Nat

\* A request that may arrive yet is no later than what is to be sent.
LateOk(q, lost) == lost # <<>> => Last(lost) \in Nat /\ LastOk(q, Last(lost))

BatcherInv ==
    /\ BatcherTypes
    /\ QueueInv(queue, {})
    /\ sending.pc # "idle" => queue.chain # <<>>
    /\ CallsOk(queue, flushing, closing)
    /\ LastOk(queue, server.last) /\ LateOk(queue, server.lost)

-----------------------------------------------------------------------------
\* Chains.

\* An event of a chain is in one of its batches.
LEMMA ChainedIs ==
    ASSUME NEW chain
    PROVE  /\ \A i \in DOMAIN chain : Range(chain[i]) \subseteq Chained(chain)
           /\ \A e \in Chained(chain) : \E i \in DOMAIN chain : e \in Range(chain[i])
BY DEF Chained

\* The empty list and the empty chain.
LEMMA EmptyLists == <<>> \in Lists /\ <<>> \in Chains /\ Len(<<>>) = 0 /\ Range(<<>>) = {}
                    /\ InOrder(<<>>) /\ Chained(<<>>) = {} /\ ChainInOrder(<<>>)
<1>1. <<>> \in Lists /\ <<>> \in Chains
      BY EmptySeq DEF Lists, Chains
<1>2. Len(<<>>) = 0
      BY EmptySeq
<1>3. DOMAIN <<>> = {}
      OBVIOUS
<1> QED BY <1>1, <1>2, <1>3 DEF Range, InOrder, Chained, ChainInOrder

\* An ordered list has as many members as places.
LEMMA OrderedCount ==
    ASSUME NEW list \in Lists, InOrder(list)
    PROVE  /\ IsFiniteSet(Range(list)) /\ Cardinality(Range(list)) = Len(list)
           /\ Range(list) \subseteq Nat
<1>1. PICK n \in Nat : n = Len(list) /\ list \in [1 .. n -> Nat] /\ DOMAIN list = 1 .. n
      BY LenProperties DEF Lists
<1>2. PICK T : T = Range(list)
      OBVIOUS
<1>3. list \in Surjection(1 .. n, T) /\ T \subseteq Nat
      BY <1>1, <1>2 DEF Surjection, Range
<1>4. list \in Injection(1 .. n, T)
      <2>1. ASSUME NEW i \in 1 .. n, NEW j \in 1 .. n, list[i] = list[j] PROVE i = j
            <3>1. list[i] \in Nat
                  BY <1>1
            <3>2. ~(i < j) /\ ~(j < i)
                  BY <1>1, <2>1, <3>1 DEF InOrder
            <3> QED BY <3>2
      <2> QED BY <1>3, <2>1 DEF Injection, Surjection, IsInjective
<1>5. IsFiniteSet(1 .. n) /\ Cardinality(1 .. n) = n
      <2>1. Cardinality(1 .. n) = IF 1 <= n THEN n - 1 + 1 ELSE 0
            BY FS_Interval
      <2>2. IsFiniteSet(1 .. n)
            BY FS_Interval
      <2> QED BY <2>1, <2>2
<1> QED BY <1>1, <1>2, <1>3, <1>4, <1>5, FS_Surjection

\* A batch at the end of a chain.
LEMMA OneBatchMore ==
    ASSUME NEW chain \in Chains, NEW batch \in Lists
    PROVE  /\ Append(chain, batch) \in Chains /\ Len(Append(chain, batch)) = Len(chain) + 1
           /\ Len(chain) \in Nat /\ DOMAIN chain = 1 .. Len(chain)
           /\ DOMAIN Append(chain, batch) = 1 .. Len(chain) + 1
           /\ \A i \in 1 .. Len(chain) : Append(chain, batch)[i] = chain[i]
           /\ Append(chain, batch)[Len(chain) + 1] = batch
           /\ Chained(Append(chain, batch)) = Chained(chain) \cup Range(batch)
<1>1. /\ Append(chain, batch) \in Chains /\ Len(Append(chain, batch)) = Len(chain) + 1
      /\ Len(chain) \in Nat /\ DOMAIN chain = 1 .. Len(chain)
      /\ DOMAIN Append(chain, batch) = 1 .. Len(chain) + 1
      /\ \A i \in 1 .. Len(chain) : Append(chain, batch)[i] = chain[i]
      /\ Append(chain, batch)[Len(chain) + 1] = batch
      BY AppendProperties, LenProperties DEF Chains
<1>n. PICK n \in Nat : n = Len(chain)
      BY <1>1
<1>2. PICK longer : n = Len(chain) /\ longer = Append(chain, batch)
      BY <1>n
<1>3. \A i \in 1 .. n + 1 : i \in 1 .. n \/ i = n + 1
      OBVIOUS
<1>4. n + 1 \in 1 .. n + 1 /\ 1 .. n \subseteq 1 .. n + 1
      OBVIOUS
<1>5. Chained(longer) = Chained(chain) \cup Range(batch)
      <2>1. \A e : e \in Chained(longer) <=> \E i \in 1 .. n + 1 : e \in Range(longer[i])
            BY <1>1, <1>2 DEF Chained
      <2>2. \A e : e \in Chained(chain) <=> \E i \in 1 .. n : e \in Range(chain[i])
            BY <1>1, <1>2 DEF Chained
      <2>3. \A i \in 1 .. n : longer[i] = chain[i]
            BY <1>1, <1>2
      <2>4. longer[n + 1] = batch
            BY <1>1, <1>2
      <2> QED BY <1>3, <1>4, <2>1, <2>2, <2>3, <2>4
<1> QED BY <1>1, <1>2, <1>5

\* A later batch keeps the chain in order.
LEMMA OrderOfMore ==
    ASSUME NEW chain \in Chains, NEW batch \in Lists, ChainInOrder(chain),
             InOrder(batch), batch # <<>>,
           AllBefore(Chained(chain), Range(batch))
    PROVE  ChainInOrder(Append(chain, batch))
<1>n. PICK n \in Nat : n = Len(chain)
      BY OneBatchMore
<1>1. PICK longer : n = Len(chain) /\ longer = Append(chain, batch)
      BY <1>n
<1>2. /\ DOMAIN chain = 1 .. n /\ DOMAIN longer = 1 .. n + 1
      /\ \A i \in 1 .. n : longer[i] = chain[i]
      /\ longer[n + 1] = batch
      BY <1>1, OneBatchMore
<1>3. \A i \in 1 .. n + 1 : i \in 1 .. n \/ i = n + 1
      OBVIOUS
<1>4. \A i \in 1 .. n + 1 : InOrder(longer[i]) /\ longer[i] # <<>>
      BY <1>2, <1>3 DEF ChainInOrder
<1>5. ASSUME NEW i \in 1 .. n + 1, NEW j \in 1 .. n + 1, i < j
      PROVE  AllBefore(Range(longer[i]), Range(longer[j]))
      <2>1. i \in 1 .. n
            BY <1>5
      <2>2. CASE j \in 1 .. n
            BY <1>2, <1>5, <2>1, <2>2 DEF ChainInOrder
      <2>3. CASE j = n + 1
            <3>1. Range(chain[i]) \subseteq Chained(chain)
                  BY <1>2, <2>1, ChainedIs
            <3> QED BY <1>2, <2>1, <2>3, <3>1 DEF AllBefore
      <2> QED BY <1>3, <2>2, <2>3
<1> QED BY <1>1, <1>2, <1>4, <1>5 DEF ChainInOrder

\* The first batch leaves.
LEMMA OneBatchLess ==
    ASSUME NEW chain \in Chains, chain # <<>>
    PROVE  /\ Head(chain) \in Lists /\ Tail(chain) \in Chains /\ Len(chain) \in Nat \ {0}
           /\ Len(Tail(chain)) = Len(chain) - 1 /\ Head(chain) = chain[1]
           /\ DOMAIN chain = 1 .. Len(chain) /\ DOMAIN Tail(chain) = 1 .. Len(chain) - 1
           /\ \A i \in 1 .. Len(chain) - 1 : Tail(chain)[i] = chain[i + 1]
           /\ Chained(chain) = Range(Head(chain)) \cup Chained(Tail(chain))
<1>1. /\ Head(chain) \in Lists /\ Tail(chain) \in Chains
      /\ Len(Tail(chain)) = Len(chain) - 1
      /\ \A i \in 1 .. Len(Tail(chain)) : Tail(chain)[i] = chain[i + 1]
      BY HeadTailProperties DEF Chains
<1>2. Len(chain) \in Nat \ {0} /\ DOMAIN chain = 1 .. Len(chain)
      BY EmptySeq, LenProperties DEF Chains
<1>3. DOMAIN Tail(chain) = 1 .. Len(Tail(chain))
      BY <1>1, LenProperties DEF Chains
<1>4. Head(chain) = chain[1]
      BY DEF Chains
<1>n. PICK n \in Nat : n + 1 = Len(chain)
      <2>1. Len(chain) - 1 \in Nat /\ (Len(chain) - 1) + 1 = Len(chain)
            BY <1>2
      <2> QED BY <2>1
<1>5. PICK first, rest : n + 1 = Len(chain) /\ first = Head(chain) /\ rest = Tail(chain)
      BY <1>n
<1>6. DOMAIN chain = 1 .. n + 1 /\ DOMAIN rest = 1 .. n
        /\ \A i \in 1 .. n : rest[i] = chain[i + 1]
      <2>1. Len(rest) = n
            <3>1. Len(rest) = (n + 1) - 1
                  BY <1>1, <1>5
            <3> QED BY <3>1
      <2> QED BY <1>1, <1>2, <1>3, <1>5, <2>1
<1>7. Chained(chain) = Range(first) \cup Chained(rest)
      <2>1. \A e : e \in Chained(chain) <=> \E i \in 1 .. n + 1 : e \in Range(chain[i])
            BY <1>6 DEF Chained
      <2>2. \A e : e \in Chained(rest) <=> \E i \in 1 .. n : e \in Range(chain[i + 1])
            BY <1>6 DEF Chained
      <2>3. \A i \in 1 .. n + 1 : i = 1 \/ (i - 1 \in 1 .. n /\ (i - 1) + 1 = i)
            OBVIOUS
      <2>4. \A i \in 1 .. n : i + 1 \in 1 .. n + 1
            OBVIOUS
      <2>5. 1 \in 1 .. n + 1 /\ first = chain[1]
            BY <1>4, <1>5
      <2> QED BY <2>1, <2>2, <2>3, <2>4, <2>5
<1> QED BY <1>1, <1>2, <1>3, <1>4, <1>5, <1>7

\* The other batches are later than the first.
LEMMA OrderOfLess ==
    ASSUME NEW chain \in Chains, chain # <<>>, ChainInOrder(chain)
    PROVE  /\ ChainInOrder(Tail(chain)) /\ InOrder(Head(chain)) /\ Head(chain) # <<>>
           /\ AllBefore(Range(Head(chain)), Chained(Tail(chain)))
<1>n. PICK n \in Nat : n + 1 = Len(chain)
      <2>1. Len(chain) - 1 \in Nat /\ (Len(chain) - 1) + 1 = Len(chain)
            BY OneBatchLess
      <2> QED BY <2>1
<1>1. PICK rest : n + 1 = Len(chain) /\ rest = Tail(chain)
      BY <1>n
<1>2. /\ DOMAIN chain = 1 .. n + 1 /\ DOMAIN rest = 1 .. n /\ Head(chain) = chain[1]
      /\ \A i \in 1 .. n : rest[i] = chain[i + 1]
      <2>1. Len(chain) - 1 = n
            BY <1>1, OneBatchLess
      <2> QED BY <1>1, <2>1, OneBatchLess
<1>3. \A i \in 1 .. n : i + 1 \in 1 .. n + 1 /\ 1 < i + 1
      OBVIOUS
<1>4. 1 \in 1 .. n + 1
      OBVIOUS
<1>5. InOrder(Head(chain)) /\ Head(chain) # <<>>
      BY <1>2, <1>4 DEF ChainInOrder
<1>6. \A i \in DOMAIN rest : InOrder(rest[i]) /\ rest[i] # <<>>
      BY <1>2, <1>3 DEF ChainInOrder
<1>7. \A i, j \in DOMAIN rest : i < j => AllBefore(Range(rest[i]), Range(rest[j]))
      <2>1. \A i, j \in 1 .. n : i < j => i + 1 < j + 1
            OBVIOUS
      <2> QED BY <1>2, <1>3, <2>1 DEF ChainInOrder
<1>8. AllBefore(Range(Head(chain)), Chained(rest))
      <2>1. \A i \in 1 .. n : AllBefore(Range(Head(chain)), Range(rest[i]))
            BY <1>2, <1>3, <1>4 DEF ChainInOrder
      <2> QED BY <1>2, <2>1 DEF AllBefore, Chained
<1> QED BY <1>1, <1>5, <1>6, <1>7, <1>8 DEF ChainInOrder

\* The last event of a batch is one of its events.
LEMMA LastIsIn ==
    ASSUME NEW list \in Lists, list # <<>>
    PROVE  Last(list) \in Range(list) /\ Last(list) \in Nat
<1>1. Len(list) \in Nat \ {0} /\ DOMAIN list = 1 .. Len(list) /\ list \in [1 .. Len(list) -> Nat]
      BY EmptySeq, LenProperties DEF Lists
<1>2. Len(list) \in DOMAIN list
      BY <1>1
<1> QED BY <1>1, <1>2 DEF Last, Range

-----------------------------------------------------------------------------
\* What every piece of the queue's work keeps, from q to r: what is done, what
\* is covered, what the server may replace, and that a closed queue is empty.
Keeps(q, r) ==
    /\ r.closed = q.closed /\ q.next <= r.next
    /\ Done(q) \subseteq Done(r)
    /\ \A e, u : Covered(q, e, u) => Covered(r, e, u)
    /\ \A last \in Nat : LastOk(q, last) => LastOk(r, last)
    /\ q.closed => \A e \in 1 .. r.next - 1 : e < q.next \/ e \in Done(r)
    /\ q.closed /\ q.buffer = <<>> /\ q.dropped = <<>> => r.buffer = <<>> /\ r.dropped = <<>>

KeepsHead(q, r) == q.chain # <<>> => r.chain # <<>> /\ Head(r.chain) = Head(q.chain)

\* Two pieces, one after the other.
LEMMA KeepsIsTransitive ==
    ASSUME NEW q \in QueueRecord, NEW r \in QueueRecord, NEW s \in QueueRecord,
             Keeps(q, r), Keeps(r, s)
    PROVE  Keeps(q, s)
<1>1. q.next \in Nat /\ r.next \in Nat /\ s.next \in Nat
      BY DEF QueueRecord
<1>2. s.closed = q.closed /\ q.next <= s.next /\ Done(q) \subseteq Done(s)
      BY <1>1 DEF Keeps
<1>3. \A e, u : Covered(q, e, u) => Covered(s, e, u)
      BY DEF Keeps
<1>4. \A last \in Nat : LastOk(q, last) => LastOk(s, last)
      BY DEF Keeps
<1>5. ASSUME q.closed, NEW e \in 1 .. s.next - 1 PROVE e < q.next \/ e \in Done(s)
      <2>1. r.closed /\ Done(r) \subseteq Done(s)
            BY <1>5 DEF Keeps
      <2>2. e < r.next \/ e \in Done(s)
            BY <2>1 DEF Keeps
      <2>3. CASE e < r.next
            <3>1. e \in 1 .. r.next - 1
                  BY <1>1, <2>3
            <3> QED BY <1>5, <2>1, <3>1 DEF Keeps
      <2> QED BY <2>2, <2>3
<1>6. q.closed /\ q.buffer = <<>> /\ q.dropped = <<>> => s.buffer = <<>> /\ s.dropped = <<>>
      BY DEF Keeps
<1> QED BY <1>2, <1>3, <1>4, <1>5, <1>6 DEF Keeps

\* Pieces that leave the chain, the buffer and the count of events alone.
LEMMA KeepsTheChain ==
    ASSUME NEW q \in QueueRecord, NEW r \in QueueRecord,
           r.chain = q.chain, r.claimed = q.claimed, r.buffer = q.buffer, r.next = q.next,
           r.closed = q.closed, Done(q) \subseteq Done(r), q.dropped = <<>> => r.dropped = <<>>
    PROVE  Keeps(q, r) /\ KeepsHead(q, r)
<1>1. q.next \in Nat
      BY DEF QueueRecord
<1>2. \A e, u : Covered(q, e, u) => Covered(r, e, u)
      BY DEF Covered
<1>3. \A last \in Nat : LastOk(q, last) => LastOk(r, last)
      BY DEF LastOk
<1>4. \A e \in 1 .. r.next - 1 : e < q.next
      BY <1>1
<1> QED BY <1>1, <1>2, <1>3, <1>4 DEF Keeps, KeepsHead

\* Counting a union of two sets apart.
LEMMA CountsAdd ==
    ASSUME NEW S, IsFiniteSet(S), NEW T, IsFiniteSet(T), S \cap T = {}
    PROVE  /\ IsFiniteSet(S \cup T) /\ Cardinality(S \cup T) = Cardinality(S) + Cardinality(T)
           /\ Cardinality(S) \in Nat /\ Cardinality(T) \in Nat
<1>1. Cardinality(S) \in Nat /\ Cardinality(T) \in Nat
      BY FS_CardinalityType
<1>2. /\ IsFiniteSet(S \cup T)
      /\ Cardinality(S \cup T) = Cardinality(S) + Cardinality(T) - Cardinality(S \cap T)
      BY FS_Union
<1>3. Cardinality(S \cap T) = 0
      BY FS_EmptySet
<1> QED BY <1>1, <1>2, <1>3

\* The sets of events are finite.
LEMMA QueueFinite ==
    ASSUME NEW q \in QueueRecord, Whole(q)
    PROVE  IsFiniteSet(Chained(q.chain)) /\ IsFiniteSet(q.reported)
<1>1. q.next - 1 \in Int
      BY DEF QueueRecord
<1>2. IsFiniteSet(1 .. q.next - 1)
      BY <1>1, FS_Interval
<1>3. Chained(q.chain) \subseteq 1 .. q.next - 1 /\ q.reported \subseteq 1 .. q.next - 1
      BY DEF Whole
<1> QED BY <1>2, <1>3, FS_Subset

\* The drops are told.
LEMMA ToldDroppedKeeps ==
    ASSUME NEW q \in QueueRecord, NEW T, QueueInv(q, T), T \cap Range(q.dropped) = {}
    PROVE  /\ ToldDropped(q) \in QueueRecord /\ QueueInv(ToldDropped(q), T)
           /\ Keeps(q, ToldDropped(q)) /\ KeepsHead(q, ToldDropped(q))
           /\ ToldDropped(q).dropped = <<>> /\ ToldDropped(q).next = q.next
           /\ ToldDropped(q).buffer = q.buffer
<1>1. PICK events \in Lists : events = q.dropped
      BY DEF QueueRecord
<1>2. InOrder(events)
      BY <1>1 DEF QueueInv, QueueOrder
<1>3. /\ IsFiniteSet(Range(events)) /\ Cardinality(Range(events)) = Len(events)
      /\ Range(events) \subseteq Nat /\ Len(events) \in Nat
      BY <1>2, OrderedCount, LenProperties DEF Lists
<1>4. PICK r : r = ToldDropped(q)
      OBVIOUS
<1>5. r = [q EXCEPT !.reported = @ \cup Range(events), !.reports = @ + Len(events), !.dropped = <<>>]
      BY <1>1, <1>4 DEF ToldDropped, Told, QueueRecord
<1>6. /\ r.next = q.next /\ r.closed = q.closed /\ r.buffer = q.buffer /\ r.queued = q.queued
      /\ r.dropped = <<>> /\ r.chain = q.chain /\ r.claimed = q.claimed /\ r.sent = q.sent
      /\ r.reported = q.reported \cup Range(events) /\ r.ignored = q.ignored
      /\ r.reports = q.reports + Len(events)
      BY <1>5 DEF QueueRecord
<1>7. r \in QueueRecord
      <2>1. q.reports + Len(events) \in Nat /\ q.reported \cup Range(events) \in Sets
            BY <1>3 DEF QueueRecord, Sets
      <2> QED BY <1>5, <2>1, EmptyLists DEF QueueRecord
<1>8. QueueOrder(r)
      BY <1>6, EmptyLists DEF QueueInv, QueueOrder
<1>9. Apart(r, T)
      BY <1>1, <1>6, EmptyLists DEF QueueInv, Apart
<1>10. Whole(r)
       BY <1>1, <1>6, EmptyLists DEF QueueInv, Whole
<1>11. Counts(r)
       <2>1. IsFiniteSet(q.reported) /\ q.reported \cap Range(events) = {}
             BY <1>1, QueueFinite DEF QueueInv, Apart
       <2>2. PICK before, after : before = q.reported /\ after = q.reported \cup Range(events)
             OBVIOUS
       <2>3. Cardinality(after) = Cardinality(before) + Len(events)
             BY <1>3, <2>1, <2>2, CountsAdd
       <2> QED BY <1>6, <2>2, <2>3 DEF QueueInv, Counts
<1>12. Done(q) \subseteq Done(r)
       BY <1>6 DEF Done
<1> QED BY <1>4, <1>6, <1>7, <1>8, <1>9, <1>10, <1>11, <1>12, KeepsTheChain DEF QueueInv

\* The first batch is told.
LEMMA ToldHeadKeeps ==
    ASSUME NEW q \in QueueRecord, QueueInv(q, {}), q.chain # <<>>
    PROVE  /\ Told(q, Head(q.chain)) \in QueueRecord
           /\ QueueInv(Told(q, Head(q.chain)), Range(Head(q.chain)))
           /\ Keeps(q, Told(q, Head(q.chain))) /\ KeepsHead(q, Told(q, Head(q.chain)))
<1>1. PICK events \in Lists : /\ events = Head(q.chain) /\ InOrder(events)
                              /\ Range(events) \subseteq Chained(q.chain)
      BY OneBatchLess, OrderOfLess DEF QueueRecord, QueueInv, QueueOrder
<1>3. /\ IsFiniteSet(Range(events)) /\ Cardinality(Range(events)) = Len(events)
      /\ Range(events) \subseteq Nat /\ Len(events) \in Nat
      BY <1>1, OrderedCount, LenProperties DEF Lists
<1>4. PICK r : r = Told(q, events)
      OBVIOUS
<1>5. r = [q EXCEPT !.reported = @ \cup Range(events), !.reports = @ + Len(events)]
      BY <1>4 DEF Told
<1>6. /\ r.next = q.next /\ r.closed = q.closed /\ r.buffer = q.buffer /\ r.queued = q.queued
      /\ r.dropped = q.dropped /\ r.chain = q.chain /\ r.claimed = q.claimed /\ r.sent = q.sent
      /\ r.reported = q.reported \cup Range(events) /\ r.ignored = q.ignored
      /\ r.reports = q.reports + Len(events)
      BY <1>5 DEF QueueRecord
<1>7. r \in QueueRecord
      <2>1. q.reports + Len(events) \in Nat /\ q.reported \cup Range(events) \in Sets
            BY <1>3 DEF QueueRecord, Sets
      <2> QED BY <1>5, <2>1 DEF QueueRecord
<1>8. QueueOrder(r)
      BY <1>6 DEF QueueInv, QueueOrder
<1>9. Apart(r, Range(events))
      BY <1>1, <1>6 DEF QueueInv, Apart
<1>10. Whole(r)
       BY <1>1, <1>6 DEF QueueInv, Whole
<1>11. Counts(r)
       <2>1. IsFiniteSet(q.reported) /\ q.reported \cap Range(events) = {}
             BY <1>1, QueueFinite DEF QueueInv, Apart
       <2>2. PICK before, after : before = q.reported /\ after = q.reported \cup Range(events)
             OBVIOUS
       <2>3. Cardinality(after) = Cardinality(before) + Len(events)
             BY <1>3, <2>1, <2>2, CountsAdd
       <2> QED BY <1>6, <2>2, <2>3 DEF QueueInv, Counts
<1>12. Done(q) \subseteq Done(r)
       BY <1>6 DEF Done
<1> QED BY <1>1, <1>4, <1>6, <1>7, <1>8, <1>9, <1>10, <1>11, <1>12, KeepsTheChain DEF QueueInv

\* An event is pushed: refused, dropped or put into the buffer.
LEMMA PushedKeeps ==
    ASSUME NEW q \in QueueRecord, NEW T, QueueInv(q, T)
    PROVE  /\ Pushed(q) \in QueueRecord /\ QueueInv(Pushed(q), T)
           /\ Keeps(q, Pushed(q)) /\ KeepsHead(q, Pushed(q))
           /\ Range(Pushed(q).dropped) \subseteq Range(q.dropped) \cup {q.next}
           /\ Pushed(q).next = q.next + 1
           /\ q.closed => Pushed(q).dropped = q.dropped
<1>1. PICK r : r = Pushed(q)
      OBVIOUS
<1>2. PICK new \in Nat : new = q.next /\ new > 0
      BY DEF QueueRecord, QueueInv
<1>3. /\ \A n \in Range(q.buffer) : n < new
      /\ \A n \in Range(q.dropped) : n < new
      /\ \A n \in Chained(q.chain) : n < new
      /\ new \notin q.sent /\ new \notin q.reported /\ new \notin q.ignored
      /\ new \notin Chained(q.chain) /\ new \notin Range(q.dropped) /\ new \notin Range(q.buffer)
      <2>1. \A n \in 1 .. q.next - 1 : n < new /\ n # new
            BY <1>2
      <2> QED BY <2>1 DEF QueueInv, Whole
<1>4. 1 .. (new + 1) - 1 = (1 .. new - 1) \cup {new}
      BY <1>2
<1>5. q.buffer \in Seq(Nat) /\ q.dropped \in Seq(Nat) /\ Len(q.buffer) \in Nat /\ q.queued \in Nat
      BY LenProperties DEF QueueRecord, Lists
<1>6. CASE q.closed
      <2>1. r = [q EXCEPT !.ignored = @ \cup {new}, !.next = @ + 1]
            BY <1>1, <1>2, <1>6 DEF Pushed
      <2>2. /\ r.next = new + 1 /\ r.closed = q.closed /\ r.buffer = q.buffer
                 /\ r.queued = q.queued
            /\ r.dropped = q.dropped /\ r.chain = q.chain /\ r.claimed = q.claimed
                 /\ r.sent = q.sent
            /\ r.reported = q.reported /\ r.ignored = q.ignored \cup {new}
            /\ r.reports = q.reports
            BY <1>2, <2>1 DEF QueueRecord
      <2>3. r \in QueueRecord
            <3>1. new + 1 \in Nat /\ q.ignored \cup {new} \in Sets
                  BY DEF QueueRecord, Sets
            <3> QED BY <1>2, <2>1, <3>1 DEF QueueRecord
      <2>4. QueueOrder(r) /\ Counts(r)
            BY <2>2 DEF QueueInv, QueueOrder, Counts
      <2>5. Apart(r, T)
            BY <1>3, <2>2 DEF QueueInv, Apart
      <2>6. Whole(r)
            BY <1>2, <1>4, <2>2 DEF QueueInv, Whole
      <2>7. Keeps(q, r)
            <3>1. \A e, u : Covered(q, e, u) => Covered(r, e, u)
                  BY <2>2 DEF Covered, Done
            <3>2. \A last \in Nat : LastOk(q, last) => LastOk(r, last)
                  BY <1>2, <2>2 DEF LastOk
            <3>3. \A e \in 1 .. r.next - 1 : e < q.next \/ e \in Done(r)
                  BY <1>2, <1>4, <2>2 DEF Done
            <3> QED BY <1>2, <2>2, <3>1, <3>2, <3>3 DEF Keeps, Done
      <2>8. KeepsHead(q, r)
            BY <2>2 DEF KeepsHead
      <2>9. r.next > 0 /\ r.next = q.next + 1
            BY <1>2, <2>2
      <2> QED BY <1>1, <2>2, <2>3, <2>4, <2>5, <2>6, <2>7, <2>8, <2>9 DEF QueueInv
<1>7. CASE ~q.closed /\ Len(q.buffer) + q.queued >= MaxQueuedEvents
      <2>1. r = [q EXCEPT !.dropped = Append(@, new), !.next = @ + 1]
            BY <1>1, <1>2, <1>7 DEF Pushed
      <2>2. /\ r.next = new + 1 /\ r.closed = q.closed /\ r.buffer = q.buffer
                 /\ r.queued = q.queued
            /\ r.dropped = Append(q.dropped, new) /\ r.chain = q.chain /\ r.claimed = q.claimed
            /\ r.sent = q.sent /\ r.reported = q.reported /\ r.ignored = q.ignored
            /\ r.reports = q.reports
            BY <1>2, <2>1 DEF QueueRecord
      <2>3. /\ Append(q.dropped, new) \in Lists
            /\ Range(Append(q.dropped, new)) = Range(q.dropped) \cup {new}
            /\ InOrder(Append(q.dropped, new))
            BY <1>3, <1>5, OneMore DEF Lists, QueueInv, QueueOrder
      <2>4. r \in QueueRecord
            <3>1. new + 1 \in Nat
                  OBVIOUS
            <3> QED BY <1>2, <2>1, <2>3, <3>1 DEF QueueRecord
      <2>5. QueueOrder(r) /\ Counts(r)
            BY <2>2, <2>3 DEF QueueInv, QueueOrder, Counts
      <2>6. Apart(r, T)
            BY <1>3, <2>2, <2>3 DEF QueueInv, Apart
      <2>7. Whole(r)
            BY <1>2, <1>4, <2>2, <2>3 DEF QueueInv, Whole
      <2>8. Keeps(q, r)
            <3>1. \A e, u : Covered(q, e, u) => Covered(r, e, u)
                  BY <2>2 DEF Covered, Done
            <3>2. \A last \in Nat : LastOk(q, last) => LastOk(r, last)
                  BY <1>2, <2>2 DEF LastOk
            <3> QED BY <1>2, <1>7, <2>2, <3>1, <3>2 DEF Keeps, Done
      <2>9. KeepsHead(q, r)
            BY <2>2 DEF KeepsHead
      <2>10. r.next > 0 /\ r.next = q.next + 1
             BY <1>2, <2>2
      <2> QED BY <1>1, <1>2, <1>7, <2>2, <2>3, <2>4, <2>5, <2>6, <2>7, <2>8, <2>9, <2>10
                DEF QueueInv
<1>8. CASE ~q.closed /\ ~(Len(q.buffer) + q.queued >= MaxQueuedEvents)
      <2>1. r = [q EXCEPT !.buffer = Append(@, new), !.next = @ + 1]
            BY <1>1, <1>2, <1>8 DEF Pushed
      <2>2. /\ r.next = new + 1 /\ r.closed = q.closed /\ r.buffer = Append(q.buffer, new)
            /\ r.queued = q.queued
            /\ r.dropped = q.dropped /\ r.chain = q.chain /\ r.claimed = q.claimed
            /\ r.sent = q.sent /\ r.reported = q.reported /\ r.ignored = q.ignored
            /\ r.reports = q.reports
            BY <1>2, <2>1 DEF QueueRecord
      <2>3. /\ Append(q.buffer, new) \in Lists
            /\ Range(Append(q.buffer, new)) = Range(q.buffer) \cup {new}
            /\ InOrder(Append(q.buffer, new))
            BY <1>3, <1>5, OneMore DEF Lists, QueueInv, QueueOrder
      <2>4. r \in QueueRecord
            <3>1. new + 1 \in Nat
                  OBVIOUS
            <3> QED BY <1>2, <2>1, <2>3, <3>1 DEF QueueRecord
      <2>5. QueueOrder(r)
            BY <1>3, <2>2, <2>3 DEF QueueInv, QueueOrder, AllBefore
      <2>a. Counts(r)
            <3>1. Len(Append(q.buffer, new)) = Len(q.buffer) + 1
                  BY <1>5, AppendProperties
            <3>2. MaxQueuedEvents \in Nat
                  BY BatcherAssumption
            <3>3. Len(q.buffer) + 1 + q.queued <= MaxQueuedEvents
                  BY <1>5, <1>8, <3>2
            <3> QED BY <2>2, <3>1, <3>3 DEF QueueInv, Counts
      <2>6. Apart(r, T)
            BY <1>3, <2>2, <2>3 DEF QueueInv, Apart
      <2>7. Whole(r)
            BY <1>2, <1>4, <2>2, <2>3 DEF QueueInv, Whole
      <2>8. Keeps(q, r)
            <3>1. \A e, u : Covered(q, e, u) => Covered(r, e, u)
                  BY <2>2 DEF Covered, Done
            <3>2. \A last \in Nat : LastOk(q, last) => LastOk(r, last)
                  BY <1>2, <2>2, <2>3 DEF LastOk
            <3> QED BY <1>2, <1>8, <2>2, <3>1, <3>2 DEF Keeps, Done
      <2>9. KeepsHead(q, r)
            BY <2>2 DEF KeepsHead
      <2>10. r.next > 0 /\ r.next = q.next + 1
             BY <1>2, <2>2
      <2> QED BY <1>1, <1>2, <1>8, <2>2, <2>3, <2>4, <2>5, <2>a, <2>6, <2>7, <2>8, <2>9, <2>10
                DEF QueueInv
<1> QED BY <1>6, <1>7, <1>8

\* The buffer is claimed.
LEMMA ClaimedKeeps ==
    ASSUME NEW q \in QueueRecord, NEW T, QueueInv(q, T), T \cap Range(q.buffer) = {}
    PROVE  /\ Claimed(q) \in QueueRecord /\ QueueInv(Claimed(q), T)
           /\ Keeps(q, Claimed(q)) /\ KeepsHead(q, Claimed(q))
           /\ Claimed(q).dropped = q.dropped /\ Claimed(q).next = q.next
           /\ Claimed(q).buffer = <<>>
<1>1. CASE q.buffer = <<>>
      <2>1. Claimed(q) = q
            BY <1>1 DEF Claimed
      <2>2. Keeps(q, q) /\ KeepsHead(q, q)
            BY KeepsTheChain
      <2> QED BY <1>1, <2>1, <2>2
<1>2. CASE q.buffer # <<>>
      <2>1. PICK r : r = Claimed(q)
            OBVIOUS
      <2>2. PICK batch \in Lists, chain \in Chains, k \in Nat :
              /\ batch = q.buffer /\ chain = q.chain /\ k = Len(chain) /\ InOrder(batch)
                   /\ ChainInOrder(chain)
              /\ AllBefore(Chained(chain), Range(batch))
            <3>1. q.buffer \in Lists /\ q.chain \in Chains /\ Len(q.chain) \in Nat
                  BY LenProperties DEF QueueRecord, Chains
            <3> QED BY <3>1 DEF QueueInv, QueueOrder
      <2>3. r = [q EXCEPT !.buffer = <<>>, !.queued = @ + Len(batch),
                          !.chain = Append(@, batch), !.claimed = @ + 1]
            BY <1>2, <2>1, <2>2 DEF Claimed
      <2>4. /\ r.next = q.next /\ r.closed = q.closed /\ r.buffer = <<>>
            /\ r.queued = q.queued + Len(batch)
            /\ r.dropped = q.dropped /\ r.chain = Append(chain, batch)
                 /\ r.claimed = q.claimed + 1
            /\ r.sent = q.sent /\ r.reported = q.reported /\ r.ignored = q.ignored
            /\ r.reports = q.reports
            BY <2>2, <2>3 DEF QueueRecord
      <2>5. /\ Append(chain, batch) \in Chains /\ Len(Append(chain, batch)) = k + 1
            /\ DOMAIN chain = 1 .. k
            /\ DOMAIN Append(chain, batch) = 1 .. k + 1
            /\ \A i \in 1 .. k : Append(chain, batch)[i] = chain[i]
            /\ Append(chain, batch)[k + 1] = batch
            /\ Chained(Append(chain, batch)) = Chained(chain) \cup Range(batch)
            BY <2>2, OneBatchMore
      <2>6. Len(batch) \in Nat /\ q.queued \in Nat /\ q.claimed \in Nat
            BY LenProperties DEF Lists, QueueRecord
      <2>7. r \in QueueRecord
            <3>1. q.queued + Len(batch) \in Nat /\ q.claimed + 1 \in Nat
                  BY <2>6
            <3> QED BY <2>2, <2>3, <2>5, <3>1, EmptyLists DEF QueueRecord
      <2>8. QueueOrder(r)
            <3>1. ChainInOrder(Append(chain, batch))
                  BY <1>2, <2>2, OrderOfMore
            <3> QED BY <2>4, <3>1, EmptyLists DEF QueueInv, QueueOrder, AllBefore
      <2>9. Apart(r, T)
            BY <2>2, <2>4, <2>5, EmptyLists DEF QueueInv, Apart
      <2>10. Whole(r)
             BY <2>2, <2>4, <2>5, EmptyLists DEF QueueInv, Whole
      <2>11. Counts(r)
             <3>1. IsFiniteSet(Chained(chain)) /\ Chained(chain) \cap Range(batch) = {}
                   BY <2>2, QueueFinite DEF QueueInv, Apart
             <3>2. IsFiniteSet(Range(batch)) /\ Cardinality(Range(batch)) = Len(batch)
                   BY <2>2, OrderedCount
             <3>3. PICK before, after : before = Chained(chain)
                          /\ after = Chained(chain) \cup Range(batch)
                   OBVIOUS
             <3>4. Cardinality(after) = Cardinality(before) + Len(batch)
                   BY <3>1, <3>2, <3>3, CountsAdd
             <3>5. Len(batch) + q.queued <= MaxQueuedEvents /\ MaxQueuedEvents \in Nat
                   BY <2>2, BatcherAssumption DEF QueueInv, Counts
             <3>6. 0 + (q.queued + Len(batch)) <= MaxQueuedEvents
                   BY <2>6, <3>5
             <3> QED BY <2>2, <2>4, <2>5, <3>3, <3>4, <3>6, EmptyLists DEF QueueInv, Counts
      <2>12. Keeps(q, r)
             <3>1. \A e, u : Covered(q, e, u) => Covered(r, e, u)
                   <4> SUFFICES ASSUME NEW e, NEW u, NEW i \in 1 .. k, e \in Range(chain[i]),
                                       q.claimed - k + i <= u
                                PROVE  \E j \in 1 .. k + 1 : /\ e \in Range(Append(chain, batch)[j])
                                                             /\ (q.claimed + 1) - (k + 1) + j <= u
                       BY <2>2, <2>4, <2>5 DEF Covered, Done
                   <4>1. (q.claimed + 1) - (k + 1) + i = q.claimed - k + i
                         BY <2>6
                   <4>2. i \in 1 .. k + 1 /\ Append(chain, batch)[i] = chain[i]
                         BY <2>5
                   <4> QED BY <4>1, <4>2
             <3>2. \A last \in Nat : LastOk(q, last) => LastOk(r, last)
                   <4>1. PICK longer : longer = Append(chain, batch)
                         OBVIOUS
                   <4> SUFFICES ASSUME NEW last \in Nat, LastOk(q, last), NEW i \in 1 .. k + 1
                                PROVE  last <= Last(longer[i])
                       BY <2>4, <2>5, <4>1, EmptyLists DEF LastOk
                   <4>2. CASE i \in 1 .. k
                         <5>1. longer[i] = chain[i]
                               BY <2>5, <4>1, <4>2
                         <5>2. last <= Last(chain[i])
                               BY <2>2, <2>5, <4>2 DEF LastOk
                         <5> QED BY <5>1, <5>2
                   <4>3. CASE i = k + 1
                         <5>1. Last(batch) \in Range(batch) /\ Last(batch) \in Nat
                               BY <1>2, <2>2, LastIsIn
                         <5>2. last < Last(batch)
                               BY <2>2, <5>1 DEF LastOk
                         <5>3. longer[i] = batch
                               BY <2>5, <4>1, <4>3
                         <5>4. last <= Last(batch)
                               BY <5>1, <5>2
                         <5> QED BY <5>3, <5>4
                   <4> QED BY <4>2, <4>3
             <3>3. q.next \in Nat
                   BY DEF QueueRecord
             <3> QED BY <2>4, <3>1, <3>2, <3>3 DEF Keeps, Done
      <2>13. KeepsHead(q, r)
             <3> SUFFICES ASSUME chain # <<>>
                          PROVE  Append(chain, batch) # <<>>
                                   /\ Head(Append(chain, batch)) = Head(chain)
                 BY <2>2, <2>4 DEF KeepsHead
             <3>1. Append(chain, batch) # <<>>
                   BY <2>2, AppendProperties DEF Chains
             <3>2. 1 \in 1 .. k /\ Head(chain) = chain[1]
                   BY <2>2, OneBatchLess
             <3>3. Head(Append(chain, batch)) = Append(chain, batch)[1]
                   BY <2>5, <3>1, OneBatchLess
             <3> QED BY <2>5, <3>1, <3>2, <3>3
      <2> QED BY <2>1, <2>4, <2>7, <2>8, <2>9, <2>10, <2>11, <2>12, <2>13 DEF QueueInv
<1> QED BY <1>1, <1>2

-----------------------------------------------------------------------------
\* What a report adds to what was told: nothing, or one event of the hook's.
After(told) ==
    LET pushed == Pushed(told)
    IN  IF ~hook \/ told.next > MaxEvents THEN told
        ELSE IF IsFull(pushed) THEN Claimed(ToldDropped(pushed)) ELSE pushed

\* What the hook may leave in the list of drops: its own event.
OwnDrop(q, r) ==
    /\ \A n \in Range(r.dropped) : n \in Range(q.dropped) \/ n >= q.next
    /\ q.closed /\ q.dropped = <<>> => r.dropped = <<>>

\* The event the hook records, if it does.
LEMMA AfterKeeps ==
    ASSUME NEW q \in QueueRecord, NEW T, QueueInv(q, T)
    PROVE  /\ After(q) \in QueueRecord /\ QueueInv(After(q), T)
           /\ Keeps(q, After(q)) /\ KeepsHead(q, After(q)) /\ OwnDrop(q, After(q))
<1>1. PICK p \in QueueRecord : p = Pushed(q)
      BY PushedKeeps
<1>2. /\ QueueInv(p, T) /\ Keeps(q, p) /\ KeepsHead(q, p)
      /\ Range(p.dropped) \subseteq Range(q.dropped) \cup {q.next}
      /\ q.closed => p.dropped = q.dropped
      BY <1>1, PushedKeeps
<1>3. q.next \in Nat
      BY DEF QueueRecord
<1>4. CASE ~hook \/ q.next > MaxEvents
      <2>1. After(q) = q
            BY <1>4 DEF After
      <2>2. Keeps(q, q) /\ KeepsHead(q, q)
            BY KeepsTheChain
      <2> QED BY <2>1, <2>2 DEF OwnDrop
<1>5. CASE hook /\ ~(q.next > MaxEvents) /\ ~IsFull(p)
      <2>1. After(q) = p
            BY <1>1, <1>5 DEF After
      <2> QED BY <1>2, <1>3, <2>1 DEF OwnDrop
<1>6. CASE hook /\ ~(q.next > MaxEvents) /\ IsFull(p)
      <2>1. PICK d \in QueueRecord : d = ToldDropped(p)
            <3>1. T \cap Range(p.dropped) = {}
                  BY <1>2 DEF QueueInv, Apart
            <3> QED BY <1>2, <3>1, ToldDroppedKeeps
      <2>2. QueueInv(d, T) /\ Keeps(p, d) /\ KeepsHead(p, d) /\ d.dropped = <<>>
            <3>1. T \cap Range(p.dropped) = {}
                  BY <1>2 DEF QueueInv, Apart
            <3> QED BY <1>2, <2>1, <3>1, ToldDroppedKeeps
      <2>3. PICK r : r = Claimed(d)
            OBVIOUS
      <2>4. T \cap Range(d.buffer) = {}
            BY <2>2 DEF QueueInv, Apart
      <2>5. r \in QueueRecord /\ QueueInv(r, T) /\ Keeps(d, r) /\ KeepsHead(d, r)
              /\ r.dropped = <<>>
            BY <2>2, <2>3, <2>4, ClaimedKeeps
      <2>6. After(q) = r
            BY <1>1, <1>6, <2>1, <2>3 DEF After
      <2>7. Keeps(q, d)
            BY <1>2, <2>2, KeepsIsTransitive
      <2>8. Keeps(q, r)
            BY <2>5, <2>7, KeepsIsTransitive
      <2>9. KeepsHead(q, r)
            BY <1>2, <2>2, <2>5 DEF KeepsHead
      <2>10. OwnDrop(q, r)
             BY <2>5, EmptyLists DEF OwnDrop
      <2> QED BY <2>5, <2>6, <2>8, <2>9, <2>10
<1> QED BY <1>4, <1>5, <1>6

\* A report is what was told, and then what the hook adds.
LEMMA ReportIsAfter == \A q, events : Report(q, events) = After(Told(q, events))
BY DEF Report, After

\* The drops are told and the buffer is claimed.
LEMMA ClaimBufferKeeps ==
    ASSUME NEW q \in QueueRecord, QueueInv(q, {})
    PROVE  /\ ClaimBuffer(q) \in QueueRecord /\ QueueInv(ClaimBuffer(q), {})
           /\ Keeps(q, ClaimBuffer(q)) /\ KeepsHead(q, ClaimBuffer(q))
           /\ ClaimBuffer(q).buffer = <<>>
           /\ \A n \in Range(ClaimBuffer(q).dropped) : n >= q.next
           /\ q.closed => ClaimBuffer(q).dropped = <<>>
<1>1. PICK p : p = IF q.dropped = <<>> THEN q ELSE Report([q EXCEPT !.dropped = <<>>], q.dropped)
      OBVIOUS
<1>2. /\ p \in QueueRecord /\ QueueInv(p, {}) /\ Keeps(q, p) /\ KeepsHead(q, p)
      /\ \A n \in Range(p.dropped) : n >= q.next
      /\ q.closed => p.dropped = <<>>
      <2>1. CASE q.dropped = <<>>
            <3>1. p = q
                  BY <1>1, <2>1
            <3>2. Keeps(q, q) /\ KeepsHead(q, q)
                  BY KeepsTheChain
            <3> QED BY <2>1, <3>1, <3>2, EmptyLists
      <2>2. CASE q.dropped # <<>>
            <3>1. PICK d : d = ToldDropped(q)
                  OBVIOUS
            <3>2. /\ d \in QueueRecord /\ QueueInv(d, {}) /\ Keeps(q, d) /\ KeepsHead(q, d)
                  /\ d.dropped = <<>> /\ d.next = q.next
                  BY <3>1, ToldDroppedKeeps
            <3>3. Told([q EXCEPT !.dropped = <<>>], q.dropped) = d
                  BY <3>1 DEF ToldDropped, Told, QueueRecord
            <3>4. p = After(d)
                  BY <1>1, <2>2, <3>3, ReportIsAfter
            <3>5. p \in QueueRecord /\ QueueInv(p, {}) /\ Keeps(d, p) /\ KeepsHead(d, p)
                    /\ OwnDrop(d, p)
                  BY <3>2, <3>4, AfterKeeps
            <3>6. Keeps(q, p)
                  BY <3>2, <3>5, KeepsIsTransitive
            <3>7. KeepsHead(q, p)
                  BY <3>2, <3>5 DEF KeepsHead
            <3>8. \A n \in Range(p.dropped) : n >= q.next
                  BY <3>2, <3>5, EmptyLists DEF OwnDrop
            <3>9. q.closed => p.dropped = <<>>
                  <4>1. d.closed = q.closed
                        BY <3>2 DEF Keeps
                  <4> QED BY <3>2, <3>5, <4>1 DEF OwnDrop
            <3> QED BY <3>5, <3>6, <3>7, <3>8, <3>9
      <2> QED BY <2>1, <2>2
<1>3. PICK r : r = Claimed(p)
      OBVIOUS
<1>4. /\ r \in QueueRecord /\ QueueInv(r, {}) /\ Keeps(p, r) /\ KeepsHead(p, r)
      /\ r.dropped = p.dropped /\ r.buffer = <<>>
      BY <1>2, <1>3, ClaimedKeeps
<1>5. ClaimBuffer(q) = r
      BY <1>1, <1>3 DEF ClaimBuffer
<1>6. Keeps(q, r)
      BY <1>2, <1>4, KeepsIsTransitive
<1>7. KeepsHead(q, r)
      BY <1>2, <1>4 DEF KeepsHead
<1> QED BY <1>2, <1>4, <1>5, <1>6, <1>7

-----------------------------------------------------------------------------
\* The first batch leaves the chain, once what is told of it was sent or told.
LEMMA SettledKeeps ==
    ASSUME NEW q \in QueueRecord, NEW r \in QueueRecord, NEW T, QueueInv(q, T), q.chain # <<>>,
           T = {} \/ T = Range(Head(q.chain)),
           r.next = q.next, r.closed = q.closed, r.buffer = q.buffer, r.dropped = q.dropped,
           r.chain = Tail(q.chain), r.claimed = q.claimed,
           r.queued = q.queued - Len(Head(q.chain)),
           r.reported = q.reported, r.reports = q.reports, r.ignored = q.ignored,
           r.sent = q.sent \cup (Range(Head(q.chain)) \ T)
    PROVE  QueueInv(r, {}) /\ Keeps(q, r)
<1>1. PICK batch \in Lists, chain \in Chains, rest \in Chains, k \in Nat :
        /\ batch = Head(chain) /\ chain = q.chain /\ rest = Tail(chain)
        /\ k = Len(rest) /\ Len(chain) = k + 1
      <2>1. q.chain \in Chains /\ Head(q.chain) \in Lists /\ Tail(q.chain) \in Chains
            BY OneBatchLess DEF QueueRecord
      <2>2. Len(Tail(q.chain)) \in Nat /\ Len(q.chain) \in Nat
              /\ Len(Tail(q.chain)) = Len(q.chain) - 1
            BY <2>1, OneBatchLess, LenProperties DEF Chains
      <2>3. Len(q.chain) = Len(Tail(q.chain)) + 1
            BY <2>2
      <2> QED BY <2>1, <2>2, <2>3
<1>2. /\ DOMAIN chain = 1 .. k + 1 /\ DOMAIN rest = 1 .. k /\ batch = chain[1]
      /\ \A i \in 1 .. k : rest[i] = chain[i + 1]
      /\ Chained(chain) = Range(batch) \cup Chained(rest)
      <2>1. Len(chain) - 1 = k
            BY <1>1
      <2> QED BY <1>1, <2>1, OneBatchLess
<1>3. /\ ChainInOrder(rest) /\ InOrder(batch) /\ batch # <<>>
      /\ AllBefore(Range(batch), Chained(rest))
      BY <1>1, OrderOfLess DEF QueueInv, QueueOrder
<1>4. Range(batch) \subseteq Nat /\ Chained(rest) \cap Range(batch) = {}
      <2>1. Range(batch) \subseteq Nat
            BY <1>3, OrderedCount
      <2> QED BY <1>3, <2>1 DEF AllBefore
<1>5. QueueOrder(r)
      BY <1>1, <1>2, <1>3 DEF QueueInv, QueueOrder, AllBefore
<1>6. Apart(r, {})
      <2>1. CASE T = {}
            BY <1>1, <1>2, <1>4, <2>1 DEF QueueInv, Apart
      <2>2. CASE T = Range(batch)
            <3>1. r.sent = q.sent
                  BY <1>1, <2>2
            <3> QED BY <1>1, <1>2, <1>4, <2>2, <3>1 DEF QueueInv, Apart
      <2> QED BY <1>1, <2>1, <2>2
<1>7. Whole(r)
      <2>1. CASE T = {}
            BY <1>1, <1>2, <2>1 DEF QueueInv, Whole
      <2>2. CASE T = Range(batch)
            <3>1. Range(batch) \subseteq q.reported
                  BY <2>2 DEF QueueInv, Apart
            <3> QED BY <1>1, <1>2, <2>2, <3>1 DEF QueueInv, Whole
      <2> QED BY <1>1, <2>1, <2>2
<1>8. Counts(r)
      <2>1. IsFiniteSet(Range(batch)) /\ Cardinality(Range(batch)) = Len(batch)
              /\ Len(batch) \in Nat
            BY <1>3, OrderedCount, LenProperties DEF Lists
      <2>2. IsFiniteSet(Chained(rest))
            <3>1. IsFiniteSet(Chained(chain)) /\ Chained(rest) \subseteq Chained(chain)
                  BY <1>1, <1>2, QueueFinite DEF QueueInv
            <3> QED BY <3>1, FS_Subset
      <2>3. PICK before, after : before = Range(batch) \cup Chained(rest) /\ after = Chained(rest)
            OBVIOUS
      <2>4. Cardinality(before) = Len(batch) + Cardinality(after) /\ Cardinality(after) \in Nat
            <3>1. Range(batch) \cap Chained(rest) = {}
                  BY <1>4
            <3>2. /\ Cardinality(before) = Cardinality(Range(batch)) + Cardinality(after)
                  /\ Cardinality(after) \in Nat
                  BY ONLY <2>1, <2>2, <2>3, <3>1, CountsAdd
            <3> QED BY <2>1, <3>2
      <2>5. q.queued = Cardinality(before)
            BY <1>1, <1>2, <2>3 DEF QueueInv, Counts
      <2>6. q.queued - Len(batch) = Cardinality(after)
            BY <2>1, <2>4, <2>5
      <2>7. Len(q.buffer) + q.queued <= MaxQueuedEvents /\ MaxQueuedEvents \in Nat
            BY BatcherAssumption DEF QueueInv, Counts
      <2>8. Len(q.buffer) \in Nat
            BY LenProperties DEF QueueRecord, Lists
      <2>9. Len(q.buffer) + (q.queued - Len(batch)) <= MaxQueuedEvents
            BY <2>1, <2>4, <2>5, <2>7, <2>8
      <2> QED BY <1>1, <2>3, <2>6, <2>9 DEF QueueInv, Counts
<1>9. Keeps(q, r)
      <2>1. Range(batch) \subseteq Done(r) /\ Done(q) \subseteq Done(r)
            <3>1. T \subseteq q.reported
                  BY DEF QueueInv, Apart
            <3> QED BY <1>1, <3>1 DEF Done
      <2>2. ASSUME NEW e, NEW u, Covered(q, e, u) PROVE Covered(r, e, u)
            <3>1. CASE e \in Done(q)
                  BY <2>1, <3>1 DEF Covered
            <3>2. CASE \E i \in 1 .. k + 1 : e \in Range(chain[i]) /\ q.claimed - (k + 1) + i <= u
                  <4>1. PICK i \in 1 .. k + 1 : e \in Range(chain[i])
                               /\ q.claimed - (k + 1) + i <= u
                        BY <3>2
                  <4>2. CASE i = 1
                        BY <1>2, <2>1, <4>1, <4>2 DEF Covered
                  <4>3. CASE i # 1
                        <5>1. PICK j \in 1 .. k : i = j + 1
                              BY <4>3
                        <5>2. e \in Range(rest[j])
                              BY <1>2, <4>1, <5>1
                        <5>3. q.claimed - (k + 1) + i = q.claimed - k + j
                              <6>1. q.claimed \in Nat
                                    BY DEF QueueRecord
                              <6> QED BY <5>1, <6>1
                        <5> QED BY <1>1, <1>2, <4>1, <5>2, <5>3 DEF Covered
                  <4> QED BY <4>2, <4>3
            <3> QED BY <1>1, <1>2, <2>2, <3>1, <3>2 DEF Covered
      <2>3. \A last \in Nat : LastOk(q, last) => LastOk(r, last)
            <3> SUFFICES ASSUME NEW last \in Nat, LastOk(q, last), NEW i \in 1 .. k
                         PROVE  last <= Last(rest[i])
                BY <1>1, <1>2 DEF LastOk
            <3>1. i + 1 \in 1 .. k + 1
                  OBVIOUS
            <3>2. last <= Last(chain[i + 1])
                  BY <1>1, <1>2, <3>1 DEF LastOk
            <3>3. rest[i] = chain[i + 1]
                  BY <1>2
            <3> QED BY <3>2, <3>3, Zenon
      <2>4. q.next \in Nat
            BY DEF QueueRecord
      <2>5. \A e \in 1 .. r.next - 1 : e < q.next
            BY <2>4
      <2> QED BY <2>1, <2>2, <2>3, <2>4, <2>5 DEF Keeps
<1>10. r.next > 0
       BY DEF QueueInv
<1> QED BY <1>5, <1>6, <1>7, <1>8, <1>9, <1>10 DEF QueueInv

\* The first batch is told, the hook runs, and the batch leaves.
LEMMA GiveUpKeeps ==
    ASSUME NEW q \in QueueRecord, QueueInv(q, {}), q.chain # <<>>
    PROVE  GiveUp(q) \in QueueRecord /\ QueueInv(GiveUp(q), {}) /\ Keeps(q, GiveUp(q))
<1>1. PICK t : t = Told(q, Head(q.chain))
      OBVIOUS
<1>2. /\ t \in QueueRecord /\ QueueInv(t, Range(Head(q.chain))) /\ Keeps(q, t) /\ KeepsHead(q, t)
      BY <1>1, ToldHeadKeeps
<1>3. PICK p : p = After(t)
      OBVIOUS
<1>4. /\ p \in QueueRecord /\ QueueInv(p, Range(Head(q.chain))) /\ Keeps(t, p) /\ KeepsHead(t, p)
      BY <1>2, <1>3, AfterKeeps
<1>5. p.chain # <<>> /\ Head(p.chain) = Head(q.chain)
      BY <1>2, <1>4 DEF KeepsHead
<1>6. PICK r : r = Settle(p)
      OBVIOUS
<1>7. PICK batch \in Lists, rest \in Chains : batch = Head(p.chain) /\ rest = Tail(p.chain)
      BY <1>4, <1>5, OneBatchLess DEF QueueRecord
<1>8. r = [p EXCEPT !.chain = rest, !.queued = @ - Len(batch)]
      BY <1>6, <1>7 DEF Settle, QueueRecord
<1>9. p.queued - Len(batch) \in Nat
      <2>1. InOrder(batch) /\ Range(batch) \subseteq Chained(p.chain)
            BY <1>4, <1>5, <1>7, OrderOfLess, OneBatchLess DEF QueueRecord, QueueInv, QueueOrder
      <2>2. IsFiniteSet(Chained(p.chain)) /\ Cardinality(Chained(p.chain)) = p.queued
            BY <1>4, QueueFinite DEF QueueInv, Counts
      <2>3. Cardinality(Range(batch)) = Len(batch)
            BY <2>1, OrderedCount
      <2>4. Len(batch) \in Nat /\ p.queued \in Nat
            BY <1>4, LenProperties DEF Lists, QueueRecord
      <2>5. Cardinality(Range(batch)) <= Cardinality(Chained(p.chain))
            BY <2>1, <2>2, FS_Subset
      <2>6. Len(batch) <= p.queued
            BY <2>2, <2>3, <2>5
      <2> QED BY <2>4, <2>6
<1>10. r \in QueueRecord
       BY <1>4, <1>7, <1>8, <1>9 DEF QueueRecord
<1>11. /\ r.next = p.next /\ r.closed = p.closed /\ r.buffer = p.buffer /\ r.dropped = p.dropped
       /\ r.chain = Tail(p.chain) /\ r.claimed = p.claimed
       /\ r.queued = p.queued - Len(Head(p.chain))
       /\ r.reported = p.reported /\ r.reports = p.reports /\ r.ignored = p.ignored
       /\ r.sent = p.sent
       BY <1>4, <1>7, <1>8 DEF QueueRecord
<1>12. r.sent = p.sent \cup (Range(Head(p.chain)) \ Range(Head(p.chain)))
       BY <1>11
<1>13. QueueInv(r, {}) /\ Keeps(p, r)
       BY <1>4, <1>5, <1>10, <1>11, <1>12, SettledKeeps
<1>14. Keeps(q, p)
       BY <1>2, <1>4, KeepsIsTransitive
<1>15. Keeps(q, r)
       BY <1>4, <1>10, <1>13, <1>14, KeepsIsTransitive
<1>16. GiveUp(q) = r
       BY <1>1, <1>3, <1>6, ReportIsAfter DEF GiveUp
<1> QED BY <1>10, <1>13, <1>15, <1>16

\* The first batch was sent, and leaves.
LEMMA SentKeeps ==
    ASSUME NEW q \in QueueRecord, QueueInv(q, {}), q.chain # <<>>,
           NEW r, r = [Settle(q) EXCEPT !.sent = @ \cup Range(Head(q.chain))]
    PROVE  r \in QueueRecord /\ QueueInv(r, {}) /\ Keeps(q, r)
<1>1. PICK batch \in Lists, rest \in Chains : batch = Head(q.chain) /\ rest = Tail(q.chain)
      BY OneBatchLess DEF QueueRecord
<1>2. r = [q EXCEPT !.chain = rest, !.queued = @ - Len(batch), !.sent = @ \cup Range(batch)]
      BY <1>1 DEF Settle, QueueRecord
<1>3. InOrder(batch) /\ Range(batch) \subseteq Chained(q.chain)
      BY <1>1, OrderOfLess, OneBatchLess DEF QueueRecord, QueueInv, QueueOrder
<1>4. Cardinality(Range(batch)) = Len(batch) /\ Range(batch) \subseteq Nat
      BY <1>3, OrderedCount
<1>5. q.queued - Len(batch) \in Nat
      <2>2. IsFiniteSet(Chained(q.chain)) /\ Cardinality(Chained(q.chain)) = q.queued
            BY QueueFinite DEF QueueInv, Counts
      <2>4. Len(batch) \in Nat /\ q.queued \in Nat
            BY LenProperties DEF Lists, QueueRecord
      <2>5. Cardinality(Range(batch)) <= Cardinality(Chained(q.chain))
            BY <1>3, <2>2, FS_Subset
      <2>6. Len(batch) <= q.queued
            BY <1>4, <2>2, <2>5
      <2> QED BY <2>4, <2>6
<1>6. r \in QueueRecord
      <2>1. q.sent \cup Range(batch) \in Sets
            BY <1>4 DEF QueueRecord, Sets
      <2> QED BY <1>1, <1>2, <1>5, <2>1 DEF QueueRecord
<1>7. /\ r.next = q.next /\ r.closed = q.closed /\ r.buffer = q.buffer /\ r.dropped = q.dropped
      /\ r.chain = Tail(q.chain) /\ r.claimed = q.claimed
      /\ r.queued = q.queued - Len(Head(q.chain))
      /\ r.reported = q.reported /\ r.reports = q.reports /\ r.ignored = q.ignored
      /\ r.sent = q.sent \cup (Range(Head(q.chain)) \ {})
      BY <1>1, <1>2 DEF QueueRecord
<1> QED BY <1>6, <1>7, SettledKeeps

-----------------------------------------------------------------------------
\* A piece that moves events forward keeps what the calls rely on.
LEMMA CallsKept ==
    ASSUME NEW q \in QueueRecord, NEW r \in QueueRecord, NEW f,
             NEW c, Keeps(q, r), CallsOk(q, f, c)
    PROVE  CallsOk(r, f, c)
<1>1. q.next \in Nat /\ r.next \in Nat
      BY DEF QueueRecord
<1>2. ASSUME q.closed, NEW e \in 1 .. r.next - 1 PROVE e \in 1 .. q.next - 1 \/ e \in Done(r)
      BY <1>1, <1>2 DEF Keeps
<1>3. c.pc # "open" => q.closed /\ r.closed
      BY DEF CallsOk, Keeps
<1>4. r.closed => r.buffer = <<>> /\ r.dropped = <<>>
      BY DEF CallsOk, Keeps
<1>5. ASSUME c.pc = "waiting", NEW e \in 1 .. r.next - 1 PROVE Covered(r, e, c.upto)
      <2>1. CASE e \in Done(r)
            BY <2>1 DEF Covered
      <2>2. CASE e \in 1 .. q.next - 1
            BY <1>5, <2>2 DEF CallsOk, Keeps
      <2> QED BY <1>2, <1>3, <1>5, <2>1, <2>2
<1>6. ASSUME c.pc = "returned", NEW e \in 1 .. r.next - 1 PROVE e \in Done(r)
      BY <1>2, <1>3, <1>6 DEF CallsOk, Keeps
<1>7. f.pc = "waiting" => \A e \in f.events : Covered(r, e, f.upto)
      BY DEF CallsOk, Keeps
<1>8. f.pc = "returned" => f.events \subseteq Done(r)
      BY DEF CallsOk, Keeps
<1> QED BY <1>3, <1>4, <1>5, <1>6, <1>7, <1>8 DEF CallsOk

\* Once the buffer is claimed, all that is not in the list of drops is done or
\* in a batch.
LEMMA AllCovered ==
    ASSUME NEW r \in QueueRecord, QueueInv(r, {}), r.buffer = <<>>,
           NEW e \in 1 .. r.next - 1, e \notin Range(r.dropped)
    PROVE  Covered(r, e, r.claimed)
<1>1. e \in Done(r) \/ e \in Chained(r.chain)
      BY EmptyLists DEF QueueInv, Whole, Done
<1>2. CASE e \in Chained(r.chain)
      <2>1. PICK i \in DOMAIN r.chain : e \in Range(r.chain[i])
            BY <1>2, ChainedIs
      <2>2. DOMAIN r.chain = 1 .. Len(r.chain) /\ Len(r.chain) \in Nat /\ r.claimed \in Nat
            BY LenProperties DEF QueueRecord, Chains
      <2>3. r.claimed - Len(r.chain) + i <= r.claimed
            BY <2>1, <2>2
      <2> QED BY <2>1, <2>3 DEF Covered
<1> QED BY <1>1, <1>2 DEF Covered

\* Once the batches up to u are settled, what they cover is done.
LEMMA SettledIsDone ==
    ASSUME NEW q \in QueueRecord, NEW u \in Nat, q.claimed - Len(q.chain) >= u,
           NEW e, Covered(q, e, u)
    PROVE  e \in Done(q)
<1>1. DOMAIN q.chain = 1 .. Len(q.chain) /\ Len(q.chain) \in Nat /\ q.claimed \in Nat
      BY LenProperties DEF QueueRecord, Chains
<1>2. \A i \in DOMAIN q.chain : ~(q.claimed - Len(q.chain) + i <= u)
      BY <1>1
<1> QED BY <1>2 DEF Covered

\* The first batch ends with a version no earlier than what the server has.
LEMMA HeadMayReplace ==
    ASSUME NEW q \in QueueRecord, QueueInv(q, {}), q.chain # <<>>,
             NEW last \in Nat, LastOk(q, last)
    PROVE  /\ Last(Head(q.chain)) \in Nat /\ last <= Last(Head(q.chain))
           /\ LastOk(q, Last(Head(q.chain)))
<1>0. PICK chain : chain = q.chain
      OBVIOUS
<1>a. chain \in Chains /\ ChainInOrder(chain) /\ chain # <<>>
      BY <1>0 DEF QueueRecord, QueueInv, QueueOrder
<1>b. PICK batch, n : batch = Head(chain) /\ n = Len(chain)
      OBVIOUS
<1>1. /\ chain = q.chain /\ chain \in Chains /\ n \in Nat /\ batch = Head(chain)
           /\ batch \in Lists
      /\ n > 0 /\ DOMAIN chain = 1 .. n /\ batch = chain[1] /\ batch # <<>> /\ ChainInOrder(chain)
      /\ Range(batch) \subseteq Chained(chain)
      <2>1. /\ batch \in Lists /\ n \in Nat /\ n > 0
            /\ DOMAIN chain = 1 .. n /\ batch = chain[1]
            /\ Range(batch) \subseteq Chained(chain)
            BY <1>a, <1>b, OneBatchLess
      <2>2. batch # <<>>
            BY <1>a, <1>b, OrderOfLess
      <2> QED BY <1>0, <1>a, <1>b, <2>1, <2>2
<1>2. PICK x \in Nat : x = Last(batch) /\ x \in Range(batch)
      BY <1>1, LastIsIn
<1>3. 1 \in 1 .. n
      BY <1>1
<1>4. last <= Last(chain[1])
      BY <1>1, <1>3 DEF LastOk
<1>5. x < q.next
      <2>1. x \in 1 .. q.next - 1
            BY <1>1, <1>2 DEF QueueInv, Whole
      <2>2. q.next \in Nat
            BY DEF QueueRecord
      <2> QED BY <2>1, <2>2
<1>6. ASSUME NEW i \in 1 .. n PROVE x <= Last(chain[i])
      <2>1. CASE i = 1
            BY <1>1, <1>2, <2>1
      <2>2. CASE i # 1
            <3>1. 1 < i /\ chain[i] \in Lists /\ chain[i] # <<>>
                  <4>1. 1 < i
                        BY <2>2
                  <4>2. chain[i] \in Lists
                        BY <1>1, ElementOfSeq DEF Chains
                  <4>3. chain[i] # <<>>
                        BY <1>1 DEF ChainInOrder
                  <4> QED BY <4>1, <4>2, <4>3
            <3>2. PICK y \in Nat : y = Last(chain[i]) /\ y \in Range(chain[i])
                  BY <3>1, LastIsIn
            <3>3. AllBefore(Range(chain[1]), Range(chain[i]))
                  BY <1>1, <1>3, <3>1 DEF ChainInOrder
            <3>4. x < y
                  BY <1>1, <1>2, <3>2, <3>3 DEF AllBefore
            <3>5. x <= y
                  BY <3>4
            <3> QED BY <3>2, <3>5
      <2> QED BY <2>1, <2>2
<1>7. \A m \in Range(q.buffer) : x < m
      BY <1>1, <1>2 DEF QueueInv, QueueOrder, AllBefore
<1>8. LastOk(q, x)
      BY <1>1, <1>5, <1>6, <1>7 DEF LastOk
<1> QED BY <1>1, <1>2, <1>4, <1>8

-----------------------------------------------------------------------------
\* The inductive invariant holds at first.
LEMMA BatcherStarts == BatcherInit => BatcherInv
<1> SUFFICES ASSUME BatcherInit PROVE BatcherInv
    OBVIOUS
<1>1. /\ queue.next = 1 /\ queue.closed = FALSE /\ queue.buffer = <<>> /\ queue.queued = 0
      /\ queue.dropped = <<>> /\ queue.chain = <<>> /\ queue.claimed = 0
      /\ queue.sent = {} /\ queue.reported = {} /\ queue.ignored = {} /\ queue.reports = 0
      BY DEF BatcherInit
<1>2. {} \in Sets
      BY DEF Sets
<1>3. BatcherTypes
      <2>1. queue \in QueueRecord
            BY <1>2, EmptyLists DEF BatcherInit, QueueRecord
      <2>2. /\ sending \in [pc : {"idle", "request", "wait"}, attempt : Nat, took : BOOLEAN]
            /\ flushing \in [pc : {"idle", "waiting", "returned"}, upto : Nat, events : Sets]
            /\ closing \in [pc : {"open", "waiting", "returned"}, upto : Nat, aborted : BOOLEAN]
            /\ server.last \in Nat
            BY <1>2 DEF BatcherInit, NotSending, NoCall
      <2> QED BY <2>1, <2>2 DEF BatcherTypes
<1>4. QueueInv(queue, {})
      <2>1. QueueOrder(queue)
            BY <1>1, EmptyLists DEF QueueOrder, AllBefore
      <2>2. Apart(queue, {})
            BY <1>1, EmptyLists DEF Apart
      <2>3. Whole(queue)
            BY <1>1, EmptyLists DEF Whole
      <2>4. Counts(queue)
            <3>1. Cardinality({}) = 0
                  BY FS_EmptySet
            <3>2. 0 + 0 <= MaxQueuedEvents
                  BY BatcherAssumption
            <3> QED BY <1>1, <3>1, <3>2, EmptyLists DEF Counts
      <2> QED BY <1>1, <2>1, <2>2, <2>3, <2>4 DEF QueueInv
<1>5. CallsOk(queue, flushing, closing) /\ sending.pc = "idle"
      BY <1>1 DEF BatcherInit, CallsOk, NotSending, NoCall
<1>6. LastOk(queue, server.last)
      <2>1. server.last = 0 /\ DOMAIN queue.chain = {}
            BY <1>1 DEF BatcherInit
      <2> QED BY <1>1, <2>1, EmptyLists DEF LastOk
<1>7. LateOk(queue, server.lost)
      BY DEF BatcherInit, LateOk
<1> QED BY <1>3, <1>4, <1>5, <1>6, <1>7 DEF BatcherInv

\* A step of the queue alone, as far as the calls and the server are concerned.
LEMMA QueueMoves ==
    ASSUME BatcherInv, queue' \in QueueRecord, QueueInv(queue', {}), Keeps(queue, queue'),
           sending' \in [pc : {"idle", "request", "wait"}, attempt : Nat, took : BOOLEAN],
           sending'.pc # "idle" => queue'.chain # <<>>,
           UNCHANGED <<flushing, closing, server.last>>,
           \/ server'.lost = server.lost
           \/ queue.chain # <<>> /\ server'.lost = Head(queue.chain)
    PROVE  BatcherInv'
<1>1. queue \in QueueRecord /\ server.last \in Nat /\ server'.last = server.last
      BY DEF BatcherInv, BatcherTypes
<1>2. CallsOk(queue', flushing', closing')
      BY <1>1, CallsKept DEF BatcherInv
<1>3. LastOk(queue', server'.last)
      BY <1>1 DEF BatcherInv, Keeps
<1>4. BatcherTypes'
      BY DEF BatcherInv, BatcherTypes
<1>5. LateOk(queue', server'.lost)
      <2>1. LateOk(queue, server'.lost)
            BY <1>1, HeadMayReplace DEF BatcherInv, LateOk
      <2> QED BY <2>1 DEF LateOk, Keeps
<1> QED BY <1>2, <1>3, <1>4, <1>5 DEF BatcherInv

\* An event is recorded.
LEMMA EnqueueKeeps == BatcherInv /\ Enqueue => BatcherInv'
<1> SUFFICES ASSUME BatcherInv, Enqueue PROVE BatcherInv'
    OBVIOUS
<1>1. PICK p \in QueueRecord : /\ p = Pushed(queue)
                               /\ QueueInv(p, {}) /\ Keeps(queue, p) /\ KeepsHead(queue, p)
      BY PushedKeeps DEF BatcherInv, BatcherTypes
<1>2. /\ queue' = IF IsFull(p) THEN ClaimBuffer(p) ELSE p
      /\ UNCHANGED <<hook, sending, flushing, closing, server>>
      BY <1>1 DEF Enqueue
<1>3. /\ queue' \in QueueRecord /\ QueueInv(queue', {}) /\ Keeps(queue, queue')
      /\ KeepsHead(queue, queue')
      <2>1. CASE IsFull(p)
            <3>1. /\ queue' \in QueueRecord /\ QueueInv(queue', {}) /\ Keeps(p, queue')
                  /\ KeepsHead(p, queue')
                  BY <1>1, <1>2, <2>1, ClaimBufferKeeps
            <3>2. Keeps(queue, queue')
                  BY <1>1, <3>1, KeepsIsTransitive DEF BatcherInv, BatcherTypes
            <3> QED BY <1>1, <3>1, <3>2 DEF KeepsHead
      <2>2. CASE ~IsFull(p)
            BY <1>1, <1>2, <2>2
      <2> QED BY <2>1, <2>2
<1>4. sending'.pc # "idle" => queue'.chain # <<>>
      BY <1>2, <1>3 DEF BatcherInv, KeepsHead
<1>5. sending' \in [pc : {"idle", "request", "wait"}, attempt : Nat, took : BOOLEAN]
      BY <1>2 DEF BatcherInv, BatcherTypes
<1> QED BY <1>2, <1>3, <1>4, <1>5, QueueMoves

\* The timer claims the buffer.
LEMMA TimerKeeps == BatcherInv /\ TimerFires => BatcherInv'
<1> SUFFICES ASSUME BatcherInv, TimerFires PROVE BatcherInv'
    OBVIOUS
<1>1. queue' = ClaimBuffer(queue) /\ UNCHANGED <<hook, sending, flushing, closing, server>>
      BY DEF TimerFires
<1>2. /\ queue' \in QueueRecord /\ QueueInv(queue', {}) /\ Keeps(queue, queue')
      /\ KeepsHead(queue, queue')
      BY <1>1, ClaimBufferKeeps DEF BatcherInv, BatcherTypes
<1>3. sending'.pc # "idle" => queue'.chain # <<>>
      BY <1>1, <1>2 DEF BatcherInv, KeepsHead
<1>4. sending' \in [pc : {"idle", "request", "wait"}, attempt : Nat, took : BOOLEAN]
      BY <1>1 DEF BatcherInv, BatcherTypes
<1> QED BY <1>1, <1>2, <1>3, <1>4, QueueMoves

\* flush() waits for the batches claimed by now.
LEMMA FlushKeeps == BatcherInv /\ Flush => BatcherInv'
<1> SUFFICES ASSUME BatcherInv, Flush PROVE BatcherInv'
    OBVIOUS
<1>1. /\ queue' = ClaimBuffer(queue)
      /\ flushing' = [pc |-> "waiting", upto |-> queue'.claimed, events |-> 1 .. queue.next - 1]
      /\ UNCHANGED <<hook, sending, closing, server>>
      BY DEF Flush
<1>2. queue \in QueueRecord /\ queue.next \in Nat /\ server.last \in Nat
      BY DEF BatcherInv, BatcherTypes, QueueRecord
<1>3. /\ queue' \in QueueRecord /\ QueueInv(queue', {}) /\ Keeps(queue, queue')
      /\ KeepsHead(queue, queue') /\ queue'.buffer = <<>>
      /\ \A n \in Range(queue'.dropped) : n >= queue.next
      BY <1>1, <1>2, ClaimBufferKeeps DEF BatcherInv
<1>4. sending'.pc # "idle" => queue'.chain # <<>>
      BY <1>1, <1>3 DEF BatcherInv, KeepsHead
<1>5. BatcherTypes'
      <2>1. queue'.claimed \in Nat /\ 1 .. queue.next - 1 \in Sets
            BY <1>2, <1>3 DEF QueueRecord, Sets
      <2>2. flushing' \in [pc : {"idle", "waiting", "returned"}, upto : Nat, events : Sets]
            BY <1>1, <2>1
      <2> QED BY <1>1, <1>3, <2>2 DEF BatcherInv, BatcherTypes
<1>6. CallsOk(queue', flushing', closing')
      <2>1. CallsOk(queue', flushing, closing)
            BY <1>2, <1>3, CallsKept DEF BatcherInv
      <2>2. ASSUME NEW e \in 1 .. queue.next - 1 PROVE Covered(queue', e, queue'.claimed)
            <3>1. queue'.next \in Nat /\ queue.next <= queue'.next
                  BY <1>3 DEF QueueRecord, Keeps
            <3>2. e \in 1 .. queue'.next - 1 /\ ~(e >= queue.next)
                  BY <1>2, <3>1
            <3> QED BY <1>3, <3>2, AllCovered
      <2> QED BY <1>1, <2>1, <2>2 DEF CallsOk
<1>7. LastOk(queue', server'.last) /\ LateOk(queue', server'.lost)
      BY <1>1, <1>2, <1>3 DEF BatcherInv, Keeps, LateOk
<1> QED BY <1>3, <1>4, <1>5, <1>6, <1>7 DEF BatcherInv

\* close() refuses what comes, and waits for the rest.
LEMMA CloseKeeps == BatcherInv /\ Close => BatcherInv'
<1> SUFFICES ASSUME BatcherInv, Close PROVE BatcherInv'
    OBVIOUS
<1>1. PICK q : q = [queue EXCEPT !.closed = TRUE]
      OBVIOUS
<1>2. /\ closing.pc = "open" /\ queue' = ClaimBuffer(q)
      /\ closing' = [closing EXCEPT !.pc = "waiting", !.upto = queue'.claimed]
      /\ UNCHANGED <<hook, sending, flushing, server>>
      BY <1>1 DEF Close
<1>3. queue \in QueueRecord /\ queue.next \in Nat /\ server.last \in Nat
      BY DEF BatcherInv, BatcherTypes, QueueRecord
<1>4. q \in QueueRecord
      BY <1>1, <1>3 DEF QueueRecord
<1>5. /\ q.next = queue.next /\ q.closed = TRUE /\ q.buffer = queue.buffer
      /\ q.queued = queue.queued /\ q.dropped = queue.dropped /\ q.chain = queue.chain
      /\ q.claimed = queue.claimed /\ q.sent = queue.sent /\ q.reported = queue.reported
      /\ q.ignored = queue.ignored /\ q.reports = queue.reports
      BY <1>1, <1>3 DEF QueueRecord
<1>6. QueueInv(q, {})
      BY <1>5 DEF BatcherInv, QueueInv, QueueOrder, Apart, Whole, Counts
<1>7. /\ queue' \in QueueRecord /\ QueueInv(queue', {}) /\ Keeps(q, queue')
      /\ KeepsHead(q, queue') /\ queue'.buffer = <<>> /\ queue'.dropped = <<>>
      BY <1>2, <1>4, <1>5, <1>6, ClaimBufferKeeps
<1>8. sending'.pc # "idle" => queue'.chain # <<>>
      BY <1>2, <1>5, <1>7 DEF BatcherInv, KeepsHead
<1>9. BatcherTypes'
      <2>1. queue'.claimed \in Nat
            BY <1>7 DEF QueueRecord
      <2>2. closing' \in [pc : {"open", "waiting", "returned"}, upto : Nat, aborted : BOOLEAN]
            BY <1>2, <2>1 DEF BatcherInv, BatcherTypes
      <2> QED BY <1>2, <1>7, <2>2 DEF BatcherInv, BatcherTypes
<1>10. CallsOk(queue', flushing', closing')
      <2>1. closing'.pc = "waiting" /\ closing'.upto = queue'.claimed
            BY <1>2 DEF BatcherInv, BatcherTypes
      <2>2. queue'.closed
            BY <1>5, <1>7 DEF Keeps
      <2>3. \A e \in 1 .. queue'.next - 1 : Covered(queue', e, queue'.claimed)
            BY <1>7, AllCovered, EmptyLists
      <2>4. \A e, u : Covered(queue, e, u) => Covered(queue', e, u)
            <3>1. \A e, u : Covered(queue, e, u) => Covered(q, e, u)
                  BY <1>5 DEF Covered, Done
            <3> QED BY <1>7, <3>1 DEF Keeps
      <2>5. Done(queue) \subseteq Done(queue')
            BY <1>5, <1>7 DEF Keeps, Done
      <2>6. flushing' = flushing
            BY <1>2
      <2> QED BY <1>7, <2>1, <2>2, <2>3, <2>4, <2>5, <2>6 DEF BatcherInv, CallsOk
<1>11. LastOk(queue', server'.last) /\ LateOk(queue', server'.lost)
       <2>1. LastOk(q, server.last) /\ LateOk(q, server.lost)
             BY <1>5 DEF BatcherInv, LastOk, LateOk
       <2> QED BY <1>2, <1>3, <1>7, <2>1 DEF Keeps, LateOk
<1> QED BY <1>7, <1>8, <1>9, <1>10, <1>11 DEF BatcherInv

\* Steps of the calls, which leave the queue, the sender and the server alone.
LEMMA CallKeeps ==
    BatcherInv /\ (FlushReturns \/ FlushTimesOut \/ CloseTimesOut \/ CloseReturns) => BatcherInv'
<1> SUFFICES ASSUME BatcherInv, FlushReturns \/ FlushTimesOut \/ CloseTimesOut \/ CloseReturns
             PROVE  BatcherInv'
    OBVIOUS
<1>1. UNCHANGED <<queue, sending, server>>
      BY DEF FlushReturns, FlushTimesOut, CloseTimesOut, CloseReturns
<1>2. /\ queue \in QueueRecord /\ {} \in Sets
      /\ flushing \in [pc : {"idle", "waiting", "returned"}, upto : Nat, events : Sets]
      /\ closing \in [pc : {"open", "waiting", "returned"}, upto : Nat, aborted : BOOLEAN]
      BY DEF BatcherInv, BatcherTypes, Sets
<1>3. /\ flushing' \in [pc : {"idle", "waiting", "returned"}, upto : Nat, events : Sets]
      /\ closing' \in [pc : {"open", "waiting", "returned"}, upto : Nat, aborted : BOOLEAN]
      /\ CallsOk(queue, flushing', closing')
      <2>1. CASE FlushReturns
            <3>1. /\ flushing.pc = "waiting" /\ queue.claimed - Len(queue.chain) >= flushing.upto
                  /\ flushing' = [flushing EXCEPT !.pc = "returned"] /\ closing' = closing
                  BY <2>1 DEF FlushReturns, Settled
            <3>2. \A e \in flushing.events : Covered(queue, e, flushing.upto)
                  BY <3>1 DEF BatcherInv, CallsOk
            <3>3. flushing.upto \in Nat
                  BY <1>2
            <3>4. flushing.events \subseteq Done(queue)
                  BY <1>2, <3>1, <3>2, <3>3, SettledIsDone
            <3>5. /\ flushing' \in [pc : {"idle", "waiting", "returned"}, upto : Nat, events : Sets]
                  /\ flushing'.pc = "returned" /\ flushing'.events = flushing.events
                  BY <1>2, <3>1
            <3> QED BY <1>2, <3>1, <3>4, <3>5 DEF BatcherInv, CallsOk
      <2>2. CASE FlushTimesOut
            BY <1>2, <2>2 DEF FlushTimesOut, NoCall, BatcherInv, CallsOk
      <2>3. CASE CloseTimesOut
            <3>1. closing' = [closing EXCEPT !.aborted = TRUE] /\ flushing' = flushing
                  BY <2>3 DEF CloseTimesOut
            <3>2. /\ closing' \in [pc : {"open", "waiting", "returned"}, upto : Nat, aborted : BOOLEAN]
                  /\ closing'.pc = closing.pc /\ closing'.upto = closing.upto
                  BY <1>2, <3>1
            <3> QED BY <1>2, <3>1, <3>2 DEF BatcherInv, CallsOk
      <2>4. CASE CloseReturns
            <3>1. /\ closing.pc = "waiting" /\ queue.claimed - Len(queue.chain) >= closing.upto
                  /\ closing' = [closing EXCEPT !.pc = "returned"] /\ flushing' = flushing
                  BY <2>4 DEF CloseReturns, Settled
            <3>2. \A e \in 1 .. queue.next - 1 : Covered(queue, e, closing.upto)
                  BY <3>1 DEF BatcherInv, CallsOk
            <3>3. closing.upto \in Nat
                  BY <1>2
            <3>4. 1 .. queue.next - 1 \subseteq Done(queue)
                  BY <1>2, <3>1, <3>2, <3>3, SettledIsDone
            <3>5. /\ closing' \in [pc : {"open", "waiting", "returned"}, upto : Nat, aborted : BOOLEAN]
                  /\ closing'.pc = "returned"
                  BY <1>2, <3>1
            <3> QED BY <1>2, <3>1, <3>4, <3>5 DEF BatcherInv, CallsOk
      <2> QED BY <2>1, <2>2, <2>3, <2>4
<1> QED BY <1>1, <1>3 DEF BatcherInv, BatcherTypes

\* The sender, which may give the first batch up.
LEMMA SenderKeeps ==
    BatcherInv /\ (BeginSend \/ Sent \/ Rejected \/ Fails \/ Aborted \/ WaitEnds) => BatcherInv'
<1> SUFFICES ASSUME BatcherInv, BeginSend \/ Sent \/ Rejected \/ Fails \/ Aborted \/ WaitEnds
             PROVE  BatcherInv'
    OBVIOUS
<1> DEFINE Senders == [pc : {"idle", "request", "wait"}, attempt : Nat, took : BOOLEAN]
<1>1. /\ UNCHANGED <<flushing, closing, server.last>>
      /\ \/ server'.lost = server.lost
         \/ sending.pc = "request" /\ server'.lost = Head(queue.chain)
      BY DEF BeginSend, Sent, Rejected, Fails, Aborted, WaitEnds, Abandoned
<1>a. \/ server'.lost = server.lost
      \/ queue.chain # <<>> /\ server'.lost = Head(queue.chain)
      BY <1>1 DEF BatcherInv
<1>2. queue \in QueueRecord /\ QueueInv(queue, {}) /\ sending \in Senders
        /\ NotSending \in Senders
      BY DEF BatcherInv, BatcherTypes, NotSending
<1>3. NotSending.pc = "idle"
      BY DEF NotSending
<1>4. CASE BeginSend
      <2>1. queue' = queue /\ queue.chain # <<>> /\ sending' \in Senders
            BY <1>2, <1>4 DEF BeginSend, NotSending
      <2>2. Keeps(queue, queue')
            BY <1>2, <2>1, KeepsTheChain
      <2> QED BY <1>1, <1>a, <1>2, <2>1, <2>2, QueueMoves
<1>5. CASE Sent
      <2>1. /\ sending' = NotSending /\ queue.chain # <<>>
            /\ queue' = [Settle(queue) EXCEPT !.sent = @ \cup Range(Head(queue.chain))]
            BY <1>5 DEF Sent, BatcherInv
      <2>2. queue' \in QueueRecord /\ QueueInv(queue', {}) /\ Keeps(queue, queue')
            BY <1>2, <2>1, SentKeeps
      <2> QED BY <1>1, <1>a, <1>2, <1>3, <2>1, <2>2, QueueMoves
<1>6. ASSUME sending' = NotSending, queue' = GiveUp(queue), sending.pc # "idle" PROVE BatcherInv'
      <2>1. queue.chain # <<>>
            BY <1>6 DEF BatcherInv
      <2>2. queue' \in QueueRecord /\ QueueInv(queue', {}) /\ Keeps(queue, queue')
            BY <1>2, <1>6, <2>1, GiveUpKeeps
      <2> QED BY <1>1, <1>a, <1>2, <1>3, <1>6, <2>2, QueueMoves
<1>7. ASSUME sending' \in Senders, queue' = queue, sending.pc # "idle" PROVE BatcherInv'
      <2>1. queue'.chain # <<>>
            BY <1>7 DEF BatcherInv
      <2>2. Keeps(queue, queue')
            BY <1>2, <1>7, KeepsTheChain
      <2> QED BY <1>1, <1>a, <1>2, <1>7, <2>1, <2>2, QueueMoves
<1>8. CASE Rejected
      BY <1>6, <1>8 DEF Rejected
<1>9. CASE Aborted
      BY <1>6, <1>9 DEF Aborted
<1>10. CASE Fails
       <2>1. sending.pc = "request"
             BY <1>10 DEF Fails
       <2>2. \/ sending' = NotSending /\ queue' = GiveUp(queue)
             \/ sending' = [sending EXCEPT !.pc = "wait"] /\ queue' = queue
             BY <1>10 DEF Fails
       <2>3. [sending EXCEPT !.pc = "wait"] \in Senders
             BY <1>2
       <2> QED BY <1>6, <1>7, <2>1, <2>2, <2>3
<1>11. CASE WaitEnds
       <2>1. sending.pc = "wait"
             BY <1>11 DEF WaitEnds
       <2>2. \/ sending' = NotSending /\ queue' = GiveUp(queue)
             \/ /\ sending' = [pc |-> "request", attempt |-> sending.attempt + 1, took |-> FALSE]
                /\ queue' = queue
             BY <1>11 DEF WaitEnds
       <2>3. [pc |-> "request", attempt |-> sending.attempt + 1, took |-> FALSE] \in Senders
             BY <1>2
       <2> QED BY <1>6, <1>7, <2>1, <2>2, <2>3
<1> QED BY <1>4, <1>5, <1>8, <1>9, <1>10, <1>11

\* The server: what it stores last is not an earlier version.
LEMMA ServerKeeps == BatcherInv /\ ServerTakes => BatcherInv' /\ server'.last >= server.last
<1> SUFFICES ASSUME BatcherInv, ServerTakes PROVE BatcherInv' /\ server'.last >= server.last
    OBVIOUS
<1>1. /\ sending.pc # "idle" /\ sending' = [sending EXCEPT !.took = TRUE]
      /\ server'.last = Last(Head(queue.chain)) /\ server'.lost = server.lost
      /\ UNCHANGED <<queue, flushing, closing>>
      BY DEF ServerTakes, Stores
<1>2. queue \in QueueRecord /\ QueueInv(queue, {}) /\ queue.chain # <<>> /\ server.last \in Nat
      BY <1>1 DEF BatcherInv, BatcherTypes
<1>3. /\ server'.last \in Nat /\ server.last <= server'.last /\ LastOk(queue, server'.last)
      BY <1>1, <1>2, HeadMayReplace DEF BatcherInv
<1>4. sending' \in [pc : {"idle", "request", "wait"}, attempt : Nat, took : BOOLEAN]
      BY <1>1 DEF BatcherInv, BatcherTypes
<1>5. BatcherTypes'
      BY <1>1, <1>3, <1>4 DEF BatcherInv, BatcherTypes
<1>6. BatcherInv'
      BY <1>1, <1>2, <1>3, <1>5 DEF BatcherInv
<1> QED BY <1>2, <1>3, <1>6

\* A request that was given up is no later than what is to be sent.
LEMMA LateKeeps == BatcherInv /\ ArrivesLate => BatcherInv'
<1> SUFFICES ASSUME BatcherInv, ArrivesLate PROVE BatcherInv'
    OBVIOUS
<1>1. /\ server'.last = Last(server.lost) /\ server'.lost = <<>> /\ server.lost # <<>>
      /\ UNCHANGED <<queue, sending, flushing, closing>>
      BY DEF ArrivesLate, Stores
<1>2. server'.last \in Nat /\ LastOk(queue, server'.last)
      BY <1>1 DEF BatcherInv, LateOk
<1>3. BatcherTypes'
      BY <1>1, <1>2 DEF BatcherInv, BatcherTypes
<1> QED BY <1>1, <1>2, <1>3 DEF BatcherInv, LateOk

\* Every step keeps the invariant, and moves the last version the server has
\* forward or not at all, but for a request that arrives late.
LEMMA BatcherStep ==
    BatcherInv /\ [BatcherNext]_batcherVars
      => BatcherInv' /\ [ArrivesLate \/ server'.last >= server.last]_batcherVars
<1> SUFFICES ASSUME BatcherInv, [BatcherNext]_batcherVars
             PROVE  BatcherInv' /\ [ArrivesLate \/ server'.last >= server.last]_batcherVars
    OBVIOUS
<1>1. server.last \in Nat
      BY DEF BatcherInv, BatcherTypes
<1>2. server'.last = server.last => server'.last >= server.last
      BY <1>1
<1>3. CASE UNCHANGED batcherVars
      BY <1>3 DEF batcherVars, BatcherInv, BatcherTypes
<1>4. CASE Enqueue
      BY <1>2, <1>4, EnqueueKeeps DEF Enqueue
<1>5. CASE TimerFires
      BY <1>2, <1>5, TimerKeeps DEF TimerFires
<1>6. CASE Flush
      BY <1>2, <1>6, FlushKeeps DEF Flush
<1>7. CASE Close
      BY <1>2, <1>7, CloseKeeps DEF Close
<1>8. CASE FlushReturns \/ FlushTimesOut \/ CloseTimesOut \/ CloseReturns
      <2>1. server' = server
            BY <1>8 DEF FlushReturns, FlushTimesOut, CloseTimesOut, CloseReturns
      <2> QED BY <1>2, <1>8, <2>1, CallKeeps
<1>9. CASE BeginSend \/ Sent \/ Rejected \/ Fails \/ Aborted \/ WaitEnds
      <2>1. server'.last = server.last
            BY <1>9 DEF BeginSend, Sent, Rejected, Fails, Aborted, WaitEnds, Abandoned
      <2> QED BY <1>2, <1>9, <2>1, SenderKeeps
<1>10. CASE ServerTakes
       BY <1>10, ServerKeeps
<1>11. CASE ArrivesLate
       BY <1>11, LateKeeps
<1> QED BY <1>3, <1>4, <1>5, <1>6, <1>7, <1>8, <1>9, <1>10, <1>11 DEF BatcherNext

\* The inductive invariant always holds.
LEMMA BatcherAlways == BatcherSpec => []BatcherInv
<1>1. BatcherInit => BatcherInv
      BY BatcherStarts
<1>2. BatcherInv /\ [BatcherNext]_batcherVars => BatcherInv'
      BY BatcherStep
<1> QED BY <1>1, <1>2, PTL DEF BatcherSpec

\* The invariant says of every event what EachEventOnce does.
LEMMA InvMeansOnce == BatcherInv => EachEventOnce
<1> SUFFICES ASSUME BatcherInv PROVE EachEventOnce
    OBVIOUS
<1>1. QueueInv(queue, {}) /\ queue \in QueueRecord
      BY DEF BatcherInv, BatcherTypes
<1>2. InChain = Chained(queue.chain)
      BY DEF InChain, Chained
<1>3. ASSUME NEW i \in DOMAIN Places, NEW j \in DOMAIN Places, i < j
      PROVE  Places[i] \cap Places[j] = {}
      <2>1. /\ DOMAIN Places = 1 .. 6
            /\ Places[1] = Range(queue.buffer) /\ Places[2] = Chained(queue.chain)
            /\ Places[3] = Range(queue.dropped) /\ Places[4] = queue.sent
            /\ Places[5] = queue.reported /\ Places[6] = queue.ignored
            BY <1>2 DEF Places
      <2>2. i \in 1 .. 6 /\ j \in 1 .. 6
            BY <2>1
      <2>3. /\ i \in {1, 2, 3, 4, 5, 6} /\ j \in {1, 2, 3, 4, 5, 6}
            BY <2>2
      <2>4. Apart(queue, {})
            BY <1>1 DEF QueueInv
      <2>5. CASE i = 1
            BY <1>3, <2>1, <2>3, <2>4, <2>5 DEF Apart
      <2>6. CASE i = 2
            BY <1>3, <2>1, <2>3, <2>4, <2>6 DEF Apart
      <2>7. CASE i = 3
            BY <1>3, <2>1, <2>3, <2>4, <2>7 DEF Apart
      <2>8. CASE i = 4
            BY <1>3, <2>1, <2>3, <2>4, <2>8 DEF Apart
      <2>9. CASE i = 5
            BY <1>3, <2>1, <2>3, <2>4, <2>9 DEF Apart
      <2>10. i # 6
             BY <1>3, <2>3
      <2> QED BY <2>3, <2>5, <2>6, <2>7, <2>8, <2>9, <2>10
<1>4. Counted
      BY <1>1, <1>2 DEF QueueInv, Counts, Counted
<1>5. ReturnedMeansDone
      BY DEF BatcherInv, CallsOk, Done, ReturnedMeansDone
<1> QED BY <1>3, <1>4, <1>5 DEF EachEventOnce

\* At any number of events, batch and queue size, whether or not the error hook
\* records events of its own: every recorded event is in exactly one place, still
\* to be sent, sent, reported once, or refused after close(); the count against
\* maxQueuedEvents is exact; and what flush() and close() were called for is done
\* when they return (client.ts, enqueue, claimBuffer, send, flush and close).
THEOREM EventsKeptOnce == BatcherSpec => []EachEventOnce
<1>1. BatcherSpec => []BatcherInv
      BY BatcherAlways
<1>2. BatcherInv => EachEventOnce
      BY InvMeansOnce
<1> QED BY <1>1, <1>2, PTL

\* The last version of a trace the server stored is never replaced by an earlier
\* one, but by a request that arrives after the client gave it up: batches are sent one after the other in the order they were claimed, and
\* within a batch the events keep theirs (client.ts, claimBuffer and send).
THEOREM VersionsMoveForward == BatcherSpec => LaterVersionStays
<1>1. BatcherSpec => []BatcherInv
      BY BatcherAlways
<1>2. BatcherInv /\ [BatcherNext]_batcherVars
        => [ArrivesLate \/ server'.last >= server.last]_batcherVars
      BY BatcherStep
<1> QED BY <1>1, <1>2, PTL DEF BatcherSpec, LaterVersionStays
=============================================================================
