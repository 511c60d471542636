--------------------------- MODULE Instrumentation ---------------------------
(***************************************************************************)
(* The SDK's wrappers of the OpenAI and Anthropic clients: one create()    *)
(* call whose generation is ended when the caller learns of its result.    *)
(* A streamed result is the provider's own object with its iterators       *)
(* patched in place; the caller may read it whole, stop early, split it    *)
(* with tee(), or by mistake read it twice.                                *)
(***************************************************************************)
EXTENDS Integers, Sequences, SequencesExt

CONSTANTS
    MaxChunks,  \* bound on the chunks of a stream
    NumParts,   \* the choices, or content blocks, its chunks belong to
    Shapes      \* what a result is: a subset of ResultShapes

\* "whole": not streamed; "stream": the SDKs' Stream, whose asyncIterator and
\* tee() go through iterator(); "apart": a stream where asyncIterator does not;
\* "iterable": has an asyncIterator only; "opaque": not iterable at all.
ResultShapes == {"whole", "stream", "apart", "iterable", "opaque"}

ASSUME InstrumentationAssumption ==
    MaxChunks \in Nat /\ NumParts \in Nat \ {0} /\ Shapes \subseteq ResultShapes

VARIABLES
    call,       \* the request, what the caller knows of it, and the result's shape
    failing,    \* a failure that asResponse() or the promise is about to tell
    settled,    \* recordResult's flag
    generation, \* how often and how it ended, and what its output is
    finished,   \* finishOnce's flag
    source,     \* the provider's stream: chunks yielded, and whether it is over
    reader      \* the iterators that were made: the layers of each, next() calls
                \* under way, and the parts of the output gathered so far

sdkVars == <<call, failing, settled, generation, finished, source, reader>>

Parts == 0 .. NumParts - 1
\* Chunk n of the stream, whatever it holds, belongs to one part.
PartOf(chunk) == chunk % NumParts
Empty == [p \in Parts |-> <<>>]

SdkInit ==
    /\ \E shape \in Shapes : call = [pc |-> "new", shape |-> shape]
    /\ failing = FALSE /\ settled = FALSE
    /\ generation = [ends |-> 0, how |-> "open", output |-> Empty]
    /\ finished = FALSE
    /\ source = [yielded |-> 0, over |-> "no", read |-> <<>>]
    /\ reader = [layers |-> <<>>, nexts |-> 0, gathered |-> Empty]

End(how, output) ==
    generation' = [ends |-> generation.ends + 1, how |-> how, output |-> output]
NoEnd == UNCHANGED generation

-----------------------------------------------------------------------------
\* The call and its result: wrapOpenAI, wrapAnthropic, recordResult.

\* create() itself throws, or returns a promise.
Create ==
    /\ call.pc = "new"
    /\ \/ call' = [call EXCEPT !.pc = "failed"] /\ End("error", Empty)
       \/ call' = [call EXCEPT !.pc = "pending"] /\ NoEnd
    /\ UNCHANGED <<failing, settled, finished, source, reader>>

\* No response came: asResponse() tells the wrapper, whether or not the caller
\* reads the result.
RequestFails ==
    /\ call.pc = "pending" /\ call' = [call EXCEPT !.pc = "failed"]
    /\ failing' = TRUE
    /\ UNCHANGED <<settled, generation, finished, source, reader>>

Responds ==
    /\ call.pc = "pending" /\ call' = [call EXCEPT !.pc = "responded"]
    /\ UNCHANGED <<failing, settled, generation, finished, source, reader>>

\* fail: once, and not after the result was read.
TellFailure ==
    /\ failing /\ failing' = FALSE /\ settled' = TRUE
    /\ IF settled THEN NoEnd ELSE End("error", Empty)
    /\ UNCHANGED <<call, finished, source, reader>>

\* The caller reads the result: the body is parsed, once, and handed to
\* onValue, or it is cut off.
ReadResult ==
    /\ call.pc = "responded"
    /\ \/ call' = [call EXCEPT !.pc = "failed"] /\ failing' = TRUE /\ UNCHANGED settled /\ NoEnd
       \/ /\ settled' = TRUE /\ UNCHANGED failing
          /\ call' = [call EXCEPT !.pc = IF call.shape \in {"whole", "opaque"} THEN "done" ELSE "streaming"]
          /\ CASE call.shape = "whole" -> End("whole", Empty)
               [] call.shape = "opaque" -> End("bare", Empty)
               [] OTHER -> NoEnd
    /\ UNCHANGED <<finished, source, reader>>

-----------------------------------------------------------------------------
\* The stream: instrumentAsyncIterable.

FromIterator(how) == how = "tee" \/ call.shape = "stream"

\* Seeded bug: asyncIterator does not see that iterator() wrapped it already.
LayersTwice(how) ==
    (IF FromIterator(how) THEN 1 ELSE 0) + (IF how = "iterate" THEN 1 ELSE 0)

\* How often an iterator is wrapped: iterator() wraps what it makes, and
\* asyncIterator what iterator() has not made.
Layers(how) ==
    (IF FromIterator(how) THEN 1 ELSE 0) + (IF how = "iterate" /\ ~FromIterator(how) THEN 1 ELSE 0)

\* The caller iterates, or splits the stream; the SDKs' streams refuse the
\* second time when that iterator is read.
Open(how) ==
    /\ call.pc = "streaming" /\ Len(reader.layers) < 2
    /\ how = "tee" => call.shape \in {"stream", "apart"}
    /\ reader' = [reader EXCEPT !.layers = Append(@, Layers(how))]
    /\ UNCHANGED <<call, failing, settled, generation, finished, source>>

\* Seeded bug: every exit ends the generation.
FinishAlways(how, output) == finished' = TRUE /\ End(how, output)

FinishOnce(how, output) ==
    finished' = TRUE /\ IF finished THEN NoEnd ELSE End(how, output)

\* next() on the first iterator: two branches of tee() may have two under way,
\* which the provider's iterator answers in their order.
Next1 ==
    /\ call.pc = "streaming" /\ reader.layers # <<>> /\ reader.nexts < 2
    /\ reader' = [reader EXCEPT !.nexts = @ + 1]
    /\ UNCHANGED <<call, failing, settled, generation, finished, source>>

\* Every layer hands the chunk to the accumulator, which adds it to its part.
Yields ==
    LET chunk == source.yielded
        part == PartOf(chunk)
    IN  /\ reader.nexts > 0 /\ source.over = "no" /\ chunk < MaxChunks
        /\ source' = [source EXCEPT !.yielded = @ + 1, !.read = IF finished THEN @ ELSE Append(@, chunk)]
        /\ reader' = [reader EXCEPT !.nexts = @ - 1, !.gathered[part] =
                        @ \o [i \in 1 .. Head(reader.layers) |-> chunk]]
        /\ UNCHANGED <<call, failing, settled, generation, finished>>

\* It is over, now or already: done, or an error, which the next call after it
\* answers with done.
Over ==
    /\ reader.nexts > 0
    /\ reader' = [reader EXCEPT !.nexts = @ - 1]
    /\ \/ source' = [source EXCEPT !.over = "yes"] /\ FinishOnce("output", reader.gathered)
       \/ source.over = "no" /\ source' = [source EXCEPT !.over = "yes"] /\ FinishOnce("error", Empty)
    /\ UNCHANGED <<call, failing, settled>>

\* A break calls return(), which ends the provider's iterator after the calls
\* under way; throw() is recorded as an error.
Leaves(how) ==
    /\ call.pc = "streaming" /\ reader.layers # <<>>
    /\ IF how = "return" THEN FinishOnce("output", reader.gathered) ELSE FinishOnce("error", Empty)
    /\ source' = IF reader.nexts = 0 THEN [source EXCEPT !.over = "yes"] ELSE source
    /\ UNCHANGED <<call, failing, settled, reader>>

\* The second iterator: the provider refuses it, and that is an error too.
ReadAgain ==
    /\ call.pc = "streaming" /\ Len(reader.layers) = 2
    /\ FinishOnce("error", Empty)
    /\ UNCHANGED <<call, failing, settled, source, reader>>

SdkNext ==
    \/ Create \/ RequestFails \/ Responds \/ TellFailure \/ ReadResult
    \/ (\E how \in {"iterate", "tee"} : Open(how)) \/ Next1 \/ Yields \/ Over
    \/ (\E how \in {"return", "throw"} : Leaves(how)) \/ ReadAgain

SdkSpec == SdkInit /\ [][SdkNext]_sdkVars

-----------------------------------------------------------------------------
SdkTypeOK ==
    /\ call.pc \in {"new", "pending", "responded", "streaming", "done", "failed"}
    /\ generation.ends \in Nat /\ generation.how \in {"open", "error", "whole", "bare", "output"}
    /\ reader.nexts \in 0 .. 2 /\ source.yielded \in 0 .. MaxChunks

InOrder(list) == \A i, j \in DOMAIN list : i < j => list[i] < list[j]

\* A generation ends at most once, and has ended when the caller has learned
\* the result: with what was read, each chunk once, each part in its order.
RecordedOnce ==
    /\ generation.ends <= 1
    /\ call.pc = "done" \/ (call.pc = "failed" /\ ~failing) \/ source.over = "yes"
          => generation.ends = 1
    /\ generation.how = "output" =>
          \A p \in Parts :
              /\ Range(generation.output[p]) = {chunk \in Range(source.read) : PartOf(chunk) = p}
              /\ InOrder(generation.output[p])
=============================================================================
