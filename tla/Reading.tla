------------------------------- MODULE Reading -------------------------------
(***************************************************************************)
(* What a rebuild reads out of an edition's chunks: which chunks a model   *)
(* is asked about, what the cache answers in its place, which statements   *)
(* survive validation, and whether the run may write what it found.        *)
(*                                                                         *)
(* A statement is known by what the rules ask of it, a reply by what the   *)
(* adapters do with it.  What a model says is not constrained.             *)
(***************************************************************************)
EXTENDS Naturals, FiniteSets, Sequences, Functions

CONSTANTS
    Edition,
    ChunksOf(_),    \* the chunks of an edition, in reading order
    Text,           \* passages
    Statement,      \* what a model may write
    Answers,        \* the sets of statements one reply may hold
    Extractor,      \* the configurations a worker may run with
    Worker,
    ATTEMPTS,
    None

WORD_MODALITIES == {"SHALL", "MUST", "WILL", "SHOULD", "MAY"}

\* Where the actor of a statement comes from.
Actor == {"none", "placeholder", "in it", "above it", "the statement"}

\* quotes: the passages that contain the statement.  words: the modal words in
\* it.  typed: its fields are of the schema's types, none blank or out of range.
StatementForm == [modality: WORD_MODALITIES \cup {"ASSIGNED", "other"},
                  words: SUBSET WORD_MODALITIES, actor: Actor,
                  quotes: SUBSET Text, typed: BOOLEAN]

\* lines counts the lines with words in them, leaders those with dot leaders.
ChunkForm == [text: Text, path: Seq(STRING), title: STRING, lines: Nat, leaders: Nat]

\* variant: decoding, schema and runtime, whatever else varies an answer.
ExtractorForm == [adapter: {"null", "local", "azure"}, model: STRING,
                  variant: STRING, prompt: Nat]

ASSUME ReadingAssumption ==
    /\ \A e \in Edition : ChunksOf(e) \in Seq(ChunkForm)
    /\ Statement \subseteq StatementForm
    /\ Answers \subseteq SUBSET Statement
    /\ Extractor \subseteq ExtractorForm
    /\ ATTEMPTS \in Nat \ {0}

VARIABLES
    cache,      \* cache[key]: the statements an answer held, and whose it was
    extractor,  \* extractor[w]: the configuration worker w runs with
    run,        \* run[w]: where the run of worker w stands
    layer       \* layer[e]: what the last finished run wrote for an edition

vars == <<cache, extractor, run, layer>>

Idle == [edition |-> None, next |-> 1, phase |-> "idle", tries |-> 0, answer |-> {},
         found |-> {}, rejected |-> {}]

Init ==
    /\ cache = << >>
    /\ extractor \in [Worker -> Extractor]
    /\ run = [w \in Worker |-> Idle]
    /\ layer = [e \in Edition |-> None]

-----------------------------------------------------------------------------
(* Chunks and keys *)

Chunks(w) == ChunksOf(run[w].edition)
Current(w) == Chunks(w)[run[w].next]

\* References and contents pages are stored and never sent to a model.
StatesNoDuty(chunk) ==
    \/ chunk.title = "REFERENCES"
    \/ "REFERENCES" \in Range(chunk.path)
    \/ chunk.leaders * 2 > chunk.lines

Offered(e) == {i \in DOMAIN ChunksOf(e) : ~StatesNoDuty(ChunksOf(e)[i])}

\* Variant: the adapter's id says all there is to say of it.
CacheKeyOfAdapter(x, chunk) ==
    [adapter |-> x.adapter, model |-> x.model, prompt |-> x.prompt,
     path |-> chunk.path, text |-> chunk.text]

\* The title is not part of it.
CacheKey(x, chunk) ==
    [adapter |-> x.adapter, model |-> x.model, prompt |-> x.prompt, variant |-> x.variant,
     path |-> chunk.path, text |-> chunk.text]

KeyOf(w) == CacheKey(extractor[w], Current(w))

\* Variant: an empty answer is no answer.
CachedUnlessEmpty(w) ==
    KeyOf(w) \in DOMAIN cache /\ cache[KeyOf(w)].statements # {}

Cached(w) == KeyOf(w) \in DOMAIN cache

-----------------------------------------------------------------------------
(* Validation *)

\* ExtractedObligation's validators.
NamesItsMechanism(s) ==
    IF s.modality = "ASSIGNED"
      THEN s.actor \notin {"none", "placeholder", "the statement"}
      ELSE s.modality \in s.words

IsResponsibilities(chunk) == chunk.title = "RESPONSIBILITIES"

\* A statement quotes its chunk, and its actor stands in it unless the section
\* assigns the duty by position.
Valid(s, chunk) ==
    /\ s.typed
    /\ NamesItsMechanism(s)
    /\ chunk.text \in s.quotes
    /\ IF s.modality = "ASSIGNED" THEN IsResponsibilities(chunk)
                                  ELSE s.actor # "above it"

\* A placeholder is no actor.
Cleaned(s) == IF s.actor = "placeholder" THEN [s EXCEPT !.actor = "none"] ELSE s

Validated(statements, chunk) == {Cleaned(s) : s \in {t \in statements : Valid(t, chunk)}}

-----------------------------------------------------------------------------
(* The steps of a run *)

Advance(w, r) == run' = [run EXCEPT ![w] = [r EXCEPT !.next = @ + 1, !.phase = "chunk",
                                                     !.tries = 0, !.answer = {}]]

\* on_rejection: the chunk, and why.
Reject(w, why) ==
    Advance(w, [run[w] EXCEPT !.rejected = @ \cup {[chunk |-> run[w].next, why |-> why]}])

Keep(w, statements) ==
    Advance(w, [run[w] EXCEPT !.found = @ \cup {[chunk |-> run[w].next, statement |-> s]
                                                 : s \in statements}])

End(w) == run' = [run EXCEPT ![w] = Idle]

AtChunk(w) == run[w].phase = "chunk" /\ run[w].next <= Len(Chunks(w))

Start(w, e) ==
    /\ run[w].phase = "idle"
    /\ run' = [run EXCEPT ![w] = [Idle EXCEPT !.edition = e, !.phase = "chunk"]]
    /\ UNCHANGED <<cache, extractor, layer>>

Skip(w) ==
    /\ AtChunk(w)
    /\ StatesNoDuty(Current(w))
    /\ Advance(w, run[w])
    /\ UNCHANGED <<cache, extractor, layer>>

\* Variant: what validated once is not validated again.
ReplayUnchecked(w) ==
    /\ AtChunk(w)
    /\ ~StatesNoDuty(Current(w))
    /\ Cached(w)
    /\ Keep(w, cache[KeyOf(w)].statements)
    /\ UNCHANGED <<cache, extractor, layer>>

\* A hit answers with what is valid here and now; if that is nothing of
\* something, the chunk is rejected.
Replay(w) ==
    /\ AtChunk(w)
    /\ ~StatesNoDuty(Current(w))
    /\ Cached(w)
    /\ LET statements == cache[KeyOf(w)].statements
           good == Validated(statements, Current(w))
       IN IF statements # {} /\ good = {} THEN Reject(w, "stale") ELSE Keep(w, good)
    /\ UNCHANGED <<cache, extractor, layer>>

\* A miss: the null adapter answers by itself.
Miss(w) ==
    /\ AtChunk(w)
    /\ ~StatesNoDuty(Current(w))
    /\ ~Cached(w)
    /\ run' = [run EXCEPT ![w].phase =
                 IF extractor[w].adapter = "null" THEN "put" ELSE "post"]
    /\ UNCHANGED <<cache, extractor, layer>>

\* What may come back from a POST instead of statements.
Reply == {"transport error", "server error", "busy", "refused", "filtered",
          "another model", "unreadable"}

Transient == {"transport error", "server error", "busy"}

\* What an adapter tries again: 429 only where a managed endpoint throttles.
Retried(x) == IF x.adapter = "azure" THEN Transient ELSE Transient \ {"busy"}

\* What it takes for the passage's fault: text no obligations can be read from,
\* and the content filter's 400.
Costing(x) == IF x.adapter = "azure" THEN {"unreadable", "filtered"} ELSE {"unreadable"}

\* Only azure names the model that answered.
Possible(x) == IF x.adapter = "azure" THEN Reply ELSE Reply \ {"another model"}

\* A failure of the transport is tried again, ATTEMPTS times in all.
Retry(w) ==
    /\ run[w].phase = "post"
    /\ \E reply \in Retried(extractor[w]) : run[w].tries + 1 < ATTEMPTS
    /\ run' = [run EXCEPT ![w].tries = @ + 1]
    /\ UNCHANGED <<cache, extractor, layer>>

\* Variant: the last failure of the transport costs the chunk.
FailByChunk(w) ==
    /\ run[w].phase = "post"
    /\ \E reply \in Possible(extractor[w]) \ Costing(extractor[w]) :
         IF reply \in Retried(extractor[w])
           THEN run[w].tries + 1 = ATTEMPTS /\ Reject(w, reply)
           ELSE End(w)
    /\ UNCHANGED <<cache, extractor, layer>>

\* The last of them, and a refusal of the request itself, end the run.
Fail(w) ==
    /\ run[w].phase = "post"
    /\ \E reply \in Possible(extractor[w]) \ Costing(extractor[w]) :
         reply \in Retried(extractor[w]) => run[w].tries + 1 = ATTEMPTS
    /\ End(w)
    /\ UNCHANGED <<cache, extractor, layer>>

Unreadable(w) ==
    /\ run[w].phase = "post"
    /\ \E reply \in Costing(extractor[w]) : Reject(w, reply)
    /\ UNCHANGED <<cache, extractor, layer>>

\* An answer: what validates of it, unless that is nothing of something.
Answer(w) ==
    /\ run[w].phase = "post"
    /\ \E statements \in Answers :
         LET good == Validated(statements, Current(w))
         IN IF statements # {} /\ good = {}
              THEN Reject(w, "invalid")
              ELSE run' = [run EXCEPT ![w].phase = "put", ![w].answer = good]
    /\ UNCHANGED <<cache, extractor, layer>>

\* A transaction of its own: what has been answered outlives the run.
Put(w) ==
    /\ run[w].phase = "put"
    /\ cache' = [k \in DOMAIN cache \cup {KeyOf(w)} |->
                   IF k = KeyOf(w)
                     THEN [statements |-> run[w].answer, by |-> extractor[w],
                           of |-> [text |-> Current(w).text, path |-> Current(w).path]]
                     ELSE cache[k]]
    /\ Keep(w, run[w].answer)
    /\ UNCHANGED <<extractor, layer>>

\* Variant: measured against every chunk.
BrokenByTotal(w) == Cardinality(run[w].rejected) = Len(Chunks(w))

\* Every chunk a model was offered has been rejected.
Broken(w) ==
    /\ Offered(run[w].edition) # {}
    /\ Cardinality(run[w].rejected) = Cardinality(Offered(run[w].edition))

\* The write of the layer, or ExtractionFailed.
Finish(w) ==
    /\ run[w].phase = "chunk"
    /\ run[w].next > Len(Chunks(w))
    /\ layer' = IF Broken(w) THEN layer
                ELSE [layer EXCEPT ![run[w].edition] =
                        [by |-> extractor[w], found |-> run[w].found,
                         rejected |-> run[w].rejected]]
    /\ End(w)
    /\ UNCHANGED <<cache, extractor>>

Kill(w) ==
    /\ run[w].phase # "idle"
    /\ End(w)
    /\ UNCHANGED <<cache, extractor, layer>>

\* A worker comes back with another adapter, runtime or prompt.
Redeploy(w) ==
    /\ run[w].phase = "idle"
    /\ \E x \in Extractor \ {extractor[w]} : extractor' = [extractor EXCEPT ![w] = x]
    /\ UNCHANGED <<cache, run, layer>>

Read(w) ==
    \/ Skip(w)
    \/ Replay(w)
    \/ Miss(w)
    \/ Retry(w)
    \/ Fail(w)
    \/ Unreadable(w)
    \/ Answer(w)
    \/ Put(w)
    \/ Finish(w)

Next == \E w \in Worker :
    \/ \E e \in Edition : Start(w, e)
    \/ Read(w)
    \/ Kill(w)
    \/ Redeploy(w)

Spec == Init /\ [][Next]_vars

-----------------------------------------------------------------------------
(* Properties *)

TypeOK ==
    /\ \A k \in DOMAIN cache : cache[k].statements \subseteq StatementForm
    /\ extractor \in [Worker -> Extractor]
    /\ \A w \in Worker : run[w].edition \in Edition \cup {None} /\ run[w].tries < ATTEMPTS
    /\ \A e \in Edition : layer[e] = None \/ layer[e].by \in Extractor

\* Whatever filled the cache, and under whatever section, what a run keeps of a
\* chunk is valid for that chunk in its own section, and was said of its very
\* text and path by the extractor the run is configured with (CachedExtractor,
\* validate_extracted).
ReadingsAreOwn ==
    /\ \A w \in Worker : \A f \in run[w].found : Valid(f.statement, Chunks(w)[f.chunk])
    /\ \A w \in Worker : AtChunk(w) /\ Cached(w) =>
         /\ cache[KeyOf(w)].by = extractor[w]
         /\ cache[KeyOf(w)].of = [text |-> Current(w).text, path |-> Current(w).path]

\* What a finished run wrote is the edition's own: it had no failure of the
\* model server in it, and something of what it offered was answered.
WrittenRunsAreWhole ==
    \A e \in Edition : layer[e] # None =>
        /\ \A r \in layer[e].rejected : r.why \notin Transient
        /\ Offered(e) # {} => {r.chunk : r \in layer[e].rejected} # Offered(e)

\* A second run over an unchanged edition asks the model only of the chunks the
\* first one lost, however many runs stopped in between (rebuild_edition).
RerunsAskOnlyOfLosses ==
    [][\A w \in Worker :
         /\ run[w].phase = "chunk" /\ run'[w].phase = "post"
         /\ layer[run[w].edition] # None
         /\ layer[run[w].edition].by = extractor[w]
         => run[w].next \in {r.chunk : r \in layer[run[w].edition].rejected}]_vars
=============================================================================
