------------------------------ MODULE Embedding ------------------------------
(***************************************************************************)
(* The vectors of the chunks, the index over them and the node that        *)
(* records whose vectors it holds: the last stage of a rebuild, the        *)
(* searches of Ask, and what deletes or rewrites chunks beside them.       *)
(*                                                                         *)
(* Every query is a transaction of its own, so anything may happen between *)
(* two steps of a run or of a search.  Processes are redeployed one at a   *)
(* time, and a worker is redeployed between two runs or killed in one.     *)
(***************************************************************************)
EXTENDS Naturals, FiniteSets

CONSTANTS
    Version,        \* editions
    Chunk,          \* the chunks of all editions, by id
    ChunksOf(_),    \* the chunks an edition is cut into
    Text,           \* what a chunk may say; a source may be replaced
    Blank,          \* the text that is only whitespace
    Embedder,       \* the adapters a process may be configured with
    ModelOf(_),     \* the model_id of one
    DimensionsOf(_),\* its width, 0 for the null adapter
    Worker,         \* processes that rebuild
    Reader,         \* processes that answer questions
    Nothing,        \* no chunk, no vector, no record, no index
    MaxVectors      \* times vectors are written (bound)

ASSUME EmbeddingAssumption ==
    /\ \A v \in Version : ChunksOf(v) \subseteq Chunk
    /\ \A u, v \in Version : u # v => ChunksOf(u) \cap ChunksOf(v) = {}
    /\ \A e \in Embedder :
          /\ DimensionsOf(e) \in Nat
          /\ [model |-> ModelOf(e), dimensions |-> DimensionsOf(e)] # Nothing
    /\ Nothing \notin Text
    /\ Blank \in Text
    /\ Worker \cap Reader = {}

Geometry(e) == [model |-> ModelOf(e), dimensions |-> DimensionsOf(e)]
Geometries == {Geometry(e) : e \in Embedder}

VARIABLES
    text,       \* text[c]: what the stored chunk says
    vector,     \* vector[c]: its geometry and the text it was computed from
    index,      \* the width of the vector index
    record,     \* the EmbeddingIndex node: whose vectors the index holds
    embedder,   \* embedder[p]: what process p is configured with
    at,         \* at[p]: the next step of process p
    job,        \* job[w]: the edition worker w rebuilds and what it has read
    seen,       \* seen[r]: the record the search of r has read
    writes,     \* vector writes so far
    adrift      \* a reset has met a run that had yet to write

stored == <<text, vector>>
vars == <<text, vector, index, record, embedder, at, job, seen, writes, adrift>>

NoJob == [version |-> Nothing, held |-> FALSE, pending |-> [c \in {} |-> Nothing]]

Stage == {"idle", "count", "identify", "drop", "create", "record", "pending", "write", "search"}

Vectors == {Nothing} \cup [geometry : Geometries, of : Text]

TypeOK ==
    /\ text \in [Chunk -> Text \cup {Nothing}]
    /\ vector \in [Chunk -> Vectors]
    /\ \A c \in Chunk : text[c] = Nothing => vector[c] = Nothing
    /\ index \in Nat \cup {Nothing}
    /\ record \in Geometries \cup {Nothing}
    /\ embedder \in [Worker \cup Reader -> Embedder]
    /\ at \in [Worker \cup Reader -> Stage]
    /\ seen \in [Reader -> Geometries \cup {Nothing}]
    /\ \A w \in Worker : job[w].version \in Version \cup {Nothing}
    /\ writes \in 0..MaxVectors
    /\ adrift \in BOOLEAN

Init ==
    /\ text = [c \in Chunk |-> Nothing]
    /\ vector = [c \in Chunk |-> Nothing]
    /\ index = Nothing
    /\ record = Nothing
    /\ \E e \in Embedder : embedder = [p \in Worker \cup Reader |-> e]
    /\ at = [p \in Worker \cup Reader |-> "idle"]
    /\ job = [w \in Worker |-> NoJob]
    /\ seen = [r \in Reader |-> Nothing]
    /\ writes = 0
    /\ adrift = FALSE

Goto(p, stage) == at' = [at EXCEPT ![p] = stage]

\* The run of w is over, whether it returned or raised.
Leave(w) == Goto(w, "idle") /\ job' = [job EXCEPT ![w] = NoJob]

Embedded == {c \in Chunk : vector[c] # Nothing}

\* check_identity: what is recorded is not what the process would write.
Mismatch(p) == record # Geometry(embedder[p])

-----------------------------------------------------------------------------
(* The chunks *)

\* Chunks rewritten by id: the old nodes go, their vectors with them.
Rewritten(v, said) ==
    /\ text' = [c \in Chunk |-> IF c \in ChunksOf(v) THEN said[c] ELSE text[c]]
    /\ vector' = [c \in Chunk |-> IF c \in ChunksOf(v) THEN Nothing ELSE vector[c]]

\* An ingest stores an edition's chunks: a first read, a new chunker, or a
\* corrected file after the edition was deleted.
Ingest(v) ==
    /\ \E said \in [ChunksOf(v) -> Text] : Rewritten(v, said)
    /\ UNCHANGED <<index, record, embedder, at, job, seen, writes, adrift>>

\* The document is deleted, and its editions with it.
Delete(v) ==
    /\ Rewritten(v, [c \in ChunksOf(v) |-> Nothing])
    /\ UNCHANGED <<index, record, embedder, at, job, seen, writes, adrift>>

\* POST /reset: every node goes, and no index does.
Reset ==
    /\ text' = [c \in Chunk |-> Nothing]
    /\ vector' = [c \in Chunk |-> Nothing]
    /\ record' = Nothing
    /\ adrift' = (adrift \/ \E w \in Worker : at[w] # "idle")
    /\ UNCHANGED <<index, embedder, at, job, seen, writes>>

-----------------------------------------------------------------------------
(* A rebuild, from its write on *)

\* rebuild_derived's transaction: the same chunks, without vectors.
\* The null embedder ends the run here.
Rebuild(w, v) ==
    /\ at[w] = "idle"
    /\ \E c \in ChunksOf(v) : text[c] # Nothing
    /\ Rewritten(v, text)
    /\ IF DimensionsOf(embedder[w]) = 0
         THEN UNCHANGED <<at, job>>
         ELSE /\ Goto(w, "count")
              /\ job' = [job EXCEPT ![w].version = v]
    /\ UNCHANGED <<index, record, embedder, seen, writes, adrift>>

CountVectors(w) ==
    /\ at[w] = "count"
    /\ job' = [job EXCEPT ![w].held = Embedded # {}]
    /\ Goto(w, "identify")
    /\ UNCHANGED <<stored, index, record, embedder, seen, writes, adrift>>

\* Variant: an index that is recorded is taken to be this embedder's.
IdentifyByName(w) ==
    /\ at[w] = "identify"
    /\ Goto(w, IF record # Nothing /\ job[w].held THEN "pending" ELSE "drop")
    /\ UNCHANGED <<stored, index, record, embedder, job, seen, writes, adrift>>

\* Vectors that are someone else's end the run; with none there is nothing to
\* be incompatible with, and the index is made anew.
Identify(w) ==
    /\ at[w] = "identify"
    /\ IF record # Nothing /\ job[w].held
         THEN IF Mismatch(w) THEN Leave(w) ELSE Goto(w, "pending") /\ UNCHANGED job
         ELSE Goto(w, "drop") /\ UNCHANGED job
    /\ UNCHANGED <<stored, index, record, embedder, seen, writes, adrift>>

DropIndex(w) ==
    /\ at[w] = "drop"
    /\ index' = Nothing
    /\ Goto(w, "create")
    /\ UNCHANGED <<stored, record, embedder, job, seen, writes, adrift>>

\* CREATE VECTOR INDEX ... IF NOT EXISTS.
CreateIndex(w) ==
    /\ at[w] = "create"
    /\ index' = IF index = Nothing THEN DimensionsOf(embedder[w]) ELSE index
    /\ Goto(w, "record")
    /\ UNCHANGED <<stored, record, embedder, job, seen, writes, adrift>>

RecordIndex(w) ==
    /\ at[w] = "record"
    /\ record' = Geometry(embedder[w])
    /\ Goto(w, "pending")
    /\ UNCHANGED <<stored, index, embedder, job, seen, writes, adrift>>

\* What the edition still lacks, with the words it is to be computed from.
ReadPending(w) ==
    LET lacking == {c \in ChunksOf(job[w].version) :
                      /\ text[c] \notin {Nothing, Blank}
                      /\ \/ vector[c] = Nothing
                         \/ vector[c].geometry.model # ModelOf(embedder[w])}
    IN /\ at[w] = "pending"
       /\ IF lacking = {}
            THEN Leave(w)
            ELSE /\ Goto(w, "write")
                 /\ job' = [job EXCEPT ![w].pending = [c \in lacking |-> text[c]]]
       /\ UNCHANGED <<stored, index, record, embedder, seen, writes, adrift>>

\* Variant: MERGE, where the code has MATCH.
WriteVectorsMerging(w) ==
    LET pending == job[w].pending
    IN /\ at[w] = "write"
       /\ writes < MaxVectors
       /\ writes' = writes + 1
       /\ vector' = [c \in Chunk |->
                      IF c \in DOMAIN pending
                        THEN [geometry |-> Geometry(embedder[w]), of |-> pending[c]]
                        ELSE vector[c]]
       /\ Leave(w)
       /\ UNCHANGED <<text, index, record, embedder, seen, adrift>>

\* The vectors go to the chunks that carry the ids by now.
WriteVectors(w) ==
    LET pending == job[w].pending
    IN /\ at[w] = "write"
       /\ writes < MaxVectors
       /\ writes' = writes + 1
       /\ vector' = [c \in Chunk |->
                      IF c \in DOMAIN pending /\ text[c] # Nothing
                        THEN [geometry |-> Geometry(embedder[w]), of |-> pending[c]]
                        ELSE vector[c]]
       /\ Leave(w)
       /\ UNCHANGED <<text, index, record, embedder, seen, adrift>>

-----------------------------------------------------------------------------
(* A search: the vector leg of Ask *)

\* Variant: whatever the index holds is searched.
CheckIdentityNever(r) ==
    /\ at[r] = "idle"
    /\ DimensionsOf(embedder[r]) # 0
    /\ record # Nothing
    /\ Goto(r, "search")
    /\ seen' = [seen EXCEPT ![r] = record]
    /\ UNCHANGED <<stored, index, record, embedder, job, writes, adrift>>

\* A question is not asked of somebody else's vectors.
CheckIdentity(r) ==
    /\ at[r] = "idle"
    /\ DimensionsOf(embedder[r]) # 0
    /\ record # Nothing
    /\ ~Mismatch(r)
    /\ Goto(r, "search")
    /\ seen' = [seen EXCEPT ![r] = record]
    /\ UNCHANGED <<stored, index, record, embedder, job, writes, adrift>>

\* The index holds the vectors of its own width; another width is refused.
Hits(r) ==
    IF index # DimensionsOf(embedder[r]) THEN {}
    ELSE {c \in Embedded : vector[c].geometry.dimensions = index}

\* The search answers with Hits(r).
QueryIndex(r) ==
    /\ at[r] = "search"
    /\ seen' = [seen EXCEPT ![r] = Nothing]
    /\ Goto(r, "idle")
    /\ UNCHANGED <<stored, index, record, embedder, job, writes, adrift>>

-----------------------------------------------------------------------------
(* The processes *)

\* A process comes back with another configuration.
Redeploy(p) ==
    /\ at[p] = "idle"
    /\ \E e \in Embedder \ {embedder[p]} : embedder' = [embedder EXCEPT ![p] = e]
    /\ UNCHANGED <<stored, index, record, at, job, seen, writes, adrift>>

\* A worker stops in the middle of a run; nothing takes the run up again.
Kill(w) ==
    /\ at[w] # "idle"
    /\ Leave(w)
    /\ UNCHANGED <<stored, index, record, embedder, seen, writes, adrift>>

Embed(w) ==
    \/ CountVectors(w)
    \/ Identify(w)
    \/ DropIndex(w)
    \/ CreateIndex(w)
    \/ RecordIndex(w)
    \/ ReadPending(w)
    \/ WriteVectors(w)

Next ==
    \/ \E v \in Version : Ingest(v) \/ Delete(v)
    \/ Reset
    \/ \E w \in Worker, v \in Version : Rebuild(w, v)
    \/ \E w \in Worker : Embed(w) \/ Kill(w)
    \/ \E r \in Reader : CheckIdentity(r) \/ QueryIndex(r)
    \/ \E p \in Worker \cup Reader : Redeploy(p)

Spec == Init /\ [][Next]_vars

-----------------------------------------------------------------------------
(* Properties *)

\* Vectors of two models never share the corpus, and the index and its record
\* are those of the vectors there are: whatever was deployed, killed, deleted
\* or rewritten in between, and whatever was reset, unless a reset came between
\* a run's first look at the index and its write (ensure_vector_index).
VectorsAreComparable ==
    adrift \/ \A c \in Embedded : record = vector[c].geometry
                                 /\ index = vector[c].geometry.dimensions

\* A search that meets vectors of another model than its question's does so
\* only because the index changed hands after it had asked whose it is
\* (_vector_leg's two queries).
SearchesStayInOneGeometry ==
    [][\A r \in Reader : QueryIndex(r) =>
         \/ \A c \in Hits(r) : vector[c].geometry = Geometry(embedder[r])
         \/ record # seen[r]
         \/ adrift]_vars

\* A chunk is found by its own words: no vector outlives the text it was
\* computed from (embed_chunks, whose model call lies between the read of the
\* texts and the write of the vectors).
VectorsAreOfTheirText ==
    \A c \in Embedded : vector[c].of = text[c]
=============================================================================
