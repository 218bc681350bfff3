-------------------------- MODULE EmbeddingProofs --------------------------
(* Proofs about the vector index, for any editions, texts, adapters and    *)
(* readers, beside one worker.                                             *)
EXTENDS Embedding, TLAPS

\* The compose file starts one worker, and one is what the arguments rest on.
OneWorker == \A u, w \in Worker : u = w

Shapes ==
    /\ DOMAIN at = Worker \cup Reader
    /\ DOMAIN embedder = Worker \cup Reader
    /\ \A p \in Worker \cup Reader : embedder[p] \in Embedder
    /\ DOMAIN seen = Reader
    /\ DOMAIN job = Worker
    /\ \A w \in Worker : DOMAIN job[w] = {"version", "held", "pending"}
    /\ DOMAIN vector = Chunk

\* Every vector is of the geometry on record, and the index is as wide.
OfOneGeometry ==
    \A c \in Embedded : /\ vector[c].geometry \in Geometries
                        /\ record = vector[c].geometry
                        /\ index = vector[c].geometry.dimensions

\* What a worker may rely on at each of its steps: it drops an index only when
\* there is no vector, and asks for texts only when the index is its own.
Relies(w) ==
    /\ at[w] = "identify" => IF job[w].held THEN record # Nothing => index = record.dimensions
                                            ELSE Embedded = {}
    /\ at[w] \in {"drop", "create", "record"} => Embedded = {}
    /\ at[w] = "create" => index = Nothing
    /\ at[w] = "record" => index = DimensionsOf(embedder[w])
    /\ at[w] \in {"pending", "write"} => /\ record = Geometry(embedder[w])
                                         /\ index = DimensionsOf(embedder[w])

\* What a search has asked of the record before it queries the index.
Asked(r) == at[r] = "search" => seen[r] = Geometry(embedder[r])

Inv ==
    /\ Shapes
    /\ \A r \in Reader : Asked(r)
    /\ adrift \/ (OfOneGeometry /\ \A w \in Worker : Relies(w))

LEMMA GeometryFields ==
    ASSUME NEW e \in Embedder
    PROVE  /\ Geometry(e) \in Geometries
           /\ Geometry(e).dimensions = DimensionsOf(e)
           /\ Geometry(e) # Nothing
BY EmbeddingAssumption DEF Geometry, Geometries

LEMMA NothingIsNoGeometry == Nothing \notin Geometries
BY EmbeddingAssumption DEF Geometry, Geometries

\* Fewer vectors disturb nobody.
LEMMA FewerVectors ==
    ASSUME Inv, DOMAIN vector' = Chunk,
           \A c \in Chunk : vector'[c] = vector[c] \/ vector'[c] = Nothing,
           UNCHANGED <<index, record, embedder, at, job, seen, adrift>>
    PROVE  Inv'
<1>1. /\ Embedded' \subseteq Embedded
      /\ \A c \in Embedded' : vector'[c] = vector[c]
  BY DEF Embedded
<1>2. Shapes' /\ \A r \in Reader : Asked(r)'
  BY DEF Inv, Shapes, Asked
<1>3. OfOneGeometry => OfOneGeometry'
  BY <1>1 DEF OfOneGeometry
<1>4. ASSUME NEW w \in Worker, Relies(w)
      PROVE  Relies(w)'
  BY <1>1, <1>4 DEF Relies
<1> QED
  BY <1>2, <1>3, <1>4 DEF Inv

\* A step of the one worker, which writes no vector.
LEMMA WorkerSteps ==
    ASSUME Inv, OneWorker, NEW w \in Worker,
           NEW stage, at' = [at EXCEPT ![w] = stage],
           DOMAIN job' = Worker, DOMAIN job'[w] = {"version", "held", "pending"},
           UNCHANGED <<stored, embedder, seen, adrift>>,
           adrift \/ (OfOneGeometry' /\ Relies(w)')
    PROVE  Inv'
<1>1. \A r \in Reader : r # w /\ at'[r] = at[r]
  BY EmbeddingAssumption DEF Inv, Shapes
<1>2. \A u \in Worker : u = w
  BY DEF OneWorker
<1>3. Shapes'
  BY <1>2 DEF Inv, Shapes, stored
<1>4. \A r \in Reader : Asked(r)'
  BY <1>1 DEF Inv, Asked
<1>5. adrift' \/ (OfOneGeometry' /\ \A u \in Worker : Relies(u)')
  BY <1>2
<1> QED
  BY <1>3, <1>4, <1>5 DEF Inv

LEMMA LeaveKeeps ==
    ASSUME Inv, OneWorker, NEW w \in Worker, Leave(w),
           UNCHANGED <<stored, index, record, embedder, seen, adrift>>
    PROVE  Inv'
<1>1. /\ at' = [at EXCEPT ![w] = "idle"] /\ at'[w] = "idle"
      /\ DOMAIN job' = Worker /\ DOMAIN job'[w] = {"version", "held", "pending"}
  BY DEF Leave, Goto, NoJob, Inv, Shapes
<1>2. OfOneGeometry => OfOneGeometry'
  BY DEF OfOneGeometry, Embedded, stored
<1>3. Relies(w)'
  BY <1>1 DEF Relies
<1> QED
  BY <1>1, <1>2, <1>3, WorkerSteps DEF Inv

LEMMA EmbedKeeps ==
    ASSUME Inv, OneWorker, NEW w \in Worker, Embed(w)
    PROVE  Inv'
<1>1. embedder[w] \in Embedder
  BY DEF Inv, Shapes
<1>2. /\ Geometry(embedder[w]) \in Geometries
      /\ Geometry(embedder[w]).dimensions = DimensionsOf(embedder[w])
      /\ Geometry(embedder[w]) # Nothing
  BY <1>1, GeometryFields
<1>3. CASE CountVectors(w)
  <2>1. /\ at' = [at EXCEPT ![w] = "identify"] /\ at'[w] = "identify"
        /\ DOMAIN job' = Worker /\ DOMAIN job'[w] = {"version", "held", "pending"}
        /\ job'[w].held = (Embedded # {})
        /\ UNCHANGED <<stored, index, record, embedder, seen, adrift>>
    BY <1>3 DEF CountVectors, Goto, Inv, Shapes
  <2>2. OfOneGeometry => OfOneGeometry'
    BY <2>1 DEF OfOneGeometry, Embedded, stored
  <2>3. OfOneGeometry => Relies(w)'
    BY <2>1 DEF Relies, OfOneGeometry, Embedded, stored
  <2>4. adrift \/ (OfOneGeometry' /\ Relies(w)')
    BY <2>2, <2>3 DEF Inv
  <2> QED
    BY <2>1, <2>4, WorkerSteps
<1>4. CASE Identify(w)
  <2>1. UNCHANGED <<stored, index, record, embedder, seen, adrift>> /\ at[w] = "identify"
    BY <1>4 DEF Identify
  <2>2. CASE record # Nothing /\ job[w].held /\ Mismatch(w)
    BY <1>4, <2>1, <2>2, LeaveKeeps DEF Identify
  <2>3. CASE record # Nothing /\ job[w].held /\ ~Mismatch(w)
    <3>1. /\ at' = [at EXCEPT ![w] = "pending"] /\ at'[w] = "pending" /\ UNCHANGED job
          /\ record = Geometry(embedder[w])
      BY <1>4, <2>3 DEF Identify, Goto, Mismatch, Inv, Shapes
    <3>2. OfOneGeometry /\ Relies(w) => OfOneGeometry' /\ Relies(w)'
      BY <1>2, <2>1, <2>3, <3>1 DEF OfOneGeometry, Relies, Embedded, stored
    <3>3. adrift \/ (OfOneGeometry' /\ Relies(w)')
      BY <3>2 DEF Inv
    <3> QED
      BY <2>1, <3>1, <3>3, WorkerSteps DEF Inv, Shapes
  <2>4. CASE ~(record # Nothing /\ job[w].held)
    <3>1. at' = [at EXCEPT ![w] = "drop"] /\ at'[w] = "drop" /\ UNCHANGED job
      BY <1>4, <2>4 DEF Identify, Goto, Inv, Shapes
    <3>2. OfOneGeometry /\ Relies(w) => Embedded = {}
      BY <2>1, <2>4, NothingIsNoGeometry DEF OfOneGeometry, Relies
    <3>3. OfOneGeometry /\ Relies(w) => OfOneGeometry' /\ Relies(w)'
      BY <2>1, <3>1, <3>2 DEF OfOneGeometry, Relies, Embedded, stored
    <3>4. adrift \/ (OfOneGeometry' /\ Relies(w)')
      BY <3>3 DEF Inv
    <3> QED
      BY <2>1, <3>1, <3>4, WorkerSteps DEF Inv, Shapes
  <2> QED
    BY <2>2, <2>3, <2>4
<1>5. CASE DropIndex(w)
  <2>1. /\ at' = [at EXCEPT ![w] = "create"] /\ at'[w] = "create"
        /\ at[w] = "drop" /\ index' = Nothing
        /\ UNCHANGED <<stored, record, embedder, job, seen, adrift>>
    BY <1>5 DEF DropIndex, Goto, Inv, Shapes
  <2>2. Relies(w) => OfOneGeometry' /\ Relies(w)'
    BY <2>1 DEF OfOneGeometry, Relies, Embedded, stored
  <2> QED
    BY <2>1, <2>2, WorkerSteps DEF Inv, Shapes
<1>6. CASE CreateIndex(w)
  <2>1. /\ at' = [at EXCEPT ![w] = "record"] /\ at'[w] = "record" /\ at[w] = "create"
        /\ index' = IF index = Nothing THEN DimensionsOf(embedder[w]) ELSE index
        /\ UNCHANGED <<stored, record, embedder, job, seen, adrift>>
    BY <1>6 DEF CreateIndex, Goto, Inv, Shapes
  <2>2. Relies(w) => OfOneGeometry' /\ Relies(w)'
    BY <2>1 DEF OfOneGeometry, Relies, Embedded, stored
  <2> QED
    BY <2>1, <2>2, WorkerSteps DEF Inv, Shapes
<1>7. CASE RecordIndex(w)
  <2>1. /\ at' = [at EXCEPT ![w] = "pending"] /\ at'[w] = "pending" /\ at[w] = "record"
        /\ record' = Geometry(embedder[w])
        /\ UNCHANGED <<stored, index, embedder, job, seen, adrift>>
    BY <1>7 DEF RecordIndex, Goto, Inv, Shapes
  <2>2. Relies(w) => OfOneGeometry' /\ Relies(w)'
    BY <2>1 DEF OfOneGeometry, Relies, Embedded, Geometry, stored
  <2> QED
    BY <2>1, <2>2, WorkerSteps DEF Inv, Shapes
<1>8. CASE ReadPending(w)
  <2>1. at[w] = "pending" /\ UNCHANGED <<stored, index, record, embedder, seen, adrift>>
    BY <1>8 DEF ReadPending
  <2>2. CASE Leave(w)
    BY <2>1, <2>2, LeaveKeeps
  <2>3. CASE ~Leave(w)
    <3>1. PICK pending : Goto(w, "write") /\ job' = [job EXCEPT ![w].pending = pending]
      BY <1>8, <2>3 DEF ReadPending
    <3>2. /\ at' = [at EXCEPT ![w] = "write"] /\ at'[w] = "write"
          /\ DOMAIN job' = Worker /\ DOMAIN job'[w] = {"version", "held", "pending"}
      BY <3>1 DEF Goto, Inv, Shapes
    <3>3. OfOneGeometry /\ Relies(w) => OfOneGeometry' /\ Relies(w)'
      BY <2>1, <3>2 DEF OfOneGeometry, Relies, Embedded, Geometry, stored
    <3>4. adrift \/ (OfOneGeometry' /\ Relies(w)')
      BY <3>3 DEF Inv
    <3> QED
      BY <2>1, <3>2, <3>4, WorkerSteps
  <2> QED
    BY <2>2, <2>3
<1>9. CASE WriteVectors(w)
  <2>1. /\ at' = [at EXCEPT ![w] = "idle"] /\ at'[w] = "idle" /\ at[w] = "write"
        /\ DOMAIN job' = Worker /\ DOMAIN job'[w] = {"version", "held", "pending"}
        /\ UNCHANGED <<text, index, record, embedder, seen, adrift>>
        /\ DOMAIN vector' = Chunk
    BY <1>9 DEF WriteVectors, Leave, Goto, NoJob, Inv, Shapes
  <2>2. \A c \in Chunk : \/ vector'[c] = vector[c]
                         \/ vector'[c].geometry = Geometry(embedder[w])
    BY <1>9 DEF WriteVectors
  <2>3. OfOneGeometry /\ Relies(w) => OfOneGeometry'
    BY <1>2, <2>1, <2>2 DEF OfOneGeometry, Relies, Embedded
  <2>4. \A u \in Worker : u = w
    BY DEF OneWorker
  <2>5. \A u \in Worker : Relies(u)'
    BY <2>1, <2>4 DEF Relies
  <2>6. Shapes'
    BY <2>1, <2>4 DEF Inv, Shapes
  <2>7. \A r \in Reader : Asked(r)'
    <3>1. \A r \in Reader : r # w /\ at'[r] = at[r]
      BY <2>1, EmbeddingAssumption DEF Inv, Shapes
    <3> QED
      BY <2>1, <3>1 DEF Inv, Asked
  <2> QED
    BY <2>1, <2>3, <2>5, <2>6, <2>7 DEF Inv
<1> QED
  BY <1>3, <1>4, <1>5, <1>6, <1>7, <1>8, <1>9 DEF Embed

LEMMA RebuildKeeps ==
    ASSUME Inv, OneWorker, NEW w \in Worker, NEW v \in Version, Rebuild(w, v)
    PROVE  Inv'
<1>1. /\ at[w] = "idle" /\ UNCHANGED <<index, record, embedder, seen, writes, adrift>>
      /\ DOMAIN vector' = Chunk
      /\ \A c \in Chunk : vector'[c] = vector[c] \/ vector'[c] = Nothing
  BY DEF Rebuild, Rewritten
<1>2. CASE UNCHANGED <<at, job>>
  BY <1>1, <1>2, FewerVectors
<1>3. CASE Goto(w, "count") /\ job' = [job EXCEPT ![w].version = v]
  <2>1. /\ at'[w] = "count"
        /\ \A r \in Reader : r # w /\ at'[r] = at[r]
        /\ DOMAIN at' = Worker \cup Reader
        /\ DOMAIN job' = Worker /\ DOMAIN job'[w] = {"version", "held", "pending"}
    BY <1>3, EmbeddingAssumption DEF Goto, Inv, Shapes
  <2>2. \A u \in Worker : u = w
    BY DEF OneWorker
  <2>3. Shapes' /\ \A r \in Reader : Asked(r)'
    BY <1>1, <2>1, <2>2 DEF Inv, Shapes, Asked
  <2>4. OfOneGeometry => OfOneGeometry'
    BY <1>1 DEF OfOneGeometry, Embedded
  <2>5. \A u \in Worker : Relies(u)'
    BY <2>1, <2>2 DEF Relies
  <2> QED
    BY <1>1, <2>3, <2>4, <2>5 DEF Inv
<1> QED
  BY <1>2, <1>3 DEF Rebuild

LEMMA ResetKeeps ==
    ASSUME Inv, Reset
    PROVE  Inv'
<1>1. /\ DOMAIN vector' = Chunk /\ Embedded' = {}
      /\ UNCHANGED <<index, embedder, at, job, seen>>
      /\ adrift' = (adrift \/ \E w \in Worker : at[w] # "idle")
  BY DEF Reset, Embedded
<1>2. Shapes' /\ \A r \in Reader : Asked(r)'
  BY <1>1 DEF Inv, Shapes, Asked
<1>3. OfOneGeometry'
  BY <1>1 DEF OfOneGeometry
<1>4. (\A w \in Worker : at[w] = "idle") => \A w \in Worker : Relies(w)'
  BY <1>1 DEF Relies
<1> QED
  BY <1>1, <1>2, <1>3, <1>4 DEF Inv

LEMMA SearchKeeps ==
    ASSUME Inv, NEW r \in Reader, CheckIdentity(r) \/ QueryIndex(r)
    PROVE  Inv'
<1>1. /\ UNCHANGED <<stored, index, record, embedder, job, adrift>>
      /\ DOMAIN at' = Worker \cup Reader /\ DOMAIN seen' = Reader
      /\ \A p \in Worker : p # r /\ at'[p] = at[p]
      /\ \A q \in Reader : q # r => at'[q] = at[q] /\ seen'[q] = seen[q]
  BY EmbeddingAssumption DEF CheckIdentity, QueryIndex, Goto, Inv, Shapes
<1>2. at'[r] = "search" => seen'[r] = Geometry(embedder[r])
  BY DEF CheckIdentity, QueryIndex, Goto, Mismatch, Inv, Shapes
<1>3. Shapes'
  BY <1>1 DEF Inv, Shapes, stored
<1>4. \A q \in Reader : Asked(q)'
  BY <1>1, <1>2 DEF Inv, Asked
<1>5. OfOneGeometry => OfOneGeometry'
  BY <1>1 DEF OfOneGeometry, Embedded, stored
<1>6. ASSUME NEW w \in Worker, Relies(w)
      PROVE  Relies(w)'
  BY <1>1, <1>6 DEF Relies, Embedded, stored
<1> QED
  BY <1>1, <1>3, <1>4, <1>5, <1>6 DEF Inv

LEMMA RedeployKeeps ==
    ASSUME Inv, NEW p \in Worker \cup Reader, Redeploy(p)
    PROVE  Inv'
<1>1. /\ at[p] = "idle" /\ UNCHANGED <<stored, index, record, at, job, seen, adrift>>
      /\ DOMAIN embedder' = Worker \cup Reader
      /\ \A q \in Worker \cup Reader : /\ embedder'[q] \in Embedder
                                       /\ q # p => embedder'[q] = embedder[q]
  BY DEF Redeploy, Inv, Shapes
<1>2. Shapes'
  BY <1>1 DEF Inv, Shapes, stored
<1>3. ASSUME NEW r \in Reader
      PROVE  Asked(r)'
  BY <1>1 DEF Inv, Asked
<1>4. OfOneGeometry => OfOneGeometry'
  BY <1>1 DEF OfOneGeometry, Embedded, stored
<1>5. ASSUME NEW w \in Worker, Relies(w)
      PROVE  Relies(w)'
  <2>1. CASE w = p
    BY <1>1, <2>1 DEF Relies
  <2>2. CASE w # p
    BY <1>1, <1>5, <2>2 DEF Relies, Embedded, stored
  <2> QED
    BY <2>1, <2>2
<1> QED
  BY <1>1, <1>2, <1>3, <1>4, <1>5 DEF Inv

LEMMA InvStep ==
    ASSUME Inv, OneWorker, [Next]_vars
    PROVE  Inv'
<1>1. CASE UNCHANGED vars
  BY <1>1 DEF vars, stored, Inv, Shapes, Asked, OfOneGeometry, Relies, Embedded
<1>2. ASSUME NEW v \in Version, Ingest(v) \/ Delete(v)
      PROVE  Inv'
  <2>1. /\ DOMAIN vector' = Chunk
        /\ \A c \in Chunk : vector'[c] = vector[c] \/ vector'[c] = Nothing
        /\ UNCHANGED <<index, record, embedder, at, job, seen, adrift>>
    BY <1>2 DEF Ingest, Delete, Rewritten
  <2> QED
    BY <2>1, FewerVectors
<1>3. CASE Reset
  BY <1>3, ResetKeeps
<1>4. ASSUME NEW w \in Worker, NEW v \in Version, Rebuild(w, v)
      PROVE  Inv'
  BY <1>4, RebuildKeeps
<1>5. ASSUME NEW w \in Worker, Embed(w)
      PROVE  Inv'
  BY <1>5, EmbedKeeps
<1>6. ASSUME NEW w \in Worker, Kill(w)
      PROVE  Inv'
  BY <1>6, LeaveKeeps DEF Kill
<1>7. ASSUME NEW r \in Reader, CheckIdentity(r) \/ QueryIndex(r)
      PROVE  Inv'
  BY <1>7, SearchKeeps
<1>8. ASSUME NEW p \in Worker \cup Reader, Redeploy(p)
      PROVE  Inv'
  BY <1>8, RedeployKeeps
<1> QED
  BY <1>1, <1>2, <1>3, <1>4, <1>5, <1>6, <1>7, <1>8 DEF Next

LEMMA InvInit == Init => Inv
<1> SUFFICES ASSUME Init
             PROVE  Inv
  OBVIOUS
<1>1. Shapes
  BY DEF Init, Shapes, NoJob
<1>2. \A r \in Reader : Asked(r)
  BY DEF Init, Asked
<1>3. OfOneGeometry
  BY DEF Init, OfOneGeometry, Embedded
<1>4. \A w \in Worker : Relies(w)
  BY DEF Init, Relies
<1> QED
  BY <1>1, <1>2, <1>3, <1>4 DEF Inv

-----------------------------------------------------------------------------
(* What follows *)

\* Beside one worker, whatever is deployed, killed, deleted or rewritten, the
\* vectors are of one model, and the index and its record are theirs; a reset
\* in the middle of a run is all that can part them.
THEOREM Comparable == OneWorker => (Spec => []VectorsAreComparable)
<1> SUFFICES ASSUME OneWorker
             PROVE  Spec => []VectorsAreComparable
  OBVIOUS
<1>1. Inv /\ [Next]_vars => Inv'
  BY InvStep
<1>2. Inv => VectorsAreComparable
  BY DEF Inv, OfOneGeometry, VectorsAreComparable
<1> QED
  BY InvInit, <1>1, <1>2, PTL DEF Spec

\* A search whose record has not changed since it asked meets no vector of
\* another model than its question's.
THEOREM OneGeometry == OneWorker => (Spec => SearchesStayInOneGeometry)
<1> SUFFICES ASSUME OneWorker
             PROVE  Spec => SearchesStayInOneGeometry
  OBVIOUS
<1>1. Inv /\ [Next]_vars => Inv'
  BY InvStep
<1>2. ASSUME Inv, NEW r \in Reader, QueryIndex(r), record = seen[r], ~adrift,
             NEW c \in Hits(r)
      PROVE  vector[c].geometry = Geometry(embedder[r])
  <2>1. c \in Embedded
    BY <1>2 DEF Hits
  <2>2. seen[r] = Geometry(embedder[r])
    BY <1>2 DEF Inv, Asked, QueryIndex
  <2> QED
    BY <1>2, <2>1, <2>2 DEF Inv, OfOneGeometry
<1>3. Inv => [\A r \in Reader : QueryIndex(r) =>
                 \/ \A c \in Hits(r) : vector[c].geometry = Geometry(embedder[r])
                 \/ record # seen[r]
                 \/ adrift]_vars
  BY <1>2
<1> QED
  BY InvInit, <1>1, <1>3, PTL DEF Spec, SearchesStayInOneGeometry
=============================================================================
