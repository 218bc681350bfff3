--------------------------- MODULE ReadingProofs ---------------------------
(* Proofs about reading, for any editions, any models and what they may   *)
(* answer, any number of workers and of attempts.                         *)
EXTENDS Reading, FunctionTheorems, FiniteSetTheorems, TLAPS

Field == {"edition", "next", "phase", "tries", "answer", "found", "rejected"}

\* An entry of the cache was said by the extractor and of the words of its key.
Kept(k) ==
    /\ cache[k].by \in Extractor
    /\ cache[k].by.adapter = k.adapter /\ cache[k].by.model = k.model
    /\ cache[k].by.prompt = k.prompt /\ cache[k].by.variant = k.variant
    /\ cache[k].of = [text |-> k.text, path |-> k.path]
    /\ cache[k].statements \subseteq StatementForm

\* What a run has found is valid where it found it; what it has lost, it lost
\* once, at a chunk it offered and has passed, and to no failure of the server.
ValidSoFar(r) ==
    /\ \A f \in r.found : Valid(f.statement, ChunksOf(r.edition)[f.chunk])
    /\ r.answer \subseteq StatementForm
    /\ \A s \in r.answer : r.phase = "put" /\ Valid(s, ChunksOf(r.edition)[r.next])

LostOnce(r) ==
    /\ \A x \in r.rejected : /\ x.chunk \in Offered(r.edition)
                             /\ x.chunk < r.next
                             /\ x.why \notin Transient
    /\ \A x, y \in r.rejected : x.chunk = y.chunk => x = y

Placed(r) ==
    /\ r.next \in Nat \ {0}
    /\ r.phase # "idle" => r.edition \in Edition
    /\ r.phase \in {"post", "put"} => r.next \in Offered(r.edition)

Sound(r) == DOMAIN r = Field /\ Placed(r) /\ ValidSoFar(r) /\ LostOnce(r)

Shapes ==
    /\ extractor \in [Worker -> Extractor]
    /\ DOMAIN run = Worker
    /\ DOMAIN layer = Edition
    /\ run = [w \in Worker |-> run[w]]

\* A layer was written by a run that was not broken.
Whole(e) ==
    layer[e] # None =>
        /\ \A x \in layer[e].rejected : x.chunk \in Offered(e) /\ x.why \notin Transient
        /\ \A x, y \in layer[e].rejected : x.chunk = y.chunk => x = y
        /\ Offered(e) # {} => Cardinality(layer[e].rejected) # Cardinality(Offered(e))

Inv ==
    /\ Shapes
    /\ \A w \in Worker : Sound(run[w])
    /\ \A k \in DOMAIN cache : Kept(k)
    /\ \A e \in Edition : Whole(e)

-----------------------------------------------------------------------------
(* Validation *)

\* A placeholder that is taken out leaves the statement as valid as it was.
LEMMA CleanedIsValid ==
    ASSUME NEW s \in StatementForm, NEW chunk
    PROVE  /\ Cleaned(s) \in StatementForm
           /\ Valid(s, chunk) => Valid(Cleaned(s), chunk)
<1>1. CASE s.actor # "placeholder"
  BY <1>1 DEF Cleaned
<1>2. CASE s.actor = "placeholder"
  <2>1. Cleaned(s) = [s EXCEPT !.actor = "none"]
    BY <1>2 DEF Cleaned
  <2>2. /\ Cleaned(s).modality = s.modality /\ Cleaned(s).words = s.words
        /\ Cleaned(s).quotes = s.quotes /\ Cleaned(s).typed = s.typed
        /\ Cleaned(s).actor = "none"
    BY <2>1 DEF StatementForm
  <2>3. Cleaned(s) \in StatementForm
    BY <2>1 DEF StatementForm, Actor
  <2>4. Valid(s, chunk) => Valid(Cleaned(s), chunk)
    BY <1>2, <2>2 DEF Valid, NamesItsMechanism
  <2> QED
    BY <2>3, <2>4
<1> QED
  BY <1>1, <1>2

LEMMA ValidatedIsValid ==
    ASSUME NEW S, S \subseteq StatementForm, NEW chunk
    PROVE  /\ Validated(S, chunk) \subseteq StatementForm
           /\ \A s \in Validated(S, chunk) : Valid(s, chunk)
BY CleanedIsValid DEF Validated

-----------------------------------------------------------------------------
(* What each way to change a run leaves of it *)

\* One run is replaced by a sound one.
LEMMA RunStep ==
    ASSUME Inv, NEW w \in Worker, NEW r, Sound(r), run' = [run EXCEPT ![w] = r]
    PROVE  /\ DOMAIN run' = Worker /\ run' = [v \in Worker |-> run'[v]]
           /\ \A v \in Worker : Sound(run'[v])
<1>1. /\ DOMAIN run' = Worker
      /\ run'[w] = r
      /\ \A v \in Worker : v # w => run'[v] = run[v]
      /\ run' = [v \in Worker |-> run'[v]]
  BY DEF Inv, Shapes
<1> QED
  BY <1>1 DEF Inv

LEMMA RunReplaced ==
    ASSUME Inv, NEW w \in Worker, NEW r, Sound(r),
           run' = [run EXCEPT ![w] = r],
           UNCHANGED <<cache, extractor, layer>>
    PROVE  Inv'
<1>1. Shapes'
  BY RunStep DEF Inv, Shapes
<1>2. \A v \in Worker : Sound(run'[v])
  BY RunStep
<1>3. \A k \in DOMAIN cache : Kept(k)'
  BY DEF Inv, Kept
<1>4. \A e \in Edition : Whole(e)'
  BY DEF Inv, Whole
<1> QED
  BY <1>1, <1>2, <1>3, <1>4 DEF Inv

LEMMA IdleIsSound == Sound(Idle)
BY DEF Sound, Field, Placed, ValidSoFar, LostOnce, Idle

\* The run of Advance.
After(r) == [r EXCEPT !.next = @ + 1, !.phase = "chunk", !.tries = 0, !.answer = {}]

LEMMA AfterFields ==
    ASSUME NEW r, DOMAIN r = Field
    PROVE  /\ DOMAIN After(r) = Field
           /\ After(r).edition = r.edition /\ After(r).next = r.next + 1
           /\ After(r).phase = "chunk" /\ After(r).answer = {}
           /\ After(r).found = r.found /\ After(r).rejected = r.rejected
BY DEF Field, After

\* Passing a chunk by.
LEMMA SkippedIsSound ==
    ASSUME NEW r, Sound(r), r.phase # "idle"
    PROVE  Sound(After(r))
<1>1. DOMAIN r = Field /\ Placed(r) /\ ValidSoFar(r) /\ LostOnce(r)
  BY DEF Sound
<1>2. /\ DOMAIN After(r) = Field
      /\ After(r).edition = r.edition /\ After(r).next = r.next + 1
      /\ After(r).phase = "chunk" /\ After(r).answer = {}
      /\ After(r).found = r.found /\ After(r).rejected = r.rejected
  BY <1>1, AfterFields
<1>3. Placed(After(r))
  BY <1>1, <1>2 DEF Placed
<1>4. ValidSoFar(After(r))
  BY <1>1, <1>2 DEF ValidSoFar
<1>5. \A x \in r.rejected : x.chunk < r.next + 1
  <2>1. r.next \in Nat
    BY <1>1 DEF Placed
  <2> TAKE x \in r.rejected
  <2>2. x.chunk \in DOMAIN ChunksOf(r.edition) /\ x.chunk < r.next
    BY <1>1 DEF LostOnce, Offered
  <2>3. ChunksOf(r.edition) \in Seq(ChunkForm)
    BY <1>1, ReadingAssumption DEF Placed
  <2>4. x.chunk \in Nat
    BY <2>2, <2>3
  <2> QED
    BY <2>1, <2>2, <2>4
<1>6. LostOnce(After(r))
  BY <1>1, <1>2, <1>5 DEF LostOnce
<1> QED
  BY <1>2, <1>3, <1>4, <1>6 DEF Sound

\* Advance with something found or something lost on top.
LEMMA KeptIsSound ==
    ASSUME NEW r, Sound(r), r.phase # "idle", r.next \in Nat,
           NEW S, \A s \in S : Valid(s, ChunksOf(r.edition)[r.next]),
           NEW q, q = [r EXCEPT !.found = @ \cup {[chunk |-> r.next, statement |-> s] : s \in S}]
    PROVE  Sound(After(q))
<1>1. DOMAIN r = Field /\ Placed(r) /\ ValidSoFar(r) /\ LostOnce(r)
  BY DEF Sound
<1>2. PICK g : g = {[chunk |-> r.next, statement |-> s] : s \in S}
  OBVIOUS
<1>3. /\ DOMAIN q = Field
      /\ q.edition = r.edition /\ q.next = r.next /\ q.phase = r.phase
      /\ q.answer = r.answer /\ q.found = r.found \cup g /\ q.rejected = r.rejected
  BY <1>1, <1>2 DEF Field
<1>4. Placed(q) /\ LostOnce(q)
  BY <1>1, <1>3 DEF Placed, LostOnce
<1>5. \A x \in g : Valid(x.statement, ChunksOf(r.edition)[x.chunk])
  BY <1>2
<1>6. ValidSoFar(q)
  BY <1>1, <1>3, <1>5 DEF ValidSoFar
<1>7. Sound(q) /\ q.phase # "idle"
  BY <1>3, <1>4, <1>6 DEF Sound
<1> QED
  BY <1>7, SkippedIsSound

LEMMA RejectedIsSound ==
    ASSUME NEW r, Sound(r), r.phase # "idle", r.next \in Offered(r.edition),
           NEW why, why \notin Transient,
           NEW q, q = [r EXCEPT !.rejected = @ \cup {[chunk |-> r.next, why |-> why]}]
    PROVE  Sound(After(q))
<1>1. DOMAIN r = Field /\ Placed(r) /\ ValidSoFar(r) /\ LostOnce(r)
  BY DEF Sound
<1>2. PICK x, e, n : x = [chunk |-> n, why |-> why] /\ e = r.edition /\ n = r.next
  OBVIOUS
<1>3. /\ DOMAIN q = Field
      /\ q.edition = e /\ q.next = n /\ q.answer = r.answer
      /\ q.found = r.found /\ q.rejected = r.rejected \cup {x}
  BY <1>1, <1>2 DEF Field
<1>4. /\ DOMAIN After(q) = Field
      /\ After(q).edition = e /\ After(q).next = n + 1
      /\ After(q).phase = "chunk" /\ After(q).answer = {}
      /\ After(q).found = r.found /\ After(q).rejected = r.rejected \cup {x}
  BY <1>3, AfterFields
<1>5. n \in Nat \ {0} /\ e \in Edition /\ n \in Offered(e)
  BY <1>1, <1>2 DEF Placed
<1>6. \A i \in Offered(e) : i \in Nat
  <2>1. ChunksOf(e) \in Seq(ChunkForm)
    BY <1>5, ReadingAssumption
  <2> QED
    BY <2>1 DEF Offered
<1>7. \A y \in r.rejected : /\ y.chunk \in Offered(e) /\ y.why \notin Transient
                            /\ y.chunk < n + 1 /\ y.chunk # n
  <2> TAKE y \in r.rejected
  <2>1. y.chunk \in Offered(e) /\ y.chunk < n /\ y.why \notin Transient
    BY <1>1, <1>2 DEF LostOnce
  <2>2. y.chunk < n + 1 /\ y.chunk # n
    BY <1>5, <1>6, <2>1
  <2> QED
    BY <2>1, <2>2
<1>8. x.chunk = n /\ x.why \notin Transient /\ n < n + 1 /\ n + 1 \in Nat \ {0}
  BY <1>2, <1>5
<1>9. LostOnce(After(q))
  <2>1. \A y \in r.rejected \cup {x} :
           y.chunk \in Offered(e) /\ y.chunk < n + 1 /\ y.why \notin Transient
    BY <1>5, <1>7, <1>8
  <2>2. \A y, z \in r.rejected : y.chunk = z.chunk => y = z
    BY <1>1 DEF LostOnce
  <2>3. \A y, z \in r.rejected \cup {x} : y.chunk = z.chunk => y = z
    BY <1>7, <1>8, <2>2
  <2> QED
    BY <1>4, <2>1, <2>3 DEF LostOnce
<1>10. Placed(After(q))
  BY <1>4, <1>5, <1>8 DEF Placed
<1>11. ValidSoFar(After(q))
  BY <1>1, <1>2, <1>4 DEF ValidSoFar
<1> QED
  BY <1>4, <1>9, <1>10, <1>11 DEF Sound

\* A chunk that is not past the end and states a duty is offered.
LEMMA CurrentIsOffered ==
    ASSUME Inv, NEW w \in Worker, AtChunk(w), ~StatesNoDuty(Current(w))
    PROVE  run[w].next \in Offered(run[w].edition)
<1>1. Placed(run[w]) /\ run[w].phase = "chunk"
  BY DEF Inv, Sound, AtChunk
<1>2. ChunksOf(run[w].edition) \in Seq(ChunkForm)
  BY <1>1, ReadingAssumption DEF Placed
<1>3. run[w].next \in 1 .. Len(ChunksOf(run[w].edition))
  BY <1>1, <1>2 DEF Placed, AtChunk, Chunks
<1> QED
  BY <1>2, <1>3 DEF Offered, Current, Chunks

LEMMA OneFieldIsSound ==
    ASSUME NEW r, Sound(r), NEW q,
           \/ \E n : q = [r EXCEPT !.tries = n]
           \/ /\ r.phase = "chunk" /\ r.next \in Offered(r.edition)
              /\ q = [r EXCEPT !.phase = "put"] \/ q = [r EXCEPT !.phase = "post"]
    PROVE  Sound(q)
<1>1. DOMAIN r = Field /\ Placed(r) /\ ValidSoFar(r) /\ LostOnce(r)
  BY DEF Sound
<1>2. /\ DOMAIN q = Field
      /\ q.edition = r.edition /\ q.next = r.next /\ q.answer = r.answer
      /\ q.found = r.found /\ q.rejected = r.rejected
      /\ \/ q.phase = r.phase
         \/ /\ r.phase = "chunk" /\ r.next \in Offered(r.edition)
            /\ q.phase \in {"post", "put"}
  BY <1>1 DEF Field
<1>3. Placed(q)
  BY <1>1, <1>2 DEF Placed
<1>4. ValidSoFar(q)
  BY <1>1, <1>2 DEF ValidSoFar
<1>5. LostOnce(q)
  BY <1>1, <1>2 DEF LostOnce
<1> QED
  BY <1>2, <1>3, <1>4, <1>5 DEF Sound

LEMMA AnsweredIsSound ==
    ASSUME NEW r, Sound(r), r.phase = "post",
           NEW S, S \subseteq StatementForm,
           \A s \in S : Valid(s, ChunksOf(r.edition)[r.next]),
           NEW q, q = [r EXCEPT !.phase = "put", !.answer = S]
    PROVE  Sound(q)
<1>1. DOMAIN r = Field /\ Placed(r) /\ ValidSoFar(r) /\ LostOnce(r)
  BY DEF Sound
<1>2. /\ DOMAIN q = Field
      /\ q.edition = r.edition /\ q.next = r.next /\ q.phase = "put"
      /\ q.answer = S /\ q.found = r.found /\ q.rejected = r.rejected
  BY <1>1 DEF Field
<1>3. Placed(q) /\ ValidSoFar(q) /\ LostOnce(q)
  BY <1>1, <1>2 DEF Placed, ValidSoFar, LostOnce
<1> QED
  BY <1>2, <1>3 DEF Sound

-----------------------------------------------------------------------------
(* The actions *)

LEMMA StartKeeps ==
    ASSUME Inv, NEW w \in Worker, NEW e \in Edition, Start(w, e)
    PROVE  Inv'
<1>1. PICK r : r = [Idle EXCEPT !.edition = e, !.phase = "chunk"]
  OBVIOUS
<1>2. /\ DOMAIN r = Field
      /\ r.edition = e /\ r.next = 1 /\ r.phase = "chunk" /\ r.answer = {}
      /\ r.found = {} /\ r.rejected = {}
  BY <1>1 DEF Idle, Field
<1>3. Sound(r)
  BY <1>2 DEF Sound, Placed, ValidSoFar, LostOnce
<1>4. run' = [run EXCEPT ![w] = r] /\ UNCHANGED <<cache, extractor, layer>>
  BY <1>1 DEF Start
<1> QED
  BY <1>3, <1>4, RunReplaced

LEMMA SkipKeeps ==
    ASSUME Inv, NEW w \in Worker, Skip(w)
    PROVE  Inv'
<1>1. /\ run' = [run EXCEPT ![w] = After(run[w])]
      /\ UNCHANGED <<cache, extractor, layer>>
  BY DEF Skip, Advance, After
<1>2. Sound(run[w]) /\ run[w].phase # "idle"
  BY DEF Inv, Skip, AtChunk
<1>3. Sound(After(run[w]))
  BY <1>2, SkippedIsSound
<1> QED
  BY <1>1, <1>3, RunReplaced

\* Reject and Keep at a chunk that was offered.
LEMMA RejectSound ==
    ASSUME Inv, NEW w \in Worker, run[w].phase # "idle",
           run[w].next \in Offered(run[w].edition),
           NEW why, why \notin Transient, Reject(w, why)
    PROVE  \E r : Sound(r) /\ run' = [run EXCEPT ![w] = r]
<1>1. PICK q : q = [run[w] EXCEPT !.rejected = @ \cup {[chunk |-> run[w].next, why |-> why]}]
  OBVIOUS
<1>2. Sound(After(q))
  BY <1>1, RejectedIsSound DEF Inv
<1>3. run' = [run EXCEPT ![w] = After(q)]
  BY <1>1 DEF Reject, Advance, After
<1> QED
  BY <1>2, <1>3

LEMMA KeepSound ==
    ASSUME Inv, NEW w \in Worker, run[w].phase # "idle",
           NEW S, \A s \in S : Valid(s, ChunksOf(run[w].edition)[run[w].next]),
           Keep(w, S)
    PROVE  \E r : Sound(r) /\ run' = [run EXCEPT ![w] = r]
<1>1. PICK q : q = [run[w] EXCEPT !.found =
                       @ \cup {[chunk |-> run[w].next, statement |-> s] : s \in S}]
  OBVIOUS
<1>2. Sound(run[w]) /\ run[w].next \in Nat
  BY DEF Inv, Sound, Placed
<1>3. Sound(After(q))
  BY <1>1, <1>2, KeptIsSound
<1>4. run' = [run EXCEPT ![w] = After(q)]
  BY <1>1 DEF Keep, Advance, After
<1> QED
  BY <1>3, <1>4

LEMMA ReplayKeeps ==
    ASSUME Inv, NEW w \in Worker, Replay(w)
    PROVE  Inv'
<1> DEFINE statements == cache[KeyOf(w)].statements
           good == Validated(statements, Current(w))
<1>1. /\ run[w].phase # "idle" /\ UNCHANGED <<cache, extractor, layer>>
      /\ run[w].next \in Offered(run[w].edition)
      /\ IF statements # {} /\ good = {} THEN Reject(w, "stale") ELSE Keep(w, good)
  BY CurrentIsOffered DEF Replay, AtChunk
<1>2. statements \subseteq StatementForm
  BY DEF Replay, Cached, Inv, Kept
<1>3. \A s \in good : Valid(s, ChunksOf(run[w].edition)[run[w].next])
  BY <1>2, ValidatedIsValid DEF Current, Chunks
<1>4. "stale" \notin Transient
  BY DEF Transient
<1> HIDE DEF statements, good
<1>5. PICK r : Sound(r) /\ run' = [run EXCEPT ![w] = r]
  BY <1>1, <1>3, <1>4, RejectSound, KeepSound
<1> QED
  BY <1>1, <1>5, RunReplaced

LEMMA MissKeeps ==
    ASSUME Inv, NEW w \in Worker, Miss(w)
    PROVE  Inv'
<1>1. PICK r : /\ run' = [run EXCEPT ![w] = r] /\ UNCHANGED <<cache, extractor, layer>>
               /\ r = [run[w] EXCEPT !.phase = "put"] \/ r = [run[w] EXCEPT !.phase = "post"]
  BY DEF Miss
<1>2. Sound(run[w]) /\ run[w].phase = "chunk" /\ run[w].next \in Offered(run[w].edition)
  BY CurrentIsOffered DEF Inv, Miss, AtChunk
<1>3. Sound(r)
  BY <1>1, <1>2, OneFieldIsSound
<1> QED
  BY <1>1, <1>3, RunReplaced

LEMMA RetryKeeps ==
    ASSUME Inv, NEW w \in Worker, Retry(w)
    PROVE  Inv'
<1>1. PICK r : /\ run' = [run EXCEPT ![w] = r] /\ UNCHANGED <<cache, extractor, layer>>
               /\ r = [run[w] EXCEPT !.tries = @ + 1]
  BY DEF Retry
<1>2. Sound(run[w])
  BY DEF Inv
<1>3. Sound(r)
  BY <1>1, <1>2, OneFieldIsSound
<1> QED
  BY <1>1, <1>3, RunReplaced

\* The end of a run that changes nothing else.
LEMMA EndKeeps ==
    ASSUME Inv, NEW w \in Worker, End(w), UNCHANGED <<cache, extractor, layer>>
    PROVE  Inv'
BY IdleIsSound, RunReplaced DEF End

LEMMA UnreadableKeeps ==
    ASSUME Inv, NEW w \in Worker, Unreadable(w)
    PROVE  Inv'
<1>1. PICK why \in Costing(extractor[w]) : Reject(w, why)
  BY DEF Unreadable
<1>2. why \notin Transient
  BY DEF Costing, Transient
<1>3. /\ run[w].phase # "idle" /\ run[w].next \in Offered(run[w].edition)
      /\ UNCHANGED <<cache, extractor, layer>>
  BY DEF Unreadable, Inv, Sound, Placed
<1>4. PICK r : Sound(r) /\ run' = [run EXCEPT ![w] = r]
  BY <1>1, <1>2, <1>3, RejectSound
<1> QED
  BY <1>3, <1>4, RunReplaced

LEMMA AnswerKeeps ==
    ASSUME Inv, NEW w \in Worker, Answer(w)
    PROVE  Inv'
<1>1. PICK statements \in Answers :
         LET good == Validated(statements, Current(w))
         IN IF statements # {} /\ good = {}
              THEN Reject(w, "invalid")
              ELSE run' = [run EXCEPT ![w].phase = "put", ![w].answer = good]
  BY DEF Answer
<1>2. /\ Sound(run[w]) /\ run[w].phase = "post"
      /\ run[w].next \in Offered(run[w].edition)
      /\ UNCHANGED <<cache, extractor, layer>>
  BY DEF Answer, Inv, Sound, Placed
<1>3. PICK good : good = Validated(statements, Current(w))
  OBVIOUS
<1>4. /\ good \subseteq StatementForm
      /\ \A s \in good : Valid(s, ChunksOf(run[w].edition)[run[w].next])
  BY <1>3, ValidatedIsValid, ReadingAssumption DEF Current, Chunks
<1>5. CASE statements # {} /\ good = {}
  <2>1. Reject(w, "invalid") /\ "invalid" \notin Transient
    BY <1>1, <1>3, <1>5 DEF Transient
  <2>2. PICK r : Sound(r) /\ run' = [run EXCEPT ![w] = r]
    BY <1>2, <2>1, RejectSound
  <2> QED
    BY <1>2, <2>2, RunReplaced
<1>6. CASE ~(statements # {} /\ good = {})
  <2>1. run' = [run EXCEPT ![w].phase = "put", ![w].answer = good]
    BY <1>1, <1>3, <1>6
  <2>2. PICK r : r = [run[w] EXCEPT !.phase = "put", !.answer = good]
    OBVIOUS
  <2>3. Sound(r)
    BY <1>2, <1>4, <2>2, AnsweredIsSound
  <2>4. run' = [run EXCEPT ![w] = r]
    BY <2>1, <2>2 DEF Inv, Shapes
  <2> QED
    BY <1>2, <2>3, <2>4, RunReplaced
<1> QED
  BY <1>5, <1>6

LEMMA PutKeeps ==
    ASSUME Inv, NEW w \in Worker, Put(w)
    PROVE  Inv'
<1>1. PICK key, entry :
         /\ key = KeyOf(w)
         /\ entry = [statements |-> run[w].answer, by |-> extractor[w],
                     of |-> [text |-> Current(w).text, path |-> Current(w).path]]
  OBVIOUS
<1>2. /\ cache' = [k \in DOMAIN cache \cup {key} |-> IF k = key THEN entry ELSE cache[k]]
      /\ Keep(w, run[w].answer) /\ UNCHANGED <<extractor, layer>>
      /\ run[w].phase = "put"
  BY <1>1 DEF Put
<1>3. ValidSoFar(run[w]) /\ extractor[w] \in Extractor
  BY DEF Inv, Sound, Shapes
<1>4. PICK r : Sound(r) /\ run' = [run EXCEPT ![w] = r]
  BY <1>2, <1>3, KeepSound DEF ValidSoFar
<1>5. Shapes' /\ \A v \in Worker : Sound(run'[v])
  BY <1>2, <1>4, RunStep DEF Inv, Shapes
<1>6. ASSUME NEW k \in DOMAIN cache'
      PROVE  Kept(k)'
  <2>1. CASE k = key
    <3>1. cache'[k] = entry
      BY <1>2, <2>1
    <3>2. /\ entry.by = extractor[w] /\ entry.statements \subseteq StatementForm
          /\ entry.of = [text |-> Current(w).text, path |-> Current(w).path]
      BY <1>1, <1>3 DEF ValidSoFar
    <3>3. /\ k.adapter = extractor[w].adapter /\ k.model = extractor[w].model
          /\ k.prompt = extractor[w].prompt /\ k.variant = extractor[w].variant
          /\ k.text = Current(w).text /\ k.path = Current(w).path
      BY <1>1, <2>1 DEF KeyOf, CacheKey
    <3> QED
      BY <1>3, <3>1, <3>2, <3>3 DEF Kept
  <2>2. CASE k # key
    <3>1. cache'[k] = cache[k] /\ k \in DOMAIN cache
      BY <1>2, <2>2
    <3> QED
      BY <3>1 DEF Inv, Kept
  <2> QED
    BY <2>1, <2>2
<1>7. \A e \in Edition : Whole(e)'
  BY <1>2 DEF Inv, Whole
<1> QED
  BY <1>5, <1>6, <1>7 DEF Inv

LEMMA FinishKeeps ==
    ASSUME Inv, NEW w \in Worker, Finish(w)
    PROVE  Inv'
<1>1. run' = [run EXCEPT ![w] = Idle] /\ UNCHANGED <<cache, extractor>>
  BY DEF Finish, End
<1>2. CASE Broken(w)
  BY <1>2, EndKeeps DEF Finish
<1>3. CASE ~Broken(w)
  <2>1. PICK written, at :
           /\ at = run[w].edition
           /\ written = [by |-> extractor[w], found |-> run[w].found,
                         rejected |-> run[w].rejected]
    OBVIOUS
  <2>2. layer' = [layer EXCEPT ![at] = written]
    BY <1>3, <2>1 DEF Finish
  <2>3. Shapes' /\ \A v \in Worker : Sound(run'[v])
    BY <1>1, <2>2, IdleIsSound, RunStep DEF Inv, Shapes
  <2>4. \A k \in DOMAIN cache' : Kept(k)'
    BY <1>1 DEF Inv, Kept
  <2>5. ASSUME NEW e \in Edition
        PROVE  Whole(e)'
    <3>1. CASE e # at
      <4>1. layer'[e] = layer[e]
        BY <2>2, <3>1 DEF Inv, Shapes
      <4> QED
        BY <4>1 DEF Inv, Whole
    <3>2. CASE e = at
      <4>1. layer'[e].rejected = run[w].rejected
        BY <2>1, <2>2, <3>2 DEF Inv, Shapes
      <4>2. LostOnce(run[w])
        BY DEF Inv, Sound
      <4>3. Offered(e) # {} => Cardinality(run[w].rejected) # Cardinality(Offered(e))
        BY <1>3, <2>1, <3>2 DEF Broken
      <4> QED
        BY <2>1, <3>2, <4>1, <4>2, <4>3 DEF Whole, LostOnce
    <3> QED
      BY <3>1, <3>2
  <2> QED
    BY <2>3, <2>4, <2>5 DEF Inv
<1> QED
  BY <1>2, <1>3

LEMMA InvStep ==
    ASSUME Inv, [Next]_vars
    PROVE  Inv'
<1>1. CASE UNCHANGED vars
  BY <1>1 DEF vars, Inv, Shapes, Kept, Whole
<1>2. ASSUME NEW w \in Worker, NEW e \in Edition, Start(w, e)
      PROVE  Inv'
  BY <1>2, StartKeeps
<1>3. ASSUME NEW w \in Worker, Read(w)
      PROVE  Inv'
  <2>1. CASE Skip(w)
    BY <2>1, SkipKeeps
  <2>2. CASE Replay(w)
    BY <2>2, ReplayKeeps
  <2>3. CASE Miss(w)
    BY <2>3, MissKeeps
  <2>4. CASE Retry(w)
    BY <2>4, RetryKeeps
  <2>5. CASE Fail(w)
    BY <2>5, EndKeeps DEF Fail
  <2>6. CASE Unreadable(w)
    BY <2>6, UnreadableKeeps
  <2>7. CASE Answer(w)
    BY <2>7, AnswerKeeps
  <2>8. CASE Put(w)
    BY <2>8, PutKeeps
  <2>9. CASE Finish(w)
    BY <2>9, FinishKeeps
  <2> QED
    BY <1>3, <2>1, <2>2, <2>3, <2>4, <2>5, <2>6, <2>7, <2>8, <2>9 DEF Read
<1>4. ASSUME NEW w \in Worker, Kill(w)
      PROVE  Inv'
  BY <1>4, EndKeeps DEF Kill
<1>5. ASSUME NEW w \in Worker, Redeploy(w)
      PROVE  Inv'
  <2>1. /\ extractor' \in [Worker -> Extractor]
        /\ UNCHANGED <<cache, run, layer>>
    BY <1>5 DEF Redeploy, Inv, Shapes
  <2> QED
    BY <2>1 DEF Inv, Shapes, Kept, Whole
<1> QED
  BY <1>1, <1>2, <1>3, <1>4, <1>5 DEF Next

LEMMA InvInit == Init => Inv
<1> SUFFICES ASSUME Init
             PROVE  Inv
  OBVIOUS
<1>1. Shapes
  BY DEF Init, Shapes
<1>2. \A w \in Worker : run[w] = Idle
  BY DEF Init
<1>3. \A w \in Worker : Sound(run[w])
  BY <1>2, IdleIsSound
<1>4. DOMAIN cache = {}
  BY DEF Init
<1>5. \A e \in Edition : Whole(e)
  BY DEF Init, Whole
<1> QED
  BY <1>1, <1>3, <1>4, <1>5 DEF Inv

LEMMA AlwaysInv == Spec => []Inv
<1>1. Inv /\ [Next]_vars => Inv'
  BY InvStep
<1> QED
  BY InvInit, <1>1, PTL DEF Spec

-----------------------------------------------------------------------------
(* What follows *)

\* Whatever models say and however workers are redeployed, what a run keeps is
\* valid for the chunk it keeps it of, and a hit was said of that chunk's own
\* text and path by the extractor the run is configured with.
THEOREM OwnReadings == Spec => []ReadingsAreOwn
<1>1. ASSUME Inv
      PROVE  ReadingsAreOwn
  <2>1. ASSUME NEW w \in Worker
        PROVE  \A f \in run[w].found : Valid(f.statement, Chunks(w)[f.chunk])
    BY <1>1 DEF Inv, Sound, ValidSoFar, Chunks
  <2>2. ASSUME NEW w \in Worker, AtChunk(w), Cached(w)
        PROVE  /\ cache[KeyOf(w)].by = extractor[w]
               /\ cache[KeyOf(w)].of = [text |-> Current(w).text, path |-> Current(w).path]
    <3>1. PICK k : k = KeyOf(w)
      OBVIOUS
    <3>2. Kept(k)
      BY <1>1, <2>2, <3>1 DEF Inv, Cached
    <3>3. /\ k.adapter = extractor[w].adapter /\ k.model = extractor[w].model
          /\ k.prompt = extractor[w].prompt /\ k.variant = extractor[w].variant
          /\ k.text = Current(w).text /\ k.path = Current(w).path
      BY <3>1 DEF KeyOf, CacheKey
    <3>4. cache[k].by \in ExtractorForm /\ extractor[w] \in ExtractorForm
      BY <1>1, <3>2, ReadingAssumption DEF Inv, Shapes, Kept
    <3>5. cache[k].by = extractor[w]
      BY <3>2, <3>3, <3>4 DEF Kept, ExtractorForm
    <3> QED
      BY <3>1, <3>2, <3>3, <3>5 DEF Kept
  <2> QED
    BY <2>1, <2>2 DEF ReadingsAreOwn
<1> QED
  BY AlwaysInv, <1>1, PTL

LEMMA SameCount ==
    ASSUME NEW S, NEW T, IsFiniteSet(T), {x.chunk : x \in S} = T,
           \A x, y \in S : x.chunk = y.chunk => x = y
    PROVE  Cardinality(S) = Cardinality(T)
<1> DEFINE f == [x \in S |-> x.chunk]
<1>1. f \in [S -> T]
  OBVIOUS
<1>2. \A x, y \in S : f[x] = f[y] => x = y
  OBVIOUS
<1>3. \A t \in T : \E x \in S : f[x] = t
  OBVIOUS
<1> HIDE DEF f
<1>4. f \in Bijection(S, T)
  BY <1>1, <1>2, <1>3 DEF Bijection, Injection, IsInjective, Surjection
<1>5. ExistsBijection(T, S)
  BY <1>4, Fun_ExistsBijSymmetric DEF ExistsBijection
<1> QED
  BY <1>5, FS_Bijection

\* What a finished run wrote had no failure of the model server in it, and
\* something of what it offered was answered.
THEOREM WholeRuns == Spec => []WrittenRunsAreWhole
<1>1. ASSUME Inv
      PROVE  WrittenRunsAreWhole
  <2> SUFFICES ASSUME NEW e \in Edition, layer[e] # None
               PROVE  /\ \A r \in layer[e].rejected : r.why \notin Transient
                      /\ Offered(e) # {} => {r.chunk : r \in layer[e].rejected} # Offered(e)
    BY DEF WrittenRunsAreWhole
  <2>1. Whole(e)
    BY <1>1 DEF Inv
  <2>2. IsFiniteSet(Offered(e))
    <3>1. ChunksOf(e) \in Seq(ChunkForm)
      BY ReadingAssumption
    <3>2. PICK n \in Nat : DOMAIN ChunksOf(e) = 1 .. n
      BY <3>1
    <3>3. Offered(e) \subseteq 1 .. n
      BY <3>2 DEF Offered
    <3> QED
      BY <3>2, <3>3, FS_Interval, FS_Subset
  <2>3. ASSUME {r.chunk : r \in layer[e].rejected} = Offered(e)
        PROVE  Cardinality(layer[e].rejected) = Cardinality(Offered(e))
    BY <2>1, <2>2, <2>3, SameCount DEF Whole
  <2> QED
    BY <2>1, <2>3 DEF Whole
<1> QED
  BY AlwaysInv, <1>1, PTL

-----------------------------------------------------------------------------
(* What a second run asks *)

\* Chunk i of an edition has been answered to extractor x, or is among the lost.
Settled(x, e, i, lost) ==
    \/ \E y \in lost : y.chunk = i
    \/ CacheKey(x, ChunksOf(e)[i]) \in DOMAIN cache

\* The strengthening: a run has settled what it has passed, and a run that has
\* written had settled all it offered.
Passed(w) ==
    run[w].phase # "idle" =>
        \A i \in Offered(run[w].edition) :
            i < run[w].next => Settled(extractor[w], run[w].edition, i, run[w].rejected)

WrittenSettled(e) ==
    layer[e] # None =>
        \A i \in Offered(e) : Settled(layer[e].by, e, i, layer[e].rejected)

Settling ==
    /\ \A w \in Worker : Passed(w)
    /\ \A e \in Edition : WrittenSettled(e)

\* The cache only grows, and so does what is settled.
LEMMA SettledStays ==
    ASSUME DOMAIN cache \subseteq DOMAIN cache',
           NEW x, NEW e, NEW i, NEW lost, NEW more, lost \subseteq more,
           Settled(x, e, i, lost)
    PROVE  Settled(x, e, i, more)'
BY DEF Settled

LEMMA WrittenStays ==
    ASSUME Settling, DOMAIN cache \subseteq DOMAIN cache', UNCHANGED layer
    PROVE  \A e \in Edition : WrittenSettled(e)'
<1> SUFFICES ASSUME NEW e \in Edition, layer[e] # None, NEW i \in Offered(e)
             PROVE  Settled(layer[e].by, e, i, layer[e].rejected)'
  BY DEF WrittenSettled
<1>1. Settled(layer[e].by, e, i, layer[e].rejected)
  BY DEF Settling, WrittenSettled
<1> QED
  BY <1>1 DEF Settled

\* A worker whose run and extractor are as they were has passed what it had.
LEMMA PassedStays ==
    ASSUME NEW v, Passed(v), DOMAIN cache \subseteq DOMAIN cache',
           run'[v] = run[v], extractor'[v] = extractor[v]
    PROVE  Passed(v)'
BY DEF Passed, Settled

\* The run of one worker moves; every other stays.
LEMMA OneRunMoves ==
    ASSUME Inv, Settling, NEW w \in Worker, NEW r, run' = [run EXCEPT ![w] = r],
           DOMAIN cache \subseteq DOMAIN cache', UNCHANGED <<extractor, layer>>,
           r.phase # "idle" =>
              \A i \in Offered(r.edition) :
                 i < r.next => Settled(extractor[w], r.edition, i, r.rejected)'
    PROVE  Settling'
<1>1. run'[w] = r /\ \A v \in Worker : v # w => run'[v] = run[v]
  BY DEF Inv, Shapes
<1>2. Passed(w)'
  BY <1>1 DEF Passed, Settled
<1>3. \A v \in Worker : v # w => Passed(v)'
  BY <1>1, PassedStays DEF Settling
<1>4. \A e \in Edition : WrittenSettled(e)'
  BY WrittenStays
<1> QED
  BY <1>2, <1>3, <1>4 DEF Settling

\* An advance settles the chunk it passes, if that was offered.
LEMMA AdvanceSettles ==
    ASSUME Inv, Settling, NEW w \in Worker, run[w].phase # "idle",
           NEW e, e = run[w].edition, NEW n, n = run[w].next,
           NEW q, DOMAIN q = Field, q.edition = e, q.next = n,
           run[w].rejected \subseteq q.rejected,
           run' = [run EXCEPT ![w] = After(q)],
           DOMAIN cache \subseteq DOMAIN cache', UNCHANGED <<extractor, layer>>,
           n \in Offered(e) => Settled(extractor[w], e, n, q.rejected)'
    PROVE  Settling'
<1>1. PICK r : r = After(q)
  OBVIOUS
<1>2. r.edition = e /\ r.next = n + 1 /\ r.rejected = q.rejected
  BY <1>1, AfterFields
<1>3. n \in Nat /\ e \in Edition
  BY DEF Inv, Sound, Placed
<1>4. ASSUME NEW i \in Offered(e), i < n + 1
      PROVE  Settled(extractor[w], e, i, r.rejected)'
  <2>1. i \in Nat
    <3>1. ChunksOf(e) \in Seq(ChunkForm)
      BY <1>3, ReadingAssumption
    <3> QED
      BY <3>1 DEF Offered
  <2>2. CASE i = n
    BY <1>2, <2>2 DEF Settled
  <2>3. CASE i # n
    <3>1. i < n
      BY <1>3, <1>4, <2>1, <2>3
    <3>2. Settled(extractor[w], e, i, run[w].rejected)
      BY <3>1 DEF Settling, Passed
    <3> QED
      BY <1>2, <3>2 DEF Settled
  <2> QED
    BY <2>2, <2>3
<1> QED
  BY <1>1, <1>2, <1>4, OneRunMoves

\* A run that moves within a chunk has passed what it had.
LEMMA StandingSettles ==
    ASSUME Inv, Settling, NEW w \in Worker, run[w].phase # "idle",
           NEW q, q.edition = run[w].edition, q.next = run[w].next,
           q.rejected = run[w].rejected, run' = [run EXCEPT ![w] = q],
           UNCHANGED <<cache, extractor, layer>>
    PROVE  Settling'
<1>1. ASSUME NEW i \in Offered(q.edition), i < q.next
      PROVE  Settled(extractor[w], q.edition, i, q.rejected)'
  <2>1. Settled(extractor[w], q.edition, i, q.rejected)
    BY <1>1 DEF Settling, Passed
  <2> QED
    BY <2>1 DEF Settled
<1> QED
  BY <1>1, OneRunMoves

LEMMA EndSettles ==
    ASSUME Inv, Settling, NEW w \in Worker, End(w), UNCHANGED <<cache, extractor, layer>>
    PROVE  Settling'
<1>1. PICK r : r = Idle
  OBVIOUS
<1>2. r.phase = "idle" /\ run' = [run EXCEPT ![w] = r]
  BY <1>1 DEF Idle, End
<1> QED
  BY <1>2, OneRunMoves

LEMMA RejectSettles ==
    ASSUME Inv, Settling, NEW w \in Worker, run[w].phase # "idle",
           NEW why, Reject(w, why), UNCHANGED <<cache, extractor, layer>>
    PROVE  Settling'
<1>1. PICK q, x, e, n :
         /\ e = run[w].edition /\ n = run[w].next
         /\ x = [chunk |-> n, why |-> why]
         /\ q = [run[w] EXCEPT !.rejected = @ \cup {x}]
  OBVIOUS
<1>2. run' = [run EXCEPT ![w] = After(q)]
  BY <1>1 DEF Reject, Advance, After
<1>3. /\ DOMAIN q = Field /\ q.edition = e /\ q.next = n
      /\ q.rejected = run[w].rejected \cup {x}
  BY <1>1 DEF Inv, Sound, Field
<1>4. Settled(extractor[w], e, n, q.rejected)'
  BY <1>1, <1>3 DEF Settled
<1> QED
  BY <1>1, <1>2, <1>3, <1>4, AdvanceSettles

LEMMA KeepSettles ==
    ASSUME Inv, Settling, NEW w \in Worker, run[w].phase # "idle",
           NEW S, Keep(w, S), KeyOf(w) \in DOMAIN cache',
           DOMAIN cache \subseteq DOMAIN cache', UNCHANGED <<extractor, layer>>
    PROVE  Settling'
<1>1. PICK q, e, n :
         /\ e = run[w].edition /\ n = run[w].next
         /\ q = [run[w] EXCEPT !.found =
                    @ \cup {[chunk |-> run[w].next, statement |-> s] : s \in S}]
  OBVIOUS
<1>2. run' = [run EXCEPT ![w] = After(q)]
  BY <1>1 DEF Keep, Advance, After
<1>3. /\ DOMAIN q = Field /\ q.edition = e /\ q.next = n
      /\ q.rejected = run[w].rejected
  BY <1>1 DEF Inv, Sound, Field
<1>4. Settled(extractor[w], e, n, q.rejected)'
  BY <1>1 DEF Settled, KeyOf, Current, Chunks
<1> QED
  BY <1>1, <1>2, <1>3, <1>4, AdvanceSettles

LEMMA FinishSettles ==
    ASSUME Inv, Settling, NEW w \in Worker, Finish(w)
    PROVE  Settling'
<1>1. /\ End(w) /\ run[w].phase = "chunk" /\ run[w].next > Len(Chunks(w))
      /\ UNCHANGED <<cache, extractor>>
  BY DEF Finish
<1>2. CASE Broken(w)
  BY <1>1, <1>2, EndSettles DEF Finish
<1>3. CASE ~Broken(w)
  <2>1. PICK written, at :
           /\ at = run[w].edition
           /\ written = [by |-> extractor[w], found |-> run[w].found,
                         rejected |-> run[w].rejected]
    OBVIOUS
  <2>2. layer' = [layer EXCEPT ![at] = written]
    BY <1>3, <2>1 DEF Finish
  <2>3. \A v \in Worker : Passed(v)'
    <3>1. /\ run'[w].phase = "idle"
          /\ \A v \in Worker : v # w => run'[v] = run[v]
      BY <1>1 DEF End, Idle, Inv, Shapes
    <3>2. Passed(w)'
      BY <3>1 DEF Passed
    <3>3. \A v \in Worker : v # w => Passed(v)'
      BY <1>1, <3>1, PassedStays DEF Settling
    <3> QED
      BY <3>2, <3>3
  <2>4. ASSUME NEW e \in Edition
        PROVE  WrittenSettled(e)'
    <3>1. CASE e # at
      <4>1. layer'[e] = layer[e]
        BY <2>2, <3>1 DEF Inv, Shapes
      <4> QED
        BY <1>1, <4>1 DEF Settling, WrittenSettled, Settled
    <3>2. CASE e = at
      <4>1. layer'[e].by = extractor[w] /\ layer'[e].rejected = run[w].rejected
        BY <2>1, <2>2, <3>2 DEF Inv, Shapes
      <4>2. ASSUME NEW i \in Offered(e)
            PROVE  i < run[w].next
        <5>1. ChunksOf(e) \in Seq(ChunkForm) /\ run[w].next \in Nat
          BY ReadingAssumption DEF Inv, Sound, Placed
        <5>2. i \in 1 .. Len(ChunksOf(e))
          BY <5>1 DEF Offered
        <5> QED
          BY <1>1, <2>1, <3>2, <5>1, <5>2 DEF Chunks
      <4>3. \A i \in Offered(e) : Settled(extractor[w], e, i, run[w].rejected)
        BY <1>1, <2>1, <3>2, <4>2 DEF Settling, Passed
      <4> QED
        BY <1>1, <4>1, <4>3 DEF WrittenSettled, Settled
    <3> QED
      BY <3>1, <3>2
  <2> QED
    BY <2>3, <2>4 DEF Settling
<1> QED
  BY <1>2, <1>3

LEMMA ReadSettles ==
    ASSUME Inv, Settling, NEW w \in Worker, Read(w)
    PROVE  Settling'
<1>1. CASE Skip(w)
  <2>1. PICK q, e, n : q = run[w] /\ e = run[w].edition /\ n = run[w].next
    OBVIOUS
  <2>2. /\ run' = [run EXCEPT ![w] = After(q)]
        /\ UNCHANGED <<cache, extractor, layer>>
        /\ run[w].phase # "idle"
        /\ n \notin Offered(e)
    BY <1>1, <2>1 DEF Skip, Advance, After, AtChunk, Offered, Current, Chunks
  <2>3. DOMAIN q = Field /\ q.edition = e /\ q.next = n /\ q.rejected = run[w].rejected
    BY <2>1 DEF Inv, Sound
  <2> QED
    BY <2>1, <2>2, <2>3, AdvanceSettles
<1>2. CASE Replay(w)
  <2>1. /\ run[w].phase # "idle" /\ KeyOf(w) \in DOMAIN cache
        /\ UNCHANGED <<cache, extractor, layer>>
        /\ \/ Reject(w, "stale")
           \/ Keep(w, Validated(cache[KeyOf(w)].statements, Current(w)))
    BY <1>2 DEF Replay, AtChunk, Cached
  <2> QED
    BY <2>1, RejectSettles, KeepSettles
<1>3. CASE Miss(w)
  <2>1. PICK q : /\ run' = [run EXCEPT ![w] = q] /\ UNCHANGED <<cache, extractor, layer>>
                 /\ q = [run[w] EXCEPT !.phase = "put"] \/ q = [run[w] EXCEPT !.phase = "post"]
    BY <1>3 DEF Miss
  <2>2. q.edition = run[w].edition /\ q.next = run[w].next /\ q.rejected = run[w].rejected
    BY <2>1 DEF Inv, Sound, Field
  <2> QED
    BY <1>3, <2>1, <2>2, StandingSettles DEF Miss, AtChunk
<1>4. CASE Retry(w)
  <2>1. PICK q : /\ run' = [run EXCEPT ![w] = q] /\ UNCHANGED <<cache, extractor, layer>>
                 /\ q = [run[w] EXCEPT !.tries = @ + 1]
    BY <1>4 DEF Retry
  <2>2. q.edition = run[w].edition /\ q.next = run[w].next /\ q.rejected = run[w].rejected
    BY <2>1 DEF Inv, Sound, Field
  <2> QED
    BY <1>4, <2>1, <2>2, StandingSettles DEF Retry
<1>5. CASE Fail(w)
  BY <1>5, EndSettles DEF Fail
<1>6. CASE Unreadable(w)
  BY <1>6, RejectSettles DEF Unreadable
<1>7. CASE Answer(w)
  <2>1. PICK good : /\ UNCHANGED <<cache, extractor, layer>> /\ run[w].phase # "idle"
                    /\ \/ Reject(w, "invalid")
                       \/ run' = [run EXCEPT ![w].phase = "put", ![w].answer = good]
    BY <1>7 DEF Answer
  <2>2. CASE Reject(w, "invalid")
    BY <2>1, <2>2, RejectSettles
  <2>3. CASE run' = [run EXCEPT ![w].phase = "put", ![w].answer = good]
    <3>1. PICK q : q = [run[w] EXCEPT !.phase = "put", !.answer = good]
      OBVIOUS
    <3>2. q.edition = run[w].edition /\ q.next = run[w].next /\ q.rejected = run[w].rejected
      BY <3>1 DEF Inv, Sound, Field
    <3>3. run' = [run EXCEPT ![w] = q]
      BY <2>3, <3>1 DEF Inv, Shapes
    <3> QED
      BY <2>1, <3>2, <3>3, StandingSettles
  <2> QED
    BY <2>1, <2>2, <2>3
<1>8. CASE Put(w)
  <2>1. /\ DOMAIN cache' = DOMAIN cache \cup {KeyOf(w)}
        /\ Keep(w, run[w].answer) /\ run[w].phase # "idle"
        /\ UNCHANGED <<extractor, layer>>
    BY <1>8 DEF Put
  <2> QED
    BY <2>1, KeepSettles
<1>9. CASE Finish(w)
  BY <1>9, FinishSettles
<1> QED
  BY <1>1, <1>2, <1>3, <1>4, <1>5, <1>6, <1>7, <1>8, <1>9 DEF Read

LEMMA SettlingStep ==
    ASSUME Inv, Settling, [Next]_vars
    PROVE  Settling'
<1>1. CASE UNCHANGED vars
  BY <1>1 DEF vars, Settling, Passed, WrittenSettled, Settled
<1>2. ASSUME NEW w \in Worker, NEW e \in Edition, Start(w, e)
      PROVE  Settling'
  <2>1. PICK q : /\ q = [Idle EXCEPT !.edition = e, !.phase = "chunk"]
                 /\ run' = [run EXCEPT ![w] = q]
                 /\ UNCHANGED <<cache, extractor, layer>>
    BY <1>2 DEF Start
  <2>2. q.edition = e /\ q.next = 1
    BY <2>1 DEF Idle
  <2>3. \A i \in Offered(e) : ~(i < 1)
    <3>1. ChunksOf(e) \in Seq(ChunkForm)
      BY ReadingAssumption
    <3>2. \A i \in Offered(e) : i \in 1 .. Len(ChunksOf(e)) /\ Len(ChunksOf(e)) \in Nat
      BY <3>1 DEF Offered
    <3> QED
      BY <3>2
  <2> QED
    BY <2>1, <2>2, <2>3, OneRunMoves
<1>3. ASSUME NEW w \in Worker, Read(w)
      PROVE  Settling'
  BY <1>3, ReadSettles
<1>4. ASSUME NEW w \in Worker, Kill(w)
      PROVE  Settling'
  BY <1>4, EndSettles DEF Kill
<1>5. ASSUME NEW w \in Worker, Redeploy(w)
      PROVE  Settling'
  <2>1. /\ run[w].phase = "idle" /\ UNCHANGED <<cache, run, layer>>
        /\ \A v \in Worker : v # w => extractor'[v] = extractor[v]
    BY <1>5 DEF Redeploy, Inv, Shapes
  <2>2. Passed(w)'
    BY <2>1 DEF Passed
  <2>3. \A v \in Worker : v # w => Passed(v)'
    BY <2>1, PassedStays DEF Settling
  <2>4. \A e \in Edition : WrittenSettled(e)'
    BY <2>1, WrittenStays
  <2> QED
    BY <2>2, <2>3, <2>4 DEF Settling
<1> QED
  BY <1>1, <1>2, <1>3, <1>4, <1>5 DEF Next

\* A second run over an unchanged edition asks the model only of the chunks the
\* first one lost, however many runs stopped or were killed in between.
THEOREM OnlyLosses == Spec => RerunsAskOnlyOfLosses
<1>1. Init => Settling
  BY DEF Init, Settling, Passed, WrittenSettled, Idle
<1>2. Inv /\ Settling /\ [Next]_vars => Settling'
  BY SettlingStep
<1>3. ASSUME Inv, Settling, [Next]_vars, NEW w \in Worker,
             run[w].phase = "chunk", run'[w].phase = "post",
             layer[run[w].edition] # None,
             layer[run[w].edition].by = extractor[w]
      PROVE  run[w].next \in {r.chunk : r \in layer[run[w].edition].rejected}
  <2>1. Miss(w)
    <3>1. run'[w] # run[w]
      BY <1>3
    <3>2. PICK v \in Worker : \/ \E e \in Edition : Start(v, e)
                              \/ Read(v) \/ Kill(v) \/ Redeploy(v)
      BY <1>3, <3>1 DEF Next, vars
    <3>3. v = w
      BY <1>3, <3>1, <3>2 DEF Start, Read, Kill, Redeploy, Skip, Replay, Miss, Retry, Fail,
         Unreadable, Answer, Put, Finish, Reject, Keep, Advance, End, Inv, Shapes
    <3>4. Skip(w) \/ Replay(w) \/ Miss(w) \/ Finish(w) \/ Kill(w)
      BY <1>3, <3>2, <3>3 DEF Start, Read, Redeploy, Retry, Fail, Unreadable, Answer, Put
    <3>5. ~End(w)
      BY <1>3 DEF End, Idle, Inv, Shapes
    <3>6. ASSUME NEW q, DOMAIN q = Field
          PROVE  ~Advance(w, q)
      <4>1. After(q).phase = "chunk"
        BY <3>6, AfterFields
      <4> QED
        BY <1>3, <4>1 DEF Advance, After, Inv, Shapes
    <3>7. ~Advance(w, run[w])
      BY <1>3, <3>6 DEF Inv, Sound
    <3>8. \A why : ~Reject(w, why)
      <4> TAKE why
      <4>1. PICK q : q = [run[w] EXCEPT !.rejected =
                             @ \cup {[chunk |-> run[w].next, why |-> why]}]
        OBVIOUS
      <4>2. DOMAIN q = Field
        BY <1>3, <4>1 DEF Inv, Sound
      <4> QED
        BY <3>6, <4>1, <4>2 DEF Reject
    <3>9. \A S : ~Keep(w, S)
      <4> TAKE S
      <4>1. PICK q : q = [run[w] EXCEPT !.found =
                             @ \cup {[chunk |-> run[w].next, statement |-> s] : s \in S}]
        OBVIOUS
      <4>2. DOMAIN q = Field
        BY <1>3, <4>1 DEF Inv, Sound
      <4> QED
        BY <3>6, <4>1, <4>2 DEF Keep
    <3> QED
      BY <3>4, <3>5, <3>7, <3>8, <3>9 DEF Skip, Replay, Finish, Kill
  <2>2. run[w].next \in Offered(run[w].edition) /\ ~Cached(w) /\ run[w].edition \in Edition
    BY <1>3, <2>1, CurrentIsOffered DEF Miss, Inv, Sound, Placed
  <2>3. Settled(extractor[w], run[w].edition, run[w].next, layer[run[w].edition].rejected)
    BY <1>3, <2>2 DEF Settling, WrittenSettled
  <2> QED
    BY <2>2, <2>3 DEF Settled, Cached, KeyOf, Current, Chunks
<1>4. Inv /\ Settling /\ [Next]_vars =>
         [\A w \in Worker :
             /\ run[w].phase = "chunk" /\ run'[w].phase = "post"
             /\ layer[run[w].edition] # None
             /\ layer[run[w].edition].by = extractor[w]
             => run[w].next \in {r.chunk : r \in layer[run[w].edition].rejected}]_vars
  BY <1>3
<1> QED
  BY AlwaysInv, <1>1, <1>2, <1>4, PTL DEF Spec, RerunsAskOnlyOfLosses
=============================================================================
