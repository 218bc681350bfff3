-------------------------- MODULE RebuildRunsProofs --------------------------
(***************************************************************************)
(* Theorems about RebuildRuns, for any number of editions, runs, workers   *)
(* and requests.                                                           *)
(***************************************************************************)
EXTENDS RebuildRuns, TLAPS

-----------------------------------------------------------------------------
(* The inductive invariant, in its parts *)

\* A run is worked on by one worker at a time, and never while it waits in the
\* queue: its write and its two records are in one order.
EachRunIsWorkedOnce ==
    /\ IsInjective(queue)
    /\ \A w \in Worker :
           worker[w] # None =>
               /\ worker[w].run \notin Queued
               /\ \A x \in Worker \ {w} :
                      worker[x] # None => worker[x].run # worker[w].run

\* Where RQ says a run is, and where it is.
StatusAgrees ==
    /\ \A r \in Queued : status[r] = "queued"
    /\ \A w \in Worker :
           worker[w] # None =>
               status[worker[w].run] =
                   IF worker[w].at = "taken" THEN "queued" ELSE "started"

Enqueued(r) == status[r] # "unused"
Begun(r) == status[r] \notin {"unused", "queued"}
Over(r) == status[r] \in {"finished", "failed", "gone"}

TargetsSet == \A r \in Run : Enqueued(r) => target[r] \in Version

\* A record is of a run that has begun, and of that run's own edition.
RecordsAreOfRuns ==
    \A v \in Version :
        record[v] # None =>
            /\ Begun(record[v].run)
            /\ target[record[v].run] = v

\* While the record is still of a run that has written, what it wrote or what
\* another run wrote after it is there.
WrittenIsHeld ==
    \A w \in Worker :
        /\ At(w, "written")
        /\ record[Edition(w)] # None
        /\ record[Edition(w)].run = worker[w].run
        => layer[Edition(w)] # None

\* Once its outcome is recorded, no record says the run is under way.
EndedIsRecorded ==
    \A w \in Worker :
        At(w, "ended") =>
            \A v \in Version : record[v] # Entry(worker[w].run, "started")

\* What a scan has not listed of the runs that stood in either list: after the
\* first read they have begun, after the second they are over.
ScanSoFar ==
    \A q \in Request :
        request[q] # None =>
            \A r \in request[q].visible \ request[q].ids :
                /\ request[q].stage = "listed" => Begun(r)
                /\ request[q].stage = "scanned" => Over(r)

Places == TypeOK /\ EachRunIsWorkedOnce /\ StatusAgrees /\ TargetsSet

-----------------------------------------------------------------------------
(* Type correctness *)

Stage == {"taken", "begun", "recorded", "written", "failing", "failed", "ended"}
State == {"started", "finished", "failed"}

LEMMA AdvanceType ==
    ASSUME TypeOK, NEW w \in Worker, worker[w] # None, NEW stage \in Stage,
           Advance(w, stage)
    PROVE  /\ worker' \in [Worker -> Task \cup {None}]
           /\ worker' = [worker EXCEPT ![w] = [run |-> worker[w].run, at |-> stage]]
           /\ worker[w] \in Task
  <1>1. worker \in [Worker -> Task \cup {None}] /\ worker[w] \in Task
    BY DEF TypeOK
  <1>2. worker' = [worker EXCEPT ![w] = [worker[w] EXCEPT !.at = stage]]
    BY DEF Advance
  <1>3. /\ [worker[w] EXCEPT !.at = stage] = [run |-> worker[w].run, at |-> stage]
        /\ [worker[w] EXCEPT !.at = stage] \in Task
    BY <1>1 DEF Task, Stage
  <1> QED  BY <1>1, <1>2, <1>3

LEMMA OutcomeType ==
    ASSUME TypeOK, NEW w \in Worker, worker[w] # None, NEW state \in State
    PROVE  Outcome(w, state) \in
               [Version -> BuildRecord \cup {None}]
  <1> DEFINE R == BuildRecord
  <1>1. record \in [Version -> R \cup {None}]
    BY DEF TypeOK
  <1>2. CASE record[Edition(w)] # None /\ record[Edition(w)].run = worker[w].run
    <2>1. Outcome(w, state) = [record EXCEPT ![Edition(w)].state = state]
      BY <1>2 DEF Outcome
    <2>2. CASE Edition(w) \in Version
      <3>1. record[Edition(w)] \in R
        BY <1>1, <1>2, <2>2
      <3>2. [record[Edition(w)] EXCEPT !.state = state] \in R
        BY <3>1 DEF BuildRecord, State
      <3> QED  BY <1>1, <2>1, <2>2, <3>2
    <2>3. CASE Edition(w) \notin Version
      BY <1>1, <2>1, <2>3
    <2> QED  BY <2>2, <2>3
  <1>3. CASE ~(record[Edition(w)] # None /\ record[Edition(w)].run = worker[w].run)
    BY <1>1, <1>3 DEF Outcome
  <1> QED  BY <1>2, <1>3

LEMMA InitType == Init => TypeOK
  BY DEF Init, TypeOK

LEMMA EndType ==
    ASSUME TypeOK, NEW w \in Worker, worker[w] # None,
           NEW outcome \in {"finished", "failed"}, End(w, outcome)
    PROVE  TypeOK'
  BY DEF TypeOK, End, Task, graph

LEMMA PostsType ==
    ASSUME TypeOK, NEW q \in Request,
           \/ \E v \in Version : CheckEdition(q, v)
           \/ ReadQueue(q)
           \/ ReadRegistry(q)
           \/ Refuse(q)
           \/ Unavailable(q)
           \/ \E r \in Run : Enqueue(q, r)
    PROVE  TypeOK'
  <1>1. Queued \in SUBSET Run /\ Started \in SUBSET Run
    BY DEF TypeOK, Queued, Started, Range
  <1>2. ASSUME NEW v \in Version, CheckEdition(q, v)  PROVE TypeOK'
    BY <1>2 DEF TypeOK, CheckEdition, Post, graph, jobs
  <1>3. CASE ReadQueue(q)
    <2>1. request[q] \in Post
      BY <1>3 DEF TypeOK, ReadQueue
    <2>2. [request[q] EXCEPT !.stage = "listed", !.ids = Queued,
                             !.visible = Queued \cup Started] \in Post
      BY <1>1, <2>1 DEF Post
    <2>3. request' \in [Request -> Post \cup {None}]
      BY <1>3, <2>2 DEF TypeOK, ReadQueue, IdsListed
    <2> QED  BY <1>3, <2>3 DEF TypeOK, ReadQueue, graph, jobs
  <1>4. CASE ReadRegistry(q)
    <2>1. request[q] \in Post
      BY <1>4 DEF TypeOK, ReadRegistry
    <2>2. [request[q] EXCEPT !.stage = "scanned",
                             !.ids = request[q].ids \cup IdsListed("listed")] \in Post
      BY <1>1, <2>1 DEF Post, IdsListed
    <2>3. request' \in [Request -> Post \cup {None}]
      BY <1>4, <2>2 DEF TypeOK, ReadRegistry
    <2> QED  BY <1>4, <2>3 DEF TypeOK, ReadRegistry, graph, jobs
  <1>5. CASE Refuse(q)
    BY <1>5 DEF TypeOK, Refuse, graph, jobs
  <1>6. CASE Unavailable(q)
    BY <1>6 DEF TypeOK, Unavailable, graph, jobs
  <1>7. ASSUME NEW r \in Run, Enqueue(q, r)  PROVE TypeOK'
    <2>1. request[q].edition \in Version
      BY <1>7 DEF TypeOK, Enqueue, Post
    <2>2. queue' \in Seq(Run)
      BY <1>7 DEF TypeOK, Enqueue
    <2> QED  BY <1>7, <2>1, <2>2 DEF TypeOK, Enqueue, graph
  <1> QED  BY <1>2, <1>3, <1>4, <1>5, <1>6, <1>7

LEMMA WorkersType ==
    ASSUME TypeOK, NEW w \in Worker, Work(w) \/ Kill(w)
    PROVE  TypeOK'
  <1>1. CASE Take(w)
    <2>1. Head(queue) \in Run /\ Tail(queue) \in Seq(Run)
      BY <1>1 DEF TypeOK, Take
    <2> QED  BY <1>1, <2>1 DEF TypeOK, Take, Task, graph
  <1>2. CASE Begin(w)
    BY <1>2, AdvanceType DEF TypeOK, Begin, At, Stage, Task, graph
  <1>3. CASE RecordStart(w)
    <2>1. worker' \in [Worker -> Task \cup {None}] /\ worker[w] \in Task
      BY <1>3, AdvanceType DEF RecordStart, At, Stage
    <2>2. record' \in [Version -> BuildRecord \cup {None}]
      BY <1>3, <2>1 DEF TypeOK, RecordStart, Entry, BuildRecord, Task
    <2> QED  BY <1>3, <2>1, <2>2 DEF TypeOK, RecordStart, jobs
  <1>4. CASE Write(w)
    <2>1. worker' \in [Worker -> Task \cup {None}] /\ worker[w] \in Task
      BY <1>4, AdvanceType DEF Write, At, Stage
    <2> QED  BY <1>4, <2>1 DEF TypeOK, Write, Task, jobs
  <1>5. CASE Raise(w)
    <2>1. worker' \in [Worker -> Task \cup {None}]
      BY <1>5, AdvanceType DEF Raise, At, Stage
    <2> QED  BY <1>5, <2>1 DEF TypeOK, Raise, graph, jobs
  <1>6. CASE RecordFinish(w)
    <2>1. worker' \in [Worker -> Task \cup {None}]
      BY <1>6, AdvanceType DEF RecordFinish, At, Stage
    <2>2. record' \in [Version -> BuildRecord \cup {None}]
      BY <1>6, OutcomeType DEF RecordFinish, At, State
    <2> QED  BY <1>6, <2>1, <2>2 DEF TypeOK, RecordFinish, jobs
  <1>7. CASE RecordFailure(w)
    <2>1. worker' \in [Worker -> Task \cup {None}]
      BY <1>7, AdvanceType DEF RecordFailure, At, Stage
    <2>2. record' \in [Version -> BuildRecord \cup {None}]
      BY <1>7, OutcomeType DEF RecordFailure, At, State
    <2> QED  BY <1>7, <2>1, <2>2 DEF TypeOK, RecordFailure, jobs
  <1>8. CASE Complete(w)
    BY <1>8, EndType DEF Complete, At
  <1>9. CASE Fail(w)
    BY <1>9, EndType DEF Fail
  <1>10. CASE Kill(w)
    BY <1>10 DEF TypeOK, Kill, graph, jobs
  <1> QED
    BY <1>1, <1>2, <1>3, <1>4, <1>5, <1>6, <1>7, <1>8, <1>9, <1>10 DEF Work

LEMMA OthersType ==
    ASSUME TypeOK,
           \/ \E r \in Run : Lapse(r) \/ Beat(r) \/ Sweep(r) \/ Forget(r)
           \/ \E v \in Version : Ingest(v) \/ Delete(v)
    PROVE  TypeOK'
  <1>1. ASSUME NEW r \in Run, Lapse(r) \/ Beat(r) \/ Sweep(r) \/ Forget(r)
        PROVE  TypeOK'
    BY <1>1 DEF TypeOK, Lapse, Beat, Sweep, Forget, graph
  <1>2. ASSUME NEW v \in Version, Ingest(v) \/ Delete(v)  PROVE TypeOK'
    BY <1>2 DEF TypeOK, Ingest, Delete, jobs
  <1> QED  BY <1>1, <1>2

LEMMA StepType == TypeOK /\ [Next]_vars => TypeOK'
  <1> SUFFICES ASSUME TypeOK, [Next]_vars  PROVE TypeOK'
    OBVIOUS
  <1>1. CASE Next
    BY <1>1, PostsType, WorkersType, OthersType DEF Next
  <1>2. CASE UNCHANGED vars
    BY <1>2 DEF TypeOK, vars
  <1> QED  BY <1>1, <1>2

\* Every reachable state is well typed.
THEOREM TypeCorrect == Spec => []TypeOK
  BY InitType, StepType, PTL DEF Spec

-----------------------------------------------------------------------------
(* A run is in one place *)

LEMMA AppendedOnce ==
    ASSUME NEW S, NEW s \in Seq(S), NEW x \in S
    PROVE  /\ Range(Append(s, x)) = Range(s) \cup {x}
           /\ IsInjective(s) /\ x \notin Range(s) => IsInjective(Append(s, x))
  <1> DEFINE t == Append(s, x)
  <1>1. /\ DOMAIN t = 1 .. Len(s) + 1
        /\ DOMAIN s = 1 .. Len(s)
        /\ Len(s) \in Nat
        /\ \A i \in 1 .. Len(s) : t[i] = s[i]
        /\ t[Len(s) + 1] = x
    OBVIOUS
  <1> HIDE DEF t
  <1>2. Range(t) = Range(s) \cup {x}
    <2>1. ASSUME NEW y \in Range(t)  PROVE y \in Range(s) \cup {x}
      <3>1. PICK i \in DOMAIN t : t[i] = y
        BY <2>1 DEF Range
      <3>2. i \in 1 .. Len(s) \/ i = Len(s) + 1
        BY <1>1, <3>1
      <3> QED  BY <1>1, <3>1, <3>2 DEF Range
    <2>2. ASSUME NEW y \in Range(s)  PROVE y \in Range(t)
      <3>1. PICK i \in DOMAIN s : s[i] = y
        BY <2>2 DEF Range
      <3>2. i \in DOMAIN t /\ t[i] = y
        BY <1>1, <3>1
      <3> QED  BY <3>2 DEF Range
    <2>3. x \in Range(t)
      <3>1. Len(s) + 1 \in DOMAIN t
        BY <1>1
      <3> QED  BY <1>1, <3>1 DEF Range
    <2> QED  BY <2>1, <2>2, <2>3
  <1>3. ASSUME IsInjective(s), x \notin Range(s)  PROVE IsInjective(t)
    <2> SUFFICES ASSUME NEW i \in DOMAIN t, NEW j \in DOMAIN t, t[i] = t[j]
                 PROVE  i = j
      BY DEF IsInjective
    <2>1. \A k \in 1 .. Len(s) : t[k] # x
      BY <1>1, <1>3 DEF Range
    <2>2. CASE i \in 1 .. Len(s) /\ j \in 1 .. Len(s)
      BY <1>1, <1>3, <2>2 DEF IsInjective
    <2>3. CASE ~(i \in 1 .. Len(s) /\ j \in 1 .. Len(s))
      BY <1>1, <2>1, <2>3
    <2> QED  BY <2>2, <2>3
  <1> QED  BY <1>2, <1>3 DEF t

LEMMA PoppedOnce ==
    ASSUME NEW S, NEW s \in Seq(S), s # <<>>
    PROVE  /\ Head(s) \in Range(s)
           /\ Range(Tail(s)) \subseteq Range(s)
           /\ IsInjective(s) => IsInjective(Tail(s)) /\ Head(s) \notin Range(Tail(s))
  <1> DEFINE t == Tail(s)
  <1>1. /\ DOMAIN s = 1 .. Len(s)
        /\ DOMAIN t = 1 .. Len(s) - 1
        /\ Len(s) \in Nat \ {0}
        /\ \A i \in 1 .. Len(s) - 1 : t[i] = s[i + 1]
        /\ Head(s) = s[1]
    OBVIOUS
  <1> HIDE DEF t
  <1>2. Head(s) \in Range(s)
    BY <1>1 DEF Range
  <1>3. ASSUME NEW i \in DOMAIN t  PROVE i + 1 \in DOMAIN s /\ t[i] = s[i + 1]
    BY <1>1, <1>3
  <1>4. Range(t) \subseteq Range(s)
    BY <1>3 DEF Range
  <1>5. ASSUME IsInjective(s)  PROVE IsInjective(t) /\ Head(s) \notin Range(t)
    <2>1. ASSUME NEW i \in DOMAIN t, NEW j \in DOMAIN t, t[i] = t[j]  PROVE i = j
      <3>1. i + 1 = j + 1
        BY <1>3, <1>5, <2>1 DEF IsInjective
      <3> QED  BY <1>1, <3>1
    <2>2. ASSUME NEW i \in DOMAIN t  PROVE t[i] # Head(s)
      <3>1. i + 1 # 1 /\ 1 \in DOMAIN s
        BY <1>1
      <3> QED  BY <1>1, <1>3, <1>5, <3>1 DEF IsInjective
    <2> QED  BY <2>1, <2>2 DEF IsInjective, Range
  <1> QED  BY <1>2, <1>4, <1>5 DEF t

LEMMA InitPlaces == Init => Places
  <1> SUFFICES ASSUME Init  PROVE Places
    OBVIOUS
  <1>1. Queued = {} /\ IsInjective(queue)
    BY DEF Init, Queued, Range, IsInjective
  <1> QED
    BY <1>1, InitType
    DEF Init, Places, EachRunIsWorkedOnce, StatusAgrees, TargetsSet, Enqueued

\* Most steps move neither the queue nor any run's status.
LEMMA PlacesAdvance ==
    ASSUME Places, NEW w \in Worker, worker[w] # None, worker[w].at # "taken",
           NEW stage \in Stage \ {"taken"}, Advance(w, stage),
           UNCHANGED <<queue, status, target>>
    PROVE  EachRunIsWorkedOnce' /\ StatusAgrees' /\ TargetsSet'
  <1>1. /\ worker \in [Worker -> Task \cup {None}]
        /\ worker' = [worker EXCEPT ![w] = [run |-> worker[w].run, at |-> stage]]
    BY AdvanceType DEF Places, TypeOK
  <1>2. Queued' = Queued
    BY DEF Queued
  <1>3. ASSUME NEW x \in Worker, worker'[x] # None
        PROVE  /\ worker[x] # None
               /\ worker'[x].run = worker[x].run
               /\ worker'[x].at = "taken" <=> worker[x].at = "taken"
    <2>1. CASE x = w
      BY <1>1, <2>1 DEF Stage
    <2>2. CASE x # w
      BY <1>1, <1>3, <2>2
    <2> QED  BY <2>1, <2>2
  <1>4. EachRunIsWorkedOnce'
    BY <1>2, <1>3 DEF Places, EachRunIsWorkedOnce
  <1>5. StatusAgrees'
    BY <1>2, <1>3 DEF Places, StatusAgrees
  <1>6. TargetsSet'
    BY DEF Places, TargetsSet, Enqueued
  <1> QED  BY <1>4, <1>5, <1>6

LEMMA PlacesKept ==
    ASSUME Places, UNCHANGED <<queue, status, target, worker>>
    PROVE  EachRunIsWorkedOnce' /\ StatusAgrees' /\ TargetsSet'
  BY DEF Places, EachRunIsWorkedOnce, StatusAgrees, TargetsSet, Enqueued, Queued

LEMMA PlacesReleased ==
    ASSUME Places, NEW w \in Worker, worker[w] # None,
           worker' = [worker EXCEPT ![w] = None],
           UNCHANGED <<queue, target>>,
           \/ UNCHANGED status
           \/ \E outcome \in {"finished", "failed"} :
                  /\ worker[w].at # "taken"
                  /\ status' = [status EXCEPT ![worker[w].run] = outcome]
    PROVE  EachRunIsWorkedOnce' /\ StatusAgrees' /\ TargetsSet'
  <1>1. /\ worker \in [Worker -> Task \cup {None}]
        /\ worker[w].run \in Run
        /\ status \in [Run ->
             {"unused", "queued", "started", "finished", "failed", "gone"}]
    BY DEF Places, TypeOK, Task
  <1>2. Queued' = Queued
    BY DEF Queued
  <1>3. ASSUME NEW x \in Worker, worker'[x] # None
        PROVE  x # w /\ worker'[x] = worker[x]
    BY <1>1, <1>3
  <1>4. EachRunIsWorkedOnce'
    BY <1>2, <1>3 DEF Places, EachRunIsWorkedOnce
  <1>5. \A r \in Run \ {worker[w].run} : status'[r] = status[r]
    BY <1>1
  <1>6. StatusAgrees'
    <2>1. Queued \subseteq Run
      BY DEF Places, TypeOK, Queued, Range
    <2>2. worker[w].run \notin Queued
      BY DEF Places, EachRunIsWorkedOnce
    <2>3. ASSUME NEW x \in Worker, worker'[x] # None
          PROVE  worker[x].run \in Run \ {worker[w].run}
      BY <1>1, <1>3, <2>3 DEF Places, EachRunIsWorkedOnce, Task
    <2> QED
      BY <1>2, <1>3, <1>5, <2>1, <2>2, <2>3 DEF Places, StatusAgrees
  <1>7. TargetsSet'
    BY <1>1, <1>5 DEF Places, StatusAgrees, TargetsSet, Enqueued
  <1> QED  BY <1>4, <1>6, <1>7

LEMMA PlacesEnqueue ==
    ASSUME Places, NEW q \in Request, NEW r \in Run, Enqueue(q, r)
    PROVE  EachRunIsWorkedOnce' /\ StatusAgrees' /\ TargetsSet'
  <1>1. /\ queue \in Seq(Run)
        /\ worker \in [Worker -> Task \cup {None}]
        /\ status \in [Run ->
             {"unused", "queued", "started", "finished", "failed", "gone"}]
        /\ target \in [Run -> Version \cup {None}]
        /\ request[q].edition \in Version
    BY DEF Places, TypeOK, Enqueue, Post
  <1>2. /\ status[r] = "unused"
        /\ queue' = Append(queue, r)
        /\ status' = [status EXCEPT ![r] = "queued"]
        /\ target' = [target EXCEPT ![r] = request[q].edition]
        /\ worker' = worker
    BY DEF Enqueue
  <1>3. r \notin Queued /\ \A w \in Worker : worker[w] # None => worker[w].run # r
    BY <1>2 DEF Places, StatusAgrees
  <1>4. Queued' = Queued \cup {r} /\ IsInjective(queue')
    BY <1>1, <1>2, <1>3, AppendedOnce DEF Places, EachRunIsWorkedOnce, Queued
  <1>5. EachRunIsWorkedOnce'
    BY <1>2, <1>3, <1>4 DEF Places, EachRunIsWorkedOnce
  <1>6. StatusAgrees'
    BY <1>1, <1>2, <1>3, <1>4 DEF Places, StatusAgrees, Task
  <1>7. TargetsSet'
    BY <1>1, <1>2 DEF Places, TargetsSet, Enqueued
  <1> QED  BY <1>5, <1>6, <1>7

LEMMA PlacesTake ==
    ASSUME Places, NEW w \in Worker, Take(w)
    PROVE  EachRunIsWorkedOnce' /\ StatusAgrees' /\ TargetsSet'
  <1> DEFINE r == Head(queue)
  <1>1. /\ queue \in Seq(Run)
        /\ worker \in [Worker -> Task \cup {None}]
    BY DEF Places, TypeOK
  <1>2. /\ r \in Queued
        /\ Queued' \subseteq Queued
        /\ IsInjective(queue')
        /\ r \notin Queued'
    BY <1>1, PoppedOnce DEF Take, Places, EachRunIsWorkedOnce, Queued
  <1>3. /\ worker' = [worker EXCEPT ![w] = [run |-> r, at |-> "taken"]]
        /\ UNCHANGED <<status, target>>
    BY DEF Take
  <1> HIDE DEF r
  <1>4. ASSUME NEW x \in Worker, worker'[x] # None
        PROVE  \/ x = w /\ worker'[x].run = r /\ worker'[x].at = "taken"
               \/ /\ x # w
                  /\ worker'[x] = worker[x]
                  /\ worker[x].run # r
    <2>1. \A y \in Worker : worker[y] # None => worker[y].run # r
      BY <1>2 DEF Places, EachRunIsWorkedOnce
    <2>2. CASE x = w
      BY <1>1, <1>3, <2>2
    <2>3. CASE x # w
      BY <1>1, <1>3, <1>4, <2>1, <2>3
    <2> QED  BY <2>2, <2>3
  <1>5. EachRunIsWorkedOnce'
    BY <1>2, <1>4 DEF Places, EachRunIsWorkedOnce
  <1>6. StatusAgrees'
    BY <1>2, <1>3, <1>4 DEF Places, StatusAgrees
  <1>7. TargetsSet'
    BY <1>3 DEF Places, TargetsSet, Enqueued
  <1> QED  BY <1>5, <1>6, <1>7

LEMMA PlacesBegin ==
    ASSUME Places, NEW w \in Worker, Begin(w)
    PROVE  EachRunIsWorkedOnce' /\ StatusAgrees' /\ TargetsSet'
  <1>1. /\ worker \in [Worker -> Task \cup {None}]
        /\ worker[w] \in Task
        /\ worker' = [worker EXCEPT ![w] = [run |-> worker[w].run, at |-> "begun"]]
        /\ status \in [Run ->
             {"unused", "queued", "started", "finished", "failed", "gone"}]
    BY AdvanceType DEF Places, TypeOK, Begin, At, Stage
  <1>2. /\ Queued' = Queued
        /\ target' = target
        /\ status' = [status EXCEPT ![worker[w].run] = "started"]
        /\ worker[w] # None
    BY DEF Begin, At, Queued
  <1>3. ASSUME NEW x \in Worker, worker'[x] # None
        PROVE  /\ worker[x] # None
               /\ worker'[x].run = worker[x].run
               /\ x = w => worker'[x].at = "begun"
               /\ x # w => worker'[x] = worker[x] /\ worker[x].run # worker[w].run
    <2>1. CASE x = w
      BY <1>1, <1>2, <2>1
    <2>2. CASE x # w
      BY <1>1, <1>2, <1>3, <2>2 DEF Places, EachRunIsWorkedOnce
    <2> QED  BY <2>1, <2>2
  <1>4. EachRunIsWorkedOnce'
    BY <1>2, <1>3 DEF Places, EachRunIsWorkedOnce, Begin
  <1>5. StatusAgrees'
    <2>1. Queued \subseteq Run /\ worker[w].run \notin Queued
      BY <1>2 DEF Places, TypeOK, EachRunIsWorkedOnce, Queued, Range
    <2>2. \A x \in Worker : worker[x] # None => worker[x].run \in Run
      BY <1>1 DEF Task
    <2> QED  BY <1>1, <1>2, <1>3, <2>1, <2>2 DEF Places, StatusAgrees
  <1>6. TargetsSet'
    <2>1. status[worker[w].run] # "unused"
      BY <1>2 DEF Places, StatusAgrees
    <2> QED  BY <1>1, <1>2, <2>1 DEF Places, TargetsSet, Enqueued, Task
  <1> QED  BY <1>4, <1>5, <1>6

\* RQ sweeps or forgets a run that waits nowhere and is worked on by nobody.
LEMMA PlacesRetired ==
    ASSUME Places, NEW r \in Run, Sweep(r) \/ Forget(r)
    PROVE  EachRunIsWorkedOnce' /\ StatusAgrees' /\ TargetsSet'
  <1>1. /\ status \in [Run ->
             {"unused", "queued", "started", "finished", "failed", "gone"}]
        /\ worker \in [Worker -> Task \cup {None}]
        /\ Queued \subseteq Run
    BY DEF Places, TypeOK, Queued, Range
  <1>2. /\ r \notin Queued
        /\ ~Held(r)
        /\ Enqueued(r)
    BY DEF Sweep, Forget, Places, StatusAgrees, Held, Enqueued
  <1>3. /\ UNCHANGED <<queue, target, worker>>
        /\ \A x \in Run \ {r} : status'[x] = status[x]
    BY <1>1 DEF Sweep, Forget
  <1>4. EachRunIsWorkedOnce'
    BY <1>3 DEF Places, EachRunIsWorkedOnce, Queued
  <1>5. StatusAgrees'
    <2>1. \A x \in Worker : worker[x] # None => worker[x].run \in Run \ {r}
      BY <1>1, <1>2 DEF Held, Task
    <2>2. Queued' = Queued
      BY <1>3 DEF Queued
    <2> QED  BY <1>1, <1>2, <1>3, <2>1, <2>2 DEF Places, StatusAgrees
  <1>6. TargetsSet'
    BY <1>2, <1>3 DEF Places, TargetsSet, Enqueued
  <1> QED  BY <1>4, <1>5, <1>6

LEMMA StepPlaces == Places /\ [Next]_vars => Places'
  <1> SUFFICES ASSUME Places, [Next]_vars
               PROVE  EachRunIsWorkedOnce' /\ StatusAgrees' /\ TargetsSet'
    BY StepType DEF Places
  <1>1. ASSUME NEW q \in Request,
               \/ \E v \in Version : CheckEdition(q, v)
               \/ ReadQueue(q) \/ ReadRegistry(q) \/ Refuse(q) \/ Unavailable(q)
        PROVE  UNCHANGED <<queue, status, target, worker>>
    BY <1>1
    DEF CheckEdition, ReadQueue, ReadRegistry, Refuse, Unavailable, jobs
  <1>2. ASSUME NEW w \in Worker,
               \/ RecordStart(w) \/ Write(w) \/ Raise(w)
               \/ RecordFinish(w) \/ RecordFailure(w)
        PROVE  /\ worker[w] # None /\ worker[w].at # "taken"
               /\ \E stage \in Stage \ {"taken"} : Advance(w, stage)
               /\ UNCHANGED <<queue, status, target>>
    BY <1>2
    DEF RecordStart, Write, Raise, RecordFinish, RecordFailure, At, Stage, jobs
  <1>3. ASSUME NEW w \in Worker, Complete(w) \/ Fail(w) \/ Kill(w)
        PROVE  EachRunIsWorkedOnce' /\ StatusAgrees' /\ TargetsSet'
    <2>1. /\ worker[w] # None
          /\ worker' = [worker EXCEPT ![w] = None]
          /\ UNCHANGED <<queue, target>>
          /\ \/ UNCHANGED status
             \/ \E outcome \in {"finished", "failed"} :
                    /\ worker[w].at # "taken"
                    /\ status' = [status EXCEPT ![worker[w].run] = outcome]
      BY <1>3 DEF Complete, Fail, Kill, End, At, jobs
    <2> QED  BY <2>1, PlacesReleased
  <1>4. ASSUME NEW r \in Run, Lapse(r) \/ Beat(r)
        PROVE  UNCHANGED <<queue, status, target, worker>>
    BY <1>4 DEF Lapse, Beat
  <1>5. ASSUME NEW v \in Version, Ingest(v) \/ Delete(v)
        PROVE  UNCHANGED <<queue, status, target, worker>>
    BY <1>5 DEF Ingest, Delete, jobs
  <1>6. CASE UNCHANGED vars
    BY <1>6, PlacesKept DEF vars
  <1>7. CASE Next
    BY <1>1, <1>2, <1>3, <1>4, <1>5, <1>7, PlacesKept, PlacesAdvance,
       PlacesEnqueue, PlacesTake, PlacesBegin, PlacesRetired
    DEF Next, Work
  <1> QED  BY <1>6, <1>7

-----------------------------------------------------------------------------
(* The scan *)

\* A run's status only goes forward, and only a working worker moves it on.
LEMMA StatusForward ==
    ASSUME Places, [Next]_vars, NEW r \in Run
    PROVE  /\ Enqueued(r) => Enqueued(r)' /\ target'[r] = target[r]
           /\ Begun(r) => Begun(r)'
           /\ Over(r) => Over(r)'
           /\ status'[r] = "gone" => status[r] \in {"finished", "gone"}
           /\ status'[r] = "finished" =>
                \/ status[r] = "finished"
                \/ \E w \in Worker :
                       At(w, "ended") /\ Complete(w) /\ worker[w].run = r
  <1>1. /\ status \in [Run ->
             {"unused", "queued", "started", "finished", "failed", "gone"}]
        /\ target \in [Run -> Version \cup {None}]
        /\ worker \in [Worker -> Task \cup {None}]
    BY DEF Places, TypeOK
  <1> USE DEF Enqueued, Begun, Over
  <1>2. CASE UNCHANGED <<status, target>>
    BY <1>1, <1>2
  <1>3. ASSUME NEW q \in Request, NEW x \in Run, Enqueue(q, x)
        PROVE  /\ Enqueued(r) => Enqueued(r)' /\ target'[r] = target[r]
               /\ Begun(r) => Begun(r)'
               /\ Over(r) => Over(r)'
               /\ status'[r] = "gone" => status[r] \in {"finished", "gone"}
               /\ status'[r] = "finished" => status[r] = "finished"
    BY <1>1, <1>3 DEF Enqueue
  <1>4. ASSUME NEW w \in Worker, Begin(w)
        PROVE  /\ Enqueued(r) => Enqueued(r)' /\ target'[r] = target[r]
               /\ Begun(r) => Begun(r)'
               /\ Over(r) => Over(r)'
               /\ status'[r] = "gone" => status[r] \in {"finished", "gone"}
               /\ status'[r] = "finished" => status[r] = "finished"
    <2>1. status[worker[w].run] = "queued"
      BY <1>4 DEF Begin, At, Places, StatusAgrees
    <2> QED  BY <1>1, <1>4, <2>1 DEF Begin
  <1>5. ASSUME NEW w \in Worker, NEW outcome \in {"finished", "failed"},
               worker[w] # None, worker[w].at # "taken", End(w, outcome)
        PROVE  /\ Enqueued(r) => Enqueued(r)' /\ target'[r] = target[r]
               /\ Begun(r) => Begun(r)'
               /\ Over(r) => Over(r)'
               /\ status'[r] = "gone" => status[r] \in {"finished", "gone"}
               /\ status'[r] = "finished" =>
                      \/ status[r] = "finished"
                      \/ outcome = "finished" /\ worker[w].run = r
    <2>1. status[worker[w].run] = "started"
      BY <1>5 DEF Places, StatusAgrees
    <2> QED  BY <1>1, <1>5, <2>1 DEF End
  <1>6. ASSUME NEW x \in Run, Sweep(x) \/ Forget(x)
        PROVE  /\ Enqueued(r) => Enqueued(r)' /\ target'[r] = target[r]
               /\ Begun(r) => Begun(r)'
               /\ Over(r) => Over(r)'
               /\ status'[r] = "gone" => status[r] \in {"finished", "gone"}
               /\ status'[r] = "finished" => status[r] = "finished"
    BY <1>1, <1>6 DEF Sweep, Forget
  <1>7. \/ UNCHANGED <<status, target>>
        \/ \E q \in Request, x \in Run : Enqueue(q, x)
        \/ \E w \in Worker : Begin(w)
        \/ \E w \in Worker : Complete(w) \/ Fail(w)
        \/ \E x \in Run : Sweep(x) \/ Forget(x)
    BY DEF Next, Work, vars, jobs, CheckEdition, ReadQueue, ReadRegistry, Refuse,
           Unavailable, Take, RecordStart, Write, Raise, RecordFinish,
           RecordFailure, Kill, Lapse, Beat, Ingest, Delete
  <1>8. ASSUME NEW w \in Worker, Complete(w)
        PROVE  At(w, "ended") /\ worker[w] # None /\ worker[w].at # "taken"
               /\ End(w, "finished")
    BY <1>8 DEF Complete, At
  <1>9. ASSUME NEW w \in Worker, Fail(w)
        PROVE  worker[w] # None /\ worker[w].at # "taken" /\ End(w, "failed")
    BY <1>9 DEF Fail
  <1> QED  BY <1>2, <1>3, <1>4, <1>5, <1>6, <1>7, <1>8, <1>9

LEMMA InitScan == Init => ScanSoFar
  BY DEF Init, ScanSoFar

LEMMA StepScan == Places /\ ScanSoFar /\ [Next]_vars => ScanSoFar'
  <1> SUFFICES ASSUME Places, ScanSoFar, [Next]_vars,
                      NEW q \in Request, request'[q] # None,
                      NEW r \in request'[q].visible \ request'[q].ids
               PROVE  /\ request'[q].stage = "listed" => Begun(r)'
                      /\ request'[q].stage = "scanned" => Over(r)'
    BY DEF ScanSoFar
  <1>1. /\ request \in [Request -> Post \cup {None}]
        /\ request' \in [Request -> Post \cup {None}]
        /\ status \in [Run ->
             {"unused", "queued", "started", "finished", "failed", "gone"}]
    BY StepType DEF Places, TypeOK
  <1>2. r \in Run
    BY <1>1 DEF Post
  <1>3. CASE request'[q] = request[q]
    BY <1>2, <1>3, StatusForward DEF ScanSoFar
  <1>4. ASSUME NEW p \in Request, NEW v \in Version, CheckEdition(p, v), p = q
        PROVE  request'[q].stage = "checked"
    BY <1>1, <1>4 DEF CheckEdition
  <1>5. CASE ReadQueue(q)
    <2>1. request[q] \in Post
      BY <1>1, <1>5 DEF ReadQueue
    <2>2. request'[q] = [request[q] EXCEPT !.stage = "listed", !.ids = Queued,
                                           !.visible = Queued \cup Started]
      BY <1>1, <1>5 DEF ReadQueue, IdsListed
    <2>3. request'[q].stage = "listed" /\ r \in Started
      BY <2>1, <2>2 DEF Post
    <2>4. Begun(r)
      BY <2>3 DEF Started, Begun
    <2> QED  BY <1>2, <2>3, <2>4, StatusForward
  <1>6. CASE ReadRegistry(q)
    <2>1. request[q] \in Post
      BY <1>1, <1>6 DEF ReadRegistry
    <2>2. request'[q] = [request[q] EXCEPT !.stage = "scanned",
                                           !.ids = request[q].ids \cup Started]
      BY <1>1, <1>6 DEF ReadRegistry, IdsListed
    <2>3. /\ request'[q].stage = "scanned"
          /\ r \in request[q].visible \ request[q].ids
          /\ r \notin Started
      BY <2>1, <2>2 DEF Post
    <2>4. Begun(r)
      BY <1>6, <2>3 DEF ReadRegistry, ScanSoFar
    <2>5. Over(r)
      BY <1>1, <1>2, <2>3, <2>4 DEF Begun, Over, Started
    <2> QED  BY <1>2, <2>3, <2>5, StatusForward
  <1>7. ASSUME NEW p \in Request,
               \/ \E v \in Version : CheckEdition(p, v)
               \/ ReadQueue(p) \/ ReadRegistry(p) \/ Refuse(p) \/ Unavailable(p)
               \/ \E x \in Run : Enqueue(p, x),
               p # q
        PROVE  request'[q] = request[q]
    BY <1>1, <1>7
    DEF CheckEdition, ReadQueue, ReadRegistry, Refuse, Unavailable, Enqueue
  <1>8. ASSUME Refuse(q) \/ Unavailable(q) \/ \E x \in Run : Enqueue(q, x)
        PROVE  request'[q] = None
    BY <1>1, <1>8 DEF Refuse, Unavailable, Enqueue
  <1>9. ASSUME \/ \E w \in Worker : Work(w) \/ Kill(w)
               \/ \E x \in Run : Lapse(x) \/ Beat(x) \/ Sweep(x) \/ Forget(x)
               \/ \E v \in Version : Ingest(v) \/ Delete(v)
               \/ UNCHANGED vars
        PROVE  request'[q] = request[q]
    BY <1>9
    DEF Work, Take, Begin, RecordStart, Write, Raise, RecordFinish,
        RecordFailure, Complete, Fail, End, Kill, Lapse, Beat, Sweep, Forget,
        Ingest, Delete, vars
  <1>10. CASE \E v \in Version : CheckEdition(q, v)
    BY <1>4, <1>10
  <1>11. \/ request'[q] = request[q]
         \/ \E v \in Version : CheckEdition(q, v)
         \/ ReadQueue(q)
         \/ ReadRegistry(q)
    BY <1>7, <1>8, <1>9 DEF Next
  <1> QED  BY <1>3, <1>5, <1>6, <1>10, <1>11

\* The route's scan misses no visible run that is still under way.
THEOREM ScanIsComplete == Spec => []ScanFindsVisibleRuns
  <1>1. Places /\ ScanSoFar => ScanFindsVisibleRuns
    BY DEF ScanSoFar, ScanFindsVisibleRuns, Over
  <1> QED  BY <1>1, InitPlaces, StepPlaces, InitScan, StepScan, PTL DEF Spec

-----------------------------------------------------------------------------
(* The build record *)

\* What a worker at its job is known by.
LEMMA WorkersEdition ==
    ASSUME Places, NEW w \in Worker, worker[w] # None
    PROVE  /\ worker[w] \in Task
           /\ worker[w].run \in Run
           /\ Edition(w) \in Version
           /\ worker[w].at # "taken" => status[worker[w].run] = "started"
  <1>1. worker[w] \in Task /\ worker[w].run \in Run
    BY DEF Places, TypeOK, Task
  <1>2. Enqueued(worker[w].run)
    BY DEF Places, StatusAgrees, Enqueued
  <1> QED
    BY <1>1, <1>2 DEF Places, TargetsSet, StatusAgrees, Edition

\* Recording an outcome touches the record of its own run and no other.
LEMMA OutcomeTouchesItsOwn ==
    ASSUME Places, NEW w \in Worker, worker[w] # None, NEW state \in State,
           NEW v \in Version
    PROVE  \/ /\ v = Edition(w)
              /\ record[v] # None
              /\ record[v].run = worker[w].run
              /\ Outcome(w, state)[v] = Entry(worker[w].run, state)
           \/ /\ Outcome(w, state)[v] = record[v]
              /\ ~ /\ v = Edition(w)
                   /\ record[v] # None
                   /\ record[v].run = worker[w].run
  <1>1. record \in [Version -> BuildRecord \cup {None}]
    BY DEF Places, TypeOK
  <1>2. Edition(w) \in Version
    BY WorkersEdition
  <1>3. CASE record[Edition(w)] # None /\ record[Edition(w)].run = worker[w].run
    <2>1. Outcome(w, state) = [record EXCEPT ![Edition(w)].state = state]
      BY <1>3 DEF Outcome
    <2>2. CASE v = Edition(w)
      <3>1. record[v] \in BuildRecord
        BY <1>1, <1>3, <2>2
      <3>2. Outcome(w, state)[v] = [record[v] EXCEPT !.state = state]
        BY <1>1, <1>2, <2>1, <2>2
      <3> QED  BY <1>3, <2>2, <3>1, <3>2 DEF Entry, BuildRecord
    <2>3. CASE v # Edition(w)
      BY <1>1, <1>2, <2>1, <2>3
    <2> QED  BY <2>2, <2>3
  <1>4. CASE ~(record[Edition(w)] # None /\ record[Edition(w)].run = worker[w].run)
    BY <1>4 DEF Outcome
  <1> QED  BY <1>3, <1>4

\* Every way a step may change one edition's record and layer.
Recorded(v) ==
    \/ /\ record'[v] = record[v]
       /\ layer'[v] = layer[v]
    \/ /\ record'[v] = None
       /\ UNCHANGED worker
    \/ \E w \in Worker :
           /\ RecordStart(w)
           /\ v = Edition(w)
           /\ record'[v] = Entry(worker[w].run, "started")
    \/ \E w \in Worker :
           /\ Write(w)
           /\ v = Edition(w)
           /\ record'[v] = record[v]
           /\ layer'[v] = worker[w].run
    \/ \E w \in Worker :
           /\ RecordFinish(w)
           /\ v = Edition(w)
           /\ record[v] # None
           /\ record[v].run = worker[w].run
           /\ record'[v] = Entry(worker[w].run, "finished")
           /\ layer'[v] = layer[v]
    \/ \E w \in Worker :
           /\ RecordFailure(w)
           /\ v = Edition(w)
           /\ record[v] # None
           /\ record[v].run = worker[w].run
           /\ record'[v] = Entry(worker[w].run, "failed")
           /\ layer'[v] = layer[v]

LEMMA StepRecorded ==
    ASSUME Places, [Next]_vars, NEW v \in Version
    PROVE  Recorded(v)
  <1>1. /\ record \in [Version -> BuildRecord \cup {None}]
        /\ layer \in [Version -> Run \cup {None}]
    BY DEF Places, TypeOK
  <1>2. CASE UNCHANGED <<record, layer>>
    BY <1>2 DEF Recorded
  <1>3. ASSUME NEW w \in Worker, RecordStart(w)  PROVE Recorded(v)
    BY <1>1, <1>3 DEF RecordStart, Recorded
  <1>4. ASSUME NEW w \in Worker, Write(w)  PROVE Recorded(v)
    BY <1>1, <1>4 DEF Write, Recorded
  <1>5. ASSUME NEW w \in Worker, RecordFinish(w)  PROVE Recorded(v)
    <2>1. worker[w] # None /\ record' = Outcome(w, "finished") /\ layer' = layer
      BY <1>5 DEF RecordFinish, At
    <2> QED  BY <1>5, <2>1, OutcomeTouchesItsOwn DEF Recorded, State
  <1>6. ASSUME NEW w \in Worker, RecordFailure(w)  PROVE Recorded(v)
    <2>1. worker[w] # None /\ record' = Outcome(w, "failed") /\ layer' = layer
      BY <1>6 DEF RecordFailure, At
    <2> QED  BY <1>6, <2>1, OutcomeTouchesItsOwn DEF Recorded, State
  <1>7. ASSUME NEW u \in Version, Ingest(u) \/ Delete(u)  PROVE Recorded(v)
    BY <1>1, <1>7 DEF Ingest, Delete, Recorded
  <1>8. \/ UNCHANGED <<record, layer>>
        \/ \E w \in Worker :
               RecordStart(w) \/ Write(w) \/ RecordFinish(w) \/ RecordFailure(w)
        \/ \E u \in Version : Ingest(u) \/ Delete(u)
    BY DEF Next, Work, vars, graph, CheckEdition, ReadQueue, ReadRegistry, Refuse,
           Unavailable, Enqueue, Take, Begin, Raise, Complete, Fail, End, Kill,
           Lapse, Beat, Sweep, Forget
  <1> QED  BY <1>2, <1>3, <1>4, <1>5, <1>6, <1>7, <1>8

\* A worker is at a stage because it was, or because it just got there.
LEMMA ReachedStage ==
    ASSUME Places, [Next]_vars, NEW x \in Worker, worker'[x] # None
    PROVE  /\ worker'[x].at = "written" => worker'[x] = worker[x] \/ Write(x)
           /\ worker'[x].at = "ended" => worker'[x] = worker[x] \/ RecordFinish(x)
           /\ worker'[x] # worker[x] =>
                Work(x) /\ (Take(x) \/ worker'[x].run = worker[x].run)
  <1>1. worker \in [Worker -> Task \cup {None}]
    BY DEF Places, TypeOK
  <1>2. ASSUME NEW w \in Worker, Work(w) \/ Kill(w), w # x
        PROVE  worker'[x] = worker[x]
    BY <1>1, <1>2
    DEF Work, Take, Begin, RecordStart, Write, Raise, RecordFinish,
        RecordFailure, Complete, Fail, End, Kill, Advance
  <1>3. ~Kill(x) /\ ~Complete(x) /\ ~Fail(x)
    BY <1>1 DEF Kill, Complete, Fail, End
  <1>4. CASE Take(x)
    <2>1. worker'[x] = [run |-> Head(queue), at |-> "taken"]
      BY <1>1, <1>4 DEF Take
    <2> QED  BY <1>4, <2>1 DEF Work
  <1>5. ASSUME NEW stage \in Stage, worker[x] # None, Advance(x, stage)
        PROVE  worker'[x].at = stage /\ worker'[x].run = worker[x].run
    <2>1. worker' = [worker EXCEPT ![x] = [run |-> worker[x].run, at |-> stage]]
      BY <1>5, AdvanceType DEF Places
    <2> QED  BY <1>1, <2>1
  <1>6. CASE Begin(x)
    BY <1>5, <1>6 DEF Begin, At, Work, Stage
  <1>7. CASE RecordStart(x)
    BY <1>5, <1>7 DEF RecordStart, At, Work, Stage
  <1>8. CASE Write(x)
    BY <1>5, <1>8 DEF Write, At, Work, Stage
  <1>9. CASE Raise(x)
    BY <1>5, <1>9 DEF Raise, At, Work, Stage
  <1>10. CASE RecordFinish(x)
    BY <1>5, <1>10 DEF RecordFinish, At, Work, Stage
  <1>11. CASE RecordFailure(x)
    BY <1>5, <1>11 DEF RecordFailure, At, Work, Stage
  <1>12. CASE worker'[x] = worker[x]
    BY <1>12
  <1>13. \/ worker'[x] = worker[x]
         \/ Work(x)
    BY <1>2, <1>3
    DEF Next, vars, CheckEdition, ReadQueue, ReadRegistry, Refuse, Unavailable,
        Enqueue, Lapse, Beat, Sweep, Forget, Ingest, Delete
  <1> QED
    BY <1>3, <1>4, <1>6, <1>7, <1>8, <1>9, <1>10, <1>11, <1>12, <1>13 DEF Work

Records ==
    /\ RecordsAreOfRuns
    /\ WrittenIsHeld
    /\ EndedIsRecorded
    /\ FinishedMeansBuilt
    /\ FinishedRunsAreRecorded

LEMMA InitRecords == Init => Records
  BY DEF Init, Records, RecordsAreOfRuns, WrittenIsHeld, EndedIsRecorded,
         FinishedMeansBuilt, FinishedRunsAreRecorded, At

LEMMA StepRecordsAreOfRuns ==
    ASSUME Places, Records, [Next]_vars
    PROVE  RecordsAreOfRuns'
  <1> SUFFICES ASSUME NEW v \in Version, record'[v] # None
               PROVE  /\ status'[record'[v].run] \notin {"unused", "queued"}
                      /\ target'[record'[v].run] = v
    BY DEF RecordsAreOfRuns, Begun
  <1>1. ASSUME NEW r \in Run, Begun(r)
        PROVE  status'[r] \notin {"unused", "queued"} /\ target'[r] = target[r]
    BY <1>1, StatusForward DEF Begun, Enqueued
  <1>2. CASE record[v] # None /\ record'[v].run = record[v].run
    <2>1. record[v].run \in Run
      BY <1>2 DEF Places, TypeOK, BuildRecord
    <2>2. Begun(record[v].run) /\ target[record[v].run] = v
      BY <1>2 DEF Records, RecordsAreOfRuns
    <2> QED  BY <1>1, <1>2, <2>1, <2>2
  <1>3. ASSUME NEW w \in Worker, RecordStart(w), v = Edition(w),
               record'[v] = Entry(worker[w].run, "started")
        PROVE  /\ status'[record'[v].run] \notin {"unused", "queued"}
               /\ target'[record'[v].run] = v
    <2>1. record'[v].run = worker[w].run
      BY <1>3 DEF Entry
    <2>2. worker[w].run \in Run /\ Begun(worker[w].run)
      BY <1>3, WorkersEdition DEF RecordStart, At, Begun
    <2> QED  BY <1>1, <1>3, <2>1, <2>2 DEF Edition
  <1>4. Recorded(v)
    BY StepRecorded
  <1>5. \/ record[v] # None /\ record'[v].run = record[v].run
        \/ \E w \in Worker : /\ RecordStart(w)
                             /\ v = Edition(w)
                             /\ record'[v] = Entry(worker[w].run, "started")
    <2>1. ASSUME NEW w \in Worker, NEW state, record[v] # None,
                 record[v].run = worker[w].run,
                 record'[v] = Entry(worker[w].run, state)
          PROVE  record'[v].run = record[v].run
      BY <2>1 DEF Entry
    <2> QED  BY <1>4, <2>1 DEF Recorded
  <1> QED  BY <1>2, <1>3, <1>5

LEMMA StepWrittenIsHeld ==
    ASSUME Places, Records, [Next]_vars
    PROVE  WrittenIsHeld'
  <1> SUFFICES ASSUME NEW x \in Worker, At(x, "written")',
                      record'[Edition(x)'] # None,
                      record'[Edition(x)'].run = worker'[x].run
               PROVE  layer'[Edition(x)'] # None
    BY DEF WrittenIsHeld
  <1>1. worker'[x] # None /\ worker'[x].at = "written"
    BY DEF At
  <1>2. CASE Write(x)
    <2>1. worker[x] # None /\ Edition(x) \in Version /\ worker[x].run \in Run
      BY <1>2, WorkersEdition DEF Write, At
    <2>2. worker'[x].run = worker[x].run /\ target' = target
      BY <1>1, <1>2, ReachedStage DEF Write, Advance, jobs, Places, TypeOK
    <2>3. layer'[Edition(x)] = worker[x].run
      BY <1>2, <2>1 DEF Write, Places, TypeOK
    <2> QED  BY <2>1, <2>2, <2>3, NoneAssumption DEF Edition
  <1>3. CASE worker'[x] = worker[x]
    <2> DEFINE v == Edition(x)
    <2>1. /\ v \in Version
          /\ worker[x].run \in Run
          /\ worker[x] # None
          /\ Enqueued(worker[x].run)
          /\ At(x, "written")
      BY <1>1, <1>3, WorkersEdition DEF Places, StatusAgrees, Enqueued, At
    <2>2. Edition(x)' = v
      BY <1>3, <2>1, StatusForward DEF Edition
    <2> HIDE DEF v
    <2>3. Recorded(v)
      BY <2>1, StepRecorded
    <2>4. CASE record'[v] = record[v] /\ layer'[v] = layer[v]
      BY <1>3, <2>1, <2>2, <2>4 DEF Records, WrittenIsHeld, v
    <2>5. ASSUME NEW w \in Worker, RecordStart(w),
                 record'[v] = Entry(worker[w].run, "started")
          PROVE  FALSE
      <3>1. worker[w] # None /\ worker[w].at = "begun"
        BY <2>5 DEF RecordStart, At
      <3>2. worker[w].run = worker[x].run
        BY <1>3, <2>2, <2>5 DEF Entry
      <3> QED
        BY <2>1, <3>1, <3>2 DEF Places, EachRunIsWorkedOnce, At
    <2>6. ASSUME NEW w \in Worker, Write(w), layer'[v] = worker[w].run
          PROVE  layer'[v] # None
      <3>1. worker[w].run \in Run
        BY <2>6, WorkersEdition DEF Write, At
      <3> QED  BY <2>6, <3>1, NoneAssumption
    <2>7. ASSUME NEW w \in Worker, NEW state, record[v] # None,
                 record[v].run = worker[w].run,
                 record'[v] = Entry(worker[w].run, state), layer'[v] = layer[v]
          PROVE  layer'[v] # None
      <3>1. record[v].run = worker[x].run
        BY <1>3, <2>2, <2>7 DEF Entry
      <3> QED  BY <2>1, <2>7, <3>1 DEF Records, WrittenIsHeld, v
    <2>8. record'[v] # None
      BY <2>2
    <2>9. layer'[v] # None
      BY <1>3, <2>1, <2>2, <2>3, <2>4, <2>5, <2>6, <2>7, <2>8 DEF Recorded
    <2> QED  BY <2>2, <2>9
  <1> QED  BY <1>1, <1>2, <1>3, ReachedStage

LEMMA StepFinishedMeansBuilt ==
    ASSUME Places, Records, [Next]_vars
    PROVE  FinishedMeansBuilt'
  <1> SUFFICES ASSUME NEW v \in Version, record'[v] # None,
                      record'[v].state = "finished"
               PROVE  layer'[v] # None
    BY DEF FinishedMeansBuilt
  <1>1. CASE record'[v] = record[v] /\ layer'[v] = layer[v]
    BY <1>1 DEF Records, FinishedMeansBuilt
  <1>2. ASSUME NEW w \in Worker, Write(w), layer'[v] = worker[w].run
        PROVE  layer'[v] # None
    <2>1. worker[w].run \in Run
      BY <1>2, WorkersEdition DEF Write, At
    <2> QED  BY <1>2, <2>1, NoneAssumption
  <1>3. ASSUME NEW w \in Worker, RecordFinish(w), v = Edition(w),
               record[v] # None, record[v].run = worker[w].run,
               layer'[v] = layer[v]
        PROVE  layer'[v] # None
    BY <1>3 DEF RecordFinish, Records, WrittenIsHeld
  <1>4. ASSUME NEW w \in Worker, NEW state \in {"started", "failed"},
               record'[v] = Entry(worker[w].run, state)
        PROVE  FALSE
    BY <1>4 DEF Entry
  <1>5. Recorded(v)
    BY StepRecorded
  <1>6. CASE record'[v] = record[v]
    BY <1>1, <1>2, <1>4, <1>5, <1>6 DEF Recorded, Records, FinishedMeansBuilt
  <1>7. CASE record'[v] # record[v]
    BY <1>1, <1>2, <1>3, <1>4, <1>5, <1>7 DEF Recorded
  <1> QED  BY <1>6, <1>7

LEMMA StepEndedIsRecorded ==
    ASSUME Places, Records, [Next]_vars
    PROVE  EndedIsRecorded'
  <1> SUFFICES ASSUME NEW x \in Worker, At(x, "ended")', NEW v \in Version,
                      record'[v] = Entry(worker'[x].run, "started")
               PROVE  FALSE
    BY DEF EndedIsRecorded, Entry
  <1>1. worker'[x] # None /\ worker'[x].at = "ended"
    BY DEF At
  <1>2. /\ worker[x] # None
        /\ worker'[x].run = worker[x].run
        /\ worker'[x] = worker[x] \/ RecordFinish(x)
    BY <1>1, ReachedStage DEF RecordFinish, At, Take
  <1>3. worker[x].run \in Run /\ Edition(x) \in Version
    BY <1>2, WorkersEdition
  <1>4. record'[v] # None
    BY <1>2, <1>3, NoneAssumption DEF Entry, BuildRecord
  <1>5. CASE RecordFinish(x)
    <2>1. record' = Outcome(x, "finished")
      BY <1>5 DEF RecordFinish
    <2>2. CASE v = Edition(x)
      <3>1. record'[v] # Entry(worker[x].run, "finished")
        BY <1>2 DEF Entry
      <3>2. record'[v] = record[v] /\ record[v].run # worker[x].run
        BY <1>2, <1>4, <2>1, <2>2, <3>1, OutcomeTouchesItsOwn DEF State
      <3> QED  BY <1>2, <3>2 DEF Entry
    <2>3. CASE v # Edition(x)
      <3>1. record[v] = Entry(worker[x].run, "started")
        BY <1>2, <2>1, <2>3, OutcomeTouchesItsOwn DEF State
      <3>2. target[worker[x].run] = v
        BY <1>4, <3>1, <1>2 DEF Records, RecordsAreOfRuns, Entry
      <3> QED  BY <2>3, <3>2 DEF Edition
    <2> QED  BY <2>2, <2>3
  <1>6. CASE worker'[x] = worker[x]
    <2>1. At(x, "ended") /\ record[v] # Entry(worker[x].run, "started")
      BY <1>1, <1>6 DEF At, Records, EndedIsRecorded
    <2>2. ASSUME NEW w \in Worker, RecordStart(w),
                 record'[v] = Entry(worker[w].run, "started")
          PROVE  FALSE
      <3>1. worker[w] # None /\ worker[w].at = "begun"
        BY <2>2 DEF RecordStart, At
      <3>2. worker[w].run = worker[x].run
        BY <1>2, <2>2 DEF Entry
      <3> QED
        BY <1>1, <1>2, <1>6, <3>1, <3>2 DEF Places, EachRunIsWorkedOnce
    <2>3. ASSUME NEW w \in Worker, NEW state \in {"finished", "failed"},
                 record'[v] = Entry(worker[w].run, state)
          PROVE  FALSE
      BY <1>2, <2>3 DEF Entry
    <2>4. Recorded(v)
      BY StepRecorded
    <2> QED  BY <1>2, <1>4, <2>1, <2>2, <2>3, <2>4 DEF Recorded
  <1> QED  BY <1>2, <1>5, <1>6

LEMMA StepFinishedRunsAreRecorded ==
    ASSUME Places, Records, [Next]_vars
    PROVE  FinishedRunsAreRecorded'
  <1> SUFFICES ASSUME NEW r \in Run, status'[r] \in {"finished", "gone"},
                      NEW v \in Version, record'[v] = Entry(r, "started")
               PROVE  FALSE
    BY DEF FinishedRunsAreRecorded, Entry
  <1>1. record'[v] # None
    BY NoneAssumption DEF Entry, BuildRecord
  <1>2. ASSUME NEW w \in Worker, RecordStart(w),
               record'[v] = Entry(worker[w].run, "started")
        PROVE  FALSE
    <2>1. status[worker[w].run] = "started" /\ status' = status
      BY <1>2, WorkersEdition DEF RecordStart, At, jobs
    <2> QED  BY <1>2, <2>1 DEF Entry
  <1>3. record[v] = Entry(r, "started")
    <2>1. ASSUME NEW w \in Worker, NEW state \in {"finished", "failed"},
                 record'[v] = Entry(worker[w].run, state)
          PROVE  FALSE
      BY <2>1 DEF Entry
    <2>2. Recorded(v)
      BY StepRecorded
    <2> QED  BY <1>1, <1>2, <2>1, <2>2 DEF Recorded
  <1>4. status[r] \notin {"finished", "gone"}
    BY <1>3 DEF Records, FinishedRunsAreRecorded
  <1>5. \E w \in Worker : At(w, "ended") /\ worker[w].run = r
    BY <1>4, StatusForward
  <1> QED  BY <1>3, <1>5 DEF Records, EndedIsRecorded

LEMMA StepRecords == Places /\ Records /\ [Next]_vars => Records'
  BY StepRecordsAreOfRuns, StepWrittenIsHeld, StepFinishedMeansBuilt,
     StepEndedIsRecorded, StepFinishedRunsAreRecorded
  DEF Records

LEMMA AlwaysRecords == Spec => [](Places /\ Records)
  BY InitPlaces, StepPlaces, InitRecords, StepRecords, PTL DEF Spec

\* In every reachable state an edition recorded as built holds a build's output.
THEOREM FinishedIsBuilt == Spec => []FinishedMeansBuilt
  <1>1. Places /\ Records => FinishedMeansBuilt
    BY DEF Records
  <1> QED  BY <1>1, AlwaysRecords, PTL

\* In every reachable state no run RQ has seen finish is recorded as started.
THEOREM FinishedIsRecorded == Spec => []FinishedRunsAreRecorded
  <1>1. Places /\ Records => FinishedRunsAreRecorded
    BY DEF Records
  <1> QED  BY <1>1, AlwaysRecords, PTL

-----------------------------------------------------------------------------
(* Runs of one edition beside each other *)

\* No record is of a run that has not recorded its start; and until its own
\* outcome is recorded, a record of it says started.
RecordsKeepPace ==
    \A w \in Worker, v \in Version :
        worker[w] # None /\ record[v] # None /\ record[v].run = worker[w].run =>
            /\ worker[w].at \notin {"taken", "begun"}
            /\ worker[w].at \in {"recorded", "written", "failing"} =>
                   record[v].state = "started"

LEMMA InitPace == Init => RecordsKeepPace
  BY DEF Init, RecordsKeepPace

LEMMA Advanced ==
    ASSUME Places, NEW w \in Worker, worker[w] # None, NEW stage \in Stage,
           Advance(w, stage)
    PROVE  /\ worker'[w].at = stage
           /\ worker'[w].run = worker[w].run
           /\ \A x \in Worker \ {w} : worker'[x] = worker[x]
  <1>1. worker \in [Worker -> Task \cup {None}]
    BY DEF Places, TypeOK
  <1>2. worker' = [worker EXCEPT ![w] = [run |-> worker[w].run, at |-> stage]]
    BY AdvanceType DEF Places
  <1>3. worker'[w] = [run |-> worker[w].run, at |-> stage]
    BY <1>1, <1>2
  <1> QED  BY <1>1, <1>2, <1>3

\* A run that is not at the stage it was at has gone one stage on.
LEMMA JobMoved ==
    ASSUME Places, [Next]_vars, NEW x \in Worker,
           worker'[x] # None, worker'[x] # worker[x], ~Take(x)
    PROVE  /\ worker[x] # None
           /\ worker'[x].run = worker[x].run
           /\ \/ worker[x].at \in {"taken", "begun"}
              \/ /\ worker[x].at \in {"recorded", "written"}
                 /\ worker'[x].at \in {"written", "failing", "ended"}
              \/ worker'[x].at = "failed"
  <1>1. Work(x) /\ worker'[x].run = worker[x].run
    BY ReachedStage
  <1>2. ~End(x, "finished") /\ ~End(x, "failed")
    BY DEF End, Places, TypeOK
  <1>3. CASE Begin(x) \/ RecordStart(x)
    BY <1>1, <1>3 DEF Begin, RecordStart, At
  <1>4. CASE Write(x)
    BY <1>1, <1>4, Advanced DEF Write, At, Stage
  <1>5. CASE Raise(x)
    BY <1>1, <1>5, Advanced DEF Raise, At, Stage
  <1>6. CASE RecordFinish(x)
    BY <1>1, <1>6, Advanced DEF RecordFinish, At, Stage
  <1>7. CASE RecordFailure(x)
    BY <1>1, <1>7, Advanced DEF RecordFailure, At, Stage
  <1> QED
    BY <1>1, <1>2, <1>3, <1>4, <1>5, <1>6, <1>7 DEF Work, Complete, Fail

LEMMA StepPace ==
    ASSUME Places, Records, RecordsKeepPace, [Next]_vars
    PROVE  RecordsKeepPace'
  <1> SUFFICES ASSUME NEW x \in Worker, NEW v \in Version, worker'[x] # None,
                      record'[v] # None, record'[v].run = worker'[x].run
               PROVE  /\ worker'[x].at \notin {"taken", "begun"}
                      /\ worker'[x].at \in {"recorded", "written", "failing"} =>
                             record'[v].state = "started"
    BY DEF RecordsKeepPace
  <1>1. CASE record'[v] = record[v]
    <2>1. CASE worker'[x] = worker[x]
      BY <1>1, <2>1 DEF RecordsKeepPace
    <2>2. CASE Take(x)
      <3>1. worker'[x].run = Head(queue)
        BY <2>2 DEF Take, Places, TypeOK
      <3>2. Head(queue) \in Queued
        <4>1. queue \in Seq(Run) /\ queue # <<>>
          BY <2>2 DEF Take, Places, TypeOK
        <4> QED  BY <4>1 DEF Queued, Range
      <3>3. status[record[v].run] = "queued"
        BY <1>1, <3>1, <3>2 DEF Places, StatusAgrees
      <3>4. status[record[v].run] # "queued"
        BY <1>1 DEF Records, RecordsAreOfRuns, Begun
      <3> QED  BY <3>3, <3>4
    <2>3. CASE worker'[x] # worker[x] /\ ~Take(x)
      <3>1. worker[x] # None /\ worker'[x].run = worker[x].run
        BY <2>3, JobMoved
      <3>2. /\ worker[x].at \notin {"taken", "begun"}
            /\ worker[x].at \in {"recorded", "written", "failing"} =>
                   record[v].state = "started"
        BY <1>1, <3>1 DEF RecordsKeepPace
      <3> QED  BY <1>1, <2>3, <3>2, JobMoved
    <2> QED  BY <2>1, <2>2, <2>3
  <1>2. ASSUME NEW w \in Worker, worker[w] # None, record'[v].run = worker[w].run,
               NEW stage \in Stage, Advance(w, stage)
        PROVE  worker'[x].at = stage
    <2>1. CASE x = w
      BY <1>2, <2>1, Advanced
    <2>2. CASE x # w
      <3>1. worker'[x] = worker[x]
        BY <1>2, <2>2, Advanced
      <3> QED  BY <1>2, <2>2, <3>1 DEF Places, EachRunIsWorkedOnce
    <2> QED  BY <2>1, <2>2
  <1>3. ASSUME NEW w \in Worker, RecordStart(w),
               record'[v] = Entry(worker[w].run, "started")
        PROVE  worker'[x].at = "recorded" /\ record'[v].state = "started"
    BY <1>2, <1>3 DEF RecordStart, At, Entry, Stage
  <1>4. ASSUME NEW w \in Worker, RecordFinish(w),
               record'[v] = Entry(worker[w].run, "finished")
        PROVE  worker'[x].at = "ended"
    BY <1>2, <1>4 DEF RecordFinish, At, Entry, Stage
  <1>5. ASSUME NEW w \in Worker, RecordFailure(w),
               record'[v] = Entry(worker[w].run, "failed")
        PROVE  worker'[x].at = "failed"
    BY <1>2, <1>5 DEF RecordFailure, At, Entry, Stage
  <1>6. Recorded(v)
    BY StepRecorded
  <1> QED  BY <1>1, <1>3, <1>4, <1>5, <1>6 DEF Recorded

LEMMA StepOutcomes ==
    ASSUME Places, RecordsKeepPace, [Next]_vars, NEW v \in Version,
           record'[v] \notin {None, record[v]}
    PROVE  IF record'[v].state = "started"
           THEN record[v] = None \/ record[v].run # record'[v].run
           ELSE record[v] = Entry(record'[v].run, "started")
  <1>1. record \in [Version -> BuildRecord \cup {None}]
    BY DEF Places, TypeOK
  <1>2. ASSUME NEW w \in Worker, RecordStart(w),
               record'[v] = Entry(worker[w].run, "started")
        PROVE  /\ record'[v].state = "started"
               /\ record[v] = None \/ record[v].run # record'[v].run
    BY <1>2 DEF RecordStart, At, RecordsKeepPace, Entry
  <1>3. ASSUME NEW w \in Worker, RecordFinish(w) \/ RecordFailure(w),
               record[v] # None, record[v].run = worker[w].run,
               NEW state \in {"finished", "failed"},
               record'[v] = Entry(worker[w].run, state)
        PROVE  /\ record'[v].state # "started"
               /\ record[v] = Entry(record'[v].run, "started")
    <2>1. record[v].state = "started"
      BY <1>3 DEF RecordFinish, RecordFailure, At, RecordsKeepPace
    <2> QED  BY <1>1, <1>3, <2>1 DEF BuildRecord, Entry
  <1>4. Recorded(v)
    BY StepRecorded
  <1> QED  BY <1>2, <1>3, <1>4 DEF Recorded

\* However many runs of an edition overlap, a run takes the record over only by
\* starting, and records its outcome once, while the record shows its start.
THEOREM OutcomesAreOwn == Spec => OutcomesAreOfTheRecordedRun
  <1>1. Places /\ RecordsKeepPace /\ [Next]_vars =>
            [\A v \in Version :
                 record'[v] \notin {None, record[v]} =>
                     IF record'[v].state = "started"
                     THEN record[v] = None \/ record[v].run # record'[v].run
                     ELSE record[v] = Entry(record'[v].run, "started")]_vars
    BY StepOutcomes
  <1>2. Spec => [](Places /\ Records /\ RecordsKeepPace)
    BY InitPlaces, StepPlaces, InitRecords, StepRecords, InitPace, StepPace,
       PTL DEF Spec
  <1> QED  BY <1>1, <1>2, PTL DEF Spec, OutcomesAreOfTheRecordedRun

-----------------------------------------------------------------------------
(* With one worker, the record implements the log *)

\* The compose file starts one worker.
OneWorker == \A u, w \in Worker : u = w

AbsentIsUnrecorded == \A v \in Version : v \notin present => record[v] = None

\* From its start to its outcome, a run's edition is recorded as its own, or an
\* ingest or delete forgot the record; nobody else records there.
StartedIsRecorded ==
    \A w \in Worker :
        worker[w] # None /\ worker[w].at \in {"recorded", "written", "failing"} =>
            record[Edition(w)] \in {None, Entry(worker[w].run, "started")}

\* A run that has written and still has its record has its layer there.
WrittenIsOwn ==
    \A w \in Worker :
        At(w, "written") /\ record[Edition(w)] = Entry(worker[w].run, "started") =>
            layer[Edition(w)] = worker[w].run

Logged == AbsentIsUnrecorded /\ StartedIsRecorded /\ WrittenIsOwn

LEMMA InitLogged == Init => Logged
  BY DEF Init, Logged, AbsentIsUnrecorded, StartedIsRecorded, WrittenIsOwn, At

\* Only four steps of a worker, ingest and delete touch the log.
LEMMA StepsThatRecord ==
    ASSUME [Next]_vars
    PROVE  \/ UNCHANGED <<present, layer, record>>
           \/ \E w \in Worker :
                  RecordStart(w) \/ Write(w) \/ RecordFinish(w) \/ RecordFailure(w)
           \/ \E v \in Version : Ingest(v) \/ Delete(v)
  <1>1. ASSUME NEW q \in Request,
               \/ \E v \in Version : CheckEdition(q, v)
               \/ ReadQueue(q) \/ ReadRegistry(q) \/ Refuse(q) \/ Unavailable(q)
               \/ \E r \in Run : Enqueue(q, r)
        PROVE  UNCHANGED graph
    BY <1>1 DEF CheckEdition, ReadQueue, ReadRegistry, Refuse, Unavailable, Enqueue
  <1>2. ASSUME NEW w \in Worker,
               Take(w) \/ Begin(w) \/ Raise(w) \/ Complete(w) \/ Fail(w) \/ Kill(w)
        PROVE  UNCHANGED graph
    BY <1>2 DEF Take, Begin, Raise, Complete, Fail, End, Kill
  <1>3. ASSUME NEW r \in Run, Lapse(r) \/ Beat(r) \/ Sweep(r) \/ Forget(r)
        PROVE  UNCHANGED graph
    BY <1>3 DEF Lapse, Beat, Sweep, Forget
  <1>4. UNCHANGED graph => UNCHANGED <<present, layer, record>>
    BY DEF graph
  <1>5. CASE Next
    BY <1>1, <1>2, <1>3, <1>4, <1>5 DEF Next, Work
  <1>6. CASE UNCHANGED vars
    BY <1>6 DEF vars
  <1> QED  BY <1>5, <1>6

LEMMA StepAbsent ==
    ASSUME Places, Logged, [Next]_vars
    PROVE  AbsentIsUnrecorded'
  <1>1. /\ record \in [Version -> BuildRecord \cup {None}]
        /\ present \subseteq Version
    BY DEF Places, TypeOK
  <1>2. CASE UNCHANGED <<present, record>>
    BY <1>2 DEF Logged, AbsentIsUnrecorded
  <1>3. ASSUME NEW v \in Version, Ingest(v) \/ Delete(v)
        PROVE  AbsentIsUnrecorded'
    BY <1>1, <1>3 DEF Ingest, Delete, Logged, AbsentIsUnrecorded
  <1>4. ASSUME NEW w \in Worker, RecordStart(w)
        PROVE  AbsentIsUnrecorded'
    BY <1>1, <1>4 DEF RecordStart, Logged, AbsentIsUnrecorded
  <1>5. ASSUME NEW w \in Worker, worker[w] # None, UNCHANGED present,
               NEW state \in {"finished", "failed"}, record' = Outcome(w, state)
        PROVE  AbsentIsUnrecorded'
    <2> SUFFICES ASSUME NEW v \in Version, v \notin present
                 PROVE  record'[v] = None
      BY <1>5 DEF AbsentIsUnrecorded
    <2>1. record[v] = None
      BY DEF Logged, AbsentIsUnrecorded
    <2> QED  BY <1>5, <2>1, OutcomeTouchesItsOwn DEF State
  <1>6. ASSUME NEW w \in Worker, Write(w)
        PROVE  AbsentIsUnrecorded'
    BY <1>2, <1>6 DEF Write
  <1> QED
    BY <1>2, <1>3, <1>4, <1>5, <1>6, StepsThatRecord DEF RecordFinish, RecordFailure, At

\* How the one worker got to where it is.
LEMMA ReachedJob ==
    ASSUME Places, [Next]_vars, NEW w \in Worker, worker'[w] # None,
           worker'[w].at \in {"recorded", "written", "failing"}
    PROVE  /\ Edition(w)' = Edition(w)
           /\ worker[w] # None
           /\ worker'[w].run = worker[w].run
           /\ \/ worker'[w] = worker[w]
              \/ RecordStart(w)
              \/ At(w, "recorded") /\ Write(w)
              \/ (At(w, "recorded") \/ At(w, "written")) /\ Raise(w)
  <1>1. worker \in [Worker -> Task \cup {None}]
    BY DEF Places, TypeOK
  <1>2. ~Take(w)
    BY <1>1 DEF Take
  <1>3. worker'[w] = worker[w] \/ (Work(w) /\ worker'[w].run = worker[w].run)
    BY <1>2, ReachedStage
  <1>4. worker[w] # None /\ worker'[w].run = worker[w].run
    BY <1>2, <1>3 DEF Work, Begin, RecordStart, Write, Raise, RecordFinish,
                      RecordFailure, Complete, Fail, At
  <1>5. ASSUME NEW stage \in Stage \ {"recorded", "written", "failing"}
        PROVE  ~Advance(w, stage)
    <2> SUFFICES ASSUME Advance(w, stage)  PROVE FALSE
      OBVIOUS
    <2>1. worker' = [worker EXCEPT ![w] = [run |-> worker[w].run, at |-> stage]]
      BY <1>4, AdvanceType DEF Places
    <2>2. worker'[w].at = stage
      BY <1>1, <2>1
    <2> QED  BY <2>2 DEF Stage
  <1>6. ~End(w, "finished") /\ ~End(w, "failed")
    BY <1>1 DEF End
  <1>7. \/ worker'[w] = worker[w]
        \/ RecordStart(w) \/ Write(w) \/ Raise(w)
    BY <1>2, <1>3, <1>5, <1>6
    DEF Work, Begin, RecordFinish, RecordFailure, Complete, Fail, Stage
  <1>8. Edition(w)' = Edition(w)
    <2>1. target'[worker[w].run] = target[worker[w].run]
      BY <1>4, WorkersEdition, StatusForward DEF Enqueued, Places, StatusAgrees
    <2> QED  BY <1>4, <2>1 DEF Edition
  <1> QED  BY <1>4, <1>7, <1>8 DEF Write, Raise

LEMMA StepStarted ==
    ASSUME OneWorker, Places, Logged, [Next]_vars
    PROVE  StartedIsRecorded' /\ WrittenIsOwn'
  <1> SUFFICES ASSUME NEW w \in Worker, worker'[w] # None,
                      worker'[w].at \in {"recorded", "written", "failing"}
               PROVE  /\ record'[Edition(w)]
                            \in {None, Entry(worker[w].run, "started")}
                      /\ worker'[w].at = "written" =>
                           (record'[Edition(w)] = Entry(worker[w].run, "started")
                              => layer'[Edition(w)] = worker[w].run)
    BY ReachedJob DEF StartedIsRecorded, WrittenIsOwn, At
  <1> DEFINE v == Edition(w)
             mine == Entry(worker[w].run, "started")
  <1>1. worker[w] # None /\ v \in Version /\ worker[w].run \in Run
    BY ReachedJob, WorkersEdition
  <1>2. worker \in [Worker -> Task \cup {None}] /\ layer \in [Version -> Run \cup {None}]
    BY DEF Places, TypeOK
  <1>3. ASSUME NEW x \in Worker  PROVE x = w
    BY DEF OneWorker
  <1>4. CASE RecordStart(w)
    <2>1. worker'[w].at = "recorded"
      BY <1>1, <1>2, <1>4, AdvanceType DEF RecordStart, Places, Stage
    <2>2. record \in [Version -> BuildRecord \cup {None}]
      BY DEF Places, TypeOK
    <2>3. CASE v \in present
      BY <1>1, <1>4, <2>1, <2>2, <2>3 DEF RecordStart
    <2>4. CASE v \notin present
      BY <1>1, <1>4, <2>1, <2>4 DEF RecordStart, Logged, AbsentIsUnrecorded
    <2> QED  BY <2>3, <2>4
  <1>5. CASE Write(w)
    <2>1. record' = record /\ layer'[v] = worker[w].run
      BY <1>1, <1>2, <1>5 DEF Write
    <2>2. record[v] \in {None, mine}
      BY <1>5 DEF Write, At, Logged, StartedIsRecorded
    <2> QED  BY <2>1, <2>2
  <1>6. CASE Raise(w)
    <2>1. record' = record /\ worker'[w].at = "failing"
      BY <1>1, <1>2, <1>6, AdvanceType DEF Raise, graph, Places, Stage
    <2>2. record[v] \in {None, mine}
      BY <1>6 DEF Raise, At, Logged, StartedIsRecorded
    <2> QED  BY <2>1, <2>2
  <1>7. CASE worker'[w] = worker[w]
    <2>1. /\ record[v] \in {None, mine}
          /\ worker[w].at = "written" => (record[v] = mine => layer[v] = worker[w].run)
      BY <1>1, <1>7 DEF Logged, StartedIsRecorded, WrittenIsOwn, At
    <2>2. \/ record'[v] = record[v] /\ layer'[v] = layer[v]
          \/ record'[v] = None
          \/ \E x \in Worker :
                 RecordStart(x) \/ Write(x) \/ RecordFinish(x) \/ RecordFailure(x)
      BY <1>1, StepRecorded DEF Recorded
    <2>3. ~RecordStart(w) /\ ~Write(w) /\ ~RecordFinish(w) /\ ~RecordFailure(w)
      <3>1. ASSUME NEW stage \in Stage, Advance(w, stage)  PROVE worker[w].at = stage
        <4>1. worker' = [worker EXCEPT ![w] = [run |-> worker[w].run, at |-> stage]]
          BY <1>1, <3>1, AdvanceType DEF Places
        <4> QED  BY <1>2, <1>7, <4>1
      <3> QED  BY <3>1 DEF RecordStart, Write, RecordFinish, RecordFailure, At, Stage
    <2>4. mine # None
      BY <1>1, NoneAssumption DEF BuildRecord, Entry
    <2> QED  BY <1>3, <1>7, <2>1, <2>2, <2>3, <2>4
  <1> QED  BY <1>4, <1>5, <1>6, <1>7, ReachedJob

\* Every step is a step of the log on one edition, or leaves the log alone.
LEMMA StepOfLog ==
    ASSUME OneWorker, Places, Logged, [Next]_vars
    PROVE  [Log!Next]_(Log!vars)
  <1>1. /\ record \in [Version -> BuildRecord \cup {None}]
        /\ layer \in [Version -> Run \cup {None}]
    BY DEF Places, TypeOK
  <1>2. CASE UNCHANGED <<present, layer, record>>
    BY <1>2 DEF Log!vars
  <1>3. ASSUME NEW v \in Version, Ingest(v) \/ Delete(v)  PROVE Log!Next
    <2>1. Log!Wipe(v)
      BY <1>3 DEF Ingest, Delete, Log!Wipe
    <2> QED  BY <2>1 DEF Log!Next
  <1>4. ASSUME NEW w \in Worker, worker[w] # None,
               Log!Open(Edition(w), worker[w].run) \/ Log!Build(Edition(w), worker[w].run)
               \/ Log!Finish(Edition(w), worker[w].run)
               \/ Log!Fail(Edition(w), worker[w].run)
        PROVE  Log!Next
    BY <1>4, WorkersEdition DEF Log!Next
  <1>5. ASSUME NEW w \in Worker, RecordStart(w)  PROVE [Log!Next]_(Log!vars)
    <2>1. CASE Edition(w) \in present
      <3>1. worker[w] # None /\ Log!Open(Edition(w), worker[w].run)
        BY <1>5, <2>1 DEF RecordStart, At, Log!Open, Log!Entry, Entry
      <3> QED  BY <1>4, <3>1
    <2>2. CASE Edition(w) \notin present
      BY <1>2, <1>5, <2>2 DEF RecordStart
    <2> QED  BY <2>1, <2>2
  <1>6. ASSUME NEW w \in Worker, Write(w)  PROVE Log!Next
    <2>1. record[Edition(w)] \in {None, Entry(worker[w].run, "started")}
      BY <1>6 DEF Write, At, Logged, StartedIsRecorded
    <2>2. worker[w] # None /\ Log!Build(Edition(w), worker[w].run)
      BY <1>6, <2>1 DEF Write, At, Log!Build, Log!Entry, Entry
    <2> QED  BY <1>4, <2>2
  <1>7. ASSUME NEW w \in Worker, NEW state \in {"finished", "failed"},
               worker[w] # None, worker[w].at \in {"written", "failing"},
               state = "finished" => worker[w].at = "written",
               record' = Outcome(w, state), UNCHANGED <<present, layer>>
        PROVE  [Log!Next]_(Log!vars)
    <2> DEFINE v == Edition(w)
    <2>1. v \in Version /\ worker[w].run \in Run
      BY <1>7, WorkersEdition
    <2>2. record[v] \in {None, Entry(worker[w].run, "started")}
      BY <1>7 DEF Logged, StartedIsRecorded
    <2>3. CASE record[v] = None
      BY <1>2, <1>7, <2>3 DEF Outcome
    <2>4. CASE record[v] = Entry(worker[w].run, "started")
      <3>1. record[v] # None /\ record[v].run = worker[w].run
        BY <2>1, <2>4, NoneAssumption DEF Entry, BuildRecord
      <3>2. record' = [record EXCEPT ![v] = Entry(worker[w].run, state)]
        <4>1. record' = [record EXCEPT ![v].state = state]
          BY <1>7, <3>1 DEF Outcome
        <4>2. [record[v] EXCEPT !.state = state] = Entry(worker[w].run, state)
          BY <2>4 DEF Entry
        <4> QED  BY <4>1, <4>2
      <3>3. CASE state = "finished"
        <4>1. layer[v] = worker[w].run
          BY <1>7, <2>4, <3>3 DEF At, Logged, WrittenIsOwn
        <4>2. Log!Finish(v, worker[w].run)
          BY <1>7, <2>4, <3>2, <3>3, <4>1 DEF Log!Finish, Log!Entry, Entry
        <4> QED  BY <1>4, <1>7, <4>2
      <3>4. CASE state = "failed"
        <4>1. Log!Fail(v, worker[w].run)
          BY <1>7, <2>4, <3>2, <3>4 DEF Log!Fail, Log!Entry, Entry
        <4> QED  BY <1>4, <1>7, <4>1
      <3> QED  BY <3>3, <3>4
    <2> QED  BY <2>2, <2>3, <2>4
  <1>8. ASSUME NEW w \in Worker, RecordFinish(w)  PROVE [Log!Next]_(Log!vars)
    BY <1>7, <1>8 DEF RecordFinish, At
  <1>9. ASSUME NEW w \in Worker, RecordFailure(w)  PROVE [Log!Next]_(Log!vars)
    BY <1>7, <1>9 DEF RecordFailure, At
  <1> QED  BY <1>2, <1>3, <1>5, <1>6, <1>8, <1>9, StepsThatRecord

\* With the one worker of the compose file, what the queue, the worker, ingests
\* and deletes do to an edition's record and layer is what BuildLog allows: a
\* finished record is of the run whose output the edition holds.
THEOREM ImplementsTheLog == OneWorker => (Spec => KeepsTheLog)
  <1> SUFFICES ASSUME OneWorker
               PROVE  Spec => KeepsTheLog
    OBVIOUS
  <1> DEFINE Inv == Places /\ Logged
  <1>1. Init => Inv
    BY InitPlaces, InitLogged
  <1>2. Inv /\ [Next]_vars => Inv'
    BY StepPlaces, StepAbsent, StepStarted DEF Logged
  <1>3. Init => Log!Init
    BY DEF Init, Log!Init
  <1>4. Inv /\ [Next]_vars => [Log!Next]_(Log!vars)
    BY StepOfLog
  <1> QED  BY <1>1, <1>2, <1>3, <1>4, PTL DEF Spec, KeepsTheLog, Log!Spec
=============================================================================
