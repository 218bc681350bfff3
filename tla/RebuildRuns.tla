----------------------------- MODULE RebuildRuns -----------------------------
(***************************************************************************)
(* Rebuilds as runs: the route that starts one, the Redis queue (RQ) and   *)
(* its worker, and the build record the run leaves on its edition.         *)
(*                                                                         *)
(* The route scans the queue's two lists and then enqueues, in steps of    *)
(* their own.  A worker takes a run from the queue, has RQ mark it         *)
(* started, records the start on the edition, replaces the edition's layer *)
(* in one transaction, records the outcome, and has RQ mark it finished.   *)
(* It may be killed between any two of these.  Meanwhile an ingest may     *)
(* chunk the edition anew, and a delete may take it away.                  *)
(*                                                                         *)
(* RQ itself is no part of the repository: its steps are modelled from how *)
(* the route and the job use it.                                           *)
(*                                                                         *)
(* What a layer contains is the matter of DerivedLayer; here it is the run *)
(* that wrote it.                                                          *)
(*                                                                         *)
(* A definition marked "Variant" is a plausible mistake in the definition  *)
(* after it, which nothing uses.                                           *)
(***************************************************************************)
EXTENDS Naturals, Sequences, Functions

CONSTANTS
    Version,    \* editions
    Run,        \* run ids an enqueue may draw (bound)
    Worker,     \* `rq worker rebuilds` processes
    Request,    \* POSTs under way at once (bound)
    None        \* no layer, no record, an idle worker, a request not made

VARIABLES
    present,    \* the editions the graph holds
    layer,      \* the run that wrote the layer an edition holds, or None
    record      \* v.build_run_id and v.build_state, or None when they are NULL

VARIABLES
    request,    \* a POST between its checks and its enqueue
    queue,      \* the ids RQ's queue lists
    status,     \* RQ's status of a job
    target,     \* the job's version_id
    beating,    \* started runs whose worker's heartbeat key exists
    worker      \* what each worker is doing

graph == <<present, layer, record>>
jobs  == <<queue, status, target, beating>>
vars  == <<present, layer, record, request, queue, status, target, beating, worker>>

BuildRecord == [run: Run, state: {"started", "finished", "failed"}]

Entry(r, state) == [run |-> r, state |-> state]

\* The last two fields: the ids read so far, and (history) the runs that stood
\* in either list when the scan began.
Post == [edition: Version, stage: {"checked", "listed", "scanned"},
         ids: SUBSET Run, visible: SUBSET Run]

Task == [run: Run,
         at: {"taken", "begun", "recorded", "written", "failing", "failed",
              "ended"}]

ASSUME NoneAssumption == None \notin Run \cup Version \cup BuildRecord

TypeOK ==
    /\ present \in SUBSET Version
    /\ layer \in [Version -> Run \cup {None}]
    /\ record \in [Version -> BuildRecord \cup {None}]
    /\ request \in [Request -> Post \cup {None}]
    /\ queue \in Seq(Run)
    /\ status \in [Run -> {"unused", "queued", "started", "finished", "failed", "gone"}]
    /\ target \in [Run -> Version \cup {None}]
    /\ beating \in SUBSET Run
    /\ worker \in [Worker -> Task \cup {None}]

Init ==
    /\ present \in SUBSET Version
    /\ layer = [v \in Version |-> None]
    /\ record = [v \in Version |-> None]
    /\ request = [q \in Request |-> None]
    /\ queue = <<>>
    /\ status = [r \in Run |-> "unused"]
    /\ target = [r \in Run |-> None]
    /\ beating = {}
    /\ worker = [w \in Worker |-> None]

-----------------------------------------------------------------------------
(* POST /documents/{slug}/versions/{version_id}/rebuild *)

Queued == Range(queue)
Started == {r \in Run : status[r] = "started"}

\* The edition and its source exist, and so do the candidates.
CheckEdition(q, v) ==
    /\ request[q] = None
    /\ v \in present
    /\ request' = [request EXCEPT ![q] =
           [edition |-> v, stage |-> "checked", ids |-> {}, visible |-> {}]]
    /\ UNCHANGED <<graph, jobs, worker>>

\* Variant: the started registry is read before the queue.
IdsListedBackwards(stage) == IF stage = "checked" THEN Started ELSE Queued
\* The scan reads the queue first, then the started registry.
IdsListed(stage) == IF stage = "checked" THEN Queued ELSE Started

ReadQueue(q) ==
    /\ request[q] # None
    /\ request[q].stage = "checked"
    /\ request' = [request EXCEPT ![q] =
           [@ EXCEPT !.stage = "listed", !.ids = IdsListed("checked"),
                     !.visible = Queued \cup Started]]
    /\ UNCHANGED <<graph, jobs, worker>>

ReadRegistry(q) ==
    /\ request[q] # None
    /\ request[q].stage = "listed"
    /\ request' = [request EXCEPT ![q] =
           [@ EXCEPT !.stage = "scanned", !.ids = request[q].ids \cup IdsListed("listed")]]
    /\ UNCHANGED <<graph, jobs, worker>>

\* A listed job that can still be fetched and is of this edition.
InFlight(q) ==
    \E r \in request[q].ids :
        /\ status[r] # "gone"
        /\ target[r] = request[q].edition

\* 409: a run of this edition is already under way.
Refuse(q) ==
    /\ request[q] # None
    /\ request[q].stage = "scanned"
    /\ InFlight(q)
    /\ request' = [request EXCEPT ![q] = None]
    /\ UNCHANGED <<graph, jobs, worker>>

\* 503: Redis did not answer.
Unavailable(q) ==
    /\ request[q] # None
    /\ request' = [request EXCEPT ![q] = None]
    /\ UNCHANGED <<graph, jobs, worker>>

\* Variant: the edition's id serves as the job's.
EnqueueByEdition(q, r) ==
    /\ request[q] # None
    /\ request[q].stage = "scanned"
    /\ ~InFlight(q)
    /\ status[r] = "unused"
    /\ queue' = Append(queue, request[q].edition)
    /\ request' = [request EXCEPT ![q] = None]
    /\ UNCHANGED <<graph, status, target, beating, worker>>
\* 202, or a 503 when the enqueue happened and its answer was lost.
Enqueue(q, r) ==
    /\ request[q] # None
    /\ request[q].stage = "scanned"
    /\ ~InFlight(q)
    /\ status[r] = "unused"
    /\ queue' = Append(queue, r)
    /\ status' = [status EXCEPT ![r] = "queued"]
    /\ target' = [target EXCEPT ![r] = request[q].edition]
    /\ request' = [request EXCEPT ![q] = None]
    /\ UNCHANGED <<graph, beating, worker>>

-----------------------------------------------------------------------------
(* The worker *)

At(w, stage) ==
    /\ worker[w] # None
    /\ worker[w].at = stage

Advance(w, stage) == worker' = [worker EXCEPT ![w].at = stage]

Held(r) == \E w \in Worker : worker[w] # None /\ worker[w].run = r

\* The edition the worker's run is of.
Edition(w) == target[worker[w].run]

\* RQ pops the queue's head; the run is in neither list until it begins.
Take(w) ==
    /\ worker[w] = None
    /\ queue # <<>>
    /\ worker' = [worker EXCEPT ![w] = [run |-> Head(queue), at |-> "taken"]]
    /\ queue' = Tail(queue)
    /\ UNCHANGED <<graph, request, status, target, beating>>

\* RQ marks the job started, under this worker's name.
Begin(w) ==
    /\ At(w, "taken")
    /\ Advance(w, "begun")
    /\ status' = [status EXCEPT ![worker[w].run] = "started"]
    /\ beating' = beating \cup {worker[w].run}
    /\ UNCHANGED <<graph, request, queue, target>>

\* START_BUILD; of an edition that has gone meanwhile it matches nothing.
RecordStart(w) ==
    /\ At(w, "begun")
    /\ Advance(w, "recorded")
    /\ record' = IF Edition(w) \in present
                 THEN [record EXCEPT ![Edition(w)] = Entry(worker[w].run, "started")]
                 ELSE record
    /\ UNCHANGED <<present, layer, request, jobs>>

\* The rebuild's transaction; on an edition that has gone it raises.
Write(w) ==
    /\ At(w, "recorded")
    /\ Edition(w) \in present
    /\ Advance(w, "written")
    /\ layer' = [layer EXCEPT ![Edition(w)] = worker[w].run]
    /\ UNCHANGED <<present, record, request, jobs>>

\* Anything raised inside the job's handler: no source, no extraction, the job
\* timeout, and after the transaction a failure to embed.
Raise(w) ==
    /\ At(w, "recorded") \/ At(w, "written")
    /\ Advance(w, "failing")
    /\ UNCHANGED <<graph, request, jobs>>

\* Variant: the record is matched by its edition alone.
OutcomeOfAnyRun(w, state) ==
    IF Edition(w) \in present
    THEN [record EXCEPT ![Edition(w)] = Entry(worker[w].run, state)]
    ELSE record
\* FINISH_BUILD, which matches only the record of its own run.
Outcome(w, state) ==
    IF record[Edition(w)] # None /\ record[Edition(w)].run = worker[w].run
    THEN [record EXCEPT ![Edition(w)].state = state]
    ELSE record

RecordFinish(w) ==
    /\ At(w, "written")
    /\ Advance(w, "ended")
    /\ record' = Outcome(w, "finished")
    /\ UNCHANGED <<present, layer, request, jobs>>

\* RQ's view of the run when its job is over, however that came about.
End(w, outcome) ==
    /\ status' = [status EXCEPT ![worker[w].run] = outcome]
    /\ beating' = beating \ {worker[w].run}
    /\ worker' = [worker EXCEPT ![w] = None]
    /\ UNCHANGED <<graph, request, queue, target>>

\* Variant: the job returns without recording that it finished.
CompleteUnrecorded(w) == At(w, "written") /\ End(w, "finished")
Complete(w) == At(w, "ended") /\ End(w, "finished")

RecordFailure(w) ==
    /\ At(w, "failing")
    /\ Advance(w, "failed")
    /\ record' = Outcome(w, "failed")
    /\ UNCHANGED <<present, layer, request, jobs>>

\* RQ sees the handler's exception, one raised outside the handler (while an
\* outcome is recorded, before the start is or after the end was), or a dead
\* work horse.
Fail(w) ==
    /\ worker[w] # None
    /\ worker[w].at # "taken"
    /\ End(w, "failed")

\* The container goes with what it was doing, and a new worker takes its place.
Kill(w) ==
    /\ worker[w] # None
    /\ worker' = [worker EXCEPT ![w] = None]
    /\ UNCHANGED <<graph, request, jobs>>

-----------------------------------------------------------------------------
(* RQ by itself, and the rest of the program *)

\* A heartbeat key expires: its worker is gone, or slow.
Lapse(r) ==
    /\ status[r] = "started"
    /\ r \in beating
    /\ beating' = beating \ {r}
    /\ UNCHANGED <<graph, request, queue, status, target, worker>>

\* A slow worker beats again.
Beat(r) ==
    /\ status[r] = "started"
    /\ Held(r)
    /\ r \notin beating
    /\ beating' = beating \cup {r}
    /\ UNCHANGED <<graph, request, queue, status, target, worker>>

\* RQ gives up a run nothing works on; hours later, when its timeout is over.
Sweep(r) ==
    /\ status[r] \in {"queued", "started"}
    /\ r \notin Queued
    /\ ~Held(r)
    /\ status' = [status EXCEPT ![r] = "failed"]
    /\ beating' = beating \ {r}
    /\ UNCHANGED <<graph, request, queue, target, worker>>

\* result_ttl runs out.
Forget(r) ==
    /\ status[r] = "finished"
    /\ status' = [status EXCEPT ![r] = "gone"]
    /\ UNCHANGED <<graph, request, queue, target, beating, worker>>

\* Variant: the chunks are replaced and the record is left standing.
IngestKeepsRecord(v) ==
    /\ present' = present \cup {v}
    /\ layer' = [layer EXCEPT ![v] = None]
    /\ UNCHANGED <<record, request, jobs, worker>>
\* An ingest that replaces the edition's chunks, or brings the edition.  Whether
\* one finds the chunks current, and does nothing, is DerivedLayer's matter.
Ingest(v) ==
    /\ present' = present \cup {v}
    /\ layer' = [layer EXCEPT ![v] = None]
    /\ record' = [record EXCEPT ![v] = None]
    /\ UNCHANGED <<request, jobs, worker>>

\* The edition goes, and its properties with it.
Delete(v) ==
    /\ v \in present
    /\ present' = present \ {v}
    /\ layer' = [layer EXCEPT ![v] = None]
    /\ record' = [record EXCEPT ![v] = None]
    /\ UNCHANGED <<request, jobs, worker>>

-----------------------------------------------------------------------------
Work(w) ==
    \/ Take(w)
    \/ Begin(w)
    \/ RecordStart(w)
    \/ Write(w)
    \/ Raise(w)
    \/ RecordFinish(w)
    \/ RecordFailure(w)
    \/ Complete(w)
    \/ Fail(w)

Next ==
    \/ \E q \in Request :
        \/ \E v \in Version : CheckEdition(q, v)
        \/ ReadQueue(q)
        \/ ReadRegistry(q)
        \/ Refuse(q)
        \/ Unavailable(q)
        \/ \E r \in Run : Enqueue(q, r)
    \/ \E w \in Worker : Work(w) \/ Kill(w)
    \/ \E r \in Run : Lapse(r) \/ Beat(r) \/ Sweep(r) \/ Forget(r)
    \/ \E v \in Version : Ingest(v) \/ Delete(v)

Spec == Init /\ [][Next]_vars

\* A worker goes on with its job: every call it makes is bounded by a timeout,
\* and compose restarts a worker that exits.  A heartbeat key that nothing
\* refreshes expires.  Nothing is asked of requests, of RQ's sweep or of people.
Fairness ==
    /\ \A w \in Worker : WF_vars(Work(w))
    /\ \A r \in Run : WF_vars(Lapse(r) /\ ~Held(r))

FairSpec == Spec /\ Fairness

-----------------------------------------------------------------------------
(* What GET /rebuilds/{run_id} answers *)

\* Variant: RQ's status as it stands.
ReportedByStatus(r) == status[r]
\* A started run whose worker's heartbeat is missing is reported as failed.
Reported(r) ==
    IF status[r] = "started" /\ r \notin beating THEN "failed" ELSE status[r]

-----------------------------------------------------------------------------
(* Properties *)

\* An edition whose record says a build finished holds what some build wrote,
\* whatever was ingested, deleted, killed or run beside it.
FinishedMeansBuilt ==
    \A v \in Version :
        /\ record[v] # None
        /\ record[v].state = "finished"
        => layer[v] # None

\* Runs of one edition overlap when two POSTs scan before either enqueues, or a
\* slow worker is taken for a dead one.  The record is then of the run that
\* started last: another run takes it over only by starting, an outcome is
\* recorded once, and only of the run whose start the record still shows.
OutcomesAreOfTheRecordedRun ==
    [][\A v \in Version :
           record'[v] \notin {None, record[v]} =>
               IF record'[v].state = "started"
               THEN record[v] = None \/ record[v].run # record'[v].run
               ELSE record[v] = Entry(record'[v].run, "started")]_vars

\* The record of a run RQ has seen finish is never left at "started": the page
\* that finds such a record asks RQ for the run, and RQ forgets finished runs.
FinishedRunsAreRecorded ==
    \A r \in Run :
        status[r] \in {"finished", "gone"} =>
            \A v \in Version : record[v] # Entry(r, "started")

\* The route's scan misses no run that stood in either list when it began and
\* is still under way: a run that moves between the lists is found in one.
ScanFindsVisibleRuns ==
    \A q \in Request :
        /\ request[q] # None
        /\ request[q].stage = "scanned"
        => \A r \in request[q].visible :
               status[r] \in {"queued", "started"} => r \in request[q].ids

Answered(r) == Reported(r) \in {"finished", "failed", "gone"}

\* Killed between being popped and being marked started.
Lost(r) == status[r] = "queued" /\ r \notin Queued /\ ~Held(r)

\* Whoever polls a run learns in the end that it finished or failed, although
\* workers are killed and RQ gives a run up only hours later; and is told so
\* from then on.
EveryRunIsAnswered ==
    \A r \in Run :
        (r \in Queued \/ status[r] = "started") ~> [](Answered(r) \/ Lost(r))

\* What a reader of the record is promised, while one worker does all the work.
Log == INSTANCE BuildLog
KeepsTheLog == Log!Spec
=============================================================================
