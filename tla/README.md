# policy_grapher in TLA+

policy_grapher reads policy documents into a Neo4j graph: editions
(`:DocumentVersion`), their chunks, the obligations a model reads out of the
chunks, links between obligations of different documents (`IMPLEMENTS`), and
the changes between two editions of one document. People settle two kinds of
question about it, *does this clause implement that one* (Review) and *is this
clause that one reworded* (Pairings), and their answers must outlive every
rewrite of what they were given about.

All paths below are relative to `src/backend/src/policy_grapher/`.

## Inventory

| part | code | state it keeps | operations | what is hard | correct when | module |
|---|---|---|---|---|---|---|
| Ingest | `ingest.py`, `versions.py`, `pipeline.py`, `chunks.py` | documents, citations, provenance, editions, chunks, the stamp of the pipeline that chunked each edition | ingest a manifest or a PDF (one transaction), skip when the stamp is current | a re-chunk under existing obligations; editions in any order; poorer parses of one document | no clause without a chunk; one chain of editions; nothing found is retracted | `DerivedLayer`, `Catalogue` |
| Documents and slugs | `documents.py`, `slugs.py`, `merges.py` | names, slugs, references, recorded merges, `:External` | create, delete, reference, merge, reset | slugs resolved before the transaction that uses them; merges replayed in a transaction of their own; a label that is a stored negation | one name one slug; citers follow a merge; the label is true | `Catalogue` |
| Chunking | `chunking.py` | the chunks of an edition | pure | nesting numbers, running headers, overlap, page attribution | no character lost, ids distinct, an edit moves one section | `Chunking` |
| Extraction and its cache | `extraction/` | `:ExtractionCache`, rejected chunks | extract, cached | keys that leave out what varies the answer; outages taken for readings | an answer belongs to its question; a failing server writes nothing | `Reading` |
| Embedding and search | `embedding/`, `retrieval/hybrid.py` | vectors, the index, whose model it holds | embed, resume, search | mixing two models; texts replaced while the model answers | one model per index and per search | `Embedding` |
| Rebuild of an edition | `links/rebuild.py`, `obligations.py` | `:Obligation`, `MANDATES`, `ANCHORED_IN` | stamp and chunk, extract outside any transaction, rewrite in one | an hour between read and write; extraction is not deterministic | human verdicts are the same before and after | `DerivedLayer` |
| Link verdicts | `links/decisions.py`, `routers/review.py` | `:LinkDecision`, `IMPLEMENTS` | decide, replay, repoint | check in one read, record in a later transaction; ids that move | links are exactly the approvals that can be shown | `DerivedLayer` |
| Pairing verdicts | `links/pairing.py`, `routers/pairings.py` | `:PairingDecision`, `:PairingLock` | settle, repoint | two reads, then a locked transaction; one-to-one across two roles | one verdict per pair, one partner per clause | `DerivedLayer` |
| Proposer | `links/propose.py` | `IMPLEMENTS_PROPOSED` | propose during a rebuild | proposals die with either end | no proposal inside a document | `DerivedLayer` |
| Diff | `changes/diff.py` | `:Change`, `PAIRING_CANDIDATE` | diff a pair of editions on a GET | a change outliving its clause; greedy pairing with a margin; verdicts in any order | every listed change traces to a clause; reviewers outrank rules | `DerivedLayer`, `DiffPlan` |
| Migration | `migrate.py` | converted and retired verdicts | one transaction at every boot | repetition beside rebuilds and reviewers; screens across boots | no judgement lost or replaced | `LegacyMigration` |
| Rebuild runs | `jobs/`, `builds.py`, `routers/rebuilds.py` | the RQ queue and registries, the build record on the edition | start, run, finish or fail, poll | check-then-enqueue; overlapping runs; a worker killed, a timeout; re-ingest under a run | the record describes the run that made what the edition holds | `RebuildRuns` |
| Triage, Ask, graph, query and export views | `routers/triage.py`, `retrieval/`, `graph.py`, `query.py`, `export.py` | none | reads | | | |
| PDF and manifest sources | `sources/` | none | parsing | text heuristics | | inputs of `Catalogue` |
| Startup, settings, auth, schema | `main.py`, `config.py`, `auth.py`, `db.py` | constraints | apply, auto-ingest | | keys are unique | guards everywhere |
| Frontend | `src/frontend/src` | screens | poll a run | back-off, unmount | | |

The parts meet in the graph. Ingest and rebuild rewrite the derived layer of an
edition in one transaction each; Review and Pairings read first and write in a
later transaction; a diff is written by a GET; the worker runs rebuilds in
another process from a Redis queue. Nothing but Neo4j's transactions and key
constraints keeps them apart, and all of them may be under way at once.

## Modules

| module | what it is |
|---|---|
| `DerivedLayer` | the derived layer, both kinds of verdict, and everything that rewrites or reads them |
| `ReviewLedger` | the abstract promise to a reviewer: verdicts on pairs, clauses that come and go, links that are exactly the approvals whose clauses are present |
| `LegacyMigration` | `DerivedLayer` with the boots that convert verdicts of an earlier release |
| `RebuildRuns` | the route that starts a rebuild, the queue, the worker and the build record |
| `BuildLog` | the abstract promise of the build record: it is of the run that made what the edition holds |
| `Catalogue` | documents, slugs, citations, editions, merges |
| `Chunking` | from pages to chunks |
| `Reading` | from chunks to statements: the model, the cache, the rules of validation |
| `Embedding` | vectors, their index, and the searches over it |
| `DiffPlan` | the planning run inside a diff |
| `MC...` | small instances of these |
| `...Proofs` | theorems about `DerivedLayer`, `LegacyMigration`, `RebuildRuns`, `Catalogue`, `Chunking`, `Reading`, `Embedding` and `DiffPlan` |

They meet in two transactions. A rebuild's is `WriteRebuild` in `DerivedLayer`,
which takes what `Reading` produces as a parameter; `Write` in `RebuildRuns`,
where a layer is no more than the run that wrote it; `Finish` in `Reading`; and
it is followed by the steps of `Embedding`. An ingest's is `WriteDocument` in
`Catalogue`, `Ingest` in `DerivedLayer`, `RebuildRuns` and `Embedding`, and
`Ingest` in `Chunking` for what its chunks are. `Diff` in `DerivedLayer` leaves
open which clauses pair off, and `DiffPlan` says which.

### DerivedLayer

An obligation *is* its id: edition, section path and normalized statement
(`extraction/schema.py:316`), so two readings of one sentence are one clause
and a clause whose section moves becomes another clause.

| variable | in the graph or the process |
|---|---|
| `pipeline` | what `pipeline_stamp()` would return now |
| `edition` | `v.pipeline_stamp`; `Absent` when there is no such `:DocumentVersion` |
| `earlier` | the order of `v.ingested_at` |
| `obligations` | `:Obligation` nodes |
| `mandated`, `anchored` | those with a `MANDATES` edge, an `ANCHORED_IN` edge |
| `proposals`, `implements` | `IMPLEMENTS_PROPOSED`, `IMPLEMENTS` |
| `linkDecisions`, `pairingDecisions` | the canonical nodes, one slot per node |
| `changeEdges` | the edges of each `:Change`, so that a change that lost one of its three is there to be seen |
| `deciding`, `settling` | requests that have read and not yet written |
| `rebuilding` | jobs that have taken their stamp and chunked their source |

| action | code |
|---|---|
| `Ingest(v)` | `ingest._write_document` when the edition is new or its stamp is another pipeline's; a current edition is left alone, which is no step |
| `DeleteDocument(d)` | `documents.DELETE_DOCUMENT`: the document, its editions and chunks; obligations keep their nodes, links and proposals |
| `StartRebuild`, `AbandonRebuild`, `WriteRebuild` | `rebuild_derived` up to its stamp, its ways of ending early, and `_write_rebuild` |
| `CheckProposal`, `RecordDecision` | the read and the transaction of `POST /review/{source}/{target}` |
| `ResolvePair`, `RecordPairing` | the reads and the transaction of `POST /pairings/{old}/{new}` |
| `Diff(v, w)` | `changes.diff.diff_versions`, which a GET of Triage or of the pairing queue runs |
| `Upgrade` | a release whose bytes-to-chunks path has another stamp |

`WriteRebuild` is one step because `_write_rebuild` is one transaction, and it
is the whole of it: drop changes, clauses and chunks, write the new clauses,
propose, repoint link verdicts, repoint pairing verdicts, replay. What was read
is any subset of the places the pipeline puts a sentence (`Passage`): a model
may miss any duty, and a sentence in the overlap of two chunks may be read in
either, both or neither. A driver returns the displaced verdicts of a repoint
in no stated order, so `Movable` is every outcome the in-batch screen can have.

What the data abstracts. Statements are tokens, and whether two of them score
above the proposer's threshold is the relation `Similar`. Which unmatched
clauses of a diff become `MODIFIED` is left open. A transaction is one step:
for the recording of pairing verdicts this rests on the edition pair's lock,
which is taken first; for the others it is the assumption that Neo4j's
transactions do not see each other's halves, of which the repository says too
little to model more. Clearing the whole graph is left out: it deletes the
verdicts too and starts the program over.

Two refusals in the code cannot fire here and are kept or left out for that
reason. `DocumentOf` is fixed, so a pairing never turns out to span two
documents between its resolve and its transaction; the refusal of a
same-document link verdict is in `RecordDecision` although only a legacy
instance could reach it.

### ReviewLedger

A ledger of verdicts, the clauses present, and the links in force. A reviewer's
answer fills or changes one entry; clauses come and go; an entry may move only
to a pair of the same wording, and never changes its answer by moving; two
entries never share a pair; the links are recomputed from the entries and the
clauses. `KeepsTheLedger` maps `present` to the obligation nodes,
`ledger` to the decision nodes and `linked` to the `IMPLEMENTS` edges, and
checks that every behaviour of `DerivedLayer` is one of these.

### LegacyMigration

One more variable, `retired`: the `:RetiredLinkDecision` nodes with their
reasons. `Boot` is `migrate_link_decisions` (`migrate.py:309`), one transaction:
the same-document verdicts it can read (`Readable`), the two screens
(`PairingExists`, `ConflictingPairing`), the conversions in a canonical
direction (`Converted`), the retirements, the deletion of same-document
proposals and links. It drops the requests the backend had in flight and keeps
the worker's, and it may come at any time and again. A verdict that is neither
approve nor reject, which the code retires as unknown, is left out: no decision
of the model carries one.

### RebuildRuns

| variable | in the graph, in Redis or in a process |
|---|---|
| `present` | which `:DocumentVersion` nodes exist |
| `layer` | the run whose `_write_rebuild` wrote the obligations an edition mandates |
| `record` | `v.build_run_id` and `v.build_state`, `None` when they are `NULL` |
| `request` | a POST between its checks and its enqueue: the ids it has read so far, and, for a property only, what the two lists held when it began |
| `queue`, `status`, `target` | RQ's list of queued ids, and each job's status and `version_id` |
| `beating` | started runs whose worker's heartbeat key exists |
| `worker` | the run each worker holds and how far it has got |

| action | code |
|---|---|
| `CheckEdition`, `ReadQueue`, `ReadRegistry`, `Refuse`, `Enqueue`, `Unavailable` | `POST .../rebuild` (`routers/rebuilds.py:109-166`): the 404 checks, the two reads of `_in_flight` in their order, the 409, the 202, the 503 |
| `Take`, `Begin` | RQ pops a job and marks it started; between the two the job is in neither list |
| `RecordStart`, `Write`, `RecordFinish`, `Complete` | `rebuild_edition` (`jobs/rebuild.py:123`): `record_build_started`, the rebuild's transaction, `record_build_finished`, the return |
| `Raise`, `RecordFailure`, `Fail` | anything `_run` raises, the job timeout included, and its handler; a failure outside the handler, while an outcome is recorded or in RQ's work horse |
| `Kill` | the container goes; nothing is recorded anywhere |
| `Lapse`, `Beat`, `Sweep`, `Forget` | the heartbeat key expires or returns; RQ gives up a run nothing works on; `result_ttl` runs out |
| `Ingest`, `Delete` | an ingest that replaces the edition's chunks (`clear_build`), and the deletion of its document |
| `Reported` | what `GET /rebuilds/{run_id}` answers |

RQ is no part of the repository. Its steps are modelled from what the route,
the job and their comments say of it, and are marked external. Whether an ingest
finds the chunks current is left open: it is `DerivedLayer` that knows stamps.
`FINISH_BUILD` matches on the run and not on the state, and so does `Outcome`.

A run may be enqueued beside another of its edition. The 409 is a courtesy, as
its design says (`docs/superpowers/specs/2026-08-21-derived-layer-rebuild-design.md:147`),
and nothing here asks more of it than `ScanFindsVisibleRuns`.

### Catalogue

A node is its slug; a slug is a base and either nothing or the name that
disambiguates it, so hash collisions between names are excluded.

| variable | in the graph or the process |
|---|---|
| `nameOf`, `references` | `:Document` nodes and `REFERENCES` |
| `described`, `external` | documents some `:Source` describes; the `:External` label |
| `parsed` | `references_section` and `reference_gaps` |
| `arrived`, `held`, `supersedes` | `:DocumentVersion` in order of `ingested_at`, `HAS_VERSION`, `SUPERSEDES` |
| `rulings` | `:DocumentMerge` |
| `pending` | a request between two of its transactions |

| action | code |
|---|---|
| `ResolveManifest`, `WriteManifest`, `Replay` | `ingest_manifest`: the reads of `reconcile_slugs`, the transaction, `apply_merges` in a transaction of its own |
| `ResolveDocument`, `WriteDocument` | `ingest_pdf`: `allocate_slugs`, and `_write_document` with its refusals |
| `CheckName`, `CreateDocument`, `DeleteDocument`, `Relate` | the routes of `documents.py` |
| `RecordMerge`, `RecordDifferent` | `record_merge`, `record_not_duplicates`, and the replay that follows a merge |
| `Abandon`, `Reset` | a request that goes no further; `POST /reset` |

The reads of one resolution are one step. A PDF ingest replays no merges
(`merges.py:125` is called after manifests only), and nor does the model. The
rows of a replay come in any order, and each clause of `APPLY_ONE` runs over all
of them before the next.

### Chunking

A document is written line by line, and each step ingests what is there, so
every document up to the bounds is one behaviour's state. A line is what the
patterns tell apart. `ReadDocument` goes through the pages (`ReadPage`) and
their lines (`ReadLine`) as the loops of `chunk_pages` do, closing a section
where `close` is called, and `AddChunks` cuts each section; `Through` is what
such a loop makes of its start, a recursive function rather than a `RECURSIVE`
operator, so that it can be reasoned about. `Push`, `Split`, `PageAt`,
`TitleOfPath` and `ChunkId` are the functions of those names; positions are
character positions, counted from the lines' sizes, with the newline between
pages (`Cursor`).

### Reading

| variable | in the graph or the process |
|---|---|
| `cache` | `:ExtractionCache`, with whose answer it was, for a property only |
| `extractor` | how a worker is configured |
| `run` | where `extract_obligations` stands in a worker: its chunk, its phase, its attempts, what it found and what it rejected |
| `layer` | what the last finished run wrote for an edition |

`Start`, `Skip`, `Replay`, `Miss`, `Retry`, `Fail`, `Unreadable`, `Answer`,
`Put`, `Read` and `Finish` are the branches of the loop over chunks and of
`CachedExtractor.extract`; `Kill` and `Redeploy` may come between any two. A
reply is any of the classes the adapters tell apart (`Reply`), and what a model
says is any set the constant `Answers` offers. The local adapter's replies are
part of azure's, except that a 429 is no reason to try again (`Retried`). A
reset, and chunks that change while they are read, are left out here.

### Embedding

`CountVectors`, `Identify`, `DropIndex`, `CreateIndex`, `RecordIndex`,
`ReadPending` and `WriteVectors` are the queries of `ensure_vector_index` and
`embed_chunks`, one step each; `CheckIdentity` and `QueryIndex` are the two of
`_vector_leg`. `Ingest`, `Delete` and `Reset` rewrite chunks beside them. A
vector carries the text it was made of, for a property only. `adrift` records
that a reset came between a run's first look at the index and its write.

### DiffPlan

The stages of `_plan_changes` in their order: `Apply` and `RuleOut` (verdicts,
in any order), `PairSections`, `ScorePairs`, `Consider` (scored pairs, best
first, equal scores in any order), `RecordDeclines`, `Leftovers`. Scores are
hundredths, and so is the margin, which in the code is a difference of floats.
That candidate edges die with either edition's clauses is left out.

## Properties

| property | what it says | would break if |
|---|---|---|
| `ImplementsRestsOnApproval` | no link without an approval of that very pair | a replay did not suppress, a repoint moved a verdict off a surviving pair |
| `ApprovalsAreLinked` | no approval of two existing clauses without its link | a replay needed to see both documents, a record without a replay |
| `OneVerdictPerPair` | keys unique in both vocabularies | a repoint did not screen keys already taken |
| `MandatedIsAnchored` | every clause can be cited | a re-chunk kept the clauses |
| `VerdictsFollowTheirClause` | a verdict moves only between clauses that alone bear one wording | ambiguous wordings were mapped |
| `RekeyKeepsVerdicts` | a judged clause that alone bore its wording, moved by a rebuild that read that wording once, leaves no verdict behind | verdicts were looked up by one of their ends |
| `SettlingKeepsOnePairing` | requests alone never make a second live pairing | the conflict check looked in one role |
| `ChangesTraceable` | a listed change affects a mandated clause | a rewrite dropped changes of one side only |
| `KeepsTheLedger` | all of it implements `ReviewLedger` | a verdict landed without its promotion |
| `FinishedMeansBuilt` | an edition recorded as built holds a build's output | an ingest left the record standing |
| `OutcomesAreOfTheRecordedRun` | of overlapping runs, the record is the one's that started last; its outcome is recorded once, and no other run's | the guard of `FINISH_BUILD` were its edition alone |
| `FinishedRunsAreRecorded` | no finished run's record is left at started | the job returned before recording |
| `ScanFindsVisibleRuns` | the scan misses no run that was visible when it began and still is under way | it read the started registry first |
| `EveryRunIsAnswered` | whoever polls a run is told, and from then on, that it finished or failed | the poll trusted RQ's status |
| `KeepsTheLog` | with one worker, `RebuildRuns` implements `BuildLog` | an outcome landed on another run's record |
| `VerdictsSurvive` | what a boot takes from the links it puts in the pairings, retires with a reason, or finds settled; nothing else moves | a screen read too little |
| `ExternalIsUndescribed` | the label is exactly "no source describes this" | a statement refreshed only what it created |
| `FreshSlugsAreGood` | resolved slugs keep stored names and take nothing in use | contenders inside a batch were not seen |
| `NobodyCitesItself` | no document cites itself | a merge repointed its survivor's own citation |
| `SupersessionIsAChain` | editions form one chain, newest first, in whatever order they come | an edition were linked to the last instead of relinking all |
| `ReferenceStatusAccumulates` | a found section stays found, a gap stays a gap | the newest parse spoke for the document |
| `CitersFollowTheMerge` | a replayed merge moves citations to survivors, both ways | what the loser cites went with it |
| `ChunkIdsAreUnique`, `PathsNest`, `EveryCharacterIsKept`, `PagesAreWhereTextStarts`, `ProseTouchesOneSection` | what a citation rests on: ids, paths, text, pages, and stability under an edit | occurrences were not counted, numbers nested by depth, the tail were dropped, a join counted as the page before, ordinals were global |
| `ReadingsAreOwn` | what a run keeps of a chunk is valid for that chunk, and a hit is an answer of this extractor to this text and path | a hit were not validated again |
| `WrittenRunsAreWhole` | what is written had no failure of the server in it | a failure cost the chunk and not the run |
| `RerunsAskOnlyOfLosses` | a second run asks only of chunks the first one lost | an empty answer were not a hit |
| `VectorsAreComparable`, `SearchesStayInOneGeometry` | one model in the corpus, one in a search | models were told apart by name alone, or not asked for |
| `EveryClauseOnce` | each unmatched clause ends in one change | clauses were consumed after the rule and not by it |
| `VerdictsOutrankRules` | no rule undoes a verdict, and none settled is asked again | the section rule overlooked `distinct` |
| `WordingIsOrderFree` | the wording pass has one outcome, however ties are walked | a decided pair could still win |
| `EveryQuestionIsAsked` | a clause that resembles another it could be is offered | a ruled-out best shadowed the next |

## Runs

| run | bounds | shows |
|---|---|---|
| `MCLinks` | two documents of one edition each, two sections, two statements, two pipelines, two decision nodes, two requests in flight; the second pipeline moves a duty to another section, into two chunks that overlap there, and also repeats it where it was | link verdicts survive rebuilds, upgrades, deletions and stale requests; refinement of `ReviewLedger` |
| `MCPairings` | two dated editions of one document, the later wording a clause anew in two sections, three decision nodes of either kind, boots, two requests in flight | pairing verdicts under concurrent requests, rebuilds and boots |
| `MCChanges` | two dated editions of one document, two pipelines, two pairing nodes, one request in flight | changes stay traceable through diffs, rebuilds, ingests and deletions |
| `MCRuns` | one edition, two runs, two workers, two requests | the record and the scan under everything that may interleave |
| `MCOneWorker` | two editions, two runs, one worker, one request | refinement of `BuildLog`, and that every run is answered |
| `MCCatalogue` | three names, two of one base; a manifest, three PDFs of one name; one merge and one pair of links; two editions; two requests in flight | slugs, labels, citations, chains |
| `MCChunking` | four lines of eleven kinds, three pages, `max_chars` 6, overlap 3 | every document that small, and every edit of one |
| `MCReading` | two editions that share a passage under two titles; a null and two azure configurations; two attempts; one worker | what is kept, written and asked again |
| `MCEmbedding` | two editions of one chunk, three texts, three embedders, one worker, one reader, three writes of vectors | one geometry |
| `MCDiffPlan` | two clauses an edition over two sections, scores of nothing, under the bar (75), near a rival by less than the margin (5) and clear of it, two verdicts | every plan |
| `MCOrphan`, `MCStale` | as `MCCatalogue` and `MCEmbedding` | two disagreements of the code with its own comments |

Two decision nodes are the least with which a repoint can collide, and two
requests in flight the least with which two can both have read before either
wrote. One edition per document is enough for link verdicts because a verdict
names two clauses and no rule for links looks at a third edition; three
readings of one edition give every case of a wording read once, twice in two
sections, or not at all. Decision nodes are interchangeable and the runs take
them up to symmetry. Two runs, two workers and two requests are the least with
which runs of one edition overlap, one request enqueues while another scans, and
an outcome meets the record of another run; run ids are drawn once, so a run's
history is bounded and no counter is cut off. `MCRuns` takes its sets up to
symmetry; `MCOneWorker`, which checks liveness, does not.

Three names are the least with which one contends with another for a base while
a third cites either; two editions the least a chain has; one of the PDFs is a
poorer parse than the other, and a third reissues an edition under its date. Four lines let a section open again, nest, cross a
page and be cut in two; a cap of six with an overlap of three makes both
branches of the cut and of the step back happen. Two attempts tell a last one
from one before it. Three writes of vectors suffice for a model, another, and
the first again.

`CHECK_DEADLOCK FALSE` stands in `MCChunking` (a full document is
finished) and in `MCDiffPlan` (a plan ends). Nothing else terminates, and the
deadlock check is on.

Fairness is assumed in `MCOneWorker` only. `WF(Work(w))`: a worker goes on with
its job, because every call a job makes is bounded by a timeout
(`config.py:123-136`) and compose restarts a worker that exits. `WF(Lapse(r))`
for a run no worker holds: a heartbeat key that nothing refreshes expires.
Nothing is asked of requests, of people, of a live worker's heartbeat or of
RQ's sweep, which comes only when the job timeout of eight hours is over. Kills
are unbounded: a worker may be killed at every run. A run that is killed
between being popped and being marked started is excepted (`Lost`): it stays
queued for whoever polls it, until RQ's own sweep, of which the code asks
nothing.

## What the code does otherwise

Two disagreements have a run.

* **An edition without its document** (`MCOrphan`). A ruling is checked once,
  when it is recorded: "Only documents with nothing hanging off them may be
  merged" (`merges.py:8`). It is replayed after every manifest without being
  checked again, and `APPLY_ONE` ends in `DETACH DELETE loser` (`merges.py:67`).
  A document that is merged away, ingested again from a PDF and met by the next
  replay leaves its edition, with chunks and obligations, joined to nothing.
* **A vector of former words** (`MCStale`). `embed_chunks` reads texts, asks
  the model, and writes by chunk id (`embedding/__init__.py:65`); an id names a
  place, not a text (`chunks.py:78`). An ingest between the two leaves a chunk
  with the vector of what it said before, and nothing embeds it again.

Others were met while modelling and have no run of their own:

* *A reading counted twice strands a verdict.* A re-keyed clause's decision is
  found again by its statement, "Only where the statement names exactly one
  obligation" (`links/rebuild.py:158`, and `links/decisions.py:301` to the same
  effect). `seen` counts readings, not obligations. Where a rebuild reads a duty
  out of two overlapping chunks of the section it moved to, the statement names
  one obligation before and one after, and the verdict stays on the key of the
  clause that is gone; the link is lost. Overlap makes such readings ordinary,
  "measured at 5 of 88 obligations" (`obligations.py:109`). `MCLinks` goes
  through them; stated without its condition that the wording was read once,
  `RekeyKeepsVerdicts` fails there after ten steps. With the condition it says
  what the count of readings may not do: lose a verdict for any other reason.
* *Two live pairings of one clause.* A verdict whose clause the last rebuild did
  not read conflicts with nothing, in the route (`changes/diff.py:414`) and in
  the migration; when a later rebuild reads the clause again, it is live beside
  the verdict recorded meanwhile. `SettlingKeepsOnePairing` is therefore of
  steps that leave the clauses alone.
* *Two verdicts on one pair.* Undated editions are ordered by ingestion, and
  deleting and re-ingesting them turns the pair round
  (`routers/pairings.py:546`); a boot's screen does not see a reversed record
  either. `OneVerdictPerPair` is of the ordered pair, and `OneLivePairing`
  excepts exact reversals. Of two such records `read_pairings` applies one and
  counts the other as unapplied, and where their clauses did not change, both.
* *A same-document link.* An approval of an earlier release is promoted while
  its clauses are orphans no document holds, and the edge survives their return
  until the next boot removes it (`links/decisions.py:101`).
* *A built edition that reads as never built.* An ingest that clears the record
  of a run under way leaves that run to write its obligations and finish without
  a record; `builds.py:46` calls that state "never built".
* *Creep.* A part that ends within the overlap of the last one is found again
  from every later start, and the rest is cut into parts one character apart
  (`chunking.py:237`, against the comment at 214-217).
* *A borrowed title.* Titles are kept per heading (`chunking.py:305`), so the
  untitled second `1.` of a document carries the first one's title, against the
  docstring of `_title_for` (`chunking.py:323-332`).
* *A reset under a run.* A reset between a run's first look at the index and its
  write leaves vectors that neither index nor record describes (`adrift`),
  against `embedding/schema.py:10`.
* *Rejected chunks are asked again* by every run, since a rejection is not
  cached, where `jobs/rebuild.py:99` promises a re-run at the price of the
  losses; `RerunsAskOnlyOfLosses` is what holds. An answer all of whose
  statements fail validation is a hit for ever.
* *A duty the title assigns.* An answer cached under one title may lack what
  only another title lets a model assign, since the key leaves the title out
  (`extraction/cache.py:130`). What is wrongly there is dropped by the
  validation; what is missing stays missing.
* *Two ingests may rename a document.* Two PDFs whose new names contend for one
  free base, resolved before either wrote, both take it, and the later one sets
  the earlier one's name (`documents.py:186`). `FreshSlugsAreGood` is of what a
  resolution sees.
* *Chained merges may lose citations*, as `APPLY_ONE` deletes losers that are
  survivors of another row; `CitersFollowTheMerge` excepts them. A survivor
  inherits no provenance.

With two workers, which the compose file does not start, the record may be of
another run than the one whose output the edition holds: the run that started
last need not write last. `KeepsTheLog` is therefore checked with one. A live
worker whose heartbeat is late is reported as "no longer alive" until it beats
again, and a poller who starts another run then has two of the edition, which
`MCRuns` includes.

Seen while reading: `PENDING` counts proposals of orphaned
clauses that `QUEUE` does not list (`routers/review.py:77`); the refusal
message of `decide` says a verdict is recorded against a proposal, and the
proposal may be gone by the time it is (`routers/review.py:201`); `UNPROMOTABLE`
asks whether clauses exist where the pairing count asks whether an edition
mandates them (`links/decisions.py:133`, `links/pairing.py:129`); the docstring
of `record_decision` says `PROMOTE` has no document predicate, and it has one
(`links/decisions.py:404`); an ingest of another pipeline's chunks drops the
clauses before any repoint can see them, so the verdicts of an edition that is
re-ingested and then rebuilt are not carried.

## What is proved

Every theorem is of all values of the constants, under the assumptions the
module of its component names; those say that constants have their types and
that a sentinel is none of the values it stands beside. Some need more, and say
so: `OneWorker`, the one worker of the compose file; `NoLegacy`, that no verdict
of an earlier release was left behind; and `DatesDiffer`, that no two editions
of a document bear one date.

| module | theorem | property |
|---|---|---|
| `DerivedLayerProofs` | `TypeCorrect`, `OneVerdict`, `Approved`, `ApprovalsLinked`, `Anchored` | `TypeOK`, `OneVerdictPerPair`, `ImplementsRestsOnApproval`, `ApprovalsAreLinked`, `MandatedIsAnchored` |
| | `Traceable`, `VerdictsFollow`, `OnePairing` | `ChangesTraceable`, `VerdictsFollowTheirClause`, `SettlingKeepsOnePairing` |
| | `ImplementsTheLedger`, `RekeyedStayJudged` | `KeepsTheLedger`, `RekeyKeepsVerdicts`, given `NoLegacy` |
| `LegacyMigrationProofs` | `MigratedOneVerdict`, `MigratedLinks`, `JudgementsSurvive` | `OneVerdictPerPair`, `ImplementsRestsOnApproval` and `ApprovalsAreLinked`, `VerdictsSurvive` |
| | `MigratedOnePairing` | `SettlingKeepsOnePairing` with boots, given `DatesDiffer` |
| `RebuildRunsProofs` | `TypeCorrect`, `ScanIsComplete`, `FinishedIsBuilt`, `FinishedIsRecorded`, `OutcomesAreOwn` | `TypeOK`, `ScanFindsVisibleRuns`, `FinishedMeansBuilt`, `FinishedRunsAreRecorded`, `OutcomesAreOfTheRecordedRun` |
| | `ImplementsTheLog` | `KeepsTheLog`, given `OneWorker` |
| `CatalogueProofs` | `ExternalLabels`, `FreshSlugs`, `StatusAccumulates` | `ExternalIsUndescribed`, `FreshSlugsAreGood`, `ReferenceStatusAccumulates` |
| | `NoSelfCitation`, `CitationsSurvive` | `NobodyCitesItself`, `CitersFollowTheMerge` |
| | `OneChain`, `CatalogueTypes` | `SupersessionIsAChain`, `TypeOK` |
| `ChunkingProofs` | `UniqueIds`, `NestingPaths`, `NothingDropped`, `TruePages` | `ChunkIdsAreUnique`, `PathsNest`, `EveryCharacterIsKept`, `PagesAreWhereTextStarts` |
| | `OneSectionMoves` | `ProseTouchesOneSection` |
| `ReadingProofs` | `OwnReadings`, `WholeRuns`, `OnlyLosses` | `ReadingsAreOwn`, `WrittenRunsAreWhole`, `RerunsAskOnlyOfLosses` |
| `EmbeddingProofs` | `Comparable`, `OneGeometry` | `VectorsAreComparable`, `SearchesStayInOneGeometry`, given `OneWorker` |
| `DiffPlanProofs` | `OnceEach`, `OrderFree`, `NoQuestionKept`, `ReviewersOutrank` | `EveryClauseOnce`, `WordingIsOrderFree`, `EveryQuestionIsAsked`, `VerdictsOutrankRules` |

**DerivedLayer.** `TypeOK` is inductive once `CarriedType` shows that a clause is
carried to a clause; the one step that needs work is `WriteRebuild`. For
`OneVerdictPerPair`, `RepointKeepsKeys` splits two verdicts with one key into
both moved (the in-batch screen), one moved (the screen of keys already in use)
and neither (the hypothesis), and `MergeKeepsKeys` does the recording.
`ImplementsRestsOnApproval` is inductive only with `TypeOK` and
`OneVerdictPerPair`, and for two reasons: a replayed suppression may remove a
link only if no approval shares its key, and a repoint may move an approval only
if its link went with the old clause. The latter is `RepointLeavesSurvivors`: an
edge that survives dropping the edition's clauses touches none of them, and
`Carried` fixes every other clause (`CarriedFixes`), so its approval does not
move. `ApprovalsAreLinked` then follows for every step that replays from
`ReplayLinksAllApproved`, and for the steps that do not from what they drop.

`ChangesTraceable` is not inductive, as it asks nothing of how a change came to
affect the clause: `Traced` adds that a change with both its edges still has its
third, to a clause of one of the two editions, which is what a rewrite of either
side drops it by. `SettlingKeepsOnePairing` needs no invariant beyond types and
keys: a recording is screened against the state it is made in
(`UncontestedIsApart`), and no other step that leaves the clauses alone moves a
verdict (`SameClausesMoveNothing`).

The refinement needs two facts no other theorem has. `AcrossDocuments`: what is
proposed, judged or recorded joins two documents, which proposals do by
construction, verdicts because they come from proposals, and repoints because a
clause is carried within its edition. `LinkedArePresent`: a link goes with
either of its clauses. With them the links are exactly the ledger's
(`LinksAreInForce`). A recording is then `Judge`, and every other step is
`Rewrite`, in which each verdict stands or follows its wording
(`RepointedKeepsWording`). Verdicts of an earlier release could join two clauses
of one document and are excluded, hence `NoLegacy`.

`RekeyKeepsVerdicts` is about one step, but rests on what is judged joining two
editions (`AcrossDocuments`, and `TwoEditions` for what is settled): the far end
of the verdict is then outside the edition being rebuilt, so the verdict's new
key is the re-keyed clause and that far end (`RekeyedIsCarried`). It moves there,
unless a verdict is there already or another lands there, and in each case the
key is judged (`NewKeyIsJudged`). That the wording was read once (`ReadOnce`) is
the property's own condition and the code's; the passages are arbitrary,
overlaps included.

**LegacyMigration.** The invariants of `DerivedLayer` carry over, with `Boot` as one
more step. For `VerdictsSurvive`, `Ordered` says that a mandated clause is of a
live edition and live editions are ordered, so a converted pair has one
canonical direction (`ConversionIsTurned`); what remains is that the screens
leave no two conversions on one key and none on a key that is held.

`SettlingKeepsOnePairing` is harder with boots, because a boot's screen compares
verdicts of one direction only (`Contend`), where a request's looks at a clause in
either role. `PairingsForward` closes the gap: what is settled or recorded goes from
an older date to a newer one, so a clause that is the newer in one verdict and the
older in another has its partners in two editions (`UncontendedIsApart`). That holds
through repoints, which stay within an edition, and through boots, by
`ConversionIsTurned`. It needs `DatesDiffer`: where two editions are undated,
ingesting one of them again turns the direction, and the screen would not see a
verdict recorded the other way round.

**RebuildRuns.** The invariant has two halves. `Places` says where a run can be: types,
that no run is held by two workers or held and queued (`EachRunIsWorkedOnce`),
statuses that agree with the queue and the workers, and targets that are set
once a run is enqueued. From it `StatusForward` follows: a status never goes
back, and the moves a scan can race with are out of the queue and into the
registry, in the order the scan reads them. `ScanSoFar` then says what a scan
has not listed of the runs that were visible: after its first read they have
begun, after its second they are over.

`Records` is what an edition's record can be. `FinishedMeansBuilt` alone is not
inductive: a finish must find a layer there, so `WrittenIsHeld` says that as
long as the record is still of a run that has written, the layer is not empty;
this needs `EachRunIsWorkedOnce`, or a second worker of the same run could open
a fresh record. `FinishedRunsAreRecorded` needs `EndedIsRecorded`, its
counterpart between the outcome and RQ's view of it, and that needs
`RecordsAreOfRuns`: a record names only a run of its own edition, so no other
edition's record is left at started when a run ends.

`OutcomesAreOfTheRecordedRun` is about a step, and rests on `RecordsKeepPace`:
no record is of a run that has not recorded its start, and until a run has
recorded its outcome, a record of it says started. So a start never finds its
own run's record, and an outcome finds it at started or not at all.

`KeepsTheLog` needs that the record is not touched by others between a run's start and its
outcome. With one worker no other run starts; an ingest or a delete may forget
the record. So from start to outcome it is the run's own or `None`
(`StartedIsRecorded`), the layer is the run's own once it has written and still
has its record (`WrittenIsOwn`), and an absent edition has none
(`AbsentIsUnrecorded`), or a start that matched nothing would leave another's
record standing. With these, each of the worker's four recording steps is the
log's step of that name or leaves the log alone.

**Catalogue.** `Labels` is three facts together: names have a slug each and a suffixed
slug only ever holds the name it is made of (`NamesOK`, `OwnSuffix`), which is
why a suffixed slug is free for a name that is not stored; a request in flight
carries, for each name, a slug that fits it (`PendingOK`), which is all that can
be said of slugs resolved before the transaction that uses them; and the label
is right for all documents. From the second it follows that the documents a
write refreshes include all it creates or describes.

A replay is two loops over its rows, in any order. `CitersStepwise` and
`CitationsStepwise` turn each into the values it passes, and what holds of every
value is shown row by row. `NobodyCitesItself` is then `Cites` (citations join
two different stored documents, and rulings are finitely many), kept by both loops because a row moves no end onto the other and
because a survivor is stored. For `CitersFollowTheMerge` the first loop hands
each citer of a loser to a survivor and leaves what is of neither
(`Survivors`, `Losers`); the second does the same from the other end, and the
deletion afterwards takes only edges of losers. That no survivor is a loser is
what the property excepts and where the argument needs it.

`SupersessionIsAChain` is a fact about orders first: the covers of a strict
total order of a finite set form one chain (`Covers`). An edition's place is by date and then by
arrival, which is such an order as long as each edition arrived once
(`NoRepeats`). `EditionsOK` says that and that `supersedes` is exactly that
order's chain for each document; an ingest relinks one document's, and a
deletion takes editions out of `arrived` without changing the order of the rest
(`Without`, gone through element by element). Orphaned editions of a document
merged away keep their chain, and an edition of theirs that is ingested again
finds it.

**Chunking.** What is stored is described before any property is
(`ChunksAreSound`): it is the chunks of some sections with text and a proper
path, every part of a section has its chunk, every chunk its part, and ids
differ (`ChunksOf`). The document's loops are gone through line by line
(`PageStepwise`, `DocumentStepwise`) in the set `Sound` of readings: sections
closed so far have text, proper paths, and numbers below the count of their
path; the open path is proper, and an open section has the text of its heading
or is the preamble. From it:

* `ChunkIdsAreUnique`: a section takes its path's count for its number, and the
  count then rises (`AnotherSection`); within a section the ordinals differ.
* `PathsNest`, which speaks of neighbours, is not inductive, since a heading may
  keep some elements of a path and leave out others. `Nested` is the
  strengthening: of any two elements the later extends the earlier, which
  leaving some out does not disturb (`AncestorsNest`).
* `EveryCharacterIsKept`: a part is not empty, ends within the cap, and the next
  one starts inside it or where it ends (`EndsOfParts`, for any overlap, as it is
  clamped). `Split` recurses on a later start, so its values exist from the last
  start back to the first (`PartsExist`), and each covers the rest of the text
  (`SplitCovers`).
* `PagesAreWhereTextStarts`: lines begin one newline after another
  (`CursorGrows`), so the line an offset stands in is the last that begins at or
  before it, or the next when the offset is its newline (`PageOfOffset`).
* `ProseTouchesOneSection` compares two readings, of the document and of the one
  with a line more. Until the line they are equal; from then on they stand
  `Beside` each other: the section with the line is still open in both, or it is
  closed and all the other sections are the same, with the same counts for every
  path (`AllButOne`). A blank preamble that the line gives text is the one
  section that appears, and its path opens once (`PushLeavesPreamble`). Prose
  opens nothing, so it makes no running header of a line that does
  (`RevisedHeaders`).

**Reading.** `Inv` has a part for each place an answer passes through. `Sound`: what
a run has found is valid at its chunk, and what it has lost it lost once, at a
chunk it offered and has passed, and to no failure of the server. `Kept`: an
entry of the cache was said by the extractor and of the words its key names.
`Whole`: the same of a written layer's losses, which are not all it offered.
`Settling` adds that a run has settled every chunk it passed, and a written run
every chunk it offered, where settled is lost, or answered under a key that the
same extractor will look up; the cache only grows, so it stays settled.

**Embedding.** `OfOneGeometry` is the property; `Relies` says what a worker may rely
on at each of its steps (it drops an index only when there is no vector, and
asks for texts only when index and record are its own), and `Asked` what a
search has seen on record before it queries. One worker is needed, as two would
drop and create the index under each other.

**DiffPlan.** `Accounted` says at every stage that what is consumed and what is left
make up the unmatched clauses, and that what is left and nevertheless in a
change is marked as paired; `Staged` what is not yet there at each stage.
`Looped` describes the loop half-way without naming an order: the pairs it has
come to are labelled by whether they are clear of every rival by the margin
(`Clear`), share a clause with one that is (`Beaten`), or neither. A clear pair
scores above its rivals (`ClearIsHigher`), so it is reached before them, and the
order of equal scores drops out. `Asked` says that an unpaired clause with a
pair under the bar is named by a candidate once the declines are recorded; it
needs finite sets, to speak of a best one. `Recorded`, `Ruled` and `Heeded` say
what verdicts have done so far, in any order, when none clash, and that no rule
has paired or offered what they keep apart.

Model-checked and not proved: `EveryRunIsAnswered`, which is liveness under
fairness and out of the prover's reach.
The properties of the two violated runs have counterexamples, and nothing is to
be proved of them.

The library's induction rules take an operator as a parameter, which the
installed provers cannot instantiate. Where a proof goes through a loop, it
uses well-foundedness of `<` on `Nat` for a set instead: `KeptThroughout` says
that a set of positions that has the first and with each the next has them all.
`TrailExists` builds from it the values a loop passes, and
`TrailIsTheOnlyOne` shows that the recursive function of the model has those
values. `CatalogueProofs` and `ChunkingProofs` each state these lemmas, as no
module is shared between them.

## Not modelled

* Triage's ranking, the pairing queue and the settled list, graph, query and
  export views, full-text and graph search, the templates of Ask: reads of what
  the modules above write, without state of their own. A search's legs are
  separate reads, and a chunk one leg found may be replaced before the last
  query fetches it; nothing is stored of it.
* Layout heuristics of the PDF and manifest parsers: what a parse yields is an
  input of `Catalogue`; the heuristics themselves are code over characters.
* The prompt and the bodies of requests to model servers.
* Neo4j's isolation below the transaction. The lock of an edition pair
  (`links/pairing.py:166`) makes the recording of a pairing one step; a model of
  read-committed reads would rest on what no code here pins down.
* Settings, credentials and wiring, the frontend, demo data and scripts.

## Plan

All components that keep state are modelled, and every safety property a run
checks is proved. What the theorems assume beyond types could be weakened:
`DatesDiffer` to editions that are not ingested again, `OneWorker` in
`EmbeddingProofs` to an order of the steps that write vectors.
