---------------------------- MODULE DerivedLayer ----------------------------
(***************************************************************************)
(* The graph's derived layer and the human verdicts that rest on it.       *)
(*                                                                         *)
(* An edition (:DocumentVersion) is chunked by a pipeline and its chunks   *)
(* are read for obligations.  Obligations, the proposals and links between *)
(* them, and the changes between two editions are all derived: ingest and  *)
(* rebuild throw them away and write them again.  :LinkDecision and        *)
(* :PairingDecision are canonical: they name obligations by content-derived*)
(* ids and must survive every such rewrite.                                *)
(*                                                                         *)
(* One action is one transaction of the code, or one read the code makes   *)
(* before opening one.  A request that reads first and writes later is     *)
(* carried between the two in `deciding`, `settling` or `rebuilding`.      *)
(*                                                                         *)
(* A definition marked "Variant" is a plausible mistake in the definition  *)
(* after it.  Nothing uses it: put in that definition's place, it makes    *)
(* TLC find one of the properties violated.                                *)
(***************************************************************************)
EXTENDS Integers, FiniteSets

CONSTANTS
    Version,        \* editions an operator may ingest
    Document,       \* instruments
    DocumentOf,     \* the instrument an edition belongs to
    EffectiveDate,  \* an edition's date; equal for undated editions
    Section,        \* section paths
    Statement,      \* normalized sentences that state a duty
    Similar,        \* pairs of statements scoring at least MIN_CONFIDENCE
    Pipeline,       \* bytes-to-chunks pipelines, named by their stamps
    Passage,        \* Passage[p][v]: where pipeline p puts each sentence of v
    LinkId,         \* nodes available to :LinkDecision (bound)
    PairingId,      \* nodes available to :PairingDecision (bound)
    LegacyLinks,    \* the :LinkDecision nodes an earlier release left behind
    Candidates,     \* the editions an operator may name when rebuilding one (bound)
    DiffPairs,      \* edition pairs Triage is asked about (bound)
    MaxInFlight,    \* requests between their read and their write (bound)
    NoDecision,     \* an unused decision node
    Absent          \* the stamp of an edition the graph does not hold

Obligation == [version: Version, section: Section, statement: Statement]

Verdict == {"approve", "reject"}
PairingVerdict == {"paired", "distinct"}

LinkDecision == [source: Obligation, target: Obligation, verdict: Verdict]

\* source is the older clause and target the newer one.
PairingDecision ==
    [source: Obligation, target: Obligation, verdict: PairingVerdict]

Pair == [source: Obligation, target: Obligation]

\* One sentence in one chunk: sections overlap their own pieces, so a sentence
\* may stand in two consecutive chunks of one section.
Occurrence == [chunk: Nat, section: Section, statement: Statement]

Change == [from: Version, to: Version, affects: Obligation,
           kind: {"ADDED", "REMOVED", "MODIFIED"}]

Keyed(decision, s, t) ==
    /\ decision # NoDecision
    /\ decision.source = s
    /\ decision.target = t

\* What the uniqueness constraint on a decision label's key enforces.
KeysUnique(decisions) ==
    \A i, j \in DOMAIN decisions :
        /\ decisions[i] # NoDecision
        /\ Keyed(decisions[j], decisions[i].source, decisions[i].target)
        => i = j

ASSUME EditionsAssumption ==
    /\ DocumentOf \in [Version -> Document]
    /\ EffectiveDate \in [Version -> Nat]
    /\ Candidates \in [Version -> SUBSET Version]
    /\ DiffPairs \subseteq Version \X Version

ASSUME SimilarAssumption ==
    /\ Similar \subseteq Statement \X Statement
    /\ \A s, t \in Statement : <<s, t>> \in Similar => <<t, s>> \in Similar

ASSUME PipelineAssumption ==
    /\ Absent \notin Pipeline
    /\ Pipeline # {}
    /\ Passage \in [Pipeline -> [Version -> SUBSET Occurrence]]

ASSUME LegacyAssumption ==
    /\ NoDecision \notin LinkDecision
    /\ NoDecision \notin PairingDecision
    /\ LegacyLinks \in [LinkId -> LinkDecision \cup {NoDecision}]
    /\ KeysUnique(LegacyLinks)

ASSUME BoundAssumption == MaxInFlight \in Nat

VARIABLES
    pipeline,          \* the pipeline the installed release runs
    edition,           \* the stamp on each edition's chunks, or Absent
    earlier,           \* <<v, w>>: live editions, v ingested before w
    obligations,       \* :Obligation nodes
    mandated,          \* those some live edition MANDATES
    anchored,          \* those some chunk anchors
    proposals,         \* IMPLEMENTS_PROPOSED
    implements,        \* IMPLEMENTS
    linkDecisions,     \* :LinkDecision
    pairingDecisions,  \* :PairingDecision
    changeEdges,       \* the edges of each :Change, <<change, edge type>>
    deciding,          \* POST /review between its check and its transaction
    settling,          \* POST /pairings between its resolve and its transaction
    rebuilding         \* rebuild jobs between their stamp and their transaction

catalogue == <<pipeline, edition, earlier>>
clauses == <<obligations, mandated, anchored>>
decisionNodes == <<linkDecisions, pairingDecisions>>
requests == <<deciding, settling, rebuilding>>
vars == <<pipeline, edition, earlier, obligations, mandated, anchored,
          proposals, implements, linkDecisions, pairingDecisions, changeEdges,
          deciding, settling, rebuilding>>

TypeOK ==
    /\ pipeline \in Pipeline
    /\ edition \in [Version -> Pipeline \cup {Absent}]
    /\ earlier \subseteq Version \X Version
    /\ obligations \subseteq Obligation
    /\ mandated \subseteq obligations
    /\ anchored \subseteq obligations
    /\ proposals \subseteq Pair
    /\ implements \subseteq Pair
    /\ linkDecisions \in [LinkId -> LinkDecision \cup {NoDecision}]
    /\ pairingDecisions \in [PairingId -> PairingDecision \cup {NoDecision}]
    /\ changeEdges \subseteq Change \X {"FROM_VERSION", "TO_VERSION", "AFFECTS"}
    /\ deciding \subseteq LinkDecision
    /\ settling \subseteq PairingDecision
    /\ rebuilding \subseteq [version: Version, pipeline: Pipeline]

Live(v) == edition[v] # Absent
MandatedBy(v) == {o \in mandated : o.version = v}

\* "I can see one document holding both."
SameDocument(held, s, t) ==
    /\ s \in held
    /\ t \in held
    /\ DocumentOf[s.version] = DocumentOf[t.version]

\* The corpus rule: effective date, then the order of ingestion.
Precedes(v, w) ==
    \/ EffectiveDate[v] < EffectiveDate[w]
    \/ EffectiveDate[v] = EffectiveDate[w] /\ <<v, w>> \in earlier

\* DETACH DELETE of a set of obligations, seen from the edges between them.
Without(pairs, dropped) ==
    {e \in pairs : e.source \notin dropped /\ e.target \notin dropped}

Room ==
    Cardinality(deciding) + Cardinality(settling) + Cardinality(rebuilding)
        < MaxInFlight

-----------------------------------------------------------------------------
(* Recording, repointing and replaying verdicts *)

\* Variant: CREATE where MERGE is meant.
MergesAnew(decisions, id, s, t) == decisions[id] = NoDecision

\* MERGE by key: the node holding this key, else an unused one.
Merges(decisions, id, s, t) ==
    \/ Keyed(decisions[id], s, t)
    \/ /\ decisions[id] = NoDecision
       /\ \A i \in DOMAIN decisions : ~Keyed(decisions[i], s, t)

Verdicts(decisions, verdict) ==
    {[source |-> decisions[i].source, target |-> decisions[i].target] :
        i \in {j \in DOMAIN decisions :
                  decisions[j] # NoDecision /\ decisions[j].verdict = verdict}}

\* Variant: a replay that promotes and never suppresses.
ReplayedPromotionsOnly(decisions, present, held, links) ==
    links \cup {e \in Verdicts(decisions, "approve") :
                   /\ e.source \in present
                   /\ e.target \in present
                   /\ ~SameDocument(held, e.source, e.target)}

\* Variant: "I can see two documents", not "I cannot see one".
ReplayedWhereSeen(decisions, present, held, links) ==
    (links \cup {e \in Verdicts(decisions, "approve") :
                    /\ e.source \in held
                    /\ e.target \in held
                    /\ DocumentOf[e.source.version] # DocumentOf[e.target.version]})
        \ Verdicts(decisions, "reject")

\* PROMOTE, then SUPPRESS: what IMPLEMENTS holds once a replay has run over
\* the decisions, the obligation nodes and the MANDATES edges given.
Replayed(decisions, present, held, links) ==
    (links \cup {e \in Verdicts(decisions, "approve") :
                    /\ e.source \in present
                    /\ e.target \in present
                    /\ ~SameDocument(held, e.source, e.target)})
        \ Verdicts(decisions, "reject")

\* Variant: a wording no longer read maps its clause to nothing.
CarriedToNothing(before, reading) ==
    [o \in Obligation |->
        IF o \notin before THEN o
        ELSE IF \E r \in reading : r.statement = o.statement
        THEN [o EXCEPT !.section =
                 (CHOOSE r \in reading : r.statement = o.statement).section]
        ELSE NoDecision]

\* Variant: the reading may repeat a wording; one of its clauses is taken.
CarriedAmbiguously(before, reading) ==
    [o \in Obligation |->
        IF /\ o \in before
           /\ \E r \in reading : r.statement = o.statement
        THEN [o EXCEPT !.section =
                 (CHOOSE r \in reading : r.statement = o.statement).section]
        ELSE o]

\* The id each clause of `before` has after `reading`: its own, unless its
\* wording named one clause before and was read exactly once now.
Carried(before, reading) ==
    [o \in Obligation |->
        IF /\ o \in before
           /\ \A b \in before : b.statement = o.statement => b = o
           /\ \E r \in reading :
                /\ r.statement = o.statement
                /\ \A q \in reading : q.statement = o.statement => q = r
        THEN [o EXCEPT !.section =
                 (CHOOSE r \in reading : r.statement = o.statement).section]
        ELSE o]

Retargeted(decision, carried) ==
    [decision EXCEPT !.source = carried[decision.source],
                     !.target = carried[decision.target]]

\* Variant: decisions are looked up by one of their two ids.
DisplacedTargets(decisions, carried) ==
    {i \in DOMAIN decisions :
        /\ decisions[i] # NoDecision
        /\ carried[decisions[i].target] # decisions[i].target}

Displaced(decisions, carried) ==
    {i \in DOMAIN decisions :
        /\ decisions[i] # NoDecision
        /\ Retargeted(decisions[i], carried) # decisions[i]}

SameKey(d, e) == d.source = e.source /\ d.target = e.target

\* Variant: the keys in use before the batch are not screened.
MovableOverTaken(decisions, carried) == {Displaced(decisions, carried)}

\* The sets of displaced verdicts a repoint may move: no two onto one key, none
\* onto a key in use before the batch, and none left behind without a clash.
\* Which of two clashing verdicts lands is the order the driver returns rows.
Movable(decisions, carried) ==
    LET Moved(i) == Retargeted(decisions[i], carried)
        Taken(i) == \E j \in DOMAIN decisions :
                        Keyed(decisions[j], Moved(i).source, Moved(i).target)
        displaced == Displaced(decisions, carried)
    IN  {moves \in SUBSET displaced :
            /\ \A i \in moves : ~Taken(i)
            /\ \A i, j \in moves : SameKey(Moved(i), Moved(j)) => i = j
            /\ \A i \in displaced \ moves :
                  Taken(i) \/ \E j \in moves : SameKey(Moved(i), Moved(j))}

Repointed(decisions, carried, moves) ==
    [i \in DOMAIN decisions |->
        IF i \in moves THEN Retargeted(decisions[i], carried)
                       ELSE decisions[i]]

-----------------------------------------------------------------------------
(* Changes between two editions *)

EdgesOf(change) == {e[2] : e \in {x \in changeEdges : x[1] = change}}

Touches(change, v) ==
    \/ change.from = v /\ "FROM_VERSION" \in EdgesOf(change)
    \/ change.to = v /\ "TO_VERSION" \in EdgesOf(change)

\* Variant: only the changes that start at v are dropped.
ChangesWithoutFrom(v, dropped) ==
    {e \in changeEdges :
        /\ ~(e[1].from = v /\ "FROM_VERSION" \in EdgesOf(e[1]))
        /\ ~(e[2] = "AFFECTS" /\ e[1].affects \in dropped)}

\* What dropping v's changes and then the obligations in `dropped` leaves.
ChangesWithout(v, dropped) ==
    {e \in changeEdges :
        /\ ~Touches(e[1], v)
        /\ ~(e[2] = "AFFECTS" /\ e[1].affects \in dropped)}

\* A clause's content key: where it stands and what it says, not its edition.
SameContent(o, p) == o.section = p.section /\ o.statement = p.statement

Unmatched(v, w) ==
    {o \in MandatedBy(v) : ~\E p \in MandatedBy(w) : SameContent(o, p)}

-----------------------------------------------------------------------------
Init ==
    /\ pipeline \in Pipeline
    /\ edition = [v \in Version |-> Absent]
    /\ earlier = {}
    /\ obligations = {}
    /\ mandated = {}
    /\ anchored = {}
    /\ proposals = {}
    /\ implements = {}
    /\ linkDecisions = LegacyLinks
    /\ pairingDecisions = [i \in PairingId |-> NoDecision]
    /\ changeEdges = {}
    /\ deciding = {}
    /\ settling = {}
    /\ rebuilding = {}

\* A release installs another pipeline.
Upgrade ==
    /\ pipeline' \in Pipeline \ {pipeline}
    /\ UNCHANGED <<edition, earlier, clauses, proposals, implements,
                   decisionNodes, changeEdges, requests>>

\* Variant: the chunks are replaced under obligations that stay.
IngestChunksOnly(v) ==
    /\ edition[v] # pipeline
    /\ edition' = [edition EXCEPT ![v] = pipeline]
    /\ earlier' = IF Live(v) THEN earlier
                  ELSE earlier \cup {<<w, v>> : w \in {u \in Version : Live(u)}}
    /\ anchored' = anchored \ MandatedBy(v)
    /\ UNCHANGED <<pipeline, obligations, mandated, proposals, implements,
                   changeEdges, decisionNodes, requests>>

\* Ingest of an edition that is new, or whose chunks another pipeline made.
\* An edition that is current is left alone.
Ingest(v) ==
    /\ edition[v] # pipeline
    /\ edition' = [edition EXCEPT ![v] = pipeline]
    /\ earlier' = IF Live(v) THEN earlier
                  ELSE earlier \cup {<<w, v>> : w \in {u \in Version : Live(u)}}
    /\ obligations' = obligations \ MandatedBy(v)
    /\ mandated' = mandated \ MandatedBy(v)
    /\ anchored' = anchored \ MandatedBy(v)
    /\ proposals' = Without(proposals, MandatedBy(v))
    /\ implements' = Without(implements, MandatedBy(v))
    /\ changeEdges' = ChangesWithout(v, MandatedBy(v))
    /\ UNCHANGED <<pipeline, decisionNodes, requests>>

\* The document, its editions and their chunks go; the obligations stay.
DeleteDocument(d) ==
    LET gone == {v \in Version : Live(v) /\ DocumentOf[v] = d}
    IN  /\ gone # {}
        /\ edition' = [v \in Version |-> IF v \in gone THEN Absent ELSE edition[v]]
        /\ earlier' = {p \in earlier : p[1] \notin gone /\ p[2] \notin gone}
        /\ mandated' = {o \in mandated : o.version \notin gone}
        /\ anchored' = {o \in anchored : o.version \notin gone}
        /\ changeEdges' = {e \in changeEdges :
                             /\ ~(e[2] = "FROM_VERSION" /\ e[1].from \in gone)
                             /\ ~(e[2] = "TO_VERSION" /\ e[1].to \in gone)}
        /\ UNCHANGED <<pipeline, obligations, proposals, implements,
                       decisionNodes, requests>>

-----------------------------------------------------------------------------
(* Rebuild *)

\* The job stamps the pipeline and chunks the source before it extracts.
StartRebuild(v) ==
    /\ Room
    /\ Live(v)
    /\ rebuilding' = rebuilding \cup {[version |-> v, pipeline |-> pipeline]}
    /\ UNCHANGED <<catalogue, clauses, proposals, implements, decisionNodes,
                   changeEdges, deciding, settling>>

\* Every chunk rejected, the edition deleted meanwhile, a timeout, a kill.
AbandonRebuild(run) ==
    /\ rebuilding' = rebuilding \ {run}
    /\ UNCHANGED <<catalogue, clauses, proposals, implements, decisionNodes,
                   changeEdges, deciding, settling>>

ClauseOf(v, r) == [version |-> v, section |-> r.section, statement |-> r.statement]

Proposed(held, v, candidates) ==
    {e \in Pair :
        /\ e.source \in held /\ e.source.version = v
        /\ e.target \in held /\ e.target.version \in candidates
        /\ DocumentOf[e.source.version] # DocumentOf[e.target.version]
        /\ <<e.source.statement, e.target.statement>> \in Similar}

\* The write transaction: drop, write what was read, propose against the
\* candidates, repoint both kinds of verdict, replay the link verdicts.
WriteRebuild(run, reading, candidates) ==
    LET v == run.version
        before == MandatedBy(v)
        written == {ClauseOf(v, r) : r \in reading}
        carried == Carried(before, reading)
    IN  /\ Live(v)
        /\ edition' = [edition EXCEPT ![v] = run.pipeline]
        /\ obligations' = (obligations \ before) \cup written
        /\ mandated' = (mandated \ before) \cup written
        /\ anchored' = (anchored \ before) \cup written
        /\ proposals' = Without(proposals, before)
                          \cup Proposed(mandated', v, candidates)
        /\ changeEdges' = ChangesWithout(v, before)
        /\ \E moves \in Movable(linkDecisions, carried) :
              linkDecisions' = Repointed(linkDecisions, carried, moves)
        /\ \E moves \in Movable(pairingDecisions, carried) :
              pairingDecisions' = Repointed(pairingDecisions, carried, moves)
        /\ implements' = Replayed(linkDecisions', obligations', mandated',
                                  Without(implements, before))
        /\ rebuilding' = rebuilding \ {run}
        /\ UNCHANGED <<pipeline, earlier, deciding, settling>>

-----------------------------------------------------------------------------
(* Verdicts *)

\* The route looks for the proposal before it opens its transaction.
CheckProposal(e, verdict) ==
    /\ Room
    /\ e \in proposals
    /\ deciding' = deciding \cup
          {[source |-> e.source, target |-> e.target, verdict |-> verdict]}
    /\ UNCHANGED <<catalogue, clauses, proposals, implements, decisionNodes,
                   changeEdges, settling, rebuilding>>

\* Variant: the verdict lands without its promotion.
RecordOnly(d) ==
    /\ deciding' = deciding \ {d}
    /\ \E id \in LinkId :
          /\ Merges(linkDecisions, id, d.source, d.target)
          /\ linkDecisions' = [linkDecisions EXCEPT ![id] = d]
    /\ UNCHANGED <<catalogue, clauses, proposals, implements, pairingDecisions,
                   changeEdges, settling, rebuilding>>

\* Record and replay in one transaction; a pair inside one document is refused.
RecordDecision(d) ==
    /\ deciding' = deciding \ {d}
    /\ IF SameDocument(mandated, d.source, d.target)
       THEN UNCHANGED <<linkDecisions, implements>>
       ELSE /\ \E id \in LinkId :
                  /\ Merges(linkDecisions, id, d.source, d.target)
                  /\ linkDecisions' = [linkDecisions EXCEPT ![id] = d]
            /\ implements' = Replayed(linkDecisions', obligations, mandated,
                                      implements)
    /\ UNCHANGED <<catalogue, clauses, proposals, pairingDecisions, changeEdges,
                   settling, rebuilding>>

\* The route finds both editions, refuses two documents and one edition, and
\* orders the pair before it opens its transaction.
ResolvePair(o, p, verdict) ==
    /\ Room
    /\ SameDocument(mandated, o, p)
    /\ Precedes(o.version, p.version)
    /\ settling' = settling \cup
          {[source |-> o, target |-> p, verdict |-> verdict]}
    /\ UNCHANGED <<catalogue, clauses, proposals, implements, decisionNodes,
                   changeEdges, deciding, rebuilding>>

\* Variant: a clause is looked for in the newer role only.
ConflictingAsNewer(o, partner) ==
    \E i \in PairingId :
        /\ pairingDecisions[i] # NoDecision
        /\ pairingDecisions[i].verdict = "paired"
        /\ pairingDecisions[i].target = o
        /\ pairingDecisions[i].source # partner
        /\ pairingDecisions[i].source \in MandatedBy(partner.version)

\* A live paired verdict on `o` with another partner in the same other edition.
Conflicting(o, partner) ==
    \E i \in PairingId :
        LET d == pairingDecisions[i]
        IN  /\ d # NoDecision
            /\ d.verdict = "paired"
            /\ \/ /\ d.source = o
                  /\ d.target # partner
                  /\ d.target \in MandatedBy(partner.version)
               \/ /\ d.target = o
                  /\ d.source # partner
                  /\ d.source \in MandatedBy(partner.version)

\* The edition pair's lock, the conflict check and the MERGE, in one
\* transaction; a conflict answers 409 and records nothing.
RecordPairing(d) ==
    /\ settling' = settling \ {d}
    /\ IF /\ d.verdict = "paired"
          /\ Conflicting(d.source, d.target) \/ Conflicting(d.target, d.source)
       THEN UNCHANGED pairingDecisions
       ELSE \E id \in PairingId :
              /\ Merges(pairingDecisions, id, d.source, d.target)
              /\ pairingDecisions' = [pairingDecisions EXCEPT ![id] = d]
    /\ UNCHANGED <<catalogue, clauses, proposals, implements, linkDecisions,
                   changeEdges, deciding, rebuilding>>

-----------------------------------------------------------------------------
(* Triage *)

\* Diff two editions, replacing what an earlier diff of the pair wrote.  Some
\* of the unmatched clauses pair off one to one and are MODIFIED (which ones is
\* the business of the pairing rules, not of this module).
Diff(v, w) ==
    LET old == Unmatched(v, w)
        new == Unmatched(w, v)
        Changed(o, kind) == [from |-> v, to |-> w, affects |-> o, kind |-> kind]
        Previous(c) == /\ c.from = v /\ c.to = w
                       /\ {"FROM_VERSION", "TO_VERSION"} \subseteq EdgesOf(c)
    IN  /\ v # w /\ Live(v) /\ Live(w)
        /\ \E gone \in SUBSET old, come \in SUBSET new :
              /\ Cardinality(old \ gone) = Cardinality(new \ come)
              /\ changeEdges' =
                    {e \in changeEdges : ~Previous(e[1])} \cup
                    ( {Changed(o, "REMOVED") : o \in gone}
                      \cup {Changed(o, "ADDED") : o \in come}
                      \cup {Changed(o, "MODIFIED") : o \in new \ come} )
                    \X {"FROM_VERSION", "TO_VERSION", "AFFECTS"}
        /\ UNCHANGED <<catalogue, clauses, proposals, implements, decisionNodes,
                       requests>>

-----------------------------------------------------------------------------
Next ==
    \/ Upgrade
    \/ \E v \in Version : Ingest(v)
    \/ \E d \in Document : DeleteDocument(d)
    \/ \E v \in Version : StartRebuild(v)
    \/ \E run \in rebuilding : AbandonRebuild(run)
    \/ \E run \in rebuilding :
          \E reading \in SUBSET Passage[run.pipeline][run.version],
             candidates \in SUBSET Candidates[run.version] :
                WriteRebuild(run, reading, candidates)
    \/ \E e \in proposals, verdict \in Verdict : CheckProposal(e, verdict)
    \/ \E d \in deciding : RecordDecision(d)
    \/ \E o, p \in mandated, verdict \in PairingVerdict : ResolvePair(o, p, verdict)
    \/ \E d \in settling : RecordPairing(d)
    \/ \E pair \in DiffPairs : Diff(pair[1], pair[2])

Spec == Init /\ [][Next]_vars

-----------------------------------------------------------------------------
(* Properties *)

\* An IMPLEMENTS edge stands only on a recorded approval of exactly that pair:
\* no rebuild, repoint, deletion or re-ingest leaves a link nobody approved.
ImplementsRestsOnApproval ==
    implements \subseteq Verdicts(linkDecisions, "approve")

\* The converse: an approval is linked in every state where both its clauses
\* exist, so the graph never disagrees with the audit record.
ApprovalsAreLinked ==
    \A e \in Verdicts(linkDecisions, "approve") :
        /\ e.source \in obligations
        /\ e.target \in obligations
        /\ DocumentOf[e.source.version] # DocumentOf[e.target.version]
        => e \in implements

\* One pair, one verdict, in either vocabulary.  A repoint that broke it would
\* hit the key constraint and roll the whole rebuild back.
OneVerdictPerPair ==
    KeysUnique(linkDecisions) /\ KeysUnique(pairingDecisions)

\* Every clause an edition mandates can be cited: some chunk anchors it.
MandatedIsAnchored == mandated \subseteq anchored

\* A change Triage can list between two editions traces to a clause one of them
\* mandates, whatever was rebuilt, re-ingested or deleted since the diff.
ChangesTraceable ==
    \A c \in {e[1] : e \in changeEdges} :
        {"FROM_VERSION", "TO_VERSION"} \subseteq EdgesOf(c) =>
            /\ "AFFECTS" \in EdgesOf(c)
            /\ c.affects \in mandated

\* A live verdict: both clauses are mandated, so the diff of their editions
\* applies it.
LivePairing(i) ==
    /\ pairingDecisions[i] # NoDecision
    /\ pairingDecisions[i].verdict = "paired"
    /\ {pairingDecisions[i].source, pairingDecisions[i].target} \subseteq mandated

\* No clause has two live partners in one other edition, in either role: the
\* diff is one to one and would apply one of the verdicts by iteration order.
OneLivePairing ==
    \A i, j \in PairingId :
        LET d == pairingDecisions[i]
            e == pairingDecisions[j]
        IN  LivePairing(i) /\ LivePairing(j) /\ i # j =>
            /\ d.source = e.source => d.target.version # e.target.version
            /\ d.target = e.target => d.source.version # e.source.version
            /\ d.source = e.target /\ d.target # e.source =>
                  d.target.version # e.source.version

\* While no edition's clauses change, reviewers cannot bring about a second
\* live pairing: the conflict check sees both roles and stale requests too.
SettlingKeepsOnePairing ==
    [][ mandated' = mandated /\ OneLivePairing => OneLivePairing' ]_vars

Alone(o, held) ==
    /\ o \in held
    /\ \A p \in held : p.version = o.version /\ p.statement = o.statement => p = o

SameWording(o, p) == o.version = p.version /\ o.statement = p.statement

\* A verdict never disappears, never changes its answer while it moves, and
\* moves only from a clause that alone bore its wording to one that alone does.
FollowClauses(before, after) ==
    \A i \in DOMAIN before : before[i] # NoDecision =>
        /\ after[i] # NoDecision
        /\ ~SameKey(before[i], after[i]) => before[i].verdict = after[i].verdict
        /\ \A end \in {"source", "target"} : before[i][end] # after[i][end] =>
              /\ SameWording(before[i][end], after[i][end])
              /\ Alone(before[i][end], mandated)
              /\ Alone(after[i][end], mandated')

\* A rebuild never moves a human verdict onto a clause nobody judged.
VerdictsFollowTheirClause ==
    [][ /\ FollowClauses(linkDecisions, linkDecisions')
        /\ FollowClauses(pairingDecisions, pairingDecisions') ]_vars

\* What was judged of `o` is judged of `p`: each verdict on `o` has one on `p`,
\* with the same far end.
Inherits(before, after, o, p) ==
    \A i \in DOMAIN before : before[i] # NoDecision =>
        /\ before[i].source = o =>
              \E j \in DOMAIN after : Keyed(after[j], p, before[i].target)
        /\ before[i].target = o =>
              \E j \in DOMAIN after : Keyed(after[j], before[i].source, p)

JudgedAs(o, p) ==
    /\ Inherits(linkDecisions, linkDecisions', o, p)
    /\ Inherits(pairingDecisions, pairingDecisions', o, p)

ReadOnce(r, reading) == \A q \in reading : q.statement = r.statement => q = r

\* A rebuild that re-keys a clause leaves none of its verdicts behind, where the
\* clause alone bore its wording and the extractor returned that wording once: a
\* key in use is judged already, and of two that meet one lands.  The rebuild
\* counts readings, so a sentence returned out of two overlapping chunks, although
\* one clause, is counted out, and its verdict does stay behind.
RekeyKeepsVerdicts ==
    [][ \A run \in rebuilding \ rebuilding' :
          \A o \in MandatedBy(run.version) \ mandated',
             reading \in SUBSET Passage[run.pipeline][run.version] :
            \A r \in reading :
              LET p == ClauseOf(run.version, r)
              IN  /\ o # p /\ SameWording(o, p)
                  /\ Alone(o, mandated) /\ ReadOnce(r, reading)
                  /\ \E candidates \in SUBSET Candidates[run.version] :
                        WriteRebuild(run, reading, candidates)
                  => JudgedAs(o, p) ]_vars

\* What a reviewer is promised, and the state that keeps the promise.
Ledger == INSTANCE ReviewLedger WITH
    Clause  <- Obligation,
    Wording <- [o \in Obligation |-> <<o.version, o.statement>>],
    Entry   <- LinkId,
    Blank   <- NoDecision,
    present <- obligations,
    ledger  <- linkDecisions,
    linked  <- implements

\* Every behaviour of the derived layer, its rebuilds, deletions and stale
\* requests included, is a behaviour of the ledger.
KeepsTheLedger == Ledger!Spec
=============================================================================
