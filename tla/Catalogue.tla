----------------------------- MODULE Catalogue -----------------------------
(***************************************************************************)
(* The documents of the graph: how names become slugs, which source        *)
(* describes which document, who cites whom, which editions a document     *)
(* holds and which of them supersedes which, and the recorded rulings that *)
(* two names are one document.                                             *)
(*                                                                         *)
(* A node is known by its slug, which no statement changes; its name may   *)
(* be set again.  Every ingest resolves its slugs by reads and writes in a *)
(* later transaction; a manifest replays the rulings in a third.  A        *)
(* request is carried between them in `pending`.                           *)
(*                                                                         *)
(* A definition marked "Variant" is a plausible mistake in the definition  *)
(* after it, used by no one.                                               *)
(***************************************************************************)
EXTENDS Integers, FiniteSets, Sequences, SequencesExt

CONSTANTS
    Name,           \* names of documents, numbered in sort order
    Base,           \* what base_slug makes of names
    BaseOf,         \* the base a name normalises to
    Manifest,       \* manifest files: sets of rows [name, references]
    Pdf,            \* PDF files (see Issuance)
    HandMade,       \* names a person may create a document under (bound)
    Rulings,        \* pairs <<survivor, merged>> a person may rule on (bound)
    Links,          \* pairs of names a person may relate by hand (bound)
    MaxEditions,    \* editions ever ingested and not deleted (bound)
    MaxInFlight     \* requests between two of their transactions (bound)

None == 0
Bare == 0           \* the suffix of a slug without one

Slug == {[base |-> BaseOf[n], of |-> Bare] : n \in Name}
        \cup {[base |-> BaseOf[n], of |-> n] : n \in Name}

\* A PDF as its parser reads it: the names its references section yields, the
\* entries that yield none, and whether the file has a text layer.
Issuance == [name: Name, section: BOOLEAN, cites: SUBSET Name, gaps: SUBSET Nat,
             date: Nat, bytes: Nat, text: BOOLEAN]

\* date is 0 when the edition has none; then its bytes are its identity.
Edition == [slug: Slug, date: Nat, bytes: Nat]

Row == [name: Name, references: SUBSET Name]

ASSUME CatalogueAssumption ==
    /\ Name \subseteq Nat \ {None}
    /\ BaseOf \in [Name -> Base]
    /\ Manifest \subseteq SUBSET Row
    /\ Pdf \subseteq Issuance
    /\ HandMade \subseteq Name
    /\ Rulings \subseteq Name \X Name
    /\ Links \subseteq Name \X Name

VARIABLES
    nameOf,         \* the name of the node with a slug, or None
    references,     \* REFERENCES, as pairs of slugs
    described,      \* documents some :Source describes
    external,       \* documents labelled :External
    parsed,         \* what the parser has ever reported of a document
    arrived,        \* :DocumentVersion nodes, in the order they were ingested
    held,           \* the editions a document is joined to by HAS_VERSION
    supersedes,     \* SUPERSEDES, as pairs of editions
    rulings,        \* :DocumentMerge nodes
    pending         \* requests between two of their transactions

vars == <<nameOf, references, described, external, parsed, arrived, held,
          supersedes, rulings, pending>>

graph == <<nameOf, references, described, external, parsed, arrived, held,
           supersedes>>

NeverParsed == [section |-> "never", gaps |-> {}]

Documents == {s \in Slug : nameOf[s] # None}
Stored(n) == \E s \in Slug : nameOf[s] = n
SlugFor(n) == CHOOSE s \in Slug : nameOf[s] = n
Editions == Range(arrived)

\* What a sequence makes of a value, one element after another.
Through(step(_, _), base, seq) ==
    LET after[i \in 0 .. Len(seq)] ==
            IF i = 0 THEN base ELSE step(after[i - 1], seq[i])
    IN after[Len(seq)]

-----------------------------------------------------------------------------
(* Slugs *)

BareSlug(n) == [base |-> BaseOf[n], of |-> Bare]
Suffixed(n) == [base |-> BaseOf[n], of |-> n]

\* Over a set of names, every contender for a base is suffixed.
AssignSlugs(names) ==
    [n \in names |->
        IF \E other \in names \ {n} : BaseOf[other] = BaseOf[n]
          THEN Suffixed(n) ELSE BareSlug(n)]

\* Variant: a new name takes its slug although another document holds it.
ReconcileUntaken(names) ==
    LET fresh == {n \in names : ~Stored(n)} IN
    [n \in names |-> IF n \in fresh THEN AssignSlugs(fresh)[n] ELSE SlugFor(n)]

\* A manifest's names: a stored name keeps its slug, a new one never takes one.
ReconcileSlugs(names) ==
    LET fresh == {n \in names : ~Stored(n)}
        assigned == AssignSlugs(fresh)
    IN [n \in names |->
            CASE n \notin fresh -> SlugFor(n)
              [] n \in fresh /\ assigned[n] \in Documents -> Suffixed(n)
              [] OTHER -> assigned[n]]

\* Variant: contenders inside the batch are not seen.
AllocateEach(name, cited) ==
    [n \in cited \cup {name} |->
        IF Stored(n) THEN SlugFor(n)
        ELSE IF BareSlug(n) \in Documents THEN Suffixed(n) ELSE BareSlug(n)]

\* A document and what it cites, in that order: the first new name to reach a
\* free base takes it bare.
AllocateSlugs(name, cited) ==
    LET Before(m, n) == n # name /\ (m = name \/ m < n)
        claimed(n) == \E m \in cited \cup {name} :
            Before(m, n) /\ ~Stored(m) /\ BaseOf[m] = BaseOf[n]
    IN [n \in cited \cup {name} |->
            IF Stored(n) THEN SlugFor(n)
            ELSE IF BareSlug(n) \in Documents \/ claimed(n)
              THEN Suffixed(n) ELSE BareSlug(n)]

-----------------------------------------------------------------------------
(* What the sources say *)

CorpusNames(rows) == {row.name : row \in rows}
AllNames(rows) == CorpusNames(rows) \cup UNION {row.references : row \in rows}
ManifestEdges(rows) ==
    UNION {{row.name} \X (row.references \ {row.name}) : row \in rows}

Cited(pdf) == IF pdf.section THEN pdf.cites \ {pdf.name} ELSE {}

Request(kind, what, slugs) == [kind |-> kind, what |-> what, slugs |-> slugs]

Room == Cardinality(pending) < MaxInFlight

-----------------------------------------------------------------------------
(* Writes a transaction is made of *)

\* MERGE by slug, then SET the name: of a new node, or of whatever holds it.
Named(names, slugs) ==
    [s \in Slug |->
        IF \E n \in names : slugs[n] = s
          THEN CHOOSE n \in names : slugs[n] = s ELSE nameOf[s]]

\* MERGE ... ON CREATE SET: a node that exists keeps its name.
NamedIfNew(names, slugs) == Named({n \in names : slugs[n] \notin Documents}, slugs)

\* Variant: the schema does not constrain names.
NamesAny(naming) == TRUE

\* What the constraint document_name_unique lets commit.
NamesUnique(naming) ==
    \A s, t \in Slug : naming[s] = naming[t] /\ naming[s] # None => s = t

EdgesBetween(edges, slugs) == {<<slugs[e[1]], slugs[e[2]]>> : e \in edges}

\* Variant: only the documents a source describes are looked at again.
RefreshDescribed(touched) == external' = external \ described'

\* REFRESH_EXTERNAL over the documents a source touched.
RefreshExternal(touched) ==
    external' = (external \ touched) \cup (touched \ described')

\* DETACH DELETE of documents: their edges, labels and properties go with them.
Detached(gone) ==
    /\ nameOf' = [s \in Slug |-> IF s \in gone THEN None ELSE nameOf[s]]
    /\ described' = described \ gone
    /\ external' = external \ gone
    /\ parsed' = [s \in Slug |-> IF s \in gone THEN NeverParsed ELSE parsed[s]]

NotOf(edges, gone) == {e \in edges : e[1] \notin gone /\ e[2] \notin gone}

-----------------------------------------------------------------------------
(* Editions *)

EditionOf(slug, pdf) ==
    [slug |-> slug, date |-> pdf.date, bytes |-> pdf.bytes]

\* One dated edition under two checksums: the operator has to decide.
VersionConflict(edition) ==
    \E e \in Editions :
        /\ e.slug = edition.slug
        /\ e.date = edition.date
        /\ e.date # 0
        /\ e.bytes # edition.bytes

Without(arrivals, gone) ==
    LET Keep(kept, e) == IF e \in gone THEN kept ELSE Append(kept, e)
    IN Through(Keep, << >>, arrivals)

Arrived(edition) ==
    IF edition \in Editions THEN arrived ELSE Append(arrived, edition)

\* Undated editions first, then by date; in order of arrival where that ties.
Earlier(a, b, arrivals) ==
    \/ a.date < b.date
    \/ a.date = b.date
       /\ \E i, j \in DOMAIN arrivals :
            i < j /\ arrivals[i] = a /\ arrivals[j] = b

\* Variant: append-only: what arrives last supersedes what arrived before it.
RelinkAppending(mine, arrivals) ==
    LET Mine(e) == e \in mine
        order == SelectSeq(arrivals, Mine)
    IN supersedes \cup {<<order[i + 1], order[i]>> : i \in 1 .. Len(order) - 1}

\* One document's chain, from scratch: an edition that arrives late belongs in
\* the middle.
Relinked(mine, arrivals) ==
    {edge \in supersedes : edge[1] \notin mine} \cup
        {edge \in mine \X mine :
            /\ Earlier(edge[2], edge[1], arrivals)
            /\ ~\E c \in mine : /\ Earlier(edge[2], c, arrivals)
                               /\ Earlier(c, edge[1], arrivals)}

HeldBy(s) == {e \in held : e.slug = s}

-----------------------------------------------------------------------------
Init ==
    /\ nameOf = [s \in Slug |-> None]
    /\ references = {}
    /\ described = {}
    /\ external = {}
    /\ parsed = [s \in Slug |-> NeverParsed]
    /\ arrived = << >>
    /\ held = {}
    /\ supersedes = {}
    /\ rulings = {}
    /\ pending = {}

\* A manifest is parsed, and its slugs are resolved by two reads.
ResolveManifest(rows) ==
    /\ Room
    /\ pending' = pending \cup
        {Request("manifest", rows, ReconcileSlugs(AllNames(rows)))}
    /\ UNCHANGED <<graph, rulings>>

\* Its documents, edges and provenance commit together; the replay comes next.
WriteManifest(r) ==
    LET slugs == r.slugs
        names == AllNames(r.what)
        naming == Named(names, slugs)
    IN /\ r.kind = "manifest"
       /\ NamesUnique(naming)
       /\ nameOf' = naming
       /\ references' = references \cup EdgesBetween(ManifestEdges(r.what), slugs)
       /\ described' = described \cup {slugs[n] : n \in CorpusNames(r.what)}
       /\ RefreshExternal({slugs[n] : n \in names})
       /\ pending' = (pending \ {r}) \cup {Request("replay", {}, << >>)}
       /\ UNCHANGED <<parsed, arrived, held, supersedes, rulings>>

\* A PDF is read, and the slugs of its batch are resolved one read at a time.
ResolveDocument(pdf) ==
    /\ Room
    /\ pending' = pending \cup
        {Request("document", pdf, AllocateSlugs(pdf.name, Cited(pdf)))}
    /\ UNCHANGED <<graph, rulings>>

\* Variant: the newest parse speaks for the document.
ReportNewest(s, pdf) ==
    [parsed EXCEPT ![s] = [section |-> IF pdf.section THEN "found" ELSE "not_found",
                           gaps |-> pdf.gaps]]

\* MERGE_DOCUMENT: what a parse once found stays found, gaps accumulate.
Report(s, pdf) ==
    LET found == pdf.section \/ parsed[s].section = "found" IN
    [parsed EXCEPT ![s] = [section |-> IF found THEN "found" ELSE "not_found",
                           gaps |-> parsed[s].gaps \cup pdf.gaps]]

\* The document, what it cites, its provenance, its edition and the edition's
\* place in the chain.  A PDF without text is refused, and so is a conflict: the
\* transaction rolls back.  (Its chunks are DerivedLayer's Ingest.)
WriteDocument(r) ==
    LET pdf == r.what
        slug == r.slugs[pdf.name]
        cited == {r.slugs[n] : n \in Cited(pdf)}
        naming == [NamedIfNew(Cited(pdf), r.slugs) EXCEPT ![slug] = pdf.name]
        edition == EditionOf(slug, pdf)
    IN /\ r.kind = "document"
       /\ pdf.text
       /\ NamesUnique(naming)
       /\ ~VersionConflict(edition)
       /\ nameOf' = naming
       /\ references' = references \cup ({slug} \X cited)
       /\ described' = described \cup {slug}
       /\ parsed' = Report(slug, pdf)
       /\ arrived' = Arrived(edition)
       /\ held' = held \cup {edition}
       /\ supersedes' = Relinked(HeldBy(slug) \cup {edition}, Arrived(edition))
       /\ RefreshExternal({slug} \cup cited)
       /\ pending' = pending \ {r}
       /\ UNCHANGED rulings

\* POST /documents: the name is free, and a slug is allocated for it.
CheckName(n) ==
    /\ Room
    /\ ~Stored(n)
    /\ pending' = pending \cup {Request("create", n, AllocateSlugs(n, {}))}
    /\ UNCHANGED <<graph, rulings>>

\* CREATE, not MERGE: both constraints must still let it commit.
CreateDocument(r) ==
    LET slug == r.slugs[r.what] IN
    /\ r.kind = "create"
    /\ slug \notin Documents
    /\ ~Stored(r.what)
    /\ nameOf' = [nameOf EXCEPT ![slug] = r.what]
    /\ described' = described \cup {slug}
    /\ RefreshExternal({slug})
    /\ pending' = pending \ {r}
    /\ UNCHANGED <<references, parsed, arrived, held, supersedes, rulings>>

\* A document goes with its editions.
DeleteDocument(s) ==
    LET gone == HeldBy(s)
    IN /\ s \in Documents
       /\ Detached({s})
       /\ references' = NotOf(references, {s})
       /\ arrived' = Without(arrived, gone)
       /\ held' = held \ gone
       /\ supersedes' = NotOf(supersedes, gone)
       /\ UNCHANGED <<rulings, pending>>

AddReference(s, t) ==
    /\ s # t
    /\ references' = references \cup {<<s, t>>}
    /\ UNCHANGED <<nameOf, described, external, parsed, arrived, held, supersedes,
                   rulings, pending>>

RemoveReference(s, t) ==
    /\ references' = references \ {<<s, t>>}
    /\ UNCHANGED <<nameOf, described, external, parsed, arrived, held, supersedes,
                   rulings, pending>>

\* The requests of a person relating two stored documents by hand.
Relate(pair) ==
    /\ Stored(pair[1])
    /\ Stored(pair[2])
    /\ LET s == SlugFor(pair[1])
           t == SlugFor(pair[2])
       IN AddReference(s, t) \/ RemoveReference(s, t)

-----------------------------------------------------------------------------
(* Rulings *)

Ruling(pair, verdict) ==
    [survivor |-> pair[1], merged |-> pair[2], verdict |-> verdict]

\* One node per unordered pair of names.
Ruled(pair, verdict) ==
    {m \in rulings : {m.survivor, m.merged} # Range(pair)} \cup {Ruling(pair, verdict)}

\* Both documents exist and neither carries an edition; the replay comes next.
RecordMerge(pair) ==
    /\ Room
    /\ pair[1] # pair[2]
    /\ \A n \in Range(pair) : Stored(n) /\ HeldBy(SlugFor(n)) = {}
    /\ rulings' = Ruled(pair, "same")
    /\ pending' = pending \cup {Request("replay", {}, << >>)}
    /\ UNCHANGED graph

RecordDifferent(pair) ==
    /\ rulings' = Ruled(pair, "different")
    /\ UNCHANGED <<graph, pending>>

\* The pairs <<survivor, loser>> a replay matches.
Applicable ==
    {<<SlugFor(m.survivor), SlugFor(m.merged)>> :
        m \in {m \in rulings : /\ m.verdict = "same"
                               /\ Stored(m.survivor)
                               /\ Stored(m.merged)}}

\* Variant: a citation of the loser by its survivor is repointed as well.
CitersToItself(edges, row) ==
    {e \in edges : e[2] # row[2]} \cup
    {<<e[1], row[1]>> : e \in {e \in edges : e[2] = row[2]}}

\* Who cites the loser cites the survivor.
CitersRepointed(edges, row) ==
    LET moved == {e \in edges : e[2] = row[2] /\ e[1] # row[1]} IN
    (edges \ moved) \cup {<<e[1], row[1]>> : e \in moved}

\* Variant: what the loser cites goes with it.
CitationsDropped(edges, row) ==
    {e \in edges : e[1] # row[2]}

\* What the loser cites the survivor cites.
CitationsRepointed(edges, row) ==
    LET moved == {e \in edges : e[1] = row[2] /\ e[2] # row[1]} IN
    (edges \ moved) \cup {<<row[1], e[2]>> : e \in moved}

\* apply_merges: all rows are matched first and may come in any order; each
\* clause runs over every row before the next, and the losers go last.  Their
\* editions do not go with them.
Replay(r) ==
    LET gone == {row[2] : row \in Applicable} IN
    /\ r.kind = "replay"
    /\ \E rows \in SetToSeqs(Applicable) :
        references' = NotOf(Through(CitationsRepointed,
                                Through(CitersRepointed, references, rows), rows),
                            gone)
    /\ Detached(gone)
    /\ held' = {e \in held : e.slug \notin gone}
    /\ pending' = pending \ {r}
    /\ UNCHANGED <<arrived, supersedes, rulings>>

-----------------------------------------------------------------------------
\* A request ends between its transactions: the process stops, a constraint or
\* a check refuses its write.
Abandon(r) ==
    /\ pending' = pending \ {r}
    /\ UNCHANGED <<graph, rulings>>

\* POST /reset: MATCH (n) DETACH DELETE n.
Reset ==
    /\ Detached(Slug)
    /\ references' = {}
    /\ arrived' = << >>
    /\ held' = {}
    /\ supersedes' = {}
    /\ rulings' = {}
    /\ UNCHANGED pending

Continue(r) ==
    \/ WriteManifest(r)
    \/ WriteDocument(r) /\ Len(arrived') <= MaxEditions
    \/ CreateDocument(r)
    \/ Replay(r)
    \/ Abandon(r)

Next ==
    \/ \E rows \in Manifest : ResolveManifest(rows)
    \/ \E pdf \in Pdf : ResolveDocument(pdf)
    \/ \E n \in HandMade : CheckName(n)
    \/ \E r \in pending : Continue(r)
    \/ \E s \in Slug : DeleteDocument(s)
    \/ \E pair \in Links : Relate(pair)
    \/ \E pair \in Rulings : RecordMerge(pair) \/ RecordDifferent(pair)
    \/ Reset

Spec == Init /\ [][Next]_vars

-----------------------------------------------------------------------------
TypeOK ==
    /\ nameOf \in [Slug -> Name \cup {None}]
    /\ \A s, t \in Documents : nameOf[s] = nameOf[t] => s = t
    /\ references \subseteq Documents \X Documents
    /\ described \subseteq Documents
    /\ external \subseteq Documents
    /\ \A s \in Slug : /\ parsed[s].section \in {"never", "not_found", "found"}
                       /\ parsed[s] # NeverParsed => s \in Documents
    /\ held \subseteq Editions
    /\ Editions \subseteq Edition
    /\ \A e \in held : e.slug \in Documents
    /\ supersedes \subseteq Editions \X Editions
    /\ \A m \in rulings : m.verdict \in {"same", "different"}

\* The :External label is exactly "no source describes this document", although
\* five statements write it and each looks only at the documents it touched.
ExternalIsUndescribed == external = Documents \ described

\* No document cites itself: the API refuses it, both parsers skip it, and a
\* merge of two documents that cite each other leaves no such edge.
NobodyCitesItself == \A s \in Slug : <<s, s>> \notin references

\* A document's editions form one chain from the newest to the oldest, no two of
\* them of one date, in whatever order they were ingested, deleted, orphaned and
\* ingested again.
SupersessionIsAChain ==
    \A s \in Documents :
        LET mine == HeldBy(s)
            edges == supersedes \cap (mine \X mine)
        IN /\ Cardinality(edges) = Cardinality(mine) - (IF mine = {} THEN 0 ELSE 1)
           /\ \A e \in edges : e[1].date > e[2].date \/ (e[1].date = 0 /\ e[2].date = 0 /\ e[1] # e[2])
           /\ \A e, f \in edges : e[1] = f[1] <=> e[2] = f[2]

\* Slugs resolved against the graph as it stands keep every stored document its
\* slug, give each name a slug of its own, and hand no new name one in use.
SlugsAreGood(slugs) ==
    /\ \A m, n \in DOMAIN slugs : slugs[m] = slugs[n] => m = n
    /\ \A n \in DOMAIN slugs :
        IF Stored(n) THEN slugs[n] = SlugFor(n) ELSE slugs[n] \notin Documents

FreshSlugsAreGood == [][\A r \in pending' \ pending : SlugsAreGood(r.slugs)]_vars

\* When a replay deletes a merged-away document, each document that cited it
\* cites a survivor of it, and a survivor cites what it cited; unless a survivor
\* is itself merged away in that replay.
Replaying == \E r \in pending \ pending' : r.kind = "replay"

MergeIsFollowed ==
    Replaying =>
        \A gone \in Documents \ {s \in Slug : nameOf'[s] # None} :
            LET survivors == {row[1] : row \in {x \in Applicable : x[2] = gone}}
                stays(s) == nameOf'[s] # None
            IN (\A s \in survivors : stays(s)) =>
                \A d \in {d \in Documents \ survivors : stays(d)} :
                    /\ <<d, gone>> \in references =>
                        \E s \in survivors : <<d, s>> \in references'
                    /\ <<gone, d>> \in references =>
                        \E s \in survivors : <<s, d>> \in references'

CitersFollowTheMerge == [][MergeIsFollowed]_vars

\* "Never a false all-clear": while a document stays, a references section once
\* read stays read and a gap once reported stays reported.
ReferenceStatusAccumulates ==
    [][\A s \in Slug : nameOf[s] # None /\ nameOf'[s] # None =>
        /\ parsed[s].section = "found" => parsed'[s].section = "found"
        /\ parsed[s].gaps \subseteq parsed'[s].gaps]_vars

\* "Only documents with nothing hanging off them may be merged" (merges.py), and
\* an edition without its document is reachable from nothing (documents.py): no
\* edition is left behind by its document.  A document merged away and ingested
\* again holds an edition when the next manifest's replay deletes it.
EditionsHaveADocument == Editions \subseteq held
=============================================================================
