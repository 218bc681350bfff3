-------------------------- MODULE LegacyMigration --------------------------
(***************************************************************************)
(* The startup migration: link verdicts an earlier release let reviewers   *)
(* record between two editions of one document become pairing verdicts, or *)
(* are retired with the reason they cannot.  It runs on every boot of the  *)
(* backend, in one transaction, over whatever the boots, rebuilds and      *)
(* reviewers before it left, while the worker may be rebuilding.           *)
(*                                                                         *)
(* A definition marked "Variant" is a plausible mistake in the definition  *)
(* after it, used by no one.                                               *)
(***************************************************************************)
EXTENDS DerivedLayer

VARIABLE retired    \* :RetiredLinkDecision nodes, as [decision, reason]

mvars == <<vars, retired>>

\* The decisions SAME_DOCUMENT_DECISIONS reads: both clauses are mandated by
\* editions of one document.
Readable ==
    {i \in LinkId : /\ linkDecisions[i] # NoDecision
                    /\ SameDocument(mandated, linkDecisions[i].source,
                                              linkDecisions[i].target)}

\* Two clauses of one edition are no pair; nothing converts them.
SameEdition == {i \in Readable : linkDecisions[i].source.version
                                    = linkDecisions[i].target.version}

Convertible == Readable \ SameEdition

\* Variant: the judgement is copied as it was recorded.
ConvertedAsIs(d) ==
    [source |-> d.source, target |-> d.target,
     verdict |-> IF d.verdict = "approve" THEN "paired" ELSE "distinct"]

\* A link verdict as a pairing verdict, turned older to newer.
Converted(d) ==
    LET forward == Precedes(d.source.version, d.target.version) IN
    [source  |-> IF forward THEN d.source ELSE d.target,
     target  |-> IF forward THEN d.target ELSE d.source,
     verdict |-> IF d.verdict = "approve" THEN "paired" ELSE "distinct"]

AsPairing(i) == Converted(linkDecisions[i])

Recorded == {pairingDecisions[j] : j \in PairingId} \ {NoDecision}

\* Variant: a conversion is MERGEd over the verdict that is there.
PairingExistsUnread == {}

\* The first screen: the pair has a pairing verdict already, which a conversion
\* would overwrite.
PairingExists == {i \in Convertible : \E d \in Recorded : SameKey(d, AsPairing(i))}

\* Two paired verdicts on one clause within one edition pair.
Contend(d, e) ==
    /\ d.verdict = "paired" /\ e.verdict = "paired"
    /\ d.source.version = e.source.version
    /\ d.target.version = e.target.version
    /\ d.source = e.source \/ d.target = e.target

\* Variant: the rule holds within a run, not across runs.
ConflictingAmongThem ==
    {i \in Convertible \ PairingExists :
        \E k \in Convertible \ {i} :
            \/ SameKey(AsPairing(k), AsPairing(i))
            \/ k \notin PairingExists /\ Contend(AsPairing(k), AsPairing(i))}

\* The second screen: two candidates for one key, or a second paired verdict on a
\* clause beside another candidate or beside one already recorded and live.
ConflictingPairing ==
    {i \in Convertible \ PairingExists :
        \/ \E k \in Convertible \ {i} :
              \/ SameKey(AsPairing(k), AsPairing(i))
              \/ k \notin PairingExists /\ Contend(AsPairing(k), AsPairing(i))
        \/ \E d \in Recorded : /\ {d.source, d.target} \subseteq mandated
                               /\ Contend(d, AsPairing(i))}

Conversions == Convertible \ (PairingExists \cup ConflictingPairing)

Reason(i) ==
    CASE i \in SameEdition -> "same_edition"
      [] i \in PairingExists -> "pairing_exists"
      [] i \in ConflictingPairing -> "conflicting_pairing"
      [] OTHER -> "converted"

\* CONVERT: each conversion is MERGEd by its key, and whatever held it is set.
Minted(node) ==
    /\ \A i \in Conversions :
          Merges(pairingDecisions, node[i], AsPairing(i).source, AsPairing(i).target)
    /\ \A i, k \in Conversions :
          node[i] = node[k] <=> SameKey(AsPairing(i), AsPairing(k))
    /\ pairingDecisions' =
          [j \in PairingId |->
              IF \E i \in Conversions : node[i] = j
              THEN AsPairing(CHOOSE i \in Conversions : node[i] = j)
              ELSE pairingDecisions[j]]

\* A boot of the backend: the requests of the process before it are gone, the
\* worker's are not.
Boot ==
    LET ends(i) == [source |-> linkDecisions[i].source,
                    target |-> linkDecisions[i].target]
    IN /\ \E node \in [Conversions -> PairingId] : Minted(node)
       /\ retired' = retired \cup
             {[decision |-> linkDecisions[i], reason |-> Reason(i)] : i \in Readable}
       /\ linkDecisions' = [i \in LinkId |->
             IF i \in Readable THEN NoDecision ELSE linkDecisions[i]]
       /\ implements' = implements \ {ends(i) : i \in Readable}
       /\ proposals' = {e \in proposals : ~SameDocument(mandated, e.source, e.target)}
       /\ deciding' = {}
       /\ settling' = {}
       /\ UNCHANGED <<catalogue, clauses, changeEdges, rebuilding>>

MInit == Init /\ retired = {}

MNext ==
    \/ Next /\ UNCHANGED retired
    \/ Boot

MSpec == MInit /\ [][MNext]_mvars

-----------------------------------------------------------------------------
(* Properties *)

Taken == {i \in LinkId : linkDecisions[i] # NoDecision /\ linkDecisions'[i] = NoDecision}

\* A step that takes a link verdict away keeps it with its reason; one it
\* converts stands, its answer carried over and turned older to newer; and no
\* pairing verdict that was there before changes.  Every other step keeps each
\* verdict or moves it with its clause.
Survive ==
    IF Taken = {}
    THEN /\ FollowClauses(linkDecisions, linkDecisions')
         /\ FollowClauses(pairingDecisions, pairingDecisions')
    ELSE /\ \A i \in Taken : \E r \in retired' :
              /\ r.decision = linkDecisions[i]
              /\ r.reason = "converted" =>
                  \E j \in PairingId :
                    /\ pairingDecisions[j] # pairingDecisions'[j]
                    /\ {pairingDecisions'[j].source, pairingDecisions'[j].target}
                         = {r.decision.source, r.decision.target}
                    /\ Precedes(pairingDecisions'[j].source.version,
                                pairingDecisions'[j].target.version)
                    /\ pairingDecisions'[j].verdict = "paired"
                         <=> r.decision.verdict = "approve"
         /\ \A i \in LinkId \ Taken : linkDecisions'[i] = linkDecisions[i]
         /\ \A j \in PairingId : pairingDecisions[j] # NoDecision =>
              pairingDecisions'[j] = pairingDecisions[j]

\* A boot loses no judgement and replaces none, whatever the boots, rebuilds and
\* reviewers before it left.
VerdictsSurvive == [][Survive]_mvars
=============================================================================
