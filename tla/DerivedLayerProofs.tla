------------------------- MODULE DerivedLayerProofs -------------------------
(* Proofs about the derived layer, for every value of its constants. *)
EXTENDS DerivedLayer, TLAPS

-----------------------------------------------------------------------------
(* Types *)

\* The id a clause is carried to is an id, whatever was read.
LEMMA CarriedType ==
    ASSUME NEW before \in SUBSET Obligation,
           NEW reading \in SUBSET Occurrence
    PROVE  Carried(before, reading) \in [Obligation -> Obligation]
<1>1. ASSUME NEW o \in Obligation,
             \E r \in reading : r.statement = o.statement
      PROVE  [o EXCEPT !.section =
                 (CHOOSE r \in reading : r.statement = o.statement).section]
                 \in Obligation
  <2> DEFINE chosen == CHOOSE r \in reading : r.statement = o.statement
  <2>1. chosen \in reading
    BY <1>1
  <2>2. chosen.section \in Section
    BY <2>1 DEF Occurrence
  <2> QED
    BY <2>2 DEF Obligation
<1> QED
  BY <1>1 DEF Carried

\* A retargeted verdict is a verdict of the same kind.
LEMMA RetargetedLink ==
    ASSUME NEW carried \in [Obligation -> Obligation],
           NEW decision \in LinkDecision
    PROVE  Retargeted(decision, carried) \in LinkDecision
BY DEF Retargeted, LinkDecision

LEMMA RetargetedPairing ==
    ASSUME NEW carried \in [Obligation -> Obligation],
           NEW decision \in PairingDecision
    PROVE  Retargeted(decision, carried) \in PairingDecision
BY DEF Retargeted, PairingDecision

\* A repoint touches recorded verdicts only.
LEMMA MovesAreRecorded ==
    ASSUME NEW decisions, NEW carried,
           NEW moves \in Movable(decisions, carried)
    PROVE  /\ moves \subseteq DOMAIN decisions
           /\ \A i \in moves : /\ decisions[i] # NoDecision
                               /\ Retargeted(decisions[i], carried) # decisions[i]
BY DEF Movable, Displaced

LEMMA RepointedLinkType ==
    ASSUME NEW decisions \in [LinkId -> LinkDecision \cup {NoDecision}],
           NEW carried \in [Obligation -> Obligation],
           NEW moves \in Movable(decisions, carried)
    PROVE  Repointed(decisions, carried, moves)
               \in [LinkId -> LinkDecision \cup {NoDecision}]
BY MovesAreRecorded, RetargetedLink DEF Repointed

LEMMA RepointedPairingType ==
    ASSUME NEW decisions \in [PairingId -> PairingDecision \cup {NoDecision}],
           NEW carried \in [Obligation -> Obligation],
           NEW moves \in Movable(decisions, carried)
    PROVE  Repointed(decisions, carried, moves)
               \in [PairingId -> PairingDecision \cup {NoDecision}]
BY MovesAreRecorded, RetargetedPairing DEF Repointed

\* A replay only adds pairs of clauses that are present.
LEMMA ReplayedType ==
    ASSUME NEW decisions, NEW present \in SUBSET Obligation, NEW held,
           NEW links \in SUBSET Pair
    PROVE  Replayed(decisions, present, held, links) \subseteq Pair
BY DEF Replayed, Verdicts, Pair

\* What one rebuild transaction reads and writes is typed.
LEMMA RebuildTypes ==
    ASSUME TypeOK, NEW run \in rebuilding,
           NEW reading \in SUBSET Passage[run.pipeline][run.version]
    PROVE  /\ run.version \in Version
           /\ run.pipeline \in Pipeline
           /\ reading \in SUBSET Occurrence
           /\ {ClauseOf(run.version, r) : r \in reading} \subseteq Obligation
           /\ MandatedBy(run.version) \in SUBSET Obligation
           /\ Carried(MandatedBy(run.version), reading)
                  \in [Obligation -> Obligation]
<1>1. run.version \in Version /\ run.pipeline \in Pipeline
  BY DEF TypeOK
<1>2. reading \in SUBSET Occurrence
  BY <1>1, PipelineAssumption
<1>3. {ClauseOf(run.version, r) : r \in reading} \subseteq Obligation
  BY <1>1, <1>2 DEF ClauseOf, Occurrence, Obligation
<1>4. MandatedBy(run.version) \in SUBSET Obligation
  BY DEF MandatedBy, TypeOK
<1> QED
  BY <1>1, <1>2, <1>3, <1>4, CarriedType

LEMMA TypeInit == Init => TypeOK
BY LegacyAssumption DEF Init, TypeOK

LEMMA TypeStep ==
    ASSUME TypeOK, [Next]_vars
    PROVE  TypeOK'
<1> USE DEF TypeOK
<1>1. CASE Upgrade
  BY <1>1 DEF Upgrade, clauses, decisionNodes, requests
<1>2. ASSUME NEW v \in Version, Ingest(v)
      PROVE  TypeOK'
  BY <1>2 DEF Ingest, MandatedBy, Without, ChangesWithout, decisionNodes, requests
<1>3. ASSUME NEW d \in Document, DeleteDocument(d)
      PROVE  TypeOK'
  BY <1>3 DEF DeleteDocument, decisionNodes, requests
<1>4. ASSUME NEW v \in Version, StartRebuild(v)
      PROVE  TypeOK'
  BY <1>4 DEF StartRebuild, catalogue, clauses, decisionNodes
<1>5. ASSUME NEW run \in rebuilding, AbandonRebuild(run)
      PROVE  TypeOK'
  BY <1>5 DEF AbandonRebuild, catalogue, clauses, decisionNodes
<1>6. ASSUME NEW run \in rebuilding,
             NEW reading \in SUBSET Passage[run.pipeline][run.version],
             NEW candidates \in SUBSET Candidates[run.version],
             WriteRebuild(run, reading, candidates)
      PROVE  TypeOK'
  <2> DEFINE before == MandatedBy(run.version)
             written == {ClauseOf(run.version, r) : r \in reading}
             carried == Carried(before, reading)
  <2>1. /\ run.version \in Version /\ run.pipeline \in Pipeline
        /\ written \subseteq Obligation
        /\ before \in SUBSET Obligation
        /\ carried \in [Obligation -> Obligation]
    BY RebuildTypes
  <2>2. linkDecisions' \in [LinkId -> LinkDecision \cup {NoDecision}]
    BY <1>6, <2>1, RepointedLinkType DEF WriteRebuild
  <2>3. pairingDecisions' \in [PairingId -> PairingDecision \cup {NoDecision}]
    BY <1>6, <2>1, RepointedPairingType DEF WriteRebuild
  <2>4. /\ obligations' = (obligations \ before) \cup written
        /\ mandated' = (mandated \ before) \cup written
        /\ anchored' = (anchored \ before) \cup written
    BY <1>6 DEF WriteRebuild
  <2>5. /\ obligations' \subseteq Obligation
        /\ mandated' \subseteq obligations'
    BY <2>1, <2>4
  <2>6. anchored' \subseteq obligations'
    BY <2>1, <2>4
  <2>7. implements' \subseteq Pair
    <3>1. Without(implements, before) \in SUBSET Pair
      BY DEF Without
    <3> QED
      BY <1>6, <2>5, <3>1, ReplayedType DEF WriteRebuild
  <2>8. proposals' \subseteq Pair
    BY <1>6 DEF WriteRebuild, Without, Proposed
  <2>9. changeEdges' \subseteq Change \X {"FROM_VERSION", "TO_VERSION", "AFFECTS"}
    BY <1>6 DEF WriteRebuild, ChangesWithout
  <2>10. /\ edition' \in [Version -> Pipeline \cup {Absent}]
         /\ rebuilding' \subseteq [version: Version, pipeline: Pipeline]
         /\ pipeline' \in Pipeline
         /\ earlier' \subseteq Version \X Version
         /\ deciding' \subseteq LinkDecision
         /\ settling' \subseteq PairingDecision
    BY <1>6, <2>1 DEF WriteRebuild
  <2> QED
    BY <2>2, <2>3, <2>5, <2>6, <2>7, <2>8, <2>9, <2>10
<1>7. ASSUME NEW e \in proposals, NEW verdict \in Verdict,
             CheckProposal(e, verdict)
      PROVE  TypeOK'
  BY <1>7 DEF CheckProposal, Pair, LinkDecision, catalogue, clauses, decisionNodes
<1>8. ASSUME NEW d \in deciding, RecordDecision(d)
      PROVE  TypeOK'
  <2>1. linkDecisions' \in [LinkId -> LinkDecision \cup {NoDecision}]
    BY <1>8 DEF RecordDecision
  <2>2. implements' \subseteq Pair
    BY <1>8, ReplayedType DEF RecordDecision
  <2> QED
    BY <1>8, <2>1, <2>2 DEF RecordDecision, catalogue, clauses
<1>9. ASSUME NEW o \in mandated, NEW p \in mandated,
             NEW verdict \in PairingVerdict, ResolvePair(o, p, verdict)
      PROVE  TypeOK'
  BY <1>9 DEF ResolvePair, PairingDecision, catalogue, clauses, decisionNodes
<1>10. ASSUME NEW d \in settling, RecordPairing(d)
       PROVE  TypeOK'
  BY <1>10 DEF RecordPairing, catalogue, clauses
<1>11. ASSUME NEW pair \in DiffPairs, Diff(pair[1], pair[2])
       PROVE  TypeOK'
  <2>1. pair[1] \in Version /\ pair[2] \in Version
    BY EditionsAssumption
  <2>2. changeEdges' \subseteq Change \X {"FROM_VERSION", "TO_VERSION", "AFFECTS"}
    <3> DEFINE v == pair[1]
               w == pair[2]
               old == Unmatched(v, w)
               new == Unmatched(w, v)
               Changed(o, kind) ==
                   [from |-> v, to |-> w, affects |-> o, kind |-> kind]
    <3>1. old \subseteq Obligation /\ new \subseteq Obligation
      BY DEF Unmatched, MandatedBy
    <3>2. \A o \in old \cup new : \A kind \in {"ADDED", "REMOVED", "MODIFIED"} :
            Changed(o, kind) \in Change
      BY <2>1, <3>1 DEF Change
    <3>3. PICK gone \in SUBSET old, come \in SUBSET new :
            changeEdges' =
                {e \in changeEdges :
                    ~ /\ e[1].from = v /\ e[1].to = w
                      /\ {"FROM_VERSION", "TO_VERSION"} \subseteq EdgesOf(e[1])}
                \cup
                ( {Changed(o, "REMOVED") : o \in gone}
                  \cup {Changed(o, "ADDED") : o \in come}
                  \cup {Changed(o, "MODIFIED") : o \in new \ come} )
                \X {"FROM_VERSION", "TO_VERSION", "AFFECTS"}
      BY <1>11 DEF Diff
    <3> DEFINE planned == {Changed(o, "REMOVED") : o \in gone}
                          \cup {Changed(o, "ADDED") : o \in come}
                          \cup {Changed(o, "MODIFIED") : o \in new \ come}
    <3>4. planned \subseteq Change
      BY <3>2
    <3>5. changeEdges' \subseteq
             changeEdges \cup (planned \X {"FROM_VERSION", "TO_VERSION", "AFFECTS"})
      BY <3>3
    <3> HIDE DEF planned
    <3> QED
      BY <3>4, <3>5
  <2> QED
    BY <1>11, <2>2 DEF Diff, catalogue, clauses, decisionNodes, requests
<1>12. CASE UNCHANGED vars
  BY <1>12 DEF vars
<1> QED
  BY <1>1, <1>2, <1>3, <1>4, <1>5, <1>6, <1>7, <1>8, <1>9, <1>10, <1>11, <1>12
     DEF Next

\* Every variable keeps its type, in every reachable state.
THEOREM TypeCorrect == Spec => []TypeOK
BY TypeInit, TypeStep, PTL DEF Spec

-----------------------------------------------------------------------------
(* One verdict per pair *)

\* Recording by MERGE cannot give a pair a second verdict.
LEMMA MergeKeepsKeys ==
    ASSUME NEW decisions, NEW id \in DOMAIN decisions, NEW decision,
           KeysUnique(decisions),
           Merges(decisions, id, decision.source, decision.target)
    PROVE  KeysUnique([decisions EXCEPT ![id] = decision])
BY DEF KeysUnique, Merges, Keyed

\* Nor can a repoint, whichever of the movable verdicts it moves.
LEMMA RepointKeepsKeys ==
    ASSUME NEW decisions, NEW carried, KeysUnique(decisions),
           NEW moves \in Movable(decisions, carried)
    PROVE  KeysUnique(Repointed(decisions, carried, moves))
<1> DEFINE Moved(i) == Retargeted(decisions[i], carried)
           after == Repointed(decisions, carried, moves)
<1>1. /\ moves \subseteq DOMAIN decisions
      /\ \A i \in moves : decisions[i] # NoDecision
  BY MovesAreRecorded
<1>2. \A i \in moves, j \in DOMAIN decisions :
         ~Keyed(decisions[j], Moved(i).source, Moved(i).target)
  BY DEF Movable
<1>3. \A i, j \in moves : SameKey(Moved(i), Moved(j)) => i = j
  BY DEF Movable
<1>4. /\ DOMAIN after = DOMAIN decisions
      /\ \A i \in DOMAIN decisions :
            after[i] = IF i \in moves THEN Moved(i) ELSE decisions[i]
  BY DEF Repointed
<1> SUFFICES ASSUME NEW i \in DOMAIN decisions, NEW j \in DOMAIN decisions,
                    after[i] # NoDecision,
                    Keyed(after[j], after[i].source, after[i].target)
             PROVE  i = j
  BY <1>4 DEF KeysUnique
<1> HIDE DEF Moved, after
<1>5. CASE i \in moves /\ j \in moves
  BY <1>3, <1>4, <1>5 DEF Keyed, SameKey
<1>6. CASE i \in moves /\ j \notin moves
  BY <1>2, <1>4, <1>6
<1>7. CASE i \notin moves /\ j \in moves
  BY <1>2, <1>4, <1>7 DEF Keyed
<1>8. CASE i \notin moves /\ j \notin moves
  BY <1>4, <1>8 DEF KeysUnique
<1> QED
  BY <1>5, <1>6, <1>7, <1>8

LEMMA OneVerdictInit == Init => OneVerdictPerPair
BY LegacyAssumption DEF Init, OneVerdictPerPair, KeysUnique

LEMMA OneVerdictStep ==
    ASSUME TypeOK, OneVerdictPerPair, [Next]_vars
    PROVE  OneVerdictPerPair'
<1> USE DEF OneVerdictPerPair
<1>1. ASSUME UNCHANGED <<linkDecisions, pairingDecisions>>
      PROVE  OneVerdictPerPair'
  BY <1>1 DEF KeysUnique, Keyed
<1>2. ASSUME NEW run \in rebuilding,
             NEW reading \in SUBSET Passage[run.pipeline][run.version],
             NEW candidates \in SUBSET Candidates[run.version],
             WriteRebuild(run, reading, candidates)
      PROVE  OneVerdictPerPair'
  <2>1. PICK moves \in Movable(linkDecisions,
                               Carried(MandatedBy(run.version), reading)) :
           linkDecisions' = Repointed(linkDecisions,
                               Carried(MandatedBy(run.version), reading), moves)
    BY <1>2 DEF WriteRebuild
  <2>2. PICK turned \in Movable(pairingDecisions,
                               Carried(MandatedBy(run.version), reading)) :
           pairingDecisions' = Repointed(pairingDecisions,
                               Carried(MandatedBy(run.version), reading), turned)
    BY <1>2 DEF WriteRebuild
  <2>3. KeysUnique(linkDecisions')
    BY <2>1, RepointKeepsKeys
  <2>4. KeysUnique(pairingDecisions')
    BY <2>2, RepointKeepsKeys
  <2> QED
    BY <2>3, <2>4
<1>3. ASSUME NEW d \in deciding, RecordDecision(d)
      PROVE  OneVerdictPerPair'
  <2>1. CASE UNCHANGED linkDecisions
    BY <1>1, <1>3, <2>1 DEF RecordDecision
  <2>2. CASE ~UNCHANGED linkDecisions
    <3>1. PICK id \in LinkId :
             /\ Merges(linkDecisions, id, d.source, d.target)
             /\ linkDecisions' = [linkDecisions EXCEPT ![id] = d]
      BY <1>3, <2>2 DEF RecordDecision
    <3>2. KeysUnique(linkDecisions')
      BY <3>1, MergeKeepsKeys DEF TypeOK
    <3>3. UNCHANGED pairingDecisions
      BY <1>3 DEF RecordDecision
    <3> QED
      BY <3>2, <3>3 DEF KeysUnique, Keyed
  <2> QED
    BY <2>1, <2>2
<1>4. ASSUME NEW d \in settling, RecordPairing(d)
      PROVE  OneVerdictPerPair'
  <2>1. CASE UNCHANGED pairingDecisions
    BY <1>1, <1>4, <2>1 DEF RecordPairing
  <2>2. CASE ~UNCHANGED pairingDecisions
    <3>1. PICK id \in PairingId :
             /\ Merges(pairingDecisions, id, d.source, d.target)
             /\ pairingDecisions' = [pairingDecisions EXCEPT ![id] = d]
      BY <1>4, <2>2 DEF RecordPairing
    <3>2. KeysUnique(pairingDecisions')
      BY <3>1, MergeKeepsKeys DEF TypeOK
    <3>3. UNCHANGED linkDecisions
      BY <1>4 DEF RecordPairing
    <3> QED
      BY <3>2, <3>3 DEF KeysUnique, Keyed
  <2> QED
    BY <2>1, <2>2
<1>5. CASE \/ Upgrade
           \/ \E v \in Version : Ingest(v)
           \/ \E d \in Document : DeleteDocument(d)
           \/ \E v \in Version : StartRebuild(v)
           \/ \E run \in rebuilding : AbandonRebuild(run)
           \/ \E e \in proposals, verdict \in Verdict : CheckProposal(e, verdict)
           \/ \E o, p \in mandated, verdict \in PairingVerdict :
                 ResolvePair(o, p, verdict)
           \/ \E pair \in DiffPairs : Diff(pair[1], pair[2])
           \/ UNCHANGED vars
  <2>1. UNCHANGED <<linkDecisions, pairingDecisions>>
    BY <1>5 DEF Upgrade, Ingest, DeleteDocument, StartRebuild, AbandonRebuild,
                CheckProposal, ResolvePair, Diff, decisionNodes, vars
  <2> QED
    BY <1>1, <2>1
<1> QED
  BY <1>2, <1>3, <1>4, <1>5 DEF Next

\* No pair ever has two verdicts, in either vocabulary: the key constraints can
\* never roll a rebuild back.
THEOREM OneVerdict == Spec => []OneVerdictPerPair
<1>1. TypeOK /\ OneVerdictPerPair /\ [Next]_vars
         => (TypeOK /\ OneVerdictPerPair)'
  BY TypeStep, OneVerdictStep
<1>2. Init => TypeOK /\ OneVerdictPerPair
  BY TypeInit, OneVerdictInit
<1> QED
  BY <1>1, <1>2, PTL DEF Spec

-----------------------------------------------------------------------------
(* Links and approvals *)

\* A clause the rebuild does not drop keeps its id.
LEMMA CarriedFixes ==
    ASSUME NEW before, NEW reading, NEW o \in Obligation, o \notin before
    PROVE  Carried(before, reading)[o] = o
BY DEF Carried

\* A pair is approved when some node says so.
LEMMA ApprovedPair ==
    ASSUME NEW decisions, NEW verdict, NEW e \in Verdicts(decisions, verdict)
    PROVE  \E i \in DOMAIN decisions :
              /\ decisions[i] # NoDecision
              /\ decisions[i].verdict = verdict
              /\ e = [source |-> decisions[i].source,
                      target |-> decisions[i].target]
BY DEF Verdicts

LEMMA VerdictIntro ==
    ASSUME NEW decisions, NEW i \in DOMAIN decisions, decisions[i] # NoDecision
    PROVE  [source |-> decisions[i].source, target |-> decisions[i].target]
              \in Verdicts(decisions, decisions[i].verdict)
BY DEF Verdicts

\* The heart of the argument.  A link that survives a rebuild joins two clauses
\* the rebuild did not drop; their ids are fixed, so the approval it rests on is
\* not displaced, cannot be moved, and stands where it stood.
LEMMA RepointLeavesSurvivors ==
    ASSUME NEW decisions \in [LinkId -> LinkDecision \cup {NoDecision}],
           NEW before \in SUBSET Obligation, NEW reading,
           NEW moves \in Movable(decisions, Carried(before, reading)),
           NEW links \in SUBSET Pair,
           links \subseteq Verdicts(decisions, "approve")
    PROVE  Without(links, before) \subseteq
              Verdicts(Repointed(decisions, Carried(before, reading), moves),
                       "approve")
<1> DEFINE carried == Carried(before, reading)
           after == Repointed(decisions, carried, moves)
<1> SUFFICES ASSUME NEW e \in Without(links, before)
             PROVE  e \in Verdicts(after, "approve")
  OBVIOUS
<1>1. /\ e \in Pair
      /\ e \in Verdicts(decisions, "approve")
      /\ e.source \notin before
      /\ e.target \notin before
  BY DEF Without
<1>2. PICK i \in DOMAIN decisions :
         /\ decisions[i] # NoDecision
         /\ decisions[i].verdict = "approve"
         /\ e = [source |-> decisions[i].source, target |-> decisions[i].target]
  BY <1>1, ApprovedPair
<1>3. decisions[i] \in LinkDecision
  BY <1>2
<1>4. /\ carried[decisions[i].source] = decisions[i].source
      /\ carried[decisions[i].target] = decisions[i].target
  BY <1>1, <1>2, <1>3, CarriedFixes DEF LinkDecision
<1>5. Retargeted(decisions[i], carried) = decisions[i]
  BY <1>3, <1>4 DEF Retargeted, LinkDecision
<1>6. i \notin moves
  BY <1>5, MovesAreRecorded
<1>7. i \in DOMAIN after /\ after[i] = decisions[i]
  BY <1>2, <1>6 DEF Repointed
<1> HIDE DEF after
<1> QED
  BY <1>2, <1>7, VerdictIntro

\* A replay links only approved pairs, given that those already linked are.
LEMMA ReplayLinksApproved ==
    ASSUME NEW decisions, NEW present, NEW held, NEW links,
           links \subseteq Verdicts(decisions, "approve")
    PROVE  Replayed(decisions, present, held, links)
              \subseteq Verdicts(decisions, "approve")
BY DEF Replayed

\* Re-deciding one pair takes an approval away from that pair only, and a
\* replay then suppresses it.
LEMMA RecordingRestsOnApproval ==
    ASSUME NEW decisions \in [LinkId -> LinkDecision \cup {NoDecision}],
           NEW id \in LinkId, NEW d \in LinkDecision,
           Merges(decisions, id, d.source, d.target),
           NEW present, NEW held, NEW links,
           links \subseteq Verdicts(decisions, "approve")
    PROVE  Replayed([decisions EXCEPT ![id] = d], present, held, links)
              \subseteq Verdicts([decisions EXCEPT ![id] = d], "approve")
<1> DEFINE after == [decisions EXCEPT ![id] = d]
<1> SUFFICES ASSUME NEW e \in Replayed(after, present, held, links)
             PROVE  e \in Verdicts(after, "approve")
  OBVIOUS
<1>1. d # NoDecision
  BY LegacyAssumption
<1>2. CASE e \in Verdicts(decisions, "approve")
  <2>1. PICK i \in LinkId :
           /\ decisions[i] # NoDecision
           /\ decisions[i].verdict = "approve"
           /\ e = [source |-> decisions[i].source, target |-> decisions[i].target]
    BY <1>2, ApprovedPair
  <2>2. CASE i # id
    <3>1. i \in DOMAIN after /\ after[i] = decisions[i]
      BY <2>2
    <3> HIDE DEF after
    <3> QED
      BY <2>1, <3>1, VerdictIntro
  <2>3. CASE i = id
    <3>1. e = [source |-> d.source, target |-> d.target]
      BY <2>1, <2>3 DEF Merges, Keyed
    <3>2. id \in DOMAIN after /\ after[id] = d
      OBVIOUS
    <3>3. e \notin Verdicts(after, "reject")
      BY DEF Replayed
    <3> HIDE DEF after
    <3>4. e \in Verdicts(after, d.verdict)
      BY <1>1, <3>1, <3>2, VerdictIntro
    <3>5. d.verdict \in {"approve", "reject"}
      BY DEF LinkDecision, Verdict
    <3> QED
      BY <3>3, <3>4, <3>5
  <2> QED
    BY <2>2, <2>3
<1>3. CASE e \notin Verdicts(decisions, "approve")
  BY <1>3 DEF Replayed
<1> QED
  BY <1>2, <1>3

LEMMA ApprovalStep ==
    ASSUME TypeOK, ImplementsRestsOnApproval, [Next]_vars
    PROVE  ImplementsRestsOnApproval'
<1> USE DEF ImplementsRestsOnApproval
<1>1. ASSUME UNCHANGED linkDecisions, implements' \subseteq implements
      PROVE  ImplementsRestsOnApproval'
  BY <1>1 DEF Verdicts
<1>2. ASSUME NEW run \in rebuilding,
             NEW reading \in SUBSET Passage[run.pipeline][run.version],
             NEW candidates \in SUBSET Candidates[run.version],
             WriteRebuild(run, reading, candidates)
      PROVE  ImplementsRestsOnApproval'
  <2> DEFINE before == MandatedBy(run.version)
             kept == Without(implements, before)
  <2>1. PICK moves \in Movable(linkDecisions, Carried(before, reading)) :
           linkDecisions' = Repointed(linkDecisions, Carried(before, reading), moves)
    BY <1>2 DEF WriteRebuild
  <2>2. kept \subseteq Verdicts(linkDecisions', "approve")
    <3>1. before \in SUBSET Obligation
      BY RebuildTypes
    <3> QED
      BY <2>1, <3>1, RepointLeavesSurvivors DEF TypeOK
  <2>3. implements' = Replayed(linkDecisions', obligations', mandated', kept)
    BY <1>2 DEF WriteRebuild
  <2> HIDE DEF kept
  <2>4. implements' \subseteq Verdicts(linkDecisions', "approve")
    BY <2>2, <2>3, ReplayLinksApproved
  <2> QED
    BY <2>4 DEF Verdicts
<1>3. ASSUME NEW d \in deciding, RecordDecision(d)
      PROVE  ImplementsRestsOnApproval'
  <2>1. CASE UNCHANGED <<linkDecisions, implements>>
    BY <1>1, <2>1
  <2>2. CASE ~UNCHANGED <<linkDecisions, implements>>
    <3>1. PICK id \in LinkId :
             /\ Merges(linkDecisions, id, d.source, d.target)
             /\ linkDecisions' = [linkDecisions EXCEPT ![id] = d]
      BY <1>3, <2>2 DEF RecordDecision
    <3>2. implements' = Replayed(linkDecisions', obligations, mandated, implements)
      BY <1>3, <2>2 DEF RecordDecision
    <3>3. implements' \subseteq Verdicts(linkDecisions', "approve")
      BY <3>1, <3>2, RecordingRestsOnApproval DEF TypeOK
    <3> QED
      BY <3>3 DEF Verdicts
  <2> QED
    BY <2>1, <2>2
<1>4. CASE \/ Upgrade
           \/ \E v \in Version : Ingest(v)
           \/ \E d \in Document : DeleteDocument(d)
           \/ \E v \in Version : StartRebuild(v)
           \/ \E run \in rebuilding : AbandonRebuild(run)
           \/ \E e \in proposals, verdict \in Verdict : CheckProposal(e, verdict)
           \/ \E o, p \in mandated, verdict \in PairingVerdict :
                 ResolvePair(o, p, verdict)
           \/ \E d \in settling : RecordPairing(d)
           \/ \E pair \in DiffPairs : Diff(pair[1], pair[2])
           \/ UNCHANGED vars
  <2>1. UNCHANGED linkDecisions /\ implements' \subseteq implements
    BY <1>4 DEF Upgrade, Ingest, DeleteDocument, StartRebuild, AbandonRebuild,
                CheckProposal, ResolvePair, RecordPairing, Diff, decisionNodes,
                Without, vars
  <2> QED
    BY <1>1, <2>1
<1> QED
  BY <1>2, <1>3, <1>4 DEF Next

\* No reachable graph holds an IMPLEMENTS edge nobody approved, whatever the
\* order of rebuilds, re-ingests, deletions and stale requests.
THEOREM Approved == Spec => []ImplementsRestsOnApproval
<1>1. TypeOK /\ ImplementsRestsOnApproval /\ [Next]_vars
         => (TypeOK /\ ImplementsRestsOnApproval)'
  BY TypeStep, ApprovalStep
<1>2. Init => TypeOK /\ ImplementsRestsOnApproval
  BY TypeInit DEF Init, ImplementsRestsOnApproval
<1> QED
  BY <1>1, <1>2, PTL DEF Spec

\* With one verdict per pair, a replay links every approval it can.
LEMMA ReplayLinksAllApproved ==
    ASSUME NEW decisions, KeysUnique(decisions),
           NEW present, NEW held, NEW links,
           NEW e \in Verdicts(decisions, "approve"),
           e.source \in present, e.target \in present,
           DocumentOf[e.source.version] # DocumentOf[e.target.version]
    PROVE  e \in Replayed(decisions, present, held, links)
<1>1. e \notin Verdicts(decisions, "reject")
  <2> SUFFICES ASSUME e \in Verdicts(decisions, "reject")
               PROVE  FALSE
    OBVIOUS
  <2>1. PICK i \in DOMAIN decisions :
           /\ decisions[i] # NoDecision
           /\ decisions[i].verdict = "approve"
           /\ e = [source |-> decisions[i].source, target |-> decisions[i].target]
    BY ApprovedPair
  <2>2. PICK j \in DOMAIN decisions :
           /\ decisions[j] # NoDecision
           /\ decisions[j].verdict = "reject"
           /\ e = [source |-> decisions[j].source, target |-> decisions[j].target]
    BY ApprovedPair
  <2>3. Keyed(decisions[j], decisions[i].source, decisions[i].target)
    BY <2>1, <2>2 DEF Keyed
  <2>4. i = j
    BY <2>1, <2>3 DEF KeysUnique
  <2> QED
    BY <2>1, <2>2, <2>4
<1> QED
  BY <1>1 DEF Replayed, SameDocument

LEMMA ApprovalsLinkedStep ==
    ASSUME TypeOK, OneVerdictPerPair, ApprovalsAreLinked, [Next]_vars
    PROVE  ApprovalsAreLinked'
<1>0. KeysUnique(linkDecisions')
  <2>1. OneVerdictPerPair'
    BY OneVerdictStep
  <2> QED
    BY <2>1 DEF OneVerdictPerPair, KeysUnique, Keyed
<1>1. ASSUME NEW present, NEW held, NEW links,
             obligations' = present,
             implements' = Replayed(linkDecisions', present, held, links)
      PROVE  ApprovalsAreLinked'
  <2> SUFFICES ASSUME NEW e \in Verdicts(linkDecisions', "approve"),
                      e.source \in obligations',
                      e.target \in obligations',
                      DocumentOf[e.source.version] # DocumentOf[e.target.version]
               PROVE  e \in implements'
    BY DEF ApprovalsAreLinked, Verdicts
  <2> QED
    BY <1>0, <1>1, ReplayLinksAllApproved
<1>2. ASSUME NEW dropped,
             UNCHANGED linkDecisions,
             obligations' \subseteq obligations \ dropped,
             implements' = Without(implements, dropped)
      PROVE  ApprovalsAreLinked'
  BY <1>2 DEF ApprovalsAreLinked, Verdicts, Without
<1>3. ASSUME UNCHANGED <<linkDecisions, obligations, implements>>
      PROVE  ApprovalsAreLinked'
  BY <1>3 DEF ApprovalsAreLinked, Verdicts
<1>4. ASSUME NEW v \in Version, Ingest(v)
      PROVE  ApprovalsAreLinked'
  BY <1>2, <1>4 DEF Ingest, decisionNodes
<1>5. ASSUME NEW run \in rebuilding,
             NEW reading \in SUBSET Passage[run.pipeline][run.version],
             NEW candidates \in SUBSET Candidates[run.version],
             WriteRebuild(run, reading, candidates)
      PROVE  ApprovalsAreLinked'
  BY <1>1, <1>5 DEF WriteRebuild
<1>6. ASSUME NEW d \in deciding, RecordDecision(d)
      PROVE  ApprovalsAreLinked'
  <2>1. obligations' = obligations
    BY <1>6 DEF RecordDecision, clauses
  <2> QED
    BY <1>1, <1>3, <1>6, <2>1 DEF RecordDecision
<1>7. CASE \/ Upgrade
           \/ \E d \in Document : DeleteDocument(d)
           \/ \E v \in Version : StartRebuild(v)
           \/ \E run \in rebuilding : AbandonRebuild(run)
           \/ \E e \in proposals, verdict \in Verdict : CheckProposal(e, verdict)
           \/ \E o, p \in mandated, verdict \in PairingVerdict :
                 ResolvePair(o, p, verdict)
           \/ \E d \in settling : RecordPairing(d)
           \/ \E pair \in DiffPairs : Diff(pair[1], pair[2])
           \/ UNCHANGED vars
  <2>1. UNCHANGED <<linkDecisions, obligations, implements>>
    BY <1>7 DEF Upgrade, DeleteDocument, StartRebuild, AbandonRebuild,
                CheckProposal, ResolvePair, RecordPairing, Diff, decisionNodes,
                clauses, vars
  <2> QED
    BY <1>3, <2>1
<1> QED
  BY <1>4, <1>5, <1>6, <1>7 DEF Next

\* Every approval whose clauses both exist is linked: recording and rebuilding
\* leave no approval waiting for a later replay.
THEOREM ApprovalsLinked == Spec => []ApprovalsAreLinked
<1> DEFINE Inv == TypeOK /\ OneVerdictPerPair /\ ApprovalsAreLinked
<1>1. Inv /\ [Next]_vars => Inv'
  BY TypeStep, OneVerdictStep, ApprovalsLinkedStep
<1>2. Init => Inv
  BY TypeInit, OneVerdictInit DEF Init, ApprovalsAreLinked
<1>3. Inv => ApprovalsAreLinked
  OBVIOUS
<1> QED
  BY <1>1, <1>2, <1>3, PTL DEF Spec

-----------------------------------------------------------------------------
(* Citations *)

LEMMA AnchorStep ==
    ASSUME MandatedIsAnchored, [Next]_vars
    PROVE  MandatedIsAnchored'
<1> USE DEF MandatedIsAnchored
<1>1. ASSUME NEW v \in Version, Ingest(v)
      PROVE  MandatedIsAnchored'
  BY <1>1 DEF Ingest
<1>2. ASSUME NEW d \in Document, DeleteDocument(d)
      PROVE  MandatedIsAnchored'
  BY <1>2 DEF DeleteDocument
<1>3. ASSUME NEW run \in rebuilding,
             NEW reading \in SUBSET Passage[run.pipeline][run.version],
             NEW candidates \in SUBSET Candidates[run.version],
             WriteRebuild(run, reading, candidates)
      PROVE  MandatedIsAnchored'
  <2>1. PICK before, written : /\ mandated' = (mandated \ before) \cup written
                               /\ anchored' = (anchored \ before) \cup written
    BY <1>3 DEF WriteRebuild
  <2> QED
    BY <2>1
<1>4. CASE \/ Upgrade
           \/ \E v \in Version : StartRebuild(v)
           \/ \E run \in rebuilding : AbandonRebuild(run)
           \/ \E e \in proposals, verdict \in Verdict : CheckProposal(e, verdict)
           \/ \E d \in deciding : RecordDecision(d)
           \/ \E o, p \in mandated, verdict \in PairingVerdict :
                 ResolvePair(o, p, verdict)
           \/ \E d \in settling : RecordPairing(d)
           \/ \E pair \in DiffPairs : Diff(pair[1], pair[2])
           \/ UNCHANGED vars
  BY <1>4 DEF Upgrade, StartRebuild, AbandonRebuild, CheckProposal,
              RecordDecision, ResolvePair, RecordPairing, Diff, clauses, vars
<1> QED
  BY <1>1, <1>2, <1>3, <1>4 DEF Next

\* No edition ever lists a clause whose passage cannot be cited.
THEOREM Anchored == Spec => []MandatedIsAnchored
<1>1. Init => MandatedIsAnchored
  BY DEF Init, MandatedIsAnchored
<1> QED
  BY <1>1, AnchorStep, PTL DEF Spec
-----------------------------------------------------------------------------
(* Changes *)

\* What a change's edges are, one by one.
LEMMA EdgeOf ==
    ASSUME TypeOK, NEW c, NEW kind
    PROVE  kind \in EdgesOf(c) <=> <<c, kind>> \in changeEdges
<1>1. \A e \in changeEdges : e = <<e[1], e[2]>>
  BY DEF TypeOK
<1> QED
  BY <1>1 DEF EdgesOf

\* The strengthening: a listed change affects a clause of one of its editions,
\* which is what brings it down with the clause.
TracedTo(c, edges, held) ==
    <<c, "FROM_VERSION">> \in edges /\ <<c, "TO_VERSION">> \in edges =>
        /\ <<c, "AFFECTS">> \in edges
        /\ c.affects \in held
        /\ c.affects.version \in {c.from, c.to}

Traced == \A c \in Change : TracedTo(c, changeEdges, mandated)

\* Dropping a side's changes with its clauses leaves the rest traced.
LEMMA DropKeepsTraced ==
    ASSUME TypeOK, Traced, NEW v \in Version, NEW held,
           mandated \ MandatedBy(v) \subseteq held
    PROVE  \A c \in Change : TracedTo(c, ChangesWithout(v, MandatedBy(v)), held)
<1> SUFFICES ASSUME NEW c \in Change,
                    <<c, "FROM_VERSION">> \in ChangesWithout(v, MandatedBy(v)),
                    <<c, "TO_VERSION">> \in ChangesWithout(v, MandatedBy(v))
             PROVE  /\ <<c, "AFFECTS">> \in ChangesWithout(v, MandatedBy(v))
                    /\ c.affects \in held
                    /\ c.affects.version \in {c.from, c.to}
  BY DEF TracedTo
<1>1. /\ <<c, "FROM_VERSION">> \in changeEdges
      /\ <<c, "TO_VERSION">> \in changeEdges
      /\ ~Touches(c, v)
  BY DEF ChangesWithout
<1>2. /\ <<c, "AFFECTS">> \in changeEdges
      /\ c.affects \in mandated
      /\ c.affects.version \in {c.from, c.to}
  BY <1>1 DEF Traced, TracedTo
<1>3. c.affects \notin MandatedBy(v)
  BY <1>1, <1>2, EdgeOf DEF Touches, MandatedBy
<1> QED
  BY <1>1, <1>2, <1>3 DEF ChangesWithout

LEMMA TracedStep ==
    ASSUME TypeOK, Traced, [Next]_vars
    PROVE  Traced'
<1>1. ASSUME NEW v \in Version, Ingest(v)
      PROVE  Traced'
  <2>1. \A c \in Change : TracedTo(c, changeEdges', mandated')
    BY <1>1, DropKeepsTraced DEF Ingest
  <2> QED
    BY <2>1 DEF Traced, TracedTo
<1>2. ASSUME NEW d \in Document, DeleteDocument(d)
      PROVE  Traced'
  <2>1. PICK gone : /\ mandated' = {o \in mandated : o.version \notin gone}
                    /\ changeEdges' =
                         {e \in changeEdges :
                             /\ ~(e[2] = "FROM_VERSION" /\ e[1].from \in gone)
                             /\ ~(e[2] = "TO_VERSION" /\ e[1].to \in gone)}
    BY <1>2 DEF DeleteDocument
  <2> QED
    BY <2>1 DEF Traced, TracedTo
<1>3. ASSUME NEW run \in rebuilding,
             NEW reading \in SUBSET Passage[run.pipeline][run.version],
             NEW candidates \in SUBSET Candidates[run.version],
             WriteRebuild(run, reading, candidates)
      PROVE  Traced'
  <2>1. /\ changeEdges' = ChangesWithout(run.version, MandatedBy(run.version))
        /\ mandated \ MandatedBy(run.version) \subseteq mandated'
    BY <1>3 DEF WriteRebuild
  <2>2. run.version \in Version
    BY DEF TypeOK
  <2>3. \A c \in Change : TracedTo(c, changeEdges', mandated')
    BY <2>1, <2>2, DropKeepsTraced
  <2> QED
    BY <2>3 DEF Traced, TracedTo
<1>4. ASSUME NEW pair \in DiffPairs, Diff(pair[1], pair[2])
      PROVE  Traced'
  <2> DEFINE v == pair[1]
             w == pair[2]
             Previous(c) == /\ c.from = v /\ c.to = w
                            /\ {"FROM_VERSION", "TO_VERSION"} \subseteq EdgesOf(c)
             kinds == {"FROM_VERSION", "TO_VERSION", "AFFECTS"}
  <2>1. PICK gone \in SUBSET Unmatched(v, w), come \in SUBSET Unmatched(w, v) :
           changeEdges' = {e \in changeEdges : ~Previous(e[1])} \cup
             ( {[from |-> v, to |-> w, affects |-> o, kind |-> "REMOVED"] : o \in gone}
               \cup {[from |-> v, to |-> w, affects |-> o, kind |-> "ADDED"] : o \in come}
               \cup {[from |-> v, to |-> w, affects |-> o, kind |-> "MODIFIED"] :
                       o \in Unmatched(w, v) \ come} )
             \X kinds
    BY <1>4 DEF Diff
  <2> DEFINE written ==
          {[from |-> v, to |-> w, affects |-> o, kind |-> "REMOVED"] : o \in gone}
          \cup {[from |-> v, to |-> w, affects |-> o, kind |-> "ADDED"] : o \in come}
          \cup {[from |-> v, to |-> w, affects |-> o, kind |-> "MODIFIED"] :
                  o \in Unmatched(w, v) \ come}
  <2>2. mandated' = mandated
    BY <1>4 DEF Diff, clauses
  <2>3. \A c \in written : /\ c.affects \in mandated
                           /\ c.affects.version \in {c.from, c.to}
    BY DEF Unmatched, MandatedBy
  <2>4. changeEdges' = {e \in changeEdges : ~Previous(e[1])} \cup (written \X kinds)
    BY <2>1
  <2> HIDE DEF written, Previous
  <2>5. ASSUME NEW c \in Change
        PROVE  TracedTo(c, changeEdges', mandated')
    <3>1. CASE c \in written
      <4>1. /\ <<c, "AFFECTS">> \in changeEdges'
            /\ c.affects \in mandated
            /\ c.affects.version \in {c.from, c.to}
        BY <2>3, <2>4, <3>1
      <4> QED
        BY <2>2, <4>1 DEF TracedTo
    <3>2. CASE c \notin written
      <4>1. \A kind : <<c, kind>> \in changeEdges' <=>
                          <<c, kind>> \in changeEdges /\ ~Previous(c)
        BY <2>4, <3>2
      <4>2. TracedTo(c, changeEdges, mandated)
        BY DEF Traced
      <4> HIDE DEF kinds
      <4> QED
        BY <2>2, <4>1, <4>2 DEF TracedTo
    <3> QED
      BY <3>1, <3>2
  <2> QED
    BY <2>5 DEF Traced, TracedTo
<1>5. CASE \/ Upgrade
           \/ \E v \in Version : StartRebuild(v)
           \/ \E run \in rebuilding : AbandonRebuild(run)
           \/ \E e \in proposals, verdict \in Verdict : CheckProposal(e, verdict)
           \/ \E d \in deciding : RecordDecision(d)
           \/ \E o, p \in mandated, verdict \in PairingVerdict :
                 ResolvePair(o, p, verdict)
           \/ \E d \in settling : RecordPairing(d)
           \/ UNCHANGED vars
  <2>1. UNCHANGED <<changeEdges, mandated>>
    BY <1>5 DEF Upgrade, StartRebuild, AbandonRebuild, CheckProposal,
                RecordDecision, ResolvePair, RecordPairing, clauses, vars
  <2> QED
    BY <2>1 DEF Traced, TracedTo
<1> QED
  BY <1>1, <1>2, <1>3, <1>4, <1>5 DEF Next

\* No change outlives the clause it affects, on either side of its pair.
THEOREM Traceable == Spec => []ChangesTraceable
<1>1. TypeOK /\ Traced /\ [Next]_vars => (TypeOK /\ Traced)'
  BY TypeStep, TracedStep
<1>2. Init => TypeOK /\ Traced
  BY TypeInit DEF Init, Traced, TracedTo
<1>3. TypeOK /\ Traced => ChangesTraceable
  BY EdgeOf DEF TypeOK, Traced, TracedTo, ChangesTraceable
<1> QED
  BY <1>1, <1>2, <1>3, PTL DEF Spec
-----------------------------------------------------------------------------
(* Verdicts follow their clause *)

\* What re-keys a clause: it alone bore its wording, and its wording was read
\* exactly once.
LEMMA CarriedMoves ==
    ASSUME NEW before, NEW reading,
           NEW o \in Obligation,
           NEW p, p = Carried(before, reading)[o], p # o
    PROVE  /\ o \in before
           /\ \A b \in before : b.statement = o.statement => b = o
           /\ \E r \in reading :
                /\ p = ClauseOf(o.version, r)
                /\ r.statement = o.statement
                /\ \A q \in reading : q.statement = o.statement => q = r
<1> DEFINE chosen == CHOOSE r \in reading : r.statement = o.statement
<1>1. /\ o \in before
      /\ \A b \in before : b.statement = o.statement => b = o
      /\ \E r \in reading :
            /\ r.statement = o.statement
            /\ \A q \in reading : q.statement = o.statement => q = r
      /\ p = [o EXCEPT !.section = chosen.section]
  BY DEF Carried
<1>2. PICK r \in reading :
         /\ r.statement = o.statement
         /\ \A q \in reading : q.statement = o.statement => q = r
  BY <1>1
<1>3. chosen \in reading /\ chosen.statement = o.statement
  BY <1>2
<1>4. chosen = r
  BY <1>2, <1>3
<1> HIDE DEF chosen
<1>5. [o EXCEPT !.section = chosen.section] = ClauseOf(o.version, r)
  BY <1>2, <1>4 DEF Obligation, ClauseOf
<1> QED
  BY <1>1, <1>2, <1>5

\* So a re-keyed clause alone bears its wording, before and after.
LEMMA CarriedAlone ==
    ASSUME NEW v, NEW reading,
           mandated' = (mandated \ MandatedBy(v)) \cup {ClauseOf(v, r) : r \in reading},
           NEW o \in Obligation,
           NEW p, p = Carried(MandatedBy(v), reading)[o], p # o
    PROVE  SameWording(o, p) /\ Alone(o, mandated) /\ Alone(p, mandated')
<1>1. /\ o \in MandatedBy(v)
      /\ \A b \in MandatedBy(v) : b.statement = o.statement => b = o
  BY CarriedMoves
<1>2. PICK r \in reading :
         /\ p = ClauseOf(o.version, r)
         /\ r.statement = o.statement
         /\ \A q \in reading : q.statement = o.statement => q = r
  BY CarriedMoves
<1>3. o.version = v /\ o \in mandated
  BY <1>1 DEF MandatedBy
<1>4. Alone(o, mandated)
  BY <1>1, <1>3 DEF Alone, MandatedBy
<1>5. SameWording(o, p)
  BY <1>2, <1>3 DEF SameWording, ClauseOf
<1>6. Alone(p, mandated')
  <2>1. p \in mandated'
    BY <1>2, <1>3
  <2>2. p.version = v /\ p.statement = o.statement
    BY <1>2, <1>3 DEF ClauseOf
  <2>3. ASSUME NEW c \in mandated', c.version = v, c.statement = o.statement
        PROVE  c = p
    <3>1. PICK q \in reading : c = ClauseOf(v, q)
      BY <2>3 DEF MandatedBy
    <3>2. q.statement = o.statement
      BY <2>3, <3>1 DEF ClauseOf
    <3> QED
      BY <1>2, <1>3, <3>1, <3>2
  <2> QED
    BY <2>1, <2>2, <2>3 DEF Alone
<1> QED
  BY <1>4, <1>5, <1>6

\* FollowClauses, of one node.
Follows(decision, moved, held, after) ==
    /\ moved # NoDecision
    /\ ~SameKey(decision, moved) => decision.verdict = moved.verdict
    /\ decision.source # moved.source =>
          /\ SameWording(decision.source, moved.source)
          /\ Alone(decision.source, held)
          /\ Alone(moved.source, after)
    /\ decision.target # moved.target =>
          /\ SameWording(decision.target, moved.target)
          /\ Alone(decision.target, held)
          /\ Alone(moved.target, after)

LEMMA FollowsEach ==
    ASSUME NEW before, NEW after,
           \A i \in DOMAIN before : before[i] # NoDecision =>
               Follows(before[i], after[i], mandated, mandated')
    PROVE  FollowClauses(before, after)
BY DEF FollowClauses, Follows

\* What stands where it stood follows its clause, whatever its answer.
LEMMA StandingFollows ==
    ASSUME NEW decision, NEW moved, moved # NoDecision,
           SameKey(decision, moved), NEW held, NEW after
    PROVE  Follows(decision, moved, held, after)
BY DEF Follows, SameKey

LEMMA UnchangedFollows ==
    ASSUME NEW decisions
    PROVE  FollowClauses(decisions, decisions)
<1>1. \A i \in DOMAIN decisions : decisions[i] # NoDecision =>
         Follows(decisions[i], decisions[i], mandated, mandated')
  BY StandingFollows DEF SameKey
<1> QED
  BY <1>1, FollowsEach

LEMMA MergeFollows ==
    ASSUME NEW decisions, NEW id \in DOMAIN decisions,
           NEW d, d # NoDecision, Merges(decisions, id, d.source, d.target)
    PROVE  FollowClauses(decisions, [decisions EXCEPT ![id] = d])
<1> DEFINE after == [decisions EXCEPT ![id] = d]
<1> SUFFICES ASSUME NEW i \in DOMAIN decisions, decisions[i] # NoDecision
             PROVE  Follows(decisions[i], after[i], mandated, mandated')
  BY FollowsEach
<1>1. after[i] # NoDecision /\ SameKey(decisions[i], after[i])
  BY DEF Merges, Keyed, SameKey
<1> HIDE DEF after
<1> QED
  BY <1>1, StandingFollows

\* Both vocabularies share what a repoint needs to know of a verdict.
Judged(decision) ==
    /\ decision.source \in Obligation
    /\ decision.target \in Obligation
    /\ \A carried \in [Obligation -> Obligation] :
          /\ Retargeted(decision, carried) # NoDecision
          /\ Retargeted(decision, carried).verdict = decision.verdict
          /\ Retargeted(decision, carried).source = carried[decision.source]
          /\ Retargeted(decision, carried).target = carried[decision.target]

LEMMA LinksAreJudged == \A d \in LinkDecision : Judged(d)
<1> SUFFICES ASSUME NEW d \in LinkDecision,
                    NEW carried \in [Obligation -> Obligation]
             PROVE  /\ d.source \in Obligation /\ d.target \in Obligation
                    /\ Retargeted(d, carried) # NoDecision
                    /\ Retargeted(d, carried).verdict = d.verdict
                    /\ Retargeted(d, carried).source = carried[d.source]
                    /\ Retargeted(d, carried).target = carried[d.target]
  BY DEF Judged, LinkDecision
<1>1. Retargeted(d, carried) # NoDecision
  BY RetargetedLink, LegacyAssumption
<1> QED
  BY <1>1 DEF Retargeted, LinkDecision

LEMMA PairingsAreJudged == \A d \in PairingDecision : Judged(d)
<1> SUFFICES ASSUME NEW d \in PairingDecision,
                    NEW carried \in [Obligation -> Obligation]
             PROVE  /\ d.source \in Obligation /\ d.target \in Obligation
                    /\ Retargeted(d, carried) # NoDecision
                    /\ Retargeted(d, carried).verdict = d.verdict
                    /\ Retargeted(d, carried).source = carried[d.source]
                    /\ Retargeted(d, carried).target = carried[d.target]
  BY DEF Judged, PairingDecision
<1>1. Retargeted(d, carried) # NoDecision
  BY RetargetedPairing, LegacyAssumption
<1> QED
  BY <1>1 DEF Retargeted, PairingDecision

LEMMA RebuildFollows ==
    ASSUME TypeOK, NEW run \in rebuilding,
           NEW reading \in SUBSET Passage[run.pipeline][run.version],
           mandated' = (mandated \ MandatedBy(run.version))
                          \cup {ClauseOf(run.version, r) : r \in reading},
           NEW decisions,
           \A i \in DOMAIN decisions :
               decisions[i] # NoDecision => Judged(decisions[i]),
           NEW moves \in Movable(decisions, Carried(MandatedBy(run.version), reading))
    PROVE  FollowClauses(decisions,
               Repointed(decisions, Carried(MandatedBy(run.version), reading), moves))
<1> DEFINE carried == Carried(MandatedBy(run.version), reading)
           after == Repointed(decisions, carried, moves)
<1> SUFFICES ASSUME NEW i \in DOMAIN decisions, decisions[i] # NoDecision
             PROVE  Follows(decisions[i], after[i], mandated, mandated')
  BY FollowsEach
<1>1. CASE i \notin moves
  <2>1. after[i] = decisions[i]
    BY <1>1 DEF Repointed
  <2> HIDE DEF after
  <2> QED
    BY <2>1, StandingFollows DEF SameKey
<1>2. CASE i \in moves
  <2> DEFINE d == decisions[i]
  <2>1. /\ run.version \in Version
        /\ reading \in SUBSET Occurrence
        /\ carried \in [Obligation -> Obligation]
    BY RebuildTypes
  <2>2. \A o \in Obligation : carried[o] # o =>
           /\ SameWording(o, carried[o])
           /\ Alone(o, mandated)
           /\ Alone(carried[o], mandated')
    <3> SUFFICES ASSUME NEW o \in Obligation, NEW p, p = carried[o], p # o
                 PROVE  SameWording(o, p) /\ Alone(o, mandated) /\ Alone(p, mandated')
      OBVIOUS
    <3> QED
      BY CarriedAlone
  <2>3. after[i] = Retargeted(d, carried)
    BY <1>2 DEF Repointed
  <2>4. Judged(d)
    OBVIOUS
  <2> HIDE DEF after, carried, d
  <2>5. /\ d.source \in Obligation /\ d.target \in Obligation
        /\ after[i] # NoDecision
        /\ after[i].verdict = d.verdict
        /\ after[i].source = carried[d.source]
        /\ after[i].target = carried[d.target]
    BY <2>1, <2>3, <2>4 DEF Judged
  <2>6. Follows(d, after[i], mandated, mandated')
    BY <2>2, <2>5 DEF Follows
  <2> QED
    BY <2>6 DEF d
<1> QED
  BY <1>1, <1>2

LEMMA FollowStep ==
    ASSUME TypeOK, [Next]_vars
    PROVE  /\ FollowClauses(linkDecisions, linkDecisions')
           /\ FollowClauses(pairingDecisions, pairingDecisions')
<1>1. ASSUME NEW run \in rebuilding,
             NEW reading \in SUBSET Passage[run.pipeline][run.version],
             NEW candidates \in SUBSET Candidates[run.version],
             WriteRebuild(run, reading, candidates)
      PROVE  /\ FollowClauses(linkDecisions, linkDecisions')
             /\ FollowClauses(pairingDecisions, pairingDecisions')
  <2> DEFINE carried == Carried(MandatedBy(run.version), reading)
  <2>1. mandated' = (mandated \ MandatedBy(run.version))
                       \cup {ClauseOf(run.version, r) : r \in reading}
    BY <1>1 DEF WriteRebuild
  <2>2. PICK moves \in Movable(linkDecisions, carried) :
           linkDecisions' = Repointed(linkDecisions, carried, moves)
    BY <1>1 DEF WriteRebuild
  <2>3. PICK turned \in Movable(pairingDecisions, carried) :
           pairingDecisions' = Repointed(pairingDecisions, carried, turned)
    BY <1>1 DEF WriteRebuild
  <2>4. /\ \A i \in DOMAIN linkDecisions :
              linkDecisions[i] # NoDecision => Judged(linkDecisions[i])
        /\ \A i \in DOMAIN pairingDecisions :
              pairingDecisions[i] # NoDecision => Judged(pairingDecisions[i])
    BY LinksAreJudged, PairingsAreJudged DEF TypeOK
  <2> QED
    BY <2>1, <2>2, <2>3, <2>4, RebuildFollows
<1>2. ASSUME NEW d \in deciding, RecordDecision(d)
      PROVE  /\ FollowClauses(linkDecisions, linkDecisions')
             /\ FollowClauses(pairingDecisions, pairingDecisions')
  <2>1. pairingDecisions' = pairingDecisions
    BY <1>2 DEF RecordDecision
  <2>2. d # NoDecision
    BY LegacyAssumption DEF TypeOK
  <2>3. CASE linkDecisions' = linkDecisions
    BY <2>1, <2>3, UnchangedFollows
  <2>4. CASE linkDecisions' # linkDecisions
    <3>1. PICK id \in LinkId :
             /\ Merges(linkDecisions, id, d.source, d.target)
             /\ linkDecisions' = [linkDecisions EXCEPT ![id] = d]
      BY <1>2, <2>4 DEF RecordDecision
    <3>2. id \in DOMAIN linkDecisions
      BY DEF TypeOK
    <3> QED
      BY <2>1, <2>2, <3>1, <3>2, UnchangedFollows, MergeFollows
  <2> QED
    BY <2>3, <2>4
<1>3. ASSUME NEW d \in settling, RecordPairing(d)
      PROVE  /\ FollowClauses(linkDecisions, linkDecisions')
             /\ FollowClauses(pairingDecisions, pairingDecisions')
  <2>1. linkDecisions' = linkDecisions
    BY <1>3 DEF RecordPairing
  <2>2. d # NoDecision
    BY LegacyAssumption DEF TypeOK
  <2>3. CASE pairingDecisions' = pairingDecisions
    BY <2>1, <2>3, UnchangedFollows
  <2>4. CASE pairingDecisions' # pairingDecisions
    <3>1. PICK id \in PairingId :
             /\ Merges(pairingDecisions, id, d.source, d.target)
             /\ pairingDecisions' = [pairingDecisions EXCEPT ![id] = d]
      BY <1>3, <2>4 DEF RecordPairing
    <3>2. id \in DOMAIN pairingDecisions
      BY DEF TypeOK
    <3> QED
      BY <2>1, <2>2, <3>1, <3>2, UnchangedFollows, MergeFollows
  <2> QED
    BY <2>3, <2>4
<1>4. CASE \/ Upgrade
           \/ \E v \in Version : Ingest(v)
           \/ \E d \in Document : DeleteDocument(d)
           \/ \E v \in Version : StartRebuild(v)
           \/ \E run \in rebuilding : AbandonRebuild(run)
           \/ \E e \in proposals, verdict \in Verdict : CheckProposal(e, verdict)
           \/ \E o, p \in mandated, verdict \in PairingVerdict :
                 ResolvePair(o, p, verdict)
           \/ \E pair \in DiffPairs : Diff(pair[1], pair[2])
           \/ UNCHANGED vars
  <2>1. linkDecisions' = linkDecisions /\ pairingDecisions' = pairingDecisions
    BY <1>4 DEF Upgrade, Ingest, DeleteDocument, StartRebuild, AbandonRebuild,
                CheckProposal, ResolvePair, Diff, decisionNodes, vars
  <2> QED
    BY <2>1, UnchangedFollows
<1> QED
  BY <1>1, <1>2, <1>3, <1>4 DEF Next

\* No step ever loses a verdict, changes the answer of one that moves, or moves
\* one to a clause that does not alone bear the wording that was judged.
THEOREM VerdictsFollow == Spec => VerdictsFollowTheirClause
<1>1. TypeOK /\ [Next]_vars => TypeOK'
  BY TypeStep
<1>2. TypeOK /\ [Next]_vars =>
        [ /\ FollowClauses(linkDecisions, linkDecisions')
          /\ FollowClauses(pairingDecisions, pairingDecisions') ]_vars
  BY FollowStep
<1> QED
  BY TypeInit, <1>1, <1>2, PTL DEF Spec, VerdictsFollowTheirClause
-----------------------------------------------------------------------------
(* One live pairing *)

\* What OneLivePairing asks of two live verdicts.
Apart(d, e) ==
    /\ d.source = e.source => d.target.version # e.target.version
    /\ d.target = e.target => d.source.version # e.source.version
    /\ d.source = e.target /\ d.target # e.source =>
          d.target.version # e.source.version

\* A verdict that will be applied, in a state that mandates `held`.
Applied(d, held) ==
    /\ d # NoDecision
    /\ d.verdict = "paired"
    /\ d.source \in held
    /\ d.target \in held

AllApart(decisions, held) ==
    \A i, j \in PairingId :
        Applied(decisions[i], held) /\ Applied(decisions[j], held) /\ i # j
            => Apart(decisions[i], decisions[j])

LEMMA OneLiveIsAllApart ==
    /\ OneLivePairing <=> AllApart(pairingDecisions, mandated)
    /\ OneLivePairing' <=> AllApart(pairingDecisions', mandated')
BY DEF OneLivePairing, LivePairing, AllApart, Applied, Apart

\* The conflict check, read both ways, and the key together keep a verdict
\* apart from every live one.
LEMMA UncontestedIsApart ==
    ASSUME NEW d, NEW id \in PairingId, NEW j \in PairingId, j # id,
           KeysUnique(pairingDecisions), PairingId = DOMAIN pairingDecisions,
           Merges(pairingDecisions, id, d.source, d.target),
           ~Conflicting(d.source, d.target), ~Conflicting(d.target, d.source),
           Applied(pairingDecisions[j], mandated)
    PROVE  Apart(d, pairingDecisions[j]) /\ Apart(pairingDecisions[j], d)
<1> DEFINE e == pairingDecisions[j]
<1>1. /\ e # NoDecision /\ e.verdict = "paired"
      /\ e.source \in mandated /\ e.target \in mandated
  BY DEF Applied
<1>2. ~(e.source = d.source /\ e.target = d.target)
  <2>1. CASE Keyed(pairingDecisions[id], d.source, d.target)
    BY <1>1, <2>1 DEF KeysUnique, Keyed
  <2>2. CASE \A i \in PairingId : ~Keyed(pairingDecisions[i], d.source, d.target)
    BY <1>1, <2>2 DEF Keyed
  <2> QED
    BY <2>1, <2>2 DEF Merges
<1>3. \A o, partner : ~Conflicting(o, partner) =>
         /\ e.source = o /\ e.target # partner =>
               e.target.version # partner.version
         /\ e.target = o /\ e.source # partner =>
               e.source.version # partner.version
  BY <1>1 DEF Conflicting, MandatedBy
<1>4. /\ e.source = d.source /\ e.target # d.target =>
            e.target.version # d.target.version
      /\ e.target = d.source /\ e.source # d.target =>
            e.source.version # d.target.version
      /\ e.source = d.target /\ e.target # d.source =>
            e.target.version # d.source.version
      /\ e.target = d.target /\ e.source # d.source =>
            e.source.version # d.source.version
  BY <1>3
<1> HIDE DEF e
<1>5. Apart(d, e) /\ Apart(e, d)
  BY <1>2, <1>4 DEF Apart
<1> QED
  BY <1>5 DEF e

LEMMA RecordingKeepsApart ==
    ASSUME TypeOK, OneVerdictPerPair, NEW d \in settling, RecordPairing(d),
           AllApart(pairingDecisions, mandated)
    PROVE  AllApart(pairingDecisions', mandated)
<1>1. CASE pairingDecisions' = pairingDecisions
  BY <1>1
<1>2. CASE pairingDecisions' # pairingDecisions
  <2>1. PICK id \in PairingId :
           /\ Merges(pairingDecisions, id, d.source, d.target)
           /\ pairingDecisions' = [pairingDecisions EXCEPT ![id] = d]
    BY <1>2 DEF RecordPairing
  <2>2. d.verdict = "paired" =>
           ~Conflicting(d.source, d.target) /\ ~Conflicting(d.target, d.source)
    BY <1>2 DEF RecordPairing
  <2>3. PairingId = DOMAIN pairingDecisions /\ KeysUnique(pairingDecisions)
    BY DEF TypeOK, OneVerdictPerPair
  <2>4. /\ pairingDecisions'[id] = d
        /\ \A j \in PairingId \ {id} : pairingDecisions'[j] = pairingDecisions[j]
    BY <2>1, <2>3
  <2> SUFFICES ASSUME NEW i \in PairingId, NEW j \in PairingId, i # j,
                      Applied(pairingDecisions'[i], mandated),
                      Applied(pairingDecisions'[j], mandated)
               PROVE  Apart(pairingDecisions'[i], pairingDecisions'[j])
    BY DEF AllApart
  <2>5. CASE i # id /\ j # id
    BY <2>4, <2>5 DEF AllApart
  <2>6. CASE i = id
    <3>1. d.verdict = "paired" /\ Applied(pairingDecisions[j], mandated)
      BY <2>4, <2>6 DEF Applied
    <3> QED
      BY <2>1, <2>2, <2>3, <2>4, <2>6, <3>1, UncontestedIsApart
  <2>7. CASE j = id
    <3>1. d.verdict = "paired" /\ Applied(pairingDecisions[i], mandated)
      BY <2>4, <2>7 DEF Applied
    <3> QED
      BY <2>1, <2>2, <2>3, <2>4, <2>7, <3>1, UncontestedIsApart
  <2> QED
    BY <2>5, <2>6, <2>7
<1> QED
  BY <1>1, <1>2

\* A rebuild that reads exactly the clauses there were moves no verdict.
LEMMA SameClausesMoveNothing ==
    ASSUME TypeOK, NEW run \in rebuilding,
           NEW reading \in SUBSET Passage[run.pipeline][run.version],
           NEW candidates \in SUBSET Candidates[run.version],
           WriteRebuild(run, reading, candidates), mandated' = mandated
    PROVE  pairingDecisions' = pairingDecisions
<1> DEFINE carried == Carried(MandatedBy(run.version), reading)
<1>1. /\ carried \in [Obligation -> Obligation]
      /\ mandated' = (mandated \ MandatedBy(run.version))
                        \cup {ClauseOf(run.version, r) : r \in reading}
  BY RebuildTypes DEF WriteRebuild
<1>2. ASSUME NEW o \in Obligation
      PROVE  carried[o] = o
  <2> SUFFICES ASSUME NEW p, p = carried[o], p # o
               PROVE  FALSE
    OBVIOUS
  <2>1. SameWording(o, p) /\ Alone(o, mandated) /\ Alone(p, mandated')
    BY <1>1, CarriedAlone
  <2> QED
    BY <2>1 DEF SameWording, Alone
<1>3. PICK moves \in Movable(pairingDecisions, carried) :
         pairingDecisions' = Repointed(pairingDecisions, carried, moves)
  BY DEF WriteRebuild
<1> HIDE DEF carried
<1>4. \A d \in PairingDecision : Retargeted(d, carried) = d
  BY <1>2 DEF Retargeted, PairingDecision
<1>5. \A i \in moves : FALSE
  BY <1>4, MovesAreRecorded DEF TypeOK
<1> QED
  BY <1>3, <1>5 DEF Repointed, TypeOK

LEMMA SettlingStep ==
    ASSUME TypeOK, OneVerdictPerPair, [Next]_vars,
           mandated' = mandated, OneLivePairing
    PROVE  OneLivePairing'
<1>1. CASE pairingDecisions' = pairingDecisions
  BY <1>1, OneLiveIsAllApart
<1>2. ASSUME NEW run \in rebuilding,
             NEW reading \in SUBSET Passage[run.pipeline][run.version],
             NEW candidates \in SUBSET Candidates[run.version],
             WriteRebuild(run, reading, candidates)
      PROVE  OneLivePairing'
  BY <1>1, <1>2, SameClausesMoveNothing
<1>3. ASSUME NEW d \in settling, RecordPairing(d)
      PROVE  OneLivePairing'
  BY <1>3, RecordingKeepsApart, OneLiveIsAllApart
<1>4. CASE \/ Upgrade
           \/ \E v \in Version : Ingest(v)
           \/ \E d \in Document : DeleteDocument(d)
           \/ \E v \in Version : StartRebuild(v)
           \/ \E run \in rebuilding : AbandonRebuild(run)
           \/ \E e \in proposals, verdict \in Verdict : CheckProposal(e, verdict)
           \/ \E d \in deciding : RecordDecision(d)
           \/ \E o, p \in mandated, verdict \in PairingVerdict :
                 ResolvePair(o, p, verdict)
           \/ \E pair \in DiffPairs : Diff(pair[1], pair[2])
           \/ UNCHANGED vars
  <2>1. pairingDecisions' = pairingDecisions
    BY <1>4 DEF Upgrade, Ingest, DeleteDocument, StartRebuild, AbandonRebuild,
                CheckProposal, RecordDecision, ResolvePair, Diff, decisionNodes, vars
  <2> QED
    BY <1>1, <2>1
<1> QED
  BY <1>2, <1>3, <1>4 DEF Next

\* While no edition's clauses change, no request, however stale, gives a clause
\* a second live partner in one other edition.
THEOREM OnePairing == Spec => SettlingKeepsOnePairing
<1> DEFINE Inv == TypeOK /\ OneVerdictPerPair
           Keeps == mandated' = mandated /\ OneLivePairing => OneLivePairing'
<1>1. Init => Inv
  BY TypeInit, OneVerdictInit
<1>2. Inv /\ [Next]_vars => Inv'
  BY TypeStep, OneVerdictStep
<1>3. Inv /\ [Next]_vars => [Keeps]_vars
  BY SettlingStep
<1> HIDE DEF Inv, Keeps
<1>4. Spec => [][Keeps]_vars
  BY <1>1, <1>2, <1>3, PTL DEF Spec
<1> QED
  BY <1>4 DEF SettlingKeepsOnePairing, Keeps

-----------------------------------------------------------------------------
(* The ledger *)

\* No verdict of an earlier release was left behind: the ledger starts blank.
NoLegacy == LegacyLinks = [id \in LinkId |-> NoDecision]

Across(e) == DocumentOf[e.source.version] # DocumentOf[e.target.version]

\* What is proposed, judged or recorded joins two documents.
AcrossDocuments ==
    /\ \A e \in proposals : Across(e)
    /\ \A d \in deciding : Across(d)
    /\ \A i \in LinkId : linkDecisions[i] # NoDecision => Across(linkDecisions[i])

\* A link goes with either of its clauses.
LinkedArePresent ==
    \A e \in implements : e.source \in obligations /\ e.target \in obligations

Kept ==
    /\ TypeOK
    /\ OneVerdictPerPair
    /\ ImplementsRestsOnApproval
    /\ ApprovalsAreLinked
    /\ AcrossDocuments
    /\ LinkedArePresent

LEMMA KeptInit == NoLegacy /\ Init => Kept
<1> SUFFICES ASSUME NoLegacy, Init
             PROVE  Kept
  OBVIOUS
<1>1. TypeOK /\ OneVerdictPerPair
  BY TypeInit, OneVerdictInit
<1>2. AcrossDocuments
  BY DEF NoLegacy, Init, AcrossDocuments
<1> QED
  BY <1>1, <1>2 DEF Init, Kept, ImplementsRestsOnApproval, ApprovalsAreLinked,
                    LinkedArePresent

\* A clause is carried within its edition and keeps its words.
LEMMA CarriedSays ==
    ASSUME NEW before, NEW reading, NEW o \in Obligation
    PROVE  SameWording(o, Carried(before, reading)[o])
<1> SUFFICES ASSUME NEW p, p = Carried(before, reading)[o]
             PROVE  SameWording(o, p)
  OBVIOUS
<1>1. CASE p = o
  BY <1>1 DEF SameWording
<1>2. CASE p # o
  <2>1. PICK r \in reading : p = ClauseOf(o.version, r) /\ r.statement = o.statement
    BY <1>2, CarriedMoves
  <2> QED
    BY <2>1 DEF SameWording, ClauseOf
<1> QED
  BY <1>1, <1>2

LEMMA AcrossStep ==
    ASSUME TypeOK, AcrossDocuments, [Next]_vars
    PROVE  AcrossDocuments'
<1>1. ASSUME proposals' \subseteq proposals, deciding' \subseteq deciding,
             UNCHANGED linkDecisions
      PROVE  AcrossDocuments'
  BY <1>1 DEF AcrossDocuments, Across
<1>2. ASSUME NEW run \in rebuilding,
             NEW reading \in SUBSET Passage[run.pipeline][run.version],
             NEW candidates \in SUBSET Candidates[run.version],
             WriteRebuild(run, reading, candidates)
      PROVE  AcrossDocuments'
  <2> DEFINE before == MandatedBy(run.version)
             carried == Carried(before, reading)
  <2>1. deciding' = deciding
    BY <1>2 DEF WriteRebuild
  <2>2. \A e \in proposals' : Across(e)
    <3>1. \A e \in Without(proposals, before) : Across(e)
      BY DEF Without, AcrossDocuments
    <3>2. \A e \in Proposed(mandated', run.version, candidates) : Across(e)
      BY DEF Proposed, Across
    <3>3. proposals' = Without(proposals, before)
                          \cup Proposed(mandated', run.version, candidates)
      BY <1>2 DEF WriteRebuild
    <3> QED
      BY <3>1, <3>2, <3>3
  <2>3. PICK moves \in Movable(linkDecisions, carried) :
           linkDecisions' = Repointed(linkDecisions, carried, moves)
    BY <1>2 DEF WriteRebuild
  <2>4. ASSUME NEW i \in LinkId, linkDecisions'[i] # NoDecision
        PROVE  Across(linkDecisions'[i])
    <3>1. CASE i \notin moves
      <4>1. linkDecisions'[i] = linkDecisions[i]
        BY <2>3, <3>1 DEF TypeOK, Repointed
      <4> QED
        BY <2>4, <4>1 DEF AcrossDocuments
    <3>2. CASE i \in moves
      <4> DEFINE d == linkDecisions[i]
      <4>1. d # NoDecision /\ d \in LinkDecision
        BY <3>2, MovesAreRecorded DEF TypeOK
      <4>2. linkDecisions'[i] = Retargeted(d, carried)
        BY <2>3, <3>2 DEF TypeOK, Repointed
      <4>3. carried \in [Obligation -> Obligation]
        BY RebuildTypes
      <4>4. /\ SameWording(d.source, carried[d.source])
            /\ SameWording(d.target, carried[d.target])
        BY <4>1, CarriedSays DEF LinkDecision
      <4>5. /\ linkDecisions'[i].source = carried[d.source]
            /\ linkDecisions'[i].target = carried[d.target]
        BY <4>1, <4>2, <4>3, LinksAreJudged DEF Judged
      <4>6. Across(d)
        BY <4>1 DEF AcrossDocuments
      <4> HIDE DEF carried, d
      <4> QED
        BY <4>4, <4>5, <4>6 DEF Across, SameWording
    <3> QED
      BY <3>1, <3>2
  <2> QED
    BY <2>1, <2>2, <2>4 DEF AcrossDocuments, Across
<1>3. ASSUME NEW e \in proposals, NEW verdict \in Verdict, CheckProposal(e, verdict)
      PROVE  AcrossDocuments'
  BY <1>3 DEF CheckProposal, decisionNodes, AcrossDocuments, Across
<1>4. ASSUME NEW d \in deciding, RecordDecision(d)
      PROVE  AcrossDocuments'
  <2>1. CASE linkDecisions' = linkDecisions
    BY <1>1, <1>4, <2>1 DEF RecordDecision
  <2>2. CASE linkDecisions' # linkDecisions
    <3>1. PICK id \in LinkId : linkDecisions' = [linkDecisions EXCEPT ![id] = d]
      BY <1>4, <2>2 DEF RecordDecision
    <3>2. \A i \in LinkId : linkDecisions'[i] \in {d, linkDecisions[i]}
      BY <3>1 DEF TypeOK
    <3>3. proposals' = proposals /\ deciding' \subseteq deciding
      BY <1>4 DEF RecordDecision
    <3> QED
      BY <3>2, <3>3 DEF AcrossDocuments, Across
  <2> QED
    BY <2>1, <2>2
<1>5. CASE \/ Upgrade
           \/ \E v \in Version : Ingest(v)
           \/ \E d \in Document : DeleteDocument(d)
           \/ \E v \in Version : StartRebuild(v)
           \/ \E run \in rebuilding : AbandonRebuild(run)
           \/ \E o, p \in mandated, verdict \in PairingVerdict :
                 ResolvePair(o, p, verdict)
           \/ \E d \in settling : RecordPairing(d)
           \/ \E pair \in DiffPairs : Diff(pair[1], pair[2])
           \/ UNCHANGED vars
  <2>1. proposals' \subseteq proposals /\ UNCHANGED <<linkDecisions, deciding>>
    BY <1>5 DEF Upgrade, Ingest, DeleteDocument, StartRebuild, AbandonRebuild,
                ResolvePair, RecordPairing, Diff, decisionNodes, requests,
                Without, vars
  <2> QED
    BY <1>1, <2>1
<1> QED
  BY <1>2, <1>3, <1>4, <1>5 DEF Next

LEMMA PresentStep ==
    ASSUME TypeOK, LinkedArePresent, [Next]_vars
    PROVE  LinkedArePresent'
<1>1. ASSUME UNCHANGED <<obligations, implements>>
      PROVE  LinkedArePresent'
  BY <1>1 DEF LinkedArePresent
<1>2. ASSUME NEW v \in Version, Ingest(v)
      PROVE  LinkedArePresent'
  BY <1>2 DEF Ingest, Without, LinkedArePresent
<1>3. ASSUME NEW run \in rebuilding,
             NEW reading \in SUBSET Passage[run.pipeline][run.version],
             NEW candidates \in SUBSET Candidates[run.version],
             WriteRebuild(run, reading, candidates)
      PROVE  LinkedArePresent'
  <2> DEFINE before == MandatedBy(run.version)
  <2>1. \A e \in Without(implements, before) :
           e.source \in obligations' /\ e.target \in obligations'
    BY <1>3 DEF WriteRebuild, Without, LinkedArePresent
  <2>2. implements' = Replayed(linkDecisions', obligations', mandated',
                               Without(implements, before))
    BY <1>3 DEF WriteRebuild
  <2> QED
    BY <2>1, <2>2 DEF Replayed, LinkedArePresent
<1>4. ASSUME NEW d \in deciding, RecordDecision(d)
      PROVE  LinkedArePresent'
  BY <1>4 DEF RecordDecision, clauses, Replayed, LinkedArePresent
<1>5. CASE \/ Upgrade
           \/ \E d \in Document : DeleteDocument(d)
           \/ \E v \in Version : StartRebuild(v)
           \/ \E run \in rebuilding : AbandonRebuild(run)
           \/ \E e \in proposals, verdict \in Verdict : CheckProposal(e, verdict)
           \/ \E o, p \in mandated, verdict \in PairingVerdict :
                 ResolvePair(o, p, verdict)
           \/ \E d \in settling : RecordPairing(d)
           \/ \E pair \in DiffPairs : Diff(pair[1], pair[2])
           \/ UNCHANGED vars
  <2>1. UNCHANGED <<obligations, implements>>
    BY <1>5 DEF Upgrade, DeleteDocument, StartRebuild, AbandonRebuild,
                CheckProposal, ResolvePair, RecordPairing, Diff, clauses, vars
  <2> QED
    BY <1>1, <2>1
<1> QED
  BY <1>2, <1>3, <1>4, <1>5 DEF Next

LEMMA KeptStep == Kept /\ [Next]_vars => Kept'
BY TypeStep, OneVerdictStep, ApprovalStep, ApprovalsLinkedStep, AcrossStep,
   PresentStep
DEF Kept

\* The links in force are the approvals whose clauses are present.
LEMMA LinksAreInForce ==
    ASSUME Kept
    PROVE  implements = Ledger!Linked(linkDecisions, obligations)
<1> DEFINE inForce ==
        {[source |-> linkDecisions[i].source, target |-> linkDecisions[i].target] :
            i \in {j \in LinkId :
                     /\ linkDecisions[j] # NoDecision
                     /\ linkDecisions[j].verdict = "approve"
                     /\ linkDecisions[j].source \in obligations
                     /\ linkDecisions[j].target \in obligations}}
<1>1. DOMAIN linkDecisions = LinkId
  BY DEF Kept, TypeOK
<1>2. ASSUME NEW e \in implements
      PROVE  e \in inForce
  <2>1. e \in Verdicts(linkDecisions, "approve")
    BY DEF Kept, ImplementsRestsOnApproval
  <2>2. PICK i \in LinkId :
           /\ linkDecisions[i] # NoDecision
           /\ linkDecisions[i].verdict = "approve"
           /\ e = [source |-> linkDecisions[i].source, target |-> linkDecisions[i].target]
    BY <1>1, <2>1, ApprovedPair
  <2>3. e.source \in obligations /\ e.target \in obligations
    BY DEF Kept, LinkedArePresent
  <2> QED
    BY <2>2, <2>3
<1>3. ASSUME NEW e \in inForce
      PROVE  e \in implements
  <2>1. PICK i \in LinkId :
           /\ linkDecisions[i] # NoDecision
           /\ linkDecisions[i].verdict = "approve"
           /\ linkDecisions[i].source \in obligations
           /\ linkDecisions[i].target \in obligations
           /\ e = [source |-> linkDecisions[i].source, target |-> linkDecisions[i].target]
    BY <1>3
  <2>2. e \in Verdicts(linkDecisions, "approve")
    BY <1>1, <2>1, VerdictIntro
  <2>3. DocumentOf[e.source.version] # DocumentOf[e.target.version]
    BY <2>1 DEF Kept, AcrossDocuments, Across
  <2> QED
    BY <2>1, <2>2, <2>3 DEF Kept, ApprovalsAreLinked
<1>4. implements = inForce
  BY <1>2, <1>3
<1> QED
  BY <1>4 DEF Ledger!Linked

LEMMA OneEach ==
    ASSUME Kept
    PROVE  Ledger!OnePerPair(linkDecisions)
BY DEF Kept, OneVerdictPerPair, KeysUnique, Keyed, TypeOK, Ledger!OnePerPair

\* A verdict that moves does so to a pair of the same wording.
LEMMA RepointedKeepsWording ==
    ASSUME TypeOK, NEW run \in rebuilding,
           NEW reading \in SUBSET Passage[run.pipeline][run.version],
           NEW candidates \in SUBSET Candidates[run.version],
           WriteRebuild(run, reading, candidates),
           NEW i \in LinkId
    PROVE  Ledger!Follows(linkDecisions[i], linkDecisions'[i])
<1> DEFINE carried == Carried(MandatedBy(run.version), reading)
           d == linkDecisions[i]
<1>1. PICK moves \in Movable(linkDecisions, carried) :
         linkDecisions' = Repointed(linkDecisions, carried, moves)
  BY DEF WriteRebuild
<1>2. CASE i \notin moves
  BY <1>1, <1>2 DEF Repointed, TypeOK, Ledger!Follows
<1>3. CASE i \in moves
  <2>1. d # NoDecision /\ d \in LinkDecision
    BY <1>3, MovesAreRecorded DEF TypeOK
  <2>2. linkDecisions'[i] = Retargeted(d, carried)
    BY <1>1, <1>3 DEF TypeOK, Repointed
  <2>3. carried \in [Obligation -> Obligation]
    BY RebuildTypes
  <2>4. /\ SameWording(d.source, carried[d.source])
        /\ SameWording(d.target, carried[d.target])
    BY <2>1, CarriedSays DEF LinkDecision
  <2>5. /\ linkDecisions'[i] # NoDecision
        /\ linkDecisions'[i].verdict = d.verdict
        /\ linkDecisions'[i].source = carried[d.source]
        /\ linkDecisions'[i].target = carried[d.target]
    BY <2>1, <2>2, <2>3, LinksAreJudged DEF Judged
  <2>6. d.source \in Obligation /\ d.target \in Obligation
    BY <2>1 DEF LinkDecision
  <2>7. carried[d.source] \in Obligation /\ carried[d.target] \in Obligation
    BY <2>3, <2>6
  <2> HIDE DEF carried
  <2> QED
    BY <2>1, <2>4, <2>5, <2>6, <2>7 DEF Ledger!Follows, SameWording
<1> QED
  BY <1>2, <1>3

\* Every step judges one pair, or rewrites the clauses with verdicts that follow.
LEMMA StepOfLedger ==
    ASSUME Kept, Kept', [Next]_vars
    PROVE  [Ledger!Next]_(Ledger!vars)
<1>1. implements' = Ledger!Linked(linkDecisions', obligations')
  <2>1. (implements = Ledger!Linked(linkDecisions, obligations))'
    BY LinksAreInForce, PTL
  <2> QED
    BY <2>1
<1>2. Ledger!OnePerPair(linkDecisions')
  <2>1. Ledger!OnePerPair(linkDecisions)'
    BY OneEach, PTL
  <2> QED
    BY <2>1
<1>3. /\ obligations' \subseteq Obligation
      /\ linkDecisions \in [LinkId -> LinkDecision \cup {NoDecision}]
      /\ linkDecisions' \in [LinkId -> LinkDecision \cup {NoDecision}]
  BY DEF Kept, TypeOK
<1>4. Ledger!Judgement = LinkDecision
  BY DEF Ledger!Judgement, LinkDecision, Verdict
<1>5. ASSUME \A i \in LinkId : Ledger!Follows(linkDecisions[i], linkDecisions'[i])
      PROVE  Ledger!Next
  <2>1. Ledger!Rewrite
    BY <1>1, <1>2, <1>3, <1>4, <1>5 DEF Ledger!Rewrite
  <2> QED
    BY <2>1 DEF Ledger!Next
<1>6. ASSUME UNCHANGED linkDecisions
      PROVE  Ledger!Next
  BY <1>5, <1>6 DEF Ledger!Follows
<1>7. ASSUME NEW run \in rebuilding,
             NEW reading \in SUBSET Passage[run.pipeline][run.version],
             NEW candidates \in SUBSET Candidates[run.version],
             WriteRebuild(run, reading, candidates)
      PROVE  Ledger!Next
  BY <1>5, <1>7, RepointedKeepsWording DEF Kept
<1>8. ASSUME NEW d \in deciding, RecordDecision(d)
      PROVE  Ledger!Next
  <2>1. CASE linkDecisions' = linkDecisions
    BY <1>6, <2>1
  <2>2. CASE linkDecisions' # linkDecisions
    <3>1. PICK id \in LinkId :
             /\ Merges(linkDecisions, id, d.source, d.target)
             /\ linkDecisions' = [linkDecisions EXCEPT ![id] = d]
      BY <1>8, <2>2 DEF RecordDecision
    <3>2. d \in LinkDecision /\ obligations' = obligations
      BY <1>8 DEF RecordDecision, clauses, Kept, TypeOK
    <3>3. linkDecisions[id] # NoDecision =>
             /\ linkDecisions[id].source = d.source
             /\ linkDecisions[id].target = d.target
      BY <3>1 DEF Merges, Keyed
    <3>4. Ledger!Judge(id, d)
      BY <1>1, <1>2, <3>1, <3>2, <3>3 DEF Ledger!Judge
    <3> QED
      BY <1>4, <3>2, <3>4 DEF Ledger!Next
  <2> QED
    BY <2>1, <2>2
<1>9. CASE \/ Upgrade
           \/ \E v \in Version : Ingest(v)
           \/ \E d \in Document : DeleteDocument(d)
           \/ \E v \in Version : StartRebuild(v)
           \/ \E run \in rebuilding : AbandonRebuild(run)
           \/ \E e \in proposals, verdict \in Verdict : CheckProposal(e, verdict)
           \/ \E o, p \in mandated, verdict \in PairingVerdict :
                 ResolvePair(o, p, verdict)
           \/ \E d \in settling : RecordPairing(d)
           \/ \E pair \in DiffPairs : Diff(pair[1], pair[2])
           \/ UNCHANGED vars
  <2>1. linkDecisions' = linkDecisions
    BY <1>9 DEF Upgrade, Ingest, DeleteDocument, StartRebuild, AbandonRebuild,
                CheckProposal, ResolvePair, RecordPairing, Diff, decisionNodes, vars
  <2> QED
    BY <1>6, <2>1
<1> QED
  BY <1>7, <1>8, <1>9 DEF Next

\* What Review promises a reviewer is kept by everything that writes the graph:
\* without verdicts of an earlier release, the derived layer is a ledger.
THEOREM ImplementsTheLedger == NoLegacy => (Spec => KeepsTheLedger)
<1> SUFFICES ASSUME NoLegacy
             PROVE  Spec => KeepsTheLedger
  OBVIOUS
<1>1. Init => Kept
  BY KeptInit
<1>2. Kept /\ [Next]_vars => Kept'
  BY KeptStep
<1>3. Init => Ledger!Init
  BY DEF NoLegacy, Init, Ledger!Init
<1>4. Kept /\ Kept' /\ [Next]_vars => [Ledger!Next]_(Ledger!vars)
  BY StepOfLedger
<1> QED
  BY <1>1, <1>2, <1>3, <1>4, PTL DEF Spec, KeepsTheLedger, Ledger!Spec

-----------------------------------------------------------------------------
(* Re-keyed clauses stay judged *)

\* What is settled is of two editions, as no edition comes before itself.
TwoEditions ==
    /\ \A v \in Version : <<v, v>> \notin earlier
    /\ \A d \in settling : d.source.version # d.target.version
    /\ \A i \in PairingId : pairingDecisions[i] # NoDecision =>
          pairingDecisions[i].source.version # pairingDecisions[i].target.version

LEMMA TwoEditionsStep ==
    ASSUME TypeOK, TwoEditions, [Next]_vars
    PROVE  TwoEditions'
<1>1. ASSUME \A v \in Version : <<v, v>> \notin earlier',
             settling' \subseteq settling,
             UNCHANGED pairingDecisions
      PROVE  TwoEditions'
  BY <1>1 DEF TwoEditions
<1>2. ASSUME NEW v \in Version, Ingest(v)
      PROVE  TwoEditions'
  <2>1. \A u \in Version : <<u, u>> \notin earlier'
    BY <1>2 DEF Ingest, TwoEditions
  <2> QED
    BY <1>1, <1>2, <2>1 DEF Ingest, decisionNodes, requests
<1>3. ASSUME NEW d \in Document, DeleteDocument(d)
      PROVE  TwoEditions'
  BY <1>1, <1>3 DEF DeleteDocument, decisionNodes, requests, TwoEditions
<1>4. ASSUME NEW run \in rebuilding,
             NEW reading \in SUBSET Passage[run.pipeline][run.version],
             NEW candidates \in SUBSET Candidates[run.version],
             WriteRebuild(run, reading, candidates)
      PROVE  TwoEditions'
  <2> DEFINE carried == Carried(MandatedBy(run.version), reading)
  <2>1. earlier' = earlier /\ settling' = settling
    BY <1>4 DEF WriteRebuild
  <2>2. PICK moves \in Movable(pairingDecisions, carried) :
           pairingDecisions' = Repointed(pairingDecisions, carried, moves)
    BY <1>4 DEF WriteRebuild
  <2>3. ASSUME NEW i \in PairingId, pairingDecisions'[i] # NoDecision
        PROVE  pairingDecisions'[i].source.version # pairingDecisions'[i].target.version
    <3>1. CASE i \notin moves
      <4>1. pairingDecisions'[i] = pairingDecisions[i]
        BY <2>2, <3>1 DEF TypeOK, Repointed
      <4> QED
        BY <2>3, <4>1 DEF TwoEditions
    <3>2. CASE i \in moves
      <4> DEFINE d == pairingDecisions[i]
      <4>1. d # NoDecision /\ d \in PairingDecision
        BY <3>2, MovesAreRecorded DEF TypeOK
      <4>2. pairingDecisions'[i] = Retargeted(d, carried)
        BY <2>2, <3>2 DEF TypeOK, Repointed
      <4>3. carried \in [Obligation -> Obligation]
        BY RebuildTypes
      <4>4. /\ SameWording(d.source, carried[d.source])
            /\ SameWording(d.target, carried[d.target])
        BY <4>1, CarriedSays DEF PairingDecision
      <4>5. /\ pairingDecisions'[i].source = carried[d.source]
            /\ pairingDecisions'[i].target = carried[d.target]
        BY <4>1, <4>2, <4>3, PairingsAreJudged DEF Judged
      <4>6. d.source.version # d.target.version
        BY <4>1 DEF TwoEditions
      <4> HIDE DEF carried, d
      <4> QED
        BY <4>4, <4>5, <4>6 DEF SameWording
    <3> QED
      BY <3>1, <3>2
  <2> QED
    BY <2>1, <2>3 DEF TwoEditions
<1>5. ASSUME NEW o \in mandated, NEW p \in mandated, NEW verdict \in PairingVerdict,
             ResolvePair(o, p, verdict)
      PROVE  TwoEditions'
  <2>1. o.version \in Version /\ p.version \in Version
    BY DEF TypeOK, Obligation
  <2>2. o.version # p.version
    <3>1. EffectiveDate[o.version] \in Nat
      BY <2>1, EditionsAssumption
    <3>2. Precedes(o.version, p.version)
      BY <1>5 DEF ResolvePair
    <3> QED
      BY <2>1, <3>1, <3>2 DEF Precedes, TwoEditions
  <2>3. UNCHANGED <<earlier, pairingDecisions>>
    BY <1>5 DEF ResolvePair, catalogue, decisionNodes
  <2>4. settling' = settling \cup
           {[source |-> o, target |-> p, verdict |-> verdict]}
    BY <1>5 DEF ResolvePair
  <2> QED
    BY <2>2, <2>3, <2>4 DEF TwoEditions
<1>6. ASSUME NEW d \in settling, RecordPairing(d)
      PROVE  TwoEditions'
  <2>1. earlier' = earlier /\ settling' \subseteq settling
    BY <1>6 DEF RecordPairing, catalogue
  <2>2. CASE pairingDecisions' = pairingDecisions
    BY <1>1, <2>1, <2>2 DEF TwoEditions
  <2>3. CASE pairingDecisions' # pairingDecisions
    <3>1. PICK id \in PairingId :
             pairingDecisions' = [pairingDecisions EXCEPT ![id] = d]
      BY <1>6, <2>3 DEF RecordPairing
    <3>2. \A i \in PairingId : pairingDecisions'[i] \in {d, pairingDecisions[i]}
      BY <3>1 DEF TypeOK
    <3> QED
      BY <2>1, <3>2 DEF TwoEditions
  <2> QED
    BY <2>2, <2>3
<1>7. CASE \/ Upgrade
           \/ \E v \in Version : StartRebuild(v)
           \/ \E run \in rebuilding : AbandonRebuild(run)
           \/ \E e \in proposals, verdict \in Verdict : CheckProposal(e, verdict)
           \/ \E d \in deciding : RecordDecision(d)
           \/ \E pair \in DiffPairs : Diff(pair[1], pair[2])
           \/ UNCHANGED vars
  <2>1. UNCHANGED <<earlier, settling, pairingDecisions>>
    BY <1>7 DEF Upgrade, StartRebuild, AbandonRebuild, CheckProposal,
                RecordDecision, Diff, catalogue, decisionNodes, requests, vars
  <2> QED
    BY <1>1, <2>1 DEF TwoEditions
<1> QED
  BY <1>2, <1>3, <1>4, <1>5, <1>6, <1>7 DEF Next

\* A displaced verdict lands on its new key, unless a verdict is there already
\* or another one lands there; in each case the key is judged afterwards.
LEMMA NewKeyIsJudged ==
    ASSUME NEW decisions, NEW carried \in [Obligation -> Obligation],
           \A i \in DOMAIN decisions :
               decisions[i] # NoDecision => Judged(decisions[i]),
           NEW moves \in Movable(decisions, carried),
           NEW i \in DOMAIN decisions, decisions[i] # NoDecision,
           NEW s, s = carried[decisions[i].source],
           NEW t, t = carried[decisions[i].target],
           s # decisions[i].source \/ t # decisions[i].target,
           carried[s] = s, carried[t] = t
    PROVE  \E j \in DOMAIN decisions : Keyed(Repointed(decisions, carried, moves)[j], s, t)
<1> DEFINE after == Repointed(decisions, carried, moves)
           Moved(j) == Retargeted(decisions[j], carried)
           Taken(k) == \E j \in DOMAIN decisions :
                           Keyed(decisions[j], Moved(k).source, Moved(k).target)
<1>1. \A j \in DOMAIN decisions : decisions[j] # NoDecision =>
         /\ Moved(j) # NoDecision
         /\ Moved(j).source = carried[decisions[j].source]
         /\ Moved(j).target = carried[decisions[j].target]
  BY DEF Judged
<1>2. Moved(i).source = s /\ Moved(i).target = t
  BY <1>1
<1>3. i \in Displaced(decisions, carried)
  BY <1>2 DEF Displaced
<1>4. \A j \in DOMAIN decisions : after[j] = IF j \in moves THEN Moved(j) ELSE decisions[j]
  BY DEF Repointed
<1>5. moves \subseteq Displaced(decisions, carried)
  BY DEF Movable
<1>6. i \in moves \/ Taken(i) \/ \E j \in moves : SameKey(Moved(i), Moved(j))
  BY <1>3 DEF Movable
<1>7. \A j \in moves : j \in DOMAIN decisions /\ decisions[j] # NoDecision
  BY <1>5 DEF Displaced
<1> HIDE DEF after, Moved
<1>8. ASSUME NEW j \in moves, SameKey(Moved(i), Moved(j))
      PROVE  Keyed(after[j], s, t)
  BY <1>1, <1>2, <1>4, <1>7, <1>8 DEF Keyed, SameKey
<1>9. CASE i \in moves
  BY <1>8, <1>9 DEF after, SameKey
<1>10. CASE Taken(i)
  <2>1. PICK j \in DOMAIN decisions : Keyed(decisions[j], s, t)
    BY <1>2, <1>10
  <2>2. Keyed(Moved(j), s, t)
    BY <1>1, <2>1 DEF Keyed
  <2> QED
    BY <1>4, <2>1, <2>2 DEF after
<1>11. CASE \E j \in moves : SameKey(Moved(i), Moved(j))
  BY <1>7, <1>8, <1>11 DEF after
<1> QED
  BY <1>6, <1>9, <1>10, <1>11

\* A clause that alone bears its wording, and whose wording is read once, under
\* another id, is carried to that id, and nothing else of the kind is carried: not
\* the new id, and no clause of another edition.
LEMMA RekeyedIsCarried ==
    ASSUME TypeOK, NEW v \in Version, NEW reading \in SUBSET Occurrence,
           NEW o \in MandatedBy(v), NEW r \in reading, o # ClauseOf(v, r),
           SameWording(o, ClauseOf(v, r)), Alone(o, mandated), ReadOnce(r, reading)
    PROVE  LET carried == Carried(MandatedBy(v), reading)
           IN  /\ o.version = v
               /\ carried[o] = ClauseOf(v, r)
               /\ carried[ClauseOf(v, r)] = ClauseOf(v, r)
               /\ \A c \in Obligation : c.version # v => carried[c] = c
<1> DEFINE p == ClauseOf(v, r)
           before == MandatedBy(v)
           carried == Carried(before, reading)
<1>2. /\ o \in mandated /\ o \in Obligation /\ o.version = v
      /\ r.statement = o.statement /\ r.section = p.section
  BY DEF MandatedBy, TypeOK, SameWording, ClauseOf
<1>3. p \in Obligation /\ p \notin mandated
  <2>1. r \in Occurrence
    OBVIOUS
  <2>2. p \in Obligation
    BY <2>1 DEF ClauseOf, Obligation, Occurrence
  <2> QED
    BY <2>2 DEF Alone, SameWording
<1>4. \A b \in before : b.statement = o.statement => b = o
  BY <1>2 DEF MandatedBy, Alone
<1>5. \A q \in reading : q.statement = o.statement => q = r
  BY <1>2 DEF ReadOnce
<1>6. carried[o] = p
  <2> DEFINE chosen == CHOOSE x \in reading : x.statement = o.statement
  <2>1. chosen = r
    BY <1>2, <1>5
  <2>2. carried[o] = [o EXCEPT !.section = chosen.section]
    BY <1>2, <1>4, <1>5 DEF Carried
  <2> HIDE DEF chosen
  <2>3. [o EXCEPT !.section = r.section] = p
    BY <1>2 DEF Obligation, ClauseOf
  <2> QED
    BY <2>1, <2>2, <2>3
<1>7. \A c \in Obligation : c \notin before => carried[c] = c
  BY DEF Carried
<1> QED
  BY <1>2, <1>3, <1>6, <1>7 DEF MandatedBy

LEMMA RepointInherits ==
    ASSUME TypeOK, NEW run \in rebuilding,
           NEW reading \in SUBSET Passage[run.pipeline][run.version],
           NEW o \in MandatedBy(run.version), NEW r \in reading,
           NEW p, p = ClauseOf(run.version, r),
           o # p, SameWording(o, p), Alone(o, mandated), ReadOnce(r, reading),
           NEW decisions,
           \A i \in DOMAIN decisions : decisions[i] # NoDecision =>
               /\ Judged(decisions[i])
               /\ decisions[i].source.version # decisions[i].target.version,
           NEW moves \in Movable(decisions, Carried(MandatedBy(run.version), reading))
    PROVE  Inherits(decisions,
                    Repointed(decisions, Carried(MandatedBy(run.version), reading), moves),
                    o, p)
<1> SUFFICES ASSUME NEW i \in DOMAIN decisions, decisions[i] # NoDecision
             PROVE  LET after == Repointed(decisions,
                                    Carried(MandatedBy(run.version), reading), moves)
                    IN  /\ decisions[i].source = o =>
                             \E j \in DOMAIN after :
                                 Keyed(after[j], p, decisions[i].target)
                        /\ decisions[i].target = o =>
                             \E j \in DOMAIN after :
                                 Keyed(after[j], decisions[i].source, p)
  BY DEF Inherits
<1> DEFINE carried == Carried(MandatedBy(run.version), reading)
           after == Repointed(decisions, carried, moves)
<1>1. carried \in [Obligation -> Obligation]
  BY RebuildTypes
<1>2. DOMAIN after = DOMAIN decisions
  BY DEF Repointed
<1>3. /\ decisions[i].source \in Obligation /\ decisions[i].target \in Obligation
      /\ decisions[i].source.version # decisions[i].target.version
  BY DEF Judged
<1>4. /\ o.version = run.version /\ carried[o] = p /\ carried[p] = p
      /\ \A c \in Obligation : c.version # run.version => carried[c] = c
  <2>1. run.version \in Version /\ reading \in SUBSET Occurrence
    BY RebuildTypes
  <2> QED
    BY <2>1, RekeyedIsCarried
<1>5. ASSUME o = decisions[i].source
      PROVE  \E j \in DOMAIN after : Keyed(after[j], p, decisions[i].target)
  <2> DEFINE t == decisions[i].target
  <2>1. t = carried[t] /\ p = carried[decisions[i].source]
    BY <1>3, <1>4, <1>5
  <2> HIDE DEF carried
  <2>2. \E j \in DOMAIN decisions : Keyed(Repointed(decisions, carried, moves)[j], p, t)
    BY <1>1, <1>4, <1>5, <2>1, NewKeyIsJudged DEF carried
  <2> QED
    BY <1>2, <2>2
<1>6. ASSUME o = decisions[i].target
      PROVE  \E j \in DOMAIN after : Keyed(after[j], decisions[i].source, p)
  <2> DEFINE s == decisions[i].source
  <2>1. s = carried[s] /\ p = carried[decisions[i].target]
    BY <1>3, <1>4, <1>6
  <2> HIDE DEF carried
  <2>2. \E j \in DOMAIN decisions : Keyed(Repointed(decisions, carried, moves)[j], s, p)
    BY <1>1, <1>4, <1>6, <2>1, NewKeyIsJudged DEF carried
  <2> QED
    BY <1>2, <2>2
<1> QED
  BY <1>5, <1>6

\* Neither kind of verdict is left behind.
LEMMA RebuildInherits ==
    ASSUME Kept, TwoEditions, NEW run \in rebuilding,
           NEW reading \in SUBSET Passage[run.pipeline][run.version],
           NEW candidates \in SUBSET Candidates[run.version],
           WriteRebuild(run, reading, candidates),
           NEW o \in MandatedBy(run.version), NEW r \in reading,
           NEW p, p = ClauseOf(run.version, r),
           o # p, SameWording(o, p), Alone(o, mandated), ReadOnce(r, reading)
    PROVE  JudgedAs(o, p)
<1> USE DEF Kept
<1> DEFINE carried == Carried(MandatedBy(run.version), reading)
<1>1. PICK moves \in Movable(linkDecisions, carried) :
         linkDecisions' = Repointed(linkDecisions, carried, moves)
  BY DEF WriteRebuild
<1>2. PICK turned \in Movable(pairingDecisions, carried) :
         pairingDecisions' = Repointed(pairingDecisions, carried, turned)
  BY DEF WriteRebuild
<1>3. \A i \in DOMAIN linkDecisions : linkDecisions[i] # NoDecision =>
         /\ Judged(linkDecisions[i])
         /\ linkDecisions[i].source.version # linkDecisions[i].target.version
  BY LinksAreJudged DEF TypeOK, AcrossDocuments, Across
<1>4. \A i \in DOMAIN pairingDecisions : pairingDecisions[i] # NoDecision =>
         /\ Judged(pairingDecisions[i])
         /\ pairingDecisions[i].source.version # pairingDecisions[i].target.version
  BY PairingsAreJudged DEF TypeOK, TwoEditions
<1>5. Inherits(linkDecisions, linkDecisions', o, p)
  BY <1>1, <1>3, RepointInherits
<1>6. Inherits(pairingDecisions, pairingDecisions', o, p)
  BY <1>2, <1>4, RepointInherits
<1> QED
  BY <1>5, <1>6 DEF JudgedAs

\* Whatever the extractor returns, overlaps included, a re-keyed clause that alone
\* bore its wording keeps its verdicts where that wording was returned once.
THEOREM RekeyedStayJudged == NoLegacy => (Spec => RekeyKeepsVerdicts)
<1> SUFFICES ASSUME NoLegacy
             PROVE  Spec => RekeyKeepsVerdicts
  OBVIOUS
<1> DEFINE Inv == Kept /\ TwoEditions
           Keeps == \A run \in rebuilding \ rebuilding' :
                      \A o \in MandatedBy(run.version) \ mandated',
                         reading \in SUBSET Passage[run.pipeline][run.version] :
                        \A r \in reading :
                          LET p == ClauseOf(run.version, r)
                          IN  /\ o # p /\ SameWording(o, p)
                              /\ Alone(o, mandated) /\ ReadOnce(r, reading)
                              /\ \E candidates \in SUBSET Candidates[run.version] :
                                    WriteRebuild(run, reading, candidates)
                              => JudgedAs(o, p)
<1>1. Init => Inv
  BY KeptInit DEF Init, TwoEditions
<1>2. Inv /\ [Next]_vars => Inv'
  BY KeptStep, TwoEditionsStep DEF Kept
<1>3. Inv => Keeps
  BY RebuildInherits
<1> HIDE DEF Inv, Keeps
<1>4. Spec => [][Keeps]_vars
  BY <1>1, <1>2, <1>3, PTL DEF Spec
<1> QED
  BY <1>4 DEF RekeyKeepsVerdicts, Keeps
=============================================================================
