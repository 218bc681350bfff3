----------------------- MODULE LegacyMigrationProofs -----------------------
(* Proofs about the startup migration, beside everything the derived layer *)
(* does, for every value of the constants.                                 *)
EXTENDS LegacyMigration, DerivedLayerProofs

\* Two reasons a conversion is one: nothing else claims its key, recorded or
\* about to be.
LEMMA ConversionClaimsItsKey ==
    ASSUME NEW i \in Conversions
    PROVE  /\ i \in LinkId
           /\ i \in Readable
           /\ linkDecisions[i] # NoDecision
           /\ linkDecisions[i].source \in mandated
           /\ linkDecisions[i].target \in mandated
           /\ linkDecisions[i].source.version # linkDecisions[i].target.version
           /\ \A d \in Recorded : ~SameKey(d, AsPairing(i))
           /\ \A k \in Conversions : SameKey(AsPairing(k), AsPairing(i)) => k = i
<1>1. i \in Convertible /\ i \notin PairingExists /\ i \notin ConflictingPairing
  BY DEF Conversions
<1>2. i \in Readable /\ i \notin SameEdition
  BY <1>1 DEF Convertible
<1>3. \A d \in Recorded : ~SameKey(d, AsPairing(i))
  BY <1>1 DEF PairingExists
<1>4. \A k \in Convertible : SameKey(AsPairing(k), AsPairing(i)) => k = i
  BY <1>1 DEF ConflictingPairing
<1>5. \A k \in Conversions : k \in Convertible
  BY DEF Conversions
<1> QED
  BY <1>2, <1>3, <1>4, <1>5 DEF Readable, SameDocument, SameEdition

\* A conversion lands on an unused node, which then holds it.
LEMMA MintedNode ==
    ASSUME TypeOK, NEW node \in [Conversions -> PairingId], Minted(node),
           NEW i \in Conversions
    PROVE  /\ node[i] \in PairingId
           /\ pairingDecisions[node[i]] = NoDecision
           /\ pairingDecisions'[node[i]] = AsPairing(i)
           /\ \A j \in PairingId :
                 ~Keyed(pairingDecisions[j], AsPairing(i).source, AsPairing(i).target)
<1>1. node[i] \in PairingId
  OBVIOUS
<1>2. \A j \in PairingId :
         ~Keyed(pairingDecisions[j], AsPairing(i).source, AsPairing(i).target)
  BY ConversionClaimsItsKey DEF Keyed, SameKey, Recorded
<1>3. pairingDecisions[node[i]] = NoDecision
  BY <1>1, <1>2 DEF Minted, Merges
<1> DEFINE k == CHOOSE k \in Conversions : node[k] = node[i]
<1>4. k \in Conversions /\ node[k] = node[i]
  OBVIOUS
<1> HIDE DEF k
<1>5. SameKey(AsPairing(k), AsPairing(i))
  BY <1>4 DEF Minted
<1>6. k = i
  BY <1>4, <1>5, ConversionClaimsItsKey
<1>7. pairingDecisions'[node[i]] = AsPairing(k)
  BY <1>1, <1>4 DEF Minted, k
<1> QED
  BY <1>1, <1>2, <1>3, <1>6, <1>7

LEMMA OtherNodesStay ==
    ASSUME NEW node \in [Conversions -> PairingId], Minted(node),
           NEW j \in PairingId, \A i \in Conversions : node[i] # j
    PROVE  pairingDecisions'[j] = pairingDecisions[j]
BY DEF Minted

LEMMA ConvertedType ==
    ASSUME NEW d \in LinkDecision
    PROVE  Converted(d) \in PairingDecision
BY DEF Converted, LinkDecision, PairingDecision, PairingVerdict

LEMMA AsPairingType ==
    ASSUME TypeOK, NEW i \in Conversions
    PROVE  AsPairing(i) \in PairingDecision /\ AsPairing(i) # NoDecision
<1>1. linkDecisions[i] \in LinkDecision
  BY ConversionClaimsItsKey DEF TypeOK
<1> QED
  BY <1>1, ConvertedType, LegacyAssumption DEF AsPairing

-----------------------------------------------------------------------------
(* The derived layer's invariants, with boots *)

\* What a boot does, apart from which nodes it takes.
LEMMA BootSteps ==
    ASSUME Boot
    PROVE  /\ \E node \in [Conversions -> PairingId] : Minted(node)
           /\ linkDecisions' = [i \in LinkId |->
                 IF i \in Readable THEN NoDecision ELSE linkDecisions[i]]
           /\ implements' = implements \
                 {[source |-> linkDecisions[i].source,
                   target |-> linkDecisions[i].target] : i \in Readable}
           /\ proposals' \subseteq proposals
           /\ deciding' = {} /\ settling' = {}
           /\ UNCHANGED <<pipeline, edition, earlier, obligations, mandated,
                          anchored, changeEdges, rebuilding>>
BY DEF Boot, catalogue, clauses

LEMMA BootTypes ==
    ASSUME TypeOK, Boot
    PROVE  TypeOK'
<1>1. linkDecisions' \in [LinkId -> LinkDecision \cup {NoDecision}]
  BY BootSteps DEF TypeOK
<1>2. pairingDecisions' \in [PairingId -> PairingDecision \cup {NoDecision}]
  <2>1. PICK node \in [Conversions -> PairingId] : Minted(node)
    BY BootSteps
  <2>2. \A j \in PairingId :
           pairingDecisions'[j] \in PairingDecision \cup {NoDecision}
    BY <2>1, MintedNode, OtherNodesStay, AsPairingType DEF TypeOK
  <2>3. pairingDecisions' = [j \in PairingId |-> pairingDecisions'[j]]
    BY <2>1 DEF Minted
  <2> QED
    BY <2>2, <2>3
<1>3. implements' \subseteq Pair /\ proposals' \subseteq Pair
  BY BootSteps DEF TypeOK
<1> QED
  BY <1>1, <1>2, <1>3, BootSteps DEF TypeOK

LEMMA BootOneVerdict ==
    ASSUME TypeOK, OneVerdictPerPair, Boot
    PROVE  OneVerdictPerPair'
<1>1. KeysUnique(linkDecisions')
  BY BootSteps DEF OneVerdictPerPair, KeysUnique, Keyed, TypeOK
<1>2. KeysUnique(pairingDecisions')
  <2>1. PICK node \in [Conversions -> PairingId] : Minted(node)
    BY BootSteps
  <2>2. DOMAIN pairingDecisions' = PairingId /\ DOMAIN pairingDecisions = PairingId
    BY <2>1 DEF Minted, TypeOK
  <2> SUFFICES ASSUME NEW i \in PairingId, NEW j \in PairingId,
                      pairingDecisions'[i] # NoDecision,
                      Keyed(pairingDecisions'[j], pairingDecisions'[i].source,
                                                  pairingDecisions'[i].target)
               PROVE  i = j
    BY <2>2 DEF KeysUnique
  <2>3. CASE \A k \in Conversions : node[k] # i /\ node[k] # j
    <3>1. /\ pairingDecisions'[i] = pairingDecisions[i]
          /\ pairingDecisions'[j] = pairingDecisions[j]
      BY <2>1, <2>3, OtherNodesStay
    <3> QED
      BY <2>2, <3>1 DEF OneVerdictPerPair, KeysUnique
  <2>4. ASSUME NEW k \in Conversions, node[k] = i, \A l \in Conversions : node[l] # j
        PROVE  FALSE
    <3>1. pairingDecisions'[j] = pairingDecisions[j]
      BY <2>1, <2>4, OtherNodesStay
    <3>2. pairingDecisions'[i] = AsPairing(k)
      BY <2>1, <2>4, MintedNode
    <3> QED
      BY <2>1, <3>1, <3>2, MintedNode
  <2>5. ASSUME NEW k \in Conversions, node[k] = j, \A l \in Conversions : node[l] # i
        PROVE  FALSE
    <3>1. pairingDecisions'[i] = pairingDecisions[i]
      BY <2>1, <2>5, OtherNodesStay
    <3>2. pairingDecisions'[j] = AsPairing(k)
      BY <2>1, <2>5, MintedNode
    <3>3. Keyed(pairingDecisions[i], AsPairing(k).source, AsPairing(k).target)
      BY <3>1, <3>2 DEF Keyed
    <3> QED
      BY <2>1, <3>3, MintedNode
  <2>6. ASSUME NEW k \in Conversions, node[k] = i,
               NEW l \in Conversions, node[l] = j
        PROVE  i = j
    <3>1. pairingDecisions'[i] = AsPairing(k) /\ pairingDecisions'[j] = AsPairing(l)
      BY <2>1, <2>6, MintedNode
    <3>2. SameKey(AsPairing(k), AsPairing(l))
      BY <3>1 DEF Keyed, SameKey
    <3> QED
      BY <2>6, <3>2, ConversionClaimsItsKey
  <2> QED
    BY <2>3, <2>4, <2>5, <2>6
<1> QED
  BY <1>1, <1>2 DEF OneVerdictPerPair, KeysUnique, Keyed

LEMMA BootApproved ==
    ASSUME TypeOK, ImplementsRestsOnApproval, Boot
    PROVE  ImplementsRestsOnApproval'
<1> SUFFICES ASSUME NEW e \in implements'
             PROVE  e \in Verdicts(linkDecisions', "approve")
  BY DEF ImplementsRestsOnApproval, Verdicts
<1>1. e \in Verdicts(linkDecisions, "approve")
  BY BootSteps DEF ImplementsRestsOnApproval
<1>2. PICK i \in LinkId :
         /\ linkDecisions[i] # NoDecision
         /\ linkDecisions[i].verdict = "approve"
         /\ e = [source |-> linkDecisions[i].source,
                 target |-> linkDecisions[i].target]
  BY <1>1, ApprovedPair DEF TypeOK
<1>3. i \notin Readable
  BY <1>2, BootSteps
<1>4. i \in DOMAIN linkDecisions' /\ linkDecisions'[i] = linkDecisions[i]
  BY <1>3, BootSteps
<1> QED
  BY <1>2, <1>4, VerdictIntro

LEMMA BootApprovalsLinked ==
    ASSUME TypeOK, ApprovalsAreLinked, Boot
    PROVE  ApprovalsAreLinked'
<1> SUFFICES ASSUME NEW e \in Verdicts(linkDecisions', "approve"),
                    e.source \in obligations, e.target \in obligations,
                    DocumentOf[e.source.version] # DocumentOf[e.target.version]
             PROVE  e \in implements'
  BY BootSteps DEF ApprovalsAreLinked, Verdicts
<1>1. PICK i \in LinkId :
         /\ linkDecisions'[i] # NoDecision
         /\ linkDecisions'[i].verdict = "approve"
         /\ e = [source |-> linkDecisions'[i].source,
                 target |-> linkDecisions'[i].target]
  BY ApprovedPair, BootSteps
<1>2. linkDecisions'[i] = linkDecisions[i]
  BY <1>1, BootSteps
<1>3. e \in Verdicts(linkDecisions, "approve")
  BY <1>1, <1>2, VerdictIntro DEF TypeOK
<1>4. e \in implements
  BY <1>3 DEF ApprovalsAreLinked
<1>5. \A k \in Readable : e # [source |-> linkDecisions[k].source,
                               target |-> linkDecisions[k].target]
  BY DEF Readable, SameDocument
<1> QED
  BY <1>4, <1>5, BootSteps

LEMMA MigratedInit == MInit => TypeOK /\ OneVerdictPerPair
BY TypeInit, OneVerdictInit DEF MInit

LEMMA MigratedStep ==
    ASSUME TypeOK, OneVerdictPerPair, [MNext]_mvars
    PROVE  (TypeOK /\ OneVerdictPerPair)'
<1>1. CASE Boot
  BY <1>1, BootTypes, BootOneVerdict
<1>2. CASE [Next]_vars
  BY <1>2, TypeStep, OneVerdictStep
<1> QED
  BY <1>1, <1>2 DEF MNext, mvars

\* Boots give no pair a second verdict either, so the key constraints never
\* stop one.
THEOREM MigratedOneVerdict == MSpec => []OneVerdictPerPair
<1>1. TypeOK /\ OneVerdictPerPair /\ [MNext]_mvars => (TypeOK /\ OneVerdictPerPair)'
  BY MigratedStep
<1> QED
  BY MigratedInit, <1>1, PTL DEF MSpec

\* With boots among the steps, links still rest on approvals and approvals are
\* still linked: what a boot takes away it takes from both.
THEOREM MigratedLinks == MSpec => []ImplementsRestsOnApproval /\ []ApprovalsAreLinked
<1> DEFINE Inv == /\ TypeOK /\ OneVerdictPerPair
                  /\ ImplementsRestsOnApproval /\ ApprovalsAreLinked
<1>1. MInit => Inv
  BY MigratedInit
     DEF MInit, Init, ImplementsRestsOnApproval, ApprovalsAreLinked
<1>2. Inv /\ [MNext]_mvars => Inv'
  <2> SUFFICES ASSUME Inv, [MNext]_mvars
               PROVE  Inv'
    OBVIOUS
  <2>1. CASE Boot
    BY <2>1, MigratedStep, BootApproved, BootApprovalsLinked
  <2>2. CASE [Next]_vars
    BY <2>2, MigratedStep, ApprovalStep, ApprovalsLinkedStep
  <2> QED
    BY <2>1, <2>2 DEF MNext, mvars
<1> QED
  BY <1>1, <1>2, PTL DEF MSpec

-----------------------------------------------------------------------------
(* No judgement is lost *)

\* Every clause listed belongs to a live edition, and live editions are ordered.
Ordered ==
    /\ \A o \in mandated : Live(o.version)
    /\ \A v, w \in Version : Live(v) /\ Live(w) /\ v # w =>
          <<v, w>> \in earlier \/ <<w, v>> \in earlier

LEMMA OrderedStep ==
    ASSUME TypeOK, Ordered, [Next]_vars
    PROVE  Ordered'
<1>1. ASSUME NEW v \in Version, Ingest(v)
      PROVE  Ordered'
  <2>1. pipeline # Absent
    BY PipelineAssumption DEF TypeOK
  <2>2. \A w \in Version : edition'[w] # Absent <=> w = v \/ edition[w] # Absent
    BY <1>1, <2>1 DEF Ingest, TypeOK
  <2>3. mandated' \subseteq mandated
    BY <1>1 DEF Ingest
  <2>4. \A o \in mandated' : edition'[o.version] # Absent
    BY <2>2, <2>3 DEF Ordered, Live, TypeOK, Obligation
  <2>5. ASSUME NEW w \in Version, NEW u \in Version, w # u,
               edition'[w] # Absent, edition'[u] # Absent
        PROVE  <<w, u>> \in earlier' \/ <<u, w>> \in earlier'
    <3>1. earlier \subseteq earlier'
      BY <1>1 DEF Ingest
    <3>2. CASE edition[w] # Absent /\ edition[u] # Absent
      BY <2>5, <3>1, <3>2 DEF Ordered, Live
    <3>3. CASE ~(edition[w] # Absent /\ edition[u] # Absent)
      <4>1. /\ edition[v] = Absent
            /\ \/ w = v /\ edition[u] # Absent
               \/ u = v /\ edition[w] # Absent
        BY <2>2, <2>5, <3>3
      <4>2. \A x \in Version : edition[x] # Absent => <<x, v>> \in earlier'
        BY <1>1, <4>1 DEF Ingest, Live
      <4> QED
        BY <4>1, <4>2
    <3> QED
      BY <3>2, <3>3
  <2> QED
    BY <2>4, <2>5 DEF Ordered, Live
<1>2. ASSUME NEW d \in Document, DeleteDocument(d)
      PROVE  Ordered'
  <2>1. PICK gone \in SUBSET Version :
           /\ edition' = [v \in Version |-> IF v \in gone THEN Absent ELSE edition[v]]
           /\ earlier' = {p \in earlier : p[1] \notin gone /\ p[2] \notin gone}
           /\ mandated' = {o \in mandated : o.version \notin gone}
    BY <1>2 DEF DeleteDocument
  <2>2. \A w \in Version : edition'[w] # Absent <=> w \notin gone /\ edition[w] # Absent
    BY <2>1
  <2>3. \A o \in mandated' : edition'[o.version] # Absent
    BY <2>1, <2>2 DEF Ordered, Live, TypeOK, Obligation
  <2>4. \A w, u \in Version : w # u /\ edition'[w] # Absent /\ edition'[u] # Absent =>
           <<w, u>> \in earlier' \/ <<u, w>> \in earlier'
    BY <2>1, <2>2 DEF Ordered, Live
  <2> QED
    BY <2>3, <2>4 DEF Ordered, Live
<1>3. ASSUME NEW run \in rebuilding,
             NEW reading \in SUBSET Passage[run.pipeline][run.version],
             NEW candidates \in SUBSET Candidates[run.version],
             WriteRebuild(run, reading, candidates)
      PROVE  Ordered'
  <2>1. /\ run.version \in Version /\ run.pipeline \in Pipeline
        /\ run.pipeline # Absent
    BY RebuildTypes, PipelineAssumption
  <2>2. /\ edition' = [edition EXCEPT ![run.version] = run.pipeline]
        /\ edition[run.version] # Absent
        /\ earlier' = earlier
        /\ mandated' = (mandated \ MandatedBy(run.version))
                          \cup {ClauseOf(run.version, r) : r \in reading}
    BY <1>3 DEF WriteRebuild, Live
  <2>3. \A w \in Version : edition'[w] # Absent <=> edition[w] # Absent
    BY <2>1, <2>2 DEF TypeOK
  <2>4. \A o \in mandated' : o \in mandated \/ o.version = run.version
    BY <2>2 DEF ClauseOf
  <2>5. \A o \in mandated' : edition'[o.version] # Absent
    BY <2>1, <2>2, <2>3, <2>4 DEF Ordered, Live, TypeOK, Obligation
  <2> QED
    BY <2>2, <2>3, <2>5 DEF Ordered, Live
<1>4. CASE \/ Upgrade
           \/ \E v \in Version : StartRebuild(v)
           \/ \E run \in rebuilding : AbandonRebuild(run)
           \/ \E e \in proposals, verdict \in Verdict : CheckProposal(e, verdict)
           \/ \E d \in deciding : RecordDecision(d)
           \/ \E o, p \in mandated, verdict \in PairingVerdict :
                 ResolvePair(o, p, verdict)
           \/ \E d \in settling : RecordPairing(d)
           \/ \E pair \in DiffPairs : Diff(pair[1], pair[2])
           \/ UNCHANGED vars
  <2>1. UNCHANGED <<edition, earlier, mandated>>
    BY <1>4 DEF Upgrade, StartRebuild, AbandonRebuild, CheckProposal,
                RecordDecision, ResolvePair, RecordPairing, Diff, catalogue,
                clauses, vars
  <2> QED
    BY <2>1 DEF Ordered, Live
<1> QED
  BY <1>1, <1>2, <1>3, <1>4 DEF Next

\* Of two live editions one comes first, so a conversion is turned to it.
LEMMA ConversionIsTurned ==
    ASSUME TypeOK, Ordered, NEW i \in Conversions
    PROVE  /\ {AsPairing(i).source, AsPairing(i).target}
                 = {linkDecisions[i].source, linkDecisions[i].target}
           /\ Precedes(AsPairing(i).source.version, AsPairing(i).target.version)
           /\ AsPairing(i).verdict = "paired" <=> linkDecisions[i].verdict = "approve"
<1> DEFINE v == linkDecisions[i].source.version
           w == linkDecisions[i].target.version
<1>1. /\ v \in Version /\ w \in Version /\ v # w
      /\ Live(v) /\ Live(w)
  BY ConversionClaimsItsKey DEF Ordered, TypeOK, Obligation
<1>2. Precedes(v, w) \/ Precedes(w, v)
  <2>1. EffectiveDate[v] \in Nat /\ EffectiveDate[w] \in Nat
    BY <1>1, EditionsAssumption
  <2>2. <<v, w>> \in earlier \/ <<w, v>> \in earlier
    BY <1>1 DEF Ordered
  <2> HIDE DEF v, w
  <2> QED
    BY <2>1, <2>2 DEF Precedes
<1>3. \/ /\ Precedes(v, w)
         /\ AsPairing(i).source = linkDecisions[i].source
         /\ AsPairing(i).target = linkDecisions[i].target
      \/ /\ Precedes(w, v)
         /\ AsPairing(i).source = linkDecisions[i].target
         /\ AsPairing(i).target = linkDecisions[i].source
  BY <1>2 DEF AsPairing, Converted
<1>4. AsPairing(i).verdict = "paired" <=> linkDecisions[i].verdict = "approve"
  BY DEF AsPairing, Converted
<1> QED
  BY <1>3, <1>4

LEMMA BootSurvive ==
    ASSUME TypeOK, Ordered, Boot
    PROVE  Survive
<1>1. PICK node \in [Conversions -> PairingId] : Minted(node)
  BY BootSteps
<1>2. Taken = Readable
  BY BootSteps DEF Taken, Readable
<1>3. \A i \in LinkId \ Readable : linkDecisions'[i] = linkDecisions[i]
  BY BootSteps
<1>4. \A j \in PairingId : pairingDecisions[j] # NoDecision =>
         pairingDecisions'[j] = pairingDecisions[j]
  BY <1>1, MintedNode, OtherNodesStay
<1>5. ASSUME NEW i \in Readable
      PROVE  \E r \in retired' :
              /\ r.decision = linkDecisions[i]
              /\ r.reason = "converted" =>
                  \E j \in PairingId :
                    /\ pairingDecisions[j] # pairingDecisions'[j]
                    /\ {pairingDecisions'[j].source, pairingDecisions'[j].target}
                         = {r.decision.source, r.decision.target}
                    /\ Precedes(pairingDecisions'[j].source.version,
                                pairingDecisions'[j].target.version)
                    /\ pairingDecisions'[j].verdict = "paired"
                         <=> r.decision.verdict = "approve"
  <2> DEFINE r == [decision |-> linkDecisions[i], reason |-> Reason(i)]
  <2>1. r \in retired'
    BY DEF Boot
  <2>2. CASE i \in Conversions
    <3>1. /\ pairingDecisions[node[i]] = NoDecision
          /\ pairingDecisions'[node[i]] = AsPairing(i)
          /\ node[i] \in PairingId
          /\ AsPairing(i) # NoDecision
      BY <1>1, <2>2, MintedNode, AsPairingType
    <3>2. /\ {AsPairing(i).source, AsPairing(i).target}
                 = {linkDecisions[i].source, linkDecisions[i].target}
          /\ Precedes(AsPairing(i).source.version, AsPairing(i).target.version)
          /\ AsPairing(i).verdict = "paired" <=> linkDecisions[i].verdict = "approve"
      BY <2>2, ConversionIsTurned
    <3>3. r.decision = linkDecisions[i]
      OBVIOUS
    <3> HIDE DEF r
    <3> QED
      BY <2>1, <3>1, <3>2, <3>3
  <2>3. CASE i \notin Conversions
    <3>1. \/ i \in SameEdition
          \/ i \in PairingExists
          \/ i \in ConflictingPairing
      BY <2>3 DEF Conversions, Convertible
    <3>2. Reason(i) # "converted"
      BY <3>1 DEF Reason
    <3> QED
      BY <2>1, <3>2
  <2> QED
    BY <2>2, <2>3
<1>6. CASE Readable = {}
  <2>1. linkDecisions' = linkDecisions
    BY <1>6, BootSteps DEF TypeOK
  <2>2. \A i \in Conversions : FALSE
    BY <1>6, ConversionClaimsItsKey
  <2>3. pairingDecisions' = pairingDecisions
    BY <1>1, <2>2 DEF Minted, TypeOK
  <2> QED
    BY <1>2, <1>6, <2>1, <2>3, UnchangedFollows DEF Survive
<1>7. CASE Readable # {}
  BY <1>2, <1>3, <1>4, <1>5, <1>7 DEF Survive
<1> QED
  BY <1>6, <1>7

LEMMA SurviveStep ==
    ASSUME TypeOK, Ordered, [MNext]_mvars
    PROVE  Survive /\ Ordered'
<1>1. CASE Boot
  BY <1>1, BootSurvive, BootSteps DEF Ordered, Live
<1>2. CASE [Next]_vars
  <2>1. /\ FollowClauses(linkDecisions, linkDecisions')
        /\ FollowClauses(pairingDecisions, pairingDecisions')
    BY <1>2, FollowStep
  <2>2. Taken = {}
    BY <2>1 DEF Taken, FollowClauses, TypeOK
  <2> QED
    BY <1>2, <2>1, <2>2, OrderedStep DEF Survive
<1> QED
  BY <1>1, <1>2 DEF MNext, mvars

\* Whatever the boots, rebuilds and reviewers before it left, a boot keeps every
\* judgement it takes away, turns the ones it converts, and replaces none.
THEOREM JudgementsSurvive == MSpec => VerdictsSurvive
<1> DEFINE Inv == TypeOK /\ OneVerdictPerPair /\ Ordered
<1>1. MInit => Inv
  BY MigratedInit DEF MInit, Init, Ordered, Live
<1>2. Inv /\ [MNext]_mvars => Inv'
  BY MigratedStep, SurviveStep
<1>3. Inv /\ [MNext]_mvars => [Survive]_mvars
  BY SurviveStep
<1>4. MSpec => [][Survive]_mvars
  <2> HIDE DEF Inv
  <2> QED
    BY <1>1, <1>2, <1>3, PTL DEF MSpec
<1> QED
  BY <1>4 DEF VerdictsSurvive

-----------------------------------------------------------------------------
(* One live pairing, with boots *)

\* Editions of one document bear different dates.  Where two are undated, which
\* comes first is the order of their ingestion, and deleting and ingesting one
\* of them again turns it.
DatesDiffer ==
    \A v, w \in Version : v # w /\ DocumentOf[v] = DocumentOf[w] =>
        EffectiveDate[v] # EffectiveDate[w]

Forward(d) == EffectiveDate[d.source.version] < EffectiveDate[d.target.version]

\* What is settled goes from an older edition to a newer one.
PairingsForward ==
    /\ \A v \in Version : <<v, v>> \notin earlier
    /\ \A d \in settling : Forward(d)
    /\ \A i \in PairingId : pairingDecisions[i] # NoDecision =>
          Forward(pairingDecisions[i])

\* Where dates differ, what precedes is older.
LEMMA PrecedesIsOlder ==
    ASSUME DatesDiffer, \A v \in Version : <<v, v>> \notin earlier,
           NEW v \in Version, NEW w \in Version,
           DocumentOf[v] = DocumentOf[w], Precedes(v, w)
    PROVE  EffectiveDate[v] < EffectiveDate[w]
<1>1. CASE EffectiveDate[v] < EffectiveDate[w]
  BY <1>1
<1>2. CASE EffectiveDate[v] = EffectiveDate[w] /\ <<v, w>> \in earlier
  <2>1. v # w
    BY <1>2
  <2> QED
    BY <1>2, <2>1 DEF DatesDiffer
<1> QED
  BY <1>1, <1>2 DEF Precedes

LEMMA ForwardStep ==
    ASSUME DatesDiffer, TypeOK, PairingsForward, [Next]_vars
    PROVE  PairingsForward'
<1>1. ASSUME \A v \in Version : <<v, v>> \notin earlier',
             settling' \subseteq settling,
             \A i \in PairingId : pairingDecisions'[i] # NoDecision =>
                 Forward(pairingDecisions'[i])
      PROVE  PairingsForward'
  BY <1>1 DEF PairingsForward, Forward
<1>2. ASSUME NEW v \in Version, Ingest(v)
      PROVE  PairingsForward'
  <2>1. \A u \in Version : <<u, u>> \notin earlier'
    BY <1>2 DEF Ingest, PairingsForward
  <2>2. UNCHANGED <<settling, pairingDecisions>>
    BY <1>2 DEF Ingest, decisionNodes, requests
  <2> QED
    BY <1>1, <2>1, <2>2 DEF PairingsForward
<1>3. ASSUME NEW d \in Document, DeleteDocument(d)
      PROVE  PairingsForward'
  <2>1. earlier' \subseteq earlier /\ UNCHANGED <<settling, pairingDecisions>>
    BY <1>3 DEF DeleteDocument, decisionNodes, requests
  <2> QED
    BY <1>1, <2>1 DEF PairingsForward
<1>4. ASSUME NEW run \in rebuilding,
             NEW reading \in SUBSET Passage[run.pipeline][run.version],
             NEW candidates \in SUBSET Candidates[run.version],
             WriteRebuild(run, reading, candidates)
      PROVE  PairingsForward'
  <2> DEFINE carried == Carried(MandatedBy(run.version), reading)
  <2>1. earlier' = earlier /\ settling' = settling
    BY <1>4 DEF WriteRebuild
  <2>2. PICK moves \in Movable(pairingDecisions, carried) :
           pairingDecisions' = Repointed(pairingDecisions, carried, moves)
    BY <1>4 DEF WriteRebuild
  <2>3. ASSUME NEW i \in PairingId, pairingDecisions'[i] # NoDecision
        PROVE  Forward(pairingDecisions'[i])
    <3>1. CASE i \notin moves
      <4>1. pairingDecisions'[i] = pairingDecisions[i]
        BY <2>2, <3>1 DEF TypeOK, Repointed
      <4> QED
        BY <2>3, <4>1 DEF PairingsForward
    <3>2. CASE i \in moves
      <4> DEFINE d == pairingDecisions[i]
      <4>1. d # NoDecision /\ d \in PairingDecision
        BY <3>2, MovesAreRecorded DEF TypeOK
      <4>2. pairingDecisions'[i] = Retargeted(d, carried)
        BY <2>2, <3>2 DEF TypeOK, Repointed
      <4>3. carried \in [Obligation -> Obligation]
        BY RebuildTypes
      <4>4. /\ SameWording(d.source, carried[d.source])
            /\ SameWording(d.target, carried[d.target])
        BY <4>1, CarriedSays DEF PairingDecision
      <4>5. /\ pairingDecisions'[i].source = carried[d.source]
            /\ pairingDecisions'[i].target = carried[d.target]
        BY <4>1, <4>2, <4>3, PairingsAreJudged DEF Judged
      <4>6. Forward(d)
        BY <4>1 DEF PairingsForward
      <4> HIDE DEF carried, d
      <4> QED
        BY <4>4, <4>5, <4>6 DEF SameWording, Forward
    <3> QED
      BY <3>1, <3>2
  <2> QED
    BY <1>1, <2>1, <2>3 DEF PairingsForward
<1>5. ASSUME NEW o \in mandated, NEW p \in mandated, NEW verdict \in PairingVerdict,
             ResolvePair(o, p, verdict)
      PROVE  PairingsForward'
  <2> DEFINE d == [source |-> o, target |-> p, verdict |-> verdict]
  <2>1. o.version \in Version /\ p.version \in Version
    BY DEF TypeOK, Obligation
  <2>2. Precedes(o.version, p.version) /\ DocumentOf[o.version] = DocumentOf[p.version]
    BY <1>5 DEF ResolvePair, SameDocument
  <2>3. Forward(d)
    BY <2>1, <2>2, PrecedesIsOlder DEF PairingsForward, Forward
  <2>4. UNCHANGED <<earlier, pairingDecisions>>
    BY <1>5 DEF ResolvePair, catalogue, decisionNodes
  <2>5. settling' = settling \cup {d}
    BY <1>5 DEF ResolvePair
  <2> QED
    BY <2>3, <2>4, <2>5 DEF PairingsForward, Forward
<1>6. ASSUME NEW d \in settling, RecordPairing(d)
      PROVE  PairingsForward'
  <2>1. earlier' = earlier /\ settling' \subseteq settling
    BY <1>6 DEF RecordPairing, catalogue
  <2>2. \A i \in PairingId : pairingDecisions'[i] \in {d, pairingDecisions[i]}
    <3>1. CASE pairingDecisions' = pairingDecisions
      BY <3>1
    <3>2. CASE pairingDecisions' # pairingDecisions
      <4>1. PICK id \in PairingId :
               pairingDecisions' = [pairingDecisions EXCEPT ![id] = d]
        BY <1>6, <3>2 DEF RecordPairing
      <4> QED
        BY <4>1 DEF TypeOK
    <3> QED
      BY <3>1, <3>2
  <2> QED
    BY <1>1, <2>1, <2>2 DEF PairingsForward
<1>7. CASE \/ Upgrade
           \/ \E v \in Version : StartRebuild(v)
           \/ \E run \in rebuilding : AbandonRebuild(run)
           \/ \E e \in proposals, verdict \in Verdict : CheckProposal(e, verdict)
           \/ \E d \in deciding : RecordDecision(d)
           \/ \E pair \in DiffPairs : Diff(pair[1], pair[2])
           \/ UNCHANGED vars
  <2>1. UNCHANGED <<earlier, settling, pairingDecisions>>
    BY <1>7 DEF Upgrade, StartRebuild, AbandonRebuild, CheckProposal,
                RecordDecision, Diff, catalogue, decisionNodes, requests, vars
  <2> QED
    BY <1>1, <2>1 DEF PairingsForward
<1> QED
  BY <1>2, <1>3, <1>4, <1>5, <1>6, <1>7 DEF Next

\* A conversion is recorded older to newer too.
LEMMA ConversionIsForward ==
    ASSUME DatesDiffer, TypeOK, Ordered, PairingsForward, NEW i \in Conversions
    PROVE  Forward(AsPairing(i))
<1> DEFINE d == AsPairing(i)
<1>1. /\ {d.source, d.target} = {linkDecisions[i].source, linkDecisions[i].target}
      /\ Precedes(d.source.version, d.target.version)
  BY ConversionIsTurned
<1>2. /\ linkDecisions[i].source \in mandated /\ linkDecisions[i].target \in mandated
      /\ DocumentOf[linkDecisions[i].source.version]
            = DocumentOf[linkDecisions[i].target.version]
  BY ConversionClaimsItsKey DEF Readable, SameDocument
<1> HIDE DEF d
<1>3. /\ d.source.version \in Version /\ d.target.version \in Version
      /\ DocumentOf[d.source.version] = DocumentOf[d.target.version]
  BY <1>1, <1>2 DEF TypeOK, Obligation
<1>4. Forward(d)
  BY <1>1, <1>3, PrecedesIsOlder DEF PairingsForward, Forward
<1> QED
  BY <1>4 DEF d

LEMMA BootForward ==
    ASSUME DatesDiffer, TypeOK, Ordered, PairingsForward, Boot
    PROVE  PairingsForward'
<1>1. PICK node \in [Conversions -> PairingId] : Minted(node)
  BY BootSteps
<1>2. \A j \in PairingId : pairingDecisions'[j] # NoDecision =>
         Forward(pairingDecisions'[j])
  BY <1>1, MintedNode, OtherNodesStay, ConversionIsForward DEF PairingsForward
<1>3. settling' = {} /\ earlier' = earlier
  BY BootSteps
<1> QED
  BY <1>2, <1>3 DEF PairingsForward, Forward

\* Two forward verdicts that do not contend are apart: a clause that is newer in
\* the one and older in the other has its partners in two editions.
LEMMA UncontendedIsApart ==
    ASSUME NEW d, NEW e,
           EffectiveDate[d.source.version] \in Nat,
           EffectiveDate[d.target.version] \in Nat,
           EffectiveDate[e.target.version] \in Nat,
           Forward(d), Forward(e), d.verdict = "paired", e.verdict = "paired",
           ~Contend(d, e)
    PROVE  Apart(d, e)
<1>1. d.source = e.source => d.target.version # e.target.version
  BY DEF Contend
<1>2. d.target = e.target => d.source.version # e.source.version
  BY DEF Contend
<1>3. d.source = e.target => d.target.version # e.source.version
  BY DEF Forward
<1> QED
  BY <1>1, <1>2, <1>3 DEF Apart

\* Conversions do not contend with each other, nor with a live verdict.
LEMMA ConversionsDoNotContend ==
    ASSUME NEW i \in Conversions
    PROVE  /\ \A k \in Conversions : k # i =>
                ~Contend(AsPairing(i), AsPairing(k))
           /\ \A d \in Recorded : d.source \in mandated /\ d.target \in mandated =>
                ~Contend(d, AsPairing(i)) /\ ~Contend(AsPairing(i), d)
<1>1. \A d, e : Contend(d, e) => Contend(e, d)
  BY DEF Contend
<1>2. \A k \in Conversions : k # i => ~Contend(AsPairing(k), AsPairing(i))
  BY DEF Conversions, ConflictingPairing
<1>3. \A d \in Recorded : d.source \in mandated /\ d.target \in mandated =>
         ~Contend(d, AsPairing(i))
  BY DEF Conversions, ConflictingPairing
<1> QED
  BY <1>1, <1>2, <1>3

LEMMA BootKeepsApart ==
    ASSUME DatesDiffer, TypeOK, Ordered, PairingsForward, Boot, OneLivePairing
    PROVE  OneLivePairing'
<1>1. PICK node \in [Conversions -> PairingId] : Minted(node)
  BY BootSteps
<1>2. mandated' = mandated /\ TypeOK' /\ PairingsForward'
  BY BootSteps, BootTypes, BootForward
<1> SUFFICES ASSUME NEW i \in PairingId, NEW j \in PairingId, i # j,
                    Applied(pairingDecisions'[i], mandated),
                    Applied(pairingDecisions'[j], mandated)
             PROVE  Apart(pairingDecisions'[i], pairingDecisions'[j])
  BY <1>2, OneLiveIsAllApart DEF AllApart
<1> DEFINE d == pairingDecisions'[i]
           e == pairingDecisions'[j]
<1>3. /\ d # NoDecision /\ d.verdict = "paired"
      /\ d.source \in mandated /\ d.target \in mandated
      /\ e # NoDecision /\ e.verdict = "paired"
      /\ e.source \in mandated /\ e.target \in mandated
  BY DEF Applied
<1>4. Forward(d) /\ Forward(e)
  BY <1>2, <1>3 DEF PairingsForward, Forward
<1>5. /\ EffectiveDate[d.source.version] \in Nat
      /\ EffectiveDate[d.target.version] \in Nat
      /\ EffectiveDate[e.target.version] \in Nat
  <2>1. \A o \in mandated : EffectiveDate[o.version] \in Nat
    BY EditionsAssumption DEF TypeOK, Obligation
  <2> QED
    BY <1>3, <2>1
<1>6. ~Contend(d, e) => Apart(d, e)
  <2> HIDE DEF d, e
  <2> QED
    BY <1>3, <1>4, <1>5, UncontendedIsApart
<1>7. CASE \A k \in Conversions : node[k] # i /\ node[k] # j
  <2>1. d = pairingDecisions[i] /\ e = pairingDecisions[j]
    BY <1>1, <1>7, OtherNodesStay
  <2>2. AllApart(pairingDecisions, mandated)
    BY OneLiveIsAllApart
  <2> QED
    BY <2>1, <2>2 DEF AllApart
<1>8. ASSUME NEW k \in Conversions, node[k] = i, \A l \in Conversions : node[l] # j
      PROVE  ~Contend(d, e)
  <2>1. d = AsPairing(k) /\ e = pairingDecisions[j]
    BY <1>1, <1>8, MintedNode, OtherNodesStay
  <2>2. e \in Recorded
    BY <1>3, <2>1 DEF Recorded
  <2> QED
    BY <1>3, <2>1, <2>2, ConversionsDoNotContend
<1>9. ASSUME NEW k \in Conversions, node[k] = j, \A l \in Conversions : node[l] # i
      PROVE  ~Contend(d, e)
  <2>1. e = AsPairing(k) /\ d = pairingDecisions[i]
    BY <1>1, <1>9, MintedNode, OtherNodesStay
  <2>2. d \in Recorded
    BY <1>3, <2>1 DEF Recorded
  <2> QED
    BY <1>3, <2>1, <2>2, ConversionsDoNotContend
<1>10. ASSUME NEW k \in Conversions, node[k] = i, NEW l \in Conversions, node[l] = j
       PROVE  ~Contend(d, e)
  <2>1. d = AsPairing(k) /\ e = AsPairing(l) /\ k # l
    BY <1>1, <1>10, MintedNode
  <2> QED
    BY <2>1, ConversionsDoNotContend
<1>11. CASE \E k \in Conversions : node[k] = i \/ node[k] = j
  <2>1. ~Contend(d, e)
    BY <1>8, <1>9, <1>10, <1>11
  <2> QED
    BY <1>6, <2>1
<1> QED
  BY <1>7, <1>11

\* Where no two editions of a document bear one date, boots are no exception:
\* unless a clause changes, neither a request nor a conversion gives one a
\* second live partner in one other edition.
THEOREM MigratedOnePairing == DatesDiffer => (MSpec => SettlingKeepsOnePairing)
<1> SUFFICES ASSUME DatesDiffer
             PROVE  MSpec => SettlingKeepsOnePairing
  OBVIOUS
<1> DEFINE Inv == TypeOK /\ OneVerdictPerPair /\ Ordered /\ PairingsForward
           Keeps == mandated' = mandated /\ OneLivePairing => OneLivePairing'
<1>1. MInit => Inv
  BY MigratedInit DEF MInit, Init, Ordered, Live, PairingsForward
<1>2. Inv /\ [MNext]_mvars => Inv' /\ Keeps
  <2> SUFFICES ASSUME Inv, [MNext]_mvars
               PROVE  Inv' /\ Keeps
    OBVIOUS
  <2>1. CASE Boot
    BY <2>1, MigratedStep, SurviveStep, BootForward, BootKeepsApart
  <2>2. CASE [Next]_vars
    BY <2>2, MigratedStep, SurviveStep, ForwardStep, SettlingStep
  <2> QED
    BY <2>1, <2>2 DEF MNext, mvars
<1>3. Inv /\ [MNext]_mvars => [Keeps]_vars
  BY <1>2
<1>4. MSpec => [][Keeps]_vars
  <2> HIDE DEF Inv, Keeps
  <2> QED
    BY <1>1, <1>2, <1>3, PTL DEF MSpec
<1> QED
  BY <1>4 DEF SettlingKeepsOnePairing, Keeps
=============================================================================
