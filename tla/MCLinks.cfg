SPECIFICATION Spec
CONSTANTS
    a1 = a1
    b1 = b1
    docA = docA
    docB = docB
    s1 = s1
    s2 = s2
    duty = duty
    higher = higher
    p1 = p1
    p2 = p2
    l1 = l1
    l2 = l2
    Version <- MCVersion
    Document <- MCDocument
    DocumentOf <- MCDocumentOf
    EffectiveDate <- MCEffectiveDate
    Section = {s1, s2}
    Statement = {duty, higher}
    Similar <- MCSimilar
    Pipeline = {p1, p2}
    Passage <- MCPassage
    LinkId = {l1, l2}
    PairingId = {}
    LegacyLinks <- MCNoLegacy
    Candidates <- MCCandidates
    DiffPairs = {}
    MaxInFlight = 2
    NoDecision = NoDecision
    Absent = Absent
SYMMETRY MCSymmetry
INVARIANTS
    TypeOK
    ImplementsRestsOnApproval
    ApprovalsAreLinked
    OneVerdictPerPair
    MandatedIsAnchored
PROPERTIES
    VerdictsFollowTheirClause
    RekeyKeepsVerdicts
    KeepsTheLedger
