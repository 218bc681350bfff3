SPECIFICATION MSpec
CONSTANTS
    e1 = e1
    e2 = e2
    doc = doc
    s1 = s1
    s2 = s2
    first = first
    second = second
    p1 = p1
    q1 = q1
    q2 = q2
    q3 = q3
    l1 = l1
    l2 = l2
    l3 = l3
    Version <- MCVersion
    Document <- MCDocument
    DocumentOf <- MCDocumentOf
    EffectiveDate <- Dated
    Section = {s1, s2}
    Statement = {first, second}
    Similar = {}
    Pipeline = {p1}
    Passage <- Repeated
    LinkId = {l1, l2, l3}
    PairingId = {q1, q2, q3}
    LegacyLinks <- BothWaysRound
    Candidates <- MCCandidates
    DiffPairs = {}
    MaxInFlight = 2
    NoDecision = NoDecision
    Absent = Absent
SYMMETRY MCSymmetry
INVARIANTS
    OneVerdictPerPair
PROPERTIES
    SettlingKeepsOnePairing
    VerdictsSurvive
