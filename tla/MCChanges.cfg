SPECIFICATION Spec
CONSTANTS
    e1 = e1
    e2 = e2
    doc = doc
    s1 = s1
    first = first
    second = second
    p1 = p1
    p2 = p2
    q1 = q1
    q2 = q2
    Version <- MCVersion
    Document <- MCDocument
    DocumentOf <- MCDocumentOf
    EffectiveDate <- Dated
    Section = {s1}
    Statement = {first, second}
    Similar = {}
    Pipeline = {p1, p2}
    Passage <- KeptAndAdded
    LinkId = {}
    PairingId = {q1, q2}
    LegacyLinks <- MCNoLegacy
    Candidates <- MCCandidates
    DiffPairs <- MCDiffPairs
    MaxInFlight = 1
    NoDecision = NoDecision
    Absent = Absent
SYMMETRY MCSymmetry
INVARIANTS
    ChangesTraceable
