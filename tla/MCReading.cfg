SPECIFICATION Spec
CONSTANTS
    e1 = e1
    e2 = e2
    opening = opening
    duties = duties
    contents = contents
    None = None
    Edition = {e1, e2}
    ChunksOf <- MCChunksOf
    Text = {opening, duties, contents}
    Statement <- MCStatement
    Answers <- MCAnswers
    Extractor <- MCExtractor
    Worker = {w1}
    ATTEMPTS = 2
INVARIANTS
    ReadingsAreOwn
    WrittenRunsAreWhole
PROPERTIES
    RerunsAskOnlyOfLosses
