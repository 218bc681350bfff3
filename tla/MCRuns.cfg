SPECIFICATION Spec
CONSTANTS
    Version = {v1}
    Run = {r1, r2}
    Worker = {w1, w2}
    Request = {q1, q2}
    None = None
SYMMETRY MCSymmetry
INVARIANTS
    TypeOK
    FinishedMeansBuilt
    FinishedRunsAreRecorded
    ScanFindsVisibleRuns
PROPERTIES
    OutcomesAreOfTheRecordedRun
