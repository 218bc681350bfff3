SPECIFICATION FairSpec
CONSTANTS
    Version = {v1, v2}
    Run = {r1, r2}
    Worker = {w1}
    Request = {q1}
    None = None
PROPERTIES
    KeepsTheLog
    EveryRunIsAnswered
