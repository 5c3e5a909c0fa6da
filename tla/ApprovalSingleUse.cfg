SPECIFICATION MCSpec
CONSTANTS
    NoValue = NoValue
    Sessions = {s1, s2}
    Requests = {r1, r2}
    Nonces = {n1, n2}
    Procs = {p1, p2}
    Prompts = {v1, v2}
    TTL = 2
    MaxStall = 1
    MinThink = 1
    MaxTime = 5
    MaxRestarts = 1
\* Sessions end and the clock is bounded: then nothing is left to do.
CHECK_DEADLOCK FALSE
INVARIANTS SentByOneProcess
SYMMETRY Symmetry
