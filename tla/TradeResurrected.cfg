SPECIFICATION MCSpec
CONSTANTS
    NoValue = NoValue
    Blank = Blank
    Users = {u1, u2}
    Requests = {r1, r2}
    Ids = {i1, i2}
    Forms <- MCForms
    Values = {v1, v2}
\* All keys may be used up and all rows deleted.
CHECK_DEADLOCK FALSE
INVARIANTS DeletedStaysDeleted
SYMMETRY Symmetry
