SPECIFICATION Spec
CONSTANTS
    NoValue = NoValue
    Symbols = {"x", "y"}
    Minute = 2
    MaxRows = 4
    Files <- MCFiles
\* A file is accepted or refused, and that is all.
CHECK_DEADLOCK FALSE
INVARIANTS
    AcceptedFileIsItsBars
    RefusalIsTrue
