SPECIFICATION SettlingSpec
CONSTANTS
    NoValue = NoValue
    Users = {"u1", "u2"}
    Sessions = {"s1", "s2"}
    UserOf <- MCUserOf
    Requests = {r1, r2}
    Files = {"a", "b", "odd", "bad"}
    Journals <- MCJournals
    Fingerprints <- MCFingerprints
    Content <- MCContent
    Fingerprint <- MCFingerprint
    MaxCrashes = 1
    MaxDbErrors = 2
\* Every session may be logged out and every file deleted: then nothing is left to do.
CHECK_DEADLOCK FALSE
PROPERTIES PendingSettles
