\* Three unserialized first deliveries, a loss of the versions, or one other fault; a replay.
SPECIFICATION SpecRecovery
CONSTANTS
    d1 = d1  h1 = h1  h2 = h2  t1 = t1  t2 = t2  t3 = t3  t4 = t4
    Docs = {d1}
    Hashes = {h1, h2}
    Malformed = {}
    Workers = {w1, w2, w3}
    Tasks = {t1, t2, t3, t4}
    Feed <- FirstFeed
    ReplayOf <- ReplayFourth
    Untracked = {t1, t2, t3}
    Seeded <- NoSeed
    MaxRuns = 5
    MaxFaults = 1
    MaxCrashes = 0
    None = None
SYMMETRY Symmetric
INVARIANTS NeverTwoActive RestoredVersionsAreBacked
