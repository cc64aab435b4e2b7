\* Fair workers, nothing fails, a document without a row.
SPECIFICATION FairSpec
CONSTANTS
    d1 = d1  d2 = d2  h0 = h0  h1 = h1  h2 = h2  h3 = h3
    t1 = t1  t2 = t2  t3 = t3
    Docs = {d1, d2}
    Hashes = {h0, h1, h2, h3}
    Malformed = {}
    Workers = {w1, w2}
    Tasks = {t1, t2}
    Feed <- MixedFeed
    ReplayOf <- NoReplay
    Untracked = {}
    Seeded <- SeedOne
    MaxRuns = 7
    MaxFaults = 0
    MaxCrashes = 0
    None = None
PROPERTIES PayloadsArrive
