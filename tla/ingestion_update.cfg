\* Registered document; overlapping, stale and replayed deliveries; one failing step.
SPECIFICATION Spec
CONSTANTS
    d1 = d1  d2 = d2  h0 = h0  h1 = h1  h2 = h2  h3 = h3
    t1 = t1  t2 = t2  t3 = t3
    Docs = {d1}
    Hashes = {h0, h1, h2, h3}
    Malformed = {h3}
    Workers = {w1, w2}
    Tasks = {t1, t2, t3}
    Feed <- UpdateFeed
    ReplayOf <- ReplayThird
    Untracked = {}
    Seeded <- SeedOne
    MaxRuns = 7
    MaxFaults = 1
    MaxCrashes = 0
    None = None
SYMMETRY WorkerSymmetry
INVARIANTS TypeOK NewestIsActive VersionsAreBacked SuccessMeansStored NothingSilentlyDropped OnePastDuplicateCheck
PROPERTIES VersionsOnlyAdvance ImplementsDocumentVersions
