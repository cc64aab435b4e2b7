\* One worker at a time, new versions, failures and crashes.
SPECIFICATION FairSpec
CONSTANTS
    c1 = c1  c2 = c2  c3 = c3
    w1 = w1  w2 = w2  w3 = w3  p1 = p1  p2 = p2
    Workers = {w1}
    Process <- OneWorker
    Tasks = {t1, t2}
    Chunks = {c1, c2, c3}
    MaxVersions = 2
    Content <- TwoVersions
    MaxRetries = 1
    MaxFaults = 2
    MaxCrashes = 1
    None = None
PROPERTIES PublishedOverFullIndex PublishedUntilNewVersion WaitingTaskPublishes
