\* A version registered while another one is processed.
SPECIFICATION Spec
CONSTANTS
    c1 = c1  c2 = c2  c3 = c3
    w1 = w1  w2 = w2  w3 = w3  p1 = p1  p2 = p2
    Workers = {w1}
    Process <- OneWorker
    Tasks = {t1}
    Chunks = {c1, c2, c3}
    MaxVersions = 2
    Content <- TwoVersions
    MaxRetries = 1
    MaxFaults = 0
    MaxCrashes = 0
    None = None
INVARIANTS PublishedIsSearchable
