\* Two threads of one process and a process of its own, three versions, failures and crashes.
SPECIFICATION Spec
CONSTANTS
    c1 = c1  c2 = c2  c3 = c3
    w1 = w1  w2 = w2  w3 = w3  p1 = p1  p2 = p2
    Workers = {w1, w2, w3}
    Process <- Pool
    Tasks = {t1, t2}
    Chunks = {c1, c2, c3}
    MaxVersions = 3
    Content <- EmptyVersion
    MaxRetries = 1
    MaxFaults = 1
    MaxCrashes = 2
    None = None
SYMMETRY Symmetric
INVARIANTS TypeOK VectorsHaveRows RedeliveryIsHarmless
