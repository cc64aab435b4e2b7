SPECIFICATION Spec
CONSTANTS
    None = None
    Slugs = {s1}
    Bodies = {b1, b2}
    Models = {m}
    Instances = {i1}
    Requests = {r1}
    Questions = {q}
    Policies = {p}
    Outcomes = {"dead_end"}
    CacheLimit = 2
    MaxAsks = 1
    MaxRatings = 0
    MaxChanges = 1
    MaxFaults = 0
INVARIANTS CachedAnswersAreCurrent
CHECK_DEADLOCK FALSE
