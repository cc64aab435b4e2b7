SPECIFICATION Spec
CONSTANTS
    None = None
    Slugs = {s1}
    Bodies = {b1, b2}
    Models = {m}
    Instances = {i1}
    Requests = {r1, r2}
    Questions = {q}
    Policies = {p}
    Outcomes = {"dead_end"}
    CacheLimit = 2
    MaxAsks = 2
    MaxRatings = 1
    MaxChanges = 1
    MaxFaults = 1
INVARIANTS TypeOK GraphFollowsCorpus VectorsFollowCorpus CacheFollowsCorpus
PROPERTIES RatingsOutliveAnswers
SYMMETRY MCSymmetry
VIEW MCView
CHECK_DEADLOCK FALSE
