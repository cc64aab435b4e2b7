SPECIFICATION FairSpec
CONSTANTS
    None = None
    Ingesters = {w1, w2}
    Embedders = {e1}
    Inputs <- MCInputs
    Uris = {"github"}
    Bases = {"readme"}
    Corpora = {"repo", "imported"}
    Kinds = {"prose", "code"}
    Bodies = {"short", "long"}
    Parts <- MCParts
    DocIds = {d1, d2, d3}
    Suffixes = {"x1"}
    Models = {"gemini"}
    BatchSize = 2
    MaxIngests = 3
    MaxDeletes = 1
    MaxFaults = 1
INVARIANTS TypeOK ChunksCutFromBody OneDocumentPerSource
PROPERTIES ImplementsRevisions EverythingIndexed
CHECK_DEADLOCK FALSE
