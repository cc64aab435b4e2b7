SPECIFICATION Spec
CONSTANTS
    CharsPerToken = 1
    Scale = 10000
    NoFilter = "none"
    RRFK = 60
    ModelDimensions = 3
    MinClaim = 1
    MinSentence = 2
    MinAnswerOverlap = 2800
    Instruction <- MCInstruction
    Negations <- MCNegations
    SupportThreshold = 1500
    NegationOverlap = 1000
    StableDelta = 2
    CanaryText <- MCCanaryText
    CanaryRank = 99
    Keywords <- MCKeywords
    RelevantOverlap = 1000
    MaxPieces = 4
    Documents <- MCDocuments
    Comments <- MCComments
    Corpora <- MCCorpora
    Batched <- MCBatched
    Words_ <- MCWords
    Candidates <- MCCandidates
    Replies <- MCReplies
    Rescored <- MCRescored
    Lookups <- MCLookups
    Streams <- MCStreams
    Judged_ <- MCJudged
    Tasks <- MCTasks
    Runs <- MCRuns
    Reports <- MCReports
    DataSets <- MCDataSets
    ChunkerConfig <- MCChunkerConfig
    EmbeddingConfig <- MCEmbeddingConfig
INVARIANTS ChunksKeepEverything RetrievalContract ContextContract AnswerContract EvaluationContract
CHECK_DEADLOCK FALSE
