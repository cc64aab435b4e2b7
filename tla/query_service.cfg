SPECIFICATION Spec
CONSTANTS
    r1 = r1
    r2 = r2
    main = main
    Requests = {r1, r2}
    Main = main
    UseOllama = "auto"
    Kinds <- MCKinds
    Scores = {"bad"}
    MaxTraces = 1
    MaxTokens = 1
    MaxStarts = 2
    StopsAt <- MCStopsAt
INVARIANTS TypeOK StreamProtocol OnePipeline ObservationsAgree FeedKeepsRecords
PROPERTIES EveryRequestEnds
CHECK_DEADLOCK FALSE
