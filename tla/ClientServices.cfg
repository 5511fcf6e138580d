CONSTANTS
    Writers = {w1, w2}
    Kinds = {"psql", "sqlite"}
    StoreFails = TRUE
    MaxCalls = 2
    MaxLives = 2
    MaxTime = 3
SPECIFICATION FairSpec
INVARIANTS TypeOK StartedOnce AnsweredAsAsked AsksFromHeard
PROPERTIES ImplementsRegister SetsSettle StartsWhenReady
CHECK_DEADLOCK FALSE
