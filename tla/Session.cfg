SPECIFICATION FairProgress
CONSTANTS
    Grace = 2
    Limit = 3
    ProviderSteps = 2
INVARIANTS TypeOK ExitTruthful ContextBacked StepsNested HeadersOnce
PROPERTIES LossNoticed NothingLeft ImplementsService
CHECK_DEADLOCK FALSE
