SPECIFICATION FairSpec
CONSTANTS
    Grace = 2
    Limit = 3
INVARIANTS TypeOK ContextOwned FailureTruthful
PROPERTIES WatchFollowed LauncherFollowed FailureNoticed LauncherAnswers
           NothingLeft ImplementsService
CHECK_DEADLOCK FALSE
