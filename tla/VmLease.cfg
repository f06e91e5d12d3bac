SPECIFICATION FairSpec
CONSTANTS
    KeepaliveInterval = 5
    KeepaliveTimeout = 15
    CheckPeriod = 1
    MaxLag = 2
    MaxDelay = 8
INVARIANTS TypeOK OtpReadable NoPrematureShutdown OrphanBounded
PROPERTIES ImplementsLease OrphanEnds
