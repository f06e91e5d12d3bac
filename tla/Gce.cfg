SPECIFICATION FairSpec
CONSTANTS
    Runs = {r1, r2}
    Names = {i1, i2}
    NoName = NoName
INVARIANTS RefusalContested GarbageCollected RuleFirst
PROPERTIES LiveSpared LaunchResolves
