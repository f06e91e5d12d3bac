SPECIFICATION FairSpec
CONSTANT Runs = {r1, r2}
INVARIANT ClosedAccounted
PROPERTY LaunchResolves
