SPECIFICATION Spec
CONSTANT Runs = {r1, r2}
INVARIANT ReachableWhenDone
