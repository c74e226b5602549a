CONSTANT MaxFailures = 2
SPECIFICATION Spec
INVARIANT RestoredMeansRouted
