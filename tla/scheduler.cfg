SPECIFICATION FairSpec
CONSTANT MaxPid = 4
INVARIANTS OnePlace StacksApart NeverFaults
PROPERTIES StartedOnce FirstCome ReadyRuns ImplementsLifecycle
