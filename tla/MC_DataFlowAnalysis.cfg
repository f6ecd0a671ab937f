CONSTANTS
    Progs <- MC_Progs
    MaxDepth = 4
SPECIFICATION Spec2
\* Stage 2 ends the model; nothing follows it.
CHECK_DEADLOCK FALSE
INVARIANT TypeOK2
INVARIANT FindUsesMatchesReference
INVARIANT CheckCountsMatchSpec
INVARIANT CheckedTargetsMatchReference
INVARIANT BlockWalksMatchGraphs
PROPERTY Termination
INVARIANT UseUnchecksMatchReference
INVARIANT SrcUnchecksMatchReference
