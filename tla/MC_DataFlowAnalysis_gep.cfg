CONSTANTS
    Progs <- MC_Progs
    MaxDepth = 4
SPECIFICATION Spec2
\* Stage 2 ends the model; nothing follows it.
CHECK_DEADLOCK FALSE
INVARIANT UsesFollowGEPResults
