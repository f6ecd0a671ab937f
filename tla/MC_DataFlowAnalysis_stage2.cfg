\* A function that checks its argument and then passes it to a call, and
\* a check reached from its sources through a select: sites stage 1
\* counts as checked, counted again in stage 2.
CONSTANTS
    Progs <- MC_Stage2Progs
    MaxDepth = 4
SPECIFICATION Spec2
CHECK_DEADLOCK FALSE
INVARIANT StageTwoSeesStageOneChecks
