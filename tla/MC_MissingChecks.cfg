CONSTANTS
    m1 = m1
    m2 = m2
    f1 = f1
    f2 = f2
    Modules <- MC_Modules
    Srcs <- MC_Srcs
    Shapes <- MC_Shapes
    MaxCalls = 2
    StageBound = 4
SPECIFICATION Spec
\* run() returns and processResults is the last thing the program does.
CHECK_DEADLOCK FALSE
INVARIANT TypeOK
INVARIANT StageBarrier
INVARIANT ExactlyOncePerStage
 
