CONSTANT CFGs <- MC_CFGs
CONSTANT Seeds <- MC_Seeds
SPECIFICATION Spec
\* The pass stops once the function is classified.
CHECK_DEADLOCK FALSE
INVARIANT TypeOK
INVARIANT CheckClassificationSymmetry
INVARIANT HandleEdgesUpToBranch
