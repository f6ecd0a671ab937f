CONSTANT CFGs <- MC_Acyclic
CONSTANT Seeds <- MC_Seeds
CONSTANT Canonical <- MC_Canonical
SPECIFICATION Spec
\* Both runs stop once their functions are classified.
CHECK_DEADLOCK FALSE
INVARIANT EdgeFlagsIndependentOfOrder
