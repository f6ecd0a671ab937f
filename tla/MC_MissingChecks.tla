-------------------------- MODULE MC_MissingChecks --------------------------
EXTENDS MissingChecks

\* Two loaded modules; a sequence of model values keeps their load order.
CONSTANTS m1, m2, f1, f2
MC_Modules == <<m1, m2>>
MC_Srcs == {f1, f2}
\* Two comparison shapes, e.g. <ICMP_LT, SCC_CONST> and <ICMP_EQ, SCC_CONST>.
MC_Shapes == {"LT_CONST", "EQ_CONST"}
=============================================================================
