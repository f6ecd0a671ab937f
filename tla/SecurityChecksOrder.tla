------------------------- MODULE SecurityChecksOrder -------------------------
(***************************************************************************)
(* Two runs of identifySecurityChecks on the same function and the same    *)
(* seeds, differing only in the order of the blocks (the layout the block  *)
(* loop of markAllEdgesErrFlag follows) and in the order predecessors()    *)
(* lists them.  The first run A goes to the end, then run B.  Both are     *)
(* instances of SecurityChecks.                                            *)
(***************************************************************************)
EXTENDS ErrFlags

CONSTANTS
    CFGs,       \* the functions, in every order considered
    Seeds,      \* the block flag words the seeding may leave
    Canonical   \* the orders run A uses: a subset of CFGs

VARIABLES gA, bbA, edgeA, todoA, jobsA, modeA, queueA, visitedA, phaseA, SCSetA,
          gB, bbB, edgeB, todoB, jobsB, modeB, queueB, visitedB, phaseB, SCSetB

varsA == <<gA, bbA, edgeA, todoA, jobsA, modeA, queueA, visitedA, phaseA, SCSetA>>
varsB == <<gB, bbB, edgeB, todoB, jobsB, modeB, queueB, visitedB, phaseB, SCSetB>>

A == INSTANCE SecurityChecks WITH
        g <- gA, bbErrMap <- bbA, edgeErrMap <- edgeA, todo <- todoA, jobs <- jobsA,
        mode <- modeA, queue <- queueA, visited <- visitedA, phase <- phaseA,
        SCSet <- SCSetA
B == INSTANCE SecurityChecks WITH
        g <- gB, bbErrMap <- bbB, edgeErrMap <- edgeB, todo <- todoB, jobs <- jobsB,
        mode <- modeB, queue <- queueB, visited <- visitedB, phase <- phaseB,
        SCSet <- SCSetB

\* The same function (successor lists) with the same seeds, in other orders.
Init ==
    /\ A!Init
    /\ gA \in Canonical
    /\ gB \in {h \in CFGs : h.succ = gA.succ}
    /\ bbB = bbA
    /\ B!Init

Next ==
    \/ A!Next /\ UNCHANGED varsB
    \/ phaseA = "done" /\ B!Next /\ UNCHANGED varsA

Spec == Init /\ [][Next]_<<varsA, varsB>> /\ WF_<<varsA, varsB>>(Next)

TypeOK == A!TypeOK /\ B!TypeOK

(***************************************************************************)
(* Spec section 4.2 step 3 calls the propagation a fixed-point work-list   *)
(* propagation: the edge flags identifySecurityChecks reads do not        *)
(* depend on the order of the blocks in the function or on the order       *)
(* predecessors() lists them.                                              *)
(***************************************************************************)
EdgeFlagsIndependentOfOrder ==
    (phaseA = "done" /\ phaseB = "done") => edgeA = edgeB
==============================================================================
