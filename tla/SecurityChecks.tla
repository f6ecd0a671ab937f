--------------------------- MODULE SecurityChecks ---------------------------
(***************************************************************************)
(* Per-function security-check recognition of SecurityChecksPass          *)
(* (src/analyzer/src/lib/SecurityChecks.cc).                               *)
(*                                                                         *)
(* identifySecurityChecks seeds a block-flag map bbErrMap                  *)
(* (checkErrReturn / checkErrHandle), propagates it onto CFG edges in      *)
(* markAllEdgesErrFlag and its work-list helpers, and then classifies      *)
(* every branch whose successor edges disagree as a security check.        *)
(*                                                                         *)
(* The value-flow seeding is abstracted: Init lets every block carry any   *)
(* combination of the flags markBBErr can OR into it.  The propagation is  *)
(* modelled step by step: one action per iteration of the work-list loops  *)
(* of recurMarkEdgesToBlock and recurMarkEdgesFromBlock, whose FIFO order   *)
(* and visited sets decide the result.  recurMarkEdgesToErrHandle and      *)
(* recurMarkEdgesToErrReturn are order independent (each edge is examined  *)
(* once, when its target block is popped) and are operators.               *)
(***************************************************************************)
EXTENDS Integers, Sequences, FiniteSets, SequencesExt, Folds, ErrFlags

CONSTANTS
    CFGs,           \* the functions to analyse: records [succ, layout, porder]
    Seeds           \* the block flag words checkErrReturn/checkErrHandle may leave

ASSUME Seeds \subseteq SeedFlag

VARIABLES
    g,          \* the function being analysed (fixed for a behaviour)
    bbErrMap,   \* block -> flag word seeded by checkErrReturn/checkErrHandle
    edgeErrMap, \* CFG edge -> flag word; an absent entry reads as 0 = {}
    todo,       \* blocks still to visit in markAllEdgesErrFlag's loop
    jobs,       \* helper calls still to make for the current block
    mode,       \* which work-list helper owns queue: "to" or "from"
    queue,      \* EEP: the helper's FIFO of <<edge, flag>>
    visited,    \* PE: the helper's set of edges already popped
    phase,      \* "mark" (markAllEdgesErrFlag) then "done"
    SCSet       \* branch blocks recognised as security checks

vars == <<g, bbErrMap, edgeErrMap, todo, jobs, mode, queue, visited, phase, SCSet>>

Blocks       == DOMAIN g.succ
SuccSet(b)   == Range(g.succ[b])
Edges        == UNION {{<<b, s>> : s \in SuccSet(b)} : b \in Blocks}
\* Mutant: the walk takes successors where it means predecessors.
PredSeqSwapped(b) == SelectSeq(g.porder, LAMBDA p : p \in SuccSet(b))

\* predecessors(TB): the use-list order of the block, which LLVM does not
\* tie to the layout; porder is a permutation of the blocks that fixes it.
PredSeq(b)   == SelectSeq(g.porder, LAMBDA p : b \in SuccSet(p))
PredSet(b)   == Range(PredSeq(b))
NumSuccessors(b) == Len(g.succ[b])

\* Mutant: every block with a successor counts as a branch.
IsBranchAnySucc(p) == NumSuccessors(p) > 0

\* TI->getNumSuccessors() > 1: the handle walk stops at this block.
IsBranch(p) == NumSuccessors(p) > 1

(***************************************************************************)
(* recurMarkEdgesToErrHandle(BB): walk predecessors backwards marking     *)
(* every edge Must_Handle_Err, not going past a block with >1 successor.  *)
(***************************************************************************)
recurMarkEdgesToErrHandle(map, BB) ==
    LET RECURSIVE Walk(_, _, _)
        Walk(m, EB, PB) ==
          IF EB = {} THEN m
          ELSE LET TB  == CHOOSE b \in EB : TRUE
                   new == {<<p, TB>> : p \in {p \in PredSet(TB) :
                                  Must_Handle_Err \notin m[<<p, TB>>]}}
                   m2  == [e \in DOMAIN m |->
                             IF e \in new
                             THEN updateHandleFlag(m[e], {Must_Handle_Err})
                             ELSE m[e]]
                   nxt == {e[1] : e \in {e \in new : ~IsBranch(e[1])}}
               IN Walk(m2, (EB \ {TB}) \cup (nxt \ (PB \cup {TB})), PB \cup {TB})
    IN Walk(map, {BB}, {})

(***************************************************************************)
(* recurMarkEdgesToErrReturn(BB, flag): walk predecessors backwards,      *)
(* setting the return bits of every edge whose return bits differ.        *)
(***************************************************************************)
recurMarkEdgesToErrReturn(map, BB, flag) ==
    LET RECURSIVE Walk(_, _, _)
        Walk(m, EB, PB) ==
          IF EB = {} THEN m
          ELSE LET TB  == CHOOSE b \in EB : TRUE
                   new == {<<p, TB>> : p \in {p \in PredSet(TB) :
                                  RetBits(m[<<p, TB>>]) # RetBits(flag)}}
                   m2  == [e \in DOMAIN m |->
                             IF e \in new THEN updateReturnFlag(m[e], flag)
                             ELSE m[e]]
               IN Walk(m2, (EB \ {TB}) \cup ({e[1] : e \in new} \ (PB \cup {TB})),
                       PB \cup {TB})
    IN Walk(map, {BB}, {})

(***************************************************************************)
(* Initial state: identifySecurityChecks has cleared edgeErrMap and SCSet  *)
(* and run checkErrReturn and checkErrHandle, which leave any combination  *)
(* of seeds on any block.                                                  *)
(***************************************************************************)
Init ==
    /\ g \in CFGs
    /\ bbErrMap \in [DOMAIN g.succ -> Seeds]
    /\ edgeErrMap = [e \in Edges |-> {}]
    /\ todo = g.layout
    /\ jobs = <<>>
    /\ mode = "to"
    /\ queue = <<>>
    /\ visited = {}
    /\ phase = "mark"
    /\ SCSet = {}

\* The PE test of both work-list loops: an edge is processed on its first pop.
FirstPop(e) == e \notin visited

\* The work-list helper of the current call has returned.
Idle == queue = <<>>

(***************************************************************************)
(* One iteration of markAllEdgesErrFlag's block loop: a block without      *)
(* error flags is skipped; otherwise the helper calls the body makes are   *)
(* queued in program order: the handle walk, then for every predecessor    *)
(* edge updateReturnFlag + recurMarkEdgesToBlock, then for every successor *)
(* edge updateReturnFlag + recurMarkEdgesFromBlock.                        *)
(***************************************************************************)
VisitBlock ==
    /\ phase = "mark" /\ todo # <<>> /\ jobs = <<>> /\ Idle
    /\ LET BB      == Head(todo)
           NewFlag == bbErrMap[BB]
           hdl == IF Must_Handle_Err \in NewFlag
                  THEN <<[kind |-> "handle", edge |-> <<BB, BB>>, flag |-> NewFlag]>>
                  ELSE <<>>
           tos == [i \in 1..Len(PredSeq(BB)) |->
                    [kind |-> "to", edge |-> <<PredSeq(BB)[i], BB>>, flag |-> NewFlag]]
           frs == [i \in 1..Len(g.succ[BB]) |->
                    [kind |-> "from", edge |-> <<BB, g.succ[BB][i]>>, flag |-> NewFlag]]
       IN jobs' = hdl \o (IF RetBits(NewFlag) # {} THEN tos \o frs ELSE <<>>)
    /\ todo' = Tail(todo)
    /\ UNCHANGED <<g, bbErrMap, edgeErrMap, mode, queue, visited, phase, SCSet>>

MarkErrHandle ==
    /\ jobs # <<>> /\ Head(jobs).kind = "handle" /\ Idle
    /\ edgeErrMap' = recurMarkEdgesToErrHandle(edgeErrMap, Head(jobs).edge[1])
    /\ jobs' = Tail(jobs)
    /\ UNCHANGED <<g, bbErrMap, todo, mode, queue, visited, phase, SCSet>>

\* updateReturnFlag(edgeErrMap[CE], NewFlag); recurMarkEdgesToBlock(CE, NewFlag)
CallMarkEdgesToBlock ==
    /\ jobs # <<>> /\ Head(jobs).kind = "to" /\ Idle
    /\ LET CE == Head(jobs).edge
       IN /\ edgeErrMap' = [edgeErrMap EXCEPT ![CE] =
                                updateReturnFlag(@, Head(jobs).flag)]
          /\ queue' = <<<<CE, Head(jobs).flag>>>>
    /\ mode' = "to"
    /\ visited' = {}
    /\ jobs' = Tail(jobs)
    /\ UNCHANGED <<g, bbErrMap, todo, phase, SCSet>>

\* Mutant: the forward walk never stops at a block that sets a return value.
ResetsErrorNever(b) == FALSE

\* recurMarkEdgesFromBlock: "If BB resets the error, stop tracking".
ResetsError(b) == RetBits(bbErrMap[b]) # {}

\* updateReturnFlag(edgeErrMap[CE], NewFlag); recurMarkEdgesFromBlock(CE, NewFlag),
\* which returns at once when the target block sets a return value itself.
CallMarkEdgesFromBlock ==
    /\ jobs # <<>> /\ Head(jobs).kind = "from" /\ Idle
    /\ LET CE == Head(jobs).edge
       IN /\ edgeErrMap' = [edgeErrMap EXCEPT ![CE] =
                                updateReturnFlag(@, Head(jobs).flag)]
          /\ queue' = IF ResetsError(CE[2]) THEN <<>>
                      ELSE <<<<CE, Head(jobs).flag>>>>
    /\ mode' = "from"
    /\ visited' = {}
    /\ jobs' = Tail(jobs)
    /\ UNCHANGED <<g, bbErrMap, todo, phase, SCSet>>

(***************************************************************************)
(* One iteration of recurMarkEdgesToBlock's loop on the popped <<e, f>>,   *)
(* TB being the source block of e.                                         *)
(***************************************************************************)
MarkEdgesToBlockStep ==
    /\ mode = "to" /\ queue # <<>>
    /\ LET e    == Head(queue)[1]
           f    == Head(queue)[2]
           rest == Tail(queue)
           TB   == e[1]
           others  == {<<TB, s>> : s \in SuccSet(TB) \ {e[2]}}
           AllMust == \A o \in others : Must_Return_Err \in edgeErrMap[o]
                                                 /\ May_Return_Err \notin edgeErrMap[o]
           AllZero == \A o \in others : Must_Return_Err \notin edgeErrMap[o]
           toMark  == SelectSeq(PredSeq(TB),
                         LAMBDA p : Must_Return_Err \notin edgeErrMap[<<p, TB>>])
       IN
       \/ /\ ~FirstPop(e)
          /\ queue' = rest
          /\ UNCHANGED <<edgeErrMap, visited>>
       \/ /\ FirstPop(e)
          /\ visited' = visited \cup {e}
          /\ \/ /\ PredSet(TB) = {} \/ RetBits(f) = {}
                /\ queue' = rest
                /\ UNCHANGED edgeErrMap
             \/ /\ PredSet(TB) # {} /\ May_Return_Err \in f
                /\ edgeErrMap' = recurMarkEdgesToErrReturn(edgeErrMap, TB, {May_Return_Err})
                /\ queue' = rest
             \/ /\ PredSet(TB) # {} /\ f \cap ErrReturnMask = {Must_Return_Err}
                /\ AllMust
                /\ edgeErrMap' = [x \in DOMAIN edgeErrMap |->
                                    IF x[2] = TB /\ x[1] \in Range(toMark)
                                    THEN updateReturnFlag(edgeErrMap[x], {Must_Return_Err})
                                    ELSE edgeErrMap[x]]
                /\ queue' = rest \o [i \in 1..Len(toMark) |->
                                       <<<<toMark[i], TB>>, {Must_Return_Err}>>]
             \/ /\ PredSet(TB) # {} /\ f \cap ErrReturnMask = {Must_Return_Err}
                /\ ~AllMust /\ ~AllZero
                /\ edgeErrMap' = recurMarkEdgesToErrReturn(edgeErrMap, TB, {May_Return_Err})
                /\ queue' = rest
             \/ /\ PredSet(TB) # {} /\ f \cap ErrReturnMask = {Must_Return_Err}
                /\ ~AllMust /\ AllZero
                /\ queue' = rest
                /\ UNCHANGED edgeErrMap
    /\ UNCHANGED <<g, bbErrMap, todo, jobs, mode, phase, SCSet>>

(***************************************************************************)
(* One iteration of recurMarkEdgesFromBlock's loop on the popped <<e, f>>, *)
(* TB being the target block of e: the flags of TB's other incoming edges  *)
(* are merged into f, and every outgoing edge whose return bits differ is  *)
(* updated and queued.                                                     *)
(***************************************************************************)
MarkEdgesFromBlockStep ==
    /\ mode = "from" /\ queue # <<>>
    /\ LET e    == Head(queue)[1]
           f    == Head(queue)[2]
           rest == Tail(queue)
           TB   == e[2]
           inFlags == [i \in 1..Len(SelectSeq(PredSeq(TB), LAMBDA p : p # e[1])) |->
                        edgeErrMap[<<SelectSeq(PredSeq(TB), LAMBDA p : p # e[1])[i], TB>>]]
           IntFlag == FoldLeft(mergeFlag, f, inFlags)
           toMark  == SelectSeq(g.succ[TB], LAMBDA s :
                         RetBits(IntFlag) # RetBits(edgeErrMap[<<TB, s>>]))
       IN
       \/ /\ ~FirstPop(e)
          /\ queue' = rest
          /\ UNCHANGED <<edgeErrMap, visited>>
       \/ /\ FirstPop(e)
          /\ visited' = visited \cup {e}
          /\ NumSuccessors(TB) = 0
          /\ queue' = rest
          /\ UNCHANGED edgeErrMap
       \/ /\ FirstPop(e)
          /\ visited' = visited \cup {e}
          /\ NumSuccessors(TB) > 0
          /\ edgeErrMap' = [x \in DOMAIN edgeErrMap |->
                              IF x[1] = TB /\ x[2] \in Range(toMark)
                              THEN updateReturnFlag(edgeErrMap[x], IntFlag)
                              ELSE edgeErrMap[x]]
          /\ queue' = rest \o [i \in 1..Len(toMark) |-> <<<<TB, toMark[i]>>, IntFlag>>]
    /\ UNCHANGED <<g, bbErrMap, todo, jobs, mode, phase, SCSet>>

(***************************************************************************)
(* The classification loop of identifySecurityChecks: a branch or switch   *)
(* with >= 2 successors is a check iff its successor edges split between   *)
(* Must_Return_Err and not, or between Must_Handle_Err and not.            *)
(***************************************************************************)
\* Mutant: any return bit, May_Return_Err included, counts as Must.
IsSecurityCheckAnyReturnBit(b) ==
    \/ /\ \E s \in SuccSet(b) : RetBits(edgeErrMap[<<b, s>>]) # {}
       /\ \E s \in SuccSet(b) : RetBits(edgeErrMap[<<b, s>>]) = {}
    \/ /\ \E s \in SuccSet(b) : Must_Handle_Err \in edgeErrMap[<<b, s>>]
       /\ \E s \in SuccSet(b) : Must_Handle_Err \notin edgeErrMap[<<b, s>>]

IsSecurityCheck(b) ==
    \/ /\ \E s \in SuccSet(b) : Must_Return_Err \in edgeErrMap[<<b, s>>]
       /\ \E s \in SuccSet(b) : Must_Return_Err \notin edgeErrMap[<<b, s>>]
    \/ /\ \E s \in SuccSet(b) : Must_Handle_Err \in edgeErrMap[<<b, s>>]
       /\ \E s \in SuccSet(b) : Must_Handle_Err \notin edgeErrMap[<<b, s>>]

identifyChecks ==
    /\ phase = "mark" /\ todo = <<>> /\ jobs = <<>> /\ Idle
    /\ SCSet' = {b \in Blocks : NumSuccessors(b) >= 2 /\ IsSecurityCheck(b)}
    /\ phase' = "done"
    /\ UNCHANGED <<g, bbErrMap, edgeErrMap, todo, jobs, mode, queue, visited>>

Next ==
    \/ VisitBlock
    \/ MarkErrHandle
    \/ CallMarkEdgesToBlock
    \/ CallMarkEdgesFromBlock
    \/ MarkEdgesToBlockStep
    \/ MarkEdgesFromBlockStep
    \/ identifyChecks

\* The pass is a sequential loop: while work is left, the next step runs.
Spec == Init /\ [][Next]_vars /\ WF_vars(Next)

-----------------------------------------------------------------------------
TypeOK ==
    /\ g \in CFGs
    /\ bbErrMap \in [Blocks -> SeedFlag]
    /\ edgeErrMap \in [Edges -> ErrFlag]
    /\ todo \in Seq(Blocks)
    /\ \A i \in DOMAIN jobs : jobs[i].kind \in {"handle", "to", "from"}
                              /\ jobs[i].kind # "handle" => jobs[i].edge \in Edges
    /\ mode \in {"to", "from"}
    /\ \A i \in DOMAIN queue : queue[i][1] \in Edges /\ queue[i][2] \in ErrFlag
    /\ visited \subseteq Edges
    /\ phase \in {"mark", "done"}
    /\ SCSet \subseteq Blocks

(***************************************************************************)
(* The work-lists of markAllEdgesErrFlag always drain: every function's    *)
(* propagation finishes and reaches the classification loop.               *)
(***************************************************************************)
Termination == <>(phase = "done")

Reaches(a, b) ==
    LET RECURSIVE R(_, _)
        R(S, n) == IF n = 0 THEN S
                   ELSE R(S \cup {y \in Blocks : \E x \in S : y \in SuccSet(x)}, n - 1)
    IN b \in R({a}, Cardinality(Blocks))

(***************************************************************************)
(* Check classification symmetry: a two-way branch A whose one successor   *)
(* S1 (entered only from A) sets an errno return value, whose other        *)
(* successor S2 (entered only from A) at most returns a non-errno value,   *)
(* with no other return seeds and no path from either successor back to    *)
(* A, is classified as a security check by identifySecurityChecks.         *)
(***************************************************************************)
SymmetricBranch(A, S1, S2) ==
    /\ S1 # S2 /\ SuccSet(A) = {S1, S2} /\ NumSuccessors(A) = 2
    /\ PredSet(S1) = {A} /\ PredSet(S2) = {A}
    /\ RetBits(bbErrMap[S1]) = {Must_Return_Err}
    /\ RetBits(bbErrMap[S2]) \subseteq {May_Return_Err}
    /\ \A b \in Blocks \ {S1, S2} : RetBits(bbErrMap[b]) = {}
    /\ ~Reaches(S1, A) /\ ~Reaches(S2, A)

CheckClassificationSymmetry ==
    phase = "done" =>
        \A A, S1, S2 \in Blocks : SymmetricBranch(A, S1, S2) => A \in SCSet

(***************************************************************************)
(* Backward propagation as the design states it: when a Must_Return_Err    *)
(* edge leaves block TB and TB's other outgoing edges are a mix, among     *)
(* them an edge carrying May_Return_Err, recurMarkEdgesToBlock collapses   *)
(* TB's incoming edges to May_Return_Err.                                  *)
(***************************************************************************)
MixedSuccessorsCollapseToMay ==
    [][ LET e  == Head(queue)[1]
            TB == e[1]
        IN  /\ mode = "to" /\ queue # <<>> /\ FirstPop(e)
            /\ RetBits(Head(queue)[2]) = {Must_Return_Err}
            /\ PredSet(TB) # {}
            /\ \E s \in SuccSet(TB) \ {e[2]} :
                   RetBits(edgeErrMap[<<TB, s>>]) = {May_Return_Err}
            => \A p \in PredSet(TB) : May_Return_Err \in edgeErrMap'[<<p, TB>>]
      ]_vars

(***************************************************************************)
(* Error-handling edges are exactly those "up to but not through the       *)
(* nearest branch": once markAllEdgesErrFlag is done, an edge carries      *)
(* Must_Handle_Err iff from its target a block calling an error-handling   *)
(* function is reached through blocks with a single successor each, and    *)
(* the return-flag propagation that runs in between never disturbs it.     *)
(***************************************************************************)
StraightLineToHandler(b) ==
    LET RECURSIVE Go(_, _)
        Go(x, n) == \/ Must_Handle_Err \in bbErrMap[x]
                    \/ n > 0 /\ NumSuccessors(x) = 1 /\ Go(g.succ[x][1], n - 1)
    IN Go(b, Cardinality(Blocks))

HandleEdgesUpToBranch ==
    phase = "done" =>
        \A e \in Edges :
            Must_Handle_Err \in edgeErrMap[e] <=> StraightLineToHandler(e[2])
=============================================================================
