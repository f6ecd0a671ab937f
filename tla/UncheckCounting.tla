-------------------------- MODULE UncheckCounting ---------------------------
(***************************************************************************)
(* The use half of stage 2 of MissingChecksPass                            *)
(* (src/analyzer/src/lib/MissingChecks.cc, countSrcUseUnchecks and         *)
(* isCheckedBackward), run after the stage-1 counting of module            *)
(* DataFlowAnalysis.  For every direct call of the module whose            *)
(* <callee, argument> pair stage 1 counted as a checked use, the argument  *)
(* is walked backward inside the blocks that can reach the call; the       *)
(* occurrence is checked when a value of the walk has a compare, a switch  *)
(* or a check call among its users there, and an argument of the function *)
(* continues the walk at the matching operand of every caller.             *)
(*                                                                         *)
(* isCheckedBackward threads VSet and isChecked by reference; the model    *)
(* threads them as a record st = [VSet, isChecked] through the recursion.  *)
(* The callers of a function are visited in the order CHOOSE gives.        *)
(***************************************************************************)
EXTENDS DataFlowAnalysis

VARIABLES
    SrcTotalCount,    \* bag: SrcTotalCount[Src] of every counted occurrence
    SrcUncheckCount,  \* bag: the occurrences addSrcUncheck counted
    SrcUnchecksMap,   \* Src -> the values counted unchecked
    UseTotalCount,    \* bag: UseTotalCount[Use] of every counted occurrence
    UseUncheckCount,  \* bag: the occurrences addUseUncheck counted
    UseUnchecksMap,   \* Use -> the argument values counted unchecked
    stage2            \* "wait" until stage 1 is done, then "done"

vars2 == <<vars, SrcTotalCount, SrcUncheckCount, SrcUnchecksMap, UseTotalCount, UseUncheckCount, UseUnchecksMap, stage2>>

\* The position of argument A among the arguments of function F (the loop
\* over F->args; A is always an argument of F there).
ArgIndex(F, A) == FirstPos(prog.fargs[F], A) - 1

NumArgOperands(CI) == Len(Op(CI).ops) - 1

\* The scope of an occurrence: collectPredReachBlocks of the call's block,
\* without that block.
UseScope(CI) == collectPredReachBlocks(prog.bb[CI], {}) \ {prog.bb[CI]}

\* The stage-1 use keys: CheckedUseSet, filled by addUseCheck.
CheckedUseSet == BagToSet(UseCheckCount)

\* Mutant: the users loop does not skip users outside Scope.
ChecksAmongUsersAnyScope(F, V, Scope) ==
    \E UI \in users(V) :
        \/ Op(UI).k \in {"cmp", "switch"}
        \/ Op(UI).k = "call" /\ UI \in prog.checkInsts /\ prog.fn[UI] = F

\* The loop over V->users(): a compare (inModeledCheckSet holds for every
\* compare of a key in CheckedUseSet, ModelSC being ordered by SrcUse
\* alone), a switch, or a call in Ctx->CheckInstSets[F], in a block of
\* Scope, makes V checked.
ChecksAmongUsers(F, V, Scope) ==
    \E UI \in users(V) :
        /\ prog.bb[UI] \in Scope
        /\ \/ Op(UI).k \in {"cmp", "switch"}
           \/ Op(UI).k = "call" /\ UI \in prog.checkInsts /\ prog.fn[UI] = F

\* The operands the walk continues at, for the kinds that are not
\* arguments, calls, constants or loads.
BackOperands(V) ==
    CASE Kind(prog, V) = "phi"    -> Op(V).ops
      [] Kind(prog, V) = "select" -> <<Op(V).ops[2], Op(V).ops[3]>>
      [] Kind(prog, V) \in {"gep", "unary"} -> <<Op(V).ops[1]>>
      [] Kind(prog, V) = "binop"  -> <<Op(V).ops[1], Op(V).ops[2]>>
      [] OTHER -> <<>>

RECURSIVE isCheckedBackward(_, _, _, _, _), WalkAll(_, _, _, _, _),
          WalkCallers(_, _, _, _)

\* Walks the values of sequence Vs in order with the same scope.
WalkAll(F, Vs, Scope, Depth, st) ==
    FoldLeft(LAMBDA s, v : isCheckedBackward(F, v, Scope, Depth, s), st, Vs)

\* Argument V of F: every call in Ctx->Callers[F] with enough operands
\* continues at its operand ArgNo, in the caller with the blocks reaching
\* the call (its own block included), one level deeper.
WalkCallers(F, V, Depth, st) ==
    LET argNo == ArgIndex(F, V)
        step(CI, s) ==
            IF argNo >= NumArgOperands(CI) THEN s
            ELSE isCheckedBackward(prog.fn[CI], Op(CI).ops[argNo + 1],
                                   collectPredReachBlocks(prog.bb[CI], {}),
                                   Depth + 1, s)
    IN  FoldSet(step, st, CallersOf(F))

\* The early returns on isChecked and VSet, the insert into VSet, the
\* depth bound (after the insert), then the case of V.  A load continues
\* at the loads of its aliases and the values stored to them in Scope.
isCheckedBackward(F, V, Scope, Depth, st) ==
    IF st.isChecked \/ V \in st.VSet THEN st
    ELSE
    LET s1 == [st EXCEPT !.VSet = @ \cup {V}]
        k == Kind(prog, V)
    IN  CASE Depth > 5 -> s1
          [] k = "arg" -> WalkCallers(F, V, Depth, s1)
          [] ChecksAmongUsers(F, V, Scope) -> [s1 EXCEPT !.isChecked = TRUE]
          [] k = "call" \/ isConstant(V) -> s1
          [] k = "load" ->
                LET SU == {u \in UNION {users(A) : A \in getAliasPointers(Op(V).ops[1])} :
                               prog.bb[u] \in Scope /\ Op(u).k \in {"load", "store"}}
                    next(u) == IF Op(u).k = "load" THEN u ELSE Op(u).ops[1]
                IN  FoldSet(LAMBDA v, s : isCheckedBackward(F, v, Scope, Depth, s), s1,
                            {next(u) : u \in SU})
          [] OTHER -> WalkAll(F, BackOperands(V), Scope, Depth, s1)

\* The occurrences stage 2 looks at: every argument of a call that is not
\* indirect, whose first callee CF gives a key of CheckedUseSet.
Occurrences ==
    {<<CI, n>> \in {c \in Insts : Op(c).k = "call" /\ IsDirect(c)} \X (0..127) :
        /\ n < NumArgOperands(CI)
        /\ CalleesOf(CI) # {}
        /\ use_c(ResolvedCallee(CI), n) \in CheckedUseSet}

OccUse(o) == use_c(ResolvedCallee(o[1]), o[2])
OccArg(o) == Op(o[1]).ops[o[2] + 1]

\* isCheckedBackward for an occurrence, with fresh VSet and Depth 1.
OccChecked(o) ==
    isCheckedBackward(prog.fn[o[1]], OccArg(o), UseScope(o[1]), 1,
                      [VSet |-> {}, isChecked |-> FALSE]).isChecked

-----------------------------------------------------------------------------
(***************************************************************************)
(* The source half: isCheckedForward and the occurrences of the checked   *)
(* sources.                                                                *)
(***************************************************************************)

\* The function a value belongs to: an instruction's, or the one whose
\* argument list holds it.
ValueFn(v) ==
    IF v \in Insts THEN prog.fn[v]
    ELSE IF \E f \in DOMAIN prog.fargs : v \in Range(prog.fargs[f])
    THEN CHOOSE f \in DOMAIN prog.fargs : v \in Range(prog.fargs[f])
    ELSE "none"

\* DFA.getAliasPointers(Addr, ..., Ctx->FuncPAResults[F]): the map of F
\* has no entry for an address of another function.
AliasesIn(F, Addr) == IF ValueFn(Addr) = F THEN getAliasPointers(Addr) ELSE {Addr}

LoadsOf(Addrs) == {u \in UNION {users(A) : A \in Addrs} : Op(u).k = "load"}

\* The entry block of a function with a body: the block without
\* predecessors.
EntryBlock(fn) ==
    CHOOSE b \in {prog.bb[i] : i \in {j \in Insts : prog.fn[j] = fn}} :
        \A c \in Blocks : b \notin prog.succ[c]

\* CF->arg_size(); a function without a body in the program is taken to
\* have as many parameters as the call passes.
ArgSize(CF, CI) == IF CF \in DOMAIN prog.fargs THEN Len(prog.fargs[CF]) ELSE NumArgOperands(CI)

SrcKeys == BagToSet(SrcCheckCount)

RECURSIVE isCheckedForward(_, _, _, _), ForwardUser(_, _, _, _, _)

\* Walks the values of set Vs in one order, with one VSet.
ForwardAll(F, Vs, Scope, st) ==
    FoldSet(LAMBDA x, s : isCheckedForward(F, x, Scope, s), st, Vs)

\* Mutant: the users loop does not skip users outside Scope.
ForwardUserAnyScope(F, V, UV, Scope, s) ==
    LET k == Op(UV).k IN
    CASE s.isChecked -> s
      [] k \in {"cmp", "switch", "ret"} -> [s EXCEPT !.isChecked = TRUE]
      [] k = "call" /\ UV \in prog.checkInsts /\ prog.fn[UV] = F -> [s EXCEPT !.isChecked = TRUE]
      [] k = "store" /\ Op(UV).ops[1] = V ->
            ForwardAll(F, LoadsOf(AliasesIn(F, Op(UV).ops[2])), Scope, s)
      [] k = "gep" /\ Op(UV).ops[1] = V -> isCheckedForward(F, UV, Scope, s)
      [] k \in {"phi", "unary", "load", "binop"} -> isCheckedForward(F, UV, Scope, s)
      [] OTHER -> s

\* One iteration of the loop over V->users(): users outside Scope are
\* skipped; a compare (in the modelled set, as for uses), a switch, a check
\* call of F or a return checks; a store of V continues at every load of an
\* alias of its address, in any block; a GEP on V, a phi, a unary
\* instruction (loads and casts among them) and a binary operator continue
\* at the user.  Other users, a select among them, end the iteration.
ForwardUser(F, V, UV, Scope, s) ==
    LET k == Op(UV).k IN
    CASE s.isChecked \/ prog.bb[UV] \notin Scope -> s
      [] k \in {"cmp", "switch", "ret"} -> [s EXCEPT !.isChecked = TRUE]
      [] k = "call" /\ UV \in prog.checkInsts /\ prog.fn[UV] = F -> [s EXCEPT !.isChecked = TRUE]
      [] k = "store" /\ Op(UV).ops[1] = V ->
            ForwardAll(F, LoadsOf(AliasesIn(F, Op(UV).ops[2])), Scope, s)
      [] k = "gep" /\ Op(UV).ops[1] = V -> isCheckedForward(F, UV, Scope, s)
      [] k \in {"phi", "unary", "load", "binop"} -> isCheckedForward(F, UV, Scope, s)
      [] OTHER -> s

isCheckedForward(F, V, Scope, st) ==
    IF st.isChecked \/ V \in st.VSet THEN st
    ELSE FoldSet(LAMBDA UV, s : ForwardUser(F, V, UV, Scope, s),
                 [st EXCEPT !.VSet = @ \cup {V}], users(V))

\* An occurrence of a checked source: the call, its src_t, the function
\* passed to isCheckedForward, the scope, the values tracked and the value
\* addSrcUncheck records.  An indirect call gives one per argument and
\* callee with a body, tracked from the callee's parameter (and the loads
\* of its aliases, by the callee's alias map, when it is a pointer) over
\* the blocks reachable from the callee's entry, but walked with the
\* caller's F.  Any other call with a first callee CF gives one for its
\* used return value and one per pointer argument, tracked from the call
\* or from the loads of the argument's aliases in the blocks reachable from
\* the call's block.
IndirectSrcOccs ==
    UNION {{[ci |-> CI, src |-> src_c(CI, n), f |-> prog.fn[CI],
             scope |-> collectSuccReachBlocks(EntryBlock(cf), {}),
             track |-> LET PArg == prog.fargs[cf][n + 1]
                           reach == collectSuccReachBlocks(EntryBlock(cf), {})
                       IN  {PArg} \cup
                           IF PArg \in prog.ptrs
                           THEN {l \in LoadsOf(AliasesIn(cf, PArg)) : prog.bb[l] \in reach}
                           ELSE {},
             val |-> prog.fargs[cf][n + 1]] :
            cf \in CalleesOf(CI) \cap DOMAIN prog.fargs} :
           <<CI, n>> \in {<<c, m>> \in {c2 \in Insts : Op(c2).k = "call" /\ ~IsDirect(c2)}
                                         \X (0..127) :
                            m < NumArgOperands(c) /\ src_c(c, m) \in SrcKeys}}

DirectSrcOccs ==
    LET calls == {c \in Insts : Op(c).k = "call" /\ IsDirect(c) /\ CalleesOf(c) # {}
                                /\ ~(users(c) = {} /\ NumArgOperands(c) = 0)}
        CF(c) == ResolvedCallee(c)
        reach(c) == collectSuccReachBlocks(prog.bb[c], {})
    IN  {[ci |-> c, src |-> src_c(CF(c), -1), f |-> prog.fn[c], scope |-> reach(c),
          track |-> {c}, val |-> c] :
           c \in {c2 \in calls : users(c2) # {} /\ src_c(CF(c2), -1) \in SrcKeys}}
        \cup
        UNION {{[ci |-> c, src |-> src_c(CF(c), n), f |-> prog.fn[c], scope |-> reach(c),
                 track |-> {l \in LoadsOf(AliasesIn(prog.fn[c], Op(c).ops[n + 1])) :
                               prog.bb[l] \in reach(c)},
                 val |-> c] :
                  n \in {m \in 0..(ArgSize(CF(c), c) - 1) :
                           m < NumArgOperands(c) /\ Op(c).ops[m + 1] \in prog.ptrs
                           /\ src_c(CF(c), m) \in SrcKeys}} :
               c \in calls}

SrcOccurrences == IndirectSrcOccs \cup DirectSrcOccs

SrcOf(o) == o.src

SrcOccChecked(o) ==
    ForwardAll(o.f, o.track, o.scope, [VSet |-> {}, isChecked |-> FALSE]).isChecked

InitStage2 ==
    /\ Init
    /\ SrcTotalCount = EmptyBag
    /\ SrcUncheckCount = EmptyBag
    /\ SrcUnchecksMap = [x \in {} |-> {}]
    /\ UseTotalCount = EmptyBag
    /\ UseUncheckCount = EmptyBag
    /\ UseUnchecksMap = [u \in {} |-> {}]
    /\ stage2 = "wait"

\* Stage 1 of this model: the actions of DataFlowAnalysis.
Stage1 == Next /\ UNCHANGED <<SrcTotalCount, SrcUncheckCount, SrcUnchecksMap, UseTotalCount, UseUncheckCount, UseUnchecksMap, stage2>>

\* countSrcUseUnchecks: every occurrence of a checked source or use adds
\* one to its total; an unchecked one is counted by addSrcUncheck or
\* addUseUncheck with its value.
countSrcUseUnchecks ==
    /\ pc = "done" /\ stage2 = "wait"
    /\ LET srcUnchecked == {o \in SrcOccurrences : ~SrcOccChecked(o)}
           unchecked == {o \in Occurrences : ~OccChecked(o)}
       IN  /\ SrcTotalCount' = BagOfAll(SrcOf, SetToBag(SrcOccurrences))
           /\ SrcUncheckCount' = BagOfAll(SrcOf, SetToBag(srcUnchecked))
           /\ SrcUnchecksMap' =
                 [x \in {o.src : o \in srcUnchecked} |->
                    {o.val : o \in {y \in srcUnchecked : y.src = x}}]
           /\ UseTotalCount' = BagOfAll(OccUse, SetToBag(Occurrences))
           /\ UseUncheckCount' = BagOfAll(OccUse, SetToBag(unchecked))
           /\ UseUnchecksMap' =
                 [u \in {OccUse(o) : o \in unchecked} |->
                    {OccArg(o) : o \in {x \in unchecked : OccUse(x) = u}}]
    /\ stage2' = "done"
    /\ UNCHANGED vars

Next2 == Stage1 \/ countSrcUseUnchecks

Spec2 == InitStage2 /\ [][Next2]_vars2 /\ WF_vars2(Next2)

-----------------------------------------------------------------------------
(***************************************************************************)
(* The reference: the nodes <<function, value, scope>> the backward walk   *)
(* can reach from an occurrence, without VSet and the depth bound, and the *)
(* checking users of each node.                                            *)
(***************************************************************************)
RefBackNext(n) ==
    LET F == n[1]  V == n[2]  Scope == n[3]  k == Kind(prog, V) IN
    CASE k = "arg" ->
            {<<prog.fn[c], Op(c).ops[FirstPos(prog.fargs[F], V)],
               {prog.bb[c]} \cup Ancestors(CFGOf(prog.bb[c]), prog.bb[c])>> :
                 c \in {c2 \in CallersOf(F) :
                          FirstPos(prog.fargs[F], V) <= NumArgOperands(c2)}}
      [] k \in {"call", "const", "global", "func"} -> {}
      [] k = "load" ->
            {<<F, IF Op(u).k = "load" THEN u ELSE Op(u).ops[1], Scope>> :
               u \in {w \in Insts : prog.bb[w] \in Scope /\ Op(w).k \in {"load", "store"}
                                    /\ PointerOperand(w) \in RefAliases(Op(V).ops[1])}}
            \cup {<<F, a, Scope>> :
               a \in {Op(w).ops[1] : w \in {x \in Insts : prog.bb[x] \in Scope
                                       /\ Op(x).k = "store"
                                       /\ Op(x).ops[1] \in RefAliases(Op(V).ops[1])}}}
      [] k \in {"phi", "binop"} -> {<<F, x, Scope>> : x \in Range(Op(V).ops)}
      [] k = "select" -> {<<F, x, Scope>> : x \in Range(Tail(Op(V).ops))}
      [] k \in {"gep", "unary"} -> {<<F, Op(V).ops[1], Scope>>}
      [] OTHER -> {}

\* A node checks when it is not an argument and a compare, a switch or a
\* check call of its function uses its value inside its scope.
RefChecks(n) ==
    /\ Kind(prog, n[2]) # "arg"
    /\ \E u \in Insts :
          /\ n[2] \in Range(Op(u).ops) /\ prog.bb[u] \in n[3]
          /\ \/ Op(u).k \in {"cmp", "switch"}
             \/ u \in prog.checkInsts /\ prog.fn[u] = n[1]

RECURSIVE BackClosure(_)
BackClosure(S) ==
    LET N == S \cup UNION {RefBackNext(n) : n \in S}
    IN  IF N = S THEN S ELSE BackClosure(N)

RefChecked(o) ==
    \E n \in BackClosure({<<prog.fn[o[1]], OccArg(o), UseScope(o[1])>>}) : RefChecks(n)

\* The forward reference: the values reachable from an occurrence's
\* tracked values through users in scope that the walk follows, and
\* through a store of the value to the loads of its address's aliases.
RefFwdNext(o, v) ==
    {u \in users(v) :
        /\ prog.bb[u] \in o.scope
        /\ \/ Op(u).k \in {"phi", "unary", "load", "binop"}
           \/ Op(u).k = "gep" /\ Op(u).ops[1] = v}
    \cup {l \in Insts : Op(l).k = "load"
                        /\ \E st \in users(v) :
                              /\ prog.bb[st] \in o.scope /\ Op(st).k = "store"
                              /\ Op(st).ops[1] = v
                              /\ Op(l).ops[1] \in RefAliases(Op(st).ops[2])}

RECURSIVE FwdClosure(_, _)
FwdClosure(o, S) ==
    LET N == S \cup UNION {RefFwdNext(o, v) : v \in S}
    IN  IF N = S THEN S ELSE FwdClosure(o, N)

\* A compare, switch, return or check call in scope uses one of them.
RefSrcChecked(o) ==
    \E v \in FwdClosure(o, o.track), u \in Insts :
        /\ v \in Range(Op(u).ops) /\ prog.bb[u] \in o.scope
        /\ \/ Op(u).k \in {"cmp", "switch", "ret"}
           \/ u \in prog.checkInsts

TypeOK2 ==
    /\ TypeOK
    /\ IsABag(SrcTotalCount) /\ IsABag(SrcUncheckCount)
    /\ \A x \in DOMAIN SrcUnchecksMap : SrcUnchecksMap[x] \subseteq FVals(prog)
    /\ IsABag(UseTotalCount) /\ IsABag(UseUncheckCount)
    /\ \A u \in DOMAIN UseUnchecksMap : UseUnchecksMap[u] \subseteq FVals(prog)
    /\ stage2 \in {"wait", "done"}

\* Stage 2 counts every direct-call occurrence of a stage-1 use key once,
\* and counts it unchecked exactly when no value the backward walk reaches
\* from its argument, through loads of aliases, stores to them and the
\* arguments of callers, is compared, switched on or passed to a check
\* call within the blocks reaching it: VSet shared across callers and the
\* order of Ctx->Callers do not change the result.
UseUnchecksMatchReference ==
    stage2 = "done" =>
        /\ UseTotalCount = BagOfAll(OccUse, SetToBag(Occurrences))
        /\ UseUncheckCount =
              BagOfAll(OccUse, SetToBag({o \in Occurrences : ~RefChecked(o)}))

\* Stage 2 counts every occurrence of a stage-1 source once: the used
\* return value of a call to its callee, each pointer argument, and each
\* argument of an indirect call per callee with a body; and it counts an
\* occurrence unchecked exactly when no value reachable forward from what
\* it tracks, through unary, binary, phi and GEP users and through stores
\* to the loads of aliased addresses, is compared, switched on, returned
\* or passed to a check call within the blocks the call reaches.
SrcUnchecksMatchReference ==
    stage2 = "done" =>
        /\ SrcTotalCount = BagOfAll(SrcOf, SetToBag(SrcOccurrences))
        /\ SrcUncheckCount =
              BagOfAll(SrcOf, SetToBag({o \in SrcOccurrences : ~RefSrcChecked(o)}))

\* Spec section 4.4, stage 2 determines whether each particular
\* occurrence is checked, by a forward walk from a source and by the
\* symmetric backward walk from a use.  So a call site that stage 1
\* counted as checked by the check it analysed (a source event or a use
\* event of countSrcUseChecks, whose check lies in the blocks the stage-2
\* walk covers) is not recorded unchecked in stage 2 for the same key.
StageTwoSeesStageOneChecks ==
    stage2 = "done" =>
        /\ \A e \in RefSrcEvents :
              e[3] \in DOMAIN SrcUnchecksMap => e[2] \notin SrcUnchecksMap[e[3]]
        /\ \A e \in RefUseEvents :
              e[3] \in DOMAIN UseUnchecksMap =>
                  Op(e[2][1]).ops[e[2][2] + 1] \notin UseUnchecksMap[e[3]]
====
