-------------------------- MODULE DataFlowAnalysis --------------------------
(***************************************************************************)
(* The forward use search of DataFlowAnalysis                              *)
(* (src/analyzer/src/lib/DataFlowAnalysis.cc): findUses, which             *)
(* MissingChecksPass::countSrcUseChecks calls for every critical variable  *)
(* of a security check, together with the block walks                      *)
(* collectSuccReachBlocks / collectPredReachBlocks and getAliasPointers,   *)
(* and the backward source search findInFuncSourceCV                      *)
(* that identifyCheckedTargets runs on the operands of the check.  The     *)
(* alias map getAliasPointers reads is the one PointerAnalysisPass leaves  *)
(* in FuncPAResults (module PointerAnalysis).                              *)
(*                                                                         *)
(* countSrcUseChecks runs findUses once for every checked target, each     *)
(* time with a fresh UseSet and Visited, and keeps the non-empty results   *)
(* in UseMap.                                                              *)
(*                                                                         *)
(* findUses recurses with a Visited set shared by the whole search; the    *)
(* recursion is made explicit as a stack of frames, one per active call,   *)
(* each holding the users of its Target not yet looked at and the          *)
(* recursive calls that the user being looked at still has to make.  The  *)
(* order of Target->users() and of the alias set is left open.             *)
(*                                                                         *)
(* A program is a function record of module PointerAnalysis (code, vkind, *)
(* ptrs, aa) extended with the successor function of its blocks, the block *)
(* and in-block position of each instruction and the border instruction   *)
(* (the security check).                                                   *)
(***************************************************************************)
EXTENDS Integers, Sequences, FiniteSets, Bags, FiniteSetsExt, SequencesExt,
        Graphs, PointerAnalysis

CONSTANTS
    Progs,      \* the programs findUses is run on
    MaxDepth    \* bound on the recursion depth, above any a program needs

VARIABLES
    prog,         \* the program (fixed)
    FuncPAResults, \* Ctx->FuncPAResults[F], the alias map of the function
    ctTodo,       \* the checked targets findUses has still to be run on
    stack,        \* active findUses calls, innermost first
    Visited,      \* the Visited set passed by reference to every call
    UseSet,       \* the UseSet passed by reference to every call
    UseMap,       \* UseMap of countSrcUseChecks: target -> its uses
    SrcCheckCount, \* bag of the src_t keys addSrcCheck counted
    UseCheckCount, \* bag of the use_t keys addUseCheck counted
    pc            \* "pa", "targets", "sources", "start", "run", "uses", "done"

vars == <<prog, FuncPAResults, ctTodo, stack, Visited, UseSet, UseMap,
          SrcCheckCount, UseCheckCount, pc>>

Insts == DOMAIN prog.code
Op(i) == prog.code[i]
Blocks == DOMAIN prog.succ
\* The control-flow graph of the function block b belongs to.
BlockFn(b) == prog.fn[CHOOSE i \in Insts : prog.bb[i] = b]
CFGOf(b) ==
    LET N == {c \in Blocks : BlockFn(c) = BlockFn(b)}
    IN  [node |-> N, edge |-> {e \in N \X N : e[2] \in prog.succ[e[1]]}]

\* use_c / src_c: the argument index is stored in an int8_t.
Int8(x) == ((x + 128) % 256) - 128
use_c(V, Arg) == <<V, Int8(Arg)>>

\* The users of a value: the instructions that have it as an operand.
users(v) == {u \in Insts : \E j \in 1..Len(Op(u).ops) : Op(u).ops[j] = v}

\* getPointerOperand of a GEP or a load (first operand) or a store (second).
PointerOperand(i) == IF Op(i).k = "store" THEN Op(i).ops[2] ELSE Op(i).ops[1]
CallArgs(i) == SubSeq(Op(i).ops, 1, Len(Op(i).ops) - 1)

\* Mutant: the address itself is left out of its alias set.
getAliasPointersOthers(Addr) == FuncPAResults[Addr]

\* getAliasPointers: the address and what the alias map lists for it.
getAliasPointers(Addr) == {Addr} \cup FuncPAResults[Addr]

\* Mutant: the walk follows successor edges where it should follow
\* predecessor edges.
collectPredReachBlocksSucc(BB, reachBB) == reachBB \cup {BB} \cup Descendants(CFGOf(BB), BB)

\* Mutant: the walk adds the successors of BB but does not recurse.
collectSuccReachBlocksShallow(BB, reachBB) ==
    IF BB \in reachBB THEN reachBB ELSE reachBB \cup {BB} \cup prog.succ[BB]

\* collectSuccReachBlocks: depth-first walk that stops at a block already
\* in reachBB.
RECURSIVE collectSuccReachBlocks(_, _)
collectSuccReachBlocks(BB, reachBB) ==
    IF BB \in reachBB THEN reachBB
    ELSE FoldSet(LAMBDA s, acc : collectSuccReachBlocks(s, acc),
                 reachBB \cup {BB}, prog.succ[BB])

\* collectPredReachBlocks: the same walk over predecessor edges.
RECURSIVE collectPredReachBlocks(_, _)
collectPredReachBlocks(BB, reachBB) ==
    IF BB \in reachBB THEN reachBB
    ELSE FoldSet(LAMBDA p, acc : collectPredReachBlocks(p, acc),
                 reachBB \cup {BB}, {p \in Blocks : BB \in prog.succ[p]})

\* The ArgNo loop of findUses: ArgNo starts at -1 and is incremented once
\* per argument up to and including the first that is Target; if none is,
\* it ends at the last argument's index.  The int8_t wraps past 127.
ArgNo(u, Target) ==
    LET args == CallArgs(u)
        hits == {j \in 1..Len(args) : args[j] = Target}
        steps == IF hits = {} THEN Len(args) ELSE Min(hits)
    IN  Int8(steps - 1)

\* isConstant (Common.cc): dyn_cast<Constant>, which globals and functions
\* are as well.
isConstant(v) == Kind(prog, v) \in {"const", "global", "func"}

-----------------------------------------------------------------------------
(***************************************************************************)
(* findInFuncSourceCV(V, SourceSet, CVSet, TrackedSet): the backward       *)
(* search from an operand of the check to its sources.  The state threaded *)
(* through the recursion is [src |-> SourceSet, tracked |-> TrackedSet];   *)
(* CVSet is filled but read by no caller, and is left out.  The recursive *)
(* calls of one value are made in operand order; the alias and user loops *)
(* of a load in one fixed order (std::set orders by address).  ConstantExpr *)
(* operands are not in the modelled programs.                               *)
(***************************************************************************)
SourceKinds == {"const", "global", "func", "arg", "alloca", "call"}

\* Mutant: a select is followed into its true value only.
SourceOperandsTrueOnly(V) ==
    LET ops == Op(V).ops IN
    CASE Op(V).k = "select" -> <<ops[2]>>
      [] Op(V).k \in {"gep", "load", "unary"} -> <<ops[1]>>
      [] Op(V).k \in {"phi", "binop"} -> ops
      [] OTHER -> <<>>

\* The values the search recurses into from V: both values of a select, the
\* pointer operand of a GEP or a load, the operand of a unary instruction,
\* every operand of a phi or a binary operator; a compare is a dead end.
SourceOperands(V) ==
    LET ops == Op(V).ops IN
    CASE Op(V).k = "select" -> <<ops[2], ops[3]>>
      [] Op(V).k \in {"gep", "load", "unary"} -> <<ops[1]>>
      [] Op(V).k \in {"phi", "binop"} -> ops
      [] OTHER -> <<>>

\* CI->getOperand(ArgNo) after the argument loop that stops at A.
CallOperand(CI, A) == Op(CI).ops[ArgNo(CI, A) + 1]

RECURSIVE findInFuncSourceCV(_, _), LoadSources(_, _)
\* A value already tracked is skipped; a source is inserted; a load first
\* looks at the stores and calls that use an alias of its address in a
\* block that reaches it, then goes on to its pointer operand.
findInFuncSourceCV(V, st) ==
    IF V \in st.tracked THEN st
    ELSE LET s == [st EXCEPT !.tracked = @ \cup {V}]
             next(t) == FoldLeft(LAMBDA acc, x : findInFuncSourceCV(x, acc),
                                 t, SourceOperands(V))
         IN  CASE Kind(prog, V) \in SourceKinds -> [s EXCEPT !.src = @ \cup {V}]
               [] Kind(prog, V) = "load" -> next(LoadSources(V, s))
               [] OTHER -> next(s)

\* The loops over AliasSet and A->users() of a load LI: a store to the
\* alias is followed into its value operand, a call passing the alias makes
\* that argument a source; users outside collectPredReachBlocks(LI's block)
\* are skipped.
LoadSources(LI, st) ==
    LET reachBBs == collectPredReachBlocks(prog.bb[LI], {})
        pairs == UNION {{<<A, U>> : U \in {u \in users(A) : prog.bb[u] \in reachBBs}} :
                        A \in getAliasPointers(Op(LI).ops[1])}
        step(p, acc) ==
            LET A == p[1]  U == p[2] IN
            CASE Op(U).k = "store" /\ A = PointerOperand(U) ->
                    findInFuncSourceCV(Op(U).ops[1], acc)
              [] Op(U).k = "call" ->
                    [acc EXCEPT !.src = @ \cup {CallOperand(U, A)}]
              [] OTHER -> acc
    IN  FoldSet(step, st, pairs)

\* The operands identifyCheckedTargets searches from, by kind of check.
CheckOperands(V) ==
    CASE Op(V).k \in {"cmp", "binop", "phi"} -> Op(V).ops
      [] Op(V).k = "unary" -> <<Op(V).ops[1]>>
      [] Op(V).k = "call" -> CallArgs(V)
      [] OTHER -> <<>>

\* identifyCheckedTargets: the sources of every operand, with one
\* TrackedSet shared by all of them.
identifyCheckedTargets(V) ==
    FoldLeft(LAMBDA acc, x : findInFuncSourceCV(x, acc),
             [src |-> {}, tracked |-> {}], CheckOperands(V)).src

\* countSrcUseChecks keeps the targets that are not constants or globals.
CheckedTargets == {CT \in identifyCheckedTargets(prog.border) : ~isConstant(CT)}

-----------------------------------------------------------------------------
(***************************************************************************)
(* The counting of countSrcUseChecks.  A source or use key is a pair       *)
(* <<anchor, ArgNo>> (src_c / use_c); SrcCheckCount and UseCheckCount are  *)
(* bags of keys, addSrcCheck / addUseCheck adding one copy.  The program   *)
(* record gives the function of each instruction (fn), each function's    *)
(* argument list (fargs), whether F is address-taken (addrTaken), and      *)
(* Ctx->Callees of the calls whose entry is not just their direct callee   *)
(* (callees): the MLTA targets of an indirect call, or a unified copy.     *)
(***************************************************************************)
src_c(V, Arg) == <<V, Int8(Arg)>>

\* CI->getCalledFunction(): the callee operand, if it is a function.
Callee(CI) == Op(CI).ops[Len(Op(CI).ops)]
IsDirect(CI) == Kind(prog, Callee(CI)) = "func"

\* Ctx->Callees[CI]: CallGraphPass puts the callee of a direct call there.
CalleesOf(CI) ==
    IF CI \in DOMAIN prog.callees THEN prog.callees[CI]
    ELSE IF IsDirect(CI) THEN {Callee(CI)} ELSE {}

\* Ctx->Callers[fn]: the calls whose callees include fn.
CallersOf(fn) == {CI \in Insts : Op(CI).k = "call" /\ fn \in CalleesOf(CI)}

\* The function F of the check, and its arguments.
FName == prog.fn[prog.border]
FArgs == prog.fargs[FName]

\* CF, replaced by the first of Ctx->Callees[CI] when that is not empty
\* (the sets of the modelled programs have at most one element).
ResolvedCallee(CI) ==
    IF CalleesOf(CI) # {} THEN CHOOSE cf \in CalleesOf(CI) : TRUE ELSE Callee(CI)

\* The ArgNo loop over F's arguments for an argument CT.
FArgNo(Arg) ==
    LET hits == {j \in 1..Len(FArgs) : FArgs[j] = Arg}
    IN  Int8((IF hits = {} THEN Len(FArgs) ELSE Min(hits)) - 1)

\* Mutant: every caller of F is counted, the direct ones too.
ArgSourcesAllCallers(CT) ==
    IF ~prog.addrTaken THEN EmptyBag
    ELSE SetToBag({src_c(CI, FArgNo(CT)) : CI \in CallersOf(FName)})

\* Argument as source: nothing unless F is address-taken; else one key per
\* indirect caller of F, with the argument's index.
ArgSources(CT) ==
    IF ~prog.addrTaken THEN EmptyBag
    ELSE SetToBag({src_c(CI, FArgNo(CT)) : CI \in {c \in CallersOf(FName) : ~IsDirect(c)}})

\* Return value as source: the callee of a direct call, index -1.
RetSources(CT) ==
    IF IsDirect(CT) THEN SetToBag({src_c(ResolvedCallee(CT), -1)}) ELSE EmptyBag

\* Output parameter as source: one key per direct call among CT's users in
\* a block that reaches the check, with the index of CT in it.
OutSources(CT, predBBs) ==
    LET calls == {U \in users(CT) : Op(U).k = "call" /\ prog.bb[U] \in predBBs
                                     /\ ArgNo(U, CT) # -1 /\ IsDirect(U)}
    IN  BagOfAll(LAMBDA U : src_c(ResolvedCallee(U), ArgNo(U, CT)), SetToBag(calls))

SourcesOf(CT, predBBs) ==
    CASE Kind(prog, CT) = "arg"  -> ArgSources(CT)
      [] Kind(prog, CT) = "call" -> RetSources(CT)
      [] OTHER                   -> OutSources(CT, predBBs)

\* The source loop of countSrcUseChecks over CTSet.
SourceChecks(CTs) ==
    LET predBBs == collectPredReachBlocks(prog.bb[prog.border], {})
    IN  FoldSet(LAMBDA CT, acc : acc (+) SourcesOf(CT, predBBs), EmptyBag, CTs)

\* Mutant: the call uses of indirect calls are counted too, under the
\* callee operand.
UseChecksAllCalls(UM) ==
    LET useEvts(CT) == {u \in UM[CT] : Op(u[1]).k = "call"}
    IN  FoldSet(LAMBDA CT, acc :
                    acc (+) BagOfAll(LAMBDA u : use_c(ResolvedCallee(u[1]), u[2]),
                                     SetToBag(useEvts(CT))),
                EmptyBag, DOMAIN UM)

\* The use loop over UseMap: a call use of a direct call counts under its
\* (resolved) callee and the recorded argument index.
UseChecks(UM) ==
    LET useEvts(CT) == {u \in UM[CT] : Op(u[1]).k = "call" /\ IsDirect(u[1])}
    IN  FoldSet(LAMBDA CT, acc :
                    acc (+) BagOfAll(LAMBDA u : use_c(ResolvedCallee(u[1]), u[2]),
                                     SetToBag(useEvts(CT))),
                EmptyBag, DOMAIN UM)

-----------------------------------------------------------------------------
\* Mutant: the use is recorded on the tracked value instead of its user.
UseOfTarget(Target, U, n) == {use_c(Target, n)}

\* UseSet.insert(use_c(Insn, n)): the use is the user instruction.
UseOf(Target, U, n) == {use_c(U, n)}

\* What looking at one user U of Target does in the loop of findUses: the
\* uses it inserts and the values it calls findUses on, in a frame whose
\* successor-reachable blocks are reach.
UserEffect(Target, reach, U) ==
    LET inReach(i) == prog.bb[i] \in reach
        none == [uses |-> {}, calls |-> {}]
        use(n) == [uses |-> UseOf(Target, U, n), calls |-> {}]
    IN  CASE U = prog.border -> none
          [] Op(U).k = "gep" ->
                IF inReach(U)
                THEN [uses |-> UseOf(Target, U, -1),
                      calls |-> IF PointerOperand(U) = U THEN {U} ELSE {}]
                ELSE none
          [] Op(U).k = "load" /\ Target = PointerOperand(U) ->
                IF inReach(U) THEN use(-1) ELSE none
          [] Op(U).k = "store" /\ Target = PointerOperand(U) ->
                IF inReach(U) THEN use(-1) ELSE none
          [] Op(U).k = "store" ->
                [uses |-> {},
                 calls |-> {AU \in UNION {users(A) : A \in getAliasPointers(PointerOperand(U))} :
                               inReach(AU) /\ Op(AU).k = "load"}]
          [] Op(U).k = "cmp" -> IF inReach(U) THEN use(-1) ELSE none
          [] Op(U).k = "call" -> IF inReach(U) THEN use(ArgNo(U, Target)) ELSE none
          [] Op(U).k = "binop" ->
                IF \E j \in 1..2 : isConstant(Op(U).ops[j]) THEN none
                ELSE [uses |-> {}, calls |-> {U}]
          [] Op(U).k = "unary" -> [uses |-> {}, calls |-> {U}]
          [] OTHER -> none

\* The blocks findUses restricts uses to: those reachable from the border.
BorderReach == collectSuccReachBlocks(prog.bb[prog.border], {})

Frame(Target) == [tgt |-> Target, reach |-> BorderReach,
                  todo |-> users(Target), calls |-> {}]

\* Mutant: a call does not look at Visited, so a value is searched again
\* each time it is reached.
EnterNoVisited(Target, s) ==
    /\ Len(s) < MaxDepth
    /\ stack' = <<Frame(Target)>> \o s
    /\ Visited' = Visited \cup {Target}

\* Entry of findUses(BorderInsn, Target, UseSet, Visited): return at once
\* if Target was visited, else mark it and start its loop over users.
\* s is the stack with the caller's frame already updated.
Enter(Target, s) ==
    IF Target \in Visited
    THEN stack' = s /\ UNCHANGED Visited
    ELSE /\ Len(s) < MaxDepth
         /\ stack' = <<Frame(Target)>> \o s
         /\ Visited' = Visited \cup {Target}

Top == Head(stack)
SetTop(f) == <<f>> \o Tail(stack)

Init ==
    /\ prog \in Progs
    /\ FuncPAResults = [v \in FVals(prog) |-> {}]
    /\ ctTodo = {}
    /\ stack = <<>>
    /\ Visited = {}
    /\ UseSet = {}
    /\ UseMap = [v \in {} |-> {}]
    /\ SrcCheckCount = EmptyBag
    /\ UseCheckCount = EmptyBag
    /\ pc = "pa"

\* PointerAnalysisPass runs before MissingChecksPass and saves the alias
\* map of the function in Ctx->FuncPAResults.
RunPointerAnalysis ==
    /\ pc = "pa"
    /\ FuncPAResults' = detectAliasPointers(prog)
    /\ pc' = "targets"
    /\ UNCHANGED <<prog, ctTodo, stack, Visited, UseSet, UseMap, SrcCheckCount,
                   UseCheckCount>>

\* countSrcUseChecks: identifyCheckedTargets and the filter; an empty
\* CTSet returns at once.
IdentifyTargets ==
    /\ pc = "targets"
    /\ ctTodo' = CheckedTargets
    /\ pc' = IF CheckedTargets = {} THEN "done" ELSE "sources"
    /\ UNCHANGED <<prog, FuncPAResults, stack, Visited, UseSet, UseMap,
                   SrcCheckCount, UseCheckCount>>

\* The loop counting a check for the source of every target.
CountSources ==
    /\ pc = "sources"
    /\ SrcCheckCount' = SrcCheckCount (+) SourceChecks(ctTodo)
    /\ pc' = "start"
    /\ UNCHANGED <<prog, FuncPAResults, ctTodo, stack, Visited, UseSet, UseMap,
                   UseCheckCount>>

\* The loop over CTSet calls findUses(SCI, CT, UseSet, Visited) with empty
\* sets; SCI is never null there.
Start ==
    /\ pc = "start"
    /\ \E CT \in ctTodo :
          /\ ctTodo' = ctTodo \ {CT}
          /\ Enter(CT, <<>>)
    /\ pc' = "run"
    /\ UNCHANGED <<prog, FuncPAResults, UseSet, UseMap, SrcCheckCount, UseCheckCount>>

\* One iteration of the loop over Target->users(): its uses go into
\* UseSet and its recursive calls are made before the next user.
VisitUser ==
    /\ pc = "run"
    /\ stack # <<>>
    /\ Top.calls = {}
    /\ \E U \in Top.todo :
          LET e == UserEffect(Top.tgt, Top.reach, U)
          IN  /\ UseSet' = UseSet \cup e.uses
              /\ stack' = SetTop([Top EXCEPT !.todo = @ \ {U}, !.calls = e.calls])
    /\ UNCHANGED <<prog, FuncPAResults, ctTodo, Visited, UseMap, SrcCheckCount,
                   UseCheckCount, pc>>

\* One recursive findUses call of the current user (the GEP, the binary or
\* unary operator, or one load of an alias of the stored-to address).
Call ==
    /\ pc = "run"
    /\ stack # <<>>
    /\ \E v \in Top.calls :
          Enter(v, SetTop([Top EXCEPT !.calls = @ \ {v}]))
    /\ UNCHANGED <<prog, FuncPAResults, ctTodo, UseSet, UseMap, SrcCheckCount,
                   UseCheckCount, pc>>

\* A nested call's loop over users ends and it returns to its caller.
Return ==
    /\ pc = "run"
    /\ Len(stack) > 1
    /\ Top.todo = {} /\ Top.calls = {}
    /\ stack' = Tail(stack)
    /\ UNCHANGED <<prog, FuncPAResults, ctTodo, Visited, UseSet, UseMap,
                   SrcCheckCount, UseCheckCount, pc>>

\* The outermost call returns to countSrcUseChecks, which keeps a non-empty
\* UseSet as UseMap[CT]; the next target starts with fresh sets.
Finish ==
    /\ pc = "run"
    /\ Len(stack) = 1
    /\ Top.todo = {} /\ Top.calls = {}
    /\ stack' = <<>>
    /\ UseMap' = IF UseSet = {} THEN UseMap ELSE UseMap @@ (Top.tgt :> UseSet)
    /\ Visited' = {} /\ UseSet' = {}
    /\ pc' = IF ctTodo = {} THEN "uses" ELSE "start"
    /\ UNCHANGED <<prog, FuncPAResults, ctTodo, SrcCheckCount, UseCheckCount>>

\* The loop over UseMap counting a check for every call use.
CountUses ==
    /\ pc = "uses"
    /\ UseCheckCount' = UseCheckCount (+) UseChecks(UseMap)
    /\ pc' = "done"
    /\ UNCHANGED <<prog, FuncPAResults, ctTodo, stack, Visited, UseSet, UseMap,
                   SrcCheckCount>>

Next == RunPointerAnalysis \/ IdentifyTargets \/ CountSources \/ Start
        \/ VisitUser \/ Call \/ Return \/ Finish \/ CountUses

\* The analyser is sequential: whenever the search has a step to take it
\* takes one.
Spec == Init /\ [][Next]_vars /\ WF_vars(Next)

-----------------------------------------------------------------------------
(***************************************************************************)
(* Reference definitions: reachability from Graphs, and the uses findUses  *)
(* is meant to collect as the closure of the values it tracks.             *)
(***************************************************************************)
RefReach == {prog.bb[prog.border]} \cup Descendants(CFGOf(prog.bb[prog.border]), prog.bb[prog.border])

Effects(t) == {UserEffect(t, RefReach, u) : u \in users(t)}

RECURSIVE Closure(_)
Closure(S) ==
    LET N == S \cup UNION {e.calls : e \in UNION {Effects(t) : t \in S}}
    IN  IF N = S THEN S ELSE Closure(N)

Tracked(CT) == Closure({CT})
RefUses(CT) == UNION {e.uses : e \in UNION {Effects(t) : t \in Tracked(CT)}}

\* The aliases of an address by the pair test of detectAliasPointers.
RefAliases(a) ==
    {a} \cup {b \in AddrCandidates(prog) \ {a} :
                 a \in AddrCandidates(prog) /\ IsAliased(prog, a, b)}

\* The instructions in a block from which a load's block can be reached.
PredInsts(l) == {u \in Insts : prog.bb[u] \in {prog.bb[l]} \cup Ancestors(CFGOf(prog.bb[l]), prog.bb[l])}

\* The values the backward search reaches from v in one step (the data
\* operands: a select's condition is not one, a GEP's indices are not), and
\* the sources it finds at v.
RefSrcNext(v) ==
    IF Kind(prog, v) \in SourceKinds THEN {}
    ELSE LET ops == Op(v).ops IN
         CASE Op(v).k = "select" -> Range(Tail(ops))
           [] Op(v).k \in {"phi", "binop"} -> Range(ops)
           [] Op(v).k \in {"gep", "unary"} -> {ops[1]}
           [] Op(v).k = "load" ->
                 {ops[1]} \cup {Op(u).ops[1] : u \in {w \in PredInsts(v) :
                     Op(w).k = "store" /\ Op(w).ops[2] \in RefAliases(ops[1])}}
           [] OTHER -> {}
RefSrcHere(v) ==
    IF Kind(prog, v) \in SourceKinds THEN {v}
    ELSE IF Op(v).k # "load" THEN {}
    ELSE {a \in RefAliases(Op(v).ops[1]) :
             \E u \in PredInsts(v) : Op(u).k = "call" /\ a \in Range(CallArgs(u))}

RECURSIVE SrcClosure(_)
SrcClosure(S) ==
    LET N == S \cup UNION {RefSrcNext(v) : v \in S}
    IN  IF N = S THEN S ELSE SrcClosure(N)

RefTargets ==
    {t \in UNION {RefSrcHere(v) : v \in SrcClosure(Range(CheckOperands(prog.border)))} :
        ~isConstant(t)}

Uses == {<<i, n>> : i \in Insts, n \in -128..127}
Frames == [tgt : FVals(prog), reach : SUBSET Blocks, todo : SUBSET Insts,
           calls : SUBSET FVals(prog)]

TypeOK ==
    /\ prog \in Progs
    /\ FuncPAResults \in [FVals(prog) -> SUBSET FVals(prog)]
    /\ ctTodo \subseteq FVals(prog)
    /\ stack \in Seq(Frames) /\ Len(stack) <= MaxDepth
    /\ Visited \subseteq FVals(prog)
    /\ UseSet \subseteq Uses
    /\ DOMAIN UseMap \subseteq FVals(prog)
    /\ \A t \in DOMAIN UseMap : UseMap[t] \subseteq Uses
    /\ IsABag(SrcCheckCount) /\ IsABag(UseCheckCount)
    /\ pc \in {"pa", "targets", "sources", "start", "run", "uses", "done"}

\* countSrcUseChecks keeps, for each checked target, exactly the uses of
\* every value the search reaches from it, each value being searched once
\* whatever order users() and the alias sets come in, and no entry for a
\* target without uses.
FindUsesMatchesReference ==
    pc = "done" =>
        /\ DOMAIN UseMap = {t \in RefTargets : RefUses(t) # {}}
        /\ \A t \in DOMAIN UseMap : UseMap[t] = RefUses(t)

\* Spec section 4.4, stage 1: for each target, a checked src_t per
\* indirect caller of F with the argument's index (parameter targets), the
\* callee with -1 (return values), the callee with the argument's index for
\* each call passing the target before the check (output parameters); and
\* a checked use_t per call use of a target.  An event is a triple
\* <<target, site, key>>; the bag counts the events of each key.
FirstPos(sq, v) == Min({j \in 1..Len(sq) : sq[j] = v})

RefSrcEvents ==
    LET preds == {prog.bb[prog.border]} \cup Ancestors(CFGOf(prog.bb[prog.border]), prog.bb[prog.border])
        argTs == {t \in RefTargets : Kind(prog, t) = "arg" /\ prog.addrTaken}
        outCalls(t) == {u \in Insts : Op(u).k = "call" /\ prog.bb[u] \in preds
                                      /\ t \in Range(CallArgs(u)) /\ IsDirect(u)}
        indirectCallers == {c \in DOMAIN prog.callees : ~IsDirect(c)
                                                        /\ FName \in prog.callees[c]}
    IN  UNION {{<<t, ic, <<ic, FirstPos(FArgs, t) - 1>>>> :
                   ic \in indirectCallers} : t \in argTs}
        \cup {<<t, t, <<ResolvedCallee(t), -1>>>> :
                 t \in {x \in RefTargets : Kind(prog, x) = "call" /\ IsDirect(x)}}
        \cup UNION {{<<t, c, <<ResolvedCallee(c), FirstPos(CallArgs(c), t) - 1>>>> :
                        c \in outCalls(t)} :
                    t \in {x \in RefTargets : Kind(prog, x) \notin {"arg", "call"}}}

RefUseEvents ==
    UNION {{<<t, u, <<ResolvedCallee(u[1]), u[2]>>>> :
               u \in {x \in RefUses(t) : Op(x[1]).k = "call" /\ IsDirect(x[1])}} :
           t \in RefTargets}

CountOf(E) == [key \in {e[3] : e \in E} |-> Cardinality({e \in E : e[3] = key})]

\* countSrcUseChecks counts, for the check, exactly the src_t and use_t
\* events spec section 4.4 names, each key as often as it has events: the
\* argument index of a parameter, the indirect callers, the callee of a
\* return value or output parameter, and the calls among the uses.
CheckCountsMatchSpec ==
    pc = "done" =>
        /\ SrcCheckCount = CountOf(RefSrcEvents)
        /\ UseCheckCount = CountOf(RefUseEvents)

\* The search ends: Visited keeps a value reached again through a store and
\* a load of the same address from being searched again, for every target.
Termination == <>(pc = "done")

\* The checked targets identifyCheckedTargets finds, with its TrackedSet
\* shared by all operands, its pred-reachable stores and calls and the alias
\* map of PointerAnalysisPass, are the sources reachable backwards from the
\* operands of the check.
CheckedTargetsMatchReference ==
    pc = "targets" => CheckedTargets = RefTargets

\* collectSuccReachBlocks and collectPredReachBlocks, started with an empty
\* set, return a block and its descendants, respectively ancestors, in the
\* CFG.  These depend on the program alone and are checked once for each.
BlockWalksMatchGraphs ==
    pc = "pa" =>
    \A b \in Blocks :
        /\ collectSuccReachBlocks(b, {}) = {b} \cup Descendants(CFGOf(b), b)
        /\ collectPredReachBlocks(b, {}) = {b} \cup Ancestors(CFGOf(b), b)

\* findUses "propagates through GEPs" (spec section 4.3): a load through a
\* field address computed from a tracked value, in a reachable block, is a
\* use.  The code recurses only when GEP->getPointerOperand() == U.
UsesFollowGEPResults ==
    pc = "done" =>
        \A t \in DOMAIN UseMap, g \in Insts :
            Op(g).k = "gep" /\ <<g, -1>> \in UseMap[t] =>
                \A l \in users(g) :
                    Op(l).k = "load" /\ prog.bb[l] \in RefReach => <<l, -1>> \in UseMap[t]
=============================================================================
