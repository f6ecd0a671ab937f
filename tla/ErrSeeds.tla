------------------------------ MODULE ErrSeeds ------------------------------
(***************************************************************************)
(* The seeding of the block-flag map of SecurityChecksPass                 *)
(* (src/analyzer/src/lib/SecurityChecks.cc): checkErrReturn walks back     *)
(* from every return through the value graph (checkErrValueFlow, a FIFO    *)
(* work-list EEV with a visited set PV shared by all returns of the        *)
(* function) and marks the blocks that produce an error or possibly an     *)
(* error value; checkErrHandle then marks the blocks that call an error-   *)
(* handling function.  mayReturnErr, the coarse test of a callee, is a     *)
(* work-list over functions and is order independent: it is an operator.  *)
(*                                                                         *)
(* A function is abstracted to its value graph: every value has a kind,    *)
(* the block it is in and the operands checkErrValueFlow looks at.         *)
(* isValueErrno on a constant is its errno attribute.  The condition of a  *)
(* block's branch (cond) is described by whether it is an instruction,     *)
(* the operands the code inspects and the values the branch compares.     *)
(* The callee sets (Ctx->Callees) are part of the program; the code takes  *)
(* the first element of a SmallPtrSet, whose order depends on pointer      *)
(* values, so that first element is a choice of Init.                      *)
(***************************************************************************)
EXTENDS Integers, Sequences, FiniteSets, SequencesExt, ErrFlags

CONSTANTS
    Progs,      \* the functions to analyse, with their callees
    Blocks,     \* basic blocks of the analysed function
    Vals,       \* llvm::Value objects of the analysed function
    Funcs,      \* functions callees may be
    CallIds,    \* call instructions (of the function and of callees)
    NoVal       \* the null Value (a void return)

VARIABLES
    prog,       \* the function (fixed)
    First,      \* call id -> *(Ctx->Callees[CI].begin()) (fixed for a run)
    bbErrMap,   \* block -> flags markBBErr has ORed in
    rq,         \* return values checkErrReturn has still to walk back from
    EEV,        \* checkErrValueFlow's FIFO of values
    PV,         \* visited values, shared by all returns
    ErrSelectInstSet,   \* selects with exactly one errno operand
    phase       \* "return" (checkErrReturn), "done" (after checkErrHandle)

vars == <<prog, First, bbErrMap, rq, EEV, PV, ErrSelectInstSet, phase>>

Val(v) == prog.val[v]
\* isConstant(V) and isValueErrno(V, F)
isConstant(v) == Val(v).k = "const"
isValueErrno(v) == isConstant(v) /\ Val(v).errno

\* The flag for a constant: an errno must be, anything else may be returned.
ConstFlag(v) == IF isValueErrno(v) THEN Must_Return_Err ELSE May_Return_Err

(***************************************************************************)
(* mayReturnErr(F): some function reached from F (through direct calls     *)
(* and returned calls, each by its first callee) stores an errno, calls a  *)
(* function returning a pointer, or calls ERR_PTR/PTR_ERR.  Declarations   *)
(* have no body and prove nothing.                                         *)
(***************************************************************************)
Fn(F) == prog.fn[F]
Trigger(F) ==
    /\ ~Fn(F).empty
    /\ \/ Fn(F).errStore
       \/ \E i \in DOMAIN Fn(F).calls :
            Fn(F).calls[i].ptr \/ (Fn(F).calls[i].direct /\ Fn(F).calls[i].errptr)
\* The functions TF pushes onto EF: the first callee of a direct call (CI
\* case) and of a returned call (RI case), when it has callees.
Pushed(F) ==
    IF Fn(F).empty THEN {}
    ELSE {First[c.cid] : c \in {x \in Range(Fn(F).calls) :
                                  (x.direct \/ x.returned) /\ prog.callees[x.cid] # {}}}

RECURSIVE ReachEF(_, _)
ReachEF(seen, frontier) ==
    IF frontier \subseteq seen THEN seen
    ELSE ReachEF(seen \cup frontier, UNION {Pushed(F) : F \in frontier \ seen})

mayReturnErr(F) == \E G \in ReachEF({}, {F}) : Trigger(G)

Succ(b) == prog.succ[b]

\* Mutant: the second successor is taken as the error branch.
inferErrBranchSecond == 2

\* inferErrBranch(Cond) returns 0: the first successor is the error branch.
inferErrBranch == 1

\* Both operands errno: Must; exactly one: May; none: no mark.
SelectFlag(flag1, flag2) ==
    IF flag1 /\ flag2 THEN {Must_Return_Err}
    ELSE IF flag1 \/ flag2 THEN {May_Return_Err}
    ELSE {}

\* Stores to a loaded pointer (load case) and incoming values (phi case):
\* a constant marks the store's / incoming block, a value is walked.
IncomingMarks(xs) == {<<x.bb, ConstFlag(x.v)>> : x \in {y \in Range(xs) : isConstant(y.v)}}
IncomingPush(xs) ==
    LET ns == SelectSeq(xs, LAMBDA y : ~isConstant(y.v)) IN [i \in DOMAIN ns |-> ns[i].v]

\* A non-constant select operand is walked, in the order true, false.
SelectPush(r) == SelectSeq(<<r.tv, r.fv>>, LAMBDA x : ~isConstant(x))

(***************************************************************************)
(* findSameVariablesFrom(V): V and every load of an address V, or a value  *)
(* found so, is stored to (a load's xs lists the stores to its pointer     *)
(* operand).  Nothing else is followed: a cast of V is not the same        *)
(* variable.                                                               *)
(***************************************************************************)
RECURSIVE SameVariables(_, _)
SameVariables(seen, frontier) ==
    IF frontier \subseteq seen THEN seen
    ELSE SameVariables(seen \cup frontier,
           {l \in Vals : Val(l).k = "load" /\ \E x \in Range(Val(l).xs) : x.v \in frontier})

findSameVariablesFrom(v) == SameVariables({}, {v})

\* The branch of block b tests the call v: its condition is an instruction
\* with an operand among findSameVariablesFrom(v).  The operands of a
\* switch's condition are those of the switched value itself.
CondTestsCall(v, b) ==
    /\ prog.cond[b].inst
    /\ prog.cond[b].ops \cap findSameVariablesFrom(v) # {}

(***************************************************************************)
(* The call case: an indirect call (no called function) is skipped;        *)
(* ERR_PTR/PTR_ERR (ERRNO_TYPE 2) is a sure error; a copy function whose   *)
(* destination is the return value is an error if its source argument is   *)
(* one and is walked otherwise; a call without callees is skipped; else    *)
(* the block may return an error, and if the first callee may return one   *)
(* and the block's branch tests the call's value (CondTestsCall),          *)
(* the successor inferErrBranch picks must.                                *)
(***************************************************************************)
CallMarks(v, r) ==
    IF ~r.direct THEN {}
    ELSE IF r.fname = "ERR_PTR" THEN {<<r.bb, Must_Return_Err>>}
    ELSE IF r.fname = "copy" THEN
        (IF isValueErrno(r.arg) THEN {<<r.bb, Must_Return_Err>>} ELSE {})
    ELSE IF prog.callees[r.cid] = {} THEN {}
    ELSE {<<r.bb, May_Return_Err>>}
         \cup (IF mayReturnErr(First[r.cid]) /\ Len(Succ(r.bb)) > 1 /\ CondTestsCall(v, r.bb)
               THEN {<<Succ(r.bb)[inferErrBranch], Must_Return_Err>>} ELSE {})

CallPush(r) ==
    IF r.direct /\ r.fname = "copy" /\ ~isValueErrno(r.arg) THEN <<r.arg>> ELSE <<>>

\* What one popped value contributes: marks, values to walk, selects.
StepOf(v) ==
    LET r == Val(v) IN
    CASE r.k \in {"load", "phi"} ->
            [marks |-> IncomingMarks(r.xs), push |-> IncomingPush(r.xs), sel |-> {}]
      [] r.k = "select" ->
            LET f1 == isValueErrno(r.tv)
                f2 == isValueErrno(r.fv)
            IN [marks |-> {<<r.bb, f>> : f \in SelectFlag(f1, f2)},
                push |-> SelectPush(r),
                sel |-> IF f1 # f2 THEN {v} ELSE {}]
      [] r.k \in {"gep", "unary"} ->
            IF isConstant(r.op)
            THEN [marks |-> {<<r.bb, ConstFlag(r.op)>>}, push |-> <<>>, sel |-> {}]
            ELSE [marks |-> {}, push |-> <<r.op>>, sel |-> {}]
      [] r.k = "call" -> [marks |-> CallMarks(v, r), push |-> CallPush(r), sel |-> {}]
      [] r.k = "binop" -> [marks |-> {<<r.bb, May_Return_Err>>}, push |-> <<>>, sel |-> {}]
      [] OTHER -> [marks |-> {}, push |-> <<>>, sel |-> {}]

\* markBBErr: bbErrMap[BB] |= flag
markBBErr(map, marks) == [b \in DOMAIN map |-> map[b] \cup {m[2] : m \in {x \in marks : x[1] = b}}]

\* Mutant: the visited test is missing.
SkipUnvisited(v) == v = NoVal

\* if (!V || PV.count(V) != 0) continue;
Skip(v) == v = NoVal \/ v \in PV

Init ==
    /\ prog \in Progs
    /\ First \in {f \in [CallIds -> Funcs \cup {NoVal}] :
                    \A c \in CallIds : IF prog.callees[c] = {} THEN f[c] = NoVal
                                       ELSE f[c] \in prog.callees[c]}
    /\ bbErrMap = [b \in Blocks |-> {}]
    /\ rq = prog.rets
    /\ EEV = <<>>
    /\ PV = {}
    /\ ErrSelectInstSet = {}
    /\ phase = "return"

\* checkErrReturn: the next return instruction; checkErrValueFlow starts
\* from its value, or returns at once for a void return.
checkErrReturn ==
    /\ phase = "return" /\ EEV = <<>> /\ rq # <<>>
    /\ EEV' = IF Head(rq) = NoVal THEN <<>> ELSE <<Head(rq)>>
    /\ rq' = Tail(rq)
    /\ UNCHANGED <<prog, First, bbErrMap, PV, ErrSelectInstSet, phase>>

\* One iteration of checkErrValueFlow's loop.
checkErrValueFlow ==
    /\ EEV # <<>>
    /\ LET V == Head(EEV) IN
       IF Skip(V)
       THEN /\ EEV' = Tail(EEV)
            /\ UNCHANGED <<bbErrMap, PV, ErrSelectInstSet>>
       ELSE LET st == StepOf(V) IN
            /\ PV' = PV \cup {V}
            /\ bbErrMap' = markBBErr(bbErrMap, st.marks)
            /\ EEV' = Tail(EEV) \o st.push
            /\ ErrSelectInstSet' = ErrSelectInstSet \cup st.sel
    /\ UNCHANGED <<prog, First, rq, phase>>

\* Mutant: the handler call marks the wrong flag.
HandleFlagMay == May_Handle_Err

HandleFlag == Must_Handle_Err

\* checkErrHandle: every block calling an error-handling function.
checkErrHandle ==
    /\ phase = "return" /\ EEV = <<>> /\ rq = <<>>
    /\ bbErrMap' = markBBErr(bbErrMap, {<<b, HandleFlag>> : b \in prog.handlers})
    /\ phase' = "done"
    /\ UNCHANGED <<prog, First, rq, EEV, PV, ErrSelectInstSet>>

Next == checkErrReturn \/ checkErrValueFlow \/ checkErrHandle

\* identifySecurityChecks calls both in sequence: while work is left, it runs.
Spec == Init /\ [][Next]_vars /\ WF_vars(Next)

-----------------------------------------------------------------------------
(***************************************************************************)
(* Properties.                                                             *)
(***************************************************************************)

TypeOK ==
    /\ bbErrMap \in [Blocks -> SeedFlag]
    /\ EEV \in Seq(Vals)
    /\ PV \subseteq Vals
    /\ ErrSelectInstSet \subseteq {v \in PV : Val(v).k = "select"}
    /\ phase \in {"return", "done"}
    /\ First \in [CallIds -> Funcs \cup {NoVal}]

\* checkErrValueFlow stops on every function: the visited set PV bounds
\* the walk even where the value graph has a cycle (a loop phi).
Termination == <>(phase = "done")

(***************************************************************************)
(* A reference for the seeds, written from spec section 4.2 step 1 as a    *)
(* closure: the values reached backwards from the return values, each      *)
(* contributing the blocks its constant operands or its callee mark; a     *)
(* call counts as a possible error source if ANY of its callees may        *)
(* return an error.  The order of the walk plays no part.                  *)
(***************************************************************************)
RefOperands(v) ==
    LET r == Val(v)
        ops == CASE r.k \in {"load", "phi"} -> {y.v : y \in Range(r.xs)}
                 [] r.k = "select" -> {r.tv, r.fv}
                 [] r.k \in {"gep", "unary"} -> {r.op}
                 [] r.k = "call" /\ r.direct /\ r.fname = "copy" -> {r.arg}
                 [] OTHER -> {}
    IN {x \in ops : ~isConstant(x)}

RECURSIVE RefWalk(_, _)
RefWalk(seen, frontier) ==
    IF frontier \subseteq seen THEN seen
    ELSE RefWalk(seen \cup frontier, UNION {RefOperands(v) : v \in frontier \ seen})

RECURSIVE RefReachFuncs(_, _)
RefReachFuncs(seen, frontier) ==
    IF frontier \subseteq seen THEN seen
    ELSE RefReachFuncs(seen \cup frontier,
           UNION {prog.callees[c.cid] :
                    c \in UNION {IF Fn(F).empty THEN {}
                                 ELSE {x \in Range(Fn(F).calls) : x.direct \/ x.returned}
                                 : F \in frontier \ seen}})

\* Some callee of call c may return an error.
RefMayErr(c) == \E F \in RefReachFuncs({}, prog.callees[c]) : Trigger(F)

\* The values a call's result feeds unchanged: loads of an address it is
\* stored to and casts of it, transitively.
RECURSIVE RefFeeds(_, _)
RefFeeds(seen, frontier) ==
    IF frontier \subseteq seen THEN seen
    ELSE RefFeeds(seen \cup frontier,
           {w \in Vals : (Val(w).k = "unary" /\ Val(w).op \in frontier)
                          \/ (Val(w).k = "load" /\ \E x \in Range(Val(w).xs) : x.v \in frontier)})

\* The branch of block b compares a value the call v feeds.
RefCondTests(v, b) == prog.cond[b].cmp \cap RefFeeds({}, {v}) # {}

\* The (block, flag) pairs one reached value contributes.
RefMarks(v) ==
    LET r == Val(v)
        errno(x) == isValueErrno(x)
    IN
    CASE r.k \in {"load", "phi"} ->
            {<<y.bb, IF errno(y.v) THEN Must_Return_Err ELSE May_Return_Err>> :
               y \in {z \in Range(r.xs) : isConstant(z.v)}}
      [] r.k = "select" ->
            IF errno(r.tv) /\ errno(r.fv) THEN {<<r.bb, Must_Return_Err>>}
            ELSE IF errno(r.tv) \/ errno(r.fv) THEN {<<r.bb, May_Return_Err>>} ELSE {}
      [] r.k \in {"gep", "unary"} /\ isConstant(r.op) ->
            {<<r.bb, IF errno(r.op) THEN Must_Return_Err ELSE May_Return_Err>>}
      [] r.k = "call" /\ r.direct /\ r.fname \in {"ERR_PTR", "copy"} ->
            IF r.fname = "ERR_PTR" \/ errno(r.arg) THEN {<<r.bb, Must_Return_Err>>} ELSE {}
      [] r.k = "call" /\ r.direct /\ prog.callees[r.cid] # {} ->
            {<<r.bb, May_Return_Err>>}
            \cup (IF RefMayErr(r.cid) /\ RefCondTests(v, r.bb) /\ Len(Succ(r.bb)) > 1
                   THEN {<<Succ(r.bb)[1], Must_Return_Err>>} ELSE {})
      [] r.k = "binop" -> {<<r.bb, May_Return_Err>>}
      [] OTHER -> {}

RefSeeds ==
    LET marks == UNION {RefMarks(v) :
                          v \in RefWalk({}, {x \in Range(prog.rets) : x # NoVal})}
    IN [b \in Blocks |-> {m[2] : m \in {x \in marks : x[1] = b}}
                          \cup (IF b \in prog.handlers THEN {Must_Handle_Err} ELSE {})]

\* When the seeding ends, every block carries the reference seeds: spec 4.2
\* step 1 seeds the first successor of a call's block Must_Return_Err when
\* the callee may return an error and the call's result feeds the
\* comparison of the branch that ends the block (checkErrValueFlow).
SeedsMatchReference == phase = "done" => bbErrMap = RefSeeds

(***************************************************************************)
(* Refinement: checkErrReturn, checkErrValueFlow and checkErrHandle        *)
(* implement the abstract seeding of ErrSeedsSpec, the reference seeds     *)
(* being its goal.  Every step that marks a block adds only flags the      *)
(* reference justifies, no step takes a flag away, and the seeding ends    *)
(* with exactly the reference flags.  The safety part is checked here;    *)
(* that the seeding ends (the fairness of the abstract Spec) is            *)
(* Termination.                                                            *)
(***************************************************************************)
Abstract == INSTANCE ErrSeedsSpec WITH
                goal <- RefSeeds, seeds <- bbErrMap, phase <- phase

ImplementsErrSeedsSpec == Abstract!Safety

====
