------------------------- MODULE MC_DataFlowAnalysis -------------------------
EXTENDS UncheckCounting

\* An instruction: block, position in it, opcode and operands.
I(b, n, k, ops) == [bb |-> b, pos |-> n, k |-> k, ops |-> ops]

\* Builds a program record from its instructions, the kinds of its other
\* values, its pointer-typed values, the alias analysis answers, and the
\* call-graph context ctx: the instructions of functions other than F
\* (fn, F for the rest), the argument lists (fargs), whether F is
\* address-taken, Ctx->Callees of indirect or unified calls, and
\* Ctx->CheckInstSets (checkInsts).
Prog(succ, insts, vkind, ptrs, aa, border, ctx) ==
    [succ |-> succ,
     code |-> [i \in DOMAIN insts |-> [k |-> insts[i].k, ops |-> insts[i].ops]],
     bb |-> [i \in DOMAIN insts |-> insts[i].bb],
     pos |-> [i \in DOMAIN insts |-> insts[i].pos],
     fn |-> [i \in DOMAIN insts |-> IF i \in DOMAIN ctx.fn THEN ctx.fn[i] ELSE "F"],
     vkind |-> vkind, ptrs |-> ptrs, aa |-> aa, border |-> border,
     fargs |-> ctx.fargs, addrTaken |-> ctx.addrTaken, callees |-> ctx.callees,
     checkInsts |-> ctx.checkInsts]

NoCallees == [c \in {} |-> {}]

\* The check "chk" compares argument T in b0; T is used by a call, a GEP
\* and a load through it, an add of a constant, a multiply, a store to p
\* (a field of the alloca s that may alias q, another field of s), a cast
\* and a return, and passed to an indirect call; b3 is not reachable from
\* b0.  F is address-taken, with one indirect and one direct caller, and
\* the callee of cl is unified to f2.  s and its field p may
\* alias: same source.
FieldsProg ==
    LET insts ==
          [chk  |-> I("b0", 1, "cmp", <<"T", "c0">>),
           s    |-> I("b0", 2, "alloca", <<>>),
           p    |-> I("b0", 3, "gep", <<"s", "c0">>),
           q    |-> I("b0", 4, "gep", <<"s", "c1">>),
           cl   |-> I("b1", 1, "call", <<"T", "x", "f">>),
           g    |-> I("b1", 2, "gep", <<"T", "c0">>),
           add  |-> I("b1", 3, "binop", <<"T", "c1">>),
           mul  |-> I("b1", 4, "binop", <<"T", "x">>),
           st   |-> I("b1", 5, "store", <<"T", "p">>),
           ld   |-> I("b2", 1, "load", <<"g">>),
           cast |-> I("b2", 2, "unary", <<"T">>),
           ld2  |-> I("b2", 3, "load", <<"cast">>),
           lq   |-> I("b2", 4, "load", <<"q">>),
           cl2  |-> I("b2", 5, "call", <<"lq", "f">>),
           r    |-> I("b2", 6, "ret", <<"T">>),
           cmp2 |-> I("b3", 1, "cmp", <<"mul", "x">>),
           cl3  |-> I("b3", 2, "call", <<"x", "T", "f">>),
           cl4  |-> I("b3", 3, "call", <<"s", "f">>),
           icl  |-> I("b2", 7, "call", <<"T", "fp">>),
           gv   |-> I("g0", 1, "binop", <<"u", "c1">>),
           gcmp |-> I("g0", 2, "cmp", <<"gv", "c0">>),
           ic1  |-> I("g1", 1, "call", <<"v", "gv", "fp2">>),
           hv   |-> I("h0", 1, "unary", <<"v2">>),
           dc1  |-> I("h0", 2, "call", <<"hv", "u2", "c0", "F">>),
           hcmp |-> I("h1", 1, "cmp", <<"hv", "c0">>)]
    IN  Prog([b0 |-> {"b1"}, b1 |-> {"b2"}, b2 |-> {"b1"}, b3 |-> {"b2"},
              g0 |-> {"g1"}, g1 |-> {}, h0 |-> {"h1"}, h1 |-> {}],
             insts,
             [T |-> "arg", x |-> "arg", fp |-> "arg", c0 |-> "const", c1 |-> "const",
              f |-> "func", F |-> "func", u |-> "arg", v |-> "arg", fp2 |-> "arg",
              u2 |-> "arg", v2 |-> "arg"],
             {"T", "s", "p", "q", "g", "cast"},
             [pr \in {{"p", "q"}, {"s", "p"}, {"T", "g"}, {"T", "cast"}} |->
                 IF "T" \in pr THEN "Must" ELSE "May"],
             "chk",
             [fn |-> [i \in {"gv", "gcmp", "ic1"} |-> "G"] @@ [i \in {"hv", "dc1", "hcmp"} |-> "H"],
              fargs |-> [F |-> <<"x", "T", "fp">>, G |-> <<"v", "u", "fp2">>,
                         H |-> <<"v2", "u2">>],
              addrTaken |-> TRUE,
              callees |-> [c \in {"cl", "ic1"} |-> IF c = "cl" THEN {"f2"} ELSE {"F"}],
              checkInsts |-> {}])

\* T is stored to p before a loop whose body loads p, stores the loaded
\* value back to p and passes it to a call; a phi after the loop uses T.
\* p and the argument r may alias, but have different sources.
CycleProg ==
    LET insts ==
          [chk |-> I("b0", 1, "cmp", <<"T", "c0">>),
           p   |-> I("b0", 2, "alloca", <<>>),
           st1 |-> I("b0", 3, "store", <<"T", "p">>),
           l   |-> I("b1", 1, "load", <<"p">>),
           st2 |-> I("b1", 2, "store", <<"l", "p">>),
           c   |-> I("b1", 3, "call", <<"l", "r", "f">>),
           phi |-> I("b2", 1, "phi", <<"T", "l">>),
           kv  |-> I("k0", 1, "call", <<"kf">>),
           kc  |-> I("k0", 2, "call", <<"kv", "chkf">>),
           ic2 |-> I("k1", 1, "call", <<"kv", "w", "fp4">>)]
    IN  Prog([b0 |-> {"b1"}, b1 |-> {"b1", "b2"}, b2 |-> {}, k0 |-> {"k1"}, k1 |-> {}],
             insts,
             [T |-> "arg", r |-> "arg", c0 |-> "const", f |-> "func", chkf |-> "func", kf |-> "func",
              t |-> "arg", w |-> "arg", fp4 |-> "arg"],
             {"p", "r"}, [pr \in {{"p", "r"}} |-> "May"], "chk",
             [fn |-> [i \in {"kv", "kc", "ic2"} |-> "K"],
              fargs |-> [F |-> <<"T", "r">>, K |-> <<"t", "w", "fp4">>],
              addrTaken |-> TRUE, callees |-> [c \in {"ic2"} |-> {"F"}],
              checkInsts |-> {"kc"}])

\* The check compares an add of a select with a constant.  The select
\* picks between a load of the alloca a and argument y.  a is written by a
\* store of argument w in b0, by get(&a) twice in b0 and, after the load in the
\* same block b1, by a store of h()'s result; b1 loops.
SourcesProg ==
    LET insts ==
          [a   |-> I("b0", 1, "alloca", <<>>),
           st0 |-> I("b0", 2, "store", <<"w", "a">>),
           cl  |-> I("b0", 3, "call", <<"a", "get">>),
           h   |-> I("b0", 4, "call", <<"hf">>),
           cl3 |-> I("b0", 5, "call", <<"a", "get">>),
           x   |-> I("b1", 1, "load", <<"a">>),
           sel |-> I("b1", 2, "select", <<"cnd", "x", "y">>),
           add |-> I("b1", 3, "binop", <<"sel", "c1">>),
           chk |-> I("b1", 4, "cmp", <<"add", "c0">>),
           st1 |-> I("b1", 5, "store", <<"h", "a">>),
           ph  |-> I("b1", 6, "phi", <<"x", "ph">>),
           cl2 |-> I("b2", 1, "call", <<"x", "use">>),
           pv  |-> I("p0", 1, "binop", <<"w0", "c1">>),
           psw |-> I("p0", 2, "switch", <<"pv">>),
           dc3 |-> I("p0", 3, "call", <<"pv", "y0", "c0", "F">>)]
    IN  Prog([b0 |-> {"b1"}, b1 |-> {"b1", "b2"}, b2 |-> {}, p0 |-> {}],
             insts,
             [w |-> "arg", y |-> "arg", cnd |-> "arg", c0 |-> "const",
              c1 |-> "const", get |-> "func", hf |-> "func", use |-> "func",
              F |-> "func", w0 |-> "arg", y0 |-> "arg"],
             {"a"}, [pr \in {} |-> "No"], "chk",
             [fn |-> [i \in {"pv", "psw", "dc3"} |-> "P"],
              fargs |-> [F |-> <<"w", "y", "cnd">>, P |-> <<"w0", "y0">>],
              addrTaken |-> FALSE, callees |-> NoCallees, checkInsts |-> {}])

\* Four calls of rd: the first is checked (the border), the second is
\* stored to the alloca a and checked through a later load, the third is
\* returned, and the fourth, on another path, is stored to a whose loads
\* are compared only in blocks that path does not reach.
ForwardProg ==
    LET insts ==
          [c1   |-> I("b0", 1, "call", <<"rd">>),
           chk  |-> I("b0", 2, "cmp", <<"c1", "c0">>),
           a    |-> I("b0", 3, "alloca", <<>>),
           ld0  |-> I("b0", 4, "load", <<"a">>),
           cmpL |-> I("b0", 5, "cmp", <<"ld0", "c0">>),
           c2   |-> I("b1", 1, "call", <<"rd">>),
           st2  |-> I("b1", 2, "store", <<"c2", "a">>),
           ld2  |-> I("b2", 1, "load", <<"a">>),
           cmpB |-> I("b2", 2, "cmp", <<"ld2", "c0">>),
           c3   |-> I("b2", 3, "call", <<"rd">>),
           r3   |-> I("b2", 4, "ret", <<"c3">>),
           c4   |-> I("b3", 1, "call", <<"rd">>),
           st4  |-> I("b3", 2, "store", <<"c4", "a">>)]
    IN  Prog([b0 |-> {"b1", "b3"}, b1 |-> {"b2"}, b2 |-> {}, b3 |-> {}], insts,
             [c0 |-> "const", rd |-> "func"], {"a"}, [pr \in {} |-> "No"], "chk",
             [fn |-> NoCallees, fargs |-> [F |-> <<>>], addrTaken |-> FALSE,
              callees |-> NoCallees, checkInsts |-> {}])

MC_Progs == {FieldsProg, CycleProg, SourcesProg, ForwardProg}

\* int f(int n) { if (n > C) return -EINVAL; g(n); }: the check compares
\* argument n in b0 and b1 passes n to g; f has no callers.
ArgProg ==
    LET insts ==
          [chk |-> I("b0", 1, "cmp", <<"n", "c0">>),
           cl  |-> I("b1", 1, "call", <<"n", "g">>)]
    IN  Prog([b0 |-> {"b1"}, b1 |-> {}], insts,
             [n |-> "arg", c0 |-> "const", g |-> "func"], {}, [pr \in {} |-> "No"],
             "chk",
             [fn |-> NoCallees, fargs |-> [F |-> <<"n">>], addrTaken |-> FALSE,
              callees |-> NoCallees, checkInsts |-> {}])

\* The programs of the stage-2 disagreement: ArgProg checks an argument in
\* F itself; SourcesProg checks sources through a select.
MC_Stage2Progs == {ArgProg, SourcesProg}
=============================================================================
