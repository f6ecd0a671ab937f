----------------------------- MODULE MC_ErrSeeds -----------------------------
(***************************************************************************)
(* One analysed function of five blocks:                                   *)
(*   b1: vc = call k1(...); store vc -> slot2; vlc = load slot2;           *)
(*       vsx = sext vc; br cond b2, b3                                     *)
(*   b2: store e1 -> slot; ver = ERR_PTR(..)      b3: vs = select ?, e2, vc *)
(*       store vs -> slot                                                  *)
(*   b4: vl = load slot; vg = gep vl                                       *)
(*   b5: vp = phi [b4: vg] [b5: vu]; vu = unary vp; vb = binop;            *)
(*       vx = phi [b2: ver] [b3: vcp] [b1: va]; vcp = copy(vb);            *)
(*       vi = indirect call; ret vp / ret vx / ret vi                      *)
(* The errno attribute of the constants e1, e2, what b1's branch compares  *)
(* (vc, its reload vlc, its cast vsx, the argument va), a switch on vc,    *)
(* or a condition that is no instruction), k1's callee, whether g1 stores *)
(* an errno, the handler blocks and the order of the returns range over   *)
(* small sets.  g2 reaches g3 (which stores an errno) through the direct  *)
(* call k2; g4 is a declaration.  A direct call has exactly one callee,   *)
(* the unified copy CallGraphPass::doModulePass records for it.           *)
(***************************************************************************)
EXTENDS ErrSeeds

CONSTANTS b1, b2, b3, b4, b5, vc, e1, e2, vs, vl, vg, vp, vu, vb, vx, vcp,
          ver, va, vi, vlc, vsx, g1, g2, g3, g4, k1, k2

MC_Blocks == {b1, b2, b3, b4, b5}
MC_Vals == {vc, e1, e2, vs, vl, vg, vp, vu, vb, vx, vcp, ver, va, vi, vlc, vsx}
MC_Funcs == {g1, g2, g3, g4}
MC_CallIds == {k1, k2}

Call(bb, cid, direct, fname) ==
    [k |-> "call", bb |-> bb, cid |-> cid, direct |-> direct, fname |-> fname, arg |-> va]

ValMap(E1, E2) ==
    [v \in MC_Vals |->
       CASE v = vc -> Call(b1, k1, TRUE, "other")
         [] v = vlc -> [k |-> "load", bb |-> b1, xs |-> << [bb |-> b1, v |-> vc] >>]
         [] v = vsx -> [k |-> "unary", bb |-> b1, op |-> vc]
         [] v = e1 -> [k |-> "const", errno |-> E1]
         [] v = e2 -> [k |-> "const", errno |-> E2]
         [] v = vs -> [k |-> "select", bb |-> b3, tv |-> e2, fv |-> vc]
         [] v = vl -> [k |-> "load", bb |-> b4,
                       xs |-> << [bb |-> b2, v |-> e1], [bb |-> b3, v |-> vs] >>]
         [] v = vg -> [k |-> "gep", bb |-> b4, op |-> vl]
         [] v = vp -> [k |-> "phi", bb |-> b5,
                       xs |-> << [bb |-> b4, v |-> vg], [bb |-> b5, v |-> vu] >>]
         [] v = vu -> [k |-> "unary", bb |-> b5, op |-> vp]
         [] v = vb -> [k |-> "binop", bb |-> b5]
         [] v = vx -> [k |-> "phi", bb |-> b5,
                       xs |-> << [bb |-> b2, v |-> ver], [bb |-> b3, v |-> vcp],
                                 [bb |-> b1, v |-> va] >>]
         [] v = vcp -> [Call(b5, k1, TRUE, "copy") EXCEPT !.arg = vb]
         [] v = ver -> Call(b2, k1, TRUE, "ERR_PTR")
         [] v = va -> [k |-> "arg"]
         [] v = vi -> Call(b5, k1, FALSE, "other")]

\* What b1's branch condition compares; the other blocks have one successor
\* or none.
NoCond == [inst |-> FALSE, ops |-> {}, cmp |-> {}]
\* icmp of vc, of its reload, of its cast or of the argument; switch on vc,
\* whose operand is the call's argument va.
Conds == {[inst |-> TRUE, ops |-> {o}, cmp |-> {o}] : o \in {vc, vlc, vsx, va}}
         \cup {[inst |-> TRUE, ops |-> {va}, cmp |-> {vc}], NoCond}

FCall(cid, returned) ==
    [cid |-> cid, direct |-> TRUE, returned |-> returned, ptr |-> FALSE, errptr |-> FALSE]

FnMap(T1) ==
    [F \in MC_Funcs |->
       CASE F = g1 -> [empty |-> FALSE, errStore |-> T1, calls |-> <<>>]
         [] F = g2 -> [empty |-> FALSE, errStore |-> FALSE, calls |-> << FCall(k2, FALSE) >>]
         [] F = g3 -> [empty |-> FALSE, errStore |-> TRUE, calls |-> <<>>]
         [] F = g4 -> [empty |-> TRUE, errStore |-> FALSE, calls |-> <<>>]]

MC_Progs ==
    {[val |-> ValMap(E1, E2), fn |-> FnMap(T1),
      cond |-> [b \in MC_Blocks |-> IF b = b1 THEN C ELSE NoCond],
      succ |-> [b \in MC_Blocks |->
                  CASE b = b1 -> <<b2, b3>> [] b \in {b2, b3} -> <<b4>>
                    [] b = b4 -> <<b5>> [] b = b5 -> <<>>],
      callees |-> [c \in MC_CallIds |-> IF c = k1 THEN K ELSE {g3}],
      handlers |-> H, rets |-> R] :
       E1 \in BOOLEAN, E2 \in BOOLEAN, C \in Conds, T1 \in BOOLEAN,
       K \in {{g1}, {g2}, {g4}}, H \in SUBSET {b3, b5},
       R \in {<<vp, vx>>, <<vx, vp>>, <<vi, vp>>}}
\* The programs whose branch compares no cast of the call and does not
\* switch on it.
MC_PlainCondProgs ==
    {p \in MC_Progs : /\ p.cond[b1].ops = p.cond[b1].cmp
                      /\ vsx \notin p.cond[b1].cmp}
====
