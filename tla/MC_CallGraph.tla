---------------------------- MODULE MC_CallGraph ----------------------------
(***************************************************************************)
(* Two modules.  Module 1 defines fa, fb (signature s1), fd (s2) and the   *)
(* caller fe; module 2 defines fc, a second external definition of fa's    *)
(* name and signature (a duplicate copy), declares fa's name and an        *)
(* undefined function pr, and defines the caller ff.  The type             *)
(* confinement facts of fe and ff, the global initializer of module 1 and  *)
(* the layer chains of the two indirect calls range over small sets, so    *)
(* every combination of field stores, escapes and transits is analysed.    *)
(***************************************************************************)
EXTENDS CallGraph

CONSTANTS fa, fb, fc, fd, fe, ff, dfa, dpr,
          na, nb, nd, ne, nf, npr, s1, s2, A, B, c1, c2, c3, c4, c5, c6

MC_Funcs == {fa, fb, fc, fd, fe, ff, dfa, dpr}
MC_Names == {na, nb, nd, ne, nf, npr}
MC_Sigs  == {s1, s2}
MC_Types == {A, B}
MC_Idxs  == {0}
MC_CallIds == {c1, c2, c3, c4, c5, c6}

Name == [F \in MC_Funcs |->
           CASE F \in {fa, fc, dfa} -> na [] F = fb -> nb [] F = fd -> nd
             [] F = fe -> ne [] F = ff -> nf [] F = dpr -> npr]
Sig == [F \in MC_Funcs |-> IF F \in {fa, fb, fc, dfa} THEN s1 ELSE s2]

\* The facts a caller's body may contain.
FactUniverse ==
    { [k |-> "sfunc", ty |-> A, idx |-> 0, f |-> fa],
      [k |-> "sfunc", ty |-> A, idx |-> 0, f |-> fd],
      [k |-> "sfunc", ty |-> B, idx |-> 0, f |-> fb],
      [k |-> "sfuncnl", f |-> fb],
      [k |-> "sptr", ty |-> A, idx |-> 0, comp |-> FALSE],
      [k |-> "sptr", ty |-> B, idx |-> 0, comp |-> TRUE],
      [k |-> "cast", to |-> A, from |-> B] }

LayerChoices == {<<>>, <<<<A, 0>>>>, <<<<B, 0>>>>, <<<<A, 0>>, <<B, 0>>>>}

Fn(F, ext, addr, insts, calls) ==
    [F |-> F, ext |-> ext, addr |-> addr, insts |-> insts, calls |-> calls]

Prog(S, G, L1, L5) ==
    [name |-> Name, sig |-> Sig, decls |-> {dfa, dpr},
     mods |-> << [globals |-> G,
                  funcs |-> << Fn(fa, TRUE, TRUE, {}, <<>>),
                               Fn(fb, TRUE, TRUE, {}, <<>>),
                               Fn(fd, TRUE, TRUE, {}, <<>>),
                               Fn(fe, TRUE, FALSE, S,
                                  << [id |-> c1, direct |-> FALSE, sig |-> s1, layers |-> L1],
                                     [id |-> c2, direct |-> TRUE, callee |-> fa] >>) >>],
                 [globals |-> {},
                  funcs |-> << Fn(fc, TRUE, TRUE, {},
                                  << [id |-> c6, direct |-> TRUE, callee |-> fb] >>),
                               Fn(dfa, FALSE, FALSE, {}, <<>>),
                               Fn(dpr, FALSE, FALSE, {}, <<>>),
                               Fn(ff, TRUE, FALSE, {},
                                  << [id |-> c3, direct |-> TRUE, callee |-> dfa],
                                     [id |-> c4, direct |-> TRUE, callee |-> dpr],
                                     [id |-> c5, direct |-> FALSE, sig |-> s1, layers |-> L5] >>) >>] >>]

\* typeHash is std::hash of the printed type, a 64-bit value on an LP64
\* build; none of these types' hashes is taken to fit in 32 bits.
MC_TypeHashFits32 == {}

MC_Progs ==
    {Prog(S, G, L1, L5) : S \in SUBSET FactUniverse,
                          G \in {{}, {[ty |-> B, idx |-> 0, f |-> fb]}},
                          L1 \in LayerChoices, L5 \in LayerChoices}
====
