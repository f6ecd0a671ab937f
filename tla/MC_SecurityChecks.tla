------------------------- MODULE MC_SecurityChecks -------------------------
(***************************************************************************)
(* CFG shapes the kernel code CRIX analyses is made of, blocks numbered in *)
(* layout order (block 1 is the entry), predecessors listed in the same    *)
(* order.  Every block of every shape gets every combination of seeds in   *)
(* Init.                                                                   *)
(***************************************************************************)
EXTENDS SecurityChecks

\* if (c) { A } else { B }  join; return
Diamond   == [succ |-> (1 :> <<2, 3>> @@ 2 :> <<4>> @@ 3 :> <<4>> @@ 4 :> <<>>),
              layout |-> <<1, 2, 3, 4>>, porder |-> <<1, 2, 3, 4>>]
\* if (c) return err;  ...; if (d) goto out; ...; out: return
GotoOut   == [succ |-> (1 :> <<2, 3>> @@ 2 :> <<>> @@ 3 :> <<4, 5>> @@
                        4 :> <<5>> @@ 5 :> <<>>),
              layout |-> <<1, 2, 3, 4, 5>>, porder |-> <<1, 2, 3, 4, 5>>]
\* while (c) { if (d) A; } return
Loop      == [succ |-> (1 :> <<2>> @@ 2 :> <<3, 5>> @@ 3 :> <<4, 2>> @@
                        4 :> <<2>> @@ 5 :> <<>>),
              layout |-> <<1, 2, 3, 4, 5>>, porder |-> <<1, 2, 3, 4, 5>>]
\* switch (c) { case: A; case: B; default: C } return
Switch    == [succ |-> (1 :> <<2, 3, 4>> @@ 2 :> <<5>> @@ 3 :> <<5>> @@
                        4 :> <<5>> @@ 5 :> <<>>),
              layout |-> <<1, 2, 3, 4, 5>>, porder |-> <<1, 2, 3, 4, 5>>]

\* Every seed word markBBErr can produce.
MC_Seeds == SeedFlag
\* The return seeds only: the handle walk has no work-list loop to terminate.
MC_ReturnSeeds == SUBSET ErrReturnMask

MC_CFGs == {Diamond, GotoOut, Loop, Switch}
\* Shapes with a back edge, where the work-lists could revisit edges.
MC_LoopCFGs == {Loop}
=============================================================================
