---------------------- MODULE MC_SecurityChecksOrder ----------------------
(***************************************************************************)
(* The four shapes of MC_SecurityChecks, each in its identity order (run   *)
(* A) and in other block layouts and predecessor orders (run B); the entry *)
(* stays first in every layout.  The acyclic shapes are taken in every     *)
(* layout.                                                                 *)
(***************************************************************************)
EXTENDS SecurityChecksOrder, Naturals, TLC

Id4 == <<1, 2, 3, 4>>
Id5 == <<1, 2, 3, 4, 5>>

Orders(succ, layouts, porders) ==
    {[succ |-> succ, layout |-> l, porder |-> p] : l \in layouts, p \in porders}

DiamondSucc == 1 :> <<2, 3>> @@ 2 :> <<4>> @@ 3 :> <<4>> @@ 4 :> <<>>
GotoOutSucc == 1 :> <<2, 3>> @@ 2 :> <<>> @@ 3 :> <<4, 5>> @@ 4 :> <<5>> @@ 5 :> <<>>
LoopSucc    == 1 :> <<2>> @@ 2 :> <<3, 5>> @@ 3 :> <<4, 2>> @@ 4 :> <<2>> @@ 5 :> <<>>
SwitchSucc  == 1 :> <<2, 3, 4>> @@ 2 :> <<5>> @@ 3 :> <<5>> @@ 4 :> <<5>> @@ 5 :> <<>>

\* Every block layout of n blocks with the entry first: LLVM keeps the
\* entry block first and places the others in any order.
Layouts(n) == {l \in [1..n -> 1..n] : l[1] = 1 /\ \A i, j \in 1..n : i # j => l[i] # l[j]}

MC_CFGs ==
    Orders(DiamondSucc, Layouts(4), {Id4, <<4, 3, 2, 1>>})
    \cup Orders(GotoOutSucc, Layouts(5), {Id5, <<5, 4, 3, 2, 1>>})
    \cup Orders(LoopSucc, {Id5, <<1, 2, 5, 4, 3>>}, {Id5, <<5, 4, 3, 2, 1>>})
    \cup Orders(SwitchSucc, Layouts(5), {Id5, <<5, 4, 3, 2, 1>>})

MC_Canonical == {h \in MC_CFGs : h.layout = h.porder /\ h.layout \in {Id4, Id5}}

\* The return seeds: the handle walk is an order-free operator.
MC_Seeds == SUBSET ErrReturnMask
\* Seeds of one bit each, as a block storing one constant leaves them.

\* The shapes without a back edge, in every order.
MC_Acyclic == {h \in MC_CFGs : h.succ # LoopSucc}
\* The loop, in two block layouts, predecessors in the same order.
===========================================================================
