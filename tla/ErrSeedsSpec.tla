---------------------------- MODULE ErrSeedsSpec ----------------------------
(***************************************************************************)
(* What the seeding of SecurityChecksPass promises (spec section 4.2,      *)
(* steps 1 and 2): starting from no flags, the blocks of a function        *)
(* acquire error flags, never one outside the flags the function's values  *)
(* and handler calls justify (goal), and the seeding ends with exactly     *)
(* those flags.  How the flags are found is left open.                     *)
(***************************************************************************)
EXTENDS ErrFlags

CONSTANT Blocks

VARIABLES
    goal,       \* block -> the flags the function justifies (fixed)
    seeds,      \* block -> the flags set so far
    phase       \* "return" while seeding, "done" once it has ended

vars == <<goal, seeds, phase>>

Init ==
    /\ goal \in [Blocks -> SeedFlag]
    /\ seeds = [b \in Blocks |-> {}]
    /\ phase = "return"

\* Some justified flags are set.
Grow ==
    /\ phase = "return"
    /\ seeds' \in [Blocks -> SeedFlag]
    /\ seeds' # seeds
    /\ LET G == goal IN \A b \in Blocks : seeds[b] \subseteq seeds'[b] /\ seeds'[b] \subseteq G[b]
    /\ UNCHANGED <<goal, phase>>

\* The remaining flags are set and the seeding ends.
Finish ==
    /\ phase = "return"
    /\ seeds' = goal
    /\ phase' = "done"
    /\ UNCHANGED goal

Next == Grow \/ Finish

Safety == Init /\ [][Next]_vars

\* The seeding of a function ends.
Spec == Safety /\ WF_vars(Finish)
==============================================================================
