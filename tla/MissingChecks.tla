--------------------------- MODULE MissingChecks ---------------------------
(***************************************************************************)
(* The staged missing-check detector, MissingChecksPass                    *)
(* (src/analyzer/src/lib/MissingChecks.cc), run by the fixed-point driver  *)
(* IterativeModulePass::run (src/analyzer/src/lib/Analyzer.cc), followed   *)
(* by processResults.                                                      *)
(*                                                                         *)
(* The pass keeps its counters in static maps and its stage in the static  *)
(* AnalysisStage; doModulePass counts checks (stage 1) or unchecked        *)
(* occurrences (stage 2) for one module and moves to the next stage when   *)
(* the module index MIdx reaches the number of modules, returning true so  *)
(* that the driver sweeps all modules again.                               *)
(*                                                                         *)
(* Sources are return values of direct calls (src_c(CF, -1)).  A module is *)
(* abstracted to the sequence of its call sites of such sources, each with *)
(* the first user that isCheckedForward classifies: a comparison (with its *)
(* modelCheck shape, and whether SecurityChecksPass put it in             *)
(* CheckInstSets), a switch, a return, or nothing that checks it.          *)
(***************************************************************************)
EXTENDS Integers, Sequences, FiniteSets, SequencesExt

CONSTANTS
    Modules,    \* Ctx->Modules, in load order: a sequence of module ids
    Srcs,       \* called functions whose return value is a source
    Shapes,     \* modelCheck results <SCO, SCC> of comparisons
    MaxCalls,   \* bound on the call sites of a module
    StageBound  \* bound on AnalysisStage, above any stage the pass reaches

MAX_STAGE == 2

\* The first user of a call's result reached by isCheckedForward.
Users == [kind : {"cmp"}, shape : Shapes, sc : BOOLEAN]
           \cup [kind : {"switch", "ret", "none"}]
CallSites == [src : Srcs, user : Users]

ModIds == Range(Modules)

VARIABLES
    code,            \* module id -> its call sites (fixed)
    AnalysisStage,   \* static stage of the pass
    MIdx,            \* number of doModulePass calls in the current stage
    pc,              \* "passes" (doModulePass loop), "results", "done"
    next,            \* index in Modules of the next doModulePass call
    changed,         \* the driver's count of modules that reported a change
    SrcCheckCount, SrcChecksMap, CheckedSrcSet,
    SrcUncheckCount, SrcTotalCount,
    reported,        \* sources processResults reports
    passes           \* ghost: module id -> stage -> doModulePass runs

vars == <<code, AnalysisStage, MIdx, pc, next, changed, SrcCheckCount,
          SrcChecksMap, CheckedSrcSet, SrcUncheckCount, SrcTotalCount,
          reported, passes>>

(***************************************************************************)
(* ModelSC and its operator<, which orders by SrcUse alone: two models of  *)
(* checks on the same source are equivalent whatever their shape, so a     *)
(* set<ModelSC> keeps the first one inserted and find() matches any.       *)
(***************************************************************************)
modelCheck(cs) == [shape |-> cs.user.shape, SrcUse |-> cs.src, ArgNo |-> -1]
ModelSCEquiv(a, b) == a.SrcUse = b.SrcUse
InsertModelSC(S, msc) == IF \E x \in S : ModelSCEquiv(x, msc) THEN S ELSE S \cup {msc}

\* The counters and maps doModulePass updates.
Counters == [check : [Srcs -> Nat], map : [Srcs -> SUBSET [shape : Shapes,
              SrcUse : Srcs, ArgNo : {-1}]], checked : SUBSET Srcs,
             uncheck : [Srcs -> Nat], total : [Srcs -> Nat]]

\* countSrcUseChecks on one call site: a comparison in CheckInstSets
\* targeting the call's value is counted by addSrcCheck.
countSrcUseChecks(acc, cs) ==
    IF cs.user.kind = "cmp" /\ cs.user.sc
    THEN [acc EXCEPT !.check[cs.src] = @ + 1,
                     !.checked = @ \cup {cs.src},
                     !.map[cs.src] = InsertModelSC(@, modelCheck(cs))]
    ELSE acc

\* isCheckedForward on the call's first user: a comparison counts when
\* inModeledCheckSet finds its model in SrcChecksMap; a switch or a return
\* always counts.
inModeledCheckSet(acc, cs) ==
    \E x \in acc.map[cs.src] : ModelSCEquiv(x, modelCheck(cs))

isCheckedForward(acc, cs) ==
    \/ cs.user.kind \in {"switch", "ret"}
    \/ cs.user.kind = "cmp" /\ inModeledCheckSet(acc, cs)

\* countSrcUseUnchecks on one call site whose callee is in CheckedSrcSet:
\* addSrcUncheck when it is not checked, and SrcTotalCount += 1 either way.
countSrcUseUnchecks(acc, cs) ==
    IF cs.src \notin acc.checked THEN acc
    ELSE [acc EXCEPT !.uncheck[cs.src] = IF isCheckedForward(acc, cs) THEN @ ELSE @ + 1,
                     !.total[cs.src] = @ + 1]

\* Mutant: the stage moves one module early.
AllModulesDoneEarly(idx) == idx = Len(Modules) - 1

\* Mutant: the stage moves only after one call too many.
AllModulesDoneLate(idx) == idx > Len(Modules)

\* Ctx->Modules.size() == MIdx
AllModulesDone(idx) == idx = Len(Modules)

\* Mutant: the stage test is off by one.
MoreStagesStrict(stage) == stage < MAX_STAGE

MoreStages(stage) == stage <= MAX_STAGE

Acc == [check |-> SrcCheckCount, map |-> SrcChecksMap, checked |-> CheckedSrcSet,
        uncheck |-> SrcUncheckCount, total |-> SrcTotalCount]

Init ==
    /\ code \in [ModIds -> BoundedSeq(CallSites, MaxCalls)]
    /\ AnalysisStage = 1
    /\ MIdx = 0
    /\ pc = "passes"
    /\ next = 1
    /\ changed = 0
    /\ SrcCheckCount = [s \in Srcs |-> 0]
    /\ SrcChecksMap = [s \in Srcs |-> {}]
    /\ CheckedSrcSet = {}
    /\ SrcUncheckCount = [s \in Srcs |-> 0]
    /\ SrcTotalCount = [s \in Srcs |-> 0]
    /\ reported = {}
    /\ passes = [m \in ModIds |-> [st \in 1..StageBound |-> 0]]

(***************************************************************************)
(* The driver calls doModulePass on Modules[next]: stage 1 folds           *)
(* countSrcUseChecks over the module's call sites, stage 2 folds           *)
(* countSrcUseUnchecks, stage 3 does nothing; then the stage advances when *)
(* MIdx reaches the number of modules, and the call reports a change if    *)
(* the new stage is still one to run.                                      *)
(***************************************************************************)
doModulePass ==
    /\ pc = "passes" /\ next <= Len(Modules)
    /\ AnalysisStage < StageBound
    /\ LET M    == Modules[next]
           idx  == MIdx + 1
           acc  == CASE AnalysisStage = 1 -> FoldLeft(countSrcUseChecks, Acc, code[M])
                     [] AnalysisStage = 2 -> FoldLeft(countSrcUseUnchecks, Acc, code[M])
                     [] OTHER             -> Acc
           adv  == AllModulesDone(idx)
           stg  == IF adv THEN AnalysisStage + 1 ELSE AnalysisStage
           ret  == adv /\ MoreStages(stg)
       IN /\ SrcCheckCount' = acc.check
          /\ SrcChecksMap' = acc.map
          /\ CheckedSrcSet' = acc.checked
          /\ SrcUncheckCount' = acc.uncheck
          /\ SrcTotalCount' = acc.total
          /\ passes' = [passes EXCEPT ![M][AnalysisStage] = @ + 1]
          /\ AnalysisStage' = stg
          /\ MIdx' = IF adv THEN 0 ELSE idx
          /\ changed' = IF ret THEN changed + 1 ELSE changed
    /\ next' = next + 1
    /\ UNCHANGED <<code, pc, reported>>

\* End of a sweep of IterativeModulePass::run: sweep again while changed.
EndSweep ==
    /\ pc = "passes" /\ next > Len(Modules)
    /\ IF changed > 0
       THEN next' = 1 /\ changed' = 0 /\ pc' = "passes"
       ELSE pc' = "results" /\ UNCHANGED <<next, changed>>
    /\ UNCHANGED <<code, AnalysisStage, MIdx, SrcCheckCount, SrcChecksMap,
                   CheckedSrcSet, SrcUncheckCount, SrcTotalCount, reported, passes>>

(***************************************************************************)
(* processResults for sources: a source with both checks and unchecks has  *)
(* Rating = Unchecks / Total, Total clamped to Checks + Unchecks, and is   *)
(* reported unless Rating > 0.3.  Rating is a float: (float)U/T > 0.3      *)
(* holds exactly when 10 * U >= 3 * T for the small counts of a run (a     *)
(* ratio of exactly 0.3 rounds up to 0.300000012 as a float).              *)
(***************************************************************************)
ClampedTotal(s) ==
    IF SrcCheckCount[s] + SrcUncheckCount[s] < SrcTotalCount[s]
    THEN SrcCheckCount[s] + SrcUncheckCount[s]
    ELSE SrcTotalCount[s]

Rated(s) == s \in CheckedSrcSet /\ SrcCheckCount[s] > 0 /\ SrcUncheckCount[s] > 0

processResults ==
    /\ pc = "results"
    /\ reported' = {s \in Srcs : Rated(s) /\ 10 * SrcUncheckCount[s] < 3 * ClampedTotal(s)}
    /\ pc' = "done"
    /\ UNCHANGED <<code, AnalysisStage, MIdx, next, changed, SrcCheckCount,
                   SrcChecksMap, CheckedSrcSet, SrcUncheckCount, SrcTotalCount, passes>>

Next == doModulePass \/ EndSweep \/ processResults

\* run() and processResults are a sequential loop that keeps stepping.
Spec == Init /\ [][Next]_vars /\ WF_vars(Next)

-----------------------------------------------------------------------------
TypeOK ==
    /\ code \in [ModIds -> BoundedSeq(CallSites, MaxCalls)]
    /\ AnalysisStage \in 1..StageBound
    /\ MIdx \in 0..Len(Modules) - 1
    /\ pc \in {"passes", "results", "done"}
    /\ next \in 1..Len(Modules) + 1
    /\ changed \in 0..Len(Modules)
    /\ Acc \in Counters
    /\ reported \subseteq CheckedSrcSet

\* What stage 1 must have found once every module has been through it.
AllSites == UNION {{<<code[m][i], <<m, i>>>> : i \in DOMAIN code[m]} : m \in ModIds}
FullCheckCount(s) ==
    Cardinality({x \in AllSites : x[1].src = s /\ x[1].user.kind = "cmp" /\ x[1].user.sc})

(***************************************************************************)
(* Stage barrier: no occurrence is judged checked or unchecked before     *)
(* every module has been through stage 1.  Whenever AnalysisStage is past *)
(* 1, CheckedSrcSet and SrcCheckCount hold the checks of all modules, so  *)
(* countSrcUseUnchecks never consults a partial set.  It depends on       *)
(* doModulePass's MIdx bookkeeping and the driver's re-sweep together.    *)
(***************************************************************************)
StageBarrier ==
    AnalysisStage >= 2 =>
        \A s \in Srcs : /\ SrcCheckCount[s] = FullCheckCount(s)
                        /\ (s \in CheckedSrcSet <=> FullCheckCount(s) > 0)

(***************************************************************************)
(* When the driver stops, every module has been counted exactly once in   *)
(* stage 1 and exactly once in stage 2: nothing is skipped or counted      *)
(* twice by the interplay of MIdx, AnalysisStage and the changed loop.     *)
(***************************************************************************)
ExactlyOncePerStage ==
    pc # "passes" => \A m \in ModIds : passes[m][1] = 1 /\ passes[m][2] = 1

(***************************************************************************)
(* The driver's fixed-point loop ends: run() returns and the results are  *)
(* processed.                                                              *)
(***************************************************************************)
Termination == <>(pc = "done")
=============================================================================
