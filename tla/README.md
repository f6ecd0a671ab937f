# TLA+ models of the crix missing-check analyser

This directory holds TLA+ models of the analyser in `src/analyzer/src/lib`
and the TLC configurations that check them. Every definition is translated
from the C++ source. `PROJECT.json` maps each definition to the lines it models.

## The system

`kanalyzer` (`Analyzer.cc`, `main`) loads LLVM modules and runs its
whole-program passes in sequence (CallGraph; then, for missing-check
detection, PointerAnalysis, SecurityChecks and MissingChecks). Each pass is driven by
`IterativeModulePass::run`:

1. **CallGraphPass** (`CallGraph.cc`) resolves indirect calls by
   multi-layer type analysis (MLTA).
2. **SecurityChecksPass** (`SecurityChecks.cc`) runs once per function. It:
   - seeds a flag word per basic block: error returns via `checkErrReturn`
     and `checkErrValueFlow`, error handling via `checkErrHandle`;
   - propagates the flags onto CFG edges in `markAllEdgesErrFlag` and four
     work-list helpers;
   - classifies as a *security check* every branch whose outgoing edges
     disagree on `Must_Return_Err` or `Must_Handle_Err`.
3. **PointerAnalysisPass** (`PointerAnalysis.cc`) asks LLVM's alias analysis
   about every pair of addresses a function loads, stores or passes, and
   saves the aliased pairs in `Ctx->FuncPAResults`.
4. **MissingChecksPass** (`MissingChecks.cc`) runs in stages. Stage 1 counts,
   per source, the uses that are checked by a security check
   (`countSrcUseChecks`). Stage 2 counts the uses that are not checked
   (`countSrcUseUnchecks`). A source is a callee return value, an argument or
   an output parameter. Its stage is a static `AnalysisStage`. It moves to the
   next stage when `MIdx` reaches the number of modules, and then returns
   `true`, so the driver's `changed` loop sweeps all modules again.
   `processResults` then rates each source. It reports one whose unchecked
   share is below 30%. For each security check, `countSrcUseChecks` finds
   the checked targets by the backward search `findInFuncSourceCV`
   (`DataFlowAnalysis.cc`) and their uses by the forward search `findUses`;
   both read the alias map of PointerAnalysis.

The passes communicate through the global context:
- `CheckInstSets` is written by SecurityChecks and read by MissingChecks.
- `Callees` and `sigFuncsMap` are written by CallGraph.
- `FuncPAResults` is written by PointerAnalysis and read by the searches of
  DataFlowAnalysis.

Everything runs on one thread. The hard behaviours are ordering (block
layout order, predecessor order, FIFO work-lists), the staged protocol of
MissingChecks under the driver loop, and numeric edges of the rating.
Concurrency, crashes and messages do not arise.

## Modules

| Module | Models | State / actions |
|---|---|---|
| `ErrFlags` | `enum ErrFlag`, `updateReturnFlag`, `updateHandleFlag`, `mergeFlag` | A flag word is modelled as the set of its bits. The operations are pure operators. |
| `SecurityChecks` | `identifySecurityChecks`, `markAllEdgesErrFlag`, `recurMarkEdgesToBlock`, `recurMarkEdgesFromBlock`, `recurMarkEdgesToErrHandle`, `recurMarkEdgesToErrReturn` | See below. |
| `MC_SecurityChecks` | Four CFG shapes | `Diamond`, `GotoOut`, `Loop` (two back edges) and `Switch` (three-way). Blocks are numbered in layout order. |
| `MissingChecks` | `MissingChecksPass` for return-value sources of direct calls, `IterativeModulePass::run`, `processResults` | See below. |
| `MC_MissingChecks` | Two modules, two sources, two comparison shapes | |
| `ErrSeeds` | `checkErrReturn`, `checkErrValueFlow`, `mayReturnErr`, `checkErrHandle`, `markBBErr` | See below. |
| `MC_ErrSeeds` | One function of five blocks with a load from a slot stored twice, a select, a gep, a loop phi, a copy call, `ERR_PTR`, an indirect call and three return orders | |
| `CallGraph` | `CallGraphPass::doInitialization`, `doModulePass`, `findCalleesWithMLTA`, `typeConfineInInitializer`/`typeConfineInFunction`, `unifyFuncs` | See below. |
| `MC_CallGraph` | Two modules: duplicate definitions, declarations, two signatures, two struct types, 4096 combinations of field stores, escapes, casts and layer chains | |
| `SecurityChecksOrder` | Two runs of `SecurityChecks` on the same CFG and seeds, one in canonical order and one in another block layout and predecessor order | Two `INSTANCE`s of `SecurityChecks` with their variables renamed; run B starts when run A is done. |
| `MC_SecurityChecksOrder` | The acyclic shapes in every layout with the entry first, the loop in two layouts, each in two predecessor orders | |
| `ErrSeedsSpec` | What seeding promises: every block ends with the seed the closure of spec §4.2 step 1 gives it, reached by growing each block's bits | `Grow` and `Finish`. `ErrSeeds` implements it (run `es_core`). |
| `PointerAnalysis` | `detectAliasPointers`, `getSourcePointer` | Pure operators over a function record; LLVM's `alias()` is an oracle in the record (`aa`, one answer per unordered pair). |
| `DataFlowAnalysis` | `doModulePass` of PointerAnalysis, the data-flow part of `countSrcUseChecks`: `identifyCheckedTargets`, `findInFuncSourceCV`, `findUses` per target, `UseMap`; `collectSuccReachBlocks`, `collectPredReachBlocks`, `getAliasPointers`, `use_c` | See below. Extends `PointerAnalysis`. |
| `UncheckCounting` | Stage 2 on the same programs: `countSrcUseUnchecks` with `isCheckedForward` for sources and `isCheckedBackward` for uses, after the stage-1 counting of `DataFlowAnalysis` | See below. Extends `DataFlowAnalysis`. |
| `MC_DataFlowAnalysis` | Four programs, each with the functions that call `F`: a function with every kind of user findUses tells apart and May-aliased fields of one alloca; a store/load cycle in a loop; a check whose operand comes through a select, a load of an alloca written by a store, an output-parameter call and a later store in a loop; four calls of one function whose results are checked, stored and reloaded, returned, or stored out of reach of the compared loads | |

`SecurityChecks`:
- Variables: the CFG `g`, the seeded `bbErrMap`, `edgeErrMap`, and the
  block loop's `todo`. `jobs` holds the helper calls the current block still
  has to make, in program order. `queue`/`visited` are the helper's `EEP`
  and `PE`.
- One action per block-loop iteration (`VisitBlock`), and one per helper call
  (`MarkErrHandle`, `CallMarkEdgesToBlock`, `CallMarkEdgesFromBlock`).
- One action per iteration of each work-list loop (`MarkEdgesToBlockStep`,
  `MarkEdgesFromBlockStep`), because the FIFO order and `PE` decide the
  result.
- The two order-independent walks are `RECURSIVE` operators.
- `identifyChecks` is the classification loop.
- A CFG carries its successor sets, its block layout (`layout`, the order of
  `for (BasicBlock &BB : *F)`) and the use-list order of its blocks
  (`porder`), which decides the order `predecessors()` yields.

`MissingChecks`:
- A module is a sequence of call sites. Each has a source and the first user
  `isCheckedForward` finds:
  - a comparison, with its `modelCheck` shape and whether it is in
    `CheckInstSets`;
  - a switch;
  - a return;
  - nothing.
- The static maps are variables.
- `doModulePass` is one action. It takes in the whole module's counting, the
  stage advance and its return value.
- `EndSweep` is the driver's `changed` test. `processResults` is the rating.

In `SecurityChecks` the seeding is abstracted: `Init` lets every block carry
any combination of the bits `markBBErr` can OR in (`Seeds`, which is
`SeedFlag` in the main run). `ErrSeeds` models the seeding itself, and its
`TypeOK` shows the seeds stay within `SeedFlag`, so the two modules compose.

`ErrSeeds`:
- A function is a value graph: each value has a kind (constant with an errno
  attribute, argument, load with the stores to its pointer, phi with its
  incoming pairs, select, gep, unary, binop, call), its block and the operands
  `checkErrValueFlow` looks at. Callee bodies are reduced to what
  `mayReturnErr` tests (errno stores, pointer-returning calls, `ERR_PTR`,
  direct and returned calls).
- The branch ending a block is described by whether its condition is an
  instruction, the operands the code inspects (for a switch, those of the
  switched value itself) and the values it compares. `CondTestsCall` is the
  code's test: an inspected operand lies in `findSameVariablesFrom` of the
  call, the closure over stores and their reloads (`SameVariables`).
  The reference instead asks whether a compared value is fed by the call
  through reloads and casts (`RefCondTests`).
- `First` is the callee `*(Ctx->Callees[CI].begin())` yields. A
  `SmallPtrSet` iterates in pointer order, so `Init` chooses it. The
  direct calls `checkErrValueFlow` looks at (line 947 skips the others)
  have exactly one callee, the unified copy `CallGraphPass::doModulePass`
  records (CallGraph.cc 643-661), so `MC_ErrSeeds` gives them one.
- `checkErrReturn` takes the next return; `checkErrValueFlow` is one
  iteration of the FIFO loop over `EEV` with the shared visited set `PV`;
  `checkErrHandle` marks the handler blocks and ends the function.
- `mayReturnErr` is a closure operator (`ReachEF`), since its result does not
  depend on the order of its work-list.

`SecurityChecksOrder` composes two copies of `SecurityChecks`: run A on a
CFG in canonical order, then run B on the same successor sets and seeds in
another layout and predecessor order. Its invariant compares the two results
once both are done.

`ErrSeeds` is shown to implement `ErrSeedsSpec` by the refinement mapping
`goal <- RefSeeds, seeds <- bbErrMap`. Every step of the detailed walk only
adds bits that the reference closure gives the block, and the walk ends with
exactly those bits. The run checks the safety part, `Abstract!Safety`;
`Termination` in `es_core` covers the ending.

`DataFlowAnalysis`:
- A program is a record: the blocks' successors, each instruction's block,
  position, opcode and operands (in LLVM's layout, the callee last), the
  kind of every other value (argument, global, constant, function), the
  pointer-typed values, the alias oracle and the border instruction (the
  check).
- `pc` runs `"pa"` -> `"targets"` -> (`"start"` -> `"run"`)* -> `"done"`.
  `RunPointerAnalysis` is `doModulePass` of PointerAnalysisPass, filling
  `FuncPAResults` with `detectAliasPointers`. `IdentifyTargets` is
  `identifyCheckedTargets` and the constant filter of `countSrcUseChecks`,
  leaving the targets in `ctTodo` (or ending, if there are none).
  `CountSources` is the source loop over `CTSet`: an argument target adds
  `src_c(CI, ArgNo)` for each indirect caller of an address-taken `F`, a
  call adds `src_c(CF, -1)` for a direct callee, any other target adds
  `src_c(CF, ArgNo)` for each direct call passing it in a block that reaches
  the check. `CountUses` is the use loop over `UseMap`: each call use of a
  direct call adds `use_c(CF, ArgNo)`. `SrcCheckCount` and `UseCheckCount`
  are bags (`Bags`), as `addSrcCheck`/`addUseCheck` add one per call; the
  `ModelSC` shape stored beside them is left out here (module
  `MissingChecks` models it). The program record also carries the
  function of each instruction (`F`, or one of its callers), each
  function's argument list, `hasAddressTaken`, `Ctx->Callees` of the
  indirect and unified calls, and `Ctx->CheckInstSets`. `CalleesOf` and
  `CallersOf` derive `Ctx->Callees`/`Ctx->Callers` from them as
  `CallGraphPass::doModulePass` fills them. Reachability (`Graphs`) is
  taken in the CFG of the block's own function.
- `findInFuncSourceCV` is a `RECURSIVE` operator threading
  `[src, tracked]` (`SourceSet`, `TrackedSet`) through the recursive calls
  in the code's order; `LoadSources` is its loop over the aliases of a
  load's address and their users in pred-reachable blocks. `CVSet` is never
  read by a caller and is left out.
- The recursion of `findUses` is an explicit stack of frames. A frame holds
  its Target, its reachable blocks, the users not yet looked at and the
  recursive calls the current user still has to make. `Visited` and
  `UseSet` are shared, as the code passes them by reference.
- `Start` is the call from `countSrcUseChecks` for one target, in any order
  of `CTSet`; `VisitUser` is one iteration of the loop over `users()`
  (`UserEffect` is its body, branch for branch); `Call` is one recursive
  call, with `Enter` the early return on `Visited`; `Return` ends a nested
  call; `Finish` ends the outermost one, stores a non-empty `UseSet` in
  `UseMap` and empties `UseSet` and `Visited` for the next target.
- Users and alias sets of `findUses` are chosen in any order, as use-list
  and pointer order decide them. The loops of `findInFuncSourceCV` run in
  one fixed order (an operator has one value); its result is compared with
  an order-free reference.
- The block walks are `RECURSIVE` operators threading `reachBB`, as the code
  does.

`UncheckCounting`:
- `stage2` goes from `"wait"` to `"done"` in one step,
  `countSrcUseUnchecks`, taken once stage 1 (`pc = "done"`) has ended; it
  is the whole loop over the calls of the program.
- Sources (`SrcOccurrences`): an indirect call gives one occurrence per
  argument whose `src_c(CI, ArgNo)` is a stage-1 key and per callee with a
  body, tracked from the callee's parameter (and, for a pointer, the loads
  of its aliases by the callee's alias map) over the blocks reachable from
  the callee's entry; the walk is given the caller's `F`, as the code does.
  Then the branch ends in `continue`, so an indirect call has no use
  occurrences. Any other call with a first callee `CF` gives one for its
  return value, when it has users, and one per pointer argument, tracked
  from the loads of the argument's aliases; the scope is the blocks
  reachable from the call's block. Each adds one to `SrcTotalCount`; an
  unchecked one adds one to `SrcUncheckCount` and its value to
  `SrcUnchecksMap`, as `addSrcUncheck` does.
- `isCheckedForward` is a `RECURSIVE` operator threading
  `[VSet, isChecked]` over the users of a value (`ForwardUser` is one
  iteration of the loop): users outside the scope are skipped; a compare, a
  switch, a check call or a return checks; a store of the value continues
  at every load of an alias of its address; a GEP on the value, a phi, a
  unary instruction (loads and casts) and a binary operator continue at
  the user; anything else, a select included, ends the iteration.
- Uses (`Occurrences`): a call that is not indirect with a first callee
  `CF` gives one occurrence per argument whose `use_c(CF, ArgNo)` is in
  `CheckedUseSet`, counted in `UseTotalCount`, `UseUncheckCount` and
  `UseUnchecksMap` as `addUseUncheck` does.
- `isCheckedBackward` is a `RECURSIVE` operator threading
  `[VSet, isChecked]` in the code's order: the early returns, the insert
  into `VSet`, the depth test after it, then an argument goes to every call
  of `Ctx->Callers[F]` (scope: the blocks reaching the call, its own
  included; depth + 1) before any look at its users; otherwise a compare, a
  switch or a check call among the users in scope makes the value checked,
  a call or a constant stops, a load continues at the loads of its aliases
  and the values stored to them in scope, and phi, select, GEP, unary and
  binary operators continue at their operands. Callers are visited in one
  fixed order.
- `inModeledCheckSet` is true for every compare here: stage 1 put a
  `ModelSC` for the use key in `UseChecksMap`, and `ModelSC` compares by
  `SrcUse` alone.

`CallGraph`:
- State: the maps `doInitialization` fills (`typeFuncsMap`,
  `typeTransitMap`, `typeEscapeSet`, `AddressTakenFuncs`, `sigFuncsMap`,
  `GlobalFuncs`, `UnifiedFuncMap`/`UnifiedFuncSet`) and the results of
  `doModulePass` (`Callees`, `Callers`, `IndirectCallInsts`).
- A function body is reduced to its type-confinement facts (a function
  stored into a struct field, a struct pointer stored, a cast between struct
  types) and its calls. A hash is modelled by what it hashes.
- One action per module for `doInitialization` and one per module for
  `doModulePass`, with the driver's end of each sweep between them.
- `findCalleesWithMLTA` is the `RECURSIVE` `LayerWalk` over the layers of the
  called pointer, intersecting callee sets layer by layer.
- A hash is a 64-bit `size_t`, beyond TLC's integers, so the one place
  where its width matters is a constant: `TypeHashFits32`, the types whose
  `typeHash` is below 2^32. Step 3 finds a type's transits (`TransitsOf`)
  only for those, since line 494 looks them up with the hash cut to
  `unsigned`. `MC_CallGraph` takes it empty: `typeHash` is `std::hash` of
  the printed type, a 64-bit value on an LP64 build.

## Runs

| Run | cfg | Expect | What it shows |
|---|---|---|---|
| `sc_core` | `MC_SecurityChecks.cfg` | pass | Edge marking over all shapes and all seeds. `CheckClassificationSymmetry` (spec §8): a branch whose two successors are an error path and a May/plain path is classified as a check. `HandleEdgesUpToBranch`: an edge has `Must_Handle_Err` iff a handler is reached from its target through single-successor blocks. About 2.5M states, about 2 min. |
| `sc_mixed_may` | `MC_SecurityChecks_mix.cfg` | violation | `MixedSuccessorsCollapseToMay`: spec §4.2 says a mix of Must/May/zero successor edges marks the predecessor edges May. The code (line 358) counts a May-only edge as zero and leaves them unmarked. |
| `mc_staged` | `MC_MissingChecks.cfg` | pass | See below. |
| `cg_core` | `MC_CallGraph.cfg` | pass | `CalleesWithinSignature`: MLTA never yields a callee of another signature. `MLTAMatchesReferenceWithoutTransit`: without casts between struct types, the result equals a reference written from spec §3. `DirectCalleesAreUnified`: a direct call, even to a declaration, resolves to the one unified definition. 28,672 states, 10 s. |
| `cg_transit` | `MC_CallGraph_transit.cfg` | violation | `MLTAMatchesReference`: line 494 keeps `typeHash(LayerTy)` in an `unsigned`, and `typeTransitMap` is keyed by the full `size_t` hash (lines 44, 401), so on an LP64 build the transit lookup misses and the loop at 501 never runs. With `fb` stored into field 0 of `B` and `B` cast to `A`, the call through `A`'s field 0 gets no callee, where spec §4.1 step 3 merges the transit type's functions and gives `fb`. |
| `cg_dedup` | `MC_CallGraph_dedup.cfg` | violation | `IndirectCalleesAreUnified`: `sigFuncsMap` (line 565) takes every address-taken definition, so an indirect call resolves to a duplicate copy whose body is never analysed. |
| `es_core` | `MC_ErrSeeds.cfg` | pass | On the programs whose branch compares the call, its reload, the argument or is no instruction, for each callee of the direct call and every return order. `Termination`: the walk ends although a loop phi makes the value graph cyclic. `ImplementsErrSeedsSpec`: `ErrSeeds` refines `ErrSeedsSpec`; each step only grows a block's seed towards the reference closure of spec §4.2 step 1, and the walk finishes with that closure. 16,896 states, about 45 s. |
| `es_cond` | `MC_ErrSeeds_cond.cfg` | violation | `SeedsMatchReference`: a branch comparing `sext` of the call's result, or a switch on the result, is not seen as testing the call: `findSameVariablesFrom` follows no cast, and for a switch the operands inspected (line 997) are the call's own arguments. The error successor is then not seeded `Must_Return_Err`, where spec §4.2 step 1 seeds it whenever the call's result feeds the branch's comparison. Each case violates the property on its own; the trace shows the switch. |
| `sco_layout` | `MC_SecurityChecksOrder.cfg` | violation | `EdgeFlagsIndependentOfOrder`: on the diamond `1->{2,3}->4` with block 3 seeded `Must_Return_Err` and block 4 `May_Return_Err`, the layout 1,2,3,4 leaves every edge May, while the layout 1,2,4,3 leaves `1->3` and `3->4` Must. The block loop (line 488) follows the layout and `updateReturnFlag` (line 197) replaces return bits, so the block placed last wins. Spec §4.2 step 3 calls the marking a fixed-point work-list propagation. |
| `dfa_core` | `MC_DataFlowAnalysis.cfg` | pass | `CheckedTargetsMatchReference`: `identifyCheckedTargets`, with its shared `TrackedSet`, its pred-reachable stores and calls and the alias map, finds exactly the non-constant sources reachable backwards from the check's operands. `FindUsesMatchesReference`: in any order of targets, users and alias sets, `UseMap` holds for each target exactly the uses of the closure of values tracked from it, and no entry for a target without uses. `CheckCountsMatchSpec`: the source and use counts are those spec §4.4 stage 1 names, each key as often as it has (target, site) events. `Termination`: the whole search ends, also on a store/load cycle. `BlockWalksMatchGraphs`: the block walks agree with `Graphs` reachability. `UseUnchecksMatchReference`: stage 2 counts every occurrence of a stage-1 use key once, and counts it unchecked exactly when a closure over the same backward steps (aliases, stores, operands, callers' operands), without `VSet` and the depth bound, reaches no checking user in scope. `SrcUnchecksMatchReference`: likewise for sources, against a forward closure over phi, unary, binary and GEP users and stores to aliased loads. `TypeOK2` is the type invariant of both modules. 6,184 states, 9 s. |
| `dfa_stage2` | `MC_DataFlowAnalysis_stage2.cfg` | violation | `StageTwoSeesStageOneChecks`: a site stage 1 counts as checked is recorded unchecked by stage 2 for the same key. In `ArgProg` (`if (n > C) return; g(n);`, no callers) the call `g(n)` is a checked use in stage 1 and an unchecked one in stage 2, because `isCheckedBackward` sends an argument to its callers (line 375) without looking at its users in `F`. In `SourcesProg` the check compares `add(select(load a, y))`: stage 1 counts `h`'s return value and `get`'s output parameter as checked, and stage 2 counts all three sites unchecked, because `isCheckedForward` does not follow a select (lines 555-640). Each program violates the property on its own. Spec §4.4 says stage 2 decides whether each occurrence is checked, by a forward walk for sources and its symmetric backward variant for uses. |
| `dfa_gep` | `MC_DataFlowAnalysis_gep.cfg` | violation | `UsesFollowGEPResults`: line 553 tests `GEP->getPointerOperand() == U`, which never holds, so a load through a field of the checked value is never a use. Spec §4.3 says findUses propagates through GEPs. |

`mc_staged` checks these properties:
- `StageBarrier`: no uncheck is counted before every module finished stage 1.
- `ExactlyOncePerStage`: each module runs once per stage.
- `Termination`: the driver loop ends.

It reaches about 356k states in under 2 minutes.

Each property of a passing run has a mutant in `PROJECT.json`: a plausible
bug in the mapped code that TLC shows violates it.

### Bounds

SecurityChecks:
- Four CFGs of 4 to 5 blocks. They cover:
  - a diamond;
  - an early exit with a nested branch;
  - a loop with two back edges;
  - a three-way switch.
- All 8 seed words on every block.
- Together these exercise every disjunct of both work-list steps: revisits,
  May propagation, the all-Must chain, the mixed and all-zero cases, and
  blocks with no successors.

MissingChecks:
- Two modules, because stage ordering needs a module that is counted after
  another.
- Two sources and two shapes, so that checks of one source in two shapes
  occur.
- Up to 2 call sites per module, so one module can both check and not check a
  source.

CallGraph:
- Two modules, so unification and `GlobalFuncs` see a definition in one module
  and its duplicate or declaration in the other.
- Two signatures and two struct types with one field index: enough for a
  wrong-signature callee, a one- and two-layer chain, an escape and a cast.

ErrSeeds:
- Every kind of value `checkErrValueFlow` distinguishes occurs once, and one
  loop phi makes the graph cyclic.
- Both errno attributes of both constants, the branch condition comparing
  the call, its reload, its cast or the argument, a switch on the call, or
  no instruction, each of three callees of the direct call (one not
  returning errors unless it stores one, one reaching an errno store
  through a further call, one declaration), two handler blocks and three
  return orders.

SecurityChecksOrder:
- Each acyclic shape in its canonical order against every layout with the
  entry first (6 or 24) and the identity and reversed predecessor orders.
  Every return seed word per block.
- The run stops at the first disagreement, which already appears on the
  diamond; the loop shape is left out of it.

ErrSeeds, `es_core`: the programs of `MC_ErrSeeds` whose branch compares
no cast of the call and does not switch on it (both disagree with the
reference, `es_cond`).

DataFlowAnalysis:
- The first program has a user of every kind `findUses` distinguishes, a
  loop, a block unreachable from the check and an alias.
- The second has a value stored back to the address it was loaded from,
  the one way the recursion can meet a value again.
- The third reaches every branch of `findInFuncSourceCV` but `ConstantExpr`
  and sends a source (argument `w`) through memory into a use; its
  output parameter is passed to two calls of one function, so one check
  counts that key twice.
- The first has an address-taken `F` with a direct and an indirect caller,
  a call whose callee is unified to another copy, and an indirect call
  among the uses; the third's `F` is not address-taken.
- Together they give every answer of the alias oracle (Must, May with the
  same source, May with different sources, none).
- `MaxDepth` = 4 is above the depth any of them needs (3).
- The fourth program calls a function `rd` four times: the first result
  is checked at the border, the second through a store and a later load,
  the third is returned, and the fourth is stored on a path from which the
  compared loads cannot be reached. These sites reach every branch of
  `isCheckedForward` but the check call, which the second program reaches
  for uses.
- For stage 2, each program has callers of `F`: in the first an indirect
  caller that compares the value it passes in scope (so `T` is checked
  there) and a direct caller whose compare lies after the call (out of
  scope; so argument `x` stays unchecked); in the second a caller passing a
  call result that a check call in `Ctx->CheckInstSets` takes; in the third
  a direct caller switching on what it passes. Every branch of
  `isCheckedBackward` but the depth cut-off is reached. An argument of a
  caller is never checked there, since it goes on to that caller's callers
  (none in these programs).

### Fairness

Weak fairness on `Next`. All the modelled code is sequential loops and
recursion: whenever a step is enabled, the program takes the next one.

## Not modelled

- In CallGraph: `findCalleesWithType` (`SOUND_MODE` is commented out),
  `unrollLoops` (`UNROLL_LOOP_ONCE` undefined), `typeConfineMap` (written and
  never read), inline assembly and the `SyS_` renaming. The MLTA path of
  `doModulePass` is guarded by `MLTA_FOR_INDIRECT_CALL`, which no file under
  `src/` defines; it is modelled as the build that defines it.
- In ErrSeeds: the `ASM_FUNC` regex path of `checkErrHandle` (undefined).
- In DataFlowAnalysis: `findSources` and `performBackwardAnalysis`, which no
  pass of this build calls, and the empty `findPaths`; `ConstantExpr`
  operands of `findInFuncSourceCV`; `possibleUseStResult`, whose callers
  `collectAliasPointers` and `performBackwardAnalysis` are never called.
- In MissingChecks: `findSourceCV`, `collectAliasPointers`,
  `identifyIndirectTargets`, `findClosestBranch` (never called).
- In PointerAnalysis: LLVM's alias analysis itself (an oracle);
  `augmentMustAlias` and `collectPointers` (never called). `doModulePass`
  takes `getAAResults()` once after running the analysis on every function,
  so every function's pairs are answered by the results object of the last
  function run; the oracle model cannot tell which function answers.
- Common (formatting and I/O).
- Config (static tables).
- TypeInitializer: not run by `main`.
- The select case of `identifySecurityChecks` (lines 785-793), which reads
  `ErrSelectInstSet`: the block model of `SecurityChecks` has no values.
- In MissingChecks, the blacklist of callee names and the intrinsic skip of
  `countSrcUseUnchecks`, which only filter by name; no modelled callee is
  on it.
- The `MAX_BLOCKS_SUPPORT` cut-off.
- `SecurityChecksPass::doModulePass`: the loop over functions only skips
  empty, oversized and non-unified functions and copies each function's
  `SCSet` into `SecurityCheckSets` and `CheckInstSets`. Functions do not
  share state in this pass, so `SecurityChecks` checks one function.
- The bit test of `is_errno` (SecurityChecks.cc line 24): `ErrSeeds` keeps
  only its result per constant. The test takes a 64-bit constant whose low
  32 bits carry the prefix as an errno (listed as a hazard).
- Sources checked only by a `switch` are modelled in `MissingChecks`. Stage 1
  ignores them (MissingChecks.cc line 1275), so they are never counted. The
  spec says nothing about this case, so no property compares against it.

`mergeFlag` line 230 yields `May_Return_Err` for a May-handle operand. The
model keeps this. No code path produces `May_Handle_Err`, so the typo is
latent.

Spec §8 says unification ignores function names; `funcHash` (Common.cc)
hashes the name with the signature, and the model follows the code.
`ModelSC::operator<` compares `SrcUse` alone, so a check of a source in
any comparison shape counts as a check in the modelled shape. Spec §9 leaves
this as an open design question; the models follow the code.
`inferErrBranch` always returns 0, so the first successor is taken as the
error branch, as spec §9 acknowledges.

## Plan for later sittings

Done so far: the order-independence run, the `Graphs` checks of the block
walks, `findUses`, the refinement of `ErrSeeds`, and PointerAnalysis composed
with the checked-target search and the per-target `UseMap` of
`countSrcUseChecks`, and stage 2 with `isCheckedForward` and
`isCheckedBackward`.

1. A program where one value is reached from two call sites (the `VSet`
   order hazard of `isCheckedBackward`), and an indirect callee that checks
   its parameter through memory (the caller's `F` passed to
   `isCheckedForward`).
2. Compose `ErrSeeds` with `SecurityChecks`, so that edge marking runs on the
   seeds the value walk produces.
