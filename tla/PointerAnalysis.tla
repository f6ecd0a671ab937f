--------------------------- MODULE PointerAnalysis ---------------------------
(***************************************************************************)
(* The intra-procedural alias map of PointerAnalysisPass                   *)
(* (src/analyzer/src/lib/PointerAnalysis.cc): doModulePass asks LLVM's     *)
(* alias analysis about every pair of addresses a function loads from,     *)
(* stores to or passes to a call, and keeps a pair when the answer is Must *)
(* or Partial, or May with both addresses derived from the same source     *)
(* pointer (MUST_ALIAS is defined).                                        *)
(*                                                                         *)
(* A function F is a record: code maps each instruction to its opcode and *)
(* operand list (a call's callee last), vkind gives the kind of every      *)
(* other value ("arg", "global", "const"), ptrs the values of pointer      *)
(* type, and aa the alias analysis: the answer for each unordered pair of  *)
(* values it was asked about, "No" for the others.  alias() of LLVM is     *)
(* symmetric, so one answer per pair.                                      *)
(***************************************************************************)
EXTENDS Integers, Sequences, FiniteSets, Relation

\* "FIXME: avoid being stuck": a function with more candidate addresses
\* gets an empty alias map.
MAX_ALIAS_CANDIDATES == 1000

FInsts(F) == DOMAIN F.code
FVals(F) == FInsts(F) \cup DOMAIN F.vkind
Kind(F, v) == IF v \in FInsts(F) THEN F.code[v].k ELSE F.vkind[v]

AAR(F, a, b) == IF {a, b} \in DOMAIN F.aa THEN F.aa[{a, b}] ELSE "No"

\* getSourcePointer: walk back through GEPs (to their pointer operand) and
\* unary instructions, loads included (to their operand, if it is a pointer
\* instruction) until an argument, alloca, call or global.  The work-list
\* holds at most one value, so the walk is a chain; it ends at the last
\* value pushed.
RECURSIVE getSourcePointer(_, _)
getSourcePointer(F, TI) ==
    LET op0 == F.code[TI].ops[1] IN
    CASE Kind(F, TI) \in {"arg", "alloca", "call", "global"} -> TI
      [] Kind(F, TI) \in {"unary", "load"} ->
            IF op0 \in F.ptrs /\ op0 \in FInsts(F) THEN getSourcePointer(F, op0) ELSE TI
      [] Kind(F, TI) = "gep" -> getSourcePointer(F, op0)
      [] OTHER -> TI

\* The addresses detectAliasPointers asks about: the pointer operands of
\* loads and stores and the pointer arguments of calls.
AddrCandidates(F) ==
    LET I == FInsts(F)
        ops(i) == F.code[i].ops
    IN  {ops(i)[1] : i \in {j \in I : Kind(F, j) = "load"}}
        \cup {ops(i)[2] : i \in {j \in I : Kind(F, j) = "store"}}
        \cup UNION {{ops(i)[n] : n \in {m \in 1..Len(ops(i)) - 1 : ops(i)[m] \in F.ptrs}} :
                    i \in {j \in I : Kind(F, j) = "call"}}

\* The test of the pair loop: notAlias is cleared for Must and Partial, and
\* for May when both addresses have the same source pointer.
IsAliased(F, Addr1, Addr2) ==
    \/ AAR(F, Addr1, Addr2) \in {"Must", "Partial"}
    \/ AAR(F, Addr1, Addr2) = "May"
       /\ getSourcePointer(F, Addr1) = getSourcePointer(F, Addr2)

\* detectAliasPointers: aliasPtrs[Addr1] holds every other candidate Addr2
\* the pair test keeps.  A value without an entry has no aliases.
detectAliasPointers(F) ==
    LET addr1Set == AddrCandidates(F) IN
    [v \in FVals(F) |->
        IF Cardinality(addr1Set) > MAX_ALIAS_CANDIDATES \/ v \notin addr1Set THEN {}
        ELSE {Addr2 \in addr1Set \ {v} : IsAliased(F, v, Addr2)}]
=============================================================================
