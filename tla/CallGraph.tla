----------------------------- MODULE CallGraph -----------------------------
(***************************************************************************)
(* The call-graph pass, CallGraphPass (src/analyzer/src/lib/CallGraph.cc), *)
(* run by IterativeModulePass::run: doInitialization on every module       *)
(* (type confinement, address-taken, global and unified functions), then   *)
(* doModulePass on every module (callees of every call site, indirect      *)
(* ones by multi-layer type analysis, findCalleesWithMLTA).                *)
(*                                                                         *)
(* A program is a constant: a sequence of modules, each a sequence of      *)
(* functions in module order.  A function carries the instructions the     *)
(* type confinement looks at, as a set (their effects are set inserts),    *)
(* and its call sites in order.  An indirect call carries the chain of     *)
(* (composite type, field index) layers nextLayerBaseType peels off its    *)
(* called value.  Hashes (funcHash, callHash, typeIdxHash) are modelled by *)
(* the values they hash: <<name, signature>>, the signature, and the pair  *)
(* <<type, index>>, an index of -1 standing for typeHash of the type.      *)
(***************************************************************************)
EXTENDS Integers, Sequences, FiniteSets, SequencesExt

CONSTANTS
    Progs,      \* the programs to analyse
    Funcs,      \* llvm::Function objects (definitions and declarations)
    Names,      \* function names
    Sigs,       \* function types (funcHash(F, false), callHash of an indirect call)
    Types,      \* composite (struct/array/vector) types
    Idxs,       \* constant field indices
    CallIds,    \* call instructions
    NoFunc,     \* the null Function pointer
    TypeHashFits32  \* types whose size_t typeHash is below 2^32

\* Instructions seen by typeConfineInStore / typeConfineInCast:
\*   sfunc   store of function f to a field <<ty, idx>> (nextLayerBaseType found it)
\*   sfuncnl store of function f where nextLayerBaseType finds no layer
\*   sptr    store of a pointer to a field <<ty, idx>>; comp: pointee is composite
\*   cast    cast between (pointers to) composite types
Insts ==
    [k : {"sfunc"}, ty : Types, idx : Idxs, f : Funcs]
      \cup [k : {"sfuncnl"}, f : Funcs]
      \cup [k : {"sptr"}, ty : Types, idx : Idxs, comp : BOOLEAN]
      \cup [k : {"cast"}, to : Types, from : Types]

\* A function address in field <<ty, idx>> of a global initializer.
IniFacts == [ty : Types, idx : Idxs, f : Funcs]

Calls ==
    [id : CallIds, direct : {TRUE}, callee : Funcs]
      \cup [id : CallIds, direct : {FALSE}, sig : Sigs, layers : Seq(Types \X Idxs)]

VARIABLES
    prog,               \* the program (fixed)
    phase,              \* "init" (doInitialization sweep), "pass", "done"
    mi,                 \* index of the next module of the sweep
    typeFuncsMap,       \* <<ty, idx>> -> functions stored there
    typeTransitMap,     \* ty -> types cast to it
    typeEscapeSet,      \* escaped <<ty, idx>> (idx = -1: the whole type)
    AddressTakenFuncs,
    sigFuncsMap,        \* signature -> address-taken functions
    GlobalFuncs,        \* name -> external definition, or NoFunc
    UnifiedFuncMap,     \* <<name, sig>> -> first definition, or NoFunc
    UnifiedFuncSet,
    Callees,            \* resolved call id -> functions
    Callers,            \* function -> call ids
    IndirectCallInsts   \* indirect call ids in resolution order

vars == <<prog, phase, mi, typeFuncsMap, typeTransitMap, typeEscapeSet,
          AddressTakenFuncs, sigFuncsMap, GlobalFuncs, UnifiedFuncMap,
          UnifiedFuncSet, Callees, Callers, IndirectCallInsts>>

Modules == prog.mods
\* funcHash(F) and funcHash(F, false)
funcHash(F)    == <<prog.name[F], prog.sig[F]>>
funcSigHash(F) == prog.sig[F]

\* The defined functions of a module, in order (F.isDeclaration() is skipped).
Defs(m) == SelectSeq(m.funcs, LAMBDA fr : fr.F \notin prog.decls)
DefSet(m) == Range(Defs(m))
\* The instructions of the module's defined functions.
ModInsts(m) == UNION {fr.insts : fr \in DefSet(m)}

(***************************************************************************)
(* Type confinement of one module's globals and instructions: a function   *)
(* stored in a field, from an initializer (typeConfineInInitializer, case  *)
(* 1) or a store (typeConfineInStore, case 1), joins typeFuncsMap of the   *)
(* field; a non-composite pointer stored in a field escapes the field      *)
(* (case 3); a cast records a transit (typeConfineInCast, transitType).    *)
(* typeConfineMap is written but never read, and is left out.              *)
(***************************************************************************)
typeConfineFuncs(m, k) ==
    {x.f : x \in {y \in m.globals : <<y.ty, y.idx>> = k}}
      \cup {x.f : x \in {y \in ModInsts(m) : y.k = "sfunc" /\ <<y.ty, y.idx>> = k}}

escapeTypes(m) ==
    {<<x.ty, x.idx>> : x \in {y \in ModInsts(m) : y.k = "sptr" /\ ~y.comp}}

transitTypes(m, t) ==
    {x.from : x \in {y \in ModInsts(m) : y.k = "cast" /\ y.to = t}}

\* Address-taken definitions of a module.
AddrTaken(m) == {fr.F : fr \in {d \in DefSet(m) : d.addr}}

\* The function loop's name and unification bookkeeping, in module order:
\* GlobalFuncs[FName] = &F for external definitions (the last one wins);
\* UnifiedFuncMap keeps the first function of each funcHash.
unifyStep(acc, fr) ==
    LET h   == funcHash(fr.F)
        new == acc.um[h] = NoFunc
    IN [gf |-> IF fr.ext THEN [acc.gf EXCEPT ![prog.name[fr.F]] = fr.F] ELSE acc.gf,
        um |-> IF new THEN [acc.um EXCEPT ![h] = fr.F] ELSE acc.um,
        us |-> IF new THEN acc.us \cup {fr.F} ELSE acc.us]

doInitialization ==
    /\ phase = "init" /\ mi <= Len(Modules)
    /\ LET m   == Modules[mi]
           uni == FoldLeft(unifyStep, [gf |-> GlobalFuncs, um |-> UnifiedFuncMap,
                                       us |-> UnifiedFuncSet], Defs(m))
       IN /\ typeFuncsMap' = [k \in DOMAIN typeFuncsMap |->
                                 typeFuncsMap[k] \cup typeConfineFuncs(m, k)]
          /\ typeEscapeSet' = typeEscapeSet \cup escapeTypes(m)
          /\ typeTransitMap' = [t \in Types |-> typeTransitMap[t] \cup transitTypes(m, t)]
          /\ AddressTakenFuncs' = AddressTakenFuncs \cup AddrTaken(m)
          \* line 565 inserts every address-taken definition; line 582 only
          \* unified ones, which adds nothing more
          /\ sigFuncsMap' = [s \in Sigs |-> sigFuncsMap[s]
                                \cup {F \in AddrTaken(m) : funcSigHash(F) = s}]
          /\ GlobalFuncs' = uni.gf
          /\ UnifiedFuncMap' = uni.um
          /\ UnifiedFuncSet' = uni.us
    /\ mi' = mi + 1
    /\ UNCHANGED <<prog, phase, Callees, Callers, IndirectCallInsts>>

\* The initialization loop returns false for every module: one sweep.
EndInitialization ==
    /\ phase = "init" /\ mi > Len(Modules)
    /\ phase' = "pass"
    /\ mi' = 1
    /\ UNCHANGED <<prog, typeFuncsMap, typeTransitMap, typeEscapeSet,
                   AddressTakenFuncs, sigFuncsMap, GlobalFuncs, UnifiedFuncMap,
                   UnifiedFuncSet, Callees, Callers, IndirectCallInsts>>

(***************************************************************************)
(* findCalleesWithMLTA: start from the functions of the call's signature   *)
(* and narrow them layer by layer, stopping at an escaped layer.  A layer  *)
(* intersects with the functions of its field, but when its type has       *)
(* transits, step 3 intersects with the transit types' fields instead,     *)
(* each result overwriting FST.  Step 3 looks the transits up with         *)
(* unsigned TH = typeHash(LayerTy), the hash cut to 32 bits, in a map       *)
(* keyed by the full size_t hash, so it finds them only for a type whose   *)
(* hash fits in 32 bits.                                                   *)
(***************************************************************************)
\* Mutant: the intersection keeps the functions of either set.
funcSetIntersectionUnion(FS1, FS2) == FS1 \cup FS2

funcSetIntersection(FS1, FS2) == FS1 \cap FS2

\* Mutant: only an escape of the whole type stops the narrowing.
EscapedTypeOnly(ty, idx) == <<ty, -1>> \in typeEscapeSet

Escaped(ty, idx) == <<ty, -1>> \in typeEscapeSet \/ <<ty, idx>> \in typeEscapeSet

\* typeTransitMap[(unsigned)typeHash(ty)]: the key is typeHash(ty) mod 2^32.
TransitsOf(ty) == IF ty \in TypeHashFits32 THEN typeTransitMap[ty] ELSE {}

\* Step 3: FST = FS1 & typeFuncsMap[H, idx]; FS1 = FST, for every transit H.
transitNarrow(FS1, ty, idx) ==
    FoldSet(LAMBDA H, acc : funcSetIntersection(acc, typeFuncsMap[<<H, idx>>]),
            FS1, TransitsOf(ty))

LayerStep(FS1, ty, idx) ==
    IF TransitsOf(ty) = {}
    THEN funcSetIntersection(FS1, typeFuncsMap[<<ty, idx>>])
    ELSE transitNarrow(FS1, ty, idx)

RECURSIVE LayerWalk(_, _)
LayerWalk(FS1, L) ==
    IF L = <<>> THEN FS1
    ELSE LET ty == Head(L)[1]
             idx == Head(L)[2]
         IN IF Escaped(ty, idx) THEN FS1
            ELSE LayerWalk(LayerStep(FS1, ty, idx), Tail(L))

findCalleesWithMLTA(c) ==
    IF sigFuncsMap[c.sig] = {} THEN {}
    ELSE LayerWalk(sigFuncsMap[c.sig], c.layers)

(***************************************************************************)
(* A direct call: a declaration is replaced by the external definition of  *)
(* its name, if any, and the result by the unified function of its hash.  *)
(***************************************************************************)
\* Mutant: the external definition is used without unification.
resolveDirectNoUnify(CF) ==
    IF CF \in prog.decls /\ GlobalFuncs[prog.name[CF]] # NoFunc
    THEN GlobalFuncs[prog.name[CF]] ELSE CF

resolveDirect(CF) ==
    LET GF == IF CF \in prog.decls /\ GlobalFuncs[prog.name[CF]] # NoFunc
              THEN GlobalFuncs[prog.name[CF]] ELSE CF
    IN UnifiedFuncMap[funcHash(GF)]

\* Mutant: the null check on the unified function is missing.
DirectCalleesUnchecked(CF) == {resolveDirect(CF)}

DirectCallees(CF) ==
    LET U == resolveDirect(CF) IN IF U # NoFunc THEN {U} ELSE {}

resolveCall(c) ==
    IF c.direct THEN DirectCallees(c.callee) ELSE findCalleesWithMLTA(c)

\* The call sites of a module's functions that are in UnifiedFuncSet, in order.
PassCalls(m) ==
    FoldLeft(LAMBDA acc, fr : acc \o fr.calls, <<>>,
             SelectSeq(m.funcs, LAMBDA fr : fr.F \in UnifiedFuncSet))

doModulePass ==
    /\ phase = "pass" /\ mi <= Len(Modules)
    /\ LET cs  == PassCalls(Modules[mi])
           ids == {cs[i].id : i \in DOMAIN cs}
           res == [x \in ids |-> resolveCall(CHOOSE c \in Range(cs) : c.id = x)]
           ind == SelectSeq(cs, LAMBDA c : ~c.direct)
       IN /\ Callees' = [x \in DOMAIN Callees \cup ids |->
                           IF x \in ids THEN res[x] ELSE Callees[x]]
          /\ Callers' = [F \in Funcs |-> Callers[F] \cup {x \in ids : F \in res[x]}]
          /\ IndirectCallInsts' = IndirectCallInsts \o [i \in DOMAIN ind |-> ind[i].id]
    /\ mi' = mi + 1
    /\ UNCHANGED <<prog, phase, typeFuncsMap, typeTransitMap, typeEscapeSet,
                   AddressTakenFuncs, sigFuncsMap, GlobalFuncs, UnifiedFuncMap,
                   UnifiedFuncSet>>

\* doModulePass returns false for every module: the pass ends after a sweep.
EndModulePass ==
    /\ phase = "pass" /\ mi > Len(Modules)
    /\ phase' = "done"
    /\ UNCHANGED <<prog, mi, typeFuncsMap, typeTransitMap, typeEscapeSet,
                   AddressTakenFuncs, sigFuncsMap, GlobalFuncs, UnifiedFuncMap,
                   UnifiedFuncSet, Callees, Callers, IndirectCallInsts>>

Init ==
    /\ prog \in Progs
    /\ phase = "init"
    /\ mi = 1
    /\ typeFuncsMap = [k \in Types \X Idxs |-> {}]
    /\ typeTransitMap = [t \in Types |-> {}]
    /\ typeEscapeSet = {}
    /\ AddressTakenFuncs = {}
    /\ sigFuncsMap = [s \in Sigs |-> {}]
    /\ GlobalFuncs = [n \in Names |-> NoFunc]
    /\ UnifiedFuncMap = [h \in Names \X Sigs |-> NoFunc]
    /\ UnifiedFuncSet = {}
    /\ Callees = [x \in {} |-> {}]
    /\ Callers = [F \in Funcs |-> {}]
    /\ IndirectCallInsts = <<>>

Next ==
    \/ doInitialization
    \/ EndInitialization
    \/ doModulePass
    \/ EndModulePass

Spec == Init /\ [][Next]_vars /\ WF_vars(Next)

-----------------------------------------------------------------------------
\* Every call site of the program, and the one with a given id.
AllCalls == UNION {UNION {Range(fr.calls) : fr \in Range(m.funcs)} : m \in Range(Modules)}
CallOf(x) == CHOOSE c \in AllCalls : c.id = x
IndirectResolved == {x \in DOMAIN Callees : ~CallOf(x).direct}
DirectResolved == {x \in DOMAIN Callees : CallOf(x).direct}

TypeOK ==
    /\ phase \in {"init", "pass", "done"}
    /\ mi \in 1..Len(Modules) + 1
    /\ typeFuncsMap \in [Types \X Idxs -> SUBSET Funcs]
    /\ typeTransitMap \in [Types -> SUBSET Types]
    /\ typeEscapeSet \subseteq Types \X (Idxs \cup {-1})
    /\ AddressTakenFuncs \subseteq Funcs
    /\ sigFuncsMap \in [Sigs -> SUBSET Funcs]
    /\ UnifiedFuncSet \subseteq Funcs
    /\ DOMAIN Callees \subseteq CallIds
    /\ \A x \in DOMAIN Callees : Callees[x] \subseteq Funcs
    /\ Callers \in [Funcs -> SUBSET CallIds]

(***************************************************************************)
(* The layered refinement as the specification states it (section 4.1,     *)
(* step 3): the address-taken functions of the call's type, intersected    *)
(* per layer with the functions of the field merged with those of the      *)
(* transit types' fields, until an escaped layer.                          *)
(***************************************************************************)
RECURSIVE RefRefine(_, _)
RefRefine(FS, L) ==
    IF L = <<>> THEN FS
    ELSE LET ty == Head(L)[1]
             idx == Head(L)[2]
             fld == typeFuncsMap[<<ty, idx>>]
                      \cup UNION {typeFuncsMap[<<H, idx>>] : H \in typeTransitMap[ty]}
         IN IF <<ty, idx>> \in typeEscapeSet \/ <<ty, -1>> \in typeEscapeSet THEN FS
            ELSE RefRefine(FS \cap fld, Tail(L))

RefMLTA(c) == RefRefine({F \in AddressTakenFuncs : prog.sig[F] = c.sig}, c.layers)

\* Narrowing only removes candidates: every callee doModulePass records for
\* an indirect call is an address-taken function of the call's signature.
CalleesWithinSignature ==
    \A x \in IndirectResolved :
        \A F \in Callees[x] : F \in AddressTakenFuncs /\ prog.sig[F] = CallOf(x).sig

\* Where no layer of an indirect call has a type-transit, findCalleesWithMLTA
\* yields exactly the specified layered refinement (escape included).
MLTAMatchesReferenceWithoutTransit ==
    \A x \in IndirectResolved :
        (\A i \in DOMAIN CallOf(x).layers : typeTransitMap[CallOf(x).layers[i][1]] = {})
          => Callees[x] = RefMLTA(CallOf(x))

\* With transits too, the callees are the specified refinement: step 3 is
\* meant to merge the transit types' functions with the field's.
MLTAMatchesReference ==
    \A x \in IndirectResolved : Callees[x] = RefMLTA(CallOf(x))

\* A direct call resolves to the unified definition of the called name, the
\* one whose body doModulePass and the later passes analyse.
DirectCalleesAreUnified ==
    \A x \in DirectResolved :
        \A F \in Callees[x] : F \in UnifiedFuncSet
                              /\ prog.name[F] = prog.name[CallOf(x).callee]

\* Indirect calls, too, resolve only to unified functions (the specification
\* says all downstream analyses work on the deduplicated function universe).
IndirectCalleesAreUnified ==
    \A x \in IndirectResolved : Callees[x] \subseteq UnifiedFuncSet

====
