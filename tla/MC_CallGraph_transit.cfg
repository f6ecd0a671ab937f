CONSTANTS
    fa = fa  fb = fb  fc = fc  fd = fd  fe = fe  ff = ff  dfa = dfa  dpr = dpr
    na = na  nb = nb  nd = nd  ne = ne  nf = nf  npr = npr
    s1 = s1  s2 = s2  A = A  B = B
    c1 = c1  c2 = c2  c3 = c3  c4 = c4  c5 = c5  c6 = c6
    NoFunc = NoFunc
    TypeHashFits32 <- MC_TypeHashFits32
    Progs <- MC_Progs
    Funcs <- MC_Funcs
    Names <- MC_Names
    Sigs <- MC_Sigs
    Types <- MC_Types
    Idxs <- MC_Idxs
    CallIds <- MC_CallIds
SPECIFICATION Spec
\* The pass stops once both sweeps are done.
CHECK_DEADLOCK FALSE
INVARIANT MLTAMatchesReference
