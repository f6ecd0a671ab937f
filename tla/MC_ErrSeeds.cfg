CONSTANTS
    b1 = b1  b2 = b2  b3 = b3  b4 = b4  b5 = b5
    vc = vc  e1 = e1  e2 = e2  vs = vs  vl = vl  vg = vg  vp = vp  vu = vu
    vb = vb  vx = vx  vcp = vcp  ver = ver  va = va  vi = vi  vlc = vlc  vsx = vsx
    g1 = g1  g2 = g2  g3 = g3  g4 = g4  k1 = k1  k2 = k2
    NoVal = NoVal
    Progs <- MC_PlainCondProgs
    Blocks <- MC_Blocks
    Vals <- MC_Vals
    Funcs <- MC_Funcs
    CallIds <- MC_CallIds
SPECIFICATION Spec
INVARIANT TypeOK
PROPERTY Termination
PROPERTY ImplementsErrSeedsSpec
CHECK_DEADLOCK FALSE
