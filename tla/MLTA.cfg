CONSTANTS
  ma = ma mb = mb f = f e = e h = h S = S T = T A = A B = B P = P sig = sig other = other
  s = s s2 = s2 t = t node = node raw = raw arr = arr
  run = run run2 = run2 inrun = inrun tat = tat atrun = atrun elt = elt elt0 = elt0 binrun = binrun
  nrun = nrun nnext = nnext
  lrun = lrun linrun = linrun latrun = latrun lelt = lelt lelt0 = lelt0 lbinrun = lbinrun
  lnext = lnext lat = lat lnrun = lnrun
  tab = tab top = top gv = gv ini = ini c1 = c1 c2 = c2 c3 = c3 c4 = c4 c5 = c5 c6 = c6 c7 = c7
  Value = {f, e, h, s, s2, t, node, raw, arr, run, run2, inrun, tat, atrun, elt, elt0, binrun, nrun, nnext,
           lrun, linrun, latrun, lelt, lelt0, lbinrun, lnext, lat, lnrun}
  NoValue = NoValue
  Type = {S, T, A, B, P, sig, other}
  NoType = NoType
  Index = {0, 1}
  Elem <- MCElem
  IR <- MCIR
  Module = {ma, mb}
  NoModule = NoModule
  Func = {f, e, h}
  ModuleOf <- MCModuleOf
  Const = {tab, top, gv, ini}
  NoConst = NoConst
  TypesOf <- MCTypesOf
  Operands <- MCOperands
  Call = {c1, c2, c3, c4, c5, c6, c7}
  NoCall = NoCall
  CallHash <- MCCallHash
  CalledOperand <- MCCalledOperand
  Versions <- MCVersions
  MaxTypeLayer = 3
  MaxUpdates = 1
SPECIFICATION FairSpec
INVARIANTS TypeOK  CacheExact TargetsKept 
PROPERTY WalkEnds
CHECK_DEADLOCK FALSE
