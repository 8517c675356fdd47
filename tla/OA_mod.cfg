CONSTANTS
  s = s t = t m = m n = n o = o x = x y = y MOD = MOD REF = REF
  Func = {s, t, m, n, o}
  Tag = {x, y}
  Top <- MCTop
  Programs <- Libraries
SPECIFICATION Spec
INVARIANTS TypeOK 
CHECK_DEADLOCK FALSE
