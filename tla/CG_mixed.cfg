CONSTANTS
  a = a b = b c = c f = f g = g h = h k = k fun = fun op = op cb = cb
  Path = {a, b, c}
  Name = {f, g, h, k}
  Sig = {fun, op}
  Slot = {cb}
  NoSlot = NoSlot
  NoBody = NoBody
  NoFunc = NoFunc
  SigOf <- MCSigOf
  Versions <- UnreadableVersions
  MaxUpdates = 2
SPECIFICATION Spec
INVARIANTS TypeOK CallersInverse DirectEdgesLive DirectCallersAgree GlobalFuncMapLive 
CHECK_DEADLOCK FALSE
