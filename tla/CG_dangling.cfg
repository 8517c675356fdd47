CONSTANTS
  a = a b = b c = c f = f g = g h = h k = k fun = fun op = op cb = cb
  Path = {a, b, c}
  Name = {f, g, h, k}
  Sig = {fun, op}
  Slot = {cb}
  NoSlot = NoSlot
  NoBody = NoBody
  NoFunc = NoFunc
  SigOf <- MCSigOf
  Versions <- MixedVersions
  MaxUpdates = 1
SPECIFICATION Spec
INVARIANT CalleesLive
CHECK_DEADLOCK FALSE
