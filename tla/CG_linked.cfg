CONSTANTS
  a = a b = b c = c f = f g = g h = h op = op
  Path = {a, b, c}
  Name = {f, g, h}
  Sig = {op}
  Slot = {}
  NoSlot = NoSlot
  NoBody = NoBody
  NoFunc = NoFunc
  NoAnswer = NoAnswer
  SigOf <- MCSigOf
  Versions <- MCVersions
  MaxUpdates = 2
SPECIFICATION LinkedSpec
PROPERTIES ImplementsLinkedCalls 
CHECK_DEADLOCK FALSE
