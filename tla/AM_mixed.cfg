CONSTANTS
  one = one two = two f = f g = g h = h x = x y = y end = end
  Path = {one, two}
  Name = {f, g, h}
  Tag = {x, y}
  End = end
  Reaches <- MCReaches
  Texts <- MixedTexts
  MaxCommits = 2
SPECIFICATION Spec
INVARIANTS TypeOK NoTagOnFreed   
 
CHECK_DEADLOCK FALSE
