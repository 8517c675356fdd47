CONSTANTS
  one = one two = two f = f g = g h = h x = x y = y end = end
  Path = {one, two}
  Name = {f, g, h}
  Tag = {x, y}
  End = end
  Reaches <- MCReaches
  Texts <- DeletionTexts
  MaxCommits = 1
SPECIFICATION Spec
INVARIANT TagsFresh
CHECK_DEADLOCK FALSE
