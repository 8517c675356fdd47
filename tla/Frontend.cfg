SPECIFICATION Spec
CONSTANTS
  Paths <- PathsValue
  Src <- SrcValue
  Configured = {"d/a.c", "d/b.c", "e/c.c"}
  Dir = {"d", "e", "i"}
  DirOf <- DirOfValue
  Version <- VersionValue
  NoFile = "none"
  Broken = {"x"}
  Edits <- EditsValue
  Trees <- TreesValue
  Modes = {{}, {"d/b.c"}}
  MaxCommits = 2
  IncludeMerge = FALSE
INVARIANTS TypeOK  TreeExact   LinesMatch
CHECK_DEADLOCK FALSE
