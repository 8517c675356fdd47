CONSTANTS
  f = f g = g h = h k = k
  Func = {f, g, h, k}
  Graphs <- SomeGraphs
  Queries <- AllQueries
  TopLV = {f}
  MaxQueries = 2
SPECIFICATION FairSpec
INVARIANTS TypeOK GatherExact CacheExclusive AncestorExact
PROPERTY WalksEnd
CHECK_DEADLOCK FALSE
