SPECIFICATION FairSpec
CONSTANTS
  Keys = {0, 1, 4, 8}
  Values = {v1, v2}
  Nodes = {1, 2, 3, 4}
  Null = Null
  INITIAL_BUCKETS_NUM = 2
INVARIANTS
  ListsIntact
PROPERTIES
  ImplementsMap
  CallReturns
