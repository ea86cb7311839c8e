SPECIFICATION FairSpec
CONSTANTS
  Invocation = {p1, p2, c1}
  Projection = {p1, p2}
  Client = {c1}
  Key = {k1, k2}
  MaxGen = 2
  AthenaMax = 2
  QueryLimit = 2
  MaxLimit = 2
INVARIANTS TypeOK PagesAreTheQuery
PROPERTIES ItemsNeverGoBack ProjectionRefreshesAPage EveryInvocationEnds
CHECK_DEADLOCK FALSE
