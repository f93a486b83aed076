CONSTANTS
  r1 = r1
  r2 = r2
  c1 = c1
  c2 = c2
  NoId = NoId
  W = 2
  Routes <- MCRoutes
  Sources = {0, 1}
  RedirectHops = {0}
  RouteIds <- MCRouteIds
  CacheIds <- MCCacheIds
  HashSize = 2
  CacheMax = 1
  MaxOwners = 2
  MaxStamp = 4
  MaxRefs = 1
  LiteralHandout = TRUE
SPECIFICATION Spec
SYMMETRY Symmetry
INVARIANT CacheEntriesAllocated
