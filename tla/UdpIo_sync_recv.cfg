CONSTANTS
  p1 = p1
  p2 = p2
  r1 = r1
  r2 = r2
  NoToken = NoToken
  Packets <- MCPackets
  RxTokens <- MCRxTokens
  SyncNotify = TRUE
  NestedCancel = FALSE
SPECIFICATION Spec
SYMMETRY Symmetry
INVARIANT RxOneRequest
