SPECIFICATION StoreSpec
CONSTANTS
  Puts = {p1, p2, p3}
  Keys = {k1}
  Contents = {x, y}
  Nothing = Nothing
INVARIANTS
  ReplyIsTrue
PROPERTIES
  ImplementsWriteOnceStore
  PutsEnd
CHECK_DEADLOCK FALSE
