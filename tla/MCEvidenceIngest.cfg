SPECIFICATION IngestSpec
SYMMETRY Symmetric
CONSTANTS
  e1 = e1
  e2 = e2
  x = x
  y = y
  k1 = k1
  k2 = k2
  k3 = k3
  Clients = {c1, c2}
  Uploads = {u1}
  Entities = {e1, e2}
  Contents = {x, y}
  IdempotencyKeys = {k1, k2, k3}
  Puts <- MCPuts
  Keys <- MCKeys
  Manifests <- MCManifests
  Nothing = Nothing
  NoEntity = NoEntity
  NoManifest = NoManifest
  MaxFaults = 1
INVARIANTS
  RowIsBacked
  SuccessIsTrue
  HistoryIsAcyclic
CHECK_DEADLOCK FALSE
