SPECIFICATION WorkerSpec
CONSTANTS
  Workers = {w1, w2}
  Operations = {dispatch}
  EvidenceIds = {execution, cancel, platform}
  Entities = {evaluation}
  Outcomes = {"PASS", "ERROR", "CANCELLED"}
  NoWorker = NoWorker
  NoEvidence = NoEvidence
  NoEntity = NoEntity
  MaxAttempts = 3
  MaxVersion = 20
  Dispatch = dispatch
  Evaluation = evaluation
  ExecutionEvidence = execution
  CancelEvidence = cancel
  PlatformEvidence = platform
  MayCancel = TRUE
  MaxFaults = 1
  MaxRenewals = 1
INVARIANTS
  WorkerSafety
  CredentialsAreOwn
  CurrentRunIsInFlight
PROPERTIES
  WedgeIsPermanent
  EveryAttemptEnds
CHECK_DEADLOCK FALSE
