SPECIFICATION WorkerSpec
CONSTANTS
  Workers = {w1}
  Operations = {dispatch}
  EvidenceIds = {execution, cancel, platform}
  Entities = {evaluation}
  Outcomes = {"PASS", "ERROR", "CANCELLED"}
  NoWorker = NoWorker
  NoEvidence = NoEvidence
  NoEntity = NoEntity
  MaxAttempts = 6
  MaxVersion = 34
  Dispatch = dispatch
  Evaluation = evaluation
  ExecutionEvidence = execution
  CancelEvidence = cancel
  PlatformEvidence = platform
  MayCancel = TRUE
  MaxFaults = 2
  MaxRenewals = 2
PROPERTY LoneWorkerFinishes
CHECK_DEADLOCK FALSE
