SPECIFICATION Spec
CONSTANTS
  Workers = {w1, w2}
  Operations = {o1, o2}
  EvidenceIds = {e1}
  Entities = {n1}
  Outcomes = {"PASS", "ERROR", "CANCELLED"}
  NoWorker = NoWorker
  NoEvidence = NoEvidence
  NoEntity = NoEntity
  MaxAttempts = 2
  MaxVersion = 6
SYMMETRY CallerSymmetry
INVARIANTS
  OwnerIsNewestAttempt
  VerdictIsProved
  ParkedJobHasWork
  EffectIsNeverDenied
PROPERTIES
  FencingToken
  TerminalIsFinal
  ImplementsFencedJob
CHECK_DEADLOCK FALSE
