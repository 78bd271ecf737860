SPECIFICATION Spec
CONSTANTS
  chat = chat
  gift = gift
  None = None
  Flow = {chat}
  MaxTime = 4
  MaxNow = 3
  MaxIdentity = 3
  MaxRevision = 2
  MinScore <- LowestScore
  MaxScore = 1
  InitialSettings <- OneFlow
  FlowInputs = {chat}
  SettingsInputs <- ValidInputs
  Adjustments = {0}
  TTLOverrides <- NoOverride
  NewScores <- NewWeights
  ExpectedTimes <- NoExpectation
  bPumpAfterEnqueueWhenIdle = TRUE
  bPumpAfterConfirm = TRUE
INVARIANTS IInv IndexesComplete
PROPERTIES StaleKeysStayStale DueNeverRevived TerminalExactlyOnce SelectionIsBest
  ImplementsScheduler
