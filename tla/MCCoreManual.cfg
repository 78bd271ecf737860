SPECIFICATION FairSpec
CONSTANTS
  chat = chat
  gift = gift
  None = None
  Flow = {chat}
  MaxTime = 4
  MaxNow = 3
  MaxIdentity = 2
  MaxRevision = 2
  MinScore <- LowestScore
  MaxScore = 1
  InitialSettings <- OneFlow
  FlowInputs = {chat}
  SettingsInputs <- ValidInputs
  Adjustments = {0}
  TTLOverrides <- Overrides
  NewScores <- Lowered
  ExpectedTimes <- NoExpectation
  bPumpAfterEnqueueWhenIdle = FALSE
  bPumpAfterConfirm = FALSE
PROPERTIES ImplementsScheduler DueEventuallyTold
