SPECIFICATION Spec
CONSTANTS
  chat = chat
  gift = gift
  None = None
  Flow = {chat, gift}
  MaxTime = 3
  MaxNow = 1
  MaxIdentity = 2
  MaxRevision = 2
  MinScore <- LowestScore
  MaxScore = 1
  InitialSettings <- TwoFlows
  FlowInputs <- AllFlows
  SettingsInputs <- OddInputs
  Adjustments = {0, 1}
  TTLOverrides <- AllOverrides
  NewScores <- AllScores
  ExpectedTimes <- Expectations
  bPumpAfterEnqueueWhenIdle = FALSE
  bPumpAfterConfirm = TRUE
PROPERTIES SnapshotsKept ImplementsScheduler
