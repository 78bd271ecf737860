SPECIFICATION RunnerSpec
CONSTANTS
  Chat = Chat
  ana = ana
  leo = leo
  None = None
  Flow = {Chat}
  Routes = {Chat}
  Users = {ana, leo}
  MaxTime = 13
  MaxNow = 12
  MaxIdentity = 4
  MaxRevision = 4
  MinScore = 0
  MaxScore = 1
  InitialSettings <- ChatSettings
  FlowInputs = {Chat}
  SettingsInputs = {}
  Adjustments = {0, 1}
  TTLOverrides <- NoOverride
  NewScores <- NoScore
  ExpectedTimes <- AnyTime
  bPumpAfterEnqueueWhenIdle = TRUE
  bPumpAfterConfirm = TRUE
  ChatInputs <- Chatter
  bOnlyAllowCommands = FALSE
  bRefreshTtlOnAppend = TRUE
  MaxMessagesPerBatch = 2
  MaxMessageBytes = 2
  MaxBatchBytes = 5
  MaxHandle = 5
  Commands <- Everything
  MaxSequence = 8
  FailureStages = {}
  MaxFailures = 0
  Offsets = {0, 1, 2, 3, 4}
  MaxInputs = 4
  ProcessingDuration = 2
INVARIANTS RunnerInv RunWithinTimeline NothingLeftBehind
PROPERTIES TimePassesInOrder ScenarioEnds
CHECK_DEADLOCK FALSE
