SPECIFICATION PipelineSpec
CONSTANTS
  Chat = Chat
  gift = gift
  ana = ana
  leo = leo
  None = None
  Flow = {Chat, gift}
  Routes = {Chat, gift}
  Users = {ana, leo}
  MaxTime = 6
  MaxNow = 3
  MaxIdentity = 3
  MaxRevision = 2
  MinScore = 0
  MaxScore = 1
  InitialSettings <- ChatAndGift
  FlowInputs = {Chat, gift}
  SettingsInputs <- Closing
  Adjustments = {0, 1}
  TTLOverrides <- NoOverride
  NewScores <- NoScore
  ExpectedTimes <- AnyTime
  bPumpAfterEnqueueWhenIdle = FALSE
  bPumpAfterConfirm = FALSE
  ChatInputs <- Oddities
  bOnlyAllowCommands = TRUE
  bRefreshTtlOnAppend = FALSE
  MaxMessagesPerBatch = 3
  MaxMessageBytes = 2
  MaxBatchBytes = 3
  MaxHandle = 2
INVARIANTS OperationsNeverThrow
PROPERTIES GrowthBeforeDue ImplementsDelivery
VIEW CoordinatorState
