SPECIFICATION PipelineSpec
CONSTANTS
  Chat = Chat
  gift = gift
  ana = ana
  leo = leo
  None = None
  Flow = {Chat, gift}
  Routes = {Chat, gift}
  Users = {ana, leo}
  MaxTime = 6
  MaxNow = 3
  MaxIdentity = 3
  MaxRevision = 2
  MinScore = 0
  MaxScore = 1
  InitialSettings <- ChatAndGift
  FlowInputs = {Chat, gift}
  SettingsInputs = {}
  Adjustments = {0, 1}
  TTLOverrides <- NoOverride
  NewScores <- NoScore
  ExpectedTimes <- AnyTime
  bPumpAfterEnqueueWhenIdle = TRUE
  bPumpAfterConfirm = TRUE
  ChatInputs <- Chatter
  bOnlyAllowCommands = FALSE
  bRefreshTtlOnAppend = TRUE
  MaxMessagesPerBatch = 3
  MaxMessageBytes = 2
  MaxBatchBytes = 5
  MaxHandle = 2
INVARIANTS PipelineInv OperationsNeverThrow ChatIsAnswered
PROPERTIES ImplementsDelivery
VIEW CoordinatorState
