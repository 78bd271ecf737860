SPECIFICATION FairHostSpec
CONSTANTS
  Chat = Chat
  gift = gift
  ana = ana
  None = None
  Flow = {Chat, gift}
  Routes = {Chat, gift}
  Users = {ana}
  MaxTime = 6
  MaxNow = 2
  MaxIdentity = 2
  MaxRevision = 3
  MinScore = 0
  MaxScore = 1
  InitialSettings <- ChatAndGift
  FlowInputs = {Chat, gift}
  SettingsInputs <- Closing
  Adjustments = {0}
  TTLOverrides <- NoOverride
  NewScores <- NoScore
  ExpectedTimes <- AnyTime
  bPumpAfterEnqueueWhenIdle = TRUE
  bPumpAfterConfirm = TRUE
  ChatInputs <- Chatter
  bOnlyAllowCommands = FALSE
  bRefreshTtlOnAppend = TRUE
  MaxMessagesPerBatch = 3
  MaxMessageBytes = 2
  MaxBatchBytes = 5
  MaxHandle = 2
  Commands <- Redelivered
  MaxSequence = 4
  FailureStages = {"Dispatch"}
  MaxFailures = 1
PROPERTIES RejectedCompletionConsumed
