SPECIFICATION ProbeSpec
CONSTANTS
  MaxInt64 = 7
  FramesReceived <- SomeFrames
  MaxOtherFrames = 1
INVARIANTS MessagesAccountedFor ReportIsFinal
PROPERTIES EndsOnceDone
CHECK_DEADLOCK FALSE
