SPECIFICATION AdapterSpec
CONSTANTS
  MaxInt32 = 3
  MaxInt64 = 7
  FramesReceived <- Frames
INVARIANTS DecodesWellTyped DecodedIsConvertible InputSaysWhatWasSent
PROPERTIES CorrectionAdvances CorrectedIsDecoded
CHECK_DEADLOCK FALSE
