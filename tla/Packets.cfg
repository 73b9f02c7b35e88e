CONSTANTS
  FrameSpace = 2
  SequenceSpace = 4
  MaxBuffer = 3
  Sizes <- MCSizes
  MaxFrames = 3
  MaxRepeats = 1
SPECIFICATION PacketsSpec
INVARIANTS FramesWhole CleanFrameDelivered
CHECK_DEADLOCK FALSE
