SPECIFICATION Spec
CONSTANTS
  MaxSize = 16
  Frames <- BurstFrames
  Paced = FALSE
  Burst = 8
  Copying <- F103
INVARIANT CheckedIsExecuted
