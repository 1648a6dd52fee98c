\* HardFault_Handler loops for ever, and the BLE module may fall silent.
SPECIFICATION McuSpec
CONSTANTS
  MaxSize = 16
  Frames <- CarFrames
  Paced = FALSE
  Burst = 6
  Copying <- F103
  Duty <- ShortDuty
  Inner <- ShortInner
  Outer = 6
  Steps = 2
  Stray = {9}
  Mirrored <- NoWheels
  InTable <- RearLeft
  BootPin = FALSE
  Ids <- AllIds
  Bytes4 <- FrameBytes
  Bytes5 <- FrameBytes
  A2Turn = 1
CHECK_DEADLOCK FALSE
PROPERTY LatestExecuted
PROPERTY LinkFair
PROPERTY CarSpec
PROPERTY StopFrameRests
