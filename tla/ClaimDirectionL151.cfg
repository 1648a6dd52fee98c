SPECIFICATION Spec
CONSTANTS
  Duty <- CodeDuty
  Inner <- CodeInner
  Outer = 1000
  Steps = 20
  Stray = {0, 40000}
  Mirrored <- MiddleWheel
  InTable <- NoWheels
  BootPin = TRUE
  Ids <- AllIds
  Bytes4 = {0, 1, 2, 3, 4}
  Bytes5 = {0, 1, 2, 5, 6}
  A2Turn = 2
  Torn = FALSE
PROPERTY DirectionAtRest
