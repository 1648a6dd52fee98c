SPECIFICATION FairSpec
CONSTANTS
  Duty <- CodeDuty
  Inner <- CodeInner
  Outer = 1000
  Steps = 20
  Stray = {0, 40000}
  Mirrored <- NoWheels
  InTable <- RearLeft
  BootPin = FALSE
  Ids <- AllIds
  Bytes4 = {0, 1, 2, 3, 4}
  Bytes5 = {0, 1, 2, 5, 6}
  A2Turn = 1
  Torn = FALSE
INVARIANT TypeOK
INVARIANT WheelsAgree
INVARIANT RunMatchesCommand
INVARIANT StopProgress
PROPERTY DirectionAtRest
PROPERTY StopSlows
PROPERTY Responsive
PROPERTY StopStops
PROPERTY ServiceSpec
