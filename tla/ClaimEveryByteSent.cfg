SPECIFICATION Spec
CONSTANTS
  Cap = 4
  Wrap = 8
  MaxBytes = 9
  MaxWrite = 6
INVARIANT EveryByteSent
\* The app may have written all it will.
CHECK_DEADLOCK FALSE
