SPECIFICATION FairSpec
CONSTANTS
  Cap = 4
  Wrap = 8
  MaxBytes = 9
  MaxWrite = 6
INVARIANT TypeOK
INVARIANT NoStall
INVARIANT LossPerRace
PROPERTY OrderKept
PROPERTY Drains
\* The app may have written all it will.
CHECK_DEADLOCK FALSE
