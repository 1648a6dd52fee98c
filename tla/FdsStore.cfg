SPECIFICATION FairSpec
CONSTANTS
  Slots = 2
  MaxStores = 6
INVARIANT TypeOK
INVARIANT Stored
PROPERTY StoreEnds
PROPERTY RecordSpec
