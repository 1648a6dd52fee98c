SPECIFICATION Spec
CONSTANTS
  Replies <- SomeReplies
  MaxCuts = 2
INVARIANT TypeOK
INVARIANT LengthSane
INVARIANT AcksAreReplies
INVARIANT LossBounded
