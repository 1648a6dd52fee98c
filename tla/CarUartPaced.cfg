SPECIFICATION FairSpec
CONSTANTS
  MaxSize = 16
  Frames <- AllFrames
  Paced = TRUE
  Burst = 8
  Copying <- BothBoards
INVARIANT TypeOK
INVARIANT AnswerIsForFrame
INVARIANT ExecutedOnce
INVARIANT CheckedIsExecuted
INVARIANT CountedWhole
PROPERTY Answered
