CONSTANTS
  t1 = t1
  t2 = t2
  None = None
  Ids <- TwoIds
  Mockups <- OneMockup
  TaskLists <- FewLists
  Agents <- Variants
  Corrections = 2
  Rejections = 2
  RejectCap = 2
  Retries = 1
SPECIFICATION FairSpec
INVARIANTS TypeOK Aligned OnlyReplanRefused CorrectionsCounted BudgetsRespected CompletedMeansDone
PROPERTIES Kept Terminates Implements
