CONSTANTS
  t1 = t1
  t2 = t2
  None = None
  Ids <- TwoIds
  Mockups <- Nobody
  TaskLists <- PlainList
  Agents <- Manual
  Corrections = 2
  Rejections = 3
  RejectCap = 2
  Retries = 0
SPECIFICATION Spec
INVARIANT RejectedPlanLoopsBack
