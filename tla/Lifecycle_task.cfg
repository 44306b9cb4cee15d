CONSTANTS
  Tasks = {t1}
  Item = item
  Payloads = {p1, p2}
  SoloDev = TRUE
  Requests = {r1, r2}
  Sent <- Resubmitted
  PullRequests <- PullRequest
SPECIFICATION FairSpec
INVARIANTS KeyedOnce StatusHasItsRecord
PROPERTIES Answered
CHECK_DEADLOCK FALSE
