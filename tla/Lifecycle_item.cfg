CONSTANTS
  Tasks = {t1, t2}
  Item = item
  Payloads = {p1}
  SoloDev = FALSE
  Requests = {r1, r2}
  Sent <- NoRejection
  PullRequests <- Submitted
SPECIFICATION Spec
SYMMETRY Symmetry
INVARIANTS TypeOK OpenOnlyByPullRequest
PROPERTIES LastTaskMakesReady Serializable
CHECK_DEADLOCK FALSE
