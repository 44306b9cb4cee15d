CONSTANTS
  Tasks = {t1}
  Item = item
  Payloads = {p1}
  SoloDev = TRUE
  Requests = {r1, r2}
  Sent <- Few
  PullRequests <- Submitted
SPECIFICATION Spec
INVARIANTS ReadyIsFinished
CHECK_DEADLOCK FALSE
