CONSTANTS
  Tasks = {t1}
  Item = item
  Payloads = {p1}
  SoloDev = TRUE
  Requests = {r1, r2}
  Hooks = {h1}
  Signals <- Deriving
  MaxEvents = 2
  Start = {"implementing"}
  Orderly = TRUE
SPECIFICATION FairSpec
INVARIANTS Converged
PROPERTIES Answered
CHECK_DEADLOCK FALSE
