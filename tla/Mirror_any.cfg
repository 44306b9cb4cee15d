CONSTANTS
  Tasks = {t1}
  Item = item
  Payloads = {p1}
  SoloDev = TRUE
  Requests = {r1}
  Hooks = {h1, h2}
  Signals <- Planning
  MaxEvents = 2
  Start = {"assigning"}
  Orderly = FALSE
SPECIFICATION Spec
SYMMETRY Symmetry
INVARIANTS TypeOK OutboxConserved
PROPERTIES ImplementsOutbox
CHECK_DEADLOCK FALSE
