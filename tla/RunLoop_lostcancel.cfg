CONSTANTS
    MaxSteps = 2
    Modes = {"local", "remote"}
    Requests = {q1}
    MaxCrashes = 0
    MaxSweeps = 0
    HumanDeadline = FALSE
SPECIFICATION Spec
INVARIANTS CancelSticks
CHECK_DEADLOCK FALSE
