CONSTANTS
    MaxSteps = 2
    Modes = {"local", "remote", "human", "engine"}
    Requests = {q1, q2}
    MaxCrashes = 1
    MaxSweeps = 1
    HumanDeadline = FALSE
SPECIFICATION FairSpec
PROPERTIES RunningSettles CancelReturns
CHECK_DEADLOCK FALSE
