CONSTANTS
    MaxSteps = 2
    Modes = {"local", "remote", "human", "engine"}
    Requests = {q1, q2, q3}
    MaxCrashes = 1
    MaxSweeps = 1
    HumanDeadline = TRUE
SPECIFICATION Spec
SYMMETRY RequestSymmetry
INVARIANTS TypeOK StepBarrier OneOpenDispatch NoZombie PausedMeansParked NoLostWake
PROPERTIES ImplementsSequentialRun NoDispatchAfterCancel
CHECK_DEADLOCK FALSE
