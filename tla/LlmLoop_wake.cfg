CONSTANTS
  research = research
  wait = wait
  correct = correct
  close = close
  Terminate = Terminate
  Unknown = Unknown
  None = None
  Nodes <- AllNodes
  Local <- LocalNodes
  Pausing <- PauseNodes
  Correcting <- CorrectNodes
  TerminalNodes <- LastNodes
  MaxSteps = 2
  MaxCorrections = 0
  MaxSignals = 1
  Engines <- EveryKind
SPECIFICATION Spec
INVARIANT CancelledMeansRequested
CHECK_DEADLOCK FALSE
