CONSTANTS
  research = research
  wait = wait
  correct = correct
  close = close
  Terminate = Terminate
  Unknown = Unknown
  None = None
  Nodes <- AllNodes
  Local <- LocalNodes
  Pausing <- PauseNodes
  Correcting <- CorrectNodes
  TerminalNodes <- LastNodes
  MaxSteps = 2
  MaxCorrections = 0
  MaxSignals = 1
  Engines <- EveryKind
SPECIFICATION FairSpec
INVARIANTS TypeOK StepsNumbered NoLostWake EndedMeansClosed StepBarrier CorrectionsBounded OneAnswerEach
PROPERTIES LoopSettles CancelEnds
CHECK_DEADLOCK FALSE
