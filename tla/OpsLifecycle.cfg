\* The process from start to exit, with two requests and two signals.
SPECIFICATION FairSpec
CONSTANTS
  h1 = h1
  h2 = h2
  Handler <- MCHandler
  MaxSignals = 2
INVARIANTS
  LoopsEndBeforeExit
  WorkerOutlivesRequests
  CleanExitAnswersAll
PROPERTY ProcessEnds
