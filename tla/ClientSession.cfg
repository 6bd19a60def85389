CONSTANTS
  Plans <- SmallPlans
  Values = {0, 1}
  MaxEvents = 4
  MaxCalls = 3
  pipeBuffer = 26
  showBuffer = 24
SPECIFICATION FairSpec
INVARIANTS TypeOK InStep PrintsTheAnswer
PROPERTIES CallsReturn QuitFreesWorker
CHECK_DEADLOCK FALSE
