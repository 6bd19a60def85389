CONSTANTS
  Plans <- SmallPlans
  Values = {0, 1}
  MaxEvents = 1
  MaxCalls = 2
  pipeBuffer = 100
  showBuffer = 500
SPECIFICATION FairSpec
PROPERTIES ShowReturns
CHECK_DEADLOCK FALSE
