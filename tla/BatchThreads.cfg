CONSTANTS
  N = 2
  NoOne = NoOne
  Jobs <- AllJobs
SPECIFICATION FairSpec
INVARIANTS TypeOK ResultsAgree AllRunAtEnd
PROPERTIES ImplementsJobOrder DelaysTaken JobFinishes
CHECK_DEADLOCK FALSE
