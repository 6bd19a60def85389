CONSTANTS
  N = 2
  NoOne = NoOne
  Jobs <- HelpJobs
SPECIFICATION FairSpec
PROPERTIES EveryJobFinishes
CHECK_DEADLOCK FALSE
