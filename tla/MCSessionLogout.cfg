SPECIFICATION FairSpec
CONSTANTS
  Email = {e1}
  NoView = NoView
  MaxJobs = 2
  MaxForms = 4
  MaxFailures = 1
  MaxKills = 0
PROPERTIES Answered ImplementsListening
INVARIANTS BusyIndicator OpenForSomebody ProfileCovered
CHECK_DEADLOCK FALSE
