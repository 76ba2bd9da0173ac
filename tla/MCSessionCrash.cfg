SPECIFICATION Spec
CONSTANTS
  Email = {e1, e2}
  NoView = NoView
  MaxJobs = 2
  MaxForms = 3
  MaxFailures = 1
  MaxKills = 1
SYMMETRY EmailSymmetry
INVARIANTS ProfileBacked NoSilentOrphan OwnQueue HomeListens
CHECK_DEADLOCK FALSE
