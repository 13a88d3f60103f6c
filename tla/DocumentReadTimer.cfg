CONSTANTS
  Docs = {profile}
  MaxReads = 2
  MaxVersion = 1
  MaxBreaks = 0
  MaxRefusals = 0
SPECIFICATION Spec
CHECK_DEADLOCK FALSE
INVARIANTS
  WaitingReadsAreTimed
