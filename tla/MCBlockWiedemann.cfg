CONSTANTS
  Groups = {1, 2}
  NK = 3
  NS = 2
  Params <- MCParams
  skip_online_checks = FALSE
  Top = 5
  MaxRuns = 3
  MaxFaults = 1
SPECIFICATION Spec
CHECK_DEADLOCK FALSE
INVARIANTS
    DiskSound
    
PROPERTIES
    RunsEnd
