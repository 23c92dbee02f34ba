CONSTANTS
  NROWS = 5
  NCOLS = 3
  Cols <- MCCols
  Inputs <- MCInputs
  Pars <- MCPars
  DENSITY = 2
  TARGET = 1
  NCOSTMAX = 1
  NIREMMAX = 0
  MaxKills = 1
SPECIFICATION Spec
INVARIANTS
    MatrixAccurate
    HistoryReplays
PROPERTIES
    Terminates
