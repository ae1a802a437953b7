CONSTANTS
  o1 = o1
  NoOne = NoOne
  Selected <- MCSelected
  Predicts <- MCPredicts
  Units = 3
  Arguments <- MCArguments
  MaxStarts = 2
SPECIFICATION MCSpec
INVARIANT ReportIsTrue
PROPERTY EveryProgramEnds
CHECK_DEADLOCK FALSE
