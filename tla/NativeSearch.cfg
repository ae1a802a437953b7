SPECIFICATION MCSpec
CONSTANTS
  Units = 3
  TopK = 2
  MaxRuns = 2
  MaxStamp = 2
  Gradings <- MCGradings
  Cases <- MCCases
  Benchmarks <- MCBenchmarks
  Window <- MCWindow
  AnnualFactor = 6
  Merits = {"accepted", "needs_more_evidence"}
INVARIANTS
   ComparedAreCurrent
  AcceptedBeatsAnIndex
CHECK_DEADLOCK FALSE
