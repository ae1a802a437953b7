SPECIFICATION Spec
CONSTANTS
  DaysPerYear = 4
  StartYear = 7
  EndYear = 8
  Floor = 14
  DataEnd = 32
  Arms <- MCArms
  AsOfDates = {30, 32}
  Candidates = {"c1"}
  MaxPlans = 3
INVARIANTS NoLookAhead EveryDayOnce ArmsKeepApart
CHECK_DEADLOCK FALSE
