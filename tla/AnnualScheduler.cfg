CONSTANTS
  s1 = s1
  s2 = s2
  u1 = u1
  u2 = u2
  NoOne = NoOne
  Scheduler <- TwoSchedulers
  Unit <- TwoUnits
  Units <- Selected
  Fanout = 1
  MaxPolls = 1
  Years = {2021, 2022}
  Grid = 3
  Tokens <- MCTokens
  LimitChoices <- MCLimits
  MinBatches = {1, 2, 3}
SPECIFICATION MainSpec
INVARIANTS WithinLimits EndsWell RecordsAreTrue
PROPERTIES RecordedIsNotResubmitted EveryRunEnds
CHECK_DEADLOCK FALSE
