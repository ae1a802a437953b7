CONSTANTS
  SecCount = 2
  Days = 4
  LotSize = 2
  MinBuyLot = 1
  InitialCapital = 1000
  CommissionBps = 100
  MinCommission = 2
  SellTaxBps = 500
  SlippageBps = 100
  FloorCount = 2
  AllSettings <- MCSettings
  Quotes <- MCQuotes
  Signals <- MCSignals
  Events <- MCEvents
  TailRiskArms <- MCArms
  MarketArm = "A2"
  Requests <- MCRequests
  ByHand <- MCByHand
  MaxLeft = 1
  Budgets <- MCBudgets
SPECIFICATION MCSpec
INVARIANTS CashNeverNegative  ResumeExact
    ComparesItsOwn NothingRunsOn AnalysedIsCurrent
CHECK_DEADLOCK FALSE
