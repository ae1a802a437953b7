------------------------------- MODULE Ledger -------------------------------
(* The lot-aware backtest ledger (strategy1/ledger.py): one account walked    *)
(* over the open days, and a second account that resumes from the state the   *)
(* first one wrote.  Money is counted in whole units, fees rounded down.      *)
EXTENDS Integers, Sequences, FiniteSets, FiniteSetsExt, SequencesExt

CONSTANTS SecCount,      \* securities, numbered in the order of their codes
          Days,          \* last execution day
          LotSize, MinBuyLot,
          InitialCapital,
          CommissionBps, MinCommission, SellTaxBps, SlippageBps,
          FloorCount,    \* position_floor_count
          AllSettings,   \* settings a run may have
          Quotes,        \* market days: functions from Secs to quote records
          Signals,       \* targets or candidates a signal date may carry
          Events         \* corporate events of an ex date, NoEvent included

VARIABLES day,       \* the last execution day that is complete
          settings,  \* LedgerParams of the continuous run
          close,     \* close_ffill of every security, 0 before its first
          signal,    \* what the signal date `day' published, or NoSignal
          acct,      \* the continuous run
          child      \* the run resumed from it, or NoRun

ledgerVars == <<day, settings, close, signal, acct, child>>

Secs == 1 .. SecCount
NoSignal == [rank |-> [s \in Secs |-> 0], weight |-> [s \in Secs |-> 0],
             risky |-> {}, off |-> FALSE]
NoEvent == [sec |-> 0, split |-> 0, div |-> 0, known |-> FALSE]
NoRun == [missed |-> FALSE]

Settings == [version : {"lot100", "topdown"}, corporate : BOOLEAN,
             guard : BOOLEAN, walk : 1 .. SecCount]
Targets == [rank : [Secs -> Nat], weight : [Secs -> Nat],
            risky : SUBSET Secs, off : BOOLEAN]

ASSUME LedgerAssumption ==
    /\ {SecCount, LotSize, MinBuyLot, FloorCount, InitialCapital, Days} \subseteq Nat \ {0}
    /\ {CommissionBps, MinCommission, SellTaxBps, SlippageBps} \subseteq Nat
    /\ AllSettings \subseteq Settings

\* What can be bought at the open is traded that day, and so has a close
\* (dwd_stock_eod_price).
ASSUME MarketAssumption ==
    /\ Quotes \subseteq [Secs -> [open : Nat, close : Nat, buy : BOOLEAN, sell : BOOLEAN]]
    /\ \A q \in Quotes, s \in Secs : q[s].buy => q[s].close > 0
    /\ Signals \subseteq Targets /\ NoSignal \in Signals /\ NoEvent \in Events
    /\ Events \ {NoEvent} \subseteq [sec : Secs, split : Nat, div : Nat, known : BOOLEAN]

-----------------------------------------------------------------------------
(* Prices and costs.                                                          *)
Bps(amount, rate) == (amount * rate) \div 10000
FloorToLot(shares) == (shares \div LotSize) * LotSize
MinBuyShares == LotSize * MinBuyLot

FirstFinite(a, b) == IF a > 0 THEN a ELSE b
ValuationPrice(prevClose, q, s) == FirstFinite(prevClose[s], q[s].open)
BuyPrice(q, s) == q[s].open + Bps(q[s].open, SlippageBps)
SellPrice(q, s) == q[s].open - Bps(q[s].open, SlippageBps)
Fee(turnover) == Max({Bps(turnover, CommissionBps), MinCommission})
SellProceeds(q, s, shares) ==
    LET turnover == shares * SellPrice(q, s)
    IN  turnover - Fee(turnover) - Bps(turnover, SellTaxBps)
CashRequired(q, s, shares) ==
    LET turnover == shares * BuyPrice(q, s) IN turnover + Fee(turnover)

\* f[1] + ... + f[SecCount]
Total(f) ==
    LET upTo[n \in 0 .. SecCount] == IF n = 0 THEN 0 ELSE upTo[n - 1] + f[n]
    IN  upTo[SecCount]

Held(a) == {s \in Secs : a.shares[s] > 0}
Ranked(sig) == {s \in Secs : sig.rank[s] > 0}
NavBefore(a, q) ==
    a.cash + Total([s \in Secs |-> a.shares[s] * ValuationPrice(close, q, s)])

-----------------------------------------------------------------------------
(* Corporate actions come before the open.                                    *)
RecordShares(a, e) ==
    IF e.known /\ day \in DOMAIN a.history
    THEN a.history[day][e.sec] ELSE a.shares[e.sec]

SplitDelta(a, p, e) ==
    IF ~p.corporate \/ e = NoEvent THEN 0 ELSE (RecordShares(a, e) * e.split) \div 2

Dividend(a, p, e) ==
    IF ~p.corporate \/ e = NoEvent THEN 0
    ELSE LET pretax == RecordShares(a, e) * e.div IN pretax - pretax \div 10

ApplyCorporateActions(a, p, e) ==
    IF e = NoEvent THEN a
    ELSE [a EXCEPT !.cash = @ + Dividend(a, p, e),
                   !.shares[e.sec] = Max({0, @ + SplitDelta(a, p, e)})]

-----------------------------------------------------------------------------
(* The day's plan: one row per security, Absent for one without a row.        *)
PlanRow(desired, sell, skip, pending) ==
    [row |-> TRUE, desired |-> desired, sell |-> sell, want |-> 0, planned |-> 0,
     skip |-> skip, pending |-> pending]
Absent == [row |-> FALSE, desired |-> 0, sell |-> 0, want |-> 0, planned |-> 0,
           skip |-> "none", pending |-> FALSE]

PartialSell(cur, gap, open) == FloorToLot(Min({cur, gap \div open}))

\* build_daily_plan: net the holding against weight * NAV, in tenths.
RowLot100(a, p, q, sig, reb, nav, s) ==
    LET cur      == a.shares[s]
        desired  == (sig.weight[s] * nav) \div 10
        gap      == cur * ValuationPrice(close, q, s) - desired
        tradable == q[s].open > 0
        intent   == cur > 0 /\ (reb \/ s \in a.pending) /\ gap > 0
        sellable == intent /\ q[s].sell /\ tradable
        part     == PartialSell(cur, gap, q[s].open)
        blocked  == p.guard /\ (sig.off \/ (s \in sig.risky /\ cur = 0))
        buys     == reb /\ q[s].buy /\ tradable /\ gap < 0 /\ ~blocked
    IN  [row     |-> TRUE,
         desired |-> desired,
         sell    |-> IF ~sellable THEN 0 ELSE IF desired = 0 THEN cur ELSE part,
         want    |-> IF buys THEN -gap ELSE 0,
         planned |-> 0,
         skip    |-> IF sellable /\ desired > 0 /\ part = 0 THEN "partial"
                     ELSE IF intent /\ ~sellable THEN "untradable" ELSE "none",
         pending |-> s \in a.pending]

PlanLot100(a, p, q, sig, reb) ==
    LET nav == NavBefore(a, q)
        universe == Held(a) \cup a.pending
                       \cup (IF reb THEN {s \in Secs : sig.weight[s] > 0} ELSE {})
    IN  [s \in Secs |-> IF s \in universe THEN RowLot100(a, p, q, sig, reb, nav, s)
                        ELSE Absent]

\* build_daily_plan_topdown: sell what left the walk, keep the rest, buy the
\* minimum position down the ranking while the estimated cash lasts.
Walk(p, sig) == {s \in Ranked(sig) : sig.rank[s] <= p.walk}

SellRow(q, s, cur, pending) ==
    IF q[s].sell /\ q[s].open > 0 THEN PlanRow(0, cur, "none", pending)
    ELSE PlanRow(0, 0, "untradable", pending)

MinShares(nav, q, s) ==
    LET notional == FloorCount * LotSize * q[s].open
    IN  Max({MinBuyLot, (nav + notional - 1) \div notional}) * LotSize

Buyable(a, p, q, sig) ==
    IF p.guard /\ sig.off THEN {}
    ELSE {s \in Walk(p, sig) \ Held(a) :
            ~(p.guard /\ s \in sig.risky) /\ q[s].buy /\ q[s].open > 0}

ByRank(sig, S) ==
    SetToSortSeq(S, LAMBDA s, t : \/ sig.rank[s] < sig.rank[t]
                                  \/ sig.rank[s] = sig.rank[t] /\ s < t)

\* Of the securities in order, those the cash is enough for.
Afforded(q, nav, avail, order) ==
    FoldLeft(LAMBDA acc, s :
               IF acc.stop THEN acc
               ELSE LET cost == CashRequired(q, s, MinShares(nav, q, s))
                        pays == cost <= acc.cash
                        left == IF pays THEN acc.cash - cost ELSE acc.cash
                    IN  [cash |-> left,
                         secs |-> IF pays THEN acc.secs \cup {s} ELSE acc.secs,
                         stop |-> left * FloorCount < nav],
             [cash |-> avail, secs |-> {}, stop |-> FALSE], order).secs

RetainedRow(a, q, s) ==
    PlanRow(a.shares[s] * ValuationPrice(close, q, s), 0, "none", FALSE)
BuyRow(q, s, n) ==
    [row |-> TRUE, desired |-> 0, sell |-> 0, want |-> n * q[s].open, planned |-> n,
     skip |-> "none", pending |-> FALSE]

AvailableCash(a, q, leaving) ==
    a.cash + Total([s \in Secs |-> IF s \in leaving /\ q[s].sell /\ q[s].open > 0
                                   THEN SellProceeds(q, s, a.shares[s]) ELSE 0])

PlanTopdown(a, p, q, sig) ==
    LET nav     == NavBefore(a, q)
        leaving == Held(a) \ Walk(p, sig)
        buyable == Buyable(a, p, q, sig)
        afford  == Afforded(q, nav, AvailableCash(a, q, leaving), ByRank(sig, buyable))
    IN  [s \in Secs |->
           IF s \in leaving THEN SellRow(q, s, a.shares[s], FALSE)
           ELSE IF s \in Held(a) THEN RetainedRow(a, q, s)
           ELSE IF s \in buyable /\ s \in afford THEN BuyRow(q, s, MinShares(nav, q, s))
           ELSE Absent]

PlanRetry(a, q) ==
    [s \in Secs |->
       IF s \notin Held(a) THEN Absent
       ELSE IF s \in a.pending THEN SellRow(q, s, a.shares[s], TRUE)
       ELSE PlanRow(0, 0, "none", FALSE)]

DailyPlan(a, p, q, sig, reb) ==
    IF p.version = "lot100" THEN PlanLot100(a, p, q, sig, reb)
    ELSE IF reb THEN PlanTopdown(a, p, q, sig) ELSE PlanRetry(a, q)

-----------------------------------------------------------------------------
(* Execution: sells first, then the buys the cash allows.                     *)
CashAfterSells(a, q, plan) ==
    a.cash + Total([s \in Secs |-> IF plan[s].sell > 0
                                   THEN SellProceeds(q, s, plan[s].sell) ELSE 0])

PlannedBuy(q, plan, s) ==
    IF plan[s].planned > 0 THEN plan[s].planned
    ELSE FloorToLot(plan[s].want \div q[s].open)

Provisional(q, plan) ==
    [s \in Secs |-> IF plan[s].want > 0 /\ PlannedBuy(q, plan, s) >= MinBuyShares
                    THEN PlannedBuy(q, plan, s) ELSE 0]

Required(q, orders, S) ==
    Total([s \in Secs |-> IF s \in S /\ orders[s] > 0
                          THEN CashRequired(q, s, orders[s]) ELSE 0])

\* Short of cash, ledger_exec_v1_lot100 scales every order and rounds again.
Scaled(p, q, plan, cash) ==
    LET orders == Provisional(q, plan)
        need   == Required(q, orders, Secs)
        Cut(s) == FloorToLot((plan[s].want * cash) \div (need * q[s].open))
    IN  IF p.version = "topdown" \/ need <= cash THEN orders
        ELSE [s \in Secs |-> IF orders[s] > 0 /\ Cut(s) >= MinBuyShares
                             THEN Cut(s) ELSE 0]

\* Still short, the worst-ranked orders go until the rest can be paid: what
\* remains is the longest affordable prefix of the ranking.
Unranked == 1000000
Priority(sig, s) == IF sig.rank[s] > 0 THEN sig.rank[s] ELSE Unranked
NotWorse(sig, s) ==
    {t \in Secs : \/ Priority(sig, t) < Priority(sig, s)
                  \/ Priority(sig, t) = Priority(sig, s) /\ t <= s}
ExecutableUndropped(p, q, sig, orders, cash) == orders
Executable(p, q, sig, orders, cash) ==
    [s \in Secs |-> IF Required(q, orders, NotWorse(sig, s)) <= cash
                    THEN orders[s] ELSE 0]

UpdateHoldings(a, plan, bought) ==
    [s \in Secs |-> IF plan[s].row THEN a.shares[s] - plan[s].sell + bought[s] ELSE 0]

PendingOnRebalanceOnly(a, q, plan, reb) ==
    {s \in Secs : /\ reb /\ plan[s].skip = "untradable"
                  /\ a.shares[s] > plan[s].sell}
UpdatePendingSell(a, q, plan, reb) ==
    {s \in Secs :
       LET left == a.shares[s] - plan[s].sell
       IN  /\ plan[s].row /\ plan[s].skip # "partial"
           /\ left > 0 /\ left * ValuationPrice(close, q, s) > plan[s].desired
           /\ plan[s].skip = "untradable" \/ plan[s].pending \/ reb}

\* The same function, written out as a table: TLC then computes it once.
Table(f) == SubSeq(f, 1, SecCount)

\* One execution day of one run.  A run knows the signals dated inside its own
\* window only (load_targets), and executes one on the next open day.
Rebalances(a, sig) == sig # NoSignal /\ day >= a.start

\* The account after a plan was executed: start is the one after the corporate
\* actions of the day, target the active one.
Closed(a, start, q, plan, reb, target, cash, bought, shares) ==
    [start   |-> a.start,
     cash    |-> cash - Required(q, bought, Secs),
     shares  |-> shares,
     pending |-> UpdatePendingSell(start, q, plan, reb),
     target  |-> target,
     history |-> [d \in {day + 1} |-> shares]]

Filled(p, q, target, plan, cash) ==
    Table(Executable(p, q, target, Table(Scaled(p, q, plan, cash)), cash))

Executed(a, p, q, start, target, reb, plan) ==
    LET cash   == CashAfterSells(start, q, plan)
        bought == Filled(p, q, target, plan, cash)
    IN  Closed(a, start, q, plan, reb, target, cash, bought,
               Table(UpdateHoldings(start, plan, bought)))

Walked(a, p, q, e, sig) ==
    LET reb    == Rebalances(a, sig)
        start  == ApplyCorporateActions(a, p, e)
        target == IF reb THEN sig ELSE a.target
    IN  Executed(a, p, q, start, target, reb,
                 Table(DailyPlan(start, p, q, target, reb)))

Fresh(start) ==
    [start |-> start, cash |-> InitialCapital, shares |-> [s \in Secs |-> 0],
     pending |-> {}, target |-> NoSignal, history |-> << >>]

-----------------------------------------------------------------------------
LedgerInit ==
    /\ day = 0
    /\ settings \in AllSettings
    /\ close = [s \in Secs |-> 0]
    /\ signal = NoSignal
    /\ acct = Fresh(1)
    /\ child = NoRun

\* The loop body of run_ledger, for the continuous run and for the child on the
\* same market; then the day's close is known and the day may publish a signal.
TradeDay(q, e, next) ==
    /\ day < Days
    /\ day + 1 = Days => next = NoSignal  \* bound: it would be executed later
    /\ acct' = Walked(acct, settings, q, e, signal)
    /\ child' = IF child = NoRun THEN NoRun
                ELSE [child EXCEPT !.acct =
                        Walked(child.acct, child.settings, q, e, signal)]
    /\ close' = [s \in Secs |-> FirstFinite(q[s].close, close[s])]
    /\ signal' = next
    /\ day' = day + 1
    /\ UNCHANGED settings

\* load_resume_snapshot: the child starts on the next open day, from what the
\* state row, the position rows and the summary of the parent carry.
SnapshotTarget(sig) == [sig EXCEPT !.risky = {}, !.off = FALSE]
Snapshot(a) ==
    [a EXCEPT !.start = day + 1, !.target = SnapshotTarget(a.target)]

\* ledger_params_hash, ledger_version and the summary's corporate actions: the
\* settings that must agree.  The walk is hashed for the topdown ledger only.
ParamsHashNoWalk(p) == <<p.version, p.guard>>
ParamsHash(p) == <<p.version, p.guard, IF p.version = "topdown" THEN p.walk ELSE 0>>
SameParams(parent, p) ==
    ParamsHash(parent) = ParamsHash(p) /\ parent.corporate = p.corporate

Resume(p) ==
    /\ child = NoRun
    /\ day \in 1 .. Days - 1
    /\ SameParams(settings, p)
    /\ child' = [missed |-> signal # NoSignal, settings |-> p, acct |-> Snapshot(acct)]
    /\ UNCHANGED <<day, settings, close, signal, acct>>

WalkedOut == day = Days /\ UNCHANGED ledgerVars

LedgerNext ==
    \/ \E q \in Quotes, e \in Events, next \in Signals : TradeDay(q, e, next)
    \/ \E p \in AllSettings : Resume(p)
    \/ WalkedOut

LedgerSpec == LedgerInit /\ [][LedgerNext]_ledgerVars

-----------------------------------------------------------------------------
Accounts == {acct} \cup (IF child = NoRun THEN {} ELSE {child.acct})

\* However orders are scaled and rounded, the buys of a day never cost more than
\* the cash after its sells (drop_buys_until_cash_nonnegative; the code raises
\* below -1).
CashNeverNegative == \A a \in Accounts : a.cash >= 0

\* What is still held although the active target does not want it is pending,
\* and so is tried again on every open day (update_pending_sell), in the child
\* as in the parent.
Wanted(p, a, s) == IF p.version = "topdown" THEN s \in Walk(p, a.target)
                   ELSE a.target.weight[s] > 0
Retried(p, a) == \A s \in Held(a) : Wanted(p, a, s) \/ s \in a.pending
LeftoverIsRetried ==
    Retried(settings, acct) /\ (child # NoRun => Retried(child.settings, child.acct))

\* A run resumed from a day that is no signal date has, day by day, the cash,
\* the holdings, the pending sells and the targets of the uninterrupted run, for
\* every setting the resume checks let through.
SameState(a, b) ==
    /\ a.cash = b.cash /\ a.shares = b.shares /\ a.pending = b.pending
    /\ SnapshotTarget(a.target) = SnapshotTarget(b.target)
ResumeExact ==
    child # NoRun /\ ~child.missed => SameState(child.acct, acct)

-----------------------------------------------------------------------------
(* What makes the last two inductive.                                         *)

\* An account at the end of a day, of which only holdings that have a price.
AccountOK(a) ==
    /\ a \in [start : Nat, cash : Int, shares : [Secs -> Nat], pending : SUBSET Secs,
              target : Targets, history : {<<>>, [d \in {day} |-> a.shares]}]
    /\ \A s \in Held(a) : close[s] > 0

LedgerTypeOK ==
    /\ day \in Nat /\ settings \in Settings /\ signal \in Targets
    /\ close \in [Secs -> Nat] /\ AccountOK(acct)
    /\ child # NoRun =>
         /\ child \in [missed : BOOLEAN, settings : Settings, acct : {child.acct}]
         /\ AccountOK(child.acct)

\* The resumed run and the run it continues see the same days.
InStep ==
    /\ acct.start = 1 /\ (signal # NoSignal => day >= 1)
    /\ child # NoRun => SameParams(settings, child.settings) /\ child.acct.start <= day + 1
    /\ child # NoRun /\ ~child.missed =>
         /\ SameState(child.acct, acct) /\ child.acct.history = acct.history
         /\ signal # NoSignal => child.acct.start <= day

\* A sale brings at least what it costs.  With the minimum commission this is a
\* matter of prices: a sale of a few cheap shares can cost more than it brings.
SalesPay ==
    \A q \in Quotes, s \in Secs, n \in Nat \ {0} :
       q[s].open > 0 => SellProceeds(q, s, n) >= 0

LedgerInv == LedgerTypeOK /\ LeftoverIsRetried /\ InStep
=============================================================================
