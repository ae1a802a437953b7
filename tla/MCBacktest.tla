------------------------------ MODULE MCBacktest ------------------------------
(* A backtest inside and out: the ledger over four days with two securities,  *)
(* money in cents and lots of two shares (Ledger), or the jobs that compute   *)
(* whole backtests and the overlay program that starts two of them            *)
(* (BacktestReport).  The program that is not run stays where it began.       *)
EXTENDS Ledger, BacktestReport

MCSettings ==
    {p \in Settings : p.corporate /\ (p.guard <=> p.version = "lot100")}

Quote(o, c, b, s) == [open |-> o, close |-> c, buy |-> b, sell |-> s]
Halted == Quote(0, 0, FALSE, FALSE)
MCQuotes ==
    LET first  == {Quote(100, 100, TRUE, TRUE), Halted}
        second == {Quote(100, 100, TRUE, TRUE), Quote(480, 480, TRUE, FALSE)}
    IN  {(1 :> a) @@ (2 :> b) : a \in first, b \in second}

Signal(r1, r2, w1, w2, risky, off) ==
    [rank |-> <<r1, r2>>, weight |-> <<w1, w2>>, risky |-> risky, off |-> off]
MCSignals == {NoSignal,
              Signal(1, 2, 5, 5, {}, FALSE),
              Signal(0, 1, 0, 10, {}, FALSE),
              Signal(2, 1, 3, 7, {2}, FALSE),
              Signal(1, 0, 10, 0, {}, TRUE)}
MCEvents == {NoEvent, [sec |-> 2, split |-> 1, div |-> 10, known |-> TRUE]}

\* SalesPay, for every holding these days can lead to.
ASSUME SalesHypothesis ==
    \A q \in MCQuotes, s \in Secs, n \in 1 .. 200 :
       q[s].open > 0 => SellProceeds(q, s, n) >= 0

Request(parallel, wait, force) == [parallel |-> parallel, wait |-> wait, force |-> force]
MCRequests == {Request(TRUE, TRUE, TRUE), Request(FALSE, TRUE, FALSE),
               Request(FALSE, FALSE, TRUE)}
Budget(overlay, byHand, failures, rewrites) ==
    [overlay |-> overlay, byHand |-> byHand, failures |-> failures, rewrites |-> rewrites]
Unspent == Budget(0, 2, 1, 1)

MCArms == <<"A2", "A3">>
MCByHand == BOOLEAN
MCBudgets == {Budget(2, 0, 1, 0), Budget(1, 1, 0, 1), Unspent}

VARIABLE program

MCInit ==
  /\ LedgerInit /\ ReportInit
  /\ \/ program = "ledger" /\ budget = Unspent
     \/ program = "report" /\ settings.version = "lot100" /\ settings.walk = 1
MCNext ==
  /\ UNCHANGED program
  /\ \/ program = "ledger" /\ LedgerNext /\ UNCHANGED reportVars
     \/ program = "report" /\ ReportNext /\ UNCHANGED ledgerVars

MCSpec == MCInit /\ [][MCNext]_<<program, ledgerVars, reportVars>>
=============================================================================
