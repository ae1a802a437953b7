-------------------------- MODULE MCAnnualScheduler --------------------------
(* main() of annual_pipeline_scheduler.py with either of its two modes: the *)
(* planner of the dry run (AnnualWaves) or the live smoke with a restart    *)
(* over the same state object (AnnualLive).                                 *)
EXTENDS AnnualLive, AnnualWaves, TLC

CONSTANTS s1, s2, u1, u2

TwoSchedulers == {s1, s2}
TwoUnits == {u1, u2}
Selected == s1 :> <<u1, u2>> @@ s2 :> <<u2, u1>>

\* The tokens are the code's divided by 2 vCPU and 8 GiB.
MCTokens ==
  [s \in {"panel", "refit_panel", "continuous_ledger"} |->
     [cpu |-> IF s = "continuous_ledger" THEN 2 ELSE 0,
      mem |-> IF s = "continuous_ledger" THEN 2 ELSE 0, slots |-> 0]]
    @@ [s \in {"matrix", "refit"} |-> [cpu |-> 4, mem |-> 4, slots |-> 0]]
    @@ [s \in {"select", "diagnostic_backtest"} |-> [cpu |-> 2, mem |-> 2, slots |-> 0]]
    @@ [s \in {"candidate"} |-> [cpu |-> 1, mem |-> 1, slots |-> 1]]

MCLimits ==
  {[cpu |-> c, mem |-> m, slots |-> s, fanout |-> f,
    panel |-> p, prepare |-> p, select |-> j, backtest |-> 1] :
     c \in {2, 4, 6}, m \in {3, 5, 8}, s \in {1, 2, 4}, f \in 0..2, p \in 1..2, j \in 0..2}

VARIABLE mode

\* The planner stays where it began while the smoke runs, and the other way round.
MainInit ==
  /\ Init /\ PlanningInit
  /\ \/ mode = "dry run" /\ matrix = {}
     \/ /\ mode = "live" /\ minBatch = 1 /\ ~tailFill /\ ~backtests
        /\ limits = CHOOSE l \in LimitChoices : TRUE

MainNext ==
  /\ UNCHANGED mode
  /\ \/ mode = "dry run" /\ PlanningNext /\ UNCHANGED vars
     \/ mode = "live" /\ Next /\ UNCHANGED planning

mainVars == <<mode, vars, planning>>

\* A scheduler that runs goes on; nothing is assumed of executions.
MainSpec ==
  MainInit /\ [][MainNext]_mainVars
    /\ \A s \in Scheduler :
         WF_mainVars(mode = "live" /\ Run(s) /\ UNCHANGED <<mode, planning>>)
=============================================================================
