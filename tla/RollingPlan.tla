------------------------------ MODULE RollingPlan ------------------------------
(***************************************************************************)
(* The annual rolling plan and what its commands do with the windows it    *)
(* gives them.  For each backtest year a candidate is chosen on older      *)
(* years, fitted again on the latest five and predicts the year.  Plans    *)
(* ("arms") differ in label horizon, refit window and run suffix; they are *)
(* emitted again with a later as-of date, and their commands run in any    *)
(* order between years and arms.                                           *)
(*                                                                         *)
(* Days are trading days, numbered on; a sample row is <<day, tradable>>:  *)
(* whether the stock could be bought at the open of the next day.  How     *)
(* tasks and selection come about is CandidateSearch's, when the commands  *)
(* run AnnualWaves's, that a step is cut short Promotion's subject.        *)
(***************************************************************************)
EXTENDS Integers, FiniteSets, FiniteSetsExt, Sequences

CONSTANTS
  DaysPerYear,
  StartYear, EndYear,   \* --start-year, --end-year; years are numbered from 1 (2015)
  Floor,                \* FINAL_REFIT_MIN_TRAINING_DAY, before which samples have gaps
  DataEnd,              \* the last day the warehouse has samples of
  Arms,                 \* [horizon, suffix, trueFive, refitOnly, yearly]
  AsOfDates,            \* --as-of-date of a plan
  Candidates,
  MaxPlans              \* bound: plans emitted and years run again, of all arms

\* The tables know horizons of 5, 10 and 20 days of the 240 of a year; an empty
\* suffix, "none", is taken for the default one.
ASSUME PlanAssumption ==
  /\ DaysPerYear \in Nat \ {0} /\ StartYear \in Nat /\ StartYear > 6
  /\ EndYear \in Nat /\ EndYear >= StartYear
  /\ Floor \in Nat /\ Floor > 1 /\ DataEnd \in Nat /\ AsOfDates \subseteq Nat \ {0}
  /\ \A a \in Arms :
       /\ a.horizon \in Nat \ {0} /\ 2 * a.horizon <= DaysPerYear
       /\ a.suffix # "none" /\ {a.trueFive, a.refitOnly, a.yearly} \subseteq BOOLEAN

VARIABLES
  plan,       \* per arm: as-of date of the plan in force, 0 before the first
  emitted,    \* number of plans and of years run again
  pc,         \* per arm and year: number of commands that have succeeded
  history,    \* the first day that has samples without gaps
  panel,      \* per run id: the experiment its panel was built from, or {}
  matrix,     \* per run id: rows of the frozen matrix by split, or {}
  results,    \* per run id: what its candidates were trained on, or {}
  registry,   \* per run id: selected models
  predicted   \* per run id: <<day, model>>

vars == <<plan, emitted, pc, history, panel, matrix, results, registry, predicted>>
tables == <<history, panel, matrix, results, registry, predicted>>

Years == StartYear..EndYear

-----------------------------------------------------------------------------
(* The calendar tables *)

Year(d) == ((d - 1) \div DaysPerYear) + 1

\* FIRST_TRADING_DAY_BY_YEAR: 2015 starts in April.
First(y) == IF y = 1 THEN 2 ELSE (y - 1) * DaysPerYear + 1
Last(y) == y * DaysPerYear

\* Mutant: the label of the last day of training is known one day late.
LabelSafeEndLate(y, h) == Last(y) - h + 1

\* LABEL_SAFE_YEAR_END_BY_HORIZON: the label of day d needs the close of d + h.
LabelSafeEnd(y, h) == Last(y) - h

\* Mutant: the last days of the predicted year are cut off as those of training.
BoundedYearEndSafe(y, asOf) == IF y = Year(asOf) THEN asOf ELSE LabelSafeEnd(y, 1)

BoundedYearEnd(y, asOf) == IF y = Year(asOf) THEN asOf ELSE Last(y)

-----------------------------------------------------------------------------
(* The plan *)

\* parse_args
ArmAllowed(a) ==
  /\ a.trueFive => a.suffix # "__refit01"
  /\ ~(a.refitOnly /\ a.yearly)

\* run_id of build_year_experiment: the horizon is part of it, the as-of date and
\* the refit window are not.
RunId(a, y) == <<y, a.horizon, "none">>

\* Mutant: the suffix is left out, as it is in the id of the backtest.
RefitRunIdPlain(a, y) == <<y, a.horizon, "__refit01">>

\* final_refit_run_id
RefitRunId(a, y) == <<y, a.horizon, a.suffix>>
RunIds == {RunId(a, y) : a \in Arms, y \in Years} \cup {RefitRunId(a, y) : a \in Arms, y \in Years}

\* final_refit_first_training_day
RefitStart(a, y) == IF a.trueFive THEN First(y - 5) ELSE Max({First(y - 5), Floor})

\* build_year_experiment
Selection(a, y, asOf) ==
  [train |-> First(y - 6)..LabelSafeEnd(y - 2, a.horizon),
   valid |-> First(y - 1)..LabelSafeEnd(y - 1, a.horizon),
   test |-> First(y)..BoundedYearEnd(y, asOf),
   horizon |-> a.horizon]

\* final_refit_experiment: the window of the refit is its train and valid split.
Refit(a, y, asOf) ==
  LET window == RefitStart(a, y)..LabelSafeEnd(y - 1, a.horizon)
  IN [Selection(a, y, asOf) EXCEPT !.train = window, !.valid = window]

\* command_plan
Commands(a) ==
  (IF a.refitOnly THEN <<>> ELSE <<"panel", "matrix", "fanout", "select">>)
    \o <<"refit_panel", "refit">> \o (IF a.yearly THEN <<"backtest">> ELSE <<>>)

Emit(a, asOf) ==
  /\ ArmAllowed(a) /\ emitted < MaxPlans /\ asOf > plan[a]
  /\ Year(asOf) >= EndYear              \* bounded_year_end raises
  /\ plan' = [plan EXCEPT ![a] = asOf]
  /\ emitted' = emitted + 1
  /\ pc' = [pc EXCEPT ![a] = [y \in Years |-> 0]]
  /\ UNCHANGED tables

-----------------------------------------------------------------------------
(* The training panel *)

Labelled(d, h) == d + h <= DataEnd

\* Splits of the panel SQL, first match first.
Tag(exp, d) ==
  IF d \in exp.train THEN "train"
  ELSE IF d \in exp.valid THEN "valid"
  ELSE IF d \in exp.test THEN "test" ELSE "live"

\* The rows of build_training_panel: training days of trainable stocks, and every
\* stock from the first valid day on.
Rows(exp) ==
  {r \in (Min(exp.train)..Max(exp.test \cup exp.valid)) \X BOOLEAN :
     /\ r[1] \in history..DataEnd
     /\ \/ r[1] \in exp.train /\ r[2] /\ Labelled(r[1], exp.horizon)
        \/ r[1] >= Min(exp.valid)}

Command(a, y, c) ==
  /\ plan[a] # 0 /\ pc[a][y] < Len(Commands(a))
  /\ Commands(a)[pc[a][y] + 1] = c
  /\ pc' = [pc EXCEPT ![a][y] = @ + 1]
  /\ UNCHANGED <<plan, emitted, history>>

\* training_panel_step, with --force-replace.
BuildPanel(a, y) ==
  /\ Command(a, y, "panel")
  /\ panel' = [panel EXCEPT ![RunId(a, y)] = {Selection(a, y, plan[a])}]
  /\ UNCHANGED <<matrix, results, registry, predicted>>

BuildRefitPanel(a, y) ==
  /\ Command(a, y, "refit_panel")
  /\ panel' = [panel EXCEPT ![RefitRunId(a, y)] = {Refit(a, y, plan[a])}]
  /\ UNCHANGED <<matrix, results, registry, predicted>>

-----------------------------------------------------------------------------
(* The matrix and the candidate tasks *)

Of(exp, tags) == {r \in Rows(exp) : Tag(exp, r[1]) \in tags}
Splits(exp) ==
  [train |-> {r \in Of(exp, {"train"}) : Labelled(r[1], exp.horizon)},
   valid |-> Of(exp, {"valid"}), cv |-> Of(exp, {"train", "valid"}),
   predict |-> Of(exp, {"valid", "test"}), horizon |-> exp.horizon]

\* prepare_matrix; an empty split raises.
PrepareMatrix(a, y) ==
  /\ Command(a, y, "matrix")
  /\ \E exp \in panel[RunId(a, y)] :
       /\ Splits(exp).train # {} /\ Splits(exp).valid # {} /\ Splits(exp).predict # {}
       /\ matrix' = [matrix EXCEPT ![RunId(a, y)] = {Splits(exp)}]
  /\ UNCHANGED <<panel, results, registry, predicted>>

Days(rows) == {r[1] : r \in rows}

\* embargo_end_date: h days of the panel are left out before the evaluation.
Embargo(dates, start, h) ==
  LET prior == {d \in dates : d < start}
      skip == Max({0, Cardinality(prior) - h})
      index == IF skip > 0 THEN skip - 1 ELSE 0
  IN CHOOSE d \in prior : Cardinality({e \in prior : e < d}) = index

\* dynamic_cv_folds, called with a panel that has lost its split_tag: the last three
\* of its years that have two years before them.
EvalYears(rows) ==
  LET ys == {Year(d) : d \in Days(rows)}
  IN {y \in ys : /\ Cardinality({z \in ys : z < y}) >= 2
                 /\ Cardinality({z \in ys : z > y}) < 3}

\* evaluate_cv_folds: days trained on and days judged on, of the folds with both.
Folds(mx) ==
  LET eval(y) == {d \in Days(mx.cv) : Year(d) = y}
      fit(y) == {d \in Days(mx.cv) :
                   /\ Labelled(d, mx.horizon) /\ Year(d) < y
                   /\ d <= Embargo(Days(mx.cv), Min(eval(y)), mx.horizon)}
  IN {f \in {[fit |-> fit(y), eval |-> eval(y)] : y \in EvalYears(mx.cv)} : f.fit # {}}

\* train_candidate_unit, of all candidates.
TrainCandidates(a, y) ==
  /\ Command(a, y, "fanout")
  /\ \E mx \in matrix[RunId(a, y)] :
       results' = [results EXCEPT ![RunId(a, y)] =
                     {[trained |-> Days(mx.train), valid |-> Days(mx.valid), folds |-> Folds(mx),
                       horizon |-> mx.horizon]}]
  /\ UNCHANGED <<panel, matrix, registry, predicted>>

\* select_register_predict, with --force-replace.
Select(a, y) ==
  /\ Command(a, y, "select")
  /\ \E res \in results[RunId(a, y)], mx \in matrix[RunId(a, y)], c \in Candidates :
       LET m == [candidate |-> c, trained |-> res.trained, horizon |-> res.horizon,
                 chosenOn |-> res.valid \cup UNION {f.eval : f \in res.folds},
                 folds |-> res.folds]
       IN /\ registry' = [registry EXCEPT ![RunId(a, y)] = {m}]
          /\ predicted' = [predicted EXCEPT ![RunId(a, y)] = Days(mx.predict) \X {m}]
  /\ UNCHANGED <<panel, matrix, results>>

-----------------------------------------------------------------------------
(* The final refit *)

\* The checks of run_refit_register_predict: the panel has every open day of both
\* windows, with labels in the first.
PanelCovers(exp) ==
  /\ exp.train \subseteq {d \in Days(Rows(exp)) : Labelled(d, exp.horizon)}
  /\ exp.test # {} /\ exp.test \subseteq Days(Rows(exp))

\* load_source_selected_candidate and run_refit_register_predict, with
\* --force-replace: predictions in the window of the plan are replaced.
RefitRegisterPredict(a, y) ==
  LET run == RefitRunId(a, y) IN
  /\ Command(a, y, "refit")
  /\ \E source \in registry[RunId(a, y)], exp \in panel[run] :
       LET m == [source EXCEPT !.trained = exp.train]
       IN /\ PanelCovers(exp)
          /\ registry' = [registry EXCEPT ![run] = {m}]
          /\ predicted' = [predicted EXCEPT ![run] =
                             {p \in @ : p[1] \notin exp.test} \cup (exp.test \X {m})]
  /\ UNCHANGED <<panel, matrix, results>>

\* The diagnostic backtest of the year reads the predictions of the refit.
Backtest(a, y) ==
  /\ Command(a, y, "backtest")
  /\ UNCHANGED <<panel, matrix, results, registry, predicted>>

\* The commands of a year are run once more from the start.
RunAgain(a, y) ==
  /\ pc[a][y] = Len(Commands(a)) /\ emitted < MaxPlans
  /\ emitted' = emitted + 1
  /\ pc' = [pc EXCEPT ![a][y] = 0]
  /\ UNCHANGED <<plan, tables>>

\* The samples before Floor are repaired.
Backfill ==
  /\ history > First(1) /\ history' = First(1)
  /\ UNCHANGED <<plan, emitted, pc, panel, matrix, results, registry, predicted>>

Init ==
  /\ plan = [a \in Arms |-> 0] /\ emitted = 0
  /\ pc = [a \in Arms |-> [y \in Years |-> 0]]
  /\ history = Floor
  /\ panel = [r \in RunIds |-> {}] /\ matrix = panel /\ results = panel
  /\ registry = panel /\ predicted = panel

Next ==
  \/ \E a \in Arms, d \in AsOfDates : Emit(a, d)
  \/ \E a \in Arms, y \in Years : BuildPanel(a, y)
  \/ \E a \in Arms, y \in Years : BuildRefitPanel(a, y)
  \/ \E a \in Arms, y \in Years : PrepareMatrix(a, y)
  \/ \E a \in Arms, y \in Years : TrainCandidates(a, y)
  \/ \E a \in Arms, y \in Years : Select(a, y)
  \/ \E a \in Arms, y \in Years : RefitRegisterPredict(a, y)
  \/ \E a \in Arms, y \in Years : Backtest(a, y)
  \/ \E a \in Arms, y \in Years : RunAgain(a, y)
  \/ Backfill

Spec == Init /\ [][Next]_vars

-----------------------------------------------------------------------------
(* Properties *)

\* Nothing a prediction rests on was known only on its day or later: neither the
\* labels its model was trained on, nor, for the year's final predictions, those its
\* candidate was chosen by; and no fold trains on labels of its evaluation.
NoLookAhead ==
  \A run \in RunIds : \A p \in predicted[run] :
    LET m == p[2] IN
    /\ \A d \in m.trained : d + m.horizon < p[1]
    /\ run[3] # "none" => \A d \in m.chosenOn : d + m.horizon < p[1]
    /\ \A f \in m.folds : \A d \in f.fit, e \in f.eval : d + m.horizon < e

\* Arms whose refits have the same run id; parse_args only refuses the default
\* suffix for the true five years.
Rivals(a) == {b \in Arms \ {a} : b.horizon = a.horizon /\ b.suffix = a.suffix}

Refitted(a, y) == plan[a] # 0 /\ pc[a][y] >= Len(Commands(a)) - (IF a.yearly THEN 1 ELSE 0)

\* When the commands of all years have run, the prediction runs the plan lists for
\* the continuous backtest have every day up to the as-of date, each in one run, once,
\* by the model that is registered for the run, if no other arm has its run ids.
EveryDayOnce ==
  \A a \in Arms : Rivals(a) = {} /\ (\A y \in Years : Refitted(a, y)) =>
    \A d \in First(StartYear)..BoundedYearEnd(EndYear, plan[a]) :
      LET found == {f \in Years \X UNION {predicted[RefitRunId(a, y)] : y \in Years} :
                      f[2] \in predicted[RefitRunId(a, f[1])] /\ f[2][1] = d}
      IN /\ Cardinality(found) = 1
         /\ \A f \in found : f[2][2] \in registry[RefitRunId(a, f[1])]

\* An arm's refit stays what the arm asked for, whatever other arms are run between:
\* the model of a refit that has run was fitted on the arm's own window, as long as
\* arms of another window have another suffix.
ArmsKeepApart ==
  \A a \in Arms, y \in Years :
    Refitted(a, y) /\ (\A b \in Rivals(a) : b.trueFive = a.trueFive) =>
    \A m \in registry[RefitRunId(a, y)] : m.trained = Refit(a, y, plan[a]).train

\* test_dynamic_cv_folds.py: "test_dynamic_cv_folds_use_train_years_and_exclude_valid_year".
FoldsExcludeValidYear ==
  \A run \in RunIds : \A res \in results[run] : \A f \in res.folds : f.eval \cap res.valid = {}

-----------------------------------------------------------------------------
(* The inductive invariant of these properties.                            *)

DaySets == SUBSET Int
Experiments == [train : DaySets, valid : DaySets, test : DaySets, horizon : Nat]
RowSets == SUBSET (Int \X BOOLEAN)
Matrices == [train : RowSets, valid : RowSets, cv : RowSets, predict : RowSets, horizon : Nat]
FoldSets == SUBSET [fit : DaySets, eval : DaySets]
Outcomes == [trained : DaySets, valid : DaySets, folds : FoldSets, horizon : Nat]
Models == [candidate : Candidates, trained : DaySets, horizon : Nat, chosenOn : DaySets,
           folds : FoldSets]

TypeOK ==
  /\ plan \in [Arms -> AsOfDates \cup {0}]
  /\ pc \in [Arms -> [Years -> Nat]]
  /\ history \in {Floor, First(1)}
  /\ panel \in [RunIds -> SUBSET Experiments]
  /\ matrix \in [RunIds -> SUBSET Matrices]
  /\ results \in [RunIds -> SUBSET Outcomes]
  /\ registry \in [RunIds -> SUBSET Models]
  /\ predicted \in [RunIds -> SUBSET (Int \X Models)]

PlansAreDue == \A a \in Arms : plan[a] # 0 => Year(plan[a]) >= EndYear

\* A panel is that of a selection or of a refit, of some arm with its run id.
PanelsAreTrue ==
  \A run \in RunIds : \A exp \in panel[run] :
    \E a \in Arms, y \in Years, asOf \in AsOfDates :
      /\ Year(asOf) >= EndYear
      /\ \/ run = RunId(a, y) /\ exp = Selection(a, y, asOf)
         \/ run = RefitRunId(a, y) /\ exp = Refit(a, y, asOf)

\* The labels of the days are known by the end of a day.
KnownBy(days, h, end) == \A d \in days : d + h <= end

\* The days of a matrix of a year, built when samples began at lo: without a hole
\* but for those whose label reaches into the valid year.
CvDays(lo, y, h) ==
  {d \in lo..DataEnd : \/ d <= LabelSafeEnd(y - 2, h) /\ Labelled(d, h)
                       \/ d \in First(y - 1)..LabelSafeEnd(y - 1, h)}

MatricesAreTrue ==
  \A run \in RunIds : \A mx \in matrix[run] :
    /\ mx.horizon = run[2]
    /\ KnownBy(Days(mx.train), run[2], Last(run[1] - 2))
    /\ KnownBy(Days(mx.valid), run[2], Last(run[1] - 1))
    /\ \A d \in Days(mx.predict) : d >= First(run[1] - 1)
    /\ \E lo \in {Floor, First(1), First(run[1] - 6)} : Days(mx.cv) = CvDays(lo, run[1], run[2])

FoldsApart(folds, h) == \A f \in folds : \A d \in f.fit, e \in f.eval : d + h < e

ResultsAreTrue ==
  \A run \in RunIds : \A res \in results[run] :
    /\ res.horizon = run[2]
    /\ KnownBy(res.trained, run[2], Last(run[1] - 2))
    /\ KnownBy(res.valid, run[2], Last(run[1] - 1))
    /\ FoldsApart(res.folds, run[2])
    /\ \A f \in res.folds : KnownBy(f.eval, run[2], Last(run[1] - 1))

ModelsAreTrue ==
  \A run \in RunIds : \A m \in registry[run] :
    /\ m.horizon = run[2]
    /\ KnownBy(m.chosenOn, run[2], Last(run[1] - 1))
    /\ FoldsApart(m.folds, run[2])

\* The models of a refit were fitted on its window.
OwnWindow ==
  \A a \in Arms, y \in Years : (\A b \in Rivals(a) : b.trueFive = a.trueFive) =>
    \A m \in registry[RefitRunId(a, y)] : m.trained = RefitStart(a, y)..LabelSafeEnd(y - 1, a.horizon)

\* Commands before the one that builds the panel of the refit.
Before(a) == IF a.refitOnly THEN 0 ELSE 4

\* How far the predictions of an arm's year have come.
OwnDays ==
  \A a \in Arms, y \in Years : Rivals(a) = {} =>
    LET run == RefitRunId(a, y)
        days == First(y)..BoundedYearEnd(y, plan[a])
    IN /\ \A p \in predicted[run] : plan[a] # 0 /\ p[1] \in days
       /\ pc[a][y] > Before(a) => panel[run] = {Refit(a, y, plan[a])}
       /\ pc[a][y] > Before(a) + 1 =>
            \E m \in registry[run] : registry[run] = {m} /\ predicted[run] = days \X {m}

IInv == /\ TypeOK /\ PlansAreDue /\ PanelsAreTrue /\ MatricesAreTrue /\ ResultsAreTrue
        /\ ModelsAreTrue /\ NoLookAhead /\ OwnWindow /\ OwnDays
=============================================================================
