---------------------------- MODULE AcceptanceGate ----------------------------
(***************************************************************************)
(* How one backtest of a search is judged.  apply_native_acceptance_to_ads *)
(* reads the candidate's rows, judges them by the contract (v1: a ladder   *)
(* of checks on stored metrics; v3: signal checks, and the NAV against the *)
(* comparison indexes) and writes the verdict, with the numbers it is      *)
(* based on, back to the registry.  A search that is resumed judges again; *)
(* replay_acceptance_gate_v3 judges by what the registry has stored.       *)
(*                                                                         *)
(* A value that may be missing is a set of at most one element.  A metric  *)
(* is its position to its threshold: -1 below, 0 at it, 1 above.  A ratio  *)
(* is a pair with a denominator >= 0; <<1, 0>> is float("inf").            *)
(***************************************************************************)
EXTENDS Integers, FiniteSets, Sequences, FiniteSetsExt

CONSTANTS
  Cases,         \* what is judged: sets of inputs (contract, NAV, index closes,
                 \* volatility, number of backtests), each with its registry rows
  Benchmarks,    \* comparison_benchmarks
  Window,        \* the days of the contract's default replay window
  AnnualFactor   \* 252 in the code: periods a return is compounded to

VARIABLES
  case,      \* the contract and the inputs that judging does not write
  row,       \* the registry row, the summary row and the freshly read metrics
  live,      \* verdict of the first live judging
  again,     \* verdict of a judging of the same backtest after --resume
  replay     \* verdict of the replay

gateVars == <<case, row, live, again, replay>>

Judging == {"none", "accepted", "needs_more_evidence", "rejected", "failed", "raised"}

-----------------------------------------------------------------------------
(* Ratios *)

Less(a, b) == a[1] * b[2] < b[1] * a[2]
Minus(a, b) == <<a[1] * b[2] - b[1] * a[2], a[2] * b[2]>>
Abs(a) == <<IF a[1] < 0 THEN -a[1] ELSE a[1], a[2]>>

\* signed_zero_safe_ratio
Over(n, d) ==
  IF d[1] = 0
  THEN IF n[1] > 0 THEN <<1, 0>> ELSE IF n[1] < 0 THEN <<-1, 0>> ELSE <<0, 1>>
  ELSE <<n[1] * d[2], n[2] * d[1]>>

Lifted(Op(_, _), m, n) == {Op(a, b) : a \in m, b \in n}
Exceeds(m, bound) == \E a \in m : Less(bound, a)

Coalesced(m, n) == IF m # {} THEN m ELSE n     \* coalesce_value, first_finite
Is(m, v) == m = {v}

-----------------------------------------------------------------------------
(* The NAV and the indexes *)

Nav == case.nav
FirstDay(nav) == Min(DOMAIN nav)
LastDay(nav) == Max(DOMAIN nav)
Periods(nav) == Cardinality(DOMAIN nav) - 1

\* x ** n
Power(x, n) ==
  LET power[k \in 0 .. n] == IF k = 0 THEN 1 ELSE x * power[k - 1] IN power[n]

\* compound_annualized_return of a growth, as a gain
Annualized(growth, periods) ==
  IF periods <= 0 \/ growth[1] < 0 THEN {}
  ELSE LET p == AnnualFactor \div periods
       IN  {<<Power(growth[1], p) - Power(growth[2], p), Power(growth[2], p)>>}

StrategyReturn(nav) ==
  IF nav[FirstDay(nav)] <= 0 THEN {}
  ELSE Annualized(<<nav[LastDay(nav)], nav[FirstDay(nav)]>>, Periods(nav))

\* max_drawdown_window: the first of the deepest falls from the running peak,
\* and the last day that had this peak.
Peak(nav, d) == Max({nav[e] : e \in {x \in DOMAIN nav : x <= d}})
Drawdown(nav, d) == <<nav[d] - Peak(nav, d), Peak(nav, d)>>
Trough(nav) ==
  Min({d \in DOMAIN nav : \A e \in DOMAIN nav : ~Less(Drawdown(nav, e), Drawdown(nav, d))})
PeakDay(nav) ==
  Max({d \in DOMAIN nav : d <= Trough(nav) /\ nav[d] = Peak(nav, Trough(nav))})

Close(b, d) == IF d \in DOMAIN case.closes[b] THEN case.closes[b][d] ELSE {}

\* Mutant: the return of the first day only.
BenchmarkReturnOfEnds(b, nav) ==
  UNION {Annualized(<<y, x>>, Periods(nav)) :
           x \in Close(b, FirstDay(nav)), y \in Close(b, FirstDay(nav) + 1)}

\* benchmark_total_return_from_strategy_dates: none if a close of any day of
\* the NAV is missing; the factors cancel out.
BenchmarkReturn(b, nav) ==
  IF \E d \in DOMAIN nav : Close(b, d) = {} THEN {}
  ELSE UNION {Annualized(<<y, x>>, Periods(nav)) :
                x \in Close(b, FirstDay(nav)), y \in Close(b, LastDay(nav))}

\* evaluate_relative_benchmark, evaluate_excess_calmar_branch
RelativePasses(b, nav) ==
  LET excess == Lifted(Minus, StrategyReturn(nav), BenchmarkReturn(b, nav))
      fall == {<<y - x, x>> : x \in Close(b, PeakDay(nav)), y \in Close(b, Trough(nav))}
      sameWindow == {Minus(Drawdown(nav, Trough(nav)), f) : f \in fall}
  IN \E e \in excess, w \in sameWindow :
       /\ e[1] > 0
       /\ w[1] > 0 \/ (w[1] < 0 /\ Less(<<1, 1>>, Over(e, Abs(w))))

\* absolute_gate_failures: Sharpe at least 0.7, Calmar over 1; the number of
\* holdout days is "diagnostic_only".
AbsolutePasses(nav) ==
  /\ \E r \in StrategyReturn(nav), v \in case.vol : ~Less(Over(r, v), <<7, 10>>)
  /\ \E r \in StrategyReturn(nav) : Less(<<1, 1>>, Over(r, Abs(Drawdown(nav, Trough(nav)))))

\* ensure_benchmark_coverage: rows of every index for every day.
Covered(nav) == \A b \in Benchmarks : DOMAIN nav \subseteq DOMAIN case.closes[b]

-----------------------------------------------------------------------------
(* The diagnosis of the report, first match first *)

\* determine_primary_diagnosis; only sample_filter_risk and signal_inverted
\* come with confidence high.
Diagnosis(r) ==
  IF r.oldMask THEN "sample_filter_risk"
  ELSE IF r.inverted THEN "signal_inverted"
  ELSE IF r.weak THEN "weak_signal"
  ELSE IF r.otherHorizon THEN "label_horizon_mismatch"
  ELSE IF r.unexplained THEN "sample_filter_risk"
  ELSE IF r.costly THEN "cost_turnover_issue" ELSE "usable_signal"

\* write_diagnosis_status_to_ads puts it on the summary row.
Diagnosed(r) == IF r.diagnosed THEN {Diagnosis(r)} ELSE {}
HardRejectDiagnoses == {"signal_inverted", "unusable_signal"}

-----------------------------------------------------------------------------
(* Contract v3 *)

\* effective_cv_confirmation_status, legacy_valid_as_cv_confirmation_status.
\* The live row has no cv_fold_count.
CvStatus(r, folds) ==
  IF r.cv # {} THEN r.cv
  ELSE IF r.cvIc # {} /\ r.cvTb # {}
  THEN {IF (\E n \in folds : n < 3) \/ ~Is(r.cvIc, 1) \/ ~Is(r.cvTb, 1)
        THEN "failed" ELSE "passed"}
  ELSE IF ~r.legacy \/ r.signal = {} \/ r.ic = {} \/ r.tb = {} THEN {}
  ELSE {IF Is(r.signal, "stable") /\ Is(r.ic, 1) /\ Is(r.tb, 1) THEN "passed" ELSE "failed"}

\* signal_quality_failures, none of them: what the record and the stored
\* metrics say together.  Nothing writes a sample_filter_risk to either.
SignalPasses(r, folds, testIc, testTb, diagnosis) ==
  /\ Is(CvStatus(r, folds), "passed")
  /\ Is(r.signal, "stable")
  /\ Is(r.orient, "identity") \/ Is(r.orient, "reverse_probability")
  /\ Is(r.ic, 1) /\ Is(r.tb, 1) /\ Is(testIc, 1) /\ Is(testTb, 1)
  /\ diagnosis \cap HardRejectDiagnoses = {}

\* evaluate_candidate
GatePasses(nav) == AbsolutePasses(nav) /\ \E b \in Benchmarks : RelativePasses(b, nav)

V3Verdict(pass) == IF pass THEN "accepted" ELSE "rejected"

\* enrich_v3_acceptance_rows: the window is that of the backtests.
LiveV3 ==
  V3Verdict(/\ SignalPasses(row, {}, row.testIc, row.testTb, Diagnosed(row))
            /\ GatePasses(Nav))

-----------------------------------------------------------------------------
(* Contract v1 *)

Metrics(r) ==
  {r.ic, r.tb, r.testIc, r.testTb, r.yearExcess, r.excess, r.total}

\* _hard_reject_reasons.  Holdout values: 0 at most the threshold, 1 above it
\* but negative, 2 not negative.
HardReject(r) ==
  \/ \E m \in Metrics(r) : ~Is(m, 1)
  \/ r.sharpe \notin {{0}, {1}} \/ r.drawdown \notin {{0}, {1}}
  \/ r.hExcess = {0} \/ r.hTotal = {0}
  \/ r.orient \notin {{"identity"}, {"reverse_probability"}}
  \/ ~Is(r.signal, "stable")
  \/ Diagnosed(r) \cap (HardRejectDiagnoses \cup {"sample_filter_risk"}) # {}

\* derive_final_holdout_status: what is on record stays.
HoldoutStatus(r) ==
  IF r.holdout # {} THEN r.holdout
  ELSE IF r.days = {} \/ r.hExcess = {} \/ r.hTotal = {} THEN {}
  ELSE {IF Is(r.days, 1) /\ r.hExcess # {0} /\ r.hTotal # {0} THEN "passed" ELSE "failed"}

LateWave(r) == r.wave > 3 /\ ~Is(HoldoutStatus(r), "passed")

\* _needs_more_evidence_reasons
NeedsEvidence(r) ==
  \/ ~Is(r.cv, "passed")
  \/ ~Is(r.days, 1)
  \/ r.hExcess = {} \/ r.hTotal = {}
  \/ LateWave(r)

\* _unmatched_input_state_reasons
Unmatched(r) ==
  \/ r.orient \notin {{}, {"identity"}, {"reverse_probability"}}
  \/ r.signal \notin {{}, {"stable"}, {"weak"}, {"failed"}}
  \/ r.cv \notin {{}, {"passed"}, {"failed"}, {"missing"}}

\* The checks decide_acceptance makes again at the end, on the same fields.
Checks(r) ==
  /\ Is(r.cv, "passed") /\ Is(r.signal, "stable")
  /\ \A m \in Metrics(r) : Is(m, 1)
  /\ r.sharpe \in {{0}, {1}} /\ r.drawdown \in {{0}, {1}}
  /\ r.hExcess \in {{1}, {2}} /\ r.hTotal \in {{1}, {2}}

\* The overlay of the risk feature set: a drawdown target of its own.
RiskTargetMissed(r) == r.riskFeatures /\ ~Is(r.drawdown, 1)

LiveV1(r) ==
  IF Unmatched(r) \/ HardReject(r) THEN "rejected"
  ELSE IF NeedsEvidence(r) THEN "needs_more_evidence"
  ELSE IF ~Checks(r) THEN "rejected"
  ELSE IF LateWave(r) \/ RiskTargetMissed(r) THEN "needs_more_evidence" ELSE "accepted"

-----------------------------------------------------------------------------
\* _failed_reasons come before either contract; with v3 the NAV is evaluated
\* before that and may raise.
GateVerdict ==
  IF case.contract = "v3" /\ ~Covered(Nav) THEN "raised"
  ELSE IF ~row.report \/ ~row.diagnosed THEN "failed"
  ELSE IF case.contract = "v3" THEN LiveV3 ELSE LiveV1(row)

GateInit ==
  /\ \E c \in Cases : case \in c.inputs /\ row \in c.rows
  /\ live = "none" /\ again = "none" /\ replay = "none"

\* patch_native_acceptance: the status and the metrics it was based on.
Patch ==
  row' = [row EXCEPT !.holdout = HoldoutStatus(row),
                     !.storedTestIc = row.testIc, !.storedTestTb = row.testTb]

\* apply_native_acceptance_to_ads, for the first time and after --resume.
JudgeLive ==
  /\ live = "none" /\ live' = GateVerdict
  /\ IF GateVerdict = "raised" THEN UNCHANGED row ELSE Patch
  /\ UNCHANGED <<case, again, replay>>

JudgeAgain ==
  /\ live \notin {"none", "raised"} /\ again = "none" /\ again' = GateVerdict
  /\ Patch
  /\ UNCHANGED <<case, live, replay>>

\* effective_test_metric: what the registry has, else what the replay reads.
ReplayTest(stored, fresh) == Coalesced(stored, fresh)

NavInWindow == [d \in DOMAIN Nav \cap Window |-> Nav[d]]

\* main of replay_acceptance_gate_v3 for this candidate: a model that has not
\* exactly one backtest, a NAV outside of the window or an index that is not
\* covered stops it.
Replay ==
  /\ case.contract = "v3" /\ live \notin {"none", "raised"} /\ replay = "none"
  /\ replay' =
       IF case.backtests # 1 \/ DOMAIN NavInWindow = {} \/ ~Covered(NavInWindow) THEN "raised"
       ELSE V3Verdict(/\ SignalPasses(row, row.folds, ReplayTest(row.storedTestIc, row.testIc),
                                      ReplayTest(row.storedTestTb, row.testTb), {})
                      /\ GatePasses(NavInWindow))
  /\ UNCHANGED <<case, row, live, again>>

GateNext == JudgeLive \/ JudgeAgain \/ Replay
GateSpec == GateInit /\ [][GateNext]_gateVars

-----------------------------------------------------------------------------
(* Properties *)

\* By contract v3 an accepted strategy has grown, has outgrown one of the indexes
\* priced on every one of its days, and has gained more per year than it lost from
\* any day to a later one; with nothing said of how the ratios are computed.
AcceptedBeatsAnIndex ==
  live = "accepted" /\ case.contract = "v3" =>
    LET a == FirstDay(Nav)  z == LastDay(Nav) IN
    /\ Nav[z] > Nav[a]
    /\ \E b \in Benchmarks :
         /\ \A d \in DOMAIN Nav : Close(b, d) # {}
         /\ \A x \in Close(b, a), y \in Close(b, z) : Nav[z] * x > y * Nav[a]
    /\ \A d, e \in DOMAIN Nav :
         d < e => Exceeds(StrategyReturn(Nav), <<Nav[d] - Nav[e], Nav[d]>>)

\* What was decided is decided again: by a resumed search, which finds its own
\* statuses in the registry, and by the replay, which reads the stored metrics, if
\* the NAV is in its window and what only the live judging looks at (the diagnosis,
\* the artifacts, the status of the cross validation) does not decide.
VerdictStands ==
  /\ again # "none" => again = live
  /\ /\ replay \notin {"none", "raised"} /\ live # "failed"
     /\ DOMAIN Nav \subseteq Window /\ row.cv # {}
     /\ Diagnosed(row) \cap HardRejectDiagnoses = {}
     => replay = live

\* model_acceptance_contract_v3: "hard_reject_confidence_by_diagnosis:
\* sample_filter_risk: [high]".
DiagnosedRiskIsRejected ==
  live = "accepted" => "sample_filter_risk" \notin Diagnosed(row)
-----------------------------------------------------------------------------
(* What the proofs ask of the cases, and what makes the properties inductive. *)

RowFields ==
  {"cv", "cvIc", "cvTb", "folds", "legacy", "signal", "orient", "ic", "tb", "testIc", "testTb",
   "storedTestIc", "storedTestTb", "report", "diagnosed", "oldMask", "inverted", "weak",
   "otherHorizon", "unexplained", "costly", "yearExcess", "excess", "total", "sharpe",
   "drawdown", "days", "hExcess", "hTotal", "holdout", "wave", "riskFeatures"}

\* A NAV of positive values, day by day, and at most one close of an index on a day, which
\* is positive (others end in no return, benchmark_total_return_from_strategy_dates).
CasesAreSound ==
  /\ AnnualFactor \in Nat
  /\ \A c \in Cases :
       /\ \A i \in c.inputs :
            /\ i.nav \in Seq(Nat \ {0}) /\ i.nav # <<>>
            /\ \A b \in Benchmarks : \A d \in DOMAIN i.closes[b] :
                 /\ i.closes[b][d] \subseteq Nat \ {0}
                 /\ \A x, y \in i.closes[b][d] : x = y
       /\ \A r \in c.rows : r = [f \in RowFields |-> r[f]]

\* What is on record was judged first, and judging the patched row decides the same.
GateInv ==
  /\ \E c \in Cases : case \in c.inputs
  /\ row = [f \in RowFields |-> row[f]]
  /\ live = "none" => again = "none" /\ replay = "none"
  /\ live # "none" => live = GateVerdict
  /\ live \notin {"none", "raised"} =>
       row.storedTestIc = row.testIc /\ row.storedTestTb = row.testTb
  /\ VerdictStands
=============================================================================
