----------------------------- MODULE AnnualWaves -----------------------------
(* The planner of annual_pipeline_scheduler.py: the task graph of a range of *)
(* years (build_pipeline_tasks) and the synchronous waves in which           *)
(* simulate_dry_run_schedule admits, groups and defers its tasks.  One wave  *)
(* is one `Consider` per ready task, in the order of task_priority, and one  *)
(* `EndWave` that groups what was selected and marks it.                     *)
EXTENDS Integers, FiniteSets

CONSTANTS
  Years,         \* the backtest years, start_year..end_year
  Grid,          \* the number of candidates of the grid
  Tokens,        \* default_stage_tokens: cpu, mem and slots of a stage
  LimitChoices,  \* the SchedulerLimits the command line may give
  MinBatches     \* values of --min-candidate-batch-size

Stages == {"panel", "matrix", "candidate", "select", "refit_panel", "refit",
           "diagnostic_backtest", "continuous_ledger"}

\* Nothing is asked of the limits: the command line takes any number.
ASSUME PlanningAssumption ==
  /\ IsFiniteSet(Years) /\ Years \subseteq Int /\ Grid \in Nat
  /\ Tokens \in [Stages -> [cpu : Int, mem : Int, slots : Int]]
  /\ LimitChoices \subseteq [cpu : Int, mem : Int, slots : Int, fanout : Int, panel : Int,
                             prepare : Int, select : Int, backtest : Int]
  /\ MinBatches \subseteq Int

VARIABLES
  limits, minBatch, tailFill, backtests,  \* the arguments
  status,    \* statuses: what is not in it is no task of the plan
  todo,      \* ready tasks of this wave not yet considered
  selected,  \* what select_admissible_tasks has selected so far
  used,      \* resource_usage(selected)
  wave, outcome

planning == <<limits, minBatch, tailFill, backtests, status, todo, selected, used,
              wave, outcome>>

-----------------------------------------------------------------------------
(* The task graph *)

Task(stage, year) == [stage |-> stage, year |-> year, unit |-> -1]
Candidate(year, unit) == [stage |-> "candidate", year |-> year, unit |-> unit]
Ledger == Task("continuous_ledger", 9999)

YearStages == {"panel", "matrix", "select", "refit_panel", "refit"}

PlanTasks(withBacktests) ==
  {Task(s, y) : s \in YearStages, y \in Years}
    \cup {Candidate(y, u) : y \in Years, u \in 0..(Grid - 1)}
    \cup (IF withBacktests THEN {Task("diagnostic_backtest", y) : y \in Years} ELSE {})
    \cup {Ledger}

Dependencies(t) ==
  CASE t.stage = "panel" -> {}
    [] t.stage = "matrix" -> {Task("panel", t.year)}
    [] t.stage = "candidate" -> {Task("matrix", t.year)}
    [] t.stage = "select" -> {Candidate(t.year, u) : u \in 0..(Grid - 1)}
    [] t.stage = "refit_panel" -> {Task("select", t.year)}
    [] t.stage = "refit" -> {Task("refit_panel", t.year)}
    [] t.stage = "diagnostic_backtest" -> {Task("refit", t.year)}
    [] t.stage = "continuous_ledger" -> {Task("refit", y) : y \in Years}

Priority ==
  [candidate |-> 10, select |-> 20, refit_panel |-> 30, refit |-> 40, panel |-> 50,
   matrix |-> 60, diagnostic_backtest |-> 70, continuous_ledger |-> 80]

\* task_priority compares stage, year and unit, in this order.
Before(t, u) ==
  \/ Priority[t.stage] < Priority[u.stage]
  \/ t.stage = u.stage /\ t.year < u.year
  \/ t.stage = u.stage /\ t.year = u.year /\ t.unit < u.unit

Ready(st) ==
  {t \in DOMAIN st : st[t] = "planned" /\ \A d \in Dependencies(t) : st[d] = "succeeded"}

-----------------------------------------------------------------------------
(* Admission *)

StageLimit(stage) ==
  CASE stage \in {"panel", "refit_panel"} -> limits.panel
    [] stage = "matrix" -> limits.prepare
    [] stage \in {"select", "refit"} -> limits.select
    [] stage = "diagnostic_backtest" -> limits.backtest
    [] stage = "continuous_ledger" -> 1
    [] stage = "candidate" -> limits.slots

Plus(usage, t) ==
  [cpu |-> usage.cpu + Tokens[t.stage].cpu,
   mem |-> usage.mem + Tokens[t.stage].mem,
   slots |-> usage.slots + Tokens[t.stage].slots]

Nothing == [cpu |-> 0, mem |-> 0, slots |-> 0]

OfStage(S, stage) == {t \in S : t.stage = stage}

\* Mutant: what is in use is compared, without the task at hand.
CanAdmitUncounted(t, S, usage) ==
  /\ usage.cpu <= limits.cpu
  /\ usage.mem <= limits.mem
  /\ usage.slots <= limits.slots
  /\ Cardinality(OfStage(S, t.stage)) + 1 <= StageLimit(t.stage)

CanAdmit(t, S, usage) ==
  LET u == Plus(usage, t) IN
  /\ u.cpu <= limits.cpu
  /\ u.mem <= limits.mem
  /\ u.slots <= limits.slots
  /\ Cardinality(OfStage(S, t.stage)) + 1 <= StageLimit(t.stage)

CandidateYears(S) == {t.year : t \in OfStage(S, "candidate")}

\* A candidate of a year that has none yet needs a fan-out execution.
FanoutFree(t, S) ==
  \/ t.stage # "candidate"
  \/ t.year \in CandidateYears(S)
  \/ Cardinality(CandidateYears(S)) < limits.fanout

-----------------------------------------------------------------------------
(* Grouping: contiguous runs of unit indices per year, and their deferral *)

CandidateUnits(S, y) == {t.unit : t \in {c \in OfStage(S, "candidate") : c.year = y}}

ContiguousRuns(U) ==
  {r \in U \X U : /\ r[1] <= r[2] /\ r[1]..r[2] \subseteq U
                  /\ r[1] - 1 \notin U /\ r[2] + 1 \notin U}

Groups(S) ==
  UNION {{[year |-> y, offset |-> r[1], tasks |-> r[2] - r[1] + 1] :
            r \in ContiguousRuns(CandidateUnits(S, y))} : y \in CandidateYears(S)}

\* Mutant: --no-tail-fill-single-task or not.
DeferredAnyway(g) == g.tasks < minBatch

Deferred(g) == g.tasks < minBatch /\ ~tailFill

\* task_ids of a group, as train_candidate_task finds them: TASK_INDEX_OFFSET
\* plus the task index.
Covered(g) == {Candidate(g.year, g.offset + i) : i \in 0..(g.tasks - 1)}

-----------------------------------------------------------------------------
PlanningInit ==
  /\ limits \in LimitChoices
  /\ minBatch \in MinBatches
  /\ tailFill \in BOOLEAN
  /\ backtests \in BOOLEAN
  /\ status = [t \in PlanTasks(backtests) |-> "planned"]
  /\ todo = Ready(status)
  /\ selected = {} /\ used = Nothing
  /\ wave = 1 /\ outcome = "going"

\* One round of the loop of select_admissible_tasks.
Consider ==
  /\ outcome = "going"
  /\ \E t \in todo :
       /\ \A u \in todo \ {t} : Before(t, u)
       /\ todo' = todo \ {t}
       /\ IF FanoutFree(t, selected) /\ CanAdmit(t, selected, used)
          THEN selected' = selected \cup {t} /\ used' = Plus(used, t)
          ELSE UNCHANGED <<selected, used>>
  /\ UNCHANGED <<limits, minBatch, tailFill, backtests, status, wave, outcome>>

With(st) == {t \in DOMAIN status : status[t] = st}

\* Nothing was admitted: the loop of simulate_dry_run_schedule is left.
Stop ==
  /\ outcome = "going" /\ todo = {} /\ selected = {}
  /\ outcome' = IF With("planned") = {} THEN "end"
                ELSE IF With("deferred") # {} THEN "blocked" ELSE "deadlock"
  /\ UNCHANGED <<limits, minBatch, tailFill, backtests, status, todo, selected, used,
                 wave>>

EndWave ==
  /\ outcome = "going" /\ todo = {} /\ selected # {}
  /\ LET groups == Groups(selected)
         put == UNION {Covered(g) : g \in {h \in groups : Deferred(h)}}
         sent == selected \ put
         st == [t \in DOMAIN status |->
                  IF t \in put THEN "deferred"
                  ELSE IF t \in sent THEN "succeeded" ELSE status[t]]
         over == sent = {} \/ wave = Cardinality(DOMAIN status)
     IN /\ status' = st
        /\ todo' = IF over THEN {} ELSE Ready(st)
        /\ outcome' = IF sent = {} THEN "blocked" ELSE IF over THEN "end" ELSE "going"
  /\ wave' = wave + 1 /\ selected' = {} /\ used' = Nothing
  /\ UNCHANGED <<limits, minBatch, tailFill, backtests>>

PlanningNext == Consider \/ Stop \/ EndWave

PlanningSpec == PlanningInit /\ [][PlanningNext]_planning

-----------------------------------------------------------------------------
(* Properties *)

\* What a wave submits at once never exceeds the CPU, memory and slot tokens
\* shared by all stages, the limit of any stage, or the number of fan-outs.
WithinLimits ==
  \A t \in selected :
    /\ used.cpu <= limits.cpu /\ used.mem <= limits.mem /\ used.slots <= limits.slots
    /\ Cardinality(OfStage(selected, t.stage)) <= StageLimit(t.stage)
    /\ t.stage = "candidate" => Cardinality(CandidateYears(selected)) <= limits.fanout

Fits(t) == CanAdmit(t, {}, Nothing) /\ (t.stage = "candidate" => limits.fanout > 0)

\* How planning ends.  In particular the range of the loop never runs out early;
\* with tail filling nothing is ever deferred; and the RuntimeError of the code means
\* that a task does not fit the limits even if it has them for itself.
EndsWell ==
  /\ outcome = "end" => With("succeeded") = DOMAIN status
  /\ outcome = "blocked" => ~tailFill /\ With("deferred") # {}
  /\ outcome = "deadlock" => \E t \in Ready(status) : ~Fits(t)

-----------------------------------------------------------------------------
(* The inductive invariant of these properties.                             *)

PlanningTypeOK ==
  /\ limits \in LimitChoices /\ minBatch \in MinBatches
  /\ tailFill \in BOOLEAN /\ backtests \in BOOLEAN
  /\ status \in [PlanTasks(backtests) -> {"planned", "deferred", "succeeded"}]
  /\ todo \subseteq Ready(status) /\ selected \subseteq Ready(status)
  /\ used \in [cpu : Int, mem : Int, slots : Int]
  /\ wave \in Nat \ {0} /\ outcome \in {"going", "end", "blocked", "deadlock"}

OnlyCandidatesWait == \A t \in With("deferred") : t.stage = "candidate" /\ ~tailFill

InOrder == \A t \in With("succeeded") : Dependencies(t) \subseteq With("succeeded")

\* Every wave that is over has made progress.
WavesCount == outcome = "going" => wave <= Cardinality(With("succeeded")) + 1

\* What was turned down before anything was selected does not fit at all.
TurnedDown ==
  outcome = "going" /\ selected = {} =>
    used = Nothing /\ \A t \in Ready(status) \ todo : ~Fits(t)

PlanningInv ==
  /\ PlanningTypeOK /\ OnlyCandidatesWait /\ InOrder /\ WavesCount /\ TurnedDown
  /\ WithinLimits /\ EndsWell
=============================================================================
