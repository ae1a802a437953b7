-------------------------- MODULE CandidateSearch --------------------------
(***************************************************************************)
(* The model search of strategy 1: one orchestrator prepares a matrix,     *)
(* fans candidate training out, shortlists the candidates on validation    *)
(* data, runs the select and backtest jobs of the shortlisted ones in      *)
(* parallel threads, judges each result and writes the verdict to two      *)
(* tables, picks the baseline and may launch the next wave.                *)
(*                                                                         *)
(* The orchestrator may die at any step and be started again, with or      *)
(* without --resume; a Cloud Run job goes on without it.  Jobs are walked  *)
(* through write by write, so that a job that fails half way leaves what   *)
(* it has written.  The lease lock of a step is LockedStep.tla; here it is *)
(* only that a step whose job still runs is refused.                       *)
(***************************************************************************)
EXTENDS Integers, FiniteSets, Sequences, TLC

CONSTANTS
    Units,          \* number of candidates of the grid; a unit is 1..Units
    TopK,           \* top_k_backtest
    Gradings,       \* validation metrics the candidates may come out with
    Merits,         \* what a backtest may be worth to the acceptance contract
    MaxRuns,        \* bound: how often the orchestrator is started
    MaxStamp        \* bound: how many different matrices are prepared

Candidates == 1..Units
JobSteps == {"select", "backtest"}
Statuses == {"none", "running", "succeeded", "failed", "cancelled"}

VARIABLES
    pc,          \* where the orchestrator is
    force,       \* --force-replace, the same on every start
    resume,      \* --resume of this start
    runs,        \* how often it was started
    redone,      \* history: it was started again without --resume
    matrix,      \* stamp (the shas) of the matrix in GCS; 0 before the first
    artifact,    \* what each training task has uploaded: stamp and metrics
    status,      \* the orchestrator's status table
    rank,        \* shortlist_rank_valid_only of this run; 0 is None
    thread,      \* the step a top-K thread is at
    job,         \* the Cloud Run job of a candidate: its next write
    out,         \* rows a candidate's jobs have written to BigQuery
    patched,     \* the updates of apply_native_acceptance_to_ads made
    comparison,  \* the final comparison of this run
    launched     \* next waves launched

searchVars == <<pc, force, resume, runs, redone, matrix, artifact, status, rank,
                thread, job, out, patched, comparison, launched>>
control == <<force, resume, runs, redone>>
inputs == <<matrix, artifact>>

NoArtifact == [stamp |-> 0]
NoRows == [model |-> 0, alias |-> FALSE, models |-> 0, stamp |-> 0,
           verdict |-> "candidate", predictions |-> 0, plan |-> FALSE, ledger |-> 0,
           tested |-> 0, merit |-> "none", summaryVerdict |-> "none"]
NoComparison == [rows |-> {}, selected |-> 0]

----------------------------------------------------------------------------
(* Ranking: validation and cross-validation metrics only. *)

Metric(c) == artifact[c].metrics

Median2 ==   \* twice the median coverage (percent)
    LET s == SortSeq([c \in Candidates |-> Metric(c).coverage], <)
    IN  s[(Units + 1) \div 2] + s[Units \div 2 + 1]

HardReason(c) ==
    \/ Metric(c).cv # "passed"
    \/ 2 * Metric(c).coverage < Median2 - 10
    \/ ~Metric(c).converged
RankReason(c) == Metric(c).cvIc <= 0 \/ Metric(c).ic <= 0
Eligible(c) == ~HardReason(c) /\ ~RankReason(c)

\* A row is placed before another; ties keep the order of the units.
Precedes(a, b) ==
    LET key(c) == <<IF Eligible(c) THEN 1 ELSE 0, Metric(c).cvIc, Metric(c).ic>>
        i == {n \in 1..3 : key(a)[n] # key(b)[n]}
    IN  IF i = {} THEN a < b
        ELSE LET n == CHOOSE m \in i : \A k \in i : m <= k
             IN  key(a)[n] > key(b)[n]

Shortlisted ==
    LET someEligible == \E c \in Candidates : Eligible(c)
        noSignal == \A c \in Candidates : Metric(c).ic <= 0
    IN  {c \in Candidates :
            \/ Eligible(c)
            \/ ~someEligible /\ noSignal /\ ~HardReason(c)}
RankCandidates ==
    LET position(c) == Cardinality({d \in Shortlisted : Precedes(d, c)}) + 1
    IN  [c \in Candidates |->
            IF c \in Shortlisted /\ position(c) <= TopK THEN position(c) ELSE 0]

TopRows == {c \in Candidates : rank[c] > 0}
First(S) == IF S = {} THEN 0 ELSE CHOOSE c \in S : \A d \in S : rank[c] <= rank[d]

----------------------------------------------------------------------------
SearchInit ==
    /\ pc = "down" /\ force \in BOOLEAN /\ resume = FALSE
    /\ runs = 0 /\ redone = FALSE /\ matrix = 0
    /\ artifact = [c \in Candidates |-> NoArtifact]
    /\ status = [prepare |-> "none", train |-> "none",
                 select |-> [c \in Candidates |-> "none"],
                 backtest |-> [c \in Candidates |-> "none"]]
    /\ rank = [c \in Candidates |-> 0]
    /\ thread = [c \in Candidates |-> "none"]
    /\ job = [c \in Candidates |-> "none"]
    /\ out = [c \in Candidates |-> NoRows]
    /\ patched = {} /\ comparison = NoComparison /\ launched = 0

\* What the process alone knows.
Forget == /\ rank' = [c \in Candidates |-> 0]
          /\ thread' = [c \in Candidates |-> "none"]
          /\ patched' = {}

\* A start of the program, also after one that ended or died.
Start ==
    /\ pc \in {"down", "finished"} /\ runs < MaxRuns
    /\ pc' = "prepare" /\ resume' \in (IF runs = 0 THEN {FALSE} ELSE BOOLEAN)
    /\ runs' = runs + 1
    /\ redone' = (redone \/ (runs > 0 /\ ~resume'))
    /\ Forget /\ comparison' = NoComparison
    /\ UNCHANGED <<force, matrix, artifact, status, job, out, launched>>

\* run_step of a step of the search itself.  The status may be left
\* "running" by an orchestrator that dies while the job goes on.
Skip(step, next) ==
    /\ resume /\ status[step] = "succeeded"
    /\ pc' = next /\ UNCHANGED <<status, inputs>>
StepEnds(step, next, ok) ==
    \/ /\ ok /\ status' = [status EXCEPT ![step] = "succeeded"] /\ pc' = next
    \/ /\ ~ok /\ status' = [status EXCEPT ![step] = "failed"] /\ pc' = "down"
    \/ /\ status' = [status EXCEPT ![step] = "running"] /\ pc' = "down"

\* The panel may have changed since the last matrix, or not.
Prepare ==
    /\ pc = "prepare"
    /\ \/ Skip("prepare", "train")
       \/ /\ ~(resume /\ status.prepare = "succeeded")
          /\ \E new \in {matrix, matrix + 1} \cap 1..MaxStamp, ok \in BOOLEAN :
                /\ matrix' = IF ok THEN new ELSE matrix
                /\ StepEnds("prepare", "train", ok)
          /\ UNCHANGED artifact
    /\ UNCHANGED <<control, rank, thread, job, out, patched, comparison, launched>>

\* The fan-out execution succeeds only if every task did.
Train ==
    /\ pc = "train"
    /\ \/ Skip("train", "load")
       \/ /\ ~(resume /\ status.train = "succeeded")
          /\ \E trained \in SUBSET Candidates, g \in Gradings :
                /\ artifact' = [c \in Candidates |->
                      IF c \in trained THEN [stamp |-> matrix, metrics |-> g[c]]
                      ELSE artifact[c]]
                /\ StepEnds("train", "load", trained = Candidates)
          /\ UNCHANGED matrix
    /\ UNCHANGED <<control, rank, thread, job, out, patched, comparison, launched>>

\* ensure_candidate_artifacts_local, load_candidates, rank_candidates.
Loadable == \A c \in Candidates : artifact[c].stamp = matrix
Shortlist ==
    /\ pc = "load"
    /\ rank' = IF Loadable THEN RankCandidates ELSE rank
    /\ pc' = IF \E c \in Candidates : rank'[c] > 0 THEN "topk" ELSE "down"
    /\ thread' = [c \in Candidates |-> IF rank'[c] > 0 THEN "select" ELSE "none"]
    /\ UNCHANGED <<control, inputs, status, job, out, patched, comparison, launched>>

----------------------------------------------------------------------------
(* A top-K thread: the select step, then the backtest step. *)

After(step) == IF step = "select" THEN "backtest" ELSE "done"
Doing(step) == IF step = "select" THEN "selecting" ELSE "backtesting"
FirstWrite(step) == IF step = "select" THEN "alias" ELSE "plan"
Done(c, step, s) == status' = [status EXCEPT ![step][c] = s]

ThreadSkipsStarted(c, step) ==      \* mutant: any step once begun is skipped
    /\ resume /\ status[step][c] \in {"running", "succeeded"}
    /\ thread' = [thread EXCEPT ![c] = After(step)]
    /\ UNCHANGED <<status, job>>
ThreadSkips(c, step) ==
    /\ resume /\ status[step][c] = "succeeded"
    /\ thread' = [thread EXCEPT ![c] = After(step)]
    /\ UNCHANGED <<status, job>>
ThreadRefused(c, step) ==       \* the lock is held by a job that still runs
    /\ job[c] # "none"
    /\ thread' = [thread EXCEPT ![c] = "failed"] /\ Done(c, step, "cancelled")
    /\ UNCHANGED job
ThreadSubmits(c, step) ==
    /\ job[c] = "none"
    /\ job' = [job EXCEPT ![c] = FirstWrite(step)] /\ Done(c, step, "running")
    /\ thread' = [thread EXCEPT ![c] = Doing(step)]
ThreadStep(c) ==
    /\ pc = "topk" /\ thread[c] \in JobSteps
    /\ LET step == thread[c]
       IN  \/ ThreadSkips(c, step)
           \/ /\ ~(resume /\ status[step][c] = "succeeded")
              /\ ThreadRefused(c, step) \/ ThreadSubmits(c, step)
    /\ UNCHANGED <<pc, control, inputs, rank, out, patched, comparison, launched>>

\* How a job ends, for the thread that waits for it, if one does.
Waiting(c) == pc = "topk" /\ thread[c] \in {"selecting", "backtesting"}
JobEnds(c, ok) ==
    /\ job' = [job EXCEPT ![c] = "none"]
    /\ IF Waiting(c)
       THEN LET step == IF thread[c] = "selecting" THEN "select" ELSE "backtest"
            IN  /\ Done(c, step, IF ok THEN "succeeded" ELSE "failed")
                /\ thread' = [thread EXCEPT ![c] = IF ok THEN After(step) ELSE "failed"]
       ELSE UNCHANGED <<status, thread>>
Goes(c, next) == job' = [job EXCEPT ![c] = next] /\ UNCHANGED <<status, thread>>
OnlyJob == UNCHANGED <<pc, control, inputs, rank, patched, comparison, launched>>

JobFails(c) == job[c] # "none" /\ JobEnds(c, FALSE) /\ UNCHANGED out /\ OnlyJob

CopyAliasAgain(c) ==     \* mutant: an alias that exists is written over
    /\ job[c] = "alias" /\ Loadable
    /\ out' = [out EXCEPT ![c].model = matrix, ![c].alias = TRUE,
                          ![c].predictions = IF force THEN 0 ELSE @]
    /\ Goes(c, "registry") /\ OnlyJob
\* select_register_predict: the model is written to GCS; then the panel alias
\* is copied, and refused if it is there, unless outputs are to be replaced.
CopyAlias(c) ==
    /\ job[c] = "alias"
    /\ IF Loadable /\ (force \/ ~out[c].alias)
       THEN /\ out' = [out EXCEPT ![c].model = matrix, ![c].alias = TRUE,
                                  ![c].predictions = IF force THEN 0 ELSE @]
            /\ Goes(c, "registry")
       ELSE /\ out' = [out EXCEPT ![c].model = IF Loadable THEN matrix ELSE @]
            /\ JobEnds(c, FALSE)
    /\ OnlyJob
WriteRegistry(c) ==
    /\ job[c] = "registry"
    /\ out' = [out EXCEPT ![c].models = IF force THEN 1 ELSE @ + 1,
                          ![c].stamp = out[c].model, ![c].verdict = "candidate"]
    /\ Goes(c, "predictions") /\ OnlyJob
WritePredictions(c) ==
    /\ job[c] = "predictions"
    /\ out' = [out EXCEPT ![c].predictions = @ + 1]
    /\ JobEnds(c, TRUE) /\ OnlyJob

\* backtest_report: candidates, targets and orders (refused if they exist),
\* the ledger (which checks nothing), then the metrics of the summary.
BuildPlan(c) ==
    /\ job[c] = "plan"
    /\ IF out[c].plan /\ ~force
       THEN JobEnds(c, FALSE) /\ UNCHANGED out
       ELSE out' = [out EXCEPT ![c].plan = TRUE] /\ Goes(c, "ledger")
    /\ OnlyJob
RunLedger(c) ==
    /\ job[c] = "ledger"
    /\ out' = [out EXCEPT ![c].ledger = IF force THEN 1 ELSE @ + 1,
                          ![c].tested = out[c].stamp,
                          ![c].merit = IF force THEN "none" ELSE @,
                          ![c].summaryVerdict = IF force THEN "none" ELSE @]
    /\ Goes(c, "summary") /\ OnlyJob
WriteSummary(c) ==
    /\ job[c] = "summary"
    /\ IF out[c].merit # "none" /\ ~force
       THEN JobEnds(c, FALSE) /\ UNCHANGED out
       ELSE /\ \E m \in Merits :
                  out' = [out EXCEPT ![c].merit = m, ![c].summaryVerdict = "none"]
            /\ Goes(c, "report")
    /\ OnlyJob
Report(c) == job[c] = "report" /\ JobEnds(c, TRUE) /\ UNCHANGED out /\ OnlyJob

----------------------------------------------------------------------------
(* Judging: fetch_topk_ads_outputs, then two updates for every row. *)

Succeeded == {c \in TopRows : thread[c] = "done"}
Rows == {c \in Succeeded : out[c].models > 0}
Collect ==
    /\ pc = "topk" /\ \A c \in TopRows : thread[c] \in {"done", "failed"}
    /\ pc' = "judge" /\ UNCHANGED <<control, inputs, status, rank, thread, job, out,
                                    patched, comparison, launched>>

\* decide_contract_acceptance of a row: a backtest that left no report fails.
Verdict(c) == IF out[c].merit = "none" THEN "failed" ELSE out[c].merit
NextPatch(c, table) ==
    /\ pc = "judge" /\ c \in Rows /\ <<c, table>> \notin patched
    /\ \A d \in Rows : rank[d] < rank[c] => <<d, "summary">> \in patched
    /\ patched' = patched \cup {<<c, table>>}
    /\ UNCHANGED <<pc, control, inputs, status, rank, thread, job, comparison, launched>>
PatchRegistry(c) ==
    /\ NextPatch(c, "registry")
    /\ out' = [out EXCEPT ![c].verdict = Verdict(c)]
PatchSummary(c) ==
    /\ NextPatch(c, "summary") /\ <<c, "registry">> \in patched
    /\ out' = [out EXCEPT ![c].summaryVerdict =
                  IF out[c].merit = "none" THEN "none" ELSE Verdict(c)]

\* write_final_comparison: the first accepted row, else the first row.
Select ==
    LET accepted == {c \in Rows : out[c].verdict = "accepted"}
    IN  First(IF accepted # {} THEN accepted ELSE Rows)
Compare ==
    /\ pc = "judge" /\ \A c \in Rows : <<c, "summary">> \in patched
    /\ comparison' = [rows |-> Rows, selected |-> Select]
    /\ pc' = "qa"
    /\ UNCHANGED <<control, inputs, status, rank, thread, job, out, patched, launched>>

Qa ==
    /\ pc = "qa"
    /\ \/ pc' = "next" /\ UNCHANGED <<rank, thread, patched>>
       \/ pc' = "down" /\ Forget
    /\ UNCHANGED <<control, inputs, status, job, out, comparison, launched>>

\* maybe_run_next_wave, then the program reports success.
WantsNextWave ==
    LET verdicts == {out[c].verdict : c \in comparison.rows}
    IN  "accepted" \notin verdicts /\ "needs_more_evidence" \in verdicts
NextWave ==
    /\ pc = "next" /\ pc' = "finished"
    /\ launched' = IF WantsNextWave THEN launched + 1 ELSE launched
    /\ UNCHANGED <<control, inputs, status, rank, thread, job, out, patched, comparison>>

Crash ==
    /\ pc \in {"topk", "judge"} /\ pc' = "down" /\ Forget
    /\ UNCHANGED <<control, inputs, status, job, out, comparison, launched>>

JobWrites(c) == \/ CopyAlias(c) \/ WriteRegistry(c) \/ WritePredictions(c)
                \/ BuildPlan(c) \/ RunLedger(c) \/ WriteSummary(c) \/ Report(c)
Orchestrate ==
    \/ Prepare \/ Train \/ Shortlist \/ Collect \/ Compare \/ Qa \/ NextWave
    \/ \E c \in Candidates : ThreadStep(c) \/ PatchRegistry(c) \/ PatchSummary(c)
SearchNext ==
    \/ Start \/ Orchestrate \/ Crash
    \/ \E c \in Candidates : JobWrites(c) \/ JobFails(c)

Fairness == /\ WF_searchVars(Orchestrate)
            /\ \A c \in Candidates : WF_searchVars(JobWrites(c) \/ JobFails(c))
SearchSpec == SearchInit /\ [][SearchNext]_searchVars /\ Fairness

----------------------------------------------------------------------------
(* Properties *)

\* However often the search is started again and its jobs fail half way, with
\* or without --force-replace, a candidate has at most one selected model, one
\* set of predictions and one ledger: the alias and the plan, written first,
\* keep the appends after them from being repeated.
WrittenOnce ==
    \A c \in Candidates :
        out[c].models <= 1 /\ out[c].predictions <= 1 /\ out[c].ledger <= 1

\* Once the comparison is written, the registry and the backtest summary give
\* each compared candidate the same verdict, that of its last backtest, also
\* when an earlier run died between the two updates.
JudgedAlike ==
    comparison # NoComparison =>
        \A c \in comparison.rows :
            /\ out[c].verdict = out[c].merit \/ job[c] # "none"
            /\ out[c].summaryVerdict = out[c].verdict \/ job[c] # "none"

\* Unless somebody started the search over without --resume, the compared
\* candidates are models of the matrix in GCS, and each backtest is one of
\* that model: no run resumed from an earlier one mixes two matrices.
ComparedAreCurrent ==
    comparison # NoComparison /\ ~redone =>
        \A c \in comparison.rows :
            out[c].stamp = matrix /\ out[c].tested = matrix

\* (Runbook, section on the search:) the next wave is entered when none of
\* the shortlisted candidates is accepted.
NextWaveOnlyIfNoneAccepted ==
    [][launched' > launched =>
          \A c \in TopRows : out[c].verdict # "accepted"]_searchVars

----------------------------------------------------------------------------
(* What makes the properties inductive. *)

SelectWrites == {"alias", "registry", "predictions"}
BacktestWrites == {"plan", "ledger", "summary", "report"}

Output ==
    [model : {0} \cup 1..MaxStamp, alias : BOOLEAN, models : {0, 1},
     stamp : {0} \cup 1..MaxStamp, verdict : {"candidate", "failed"} \cup Merits,
     predictions : {0, 1}, plan : BOOLEAN, ledger : {0, 1},
     tested : {0} \cup 1..MaxStamp, merit : {"none"} \cup Merits,
     summaryVerdict : {"none", "failed"} \cup Merits]
ThreadStates ==
    {"none", "select", "selecting", "backtest", "backtesting", "done", "failed"}
WorkOK ==
    /\ status \in [prepare : Statuses, train : Statuses,
                   select : [Candidates -> Statuses], backtest : [Candidates -> Statuses]]
    /\ thread \in [Candidates -> ThreadStates]
    /\ job \in [Candidates -> {"none"} \cup SelectWrites \cup BacktestWrites]
SearchTypeOK ==
    /\ pc \in {"down", "prepare", "train", "load", "topk", "judge", "qa", "next", "finished"}
    /\ force \in BOOLEAN /\ resume \in BOOLEAN /\ redone \in BOOLEAN
    /\ runs \in Nat /\ launched \in Nat /\ matrix \in {0} \cup 1..MaxStamp
    /\ DOMAIN rank = Candidates
    /\ patched \subseteq Candidates \X {"registry", "summary"}
    /\ comparison.rows \subseteq Candidates
    /\ WorkOK
    /\ out \in [Candidates -> Output]

\* What is written first is there before anything is appended.
FirstWriteGuards(c) ==
    /\ job[c] \in {"registry", "predictions"} => out[c].alias /\ out[c].predictions = 0
    /\ job[c] = "ledger" => out[c].plan
    /\ (~force /\ ~out[c].alias) => out[c].predictions = 0
    /\ (~force /\ (~out[c].alias \/ job[c] = "registry")) => out[c].models = 0
    /\ (~force /\ (~out[c].plan \/ job[c] = "ledger")) => out[c].ledger = 0

\* Threads are at work during the top-K phase only, each on a job of its own step.
ThreadHasItsJob(c) ==
    /\ pc \in {"prepare", "train", "load"} => thread[c] = "none"
    /\ ~(rank[c] > 0) => thread[c] = "none"
    /\ thread[c] \in {"selecting", "backtesting"} => pc = "topk"
    /\ thread[c] = "selecting" => job[c] \in SelectWrites
    /\ thread[c] = "backtesting" => job[c] \in BacktestWrites

\* Once prepared a matrix stays, unless the search is started over: no job is at
\* work on a candidate and no step has succeeded before it is.
Prepared == status.prepare = "succeeded"
MatrixIsPrepared ==
    /\ pc \notin {"down", "prepare"} => Prepared
    /\ (runs = 0 \/ (pc = "prepare" /\ ~resume)) => ~Prepared
    /\ ~Prepared => comparison = NoComparison
NothingBefore(c) ==
    ~Prepared => /\ job[c] = "none" /\ status.select[c] # "succeeded"
                 /\ status.backtest[c] # "succeeded"

\* How far the outputs of a candidate are those of the matrix.
Selected(c) == out[c].stamp = matrix
Tested(c) == Selected(c) /\ out[c].tested = matrix
OfThisMatrix(c) ==
    /\ job[c] = "registry" => out[c].model = matrix
    /\ job[c] \in {"predictions"} \cup BacktestWrites => Selected(c)
    /\ (status.select[c] = "succeeded" \/ thread[c] \in {"backtest", "backtesting"})
       => Selected(c)
    /\ job[c] \in {"summary", "report"} => Tested(c)
    /\ (status.backtest[c] = "succeeded" \/ thread[c] = "done") => Tested(c)

CandidateOK(c) ==
    /\ FirstWriteGuards(c) /\ ThreadHasItsJob(c)
    /\ ~redone => NothingBefore(c) /\ OfThisMatrix(c)
SearchInv ==
    /\ SearchTypeOK
    /\ pc # "down" => runs > 0
    /\ ~redone => MatrixIsPrepared
    /\ \A c \in Candidates : CandidateOK(c)
    /\ WrittenOnce /\ ComparedAreCurrent

=============================================================================
