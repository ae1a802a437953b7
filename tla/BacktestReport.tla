--------------------------- MODULE BacktestReport ---------------------------
(***************************************************************************)
(* Executions of the backtest-report job, and the program that compares    *)
(* the overlay arms by means of them.                                      *)
(*                                                                         *)
(* A job rewrites the tables of one backtest step by step, renders the     *)
(* report, and unless told not to checks, diagnoses and analyses what is   *)
(* there.  The overlay program submits one job per arm, one after the      *)
(* other or all at once, waits for them or does not, and compares what it  *)
(* finds with the baseline.  It may be killed while its jobs go on, and be *)
(* started again under the same run version; the predictions it all rests  *)
(* on may be rewritten at any time.                                        *)
(*                                                                         *)
(* The three SQL steps up to the order plan are one step on the targets,   *)
(* trades, positions and ledger state go with the NAV (Promotion has the   *)
(* statements one by one).                                                 *)
(***************************************************************************)
EXTENDS Integers, Sequences, FiniteSets

CONSTANTS
    TailRiskArms,  \* TAIL_RISK_ARMS, in order
    MarketArm,     \* the arm whose overlay acts in the ledger only
    Requests,      \* how the overlay program may be started
    ByHand,        \* jobs on the baseline somebody starts: with or without force
    Budgets,       \* bound: overlay programs, jobs by hand, failing steps and rewrites
                   \* of the predictions a behaviour may have
    MaxLeft        \* bound: jobs that still run when the program is started again

Base == "baseline"
ArmNames == {TailRiskArms[i] : i \in DOMAIN TailRiskArms}
Backtests == {Base} \cup ArmNames

ASSUME ArmsAssumption ==
    /\ TailRiskArms \in Seq(ArmNames) /\ MarketArm \in ArmNames /\ Base \notin ArmNames
    /\ \A i, k \in DOMAIN TailRiskArms : TailRiskArms[i] = TailRiskArms[k] => i = k

ASSUME StartsAssumption ==
    /\ Requests \subseteq [parallel : BOOLEAN, wait : BOOLEAN, force : BOOLEAN]
    /\ ByHand \subseteq BOOLEAN

VARIABLES
    source,     \* version of the predictions
    out,        \* backtest -> what its tables hold: sets of contents
    jobs,       \* the executions, in the order they were started
    over,       \* the overlay program
    budget,     \* what is left of it
    rewritten,  \* history: the predictions changed since the overlay program began
    analysed    \* history: what tail-risk analyses read, and what their QA found

reportVars == <<source, out, jobs, over, budget, rewritten, analysed>>

\* What a job writes: by which job, and from which predictions.
Content(j, from) == [job |-> j, source |-> from]
Empty == [target |-> {}, nav |-> {}, summary |-> {}, uris |-> {}]
Spend(what) == budget[what] > 0 /\ budget' = [budget EXCEPT ![what] = @ - 1]
NotStarted == [at |-> "idle", own |-> <<>>, arm |-> 0]
Terminal == {"done", "failed"}

ReportInit ==
    /\ source = 0 /\ jobs = <<>> /\ over = NotStarted
    /\ LET c == {Content(0, 0)}
           computed == [target |-> c, nav |-> c, summary |-> c, uris |-> {"report"}]
       IN out = [b \in Backtests |-> IF b = Base THEN computed ELSE Empty]
    /\ budget \in Budgets /\ rewritten = FALSE /\ analysed = {}

-----------------------------------------------------------------------------
(* The job: main of backtest_report.                                       *)

Job(b, force, full) ==
    [backtest |-> b, force |-> force, full |-> full, at |-> "targets",
     pre |-> <<>>, read |-> {}, post |-> <<>>]

\* Job j goes on to another step, or ends.
To(j, at) ==
    jobs' = [jobs EXCEPT ![j] = IF at \in Terminal THEN [@ EXCEPT !.at = at, !.pre = <<>>,
                                                          !.read = {}, !.post = <<>>]
                                ELSE [@ EXCEPT !.at = at]]
Tables(j) == out[jobs[j].backtest]
Write(j, table, contents) == out' = [out EXCEPT ![jobs[j].backtest][table] = contents]

Aside == UNCHANGED <<source, over, rewritten>>

\* build_candidates, build_portfolio_targets, build_order_plan: what is there is
\* refused or replaced.
BuildTargets(j) ==
    /\ jobs[j].at = "targets"
    /\ IF jobs[j].force \/ Tables(j).target = {}
       THEN /\ Write(j, "target", {Content(j, source)})
            /\ To(j, IF jobs[j].force THEN "clear" ELSE "simulate")
       ELSE To(j, "failed") /\ UNCHANGED out
    /\ Aside /\ UNCHANGED <<budget, analysed>>

\* run_ledger with force_replace: the ledger and the summary go.
ClearLedger(j) ==
    /\ jobs[j].at = "clear" /\ To(j, "simulate")
    /\ out' = [out EXCEPT ![jobs[j].backtest] = [Empty EXCEPT !.target = Tables(j).target]]
    /\ Aside /\ UNCHANGED <<budget, analysed>>

\* run_ledger appends what it simulates from the targets it finds.
Simulate(j) ==
    /\ jobs[j].at = "simulate" /\ To(j, "metrics")
    /\ Write(j, "nav", Tables(j).nav \cup {Content(j, t.source) : t \in Tables(j).target})
    /\ Aside /\ UNCHANGED <<budget, analysed>>

\* build_metrics_and_report_inputs
Metrics(j) ==
    /\ jobs[j].at = "metrics"
    /\ IF jobs[j].force \/ Tables(j).summary = {}
       THEN /\ out' = [out EXCEPT ![jobs[j].backtest].uris = {},
                  ![jobs[j].backtest].summary = {Content(j, n.source) : n \in Tables(j).nav}]
            /\ To(j, "report")
       ELSE To(j, "failed") /\ UNCHANGED out
    /\ Aside /\ UNCHANGED <<budget, analysed>>

\* render_report reads the summary, and at its end writes a URI into it: into
\* whatever summary is there by then, and nowhere if there is none.
Render(j) ==
    /\ jobs[j].at = "report" /\ To(j, IF Tables(j).summary = {} THEN "failed" ELSE "rendered")
    /\ Aside /\ UNCHANGED <<out, budget, analysed>>

Patch(j, uri) == IF Tables(j).summary = {} THEN UNCHANGED out
                 ELSE Write(j, "uris", Tables(j).uris \cup {uri})

PublishReport(j) ==
    /\ jobs[j].at = "rendered" /\ To(j, IF jobs[j].full THEN "qa" ELSE "done")
    /\ Patch(j, "report")
    /\ Aside /\ UNCHANGED <<budget, analysed>>

\* One NAV row a day, and a summary.
Sound(b) == \E n \in out[b].nav : out[b].nav = {n} /\ out[b].summary # {}

\* qa_runner_outputs and the QA of the ledger: also the report must be published.
CheckOutputs(j) ==
    /\ jobs[j].at = "qa"
    /\ To(j, IF Sound(jobs[j].backtest) /\ "report" \in Tables(j).uris THEN "diagnose" ELSE "failed")
    /\ Aside /\ UNCHANGED <<out, budget, analysed>>

\* diagnose_model_quality patches the summary; its QA wants one to be there.
Diagnose(j) ==
    /\ jobs[j].at = "diagnose" /\ To(j, IF Tables(j).summary = {} THEN "failed" ELSE "guard")
    /\ Patch(j, "diagnosis")
    /\ Aside /\ UNCHANGED <<budget, analysed>>

\* What fetch_ads_readonly_guard hashes: NAV and summary, with its URIs.
Hash(j) == <<Tables(j).nav, Tables(j).summary, Tables(j).uris>>

\* analyze_tail_risk hashes before and after.  Without a summary it fails, and
\* the job goes on without it.
HashBefore(j) ==
    /\ jobs[j].at = "guard"
    /\ IF Tables(j).summary = {} THEN To(j, "done")
       ELSE jobs' = [jobs EXCEPT ![j].at = "analyse", ![j].pre = Hash(j)]
    /\ Aside /\ UNCHANGED <<out, budget, analysed>>

Analyse(j) ==
    /\ jobs[j].at = "analyse"
    /\ jobs' = [jobs EXCEPT ![j].at = "hash", ![j].read = Tables(j).nav]
    /\ Aside /\ UNCHANGED <<out, budget, analysed>>

\* Mutant: only the hashes afterwards are taken.
HashOnce(j) ==
    /\ jobs[j].at = "hash"
    /\ jobs' = [jobs EXCEPT ![j].at = "tail_qa", ![j].post = Hash(j)]
    /\ Aside /\ UNCHANGED <<out, budget, analysed>>

\* A changed hash fails the job, any other failure of the analysis does not.
HashAfter(j) ==
    /\ jobs[j].at = "hash"
    /\ IF Hash(j) # jobs[j].pre THEN To(j, "failed")
       ELSE jobs' = [jobs EXCEPT ![j].at = "tail_qa", ![j].post = Hash(j)]
    /\ Aside /\ UNCHANGED <<out, budget, analysed>>

\* qa_tail_risk_outputs with the hashes the guard has left.
TailRiskQa(j) ==
    /\ jobs[j].at = "tail_qa"
    /\ IF Hash(j) = jobs[j].post
       THEN To(j, "done") /\ analysed' = analysed \cup {[read |-> jobs[j].read, found |-> Tables(j).nav]}
       ELSE To(j, "failed") /\ UNCHANGED analysed
    /\ Aside /\ UNCHANGED <<out, budget>>

\* Any step may raise; the analysis then fails softly.
StepFails(j) ==
    /\ jobs[j].at \notin Terminal /\ Spend("failures")
    /\ To(j, IF jobs[j].at \in {"guard", "analyse", "hash"} THEN "done" ELSE "failed")
    /\ Aside /\ UNCHANGED <<out, analysed>>

JobStep ==
    \E j \in DOMAIN jobs :
        \/ BuildTargets(j) \/ ClearLedger(j) \/ Simulate(j) \/ Metrics(j) \/ Render(j)
        \/ PublishReport(j) \/ CheckOutputs(j) \/ Diagnose(j) \/ HashBefore(j) \/ Analyse(j)
        \/ HashAfter(j) \/ TailRiskQa(j) \/ StepFails(j)

StartByHand ==
    /\ \E force \in ByHand : jobs' = Append(jobs, Job(Base, force, TRUE))
    /\ Spend("byHand") /\ Aside /\ UNCHANGED <<out, analysed>>

-----------------------------------------------------------------------------
(* The overlay program: main of tail_risk_overlay_ab.                      *)

Outside == UNCHANGED <<source, out, analysed>>
Over(at) == over' = [over EXCEPT !.at = at]
Ended == over.at \in {"idle", "succeeded", "failed", "killed"}
Busy(b) == \E j \in DOMAIN jobs : jobs[j].backtest = b /\ jobs[j].at \notin Terminal
BusyArms == {i \in DOMAIN TailRiskArms : Busy(TailRiskArms[i])}

\* resolve_synthetic_source, resolve_baseline, and the preflight QA.  Clean: no job of
\* an earlier start still runs.
StartOverlay(r) ==
    /\ Ended /\ Spend("overlay")
    /\ out[Base].summary # {} /\ Cardinality(BusyArms) <= MaxLeft
    /\ over' = [at |-> "submit", own |-> <<>>, arm |-> 1, wait |-> r.wait, force |-> r.force,
                parallel |-> r.parallel, clean |-> BusyArms = {}, lost |-> FALSE, failed |-> FALSE]
    /\ rewritten' = FALSE /\ Outside /\ UNCHANGED jobs

\* gcloud run jobs execute of the next arm.  In parallel all are begun first.
Submit ==
    /\ over.at = "submit"
    /\ jobs' = Append(jobs, Job(TailRiskArms[over.arm], over.force, FALSE))
    /\ LET own == Append(over.own, Len(jobs) + 1)
           all == Len(own) = Len(TailRiskArms)
       IN over' = [over EXCEPT !.own = own,
                       !.at = IF over.parallel /\ ~all THEN "submit" ELSE "wait",
                       !.arm = IF ~over.parallel THEN @ ELSE IF all THEN 1 ELSE @ + 1]
    /\ Outside /\ UNCHANGED <<budget, rewritten>>

LastArm == over.arm = Len(TailRiskArms)

\* What gcloud returns: without --wait at once, with it when the execution is over;
\* or it loses the execution, and a describe finds out what has become of it.
State(j) ==
    CASE jobs[j].at = "done" -> "succeeded" [] jobs[j].at = "failed" -> "failed"
      [] OTHER -> "running"

\* Mutant: an execution that is found running has not failed.
NotFailed(j, lost) == State(j) # "failed"

\* cloud_run_result
Result(j, lost) == IF lost THEN State(j) = "succeeded" ELSE ~over.wait \/ State(j) = "succeeded"

\* Mutant: the first failure is raised at once.
CollectFirst(ok, lost) ==
    over' = [over EXCEPT
        !.lost = @ \/ lost,
        !.at = IF ~ok THEN "failed" ELSE IF over.parallel /\ ~LastArm THEN "wait" ELSE "qa",
        !.arm = IF ~over.parallel THEN @ ELSE IF LastArm THEN 1 ELSE @ + 1]

\* run_arm raises at a failure, run_arms_parallel when it has heard of all.
Collect(ok, lost) ==
    LET failed == over.failed \/ ~ok IN
    over' = [over EXCEPT
        !.lost = @ \/ lost, !.failed = failed,
        !.at = IF over.parallel /\ ~LastArm THEN "wait" ELSE IF failed THEN "failed" ELSE "qa",
        !.arm = IF ~over.parallel THEN @ ELSE IF LastArm THEN 1 ELSE @ + 1]

\* gcloud returns, or fails though it has started the execution (at most once).
Communicate(lost) ==
    LET j == over.own[over.arm] IN
    /\ over.at = "wait"
    /\ IF lost THEN ~over.lost ELSE over.wait => State(j) # "running"
    /\ Collect(Result(j, lost), lost)
    /\ Outside /\ UNCHANGED <<jobs, budget, rewritten>>

\* run_standard_arm_qa, after an arm or after all of them.
ArmQa ==
    /\ over.at = "qa"
    /\ IF ~Sound(TailRiskArms[over.arm]) THEN Over("failed")
       ELSE over' = [over EXCEPT
                !.at = IF LastArm THEN "compare"
                       ELSE IF over.parallel THEN "qa" ELSE "submit",
                !.arm = IF LastArm THEN @ ELSE @ + 1]
    /\ Outside /\ UNCHANGED <<jobs, budget, rewritten>>

SourcesOf(rows) == {r.source : r \in rows}

\* qa_tail_risk_overlay_ab_outputs: every summary is there, and the market arm has
\* the candidates and targets of the baseline.
OverlayOutputs ==
    /\ \A b \in Backtests : out[b].summary # {}
    /\ SourcesOf(out[MarketArm].target) = SourcesOf(out[Base].target)

Compare ==
    /\ over.at = "compare" /\ Over(IF OverlayOutputs THEN "succeeded" ELSE "failed")
    /\ Outside /\ UNCHANGED <<jobs, budget, rewritten>>

\* Killed, or an SQL step raises: the jobs go on.
Killed ==
    /\ ~Ended /\ Over("killed")
    /\ Outside /\ UNCHANGED <<jobs, budget, rewritten>>

\* The synthetic merge is run again with --force-replace.
Rewrite ==
    /\ Spend("rewrites")
    /\ source' = source + 1 /\ rewritten' = TRUE
    /\ UNCHANGED <<out, jobs, over, analysed>>

ReportNext ==
    \/ JobStep \/ StartByHand \/ Submit \/ ArmQa \/ Compare
    \/ Killed \/ Rewrite
    \/ \E r \in Requests : StartOverlay(r)
    \/ \E lost \in BOOLEAN : Communicate(lost)

ReportSpec == ReportInit /\ [][ReportNext]_reportVars

-----------------------------------------------------------------------------
(* Properties.                                                             *)

\* A comparison that waited for its arms and succeeded compares what its own
\* jobs wrote, all of it from the predictions the baseline was computed from:
\* whatever an earlier start left in the tables, however gcloud fails.  Only
\* jobs an earlier start left running, and predictions that are rewritten
\* while the arms run, can break it.
ComparesItsOwn ==
    over.at = "succeeded" /\ over.wait /\ over.clean /\ ~rewritten =>
        \A i \in DOMAIN TailRiskArms :
            /\ \A table \in {"target", "nav", "summary"} :
                   {c.job : c \in out[TailRiskArms[i]][table]} = {over.own[i]}
            /\ SourcesOf(out[TailRiskArms[i]].summary) = SourcesOf(out[Base].target)

\* An overlay program that waits and ends by itself leaves none of its jobs
\* running, in parallel too, unless gcloud has lost one.
NothingRunsOn ==
    over.at \in {"succeeded", "failed"} /\ over.wait /\ over.clean /\ ~over.lost => BusyArms = {}

\* The NAV a tail-risk analysis has read is the NAV its QA finds, although
\* another job may rewrite the backtest at any moment.
AnalysedIsCurrent == \A a \in analysed : a.read = a.found

-----------------------------------------------------------------------------
(* What makes them inductive.                                              *)

Steps == {"targets", "clear", "simulate", "metrics", "report", "rendered", "qa", "diagnose",
          "guard", "analyse", "hash", "tail_qa"} \cup Terminal
Phases == {"submit", "wait", "qa", "compare", "succeeded", "failed", "killed"}
Contents == [job : Nat, source : Nat]
Hashes == (SUBSET Contents) \X (SUBSET Contents) \X (SUBSET {"report", "diagnosis"})
Jobs == [backtest : Backtests, force : BOOLEAN, full : BOOLEAN, at : Steps,
         pre : {<<>>} \cup Hashes, read : SUBSET Contents, post : {<<>>} \cup Hashes]
Programs == [at : Phases, own : Seq(Nat), arm : Nat, wait : BOOLEAN, force : BOOLEAN,
             parallel : BOOLEAN, clean : BOOLEAN, lost : BOOLEAN, failed : BOOLEAN]
ReportTypeOK ==
    /\ source \in Nat /\ jobs \in Seq(Jobs) /\ over \in {NotStarted} \cup Programs
    /\ out \in [Backtests -> [target : SUBSET Contents, nav : SUBSET Contents,
                             summary : SUBSET Contents, uris : SUBSET {"report", "diagnosis"}]]
    /\ rewritten \in BOOLEAN
    /\ analysed \subseteq [read : SUBSET Contents, found : SUBSET Contents]

\* The tables of a backtest fill in one order.
InOrder(b) ==
    /\ out[b].target = {} => out[b].nav = {}
    /\ out[b].nav = {} => out[b].summary = {}

\* What is in a NAV was written by a job that will not write it again.
Written(c) ==
    c.job = 0 \/ (c.job \in DOMAIN jobs /\ jobs[c.job].at \notin {"targets", "clear", "simulate"})
NavWritten(b) == \A c \in out[b].nav : Written(c)

\* A NAV that was there, and does not come back: cleared or added to since.
Gone(b, nav) == out[b].nav \cap nav = {} \/ (nav \subseteq out[b].nav /\ nav # out[b].nav)

Guarded(j) ==
    /\ jobs[j].at \in {"analyse", "hash"} =>
         /\ jobs[j].pre \in Hashes
         /\ jobs[j].pre[1] # {} /\ \A c \in jobs[j].pre[1] : Written(c)
         /\ Tables(j).nav = jobs[j].pre[1] \/ Gone(jobs[j].backtest, jobs[j].pre[1])
    /\ jobs[j].at = "hash" =>
         jobs[j].read = jobs[j].pre[1] \/ Gone(jobs[j].backtest, jobs[j].pre[1])
    /\ jobs[j].at = "tail_qa" => jobs[j].post \in Hashes /\ jobs[j].read = jobs[j].post[1]
    /\ ~jobs[j].full => jobs[j].at \notin {"qa", "diagnose", "guard", "analyse", "hash", "tail_qa"}

\* Where the overlay program is among its arms.
Advances ==
    /\ Len(over.own) <= Len(TailRiskArms)
    /\ over.at \in {"submit", "wait", "qa"} => over.arm \in DOMAIN TailRiskArms
    /\ over.at = "submit" => Len(over.own) = over.arm - 1
    /\ over.at \in {"wait", "qa"} =>
         Len(over.own) = IF over.parallel THEN Len(TailRiskArms) ELSE over.arm
    /\ over.at \in {"compare", "succeeded"} => Len(over.own) = Len(TailRiskArms)
    /\ over.at \in {"submit", "qa", "compare", "succeeded"} => ~over.failed
Owns ==
    \A i \in DOMAIN over.own :
        /\ over.own[i] \in DOMAIN jobs /\ jobs[over.own[i]].backtest = TailRiskArms[i]
        /\ ~jobs[over.own[i]].full
OnlyOwn ==
    over.at # "idle" /\ over.clean =>
        \A j \in DOMAIN jobs :
            jobs[j].backtest \in ArmNames /\ jobs[j].at \notin Terminal =>
                \E i \in DOMAIN over.own : over.own[i] = j

\* What the program has waited for is over.
Collected(i) ==
    \/ over.at = "submit" /\ ~over.parallel
    \/ over.at = "wait" /\ i < over.arm
    \/ over.at \in {"qa", "compare", "succeeded", "failed"}
Waited ==
    over.at # "idle" /\ over.wait =>
        \A i \in DOMAIN over.own : Collected(i) =>
            /\ ~over.lost => jobs[over.own[i]].at \in Terminal
            /\ ~over.failed /\ over.at # "failed" => jobs[over.own[i]].at = "done"

\* Without jobs of an earlier start, and as long as the predictions stay, an arm has what its
\* own job has written.
OwnOutput(i) ==
    LET b == TailRiskArms[i] mine == {Content(over.own[i], source)} at == jobs[over.own[i]].at IN
    /\ at \in {"clear", "simulate", "metrics", "report", "rendered", "done"} => out[b].target = mine
    /\ at = "simulate" => out[b].nav = {} /\ out[b].summary = {}
    /\ at \in {"metrics", "report", "rendered", "done"} => out[b].nav = mine
    /\ at \in {"report", "rendered", "done"} => out[b].summary = mine
Undisturbed == over.at # "idle" /\ over.clean /\ ~rewritten
OverlayTrue ==
    Undisturbed =>
        /\ \A i \in DOMAIN over.own : OwnOutput(i)
        /\ over.at = "succeeded" /\ over.wait => SourcesOf(out[Base].target) = {source}

ReportInv ==
    /\ ReportTypeOK /\ \A b \in Backtests : InOrder(b) /\ NavWritten(b)
    /\ \A j \in DOMAIN jobs : Guarded(j)
    /\ Advances /\ Owns /\ OnlyOwn /\ Waited /\ OverlayTrue /\ AnalysedIsCurrent
=============================================================================
