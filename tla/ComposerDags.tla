------------------------------ MODULE ComposerDags ------------------------------
(***************************************************************************)
(* The Composer DAGs that ran the data pipeline before the workflows, kept *)
(* for audit and rollback: the single daily DAG, and the ingestion, window *)
(* refresh and full rebuild DAGs it was split into.  Airflow runs a task   *)
(* when its trigger rule allows it, marks it skipped or upstream_failed    *)
(* when it never can, and fails a run one of whose last tasks failed.      *)
(* The DAGs read their parameters from the run's conf and, where that has  *)
(* none, from Airflow Variables, each time anew in every task.             *)
(***************************************************************************)
EXTENDS Integers, Sequences, FiniteSets, TLC

CONSTANTS
  Starts,        \* runs somebody starts: DAG, parameters, and the first values of
                 \* dryVar and partition
  Finance,       \* the financial DWD tables: dwd_fin_indicator, dwd_fin_income,
                 \* dwd_fin_balancesheet, dwd_fin_cashflow
  MaxFailures,   \* bound: tasks that fail, callbacks that are lost
  MaxFlips       \* bound: Variables that are set while runs go on

\* The parameters of a run: mode, dry ({} where the conf has no such key), skipTransform,
\* skipIngestion, skipDownstream, trigger and confirm, and two facts about it: gated
\* (scheduled, or force_non_trading_day_gate) and open (a trading day).

VARIABLES
  conf,       \* per DAG with a run: the parameters of the run
  source,     \* the DAG that triggered it, or "by hand"
  state,      \* per DAG, per task: its state in Airflow, "none" before it has one
  row,        \* per DAG: status of the run in pipeline_run
  exempt,     \* tasks with the status "skipped" in pipeline_task_status
  ended,      \* DAGs whose run is over
  dryVar,     \* Variable ashare_pipeline_dry_run
  legacyVar,  \* Variable ashare_enable_full_refresh
  partition,  \* whether the partitions of the business date are in the ODS
  failures, flips

dagVars == <<conf, source, state, row, exempt, ended, dryVar, legacyVar, partition, failures, flips>>

Dags == {"ashare_daily_pipeline_v0", "ashare_ods_ingestion_daily",
         "ashare_warehouse_window_refresh", "ashare_warehouse_full_rebuild"}
Daily == "ashare_daily_pipeline_v0"
Ingestion == "ashare_ods_ingestion_daily"
Window == "ashare_warehouse_window_refresh"
Rebuild == "ashare_warehouse_full_rebuild"

ASSUME DagsAssumption == \A s \in Starts : s[1] \in Dags

-----------------------------------------------------------------------------
(* Groups of tasks: a set of edges; tasks without edges have one with "". *)

In(g, t) == g \o "." \o t
Chain(g, ts) == {<<In(g, ts[i]), In(g, ts[i + 1])>> : i \in 1..(Len(ts) - 1)}
Alone(g, ts) == {<<In(g, t), "">> : t \in ts}
Fan(g, from, to) == {<<In(g, a), In(g, b)>> : a \in from, b \in to}

TasksOf(edges) == (UNION {{e[1], e[2]} : e \in edges}) \ {""}
Roots(edges) == {t \in TasksOf(edges) : \A e \in edges : e[2] # t}
Leaves(edges) == {t \in TasksOf(edges) : \A e \in edges : e[1] = t => e[2] = ""}

\* a >> b of two groups
Before(a, b) == {<<x, y>> : x \in Leaves(a), y \in Roots(b)}
Then(a, b) == a \cup b \cup Before(a, b)
Task(t) == {<<t, "">>}

SetupGroup ==
  Chain("setup", <<"ensure_datasets", "ensure_meta_tables", "ensure_unit_contract_map">>)
    \cup Chain("setup", <<"ensure_datasets", "ensure_index_external_table_uris">>)

QaChain(g) ==
  Chain(g, <<"core_smoke_checks", "strategy1_dws_ads_checks", "index_benchmark_checks",
             "finance_caliber_checks", "unit_contract_checks">>)

DimGroup(g) ==
  Chain(g, <<"dim_trade_calendar", "dim_stock", "dim_stock_name_hist">>)
    \cup Chain(g, <<"dim_stock", "dim_index">>)

DwdGroup ==
  Chain("dwd", <<"dwd_stock_eod_price", "dwd_stock_eod_valuation">>)
    \cup Alone("dwd", {"dwd_index_eod"})
    \cup UNION {Chain("dwd", <<f, f \o "_latest">>) : f \in Finance}

\* Mutant: the sample does not wait for the label.
DwsGroupLoose ==
  Fan("dws", {"dws_stock_universe_daily"},
      {"dws_stock_feature_price_daily", "dws_stock_feature_valuation_daily",
       "dws_stock_label_daily", "dws_stock_feature_fin_daily"})
    \cup Fan("dws", {"dws_stock_feature_price_daily", "dws_stock_feature_valuation_daily"},
             {"dws_stock_feature_daily_v0"})
    \cup Fan("dws", {"dws_stock_feature_daily_v0"}, {"dws_stock_sample_daily"})

DwsGroup ==
  Fan("dws", {"dws_stock_universe_daily"},
      {"dws_stock_feature_price_daily", "dws_stock_feature_valuation_daily",
       "dws_stock_label_daily", "dws_stock_feature_fin_daily"})
    \cup Fan("dws", {"dws_stock_feature_price_daily", "dws_stock_feature_valuation_daily"},
             {"dws_stock_feature_daily_v0"})
    \cup Fan("dws", {"dws_stock_feature_daily_v0", "dws_stock_label_daily"},
             {"dws_stock_sample_daily"})

MetadataGroup == Chain("metadata", <<"core_column_descriptions", "finance_column_descriptions">>)
WindowedMetadata == Alone("windowed_metadata", {"core_column_descriptions"})

WindowedTransform ==
  Chain("windowed_transform",
        <<"index_dwd_window", "windowed_index_refresh_checks", "stock_dwd_dws_window",
          "windowed_stock_refresh_checks", "market_state_dws", "market_state_checks">>)

-----------------------------------------------------------------------------
(* The DAGs *)

IngestionTasks ==
  Alone("ingestion", {"ingest_current_scope_dry_run", "ingest_current_scope_write"})

\* From the start to the readiness check, of the DAGs that ingest.
Ingest(first) ==
  LET gate == Then(Then(first, Task("pipeline_start_status")), Task("non_trading_day_gate"))
      ready == Then(Then(Task("branch_ingestion"), IngestionTasks),
                    Task("ods_daily_partition_readiness"))
  IN gate \cup ready
       \cup {<<"non_trading_day_gate", "branch_ingestion">>,
             <<"non_trading_day_gate", "skip_non_trading_day">>,
             <<"branch_ingestion", "ods_daily_partition_readiness">>}

IngestionDag ==
  Ingest(SetupGroup)
    \cup {<<"ods_daily_partition_readiness", "branch_downstream_refresh">>,
          <<"branch_downstream_refresh", "trigger_warehouse_window_refresh">>,
          <<"branch_downstream_refresh", "skip_downstream_refresh">>,
          <<"skip_non_trading_day", "pipeline_finalize_status">>,
          <<"trigger_warehouse_window_refresh", "pipeline_finalize_status">>,
          <<"skip_downstream_refresh", "pipeline_finalize_status">>}

Refresh == Then(Then(DimGroup("windowed_dim"), WindowedMetadata), WindowedTransform)

WindowDag ==
  Then(Then(Then(SetupGroup, Task("pipeline_start_status")), Task("ods_daily_partition_readiness")),
       Task("branch_window_refresh"))
    \cup Then(Then(Task("run_window_refresh"), Refresh), QaChain("qa_after_window"))
    \cup Then(Task("run_qa_only"), QaChain("qa_only"))
    \cup {<<"branch_window_refresh", "run_window_refresh">>,
          <<"branch_window_refresh", "run_qa_only">>,
          <<"branch_window_refresh", "skip_window_refresh">>,
          <<"qa_after_window.unit_contract_checks", "pipeline_finalize_status">>,
          <<"qa_only.unit_contract_checks", "pipeline_finalize_status">>,
          <<"skip_window_refresh", "pipeline_finalize_status">>}

RebuildChain(metadata) ==
  Then(Then(Then(Then(Then(Task("ods_parquet_schema_p0"), DimGroup("dim")), DwdGroup), DwsGroup),
            metadata), QaChain("qa"))

RebuildEndEarly ==      \* mutant: the checks are not waited for
  {<<"metadata.finance_column_descriptions", "pipeline_finalize_status">>,
   <<"skip_full_rebuild_write", "pipeline_finalize_status">>}
RebuildEnd ==
  {<<"qa.unit_contract_checks", "pipeline_finalize_status">>,
   <<"skip_full_rebuild_write", "pipeline_finalize_status">>}
RebuildDag ==
  Then(Then(Then(SetupGroup, Task("pipeline_start_status")), Task("confirm_full_rebuild")),
       Task("branch_full_rebuild"))
    \cup Then(Task("run_full_rebuild"), RebuildChain(MetadataGroup))
    \cup {<<"branch_full_rebuild", "run_full_rebuild">>,
          <<"branch_full_rebuild", "skip_full_rebuild_write">>}
    \cup RebuildEnd

DailyRefresh ==
  Then(Then(DimGroup("windowed_dim"), WindowedMetadata),
       Chain("windowed_transform", <<"stock_dwd_dws_window", "windowed_stock_refresh_checks">>))

\* ads_contract_init is left out: its variable is off, and no table depends on it.
DailyDag ==
  Ingest(Chain("setup", <<"ensure_datasets", "ensure_meta_tables", "ensure_unit_contract_map">>))
    \cup Then(Then(Task("ods_daily_partition_readiness"), Task("full_refresh_gate")),
              RebuildChain(Alone("metadata", {"core_column_descriptions",
                                              "finance_column_descriptions"})))
    \cup Then(Then(Task("ods_daily_partition_readiness"), Task("window_refresh_gate")),
              DailyRefresh)
    \cup Then(Then(Task("ods_daily_partition_readiness"), Task("qa_only_gate")),
              QaChain("qa_only"))
    \cup {<<"ods_daily_partition_readiness", "pipeline_finalize_status">>,
          <<"qa.unit_contract_checks", "pipeline_finalize_status">>,
          <<"windowed_transform.windowed_stock_refresh_checks", "pipeline_finalize_status">>,
          <<"qa_only.unit_contract_checks", "pipeline_finalize_status">>,
          <<"skip_non_trading_day", "pipeline_finalize_status">>}

\* The function f itself; written so, TLC evaluates a constant one only once.
Table(f) == f @@ <<>>

Edges ==
  Table([d \in Dags |-> CASE d = Daily -> DailyDag [] d = Window -> WindowDag
                           [] d = Rebuild -> RebuildDag [] OTHER -> IngestionDag])
TasksIn == Table([d \in Dags |-> TasksOf(Edges[d])])
Upstream ==
  Table([d \in Dags |-> Table([t \in TasksIn[d] |-> {e[1] : e \in {f \in Edges[d] : f[2] = t}}])])
Downstream ==
  Table([d \in Dags |->
           Table([t \in TasksIn[d] |-> {e[2] : e \in {f \in Edges[d] : f[1] = t}} \ {""}])])

-----------------------------------------------------------------------------
(* The parameters, as a task reads them *)

Runs == DOMAIN conf
DryRun(d) == IF conf[d].dry = {} THEN dryVar ELSE TRUE \in conf[d].dry
Mode(d) == IF conf[d].mode = "daily_current" /\ legacyVar
             THEN "full_rebuild_compat" ELSE conf[d].mode

WindowEnabled(d) ==
  ~conf[d].skipTransform /\ ~DryRun(d) /\ Mode(d) \in {"daily_current", "backfill"}
RebuildEnabled(d) ==
  ~conf[d].skipTransform /\ ~DryRun(d) /\ Mode(d) \in {"full_rebuild", "full_rebuild_compat"}
\* of the daily DAG, which does not ask whether this is a dry run
TransformEnabled(d) ==
  ~conf[d].skipTransform /\ Mode(d) \in {"full_rebuild", "full_rebuild_compat"}
QaOnlyEnabled(d) == ~conf[d].skipTransform /\ Mode(d) = "qa_only"

-----------------------------------------------------------------------------
(* Airflow *)

Rule(d, t) ==
  IF t = "pipeline_finalize_status" \/ (t = "ods_daily_partition_readiness" /\ d # Window)
    THEN "none_failed_min_one_success" ELSE "all_success"
Bad == {"failed", "upstream_failed"}
UpStates(d, t) == {state[d][u] : u \in Upstream[d][t]}

\* What the scheduler makes of a task without running it: "none" if nothing.
TriggerMark(d, t) ==
  LET ups == UpStates(d, t) IN
  IF state[d][t] # "none" THEN "none"
  ELSE IF ups \cap Bad # {} THEN "upstream_failed"
  ELSE IF ups = {"skipped"} \/ (Rule(d, t) = "all_success" /\ "skipped" \in ups)
    THEN "skipped"
  ELSE "none"
Marked(d) == {t \in TasksIn[d] : TriggerMark(d, t) # "none"}

Ready(d, t) ==
  /\ state[d][t] = "none"
  /\ IF Rule(d, t) = "all_success" THEN UpStates(d, t) \subseteq {"success"}
       ELSE "none" \notin UpStates(d, t) /\ "success" \in UpStates(d, t)

\* The scheduler looks at all tasks before the next one runs.
Schedule(d) ==
  /\ state' = [state EXCEPT ![d] =
                 [t \in TasksIn[d] |-> IF TriggerMark(d, t) # "none" THEN TriggerMark(d, t) ELSE @[t]]]
  /\ UNCHANGED <<conf, source, row, exempt, ended, dryVar, legacyVar, partition, failures, flips>>

Succeed(d, t) == state' = [state EXCEPT ![d][t] = "success"]
SucceedSkipping(d, t, skipped) ==
  state' = [state EXCEPT ![d] = [u \in TasksIn[d] |->
              IF u = t THEN "success" ELSE IF u \in skipped THEN "skipped" ELSE @[u]]]

\* BranchPythonOperator skips what follows it directly and was not chosen.
Branch(d, t, chosen) == SucceedSkipping(d, t, Downstream[d][t] \ chosen)
\* ShortCircuitOperator, ignore_downstream_trigger_rules=False
ShortCircuit(d, t, goes) == SucceedSkipping(d, t, IF goes THEN {} ELSE Downstream[d][t])

runs == <<conf, source, exempt, ended>>
environment == <<dryVar, legacyVar, partition, failures, flips>>

NewRun(d) == [t \in TasksIn[d] |-> "none"]

DagInit ==
  \E s \in Starts :
    /\ conf = [d \in {s[1]} |-> s[2]] /\ source = [d \in {s[1]} |-> "by hand"]
    /\ state = [d \in {s[1]} |-> NewRun(d)] /\ row = [d \in {s[1]} |-> "none"]
    /\ exempt = {} /\ ended = {} /\ dryVar = s[3] /\ legacyVar = FALSE
    /\ partition = s[4] /\ failures = 0 /\ flips = 0

-----------------------------------------------------------------------------
(* The tasks, of those that are ready *)

StartStatus(d, t) ==
  /\ t = "pipeline_start_status" /\ Succeed(d, t)
  /\ row' = [row EXCEPT ![d] = "running"]
  /\ UNCHANGED <<runs, environment>>

FinalizeStatus(d, t) ==
  /\ t = "pipeline_finalize_status" /\ Succeed(d, t)
  /\ row' = [row EXCEPT ![d] = "success"]
  /\ UNCHANGED <<runs, environment>>

NonTradingDayGate(d, t) ==
  LET asks == conf[d].gated /\ (d = Daily => Mode(d) = "daily_current") IN
  /\ t = "non_trading_day_gate"
  /\ Branch(d, t, {IF asks /\ ~conf[d].open THEN "skip_non_trading_day" ELSE "branch_ingestion"})
  /\ UNCHANGED <<row, runs, environment>>

BranchIngestion(d, t) ==
  /\ t = "branch_ingestion"
  /\ Branch(d, t, {"ods_daily_partition_readiness"}
                    \cup (IF conf[d].skipIngestion THEN {}
                          ELSE IF DryRun(d) THEN {"ingestion.ingest_current_scope_dry_run"}
                          ELSE {"ingestion.ingest_current_scope_write"}))
  /\ UNCHANGED <<row, runs, environment>>

IngestWrite(d, t) ==
  /\ t = "ingestion.ingest_current_scope_write" /\ Succeed(d, t)
  /\ partition' = TRUE
  /\ UNCHANGED <<row, runs, dryVar, legacyVar, failures, flips>>

MissesPartition(d) == ~DryRun(d) /\ ~partition
Readiness(d, t) ==
  /\ t = "ods_daily_partition_readiness" /\ ~MissesPartition(d) /\ Succeed(d, t)
  /\ UNCHANGED <<row, runs, environment>>

BranchDownstream(d, t) ==
  LET skips == \/ conf[d].skipDownstream \/ DryRun(d)
               \/ conf[d].skipIngestion /\ ~conf[d].trigger
  IN /\ t = "branch_downstream_refresh"
     /\ Branch(d, t, {IF skips THEN "skip_downstream_refresh"
                      ELSE "trigger_warehouse_window_refresh"})
     /\ UNCHANGED <<row, runs, environment>>

TriggerConf(d) ==
  [conf[d] EXCEPT !.mode = "daily_current", !.dry = {FALSE}, !.skipTransform = FALSE,
                  !.skipIngestion = FALSE, !.skipDownstream = FALSE, !.trigger = FALSE,
                  !.confirm = FALSE, !.gated = FALSE]
\* The run is not waited for.
Trigger(d, t) ==
  LET With(f, w) == [e \in Runs \cup {Window} |-> IF e = Window THEN w ELSE f[e]] IN
  /\ t = "trigger_warehouse_window_refresh"
  /\ state' = With([state EXCEPT ![d][t] = "success"], NewRun(Window))
  /\ conf' = With(conf, TriggerConf(d))
  /\ source' = With(source, d)
  /\ row' = With(row, "none")
  /\ UNCHANGED <<exempt, ended, environment>>

BranchWindow(d, t) ==
  /\ t = "branch_window_refresh"
  /\ Branch(d, t, {IF QaOnlyEnabled(d) THEN "run_qa_only"
                   ELSE IF WindowEnabled(d) THEN "run_window_refresh"
                   ELSE "skip_window_refresh"})
  /\ UNCHANGED <<row, runs, environment>>

Confirmed(d) == conf[d].confirm /\ Mode(d) \in {"full_rebuild", "full_rebuild_compat"}
ConfirmRebuild(d, t) ==
  /\ t = "confirm_full_rebuild" /\ Confirmed(d) /\ Succeed(d, t)
  /\ UNCHANGED <<row, runs, environment>>

BranchRebuild(d, t) ==
  /\ t = "branch_full_rebuild"
  /\ Branch(d, t, {IF RebuildEnabled(d) THEN "run_full_rebuild" ELSE "skip_full_rebuild_write"})
  /\ UNCHANGED <<row, runs, environment>>

Gates(d, t) ==
  /\ \/ t = "full_refresh_gate" /\ ShortCircuit(d, t, TransformEnabled(d))
     \/ t = "window_refresh_gate" /\ ShortCircuit(d, t, WindowEnabled(d))
     \/ t = "qa_only_gate" /\ ShortCircuit(d, t, QaOnlyEnabled(d))
  /\ UNCHANGED <<row, runs, environment>>

Writes == 2
SkipTask(d, t) ==
  /\ t \in {"skip_non_trading_day", "skip_downstream_refresh"} /\ Succeed(d, t)
  /\ \E lost \in 0..Writes :
       /\ failures + lost <= MaxFailures /\ failures' = failures + lost
       /\ exempt' = IF lost = Writes THEN exempt ELSE exempt \cup {<<d, t>>}
  /\ UNCHANGED <<row, conf, source, ended, dryVar, legacyVar, partition, flips>>

Decisions == {"non_trading_day_gate", "branch_ingestion", "ods_daily_partition_readiness",
              "branch_downstream_refresh", "branch_window_refresh", "confirm_full_rebuild",
              "branch_full_rebuild", "full_refresh_gate", "window_refresh_gate", "qa_only_gate"}
Effects == {"pipeline_start_status", "pipeline_finalize_status", "skip_non_trading_day",
            "skip_downstream_refresh", "ingestion.ingest_current_scope_write",
            "trigger_warehouse_window_refresh"}

\* SQL scripts, the dry-run ingestion and what has nothing to do
Other(d, t) ==
  /\ t \notin Decisions \cup Effects /\ Succeed(d, t)
  /\ UNCHANGED <<row, runs, environment>>

\* A script, a job or a decision raises, as two do when what they ask for is missing;
\* nothing is tried again.
Fail(d, t) ==
  /\ state' = [state EXCEPT ![d][t] = "failed"]
  /\ \/ /\ \/ t = "ods_daily_partition_readiness" /\ MissesPartition(d)
           \/ t = "confirm_full_rebuild" /\ ~Confirmed(d)
        /\ UNCHANGED failures
     \/ failures < MaxFailures /\ failures' = failures + 1
  /\ UNCHANGED <<row, runs, dryVar, legacyVar, partition, flips>>

\* The run is over with its last task; on_failure_callback may not come through.
End(d) ==
  LET failed == state[d]["pipeline_finalize_status"] \in Bad IN
  /\ \A t \in TasksIn[d] : state[d][t] # "none"
  /\ ended' = ended \cup {d}
  /\ \/ /\ row' = IF failed THEN [row EXCEPT ![d] = "failed"] ELSE row
        /\ UNCHANGED failures
     \/ failed /\ failures < MaxFailures /\ failures' = failures + 1 /\ UNCHANGED row
  /\ UNCHANGED <<conf, source, state, exempt, dryVar, legacyVar, partition, flips>>

\* Somebody sets a Variable; after the last decision nothing reads them.
SetVariable ==
  /\ flips < MaxFlips /\ flips' = flips + 1
  /\ \E d \in Runs : \E t \in Decisions \cap TasksIn[d] : state[d][t] = "none"
  /\ \/ dryVar' = ~dryVar /\ UNCHANGED legacyVar
     \/ legacyVar' = ~legacyVar /\ UNCHANGED dryVar
  /\ UNCHANGED <<conf, source, state, row, exempt, ended, partition, failures>>

Run(d, t) ==
  \/ StartStatus(d, t) \/ FinalizeStatus(d, t) \/ NonTradingDayGate(d, t)
  \/ BranchIngestion(d, t) \/ IngestWrite(d, t) \/ Readiness(d, t) \/ BranchDownstream(d, t)
  \/ Trigger(d, t) \/ BranchWindow(d, t) \/ ConfirmRebuild(d, t) \/ BranchRebuild(d, t)
  \/ Gates(d, t) \/ SkipTask(d, t) \/ Other(d, t) \/ Fail(d, t)

DagNext ==
  \/ SetVariable
  \/ \E d \in Runs \ ended :
       IF Marked(d) # {} THEN Schedule(d)
       ELSE End(d) \/ \E t \in {u \in TasksIn[d] : Ready(d, u)} : Run(d, t)
DagSpec == DagInit /\ [][DagNext]_dagVars

-----------------------------------------------------------------------------
(* What the SQL scripts build and read, of what a DAG builds *)

AllTasks == UNION {TasksIn[d] : d \in Dags}
Of(f) == f @@ [t \in AllTasks |-> {}]

Dims == {"dim_trade_calendar", "dim_stock", "dim_stock_name_hist", "dim_index"}
Latest == [f \in Finance |-> f \o "_latest"]
Dws == {"dws_stock_universe_daily", "dws_stock_feature_price_daily",
        "dws_stock_feature_valuation_daily", "dws_stock_label_daily",
        "dws_stock_feature_daily_v0", "dws_stock_sample_daily", "dws_stock_feature_fin_daily"}
StockDwd == {"dwd_stock_eod_price", "dwd_stock_eod_valuation"}
Same(g, ts) == [t \in {In(g, x) : x \in ts} |-> {x \in ts : In(g, x) = t}]

Builds ==
  Of(Same("dim", Dims) @@ Same("windowed_dim", Dims)
     @@ Same("dwd", StockDwd \cup Finance \cup {Latest[f] : f \in Finance} \cup {"dwd_index_eod"})
     @@ Same("dws", Dws)
     @@ "windowed_transform.index_dwd_window" :> {"dwd_index_eod"}
     @@ "windowed_transform.stock_dwd_dws_window" :> (StockDwd \cup Dws)
     @@ "windowed_transform.market_state_dws" :> {"dws_market_state_daily"})

DwdReads ==
  [t \in {In("dwd", f) : f \in Finance} |-> {"dim_trade_calendar"}]
    @@ [t \in {In("dwd", Latest[f]) : f \in Finance} |-> {f \in Finance : In("dwd", Latest[f]) = t}]
    @@ "dwd.dwd_stock_eod_price" :> {"dim_stock", "dim_trade_calendar"}
    @@ "dwd.dwd_index_eod" :> {"dim_index"}
DwsReads ==
  "dws.dws_stock_universe_daily" :> {"dim_stock", "dim_stock_name_hist", "dim_trade_calendar",
                                     "dwd_stock_eod_price"}
    @@ "dws.dws_stock_feature_price_daily" :> {"dwd_stock_eod_price"}
    @@ "dws.dws_stock_feature_valuation_daily" :> {"dwd_stock_eod_valuation"}
    @@ "dws.dws_stock_label_daily" :> {"dim_trade_calendar", "dwd_stock_eod_price",
                                       "dws_stock_universe_daily"}
    @@ "dws.dws_stock_feature_daily_v0" :>
         {"dws_stock_feature_price_daily", "dws_stock_feature_valuation_daily",
          "dws_stock_universe_daily"}
    @@ "dws.dws_stock_sample_daily" :> {"dws_stock_feature_daily_v0", "dws_stock_label_daily"}
    @@ "dws.dws_stock_feature_fin_daily" :> (Finance \cup {"dws_stock_universe_daily"})
WindowReads ==
  "windowed_transform.index_dwd_window" :> {"dim_index"}
    @@ "windowed_transform.windowed_index_refresh_checks" :> {"dwd_index_eod"}
    @@ "windowed_transform.stock_dwd_dws_window" :> (Dims \cup Finance)
    @@ "windowed_transform.windowed_stock_refresh_checks" :> (StockDwd \cup Dws)
    @@ "windowed_transform.market_state_dws" :>
         {"dim_trade_calendar", "dwd_index_eod", "dwd_stock_eod_price",
          "dws_stock_feature_daily_v0"}
    @@ "windowed_transform.market_state_checks" :> {"dws_market_state_daily"}
QaReads ==
  [t \in {In("qa", "core_smoke_checks"), In("qa", "strategy1_dws_ads_checks")} |->
     StockDwd \cup Dws] @@ In("qa", "index_benchmark_checks") :> {"dwd_index_eod"}
    @@ In("qa", "finance_caliber_checks") :> (Finance \cup {Latest[f] : f \in Finance})
Reads == Of(DwdReads @@ DwsReads @@ WindowReads @@ QaReads)

-----------------------------------------------------------------------------
(* Properties *)

Paths == {TasksOf(RebuildChain(MetadataGroup)), TasksOf(DailyRefresh), TasksOf(Refresh)}
\* Of a path: which task reads what which other one builds.
Needs ==
  UNION {{n \in p \X p : n[1] # n[2] /\ Reads[n[1]] \cap Builds[n[2]] # {}} : p \in Paths}

\* Along a path of refresh tasks no table is built once a task of the path has read it:
\* the edges of the DAGs order every reader after every builder, as the SQL scripts need.
BuiltBeforeRead ==
  \A d \in Runs, n \in Needs :
    {n[1], n[2]} \subseteq TasksIn[d] /\ state[d][n[1]] = "success"
      => state[d][n[2]] \in {"success", "skipped"}

\* A run recorded as a success has nothing left to do and nothing that failed in it,
\* and each path it entered was gone through to its end.
WholeSuccess ==
  \A d \in Runs : row[d] = "success" =>
    /\ \A t \in TasksIn[d] : state[d][t] \in {"success", "skipped"}
    /\ \A p \in Paths : p \subseteq TasksIn[d] =>
         Cardinality({state[d][t] : t \in p}) = 1

-----------------------------------------------------------------------------
(* What the proofs ask of the graphs.  They fall into sections: a section  *)
(* begins at a task a branch may skip, or at one that does not need all    *)
(* tasks before it, and whatever becomes of its head becomes of the rest.  *)

Final == "pipeline_finalize_status"
Forks == {"branch_ingestion", "non_trading_day_gate", "branch_downstream_refresh",
            "branch_window_refresh", "branch_full_rebuild",
            "full_refresh_gate", "window_refresh_gate", "qa_only_gate"}
MaySkip(d, t) ==
  Downstream[d][t] \ (IF t = "branch_ingestion" THEN {"ods_daily_partition_readiness"} ELSE {})
MaySkipAny(d) == UNION {MaySkip(d, t) : t \in Forks \cap TasksIn[d]}
Heads(d) == MaySkipAny(d) \cup {t \in TasksIn[d] : Rule(d, t) # "all_success"}

\* The tasks before t, up to the nearest of the given ones.
Above(d, from) ==
  LET upTo[n \in Nat] ==
        IF n = 0 THEN [t \in TasksIn[d] |-> {}]
        ELSE LET last == upTo[n - 1]
             IN Table([t \in TasksIn[d] |->
                         IF t \in from THEN {}
                         ELSE UNION {last[u] \cup {u} : u \in Upstream[d][t]}])
  IN upTo[Cardinality(TasksIn[d])]

Inside == Table([d \in Dags |-> Above(d, Heads(d))])
Section ==
  Table([d \in Dags |-> Table([t \in TasksIn[d] |->
           LET heads == Heads(d) \cap ({t} \cup Inside[d][t])
           IN IF heads = {} THEN "" ELSE CHOOSE h \in heads : TRUE])])
Depth ==
  Table([d \in Dags |-> LET above == Above(d, {})
                        IN Table([t \in TasksIn[d] |-> Cardinality(above[t])])])

\* Every task leads to the end, a branch skips what follows nothing else, and a task is
\* of the section of all tasks before it unless it begins one.
Sectioned(d) ==
  /\ IsFiniteSet(TasksIn[d]) /\ Final \in TasksIn[d] /\ "" \notin Heads(d)
  /\ \A t \in Forks \cap TasksIn[d] : \A v \in MaySkip(d, t) :
       v \in TasksIn[d] /\ Upstream[d][v] = {t}
  /\ \A t \in TasksIn[d] :
       /\ Upstream[d][t] \subseteq TasksIn[d]
       /\ Depth[d][t] \in 0 .. Cardinality(TasksIn[d])
       /\ \A u \in Upstream[d][t] : Depth[d][u] < Depth[d][t]
       /\ t # Final => \E v \in TasksIn[d] : t \in Upstream[d][v]
       /\ t \in Heads(d) => Section[d][t] = t
       /\ t \notin Heads(d) =>
            /\ Section[d][t] \in {""} \cup Heads(d)
            /\ Upstream[d][t] = {} => Section[d][t] = ""
            /\ \A u \in Upstream[d][t] : Section[d][u] = Section[d][t]

\* The paths lie in sections, and in them every reader after its builders.
PathsInOrder(d) ==
  /\ \A p \in Paths : p \subseteq TasksIn[d] =>
       \E t \in p : \A u \in p : Section[d][u] = Section[d][t]
  /\ \A n \in Needs : {n[1], n[2]} \subseteq TasksIn[d] => n[2] \in Inside[d][n[1]]
  /\ \A t \in TasksIn[d] : \A u \in Inside[d][t] :
       t \notin Heads(d) /\ u \in TasksIn[d] /\ \E v \in Upstream[d][t] : u = v \/ u \in Inside[d][v]

GraphsInOrder == \A d \in Dags : Sectioned(d) /\ PathsInOrder(d)
-----------------------------------------------------------------------------
(* What makes the properties inductive in such graphs *)

Good == {"success", "skipped"}
TaskStates == {"none"} \cup Good \cup Bad
DagTypeOK ==
  /\ Runs \subseteq Dags
  /\ state = [d \in Runs |-> state[d]] /\ row = [d \in Runs |-> row[d]]
  /\ \A d \in Runs : state[d] \in [TasksIn[d] -> TaskStates]

\* What ran was allowed to by what came before it, and that has not changed.
RuleKept(d, t) ==
  IF Rule(d, t) = "all_success"
    THEN state[d][t] = "success" => UpStates(d, t) \subseteq {"success"}
    ELSE state[d][t] \in Good => UpStates(d, t) \subseteq Good

\* What a branch may skip follows it.
BranchKept(d, t) ==
  \A u \in Forks \cap TasksIn[d] : t \in MaySkip(d, u) =>
    /\ state[d][t] # "none" => state[d][u] # "none"
    /\ state[d][t] \in Good => state[d][u] \in Good

\* What may become of a section after its head.
AfterHead(s) ==
  CASE s = "none" -> {"none"} [] s = "skipped" -> {"none", "skipped"}
    [] s = "success" -> TaskStates \ {"skipped"} [] OTHER -> {"none", "upstream_failed"}
SectionKept(d, t) ==
  t \notin Heads(d) =>
    state[d][t] \in IF Section[d][t] = "" THEN TaskStates \ {"skipped"}
                    ELSE AfterHead(state[d][Section[d][t]])

InsideKept(d, t) ==
  state[d][t] = "success" => \A u \in Inside[d][t] : state[d][u] = "success"

Done(d) == \A t \in TasksIn[d] : state[d][t] \in Good
DagInv ==
  /\ DagTypeOK
  /\ \A d \in Runs :
       /\ \A t \in TasksIn[d] :
            RuleKept(d, t) /\ BranchKept(d, t) /\ SectionKept(d, t) /\ InsideKept(d, t)
       /\ row[d] = "success" => Done(d)
=============================================================================
