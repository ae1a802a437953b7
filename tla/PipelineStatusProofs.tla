------------------------- MODULE PipelineStatusProofs -------------------------
(***************************************************************************)
(* For every set of arguments and every limit: the rows of a workflow      *)
(* execution that has ended are true, and a recorded success is complete.  *)
(*                                                                         *)
(* The workflow's own steps leave the SQL requests alone (QuietKeeps), the *)
(* service's steps leave the workflow's place alone (ServiceKeeps); what   *)
(* is left of the invariant is shown action by action.                     *)
(*                                                                         *)
(* Then, in this order, the alerts for any runs, checkers, policies and    *)
(* operators: a heartbeat vouches for the failures before it, a set-up     *)
(* that nobody disturbs converges.  And the Composer DAGs, for any graphs  *)
(* that are in order (GraphsInOrder): a task only changes its state from   *)
(* "none" (GoesOn), so what a step leaves is shown for the one task it     *)
(* touches and those it skips.                                             *)
(***************************************************************************)
EXTENDS PipelineStatus, ComposerDags, AlertChecker, AlertPolicies, FiniteSetTheorems,
        WellFoundedInduction, TLAPS

-----------------------------------------------------------------------------
(* What the helpers write.                                                 *)

LEMMA PutFacts ==
  ASSUME TypeOK, NEW task \in Tasks, NEW started \in Int,
         NEW status \in {"none", "running", "success", "failed", "skipped"},
         Put(task, status, started)
  PROVE  /\ rows' \in [Tasks -> Row] /\ rows'[task].status = status
         /\ \A t \in Tasks \ {task} : rows'[t] = rows[t]
  <1>1. rows \in [Tasks -> Row] /\ now \in Int
    BY DEF TypeOK
  <1>2. TaskRow(task, status, started) \in Row /\ TaskRow(task, status, started).status = status
    BY <1>1 DEF TaskRow, Row, None
  <1>3. rows' = [rows EXCEPT ![task] = TaskRow(task, status, started)]
    BY DEF Put
  <1>4. QED
    BY <1>1, <1>2, <1>3

LEMMA RunFacts ==
  ASSUME TypeOK, NEW status \in {"none", "running", "success", "failed", "skipped"},
         SetRun(status)
  PROVE  run' \in Row /\ run'.status = status
  <1>1. run \in Row /\ now \in Int
    BY DEF TypeOK
  <1>2. RunRow(status) \in Row /\ RunRow(status).status = status
    BY <1>1 DEF RunRow, Row
  <1>3. QED
    BY <1>2 DEF SetRun

LEMMA GotoFacts ==
  ASSUME NEW task \in Tasks \cup {"succeeded", "failed"}, Goto(task)
  PROVE  /\ pc' = task /\ since' = 0 /\ phase' \in {"do", "running", "mark"}
         /\ phase' = "do" <=>
              task \in {"pipeline_start_status", "pipeline_finalize_status",
                        "non_trading_day_gate", "readiness", "rebuild_sql"}
         /\ phase' = "running" <=> task \in Connectors
  <1>1. CASE task \in Tasks
    BY <1>1 DEF Goto, First, Tasks, Connectors
  <1>2. CASE task \in {"succeeded", "failed"}
    BY <1>2 DEF Goto, Tasks, Connectors
  <1>3. QED
    BY <1>1, <1>2

-----------------------------------------------------------------------------
(* The steps that leave the SQL requests alone.                            *)

AtSql == phase = "wait" /\ pc = SqlTask

LEMMA QuietKeeps ==
  ASSUME IInv, UNCHANGED <<opt, sql, abandoned>>,
         UNCHANGED <<pc, phase>> \/ (~AtSql /\ ~AtSql')
  PROVE  NoneForgotten' /\ AnswersAreTrue'
  <1>1. NoneForgotten /\ AnswersAreTrue
    BY DEF IInv
  <1>2. UNCHANGED <<requests, jobs, client, opt, abandoned>>
    BY DEF sql
  <1>3. CASE UNCHANGED <<pc, phase>>
    BY <1>1, <1>2, <1>3
    DEF NoneForgotten, AnswersAreTrue, Asking, Settled, JobDone, SqlTask, Route
  <1>4. CASE ~AtSql /\ ~AtSql'
    BY <1>1, <1>2, <1>4
    DEF NoneForgotten, AnswersAreTrue, Asking, AtSql, Settled, JobDone, SqlTask, Route
  <1>5. QED
    BY <1>3, <1>4

LEMMA JobStays ==
  ASSUME UNCHANGED sql
  PROVE  JobDone' = JobDone
  BY DEF sql, JobDone, Settled

\* The tasks the proofs name.
LEMMA TaskNames ==
  /\ "skip_non_trading_day" \in Tasks /\ "skip_downstream_refresh" \in Tasks
  /\ "pipeline_finalize_status" \in Tasks /\ "finish" \in Tasks
  /\ "readiness" \in Tasks /\ "rebuild_sql" \in Tasks
  /\ "failed" \notin Tasks /\ "succeeded" \notin Tasks
  /\ SqlTask \in Tasks
  BY DEF Tasks, SqlTask

\* The task at work writes its own row, and stays at work.
LEMMA OwnRowKeeps ==
  ASSUME IInv, pc \in Tasks, phase # "wait", UNCHANGED <<opt, pc, sql, abandoned>>,
         \A t \in Tasks \ {pc} : rows'[t] = rows[t]
  PROVE  TasksAreTrue'
  <1> SUFFICES ASSUME ~abandoned PROVE TasksAreTrue'
    BY DEF TasksAreTrue
  <1>1. Unsettled \subseteq {pc} /\ client.answer # "ok"
    BY TaskNames DEF IInv, TasksAreTrue, AnswersAreTrue
  <1>2. Unsettled' \subseteq {pc}
    BY <1>1 DEF Unsettled
  <1>3. pc' # "failed" /\ client'.answer # "ok"
    BY <1>1, TaskNames DEF sql
  <1>4. QED
    BY <1>2, <1>3 DEF TasksAreTrue

\* The task at work is settled and left.
LEMMA SettledRowKeeps ==
  ASSUME IInv, pc \in Tasks, phase # "wait", UNCHANGED <<opt, sql, abandoned>>,
         rows'[pc].status \in {"success", "skipped"}, pc' # "failed",
         \A t \in Tasks \ {pc} : rows'[t] = rows[t]
  PROVE  TasksAreTrue'
  <1> SUFFICES ASSUME ~abandoned PROVE TasksAreTrue'
    BY DEF TasksAreTrue
  <1>1. Unsettled \subseteq {pc} /\ client.answer # "ok"
    BY TaskNames DEF IInv, TasksAreTrue, AnswersAreTrue
  <1>2. Unsettled' = {}
    BY <1>1 DEF Unsettled
  <1>3. client'.answer # "ok"
    BY <1>1 DEF sql
  <1>4. QED
    BY <1>2, <1>3 DEF TasksAreTrue

\* Who writes which of the two rows a skipped task leaves.
LEMMA SkippedRows ==
  ASSUME \A t \in Tasks \ {pc} : rows'[t] = rows[t]
  PROVE  /\ pc # "skip_non_trading_day" =>
              rows'["skip_non_trading_day"] = rows["skip_non_trading_day"]
         /\ pc # "skip_downstream_refresh" =>
              rows'["skip_downstream_refresh"] = rows["skip_downstream_refresh"]
  BY TaskNames

LEMMA MarkStep ==
  ASSUME IInv, Mark
  PROVE  IInv'
  <1>1. TypeOK /\ Placed /\ RunIsTrue /\ TasksAreTrue /\ AnswersAreTrue /\ WorkIsDone
    BY DEF IInv
  <1>2. /\ pc \in Tasks /\ phase = "mark" /\ pc # "non_trading_day_gate"
        /\ pc \notin {"readiness", "rebuild_sql"}
        /\ Put(pc, MarkStatus(pc), None) /\ Goto(After(pc))
        /\ UNCHANGED <<run, sql, outside, abandoned, unwritten, opt, now, checker>>
    BY <1>1 DEF Mark, Steady, Placed
  <1>3. /\ rows' \in [Tasks -> Row] /\ rows'[pc].status = MarkStatus(pc)
        /\ \A t \in Tasks \ {pc} : rows'[t] = rows[t]
    BY <1>1, <1>2, PutFacts DEF MarkStatus, None
  <1>4. \/ pc = "start" /\ After(pc) = "setup"
        \/ pc = "setup" /\ After(pc) = "pipeline_start_status"
        \/ /\ pc = "pipeline_start_status" /\ opt.kind = "rebuild"
           /\ After(pc) = "rebuild_sql"
        \/ /\ pc = "pipeline_start_status" /\ opt.kind # "rebuild"
           /\ After(pc) \in {"non_trading_day_gate", "branch_ingestion"}
        \/ /\ pc = "branch_ingestion"
           /\ \/ After(pc) = "readiness" /\ opt.skipIngestion
              \/ After(pc) \in {"ingest_dry_run", "ingest_write"}
        \/ pc \in {"ingest_dry_run", "ingest_write"} /\ After(pc) = "readiness"
        \/ /\ pc = "branch_downstream_refresh"
           /\ After(pc) \in {"skip_downstream_refresh", "trigger_refresh"}
        \/ /\ pc \in {"skip_non_trading_day", "skip_downstream_refresh", "trigger_refresh"}
           /\ After(pc) = "pipeline_finalize_status"
        \/ pc = "pipeline_finalize_status" /\ After(pc) = "finish"
        \/ pc = "finish" /\ After(pc) = "succeeded"
    BY <1>2 DEF After, Tasks, AfterIngestionBranch, AfterRefreshBranch
  <1>5. /\ pc' = After(pc) /\ since' = 0 /\ phase' \in {"do", "running", "mark"}
        /\ phase' = "do" <=>
             After(pc) \in {"pipeline_start_status", "pipeline_finalize_status",
                            "non_trading_day_gate", "readiness", "rebuild_sql"}
        /\ phase' = "running" <=> After(pc) \in Connectors
    <2>1. After(pc) \in Tasks \cup {"succeeded", "failed"}
      BY <1>4 DEF Tasks
    <2>2. QED
      BY <1>2, <2>1, GotoFacts
  <1>6. NoneForgotten' /\ AnswersAreTrue'
    BY <1>1, <1>2, <1>3, <1>4, <1>5, QuietKeeps DEF AtSql, SqlTask, Placed,
       Connectors, Tasks
  <1>7. TypeOK'
    BY <1>1, <1>2, <1>3, <1>4, <1>5 DEF TypeOK, sql, outside, checker, Phases,
       Outcomes, Tasks, MarkStatus
  <1>8. Placed'
    BY <1>1, <1>2, <1>3, <1>4, <1>5 DEF TypeOK, Tasks, Placed, Ended, SqlTask,
       Connectors, RebuildTasks, MarkStatus
  <1>9. RunIsTrue'
    BY <1>1, <1>2, <1>3, <1>4, <1>5 DEF RunIsTrue, Placed, MarkStatus
  <1>10. TasksAreTrue'
    BY <1>1, <1>2, <1>3, <1>4, <1>5, SettledRowKeeps DEF MarkStatus, Tasks, Placed
  <1>11. WorkIsDone'
    <2>1. /\ JobDone' = JobDone /\ Ingested' = Ingested /\ run' = run
          /\ opt' = opt /\ child' = child /\ ingest' = ingest
      BY <1>2, JobStays DEF Ingested, outside
    <2>2. /\ pc # "skip_non_trading_day" => Unless' = Unless
          /\ pc = "skip_non_trading_day" => Unless'
      BY <1>3, SkippedRows DEF Unless, MarkStatus
    <2>3. /\ pc # "skip_downstream_refresh" => Refreshed' = Refreshed
          /\ pc \in {"skip_downstream_refresh", "trigger_refresh"} => Refreshed'
      <3>1. pc = "skip_downstream_refresh" =>
              rows'["skip_downstream_refresh"].status = "skipped"
        BY <1>3 DEF MarkStatus
      <3>2. pc = "trigger_refresh" => child' = "ok"
        BY <1>1, <1>2, <2>1 DEF WorkIsDone
      <3>3. QED
        BY <1>3, <2>1, <3>1, <3>2, SkippedRows DEF Refreshed
    <2>4. pc' = "readiness" => Ingested'
      BY <1>1, <1>2, <1>4, <1>5, <2>1 DEF WorkIsDone, Ingested
    <2>5. pc' \in {"branch_downstream_refresh", "skip_downstream_refresh", "trigger_refresh"} =>
            JobDone' /\ Ingested'
      BY <1>1, <1>4, <1>5, <2>1 DEF WorkIsDone
    <2>6. pc' \in {"pipeline_finalize_status", "finish", "succeeded"} \/ run'.status = "success" =>
            Unless' \/ (JobDone' /\ Ingested' /\ Refreshed')
      <3>1. CASE pc \in {"pipeline_finalize_status", "finish"} \/ run.status = "success"
        BY <1>1, <2>1, <2>2, <2>3, <3>1 DEF WorkIsDone
      <3>2. CASE pc = "skip_non_trading_day"
        BY <2>2, <3>2
      <3>3. CASE pc \in {"skip_downstream_refresh", "trigger_refresh"}
        BY <1>1, <2>1, <2>3, <3>3 DEF WorkIsDone
      <3>4. QED
        BY <1>4, <1>5, <2>1, <3>1, <3>2, <3>3
    <2>7. run'.status = "success" =>
            pc' \in {"pipeline_finalize_status", "finish", "succeeded", "failed"}
      BY <1>1, <1>2, <1>4, <1>5, <2>1 DEF WorkIsDone
    <2>8. /\ pc' \in {"ingest_dry_run", "ingest_write"} /\ phase' = "mark" => ingest' = "ok"
          /\ pc' = "trigger_refresh" /\ phase' = "mark" => child' = "ok"
      BY <1>5 DEF Connectors
    <2>9. QED
      BY <2>4, <2>5, <2>6, <2>7, <2>8 DEF WorkIsDone
  <1>12. QED
    BY <1>6, <1>7, <1>8, <1>9, <1>10, <1>11 DEF IInv

LEMMA WriteRunStep ==
  ASSUME IInv, WriteRun
  PROVE  IInv'
  <1>1. TypeOK /\ Placed /\ RunIsTrue /\ TasksAreTrue /\ AnswersAreTrue /\ WorkIsDone
    BY DEF IInv
  <1>2. /\ phase = "do" /\ pc \in {"pipeline_start_status", "pipeline_finalize_status"}
        /\ SetRun(RunCall) /\ phase' = "mark"
        /\ UNCHANGED <<pc, since, rows, sql, outside, abandoned, unwritten, opt, now, checker>>
    BY DEF WriteRun, Steady, RunCall
  <1>3. run' \in Row /\ run'.status = RunCall
    BY <1>1, <1>2, RunFacts DEF RunCall
  <1>4. NoneForgotten' /\ AnswersAreTrue'
    BY <1>1, <1>2, <1>3, QuietKeeps DEF AtSql, SqlTask, Placed, Connectors, Tasks
  <1>5. TypeOK'
    BY <1>1, <1>2, <1>3 DEF TypeOK, sql, outside, checker, Phases, Outcomes, Tasks,
       RunCall
  <1>6. Placed'
    BY <1>1, <1>2, <1>3 DEF TypeOK, Tasks, Placed, Ended, SqlTask, Connectors,
       RebuildTasks, RunCall
  <1>7. RunIsTrue'
    BY <1>1, <1>2, <1>3 DEF RunIsTrue, Placed, RunCall
  <1>8. TasksAreTrue'
    BY <1>1, <1>2, <1>3 DEF TasksAreTrue, Unsettled, AnswersAreTrue, SqlTask, sql,
       TypeOK, RunCall
  <1>9. WorkIsDone'
    BY <1>1, <1>2, <1>3, JobStays DEF WorkIsDone, Ingested, Refreshed, Unless,
       outside, TypeOK, Placed, RunCall
  <1>10. QED
    BY <1>4, <1>5, <1>6, <1>7, <1>8, <1>9 DEF IInv

LEMMA GateStep ==
  ASSUME IInv, Gate
  PROVE  IInv'
  <1>1. TypeOK /\ Placed /\ RunIsTrue /\ TasksAreTrue /\ AnswersAreTrue /\ WorkIsDone
    BY DEF IInv
  <1>2. /\ phase = "do" /\ pc = "non_trading_day_gate" /\ phase' \in {"open", "closed"}
        /\ UNCHANGED <<pc, since, run, rows, sql, outside, abandoned, unwritten, opt, now,
                       checker>>
    BY DEF Gate, Steady
  <1>3. NoneForgotten' /\ AnswersAreTrue'
    BY <1>1, <1>2, QuietKeeps DEF AtSql, SqlTask, Placed, Connectors, Tasks
  <1>4. TypeOK'
    BY <1>1, <1>2 DEF TypeOK, sql, outside, checker, Phases, Outcomes, Tasks
  <1>5. Placed'
    BY <1>1, <1>2 DEF TypeOK, Tasks, Placed, Ended, SqlTask, Connectors, RebuildTasks
  <1>6. RunIsTrue'
    BY <1>1, <1>2 DEF RunIsTrue, Placed
  <1>7. TasksAreTrue'
    BY <1>1, <1>2 DEF TasksAreTrue, Unsettled, AnswersAreTrue, SqlTask, sql, TypeOK
  <1>8. WorkIsDone'
    BY <1>1, <1>2, JobStays DEF WorkIsDone, Ingested, Refreshed, Unless, outside,
       TypeOK, Placed
  <1>9. QED
    BY <1>3, <1>4, <1>5, <1>6, <1>7, <1>8 DEF IInv

LEMMA MarkGateStep ==
  ASSUME IInv, MarkGate
  PROVE  IInv'
  <1>1. TypeOK /\ Placed /\ RunIsTrue /\ TasksAreTrue /\ AnswersAreTrue /\ WorkIsDone
    BY DEF IInv
  <1>2. /\ pc = "non_trading_day_gate" /\ phase \in {"open", "closed"}
        /\ Put(pc, "success", None)
        /\ Goto(IF phase = "open" THEN "branch_ingestion" ELSE "skip_non_trading_day")
        /\ UNCHANGED <<run, sql, outside, abandoned, unwritten, opt, now, checker>>
    BY DEF MarkGate, Steady
  <1>3. /\ rows' \in [Tasks -> Row] /\ rows'[pc].status = "success"
        /\ \A t \in Tasks \ {pc} : rows'[t] = rows[t]
    <2>1. pc \in Tasks /\ None \in Int
      BY <1>2 DEF Tasks, None
    <2>2. QED
      BY <1>1, <1>2, <2>1, PutFacts
  <1>4. /\ pc' \in {"branch_ingestion", "skip_non_trading_day"} /\ since' = 0
        /\ phase' = "mark"
    BY <1>2, GotoFacts DEF Tasks, Connectors
  <1>5. NoneForgotten' /\ AnswersAreTrue'
    BY <1>1, <1>2, <1>3, <1>4, QuietKeeps DEF AtSql, SqlTask, Placed, Connectors,
       Tasks
  <1>6. TypeOK'
    BY <1>1, <1>2, <1>3, <1>4 DEF TypeOK, sql, outside, checker, Phases, Outcomes,
       Tasks
  <1>7. Placed'
    BY <1>1, <1>2, <1>3, <1>4 DEF TypeOK, Tasks, Placed, Ended, SqlTask, Connectors,
       RebuildTasks
  <1>8. RunIsTrue'
    BY <1>1, <1>2, <1>3, <1>4 DEF RunIsTrue, Placed
  <1>9. TasksAreTrue'
    BY <1>1, <1>2, <1>3, <1>4, SettledRowKeeps DEF MarkStatus, Tasks
  <1>10. WorkIsDone'
    BY <1>1, <1>2, <1>3, <1>4, SkippedRows, TaskNames, JobStays DEF WorkIsDone,
       Ingested, Refreshed, Unless, outside, TypeOK, Placed
  <1>11. QED
    BY <1>5, <1>6, <1>7, <1>8, <1>9, <1>10 DEF IInv

LEMMA MarkRunningStep ==
  ASSUME IInv, MarkRunning
  PROVE  IInv'
  <1>1. TypeOK /\ Placed /\ RunIsTrue /\ TasksAreTrue /\ AnswersAreTrue /\ WorkIsDone
    BY DEF IInv
  <1>2. /\ phase = "running" /\ pc \in Connectors /\ pc \in Tasks /\ phase' = "connect"
        /\ Put(pc, "running", None)
        /\ UNCHANGED <<pc, since, run, sql, outside, abandoned, unwritten, opt, now, checker>>
    BY <1>1 DEF MarkRunning, Steady, Placed, Connectors, Tasks
  <1>3. /\ rows' \in [Tasks -> Row] /\ rows'[pc].status = "running"
        /\ \A t \in Tasks \ {pc} : rows'[t] = rows[t]
    BY <1>1, <1>2, PutFacts DEF None
  <1>4. NoneForgotten' /\ AnswersAreTrue'
    BY <1>1, <1>2, <1>3, QuietKeeps DEF AtSql, SqlTask, Placed, Connectors, Tasks
  <1>5. TypeOK'
    BY <1>1, <1>2, <1>3 DEF TypeOK, sql, outside, checker, Phases, Outcomes, Tasks
  <1>6. Placed'
    BY <1>1, <1>2, <1>3 DEF TypeOK, Tasks, Placed, Ended, SqlTask, Connectors,
       RebuildTasks
  <1>7. RunIsTrue'
    BY <1>1, <1>2, <1>3 DEF RunIsTrue, Placed
  <1>8. TasksAreTrue'
    BY <1>1, <1>2, <1>3, OwnRowKeeps
  <1>9. WorkIsDone'
    BY <1>1, <1>2, <1>3, SkippedRows, TaskNames, JobStays DEF WorkIsDone, Ingested,
       Refreshed, Unless, outside, TypeOK, Placed
  <1>10. QED
    BY <1>4, <1>5, <1>6, <1>7, <1>8, <1>9 DEF IInv

LEMMA ConnectStep ==
  ASSUME IInv, Connect
  PROVE  IInv'
  <1>1. TypeOK /\ Placed /\ RunIsTrue /\ TasksAreTrue /\ AnswersAreTrue /\ WorkIsDone
    BY DEF IInv
  <1>2. /\ phase = "connect" /\ pc \in Connectors /\ phase' = "wait" /\ since' = now
        /\ UNCHANGED <<pc, linked, run, rows, sql, abandoned, unwritten, opt, now, checker>>
        /\ pc = "trigger_refresh" => UNCHANGED ingest /\ child' = "running"
        /\ pc # "trigger_refresh" => UNCHANGED child /\ ingest' = "running"
    BY <1>1 DEF Connect, Steady, Placed
  <1>3. NoneForgotten' /\ AnswersAreTrue'
    BY <1>1, <1>2, QuietKeeps DEF AtSql, SqlTask, Placed, Connectors, Tasks
  <1>4. TypeOK'
    BY <1>1, <1>2 DEF TypeOK, sql, outside, checker, Phases, Outcomes, Tasks,
       Connectors
  <1>5. Placed'
    BY <1>1, <1>2 DEF TypeOK, Tasks, Placed, Ended, SqlTask, Connectors, RebuildTasks
  <1>6. RunIsTrue'
    BY <1>1, <1>2 DEF RunIsTrue, Placed, Connectors
  <1>7. TasksAreTrue'
    BY <1>1, <1>2 DEF TasksAreTrue, Unsettled, AnswersAreTrue, SqlTask, sql, TypeOK,
       Connectors
  <1>8. WorkIsDone'
    BY <1>1, <1>2, JobStays DEF WorkIsDone, Ingested, Refreshed, Unless, outside,
       TypeOK, Placed, Connectors
  <1>9. QED
    BY <1>3, <1>4, <1>5, <1>6, <1>7, <1>8 DEF IInv

LEMMA ConnectedStep ==
  ASSUME IInv, Connected
  PROVE  IInv'
  <1>1. TypeOK /\ Placed /\ RunIsTrue /\ TasksAreTrue /\ AnswersAreTrue /\ WorkIsDone
    BY DEF IInv
  <1>2. /\ phase = "wait" /\ pc \in Connectors
        /\ UNCHANGED <<pc, run, rows, sql, outside, abandoned, unwritten, opt, now, checker>>
        /\ \/ phase' = "mark" /\ since' = 0 /\ Awaited = "ok"
           \/ phase' = "run_failed" /\ since' = 0
    BY DEF Connected, Steady, Raise, Connectors
  <1>3. NoneForgotten' /\ AnswersAreTrue'
    BY <1>1, <1>2, QuietKeeps DEF AtSql, SqlTask, Placed, Connectors, Tasks
  <1>4. TypeOK'
    BY <1>1, <1>2 DEF TypeOK, sql, outside, checker, Phases, Outcomes, Tasks, Awaited,
       Connectors
  <1>5. Placed'
    BY <1>1, <1>2 DEF TypeOK, Tasks, Placed, Ended, SqlTask, Connectors, RebuildTasks,
       Awaited
  <1>6. RunIsTrue'
    BY <1>1, <1>2 DEF RunIsTrue, Placed, Awaited, Connectors
  <1>7. TasksAreTrue'
    BY <1>1, <1>2 DEF TasksAreTrue, Unsettled, AnswersAreTrue, SqlTask, sql, TypeOK,
       Awaited, Connectors
  <1>8. WorkIsDone'
    BY <1>1, <1>2, JobStays DEF WorkIsDone, Ingested, Refreshed, Unless, outside,
       TypeOK, Placed, Awaited, Connectors
  <1>9. QED
    BY <1>3, <1>4, <1>5, <1>6, <1>7, <1>8 DEF IInv

LEMMA ChildWritesStep ==
  ASSUME IInv, ChildWrites
  PROVE  IInv'
  <1>1. TypeOK /\ Placed /\ RunIsTrue /\ TasksAreTrue /\ AnswersAreTrue /\ WorkIsDone
    BY DEF IInv
  <1>2. /\ linked' = TRUE
        /\ UNCHANGED <<pc, phase, since, run, rows, sql, ingest, child, abandoned, unwritten,
                       opt, now, checker>>
    BY DEF ChildWrites, Steady, flow
  <1>3. NoneForgotten' /\ AnswersAreTrue'
    BY <1>1, <1>2, QuietKeeps DEF AtSql, SqlTask, Placed, Connectors, Tasks
  <1>4. TypeOK'
    BY <1>1, <1>2 DEF TypeOK, sql, outside, checker, Phases, Outcomes, Tasks
  <1>5. Placed'
    BY <1>1, <1>2 DEF TypeOK, Tasks, Placed, Ended, SqlTask, Connectors, RebuildTasks
  <1>6. RunIsTrue'
    BY <1>1, <1>2 DEF RunIsTrue, Placed
  <1>7. TasksAreTrue'
    BY <1>1, <1>2 DEF TasksAreTrue, Unsettled, AnswersAreTrue, SqlTask, sql, TypeOK
  <1>8. WorkIsDone'
    BY <1>1, <1>2, JobStays DEF WorkIsDone, Ingested, Refreshed, Unless, outside,
       TypeOK, Placed
  <1>9. QED
    BY <1>3, <1>4, <1>5, <1>6, <1>7, <1>8 DEF IInv

LEMMA OutsideEndsStep ==
  ASSUME IInv, OutsideEnds
  PROVE  IInv'
  <1>1. TypeOK /\ Placed /\ RunIsTrue /\ TasksAreTrue /\ AnswersAreTrue /\ WorkIsDone
    BY DEF IInv
  <1>2. /\ ingest' \in Outcomes /\ child' \in Outcomes
        /\ ingest = "ok" => ingest' = "ok"
        /\ child = "ok" => child' = "ok"
        /\ UNCHANGED <<pc, phase, since, run, rows, sql, linked, abandoned, unwritten, opt, now,
                       checker>>
    BY <1>1 DEF TypeOK, OutsideEnds, Steady, flow, Outcomes
  <1>3. NoneForgotten' /\ AnswersAreTrue'
    BY <1>1, <1>2, QuietKeeps DEF AtSql, SqlTask, Placed, Connectors, Tasks
  <1>4. TypeOK'
    BY <1>1, <1>2 DEF TypeOK, sql, outside, checker, Phases, Outcomes, Tasks
  <1>5. Placed'
    BY <1>1, <1>2 DEF TypeOK, Tasks, Placed, Ended, SqlTask, Connectors, RebuildTasks
  <1>6. RunIsTrue'
    BY <1>1, <1>2 DEF RunIsTrue, Placed
  <1>7. TasksAreTrue'
    BY <1>1, <1>2 DEF TasksAreTrue, Unsettled, AnswersAreTrue, SqlTask, sql, TypeOK
  <1>8. WorkIsDone'
    BY <1>1, <1>2, JobStays DEF WorkIsDone, Ingested, Refreshed, Unless, outside,
       TypeOK, Placed
  <1>9. QED
    BY <1>3, <1>4, <1>5, <1>6, <1>7, <1>8 DEF IInv

LEMMA CheckStep ==
  ASSUME IInv, Check
  PROVE  IInv'
  <1>1. TypeOK /\ Placed /\ RunIsTrue /\ TasksAreTrue /\ AnswersAreTrue /\ WorkIsDone
    BY DEF IInv
  <1>2. /\ due' = FALSE /\ alerts' \in {alerts, alerts \cup AlertSummary}
        /\ UNCHANGED <<opt, pc, phase, since, run, rows, sql, outside, now, abandoned, unwritten>>
    BY DEF Check, flow
  <1>3. alerts' \subseteq ({"task_failure", "pipeline_failure", "warehouse_refresh_missing"}
                            \X (Tasks \cup {"run"}))
    BY <1>1, <1>2 DEF TypeOK, AlertSummary, FailedTasks
  <1>4. NoneForgotten' /\ AnswersAreTrue'
    BY <1>1, <1>2, <1>3, QuietKeeps DEF AtSql, SqlTask, Placed, Connectors, Tasks
  <1>5. TypeOK'
    BY <1>1, <1>2, <1>3 DEF TypeOK, sql, outside
  <1>6. Placed'
    BY <1>1, <1>2, <1>3 DEF TypeOK, Tasks, Placed, Ended, SqlTask, Connectors,
       RebuildTasks
  <1>7. RunIsTrue'
    BY <1>1, <1>2, <1>3 DEF RunIsTrue, Placed
  <1>8. TasksAreTrue'
    BY <1>1, <1>2, <1>3 DEF TasksAreTrue, Unsettled, AnswersAreTrue, SqlTask, sql,
       TypeOK
  <1>9. WorkIsDone'
    BY <1>1, <1>2, <1>3, JobStays DEF WorkIsDone, Ingested, Refreshed, Unless,
       outside, TypeOK, Placed
  <1>10. QED
    BY <1>4, <1>5, <1>6, <1>7, <1>8, <1>9 DEF IInv

LEMMA TickStep ==
  ASSUME IInv, Tick
  PROVE  IInv'
  <1>1. TypeOK /\ Placed /\ RunIsTrue /\ TasksAreTrue /\ AnswersAreTrue /\ WorkIsDone
    BY DEF IInv
  <1>2. /\ now' = now + 1 /\ due' = (now' % Period = 0)
        /\ UNCHANGED <<opt, pc, phase, since, run, rows, sql, outside, alerts, abandoned,
                       unwritten>>
    BY DEF Tick, flow
  <1>3. now' \in Nat
    <2>1. now \in Nat
      BY <1>1 DEF TypeOK
    <2>2. QED
      BY <1>2, <2>1
  <1>4. NoneForgotten' /\ AnswersAreTrue'
    BY <1>1, <1>2, <1>3, QuietKeeps DEF AtSql, SqlTask, Placed, Connectors, Tasks
  <1>5. TypeOK'
    BY <1>1, <1>2, <1>3 DEF TypeOK, sql, outside, checker, Phases, Outcomes, Tasks
  <1>6. Placed'
    BY <1>1, <1>2, <1>3 DEF TypeOK, Tasks, Placed, Ended, SqlTask, Connectors,
       RebuildTasks
  <1>7. RunIsTrue'
    BY <1>1, <1>2, <1>3 DEF RunIsTrue, Placed
  <1>8. TasksAreTrue'
    BY <1>1, <1>2, <1>3 DEF TasksAreTrue, Unsettled, AnswersAreTrue, SqlTask, sql,
       TypeOK
  <1>9. WorkIsDone'
    BY <1>1, <1>2, <1>3, JobStays DEF WorkIsDone, Ingested, Refreshed, Unless,
       outside, TypeOK, Placed
  <1>10. QED
    BY <1>4, <1>5, <1>6, <1>7, <1>8, <1>9 DEF IInv

LEMMA CallFailsStep ==
  ASSUME IInv, CallFails
  PROVE  IInv'
  <1>1. TypeOK /\ Placed /\ RunIsTrue /\ TasksAreTrue /\ AnswersAreTrue /\ WorkIsDone
    BY DEF IInv
  <1>2. /\ pc \in Tasks /\ phase' = "run_failed" /\ since' = 0
        /\ phase \in {"mark", "do", "open", "closed", "running", "connect"}
        /\ UNCHANGED <<pc, sql, outside, abandoned, unwritten, opt, now, checker>>
    BY DEF CallFails, Raise, Steady
  <1>3. \/ UNCHANGED <<run, rows>>
        \/ /\ UNCHANGED run
           /\ \E status \in {"running", "success", "skipped"} :
                 /\ Put(pc, status, None)
                 /\ status = "skipped" =>
                      pc \in {"skip_non_trading_day", "skip_downstream_refresh"}
        \/ /\ UNCHANGED rows /\ phase = "do" /\ SetRun(RunCall)
           /\ pc \in {"pipeline_start_status", "pipeline_finalize_status"}
    BY DEF CallFails, MarkStatus, RunCall
  <1>4. /\ rows' \in [Tasks -> Row] /\ \A t \in Tasks \ {pc} : rows'[t] = rows[t]
        /\ rows'[pc].status = rows[pc].status \/ rows'[pc].status # "none"
    BY <1>1, <1>2, <1>3, PutFacts DEF TypeOK, None
  <1>5. /\ run' \in Row
        /\ \/ run' = run
           \/ /\ run'.status = RunCall /\ phase = "do"
              /\ pc \in {"pipeline_start_status", "pipeline_finalize_status"}
    BY <1>1, <1>2, <1>3, RunFacts DEF TypeOK, RunCall
  <1>6. NoneForgotten' /\ AnswersAreTrue'
    BY <1>1, <1>2, <1>4, <1>5, QuietKeeps DEF AtSql, SqlTask, Placed, Connectors,
       Tasks
  <1>7. TypeOK'
    BY <1>1, <1>2, <1>4, <1>5 DEF TypeOK, sql, outside, checker, Phases, Outcomes,
       Tasks, RunCall
  <1>8. Placed'
    BY <1>1, <1>2, <1>4, <1>5 DEF TypeOK, Tasks, Placed, Ended, SqlTask, Connectors,
       RebuildTasks, RunCall
  <1>9. RunIsTrue'
    BY <1>1, <1>2, <1>4, <1>5 DEF RunIsTrue, Placed, RunCall
  <1>10. TasksAreTrue'
    BY <1>1, <1>2, <1>4, <1>5, OwnRowKeeps
  <1>11. WorkIsDone'
    BY <1>1, <1>2, <1>4, <1>5, SkippedRows, TaskNames, JobStays DEF WorkIsDone,
       Ingested, Refreshed, Unless, outside, TypeOK, Placed, RunCall
  <1>12. QED
    BY <1>6, <1>7, <1>8, <1>9, <1>10, <1>11 DEF IInv

LEMMA WriteRunFailedStep ==
  ASSUME IInv, WriteRunFailed
  PROVE  IInv'
  <1>1. TypeOK /\ Placed /\ RunIsTrue /\ TasksAreTrue /\ AnswersAreTrue /\ WorkIsDone
    BY DEF IInv
  <1>2. /\ phase = "run_failed" /\ pc \in Tasks
        /\ UNCHANGED <<rows, sql, outside, abandoned, opt, now, checker>>
    BY <1>1 DEF WriteRunFailed, Steady, TypeOK, Placed, Ended
  <1>3. \/ /\ run' \in Row /\ run'.status = "failed" /\ phase' = "task_failed"
           /\ UNCHANGED <<pc, since, unwritten>>
        \/ /\ unwritten' = TRUE /\ UNCHANGED run
           /\ pc' = "failed" /\ phase' = "mark" /\ since' = 0
    BY <1>1, RunFacts, GotoFacts DEF WriteRunFailed, Connectors
  <1>4. NoneForgotten' /\ AnswersAreTrue'
    BY <1>1, <1>2, <1>3, QuietKeeps DEF AtSql, SqlTask, Placed, Connectors, Tasks
  <1>5. TypeOK'
    <2>1. /\ run' \in Row /\ phase' \in Phases /\ since' \in Nat
          /\ pc' \in Tasks \cup {"succeeded", "failed"}
      BY <1>1, <1>2, <1>3 DEF TypeOK, Phases
    <2>2. unwritten' \in BOOLEAN
      BY <1>1, <1>3 DEF TypeOK
    <2>3. QED
      BY <1>1, <1>2, <2>1, <2>2 DEF TypeOK, sql, outside, checker
  <1>6. Placed'
    BY <1>1, <1>2, <1>3 DEF TypeOK, Tasks, Placed, Ended, SqlTask, Connectors,
       RebuildTasks
  <1>7. RunIsTrue'
    BY <1>1, <1>2, <1>3, TaskNames DEF RunIsTrue
  <1>8. TasksAreTrue'
    BY <1>1, <1>2, <1>3 DEF TasksAreTrue, Unsettled, AnswersAreTrue, SqlTask, sql,
       TypeOK
  <1>9. WorkIsDone'
    BY <1>1, <1>2, <1>3, JobStays DEF WorkIsDone, Ingested, Refreshed, Unless,
       outside, TypeOK, Placed
  <1>10. QED
    BY <1>4, <1>5, <1>6, <1>7, <1>8, <1>9 DEF IInv

LEMMA WriteTaskFailedStep ==
  ASSUME IInv, WriteTaskFailed
  PROVE  IInv'
  <1>1. TypeOK /\ Placed /\ RunIsTrue /\ TasksAreTrue /\ AnswersAreTrue /\ WorkIsDone
    BY DEF IInv
  <1>2. /\ phase = "task_failed" /\ pc \in Tasks
        /\ UNCHANGED <<run, sql, outside, abandoned, opt, now, checker>>
    BY <1>1 DEF WriteTaskFailed, Steady, TypeOK, Placed, Ended
  <1>3. pc' = "failed" /\ phase' = "mark" /\ since' = 0
    BY GotoFacts DEF WriteTaskFailed, Connectors
  <1>4. \/ /\ rows' \in [Tasks -> Row] /\ rows'[pc].status = "failed"
           /\ \A t \in Tasks \ {pc} : rows'[t] = rows[t]
           /\ unwritten' = unwritten
        \/ unwritten' = TRUE /\ UNCHANGED rows
    BY <1>1, <1>2, PutFacts DEF WriteTaskFailed, None
  <1>5. NoneForgotten' /\ AnswersAreTrue'
    BY <1>1, <1>2, <1>3, <1>4, QuietKeeps DEF AtSql, SqlTask, Placed, Connectors,
       Tasks
  <1>6. TypeOK'
    <2>1. rows' \in [Tasks -> Row] /\ unwritten' \in BOOLEAN
      BY <1>1, <1>4 DEF TypeOK
    <2>2. pc' \in Tasks \cup {"succeeded", "failed"} /\ phase' \in Phases /\ since' \in Nat
      BY <1>3 DEF Phases
    <2> QED BY <1>1, <1>2, <2>1, <2>2 DEF TypeOK, sql, outside, checker
  <1>7. Placed'
    BY <1>1, <1>2, <1>3, <1>4 DEF TypeOK, Tasks, Placed, Ended, SqlTask, Connectors,
       RebuildTasks
  <1>8. RunIsTrue'
    BY <1>1, <1>2, <1>3, <1>4 DEF RunIsTrue, Placed
  <1>9. TasksAreTrue'
    <2> SUFFICES ASSUME ~abandoned PROVE TasksAreTrue'
      BY <1>2 DEF TasksAreTrue
    <2>1. Unsettled \subseteq {pc} /\ client'.answer # "ok"
      BY <1>1, <1>2, TaskNames DEF TasksAreTrue, AnswersAreTrue, sql
    <2>2. ~unwritten' => Unsettled' = {pc} /\ rows'[pc].status = "failed"
      BY <1>2, <1>4, <2>1 DEF Unsettled
    <2>3. QED
      BY <1>2, <1>3, <2>1, <2>2 DEF TasksAreTrue
  <1>10. WorkIsDone'
    BY <1>1, <1>2, <1>3, <1>4, SkippedRows, TaskNames, JobStays DEF WorkIsDone,
       Ingested, Refreshed, Unless, outside, TypeOK, Placed
  <1>11. QED
    BY <1>5, <1>6, <1>7, <1>8, <1>9, <1>10 DEF IInv

-----------------------------------------------------------------------------
(* SQL requests.                                                           *)

LEMMA SlotFacts ==
  /\ \A s \in Slots : s \in 0..2 /\ s # 0
  /\ \A n \in 0..2 : n # 0 => n \in Slots
  BY DEF Slots

LEMMA RecordFacts ==
  ASSUME TypeOK
  PROVE  /\ client.slot \in 0..2 /\ client.job \in 0..2 /\ client.polls \in Nat
         /\ client.retries \in Nat
         /\ \A s \in Slots : requests[s] \in Requests
         /\ NoRequest \in Requests /\ NoClient \in Clients
         /\ NoRequest.at = "free" /\ NoRequest.route = "run"
         /\ NoClient.job = 0 /\ NoClient.slot = 0 /\ NoClient.answer = "none"
  <1>1. requests \in [Slots -> Requests] /\ client \in Clients
    BY DEF TypeOK
  <1>2. NoRequest \in Requests /\ NoClient \in Clients
    BY DEF NoRequest, NoClient, Requests, Clients, None
  <1>3. QED
    BY <1>1, <1>2 DEF Clients, NoRequest, NoClient

LEMMA PostFacts ==
  ASSUME TypeOK, NEW s \in Slots, NEW retries \in Nat, Post(s, retries)
  PROVE  /\ requests' \in [Slots -> Requests] /\ client' \in Clients
         /\ requests'[s].at = "begin" /\ requests'[s].route = Route
         /\ Route = "poll" => requests'[s].job = client.job
         /\ \A j \in Slots \ {s} : requests'[j] = requests[j]
         /\ client'.slot = s /\ client'.answer = "none" /\ client'.job = client.job
  <1> DEFINE new == [at |-> "begin", route |-> Route,
                     job |-> IF Route = "poll" THEN client.job ELSE s,
                     saw |-> "none", began |-> None]
  <1>1. /\ requests \in [Slots -> Requests] /\ client \in Clients
        /\ client.job \in 0..2 /\ s \in 0..2
    BY RecordFacts, SlotFacts DEF TypeOK
  <1>2. Route \in {"run", "submit", "poll"}
    BY DEF Route
  <1>3. new \in Requests
    BY <1>1, <1>2 DEF Requests, None
  <1>4. requests' = [requests EXCEPT ![s] = new]
    BY DEF Post
  <1>5. client' = [client EXCEPT !.slot = s, !.answer = "none", !.retries = retries]
    BY DEF Post
  <1>6. client' \in Clients
    BY <1>1, <1>5 DEF Clients
  <1>7. /\ client'.slot = s /\ client'.answer = "none" /\ client'.job = client.job
    BY <1>1, <1>5 DEF Clients
  <1>8. QED
    BY <1>1, <1>3, <1>4, <1>6, <1>7

\* A request that is posted keeps what is known of the others and of the answers.
LEMMA PostKeeps ==
  ASSUME IInv, NEW s \in Slots, requests[s].at = "free", NEW retries \in Nat,
         Post(s, retries), client.answer = "none", AtSql', UNCHANGED <<opt, jobs>>
  PROVE  AnswersAreTrue'
  <1>1. TypeOK /\ AnswersAreTrue
    BY DEF IInv
  <1>2. /\ requests' \in [Slots -> Requests] /\ client' \in Clients
        /\ requests'[s].at = "begin" /\ requests'[s].route = Route
        /\ Route = "poll" => requests'[s].job = client.job
        /\ \A j \in Slots \ {s} : requests'[j] = requests[j]
        /\ client'.slot = s /\ client'.answer = "none" /\ client'.job = client.job
    BY <1>1, PostFacts
  <1>3. Route' = Route /\ jobs' = jobs /\ opt' = opt
    BY <1>2 DEF Route
  <1>4. Route = "poll" <=> opt.kind = "rebuild" /\ client.job # 0
    BY DEF Route
  <1>5. client'.job # 0 => opt'.kind = "rebuild" /\ Settled(client.job)'
    <2> SUFFICES ASSUME client.job # 0
                 PROVE  opt.kind = "rebuild" /\ Settled(client.job)'
      BY <1>2, <1>3
    <2>1. client.job \in Slots /\ opt.kind = "rebuild" /\ Settled(client.job)
      BY <1>1, RecordFacts, SlotFacts DEF AnswersAreTrue
    <2>2. requests'[client.job].at = "free" \/ requests'[client.job].route = "poll"
      BY <1>2, <1>4, <2>1 DEF Settled
    <2>3. QED
      BY <1>2, <2>1, <2>2 DEF Settled
  <1>6. ASSUME NEW j \in Slots
        PROVE  /\ requests'[j].at = "success" => requests'[j].route = "run" /\ jobs'[j] = "ok"
               /\ requests'[j].route = "poll" /\ requests'[j].at # "free" =>
                    requests'[j].job # 0
               /\ requests'[j].at # "free" /\ j = client'.slot /\ Asking' =>
                    /\ requests'[j].route = Route'
                    /\ Route' = "poll" =>
                         /\ requests'[j].job = client'.job
                         /\ requests'[j].at = "write" /\ requests'[j].saw = "ok" =>
                              jobs'[client'.job] = "ok"
    <2>1. CASE j = s
      BY <1>2, <1>3, <1>4, <2>1
    <2>2. CASE j # s
      BY <1>1, <1>2, <1>3, <2>2 DEF AnswersAreTrue
    <2>3. QED
      BY <2>1, <2>2
  <1>7. client'.answer = "none"
    BY <1>2
  <1>8. QED
    BY <1>5, <1>6, <1>7, <1>2 DEF AnswersAreTrue, Settled

LEMMA AskStep ==
  ASSUME IInv, Ask
  PROVE  IInv'
  <1>1. /\ TypeOK /\ Placed /\ RunIsTrue /\ TasksAreTrue /\ NoneForgotten /\ AnswersAreTrue
        /\ WorkIsDone
    BY DEF IInv
  <1>2. /\ phase = "do" /\ pc = SqlTask /\ phase' = "wait" /\ since' = now
        /\ UNCHANGED <<pc, run, rows, jobs, outside, abandoned, unwritten, opt, now, checker>>
    BY DEF Ask, Steady
  <1>3. PICK s \in Slots : requests[s].at = "free" /\ Post(s, 0)
    BY DEF Ask, Free
  <1>4. client.answer = "none" /\ AtSql' /\ SqlTask' = SqlTask
    BY <1>1, <1>2 DEF AnswersAreTrue, AtSql, SqlTask
  <1>5. /\ requests' \in [Slots -> Requests] /\ client' \in Clients
        /\ \A j \in Slots \ {s} : requests'[j] = requests[j]
        /\ client'.slot = s /\ client'.answer = "none"
    BY <1>1, <1>3, PostFacts
  <1>6. TypeOK'
    BY <1>1, <1>2, <1>5 DEF TypeOK, outside, checker, Phases
  <1>7. Placed'
    BY <1>1, <1>2, <1>4, TaskNames DEF Placed, Ended
  <1>8. RunIsTrue'
    BY <1>1, <1>2, TaskNames DEF RunIsTrue, SqlTask
  <1>9. TasksAreTrue'
    <2>1. Unsettled' = Unsettled
      BY <1>2 DEF Unsettled
    <2>2. QED
      BY <1>1, <1>2, <1>5, <2>1 DEF TasksAreTrue
  <1>10. NoneForgotten'
    <2> SUFFICES ASSUME ~abandoned', NEW j \in Slots, requests'[j].at # "free"
                 PROVE  Asking' /\ j = client'.slot
      BY DEF NoneForgotten
    <2>1. requests[j].at = "free"
      BY <1>1, <1>2 DEF NoneForgotten, Asking
    <2>2. j = s
      BY <1>5, <2>1
    <2>3. QED
      BY <1>4, <1>5, <2>2 DEF Asking, AtSql
  <1>11. AnswersAreTrue'
    BY <1>2, <1>3, <1>4, PostKeeps
  <1>12. WorkIsDone'
    BY <1>1, <1>2 DEF WorkIsDone, SqlTask, Ingested, Refreshed, Unless, outside
  <1>13. QED
    BY <1>6, <1>7, <1>8, <1>9, <1>10, <1>11, <1>12 DEF IInv

LEMMA GiveUpStep ==
  ASSUME IInv, GiveUp
  PROVE  IInv'
  <1>1. TypeOK /\ Placed /\ RunIsTrue /\ AnswersAreTrue /\ WorkIsDone
    BY DEF IInv
  <1>2. /\ phase = "wait" /\ pc = SqlTask /\ client.answer = "none" /\ abandoned' = TRUE
        /\ UNCHANGED <<run, rows, jobs, outside, unwritten, opt, now, checker>>
    BY DEF GiveUp, Steady
  <1>3. NoneForgotten' /\ TasksAreTrue'
    BY <1>2 DEF NoneForgotten, TasksAreTrue
  <1>4. CASE /\ \E s \in Free : Post(s, client.retries + 1)
             /\ UNCHANGED <<pc, phase, since>>
    <2>1. PICK s \in Slots : requests[s].at = "free" /\ Post(s, client.retries + 1)
      BY <1>4 DEF Free
    <2>2. client.retries + 1 \in Nat
      BY <1>1, RecordFacts
    <2>3. requests' \in [Slots -> Requests] /\ client' \in Clients
      BY <1>1, <2>1, <2>2, PostFacts
    <2>4. TypeOK'
      BY <1>1, <1>2, <1>4, <2>3 DEF TypeOK, outside, checker
    <2>5. Placed' /\ RunIsTrue'
      BY <1>1, <1>2, <1>4 DEF Placed, RunIsTrue, Ended, SqlTask
    <2>6. AnswersAreTrue'
      <3>1. AtSql'
        BY <1>2, <1>4 DEF AtSql, SqlTask
      <3>2. QED
        BY <1>2, <2>1, <2>2, <3>1, PostKeeps
    <2>7. WorkIsDone'
      BY <1>1, <1>2, <1>4 DEF WorkIsDone, SqlTask, Ingested, Refreshed, Unless, outside
    <2>8. QED
      BY <1>3, <2>4, <2>5, <2>6, <2>7 DEF IInv
  <1>5. CASE Raise /\ client' = NoClient /\ UNCHANGED requests
    <2>1. phase' = "run_failed" /\ since' = 0 /\ pc' = pc /\ requests' = requests
          /\ client' = NoClient
      BY <1>5 DEF Raise
    <2>2. TypeOK'
      BY <1>1, <1>2, <2>1, RecordFacts DEF TypeOK, outside, checker, Phases
    <2>3. Placed' /\ RunIsTrue'
      BY <1>1, <1>2, <2>1, TaskNames DEF Placed, RunIsTrue, Ended, SqlTask
    <2>4. AnswersAreTrue'
      BY <1>1, <1>2, <2>1, RecordFacts DEF AnswersAreTrue, Asking
    <2>5. WorkIsDone'
      BY <1>1, <1>2, <2>1 DEF WorkIsDone, SqlTask, Ingested, Refreshed, Unless, outside
    <2>6. QED
      BY <1>3, <2>2, <2>3, <2>4, <2>5 DEF IInv
  <1>6. QED
    BY <1>4, <1>5 DEF GiveUp

LEMMA HearStep ==
  ASSUME IInv, Hear
  PROVE  IInv'
  <1>1. /\ TypeOK /\ Placed /\ RunIsTrue /\ TasksAreTrue /\ NoneForgotten /\ AnswersAreTrue
        /\ WorkIsDone
    BY DEF IInv
  <1>2. /\ phase = "wait" /\ pc = SqlTask /\ client.answer # "none"
        /\ UNCHANGED <<run, rows, requests, jobs, outside, abandoned, unwritten, opt, now,
                       checker>>
    BY DEF Hear, Steady
  <1>3. /\ NoneForgotten' /\ JobDone' = JobDone
    BY <1>1, <1>2 DEF NoneForgotten, Asking, JobDone, Settled
  <1>4. CASE client.answer = "ok"
    <2>1. Goto(After(pc)) /\ client' = NoClient
      BY <1>4 DEF Hear
    <2>2. \/ /\ pc = "readiness" /\ opt.kind # "rebuild"
             /\ After(pc) = "branch_downstream_refresh"
          \/ /\ pc = "rebuild_sql" /\ opt.kind = "rebuild"
             /\ After(pc) = "pipeline_finalize_status"
      BY <1>2 DEF SqlTask, After
    <2>3. /\ pc' = After(pc) /\ since' = 0 /\ phase' \in {"do", "running", "mark"}
          /\ phase' = "do" <=> pc' = "pipeline_finalize_status"
          /\ phase' # "running"
      <3>1. After(pc) \in Tasks \cup {"succeeded", "failed"}
        BY <2>2 DEF Tasks
      <3>2. QED
        BY <2>1, <2>2, <3>1, GotoFacts DEF Connectors
    <2>4. TypeOK'
      BY <1>1, <1>2, <2>1, <2>2, <2>3, RecordFacts DEF TypeOK, outside, checker, Phases, Tasks
    <2>5. Placed'
      BY <1>2, <2>2, <2>3 DEF Placed, Ended, RebuildTasks
    <2>6. RunIsTrue'
      BY <2>2, <2>3 DEF RunIsTrue
    <2>7. TasksAreTrue'
      <3> SUFFICES ASSUME ~abandoned PROVE TasksAreTrue'
        BY <1>2 DEF TasksAreTrue
      <3>1. Unsettled \subseteq {SqlTask} /\ rows[SqlTask].status = "success"
        BY <1>1, <1>2, <1>4, TaskNames DEF TasksAreTrue
      <3>2. Unsettled' = {}
        BY <1>2, <3>1 DEF Unsettled
      <3>3. client'.answer # "ok" /\ pc' # "failed"
        BY <2>1, <2>2, <2>3, RecordFacts, <1>1
      <3>4. QED
        BY <3>2, <3>3 DEF TasksAreTrue
    <2>8. AnswersAreTrue'
      BY <1>1, <1>2, <2>1, <2>3, RecordFacts DEF AnswersAreTrue, Asking
    <2>9. WorkIsDone'
      <3>1. JobDone
        BY <1>1, <1>4 DEF AnswersAreTrue
      <3>2. Ingested' /\ (opt.kind = "rebuild" => Refreshed')
        BY <1>1, <1>2, <2>2 DEF WorkIsDone, Ingested, Refreshed, outside
      <3>3. run'.status # "success"
        BY <1>1, <1>2, <2>2 DEF WorkIsDone
      <3>4. QED
        BY <1>3, <2>2, <2>3, <3>1, <3>2, <3>3 DEF WorkIsDone
    <2>10. QED
      BY <1>3, <2>4, <2>5, <2>6, <2>7, <2>8, <2>9 DEF IInv
  <1>5. CASE client.answer # "ok"
    <2>1. /\ pc' = pc /\ since' = 0 /\ phase' \in {"do", "run_failed"}
          /\ \/ client' = NoClient
             \/ /\ client' = [NoClient EXCEPT !.job = client.slot]
                /\ client.answer = "submitted"
             \/ client' = [NoClient EXCEPT !.job = client.job, !.polls = client.polls + 1]
      BY <1>5 DEF Hear, Raise
    <2>2. /\ client' \in Clients /\ client'.answer = "none"
          /\ \/ client'.job \in {0, client.job}
             \/ client'.job = client.slot /\ client.answer = "submitted"
      <3>1. client.slot \in 0..2 /\ client.job \in 0..2 /\ client.polls \in Nat
        BY <1>1, RecordFacts
      <3>2. NoClient = [slot |-> 0, job |-> 0, retries |-> 0, polls |-> 0, answer |-> "none"]
        BY DEF NoClient
      <3>3. NoClient \in Clients /\ NoClient.answer = "none" /\ NoClient.job = 0
        BY <3>2 DEF Clients
      <3>4. CASE client' = NoClient
        BY <3>3, <3>4
      <3>5. CASE /\ client' = [NoClient EXCEPT !.job = client.slot]
                 /\ client.answer = "submitted"
        BY <3>1, <3>2, <3>5 DEF Clients
      <3>6. CASE client' = [NoClient EXCEPT !.job = client.job, !.polls = client.polls + 1]
        <4>1. client.polls + 1 \in Nat
          BY <3>1
        <4>2. client' = [slot |-> 0, job |-> client.job, retries |-> 0,
                         polls |-> client.polls + 1, answer |-> "none"]
          BY <3>2, <3>6
        <4>3. client' \in Clients
          BY <3>1, <4>1, <4>2 DEF Clients
        <4>4. QED
          BY <4>2, <4>3
      <3>7. QED
        BY <2>1, <3>4, <3>5, <3>6
    <2>3. TypeOK'
      BY <1>1, <1>2, <2>1, <2>2 DEF TypeOK, outside, checker, Phases
    <2>4. Placed' /\ RunIsTrue'
      BY <1>1, <1>2, <2>1, TaskNames DEF Placed, RunIsTrue, Ended, SqlTask
    <2>5. TasksAreTrue'
      <3>1. Unsettled' = Unsettled
        BY <1>2 DEF Unsettled
      <3>2. QED
        BY <1>1, <1>2, <2>1, <2>2, <3>1 DEF TasksAreTrue
    <2>6. AnswersAreTrue'
      <3>1. client'.job # 0 => opt'.kind = "rebuild" /\ Settled(client'.job)
        BY <1>1, <1>2, <2>2 DEF AnswersAreTrue, Settled
      <3>2. ~Asking'
        BY <2>1 DEF Asking
      <3>3. QED
        BY <1>1, <1>2, <2>2, <3>1, <3>2 DEF AnswersAreTrue, Settled
    <2>7. WorkIsDone'
      BY <1>1, <1>2, <2>1 DEF WorkIsDone, SqlTask, Ingested, Refreshed, Unless, outside
    <2>8. QED
      BY <1>3, <2>3, <2>4, <2>5, <2>6, <2>7 DEF IInv
  <1>6. QED
    BY <1>4, <1>5

-----------------------------------------------------------------------------
(* The service.                                                            *)

\* The service leaves the workflow where it is.  It writes the row of the SQL task, for a
\* request under way, and with an answer "ok" the row is a success.
LEMMA ServiceKeeps ==
  ASSUME IInv, UNCHANGED <<opt, flow, run, outside, abandoned, unwritten>>,
         JobDone => JobDone',
         \/ UNCHANGED rows
         \/ /\ \E s \in Slots : requests[s].at # "free"
            /\ \A t \in Tasks \ {SqlTask} : rows'[t] = rows[t],
         client' = client \/ client'.answer # "ok" \/ rows'[SqlTask].status = "success"
  PROVE  Placed' /\ RunIsTrue' /\ TasksAreTrue' /\ WorkIsDone'
  <1>1. Placed /\ RunIsTrue /\ TasksAreTrue /\ NoneForgotten /\ WorkIsDone
    BY DEF IInv
  <1>2. UNCHANGED <<opt, pc, phase, since, run, ingest, child, linked, abandoned, unwritten>>
    BY DEF flow, outside
  <1>3. Placed'
    BY <1>1, <1>2 DEF Placed, Ended, SqlTask
  <1>4. RunIsTrue'
    BY <1>1, <1>2 DEF RunIsTrue
  <1>5. TasksAreTrue'
    <2> SUFFICES ASSUME ~abandoned PROVE TasksAreTrue'
      BY <1>2 DEF TasksAreTrue
    <2>1. SqlTask' = SqlTask
      BY <1>2 DEF SqlTask
    <2>2. CASE UNCHANGED rows
      <3>1. Unsettled' = Unsettled
        BY <2>2 DEF Unsettled
      <3>2. client'.answer = "ok" => rows'[SqlTask].status = "success"
        BY <1>1, <2>2 DEF TasksAreTrue
      <3>3. QED
        BY <1>1, <1>2, <2>1, <2>2, <3>1, <3>2 DEF TasksAreTrue
    <2>3. CASE /\ \E s \in Slots : requests[s].at # "free"
               /\ \A t \in Tasks \ {SqlTask} : rows'[t] = rows[t]
      <3>1. pc = SqlTask /\ client.answer = "none"
        BY <1>1, <2>3 DEF NoneForgotten, Asking
      <3>2. Unsettled' \subseteq {pc}
        BY <1>1, <2>3, <3>1, TaskNames DEF TasksAreTrue, Unsettled
      <3>3. client'.answer = "ok" => rows'[SqlTask].status = "success"
        BY <3>1
      <3>4. QED
        BY <1>2, <2>1, <3>1, <3>2, <3>3, TaskNames DEF TasksAreTrue
    <2>4. QED
      BY <2>2, <2>3
  <1>6. WorkIsDone'
    <2>1. /\ rows'["skip_non_trading_day"] = rows["skip_non_trading_day"]
          /\ rows'["skip_downstream_refresh"] = rows["skip_downstream_refresh"]
      BY TaskNames DEF SqlTask
    <2>2. Unless' = Unless /\ Ingested' = Ingested /\ Refreshed' = Refreshed
      BY <1>2, <2>1 DEF Unless, Ingested, Refreshed
    <2>3. QED
      BY <1>1, <1>2, <2>2 DEF WorkIsDone
  <1>7. QED
    BY <1>3, <1>4, <1>5, <1>6

\* A request that is answered, or not yet: only the one the workflow waits for is heard.
LEMMA AnswerFacts ==
  ASSUME TypeOK, NEW s \in Slots, NEW a \in {"ok", "error", "submitted", "running"},
         Answer(s, a)
  PROVE  /\ requests' \in [Slots -> Requests] /\ client' \in Clients
         /\ requests'[s].at = "free" /\ requests'[s].route = "run"
         /\ \A j \in Slots \ {s} : requests'[j] = requests[j]
         /\ client'.slot = client.slot /\ client'.job = client.job
         /\ \/ client' = client /\ ~(client.slot = s /\ AtSql)
            \/ client'.answer = a /\ client.slot = s /\ AtSql
  <1>1. requests \in [Slots -> Requests] /\ client \in Clients
    BY DEF TypeOK
  <1>2. requests' = [requests EXCEPT ![s] = NoRequest]
    BY DEF Answer
  <1>3. /\ requests' \in [Slots -> Requests] /\ requests'[s] = NoRequest
        /\ \A j \in Slots \ {s} : requests'[j] = requests[j]
    BY <1>1, <1>2, RecordFacts
  <1>4. \/ client' = client /\ ~(client.slot = s /\ AtSql)
        \/ client' = [client EXCEPT !.answer = a] /\ client.slot = s /\ AtSql
    BY DEF Answer, AtSql
  <1>5. /\ client' \in Clients /\ client'.slot = client.slot /\ client'.job = client.job
        /\ \/ client' = client /\ ~(client.slot = s /\ AtSql)
           \/ client'.answer = a /\ client.slot = s /\ AtSql
    BY <1>1, <1>4 DEF Clients
  <1>6. QED
    BY <1>3, <1>5, RecordFacts

\* While a request of the slot the workflow waits for is under way, it is not answered.
LEMMA HeardOnce ==
  ASSUME AnswersAreTrue, NEW s \in Slots, requests[s].at # "free", client.slot = s, AtSql
  PROVE  Asking
  BY DEF AnswersAreTrue, Asking, AtSql

LEMMA PollReadsStep ==
  ASSUME IInv, NEW s \in Slots, PollReads(s)
  PROVE  IInv'
  <1>1. TypeOK /\ NoneForgotten /\ AnswersAreTrue
    BY DEF IInv
  <1>2. /\ requests[s].route = "poll" /\ requests[s].at = "begin"
        /\ UNCHANGED <<flow, run, rows, jobs, client, outside, abandoned, unwritten, opt, now,
                       checker>>
    BY DEF PollReads, Steady
  <1>3. requests[s].job \in Slots /\ requests \in [Slots -> Requests]
    BY <1>1, <1>2, RecordFacts, SlotFacts DEF TypeOK, AnswersAreTrue, Requests
  <1>4. PICK saw \in {jobs[requests[s].job], "lost"} :
          requests' = [requests EXCEPT ![s].saw = saw, ![s].at = "write"]
    BY DEF PollReads
  <1>5. saw \in {"none", "running", "ok", "error", "lost"}
    BY <1>1, <1>3, <1>4 DEF TypeOK
  <1>6. /\ requests' \in [Slots -> Requests]
        /\ \A j \in Slots \ {s} : requests'[j] = requests[j]
        /\ requests'[s].at = "write" /\ requests'[s].saw = saw
        /\ requests'[s].route = "poll" /\ requests'[s].job = requests[s].job
    <2>1. requests[s] \in Requests
      BY <1>3
    <2>2. /\ requests'[s] = [requests[s] EXCEPT !.saw = saw, !.at = "write"]
          /\ \A j \in Slots \ {s} : requests'[j] = requests[j]
          /\ requests' = [requests EXCEPT ![s] = requests'[s]]
      BY <1>3, <1>4
    <2>3. /\ requests'[s] \in Requests /\ requests'[s].at = "write"
          /\ requests'[s].saw = saw /\ requests'[s].route = "poll"
          /\ requests'[s].job = requests[s].job
      BY <1>2, <1>5, <2>1, <2>2 DEF Requests
    <2>4. QED
      BY <1>3, <2>2, <2>3
  <1>7. TypeOK'
    BY <1>1, <1>2, <1>6 DEF TypeOK, flow, outside, checker
  <1>8. \A j \in Slots : Settled(j) => Settled(j)'
    BY <1>6 DEF Settled
  <1>9. JobDone => JobDone'
    BY <1>2, <1>8 DEF JobDone
  <1>10. Placed' /\ RunIsTrue' /\ TasksAreTrue' /\ WorkIsDone'
    BY <1>2, <1>9, ServiceKeeps
  <1>11. Asking' = Asking /\ Route' = Route /\ pc' = pc /\ phase' = phase /\ SqlTask' = SqlTask
    BY <1>2 DEF Asking, Route, flow, SqlTask
  <1>12. NoneForgotten'
    BY <1>1, <1>2, <1>6, <1>11 DEF NoneForgotten
  <1>13. AnswersAreTrue'
    <2>1. client.job # 0 => opt.kind = "rebuild" /\ Settled(client.job)'
      BY <1>1, <1>2, <1>8, RecordFacts, SlotFacts DEF AnswersAreTrue, Settled
    <2>2. client.answer # "none" => /\ phase = "wait" /\ pc = SqlTask /\ client.slot # 0
                                    /\ requests'[client.slot].at = "free"
      BY <1>1, <1>2, <1>6, RecordFacts, SlotFacts DEF AnswersAreTrue
    <2>3. ASSUME NEW j \in Slots
          PROVE  /\ requests'[j].at = "success" => requests'[j].route = "run" /\ jobs[j] = "ok"
                 /\ requests'[j].route = "poll" /\ requests'[j].at # "free" =>
                      requests'[j].job # 0
                 /\ requests'[j].at # "free" /\ j = client.slot /\ Asking =>
                      /\ requests'[j].route = Route
                      /\ Route = "poll" =>
                           /\ requests'[j].job = client.job
                           /\ requests'[j].at = "write" /\ requests'[j].saw = "ok" =>
                                jobs[client.job] = "ok"
      <3>1. CASE j = s
        BY <1>1, <1>2, <1>4, <1>6, <3>1 DEF AnswersAreTrue
      <3>2. CASE j # s
        BY <1>1, <1>6, <3>2 DEF AnswersAreTrue
      <3>3. QED
        BY <3>1, <3>2
    <2>4. QED
      BY <1>1, <1>2, <1>9, <1>11, <2>1, <2>2, <2>3 DEF AnswersAreTrue, Settled
  <1>14. QED
    BY <1>7, <1>10, <1>12, <1>13 DEF IInv

LEMMA PollWritesStep ==
  ASSUME IInv, NEW s \in Slots, PollWrites(s)
  PROVE  IInv'
  <1> DEFINE a == IF requests[s].saw \in {"running", "ok"} THEN requests[s].saw ELSE "error"
  <1>1. TypeOK /\ NoneForgotten /\ AnswersAreTrue
    BY DEF IInv
  <1>2. /\ requests[s].route = "poll" /\ requests[s].at = "write"
        /\ Put(SqlTask, PollStatus(requests[s].saw), None) /\ Answer(s, a)
        /\ UNCHANGED <<flow, run, jobs, outside, abandoned, unwritten, opt, now, checker>>
    BY DEF PollWrites, Steady
  <1>3. a \in {"ok", "error", "submitted", "running"} /\ a # "submitted"
        /\ (a = "ok" <=> requests[s].saw = "ok")
    OBVIOUS
  <1> HIDE DEF a
  <1>4. /\ rows' \in [Tasks -> Row] /\ \A t \in Tasks \ {SqlTask} : rows'[t] = rows[t]
        /\ a = "ok" => rows'[SqlTask].status = "success"
    <2>1. PollStatus(requests[s].saw) \in {"running", "success", "failed"}
          /\ (a = "ok" => PollStatus(requests[s].saw) = "success")
      BY <1>3 DEF PollStatus
    <2>2. QED
      BY <1>1, <1>2, <2>1, PutFacts, TaskNames DEF None
  <1>5. /\ requests' \in [Slots -> Requests] /\ client' \in Clients
        /\ requests'[s].at = "free" /\ requests'[s].route = "run"
        /\ \A j \in Slots \ {s} : requests'[j] = requests[j]
        /\ client'.slot = client.slot /\ client'.job = client.job
        /\ \/ client' = client /\ ~(client.slot = s /\ AtSql)
           \/ client'.answer = a /\ client.slot = s /\ AtSql
    BY <1>1, <1>2, <1>3, AnswerFacts
  <1>6. TypeOK'
    BY <1>1, <1>2, <1>4, <1>5 DEF TypeOK, flow, outside, checker
  <1>7. \A j \in Slots : Settled(j) => Settled(j)'
    BY <1>5 DEF Settled
  <1>8. JobDone => JobDone'
    BY <1>2, <1>7 DEF JobDone
  <1>9. Placed' /\ RunIsTrue' /\ TasksAreTrue' /\ WorkIsDone'
    BY <1>2, <1>4, <1>5, <1>8, ServiceKeeps
  <1>10. Route' = Route /\ pc' = pc /\ phase' = phase /\ SqlTask' = SqlTask /\ opt' = opt
         /\ AtSql' = AtSql
    BY <1>2, <1>5 DEF Route, flow, SqlTask, AtSql
  <1>11. client'.answer = "ok" => JobDone'
    <2>1. CASE client' = client
      BY <1>1, <1>8, <2>1 DEF AnswersAreTrue
    <2>2. CASE client'.answer = a /\ client.slot = s /\ AtSql
      <3> SUFFICES ASSUME a = "ok" PROVE JobDone'
        BY <2>2
      <3>1. Asking
        BY <1>1, <1>2, <2>2, HeardOnce
      <3>2. Route = "poll" /\ jobs[client.job] = "ok"
        BY <1>1, <1>2, <1>3, <2>2, <3>1 DEF AnswersAreTrue
      <3>3. client.job # 0
        BY <3>2 DEF Route
      <3>4. client.job \in Slots /\ Settled(client.job)
        BY <1>1, <3>3, RecordFacts, SlotFacts DEF AnswersAreTrue
      <3>5. QED
        BY <1>2, <1>7, <3>2, <3>4 DEF JobDone
    <2>3. QED
      BY <1>5, <2>1, <2>2
  <1>12. NoneForgotten'
    <2> SUFFICES ASSUME ~abandoned', NEW j \in Slots, requests'[j].at # "free"
                 PROVE  Asking' /\ j = client'.slot
      BY DEF NoneForgotten
    <2>1. j # s
      BY <1>5
    <2>2. /\ s = client.slot /\ Asking
          /\ j = client.slot
      BY <1>1, <1>2, <1>5, <2>1 DEF NoneForgotten
    <2>3. QED
      BY <2>1, <2>2
  <1>13. AnswersAreTrue'
    <2>1. client.job # 0 => opt.kind = "rebuild" /\ Settled(client.job)'
      BY <1>1, <1>5, <1>7, RecordFacts, SlotFacts DEF AnswersAreTrue, Settled
    <2>2. client'.answer # "none" => /\ phase = "wait" /\ pc = SqlTask /\ client.slot # 0
                                     /\ requests'[client.slot].at = "free"
      BY <1>1, <1>5, RecordFacts, SlotFacts DEF AnswersAreTrue, AtSql
    <2>3. client'.answer = "submitted" => opt.kind = "rebuild"
      BY <1>1, <1>3, <1>5 DEF AnswersAreTrue
    <2>4. ASSUME NEW j \in Slots
          PROVE  /\ requests'[j].at = "success" => requests'[j].route = "run" /\ jobs[j] = "ok"
                 /\ requests'[j].route = "poll" /\ requests'[j].at # "free" =>
                      requests'[j].job # 0
                 /\ requests'[j].at # "free" /\ j = client'.slot /\ Asking' =>
                      /\ requests'[j].route = Route
                      /\ Route = "poll" =>
                           /\ requests'[j].job = client.job
                           /\ requests'[j].at = "write" /\ requests'[j].saw = "ok" =>
                                jobs[client.job] = "ok"
      <3>1. CASE j = s
        BY <1>5, <3>1
      <3>2. CASE j # s
        <4>1. j = client'.slot => client' = client
          BY <1>5, <3>2
        <4>2. j = client'.slot /\ Asking' => Asking
          BY <1>10, <4>1 DEF Asking
        <4>3. QED
          BY <1>1, <1>5, <3>2, <4>2 DEF AnswersAreTrue
      <3>3. QED
        BY <3>1, <3>2
    <2>5. QED
      BY <1>2, <1>5, <1>10, <1>11, <2>1, <2>2, <2>3, <2>4 DEF AnswersAreTrue, Settled
  <1>14. QED
    BY <1>6, <1>9, <1>12, <1>13 DEF IInv

LEMMA JobEndsStep ==
  ASSUME IInv, NEW s \in Slots, JobEnds(s)
  PROVE  IInv'
  <1>1. TypeOK /\ NoneForgotten /\ AnswersAreTrue
    BY DEF IInv
  <1>2. /\ jobs[s] = "running" /\ \E e \in {"ok", "error"} : jobs' = [jobs EXCEPT ![s] = e]
        /\ UNCHANGED <<flow, run, rows, requests, client, outside, abandoned, unwritten, opt,
                       now, checker>>
    BY DEF JobEnds, Steady
  <1>3. /\ jobs' \in [Slots -> {"none", "running", "ok", "error"}]
        /\ \A j \in Slots : jobs[j] = "ok" => jobs'[j] = "ok"
    BY <1>1, <1>2 DEF TypeOK
  <1>4. TypeOK'
    BY <1>1, <1>2, <1>3 DEF TypeOK, flow, outside, checker
  <1>5. JobDone => JobDone'
    BY <1>2, <1>3 DEF JobDone, Settled
  <1>6. Placed' /\ RunIsTrue' /\ TasksAreTrue' /\ WorkIsDone'
    BY <1>2, <1>5, ServiceKeeps
  <1>7. /\ Asking' = Asking /\ Route' = Route /\ SqlTask' = SqlTask
        /\ UNCHANGED <<opt, pc, phase, requests, client, abandoned>>
    BY <1>2 DEF Asking, Route, flow, SqlTask
  <1>8. NoneForgotten'
    BY <1>1, <1>7 DEF NoneForgotten
  <1>9. AnswersAreTrue'
    <2>1. Asking /\ Route = "poll" /\ jobs[client.job] = "ok" => jobs'[client.job] = "ok"
      BY <1>1, <1>3, RecordFacts, SlotFacts DEF Route
    <2>2. QED
      BY <1>1, <1>3, <1>5, <1>7, <2>1 DEF AnswersAreTrue, Settled
  <1>10. QED
    BY <1>4, <1>6, <1>8, <1>9 DEF IInv

\* A request that starts a job goes on, and nobody hears of it.
LEMMA RequestGoesOn ==
  ASSUME IInv, NEW s \in Slots, requests[s].route # "poll", requests[s].at # "free",
         UNCHANGED <<client, opt, flow, abandoned>>,
         \A j \in Slots \ {s} : requests'[j] = requests[j] /\ jobs'[j] = jobs[j],
         requests'[s].route = requests[s].route, requests'[s].at # "free",
         requests'[s].at = "success" => requests[s].route = "run" /\ jobs'[s] = "ok"
  PROVE  NoneForgotten' /\ AnswersAreTrue' /\ (JobDone => JobDone')
  <1>1. TypeOK /\ NoneForgotten /\ AnswersAreTrue
    BY DEF IInv
  <1>2. ~Settled(s) /\ \A j \in Slots : Settled(j) => j # s /\ Settled(j)'
    BY DEF Settled
  <1>3. JobDone => JobDone'
    BY <1>2 DEF JobDone
  <1>4. /\ Asking' = Asking /\ Route' = Route /\ SqlTask' = SqlTask
        /\ UNCHANGED <<opt, pc, phase, client, abandoned>>
    BY DEF Asking, Route, flow, SqlTask
  <1>5. NoneForgotten'
    BY <1>1, <1>4 DEF NoneForgotten
  <1>6. client.job # 0 => /\ opt.kind = "rebuild" /\ client.job \in Slots /\ client.job # s
                          /\ jobs'[client.job] = jobs[client.job] /\ Settled(client.job)'
    BY <1>1, <1>2, <1>4, RecordFacts, SlotFacts DEF AnswersAreTrue, Settled
  <1>7. client.answer # "none" => /\ phase = "wait" /\ pc = SqlTask /\ client.slot # 0
                                  /\ requests'[client.slot].at = "free"
    BY <1>1, RecordFacts, SlotFacts DEF AnswersAreTrue
  <1>8. ASSUME NEW j \in Slots
        PROVE  /\ requests'[j].at = "success" => requests'[j].route = "run" /\ jobs'[j] = "ok"
               /\ requests'[j].route = "poll" /\ requests'[j].at # "free" =>
                    requests'[j].job # 0
               /\ requests'[j].at # "free" /\ j = client.slot /\ Asking =>
                    /\ requests'[j].route = Route
                    /\ Route = "poll" =>
                         /\ requests'[j].job = client.job
                         /\ requests'[j].at = "write" /\ requests'[j].saw = "ok" =>
                              jobs'[client.job] = "ok"
    <2>1. CASE j = s
      BY <1>1, <2>1 DEF AnswersAreTrue
    <2>2. CASE j # s
      <3>1. Route = "poll" => client.job # 0
        BY DEF Route
      <3>2. QED
        BY <1>1, <1>6, <2>2, <3>1 DEF AnswersAreTrue
    <2>3. QED
      BY <2>1, <2>2
  <1>9. AnswersAreTrue'
    BY <1>1, <1>3, <1>4, <1>6, <1>7, <1>8 DEF AnswersAreTrue, Settled
  <1>10. QED
    BY <1>3, <1>5, <1>9

\* A request that starts a job is answered.
LEMMA RequestEnds ==
  ASSUME IInv, NEW s \in Slots, requests[s].route # "poll", requests[s].at # "free",
         NEW a \in {"ok", "error", "submitted"}, Answer(s, a),
         a = "ok" => jobs[s] = "ok", a = "submitted" => requests[s].route = "submit",
         UNCHANGED <<jobs, opt, flow, abandoned>>
  PROVE  NoneForgotten' /\ AnswersAreTrue' /\ (JobDone => JobDone')
  <1>1. TypeOK /\ NoneForgotten /\ AnswersAreTrue
    BY DEF IInv
  <1>2. /\ requests'[s].at = "free" /\ requests'[s].route = "run"
        /\ \A j \in Slots \ {s} : requests'[j] = requests[j]
        /\ client'.slot = client.slot /\ client'.job = client.job
        /\ \/ client' = client /\ ~(client.slot = s /\ AtSql)
           \/ client'.answer = a /\ client.slot = s /\ AtSql
    BY <1>1, AnswerFacts
  <1>3. \A j \in Slots : Settled(j) => Settled(j)'
    BY <1>2 DEF Settled
  <1>4. JobDone => JobDone'
    BY <1>3 DEF JobDone
  <1>5. Route' = Route /\ pc' = pc /\ phase' = phase /\ SqlTask' = SqlTask /\ AtSql' = AtSql
    BY <1>2 DEF Route, flow, SqlTask, AtSql
  <1>6. NoneForgotten'
    <2> SUFFICES ASSUME ~abandoned', NEW j \in Slots, requests'[j].at # "free"
                 PROVE  Asking' /\ j = client'.slot
      BY DEF NoneForgotten
    <2>1. j # s
      BY <1>2
    <2>2. s = client.slot /\ j = client.slot
      BY <1>1, <1>2, <2>1 DEF NoneForgotten
    <2>3. QED
      BY <2>1, <2>2
  <1>7. client.job # 0 => opt.kind = "rebuild" /\ Settled(client.job)'
    BY <1>1, <1>2, <1>3, RecordFacts, SlotFacts DEF AnswersAreTrue, Settled
  <1>8. client'.answer # "none" => /\ phase = "wait" /\ pc = SqlTask /\ client.slot # 0
                                   /\ requests'[client.slot].at = "free"
    BY <1>1, <1>2, RecordFacts, SlotFacts DEF AnswersAreTrue, AtSql
  <1>9. client'.answer = "submitted" => opt.kind = "rebuild"
    <2>1. CASE client' = client
      BY <1>1, <2>1 DEF AnswersAreTrue
    <2>2. CASE client'.answer = a /\ client.slot = s /\ AtSql
      <3>1. Asking
        BY <1>1, <2>2, HeardOnce
      <3>2. requests[s].route = Route
        BY <1>1, <2>2, <3>1 DEF AnswersAreTrue
      <3>3. QED
        BY <2>2, <3>2 DEF Route
    <2>3. QED
      BY <1>2, <2>1, <2>2
  <1>10. client'.answer = "ok" => JobDone'
    <2>1. CASE client' = client
      BY <1>1, <1>4, <2>1 DEF AnswersAreTrue
    <2>2. CASE client'.answer = a
      BY <1>2, <2>2 DEF JobDone, Settled
    <2>3. QED
      BY <1>2, <2>1, <2>2
  <1>11. ASSUME NEW j \in Slots
         PROVE  /\ requests'[j].at = "success" => requests'[j].route = "run" /\ jobs[j] = "ok"
                /\ requests'[j].route = "poll" /\ requests'[j].at # "free" =>
                     requests'[j].job # 0
                /\ requests'[j].at # "free" /\ j = client'.slot /\ Asking' =>
                     /\ requests'[j].route = Route
                     /\ Route = "poll" =>
                          /\ requests'[j].job = client.job
                          /\ requests'[j].at = "write" /\ requests'[j].saw = "ok" =>
                               jobs[client.job] = "ok"
    <2>1. CASE j = s
      BY <1>2, <2>1
    <2>2. CASE j # s
      <3>1. j = client'.slot => client' = client
        BY <1>2, <2>2
      <3>2. j = client'.slot /\ Asking' => Asking
        BY <1>5, <3>1 DEF Asking
      <3>3. QED
        BY <1>1, <1>2, <2>2, <3>2 DEF AnswersAreTrue
    <2>3. QED
      BY <2>1, <2>2
  <1>12. AnswersAreTrue'
    BY <1>2, <1>5, <1>7, <1>8, <1>9, <1>10, <1>11 DEF AnswersAreTrue, Settled
  <1>13. QED
    BY <1>4, <1>6, <1>12

LEMMA ServeStep ==
  ASSUME IInv, NEW s \in Slots, Serve(s)
  PROVE  IInv'
  <1>1. TypeOK
    BY DEF IInv
  <1>2. /\ requests[s].route # "poll" /\ requests[s].at # "free"
        /\ UNCHANGED <<flow, run, outside, abandoned, unwritten, opt, now, checker>>
    BY DEF Serve, Steady
  <1>3. /\ requests \in [Slots -> Requests] /\ requests[s] \in Requests
        /\ requests[s].began \in Int /\ now \in Int
        /\ jobs \in [Slots -> {"none", "running", "ok", "error"}]
    BY <1>1 DEF TypeOK, Requests
  <1>4. CASE \/ /\ requests[s].at = "begin" /\ Put(SqlTask, "running", now)
                /\ requests' = [requests EXCEPT ![s].at = "post", ![s].began = now]
                /\ UNCHANGED <<jobs, client>>
             \/ /\ UNCHANGED <<rows, client>>
                /\ \/ jobs' = [jobs EXCEPT ![s] = "running"] /\ Step(s, "job")
                   \/ UNCHANGED jobs /\ Step(s, "error")
                   \/ /\ UNCHANGED jobs /\ requests[s].route = "run" /\ jobs[s] = "ok"
                      /\ Step(s, "success")
    <2>1. \/ rows' = rows
          \/ /\ rows' \in [Tasks -> Row]
             /\ \A t \in Tasks \ {SqlTask} : rows'[t] = rows[t]
      BY <1>1, <1>3, <1>4, PutFacts, TaskNames
    <2>2. \E at \in {"post", "job", "error", "success"}, began \in Int :
             /\ requests' = [requests EXCEPT ![s] = [@ EXCEPT !.at = at, !.began = began]]
             /\ at = "success" => /\ requests[s].route = "run" /\ jobs[s] = "ok"
                                  /\ UNCHANGED jobs
      <3>1. CASE requests' = [requests EXCEPT ![s].at = "post", ![s].began = now]
        BY <1>3, <3>1
      <3>2. ASSUME NEW at \in {"job", "error", "success"}, Step(s, at)
            PROVE  requests' = [requests EXCEPT ![s] = [@ EXCEPT !.at = at,
                                                               !.began = requests[s].began]]
        BY <1>3, <3>2 DEF Step, Requests
      <3>3. QED
        BY <1>3, <1>4, <3>1, <3>2
    <2>3. /\ requests' \in [Slots -> Requests]
          /\ \A j \in Slots \ {s} : requests'[j] = requests[j]
          /\ requests'[s].route = requests[s].route /\ requests'[s].at # "free"
          /\ requests'[s].at = "success" => requests[s].route = "run" /\ jobs'[s] = "ok"
      <3>1. PICK at \in {"post", "job", "error", "success"}, began \in Int :
               /\ requests' = [requests EXCEPT ![s] = [@ EXCEPT !.at = at, !.began = began]]
               /\ at = "success" => /\ requests[s].route = "run" /\ jobs[s] = "ok"
                                    /\ UNCHANGED jobs
        BY <2>2
      <3>2. LET q == [requests[s] EXCEPT !.at = at, !.began = began]
            IN q \in Requests /\ q.at = at /\ q.route = requests[s].route
        BY <1>3 DEF Requests
      <3>3. QED
        BY <1>3, <3>1, <3>2
    <2>4. /\ jobs' \in [Slots -> {"none", "running", "ok", "error"}]
          /\ \A j \in Slots \ {s} : jobs'[j] = jobs[j]
      BY <1>3, <1>4
    <2>5. client' = client
      BY <1>4
    <2>6. TypeOK'
      BY <1>1, <1>2, <2>1, <2>3, <2>4, <2>5 DEF TypeOK, flow, outside, checker
    <2>7. NoneForgotten' /\ AnswersAreTrue' /\ (JobDone => JobDone')
      BY <1>2, <2>3, <2>4, <2>5, RequestGoesOn
    <2>8. Placed' /\ RunIsTrue' /\ TasksAreTrue' /\ WorkIsDone'
      BY <1>2, <2>1, <2>5, <2>7, ServiceKeeps
    <2>9. QED
      BY <2>6, <2>7, <2>8 DEF IInv
  <1>5. CASE /\ UNCHANGED jobs
             /\ \/ /\ requests[s].route = "submit" /\ Put(SqlTask, "running", requests[s].began)
                   /\ Answer(s, "submitted")
                \/ /\ requests[s].at = "success" /\ Answer(s, "ok")
                   /\ Put(SqlTask, "success", requests[s].began)
                \/ Put(SqlTask, "failed", requests[s].began) /\ Answer(s, "error")
    <2>1. PICK a \in {"ok", "error", "submitted"},
               status \in {"running", "success", "failed"} :
            /\ Put(SqlTask, status, requests[s].began) /\ Answer(s, a)
            /\ a = "ok" => status = "success" /\ requests[s].at = "success"
            /\ a = "submitted" => requests[s].route = "submit"
      BY <1>5
    <2>2. /\ rows' \in [Tasks -> Row] /\ rows'[SqlTask].status = status
          /\ \A t \in Tasks \ {SqlTask} : rows'[t] = rows[t]
      BY <1>1, <1>3, <2>1, PutFacts, TaskNames
    <2>3. /\ requests' \in [Slots -> Requests] /\ client' \in Clients
          /\ client' = client \/ client'.answer = a
      BY <1>1, <2>1, AnswerFacts
    <2>4. a = "ok" => jobs[s] = "ok"
      BY <2>1 DEF IInv, AnswersAreTrue
    <2>5. TypeOK'
      BY <1>1, <1>2, <1>5, <2>2, <2>3 DEF TypeOK, flow, outside, checker
    <2>6. NoneForgotten' /\ AnswersAreTrue' /\ (JobDone => JobDone')
      BY <1>2, <1>5, <2>1, <2>4, RequestEnds
    <2>7. Placed' /\ RunIsTrue' /\ TasksAreTrue' /\ WorkIsDone'
      BY <1>2, <2>1, <2>2, <2>3, <2>6, ServiceKeeps
    <2>8. QED
      BY <2>5, <2>6, <2>7 DEF IInv
  <1>6. QED
    BY <1>4, <1>5 DEF Serve

-----------------------------------------------------------------------------
(* The whole.                                                              *)

LEMMA InitInv == Init => IInv
  <1> SUFFICES ASSUME Init PROVE IInv
    OBVIOUS
  <1>1. /\ opt \in Options /\ pc = "start" /\ phase = "mark" /\ since = 0 /\ now = 0
        /\ run = NoRow /\ rows = [t \in Tasks |-> NoRow]
        /\ requests = [s \in Slots |-> NoRequest] /\ jobs = [s \in Slots |-> "none"]
        /\ client = NoClient /\ ingest = "none" /\ child = "none" /\ linked = FALSE
        /\ due = FALSE /\ alerts = {} /\ abandoned = FALSE /\ unwritten = FALSE
    BY DEF Init
  <1>2. NoRow \in Row /\ NoRow.status = "none"
    BY DEF NoRow, Row, None
  <1>3. NoRequest \in Requests /\ NoClient \in Clients /\ NoRequest.at = "free"
        /\ NoRequest.route = "run" /\ NoClient.answer = "none" /\ NoClient.job = 0
    <2>1. NoRequest \in Requests /\ NoClient \in Clients
      BY DEF NoRequest, NoClient, Requests, Clients, None
    <2>2. QED
      BY <2>1 DEF NoRequest, NoClient
  <1>4. TypeOK
    <2>1. since \in Nat /\ now \in Nat
      BY <1>1
    <2>2. QED
      BY <1>1, <1>2, <1>3, <2>1 DEF TypeOK, Tasks, Phases, Outcomes
  <1>5. Placed
    BY <1>1 DEF Placed, Ended, RebuildTasks
  <1>6. RunIsTrue
    BY <1>1 DEF RunIsTrue
  <1>7. TasksAreTrue
    <2>1. Unsettled = {}
      BY <1>1, <1>2 DEF Unsettled
    <2>2. QED
      BY <1>1, <1>3, <2>1 DEF TasksAreTrue
  <1>8. NoneForgotten /\ AnswersAreTrue
    BY <1>1, <1>3 DEF NoneForgotten, AnswersAreTrue
  <1>9. WorkIsDone
    BY <1>1, <1>2 DEF WorkIsDone
  <1>10. QED
    BY <1>4, <1>5, <1>6, <1>7, <1>8, <1>9 DEF IInv

LEMMA StepInv == IInv /\ [Next]_vars => IInv'
  <1> SUFFICES ASSUME IInv, [Next]_vars PROVE IInv'
    OBVIOUS
  <1>1. CASE Workflow
    BY <1>1, MarkStep, WriteRunStep, GateStep, MarkGateStep, MarkRunningStep, ConnectStep,
       ConnectedStep, AskStep, GiveUpStep, HearStep, CallFailsStep, WriteRunFailedStep,
       WriteTaskFailedStep DEF Workflow
  <1>2. CASE Service
    BY <1>2, ServeStep, PollReadsStep, PollWritesStep, JobEndsStep DEF Service
  <1>3. CASE ChildWrites \/ OutsideEnds \/ Check \/ Tick
    BY <1>3, ChildWritesStep, OutsideEndsStep, CheckStep, TickStep
  <1>4. CASE UNCHANGED vars
    <2>1. UNCHANGED <<opt, pc, phase, since, run, rows, requests, jobs, client, ingest, child,
                      linked, now, due, alerts, abandoned, unwritten>>
      BY <1>4 DEF vars, flow, sql, outside, checker
    <2>2. TypeOK'
      BY <2>1 DEF IInv, TypeOK
    <2>3. NoneForgotten' /\ AnswersAreTrue'
      BY <2>1, QuietKeeps DEF sql
    <2>4. Placed' /\ RunIsTrue' /\ TasksAreTrue' /\ WorkIsDone'
      BY <2>1, ServiceKeeps DEF flow, outside, JobDone, Settled
    <2>5. QED
      BY <2>2, <2>3, <2>4 DEF IInv
  <1>5. QED
    BY <1>1, <1>2, <1>3, <1>4 DEF Next

\* IInv is an invariant of the execution.
THEOREM Invariance == Spec => []IInv
  BY InitInv, StepInv, PTL DEF Spec

\* The variables have the values the code can give them.
THEOREM TypeCorrect == Spec => []TypeOK
  <1>1. IInv => TypeOK
    BY DEF IInv
  <1>2. QED
    BY <1>1, Invariance, PTL

\* The rows of an execution that has ended say what happened to it: the run's row matches
\* the outcome, and exactly the task it failed at is marked failed.
THEOREM RowsAreTrue == Spec => []RecordsAreTrue
  <1>1. IInv => RecordsAreTrue
    <2> SUFFICES ASSUME IInv, Ended, ~unwritten
                 PROVE  /\ run.status = IF pc = "succeeded" THEN "success" ELSE "failed"
                        /\ abandoned \/
                             /\ \A t \in Tasks : rows[t].status # "running"
                             /\ Cardinality({t \in Tasks : rows[t].status = "failed"})
                                  = IF pc = "succeeded" THEN 0 ELSE 1
      BY DEF RecordsAreTrue
    <2>1. run.status = IF pc = "succeeded" THEN "success" ELSE "failed"
      BY DEF IInv, RunIsTrue, Ended
    <2>2. CASE ~abandoned /\ pc = "succeeded"
      <3>1. Unsettled = {}
        BY <2>2, TaskNames DEF IInv, TasksAreTrue, Unsettled
      <3>2. /\ \A t \in Tasks : rows[t].status # "running"
            /\ {t \in Tasks : rows[t].status = "failed"} = {}
        BY <3>1 DEF Unsettled
      <3>3. QED
        BY <2>1, <2>2, <3>2, FS_EmptySet
    <2>3. CASE ~abandoned /\ pc = "failed"
      <3>1. PICK f \in Tasks : Unsettled = {f} /\ rows[f].status = "failed"
        BY <2>3 DEF IInv, TasksAreTrue
      <3>2. /\ \A t \in Tasks : rows[t].status # "running"
            /\ {t \in Tasks : rows[t].status = "failed"} = {f}
        BY <3>1 DEF Unsettled
      <3>3. Cardinality({t \in Tasks : rows[t].status = "failed"}) = 1
        BY <3>2, FS_Singleton
      <3>4. QED
        BY <2>1, <2>3, <3>2, <3>3
    <2>4. QED
      BY <2>1, <2>2, <2>3 DEF Ended
  <1>2. QED
    BY <1>1, Invariance, PTL

\* A run recorded as a success had its SQL task's job end well, its partitions ingested
\* and the warehouse refreshed, unless an argument or the closed exchange left one out.
THEOREM SuccessIsWhole == Spec => []SuccessIsComplete
  <1>1. IInv => SuccessIsComplete
    BY DEF IInv, WorkIsDone, SuccessIsComplete, Unless, JobDone, Ingested, Refreshed
  <1>2. QED
    BY <1>1, Invariance, PTL

-----------------------------------------------------------------------------
(* The alert checker: a heartbeat vouches for the log.                      *)

\* A row that changes now, or an ingestion that falls due now, is too young for what a
\* check has vouched for up to now; a longer log vouches for as much.
LEMMA VouchedStands ==
    ASSUME CheckerConstants, NEW at \in Nat, at <= time, time \in Nat,
           NEW lookback \in Nat, NEW entries, NEW more, entries \subseteq more,
           Vouched(at, lookback, entries),
           \A r \in Resource : \/ reported'[r] = reported[r]
                               \/ reported'[r].status # "failed"
                               \/ reported'[r].finished = time,
           missing' \in {missing, Never, time}
    PROVE  Vouched(at, lookback, more)'
<1>1. ASSUME NEW r \in Resource,
             reported'[r].status = "failed", reported'[r].started >= at - ViewWindow,
             reported'[r].finished \in (at - lookback) .. (at - 1)
      PROVE  Alert(r, reported'[r].finished) \in more
  <2>1. reported'[r].finished # time
    BY <1>1
  <2>2. reported'[r] = reported[r]
    BY <1>1, <2>1
  <2> QED
    BY <1>1, <2>2 DEF Vouched
<1>2. ASSUME missing' # Never, missing' + Grace < at
      PROVE  Alert(LinkedRefresh, at) \in more
  <2>1. missing' # time
    BY <1>2 DEF CheckerConstants
  <2> QED
    BY <1>2, <2>1 DEF Vouched
<1> QED
  BY <1>1, <1>2 DEF Vouched, Alert

\* The query finds what a check at this time should find.
LEMMA SummaryVouches ==
    ASSUME CheckerConstants, CheckerTypeOK, \A r \in Resource : RowInTime(r),
           NEW lookback \in Nat
    PROVE  /\ Vouched(time, lookback, Summary(lookback))
           /\ Summary(lookback) \subseteq Alerts
<1>0. time \in Nat /\ Grace \in Nat
  BY DEF CheckerConstants, CheckerTypeOK
<1>1. ASSUME NEW r \in Resource,
             reported[r].status = "failed", reported[r].started >= time - ViewWindow,
             reported[r].finished \in (time - lookback) .. (time - 1)
      PROVE  Alert(r, reported[r].finished) \in Summary(lookback)
  <2>1. reported[r].finished >= time - lookback
    BY <1>0, <1>1
  <2> QED
    BY <1>1, <2>1 DEF Summary, Failures
<1>2. ASSUME missing # Never, missing + Grace < time
      PROVE  Alert(LinkedRefresh, time) \in Summary(lookback)
  <2>1. missing \in Nat
    BY <1>2 DEF CheckerTypeOK
  <2>2. Outstanding
    BY <1>0, <1>2, <2>1 DEF Outstanding
  <2> QED
    BY <2>2 DEF Summary
<1>3. Failures(lookback) \subseteq Alerts
  BY DEF Failures, Alerts, Alert, RowInTime
<1>4. Summary(lookback) \subseteq Alerts
  BY <1>0, <1>3 DEF Summary, Alerts, Alert
<1> QED
  BY <1>1, <1>2, <1>4 DEF Vouched

\* A step that leaves the checks, the log and the heartbeats alone, at the same time.
LEMMA RowsMove ==
    ASSUME CheckerConstants, CheckerInv, CheckerTypeOK',
           UNCHANGED <<time, check, log, beat>>,
           \A r \in Resource : RowInTime(r)',
           \A r \in Resource : \/ reported'[r] = reported[r]
                               \/ reported'[r].status # "failed"
                               \/ reported'[r].finished = time,
           missing' \in {missing, Never, time}
    PROVE  CheckerInv'
<1>0. /\ time \in Nat
      /\ \A c \in Checkers : check[c].args.lookback \in Nat /\ beat[c].args.lookback \in Nat
  BY DEF CheckerInv, CheckerTypeOK, Argument
<1>1. ASSUME NEW c \in Checkers
      PROVE  CheckCovers(c)'
  <2>1. CheckCovers(c)
    BY DEF CheckerInv
  <2>2. CASE check[c].pc \in {"log", "beat"} /\ check[c].args.log
    <3>1. Vouched(time, check[c].args.lookback, log \cup check[c].todo)
      BY <2>1, <2>2 DEF CheckCovers
    <3>2. \A at, lookback, entries :
             at = time /\ lookback = check[c].args.lookback /\ entries = log \cup check[c].todo
             => Vouched(at, lookback, entries)'
      BY <1>0, <3>1, VouchedStands
    <3> QED
      BY <2>1, <3>2 DEF CheckCovers, Vouched
  <2> QED
    BY <2>1, <2>2 DEF CheckCovers
<1>2. ASSUME NEW c \in Checkers
      PROVE  BeatVouches(c)'
  <2>1. BeatVouches(c)
    BY DEF CheckerInv
  <2>2. CASE beat[c].args.log
    <3>1. beat[c].at \in 0 .. time /\ Vouched(beat[c].at, beat[c].args.lookback, log)
      BY <2>1, <2>2 DEF BeatVouches
    <3>2. \A at, lookback, entries :
             at = beat[c].at /\ lookback = beat[c].args.lookback /\ entries = log
             => Vouched(at, lookback, entries)'
      BY <1>0, <3>1, VouchedStands
    <3> QED
      BY <3>1, <3>2 DEF BeatVouches, Vouched
  <2> QED
    BY <2>1, <2>2 DEF BeatVouches
<1> QED
  BY <1>1, <1>2 DEF CheckerInv

LEMMA RowStartsKeeps ==
    ASSUME CheckerConstants, CheckerInv, NEW r \in Resource, RowStarts(r)
    PROVE  CheckerInv'
<1>1. /\ UNCHANGED <<time, missing, check, mayBegin, log, beat>>
      /\ reported' = [reported EXCEPT
                        ![r] = [status |-> "running", started |-> time, finished |-> Never]]
      /\ CheckerTypeOK
  BY DEF RowStarts, CheckerInv
<1>2. CheckerTypeOK'
  BY <1>1 DEF CheckerTypeOK
<1>3. \A q \in Resource :
         /\ RowInTime(q)'
         /\ reported'[q] = reported[q] \/ reported'[q].status # "failed"
  BY <1>1 DEF CheckerInv, CheckerTypeOK, RowInTime
<1> QED
  BY <1>1, <1>2, <1>3, RowsMove

LEMMA EndsKeeps ==
    ASSUME CheckerConstants, CheckerInv, NEW r \in Resource, Ends(r)
    PROVE  CheckerInv'
<1>1. PICK s \in {"success", "failed"} :
         reported' = [reported EXCEPT ![r].status = s, ![r].finished = time]
  BY DEF Ends
<1>2. /\ UNCHANGED <<time, missing, check, mayBegin, log, beat>> /\ CheckerTypeOK
      /\ reported[r].status = "running" /\ RowInTime(r)
  BY DEF Ends, CheckerInv
<1> DEFINE entry == [reported[r] EXCEPT !.status = s, !.finished = time]
<1>3. /\ reported' = [reported EXCEPT ![r] = entry] /\ entry.status = s
      /\ entry.finished = time /\ entry.started = reported[r].started
      /\ entry \in [status : {"none", "running", "success", "failed"},
                  started : Nat \cup {Never}, finished : Nat \cup {Never}]
  BY <1>1, <1>2 DEF CheckerTypeOK
<1> HIDE DEF entry
<1>4. CheckerTypeOK'
  BY <1>2, <1>3 DEF CheckerTypeOK
<1>5. /\ reported'[r] = entry /\ \A q \in Resource : q # r => reported'[q] = reported[q]
      /\ time \in Nat
  BY <1>2, <1>3 DEF CheckerTypeOK
<1>6. \A q \in Resource : RowInTime(q)'
  BY <1>2, <1>3, <1>5 DEF CheckerInv, RowInTime
<1>7. \A q \in Resource : reported'[q] = reported[q] \/ reported'[q].finished = time
  BY <1>3, <1>5
<1> QED
  BY <1>2, <1>4, <1>6, <1>7, RowsMove

LEMMA RefreshKeeps ==
    ASSUME CheckerConstants, CheckerInv, RefreshDueOrSeen
    PROVE  CheckerInv'
<1>1. /\ missing' \in {Never, time} /\ CheckerTypeOK
      /\ UNCHANGED <<time, reported, check, mayBegin, log, beat>>
  BY DEF RefreshDueOrSeen, CheckerInv
<1>2. CheckerTypeOK'
  BY <1>1 DEF CheckerTypeOK
<1>3. \A q \in Resource : RowInTime(q)'
  BY <1>1 DEF CheckerInv, RowInTime
<1> QED
  BY <1>1, <1>2, <1>3, RowsMove

\* Time passes when no check is under way.
LEMMA TimeKeeps ==
    ASSUME CheckerInv, TimePasses
    PROVE  CheckerInv'
<1>1. /\ time' = time + 1 /\ mayBegin' = Checkers /\ CheckerTypeOK /\ time \in Nat
      /\ UNCHANGED <<reported, missing, check, log, beat>>
      /\ \A c \in Checkers : check[c].pc = "idle"
  BY DEF TimePasses, CheckerInv, CheckerTypeOK
<1>2. CheckerTypeOK'
  BY <1>1 DEF CheckerTypeOK
<1>3. \A q \in Resource : RowInTime(q)'
  BY <1>1 DEF CheckerInv, RowInTime
<1>4. \A c \in Checkers : CheckCovers(c)' /\ BeatVouches(c)'
  <2> SUFFICES ASSUME NEW c \in Checkers PROVE CheckCovers(c)' /\ BeatVouches(c)'
    OBVIOUS
  <2>1. CheckCovers(c)'
    BY <1>1 DEF CheckCovers
  <2>2. BeatVouches(c)'
    BY <1>1 DEF CheckerInv, BeatVouches, Vouched
  <2> QED
    BY <2>1, <2>2
<1> QED
  BY <1>2, <1>3, <1>4 DEF CheckerInv

\* A step of one check, which may log more.
LEMMA CheckMoves ==
    ASSUME CheckerConstants, CheckerInv, NEW c \in Checkers,
           UNCHANGED <<time, reported, missing, beat>>, mayBegin' \subseteq Checkers,
           log \subseteq log', log' \subseteq Alerts,
           NEW new \in [pc : {"idle", "query", "log", "beat"}, args : Argument,
                        todo : SUBSET Alerts],
           check' = [check EXCEPT ![c] = new],
           new.pc \in {"log", "beat"} /\ new.args.log
             => Vouched(time, new.args.lookback, log' \cup new.todo),
           new.pc = "beat" => new.todo = {}
    PROVE  CheckerInv'
<1>1. /\ CheckerTypeOK /\ time \in Nat /\ check'[c] = new
      /\ \A d \in Checkers : d # c => check'[d] = check[d]
  BY DEF CheckerInv, CheckerTypeOK
<1>2. CheckerTypeOK'
  BY <1>1 DEF CheckerTypeOK
<1>3. \A q \in Resource : RowInTime(q)'
  BY DEF CheckerInv, RowInTime
<1>4. \A at, lookback, entries, more :
         entries \subseteq more /\ Vouched(at, lookback, entries) => Vouched(at, lookback, more)'
  BY DEF Vouched
<1>5. ASSUME NEW d \in Checkers
      PROVE  CheckCovers(d)'
  <2>1. CASE d = c
    BY <1>1, <2>1 DEF CheckCovers, Vouched
  <2>2. CASE d # c
    <3>1. check'[d] = check[d] /\ CheckCovers(d)
      BY <1>1, <2>2 DEF CheckerInv
    <3>2. log \cup check[d].todo \subseteq log' \cup check[d].todo
      OBVIOUS
    <3> QED
      BY <3>1, <3>2 DEF CheckCovers, Vouched
  <2> QED
    BY <2>1, <2>2
<1>6. ASSUME NEW d \in Checkers
      PROVE  BeatVouches(d)'
  <2>1. BeatVouches(d)
    BY DEF CheckerInv
  <2> QED
    BY <2>1 DEF BeatVouches, Vouched
<1> QED
  BY <1>2, <1>3, <1>5, <1>6 DEF CheckerInv

LEMMA IdleFits ==
    /\ Idle \in [pc : {"idle", "query", "log", "beat"}, args : Argument, todo : SUBSET Alerts]
    /\ Idle.pc = "idle"
  BY DEF Idle, Args, Argument

LEMMA BeginKeeps ==
    ASSUME CheckerConstants, CheckerInv, NEW c \in Checkers, BeginCheck(c)
    PROVE  CheckerInv'
<1>1. PICK args \in Arguments[c] : At(c, "query", args, {})
  BY DEF BeginCheck
<1> DEFINE new == [pc |-> "query", args |-> args, todo |-> {}]
<1>2. /\ new \in [pc : {"idle", "query", "log", "beat"}, args : Argument, todo : SUBSET Alerts]
      /\ new.pc = "query" /\ check' = [check EXCEPT ![c] = new]
  BY <1>1 DEF CheckerConstants, At
<1>3. /\ UNCHANGED <<time, reported, missing, log, beat>> /\ mayBegin' \subseteq Checkers
      /\ log' \subseteq Alerts
  BY DEF BeginCheck, CheckerInv, CheckerTypeOK
<1> HIDE DEF new
<1> QED
  BY <1>2, <1>3, CheckMoves

LEMMA StopKeeps ==
    ASSUME CheckerConstants, CheckerInv, NEW c \in Checkers, Stop(c),
           UNCHANGED <<time, reported, missing, mayBegin, beat>>,
           log \subseteq log', log' \subseteq Alerts
    PROVE  CheckerInv'
<1>1. check' = [check EXCEPT ![c] = Idle] /\ mayBegin' \subseteq Checkers
  BY DEF Stop, CheckerInv, CheckerTypeOK
<1> QED
  BY <1>1, IdleFits, CheckMoves

\* A check that has nothing to log, or has logged it all, goes on to its heartbeat.
LEMMA BeatComesNext ==
    ASSUME CheckerConstants, CheckerInv, NEW c \in Checkers, Beat(c, check[c].args),
           UNCHANGED <<time, reported, missing, mayBegin, beat>>,
           log \subseteq log', log' \subseteq Alerts,
           check[c].args.log => Vouched(time, check[c].args.lookback, log')
    PROVE  CheckerInv'
<1> DEFINE new == [pc |-> "beat", args |-> check[c].args, todo |-> {}]
<1>1. CASE check[c].args.beat
  <2>1. /\ new \in [pc : {"idle", "query", "log", "beat"}, args : Argument,
                    todo : SUBSET Alerts]
        /\ new.pc = "beat" /\ new.args = check[c].args /\ new.todo = {}
        /\ check' = [check EXCEPT ![c] = new] /\ mayBegin' \subseteq Checkers
    BY <1>1 DEF Beat, At, CheckerInv, CheckerTypeOK
  <2>2. log' \cup new.todo = log'
    BY <2>1
  <2> HIDE DEF new
  <2> QED
    BY <2>1, <2>2, CheckMoves
<1>2. CASE ~check[c].args.beat
  BY <1>2, StopKeeps DEF Beat
<1> QED
  BY <1>1, <1>2

LEMMA QueryKeeps ==
    ASSUME CheckerConstants, CheckerInv, NEW c \in Checkers, Query(c)
    PROVE  CheckerInv'
<1> DEFINE args == check[c].args
           found == Summary(args.lookback)
<1>1. /\ UNCHANGED <<time, reported, missing, mayBegin, log, beat>>
      /\ args \in Argument /\ args.lookback \in Nat /\ args.log \in BOOLEAN
      /\ mayBegin' \subseteq Checkers /\ log' \subseteq Alerts /\ CheckerTypeOK
  BY DEF Query, CheckerInv, CheckerTypeOK, Argument
<1>2. Vouched(time, args.lookback, found) /\ found \subseteq Alerts
  BY <1>1, SummaryVouches DEF CheckerInv
<1>3. CASE Stop(c)
  BY <1>1, <1>3, StopKeeps
<1>4. CASE found # {} /\ args.log /\ At(c, "log", args, found)
  <2> DEFINE new == [pc |-> "log", args |-> args, todo |-> found]
  <2>1. /\ new \in [pc : {"idle", "query", "log", "beat"}, args : Argument,
                    todo : SUBSET Alerts]
        /\ new.pc = "log" /\ new.args = args /\ new.todo = found
        /\ check' = [check EXCEPT ![c] = new]
    BY <1>1, <1>2, <1>4 DEF At
  <2>2. Vouched(time, args.lookback, log' \cup found)
    BY <1>2 DEF Vouched
  <2> HIDE DEF new
  <2> QED
    BY <1>1, <2>1, <2>2, CheckMoves
<1>5. CASE ~(found # {} /\ args.log) /\ Beat(c, args)
  <2>1. args.log => Vouched(time, args.lookback, log')
    BY <1>2, <1>5 DEF Vouched
  <2> QED
    BY <1>1, <1>5, <2>1, BeatComesNext
<1> QED
  BY <1>3, <1>4, <1>5 DEF Query

LEMMA LogEntryKeeps ==
    ASSUME CheckerConstants, CheckerInv, NEW c \in Checkers, LogEntry(c)
    PROVE  CheckerInv'
<1>1. PICK e \in check[c].todo :
         \/ /\ log' = log \cup {e}
            /\ IF check[c].todo = {e} THEN Beat(c, check[c].args)
               ELSE check' = [check EXCEPT ![c].todo = @ \ {e}]
         \/ log' \in {log, log \cup {e}} /\ Stop(c)
  BY DEF LogEntry
<1>2. /\ UNCHANGED <<time, reported, missing, mayBegin, beat>>
      /\ check[c].pc = "log" /\ CheckCovers(c)
      /\ check[c] \in [pc : {"idle", "query", "log", "beat"}, args : Argument,
                       todo : SUBSET Alerts]
      /\ mayBegin' \subseteq Checkers /\ log \subseteq Alerts
      /\ check \in [Checkers -> [pc : {"idle", "query", "log", "beat"}, args : Argument,
                                 todo : SUBSET Alerts]]
  BY DEF LogEntry, CheckerInv, CheckerTypeOK
<1>3. log \subseteq log' /\ log' \subseteq Alerts
  BY <1>1, <1>2
<1>4. CASE Stop(c)
  BY <1>2, <1>3, <1>4, StopKeeps
<1>5. CASE log' = log \cup {e} /\ check[c].todo = {e} /\ Beat(c, check[c].args)
  <2>1. check[c].args.log => Vouched(time, check[c].args.lookback, log')
    BY <1>2, <1>5 DEF CheckCovers
  <2> QED
    BY <1>2, <1>3, <1>5, <2>1, BeatComesNext
<1>6. CASE log' = log \cup {e} /\ check' = [check EXCEPT ![c].todo = @ \ {e}]
  <2> DEFINE new == [check[c] EXCEPT !.todo = @ \ {e}]
  <2>1. /\ new \in [pc : {"idle", "query", "log", "beat"}, args : Argument,
                    todo : SUBSET Alerts]
        /\ new.pc = "log" /\ new.args = check[c].args /\ new.todo = check[c].todo \ {e}
        /\ check' = [check EXCEPT ![c] = new]
    BY <1>2, <1>6
  <2>2. log' \cup new.todo = log \cup check[c].todo
    BY <1>6, <2>1
  <2> HIDE DEF new
  <2>3. new.args.log => Vouched(time, new.args.lookback, log' \cup new.todo)
    BY <1>2, <2>1, <2>2 DEF CheckCovers
  <2> QED
    BY <1>2, <1>3, <2>1, <2>3, CheckMoves
<1> QED
  BY <1>1, <1>4, <1>5, <1>6

LEMMA HeartbeatKeeps ==
    ASSUME CheckerConstants, CheckerInv, NEW c \in Checkers, Heartbeat(c)
    PROVE  CheckerInv'
<1>1. CASE UNCHANGED beat
  BY <1>1, StopKeeps DEF Heartbeat, CheckerInv, CheckerTypeOK
<1>2. CASE beat' = [beat EXCEPT ![c] = [at |-> time, args |-> check[c].args]]
  <2>1. /\ UNCHANGED <<time, reported, missing, mayBegin, log>> /\ CheckerTypeOK
        /\ time \in Nat /\ check[c].pc = "beat" /\ check' = [check EXCEPT ![c] = Idle]
        /\ CheckCovers(c)
    BY DEF Heartbeat, Stop, CheckerInv, CheckerTypeOK
  <2>2. CheckerTypeOK'
    BY <1>2, <2>1, IdleFits DEF CheckerTypeOK
  <2>3. \A q \in Resource : RowInTime(q)'
    BY <2>1 DEF CheckerInv, RowInTime
  <2>4. ASSUME NEW d \in Checkers
        PROVE  CheckCovers(d)'
    <3>1. CASE d = c
      <4>1. check'[d] = Idle
        BY <2>1, <3>1 DEF CheckerTypeOK
      <4> QED
        BY <4>1 DEF CheckCovers, Idle
    <3>2. CASE d # c
      <4>1. check'[d] = check[d] /\ CheckCovers(d)
        BY <2>1, <3>2 DEF CheckerInv, CheckerTypeOK
      <4> QED
        BY <2>1, <4>1 DEF CheckCovers, Vouched
    <3> QED
      BY <3>1, <3>2
  <2>5. ASSUME NEW d \in Checkers
        PROVE  BeatVouches(d)'
    <3>1. CASE d = c
      <4>1. beat'[d].at = time /\ beat'[d].args = check[c].args
        BY <1>2, <2>1, <3>1 DEF CheckerTypeOK
      <4>2. check[c].args.log => Vouched(time, check[c].args.lookback, log)
        BY <2>1 DEF CheckCovers
      <4> QED
        BY <2>1, <4>1, <4>2 DEF BeatVouches, Vouched
    <3>2. CASE d # c
      <4>1. beat'[d] = beat[d] /\ BeatVouches(d)
        BY <1>2, <3>2 DEF CheckerInv, CheckerTypeOK
      <4> QED
        BY <2>1, <4>1 DEF BeatVouches, Vouched
    <3> QED
      BY <3>1, <3>2
  <2> QED
    BY <2>2, <2>3, <2>4, <2>5 DEF CheckerInv
<1> QED
  BY <1>1, <1>2 DEF Heartbeat

LEMMA CheckerStarts ==
    ASSUME CheckerConstants, CheckerInit
    PROVE  CheckerInv
<1>1. Args(0, FALSE, FALSE, FALSE) \in Argument /\ ~Args(0, FALSE, FALSE, FALSE).log
  BY DEF Args, Argument
<1>2. CheckerTypeOK
  BY <1>1, IdleFits DEF CheckerInit, CheckerTypeOK
<1>3. \A r \in Resource : RowInTime(r)
  BY DEF CheckerInit, RowInTime
<1>4. \A c \in Checkers : CheckCovers(c) /\ BeatVouches(c)
  BY <1>1, IdleFits DEF CheckerInit, CheckCovers, BeatVouches
<1> QED
  BY <1>2, <1>3, <1>4 DEF CheckerInv

LEMMA CheckerStep ==
    ASSUME CheckerConstants, CheckerInv, [CheckerNext]_checkerVars
    PROVE  CheckerInv'
<1>1. CASE UNCHANGED checkerVars
  BY <1>1 DEF checkerVars, CheckerInv, CheckerTypeOK, RowInTime, CheckCovers, BeatVouches,
              Vouched
<1>2. ASSUME NEW c \in Checkers, Dies(c)
      PROVE  CheckerInv'
  BY <1>2, StopKeeps DEF Dies, CheckerInv, CheckerTypeOK
<1> QED
  BY <1>1, <1>2, RowStartsKeeps, EndsKeeps, RefreshKeeps, TimeKeeps, BeginKeeps,
     QueryKeeps, LogEntryKeeps, HeartbeatKeeps DEF CheckerNext

\* For any rows, checkers, arguments, periods and windows, and whichever calls of the
\* checks fail or are carried out although they failed: a heartbeat of a check that logs
\* vouches for the log.
THEOREM HeartbeatsVouch == CheckerConstants => (CheckerSpec => []HeartbeatVouches)
<1> SUFFICES ASSUME CheckerConstants PROVE CheckerSpec => []HeartbeatVouches
  OBVIOUS
<1>1. CheckerInit => CheckerInv
  BY CheckerStarts
<1>2. CheckerInv /\ [CheckerNext]_checkerVars => CheckerInv'
  BY CheckerStep
<1>3. CheckerInv => HeartbeatVouches
  BY DEF CheckerInv, BeatVouches, HeartbeatVouches
<1> QED
  BY <1>1, <1>2, <1>3, PTL DEF CheckerSpec

-----------------------------------------------------------------------------
(* The set-up of the alert policies converges.                              *)

LEMMA PolicyFacts ==
    ASSUME PoliciesConstants, PoliciesTypeOK
    PROVE  /\ NoPolicy \notin Policy /\ Live \subseteq Ids
           /\ \A i \in Ids : i \in Live <=> policies[i] \in Policy
           /\ \A k \in Keys : Known(k) = {i \in Live : PolicyMatches(policies[i], k)}
           /\ Keys \subseteq Nat /\ 1 \in Keys
<1>1. 0 \notin Keys /\ Keys \subseteq Nat /\ 1 \in Keys
  BY DEF PoliciesConstants
<1>2. NoPolicy \notin Policy
  BY <1>1 DEF NoPolicy, Policy
<1>3. /\ Live \subseteq Ids
      /\ \A i \in Ids : i \in Live <=> policies[i] \in Policy
  BY <1>2 DEF Live, PoliciesTypeOK
<1>4. \A i \in Live : policies[i].name \in {"current", "legacy", "other"}
  BY <1>3 DEF Policy
<1>5. ASSUME NEW k \in Keys
      PROVE  Known(k) = {i \in Live : PolicyMatches(policies[i], k)}
  BY <1>4 DEF Known, PolicyMatches
<1> QED
  BY <1>1, <1>2, <1>3, <1>5

\* What is said of a run stays true while the policies, the run and the metrics do.
LEMMA RunStands ==
    ASSUME NEW job \in ScriptRun, NEW after \in ScriptRun, UNCHANGED policies,
           metrics \subseteq metrics', metrics' \subseteq Keys,
           after.pc = job.pc, after.key = job.key, after.given = job.given,
           after.found = job.found, after.keeps = job.keeps, after.before = job.before,
           MetricsMade(job), Progress(job)
    PROVE  MetricsMade(after)' /\ Progress(after)'
<1>1. MetricsMade(after)'
  BY DEF MetricsMade
<1>2. \A k \in Keys : Known(k)' = Known(k)
  BY DEF Known, Live
<1>3. \A k \in Keys : /\ KeySettled(job, k) => KeySettled(after, k)'
                      /\ Untouched(job, k) => Untouched(after, k)'
  BY <1>2 DEF KeySettled, Untouched
<1>4. after.key \in Keys
  BY DEF ScriptRun
<1>5. ListedIsThere(job) => ListedIsThere(after)'
  BY <1>2, <1>4 DEF ListedIsThere
<1> QED
  BY <1>1, <1>3, <1>5 DEF Progress

LEMMA MetricsStand ==
    ASSUME NEW job, MetricsMade(job), metrics \subseteq metrics', metrics' \subseteq Keys
    PROVE  MetricsMade(job)'
  BY DEF MetricsMade

\* A step of one operator that leaves the policies alone.
LEMMA OperatorMoves ==
    ASSUME PoliciesInv, NEW o \in Operators, NEW job \in ScriptRun, Update(o, job),
           UNCHANGED <<policies, edits>>, metrics \subseteq metrics', metrics' \subseteq Keys,
           MetricsMade(job)', job.alone => Progress(job)'
    PROVE  PoliciesInv'
<1>1. PoliciesTypeOK /\ setup \in [Operators -> ScriptRun]
  BY DEF PoliciesInv, PoliciesTypeOK
<1>2. /\ setup'[o] = job /\ \A q \in Operators : q # o => setup'[q] = setup[q]
      /\ setup' \in [Operators -> ScriptRun]
  BY <1>1 DEF Update
<1>3. PoliciesTypeOK'
  BY <1>1, <1>2 DEF PoliciesTypeOK
<1>4. \A r \in ScriptRun : Progress(r) /\ MetricsMade(r) => Progress(r)'
  BY RunStands
<1>5. \A r : MetricsMade(r) => MetricsMade(r)'
  BY MetricsStand
<1>6. ASSUME NEW q \in Operators, NEW r \in {setup'[q]}
      PROVE  MetricsMade(r)' /\ (r.alone => Progress(r)')
  <2>1. CASE q = o
    BY <1>2, <2>1
  <2>2. CASE q # o
    <3>1. r = setup[q] /\ setup[q] \in ScriptRun
      BY <1>1, <1>2, <2>2
    <3>2. MetricsMade(r) /\ (r.alone => Progress(r))
      BY <3>1 DEF PoliciesInv
    <3> QED
      BY <1>4, <1>5, <3>1, <3>2
  <2> QED
    BY <2>1, <2>2
<1> QED
  BY <1>3, <1>6 DEF PoliciesInv

LEMMA OperatorRun ==
    ASSUME PoliciesInv, NEW o \in Operators
    PROVE  /\ PoliciesTypeOK /\ metrics \subseteq Keys
           /\ \E job \in ScriptRun : /\ job = setup[o] /\ MetricsMade(job)
                                     /\ job.alone => Progress(job)
  BY DEF PoliciesInv, PoliciesTypeOK

LEMMA BeginSetupKeeps ==
    ASSUME PoliciesConstants, PoliciesInv, NEW o \in Operators, BeginSetup(o)
    PROVE  PoliciesInv'
<1>1. PICK given \in Channels :
        Update(o, [ScriptAt("metrics", 1, given) EXCEPT
                     !.before = [k \in Keys |-> UNION {policies[i].channels : i \in Known(k)}]])
  BY DEF BeginSetup
<1>2. PoliciesTypeOK /\ UNCHANGED <<metrics, policies, edits>>
  BY DEF BeginSetup, PoliciesInv
<1>3. PICK before \in [Keys -> SUBSET UNION Channels] :
         before = [k \in Keys |-> UNION {policies[i].channels : i \in Known(k)}]
  <2>1. ASSUME NEW k \in Keys, NEW i \in Known(k)
        PROVE  policies[i].channels \subseteq UNION Channels
    <3>1. i \in Live /\ policies[i] \in Policy
      BY <1>2, PolicyFacts DEF Known
    <3> QED
      BY <3>1 DEF Policy
  <2> QED
    BY <2>1
<1> DEFINE first == ScriptAt("metrics", 1, given)
<1>4. /\ first \in ScriptRun /\ first.pc = "metrics" /\ first.key = 1
      /\ first.alone = TRUE
  BY <1>2, PolicyFacts DEF ScriptAt, ScriptRun
<1>11. Update(o, [first EXCEPT !.before = before])
  BY <1>1, <1>3
<1> HIDE DEF first
<1> DEFINE job == [first EXCEPT !.before = before]
<1>5. /\ job.pc = "metrics" /\ job.key = 1 /\ job.before = before /\ job.alone = TRUE
      /\ job \in ScriptRun /\ Update(o, job)
  BY <1>11, <1>4 DEF ScriptRun
<1>6. \A k \in Keys : ~(k < 1)
  BY DEF PoliciesConstants
<1>7. MetricsMade(job)
  BY <1>5, <1>6 DEF MetricsMade
<1>8. Progress(job)
  BY <1>3, <1>5 DEF Progress, Untouched
<1>9. MetricsMade(job)' /\ Progress(job)'
  BY <1>2, <1>5, <1>7, <1>8, RunStands DEF PoliciesTypeOK
<1> QED
  BY <1>2, <1>5, <1>9, OperatorMoves DEF PoliciesTypeOK

LEMMA CreateMetricKeeps ==
    ASSUME PoliciesConstants, PoliciesInv, NEW o \in Operators, CreateMetric(o)
    PROVE  PoliciesInv'
<1>1. PICK job \in ScriptRun : /\ job = setup[o] /\ MetricsMade(job)
                               /\ job.alone => Progress(job)
  BY OperatorRun
<1>2. /\ job.pc = "metrics" /\ UNCHANGED <<policies, edits>> /\ job.key \in Keys
      /\ PoliciesTypeOK /\ metrics \subseteq Keys /\ Keys \subseteq Nat /\ 1 \in Keys
  BY <1>1, PolicyFacts DEF CreateMetric, PoliciesInv, PoliciesTypeOK, ScriptRun
<1>3. metrics \subseteq metrics' /\ metrics' \subseteq Keys
  BY <1>1, <1>2 DEF CreateMetric
<1>4. CASE Update(o, [job EXCEPT !.pc = "failed"])
  <2> DEFINE after == [job EXCEPT !.pc = "failed"]
  <2>1. after \in ScriptRun /\ after.pc = "failed"
    BY DEF ScriptRun
  <2> HIDE DEF after
  <2>2. MetricsMade(after)' /\ Progress(after)'
    BY <2>1 DEF MetricsMade, Progress
  <2> QED
    BY <1>2, <1>3, <1>4, <2>1, <2>2, OperatorMoves DEF after
<1>5. CASE /\ metrics' = metrics \cup {job.key} /\ job.key + 1 \in Keys
           /\ Update(o, [job EXCEPT !.key = job.key + 1])
  <2> DEFINE after == [job EXCEPT !.key = job.key + 1]
  <2>1. /\ after \in ScriptRun /\ after.pc = "metrics" /\ after.key = job.key + 1
        /\ after.before = job.before /\ after.alone = job.alone
    BY <1>2, <1>5 DEF ScriptRun
  <2> HIDE DEF after
  <2>2. ASSUME NEW k \in Keys
        PROVE  k < job.key + 1 => k < job.key \/ k = job.key
    <3>1. k \in Nat /\ job.key \in Nat
      BY <1>2
    <3> QED
      BY <3>1
  <2>3. MetricsMade(after)'
    BY <1>1, <1>2, <1>5, <2>1, <2>2 DEF MetricsMade
  <2>4. \A k \in Keys : Known(k)' = Known(k)
    BY <1>2 DEF Known, Live
  <2>5. after.alone => Progress(after)'
    BY <1>1, <1>2, <2>1, <2>4 DEF Progress, Untouched
  <2> QED
    BY <1>2, <1>3, <1>5, <2>1, <2>3, <2>5, OperatorMoves DEF after
<1>6. CASE /\ metrics' = metrics \cup {job.key} /\ job.key + 1 \notin Keys
           /\ Update(o, [job EXCEPT !.key = 1, !.pc = "list"])
  <2> DEFINE after == [job EXCEPT !.key = 1, !.pc = "list"]
  <2>1. /\ after \in ScriptRun /\ after.pc = "list" /\ after.key = 1
        /\ after.before = job.before /\ after.alone = job.alone
    BY <1>2, <1>6 DEF ScriptRun
  <2> HIDE DEF after
  <2>2. \A k \in Keys : (k < job.key \/ k = job.key) /\ ~(k < 1)
    BY <1>2, <1>6 DEF PoliciesConstants
  <2>3. MetricsMade(after)'
    BY <1>1, <1>2, <1>3, <1>6, <2>1, <2>2 DEF MetricsMade
  <2>4. \A k \in Keys : Known(k)' = Known(k)
    BY <1>2 DEF Known, Live
  <2>5. job.alone => \A k \in Keys : Untouched(after, k)'
    BY <1>1, <1>2, <2>1, <2>4 DEF Progress, Untouched
  <2>6. after.alone => Progress(after)'
    BY <2>1, <2>2, <2>5 DEF Progress
  <2> QED
    BY <1>2, <1>3, <1>6, <2>1, <2>3, <2>6, OperatorMoves DEF after
<1> QED
  BY <1>1, <1>4, <1>5, <1>6 DEF CreateMetric

LEMMA ListPoliciesKeeps ==
    ASSUME PoliciesConstants, PoliciesInv, NEW o \in Operators, ListPolicies(o)
    PROVE  PoliciesInv'
<1>1. PICK job \in ScriptRun : /\ job = setup[o] /\ MetricsMade(job)
                               /\ job.alone => Progress(job)
  BY OperatorRun
<1>2. /\ job.pc = "list" /\ UNCHANGED <<metrics, policies, edits>> /\ job.key \in Keys
      /\ PoliciesTypeOK /\ metrics \subseteq metrics' /\ metrics' \subseteq Keys
  BY <1>1 DEF ListPolicies, PoliciesInv, PoliciesTypeOK, ScriptRun
<1> DEFINE matches == {i \in Live : PolicyMatches(policies[i], job.key)}
<1>3. /\ matches = Known(job.key) /\ Live \subseteq Ids /\ 0 \notin Ids
      /\ \A i \in Live : policies[i].channels \in SUBSET UNION Channels
  BY <1>2, PolicyFacts DEF PoliciesConstants, Policy
<1>4. \A k \in Keys : Known(k)' = Known(k)
  BY <1>2 DEF Known, Live
<1>5. CASE Update(o, [job EXCEPT !.pc = "failed"])
  <2> DEFINE after == [job EXCEPT !.pc = "failed"]
  <2>1. after \in ScriptRun /\ after.pc = "failed"
    BY DEF ScriptRun
  <2> HIDE DEF after
  <2>2. MetricsMade(after)' /\ Progress(after)'
    BY <2>1 DEF MetricsMade, Progress
  <2> QED
    BY <1>2, <1>5, <2>1, <2>2, OperatorMoves DEF after
<1>6. ASSUME NEW found \in Ids \cup {0}, NEW keeps \in SUBSET UNION Channels,
             IF found = 0 THEN matches = {} /\ keeps = {}
             ELSE matches = {found} /\ keeps = policies[found].channels,
             Update(o, [job EXCEPT !.pc = "write", !.found = found, !.keeps = keeps])
      PROVE  PoliciesInv'
  <2> DEFINE after == [job EXCEPT !.pc = "write", !.found = found, !.keeps = keeps]
  <2>1. /\ after \in ScriptRun /\ after.pc = "write" /\ after.key = job.key
        /\ after.before = job.before /\ after.alone = job.alone /\ after.given = job.given
        /\ after.found = found /\ after.keeps = keeps
    BY DEF ScriptRun
  <2> HIDE DEF after
  <2>2. MetricsMade(after)'
    BY <1>1, <1>2, <2>1 DEF MetricsMade
  <2>3. ListedIsThere(after)
    BY <1>3, <1>6, <2>1 DEF ListedIsThere
  <2>4. job.alone => Progress(after)
    BY <1>1, <1>2, <2>1, <2>3 DEF Progress, KeySettled, Untouched
  <2>5. MetricsMade(after)
    BY <1>1, <1>2, <2>1 DEF MetricsMade
  <2>6. after.alone => Progress(after)'
    BY <1>2, <2>1, <2>4, <2>5, RunStands
  <2> QED
    BY <1>2, <1>6, <2>1, <2>2, <2>6, OperatorMoves DEF after
<1>7. CASE matches = {} /\ Update(o, [job EXCEPT !.pc = "write", !.found = 0, !.keeps = {}])
  <2>1. {} \in SUBSET UNION Channels
    OBVIOUS
  <2> QED
    BY <1>6, <1>7, <2>1
<1>8. ASSUME NEW i \in matches, matches = {i},
             Update(o, [job EXCEPT !.pc = "write", !.found = i,
                                   !.keeps = policies[i].channels])
      PROVE  PoliciesInv'
  <2>1. i \in Live /\ i \in Ids /\ i # 0 /\ policies[i].channels \in SUBSET UNION Channels
    BY <1>3
  <2> QED
    BY <1>6, <1>8, <2>1
<1> QED
  BY <1>1, <1>5, <1>7, <1>8 DEF ListPolicies

\* The policies change: nobody else's run is alone any more, unless nothing has changed.
LEMMA PoliciesChange ==
    ASSUME PoliciesInv, NEW o \in Operators, NEW job \in ScriptRun,
           NEW to \in [Ids -> Policy \cup {NoPolicy}], Change(o, to, job),
           UNCHANGED <<metrics, edits>>, MetricsMade(job), job.alone => Progress(job)'
    PROVE  PoliciesInv'
<1>1. /\ PoliciesTypeOK /\ setup \in [Operators -> ScriptRun] /\ metrics' \subseteq Keys
      /\ policies' = to
  BY DEF PoliciesInv, PoliciesTypeOK, Change
<1>2. ASSUME NEW q \in Operators
      PROVE  \E r \in ScriptRun :
               /\ setup'[q] = r
               /\ IF q = o THEN r = job
                  ELSE r = [setup[q] EXCEPT !.alone = (to = policies) /\ @]
  <2>1. setup'[q] = IF q = o THEN job
                    ELSE [setup[q] EXCEPT !.alone = (to = policies) /\ @]
    BY DEF Change
  <2>2. \A alone \in BOOLEAN : [setup[q] EXCEPT !.alone = alone] \in ScriptRun
    BY <1>1 DEF ScriptRun
  <2>3. ((to = policies) /\ setup[q].alone) \in BOOLEAN
    OBVIOUS
  <2> QED
    BY <2>1, <2>2, <2>3
<1>3. PoliciesTypeOK'
  <2>1. setup' = [q \in Operators |-> setup'[q]]
    BY DEF Change
  <2>2. setup' \in [Operators -> ScriptRun]
    BY <1>2, <2>1
  <2> QED
    BY <1>1, <2>2 DEF PoliciesTypeOK
<1>4. \A r : MetricsMade(r) => MetricsMade(r)'
  BY <1>1, MetricsStand
<1>5. ASSUME NEW q \in Operators, NEW r \in {setup'[q]}
      PROVE  MetricsMade(r)' /\ (r.alone => Progress(r)')
  <2>1. CASE q = o
    BY <1>2, <1>4, <2>1
  <2>2. CASE q # o
    <3>1. PICK old \in ScriptRun : /\ old = setup[q] /\ MetricsMade(old)
                                   /\ old.alone => Progress(old)
      BY OperatorRun
    <3>2. r \in ScriptRun /\ r = [old EXCEPT !.alone = (to = policies) /\ @]
      BY <1>2, <2>2, <3>1
    <3>3. /\ r.pc = old.pc /\ r.key = old.key /\ r.given = old.given /\ r.found = old.found
          /\ r.keeps = old.keeps /\ r.before = old.before
          /\ r.alone = ((to = policies) /\ old.alone)
      BY <3>2 DEF ScriptRun
    <3>4. MetricsMade(r)'
      BY <1>4, <3>1, <3>3 DEF MetricsMade
    <3>5. CASE r.alone
      <4>1. old.alone /\ UNCHANGED policies
        BY <1>1, <3>3, <3>5
      <4>2. Progress(r)'
        BY <1>1, <3>1, <3>2, <3>3, <4>1, RunStands
      <4> QED
        BY <3>4, <4>2
    <3> QED
      BY <3>4, <3>5
  <2> QED
    BY <2>1, <2>2
<1> QED
  BY <1>3, <1>5 DEF PoliciesInv

\* The write of the policy of a key: after it the key has this policy only, and the
\* policies of the other keys are as they were.
LEMMA KnownAfterWrite ==
    ASSUME PoliciesConstants, PoliciesTypeOK, NEW job \in ScriptRun, NEW id \in Ids,
           policies' = Written(job, id), ListedIsThere(job),
           IF job.found = 0 THEN id \notin Live ELSE id = job.found
    PROVE  /\ Known(job.key)' = {id} /\ policies'[id] = Built(job)
           /\ \A k \in Keys \ {job.key} :
                 /\ Known(k)' = Known(k)
                 /\ \A i \in Known(k) : policies'[i] = policies[i]
<1>1. /\ policies'[id] = Built(job) /\ \A i \in Ids : i # id => policies'[i] = policies[i]
      /\ job.key \in Keys /\ 0 \notin Keys /\ 0 \notin Ids
      /\ job.given \in Channels \cup {{}}
  BY DEF Written, PoliciesTypeOK, ScriptRun, PoliciesConstants
<1>2. /\ Built(job).key = job.key /\ Built(job).labelled = TRUE /\ Built(job) # NoPolicy
  BY <1>1 DEF Built, NoPolicy
<1>3. \A i \in Ids : i # id => (i \in Live' <=> i \in Live)
  BY <1>1 DEF Live
<1>4. id \in Live' /\ Live \subseteq Ids /\ Live' \subseteq Ids
  BY <1>1, <1>2 DEF Live
<1>5. id \in Live => policies[id].key = job.key
  <2>1. id \in Live => id \in Known(job.key)
    BY <1>1 DEF ListedIsThere
  <2> QED
    BY <2>1 DEF Known
<1>6. \A i \in Known(job.key) : i = id
  BY <1>1 DEF ListedIsThere
<1>7. Known(job.key)' = {id}
  <2>1. job.key' = job.key
    OBVIOUS
  <2>2. \A i : i \in Known(job.key)' <=> i = id
    BY <1>1, <1>2, <1>3, <1>4, <1>6, <2>1 DEF Known
  <2> QED
    BY <2>2
<1>8. ASSUME NEW k \in Keys \ {job.key}
      PROVE  /\ Known(k)' = Known(k)
             /\ \A i \in Known(k) : policies'[i] = policies[i]
  <2>1. id \notin Known(k)' /\ id \notin Known(k)
    BY <1>1, <1>2, <1>5 DEF Known
  <2>2. \A i : i \in Known(k)' <=> i \in Known(k)
    BY <1>1, <1>3, <1>4, <2>1 DEF Known
  <2>3. Known(k) \subseteq Ids
    BY <1>4 DEF Known
  <2> QED
    BY <1>1, <2>1, <2>2, <2>3
<1> QED
  BY <1>1, <1>7, <1>8

\* The write settles its key and disturbs no other.
LEMMA KeyWritten ==
    ASSUME PoliciesConstants, PoliciesTypeOK, NEW job \in ScriptRun, NEW id \in Ids,
           policies' = Written(job, id), job.pc = "write", Progress(job),
           IF job.found = 0 THEN id \notin Live ELSE id = job.found
    PROVE  \A k \in Keys : IF k < job.key \/ k = job.key THEN KeySettled(job, k)'
                           ELSE Untouched(job, k)'
<1>1. /\ ListedIsThere(job) /\ job.key \in Keys /\ Keys \subseteq Nat
      /\ \A k \in Keys : IF k < job.key THEN KeySettled(job, k) ELSE Untouched(job, k)
  BY PolicyFacts DEF Progress, ScriptRun
<1>2. /\ Known(job.key)' = {id} /\ policies'[id] = Built(job)
      /\ \A k \in Keys \ {job.key} :
            /\ Known(k)' = Known(k)
            /\ \A i \in Known(k) : policies'[i] = policies[i]
  BY <1>1, KnownAfterWrite
<1>3. KeySettled(job, job.key)'
  <2>1. Untouched(job, job.key)
    <3>1. \A n \in Nat : ~(n < n)
      OBVIOUS
    <3>2. ~(job.key < job.key)
      BY <1>1, <3>1, Zenon
    <3> QED
      BY <1>1, <3>2
  <2>2. job.before[job.key] = job.keeps
    <3>1. CASE job.found = 0
      <4>1. {policies[i].channels : i \in Known(job.key)} = {} /\ job.keeps = {}
        BY <1>1, <3>1 DEF ListedIsThere
      <4> QED
        BY <2>1, <4>1 DEF Untouched
    <3>2. CASE job.found # 0
      <4>1. /\ {policies[i].channels : i \in Known(job.key)} = {policies[job.found].channels}
            /\ job.keeps = policies[job.found].channels
        BY <1>1, <3>2 DEF ListedIsThere
      <4> QED
        BY <2>1, <4>1 DEF Untouched
    <3> QED
      BY <3>1, <3>2
  <2>3. /\ policies'[id].wanted /\ policies'[id].labelled
        /\ policies'[id].channels = IF job.given = {} THEN job.before[job.key] ELSE job.given
    BY <1>2, <2>2 DEF Built
  <2> QED
    BY <1>2, <2>3 DEF KeySettled
<1>4. ASSUME NEW k \in Keys \ {job.key}
      PROVE  /\ KeySettled(job, k) => KeySettled(job, k)'
             /\ Untouched(job, k) => Untouched(job, k)'
  <2>1. Known(k)' = Known(k) /\ \A i \in Known(k) : policies'[i] = policies[i]
    BY <1>2
  <2>2. KeySettled(job, k) => KeySettled(job, k)'
    BY <2>1 DEF KeySettled
  <2>3. {policies'[i].channels : i \in Known(k)'} = {policies[i].channels : i \in Known(k)}
    BY <2>1
  <2> QED
    BY <2>2, <2>3 DEF Untouched
<1> QED
  BY <1>1, <1>3, <1>4

LEMMA WritePolicyKeeps ==
    ASSUME PoliciesConstants, PoliciesInv, NEW o \in Operators, WritePolicy(o)
    PROVE  PoliciesInv'
<1>1. PICK job \in ScriptRun : /\ job = setup[o] /\ MetricsMade(job)
                               /\ job.alone => Progress(job)
  BY OperatorRun
<1>2. /\ job.pc = "write" /\ UNCHANGED <<metrics, edits>> /\ job.key \in Keys
      /\ PoliciesTypeOK /\ Live \subseteq Ids /\ Keys \subseteq Nat
  BY <1>1, PolicyFacts DEF WritePolicy, PoliciesInv, ScriptRun
<1> DEFINE later == [job EXCEPT !.pc = "list", !.key = job.key + 1]
           done == [job EXCEPT !.pc = "done"]
           failed == [job EXCEPT !.pc = "failed"]
<1>3. /\ failed \in ScriptRun /\ failed.pc = "failed"
  BY DEF ScriptRun
<1>4. MetricsMade(failed) /\ Progress(failed)'
  <2> HIDE DEF failed
  <2> QED
    BY <1>3 DEF MetricsMade, Progress
<1>5. policies \in [Ids -> Policy \cup {NoPolicy}]
  BY <1>2 DEF PoliciesTypeOK
<1>6. CASE Change(o, policies, failed)
  <2> HIDE DEF failed
  <2> QED
    BY <1>2, <1>3, <1>4, <1>5, <1>6, PoliciesChange
<1>7. Built(job) \in Policy
  <2>1. /\ job.given \in Channels \cup {{}} /\ job.keeps \in SUBSET UNION Channels
    BY DEF ScriptRun
  <2>2. (IF job.given = {} THEN job.keeps ELSE job.given) \in SUBSET UNION Channels
    BY <2>1
  <2> QED
    BY <1>2, <2>2 DEF Built, Policy
<1>8. ASSUME NEW id \in IF job.found = 0 THEN NewId ELSE Live \cap {job.found}
      PROVE  /\ id \in Ids /\ IF job.found = 0 THEN id \notin Live ELSE id = job.found
             /\ Written(job, id) \in [Ids -> Policy \cup {NoPolicy}]
  <2>1. id \in Ids /\ IF job.found = 0 THEN id \notin Live ELSE id = job.found
    BY <1>2 DEF NewId
  <2> QED
    BY <1>5, <1>7, <2>1 DEF Written
<1>9. ASSUME NEW id \in IF job.found = 0 THEN NewId ELSE Live \cap {job.found},
             Change(o, Written(job, id), failed)
      PROVE  PoliciesInv'
  <2>1. Written(job, id) \in [Ids -> Policy \cup {NoPolicy}]
    BY <1>8
  <2> HIDE DEF failed
  <2> QED
    BY <1>2, <1>3, <1>4, <1>9, <2>1, PoliciesChange
<1>10. ASSUME NEW id \in IF job.found = 0 THEN NewId ELSE Live \cap {job.found},
              policies' = Written(job, id), job.alone
       PROVE  \A k \in Keys : IF k < job.key \/ k = job.key THEN KeySettled(job, k)'
                              ELSE Untouched(job, k)'
  BY <1>1, <1>2, <1>8, <1>10, KeyWritten
<1>11. ASSUME NEW id \in IF job.found = 0 THEN NewId ELSE Live \cap {job.found},
              job.key + 1 \in Keys, Change(o, Written(job, id), later)
       PROVE  PoliciesInv'
  <2>1. /\ later \in ScriptRun /\ later.pc = "list" /\ later.key = job.key + 1
        /\ later.given = job.given /\ later.before = job.before /\ later.alone = job.alone
    BY <1>11 DEF ScriptRun
  <2> HIDE DEF later
  <2>2. MetricsMade(later)
    BY <1>1, <1>2, <2>1 DEF MetricsMade
  <2>3. policies' = Written(job, id)
    BY <1>11 DEF Change
  <2>4. \A k \in Keys : /\ KeySettled(job, k)' => KeySettled(later, k)'
                        /\ Untouched(job, k)' => Untouched(later, k)'
    BY <2>1 DEF KeySettled, Untouched
  <2>5. ASSUME NEW k \in Keys
        PROVE  k < job.key + 1 <=> k < job.key \/ k = job.key
    <3>1. k \in Nat /\ job.key \in Nat
      BY <1>2
    <3> QED
      BY <3>1
  <2>6. job.alone => \A k \in Keys : IF k < job.key + 1 THEN KeySettled(later, k)'
                                     ELSE Untouched(later, k)'
    BY <1>10, <2>3, <2>4, <2>5
  <2>7. later.alone => Progress(later)'
    BY <2>1, <2>6 DEF Progress
  <2>8. Written(job, id) \in [Ids -> Policy \cup {NoPolicy}]
    BY <1>8
  <2> QED
    BY <1>2, <1>11, <2>1, <2>2, <2>7, <2>8, PoliciesChange
<1>12. ASSUME NEW id \in IF job.found = 0 THEN NewId ELSE Live \cap {job.found},
              job.key + 1 \notin Keys, Change(o, Written(job, id), done)
       PROVE  PoliciesInv'
  <2>1. /\ done \in ScriptRun /\ done.pc = "done" /\ done.key = job.key
        /\ done.given = job.given /\ done.before = job.before /\ done.alone = job.alone
    BY DEF ScriptRun
  <2> HIDE DEF done
  <2>2. MetricsMade(done)
    BY <1>1, <1>2, <2>1 DEF MetricsMade
  <2>3. policies' = Written(job, id)
    BY <1>12 DEF Change
  <2>4. \A k \in Keys : k < job.key \/ k = job.key
    BY <1>2, <1>12 DEF PoliciesConstants
  <2>5. \A k \in Keys : KeySettled(job, k)' => KeySettled(done, k)'
    BY <2>1 DEF KeySettled
  <2>6. done.alone => Progress(done)'
    BY <1>10, <2>1, <2>3, <2>4, <2>5 DEF Progress
  <2>7. Written(job, id) \in [Ids -> Policy \cup {NoPolicy}]
    BY <1>8
  <2> QED
    BY <1>2, <1>12, <2>1, <2>2, <2>6, <2>7, PoliciesChange
<1>13. \/ Change(o, policies, failed)
       \/ \E id \in IF job.found = 0 THEN NewId ELSE Live \cap {job.found} :
            \/ Change(o, Written(job, id), failed)
            \/ Change(o, Written(job, id), IF job.key + 1 \in Keys THEN later ELSE done)
  BY <1>1 DEF WritePolicy
<1> HIDE DEF later, done, failed
<1> QED
  BY <1>6, <1>9, <1>11, <1>12, <1>13

LEMMA AgainKeeps ==
    ASSUME PoliciesConstants, PoliciesInv, NEW o \in Operators, Again(o)
    PROVE  PoliciesInv'
<1> DEFINE job == ScriptAt("idle", 1, {})
<1>1. /\ UNCHANGED <<metrics, policies, edits>> /\ metrics \subseteq Keys /\ Update(o, job)
  BY DEF Again, PoliciesInv, PoliciesTypeOK
<1>2. job \in ScriptRun /\ job.pc = "idle"
  BY PolicyFacts DEF ScriptAt, ScriptRun, PoliciesInv
<1> HIDE DEF job
<1>3. MetricsMade(job)' /\ Progress(job)'
  BY <1>2 DEF MetricsMade, Progress
<1> QED
  BY <1>1, <1>2, <1>3, OperatorMoves

LEMMA EditKeeps ==
    ASSUME PoliciesConstants, PoliciesInv, Edit
    PROVE  PoliciesInv'
<1>1. /\ PoliciesTypeOK /\ UNCHANGED metrics /\ edits' \in Nat
      /\ setup' = [o \in Operators |-> [setup[o] EXCEPT !.alone = FALSE]]
  BY DEF Edit, PoliciesInv, PoliciesTypeOK
<1>2. policies' \in [Ids -> Policy \cup {NoPolicy}]
  <2>1. PICK i \in Live :
          \E p \in {[policies[i] EXCEPT !.name = "other"], [policies[i] EXCEPT !.wanted = FALSE],
                    NoPolicy} \cup {[policies[i] EXCEPT !.channels = c] : c \in Channels} :
            policies' = [policies EXCEPT ![i] = p]
    BY DEF Edit
  <2>2. i \in Ids /\ policies[i] \in Policy
    BY <1>1, PolicyFacts
  <2>3. /\ [policies[i] EXCEPT !.name = "other"] \in Policy
        /\ [policies[i] EXCEPT !.wanted = FALSE] \in Policy
        /\ \A c \in Channels : [policies[i] EXCEPT !.channels = c] \in Policy
    BY <2>2 DEF Policy
  <2>4. PICK p \in Policy \cup {NoPolicy} : policies' = [policies EXCEPT ![i] = p]
    BY <2>1, <2>3
  <2> QED
    BY <1>1, <2>4 DEF PoliciesTypeOK
<1>3. ASSUME NEW o \in Operators
      PROVE  \E r \in ScriptRun : /\ setup'[o] = r /\ r.alone = FALSE /\ MetricsMade(r)
  <2>1. PICK old \in ScriptRun : old = setup[o] /\ MetricsMade(old)
    BY OperatorRun
  <2> DEFINE r == [old EXCEPT !.alone = FALSE]
  <2>2. /\ r \in ScriptRun /\ r.alone = FALSE /\ r.pc = old.pc /\ r.key = old.key
        /\ setup'[o] = r
    BY <1>1, <2>1 DEF ScriptRun
  <2> HIDE DEF r
  <2>3. MetricsMade(r)
    BY <2>1, <2>2 DEF MetricsMade
  <2> QED
    BY <2>2, <2>3
<1>4. PoliciesTypeOK'
  <2>1. setup' = [o \in Operators |-> setup'[o]]
    BY <1>1
  <2>2. setup' \in [Operators -> ScriptRun]
    BY <1>3, <2>1
  <2> QED
    BY <1>1, <1>2, <2>2 DEF PoliciesTypeOK
<1>5. \A r : MetricsMade(r) => MetricsMade(r)'
  BY <1>1, MetricsStand DEF PoliciesTypeOK
<1>6. ASSUME NEW o \in Operators, NEW r \in {setup'[o]}
      PROVE  MetricsMade(r)' /\ (r.alone => Progress(r)')
  BY <1>3, <1>5
<1> QED
  BY <1>4, <1>6 DEF PoliciesInv

LEMMA PoliciesStart ==
    ASSUME PoliciesConstants, PoliciesInit
    PROVE  PoliciesInv
<1> DEFINE job == ScriptAt("idle", 1, {})
<1>1. job \in ScriptRun /\ job.pc = "idle"
  <2>1. 1 \in Keys
    BY DEF PoliciesConstants
  <2> QED
    BY <2>1 DEF ScriptAt, ScriptRun
<1>2. policies \in [Ids -> Policy \cup {NoPolicy}]
  <2>1. \A q \in [key : Keys, labelled : BOOLEAN, name : {"current", "legacy", "other"},
                  wanted : {FALSE}, channels : Channels] : q \in Policy
    BY DEF Policy
  <2> QED
    BY <2>1 DEF PoliciesInit
<1> HIDE DEF job
<1>3. setup = [o \in Operators |-> job]
  BY DEF PoliciesInit, job
<1>4. PoliciesTypeOK
  BY <1>1, <1>2, <1>3 DEF PoliciesInit, PoliciesTypeOK
<1>5. MetricsMade(job) /\ Progress(job)
  BY <1>1 DEF MetricsMade, Progress
<1> QED
  BY <1>3, <1>4, <1>5 DEF PoliciesInv

LEMMA PoliciesStep ==
    ASSUME PoliciesConstants, PoliciesInv, [PoliciesNext]_policiesVars
    PROVE  PoliciesInv'
<1>1. CASE UNCHANGED policiesVars
  BY <1>1 DEF policiesVars, PoliciesInv, PoliciesTypeOK, MetricsMade, Progress, KeySettled,
     Untouched, ListedIsThere, Known, Live
<1> QED
  BY <1>1, EditKeeps, BeginSetupKeeps, CreateMetricKeeps, ListPoliciesKeeps, WritePolicyKeeps,
     AgainKeeps DEF PoliciesNext

\* A run of setup_alerts.py that nobody disturbs leaves, when it has ended well, every
\* metric and one policy for each key, as wanted, for every number of policies, operators
\* and edits (SetupConverges).
THEOREM SetupEndsConverged == PoliciesConstants => (PoliciesSpec => []SetupConverges)
<1> SUFFICES ASSUME PoliciesConstants PROVE PoliciesSpec => []SetupConverges
  OBVIOUS
<1>1. ASSUME PoliciesInv PROVE SetupConverges
  <2>1. ASSUME NEW o \in Operators, setup[o].pc = "done", setup[o].alone
        PROVE  /\ metrics = Keys
               /\ \A k \in Keys :
                    /\ Cardinality(Known(k)) = 1
                    /\ \A i \in Known(k) :
                         /\ policies[i].wanted /\ policies[i].labelled
                         /\ policies[i].channels = IF setup[o].given = {}
                                                   THEN setup[o].before[k] ELSE setup[o].given
    <3>1. PICK job \in ScriptRun : /\ job = setup[o] /\ MetricsMade(job)
                                   /\ job.alone => Progress(job)
      BY <1>1, OperatorRun
    <3>2. metrics = Keys /\ \A k \in Keys : KeySettled(job, k)
      BY <2>1, <3>1 DEF MetricsMade, Progress
    <3>3. ASSUME NEW k \in Keys
          PROVE  /\ Cardinality(Known(k)) = 1
                 /\ \A i \in Known(k) :
                      /\ policies[i].wanted /\ policies[i].labelled
                      /\ policies[i].channels = IF job.given = {} THEN job.before[k]
                                                ELSE job.given
      <4>1. PICK i \in Ids :
              /\ Known(k) = {i} /\ policies[i].wanted /\ policies[i].labelled
              /\ policies[i].channels = IF job.given = {} THEN job.before[k] ELSE job.given
        BY <3>2 DEF KeySettled
      <4>2. Cardinality({i}) = 1
        BY FS_Singleton
      <4> QED
        BY <4>1, <4>2
    <3> QED
      BY <3>1, <3>2, <3>3
  <2> QED
    BY <2>1 DEF SetupConverges
<1>2. PoliciesInit => PoliciesInv
  BY PoliciesStart
<1>3. PoliciesInv /\ [PoliciesNext]_policiesVars => PoliciesInv'
  BY PoliciesStep
<1> QED
  BY <1>1, <1>2, <1>3, PTL DEF PoliciesSpec

-----------------------------------------------------------------------------
(* The Composer DAGs.                                                      *)

\* How a run of DAG d may go on: whatever changes had no state yet, and it ran, or was
\* marked by the scheduler, or skipped by a branch.
Ran(d, t) ==
    /\ Ready(d, t) /\ TriggerMark(d, t) = "none" /\ state'[d][t] \in {"success", "failed"}
Skipped(d, t) ==
    /\ state'[d][t] = "skipped"
    /\ \E u \in Forks \cap TasksIn[d] :
         t \in MaySkip(d, u) /\ Ready(d, u) /\ state'[d][u] = "success"
GoesOn(d) ==
    /\ state'[d] \in [TasksIn[d] -> TaskStates]
    /\ \A t \in TasksIn[d] : state'[d][t] # state[d][t] =>
         /\ state[d][t] = "none"
         /\ Ran(d, t) \/ state'[d][t] = TriggerMark(d, t) \/ Skipped(d, t)
TasksKept(d) ==
    \A t \in TasksIn[d] :
        RuleKept(d, t) /\ BranchKept(d, t) /\ SectionKept(d, t) /\ InsideKept(d, t)

\* Heads are tasks, and depths are numbers.
LEMMA HeadsAreTasks ==
    ASSUME NEW d \in Dags, Sectioned(d)
    PROVE  Heads(d) \subseteq TasksIn[d] /\ "" \notin Heads(d)
<1> SUFFICES ASSUME NEW t \in MaySkipAny(d) PROVE t \in TasksIn[d]
  BY DEF Heads, Sectioned
<1>1. PICK u \in Forks \cap TasksIn[d] : t \in MaySkip(d, u)
  BY DEF MaySkipAny
<1>2. \A r \in Forks \cap TasksIn[d] : \A v \in MaySkip(d, r) : v \in TasksIn[d]
  BY DEF Sectioned
<1> QED BY <1>1, <1>2

LEMMA DepthsAreNumbers ==
    ASSUME NEW d \in Dags, Sectioned(d)
    PROVE  /\ Cardinality(TasksIn[d]) \in Nat
           /\ \A t \in TasksIn[d] :
                Depth[d][t] \in Nat /\ Depth[d][t] <= Cardinality(TasksIn[d])
           /\ \A t \in TasksIn[d] : \A u \in Upstream[d][t] :
                u \in TasksIn[d] /\ Depth[d][u] < Depth[d][t]
<1>1. IsFiniteSet(TasksIn[d])
  BY DEF Sectioned
<1>2. Cardinality(TasksIn[d]) \in Nat
  BY <1>1, FS_CardinalityType
<1>3. \A t \in TasksIn[d] :
        /\ Depth[d][t] \in 0 .. Cardinality(TasksIn[d])
        /\ Upstream[d][t] \subseteq TasksIn[d]
        /\ \A u \in Upstream[d][t] : Depth[d][u] < Depth[d][t]
  BY DEF Sectioned
<1> QED BY <1>2, <1>3

LEMMA SectionOf ==
    ASSUME NEW d \in Dags, Sectioned(d), NEW t \in TasksIn[d]
    PROVE  /\ t \in Heads(d) => Section[d][t] = t
           /\ t \notin Heads(d) => Section[d][t] \in {""} \cup Heads(d)
  BY DEF Sectioned

\* A task that was ready has tasks before it that ran or were skipped.
LEMMA RanAfter ==
    ASSUME NEW d \in Dags, Sectioned(d), state[d] \in [TasksIn[d] -> TaskStates],
           NEW t \in TasksIn[d], Ran(d, t)
    PROVE  /\ state[d][t] = "none"
           /\ UpStates(d, t) \subseteq Good
           /\ Rule(d, t) = "all_success" => UpStates(d, t) \subseteq {"success"}
<1>1. Upstream[d][t] \subseteq TasksIn[d]
  BY DEF Sectioned
<1>2. UpStates(d, t) \subseteq TaskStates
  BY <1>1 DEF UpStates
<1>3. state[d][t] = "none" /\ UpStates(d, t) \cap Bad = {}
  BY DEF Ran, Ready, TriggerMark
<1>4. "none" \notin UpStates(d, t)
  BY DEF Ran, Ready
<1> QED BY <1>2, <1>3, <1>4 DEF Ran, Ready, TaskStates, Good

\* A mark says what became of the tasks before.
LEMMA MarkedAfter ==
    ASSUME NEW d \in Dags, NEW t \in TasksIn[d], TriggerMark(d, t) # "none"
    PROVE  /\ state[d][t] = "none"
           /\ TriggerMark(d, t) \in {"upstream_failed", "skipped"}
           /\ TriggerMark(d, t) = "upstream_failed" => \E s \in UpStates(d, t) : s \in Bad
           /\ TriggerMark(d, t) = "skipped" =>
                /\ UpStates(d, t) = {"skipped"} \/ "skipped" \in UpStates(d, t)
                /\ UpStates(d, t) \cap Bad = {}
                /\ Rule(d, t) # "all_success" => UpStates(d, t) = {"skipped"}
  BY DEF TriggerMark

LEMMA RuleStays ==
    ASSUME NEW d \in Dags, Sectioned(d), state[d] \in [TasksIn[d] -> TaskStates],
           GoesOn(d), NEW t \in TasksIn[d], RuleKept(d, t)
    PROVE  RuleKept(d, t)'
<1>0. Upstream[d][t] \subseteq TasksIn[d]
  BY DEF Sectioned
<1>1. \A u \in Upstream[d][t] : state[d][u] # "none" => state'[d][u] = state[d][u]
  BY <1>0 DEF GoesOn
<1>2. /\ UpStates(d, t) \subseteq Good => UpStates(d, t)' \subseteq Good
      /\ UpStates(d, t) \subseteq {"success"} => UpStates(d, t)' \subseteq {"success"}
  BY <1>1, Zenon DEF UpStates, Good
<1>3. CASE state'[d][t] = state[d][t]
  BY <1>2, <1>3 DEF RuleKept, Rule
<1>4. CASE state'[d][t] # state[d][t] /\ Ran(d, t)
  BY <1>2, <1>4, RanAfter DEF RuleKept, Rule
<1>5. CASE state'[d][t] # state[d][t] /\ state'[d][t] = TriggerMark(d, t)
  <2>1. state[d][t] = "none"
    BY <1>5 DEF GoesOn
  <2>2. TriggerMark(d, t) # "none"
    BY <1>5, <2>1
  <2>m. PICK mark : mark = TriggerMark(d, t)
    OBVIOUS
  <2>n. /\ mark \in {"upstream_failed", "skipped"} /\ state'[d][t] = mark
        /\ mark = "skipped" /\ Rule(d, t) # "all_success" => UpStates(d, t) = {"skipped"}
    BY <1>5, <2>2, <2>m, MarkedAfter
  <2>3. state'[d][t] # "success" /\ (state'[d][t] \in Good => state'[d][t] = "skipped")
    BY <2>n DEF Good
  <2>4. Rule(d, t) # "all_success" /\ state'[d][t] = "skipped" => UpStates(d, t) \subseteq Good
    BY <2>n DEF Good
  <2> QED BY <1>2, <2>3, <2>4 DEF RuleKept, Rule
<1>6. CASE state'[d][t] # state[d][t] /\ Skipped(d, t)
  <2>1. PICK u \in Forks \cap TasksIn[d] : t \in MaySkip(d, u) /\ state'[d][u] = "success"
    BY <1>6 DEF Skipped
  <2>2. Upstream[d][t] = {u}
    BY <2>1 DEF Sectioned
  <2>3. UpStates(d, t)' = {"success"}
    BY <2>1, <2>2 DEF UpStates
  <2> QED BY <1>6, <2>3 DEF RuleKept, Rule, Skipped, Good
<1> QED BY <1>3, <1>4, <1>5, <1>6 DEF GoesOn

LEMMA BranchStays ==
    ASSUME NEW d \in Dags, Sectioned(d), state[d] \in [TasksIn[d] -> TaskStates],
           GoesOn(d), NEW t \in TasksIn[d], BranchKept(d, t)
    PROVE  BranchKept(d, t)'
<1> SUFFICES ASSUME NEW u \in Forks \cap TasksIn[d], t \in MaySkip(d, u)
             PROVE  /\ state'[d][t] # "none" => state'[d][u] # "none"
                    /\ state'[d][t] \in Good => state'[d][u] \in Good
  BY DEF BranchKept, MaySkip
<1>1. Upstream[d][t] = {u}
  BY DEF Sectioned
<1>2. UpStates(d, t) = {state[d][u]}
  BY <1>1 DEF UpStates
<1>3. state[d][u] # "none" => state'[d][u] = state[d][u]
  BY DEF GoesOn
<1>4. CASE state'[d][t] = state[d][t]
  BY <1>3, <1>4 DEF BranchKept, Good
<1>5. CASE state'[d][t] # state[d][t] /\ Ran(d, t)
  <2>1. state[d][u] \in Good
    BY <1>2, <1>5, RanAfter
  <2> QED BY <1>3, <2>1 DEF Good
<1>6. CASE state'[d][t] # state[d][t] /\ state'[d][t] = TriggerMark(d, t)
  <2>1. state[d][t] = "none"
    BY <1>6 DEF GoesOn
  <2>2. TriggerMark(d, t) # "none"
    BY <1>6, <2>1
  <2>3. CASE TriggerMark(d, t) = "upstream_failed"
    <3>1. state[d][u] \in Bad
      BY <1>2, <2>2, <2>3, MarkedAfter
    <3> QED BY <1>3, <1>6, <2>3, <3>1 DEF Bad, Good
  <2>4. CASE TriggerMark(d, t) = "skipped"
    <3>1. state[d][u] = "skipped"
      BY <1>2, <2>2, <2>4, MarkedAfter
    <3> QED BY <1>3, <3>1 DEF Good
  <2> QED BY <2>2, <2>3, <2>4, MarkedAfter
<1>7. CASE state'[d][t] # state[d][t] /\ Skipped(d, t)
  <2>1. PICK r \in Forks \cap TasksIn[d] : t \in MaySkip(d, r) /\ state'[d][r] = "success"
    BY <1>7 DEF Skipped
  <2>2. Upstream[d][t] = {r}
    BY <2>1 DEF Sectioned
  <2>3. r = u
    BY <1>1, <2>2
  <2> QED BY <2>1, <2>3 DEF Good
<1> QED BY <1>4, <1>5, <1>6, <1>7 DEF GoesOn

LEMMA InsideStays ==
    ASSUME NEW d \in Dags, Sectioned(d), PathsInOrder(d),
           state[d] \in [TasksIn[d] -> TaskStates], GoesOn(d),
           \A t \in TasksIn[d] : InsideKept(d, t), NEW t \in TasksIn[d]
    PROVE  InsideKept(d, t)'
<1> SUFFICES ASSUME state'[d][t] = "success", NEW u \in Inside[d][t]
             PROVE  state'[d][u] = "success"
  BY DEF InsideKept
<1>1. PICK v \in Upstream[d][t] : t \notin Heads(d) /\ (u = v \/ u \in Inside[d][v])
  BY DEF PathsInOrder
<1>2. Upstream[d][t] \subseteq TasksIn[d] /\ Rule(d, t) = "all_success"
  BY <1>1 DEF Sectioned, Heads
<1>3. state[d][u] = "success" => state'[d][u] = "success"
  BY DEF GoesOn, PathsInOrder
<1>4. CASE state'[d][t] = state[d][t]
  BY <1>3, <1>4 DEF InsideKept
<1>5. CASE state'[d][t] # state[d][t] /\ Ran(d, t)
  <2>1. state[d][v] = "success"
    BY <1>2, <1>5, RanAfter DEF UpStates
  <2> QED BY <1>1, <1>2, <1>3, <2>1 DEF InsideKept
<1>6. CASE state'[d][t] # state[d][t] /\ state'[d][t] = TriggerMark(d, t)
  BY <1>6, MarkedAfter
<1>7. CASE state'[d][t] # state[d][t] /\ Skipped(d, t)
  BY <1>7 DEF Skipped
<1> QED BY <1>4, <1>5, <1>6, <1>7 DEF GoesOn

LEMMA SectionStays ==
    ASSUME NEW d \in Dags, Sectioned(d), state[d] \in [TasksIn[d] -> TaskStates],
           GoesOn(d), \A t \in TasksIn[d] : SectionKept(d, t), NEW t \in TasksIn[d]
    PROVE  SectionKept(d, t)'
<1> SUFFICES ASSUME t \notin Heads(d)
             PROVE  state'[d][t] \in IF Section[d][t] = "" THEN TaskStates \ {"skipped"}
                                     ELSE AfterHead(state'[d][Section[d][t]])
  BY DEF SectionKept, AfterHead, Heads, MaySkipAny, MaySkip, Rule
<1> DEFINE h == Section[d][t]
<1>1. Heads(d) \subseteq TasksIn[d]
  BY HeadsAreTasks
<1>2. /\ Rule(d, t) = "all_success" /\ Upstream[d][t] \subseteq TasksIn[d]
      /\ state'[d][t] \in TaskStates
  <2>1. Rule(d, t) = "all_success"
    BY DEF Heads
  <2>2. Upstream[d][t] \subseteq TasksIn[d]
    BY DEF Sectioned
  <2>3. state'[d][t] \in TaskStates
    BY DEF GoesOn
  <2> QED BY <2>1, <2>2, <2>3
<1>3. ~Skipped(d, t)
  BY DEF Skipped, Heads, MaySkipAny
<1>4. state'[d][t] = state[d][t] \/ Ran(d, t) \/ state'[d][t] = TriggerMark(d, t)
  BY <1>3 DEF GoesOn
<1>5. state'[d][t] # state[d][t] => state[d][t] = "none"
  BY DEF GoesOn
<1>6. \A u \in Upstream[d][t] : u \in Heads(d) => u = h
  BY DEF Sectioned
<1>7. CASE h = ""
  <2>1. state[d][t] # "skipped"
    BY <1>7 DEF SectionKept
  <2>2. \A u \in Upstream[d][t] : state[d][u] # "skipped"
    <3> TAKE u \in Upstream[d][t]
    <3>1. u \notin Heads(d)
      BY <1>6, <1>7, HeadsAreTasks
    <3>2. Section[d][u] = ""
      BY <1>2, <1>7 DEF Sectioned
    <3> QED BY <1>2, <3>1, <3>2 DEF SectionKept
  <2>3. "skipped" \notin UpStates(d, t)
    BY <2>2 DEF UpStates
  <2>4. state'[d][t] # state[d][t] /\ state'[d][t] = TriggerMark(d, t) => state'[d][t] # "skipped"
    BY <1>5, <2>3, MarkedAfter
  <2>5. Ran(d, t) => state'[d][t] # "skipped"
    BY Zenon DEF Ran
  <2>6. state'[d][t] # "skipped"
    BY <1>4, <2>1, <2>4, <2>5
  <2> QED BY <1>2, <1>7, <2>6
<1>8. CASE h # ""
  <2>1. h \in Heads(d) /\ h \in TasksIn[d] /\ Upstream[d][t] # {}
    BY <1>1, <1>8 DEF Sectioned
  <2>2. state[d][t] \in AfterHead(state[d][h])
    BY <1>8 DEF SectionKept
  <2>3. \A u \in Upstream[d][t] : u = h \/ state[d][u] \in AfterHead(state[d][h])
    <3> SUFFICES ASSUME NEW u \in Upstream[d][t], u # h
                 PROVE  state[d][u] \in AfterHead(state[d][h])
      OBVIOUS
    <3>1. u \notin Heads(d) /\ Section[d][u] = h
      BY <1>6 DEF Sectioned
    <3> QED BY <1>2, <1>8, <3>1 DEF SectionKept
  <2>4. UpStates(d, t) \subseteq {state[d][h]} \cup AfterHead(state[d][h])
    BY <2>3 DEF UpStates
  <2>5. UpStates(d, t) # {}
    BY <2>1 DEF UpStates
  <2>6. Ran(d, t) => "success" \in UpStates(d, t)
    BY <1>2, <2>5 DEF Ran, Ready
  <2>7. state[d][h] \in TaskStates /\ state'[d][h] \in TaskStates
    BY <2>1 DEF GoesOn
  <2>8. state[d][h] # "none" => state'[d][h] = state[d][h]
    BY <2>1 DEF GoesOn
  <2> HIDE DEF h
  <2>9. CASE state[d][h] = "none"
    <3>1. UpStates(d, t) = {"none"} /\ state[d][t] = "none"
      BY <2>2, <2>4, <2>5, <2>9 DEF AfterHead
    <3>2. TriggerMark(d, t) = "none" /\ ~Ran(d, t)
      BY <2>6, <3>1 DEF TriggerMark, Bad
    <3>3. state'[d][t] = "none"
      BY <1>4, <3>1, <3>2
    <3> QED BY <1>8, <2>7, <3>3 DEF AfterHead, TaskStates, Good, h
  <2>10. CASE state[d][h] = "skipped"
    <3>1. UpStates(d, t) \subseteq {"none", "skipped"} /\ state[d][t] \in {"none", "skipped"}
      BY <2>2, <2>4, <2>10 DEF AfterHead
    <3>2. TriggerMark(d, t) \in {"none", "skipped"} /\ ~Ran(d, t)
      BY <2>6, <3>1 DEF TriggerMark, Bad
    <3> QED BY <1>4, <1>8, <2>8, <2>10, <3>1, <3>2 DEF AfterHead, h
  <2>11. CASE state[d][h] = "success"
    <3>1. "skipped" \notin UpStates(d, t) /\ state[d][t] # "skipped"
      BY <2>2, <2>4, <2>11 DEF AfterHead
    <3>2. TriggerMark(d, t) # "skipped"
      BY <2>5, <3>1 DEF TriggerMark
    <3>3. Ran(d, t) => state'[d][t] # "skipped"
      BY DEF Ran
    <3>4. state'[d][t] \in TaskStates \ {"skipped"}
      BY <1>2, <1>4, <3>1, <3>2, <3>3
    <3> QED BY <1>8, <2>8, <2>11, <3>4 DEF AfterHead, h
  <2>12. CASE state[d][h] \in Bad
    <3>1. /\ UpStates(d, t) \subseteq Bad \cup {"none"}
          /\ state[d][t] \in {"none", "upstream_failed"}
      BY <2>2, <2>4, <2>12 DEF AfterHead, Bad
    <3>2. TriggerMark(d, t) \in {"none", "upstream_failed"} /\ ~Ran(d, t)
      BY <2>5, <2>6, <3>1 DEF TriggerMark, Bad
    <3>3. state'[d][t] \in {"none", "upstream_failed"}
      BY <1>4, <3>1, <3>2
    <3> QED BY <1>8, <2>8, <2>12, <3>3 DEF AfterHead, Bad, h
  <2> QED BY <2>7, <2>9, <2>10, <2>11, <2>12 DEF TaskStates, Good
<1> QED BY <1>7, <1>8

LEMMA TasksStay ==
    ASSUME NEW d \in Dags, Sectioned(d), PathsInOrder(d),
           state[d] \in [TasksIn[d] -> TaskStates], GoesOn(d), TasksKept(d)
    PROVE  TasksKept(d)'
<1>1. \A t \in TasksIn[d] : RuleKept(d, t)' /\ BranchKept(d, t)'
  BY RuleStays, BranchStays DEF TasksKept
<1>2. \A t \in TasksIn[d] : SectionKept(d, t)'
  BY SectionStays DEF TasksKept
<1>3. \A t \in TasksIn[d] : InsideKept(d, t)'
  BY InsideStays DEF TasksKept
<1> QED BY <1>1, <1>2, <1>3 DEF TasksKept

\* A new run has everything before it.
LEMMA TasksBegin ==
    ASSUME NEW d \in Dags, Sectioned(d), state[d] = NewRun(d)
    PROVE  TasksKept(d)
<1> SUFFICES ASSUME NEW t \in TasksIn[d]
             PROVE  RuleKept(d, t) /\ BranchKept(d, t) /\ SectionKept(d, t) /\ InsideKept(d, t)
  BY DEF TasksKept
<1>1. state[d][t] = "none"
  BY DEF NewRun
<1>2. RuleKept(d, t) /\ BranchKept(d, t) /\ InsideKept(d, t)
  BY <1>1 DEF RuleKept, BranchKept, InsideKept, Good
<1>3. SectionKept(d, t)
  <2>1. Heads(d) \subseteq TasksIn[d]
    BY HeadsAreTasks
  <2>2. t \notin Heads(d) => Section[d][t] = "" \/ Section[d][t] \in TasksIn[d]
    BY <2>1 DEF Sectioned
  <2>3. t \notin Heads(d) /\ Section[d][t] # "" => state[d][Section[d][t]] = "none"
    BY <2>2 DEF NewRun
  <2> QED BY <1>1, <2>3 DEF SectionKept, AfterHead, TaskStates
<1> QED BY <1>2, <1>3

LEMMA TasksBeginAnew ==
    ASSUME NEW d \in Dags, Sectioned(d), state'[d] = NewRun(d)
    PROVE  TasksKept(d)'
<1> SUFFICES ASSUME NEW t \in TasksIn[d]
             PROVE  RuleKept(d, t)' /\ BranchKept(d, t)' /\ SectionKept(d, t)' /\ InsideKept(d, t)'
  BY DEF TasksKept
<1>1. state'[d][t] = "none"
  BY DEF NewRun
<1>2. RuleKept(d, t)' /\ BranchKept(d, t)' /\ InsideKept(d, t)'
  BY <1>1 DEF RuleKept, BranchKept, InsideKept, Good
<1>3. SectionKept(d, t)'
  <2>1. t \notin Heads(d) => Section[d][t] = "" \/ Section[d][t] \in TasksIn[d]
    BY HeadsAreTasks DEF Sectioned
  <2>2. t \notin Heads(d) /\ Section[d][t] # "" => state'[d][Section[d][t]] = "none"
    BY <2>1 DEF NewRun
  <2> QED BY <1>1, <2>2 DEF SectionKept, AfterHead, TaskStates, Heads, MaySkipAny, MaySkip, Rule
<1> QED BY <1>2, <1>3

-----------------------------------------------------------------------------
(* The end of a run.                                                       *)

LEMMA LeastExists ==
    ASSUME NEW S \in SUBSET Nat, S # {}
    PROVE  \E x \in S : \A m \in S : x <= m
<1> DEFINE R == {p \in Nat \X Nat : p[1] < p[2]}
<1>1. IsWellFoundedOn(R, Nat)
  <2>1. IsWellFoundedOn({ss \in Nat \X Nat : ss[1] < ss[2]}, Nat)
    BY NatLessThanWellFounded, Zenon DEF OpToRel
  <2> QED BY <2>1
<1>2. \A x, y \in Nat : <<y, x>> \in R <=> y < x
  OBVIOUS
<1> HIDE DEF R
<1>3. \E x \in S : \A y \in S : ~(<<y, x>> \in R)
  BY <1>1, WFMin
<1>4. \A x, y \in Nat : ~(y < x) => x <= y
  OBVIOUS
<1> QED BY <1>2, <1>3, <1>4

\* When nothing is left to be marked, a skipped section is skipped to its last task.
LEMMA SkippedThrough ==
    ASSUME NEW d \in Dags, Sectioned(d), state[d] \in [TasksIn[d] -> TaskStates],
           TasksKept(d), Marked(d) = {}, NEW h \in Heads(d), state[d][h] = "skipped"
    PROVE  \A t \in TasksIn[d] \ Heads(d) : Section[d][t] = h => state[d][t] = "skipped"
<1> DEFINE Left == {t \in TasksIn[d] \ Heads(d) : Section[d][t] = h /\ state[d][t] # "skipped"}
           S == {Depth[d][t] : t \in Left}
<1> SUFFICES ASSUME Left # {} PROVE FALSE
  OBVIOUS
<1>1. S \in SUBSET Nat /\ S # {}
  BY DepthsAreNumbers
<1>2. PICK t \in Left : \A u \in Left : Depth[d][t] <= Depth[d][u]
  <2> HIDE DEF S
  <2>1. PICK n \in S : \A m \in S : n <= m
    BY <1>1, LeastExists
  <2> USE DEF S
  <2>2. PICK t \in Left : n = Depth[d][t]
    BY <2>1
  <2> QED BY <2>1, <2>2
<1>3. h \in TasksIn[d] /\ h # ""
  BY HeadsAreTasks
<1>4. /\ Upstream[d][t] # {} /\ Upstream[d][t] \subseteq TasksIn[d]
      /\ \A u \in Upstream[d][t] : Section[d][u] = h /\ Depth[d][u] < Depth[d][t]
  <2>1. t \in TasksIn[d] \ Heads(d) /\ Section[d][t] = h
    OBVIOUS
  <2> HIDE DEF Left, S
  <2> QED BY <1>3, <2>1 DEF Sectioned
<1>5. \A u \in Upstream[d][t] : state[d][u] = "skipped"
  <2> TAKE u \in Upstream[d][t]
  <2>1. u \in Heads(d) => u = h
    BY <1>4 DEF Sectioned
  <2>2. u \notin Left
    <3>1. Depth[d][u] \in Nat /\ Depth[d][t] \in Nat
      BY <1>4, DepthsAreNumbers
    <3> QED BY <1>2, <1>4, <3>1
  <2> QED BY <1>4, <2>1, <2>2
<1>6. UpStates(d, t) = {"skipped"}
  BY <1>4, <1>5 DEF UpStates
<1>7. state[d][t] = "none"
  <2>1. state[d][t] \in AfterHead(state[d][h]) /\ state[d][t] # "skipped"
    BY <1>3 DEF TasksKept, SectionKept
  <2> QED BY <2>1 DEF AfterHead
<1>8. TriggerMark(d, t) = "skipped"
  BY <1>6, <1>7 DEF TriggerMark, Bad
<1> QED BY <1>8 DEF Marked

\* When the last task may run, every other one has run or been skipped.
LEMMA AllDone ==
    ASSUME NEW d \in Dags, Sectioned(d), state[d] \in [TasksIn[d] -> TaskStates],
           TasksKept(d), Marked(d) = {}, Ready(d, Final)
    PROVE  \A t \in TasksIn[d] : t # Final => state[d][t] \in Good
<1> DEFINE Left == {t \in TasksIn[d] : t # Final /\ state[d][t] \notin Good}
           S == {Cardinality(TasksIn[d]) - Depth[d][t] : t \in Left}
<1> SUFFICES ASSUME Left # {} PROVE FALSE
  OBVIOUS
<1>1. S \in SUBSET Nat /\ S # {}
  BY DepthsAreNumbers
<1>2. PICK t \in Left : \A u \in Left : Depth[d][u] <= Depth[d][t]
  <2> HIDE DEF S
  <2>1. PICK n \in S : \A m \in S : n <= m
    BY <1>1, LeastExists
  <2> USE DEF S
  <2>2. PICK t \in Left : n = Cardinality(TasksIn[d]) - Depth[d][t]
    BY <2>1
  <2>3. \A u \in Left : Depth[d][u] \in Nat /\ n <= Cardinality(TasksIn[d]) - Depth[d][u]
    BY <2>1, DepthsAreNumbers
  <2> QED BY <2>2, <2>3, DepthsAreNumbers
<1>3. PICK v \in TasksIn[d] : t \in Upstream[d][v]
  BY DEF Sectioned
<1>4. v = Final \/ state[d][v] \in Good
  <2>1. Depth[d][t] < Depth[d][v] /\ Depth[d][t] \in Nat /\ Depth[d][v] \in Nat
    BY <1>3, DepthsAreNumbers
  <2> QED BY <1>2, <2>1
<1>5. CASE v = Final
  <2>1. Ready(d, v) /\ TriggerMark(d, v) = "none"
    BY <1>5 DEF Marked
  <2>2. UpStates(d, v) \cap Bad = {} /\ "none" \notin UpStates(d, v)
    BY <2>1 DEF Ready, TriggerMark
  <2>3. state[d][t] \in UpStates(d, v)
    BY <1>3 DEF UpStates
  <2> QED BY <2>2, <2>3 DEF TaskStates
<1>6. CASE state[d][v] \in Good /\ v \in MaySkipAny(d)
  <2>1. PICK u \in Forks \cap TasksIn[d] : v \in MaySkip(d, u)
    BY <1>6 DEF MaySkipAny
  <2>2. u = t
    <3>1. Upstream[d][v] = {u}
      BY <2>1 DEF Sectioned
    <3> QED BY <1>3, <3>1
  <2> QED BY <1>6, <2>1, <2>2 DEF TasksKept, BranchKept
<1>7. CASE state[d][v] \in Good /\ Rule(d, v) # "all_success"
  <2>1. UpStates(d, v) \subseteq Good
    BY <1>7 DEF TasksKept, RuleKept
  <2> QED BY <1>3, <2>1 DEF UpStates
<1>8. CASE state[d][v] \in Good /\ v \notin Heads(d)
  <2>1. CASE state[d][v] = "success"
    <3>1. UpStates(d, v) \subseteq {"success"}
      BY <1>8, <2>1 DEF TasksKept, RuleKept, Heads
    <3> QED BY <1>3, <3>1 DEF UpStates, Good
  <2>2. CASE state[d][v] = "skipped"
    <3>1. Section[d][v] # "" /\ Section[d][v] \in Heads(d) /\ Section[d][t] = Section[d][v]
      BY <1>3, <1>8, <2>2 DEF TasksKept, SectionKept, Sectioned
    <3>2. state[d][Section[d][v]] \in TaskStates
      BY <3>1, HeadsAreTasks
    <3>3. state[d][Section[d][v]] = "skipped"
      BY <1>8, <2>2, <3>1, <3>2 DEF TasksKept, SectionKept, AfterHead
    <3>4. state[d][t] = "skipped"
      <4>1. CASE t \in Heads(d)
        BY <3>1, <3>3, <4>1 DEF Sectioned
      <4>2. CASE t \notin Heads(d)
        BY <3>1, <3>3, <4>2, SkippedThrough
      <4> QED BY <4>1, <4>2
    <3> QED BY <3>4 DEF Good
  <2> QED BY <1>8, <2>1, <2>2 DEF Good
<1> QED BY <1>4, <1>5, <1>6, <1>7, <1>8 DEF Heads

-----------------------------------------------------------------------------
(* The steps.                                                              *)

\* The other runs are left alone, and the row of this one does not become a success.
Others(d) ==
    /\ conf' = conf
    /\ state' = [e \in Runs |-> IF e = d THEN state'[d] ELSE state[e]]
    /\ row' = [e \in Runs |-> IF e = d THEN row'[d] ELSE row[e]]

LEMMA RunStays ==
    ASSUME DagInv, NEW d \in Runs, state'[d] = state[d]
    PROVE  TasksKept(d)' /\ (row'[d] = row[d] /\ row[d] = "success" => Done(d)')
<1>1. row'[d] = row[d] /\ row[d] = "success" => Done(d)'
  BY DEF DagInv, Done
<1>2. \A t \in TasksIn[d] : UpStates(d, t)' = UpStates(d, t)
  BY DEF UpStates
<1>3. \A t \in TasksIn[d] : RuleKept(d, t)'
  BY <1>2 DEF DagInv, RuleKept, Rule
<1>4. \A t \in TasksIn[d] : BranchKept(d, t)'
  BY DEF DagInv, BranchKept, MaySkip
<1>5. \A t \in TasksIn[d] : SectionKept(d, t)'
  BY DEF DagInv, SectionKept, Heads, MaySkipAny, MaySkip, Rule, AfterHead
<1>6. \A t \in TasksIn[d] : InsideKept(d, t)'
  BY DEF DagInv, InsideKept
<1> QED BY <1>1, <1>3, <1>4, <1>5, <1>6 DEF TasksKept

LEMMA RunGoesOn ==
    ASSUME GraphsInOrder, DagInv, NEW d \in Runs, Others(d), GoesOn(d),
           row'[d] = "success" => row[d] = "success" \/ Done(d)'
    PROVE  DagInv'
<1>1. /\ d \in Dags /\ Sectioned(d) /\ PathsInOrder(d)
      /\ state[d] \in [TasksIn[d] -> TaskStates] /\ TasksKept(d)
  BY DEF DagInv, DagTypeOK, GraphsInOrder, TasksKept
<1>2. TasksKept(d)'
  BY <1>1, TasksStay
<1>3. Runs' = Runs
  BY DEF Runs, Others
<1>4. DagTypeOK'
  BY <1>3 DEF DagInv, DagTypeOK, Others, GoesOn
<1>5. row[d] = "success" => Done(d)'
  BY DEF DagInv, Done, GoesOn, Good
<1>6. \A e \in Runs : e # d => state'[e] = state[e] /\ row'[e] = row[e]
  BY DEF Others
<1>7. \A e \in Runs : e # d => TasksKept(e)' /\ (row'[e] = "success" => Done(e)')
  BY <1>6, RunStays
<1> QED BY <1>2, <1>3, <1>4, <1>5, <1>7 DEF DagInv, TasksKept

OnlyStateOf(d) == state' = [e \in Runs |-> IF e = d THEN state'[d] ELSE state[e]]

LEMMA TaskRuns ==
    ASSUME DagTypeOK, NEW d \in Runs, Marked(d) = {}, NEW t \in TasksIn[d], Ready(d, t),
           NEW s \in {"success", "failed"}, state' = [state EXCEPT ![d][t] = s]
    PROVE  /\ GoesOn(d) /\ OnlyStateOf(d)
           /\ \A u \in TasksIn[d] : state'[d][u] = IF u = t THEN s ELSE state[d][u]
<1>1. state[d] \in [TasksIn[d] -> TaskStates] /\ state = [e \in Runs |-> state[e]]
  BY DEF DagTypeOK
<1>2. state' = [e \in Runs |-> IF e = d THEN [state[d] EXCEPT ![t] = s] ELSE state[e]]
  BY <1>1
<1>3. state'[d] = [state[d] EXCEPT ![t] = s]
  BY <1>2
<1>4. \A u \in TasksIn[d] : state'[d][u] = IF u = t THEN s ELSE state[d][u]
  BY <1>1, <1>3
<1>5. state[d][t] = "none" /\ TriggerMark(d, t) = "none"
  BY DEF Ready, Marked
<1>6. state'[d] \in [TasksIn[d] -> TaskStates]
  BY <1>1, <1>3 DEF TaskStates, Good, Bad
<1>7. Ran(d, t)
  BY <1>4, <1>5 DEF Ran
<1> QED BY <1>2, <1>3, <1>4, <1>5, <1>6, <1>7 DEF GoesOn, OnlyStateOf

LEMMA BranchRuns ==
    ASSUME GraphsInOrder, DagInv, NEW d \in Runs, Marked(d) = {}, NEW t \in TasksIn[d], Ready(d, t),
           t \in Forks, NEW S \in SUBSET MaySkip(d, t), SucceedSkipping(d, t, S)
    PROVE  GoesOn(d) /\ OnlyStateOf(d)
<1>1. /\ d \in Dags /\ Sectioned(d)
      /\ state[d] \in [TasksIn[d] -> TaskStates] /\ state = [e \in Runs |-> state[e]]
  BY DEF DagInv, DagTypeOK, GraphsInOrder
<1> DEFINE next == [u \in TasksIn[d] |-> IF u = t THEN "success"
                                         ELSE IF u \in S THEN "skipped" ELSE state[d][u]]
<1>2. state' = [e \in Runs |-> IF e = d THEN next ELSE state[e]]
  BY <1>1 DEF SucceedSkipping
<1>3. state'[d] = next
  BY <1>2
<1>4. state[d][t] = "none" /\ TriggerMark(d, t) = "none"
  BY DEF Ready, Marked
<1>5. next \in [TasksIn[d] -> TaskStates]
  BY <1>1 DEF TaskStates, Good
<1>6. state'[d][t] = "success"
  BY <1>3
<1>7. Ran(d, t)
  BY <1>4, <1>6 DEF Ran
<1>8. \A u \in TasksIn[d] : u # t /\ u \in S => state[d][u] = "none" /\ Skipped(d, u)
  <2> TAKE u \in TasksIn[d]
  <2> HAVE u # t /\ u \in S
  <2>1. state'[d][u] = "skipped"
    BY <1>3
  <2>2. BranchKept(d, u)
    BY DEF DagInv
  <2>3. state[d][u] = "none"
    BY <1>4, <2>2 DEF BranchKept
  <2> QED BY <1>6, <2>1, <2>3 DEF Skipped
<1>9. \A u \in TasksIn[d] : u # t /\ u \notin S => state'[d][u] = state[d][u]
  BY <1>3
<1> QED BY <1>2, <1>3, <1>4, <1>5, <1>7, <1>8, <1>9 DEF GoesOn, OnlyStateOf

\* The scheduler marks tasks.
LEMMA ScheduleStep ==
    ASSUME GraphsInOrder, DagInv, NEW d \in Runs, Schedule(d) PROVE DagInv'
<1>1. state[d] \in [TasksIn[d] -> TaskStates] /\ state = [e \in Runs |-> state[e]]
  BY DEF DagInv, DagTypeOK
<1> DEFINE next == [t \in TasksIn[d] |-> IF TriggerMark(d, t) # "none" THEN TriggerMark(d, t)
                                         ELSE state[d][t]]
<1>2. state' = [e \in Runs |-> IF e = d THEN next ELSE state[e]]
  BY <1>1 DEF Schedule
<1>3. state'[d] = next
  BY <1>2
<1>4. \A t \in TasksIn[d] : TriggerMark(d, t) \in TaskStates
  BY DEF TriggerMark, TaskStates, Good, Bad
<1>5. next \in [TasksIn[d] -> TaskStates]
  BY <1>1, <1>4
<1>6. \A t \in TasksIn[d] : TriggerMark(d, t) # "none" => state[d][t] = "none"
  BY DEF TriggerMark
<1>7. \A t \in TasksIn[d] : state'[d][t] # state[d][t] =>
        state[d][t] = "none" /\ state'[d][t] = TriggerMark(d, t)
  BY <1>3, <1>6
<1>8. GoesOn(d)
  BY <1>3, <1>5, <1>7 DEF GoesOn
<1>9. row' = row /\ conf' = conf
  BY DEF Schedule
<1>10. row = [e \in Runs |-> row[e]]
  BY DEF DagInv, DagTypeOK
<1>11. Others(d)
  BY <1>2, <1>3, <1>9, <1>10 DEF Others
<1> QED BY <1>8, <1>9, <1>11, RunGoesOn

\* A task of run d that keeps the row, or writes "running" or "failed" into it.
LEMMA TaskStep ==
    ASSUME GraphsInOrder, DagInv, NEW d \in Runs, GoesOn(d), OnlyStateOf(d), conf' = conf,
           \/ row' = row
           \/ \E s \in {"running", "failed"} : row' = [row EXCEPT ![d] = s]
           \/ row' = [row EXCEPT ![d] = "success"] /\ Done(d)'
    PROVE  DagInv'
<1>1. row = [e \in Runs |-> row[e]]
  BY DEF DagInv, DagTypeOK
<1>2. row' = [e \in Runs |-> IF e = d THEN row'[d] ELSE row[e]]
  BY <1>1
<1>3. row'[d] = "success" => row[d] = "success" \/ Done(d)'
  BY <1>1
<1>4. Others(d)
  BY <1>2 DEF Others, OnlyStateOf
<1> QED BY <1>3, <1>4, RunGoesOn

LEMMA EndStep ==
    ASSUME GraphsInOrder, DagInv, NEW d \in Runs, End(d) PROVE DagInv'
<1>1. state[d] \in [TasksIn[d] -> TaskStates] /\ state = [e \in Runs |-> state[e]]
  BY DEF DagInv, DagTypeOK
<1>2. state' = state /\ conf' = conf
  BY DEF End
<1>3. GoesOn(d) /\ OnlyStateOf(d)
  BY <1>1, <1>2 DEF GoesOn, OnlyStateOf
<1>4. row' = row \/ row' = [row EXCEPT ![d] = "failed"]
  BY DEF End
<1> QED BY <1>2, <1>3, <1>4, TaskStep

\* The window refresh is started, anew if it has run before.
LEMMA TriggerStep ==
    ASSUME GraphsInOrder, DagInv, NEW d \in Runs, Marked(d) = {},
           NEW t \in TasksIn[d], Ready(d, t), Trigger(d, t)
    PROVE  DagInv'
<1> DEFINE went == [state EXCEPT ![d][t] = "success"]
           All == Runs \cup {Window}
<1>1. /\ Runs \subseteq Dags /\ Window \in Dags
      /\ state[d] \in [TasksIn[d] -> TaskStates] /\ state = [e \in Runs |-> state[e]]
  BY DEF DagInv, DagTypeOK, Dags, Window
<1>2. /\ state' = [e \in All |-> IF e = Window THEN NewRun(Window) ELSE went[e]]
      /\ row' = [e \in All |-> IF e = Window THEN "none" ELSE row[e]]
      /\ Runs' = All
  BY DEF Trigger, Runs
<1>3. went[d] = [state[d] EXCEPT ![t] = "success"]
  BY <1>1
<1>4. \A e \in Runs : e # d => went[e] = state[e]
  BY <1>1
<1>5. state'[Window] = NewRun(Window) /\ row'[Window] = "none"
  BY <1>2
<1>6. TasksKept(Window)'
  BY <1>1, <1>5, TasksBeginAnew DEF GraphsInOrder
<1>7. \A e \in Runs \ {Window} : TasksKept(e)' /\ (row'[e] = "success" => Done(e)')
  <2> TAKE e \in Runs \ {Window}
  <2>1. state'[e] = went[e] /\ row'[e] = row[e]
    BY <1>2
  <2>2. CASE e # d
    BY <1>4, <2>1, <2>2, RunStays
  <2>3. CASE e = d
    <3>1. \A u \in TasksIn[d] : state'[d][u] = IF u = t THEN "success" ELSE state[d][u]
      BY <1>1, <1>3, <2>1, <2>3
    <3>2. state[d][t] = "none" /\ TriggerMark(d, t) = "none"
      BY DEF Ready, Marked
    <3>3. state'[d] \in [TasksIn[d] -> TaskStates]
      BY <1>1, <1>3, <2>1, <2>3 DEF TaskStates, Good
    <3>4. Ran(d, t)
      BY <3>1, <3>2 DEF Ran
    <3>5. GoesOn(d)
      BY <3>1, <3>2, <3>3, <3>4 DEF GoesOn
    <3>6. TasksKept(d)'
      BY <1>1, <3>5, TasksStay DEF GraphsInOrder, DagInv, TasksKept
    <3>7. row[d] # "success"
      BY <3>2 DEF DagInv, Done, Good
    <3> QED BY <2>1, <2>3, <3>6, <3>7
  <2> QED BY <2>2, <2>3
<1>8. \A e \in All : state'[e] \in [TasksIn[e] -> TaskStates]
  <2> TAKE e \in All
  <2>1. CASE e = Window
    BY <1>5, <2>1 DEF NewRun, TaskStates
  <2>2. CASE e # Window /\ e # d
    BY <1>2, <1>4, <2>2 DEF DagInv, DagTypeOK
  <2>3. CASE e # Window /\ e = d
    BY <1>1, <1>2, <1>3, <2>3 DEF TaskStates, Good
  <2> QED BY <2>1, <2>2, <2>3
<1>9. DagTypeOK'
  <2>1. state' = [e \in All |-> state'[e]] /\ row' = [e \in All |-> row'[e]]
    BY <1>2
  <2> QED BY <1>1, <1>2, <1>8, <2>1 DEF DagTypeOK
<1> QED BY <1>2, <1>5, <1>6, <1>7, <1>9 DEF DagInv, TasksKept

\* What branches choose among.
LEMMA BranchStep ==
    ASSUME GraphsInOrder, DagInv, NEW d \in Runs, Marked(d) = {}, NEW t \in TasksIn[d], Ready(d, t),
           \/ NonTradingDayGate(d, t) \/ BranchIngestion(d, t) \/ BranchDownstream(d, t)
           \/ BranchWindow(d, t) \/ BranchRebuild(d, t) \/ Gates(d, t)
    PROVE  DagInv'
<1>1. t \in Forks
  BY DEF NonTradingDayGate, BranchIngestion, BranchDownstream, BranchWindow, BranchRebuild,
         Gates, Forks
<1>2. row' = row /\ conf' = conf
  BY DEF NonTradingDayGate, BranchIngestion, BranchDownstream, BranchWindow, BranchRebuild,
         Gates, runs
<1>3. \E S \in SUBSET MaySkip(d, t) : SucceedSkipping(d, t, S)
  <2>1. \A chosen : "ods_daily_partition_readiness" \in chosen \/ t # "branch_ingestion" =>
          Downstream[d][t] \ chosen \in SUBSET MaySkip(d, t)
    BY DEF MaySkip
  <2>2. {} \in SUBSET MaySkip(d, t)
    OBVIOUS
  <2>3. CASE NonTradingDayGate(d, t)
    BY <2>1, <2>3 DEF NonTradingDayGate, Branch
  <2>4. CASE BranchIngestion(d, t)
    BY <2>1, <2>4 DEF BranchIngestion, Branch
  <2>5. CASE BranchDownstream(d, t)
    BY <2>1, <2>5 DEF BranchDownstream, Branch
  <2>6. CASE BranchWindow(d, t)
    BY <2>1, <2>6 DEF BranchWindow, Branch
  <2>7. CASE BranchRebuild(d, t)
    BY <2>1, <2>7 DEF BranchRebuild, Branch
  <2>8. CASE Gates(d, t)
    <3>1. \A goes \in BOOLEAN : (IF goes THEN {} ELSE Downstream[d][t]) \in SUBSET MaySkip(d, t)
      BY <2>8 DEF Gates, MaySkip
    <3> QED BY <2>8, <3>1 DEF Gates, ShortCircuit
  <2> QED BY <2>3, <2>4, <2>5, <2>6, <2>7, <2>8
<1>4. GoesOn(d) /\ OnlyStateOf(d)
  BY <1>1, <1>3, BranchRuns
<1> QED BY <1>2, <1>4, TaskStep

\* The last task.
LEMMA FinalStep ==
    ASSUME GraphsInOrder, DagInv, NEW d \in Runs, Marked(d) = {}, NEW t \in TasksIn[d], Ready(d, t),
           FinalizeStatus(d, t)
    PROVE  DagInv'
<1>1. /\ d \in Dags /\ Sectioned(d)
      /\ state[d] \in [TasksIn[d] -> TaskStates] /\ TasksKept(d) /\ DagTypeOK
  BY DEF DagInv, DagTypeOK, GraphsInOrder, TasksKept
<1>2. t = Final /\ conf' = conf /\ row' = [row EXCEPT ![d] = "success"]
  BY DEF FinalizeStatus, Final, runs
<1>3. state' = [state EXCEPT ![d][t] = "success"]
  BY DEF FinalizeStatus, Succeed
<1>4. /\ GoesOn(d) /\ OnlyStateOf(d)
      /\ \A u \in TasksIn[d] : state'[d][u] = IF u = t THEN "success" ELSE state[d][u]
  BY <1>1, <1>3, TaskRuns
<1>5. \A u \in TasksIn[d] : u # t => state[d][u] \in Good
  BY <1>1, <1>2, AllDone
<1>6. Done(d)'
  BY <1>4, <1>5 DEF Done, Good
<1> QED BY <1>2, <1>4, <1>6, TaskStep

\* Every other task.
LEMMA OtherStep ==
    ASSUME GraphsInOrder, DagInv, NEW d \in Runs, Marked(d) = {}, NEW t \in TasksIn[d], Ready(d, t),
           \/ StartStatus(d, t) \/ IngestWrite(d, t) \/ Readiness(d, t) \/ ConfirmRebuild(d, t)
           \/ SkipTask(d, t) \/ Other(d, t) \/ Fail(d, t)
    PROVE  DagInv'
<1>1. conf' = conf
  BY DEF StartStatus, IngestWrite, Readiness, ConfirmRebuild, SkipTask, Other, Fail, runs
<1>2. row' = row \/ row' = [row EXCEPT ![d] = "running"]
  BY DEF StartStatus, IngestWrite, Readiness, ConfirmRebuild, SkipTask, Other, Fail
<1>3. \E s \in {"success", "failed"} : state' = [state EXCEPT ![d][t] = s]
  BY DEF StartStatus, IngestWrite, Readiness, ConfirmRebuild, SkipTask, Other, Fail, Succeed
<1>4. GoesOn(d) /\ OnlyStateOf(d)
  BY <1>3, TaskRuns DEF DagInv
<1> QED BY <1>1, <1>2, <1>4, TaskStep

LEMMA DagStep ==
    ASSUME GraphsInOrder, DagInv, [DagNext]_dagVars PROVE DagInv'
<1>1. CASE UNCHANGED dagVars \/ SetVariable
  <2>1. state' = state /\ row' = row /\ conf' = conf
    BY <1>1 DEF SetVariable, dagVars
  <2>2. \A d \in Runs : TasksKept(d)' /\ (row'[d] = "success" => Done(d)')
    BY <2>1, RunStays
  <2> QED BY <2>1, <2>2 DEF DagInv, DagTypeOK, Runs, TasksKept
<1>2. ASSUME NEW d \in Runs, Schedule(d) PROVE DagInv'
  BY <1>2, ScheduleStep
<1>3. ASSUME NEW d \in Runs, End(d) PROVE DagInv'
  BY <1>3, EndStep
<1>4. ASSUME NEW d \in Runs, Marked(d) = {}, NEW t \in TasksIn[d], Ready(d, t), Run(d, t)
      PROVE  DagInv'
  BY <1>4, BranchStep, FinalStep, OtherStep, TriggerStep DEF Run
<1> QED BY <1>1, <1>2, <1>3, <1>4 DEF DagNext

LEMMA DagStart ==
    ASSUME GraphsInOrder, DagInit PROVE DagInv
<1>1. PICK s \in Starts :
        /\ conf = [d \in {s[1]} |-> s[2]] /\ state = [d \in {s[1]} |-> NewRun(d)]
        /\ row = [d \in {s[1]} |-> "none"]
  BY DEF DagInit
<1>2. Runs = {s[1]} /\ s[1] \in Dags
  BY <1>1, DagsAssumption DEF Runs
<1>3. \A d \in Runs : TasksKept(d) /\ row[d] = "none" /\ state[d] = NewRun(d)
  BY <1>1, <1>2, TasksBegin DEF GraphsInOrder
<1>4. DagTypeOK
  BY <1>1, <1>2 DEF DagTypeOK, NewRun, TaskStates
<1> QED BY <1>3, <1>4 DEF DagInv, TasksKept

\* What has become of a section when all is done.
LEMMA OneOutcome ==
    ASSUME NEW d \in Dags, Sectioned(d), TasksKept(d), Done(d),
           NEW r \in TasksIn[d], NEW u \in TasksIn[d], Section[d][u] = Section[d][r]
    PROVE  state[d][u] = state[d][r]
<1> DEFINE h == Section[d][r]
<1>1. \A t \in {u, r} : IF t \in Heads(d) THEN t = h ELSE h \in {""} \cup Heads(d)
  <2> TAKE t \in {u, r}
  <2>1. t \in TasksIn[d] /\ Section[d][t] = h
    OBVIOUS
  <2> QED BY <2>1, SectionOf
<1>2. \A t \in {u, r} : state[d][t] \in Good /\ SectionKept(d, t)
  BY DEF Done, TasksKept
<1>3. CASE h = ""
  <2>1. u \notin Heads(d) /\ r \notin Heads(d)
    BY <1>1, <1>3, HeadsAreTasks
  <2> QED BY <1>2, <1>3, <2>1 DEF SectionKept, Good
<1>4. CASE h # ""
  <2>1. h \in TasksIn[d]
    BY <1>1, <1>4, HeadsAreTasks
  <2>2. state[d][h] \in Good
    BY <2>1 DEF Done
  <2>3. \A t \in {u, r} : state[d][t] = state[d][h]
    <3> TAKE t \in {u, r}
    <3>1. CASE t \in Heads(d)
      BY <1>1, <3>1
    <3>2. CASE t \notin Heads(d)
      <4>1. state[d][t] \in AfterHead(state[d][h])
        BY <1>2, <1>4, <3>2 DEF SectionKept
      <4> QED BY <1>2, <2>2, <4>1 DEF AfterHead, Good
    <3> QED BY <3>1, <3>2
  <2> QED BY <2>3
<1> QED BY <1>3, <1>4

\* Where the edges of the graphs put every reader of a table after its builders, no run,
\* however its branches go, its tasks fail and Variables are set, builds a table along a
\* path of refresh tasks once a task of the path has read it.
THEOREM ReadersComeAfterBuilders ==
    ASSUME GraphsInOrder PROVE DagSpec => []BuiltBeforeRead
<1>1. DagInv => BuiltBeforeRead
  <2> SUFFICES ASSUME DagInv, NEW d \in Runs, NEW n \in Needs,
                      {n[1], n[2]} \subseteq TasksIn[d], state[d][n[1]] = "success"
               PROVE  state[d][n[2]] = "success"
    BY DEF BuiltBeforeRead
  <2>1. n[2] \in Inside[d][n[1]]
    BY DEF DagInv, DagTypeOK, GraphsInOrder, PathsInOrder
  <2> QED BY <2>1 DEF DagInv, InsideKept
<1>2. DagInit => DagInv
  BY DagStart
<1>3. DagInv /\ [DagNext]_dagVars => DagInv'
  BY DagStep
<1> QED BY <1>1, <1>2, <1>3, PTL DEF DagSpec

\* And where they are sectioned, a run whose row says success has come through all its tasks,
\* every path to its end or not at all, whatever a Variable was set to between two gates.
THEOREM RecordedSuccessIsWhole ==
    ASSUME GraphsInOrder PROVE DagSpec => []WholeSuccess
<1>1. DagInv => WholeSuccess
  <2> SUFFICES ASSUME DagInv, NEW d \in Runs, row[d] = "success"
               PROVE  /\ Done(d)
                      /\ \A p \in Paths : p \subseteq TasksIn[d] =>
                           Cardinality({state[d][t] : t \in p}) = 1
    BY DEF WholeSuccess, Done, Good
  <2>1. Done(d)
    BY DEF DagInv
  <2>2. ASSUME NEW p \in Paths, p \subseteq TasksIn[d]
        PROVE  Cardinality({state[d][t] : t \in p}) = 1
    <3>1. PICK r \in p : \A u \in p : Section[d][u] = Section[d][r]
      BY <2>2 DEF DagInv, DagTypeOK, GraphsInOrder, PathsInOrder
    <3>2. \A u \in p : state[d][u] = state[d][r]
      <4>1. d \in Dags /\ Sectioned(d) /\ TasksKept(d)
        BY DEF DagInv, DagTypeOK, GraphsInOrder, TasksKept
      <4> QED BY <2>1, <2>2, <3>1, <4>1, OneOutcome
    <3>3. {state[d][t] : t \in p} = {state[d][r]}
      BY <3>2
    <3> QED BY <3>3, FS_Singleton
  <2> QED BY <2>1, <2>2
<1>2. DagInit => DagInv
  BY DagStart
<1>3. DagInv /\ [DagNext]_dagVars => DagInv'
  BY DagStep
<1> QED BY <1>1, <1>2, <1>3, PTL DEF DagSpec
=============================================================================
