--------------------------- MODULE PipelineStatus ---------------------------
(***************************************************************************)
(* One execution of a pipeline workflow, the rows it keeps in ashare_meta  *)
(* through the pipeline-control service, and the hourly checker that turns *)
(* the rows into alerts.  The execution is the daily ODS ingestion, with   *)
(* its gate, its Cloud Run job, the readiness SQL and the child workflow   *)
(* that refreshes the warehouse, or a full rebuild reduced to one SQL task *)
(* that is submitted and polled (its plan and its lock: WarehouseRefresh). *)
(*                                                                         *)
(* A call to the service may fail, and then what it was to write may be    *)
(* there or not.  An SQL request goes on in the service when its caller    *)
(* has given it up; so do the job and the child.                           *)
(***************************************************************************)
EXTENDS Integers, FiniteSets

CONSTANTS
    Options,       \* arguments the execution may be started with
    Period,        \* ticks between two runs of the alert checker
    Lookback,      \* how far back it looks at finished_at
    MissingAfter,  \* after how long a success without a refresh is reported
    Day,           \* how far back the alert views look at started_at
    ConnectorLimit, RequestLimit,  \* ticks a connector, an SQL request may take
    MaxRetries, MaxPolls,          \* of a submit or poll call; of a polled task
    MaxNow         \* bound on the clock

\* The checker's period is within its lookback, and what the workflow waits for before it
\* has written a failure is over within a day.

VARIABLES
    opt,        \* the arguments
    pc, phase,  \* current_task_id, and what of it comes next
    since,      \* when the execution began to wait
    run, rows,  \* its rows in pipeline_run and pipeline_task_status
    requests,   \* SQL requests in the service, one to a slot
    jobs,       \* the BigQuery job the request in a slot has started
    client,     \* the SQL task as the workflow sees it
    ingest,     \* the Cloud Run job: what has become of it
    child,      \* the child workflow, and linked: its own run row is there
    linked,
    now, due,   \* the clock; the checker's run of this hour is still to come
    alerts,     \* alerts logged so far
    abandoned,  \* history: an SQL request was given up while it was under way
    unwritten   \* history: a call failed on the way out, after the first failure

flow == <<pc, phase, since>>
sql == <<requests, jobs, client>>
outside == <<ingest, child, linked>>
checker == <<due, alerts>>
vars == <<opt, flow, run, rows, sql, outside, now, checker, abandoned, unwritten>>

None == -1
Slots == 1..2
Tasks == {"start", "setup", "pipeline_start_status", "non_trading_day_gate",
          "skip_non_trading_day", "branch_ingestion", "ingest_dry_run", "ingest_write",
          "readiness", "branch_downstream_refresh", "skip_downstream_refresh",
          "trigger_refresh", "rebuild_sql", "pipeline_finalize_status", "finish"}
NoRow == [status |-> "none", started |-> None, finished |-> None]
NoClient == [slot |-> 0, job |-> 0, retries |-> 0, polls |-> 0, answer |-> "none"]
NoRequest == [at |-> "free", route |-> "run", job |-> 0, saw |-> "none", began |-> None]

Ended == pc \in {"succeeded", "failed"}

-----------------------------------------------------------------------------
(* The status store.                                                       *)

\* upsert_pipeline_run: started_at is set by the insert and stays.
RunRow(status) ==
    [status |-> status,
     started |-> IF run.status = "none" THEN now ELSE run.started,
     finished |-> IF status = "running" THEN run.finished ELSE now]

\* upsert_task_status: started_at is the caller's, or now for a "running" that
\* gives none; the MERGE keeps an older one against a missing one, and
\* takes finished_at as it comes.
TaskRow(task, status, started) ==
    LET given == IF status = "running" /\ started = None THEN now ELSE started
    IN [status |-> status,
        started |-> IF given = None THEN rows[task].started ELSE given,
        finished |-> IF status = "running" THEN None ELSE now]

Put(task, status, started) == rows' = [rows EXCEPT ![task] = TaskRow(task, status, started)]
SetRun(status) == run' = RunRow(status)

-----------------------------------------------------------------------------
Init ==
    /\ opt \in Options
    /\ pc = "start" /\ phase = "mark" /\ since = 0
    /\ run = NoRow /\ rows = [t \in Tasks |-> NoRow]
    /\ requests = [s \in Slots |-> NoRequest] /\ jobs = [s \in Slots |-> "none"]
    /\ client = NoClient
    /\ ingest = "none" /\ child = "none" /\ linked = FALSE
    /\ now = 0 /\ due = FALSE /\ alerts = {}
    /\ abandoned = FALSE /\ unwritten = FALSE

\* What a task does before its status is marked; "mark" when that is all.
First(task) ==
    CASE task \in {"pipeline_start_status", "pipeline_finalize_status", "non_trading_day_gate",
                   "readiness", "rebuild_sql"} -> "do"
      [] task \in {"ingest_dry_run", "ingest_write", "trigger_refresh"} -> "running"
      [] OTHER -> "mark"

Goto(task) ==
    /\ pc' = task
    /\ phase' = IF task \in Tasks THEN First(task) ELSE "mark"
    /\ since' = 0

AfterIngestionBranch ==
    CASE opt.skipIngestion -> "readiness"
      [] ~opt.skipIngestion /\ opt.dryRun -> "ingest_dry_run"
      [] OTHER -> "ingest_write"

AfterRefreshBranch ==
    IF opt.skipRefresh \/ opt.dryRun \/ (opt.skipIngestion /\ ~opt.trigger)
    THEN "skip_downstream_refresh" ELSE "trigger_refresh"

\* The task that follows one whose row has been marked.
After(task) ==
    CASE task = "start" -> "setup"
      [] task = "setup" -> "pipeline_start_status"
      [] task = "pipeline_start_status" ->
            IF opt.kind = "rebuild" THEN "rebuild_sql"
            ELSE IF opt.gate THEN "non_trading_day_gate" ELSE "branch_ingestion"
      [] task = "branch_ingestion" -> AfterIngestionBranch
      [] task \in {"ingest_dry_run", "ingest_write"} -> "readiness"
      [] task = "readiness" -> "branch_downstream_refresh"
      [] task = "branch_downstream_refresh" -> AfterRefreshBranch
      [] task \in {"skip_non_trading_day", "skip_downstream_refresh", "trigger_refresh",
                   "rebuild_sql"} -> "pipeline_finalize_status"
      [] task = "pipeline_finalize_status" -> "finish"
      [] task = "finish" -> "succeeded"

MarkStatus(task) ==
    IF task \in {"skip_non_trading_day", "skip_downstream_refresh"} THEN "skipped" ELSE "success"

\* except: the run is written failed, then the task.
Raise == phase' = "run_failed" /\ since' = 0 /\ UNCHANGED pc

Steady == UNCHANGED <<opt, now, checker>>

\* write_task_status at the end of a task.
Mark ==
    /\ pc \in Tasks /\ phase = "mark" /\ pc # "non_trading_day_gate"
    /\ Put(pc, MarkStatus(pc), None) /\ Goto(After(pc))
    /\ UNCHANGED <<run, sql, outside, abandoned, unwritten>> /\ Steady

RunCall ==
    CASE pc = "pipeline_start_status" -> "running"
      [] pc = "pipeline_finalize_status" -> "success"
      [] OTHER -> "none"

WriteRun ==
    /\ phase = "do" /\ RunCall # "none" /\ SetRun(RunCall)
    /\ phase' = "mark"
    /\ UNCHANGED <<pc, since, rows, sql, outside, abandoned, unwritten>> /\ Steady

\* is_sse_open answers; a calendar without the day is an error (CallFails).
Gate ==
    /\ phase = "do" /\ pc = "non_trading_day_gate"
    /\ phase' \in {"open", "closed"}
    /\ UNCHANGED <<pc, since, run, rows, sql, outside, abandoned, unwritten>> /\ Steady

MarkGate ==
    /\ pc = "non_trading_day_gate" /\ phase \in {"open", "closed"}
    /\ Put(pc, "success", None)
    /\ Goto(IF phase = "open" THEN "branch_ingestion" ELSE "skip_non_trading_day")
    /\ UNCHANGED <<run, sql, outside, abandoned, unwritten>> /\ Steady

\* A task with a connector is marked running, started and waited for.
MarkRunning ==
    /\ phase = "running"
    /\ Put(pc, "running", None) /\ phase' = "connect"
    /\ UNCHANGED <<pc, since, run, sql, outside, abandoned, unwritten>> /\ Steady

Connect ==
    /\ phase = "connect" /\ phase' = "wait" /\ since' = now
    /\ IF pc = "trigger_refresh" THEN child' = "running" /\ UNCHANGED ingest
                                 ELSE ingest' = "running" /\ UNCHANGED child
    /\ UNCHANGED <<pc, linked, run, rows, sql, abandoned, unwritten>> /\ Steady

Awaited == IF pc = "trigger_refresh" THEN child ELSE ingest

\* Mutant: a connector that times out counts as done.
ConnectedAnyhow ==
    /\ phase = "wait" /\ pc \in {"ingest_dry_run", "ingest_write", "trigger_refresh"}
    /\ \/ Awaited = "failed" /\ Raise
       \/ /\ Awaited = "ok" \/ now - since >= ConnectorLimit
          /\ phase' = "mark" /\ since' = 0 /\ UNCHANGED pc
    /\ UNCHANGED <<run, rows, sql, outside, abandoned, unwritten>> /\ Steady

Connected ==
    /\ phase = "wait" /\ pc \in {"ingest_dry_run", "ingest_write", "trigger_refresh"}
    /\ \/ Awaited = "ok" /\ phase' = "mark" /\ since' = 0 /\ UNCHANGED pc
       \/ Awaited = "failed" /\ Raise
       \/ now - since >= ConnectorLimit /\ Raise
    /\ UNCHANGED <<run, rows, sql, outside, abandoned, unwritten>> /\ Steady

\* The child writes its own run row, which names this run as its upstream,
\* before anything that can end well.
ChildWrites ==
    /\ child = "running" /\ linked' = TRUE
    /\ UNCHANGED <<flow, run, rows, sql, ingest, child, abandoned, unwritten>> /\ Steady

OutsideEnds ==
    /\ \/ ingest = "running" /\ ingest' \in {"ok", "failed"} /\ UNCHANGED child
       \/ child = "running" /\ child' \in {"failed"} \cup (IF linked THEN {"ok"} ELSE {})
          /\ UNCHANGED ingest
    /\ UNCHANGED <<flow, run, rows, sql, linked, abandoned, unwritten>> /\ Steady

-----------------------------------------------------------------------------
(* SQL tasks: /v1/tasks/bigquery, /submit and /poll.                       *)

Free == {s \in Slots : requests[s].at = "free"}
SqlTask == IF opt.kind = "rebuild" THEN "rebuild_sql" ELSE "readiness"
Route ==
    CASE opt.kind # "rebuild" -> "run"
      [] opt.kind = "rebuild" /\ client.job = 0 -> "submit"
      [] OTHER -> "poll"

Post(s, retries) ==
    /\ requests' = [requests EXCEPT ![s] =
         [at |-> "begin", route |-> Route, job |-> IF Route = "poll" THEN client.job ELSE s,
          saw |-> "none", began |-> None]]
    /\ client' = [client EXCEPT !.slot = s, !.answer = "none", !.retries = retries]

Ask ==
    /\ phase = "do" /\ pc = SqlTask
    /\ \E s \in Free : Post(s, 0)
    /\ phase' = "wait" /\ since' = now
    /\ UNCHANGED <<pc, run, rows, jobs, outside, abandoned, unwritten>> /\ Steady

\* The caller's HTTP timeout.  Submit and poll calls are made again.
GiveUp ==
    /\ phase = "wait" /\ pc = SqlTask /\ client.answer = "none"
    /\ Route = "run" => now - since >= RequestLimit
    /\ abandoned' = TRUE
    /\ \/ /\ Route # "run" /\ client.retries < MaxRetries
          /\ \E s \in Free : Post(s, client.retries + 1)
          /\ UNCHANGED <<pc, phase, since>>
       \/ Raise /\ client' = NoClient /\ UNCHANGED requests
    /\ UNCHANGED <<run, rows, jobs, outside, unwritten>> /\ Steady

Step(s, at) == requests' = [requests EXCEPT ![s].at = at]

\* Ends a request; only the one the caller waits for is heard.
Answer(s, a) ==
    /\ requests' = [requests EXCEPT ![s] = NoRequest]
    /\ client' = IF client.slot = s /\ phase = "wait" /\ pc = SqlTask
                 THEN [client EXCEPT !.answer = a] ELSE client

\* run_sql_task and submit_sql_task mark the task running and start the job; a
\* submit marks it again with the job's id, a run when the job has ended.
Serve(s) ==
    LET r == requests[s] IN
    /\ r.route # "poll"
    /\ \/ /\ r.at = "begin" /\ Put(SqlTask, "running", now)
          /\ requests' = [requests EXCEPT ![s].at = "post", ![s].began = now]
          /\ UNCHANGED <<jobs, client>>
       \/ /\ r.at = "post" /\ UNCHANGED <<rows, client>>
          /\ \/ jobs' = [jobs EXCEPT ![s] = "running"] /\ Step(s, "job")
             \/ UNCHANGED jobs /\ Step(s, "error")
       \/ /\ r.at = "job" /\ r.route = "submit"
          /\ Put(SqlTask, "running", r.began) /\ Answer(s, "submitted") /\ UNCHANGED jobs
       \/ /\ r.at = "job" /\ r.route = "run" /\ jobs[s] # "running"
          /\ Step(s, IF jobs[s] = "ok" THEN "success" ELSE "error")
          /\ UNCHANGED <<rows, jobs, client>>
       \/ /\ r.at = "success"
          /\ Put(SqlTask, "success", r.began) /\ Answer(s, "ok") /\ UNCHANGED jobs
       \/ /\ r.at = "error"
          /\ Put(SqlTask, "failed", r.began) /\ Answer(s, "error") /\ UNCHANGED jobs
    /\ UNCHANGED <<flow, run, outside, abandoned, unwritten>> /\ Steady

\* poll_sql_task: reads the job, then writes what it has read.
PollReads(s) ==
    LET r == requests[s] IN
    /\ r.route = "poll" /\ r.at = "begin"
    /\ \E saw \in {jobs[r.job], "lost"} :
         requests' = [requests EXCEPT ![s].saw = saw, ![s].at = "write"]
    /\ UNCHANGED <<flow, run, rows, jobs, client, outside, abandoned, unwritten>> /\ Steady

PollStatus(saw) ==
    CASE saw = "running" -> "running" [] saw = "ok" -> "success" [] OTHER -> "failed"

PollWrites(s) ==
    LET r == requests[s] IN
    /\ r.route = "poll" /\ r.at = "write"
    /\ Put(SqlTask, PollStatus(r.saw), None)
    /\ Answer(s, IF r.saw \in {"running", "ok"} THEN r.saw ELSE "error")
    /\ UNCHANGED <<flow, run, jobs, outside, abandoned, unwritten>> /\ Steady

JobEnds(s) ==
    /\ jobs[s] = "running" /\ \E e \in {"ok", "error"} : jobs' = [jobs EXCEPT ![s] = e]
    /\ UNCHANGED <<flow, run, rows, requests, client, outside, abandoned, unwritten>> /\ Steady

\* The workflow goes by the answer it got.
Hear ==
    /\ phase = "wait" /\ pc = SqlTask /\ client.answer # "none"
    /\ LET more == client.polls < MaxPolls IN
       CASE client.answer = "ok" -> Goto(After(pc)) /\ client' = NoClient
         [] client.answer = "error" -> Raise /\ client' = NoClient
         [] client.answer = "submitted" ->
              /\ client' = [NoClient EXCEPT !.job = client.slot]
              /\ phase' = "do" /\ since' = 0 /\ UNCHANGED pc
         [] client.answer = "running" /\ more ->
              /\ client' = [NoClient EXCEPT !.job = client.job, !.polls = client.polls + 1]
              /\ phase' = "do" /\ since' = 0 /\ UNCHANGED pc
         [] OTHER -> Raise /\ client' = NoClient
    /\ UNCHANGED <<run, rows, requests, jobs, outside, abandoned, unwritten>> /\ Steady

-----------------------------------------------------------------------------
(* A call that fails, and the except branch.                               *)

\* What the call was to write may have been written.
CallFails ==
    /\ pc \in Tasks
    /\ phase \in {"mark", "do", "open", "closed", "running", "connect"}
    /\ Raise
    /\ \/ UNCHANGED <<run, rows>>
       \/ phase = "mark" /\ Put(pc, MarkStatus(pc), None) /\ UNCHANGED run
       \/ phase = "running" /\ Put(pc, "running", None) /\ UNCHANGED run
       \/ phase \in {"open", "closed"} /\ Put(pc, "success", None) /\ UNCHANGED run
       \/ phase = "do" /\ RunCall # "none" /\ SetRun(RunCall) /\ UNCHANGED rows
    /\ UNCHANGED <<sql, outside, abandoned, unwritten>> /\ Steady

\* Mutant: the except branch writes the run and leaves the task as it is.
WriteOnlyRunFailed ==
    /\ phase = "run_failed"
    /\ \/ SetRun("failed") /\ UNCHANGED unwritten
       \/ unwritten' = TRUE /\ UNCHANGED run
    /\ Goto("failed")
    /\ UNCHANGED <<rows, sql, outside, abandoned>> /\ Steady

WriteRunFailed ==
    /\ phase = "run_failed"
    /\ \/ /\ SetRun("failed") /\ phase' = "task_failed"
          /\ UNCHANGED <<pc, since, unwritten>>
       \/ unwritten' = TRUE /\ Goto("failed") /\ UNCHANGED run
    /\ UNCHANGED <<rows, sql, outside, abandoned>> /\ Steady

WriteTaskFailed ==
    /\ phase = "task_failed"
    /\ \/ Put(pc, "failed", None) /\ UNCHANGED unwritten
       \/ unwritten' = TRUE /\ UNCHANGED rows
    /\ Goto("failed")
    /\ UNCHANGED <<run, sql, outside, abandoned>> /\ Steady

-----------------------------------------------------------------------------
(* The alert views and the checker.                                        *)

\* As in SQL, a comparison with NULL is not true.
Recent(t, span) == t # None /\ t >= now - span

\* downstream_refresh_exempt
Exempt ==
    \E t \in {"skip_non_trading_day", "skip_downstream_refresh"} :
        rows[t].status = "skipped" /\ Recent(rows[t].started, Day)

RefreshMissing ==
    /\ opt.kind = "daily" /\ run.status = "success" /\ Recent(run.started, Day)
    /\ now - run.finished >= MissingAfter /\ ~Exempt /\ ~linked

\* v_alert_summary, cut to Lookback by check_alerts.
FailedTasks ==
    {t \in Tasks : /\ rows[t].status = "failed" /\ Recent(rows[t].started, Day)
                   /\ Recent(rows[t].finished, Lookback)}

RunFailure ==
    /\ run.status = "failed" /\ Recent(run.started, Day) /\ Recent(run.finished, Lookback)

AlertSummary ==
    {<<"task_failure", t>> : t \in FailedTasks}
    \cup (IF RunFailure THEN {<<"pipeline_failure", "run">>} ELSE {})
    \cup (IF RefreshMissing THEN {<<"warehouse_refresh_missing", "run">>} ELSE {})

Check ==
    /\ due /\ due' = FALSE
    /\ alerts' \in {alerts, alerts \cup AlertSummary}
    /\ UNCHANGED <<opt, flow, run, rows, sql, outside, now, abandoned, unwritten>>

\* Calls are short against a tick: time passes in waits and after the end.
Waiting ==
    \/ phase = "wait" /\ now - since < (IF pc = SqlTask THEN RequestLimit ELSE ConnectorLimit)
    \/ Ended

Tick ==
    /\ ~due /\ Waiting /\ now < MaxNow
    /\ now' = now + 1 /\ due' = (now' % Period = 0)
    /\ UNCHANGED <<opt, flow, run, rows, sql, outside, alerts, abandoned, unwritten>>

Workflow ==
    \/ Mark \/ WriteRun \/ Gate \/ MarkGate \/ MarkRunning \/ Connect \/ Connected
    \/ Ask \/ GiveUp \/ Hear \/ CallFails \/ WriteRunFailed \/ WriteTaskFailed

Service == \E s \in Slots : Serve(s) \/ PollReads(s) \/ PollWrites(s) \/ JobEnds(s)

Next == Workflow \/ Service \/ ChildWrites \/ OutsideEnds \/ Check \/ Tick

Spec == Init /\ [][Next]_vars

-----------------------------------------------------------------------------
(* Properties.                                                             *)

Phases == {"mark", "do", "open", "closed", "running", "connect", "wait", "run_failed",
           "task_failed"}
Row == [status : {"none", "running", "success", "failed", "skipped"},
        started : Int, finished : Int]
Requests ==
    [at : {"free", "begin", "post", "job", "success", "error", "write"},
     route : {"run", "submit", "poll"}, job : 0..2,
     saw : {"none", "running", "ok", "error", "lost"}, began : Int]
Clients ==
    [slot : 0..2, job : 0..2, retries : Nat, polls : Nat,
     answer : {"none", "ok", "error", "submitted", "running"}]
Outcomes == {"none", "running", "ok", "failed"}

\* The variables have the values the code can give them.
TypeOK ==
    /\ opt \in Options /\ pc \in Tasks \cup {"succeeded", "failed"} /\ phase \in Phases
    /\ run \in Row /\ rows \in [Tasks -> Row]
    /\ requests \in [Slots -> Requests] /\ jobs \in [Slots -> {"none", "running", "ok", "error"}]
    /\ client \in Clients /\ ingest \in Outcomes /\ child \in Outcomes /\ linked \in BOOLEAN
    /\ since \in Nat /\ now \in Nat /\ due \in BOOLEAN
    /\ alerts \subseteq ({"task_failure", "pipeline_failure", "warehouse_refresh_missing"}
                         \X (Tasks \cup {"run"}))
    /\ abandoned \in BOOLEAN /\ unwritten \in BOOLEAN

\* What the tables say of an execution that has ended is what happened to it:
\* a run row that matches the outcome, and, unless an SQL request outlived
\* its caller (its late row is written over the workflow's), exactly the
\* task the run failed at marked failed and nothing left running.
RecordsAreTrue ==
    Ended /\ ~unwritten =>
        /\ run.status = IF pc = "succeeded" THEN "success" ELSE "failed"
        /\ abandoned \/
             /\ \A t \in Tasks : rows[t].status # "running"
             /\ Cardinality({t \in Tasks : rows[t].status = "failed"})
                  = IF pc = "succeeded" THEN 0 ELSE 1

\* A run recorded as a success had its work done: its SQL task's job ended
\* well, the partitions were ingested and the child refreshed the warehouse,
\* each unless an argument or the closed exchange left it out.
SuccessIsComplete ==
    run.status = "success" /\ rows["skip_non_trading_day"].status = "none" =>
        /\ \E s \in Slots : jobs[s] = "ok"
        /\ opt.kind = "rebuild" \/ opt.skipIngestion \/ ingest = "ok"
        /\ opt.kind = "rebuild" \/ child = "ok" \/ rows["skip_downstream_refresh"].status = "skipped"

\* A run that skipped the refresh, and recorded that it did, is never
\* reported as missing it.
ExemptRunsRaiseNoAlert ==
    <<"warehouse_refresh_missing", "run">> \in alerts =>
        \A t \in {"skip_non_trading_day", "skip_downstream_refresh"} : rows[t].status # "skipped"

-----------------------------------------------------------------------------
(* The inductive invariant.                                                *)

Connectors == {"ingest_dry_run", "ingest_write", "trigger_refresh"}
RebuildTasks == {"start", "setup", "pipeline_start_status", "rebuild_sql",
                 "pipeline_finalize_status", "finish", "succeeded", "failed"}

\* Which phases the tasks have, and which tasks a rebuild.
Placed ==
    /\ Ended => phase = "mark"
    /\ phase = "mark" => pc \notin {"non_trading_day_gate", "readiness", "rebuild_sql"}
    /\ phase = "do" => pc \in {"pipeline_start_status", "pipeline_finalize_status",
                               "non_trading_day_gate", SqlTask}
    /\ phase \in {"open", "closed"} => pc = "non_trading_day_gate"
    /\ phase \in {"running", "connect"} => pc \in Connectors
    /\ phase = "wait" => pc \in Connectors \cup {SqlTask}
    /\ pc \in RebuildTasks \ {"rebuild_sql"} \/ (opt.kind = "rebuild" <=> pc = "rebuild_sql")

\* The run's row keeps up with the tasks that write it.
RunIsTrue ==
    /\ pc = "pipeline_finalize_status" /\ phase = "mark" => run.status = "success"
    /\ pc = "finish" /\ phase = "mark" => run.status = "success"
    /\ phase = "task_failed" => run.status = "failed"
    /\ pc = "succeeded" => run.status = "success"
    /\ pc = "failed" /\ ~unwritten => run.status = "failed"

Unsettled == {t \in Tasks : rows[t].status \in {"running", "failed"}}

\* Nothing but the task at work is open or failed; an execution that has ended has one
\* such task, or none.
TasksAreTrue == abandoned \/
    /\ pc # "failed" => Unsettled \subseteq {pc}
    /\ pc = "failed" /\ ~unwritten =>
         \E t \in Tasks : Unsettled = {t} /\ rows[t].status = "failed"
    /\ client.answer = "ok" => rows[SqlTask].status = "success"

Asking == phase = "wait" /\ pc = SqlTask /\ client.answer = "none"

\* Only the request the workflow waits for is under way.
NoneForgotten == abandoned \/
    \A s \in Slots : requests[s].at # "free" => Asking /\ s = client.slot

\* No request of this slot will start its job anew.
Settled(s) == requests[s].at = "free" \/ requests[s].route = "poll"
JobDone == \E s \in Slots : jobs[s] = "ok" /\ Settled(s)

\* What the workflow waits for and has heard is what the service has done.
AnswersAreTrue ==
    /\ client.job # 0 => opt.kind = "rebuild" /\ Settled(client.job)
    /\ client.answer # "none" =>
         phase = "wait" /\ pc = SqlTask /\ client.slot # 0 /\ requests[client.slot].at = "free"
    /\ client.answer = "submitted" => opt.kind = "rebuild"
    /\ client.answer = "ok" => JobDone
    /\ \A s \in Slots :
         /\ requests[s].at = "success" => requests[s].route = "run" /\ jobs[s] = "ok"
         /\ requests[s].route = "poll" /\ requests[s].at # "free" => requests[s].job # 0
         /\ requests[s].at # "free" /\ s = client.slot /\ Asking =>
              /\ requests[s].route = Route
              /\ Route = "poll" =>
                   /\ requests[s].job = client.job
                   /\ requests[s].at = "write" /\ requests[s].saw = "ok" =>
                        jobs[client.job] = "ok"

Ingested == opt.kind = "rebuild" \/ opt.skipIngestion \/ ingest = "ok"
Refreshed ==
    opt.kind = "rebuild" \/ child = "ok" \/ rows["skip_downstream_refresh"].status = "skipped"
Unless == rows["skip_non_trading_day"].status # "none"

\* How far the work has come that a success vouches for.
WorkIsDone ==
    /\ pc \in {"ingest_dry_run", "ingest_write"} /\ phase = "mark" => ingest = "ok"
    /\ pc = "readiness" => Ingested
    /\ pc = "trigger_refresh" /\ phase = "mark" => child = "ok"
    /\ pc \in {"branch_downstream_refresh", "skip_downstream_refresh", "trigger_refresh"} =>
         JobDone /\ Ingested
    /\ pc \in {"pipeline_finalize_status", "finish", "succeeded"} \/ run.status = "success" =>
         Unless \/ (JobDone /\ Ingested /\ Refreshed)
    /\ run.status = "success" =>
         pc \in {"pipeline_finalize_status", "finish", "succeeded", "failed"}

IInv ==
    /\ TypeOK /\ Placed /\ RunIsTrue /\ TasksAreTrue /\ NoneForgotten /\ AnswersAreTrue
    /\ WorkIsDone
=============================================================================
