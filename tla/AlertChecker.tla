----------------------------- MODULE AlertChecker -----------------------------
(***************************************************************************)
(* check_alerts.py: a check reads v_alert_summary, writes one log entry    *)
(* per row it finds and then a heartbeat.  Cloud Scheduler starts one every*)
(* CheckPeriod over the service's /v1/tasks/alert-check; an operator may   *)
(* run the script by hand, with other arguments, at the same time.         *)
(*                                                                         *)
(* Each of the calls may fail, and may have been carried out although it   *)
(* failed; a check may die at any point.  The request timeout (300 s) is   *)
(* shorter than a unit of time, so no time passes during a check.  What is *)
(* printed, the exit status and the text of an entry are left out.         *)
(***************************************************************************)
EXTENDS Integers

CONSTANTS
  Resource,   \* runs, tasks and ingestion runs that have a row
  LinkedRefresh, \* the refresh that an ingestion should have been followed by
  Checkers,   \* "scheduled", "hand"
  Arguments,  \* arguments of each checker, see Args
  CheckPeriod, \* between two scheduled checks (60 min)
  Grace,      \* how long a refresh may be outstanding (60 min)
  ViewWindow, \* the view's own window over started_at (24 h)
  Never,      \* no time
  MaxTime     \* bound: time ends

VARIABLES
  time,
  reported,   \* rows of the status tables: status, started_at, finished_at
  missing,    \* the ingestion that LinkedRefresh should follow succeeded then; or Never
  check,      \* the check under way of each checker, with what it still has to log
  mayBegin,   \* the checkers that may begin a check before time passes
  log,        \* log entries: their insert_id, <<resource_id, finished_at>>
  beat        \* the last heartbeat of each checker, with the arguments of its check

checkerVars == <<time, reported, missing, check, mayBegin, log, beat>>

Args(lookback, writeLog, heartbeat, json) ==
  [lookback |-> lookback, log |-> writeLog, beat |-> heartbeat, json |-> json]

Idle == [pc |-> "idle", args |-> Args(0, FALSE, FALSE, FALSE), todo |-> {}]

CheckerInit ==
  /\ time = 0 /\ missing = Never
  /\ reported =
       [r \in Resource |-> [status |-> "none", started |-> Never, finished |-> Never]]
  /\ check = [c \in Checkers |-> Idle]
  /\ mayBegin = Checkers
  /\ log = {}
  /\ beat = [c \in Checkers |-> [at |-> Never, args |-> Args(0, FALSE, FALSE, FALSE)]]

-----------------------------------------------------------------------------
(* The tables.  A run that is retried under its id overwrites its row.     *)

RowStarts(r) ==
  /\ reported[r].status # "running"
  /\ reported' =
       [reported EXCEPT ![r] = [status |-> "running", started |-> time, finished |-> Never]]
  /\ UNCHANGED <<time, missing, check, mayBegin, log, beat>>

Ends(r) ==
  /\ reported[r].status = "running"
  /\ \E s \in {"success", "failed"} :
       reported' = [reported EXCEPT ![r].status = s, ![r].finished = time]
  /\ UNCHANGED <<time, missing, check, mayBegin, log, beat>>

\* An ingestion succeeds without a linked refresh, or the refresh comes.
RefreshDueOrSeen ==
  /\ missing' = IF missing = Never THEN time ELSE Never
  /\ UNCHANGED <<time, reported, check, mayBegin, log, beat>>

-----------------------------------------------------------------------------
(* v_alert_summary, cut to the lookback by the query of check_alerts.  A   *)
(* missing refresh has no finished_at: it is dated at the time of query.   *)

Alert(resource, at) == <<resource, at>>

Failures(lookback) ==
  {Alert(r, reported[r].finished) :
     r \in {q \in Resource : /\ reported[q].status = "failed"
                             /\ reported[q].started >= time - ViewWindow
                             /\ reported[q].finished >= time - lookback}}

Outstanding == missing # Never /\ time - missing >= Grace

Summary(lookback) ==
  Failures(lookback) \cup (IF Outstanding THEN {Alert(LinkedRefresh, time)} ELSE {})

-----------------------------------------------------------------------------
(* main, task_alert_check.                                                 *)

At(c, pc, args, todo) ==
  check' = [check EXCEPT ![c] = [pc |-> pc, args |-> args, todo |-> todo]]
Stop(c) == check' = [check EXCEPT ![c] = Idle]

Beat(c, args) == IF args.beat THEN At(c, "beat", args, {}) ELSE Stop(c)

BeginCheck(c) ==
  /\ check[c].pc = "idle" /\ c \in mayBegin
  /\ c = "scheduled" => time % CheckPeriod = 0
  /\ \E args \in Arguments[c] : At(c, "query", args, {})
  /\ mayBegin' = mayBegin \ {c}
  /\ UNCHANGED <<time, reported, missing, log, beat>>

\* A failing query is raised; --json prints what was found and writes nothing.
Query(c) ==
  /\ check[c].pc = "query"
  /\ LET args == check[c].args
         found == Summary(args.lookback)
     IN \/ Stop(c)
        \/ /\ ~args.json
           /\ IF found # {} /\ args.log THEN At(c, "log", args, found) ELSE Beat(c, args)
  /\ UNCHANGED <<time, reported, missing, mayBegin, log, beat>>

\* Mutant: a write that fails is passed over.
LogEntryTolerant(c) ==
  /\ check[c].pc = "log"
  /\ \E e \in check[c].todo :
       /\ log' \in {log, log \cup {e}}
       /\ IF check[c].todo = {e} THEN Beat(c, check[c].args)
          ELSE check' = [check EXCEPT ![c].todo = @ \ {e}]
  /\ UNCHANGED <<time, reported, missing, mayBegin, beat>>

\* write_to_cloud_logging: one entry after the other; a failing call ends the
\* check, without a heartbeat.
LogEntry(c) ==
  /\ check[c].pc = "log"
  /\ \E e \in check[c].todo :
       \/ /\ log' = log \cup {e}
          /\ IF check[c].todo = {e} THEN Beat(c, check[c].args)
             ELSE check' = [check EXCEPT ![c].todo = @ \ {e}]
       \/ log' \in {log, log \cup {e}} /\ Stop(c)
  /\ UNCHANGED <<time, reported, missing, mayBegin, beat>>

\* write_heartbeat_to_cloud_logging
Heartbeat(c) ==
  /\ check[c].pc = "beat"
  /\ \/ beat' = [beat EXCEPT ![c] = [at |-> time, args |-> check[c].args]]
     \/ UNCHANGED beat
  /\ Stop(c)
  /\ UNCHANGED <<time, reported, missing, mayBegin, log>>

Dies(c) ==
  /\ check[c].pc # "idle"
  /\ Stop(c)
  /\ UNCHANGED <<time, reported, missing, mayBegin, log, beat>>

TimePasses ==
  /\ time < MaxTime
  /\ \A c \in Checkers : check[c].pc = "idle"
  /\ time' = time + 1
  /\ mayBegin' = Checkers
  /\ UNCHANGED <<reported, missing, check, log, beat>>

CheckerNext ==
  \/ \E r \in Resource : RowStarts(r) \/ Ends(r)
  \/ RefreshDueOrSeen \/ TimePasses
  \/ \E c \in Checkers : BeginCheck(c) \/ Query(c) \/ LogEntry(c) \/ Heartbeat(c) \/ Dies(c)

CheckerSpec == CheckerInit /\ [][CheckerNext]_checkerVars

-----------------------------------------------------------------------------
\* What a check at a time, that looks back so far, should have found stands in entries.
Vouched(at, lookback, entries) ==
  /\ \A r \in Resource :
       /\ reported[r].status = "failed" /\ reported[r].started >= at - ViewWindow
       /\ reported[r].finished \in (at - lookback) .. (at - 1)
       => Alert(r, reported[r].finished) \in entries
  /\ missing # Never /\ missing + Grace < at => Alert(LinkedRefresh, at) \in entries

\* A heartbeat vouches for the alerts, whatever failed or ran beside it: a
\* failure that stands, ended before a heartbeat of a check that logs and
\* was young enough for its lookback, is in the log; a refresh that had been
\* outstanding longer than its grace was logged by that very check.  (A run
\* by hand that only asks for the heartbeat vouches for nothing.)
HeartbeatVouches ==
  \A c \in Checkers :
    beat[c].args.log => Vouched(beat[c].at, beat[c].args.lookback, log)

-----------------------------------------------------------------------------
(* What makes it inductive.                                                *)

Argument == [lookback : Nat, log : BOOLEAN, beat : BOOLEAN, json : BOOLEAN]
CheckerConstants ==
  Grace \in Nat /\ ViewWindow \in Nat /\ \A c \in Checkers : Arguments[c] \subseteq Argument

Alerts == (Resource \cup {LinkedRefresh}) \X Nat
CheckerTypeOK ==
  /\ time \in Nat /\ missing \in Nat \cup {Never}
  /\ reported \in [Resource -> [status : {"none", "running", "success", "failed"},
                                started : Nat \cup {Never}, finished : Nat \cup {Never}]]
  /\ check \in [Checkers -> [pc : {"idle", "query", "log", "beat"}, args : Argument,
                             todo : SUBSET Alerts]]
  /\ mayBegin \subseteq Checkers /\ log \subseteq Alerts
  /\ beat \in [Checkers -> [at : Nat \cup {Never}, args : Argument]]

\* Nothing is dated in the future.
RowInTime(r) ==
  /\ reported[r].status \in {"running", "failed"} => reported[r].started \in 0 .. time
  /\ reported[r].status = "failed" => reported[r].finished \in 0 .. time
\* A check under way has logged, or has still to log, what it should have found.
CheckCovers(c) ==
  /\ check[c].pc \in {"log", "beat"} /\ check[c].args.log
       => Vouched(time, check[c].args.lookback, log \cup check[c].todo)
  /\ check[c].pc = "beat" => check[c].todo = {}
BeatVouches(c) ==
  beat[c].args.log => /\ beat[c].at \in 0 .. time
                      /\ Vouched(beat[c].at, beat[c].args.lookback, log)

CheckerInv ==
  /\ CheckerTypeOK
  /\ \A r \in Resource : RowInTime(r)
  /\ \A c \in Checkers : CheckCovers(c) /\ BeatVouches(c)
=============================================================================
