-------------------------- MODULE WarehouseRefresh --------------------------
(***************************************************************************)
(* Executions of the two warehouse workflows, ashare_warehouse_window_     *)
(* refresh and ashare_warehouse_full_rebuild, that share one write lock.   *)
(* The lock takes the steps of LeaseLock, which ControlLock is shown to    *)
(* keep to (LeaseClaims); a lock call is one step here, whose answer may   *)
(* be lost.                                                                *)
(*                                                                         *)
(* Time is counted in ticks of TaskLimit's unit.  Only tasks take time:    *)
(* a lock or status call is short against a tick (see the README).         *)
(***************************************************************************)
EXTENDS LeaseLock, Sequences

CONSTANTS
  Kind,         \* which workflow each execution runs
  TaskLimit,    \* longest time between two calls of run_bigquery_task that
                \* reach the lock, per workflow: the HTTP timeout of the
                \* window refresh, the poll period of the full rebuild
  MaxPolls,     \* max_polls of the full rebuild
  Dims, Qas,    \* how many dimension and QA scripts a window refresh runs
  Rebuilds      \* how many scripts of the full rebuild fill dwd, and dws, tables

ASSUME WarehouseAssumption ==
  /\ Kind \in [Client -> {"window", "rebuild"}]
  /\ TaskLimit \in [{"window", "rebuild"} -> Nat]
  /\ {MaxPolls, Dims, Qas, Rebuilds} \subseteq Nat

\* The leases outlast any task, and the window refresh has QA scripts.
ASSUME LeaseCoversTask ==
  /\ \A w \in Client : TaskLimit[Kind[w]] <= Lease[w]
  /\ Qas # 0

VARIABLES
  pc, mode,
  step,         \* index of the task in the plan
  at,           \* what current_task_id names: the prefix of the task's id
                \* ("window_refresh_lock" is "warehouse_write_lock" in a full
                \* rebuild, where nothing looks at it)
  timer,        \* ticks since the task was posted or last polled
  polls,        \* bigquery_poll_count
  flag,         \* lock_acquired of the full rebuild
  stray,        \* a write job goes on although nobody waits for it any more
  late,         \* an acquire request the caller gave up is still in the service
  lost,         \* history: an answer to a lock call was lost
  touched       \* history: another execution posted a write inside its section

lock == <<holder, left>>
run  == <<mode, step, at, polls, flag>>
hist == <<late, lost, touched>>
vars == <<holder, left, pc, mode, step, at, timer, polls, flag, stray, late,
          lost, touched>>

-----------------------------------------------------------------------------
(* The tasks of each workflow, in order.                                   *)

Task(group, writes, beat) == [group |-> group, writes |-> writes, beat |-> beat]

Times(n, t) == [i \in 1 .. n |-> t]

Transform == Task("windowed_transform", TRUE, TRUE)
Check     == Task("windowed_transform", FALSE, TRUE)
Metadata  == Task("windowed_metadata", TRUE, TRUE)
Qa        == Task("qa_after_window", FALSE, TRUE)

Dimensions == Times(Dims, Transform)
Index      == <<Transform, Check>>
Stock      == <<Transform, Check>>
Market     == <<Transform, Check>>
QaAfter    == Times(Qas, Qa)
QaOnly     == Times(Qas, Task("qa_only", FALSE, FALSE))

Core == Dimensions \o <<Metadata>> \o Index \o Stock \o Market

\* The corporate action chain has no heartbeat of its own.
WeakChain == << Task("windowed_weak_transform", TRUE, FALSE),
                Task("windowed_weak_qa", FALSE, FALSE) >>

Rebuild(writes) == Task("rebuild", writes, TRUE)

RebuildDims == Times(Dims, Rebuild(TRUE))
RebuildDwd  == Times(Rebuilds, Rebuild(TRUE))
RebuildDws  == Times(Rebuilds, Rebuild(TRUE))
RebuildMeta == <<Rebuild(TRUE), Rebuild(TRUE)>>
RebuildQa   == Times(Qas, Rebuild(FALSE))

Plan(m) ==
  CASE m = "daily_current" -> Core \o WeakChain \o QaAfter
    [] m = "backfill"      -> Core \o QaAfter
    [] m = "qa_only"       -> QaOnly
    [] m = "rebuild"       -> <<Rebuild(FALSE)>> \o RebuildDims \o RebuildDwd
                                \o RebuildDws \o RebuildMeta \o RebuildQa
    [] OTHER               -> << >>

Modes(kind) ==
  IF kind = "window" THEN {"daily_current", "backfill", "qa_only", "skip", "bad"}
                     ELSE {"rebuild", "skip", "bad"}

Locking(m) == m \in {"daily_current", "backfill", "rebuild"}

Current(w) == Plan(mode[w])[step[w]]
IsWeak(t)  == t.group \in {"windowed_weak_transform", "windowed_weak_qa"}

Ended(w) == pc[w] \in {"succeeded", "failed", "cancelled"}

\* Between a successful acquire and the release, by the workflow's own view.
Inside(w) == Locking(mode[w]) /\
             pc[w] \in {"post", "task", "beat", "report", "release"}

AttachedWriter(w) == pc[w] = "task" /\ Current(w).writes
Writing(w)        == AttachedWriter(w) \/ stray[w]

-----------------------------------------------------------------------------
Init ==
  /\ LeaseInit
  /\ pc    = [w \in Client |-> "idle"]
  /\ mode  = [w \in Client |-> "skip"]
  /\ step  = [w \in Client |-> 1]
  /\ at    = [w \in Client |-> "other"]
  /\ timer = [w \in Client |-> 0]
  /\ polls = [w \in Client |-> 0]
  /\ flag  = [w \in Client |-> FALSE]
  /\ stray = [w \in Client |-> FALSE]
  /\ late  = [w \in Client |-> FALSE]
  /\ lost  = [w \in Client |-> FALSE]
  /\ touched = [w \in Client |-> FALSE]

\* The execution goes on to p; timer only runs within a task.
Goto(w, p) ==
  /\ pc' = [pc EXCEPT ![w] = p]
  /\ timer' = [timer EXCEPT ![w] = 0]

Finish(w, p) ==
  /\ Goto(w, p)
  /\ step' = [step EXCEPT ![w] = 1]

\* start, setup, readiness and branch: everything before the lock.
Start(w) ==
  /\ pc[w] = "idle"
  /\ \E m \in Modes(Kind[w]) :
       /\ mode' = [mode EXCEPT ![w] = m]
       /\ \/ Goto(w, IF Locking(m) THEN "acquire"
                     ELSE IF m = "qa_only" THEN "post"
                     ELSE IF m = "skip" THEN "finalize" ELSE "error")
          \/ Goto(w, "error")
  /\ UNCHANGED <<lock, step, at, polls, flag, stray, hist>>

-----------------------------------------------------------------------------
(* Lock calls.                                                             *)

\* Mutant: the object is overwritten without if_generation_match = 0.
TakeLockAnyway(w) ==
  /\ holder' = w
  /\ left' = Lease[w]

TakeLock(w) == Grant(w) /\ left' = Lease[w]

\* acquire_lock first removes a lock that has expired; another request may
\* come in before it creates its own.
Reclaim(w) ==
  /\ pc[w] = "acquire" \/ late[w]
  /\ Evict
  /\ UNCHANGED <<pc, timer, run, stray, hist>>

\* Mutant: the heartbeat does not ask who owns the object.
ExtendAnyway(w) == holder' = w /\ left' = Lease[w]

Extend(w) == Renew(w) /\ left' = Lease[w]

Lose(w) == lost' = [lost EXCEPT ![w] = TRUE]

\* acquire_lock: granted, refused, or the answer is lost, in which case the
\* request may also still be on its way.
Acquire(w) ==
  /\ pc[w] = "acquire"
  /\ at' = [at EXCEPT ![w] = "window_refresh_lock"]
  /\ \/ /\ TakeLock(w)
        /\ Goto(w, "post")
        /\ flag' = [flag EXCEPT ![w] = TRUE]
        /\ UNCHANGED <<late, lost>>
     \/ /\ ~Free
        /\ Goto(w, "error")
        /\ UNCHANGED <<lock, flag, late, lost>>
     \/ /\ Goto(w, "error")
        /\ Lose(w)
        /\ \/ TakeLock(w) /\ UNCHANGED late
           \/ UNCHANGED lock /\ late' = [late EXCEPT ![w] = TRUE]
        /\ UNCHANGED flag
  /\ UNCHANGED <<mode, step, polls, stray, touched>>

LateAcquire(w) ==
  /\ late[w]
  /\ late' = [late EXCEPT ![w] = FALSE]
  /\ \/ TakeLock(w)
     \/ ~Free /\ UNCHANGED lock
  /\ UNCHANGED <<pc, timer, run, stray, lost, touched>>

\* heartbeat_lock: the workflow goes on with next, or raises.
Beat(w, next) ==
  \/ /\ Extend(w)
     /\ Goto(w, next)
     /\ UNCHANGED lost
  \/ /\ holder # w
     /\ Goto(w, "error")
     /\ UNCHANGED <<lock, lost>>
  \/ /\ Goto(w, "error")
     /\ Lose(w)
     /\ Extend(w) \/ UNCHANGED lock

-----------------------------------------------------------------------------
(* Tasks.                                                                  *)

AfterStep(w) ==
  IF step[w] < Len(Plan(mode[w])) THEN "post"
  ELSE IF Locking(mode[w]) THEN "release" ELSE "finalize"

PostTask(w) ==
  /\ pc[w] = "post"
  /\ Goto(w, "task")
  /\ at' = [at EXCEPT ![w] = Current(w).group]
  /\ touched' = [v \in Client |-> touched[v] \/
                   (Current(w).writes /\ v # w /\ Inside(v))]
  /\ UNCHANGED <<lock, mode, step, polls, flag, stray, late, lost>>

TaskSucceeds(w) ==
  /\ pc[w] = "task"
  /\ IF Current(w).beat
       THEN Goto(w, "beat") /\ UNCHANGED step
       ELSE Goto(w, AfterStep(w)) /\ step' = [step EXCEPT ![w] = @ + 1]
  /\ polls' = [polls EXCEPT ![w] = 0]
  /\ UNCHANGED <<lock, mode, at, flag, stray, hist>>

\* The job fails, or the call does (HTTP timeout, instance gone, poll limit)
\* while the job goes on.
TaskFails(w) ==
  /\ pc[w] = "task"
  /\ Goto(w, IF IsWeak(Current(w)) THEN "report" ELSE "error")
  /\ stray' \in {stray, [stray EXCEPT ![w] = @ \/ Current(w).writes]}
  /\ polls' = [polls EXCEPT ![w] = 0]
  /\ UNCHANGED <<lock, mode, step, at, flag, hist>>

HeartbeatAfterTask(w) ==
  /\ pc[w] = "beat"
  /\ Beat(w, AfterStep(w))
  /\ step' = [step EXCEPT ![w] = @ + 1]
  /\ UNCHANGED <<mode, at, polls, flag, stray, late, touched>>

\* The corporate action chain reports its failure and the run goes on,
\* unless the report fails as well.
ReportWeakFailure(w) ==
  /\ pc[w] = "report"
  /\ \/ /\ Goto(w, "post")
        /\ step' = [step EXCEPT ![w] = Len(Core) + Len(WeakChain) + 1]
     \/ Goto(w, "error") /\ UNCHANGED step
  /\ UNCHANGED <<lock, mode, at, polls, flag, stray, hist>>

\* Full rebuild: http.default_retry_predicate posts the submit again although
\* the first one has started a job.
Resubmit(w) ==
  /\ pc[w] = "task" /\ Kind[w] = "rebuild" /\ polls[w] = 0
  /\ stray' = [stray EXCEPT ![w] = @ \/ Current(w).writes]
  /\ UNCHANGED <<lock, pc, timer, run, hist>>

\* Mutant: bigquery_poll_count is not incremented.
PollForever(w) ==
  /\ pc[w] = "task" /\ Kind[w] = "rebuild" /\ polls[w] < MaxPolls
  /\ Beat(w, "task")
  /\ stray' = [stray EXCEPT ![w] = @ \/ (pc'[w] = "error" /\ Current(w).writes)]
  /\ UNCHANGED <<mode, step, at, polls, flag, late, touched>>

\* Full rebuild: the job is not done, extend the lock and poll again.
PollAgain(w) ==
  /\ pc[w] = "task" /\ Kind[w] = "rebuild" /\ polls[w] < MaxPolls
  /\ polls' = [polls EXCEPT ![w] = @ + 1]
  /\ Beat(w, "task")
  /\ stray' = [stray EXCEPT ![w] = @ \/ (pc'[w] = "error" /\ Current(w).writes)]
  /\ UNCHANGED <<mode, step, at, flag, late, touched>>

-----------------------------------------------------------------------------
(* The end of an execution.                                                *)

ReleaseAtEnd(w) ==
  /\ pc[w] = "release"
  /\ at' = [at EXCEPT ![w] = "window_refresh_lock"]
  /\ \/ /\ Release(w)
        /\ Goto(w, "finalize")
        /\ flag' = [flag EXCEPT ![w] = FALSE]
        /\ UNCHANGED lost
     \/ /\ holder # w
        /\ Goto(w, "error")
        /\ UNCHANGED <<lock, flag, lost>>
     \/ /\ Goto(w, "error")
        /\ Lose(w)
        /\ Release(w) \/ UNCHANGED lock
        /\ UNCHANGED flag
  /\ UNCHANGED <<mode, step, polls, stray, late, touched>>

Finalize(w) ==
  /\ pc[w] = "finalize"
  /\ at' = [at EXCEPT ![w] = "other"]
  /\ \/ Finish(w, "succeeded")
     \/ Goto(w, "error") /\ UNCHANGED step
  /\ UNCHANGED <<lock, mode, polls, flag, stray, hist>>

\* Mutant: the pattern forgets the QA tasks.
ReleasesOnErrorNotQa(w) ==
  IF Kind[w] = "rebuild" THEN flag[w]
  ELSE at[w] \in {"windowed_transform", "window_refresh_lock"}

ReleasesOnError(w) ==
  IF Kind[w] = "rebuild" THEN flag[w]
  ELSE at[w] \in {"windowed_transform", "qa_after_window", "window_refresh_lock"}

\* maybe_release_lock_on_error and what follows; an error of the release call
\* itself is ignored.
OnError(w) ==
  /\ pc[w] = "error"
  /\ Finish(w, "failed")
  /\ \/ /\ ReleasesOnError(w)
        /\ flag' = [flag EXCEPT ![w] = FALSE]
        /\ \/ Release(w) /\ UNCHANGED lost
           \/ holder # w /\ UNCHANGED <<lock, lost>>
           \/ UNCHANGED lock /\ Lose(w)
     \/ ~ReleasesOnError(w) /\ UNCHANGED <<lock, flag, lost>>
  /\ UNCHANGED <<mode, at, polls, stray, late, touched>>

\* The execution is cancelled; its error branch does not run.
Cancel(w) ==
  /\ pc[w] # "idle" /\ ~Ended(w)
  /\ Finish(w, "cancelled")
  /\ stray' = [stray EXCEPT ![w] = @ \/ AttachedWriter(w)]
  /\ UNCHANGED <<lock, mode, at, polls, flag, hist>>

StrayEnds(w) ==
  /\ stray[w]
  /\ stray' = [stray EXCEPT ![w] = FALSE]
  /\ UNCHANGED <<lock, pc, timer, run, hist>>

-----------------------------------------------------------------------------
\* Calls other than tasks are answered within the tick.
Patient(w) ==
  \/ pc[w] = "idle" \/ Ended(w)
  \/ pc[w] = "task" /\ timer[w] < TaskLimit[Kind[w]]

Tick ==
  /\ \A w \in Client : Patient(w)
  /\ Elapse
  /\ timer' = [w \in Client |-> IF pc[w] = "task" THEN timer[w] + 1 ELSE timer[w]]
  /\ UNCHANGED <<pc, mode, step, at, polls, flag, stray, hist>>

\* What the workflow engine does next by itself.
Workflow(w) ==
  \/ Reclaim(w) \/ Acquire(w) \/ PostTask(w) \/ HeartbeatAfterTask(w)
  \/ ReportWeakFailure(w) \/ ReleaseAtEnd(w) \/ Finalize(w) \/ OnError(w)

\* A task may end at any time.
TaskStep(w) == TaskSucceeds(w) \/ TaskFails(w) \/ PollAgain(w)

\* At the limit the call times out, or the next poll is due.
AtLimit(w) == timer[w] >= TaskLimit[Kind[w]] /\ TaskStep(w)

Next ==
  \/ Tick
  \/ \E w \in Client : \/ Start(w) \/ Workflow(w) \/ TaskStep(w)
                       \/ LateAcquire(w) \/ Resubmit(w)
                       \/ Cancel(w) \/ StrayEnds(w)

Spec == Init /\ [][Next]_vars

\* Workflows drives a started execution on, calls time out, the service
\* answers the requests it has, and time passes.  Nothing is assumed of jobs:
\* one may run on for ever.
Fairness ==
  /\ WF_vars(Tick)
  /\ \A w \in Client : /\ WF_vars(Workflow(w))
                       /\ WF_vars(AtLimit(w))
                       /\ WF_vars(LateAcquire(w))

FairSpec == Spec /\ Fairness

-----------------------------------------------------------------------------
Groups == {"other", "window_refresh_lock", "windowed_transform",
           "windowed_metadata", "windowed_weak_transform", "windowed_weak_qa",
           "qa_after_window", "qa_only", "rebuild"}

\* The variables have the values the workflows can give them; a task that is
\* posted is one of the plan.
TypeOK ==
  /\ holder \in Client \cup {NoOne} /\ left \in Int
  /\ pc \in [Client -> {"idle", "acquire", "post", "task", "beat", "report",
                        "release", "finalize", "error",
                        "succeeded", "failed", "cancelled"}]
  /\ mode \in [Client -> Modes("window") \cup Modes("rebuild")]
  /\ \A w \in Client : mode[w] \in Modes(Kind[w])
  /\ step \in [Client -> Nat \ {0}]
  /\ at \in [Client -> Groups]
  /\ timer \in [Client -> Nat]
  /\ polls \in [Client -> 0 .. MaxPolls]
  /\ {flag, stray, late, lost, touched} \subseteq [Client -> BOOLEAN]
  /\ \A w \in Client : pc[w] \in {"post", "task"} => step[w] <= Len(Plan(mode[w]))

\* The lock does what its heartbeats are placed for: of two executions, at
\* most one is waiting for a task that writes the warehouse, whatever times
\* out, fails, is refused, cancelled or answered too late.
AttachedWritersExclusive ==
  \A v, w \in Client : AttachedWriter(v) /\ AttachedWriter(w) => v = w

\* An execution that ends well was the only one to start writes from its
\* acquire to its release: losing the lease on the way, for instance behind
\* the corporate action chain that has no heartbeat, is found out before the
\* end.
SuccessIsExclusive ==
  \A w \in Client : pc[w] = "succeeded" => ~touched[w]

\* An execution that is over leaves the lock object to expire only if it was
\* cancelled, an answer to one of its lock calls was lost, or it failed at a
\* task whose prefix the error branch of the window refresh leaves out.
LeakHasCause ==
  \A w \in Client :
    Ended(w) /\ holder = w =>
      \/ pc[w] = "cancelled"
      \/ lost[w]
      \/ at[w] \in {"windowed_metadata", "windowed_weak_transform",
                    "windowed_weak_qa"}

\* Every execution that starts comes to an end, though jobs may hang.
EveryRunEnds == \A w \in Client : pc[w] # "idle" ~> Ended(w)

\* Whatever executions leave behind, the lock can be taken again and again.
LockComesBack == []<>(Free \/ Stale)

-----------------------------------------------------------------------------
(* Why AttachedWritersExclusive holds: the strengthening that the proofs in *)
(* WarehouseRefreshProofs show to be inductive.                             *)

\* The execution is at a task of its plan.
Position(w) ==
  /\ pc[w] \in {"idle", "acquire"} => step[w] = 1
  /\ pc[w] = "acquire" => Locking(mode[w])
  /\ pc[w] \in {"beat", "report"} => step[w] <= Len(Plan(mode[w]))
  /\ pc[w] = "report" => mode[w] = "daily_current"

OnTime(w) ==
  IF pc[w] = "task" THEN timer[w] <= TaskLimit[Kind[w]] ELSE timer[w] = 0

\* Whoever is about to post or waits for a writing task has extended its
\* lease since the last task: no writing task follows one without heartbeat.
Covered(w) ==
  pc[w] \in {"post", "task"} /\ Current(w).writes =>
    holder = w /\ left >= Lease[w] - timer[w]

ClientInv(w) == Position(w) /\ OnTime(w) /\ Covered(w)

IInv == TypeOK /\ \A w \in Client : ClientInv(w)

(* Why SuccessIsExclusive and LeakHasCause hold, given IInv: see            *)
(* WarehouseOutcomeProofs.                                                  *)

\* A request to acquire that the caller gave up has failed the caller.
LateIsLost(w) == late[w] => lost[w] /\ pc[w] \in {"error", "failed", "cancelled"}

\* Another execution writes inside the section of w only once w has lost the
\* lock; w cannot get it back and is on its way to fail, or will be.
TouchedHasLost(w) ==
  touched[w] => \/ pc[w] \in {"error", "failed", "cancelled"}
                \/ Inside(w) /\ holder # w

\* The error branch will know that it has to release: the rebuild by its
\* flag, the window refresh by what current_task_id names.
Remembers(w) ==
  IF Kind[w] = "rebuild" THEN flag[w]
  ELSE at[w] \in {"window_refresh_lock", "windowed_transform",
                  "windowed_metadata", "windowed_weak_transform",
                  "windowed_weak_qa", "qa_after_window"}

\* Who holds the lock, and has lost no answer, is inside, or about to run its
\* error branch, or ended in one of the ways that leave the lock behind.
HolderIsKnown(w) ==
  holder = w /\ ~lost[w] =>
    \/ (Inside(w) \/ pc[w] = "error") /\ Remembers(w)
    \/ pc[w] = "cancelled"
    \/ /\ pc[w] = "failed"
       /\ at[w] \in {"windowed_metadata", "windowed_weak_transform",
                     "windowed_weak_qa"}

Outcome(w) == LateIsLost(w) /\ TouchedHasLost(w) /\ HolderIsKnown(w)

Outcomes == \A w \in Client : Outcome(w)

-----------------------------------------------------------------------------
\* No two executions have write jobs running at the same time.
NoConcurrentWriters ==
  \A v, w \in Client : Writing(v) /\ Writing(w) => v = w

\* One execution at a time is on the write path.
OneInside ==
  \A v, w \in Client : Inside(v) /\ Inside(w) => v = w
=============================================================================
