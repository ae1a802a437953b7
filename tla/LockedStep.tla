------------------------------ MODULE LockedStep ------------------------------
(***************************************************************************)
(* One step of a strategy-1 experiment chain run by run_locked_step: the   *)
(* orchestrator takes a GCS lease lock, starts a Cloud Run execution,      *)
(* records it in the lock object, waits for it, and keeps a row of the     *)
(* status table.  A second thread extends the lease; both threads use the  *)
(* lock's _generation, without a mutex.                                    *)
(*                                                                         *)
(* Every orchestrator runs the same step once.  One GCS, BigQuery or Cloud *)
(* Run call is one step of the model; any of them may fail, may have done  *)
(* its work although it failed, and any orchestrator may be killed.        *)
(*                                                                         *)
(* Generation 0 stands for "no object".  Expiry timestamps are countdowns, *)
(* see LeaseLock.                                                          *)
(***************************************************************************)
EXTENDS Integers

CONSTANTS
  Runner,     \* orchestrator processes; also the id of the one execution
              \* each of them may start
  NoOne,
  Resuming,   \* the orchestrators started with --resume
  Lease,      \* ttl_minutes: a lease is over with tick Lease + 1
  MaxGen      \* bound: no heartbeat starts once that many generations exist

ASSUME LockedStepAssumption ==
  /\ NoOne \notin Runner
  /\ Resuming \subseteq Runner
  /\ Lease \in Nat
  /\ MaxGen \in Nat

VARIABLES
  gen, left,  \* the lock object: generation, lease_expires_at,
  owner,      \* lock_owner,
  exec,       \* cloud_run_execution_id
  lastGen,    \* last generation GCS issued
  row,        \* the step's row of the status table
  job,        \* the execution of each orchestrator
  pc,         \* main thread
  my,         \* _generation, shared by both threads; 0 for None
  got,        \* what the main thread read or wrote last of the lock object
  hb,         \* heartbeat thread: the same, and the execution id it read
  stop, abort, \* heartbeat_stop, heartbeat_abort
  fault,      \* history: a GCS call failed, or its answer was lost
  erased      \* history: a heartbeat put back a payload without the id

object == <<gen, left, owner, exec, lastGen>>
events == <<stop, abort>>
hist   == <<fault, erased>>
vars   == <<gen, left, owner, exec, lastGen, row, job, pc, my, got, hb, stop,
            abort, fault, erased>>

Down(n) == IF n < 0 THEN n ELSE n - 1

Thread(p, seen, exp, id) == [pc |-> p, seen |-> seen, exp |-> exp, exec |-> id]
HbAt(p) == Thread(p, 0, -1, NoOne)

Terminal(s) == s \in {"succeeded", "failed", "cancelled"}
Ended(r)    == pc[r] \in {"skipped", "returned", "raised", "killed"}

Init ==
  /\ gen = 0 /\ left = -1 /\ owner = NoOne /\ exec = NoOne /\ lastGen = 0
  /\ row = [status |-> "none", by |-> NoOne]
  /\ job  = [r \in Runner |-> "none"]
  /\ pc   = [r \in Runner |-> "idle"]
  /\ my   = [r \in Runner |-> 0]
  /\ got  = [r \in Runner |-> [seen |-> 0, exp |-> -1]]
  /\ hb   = [r \in Runner |-> HbAt("off")]
  /\ stop  = [r \in Runner |-> FALSE]
  /\ abort = [r \in Runner |-> FALSE]
  /\ fault  = [r \in Runner |-> FALSE]
  /\ erased = [r \in Runner |-> FALSE]

-----------------------------------------------------------------------------
(* Calls.                                                                  *)

Goto(r, p) == pc' = [pc EXCEPT ![r] = p]
Got(r, seen, exp) == got' = [got EXCEPT ![r] = [seen |-> seen, exp |-> exp]]
Forget(r)  == Got(r, 0, -1)

\* The end of run_locked_step, or of the process: what its threads had in
\* memory is gone.
Leave(r, p) ==
  /\ Goto(r, p)
  /\ Forget(r)
  /\ my' = [my EXCEPT ![r] = 0]
  /\ hb' = [hb EXCEPT ![r] = HbAt("off")]
  /\ stop'  = [stop EXCEPT ![r] = FALSE]
  /\ abort' = [abort EXCEPT ![r] = FALSE]
  /\ erased' = [erased EXCEPT ![r] = FALSE]

Write(r, exp, id) ==
  /\ lastGen' = lastGen + 1
  /\ gen' = lastGen'
  /\ left' = exp
  /\ owner' = r
  /\ exec' = id

Delete ==
  /\ gen' = 0 /\ left' = -1 /\ owner' = NoOne /\ exec' = NoOne
  /\ UNCHANGED lastGen

\* if_generation_match = _generation, as it is at the time of the call
Matches(r) == gen # 0 /\ gen = my[r]

Fault(r) == fault' = [fault EXCEPT ![r] = TRUE]

\* The MERGE of OrchestratorStatusTable.upsert; BigQuery may apply it and
\* the call fail all the same.
Row(r, status) == [status |-> status, by |-> r]
Upsert(r, status, next, onError) ==
  \/ row' = Row(r, status) /\ Goto(r, next)
  \/ row' \in {row, Row(r, status)} /\ Goto(r, onError)

\* gcloud executions cancel; a failure is only logged.
CancelExecution(r) ==
  job' \in {job, [job EXCEPT ![r] = IF @ = "running" THEN "cancelled" ELSE @]}

-----------------------------------------------------------------------------
(* run_chain and GcsLeaseLock.acquire.                                     *)

\* With --resume a step whose row says succeeded is skipped; the row is read
\* before the lock is taken.
Begin(r) ==
  /\ pc[r] = "idle"
  /\ \/ Goto(r, IF r \in Resuming /\ row.status = "succeeded"
                  THEN "skipped" ELSE "create")
     \/ r \in Resuming /\ Goto(r, "raised")
  /\ UNCHANGED <<object, row, job, my, got, hb, events, hist>>

\* Create the object if there is none, in at most two attempts.  When the
\* answer is lost, the GCS client repeats the write and is told 412.
Create(r) ==
  /\ pc[r] \in {"create", "recreate"}
  /\ LET refused == IF pc[r] = "create" THEN "probe" ELSE "busy"
     IN \/ /\ gen = 0
           /\ Write(r, Lease, NoOne)
           /\ Got(r, gen', -1)
           /\ \/ Goto(r, "created") /\ UNCHANGED fault
              \/ pc' \in {[pc EXCEPT ![r] = refused], [pc EXCEPT ![r] = "busy"]}
                 /\ Fault(r)
        \/ /\ gen # 0 /\ Goto(r, refused)
           /\ UNCHANGED <<object, got, fault>>
        \/ /\ Goto(r, "busy") /\ Fault(r)
           /\ UNCHANGED <<object, got>>
  /\ UNCHANGED <<row, job, my, hb, events, erased>>

\* reload() asks for the generation just written.
Created(r) ==
  /\ pc[r] = "created"
  /\ \/ /\ gen = got[r].seen
        /\ my' = [my EXCEPT ![r] = gen]
        /\ Goto(r, "first_row")
        /\ UNCHANGED fault
     \/ gen # got[r].seen /\ Goto(r, "busy") /\ UNCHANGED <<my, fault>>
     \/ Goto(r, "busy") /\ Fault(r) /\ UNCHANGED my
  /\ Forget(r)
  /\ UNCHANGED <<object, row, job, hb, events, erased>>

\* Mutant: the expiry alone decides.
ProbeExpiryOnly(r) ==
  /\ pc[r] = "probe"
  /\ \/ /\ gen # 0 /\ left < 0
        /\ Got(r, gen, -1)
        /\ Goto(r, "reclaim")
     \/ Goto(r, "busy") /\ UNCHANGED got
  /\ UNCHANGED <<object, row, job, my, hb, events, hist>>

\* _reclaim_if_stale: the lease has run out and the execution the object
\* names, if any, is known to be over.
Probe(r) ==
  /\ pc[r] = "probe"
  /\ \/ /\ gen # 0 /\ left < 0
        /\ exec # NoOne => Terminal(job[exec])
        /\ Got(r, gen, -1)
        /\ Goto(r, "reclaim")
     \/ Goto(r, "busy") /\ UNCHANGED got
  /\ UNCHANGED <<object, row, job, my, hb, events, hist>>

Reclaim(r) ==
  /\ pc[r] = "reclaim"
  /\ \/ /\ gen = got[r].seen
        /\ Delete
        /\ Goto(r, "recreate")
     \/ Goto(r, "busy") /\ UNCHANGED object
  /\ Forget(r)
  /\ UNCHANGED <<row, job, my, hb, events, hist>>

\* The lock is not to be had: the row becomes "cancelled", whoever wrote it.
Busy(r) ==
  /\ pc[r] = "busy"
  /\ Upsert(r, "cancelled", "raised", "raised")
  /\ UNCHANGED <<object, job, my, got, hb, events, hist>>

-----------------------------------------------------------------------------
(* The main thread of run_locked_step, with the lock.                      *)

FirstRow(r) ==
  /\ pc[r] = "first_row"
  /\ Upsert(r, "running", "submit", "failing")
  /\ hb' = [hb EXCEPT ![r] = IF pc'[r] = "submit" THEN HbAt("wait") ELSE @]
  /\ UNCHANGED <<object, job, my, got, events, hist>>

\* gcloud run jobs execute: it may start the execution and fail, or print no
\* execution id.
Submit(r) ==
  /\ pc[r] = "submit"
  /\ \/ job' = [job EXCEPT ![r] = "running"] /\ Goto(r, "rec_read")
     \/ job' \in {job, [job EXCEPT ![r] = "running"]} /\ Goto(r, "failing")
  /\ UNCHANGED <<object, row, my, got, hb, events, hist>>

\* record_execution downloads the payload, ...
RecordRead(r) ==
  /\ pc[r] = "rec_read"
  /\ \/ Matches(r) /\ Got(r, 0, left) /\ Goto(r, "rec_write")
     \/ Goto(r, "disown") /\ UNCHANGED got
  /\ UNCHANGED <<object, row, job, my, hb, events, hist>>

\* ... uploads it with the id added ...
RecordWrite(r) ==
  /\ pc[r] = "rec_write"
  /\ \/ /\ Matches(r)
        /\ Write(owner, got[r].exp, r)
        /\ \/ Got(r, gen', -1) /\ Goto(r, "rec_reload") /\ UNCHANGED fault
           \/ Forget(r) /\ Goto(r, "disown") /\ Fault(r)
     \/ /\ ~Matches(r) /\ Goto(r, "disown") /\ Forget(r)
        /\ UNCHANGED <<object, fault>>
     \/ /\ Goto(r, "disown") /\ Forget(r) /\ Fault(r)
        /\ UNCHANGED object
  /\ UNCHANGED <<row, job, my, hb, events, erased>>

\* ... and remembers the new generation.
RecordReload(r) ==
  /\ pc[r] = "rec_reload"
  /\ \/ /\ gen = got[r].seen
        /\ my' = [my EXCEPT ![r] = gen]
        /\ Goto(r, "job_row")
        /\ UNCHANGED fault
     \/ gen # got[r].seen /\ Goto(r, "disown") /\ UNCHANGED <<my, fault>>
     \/ Goto(r, "disown") /\ Fault(r) /\ UNCHANGED my
  /\ Forget(r)
  /\ UNCHANGED <<object, row, job, hb, events, erased>>

\* The execution is not recorded: cancel it.
Disown(r) ==
  /\ pc[r] = "disown"
  /\ CancelExecution(r)
  /\ Goto(r, "failing")
  /\ UNCHANGED <<object, row, my, got, hb, events, hist>>

JobRow(r) ==
  /\ pc[r] = "job_row"
  /\ Upsert(r, "running", "wait", "failing")
  /\ UNCHANGED <<object, job, my, got, hb, events, hist>>

\* wait_for_cloud_run_execution: the heartbeat thread lost the lock, or the
\* execution is over.
Wait(r) ==
  /\ pc[r] = "wait"
  /\ \/ abort[r] /\ CancelExecution(r) /\ Goto(r, "failing")
     \/ /\ Terminal(job[r])
        /\ Goto(r, IF job[r] = "succeeded" THEN "succeeding" ELSE "failing")
        /\ UNCHANGED job
  /\ UNCHANGED <<object, row, my, got, hb, events, hist>>

\* Its state could not be had five times in a row.
StopWaiting(r) ==
  /\ pc[r] = "wait"
  /\ Goto(r, "failing")
  /\ UNCHANGED <<object, row, job, my, got, hb, events, hist>>

\* stop_heartbeat: set the event, ...
StopHeartbeat(r) ==
  /\ pc[r] \in {"failing", "succeeding"} /\ ~stop[r]
  /\ stop' = [stop EXCEPT ![r] = TRUE]
  /\ UNCHANGED <<object, row, job, pc, my, got, hb, abort, hist>>

\* Mutant: the event is set, the thread is not joined.
LastRowNoJoin(r) ==
  /\ pc[r] \in {"failing", "succeeding"} /\ stop[r]
  /\ \/ pc[r] = "succeeding" /\ Upsert(r, "succeeded", "releasing", "failing")
     \/ pc[r] = "failing" /\ Upsert(r, "failed", "giving_up", "giving_up")
  /\ UNCHANGED <<object, job, my, got, hb, events, hist>>

\* ... join the thread, and only then write the last row.
LastRow(r) ==
  /\ pc[r] \in {"failing", "succeeding"} /\ stop[r] /\ hb[r].pc = "off"
  /\ \/ pc[r] = "succeeding" /\ Upsert(r, "succeeded", "releasing", "failing")
     \/ pc[r] = "failing" /\ Upsert(r, "failed", "giving_up", "giving_up")
  /\ UNCHANGED <<object, job, my, got, hb, events, hist>>

\* release: delete the object at the generation remembered; an error is only
\* logged.
Release(r) ==
  /\ pc[r] \in {"releasing", "giving_up"}
  /\ Leave(r, IF pc[r] = "releasing" THEN "returned" ELSE "raised")
  /\ \/ Matches(r) /\ Delete /\ UNCHANGED fault
     \/ ~Matches(r) /\ UNCHANGED <<object, fault>>
     \/ UNCHANGED object /\ Fault(r)
  /\ UNCHANGED <<row, job>>

-----------------------------------------------------------------------------
(* _heartbeat_loop and GcsLeaseLock.heartbeat.                             *)

Hb(r, thread) == hb' = [hb EXCEPT ![r] = thread]

\* A 412 or 404 counts as lost ownership.
LoseLock(r) ==
  /\ abort' = [abort EXCEPT ![r] = TRUE]
  /\ Hb(r, HbAt("off"))

\* Mutant: the loop does not look at the event.
HbWakeDeaf(r) ==
  /\ hb[r].pc = "wait"
  /\ lastGen < MaxGen /\ Hb(r, HbAt("read"))
  /\ UNCHANGED <<object, row, job, pc, my, got, events, hist>>

HbWake(r) ==
  /\ hb[r].pc = "wait"
  /\ \/ stop[r] /\ Hb(r, HbAt("off"))
     \/ ~stop[r] /\ lastGen < MaxGen /\ Hb(r, HbAt("read"))
  /\ UNCHANGED <<object, row, job, pc, my, got, events, hist>>

\* Any other error leaves the loop going.
HbRead(r) ==
  /\ hb[r].pc = "read"
  /\ \/ Matches(r) /\ Hb(r, Thread("write", 0, Lease, exec)) /\ UNCHANGED abort
     \/ ~Matches(r) /\ LoseLock(r)
     \/ Hb(r, HbAt("note")) /\ UNCHANGED abort
  /\ UNCHANGED <<object, row, job, pc, my, got, stop, hist>>

\* The payload read goes back with a new expiry.
HbWrite(r) ==
  /\ hb[r].pc = "write"
  /\ \/ /\ Matches(r)
        /\ Write(owner, hb[r].exp, hb[r].exec)
        /\ erased' = [erased EXCEPT ![r] = @ \/ hb[r].exec # exec]
        /\ \/ Hb(r, Thread("reload", gen', -1, NoOne)) /\ UNCHANGED <<abort, fault>>
           \/ LoseLock(r) /\ Fault(r)
           \/ Hb(r, HbAt("note")) /\ Fault(r) /\ UNCHANGED abort
     \/ ~Matches(r) /\ LoseLock(r) /\ UNCHANGED <<object, fault, erased>>
     \/ Hb(r, HbAt("note")) /\ UNCHANGED <<object, abort, fault, erased>>
  /\ UNCHANGED <<row, job, pc, my, got, stop>>

HbReload(r) ==
  /\ hb[r].pc = "reload"
  /\ \/ /\ gen = hb[r].seen
        /\ my' = [my EXCEPT ![r] = gen]
        /\ Hb(r, HbAt("note"))
        /\ UNCHANGED <<abort, fault>>
     \/ gen # hb[r].seen /\ LoseLock(r) /\ UNCHANGED <<my, fault>>
     \/ Hb(r, HbAt("note")) /\ Fault(r) /\ UNCHANGED <<my, abort>>
  /\ UNCHANGED <<object, row, job, pc, got, stop, erased>>

HbNote(r) ==
  /\ hb[r].pc = "note"
  /\ row' \in {row, Row(r, "running")}
  /\ Hb(r, HbAt("wait"))
  /\ UNCHANGED <<object, job, pc, my, got, events, hist>>

-----------------------------------------------------------------------------
(* The environment.                                                        *)

\* The task timeout of the Cloud Run job ends an execution at the latest.
JobEnds(r) ==
  /\ job[r] = "running"
  /\ \E s \in {"succeeded", "failed"} : job' = [job EXCEPT ![r] = s]
  /\ UNCHANGED <<object, row, pc, my, got, hb, events, hist>>

\* The process is killed, with both its threads; its execution goes on.
Kill(r) ==
  /\ pc[r] # "idle" /\ ~Ended(r)
  /\ Leave(r, "killed")
  /\ UNCHANGED <<object, row, job, fault>>

Tick ==
  /\ left' = Down(left)
  /\ got' = [r \in Runner |-> [got[r] EXCEPT !.exp = Down(@)]]
  /\ hb' = [r \in Runner |-> [hb[r] EXCEPT !.exp = Down(@)]]
  /\ UNCHANGED <<gen, owner, exec, lastGen, row, job, pc, my, events, hist>>

Main(r) ==
  \/ Begin(r) \/ Create(r) \/ Created(r) \/ Probe(r) \/ Reclaim(r) \/ Busy(r)
  \/ FirstRow(r) \/ Submit(r)
  \/ RecordRead(r) \/ RecordWrite(r) \/ RecordReload(r) \/ Disown(r)
  \/ JobRow(r) \/ Wait(r) \/ StopHeartbeat(r) \/ LastRow(r) \/ Release(r)

Heartbeat(r) ==
  HbWake(r) \/ HbRead(r) \/ HbWrite(r) \/ HbReload(r) \/ HbNote(r)

Next ==
  \/ Tick
  \/ \E r \in Runner : \/ Main(r) \/ Heartbeat(r) \/ StopWaiting(r)
                       \/ JobEnds(r) \/ Kill(r)

Spec == Init /\ [][Next]_vars

\* Both threads are scheduled and their calls return; executions end.
Fairness ==
  \A r \in Runner : /\ WF_vars(Main(r))
                    /\ WF_vars(Heartbeat(r))
                    /\ WF_vars(JobEnds(r))

FairSpec == Spec /\ Fairness

-----------------------------------------------------------------------------

Before == {"idle", "create", "recreate", "created", "probe", "reclaim", "busy",
           "skipped"}
MainPcs == Before \cup
           {"first_row", "submit", "rec_read", "rec_write", "rec_reload", "disown",
            "job_row", "wait", "failing", "succeeding", "releasing", "giving_up",
            "returned", "raised", "killed"}
Statuses == {"none", "running", "succeeded", "failed", "cancelled"}
Rows     == [status : Statuses, by : Runner \cup {NoOne}]
Reads    == [seen : Nat, exp : Int]
Threads  == [pc : {"off", "wait", "read", "write", "reload", "note"},
             seen : Nat, exp : Int, exec : Runner \cup {NoOne}]

\* The variables have the values the code can give them.
TypeOK ==
  /\ gen \in Nat /\ lastGen \in Nat /\ left \in Int
  /\ owner \in Runner \cup {NoOne} /\ exec \in Runner \cup {NoOne}
  /\ row \in Rows
  /\ job \in [Runner -> Statuses]
  /\ pc \in [Runner -> MainPcs]
  /\ my \in [Runner -> Nat]
  /\ got \in [Runner -> Reads]
  /\ hb \in [Runner -> Threads]
  /\ stop \in [Runner -> BOOLEAN] /\ abort \in [Runner -> BOOLEAN]
  /\ fault \in [Runner -> BOOLEAN] /\ erased \in [Runner -> BOOLEAN]

OwnedBy(r) == gen # 0 /\ owner = r

\* The orchestrator waits for an execution that is running, and its id was
\* not erased from the lock object.
Protected(r) ==
  pc[r] \in {"job_row", "wait"} /\ job[r] = "running" /\ ~erased[r]

\* As long as the recorded id stays in the lock object, nobody takes the lock
\* from an orchestrator whose execution is running, not even after its lease
\* has run out: so no two such executions write the same run.
ProtectedKeepsLock ==
  \A r \in Runner : Protected(r) => OwnedBy(r) /\ exec = r

\* An orchestrator that returns or raises leaves no lock object of its own
\* behind, unless one of its GCS calls failed.  (release() uses the
\* generation that the last of the two threads has remembered.)
LeavesNoLock ==
  \A r \in Runner :
    pc[r] \in {"returned", "raised"} /\ OwnedBy(r) => fault[r]

\* The heartbeat thread does not write "running" over the last row of its own
\* orchestrator.
LastRowStays ==
  [][row.status \in {"succeeded", "failed", "cancelled"} /\ row'.by = row.by
       => row'.status # "running"]_vars

\* Every orchestrator that is not killed comes to an end: the join of the
\* heartbeat thread in particular.
EveryStepEnds == \A r \in Runner : pc[r] # "idle" ~> Ended(r)

\* An execution id, once recorded, stays in the lock object while its
\* orchestrator waits for it and owns the object.
RecordedIdStays ==
  \A r \in Runner : pc[r] = "wait" /\ OwnedBy(r) => exec = r

\* No two executions of the step run at once.
NoTwoExecutions ==
  \A q, r \in Runner : job[q] = "running" /\ job[r] = "running" => q = r

\* With --resume a step that somebody has completed is not run again.
ResumeSkipsSucceeded ==
  [][\A r \in Resuming :
       row.status = "succeeded" /\ row.by # r => row'.by # r]_vars

-----------------------------------------------------------------------------
(* The inductive invariant: what each of the two threads knows of the lock  *)
(* object.                                                                  *)

GenerationsIssued(r) ==
  my[r] <= lastGen /\ got[r].seen <= lastGen /\ hb[r].seen <= lastGen

\* A generation somebody wrote, and has not seen replaced, is his own.
GenerationsOwn(r) ==
  gen # 0 =>
    /\ my[r] = gen => owner = r
    /\ pc[r] \in {"created", "rec_reload"} /\ got[r].seen = gen => owner = r
    /\ hb[r].pc = "reload" /\ hb[r].seen = gen => owner = r

\* What has not happened yet, and what is over.
NotYet(r) ==
  /\ pc[r] \in Before => my[r] = 0
  /\ pc[r] \in Before \cup {"first_row"} => hb[r].pc = "off"
  /\ pc[r] \in Before \cup {"first_row", "submit"} => job[r] = "none"

\* Between the look at a stale lock and its delete.
ReclaimIsSafe(r) ==
  pc[r] = "reclaim" /\ gen # 0 /\ got[r].seen = gen /\ exec # NoOne
    => Terminal(job[exec])

\* Between the upload of the execution id and the reload: the heartbeat thread
\* cannot write, as it goes by the older generation.
RecordPending(r) ==
  pc[r] = "rec_reload" =>
    /\ got[r].seen # 0 /\ my[r] # got[r].seen /\ hb[r].seen # got[r].seen
    /\ got[r].seen = gen => exec = r

\* One of the threads remembers, or is about to remember, the generation of
\* an object of this orchestrator.
Remembered(r) ==
  OwnedBy(r) /\ ~fault[r] =>
    \/ pc[r] = "killed"
    \/ my[r] = gen
    \/ pc[r] \in {"created", "rec_reload"} /\ got[r].seen = gen
    \/ hb[r].pc = "reload" /\ hb[r].seen = gen

\* After the last row neither thread has one to write.
RowIsLast(r) ==
  row.by = r /\ row.status \in {"succeeded", "failed", "cancelled"} =>
    /\ pc[r] \in {"failing", "releasing", "giving_up", "returned", "raised", "killed"}
    /\ hb[r].pc = "off"

RunnerInv(r) ==
  /\ GenerationsIssued(r) /\ GenerationsOwn(r) /\ NotYet(r) /\ ReclaimIsSafe(r)
  /\ RecordPending(r) /\ Remembered(r) /\ RowIsLast(r)
  /\ Protected(r) => OwnedBy(r) /\ exec = r
  /\ pc[r] \in {"returned", "raised"} /\ OwnedBy(r) => fault[r]
  /\ pc[r] \in {"releasing", "giving_up", "returned", "raised", "killed"} => hb[r].pc = "off"

IInv ==
  /\ TypeOK
  /\ gen <= lastGen
  /\ row.status \in {"succeeded", "failed", "cancelled"} => row.by # NoOne
  /\ \A r \in Runner : RunnerInv(r)
=============================================================================
