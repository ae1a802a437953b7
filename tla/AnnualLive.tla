------------------------------ MODULE AnnualLive ------------------------------
(***************************************************************************)
(* execute_candidate_only_live_smoke of the annual pipeline scheduler:     *)
(* under a scheduler lease it goes through its units one by one, submits a *)
(* Cloud Run execution for each that needs one, waits for it and keeps the *)
(* outcome in a GCS state object, from which a later run recovers.         *)
(*                                                                         *)
(* The lease is never reclaimed: when a scheduler dies an operator removes *)
(* the lock object by hand.  So at most one scheduler is at work, and the  *)
(* reads and conditional writes of the state object are single steps here; *)
(* what is left is that schedulers die, and calls fail, between the steps. *)
(***************************************************************************)
EXTENDS Integers, Sequences, FiniteSets

CONSTANTS
  Scheduler,  \* runs of the scheduler, one after the other
  NoOne,
  Unit,
  Units,      \* the units each run goes through, in order: --smoke-years
              \* and --smoke-candidates-per-year select them
  Fanout,     \* executions the resource limits admit at a time
  MaxPolls    \* --max-live-poll-attempts

ASSUME AnnualLiveAssumption ==
  /\ NoOne \notin Scheduler
  /\ Units \in [Scheduler -> Seq(Unit)]
  /\ Fanout \in Nat
  /\ MaxPolls \in Nat

VARIABLES
  lock,       \* owner of the scheduler lock object, NoOne without one
  state,      \* the state object: the record of each unit, exec = 0 for none
  execs,      \* every execution there ever was; its index is its id
  matrix,     \* units whose matrix_manifest.json and work_units.json exist
  complete,   \* units whose candidates all have their artifacts
  pc,
  at,         \* index of the unit at hand
  current,    \* execution_id at hand
  polls,
  saw         \* last_state is "succeeded"

cloud == <<execs, matrix, complete>>
local == <<pc, at, current, polls, saw>>
vars  == <<lock, state, execs, matrix, complete, pc, at, current, polls, saw>>

Ended(s) == pc[s] \in {"refused", "raised", "done", "killed"}

TheUnit(s)   == Units[s][at[s]]
TheRecord(s) == state[TheUnit(s)]

Record(status, e) == [status |-> status, exec |-> e]
Absent == Record("absent", 0)

Started(u) == {e \in DOMAIN execs : execs[e].unit = u}
Running(u) == {e \in Started(u) : execs[e].status = "running"}

Init ==
  /\ lock = NoOne
  /\ state = [u \in Unit |-> Absent]
  /\ execs = << >>
  /\ matrix \in SUBSET Unit
  /\ complete = {}
  /\ pc = [s \in Scheduler |-> "idle"]
  /\ at = [s \in Scheduler |-> 1]
  /\ current = [s \in Scheduler |-> 0]
  /\ polls = [s \in Scheduler |-> 0]
  /\ saw = [s \in Scheduler |-> FALSE]

Goto(s, p) == pc' = [pc EXCEPT ![s] = p]

\* On to the next unit.
NextUnit(s) ==
  /\ Goto(s, "unit")
  /\ at' = [at EXCEPT ![s] = @ + 1]
  /\ current' = [current EXCEPT ![s] = 0]
  /\ polls' = [polls EXCEPT ![s] = 0]
  /\ saw' = [saw EXCEPT ![s] = FALSE]

\* The process is over, with what it had in memory.
Leave(s, p) ==
  /\ Goto(s, p)
  /\ at' = [at EXCEPT ![s] = 1]
  /\ current' = [current EXCEPT ![s] = 0]
  /\ polls' = [polls EXCEPT ![s] = 0]
  /\ saw' = [saw EXCEPT ![s] = FALSE]

\* Any exception goes through the finally clause.
Raise(s) == Goto(s, "raising") /\ UNCHANGED <<at, current, polls, saw>>

\* update_live_unit_state: read, patch the record, write on condition of the
\* generation read; a record keeps the execution_id a patch does not set.
Update(s, status, e) ==
  state' = [state EXCEPT ![TheUnit(s)] =
              Record(status, IF e = 0 THEN @.exec ELSE e)]

\* The write raises, before or after it took effect.
UpdateFails(s, status, e) ==
  /\ Update(s, status, e) \/ UNCHANGED state
  /\ Raise(s)

UpdateAndGoOn(s, status) ==
  \/ Update(s, status, 0) /\ NextUnit(s)
  \/ UpdateFails(s, status, 0)

-----------------------------------------------------------------------------
\* GcsSchedulerLease.acquire: create the object or be refused; with a lost
\* answer, be refused by one's own object.
Acquire(s) ==
  /\ pc[s] = "idle"
  /\ \/ lock = NoOne /\ lock' = s /\ Goto(s, "ensure")
     \/ lock = NoOne /\ lock' = s /\ Goto(s, "refused")
     \/ Goto(s, "refused") /\ UNCHANGED lock
  /\ UNCHANGED <<state, cloud, at, current, polls, saw>>

\* Mutant: the seeds are written over what is there.
EnsureStateAnew(s) ==
  /\ pc[s] = "ensure"
  /\ state' = [u \in Unit |->
                 IF u \in {Units[s][i] : i \in DOMAIN Units[s]}
                   THEN Record("planned", 0) ELSE state[u]]
  /\ Goto(s, "unit")
  /\ UNCHANGED <<lock, cloud, at, current, polls, saw>>

\* ensure_live_state: create the state, or add the units it does not have.
EnsureState(s) ==
  /\ pc[s] = "ensure"
  /\ \/ /\ state' = [u \in Unit |->
                       IF /\ state[u] = Absent
                          /\ u \in {Units[s][i] : i \in DOMAIN Units[s]}
                         THEN Record("planned", 0) ELSE state[u]]
        /\ Goto(s, "unit")
     \/ Goto(s, "raising") /\ UNCHANGED state
  /\ UNCHANGED <<lock, cloud, at, current, polls, saw>>

\* The loop over the units, with the heartbeat before each of them.
Loop(s) ==
  /\ pc[s] = "unit"
  /\ \/ at[s] > Len(Units[s]) /\ Goto(s, "finishing")
     \/ at[s] <= Len(Units[s]) /\ lock = s /\ Goto(s, "process")
  /\ UNCHANGED <<lock, state, cloud, at, current, polls, saw>>

\* process_live_unit: a unit that is over is left alone, an execution on
\* record is waited for, whatever its status says.
Recover(s) ==
  /\ pc[s] = "process"
  /\ \/ /\ TheRecord(s).status \in {"succeeded", "skipped"}
        /\ NextUnit(s)
     \/ /\ TheRecord(s).status \notin {"succeeded", "skipped"}
        /\ TheRecord(s).exec # 0
        /\ current' = [current EXCEPT ![s] = TheRecord(s).exec]
        /\ Goto(s, "poll")
        /\ UNCHANGED <<at, polls, saw>>
     \/ /\ TheRecord(s).status \notin {"succeeded", "skipped"}
        /\ TheRecord(s).exec = 0
        /\ Goto(s, "check")
        /\ UNCHANGED <<at, current, polls, saw>>
  /\ UNCHANGED <<lock, state, cloud>>

RunningRecords == {u \in Unit : state[u].status = "running"}

\* can_admit_live_execution
Admits == Cardinality(RunningRecords) + 1 <= Fanout

\* Before a submit: matrix, artifacts, admission.  A unit that is not
\* admitted stays as it is, and the run goes on without it.
Check(s) ==
  /\ pc[s] = "check"
  /\ \/ TheUnit(s) \notin matrix /\ UpdateAndGoOn(s, "failed")
     \/ /\ TheUnit(s) \in matrix \cap complete
        /\ UpdateAndGoOn(s, "skipped")
     \/ /\ TheUnit(s) \in matrix \ complete /\ ~Admits
        /\ NextUnit(s)
        /\ UNCHANGED state
     \/ /\ TheUnit(s) \in matrix \ complete /\ Admits
        /\ Goto(s, "submit")
        /\ UNCHANGED <<state, at, current, polls, saw>>
  /\ UNCHANGED <<lock, cloud>>

\* gcloud run jobs execute: with an id the unit goes on, without one it has
\* failed, also if the execution was started.
Submit(s) ==
  /\ pc[s] = "submit"
  /\ LET started == Append(execs, [unit |-> TheUnit(s), status |-> "running"])
     IN \/ /\ execs' = started
           /\ current' = [current EXCEPT ![s] = Len(started)]
           /\ Goto(s, "record")
           /\ UNCHANGED <<state, at, polls, saw>>
        \/ execs' \in {execs, started} /\ UpdateAndGoOn(s, "failed")
  /\ UNCHANGED <<lock, matrix, complete>>

RecordExecution(s) ==
  /\ pc[s] = "record"
  /\ \/ /\ Update(s, "running", current[s])
        /\ Goto(s, "poll")
        /\ UNCHANGED <<at, current, polls, saw>>
     \/ UpdateFails(s, "running", current[s])
  /\ UNCHANGED <<lock, cloud>>

\* Mutant: success of the execution is enough.
ConfirmedByExecution(s) == execs[current[s]].status = "succeeded"

\* The execution has succeeded and the artifacts are there.
Confirmed(s) ==
  execs[current[s]].status = "succeeded" /\ TheUnit(s) \in complete

AttemptsLeft(s) == polls[s] < MaxPolls

\* Mutant: the attempts are not counted.
UncountedAttempt(s) == UNCHANGED polls

CountAttempt(s) == polls' = [polls EXCEPT ![s] = @ + 1]

\* The execution did not say anything final, or the describe failed.
Inconclusive(s) ==
  LET status == execs[current[s]].status
  IN saw' \in {[saw EXCEPT ![s] = v] :
       v \in {FALSE, status = "succeeded" /\ TheUnit(s) \notin complete}}

\* wait_for_live_execution_confirmation: heartbeat, describe, look at the
\* artifacts.  After the last attempt the artifacts are looked at once more,
\* but not the execution.
Poll(s) ==
  /\ pc[s] = "poll"
  /\ \/ /\ AttemptsLeft(s) /\ lock = s
        /\ \/ Confirmed(s) /\ UpdateAndGoOn(s, "succeeded")
           \/ /\ execs[current[s]].status = "failed"
              /\ UpdateAndGoOn(s, "failed")
           \/ /\ CountAttempt(s) /\ Inconclusive(s)
              /\ UNCHANGED <<state, pc, at, current>>
     \/ /\ ~AttemptsLeft(s)
        /\ UpdateAndGoOn(s, IF saw[s] /\ TheUnit(s) \in complete
                             THEN "succeeded" ELSE "failed")
  /\ UNCHANGED <<lock, cloud>>

\* The heartbeat before a unit or an attempt finds the lease gone, or one of
\* the calls that change nothing raises.
Interrupted(s) ==
  /\ \/ pc[s] = "unit" /\ at[s] <= Len(Units[s])
     \/ pc[s] \in {"process", "check", "submit", "poll"}
  /\ Raise(s)
  /\ UNCHANGED <<lock, state, cloud>>

\* The finally clause; an error of the delete is ignored.
Finish(s) ==
  /\ pc[s] \in {"finishing", "raising"}
  /\ Leave(s, IF pc[s] = "finishing" THEN "done" ELSE "raised")
  /\ lock' \in {lock, IF lock = s THEN NoOne ELSE lock}
  /\ UNCHANGED <<state, cloud>>

-----------------------------------------------------------------------------
(* The environment.                                                        *)

Kill(s) ==
  /\ pc[s] # "idle" /\ ~Ended(s)
  /\ Leave(s, "killed")
  /\ UNCHANGED <<lock, state, cloud>>

\* An operator removes the lock of a run that is over.
RemoveLock ==
  /\ lock # NoOne /\ Ended(lock)
  /\ lock' = NoOne
  /\ UNCHANGED <<state, cloud, local>>

\* A running execution writes the last artifact of its unit.
WriteArtifacts(e) ==
  /\ execs[e].status = "running"
  /\ complete' = complete \cup {execs[e].unit}
  /\ UNCHANGED <<lock, state, execs, matrix, local>>

\* An execution ends, well or (failed, cancelled) not.
ExecutionEnds(e) ==
  /\ execs[e].status = "running"
  /\ \E status \in {"succeeded", "failed"} :
       execs' = [execs EXCEPT ![e].status = status]
  /\ UNCHANGED <<lock, state, matrix, complete, local>>

Run(s) ==
  \/ Acquire(s) \/ EnsureState(s) \/ Loop(s) \/ Recover(s) \/ Check(s)
  \/ Submit(s) \/ RecordExecution(s) \/ Poll(s) \/ Finish(s)

Next ==
  \/ \E s \in Scheduler : Run(s) \/ Interrupted(s) \/ Kill(s)
  \/ RemoveLock
  \/ \E e \in DOMAIN execs : WriteArtifacts(e) \/ ExecutionEnds(e)

Spec == Init /\ [][Next]_vars

\* A scheduler that runs goes on; nothing is assumed of executions.
FairSpec == Spec /\ \A s \in Scheduler : WF_vars(Run(s))

-----------------------------------------------------------------------------

Working(s) ==
  pc[s] \in {"ensure", "unit", "process", "check", "submit", "record", "poll",
            "finishing", "raising"}
AtUnit(s) == pc[s] \in {"process", "check", "submit", "record", "poll"}

Pcs ==
  {"idle", "refused", "ensure", "unit", "process", "check", "submit", "record",
   "poll", "finishing", "raising", "done", "raised", "killed"}
Records ==
  [status : {"absent", "planned", "running", "succeeded", "skipped", "failed"},
   exec : Nat]
Executions == [unit : Unit, status : {"running", "succeeded", "failed"}]

\* The variables have the values the code can give them.
TypeOK ==
  /\ lock \in Scheduler \cup {NoOne}
  /\ state \in [Unit -> Records]
  /\ execs \in Seq(Executions)
  /\ matrix \subseteq Unit /\ complete \subseteq Unit
  /\ pc \in [Scheduler -> Pcs]
  /\ at \in [Scheduler -> Nat \ {0}]
  /\ current \in [Scheduler -> Nat]
  /\ polls \in [Scheduler -> Nat]
  /\ saw \in [Scheduler -> BOOLEAN]

\* The state object tells the truth: a unit on record as succeeded has an
\* execution of its own that succeeded and all its artifacts, a skipped one
\* has its artifacts, a running one names its execution.
RecordsAreTrue ==
  \A u \in Unit :
    LET r == state[u]
    IN /\ r.exec # 0 => execs[r.exec].unit = u
       /\ r.status \in {"succeeded", "skipped"} => u \in complete
       /\ r.status = "succeeded" => execs[r.exec].status = "succeeded"
       /\ r.status = "running" => r.exec # 0

\* Once an execution of a unit is on record it stays there, and no later run
\* of the scheduler submits the unit again, nor one that was found complete.
RecordedIsNotResubmitted ==
  [][\A u \in Unit :
       /\ state[u].exec # 0 => state'[u].exec = state[u].exec
       /\ /\ Len(execs') > Len(execs)
          /\ state[u].exec # 0 \/ state[u].status \in {"succeeded", "skipped"}
          => execs'[Len(execs')].unit # u]_vars

\* Every run that starts, and is not refused or killed, goes through its
\* units and ends, though its executions may hang.
EveryRunEnds == \A s \in Scheduler : pc[s] # "idle" ~> Ended(s)

\* A restarted scheduler does not submit what is running already.
NoDuplicateExecution == \A u \in Unit : Cardinality(Running(u)) <= 1

-----------------------------------------------------------------------------
(* The inductive invariant.                                                *)

\* What the state object says of a unit.
RecordIsTrue(u) ==
  LET r == state[u]
  IN /\ r.exec # 0 => r.exec \in DOMAIN execs /\ execs[r.exec].unit = u
     /\ r.status \in {"succeeded", "skipped"} => u \in complete
     /\ r.status = "succeeded" => r.exec # 0 /\ execs[r.exec].status = "succeeded"
     /\ r.status = "running" => r.exec # 0

\* A unit on its way to a submit has no execution on record and is not over.
ToSubmit(s) ==
  pc[s] \in {"check", "submit", "record"} =>
    TheRecord(s).exec = 0 /\ TheRecord(s).status \notin {"succeeded", "skipped"}

\* The execution at hand is one of the unit at hand, and on record once it is
\* waited for; "succeeded" is final for an execution.
AtHand(s) ==
  /\ pc[s] \in {"record", "poll"} =>
       current[s] \in DOMAIN execs /\ execs[current[s]].unit = TheUnit(s)
  /\ pc[s] = "poll" => TheRecord(s).exec = current[s]
  /\ saw[s] => pc[s] \in {"poll", "raising"}
  /\ pc[s] = "poll" /\ saw[s] => execs[current[s]].status = "succeeded"

SchedulerInv(s) ==
  /\ Working(s) => lock = s
  /\ AtUnit(s) => at[s] \in DOMAIN Units[s]
  /\ ToSubmit(s)
  /\ AtHand(s)

IInv ==
  /\ TypeOK
  /\ \A u \in Unit : RecordIsTrue(u)
  /\ \A s \in Scheduler : SchedulerInv(s)
=============================================================================
