------------------------- MODULE AnnualSchedulerProofs -------------------------
(***************************************************************************)
(* The two modes of the annual scheduler, one after the other.             *)
(*                                                                         *)
(* The live smoke, for every number of schedulers, whatever units they go  *)
(* through and whatever the limits are, keeps IInv, so its state object    *)
(* tells the truth and a unit on record is not submitted again.  A step    *)
(* belongs to one scheduler or to the environment.  The state object is    *)
(* changed by the owner of the scheduler lease alone (SharedStep),         *)
(* executions keep their unit and their success (ExecsGrow).               *)
(*                                                                         *)
(* The planner of the dry run, for every range of years, every grid and    *)
(* whatever the limits and tokens are, keeps PlanningInv, so a wave stays  *)
(* within the limits and planning ends the way it says.                    *)
(***************************************************************************)
EXTENDS AnnualLive, AnnualWaves, SequenceTheorems, FiniteSetTheorems, TLAPS

LocalTypes ==
  /\ pc' \in [Scheduler -> Pcs] /\ at' \in [Scheduler -> Nat \ {0}]
  /\ current' \in [Scheduler -> Nat] /\ polls' \in [Scheduler -> Nat]
  /\ saw' \in [Scheduler -> BOOLEAN]

Untouched(s) ==
  \A d \in Scheduler \ {s} :
    /\ pc'[d] = pc[d] /\ at'[d] = at[d] /\ current'[d] = current[d]
    /\ saw'[d] = saw[d]

ExecsGrow ==
  /\ \A e \in DOMAIN execs :
       /\ e \in DOMAIN execs' /\ execs'[e].unit = execs[e].unit
       /\ execs[e].status = "succeeded" => execs'[e].status = "succeeded"
  /\ complete \subseteq complete'

SharedStep(s) ==
  \/ Working(s)
  \/ lock = NoOne /\ UNCHANGED state
  \/ UNCHANGED <<lock, state>>

Frame(s) ==
  /\ TypeOK' /\ Untouched(s) /\ ExecsGrow /\ SharedStep(s)
  /\ \A u \in Unit : RecordIsTrue(u)'
  /\ SchedulerInv(s)'

-----------------------------------------------------------------------------
(* What is left alone stays true.                                          *)

LEMMA RecordKeeps ==
  ASSUME NEW u \in Unit, RecordIsTrue(u), state'[u] = state[u], ExecsGrow
  PROVE  RecordIsTrue(u)'
  BY DEF RecordIsTrue, ExecsGrow

LEMMA SchedulerKeeps ==
  ASSUME NEW d \in Scheduler, SchedulerInv(d), ExecsGrow,
         pc'[d] = pc[d], at'[d] = at[d], current'[d] = current[d], saw'[d] = saw[d],
         Working(d) => UNCHANGED <<lock, state>>
  PROVE  SchedulerInv(d)'
  BY DEF SchedulerInv, ExecsGrow, Working, AtUnit, ToSubmit, AtHand, TheRecord, TheUnit

\* A scheduler at work owns the lease, so no other one changes the state.
LEMMA OthersKeep ==
  ASSUME NEW c \in Scheduler, NEW d \in Scheduler, c # d,
         SchedulerInv(c), SchedulerInv(d), Untouched(c), ExecsGrow, SharedStep(c)
  PROVE  SchedulerInv(d)'
  <1>1. Working(d) => UNCHANGED <<lock, state>>
    BY AnnualLiveAssumption DEF AnnualLiveAssumption, SharedStep, SchedulerInv
  <1>2. QED
    BY <1>1, SchedulerKeeps DEF Untouched

LEMMA ExecsStay ==
  ASSUME UNCHANGED <<execs, complete>>
  PROVE  ExecsGrow
  BY DEF ExecsGrow

-----------------------------------------------------------------------------
(* The unit at hand, and the operators actions are made of.                *)

LEMMA UnitAtHand ==
  ASSUME TypeOK, NEW s \in Scheduler, at[s] \in DOMAIN Units[s]
  PROVE  TheUnit(s) \in Unit
  BY AnnualLiveAssumption DEF AnnualLiveAssumption, TypeOK, TheUnit

LEMMA Updated ==
  ASSUME TypeOK, NEW s \in Scheduler, at[s] \in DOMAIN Units[s],
         NEW st \in {"running", "succeeded", "skipped", "failed"}, NEW e \in Nat,
         Update(s, st, e)
  PROVE  /\ state' \in [Unit -> Records]
         /\ state'[TheUnit(s)] = [status |-> st,
                                  exec |-> IF e = 0 THEN TheRecord(s).exec ELSE e]
         /\ \A u \in Unit \ {TheUnit(s)} : state'[u] = state[u]
  <1>1. TheUnit(s) \in Unit
    BY UnitAtHand
  <1>2. state[TheUnit(s)].exec \in Nat
    BY <1>1 DEF TypeOK, Records
  <1>3. Record(st, IF e = 0 THEN state[TheUnit(s)].exec ELSE e) \in Records
    BY <1>2 DEF Record, Records
  <1>4. QED
    BY <1>1, <1>3 DEF Update, TypeOK, TheRecord, Record

\* Leaving the unit at hand, by any way, ends what SchedulerInv says of it.
LEMMA NextUnitKeeps ==
  ASSUME TypeOK, NEW s \in Scheduler, lock' = s, NextUnit(s)
  PROVE  LocalTypes /\ Untouched(s) /\ SchedulerInv(s)'
  BY DEF TypeOK, NextUnit, Goto, LocalTypes, Pcs, Untouched, SchedulerInv, Working,
         AtUnit, ToSubmit, AtHand

LEMMA RaiseKeeps ==
  ASSUME TypeOK, NEW s \in Scheduler, lock' = s, SchedulerInv(s), Raise(s)
  PROVE  LocalTypes /\ Untouched(s) /\ SchedulerInv(s)'
  BY DEF TypeOK, Raise, Goto, LocalTypes, Pcs, Untouched, SchedulerInv, Working,
         AtUnit, ToSubmit, AtHand

LEMMA LeaveKeeps ==
  ASSUME TypeOK, NEW s \in Scheduler, NEW p \in {"done", "raised", "killed"},
         Leave(s, p)
  PROVE  LocalTypes /\ Untouched(s) /\ SchedulerInv(s)'
  BY DEF TypeOK, Leave, Goto, LocalTypes, Pcs, Untouched, SchedulerInv, Working,
         AtUnit, ToSubmit, AtHand

LEMMA GoOnKeeps ==
  ASSUME TypeOK, NEW s \in Scheduler, lock' = s, SchedulerInv(s),
         NEW st, UpdateAndGoOn(s, st)
  PROVE  /\ LocalTypes /\ Untouched(s) /\ SchedulerInv(s)'
         /\ Update(s, st, 0) \/ UNCHANGED state
  BY NextUnitKeeps, RaiseKeeps DEF UpdateAndGoOn, UpdateFails

\* A record may become "failed" at any time, a better one for a reason.
LEMMA GoOnTrue ==
  ASSUME TypeOK, \A u \in Unit : RecordIsTrue(u), ExecsGrow,
         NEW s \in Scheduler, at[s] \in DOMAIN Units[s],
         NEW st \in {"succeeded", "skipped", "failed"},
         Update(s, st, 0) \/ UNCHANGED state,
         st # "failed" => TheUnit(s) \in complete,
         st = "succeeded" => /\ TheRecord(s).exec # 0
                                 /\ execs[TheRecord(s).exec].status = "succeeded"
  PROVE  state' \in [Unit -> Records] /\ \A u \in Unit : RecordIsTrue(u)'
  <1>1. CASE UNCHANGED state
    BY <1>1, RecordKeeps DEF TypeOK
  <1>2. CASE Update(s, st, 0)
    <2>1. TheUnit(s) \in Unit
      BY UnitAtHand
    <2>2. /\ state' \in [Unit -> Records]
          /\ state'[TheUnit(s)] = [status |-> st, exec |-> TheRecord(s).exec]
          /\ \A u \in Unit \ {TheUnit(s)} : state'[u] = state[u]
      BY <1>2, Updated
    <2>3. ASSUME NEW u \in Unit, u = TheUnit(s) PROVE RecordIsTrue(u)'
      BY <2>2, <2>3 DEF RecordIsTrue, ExecsGrow, TheRecord
    <2>4. QED
      BY <2>2, <2>3, RecordKeeps
  <1>3. QED
    BY <1>1, <1>2
-----------------------------------------------------------------------------
(* The scheduler that takes the step, action by action.                    *)

LEMMA AcquireStep ==
  ASSUME IInv, NEW s \in Scheduler, Acquire(s)
  PROVE  Frame(s)
  <1>1. TypeOK /\ SchedulerInv(s) /\ \A u \in Unit : RecordIsTrue(u)
    BY DEF IInv
  <1>2. pc' \in [Scheduler -> Pcs]
    BY <1>1 DEF TypeOK, Acquire, Goto, Pcs
  <1>3. TypeOK'
    BY <1>1, <1>2 DEF TypeOK, Acquire, cloud
  <1>4. ExecsGrow /\ SharedStep(s) /\ Untouched(s)
    BY <1>1 DEF TypeOK, Acquire, Goto, cloud, ExecsGrow, SharedStep, Untouched
  <1>5. \A u \in Unit : RecordIsTrue(u)'
    BY <1>1, <1>4, RecordKeeps DEF Acquire
  <1>6. SchedulerInv(s)'
    BY <1>1 DEF TypeOK, Acquire, Goto, SchedulerInv, Working, AtUnit, ToSubmit, AtHand
  <1>7. QED
    BY <1>3, <1>4, <1>5, <1>6 DEF Frame

LEMMA EnsureStateStep ==
  ASSUME IInv, NEW s \in Scheduler, EnsureState(s)
  PROVE  Frame(s)
  <1>1. TypeOK /\ SchedulerInv(s) /\ \A u \in Unit : RecordIsTrue(u)
    BY DEF IInv
  <1>2. pc' \in [Scheduler -> Pcs]
    BY <1>1 DEF TypeOK, EnsureState, Goto, Pcs
  <1>3. state' \in [Unit -> Records]
    <2>1. Record("planned", 0) \in Records
      BY DEF Record, Records
    <2>2. QED
      BY <1>1, <2>1 DEF TypeOK, EnsureState
  <1>4. TypeOK'
    BY <1>1, <1>2, <1>3 DEF TypeOK, EnsureState, cloud
  <1>5. ExecsGrow /\ SharedStep(s) /\ Untouched(s)
    BY <1>1 DEF TypeOK, EnsureState, Goto, cloud, ExecsGrow, SharedStep, Untouched, Working
  <1>6. ASSUME NEW u \in Unit PROVE RecordIsTrue(u)'
    <2>1. state'[u] = state[u] \/ state'[u] = Record("planned", 0)
      BY <1>1 DEF TypeOK, EnsureState
    <2>2. CASE state'[u] = state[u]
      BY <1>1, <1>5, <2>2, RecordKeeps
    <2>3. CASE state'[u] = Record("planned", 0)
      BY <2>3 DEF RecordIsTrue, Record
    <2>4. QED
      BY <2>1, <2>2, <2>3
  <1>7. SchedulerInv(s)'
    BY <1>1
    DEF TypeOK, EnsureState, Goto, SchedulerInv, Working, AtUnit, ToSubmit, AtHand
  <1>8. QED
    BY <1>4, <1>5, <1>6, <1>7 DEF Frame

LEMMA LoopStep ==
  ASSUME IInv, NEW s \in Scheduler, Loop(s)
  PROVE  Frame(s)
  <1>1. TypeOK /\ SchedulerInv(s) /\ \A u \in Unit : RecordIsTrue(u)
    BY DEF IInv
  <1>2. pc' \in [Scheduler -> Pcs]
    BY <1>1 DEF TypeOK, Loop, Goto, Pcs
  <1>3. TypeOK'
    BY <1>1, <1>2 DEF TypeOK, Loop, cloud
  <1>4. ExecsGrow /\ SharedStep(s) /\ Untouched(s)
    BY <1>1 DEF TypeOK, Loop, Goto, cloud, ExecsGrow, SharedStep, Untouched
  <1>5. \A u \in Unit : RecordIsTrue(u)'
    BY <1>1, <1>4, RecordKeeps DEF Loop
  <1>6. SchedulerInv(s)'
    <2>1. at[s] <= Len(Units[s]) => at[s] \in DOMAIN Units[s]
      BY <1>1, AnnualLiveAssumption DEF AnnualLiveAssumption, TypeOK
    <2>2. QED
      BY <1>1, <2>1
      DEF TypeOK, Loop, Goto, SchedulerInv, Working, AtUnit, ToSubmit, AtHand
  <1>7. QED
    BY <1>3, <1>4, <1>5, <1>6 DEF Frame

\* An execution on record is the one at hand when it is waited for.
LEMMA RecoverStep ==
  ASSUME IInv, NEW s \in Scheduler, Recover(s)
  PROVE  Frame(s)
  <1>1. /\ TypeOK /\ SchedulerInv(s) /\ \A u \in Unit : RecordIsTrue(u)
        /\ at[s] \in DOMAIN Units[s] /\ TheUnit(s) \in Unit
    BY UnitAtHand DEF IInv, Recover, SchedulerInv, AtUnit
  <1>2. ExecsGrow /\ SharedStep(s)
    BY ExecsStay DEF Recover, cloud, SharedStep, Working
  <1>3. \A u \in Unit : RecordIsTrue(u)'
    BY <1>1, <1>2, RecordKeeps DEF Recover
  <1>4. LocalTypes /\ Untouched(s) /\ SchedulerInv(s)'
    <2>1. CASE NextUnit(s)
      BY <1>1, <2>1, NextUnitKeeps DEF Recover, SchedulerInv, Working
    <2>2. CASE /\ TheRecord(s).exec # 0
               /\ current' = [current EXCEPT ![s] = TheRecord(s).exec]
               /\ Goto(s, "poll") /\ UNCHANGED <<at, polls, saw>>
      <3>1. TheRecord(s).exec \in DOMAIN execs /\ execs[TheRecord(s).exec].unit = TheUnit(s)
        BY <1>1, <2>2 DEF RecordIsTrue, TheRecord
      <3>2. TheRecord(s).exec \in Nat
        BY <1>1 DEF TypeOK, Records, TheRecord
      <3>3. LocalTypes /\ Untouched(s)
        BY <1>1, <2>2, <3>2 DEF TypeOK, Goto, LocalTypes, Pcs, Untouched
      <3>4. /\ pc'[s] = "poll" /\ current'[s] = TheRecord(s).exec /\ at'[s] = at[s]
            /\ saw[s] = FALSE /\ saw'[s] = FALSE
        BY <1>1, <2>2 DEF TypeOK, Recover, Goto, SchedulerInv, AtHand
      <3>5. SchedulerInv(s)'
        BY <1>1, <2>2, <3>1, <3>4
        DEF Recover, cloud, SchedulerInv, Working, AtUnit, ToSubmit, AtHand, TheRecord, TheUnit
      <3>6. QED
        BY <3>3, <3>5
    <2>3. CASE /\ TheRecord(s).status \notin {"succeeded", "skipped"}
               /\ TheRecord(s).exec = 0
               /\ Goto(s, "check") /\ UNCHANGED <<at, current, polls, saw>>
      <3>1. LocalTypes /\ Untouched(s)
        BY <1>1, <2>3 DEF TypeOK, Goto, LocalTypes, Pcs, Untouched
      <3>2. pc'[s] = "check" /\ saw[s] = FALSE
        BY <1>1, <2>3 DEF TypeOK, Recover, Goto, SchedulerInv, AtHand
      <3>3. SchedulerInv(s)'
        BY <1>1, <2>3, <3>2
        DEF Recover, SchedulerInv, Working, AtUnit, ToSubmit, AtHand, TheRecord, TheUnit
      <3>4. QED
        BY <3>1, <3>3
    <2>4. QED
      BY <2>1, <2>2, <2>3 DEF Recover
  <1>5. TypeOK'
    BY <1>1, <1>4 DEF TypeOK, LocalTypes, Recover, cloud
  <1>6. QED
    BY <1>2, <1>3, <1>4, <1>5 DEF Frame

LEMMA CheckStep ==
  ASSUME IInv, NEW s \in Scheduler, Check(s)
  PROVE  Frame(s)
  <1>1. /\ TypeOK /\ SchedulerInv(s) /\ \A u \in Unit : RecordIsTrue(u)
        /\ at[s] \in DOMAIN Units[s] /\ lock' = s
    BY DEF IInv, Check, SchedulerInv, AtUnit, Working
  <1>2. ExecsGrow /\ SharedStep(s)
    BY ExecsStay DEF Check, cloud, SharedStep, Working
  <1>3. /\ LocalTypes /\ Untouched(s) /\ SchedulerInv(s)'
        /\ state' \in [Unit -> Records] /\ \A u \in Unit : RecordIsTrue(u)'
    <2>1. CASE UpdateAndGoOn(s, "failed")
      BY <1>1, <1>2, <2>1, GoOnKeeps, GoOnTrue
    <2>2. CASE TheUnit(s) \in complete /\ UpdateAndGoOn(s, "skipped")
      BY <1>1, <1>2, <2>2, GoOnKeeps, GoOnTrue
    <2>3. CASE NextUnit(s) /\ UNCHANGED state
      BY <1>1, <1>2, <2>3, NextUnitKeeps, RecordKeeps DEF TypeOK
    <2>4. CASE Goto(s, "submit") /\ UNCHANGED <<state, at, current, polls, saw>>
      <3>1. LocalTypes /\ Untouched(s)
        BY <1>1, <2>4 DEF TypeOK, Goto, LocalTypes, Pcs, Untouched
      <3>2. pc[s] = "check" /\ pc'[s] = "submit"
        BY <1>1, <2>4 DEF TypeOK, Check, Goto
      <3>3. SchedulerInv(s)'
        BY <1>1, <2>4, <3>2
        DEF SchedulerInv, Working, AtUnit, ToSubmit, AtHand, TheRecord, TheUnit
      <3>4. QED
        BY <1>1, <1>2, <2>4, <3>1, <3>3, RecordKeeps DEF TypeOK
    <2>5. QED
      BY <2>1, <2>2, <2>3, <2>4 DEF Check
  <1>4. TypeOK'
    BY <1>1, <1>3, AnnualLiveAssumption DEF TypeOK, LocalTypes, Check, cloud
  <1>5. QED
    BY <1>2, <1>3, <1>4 DEF Frame

\* What gcloud may start: an execution of the unit at hand.
LEMMA Started1 ==
  ASSUME TypeOK, NEW s \in Scheduler, TheUnit(s) \in Unit, UNCHANGED complete,
         \/ UNCHANGED execs
         \/ execs' = Append(execs, [unit |-> TheUnit(s), status |-> "running"])
  PROVE  execs' \in Seq(Executions) /\ ExecsGrow
  <1>1. [unit |-> TheUnit(s), status |-> "running"] \in Executions
    BY DEF Executions
  <1>2. CASE execs' = Append(execs, [unit |-> TheUnit(s), status |-> "running"])
    BY <1>1, <1>2, AppendProperties DEF TypeOK, ExecsGrow
  <1>3. QED
    BY <1>2 DEF TypeOK, ExecsGrow

LEMMA SubmitStep ==
  ASSUME IInv, NEW s \in Scheduler, Submit(s)
  PROVE  Frame(s)
  <1> DEFINE started == Append(execs, [unit |-> TheUnit(s), status |-> "running"])
  <1>1. /\ TypeOK /\ SchedulerInv(s) /\ \A u \in Unit : RecordIsTrue(u)
        /\ at[s] \in DOMAIN Units[s] /\ TheUnit(s) \in Unit /\ lock' = s
    BY UnitAtHand DEF IInv, Submit, SchedulerInv, AtUnit, Working
  <1>2. execs' \in Seq(Executions) /\ ExecsGrow /\ SharedStep(s)
    BY <1>1, Started1 DEF Submit, SharedStep, Working
  <1>3. /\ LocalTypes /\ Untouched(s) /\ SchedulerInv(s)'
        /\ state' \in [Unit -> Records] /\ \A u \in Unit : RecordIsTrue(u)'
    <2>1. CASE UpdateAndGoOn(s, "failed")
      BY <1>1, <1>2, <2>1, GoOnKeeps, GoOnTrue
    <2>2. CASE /\ execs' = started
               /\ current' = [current EXCEPT ![s] = Len(started)]
               /\ Goto(s, "record") /\ UNCHANGED <<state, at, polls, saw>>
      <3>1. [unit |-> TheUnit(s), status |-> "running"] \in Executions
        BY <1>1 DEF Executions
      <3>2. /\ Len(started) = Len(execs) + 1 /\ Len(started) \in DOMAIN started
            /\ started[Len(started)].unit = TheUnit(s)
        BY <1>1, <3>1, AppendProperties DEF TypeOK
      <3>3. LocalTypes /\ Untouched(s)
        <4>1. Len(started) \in Nat
          BY <1>1, <3>2 DEF TypeOK
        <4>2. QED
          BY <1>1, <2>2, <4>1 DEF TypeOK, Goto, LocalTypes, Pcs, Untouched
      <3>4. /\ pc[s] = "submit" /\ pc'[s] = "record" /\ current'[s] = Len(started)
            /\ at'[s] = at[s] /\ saw[s] = FALSE /\ saw'[s] = FALSE
        BY <1>1, <2>2 DEF TypeOK, Submit, Goto, SchedulerInv, AtHand
      <3>5. SchedulerInv(s)'
        BY <1>1, <2>2, <3>2, <3>4
        DEF SchedulerInv, Working, AtUnit, ToSubmit, AtHand, TheRecord, TheUnit
      <3>6. QED
        BY <1>1, <1>2, <2>2, <3>3, <3>5, RecordKeeps DEF TypeOK
    <2>3. QED
      BY <2>1, <2>2 DEF Submit
  <1>4. TypeOK'
    BY <1>1, <1>2, <1>3 DEF TypeOK, LocalTypes, Submit
  <1>5. QED
    BY <1>2, <1>3, <1>4 DEF Frame

LEMMA RecordExecutionStep ==
  ASSUME IInv, NEW s \in Scheduler, RecordExecution(s)
  PROVE  Frame(s)
  <1>1. /\ TypeOK /\ SchedulerInv(s) /\ \A u \in Unit : RecordIsTrue(u)
        /\ pc[s] = "record" /\ at[s] \in DOMAIN Units[s] /\ TheUnit(s) \in Unit
        /\ lock' = s
        /\ current[s] \in DOMAIN execs /\ execs[current[s]].unit = TheUnit(s)
        /\ TheRecord(s).exec = 0 /\ saw[s] = FALSE
    BY UnitAtHand
    DEF IInv, TypeOK, RecordExecution, SchedulerInv, AtUnit, Working, ToSubmit, AtHand
  <1>2. ExecsGrow /\ SharedStep(s)
    BY ExecsStay DEF RecordExecution, cloud, SharedStep, Working
  <1>3. current[s] \in Nat /\ current[s] # 0
    BY <1>1 DEF TypeOK
  <1>4. state' \in [Unit -> Records] /\ \A u \in Unit : RecordIsTrue(u)'
    <2>1. CASE UNCHANGED state
      BY <1>1, <1>2, <2>1, RecordKeeps DEF TypeOK
    <2>2. CASE Update(s, "running", current[s])
      <3>1. /\ state' \in [Unit -> Records]
            /\ state'[TheUnit(s)] = [status |-> "running", exec |-> current[s]]
            /\ \A u \in Unit \ {TheUnit(s)} : state'[u] = state[u]
        BY <1>1, <1>3, <2>2, Updated
      <3>2. ASSUME NEW u \in Unit, u = TheUnit(s) PROVE RecordIsTrue(u)'
        BY <1>1, <1>2, <1>3, <3>1, <3>2 DEF RecordIsTrue, ExecsGrow
      <3>3. QED
        BY <1>1, <1>2, <3>1, <3>2, RecordKeeps
    <2>3. QED
      BY <2>1, <2>2 DEF RecordExecution, UpdateFails
  <1>5. LocalTypes /\ Untouched(s) /\ SchedulerInv(s)'
    <2>1. CASE Raise(s)
      BY <1>1, <2>1, RaiseKeeps
    <2>2. CASE /\ Update(s, "running", current[s])
               /\ Goto(s, "poll") /\ UNCHANGED <<at, current, polls, saw>>
      <3>1. LocalTypes /\ Untouched(s)
        BY <1>1, <2>2 DEF TypeOK, Goto, LocalTypes, Pcs, Untouched
      <3>2. pc'[s] = "poll" /\ state'[TheUnit(s)].exec = current[s]
        <4>1. state'[TheUnit(s)] = [status |-> "running", exec |-> current[s]]
          BY <1>1, <1>3, <2>2, Updated
        <4>2. QED
          BY <1>1, <2>2, <4>1 DEF TypeOK, Goto
      <3>3. SchedulerInv(s)'
        BY <1>1, <2>2, <3>2
        DEF RecordExecution, cloud, SchedulerInv, Working, AtUnit, ToSubmit, AtHand,
            TheRecord, TheUnit
      <3>4. QED
        BY <3>1, <3>3
    <2>3. QED
      BY <2>1, <2>2 DEF RecordExecution, UpdateFails
  <1>6. TypeOK'
    BY <1>1, <1>4, <1>5 DEF TypeOK, LocalTypes, RecordExecution, cloud
  <1>7. QED
    BY <1>2, <1>4, <1>5, <1>6 DEF Frame

\* "succeeded" is written when the execution was seen to have succeeded, in
\* this attempt or an earlier one, and the artifacts are there.
LEMMA PollStep ==
  ASSUME IInv, NEW s \in Scheduler, Poll(s)
  PROVE  Frame(s)
  <1>1. /\ TypeOK /\ SchedulerInv(s) /\ \A u \in Unit : RecordIsTrue(u)
        /\ pc[s] = "poll" /\ at[s] \in DOMAIN Units[s] /\ TheUnit(s) \in Unit
        /\ lock' = s
        /\ current[s] \in DOMAIN execs /\ execs[current[s]].unit = TheUnit(s)
        /\ TheRecord(s).exec = current[s]
        /\ saw[s] => execs[current[s]].status = "succeeded"
    BY UnitAtHand DEF IInv, Poll, SchedulerInv, AtUnit, Working, AtHand
  <1>2. ExecsGrow /\ SharedStep(s)
    BY ExecsStay DEF Poll, cloud, SharedStep, Working
  <1>3. current[s] # 0
    BY <1>1 DEF TypeOK
  <1>4. /\ LocalTypes /\ Untouched(s) /\ SchedulerInv(s)'
        /\ state' \in [Unit -> Records] /\ \A u \in Unit : RecordIsTrue(u)'
    <2>1. CASE UpdateAndGoOn(s, "failed")
      BY <1>1, <1>2, <2>1, GoOnKeeps, GoOnTrue
    <2>2. CASE /\ execs[current[s]].status = "succeeded" /\ TheUnit(s) \in complete
               /\ UpdateAndGoOn(s, "succeeded")
      BY <1>1, <1>2, <1>3, <2>2, GoOnKeeps, GoOnTrue
    <2>3. CASE /\ CountAttempt(s) /\ Inconclusive(s) /\ UNCHANGED <<state, pc, at, current>>
      <3>1. polls' \in [Scheduler -> Nat]
        BY <1>1, <2>3 DEF TypeOK, CountAttempt
      <3>2. PICK v \in {FALSE, execs[current[s]].status = "succeeded"
                                 /\ TheUnit(s) \notin complete} :
              saw' = [saw EXCEPT ![s] = v]
        BY <2>3 DEF Inconclusive
      <3>3. v \in BOOLEAN /\ saw' \in [Scheduler -> BOOLEAN] /\ saw'[s] = v
        BY <1>1, <3>2 DEF TypeOK
      <3>4. saw'[s] => execs[current[s]].status = "succeeded"
        BY <3>2, <3>3
      <3>5. LocalTypes /\ Untouched(s)
        BY <1>1, <2>3, <3>1, <3>2, <3>3 DEF TypeOK, LocalTypes, Untouched
      <3>6. SchedulerInv(s)'
        BY <1>1, <2>3, <3>4
        DEF Poll, cloud, SchedulerInv, Working, AtUnit, ToSubmit, AtHand, TheRecord,
            TheUnit
      <3>7. QED
        BY <1>1, <1>2, <2>3, <3>5, <3>6, RecordKeeps DEF TypeOK
    <2>4. QED
      BY <1>1, <2>1, <2>2, <2>3 DEF Poll, Confirmed
  <1>5. TypeOK'
    BY <1>1, <1>4 DEF TypeOK, LocalTypes, Poll, cloud
  <1>6. QED
    BY <1>2, <1>4, <1>5 DEF Frame

LEMMA InterruptedStep ==
  ASSUME IInv, NEW s \in Scheduler, Interrupted(s)
  PROVE  Frame(s)
  <1>1. /\ TypeOK /\ SchedulerInv(s) /\ \A u \in Unit : RecordIsTrue(u)
        /\ lock' = s
    BY DEF IInv, Interrupted, SchedulerInv, Working
  <1>2. ExecsGrow /\ SharedStep(s)
    BY ExecsStay DEF Interrupted, cloud, SharedStep
  <1>3. LocalTypes /\ Untouched(s) /\ SchedulerInv(s)'
    BY <1>1, RaiseKeeps DEF Interrupted
  <1>4. TypeOK'
    BY <1>1, <1>3 DEF TypeOK, LocalTypes, Interrupted, cloud
  <1>5. \A u \in Unit : RecordIsTrue(u)'
    BY <1>1, <1>2, RecordKeeps DEF Interrupted
  <1>6. QED
    BY <1>2, <1>3, <1>4, <1>5 DEF Frame

LEMMA FinishStep ==
  ASSUME IInv, NEW s \in Scheduler, Finish(s)
  PROVE  Frame(s)
  <1>1. TypeOK /\ SchedulerInv(s) /\ \A u \in Unit : RecordIsTrue(u)
    BY DEF IInv
  <1>2. ExecsGrow /\ SharedStep(s)
    BY ExecsStay DEF Finish, cloud, SharedStep, Working
  <1>3. LocalTypes /\ Untouched(s) /\ SchedulerInv(s)'
    BY <1>1, LeaveKeeps DEF Finish
  <1>4. TypeOK'
    BY <1>1, <1>3 DEF TypeOK, LocalTypes, Finish, cloud
  <1>5. \A u \in Unit : RecordIsTrue(u)'
    BY <1>1, <1>2, RecordKeeps DEF Finish
  <1>6. QED
    BY <1>2, <1>3, <1>4, <1>5 DEF Frame

LEMMA KillStep ==
  ASSUME IInv, NEW s \in Scheduler, Kill(s)
  PROVE  Frame(s)
  <1>1. TypeOK /\ SchedulerInv(s) /\ \A u \in Unit : RecordIsTrue(u)
    BY DEF IInv
  <1>2. ExecsGrow /\ SharedStep(s)
    BY ExecsStay DEF Kill, cloud, SharedStep
  <1>3. LocalTypes /\ Untouched(s) /\ SchedulerInv(s)'
    BY <1>1, LeaveKeeps DEF Kill
  <1>4. TypeOK'
    BY <1>1, <1>3 DEF TypeOK, LocalTypes, Kill, cloud
  <1>5. \A u \in Unit : RecordIsTrue(u)'
    BY <1>1, <1>2, RecordKeeps DEF Kill
  <1>6. QED
    BY <1>2, <1>3, <1>4, <1>5 DEF Frame

-----------------------------------------------------------------------------
(* The environment.                                                        *)

\* A step of nobody's that grows executions or artifacts.
EnvironmentStep ==
  /\ TypeOK' /\ ExecsGrow /\ UNCHANGED <<state, local>>
  /\ UNCHANGED lock \/ \A s \in Scheduler : ~Working(s)

LEMMA EnvironmentKeeps ==
  ASSUME IInv, EnvironmentStep
  PROVE  IInv'
  <1>1. \A u \in Unit : RecordIsTrue(u)'
    BY RecordKeeps DEF IInv, EnvironmentStep
  <1>2. \A s \in Scheduler : SchedulerInv(s)'
    BY SchedulerKeeps DEF IInv, EnvironmentStep, local
  <1>3. QED
    BY <1>1, <1>2 DEF IInv, EnvironmentStep

LEMMA RemoveLockStep ==
  ASSUME IInv, RemoveLock
  PROVE  EnvironmentStep
  <1>1. \A s \in Scheduler : ~Working(s)
    BY AnnualLiveAssumption
    DEF AnnualLiveAssumption, IInv, RemoveLock, SchedulerInv, Working, Ended
  <1>2. QED
    BY <1>1, ExecsStay DEF IInv, TypeOK, RemoveLock, cloud, local, EnvironmentStep

LEMMA WriteArtifactsStep ==
  ASSUME IInv, NEW e \in DOMAIN execs, WriteArtifacts(e)
  PROVE  EnvironmentStep
  <1>1. execs[e].unit \in Unit
    <2>1. execs[e] \in Executions
      BY DEF IInv, TypeOK
    <2>2. QED
      BY <2>1 DEF Executions
  <1>2. QED
    BY <1>1 DEF IInv, TypeOK, WriteArtifacts, local, EnvironmentStep, ExecsGrow

LEMMA ExecutionEndsStep ==
  ASSUME IInv, NEW e \in DOMAIN execs, ExecutionEnds(e)
  PROVE  EnvironmentStep
  <1>1. PICK st \in {"succeeded", "failed"} :
          execs' = [execs EXCEPT ![e] = [execs[e] EXCEPT !.status = st]]
    BY DEF ExecutionEnds
  <1>2. /\ execs \in Seq(Executions) /\ e \in 1 .. Len(execs)
        /\ execs[e] \in Executions /\ execs[e].status = "running"
    BY DEF IInv, TypeOK, ExecutionEnds
  <1>3. /\ [execs[e] EXCEPT !.status = st] \in Executions
        /\ [execs[e] EXCEPT !.status = st].unit = execs[e].unit
    BY <1>2 DEF Executions
  <1>4. execs' \in Seq(Executions) /\ ExecsGrow
    BY <1>1, <1>2, <1>3, ExceptSeq DEF ExecutionEnds, ExecsGrow
  <1>5. QED
    BY <1>4 DEF IInv, TypeOK, ExecutionEnds, local, EnvironmentStep

-----------------------------------------------------------------------------
(* The invariant.                                                          *)

LEMMA InitInv ==
  Init => IInv
  <1> SUFFICES ASSUME Init PROVE IInv
    OBVIOUS
  <1>1. TypeOK
    <2>1. Absent \in Records
      BY DEF Absent, Record, Records
    <2>2. QED
      BY <2>1 DEF Init, TypeOK, Pcs
  <1>2. \A u \in Unit : RecordIsTrue(u)
    BY DEF Init, Absent, Record, RecordIsTrue
  <1>3. \A s \in Scheduler : SchedulerInv(s)
    BY DEF Init, SchedulerInv, Working, AtUnit, ToSubmit, AtHand
  <1>4. QED
    BY <1>1, <1>2, <1>3 DEF IInv

LEMMA SchedulerSteps ==
  ASSUME IInv, NEW s \in Scheduler, Run(s) \/ Interrupted(s) \/ Kill(s)
  PROVE  Frame(s)
  BY AcquireStep, EnsureStateStep, LoopStep, RecoverStep, CheckStep, SubmitStep,
     RecordExecutionStep, PollStep, FinishStep, InterruptedStep, KillStep
  DEF Run

LEMMA StepInv ==
  IInv /\ [Next]_vars => IInv'
  <1> SUFFICES ASSUME IInv, [Next]_vars PROVE IInv'
    OBVIOUS
  <1>1. CASE UNCHANGED vars
    <2>1. EnvironmentStep
      BY <1>1, ExecsStay DEF vars, local, IInv, TypeOK, EnvironmentStep
    <2>2. QED
      BY <2>1, EnvironmentKeeps
  <1>2. ASSUME NEW s \in Scheduler, Run(s) \/ Interrupted(s) \/ Kill(s)
        PROVE  IInv'
    <2>1. Frame(s)
      BY <1>2, SchedulerSteps
    <2>2. \A d \in Scheduler : SchedulerInv(d)'
      BY <2>1, OthersKeep DEF Frame, IInv
    <2>3. QED
      BY <2>1, <2>2 DEF Frame, IInv
  <1>3. CASE RemoveLock
    BY <1>3, RemoveLockStep, EnvironmentKeeps
  <1>4. ASSUME NEW e \in DOMAIN execs, WriteArtifacts(e) \/ ExecutionEnds(e)
        PROVE  IInv'
    BY <1>4, WriteArtifactsStep, ExecutionEndsStep, EnvironmentKeeps
  <1>5. QED
    BY <1>1, <1>2, <1>3, <1>4 DEF Next

THEOREM Invariance ==
  Spec => []IInv
  BY InitInv, StepInv, PTL DEF Spec

\* Every variable keeps its type.
THEOREM TypeCorrect ==
  Spec => []TypeOK
  <1>1. IInv => TypeOK
    BY DEF IInv
  <1>2. QED
    BY <1>1, Invariance, PTL

\* At most one scheduler is at work, and it owns the lease: what lets the
\* state object be read and written without a conflict.
THEOREM OneAtWork ==
  Spec => [](\A s, t \in Scheduler : Working(s) /\ Working(t) => s = t)
  <1>1. IInv => \A s, t \in Scheduler : Working(s) /\ Working(t) => s = t
    BY DEF IInv, SchedulerInv
  <1>2. QED
    BY <1>1, Invariance, PTL

\* What the state object says of executions and artifacts is so, wherever a
\* scheduler was killed and whichever of its calls failed.
THEOREM StateObjectTrue ==
  Spec => []RecordsAreTrue
  <1>1. IInv => RecordsAreTrue
    BY DEF IInv, RecordIsTrue, RecordsAreTrue
  <1>2. QED
    BY <1>1, Invariance, PTL

-----------------------------------------------------------------------------
(* No second submit.                                                       *)

RecordStays(u) ==
  /\ state[u].exec # 0 => state'[u].exec = state[u].exec
  /\ /\ Len(execs') > Len(execs)
     /\ state[u].exec # 0 \/ state[u].status \in {"succeeded", "skipped"}
     => execs'[Len(execs')].unit # u

LEMMA UpdateKeepsExec ==
  ASSUME TypeOK, NEW s \in Scheduler, at[s] \in DOMAIN Units[s],
         NEW st \in {"running", "succeeded", "skipped", "failed"}, NEW e \in Nat,
         Update(s, st, e), e = 0 \/ TheRecord(s).exec = 0, NEW u \in Unit
  PROVE  state[u].exec # 0 => state'[u].exec = state[u].exec
  <1>1. CASE u = TheUnit(s)
    <2>1. state'[u] = [status |-> st, exec |-> IF e = 0 THEN state[u].exec ELSE e]
      <3>1. state'[TheUnit(s)] = [status |-> st,
                                  exec |-> IF e = 0 THEN TheRecord(s).exec ELSE e]
        BY Updated
      <3>2. QED
        BY <1>1, <3>1 DEF TheRecord
    <2>2. state'[u].exec = IF e = 0 THEN state[u].exec ELSE e
      BY <2>1
    <2>3. QED
      BY <1>1, <2>2 DEF TheRecord
  <1>2. CASE u # TheUnit(s)
    BY <1>2, Updated
  <1>3. QED
    BY <1>1, <1>2

\* Only a submit adds an execution, and it is one of a unit that has none on
\* record and is not over.
LEMMA SubmitsFresh ==
  ASSUME IInv, NEW s \in Scheduler, Submit(s), NEW u \in Unit
  PROVE  RecordStays(u)
  <1>1. /\ TypeOK /\ SchedulerInv(s) /\ pc[s] = "submit"
        /\ at[s] \in DOMAIN Units[s] /\ TheUnit(s) \in Unit
        /\ TheRecord(s).exec = 0 /\ TheRecord(s).status \notin {"succeeded", "skipped"}
    BY UnitAtHand DEF IInv, Submit, SchedulerInv, AtUnit, ToSubmit
  <1>2. [unit |-> TheUnit(s), status |-> "running"] \in Executions
    BY <1>1 DEF Executions
  <1>3. \/ UNCHANGED execs
        \/ execs'[Len(execs')].unit = TheUnit(s)
    <2>1. \/ UNCHANGED execs
          \/ execs' = Append(execs, [unit |-> TheUnit(s), status |-> "running"])
      BY DEF Submit
    <2>2. QED
      BY <1>1, <1>2, <2>1, AppendProperties DEF TypeOK
  <1>4. UNCHANGED state \/ Update(s, "failed", 0)
    BY DEF Submit, UpdateAndGoOn, UpdateFails
  <1>5. Len(execs) \in Nat
    BY <1>1 DEF TypeOK
  <1>6. state[u].exec # 0 => state'[u].exec = state[u].exec
    BY <1>1, <1>4, UpdateKeepsExec
  <1>7. QED
    BY <1>1, <1>3, <1>5, <1>6 DEF RecordStays, TheRecord

LEMMA SchedulersKeepRecords ==
  ASSUME IInv, NEW s \in Scheduler, Run(s) \/ Interrupted(s) \/ Kill(s),
         NEW u \in Unit
  PROVE  RecordStays(u)
  <1>1. CASE Submit(s)
    BY <1>1, SubmitsFresh
  <1>2. CASE Len(execs') = Len(execs) /\ state'[u].exec = state[u].exec
    <2>1. Len(execs) \in Nat
      BY DEF IInv, TypeOK
    <2>2. QED
      BY <1>2, <2>1 DEF RecordStays
  <1>3. CASE EnsureState(s)
    BY <1>2, <1>3 DEF EnsureState, cloud, IInv, TypeOK, Absent, Record, RecordStays
  <1>4. CASE /\ UNCHANGED execs /\ at[s] \in DOMAIN Units[s]
             /\ \E st \in {"succeeded", "skipped", "failed"} : Update(s, st, 0)
    <2>1. TypeOK /\ Len(execs) \in Nat
      BY DEF IInv, TypeOK
    <2>2. state[u].exec # 0 => state'[u].exec = state[u].exec
      BY <1>4, <2>1, UpdateKeepsExec
    <2>3. QED
      BY <1>4, <2>1, <2>2 DEF RecordStays
  <1>5. CASE RecordExecution(s)
    <2>1. /\ at[s] \in DOMAIN Units[s] /\ TheRecord(s).exec = 0 /\ current[s] \in Nat
          /\ TypeOK /\ Len(execs) \in Nat /\ execs' = execs
      BY <1>5
      DEF IInv, TypeOK, RecordExecution, cloud, SchedulerInv, AtUnit, ToSubmit
    <2>2. UNCHANGED state \/ Update(s, "running", current[s])
      BY <1>5 DEF RecordExecution, UpdateFails
    <2>3. QED
      BY <2>1, <2>2, UpdateKeepsExec DEF RecordStays
  <1>6. CASE Check(s) \/ Poll(s)
    <2>1. at[s] \in DOMAIN Units[s] /\ UNCHANGED execs
      BY <1>6 DEF IInv, SchedulerInv, AtUnit, Check, Poll, cloud
    <2>2. UNCHANGED state \/ \E st \in {"succeeded", "skipped", "failed"} : Update(s, st, 0)
      BY <1>6 DEF Check, Poll, UpdateAndGoOn, UpdateFails
    <2>3. QED
      BY <1>2, <1>4, <2>1, <2>2
  <1>7. QED
    BY <1>1, <1>2, <1>3, <1>5, <1>6
    DEF Run, Acquire, Loop, Recover, Finish, Interrupted, Kill, cloud

LEMMA StepKeepsRecords ==
  IInv /\ [Next]_vars => [\A u \in Unit : RecordStays(u)]_vars
  <1> SUFFICES ASSUME IInv, Next, NEW u \in Unit PROVE RecordStays(u)
    BY DEF vars
  <1>1. ASSUME UNCHANGED state, Len(execs') = Len(execs)
        PROVE  RecordStays(u)
    BY <1>1 DEF IInv, TypeOK, RecordStays
  <1>2. ASSUME NEW e \in DOMAIN execs, ExecutionEnds(e)
        PROVE  Len(execs') = Len(execs)
    BY <1>2 DEF IInv, TypeOK, ExecutionEnds
  <1>3. QED
    BY <1>1, <1>2, SchedulersKeepRecords
    DEF Next, RemoveLock, WriteArtifacts, ExecutionEnds, cloud

\* A unit with an execution on record keeps it, and no later run submits it
\* again, nor a unit found complete.
THEOREM NoSecondSubmit ==
  Spec => RecordedIsNotResubmitted
  <1>1. Spec => [][\A u \in Unit : RecordStays(u)]_vars
    BY Invariance, StepKeepsRecords, PTL DEF Spec
  <1>2. QED
    BY <1>1 DEF RecordStays, RecordedIsNotResubmitted

-----------------------------------------------------------------------------
(* The plan: its tasks, finitely many, and what they wait for.               *)

Tasks == [stage : Stages, year : Years \cup {9999}, unit : -1..Grid]

LEMMA TasksFinite == IsFiniteSet(Tasks)
<1> DEFINE Pairs == (Years \cup {9999}) \X (-1..Grid)
           Triples == Stages \X Pairs
           f == [p \in Triples |-> [stage |-> p[1], year |-> p[2][1], unit |-> p[2][2]]]
<1>1. IsFiniteSet(Stages)
  <2>1. \A S, T : IsFiniteSet(S) /\ IsFiniteSet(T) => IsFiniteSet(S \cup T)
    BY FS_Union
  <2>2. \A x : IsFiniteSet({x})
    BY FS_Singleton
  <2>3. Stages = ((({"panel"} \cup {"matrix"}) \cup {"candidate"}) \cup {"select"})
           \cup ((({"refit_panel"} \cup {"refit"}) \cup {"diagnostic_backtest"})
                    \cup {"continuous_ledger"})
    BY DEF Stages
  <2> QED
    BY <2>1, <2>2, <2>3, Zenon
<1>2. IsFiniteSet(Years \cup {9999}) /\ IsFiniteSet(-1..Grid)
  <2>1. IsFiniteSet(Years) /\ -1 \in Int /\ Grid \in Int
    BY PlanningAssumption DEF PlanningAssumption
  <2>2. IsFiniteSet(Years \cup {9999})
    BY <2>1, FS_AddElement
  <2>3. IsFiniteSet(-1..Grid)
    BY <2>1, FS_Interval
  <2> QED
    BY <2>2, <2>3
<1>3. IsFiniteSet(Triples)
  <2>1. ASSUME NEW S, NEW T, IsFiniteSet(S), IsFiniteSet(T)
        PROVE  IsFiniteSet(S \X T)
    BY <2>1, FS_Product
  <2>2. IsFiniteSet(Pairs)
    <3> DEFINE A == Years \cup {9999}
               B == -1..Grid
    <3>1. IsFiniteSet(A) /\ IsFiniteSet(B)
      BY <1>2
    <3> HIDE DEF A, B
    <3>2. IsFiniteSet(A \X B)
      BY <2>1, <3>1, Zenon
    <3> QED
      BY <3>2 DEF A, B
  <2> HIDE DEF Pairs
  <2>3. IsFiniteSet(Stages \X Pairs)
    BY <1>1, <2>1, <2>2, Zenon
  <2> QED
    BY <2>3
<1>4. f \in Surjection(Triples, Tasks)
  <2>1. f \in [Triples -> Tasks]
    BY DEF Tasks
  <2>2. ASSUME NEW t \in Tasks PROVE \E p \in Triples : f[p] = t
    <3>1. t = [stage |-> t.stage, year |-> t.year, unit |-> t.unit]
      BY DEF Tasks
    <3>2. t.stage \in Stages /\ t.year \in Years \cup {9999} /\ t.unit \in -1..Grid
      BY DEF Tasks
    <3>3. PICK p \in Triples : p[1] = t.stage /\ p[2][1] = t.year /\ p[2][2] = t.unit
      <4> DEFINE q == <<t.year, t.unit>>
      <4>1. q \in (Years \cup {9999}) \X (-1..Grid) /\ q[1] = t.year /\ q[2] = t.unit
        BY <3>2
      <4> HIDE DEF q
      <4>2. <<t.stage, q>> \in Triples
        BY <3>2, <4>1
      <4> QED
        BY <4>1, <4>2
    <3> HIDE DEF Triples
    <3>4. f[p] = [stage |-> t.stage, year |-> t.year, unit |-> t.unit]
      BY <3>3
    <3> HIDE DEF f
    <3> QED
      BY <3>1, <3>4
  <2> HIDE DEF Triples, f
  <2> QED
    BY <2>1, <2>2 DEF Surjection
<1> HIDE DEF Triples, f
<1> QED
  BY <1>3, <1>4, FS_Surjection

\* What the tasks of a plan are.
LEMMA PlanMembers ==
  ASSUME NEW b \in BOOLEAN, NEW t
  PROVE  t \in PlanTasks(b) <=>
           \/ \E y \in Years : t = Task("panel", y)
           \/ \E y \in Years : t = Task("matrix", y)
           \/ \E y \in Years : \E u \in 0..(Grid - 1) : t = Candidate(y, u)
           \/ \E y \in Years : t = Task("select", y)
           \/ \E y \in Years : t = Task("refit_panel", y)
           \/ \E y \in Years : t = Task("refit", y)
           \/ b /\ \E y \in Years : t = Task("diagnostic_backtest", y)
           \/ t = Ledger
  BY DEF PlanTasks, YearStages

LEMMA PlanFields ==
  ASSUME NEW b \in BOOLEAN, NEW t \in PlanTasks(b)
  PROVE  /\ t \in Tasks
         /\ t = [stage |-> t.stage, year |-> t.year, unit |-> t.unit]
         /\ t.stage # "continuous_ledger" => t.year \in Years
         /\ t.stage = "candidate" =>
              t.unit \in 0..(Grid - 1) /\ t = Candidate(t.year, t.unit)
  BY PlanMembers, PlanningAssumption
  DEF Tasks, Task, Candidate, Ledger, Stages, PlanningAssumption

LEMMA PlanFinite ==
  ASSUME NEW b \in BOOLEAN
  PROVE  IsFiniteSet(PlanTasks(b))
<1>1. PlanTasks(b) \in SUBSET Tasks
  BY PlanFields
<1> QED
  BY <1>1, TasksFinite, FS_Subset

LEMMA DependenciesArePlanned ==
  ASSUME NEW b \in BOOLEAN, NEW t \in PlanTasks(b)
  PROVE  Dependencies(t) \subseteq PlanTasks(b)
<1> SUFFICES ASSUME NEW d \in Dependencies(t) PROVE d \in PlanTasks(b)
  OBVIOUS
<1>1. t \in Tasks /\ (t.stage # "continuous_ledger" => t.year \in Years)
  BY PlanFields
<1>2. t.stage \in Stages
  BY <1>1 DEF Tasks
<1>3. CASE t.stage = "panel"
  BY <1>3 DEF Dependencies
<1>4. CASE t.stage = "matrix"
  BY <1>1, <1>4, PlanMembers DEF Dependencies
<1>5. CASE t.stage = "candidate"
  BY <1>1, <1>5, PlanMembers DEF Dependencies
<1>6. CASE t.stage = "select"
  BY <1>1, <1>6, PlanMembers DEF Dependencies
<1>7. CASE t.stage = "refit_panel"
  BY <1>1, <1>7, PlanMembers DEF Dependencies
<1>8. CASE t.stage = "refit"
  BY <1>1, <1>8, PlanMembers DEF Dependencies
<1>9. CASE t.stage = "diagnostic_backtest"
  BY <1>1, <1>9, PlanMembers DEF Dependencies
<1>10. CASE t.stage = "continuous_ledger"
  BY <1>1, <1>10, PlanMembers DEF Dependencies
<1> QED
  BY <1>2, <1>3, <1>4, <1>5, <1>6, <1>7, <1>8, <1>9, <1>10 DEF Stages

-----------------------------------------------------------------------------
(* As long as something is planned and nothing was deferred, something is   *)
(* ready: a task that is not waits for another one that is planned.         *)

LEMMA WaitsForAPlannedOne ==
  ASSUME PlanningTypeOK, With("deferred") = {}, Ready(status) = {},
         NEW t \in With("planned")
  PROVE  \E d \in Dependencies(t) : d \in With("planned")
<1>1. t \in PlanTasks(backtests) /\ status[t] = "planned" /\ DOMAIN status = PlanTasks(backtests)
  BY DEF With, PlanningTypeOK
<1>2. PICK d \in Dependencies(t) : status[d] # "succeeded"
  BY <1>1 DEF Ready
<1>3. d \in PlanTasks(backtests)
  BY <1>1, DependenciesArePlanned DEF PlanningTypeOK
<1>4. status[d] \in {"planned", "deferred", "succeeded"}
  BY <1>3 DEF PlanningTypeOK
<1> QED
  BY <1>1, <1>2, <1>3, <1>4 DEF With

LEMMA SomethingIsReady ==
  ASSUME PlanningTypeOK, With("deferred") = {}, With("planned") # {}
  PROVE  Ready(status) # {}
<1> SUFFICES ASSUME Ready(status) = {} PROVE FALSE
  OBVIOUS
<1> DEFINE None(stage) == \A t \in With("planned") : t.stage # stage
<1>0. \A t \in With("planned") : \E d \in Dependencies(t) : d \in With("planned")
  BY WaitsForAPlannedOne
<1>1. None("panel")
  BY <1>0 DEF Dependencies
<1>2. None("matrix")
  BY <1>0, <1>1 DEF Dependencies, Task
<1>3. None("candidate")
  BY <1>0, <1>2 DEF Dependencies, Task
<1>4. None("select")
  BY <1>0, <1>3 DEF Dependencies, Candidate
<1>5. None("refit_panel")
  BY <1>0, <1>4 DEF Dependencies, Task
<1>6. None("refit")
  BY <1>0, <1>5 DEF Dependencies, Task
<1>7. None("diagnostic_backtest")
  BY <1>0, <1>6 DEF Dependencies, Task
<1>8. None("continuous_ledger")
  BY <1>0, <1>6 DEF Dependencies, Task
<1>9. \A t \in With("planned") : t.stage \in Stages
  BY PlanFields DEF With, PlanningTypeOK, Tasks
<1> QED
  BY <1>1, <1>2, <1>3, <1>4, <1>5, <1>6, <1>7, <1>8, <1>9 DEF Stages

\* Once the continuous ledger has succeeded, every candidate has.
LEMMA LedgerIsLast ==
  ASSUME PlanningTypeOK, InOrder, Ledger \in With("succeeded"),
         NEW t \in PlanTasks(backtests), t.stage = "candidate"
  PROVE  t \in With("succeeded")
<1>1. t.year \in Years /\ t.unit \in 0..(Grid - 1) /\ t = Candidate(t.year, t.unit)
  BY PlanFields DEF PlanningTypeOK
<1>2. Task("refit", t.year) \in With("succeeded")
  <2>1. Task("refit", t.year) \in Dependencies(Ledger)
    BY <1>1 DEF Dependencies, Ledger, Task
  <2> QED
    BY <2>1 DEF InOrder
<1>3. Task("refit_panel", t.year) \in With("succeeded")
  <2>1. Task("refit_panel", t.year) \in Dependencies(Task("refit", t.year))
    BY DEF Dependencies, Task
  <2> QED
    BY <1>2, <2>1 DEF InOrder
<1>4. Task("select", t.year) \in With("succeeded")
  <2>1. Task("select", t.year) \in Dependencies(Task("refit_panel", t.year))
    BY DEF Dependencies, Task
  <2> QED
    BY <1>3, <2>1 DEF InOrder
<1>5. t \in Dependencies(Task("select", t.year))
  BY <1>1 DEF Dependencies, Task
<1> QED
  BY <1>4, <1>5 DEF InOrder

-----------------------------------------------------------------------------
(* What is put off are candidates that were selected.                        *)

PutOff == UNION {Covered(g) : g \in {h \in Groups(selected) : Deferred(h)}}

LEMMA OnlySelectedCandidatesArePutOff ==
  ASSUME PlanningTypeOK, NEW t \in PutOff
  PROVE  t \in selected /\ t.stage = "candidate" /\ ~tailFill
<1>1. selected \subseteq PlanTasks(backtests)
  BY DEF PlanningTypeOK, Ready
<1>2. PICK g \in Groups(selected) : Deferred(g) /\ t \in Covered(g)
  BY DEF PutOff
<1>3. PICK y \in CandidateYears(selected) :
        \E r \in ContiguousRuns(CandidateUnits(selected, y)) :
          g = [year |-> y, offset |-> r[1], tasks |-> r[2] - r[1] + 1]
  BY <1>2 DEF Groups
<1>31. PICK r \in ContiguousRuns(CandidateUnits(selected, y)) :
        g = [year |-> y, offset |-> r[1], tasks |-> r[2] - r[1] + 1]
  BY <1>3
<1>4. CandidateUnits(selected, y) \subseteq Int
  BY <1>1, PlanFields DEF CandidateUnits, OfStage, PlanningTypeOK
<1>5. r[1] \in Int /\ r[2] \in Int /\ r[1]..r[2] \subseteq CandidateUnits(selected, y)
  BY <1>4 DEF ContiguousRuns
<1>6. PICK i \in 0..(r[2] - r[1]) : t = Candidate(y, r[1] + i)
  BY <1>2, <1>31, <1>5 DEF Covered
<1>7. r[1] + i \in CandidateUnits(selected, y)
  BY <1>5, <1>6
<1>8. PICK c \in selected : c.stage = "candidate" /\ c.year = y /\ c.unit = r[1] + i
  BY <1>7 DEF CandidateUnits, OfStage
<1>9. c = t
  BY <1>1, <1>6, <1>8, PlanFields DEF PlanningTypeOK
<1> QED
  BY <1>2, <1>8, <1>9 DEF Deferred

-----------------------------------------------------------------------------
(* The initial states.                                                       *)

LEMMA PlanningStarts == PlanningInit => PlanningInv
<1> SUFFICES ASSUME PlanningInit PROVE PlanningInv
  OBVIOUS
<1>1. DOMAIN status = PlanTasks(backtests) /\ \A t \in DOMAIN status : status[t] = "planned"
  BY DEF PlanningInit
<1>2. With("deferred") = {} /\ With("succeeded") = {}
  BY <1>1 DEF With
<1>3. PlanningTypeOK
  BY DEF PlanningInit, PlanningTypeOK, Nothing
<1>4. WavesCount
  BY <1>2, FS_EmptySet DEF PlanningInit, WavesCount
<1>5. OnlyCandidatesWait /\ InOrder
  BY <1>2 DEF OnlyCandidatesWait, InOrder
<1>6. TurnedDown /\ WithinLimits /\ EndsWell
  BY DEF PlanningInit, TurnedDown, WithinLimits, EndsWell
<1> QED
  BY <1>3, <1>4, <1>5, <1>6 DEF PlanningInv

-----------------------------------------------------------------------------
(* `Consider`: one more task, or one turned down.                            *)

LEMMA LimitsAreNumbers ==
  ASSUME PlanningTypeOK, NEW s \in Stages
  PROVE  StageLimit(s) \in Int /\ limits.fanout \in Int
  BY PlanningAssumption DEF PlanningAssumption, PlanningTypeOK, StageLimit, Stages

LEMMA PlusIsNumbers ==
  ASSUME NEW usage \in [cpu : Int, mem : Int, slots : Int], NEW t, t.stage \in Stages
  PROVE  Plus(usage, t) \in [cpu : Int, mem : Int, slots : Int]
  BY PlanningAssumption DEF PlanningAssumption, Plus

LEMMA FiniteSelections ==
  ASSUME PlanningTypeOK, NEW S \in SUBSET PlanTasks(backtests), NEW s
  PROVE  /\ IsFiniteSet(OfStage(S, s)) /\ Cardinality(OfStage(S, s)) \in Int
         /\ IsFiniteSet(CandidateYears(S)) /\ Cardinality(CandidateYears(S)) \in Int
<1>1. IsFiniteSet(PlanTasks(backtests)) /\ OfStage(S, s) \in SUBSET PlanTasks(backtests)
  BY PlanFinite DEF OfStage, PlanningTypeOK
<1>2. IsFiniteSet(Years) /\ CandidateYears(S) \in SUBSET Years
  BY PlanningAssumption, PlanFields
  DEF PlanningAssumption, CandidateYears, OfStage, PlanningTypeOK
<1>3. IsFiniteSet(OfStage(S, s)) /\ IsFiniteSet(CandidateYears(S))
  BY <1>1, <1>2, FS_Subset
<1> QED
  BY <1>3, FS_CardinalityType

LEMMA ConsiderKeepsWithinLimits ==
  ASSUME PlanningInv, NEW t \in todo,
         FanoutFree(t, selected), CanAdmit(t, selected, used),
         selected' = selected \cup {t}, used' = Plus(used, t), limits' = limits
  PROVE  WithinLimits'
<1>0. PlanningTypeOK /\ WithinLimits
  BY DEF PlanningInv
<1>1. /\ selected \in SUBSET PlanTasks(backtests) /\ t \in PlanTasks(backtests)
      /\ selected' \in SUBSET PlanTasks(backtests)
  BY <1>0 DEF PlanningTypeOK, Ready
<1>2. \A x \in selected' : x.stage \in Stages
  BY <1>0, <1>1, PlanFields DEF PlanningTypeOK, Tasks
<1> SUFFICES ASSUME NEW x \in selected'
             PROVE  /\ used'.cpu <= limits.cpu /\ used'.mem <= limits.mem
                    /\ used'.slots <= limits.slots
                    /\ Cardinality(OfStage(selected', x.stage)) <= StageLimit(x.stage)
                    /\ x.stage = "candidate" =>
                         Cardinality(CandidateYears(selected')) <= limits.fanout
  BY DEF WithinLimits, StageLimit
<1>3. used'.cpu <= limits.cpu /\ used'.mem <= limits.mem /\ used'.slots <= limits.slots
  BY DEF CanAdmit
<1>4. Cardinality(OfStage(selected', x.stage)) <= StageLimit(x.stage)
  <2>1. CASE x.stage = t.stage
    <3>1. OfStage(selected', t.stage) = OfStage(selected, t.stage) \cup {t}
      BY DEF OfStage
    <3>2. Cardinality(OfStage(selected', t.stage)) <= Cardinality(OfStage(selected, t.stage)) + 1
      <4> DEFINE S == OfStage(selected, t.stage)
      <4>1. IsFiniteSet(S) /\ Cardinality(S) \in Int
        BY <1>0, <1>1, FiniteSelections
      <4> HIDE DEF S
      <4>2. Cardinality(S \cup {t}) = IF t \in S THEN Cardinality(S) ELSE Cardinality(S) + 1
        BY <4>1, FS_AddElement
      <4>3. Cardinality(S \cup {t}) <= Cardinality(S) + 1
        BY <4>1, <4>2
      <4> QED
        BY <3>1, <4>3 DEF S
    <3>3. Cardinality(OfStage(selected, t.stage)) + 1 <= StageLimit(t.stage)
      BY DEF CanAdmit
    <3>4. /\ Cardinality(OfStage(selected', t.stage)) \in Int
          /\ Cardinality(OfStage(selected, t.stage)) \in Int
      BY <1>0, <1>1, FiniteSelections
    <3>5. StageLimit(t.stage) \in Int
      BY <1>0, <1>2, LimitsAreNumbers
    <3> QED
      BY <2>1, <3>2, <3>3, <3>4, <3>5
  <2>2. CASE x.stage # t.stage
    <3>1. OfStage(selected', x.stage) = OfStage(selected, x.stage) /\ x \in selected
      BY <2>2 DEF OfStage
    <3> QED
      BY <1>0, <3>1 DEF WithinLimits
  <2> QED
    BY <2>1, <2>2
<1>5. ASSUME x.stage = "candidate" PROVE Cardinality(CandidateYears(selected')) <= limits.fanout
  <2>1. CASE t.stage # "candidate"
    <3>1. OfStage(selected', "candidate") = OfStage(selected, "candidate") /\ x \in selected
      BY <1>5, <2>1 DEF OfStage
    <3> QED
      BY <1>0, <1>5, <3>1 DEF WithinLimits, CandidateYears
  <2>2. CASE t.stage = "candidate" /\ t.year \in CandidateYears(selected)
    <3>1. CandidateYears(selected') = CandidateYears(selected)
      BY <2>2 DEF CandidateYears, OfStage
    <3>2. \E c \in selected : c.stage = "candidate"
      BY <2>2 DEF CandidateYears, OfStage
    <3> QED
      BY <1>0, <3>1, <3>2 DEF WithinLimits
  <2>3. CASE t.stage = "candidate" /\ t.year \notin CandidateYears(selected)
    <3>1. CandidateYears(selected') = CandidateYears(selected) \cup {t.year}
      BY <2>3 DEF CandidateYears, OfStage
    <3>2. Cardinality(CandidateYears(selected')) <= Cardinality(CandidateYears(selected)) + 1
      <4> DEFINE S == CandidateYears(selected)
      <4>1. IsFiniteSet(S) /\ Cardinality(S) \in Int
        BY <1>0, <1>1, FiniteSelections
      <4> HIDE DEF S
      <4>2. Cardinality(S \cup {t.year})
              = IF t.year \in S THEN Cardinality(S) ELSE Cardinality(S) + 1
        BY <4>1, FS_AddElement
      <4>3. Cardinality(S \cup {t.year}) <= Cardinality(S) + 1
        BY <4>1, <4>2
      <4> QED
        BY <3>1, <4>3 DEF S
    <3>3. Cardinality(CandidateYears(selected)) < limits.fanout
      BY <2>3 DEF FanoutFree
    <3> QED
      BY <1>0, <1>1, <1>2, <3>2, <3>3, FiniteSelections, LimitsAreNumbers
  <2> QED
    BY <2>1, <2>2, <2>3
<1> QED
  BY <1>3, <1>4, <1>5

LEMMA TurnedDownDoesNotFit ==
  ASSUME NEW t, ~(FanoutFree(t, {}) /\ CanAdmit(t, {}, Nothing)), limits.fanout \in Int
  PROVE  ~Fits(t)
<1>1. CandidateYears({}) = {}
  BY DEF CandidateYears, OfStage
<1>2. Cardinality(CandidateYears({})) = 0
  BY <1>1, FS_EmptySet
<1> QED
  BY <1>2 DEF FanoutFree, Fits

LEMMA ConsiderKeeps == PlanningInv /\ Consider => PlanningInv'
<1> SUFFICES ASSUME PlanningInv, Consider PROVE PlanningInv'
  OBVIOUS
<1>0. /\ PlanningTypeOK /\ OnlyCandidatesWait /\ InOrder /\ WavesCount /\ TurnedDown
      /\ WithinLimits /\ EndsWell
  BY DEF PlanningInv
<1>1. PICK t \in todo :
        /\ todo' = todo \ {t}
        /\ IF FanoutFree(t, selected) /\ CanAdmit(t, selected, used)
           THEN selected' = selected \cup {t} /\ used' = Plus(used, t)
           ELSE UNCHANGED <<selected, used>>
  BY DEF Consider
<1>2. /\ UNCHANGED <<limits, minBatch, tailFill, backtests, status, wave, outcome>>
      /\ outcome = "going"
  BY DEF Consider
<1>3. t \in Ready(status) /\ t.stage \in Stages
  BY <1>0, PlanFields DEF PlanningTypeOK, Ready, Tasks
<1>4. With("deferred")' = With("deferred") /\ With("succeeded")' = With("succeeded")
  BY <1>2 DEF With
<1>5. PlanningTypeOK'
  <2>1. used' \in [cpu : Int, mem : Int, slots : Int]
    BY <1>0, <1>1, <1>3, PlusIsNumbers DEF PlanningTypeOK
  <2>2. todo' \subseteq Ready(status) /\ selected' \subseteq Ready(status)
    BY <1>0, <1>1, <1>3 DEF PlanningTypeOK
  <2> QED
    BY <1>0, <1>2, <2>1, <2>2 DEF PlanningTypeOK
<1>6. OnlyCandidatesWait' /\ InOrder' /\ WavesCount' /\ EndsWell'
  BY <1>0, <1>2, <1>4 DEF OnlyCandidatesWait, InOrder, WavesCount, EndsWell
<1>7. CASE FanoutFree(t, selected) /\ CanAdmit(t, selected, used)
  <2>1. WithinLimits'
    BY <1>1, <1>2, <1>7, ConsiderKeepsWithinLimits
  <2>2. TurnedDown'
    BY <1>1, <1>7 DEF TurnedDown
  <2> QED
    BY <1>5, <1>6, <2>1, <2>2 DEF PlanningInv
<1>8. CASE ~(FanoutFree(t, selected) /\ CanAdmit(t, selected, used))
  <2>1. UNCHANGED <<selected, used>>
    BY <1>1, <1>8
  <2>2. WithinLimits'
    BY <1>0, <1>2, <2>1 DEF WithinLimits, StageLimit
  <2>3. TurnedDown'
    <3> SUFFICES ASSUME selected = {}
                 PROVE  used = Nothing /\ \A x \in Ready(status) \ todo' : ~Fits(x)'
      BY <1>2, <2>1 DEF TurnedDown
    <3>1. used = Nothing /\ \A x \in Ready(status) \ todo : ~Fits(x)
      BY <1>0, <1>2 DEF TurnedDown
    <3>2. ~Fits(t)
      BY <1>0, <1>3, <1>8, <3>1, TurnedDownDoesNotFit, LimitsAreNumbers
    <3>3. \A x \in Ready(status) \ todo' : ~Fits(x)
      BY <1>1, <3>1, <3>2
    <3>4. \A x \in Ready(status) : Fits(x)' <=> Fits(x)
      BY <1>2 DEF Fits, CanAdmit, StageLimit
    <3> QED
      BY <3>1, <3>3, <3>4
  <2> QED
    BY <1>5, <1>6, <2>2, <2>3 DEF PlanningInv
<1> QED
  BY <1>7, <1>8

-----------------------------------------------------------------------------
(* `Stop`: nothing was admitted.                                             *)

LEMMA NothingLeftMeansDone ==
  ASSUME PlanningTypeOK, OnlyCandidatesWait, InOrder, With("planned") = {}
  PROVE  With("succeeded") = DOMAIN status
<1>1. DOMAIN status = PlanTasks(backtests)
  BY DEF PlanningTypeOK
<1>2. \A t \in DOMAIN status : t \in With("succeeded") \/ t \in With("deferred")
  BY DEF With, PlanningTypeOK
<1>3. Ledger \in With("succeeded")
  <2>1. Ledger \in DOMAIN status
    BY <1>1, PlanMembers DEF PlanningTypeOK
  <2>2. Ledger.stage # "candidate"
    BY DEF Ledger, Task
  <2> QED
    BY <1>2, <2>1, <2>2 DEF OnlyCandidatesWait
<1>4. ASSUME NEW t \in DOMAIN status PROVE t \in With("succeeded")
  BY <1>1, <1>2, <1>3, LedgerIsLast DEF OnlyCandidatesWait
<1> QED
  BY <1>4 DEF With

LEMMA StopKeeps == PlanningInv /\ Stop => PlanningInv'
<1> SUFFICES ASSUME PlanningInv, Stop PROVE PlanningInv'
  OBVIOUS
<1>0. /\ PlanningTypeOK /\ OnlyCandidatesWait /\ InOrder /\ TurnedDown
  BY DEF PlanningInv
<1>1. /\ UNCHANGED <<limits, minBatch, tailFill, backtests, status, todo, selected, used,
                     wave>>
      /\ outcome = "going" /\ todo = {} /\ selected = {}
      /\ outcome' = IF With("planned") = {} THEN "end"
                    ELSE IF With("deferred") # {} THEN "blocked" ELSE "deadlock"
  BY DEF Stop
<1>2. /\ With("deferred")' = With("deferred") /\ With("succeeded")' = With("succeeded")
      /\ Ready(status)' = Ready(status)
  BY <1>1 DEF With
<1>3. PlanningTypeOK'
  BY <1>0, <1>1, <1>2 DEF PlanningTypeOK
<1>4. OnlyCandidatesWait' /\ InOrder'
  BY <1>0, <1>1, <1>2 DEF OnlyCandidatesWait, InOrder
<1>5. WavesCount' /\ TurnedDown' /\ WithinLimits'
  BY <1>1 DEF WavesCount, TurnedDown, WithinLimits
<1>6. EndsWell'
  <2>1. outcome' = "end" => With("succeeded") = DOMAIN status
    BY <1>0, <1>1, NothingLeftMeansDone
  <2>2. outcome' = "blocked" => ~tailFill /\ With("deferred") # {}
    BY <1>0, <1>1 DEF OnlyCandidatesWait
  <2>3. outcome' = "deadlock" => \E t \in Ready(status) : ~Fits(t)
    <3> SUFFICES ASSUME With("planned") # {}, With("deferred") = {}
                 PROVE  \E t \in Ready(status) : ~Fits(t)
      BY <1>1
    <3>1. Ready(status) # {}
      BY <1>0, SomethingIsReady
    <3> QED
      BY <1>0, <1>1, <3>1 DEF TurnedDown
  <2>4. \A t \in Ready(status) : Fits(t)' <=> Fits(t)
    BY <1>1 DEF Fits, CanAdmit, StageLimit
  <2> QED
    BY <1>1, <1>2, <2>1, <2>2, <2>3, <2>4 DEF EndsWell
<1> QED
  BY <1>3, <1>4, <1>5, <1>6 DEF PlanningInv

-----------------------------------------------------------------------------
(* `EndWave`: what was selected is grouped, and marked.                      *)

LEMMA EndWaveKeeps == PlanningInv /\ EndWave => PlanningInv'
<1> SUFFICES ASSUME PlanningInv, EndWave PROVE PlanningInv'
  OBVIOUS
<1> DEFINE sent == selected \ PutOff
<1>0. PlanningTypeOK /\ OnlyCandidatesWait /\ InOrder /\ WavesCount
  BY DEF PlanningInv
<1>1. /\ status' = [t \in DOMAIN status |->
                      IF t \in PutOff THEN "deferred"
                      ELSE IF t \in sent THEN "succeeded" ELSE status[t]]
      /\ todo' = {} \/ todo' = Ready(status')
      /\ outcome' = "going" => todo' = Ready(status')
      /\ outcome' = IF sent = {} THEN "blocked"
                    ELSE IF wave = Cardinality(DOMAIN status) THEN "end" ELSE "going"
  BY DEF EndWave, PutOff
<1>2. /\ outcome = "going" /\ selected # {}
      /\ wave' = wave + 1 /\ selected' = {} /\ used' = Nothing
      /\ UNCHANGED <<limits, minBatch, tailFill, backtests>>
  BY DEF EndWave
<1>3. \A t \in PutOff : t \in selected /\ t.stage = "candidate" /\ ~tailFill
  BY <1>0, OnlySelectedCandidatesArePutOff
<1>4. DOMAIN status = PlanTasks(backtests) /\ DOMAIN status' = DOMAIN status
  BY <1>0, <1>1 DEF PlanningTypeOK
<1>5. \A t \in selected : /\ t \in DOMAIN status /\ status[t] = "planned"
                          /\ \A d \in Dependencies(t) : status[d] = "succeeded"
  BY <1>0 DEF PlanningTypeOK, Ready
<1> HIDE DEF sent
<1>6. With("deferred")' = With("deferred") \cup PutOff
  BY <1>1, <1>3, <1>4, <1>5 DEF With, sent
<1>7. With("succeeded")' = With("succeeded") \cup sent
  BY <1>1, <1>3, <1>4, <1>5 DEF With, sent
<1>8. PlanningTypeOK'
  <2>1. status' \in [PlanTasks(backtests) -> {"planned", "deferred", "succeeded"}]
    BY <1>0, <1>1, <1>4 DEF PlanningTypeOK
  <2>2. used' \in [cpu : Int, mem : Int, slots : Int]
    BY <1>2 DEF Nothing
  <2>3. outcome' \in {"going", "end", "blocked", "deadlock"}
    BY <1>1
  <2>4. todo' \subseteq Ready(status') /\ selected' \subseteq Ready(status')
    BY <1>1, <1>2
  <2> QED
    BY <1>0, <1>2, <2>1, <2>2, <2>3, <2>4 DEF PlanningTypeOK
<1>9. OnlyCandidatesWait'
  BY <1>0, <1>2, <1>3, <1>6 DEF OnlyCandidatesWait
<1>10. InOrder'
  <2>1. ASSUME NEW t \in With("succeeded") \cup sent
        PROVE  Dependencies(t) \subseteq With("succeeded")
    <3>1. CASE t \in With("succeeded")
      BY <1>0, <3>1 DEF InOrder
    <3>2. CASE t \in sent
      <4>1. t \in PlanTasks(backtests) /\ \A d \in Dependencies(t) : status[d] = "succeeded"
        BY <1>4, <1>5, <3>2 DEF sent
      <4>2. Dependencies(t) \subseteq PlanTasks(backtests)
        BY <1>0, <4>1, DependenciesArePlanned DEF PlanningTypeOK
      <4> QED
        BY <1>4, <4>1, <4>2 DEF With
    <3> QED
      BY <2>1, <3>1, <3>2
  <2> QED
    BY <1>7, <2>1 DEF InOrder
<1>11. /\ IsFiniteSet(DOMAIN status) /\ With("succeeded") \in SUBSET DOMAIN status
       /\ With("succeeded") \cup sent \in SUBSET DOMAIN status
  BY <1>0, <1>4, <1>5, PlanFinite DEF With, PlanningTypeOK, sent
<1>12. ASSUME sent # {}
       PROVE  /\ Cardinality(With("succeeded") \cup sent) \in Nat
              /\ wave <= Cardinality(With("succeeded") \cup sent)
  <2> DEFINE before == With("succeeded")
             after == With("succeeded") \cup sent
  <2>1. IsFiniteSet(before) /\ IsFiniteSet(after)
    BY <1>11, FS_Subset
  <2>2. Cardinality(before) \in Nat /\ Cardinality(after) \in Nat
    BY <2>1, FS_CardinalityType
  <2>3. wave \in Nat /\ wave <= Cardinality(before) + 1
    BY <1>0, <1>2 DEF PlanningTypeOK, WavesCount
  <2>4. before \in SUBSET after /\ before # after
    BY <1>5, <1>12 DEF With, sent
  <2> HIDE DEF before, after
  <2>5. Cardinality(before) <= Cardinality(after) /\ Cardinality(before) # Cardinality(after)
    BY <2>1, <2>4, FS_Subset
  <2>6. wave <= Cardinality(after)
    BY <2>2, <2>3, <2>5
  <2> QED
    BY <2>2, <2>6 DEF after
<1>13. WavesCount'
  <2> SUFFICES ASSUME outcome' = "going"
               PROVE  wave' <= Cardinality(With("succeeded") \cup sent) + 1
    BY <1>7 DEF WavesCount
  <2>1. /\ wave \in Nat /\ Cardinality(With("succeeded") \cup sent) \in Nat
        /\ wave <= Cardinality(With("succeeded") \cup sent)
    BY <1>0, <1>1, <1>12 DEF PlanningTypeOK
  <2> QED
    BY <1>2, <2>1
<1>14. TurnedDown' /\ WithinLimits'
  BY <1>1, <1>2 DEF TurnedDown, WithinLimits
<1>15. EndsWell'
  <2>1. ASSUME outcome' = "end" PROVE With("succeeded") \cup sent = DOMAIN status
    <3> DEFINE after == With("succeeded") \cup sent
    <3>1. sent # {} /\ wave = Cardinality(DOMAIN status)
      BY <1>1, <2>1
    <3>2. Cardinality(DOMAIN status) \in Nat
      BY <1>11, FS_CardinalityType
    <3>3. /\ Cardinality(after) \in Nat /\ wave <= Cardinality(after)
          /\ after \in SUBSET DOMAIN status
      BY <1>11, <1>12, <3>1
    <3> HIDE DEF after
    <3>4. /\ Cardinality(after) <= Cardinality(DOMAIN status)
          /\ Cardinality(DOMAIN status) = Cardinality(after) => DOMAIN status = after
      BY <1>11, <3>3, FS_Subset
    <3>5. Cardinality(DOMAIN status) = Cardinality(after)
      BY <3>1, <3>2, <3>3, <3>4
    <3> QED
      BY <3>4, <3>5 DEF after
  <2>2. ASSUME outcome' = "blocked" PROVE ~tailFill /\ PutOff # {}
    BY <1>1, <1>2, <1>3, <2>2 DEF sent
  <2> QED
    BY <1>1, <1>2, <1>4, <1>6, <1>7, <2>1, <2>2 DEF EndsWell
<1> QED
  BY <1>8, <1>9, <1>10, <1>13, <1>14, <1>15 DEF PlanningInv

-----------------------------------------------------------------------------
LEMMA PlanningStands == PlanningInv /\ UNCHANGED planning => PlanningInv'
<1> SUFFICES ASSUME PlanningInv, UNCHANGED planning PROVE PlanningInv'
  OBVIOUS
<1>1. UNCHANGED <<limits, minBatch, tailFill, backtests, status, todo, selected, used,
                  wave, outcome>>
  BY DEF planning
<1>2. /\ With("deferred")' = With("deferred") /\ With("succeeded")' = With("succeeded")
      /\ \A t \in Ready(status) : Fits(t)' <=> Fits(t)
  BY <1>1 DEF With, Fits, CanAdmit, StageLimit
<1>3. PlanningTypeOK'
  BY <1>1 DEF PlanningInv, PlanningTypeOK
<1>4. OnlyCandidatesWait' /\ InOrder' /\ WavesCount'
  BY <1>1, <1>2 DEF PlanningInv, OnlyCandidatesWait, InOrder, WavesCount
<1>5. TurnedDown' /\ EndsWell'
  BY <1>1, <1>2 DEF PlanningInv, TurnedDown, EndsWell
<1>6. WithinLimits'
  BY <1>1 DEF PlanningInv, WithinLimits, StageLimit
<1> QED
  BY <1>3, <1>4, <1>5, <1>6 DEF PlanningInv

THEOREM PlanningInvariance == PlanningSpec => []PlanningInv
<1>1. PlanningInit => PlanningInv
  BY PlanningStarts
<1>2. PlanningInv /\ [PlanningNext]_planning => PlanningInv'
  BY ConsiderKeeps, StopKeeps, EndWaveKeeps, PlanningStands DEF PlanningNext
<1> QED
  BY <1>1, <1>2, PTL DEF PlanningSpec

THEOREM PlanningTypeCorrect == PlanningSpec => []PlanningTypeOK
<1>1. PlanningInv => PlanningTypeOK
  BY DEF PlanningInv
<1> QED
  BY <1>1, PlanningInvariance, PTL

\* What a wave of the planner submits at once stays within the shared tokens, the
\* limits of the stages and the number of fan-outs, whatever the limits are
\* (select_admissible_tasks, annual_pipeline_scheduler.py).
THEOREM WavesStayWithinLimits == PlanningSpec => []WithinLimits
<1>1. PlanningInv => WithinLimits
  BY DEF PlanningInv
<1> QED
  BY <1>1, PlanningInvariance, PTL

\* A dry run that ends without an error has planned every task, only candidates put
\* off without tail filling block one, and a deadlock means a task too large for the
\* limits (simulate_dry_run_schedule, annual_pipeline_scheduler.py).
THEOREM PlanningEndsWell == PlanningSpec => []EndsWell
<1>1. PlanningInv => EndsWell
  BY DEF PlanningInv
<1> QED
  BY <1>1, PlanningInvariance, PTL
================================================================================
