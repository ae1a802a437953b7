---------------------------- MODULE ExperimentPool ----------------------------
(***************************************************************************)
(* The experiment orchestrator (pipeline_control.py): a thread per selected*)
(* experiment goes through the experiment's chain of Cloud Run steps, up to*)
(* max_workers at a time; the main thread collects results and refills the *)
(* pool.  It may be killed and started again, with --resume, another step  *)
(* to begin with, or another division of the candidates into batches.      *)
(*                                                                         *)
(* run_locked_step is abstracted to its outcomes (LockedStep has its       *)
(* detail): an execution is held while its lock lasts, which is as long as *)
(* it runs, after a kill too, unless the step was given up.  What a step   *)
(* makes lasts; a step whose inputs are not there fails.                   *)
(***************************************************************************)
EXTENDS Integers, Sequences, FiniteSets

CONSTANTS
  Selected,   \* the experiments of the manifest that were selected, in order
  Predicts,   \* the experiment whose predictions each of them backtests:
              \* itself (requires_retrain), or another one
  Units,      \* number of work units, the candidate grid
  Arguments,  \* command lines, see Args
  MaxStarts   \* bound: starts of the orchestrator

\* resolve_parallel_count and resolve_candidate_parallel_count refuse negative numbers
\* and an empty grid.
ASSUME PoolAssumption ==
  /\ Selected \in Seq({Selected[i] : i \in 1 .. Len(Selected)})
  /\ Units \in Nat \ {0}
  /\ \A a \in Arguments : a.parallel \in Nat /\ a.batch \in Nat

VARIABLES
  args,       \* command line of this start
  starts,
  phase,      \* main thread: "off", "submit", "running", "ended", "killed"
  queue,      \* queued
  stopping,   \* stop_submitting
  results,    \* status by experiment; "none"
  chain,      \* run_chain of each experiment: where it is, and at which step
  rows,       \* status table, by experiment and step_id
  executions, \* Cloud Run executions that are running
  made        \* what steps have made

vars == <<args, starts, phase, queue, stopping, results, chain, rows, executions, made>>
main == <<args, starts, phase, queue, stopping, results>>

Experiments == {Selected[i] : i \in 1 .. Len(Selected)}

\* parallel: --max-parallel-experiments; batch: --candidate-parallelism;
\* from: --resume-from-step, or Named("none")
Args(parallel, batch, fanout, continue, resume, from) ==
  [parallel |-> parallel, batch |-> batch, fanout |-> fanout, continue |-> continue,
   resume |-> resume, from |-> from]

Least(a, b) == IF a < b THEN a ELSE b

Step(id, needs, makes) == [id |-> id, needs |-> needs, makes |-> makes]

\* max_workers; 0 stands for as many as there are experiments
Workers == IF args.parallel = 0 THEN Len(Selected) ELSE Least(args.parallel, Len(Selected))

\* step_ids and products: a name, and the number of a batch or work unit
Named(name) == <<name, 0>>
Made(e, name) == <<e, name, 0>>
MadeUnits(e, units) == {<<e, "unit", u>> : u \in units}
AllUnits == 1 .. Units

\* batch_size_limit: only the command line makes more than one batch
BatchSize == IF args.batch = 0 THEN Units ELSE Least(args.batch, Units)

\* build_task_fanout_steps.  A batch is named by its number, whatever its size.
Batches(e) ==
  [i \in 1 .. (Units + BatchSize - 1) \div BatchSize |->
     Step(IF BatchSize = Units THEN Named("fanout") ELSE <<"batch", i>>,
          {Made(e, "matrix")},
          MadeUnits(e, ((i - 1) * BatchSize + 1) .. Least(i * BatchSize, Units)))]

FanoutSteps(e) ==
  <<Step(Named("prepare"), {}, {Made(e, "matrix")})>> \o Batches(e)
    \o <<Step(Named("select"), MadeUnits(e, AllUnits), {Made(e, "predictions")})>>

\* build_chain_steps
Chain(e) ==
  (IF Predicts[e] # e THEN <<>>
   ELSE IF args.fanout THEN FanoutSteps(e)
   ELSE <<Step(Named("train_predict"), {}, {Made(e, "trained"), Made(e, "predictions")})>>)
    \o <<Step(Named("backtest"), {Made(Predicts[e], "predictions")}, {Made(e, "backtest")})>>

StepIds == {Named(n) : n \in {"prepare", "fanout", "select", "train_predict", "backtest"}}
             \cup {<<"batch", i>> : i \in AllUnits}

Out == [pc |-> "out", at |-> 0]

Init ==
  /\ args = Args(0, 0, FALSE, FALSE, FALSE, Named("none")) /\ starts = 0 /\ phase = "off"
  /\ queue = <<>> /\ stopping = FALSE
  /\ results = [e \in Experiments |-> "none"]
  /\ chain = [e \in Experiments |-> Out]
  /\ rows = [e \in Experiments |-> [s \in StepIds |-> "none"]]
  /\ executions = {} /\ made = {}

-----------------------------------------------------------------------------
(* The main thread.                                                        *)

Active(c) == {e \in Experiments : c[e].pc # "out"}

\* As many of the queue as there is room for are submitted.
Fill(c, q) ==
  LET n == Least(Workers - Cardinality(Active(c)), Len(q))
  IN /\ queue' = SubSeq(q, n + 1, Len(q))
     /\ chain' = [e \in Experiments |->
          IF \E i \in 1 .. n : q[i] = e THEN [pc |-> "begin", at |-> 1] ELSE c[e]]

\* The program is started, or started again.
Configure ==
  /\ phase # "running" /\ starts < MaxStarts
  /\ starts' = starts + 1
  /\ args' \in Arguments
  /\ phase' = "submit"
  /\ queue' = Selected /\ stopping' = FALSE
  /\ results' = [e \in Experiments |-> "none"]
  /\ UNCHANGED <<chain, rows, executions, made>>

Submit ==
  /\ phase = "submit" /\ phase' = "running"
  /\ Fill(chain, queue)
  /\ UNCHANGED <<args, starts, stopping, results, rows, executions, made>>

Finished == {e \in Experiments : chain[e].pc \in {"returned", "raised"}}

\* All futures that are done are collected, then the pool is refilled unless
\* one of them has failed.
Collect ==
  /\ phase = "running" /\ Finished # {}
  /\ results' = [e \in Experiments |->
       IF e \notin Finished THEN results[e]
       ELSE IF chain[e].pc = "returned" THEN "succeeded" ELSE "failed"]
  /\ stopping' = (stopping \/ (~args.continue /\ \E e \in Finished : chain[e].pc = "raised"))
  /\ LET left == [e \in Experiments |-> IF e \in Finished THEN Out ELSE chain[e]]
     IN IF stopping' THEN chain' = left /\ UNCHANGED queue ELSE Fill(left, queue)
  /\ UNCHANGED <<args, starts, phase, rows, executions, made>>

\* What is still queued was skipped.
End ==
  /\ phase = "running" /\ Active(chain) = {}
  /\ phase' = "ended"
  /\ results' = [e \in Experiments |->
       IF \E i \in 1 .. Len(queue) : queue[i] = e THEN "skipped" ELSE results[e]]
  /\ UNCHANGED <<args, starts, queue, stopping, chain, rows, executions, made>>

\* The exit status: failure_count or skipped_count
ExitsZero == \A e \in Experiments : results[e] \notin {"failed", "skipped"}

\* The process is killed; its executions go on, and hold their locks.
Kill ==
  /\ phase = "running" /\ phase' = "killed"
  /\ chain' = [e \in Experiments |-> Out]
  /\ UNCHANGED <<args, starts, queue, stopping, results, rows, executions, made>>

-----------------------------------------------------------------------------
(* run_chain and the outcomes of run_locked_step.                          *)

Current(e) == Chain(e)[chain[e].at]
Goto(e, pc, at) == chain' = [chain EXCEPT ![e] = [pc |-> pc, at |-> at]]
Raise(e) == Goto(e, "raised", chain[e].at)
Row(e, status) == [rows EXCEPT ![e][Current(e).id] = status]

\* --resume-from-step: the steps before it are skipped; not a step of this
\* experiment is an error.
BeginChain(e) ==
  /\ chain[e].pc = "begin"
  /\ LET ids == {i \in 1 .. Len(Chain(e)) : Chain(e)[i].id = args.from}
     IN \/ args.from = Named("none") /\ Goto(e, "go", 1)
        \/ args.from # Named("none") /\ ids = {} /\ Raise(e)
        \/ \E i \in ids : Goto(e, "go", i)
  /\ UNCHANGED <<main, rows, executions, made>>

ReturnChain(e) ==
  /\ chain[e].pc = "go" /\ chain[e].at > Len(Chain(e))
  /\ Goto(e, "returned", chain[e].at)
  /\ UNCHANGED <<main, rows, executions, made>>

\* Mutant: a step that is still running is taken for done.
DoneOrRunning(e) == rows[e][Current(e).id] \in {"succeeded", "running"}

\* status_table.get_status
IsDone(e) == rows[e][Current(e).id] = "succeeded"

Skip(e) ==
  /\ chain[e].pc = "go" /\ chain[e].at <= Len(Chain(e)) /\ args.resume
  /\ \/ IsDone(e) /\ Goto(e, "go", chain[e].at + 1)
     \/ Raise(e)
  /\ UNCHANGED <<main, rows, executions, made>>

Execution(e, held) == [exp |-> e, step |-> Current(e), held |-> held]
Locked(e) == \E x \in executions : x.exp = e /\ x.step.id = Current(e).id /\ x.held

\* The lock is busy or cannot be had; or the execution is started, and the
\* orchestrator waits for it or, by an error, does not.
RunStep(e) ==
  /\ chain[e].pc = "go" /\ chain[e].at <= Len(Chain(e))
  /\ ~(args.resume /\ IsDone(e))
  /\ \/ /\ rows' \in {rows, Row(e, "cancelled")}
        /\ Raise(e) /\ UNCHANGED executions
     \/ /\ ~Locked(e)
        /\ \/ /\ executions' = executions \cup {Execution(e, TRUE)}
              /\ rows' = Row(e, "running") /\ Goto(e, "wait", chain[e].at)
           \/ /\ executions' \in {executions, executions \cup {Execution(e, FALSE)}}
              /\ rows' \in {rows, Row(e, "running"), Row(e, "failed")} /\ Raise(e)
  /\ UNCHANGED <<main, made>>

\* It stops waiting, and the lock is released.
GiveUp(e) ==
  /\ chain[e].pc = "wait"
  /\ executions' = (executions \ {Execution(e, TRUE)}) \cup {Execution(e, FALSE)}
  /\ rows' \in {rows, Row(e, "failed")} /\ Raise(e)
  /\ UNCHANGED <<main, made>>

\* The last row is written, or the status table fails.
Settle(e) ==
  /\ chain[e].pc \in {"won", "lost"}
  /\ \/ /\ chain[e].pc = "won" /\ rows' = Row(e, "succeeded")
        /\ Goto(e, "go", chain[e].at + 1)
     \/ /\ rows' \in {rows, Row(e, "failed")}
                       \cup (IF chain[e].pc = "won" THEN {Row(e, "succeeded")} ELSE {})
        /\ Raise(e)
  /\ UNCHANGED <<main, executions, made>>

\* An execution ends; one that finds its inputs may succeed.
ExecutionEnds(x) ==
  /\ x \in executions /\ executions' = executions \ {x}
  /\ \E won \in {w \in BOOLEAN : w => x.step.needs \subseteq made} :
       /\ made' = made \cup (IF won THEN x.step.makes ELSE {})
       /\ chain' = [chain EXCEPT ![x.exp].pc =
            IF @ = "wait" /\ x = Execution(x.exp, TRUE) THEN IF won THEN "won" ELSE "lost" ELSE @]
  /\ UNCHANGED <<main, rows>>

Thread(e) == BeginChain(e) \/ ReturnChain(e) \/ Skip(e) \/ RunStep(e) \/ Settle(e)

Next ==
  \/ Configure \/ Submit \/ Collect \/ End \/ Kill
  \/ \E e \in Experiments : Thread(e) \/ GiveUp(e)
  \/ \E x \in executions : ExecutionEnds(x)

\* The threads are scheduled and their calls return; executions end, at the
\* latest by the task timeout of their job.
Fairness ==
  /\ WF_vars(Submit) /\ WF_vars(Collect) /\ WF_vars(End)
  /\ \A e \in Experiments :
       /\ WF_vars(Thread(e))
       /\ WF_vars(\E x \in executions : x.exp = e /\ x.held /\ ExecutionEnds(x))

Spec == Init /\ [][Next]_vars /\ Fairness

-----------------------------------------------------------------------------
\* The predictions of an experiment come from one job, or from every work unit over
\* the matrix.
Trained(e) ==
  \/ Made(e, "trained") \in made
  \/ MadeUnits(e, AllUnits) \cup {Made(e, "matrix")} \subseteq made

\* Its backtest is there, and all that the backtest rests on.
Stands(e) ==
  /\ {Made(e, "backtest"), Made(Predicts[e], "predictions")} \subseteq made
  /\ Trained(Predicts[e])

\* The report of an orchestrator that ended is true: one that is said to have
\* succeeded has its backtest and all it rests on, whatever was skipped
\* as done by an earlier start, with other batches or another training mode
\* too; every experiment has a result; and it exits with 0 only if all of them
\* succeeded.
ReportIsTrue ==
  phase = "ended" =>
    /\ \A e \in Experiments : results[e] # "none"
    /\ \A e \in Experiments : results[e] = "succeeded" => Stands(e)
    /\ ExitsZero => \A e \in Experiments : Stands(e)

\* An orchestrator that is not killed ends.
PoolEnds == phase = "running" ~> phase # "running"

-----------------------------------------------------------------------------
(* The inductive invariant of ReportIsTrue.                                *)

NoArgs == Args(0, 0, FALSE, FALSE, FALSE, Named("none"))
Statuses == {"none", "running", "succeeded", "failed", "cancelled"}

TypeOK ==
  /\ args \in Arguments \cup {NoArgs}
  /\ phase \in {"off", "submit", "running", "ended", "killed"}
  /\ queue \in Seq(Experiments)
  /\ results \in [Experiments -> {"none", "succeeded", "failed", "skipped"}]
  /\ chain \in [Experiments ->
                 [pc : {"out", "begin", "go", "wait", "won", "lost", "returned", "raised"},
                  at : Nat]]
  /\ rows \in [Experiments -> [StepIds -> Statuses]]

\* What a product rests on is in a set of products.
RestsIn(p, set) ==
  /\ p[2] = "backtest" => Made(Predicts[p[1]], "predictions") \in set
  /\ p[2] = "predictions" => \/ Made(p[1], "trained") \in set
                             \/ MadeUnits(p[1], AllUnits) \subseteq set
  /\ p[2] = "unit" => Made(p[1], "matrix") \in set

\* A step asks for what its products rest on.
WellFed(step) == \A p \in step.makes : RestsIn(p, step.needs \cup step.makes)

\* Nothing was made of what was not there.
Founded ==
  /\ \A p \in made : RestsIn(p, made)
  /\ \A x \in executions : WellFed(x.step)

\* Where a chain is, and that its end is only reached with a backtest.
ChainIsTrue(e) ==
  /\ chain[e].pc = "go" => chain[e].at \in 1 .. Len(Chain(e)) + 1
  /\ chain[e].pc \in {"wait", "won", "lost"} => chain[e].at \in 1 .. Len(Chain(e))
  /\ chain[e].pc = "won" => Current(e).makes \subseteq made
  /\ \/ chain[e].pc = "go" /\ chain[e].at = Len(Chain(e)) + 1
     \/ chain[e].pc = "returned"
     \/ rows[e][Named("backtest")] = "succeeded"
     \/ results[e] = "succeeded"
     => Made(e, "backtest") \in made

\* While the pool runs, it has room for its chains, and nobody is lost between
\* queue, pool and results.
PoolIsKept ==
  /\ phase # "running" => Active(chain) = {}
  /\ phase = "submit" => queue = Selected
  /\ phase = "running" => /\ Cardinality(Active(chain)) <= Workers
                          /\ \A e \in Experiments : results[e] # "none" \/ e \in Active(chain)
                                \/ \E i \in 1 .. Len(queue) : queue[i] = e
  /\ phase = "ended" => \A e \in Experiments : results[e] # "none"

IInv == TypeOK /\ Founded /\ (\A e \in Experiments : ChainIsTrue(e)) /\ PoolIsKept
=============================================================================
