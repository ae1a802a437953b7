---------------------------- MODULE MCOrchestrator ----------------------------
(* Do the programs of an experiment chain end: the pool of experiments       *)
(* (ExperimentPool), of which the second backtests the predictions of the    *)
(* first, or one orchestrator that runs a step (LockedStep).                 *)
EXTENDS ExperimentPool

CONSTANTS o1, NoOne

MCSelected == <<1, 2>>
MCPredicts == <<1, 1>>

\* the first run; resumed with smaller batches; all at once with one job that trains
\* and predicts, from that job, which the second experiment does not have
MCArguments ==
  {Args(1, 2, TRUE, FALSE, FALSE, Named("none")), Args(1, 1, TRUE, TRUE, TRUE, Named("none")),
   Args(0, 0, FALSE, FALSE, TRUE, Named("train_predict"))}

VARIABLES program, gen, left, owner, exec, lastGen, row, job, pc, my, got, hb, stop, abort,
          fault, erased

Orchestrator ==
  INSTANCE LockedStep WITH Runner <- {o1}, Resuming <- {o1}, Lease <- 0, MaxGen <- 3

step == <<gen, left, owner, exec, lastGen, row, job, pc, my, got, hb, stop, abort, fault, erased>>

\* Only one of the two programs runs; the other one is over, or never started.
MCInit ==
  /\ Init
  /\ \/ program = "step" /\ Orchestrator!Init
     \/ /\ program = "pool"
        /\ gen = 0 /\ left = -1 /\ owner = NoOne /\ exec = NoOne /\ lastGen = 0
        /\ row = [status |-> "none", by |-> NoOne]
        /\ job = [r \in {o1} |-> "none"]
        /\ pc = [r \in {o1} |-> "killed"]
        /\ my = [r \in {o1} |-> 0]
        /\ got = [r \in {o1} |-> [seen |-> 0, exp |-> -1]]
        /\ hb = [r \in {o1} |-> Orchestrator!HbAt("off")]
        /\ stop = [r \in {o1} |-> FALSE] /\ abort = [r \in {o1} |-> FALSE]
        /\ fault = [r \in {o1} |-> FALSE] /\ erased = [r \in {o1} |-> FALSE]

MCNext ==
  /\ UNCHANGED program
  /\ \/ program = "step" /\ Orchestrator!Next /\ UNCHANGED vars
     \/ program = "pool" /\ Next /\ UNCHANGED step

MCSpec ==
  MCInit /\ [][MCNext]_<<program, vars, step>> /\ Fairness /\ Orchestrator!Fairness

\* The orchestrator of a step, and the one of a pool, ends unless it is killed.
EveryProgramEnds == Orchestrator!EveryStepEnds /\ PoolEnds
=============================================================================
