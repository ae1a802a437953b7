------------------------- MODULE ExperimentPoolProofs -------------------------
(***************************************************************************)
(* For any experiments, numbers of work units and command lines, however   *)
(* often the orchestrator is killed and started again: its report is true. *)
(*                                                                         *)
(* A step asks for all that its products rest on (WellFed), so what was    *)
(* made is founded whatever steps were skipped; and a chain is only left   *)
(* at its end past its last step, the backtest.                            *)
(*                                                                         *)
(* And for any securities, market, corporate actions and settings: what    *)
(* the ledger could not sell stays on its list, what it buys is paid for,  *)
(* and a run resumed from it goes on exactly as it would have (Ledger).    *)
(* The day of one account is a function of the account and the market:     *)
(* accounts that agree before it agree after it (SameWalk).                *)
(***************************************************************************)
EXTENDS ExperimentPool, Ledger, SequenceTheorems, FiniteSetTheorems,
        WellFoundedInduction, TLAPS

-----------------------------------------------------------------------------
(* The chain of an experiment.                                             *)

LEMMA Numbers ==
  ASSUME TypeOK
  PROVE  /\ args.parallel \in Nat /\ args.batch \in Nat
         /\ Len(Selected) \in Nat /\ Selected \in Seq(Experiments)
         /\ Workers \in Nat
         /\ BatchSize \in 1 .. Units
<1>1. args.parallel \in Nat /\ args.batch \in Nat
  BY PoolAssumption DEF TypeOK, NoArgs, Args
<1>2. Selected \in Seq(Experiments)
  BY PoolAssumption DEF Experiments
<1>3. Len(Selected) \in Nat
  BY <1>2, LenProperties
<1>4. Workers \in Nat
  BY <1>1, <1>3 DEF Workers, Least
<1>5. BatchSize \in 1 .. Units
  BY <1>1, PoolAssumption DEF BatchSize, Least
<1> QED
  BY <1>1, <1>2, <1>3, <1>4, <1>5

\* The batches are steps over work units, whatever their number and size.
LEMMA BatchesWellFed ==
  ASSUME TypeOK, NEW e
  PROVE  \E n \in Nat : /\ Batches(e) = [i \in 1 .. n |-> Batches(e)[i]]
                        /\ \A i \in 1 .. n : WellFed(Batches(e)[i])
<1> DEFINE n == (Units + BatchSize - 1) \div BatchSize
<1>1. BatchSize \in Nat /\ BatchSize > 0 /\ Units \in Nat /\ Units + BatchSize - 1 \in Nat
  BY Numbers, PoolAssumption
<1>2. n \in Nat
  BY <1>1
<1>3. Batches(e) = [i \in 1 .. n |-> Batches(e)[i]]
  BY DEF Batches
<1>4. ASSUME NEW i \in 1 .. n
      PROVE  WellFed(Batches(e)[i])
  <2>1. /\ Batches(e)[i].needs = {Made(e, "matrix")}
        /\ Batches(e)[i].makes =
             MadeUnits(e, ((i - 1) * BatchSize + 1) .. Least(i * BatchSize, Units))
    BY DEF Batches, Step
  <2> QED
    BY <2>1 DEF WellFed, RestsIn, MadeUnits, Made
<1> QED
  BY <1>2, <1>3, <1>4

\* What is said of every step of a chain.
ChainStep(e, step) ==
  /\ WellFed(step)
  /\ step.id = Named("backtest") => Made(e, "backtest") \in step.makes

\* A chain has steps of this kind only, and ends with the backtest.
LEMMA ChainShape ==
  ASSUME TypeOK, NEW e
  PROVE  /\ Len(Chain(e)) \in Nat \ {0}
         /\ \A i \in 1 .. Len(Chain(e)) : ChainStep(e, Chain(e)[i])
         /\ Chain(e)[Len(Chain(e))].id = Named("backtest")
<1> DEFINE prepare == Step(Named("prepare"), {}, {Made(e, "matrix")})
           select == Step(Named("select"), MadeUnits(e, AllUnits), {Made(e, "predictions")})
           train == Step(Named("train_predict"), {},
                         {Made(e, "trained"), Made(e, "predictions")})
           backtest == Step(Named("backtest"), {Made(Predicts[e], "predictions")},
                            {Made(e, "backtest")})
<1>1. PICK n \in Nat : /\ Batches(e) = [i \in 1 .. n |-> Batches(e)[i]]
                       /\ \A i \in 1 .. n : WellFed(Batches(e)[i])
  BY BatchesWellFed
<1> DEFINE Steps == {prepare, select, train, backtest} \cup {Batches(e)[i] : i \in 1 .. n}
<1>2. \A i \in 1 .. n : Batches(e)[i].id # Named("backtest")
  <2>1. BatchSize \in Nat /\ Units + BatchSize - 1 \in Nat /\ BatchSize > 0
    BY Numbers, PoolAssumption
  <2>2. 1 .. n = 1 .. (Units + BatchSize - 1) \div BatchSize
    BY <1>1, <2>1 DEF Batches
  <2> QED
    BY <2>2 DEF Batches, Step, Named
<1>3. ASSUME NEW s \in Steps
      PROVE  ChainStep(e, s)
  <2>1. CASE s \in {Batches(e)[i] : i \in 1 .. n}
    BY <1>1, <1>2, <2>1 DEF ChainStep
  <2>2. CASE s = prepare
    BY <2>2 DEF ChainStep, WellFed, RestsIn, Step, Named, Made
  <2>3. CASE s = select
    BY <2>3 DEF ChainStep, WellFed, RestsIn, Step, Named, Made
  <2>4. CASE s = train
    BY <2>4 DEF ChainStep, WellFed, RestsIn, Step, Named, Made
  <2>5. CASE s = backtest
    BY <2>5 DEF ChainStep, WellFed, RestsIn, Step, Named, Made
  <2> QED
    BY <2>1, <2>2, <2>3, <2>4, <2>5
<1>4. Batches(e) \in Seq(Steps)
  BY <1>1
<1>5. <<prepare>> \in Seq(Steps) /\ <<select>> \in Seq(Steps) /\ <<train>> \in Seq(Steps)
  OBVIOUS
<1>6. FanoutSteps(e) \in Seq(Steps)
  <2>1. <<prepare>> \o Batches(e) \in Seq(Steps)
    BY <1>4, <1>5, ConcatProperties
  <2>2. <<prepare>> \o Batches(e) \o <<select>> \in Seq(Steps)
    BY <2>1, <1>5, ConcatProperties
  <2> QED
    BY <2>2 DEF FanoutSteps
<1>7. PICK front \in Seq(Steps) : Chain(e) = front \o <<backtest>>
  <2> DEFINE head == IF Predicts[e] # e THEN <<>>
                     ELSE IF args.fanout THEN FanoutSteps(e) ELSE <<train>>
  <2>1. head \in Seq(Steps)
    <3> HIDE DEF Steps, train
    <3> QED
      BY <1>5, <1>6
  <2>2. Chain(e) = head \o <<backtest>>
    BY DEF Chain
  <2> QED
    BY <2>1, <2>2
<1>8. Chain(e) = Append(front, backtest)
  BY <1>7
<1>9. /\ Chain(e) \in Seq(Steps) /\ Len(Chain(e)) = Len(front) + 1
      /\ Chain(e)[Len(Chain(e))] = backtest
  BY <1>8, AppendProperties
<1>10. Len(front) \in Nat /\ \A i \in 1 .. Len(Chain(e)) : Chain(e)[i] \in Steps
  BY <1>9, ElementOfSeq, LenProperties
<1>11. backtest.id = Named("backtest")
  BY DEF Step
<1> HIDE DEF Steps, backtest
<1> QED
  BY <1>3, <1>9, <1>10, <1>11

LEMMA SameArguments ==
  ASSUME args' = args
  PROVE  /\ \A e : Chain(e)' = Chain(e)
         /\ Workers' = Workers
  BY DEF Chain, FanoutSteps, Batches, BatchSize, Workers

-----------------------------------------------------------------------------
(* The steps of a thread.                                                  *)

Pcs == {"begin", "go", "wait", "won", "lost", "returned", "raised"}

\* Writing a row: only a success of the backtest's own step makes its row a success.
LEMMA RowFacts ==
  ASSUME TypeOK, NEW e \in Experiments, NEW status \in Statuses, rows' = Row(e, status)
  PROVE  /\ rows' \in [Experiments -> [StepIds -> Statuses]]
         /\ \A d \in Experiments \ {e} : rows'[d] = rows[d]
         /\ rows'[e][Named("backtest")] = "succeeded" =>
              \/ rows[e][Named("backtest")] = "succeeded"
              \/ status = "succeeded" /\ Current(e).id = Named("backtest")
<1>1. rows \in [Experiments -> [StepIds -> Statuses]]
  BY DEF TypeOK
<1>2. Named("backtest") \in StepIds
  BY DEF StepIds
<1>3. rows' = [rows EXCEPT ![e] = [rows[e] EXCEPT ![Current(e).id] = status]]
  BY <1>1 DEF Row
<1>4. rows'[e] = [rows[e] EXCEPT ![Current(e).id] = status]
  BY <1>1, <1>3
<1>5. rows[e] \in [StepIds -> Statuses]
  BY <1>1
<1>6. rows'[e] \in [StepIds -> Statuses]
  BY <1>4, <1>5
<1>7. rows'[e][Named("backtest")] =
        IF Current(e).id = Named("backtest") THEN status ELSE rows[e][Named("backtest")]
  BY <1>2, <1>4, <1>5
<1> QED
  BY <1>1, <1>3, <1>6, <1>7

\* What the steps of a thread have in common; what is left to show is where its own
\* chain is.
LEMMA ThreadStep ==
  ASSUME IInv, NEW e \in Experiments, chain[e].pc # "out",
         NEW pc \in Pcs, NEW at \in Nat, Goto(e, pc, at),
         UNCHANGED <<main, made>>,
         rows' \in [Experiments -> [StepIds -> Statuses]],
         \A d \in Experiments \ {e} : rows'[d] = rows[d],
         \A x \in executions' : x \in executions \/ WellFed(x.step),
         pc = "go" => at \in 1 .. Len(Chain(e)) + 1,
         pc \in {"wait", "won", "lost"} => at \in 1 .. Len(Chain(e)),
         pc = "won" => Chain(e)[at].makes \subseteq made,
         \/ pc = "go" /\ at = Len(Chain(e)) + 1
         \/ pc = "returned"
         \/ rows'[e][Named("backtest")] = "succeeded"
         => Made(e, "backtest") \in made
  PROVE  IInv'
<1>1. /\ UNCHANGED <<args, starts, phase, queue, stopping, results, made>>
      /\ chain' = [chain EXCEPT ![e] = [pc |-> pc, at |-> at]]
      /\ chain \in [Experiments ->
                 [pc : {"out", "begin", "go", "wait", "won", "lost", "returned", "raised"},
                  at : Nat]]
  BY DEF main, Goto, IInv, TypeOK
<1>2. /\ chain'[e].pc = pc /\ chain'[e].at = at
      /\ \A d \in Experiments \ {e} : chain'[d] = chain[d]
      /\ chain' \in [Experiments ->
                 [pc : {"out", "begin", "go", "wait", "won", "lost", "returned", "raised"},
                  at : Nat]]
  BY <1>1 DEF Pcs
<1>3. \A d : Chain(d)' = Chain(d)
  BY <1>1, SameArguments
<1>4. TypeOK'
  BY <1>1, <1>2 DEF IInv, TypeOK
<1>5. Founded'
  BY <1>1 DEF IInv, Founded
<1>6. ChainIsTrue(e)'
  <2>1. /\ chain'[e].pc = "go" => chain'[e].at \in 1 .. Len(Chain(e)') + 1
        /\ chain'[e].pc \in {"wait", "won", "lost"} => chain'[e].at \in 1 .. Len(Chain(e)')
        /\ chain'[e].pc = "won" => Current(e)'.makes \subseteq made'
    BY <1>1, <1>2, <1>3 DEF Current
  <2>2. results'[e] = "succeeded" => Made(e, "backtest") \in made
    BY <1>1 DEF IInv, ChainIsTrue
  <2>3. \/ chain'[e].pc = "go" /\ chain'[e].at = Len(Chain(e)') + 1
        \/ chain'[e].pc = "returned"
        \/ rows'[e][Named("backtest")] = "succeeded"
        \/ results'[e] = "succeeded"
        => Made(e, "backtest") \in made'
    BY <1>1, <1>2, <1>3, <2>2
  <2> QED
    BY <2>1, <2>3 DEF ChainIsTrue
<1>7. ASSUME NEW d \in Experiments \ {e}
      PROVE  ChainIsTrue(d)'
  BY <1>1, <1>2, <1>3, <1>7 DEF IInv, ChainIsTrue, Current
<1>8. PoolIsKept'
  <2>1. Active(chain') = Active(chain)
    BY <1>2 DEF Active, Pcs
  <2>2. Workers' = Workers
    BY <1>1, SameArguments
  <2> QED
    BY <1>1, <2>1, <2>2 DEF IInv, PoolIsKept
<1> QED
  BY <1>4, <1>5, <1>6, <1>7, <1>8 DEF IInv

\* A chain that is somewhere belongs to an experiment that has been started.
LEMMA InChain ==
  ASSUME IInv, NEW e \in Experiments
  PROVE  /\ TypeOK /\ ChainIsTrue(e)
         /\ Len(Chain(e)) \in Nat \ {0} /\ chain[e].at \in Nat
         /\ \A i \in 1 .. Len(Chain(e)) : ChainStep(e, Chain(e)[i])
         /\ Chain(e)[Len(Chain(e))].id = Named("backtest")
         /\ rows \in [Experiments -> [StepIds -> Statuses]]
         /\ rows[e][Named("backtest")] = "succeeded" => Made(e, "backtest") \in made
<1>1. TypeOK /\ ChainIsTrue(e)
  BY DEF IInv
<1> QED
  BY <1>1, ChainShape DEF TypeOK, ChainIsTrue

LEMMA BeginChainKeeps ==
  ASSUME IInv, NEW e \in Experiments, BeginChain(e)
  PROVE  IInv'
<1>1. /\ chain[e].pc # "out" /\ UNCHANGED <<main, made, rows, executions>>
      /\ \/ Goto(e, "go", 1)
         \/ Goto(e, "raised", chain[e].at)
         \/ \E i \in 1 .. Len(Chain(e)) : Goto(e, "go", i)
  BY DEF BeginChain, Raise
<1>2. CASE Goto(e, "raised", chain[e].at)
  BY <1>1, <1>2, InChain, ThreadStep DEF Pcs
<1>3. ASSUME NEW i \in 1 .. Len(Chain(e)), Goto(e, "go", i)
      PROVE  IInv'
  <2>1. i \in Nat /\ i \in 1 .. Len(Chain(e)) + 1 /\ i # Len(Chain(e)) + 1
    BY InChain
  <2> QED
    BY <1>1, <1>3, <2>1, InChain, ThreadStep DEF Pcs
<1>4. 1 \in 1 .. Len(Chain(e))
  BY InChain
<1> QED
  BY <1>1, <1>2, <1>3, <1>4

LEMMA ReturnChainKeeps ==
  ASSUME IInv, NEW e \in Experiments, ReturnChain(e)
  PROVE  IInv'
<1>1. /\ chain[e].pc = "go" /\ chain[e].at > Len(Chain(e)) /\ Goto(e, "returned", chain[e].at)
      /\ UNCHANGED <<main, made, rows, executions>>
  BY DEF ReturnChain
<1>2. Made(e, "backtest") \in made
  BY <1>1, InChain DEF ChainIsTrue
<1> QED
  BY <1>1, <1>2, InChain, ThreadStep DEF Pcs

LEMMA SkipKeeps ==
  ASSUME IInv, NEW e \in Experiments, Skip(e)
  PROVE  IInv'
<1>1. /\ chain[e].pc = "go" /\ chain[e].at <= Len(Chain(e))
      /\ UNCHANGED <<main, made, rows, executions>>
      /\ \/ IsDone(e) /\ Goto(e, "go", chain[e].at + 1)
         \/ Goto(e, "raised", chain[e].at)
  BY DEF Skip, Raise
<1>2. CASE Goto(e, "raised", chain[e].at)
  BY <1>1, <1>2, InChain, ThreadStep DEF Pcs
<1>3. CASE IsDone(e) /\ Goto(e, "go", chain[e].at + 1)
  <2>1. chain[e].at + 1 \in 1 .. Len(Chain(e)) + 1 /\ chain[e].at + 1 \in Nat
    BY <1>1, InChain
  <2>2. chain[e].at + 1 = Len(Chain(e)) + 1 => chain[e].at = Len(Chain(e))
    BY <1>1, InChain
  <2>3. chain[e].at + 1 = Len(Chain(e)) + 1 => Made(e, "backtest") \in made
    BY <1>3, <2>2, InChain DEF IsDone, Current
  <2> QED
    BY <1>1, <1>3, <2>1, <2>3, InChain, ThreadStep DEF Pcs
<1> QED
  BY <1>1, <1>2, <1>3

\* Rows other than a success may be written anywhere.
LEMMA OtherRow ==
  ASSUME IInv, NEW e \in Experiments,
         rows' \in {rows, Row(e, "running"), Row(e, "failed"), Row(e, "cancelled")}
  PROVE  /\ rows' \in [Experiments -> [StepIds -> Statuses]]
         /\ \A d \in Experiments \ {e} : rows'[d] = rows[d]
         /\ rows'[e][Named("backtest")] = "succeeded" => Made(e, "backtest") \in made
<1>1. CASE rows' = rows
  BY <1>1, InChain
<1>2. ASSUME NEW status \in Statuses \ {"succeeded"}, rows' = Row(e, status)
      PROVE  /\ rows' \in [Experiments -> [StepIds -> Statuses]]
             /\ \A d \in Experiments \ {e} : rows'[d] = rows[d]
             /\ rows'[e][Named("backtest")] = "succeeded" => Made(e, "backtest") \in made
  BY <1>2, InChain, RowFacts
<1>3. {"running", "failed", "cancelled"} \subseteq Statuses \ {"succeeded"}
  BY DEF Statuses
<1> QED
  BY <1>1, <1>2, <1>3

LEMMA RunStepKeeps ==
  ASSUME IInv, NEW e \in Experiments, RunStep(e)
  PROVE  IInv'
<1>1. /\ chain[e].pc = "go" /\ chain[e].at <= Len(Chain(e)) /\ UNCHANGED <<main, made>>
      /\ rows' \in {rows, Row(e, "running"), Row(e, "failed"), Row(e, "cancelled")}
      /\ executions' \in {executions, executions \cup {Execution(e, TRUE)},
                          executions \cup {Execution(e, FALSE)}}
      /\ Goto(e, "raised", chain[e].at) \/ Goto(e, "wait", chain[e].at)
  BY DEF RunStep, Raise
<1>2. chain[e].at \in 1 .. Len(Chain(e)) /\ WellFed(Current(e))
  BY <1>1, InChain DEF ChainIsTrue, ChainStep, Current
<1>3. \A x \in executions' : x \in executions \/ WellFed(x.step)
  BY <1>1, <1>2 DEF Execution
<1> QED
  BY <1>1, <1>2, <1>3, InChain, OtherRow, ThreadStep DEF Pcs

LEMMA GiveUpKeeps ==
  ASSUME IInv, NEW e \in Experiments, GiveUp(e)
  PROVE  IInv'
<1>1. /\ chain[e].pc = "wait" /\ UNCHANGED <<main, made>>
      /\ rows' \in {rows, Row(e, "running"), Row(e, "failed"), Row(e, "cancelled")}
      /\ executions' = (executions \ {Execution(e, TRUE)}) \cup {Execution(e, FALSE)}
      /\ Goto(e, "raised", chain[e].at)
  BY DEF GiveUp, Raise
<1>2. WellFed(Current(e))
  BY <1>1, InChain DEF ChainIsTrue, ChainStep, Current
<1>3. \A x \in executions' : x \in executions \/ WellFed(x.step)
  BY <1>1, <1>2 DEF Execution
<1> QED
  BY <1>1, <1>3, InChain, OtherRow, ThreadStep DEF Pcs

LEMMA SettleKeeps ==
  ASSUME IInv, NEW e \in Experiments, Settle(e)
  PROVE  IInv'
<1>1. /\ chain[e].pc \in {"won", "lost"} /\ UNCHANGED <<main, made, executions>>
      /\ \/ Goto(e, "raised", chain[e].at)
         \/ chain[e].pc = "won" /\ rows' = Row(e, "succeeded")
            /\ Goto(e, "go", chain[e].at + 1)
      /\ \/ rows' \in {rows, Row(e, "running"), Row(e, "failed"), Row(e, "cancelled")}
         \/ chain[e].pc = "won" /\ rows' = Row(e, "succeeded")
  BY DEF Settle, Raise
<1>2. chain[e].at \in 1 .. Len(Chain(e)) /\ ChainStep(e, Current(e))
  BY <1>1, InChain DEF ChainIsTrue, Current
<1>3. /\ rows' \in [Experiments -> [StepIds -> Statuses]]
      /\ \A d \in Experiments \ {e} : rows'[d] = rows[d]
      /\ rows'[e][Named("backtest")] = "succeeded" => Made(e, "backtest") \in made
  <2>1. CASE rows' \in {rows, Row(e, "running"), Row(e, "failed"), Row(e, "cancelled")}
    BY <2>1, OtherRow
  <2>2. CASE chain[e].pc = "won" /\ rows' = Row(e, "succeeded")
    <3>1. Current(e).makes \subseteq made
      BY <2>2, InChain DEF ChainIsTrue
    <3>2. "succeeded" \in Statuses
      BY DEF Statuses
    <3> QED
      BY <1>2, <2>2, <3>1, <3>2, InChain, RowFacts DEF ChainStep
  <2> QED
    BY <1>1, <2>1, <2>2
<1>4. CASE Goto(e, "raised", chain[e].at)
  BY <1>1, <1>3, <1>4, InChain, ThreadStep DEF Pcs
<1>5. CASE chain[e].pc = "won" /\ Goto(e, "go", chain[e].at + 1)
  <2>1. chain[e].at + 1 \in 1 .. Len(Chain(e)) + 1 /\ chain[e].at + 1 \in Nat
    BY <1>2, InChain
  <2>2. chain[e].at + 1 = Len(Chain(e)) + 1 => Current(e).id = Named("backtest")
    BY <1>2, InChain DEF Current
  <2>3. chain[e].at + 1 = Len(Chain(e)) + 1 => Made(e, "backtest") \in made
    BY <1>2, <1>5, <2>2, InChain DEF ChainStep, ChainIsTrue
  <2> QED
    BY <1>1, <1>3, <1>5, <2>1, <2>3, InChain, ThreadStep DEF Pcs
<1> QED
  BY <1>1, <1>4, <1>5

-----------------------------------------------------------------------------
(* The end of an execution.                                                *)

LEMMA MoreIsMade ==
  ASSUME NEW p, NEW S, NEW T, S \subseteq T, RestsIn(p, S)
  PROVE  RestsIn(p, T)
  BY DEF RestsIn

LEMMA ExecutionEndsKeeps ==
  ASSUME IInv, NEW x \in executions, ExecutionEnds(x)
  PROVE  IInv'
<1>1. PICK won \in BOOLEAN :
        /\ won => x.step.needs \subseteq made
        /\ made' = made \cup (IF won THEN x.step.makes ELSE {})
        /\ chain' = [chain EXCEPT ![x.exp].pc =
             IF @ = "wait" /\ x = Execution(x.exp, TRUE)
             THEN IF won THEN "won" ELSE "lost" ELSE @]
  BY DEF ExecutionEnds
<1>2. /\ UNCHANGED <<args, starts, phase, queue, stopping, results, rows>>
      /\ executions' = executions \ {x}
  BY DEF ExecutionEnds, main
<1>3. chain \in [Experiments ->
                 [pc : {"out", "begin", "go", "wait", "won", "lost", "returned", "raised"},
                  at : Nat]]
  BY DEF IInv, TypeOK
<1>4. made \subseteq made' /\ (won => x.step.makes \subseteq made')
  BY <1>1
<1>5. ASSUME NEW d \in Experiments
      PROVE  /\ chain'[d].at = chain[d].at
             /\ chain'[d] \in
                  [pc : {"out", "begin", "go", "wait", "won", "lost", "returned", "raised"},
                   at : Nat]
             /\ \/ chain'[d].pc = chain[d].pc
                \/ /\ chain[d].pc = "wait" /\ chain'[d].pc \in {"won", "lost"}
                   /\ chain'[d].pc = "won" => Current(d).makes \subseteq made'
  <2>1. CASE d # x.exp
    <3>1. chain'[d] = chain[d]
      BY <1>1, <1>3, <2>1
    <3> QED
      BY <1>3, <3>1
  <2>2. CASE d = x.exp
    <3>1. chain'[d] = [chain[d] EXCEPT !.pc =
             IF @ = "wait" /\ x = Execution(d, TRUE)
             THEN IF won THEN "won" ELSE "lost" ELSE @]
      BY <1>1, <1>3, <2>2
    <3>2. x = Execution(d, TRUE) => x.step = Current(d)
      BY DEF Execution
    <3>3. chain'[d].at = chain[d].at
      BY <1>3, <3>1
    <3>4. \/ chain'[d].pc = chain[d].pc
          \/ /\ chain[d].pc = "wait" /\ chain'[d].pc \in {"won", "lost"}
             /\ x = Execution(d, TRUE) /\ (chain'[d].pc = "won" => won)
      BY <1>3, <3>1
    <3>5. chain'[d] \in
            [pc : {"out", "begin", "go", "wait", "won", "lost", "returned", "raised"}, at : Nat]
      BY <1>3, <3>1
    <3> QED
      BY <1>4, <3>2, <3>3, <3>4, <3>5
  <2> QED
    BY <2>1, <2>2
<1>6. \A d : Chain(d)' = Chain(d)
  BY <1>2, SameArguments
<1>7. TypeOK'
  <2>1. chain' \in [Experiments ->
                 [pc : {"out", "begin", "go", "wait", "won", "lost", "returned", "raised"},
                  at : Nat]]
    <3>1. chain' = [d \in Experiments |-> chain'[d]]
      BY <1>1, <1>3
    <3> QED
      BY <1>5, <3>1
  <2> QED
    BY <1>2, <2>1 DEF IInv, TypeOK
<1>8. Founded'
  <2>1. ASSUME NEW p \in made'
        PROVE  RestsIn(p, made')
    <3>1. CASE p \in made
      BY <1>4, <3>1, MoreIsMade DEF IInv, Founded
    <3>2. CASE won /\ p \in x.step.makes
      <4>1. x.step.needs \cup x.step.makes \subseteq made'
        BY <1>1, <1>4, <3>2
      <4>2. RestsIn(p, x.step.needs \cup x.step.makes)
        BY <3>2 DEF IInv, Founded, WellFed
      <4> QED
        BY <4>1, <4>2, MoreIsMade
    <3> QED
      BY <1>1, <2>1, <3>1, <3>2
  <2> QED
    BY <1>2, <2>1 DEF IInv, Founded
<1>9. ASSUME NEW d \in Experiments
      PROVE  ChainIsTrue(d)'
  <2>1. ChainIsTrue(d)
    BY DEF IInv
  <2>2. Current(d)' = Current(d)
    BY <1>5, <1>6 DEF Current
  <2>3. /\ chain'[d].pc = "go" => chain'[d].at \in 1 .. Len(Chain(d)') + 1
        /\ chain'[d].pc \in {"wait", "won", "lost"} => chain'[d].at \in 1 .. Len(Chain(d)')
    BY <1>5, <1>6, <2>1 DEF ChainIsTrue
  <2>4. chain'[d].pc = "won" => Current(d)'.makes \subseteq made'
    BY <1>4, <1>5, <2>1, <2>2 DEF ChainIsTrue
  <2>5. \/ chain'[d].pc = "go" /\ chain'[d].at = Len(Chain(d)') + 1
        \/ chain'[d].pc = "returned"
        \/ rows'[d][Named("backtest")] = "succeeded"
        \/ results'[d] = "succeeded"
        => Made(d, "backtest") \in made'
    BY <1>2, <1>4, <1>5, <1>6, <2>1 DEF ChainIsTrue
  <2> QED
    BY <2>3, <2>4, <2>5 DEF ChainIsTrue
<1>10. PoolIsKept'
  <2>1. Active(chain') = Active(chain)
    BY <1>5 DEF Active
  <2>2. Workers' = Workers
    BY <1>2, SameArguments
  <2> QED
    BY <1>2, <2>1, <2>2 DEF IInv, PoolIsKept
<1> QED
  BY <1>7, <1>8, <1>9, <1>10 DEF IInv

-----------------------------------------------------------------------------
(* The main thread.                                                        *)

ChainStates ==
  [pc : {"out", "begin", "go", "wait", "won", "lost", "returned", "raised"}, at : Nat]

LEMMA FirstOf ==
  ASSUME NEW S, NEW q \in Seq(S), NEW n \in 0 .. Len(q)
  PROVE  /\ IsFiniteSet({q[i] : i \in 1 .. n})
         /\ Cardinality({q[i] : i \in 1 .. n}) <= n
<1> DEFINE first == {q[i] : i \in 1 .. n}
           f == [i \in 1 .. n |-> q[i]]
<1>1. f \in Surjection(1 .. n, first)
  BY DEF Surjection
<1>2. n \in Nat
  BY LenProperties
<1>3. IsFiniteSet(1 .. n) /\ Cardinality(1 .. n) = n
  BY <1>2, FS_Interval
<1> HIDE DEF f, first
<1>4. IsFiniteSet(first) /\ Cardinality(first) <= n
  BY <1>1, <1>3, FS_Surjection
<1> QED
  BY <1>4 DEF first

LEMMA FewExperiments ==
  ASSUME TypeOK, NEW c
  PROVE  IsFiniteSet(Active(c)) /\ Cardinality(Active(c)) \in Nat
<1>1. IsFiniteSet(Experiments)
  <2>1. Selected \in Seq(Experiments) /\ Len(Selected) \in 0 .. Len(Selected)
    BY Numbers
  <2> QED
    BY <2>1, FirstOf DEF Experiments
<1>2. Active(c) \in SUBSET Experiments
  BY DEF Active
<1> QED
  BY <1>1, <1>2, FS_Subset, FS_CardinalityType

\* A fill submits what fits, in order, and loses nobody.
LEMMA FillFacts ==
  ASSUME TypeOK, NEW c \in [Experiments -> ChainStates], NEW q \in Seq(Experiments),
         Cardinality(Active(c)) <= Workers, Fill(c, q)
  PROVE  /\ queue' \in Seq(Experiments)
         /\ chain' \in [Experiments -> ChainStates]
         /\ \A e \in Experiments : \/ chain'[e] = c[e]
                                   \/ chain'[e] = [pc |-> "begin", at |-> 1]
         /\ Cardinality(Active(chain')) <= Workers
         /\ \A e \in Active(c) : e \in Active(chain')
         /\ \A i \in 1 .. Len(q) : \/ q[i] \in Active(chain')
                                   \/ \E j \in 1 .. Len(queue') : queue'[j] = q[i]
<1>1. Cardinality(Active(c)) \in Nat /\ Workers \in Nat /\ Len(q) \in Nat
  BY FewExperiments, Numbers, LenProperties
<1>2. PICK n \in 0 .. Len(q) : n = Least(Workers - Cardinality(Active(c)), Len(q))
  BY <1>1 DEF Least
<1>3. /\ queue' = SubSeq(q, n + 1, Len(q))
      /\ chain' = [e \in Experiments |->
           IF \E i \in 1 .. n : q[i] = e THEN [pc |-> "begin", at |-> 1] ELSE c[e]]
  BY <1>2 DEF Fill
<1>4. /\ n \in Nat /\ n <= Len(q) /\ n + 1 \in Int /\ Len(q) \in Int
      /\ n <= Workers - Cardinality(Active(c))
  BY <1>1, <1>2 DEF Least
<1>5. \A i \in 1 .. Len(q) : q[i] \in Experiments
  BY ElementOfSeq
<1>6. /\ queue' \in Seq(Experiments)
      /\ Len(queue') = IF n + 1 <= Len(q) THEN Len(q) - (n + 1) + 1 ELSE 0
      /\ \A i \in 1 .. Len(q) - (n + 1) + 1 : queue'[i] = q[(n + 1) + i - 1]
  <2>1. \A i \in (n + 1) .. Len(q) : q[i] \in Experiments
    BY <1>4, <1>5
  <2> QED
    BY <1>3, <1>4, <2>1, SubSeqProperties
<1>7. \A e \in Experiments :
        chain'[e] = IF \E i \in 1 .. n : q[i] = e THEN [pc |-> "begin", at |-> 1] ELSE c[e]
  BY <1>3
<1>8. [pc |-> "begin", at |-> 1] \in ChainStates
  BY DEF ChainStates
<1>9. chain' \in [Experiments -> ChainStates]
  BY <1>3, <1>8
<1>10. Active(chain') = Active(c) \cup {q[i] : i \in 1 .. n}
  BY <1>4, <1>5, <1>7 DEF Active
<1>11. Cardinality(Active(chain')) <= Workers
  <2> DEFINE first == {q[i] : i \in 1 .. n}
  <2>1. IsFiniteSet(first) /\ Cardinality(first) <= n
    BY FirstOf
  <2> HIDE DEF first
  <2>2. IsFiniteSet(Active(c))
    BY FewExperiments
  <2>3. /\ Cardinality(first) \in Nat
        /\ Cardinality(Active(c) \cap first) \in Nat
    <3>1. IsFiniteSet(Active(c) \cap first)
      BY <2>1, FS_Subset
    <3> QED
      BY <2>1, <3>1, FS_CardinalityType
  <2>4. Cardinality(Active(c) \cup first) =
          Cardinality(Active(c)) + Cardinality(first) - Cardinality(Active(c) \cap first)
    BY <2>1, <2>2, FS_Union
  <2>5. Cardinality(Active(c) \cup first) <= Workers
    BY <1>1, <1>4, <2>1, <2>3, <2>4
  <2> QED
    BY <1>10, <2>5 DEF first
<1>12. ASSUME NEW i \in 1 .. Len(q)
       PROVE  \/ q[i] \in Active(chain')
              \/ \E j \in 1 .. Len(queue') : queue'[j] = q[i]
  <2>1. CASE i <= n
    BY <1>10, <2>1
  <2>2. CASE i > n
    <3>1. /\ i - n \in 1 .. Len(q) - (n + 1) + 1
          /\ (n + 1) + (i - n) - 1 = i
          /\ Len(queue') = Len(q) - (n + 1) + 1
      BY <1>1, <1>4, <1>6, <2>2
    <3>2. queue'[i - n] = q[i]
      BY <1>6, <3>1
    <3> QED
      BY <3>1, <3>2
  <2> QED
    BY <1>4, <2>1, <2>2
<1> QED
  BY <1>6, <1>7, <1>9, <1>10, <1>11, <1>12

LEMMA ConfigureKeeps ==
  ASSUME IInv, Configure
  PROVE  IInv'
<1>1. /\ args' \in Arguments /\ phase' = "submit" /\ queue' = Selected
      /\ results' = [e \in Experiments |-> "none"]
      /\ UNCHANGED <<chain, rows, executions, made>>
      /\ Active(chain) = {}
  BY DEF Configure, IInv, PoolIsKept
<1>2. \A e \in Experiments : chain'[e].pc = "out"
  BY <1>1 DEF Active
<1>3. TypeOK'
  BY <1>1, Numbers DEF IInv, TypeOK
<1>4. Founded'
  BY <1>1 DEF IInv, Founded
<1>5. ASSUME NEW e \in Experiments
      PROVE  ChainIsTrue(e)'
  BY <1>1, <1>2 DEF IInv, ChainIsTrue
<1>6. PoolIsKept'
  BY <1>1 DEF PoolIsKept, Active
<1> QED
  BY <1>3, <1>4, <1>5, <1>6 DEF IInv

LEMMA SubmitKeeps ==
  ASSUME IInv, Submit
  PROVE  IInv'
<1>1. /\ phase' = "running" /\ Fill(chain, queue) /\ queue = Selected /\ Active(chain) = {}
      /\ UNCHANGED <<args, starts, stopping, results, rows, executions, made>>
  BY DEF Submit, IInv, PoolIsKept
<1>2. Cardinality(Active(chain)) <= Workers
  BY <1>1, FS_EmptySet, Numbers DEF IInv
<1>3. chain \in [Experiments -> ChainStates] /\ queue \in Seq(Experiments)
  BY DEF IInv, TypeOK, ChainStates
<1>4. /\ queue' \in Seq(Experiments)
      /\ chain' \in [Experiments -> ChainStates]
      /\ \A e \in Experiments : \/ chain'[e] = chain[e]
                                \/ chain'[e] = [pc |-> "begin", at |-> 1]
      /\ Cardinality(Active(chain')) <= Workers
      /\ \A i \in 1 .. Len(queue) : \/ queue[i] \in Active(chain')
                                    \/ \E j \in 1 .. Len(queue') : queue'[j] = queue[i]
  BY <1>1, <1>2, <1>3, FillFacts DEF IInv
<1>5. TypeOK'
  BY <1>1, <1>4 DEF IInv, TypeOK, ChainStates
<1>6. Founded'
  BY <1>1 DEF IInv, Founded
<1>7. ASSUME NEW e \in Experiments
      PROVE  ChainIsTrue(e)'
  BY <1>1, <1>4, SameArguments DEF IInv, ChainIsTrue, Current
<1>8. PoolIsKept'
  <2>1. Workers' = Workers
    BY <1>1, SameArguments
  <2>2. ASSUME NEW e \in Experiments
        PROVE  e \in Active(chain') \/ \E i \in 1 .. Len(queue') : queue'[i] = e
    <3>1. PICK i \in 1 .. Len(queue) : queue[i] = e
      BY <1>1 DEF Experiments
    <3> QED
      BY <1>4, <3>1
  <2> QED
    BY <1>1, <1>4, <2>1, <2>2 DEF PoolIsKept
<1> QED
  BY <1>5, <1>6, <1>7, <1>8 DEF IInv

LEMMA CollectKeeps ==
  ASSUME IInv, Collect
  PROVE  IInv'
<1> DEFINE left == [e \in Experiments |-> IF e \in Finished THEN Out ELSE chain[e]]
<1>1. /\ phase = "running"
      /\ results' = [e \in Experiments |->
           IF e \notin Finished THEN results[e]
           ELSE IF chain[e].pc = "returned" THEN "succeeded" ELSE "failed"]
      /\ UNCHANGED <<args, starts, phase, rows, executions, made>>
      /\ (chain' = left /\ UNCHANGED queue) \/ Fill(left, queue)
  BY DEF Collect
<1>2. chain \in [Experiments -> ChainStates] /\ queue \in Seq(Experiments)
  BY DEF IInv, TypeOK, ChainStates
<1>3. Out \in ChainStates /\ Out.pc = "out"
  BY DEF ChainStates, Out
<1>4. left \in [Experiments -> ChainStates]
  BY <1>2, <1>3
<1>5. Active(left) = Active(chain) \ Finished
  BY <1>3 DEF Active
<1> HIDE DEF left
<1>6. Cardinality(Active(left)) <= Workers
  <2>1. Cardinality(Active(left)) <= Cardinality(Active(chain))
    BY <1>5, FewExperiments, FS_Subset DEF IInv
  <2>2. Cardinality(Active(chain)) <= Workers
    BY <1>1 DEF IInv, PoolIsKept
  <2>3. /\ Cardinality(Active(left)) \in Nat /\ Cardinality(Active(chain)) \in Nat
        /\ Workers \in Nat
    BY FewExperiments, Numbers DEF IInv
  <2> QED
    BY <2>1, <2>2, <2>3
<1>7. /\ queue' \in Seq(Experiments)
      /\ chain' \in [Experiments -> ChainStates]
      /\ \A e \in Experiments : \/ chain'[e] = left[e]
                                \/ chain'[e] = [pc |-> "begin", at |-> 1]
      /\ Cardinality(Active(chain')) <= Workers
      /\ \A e \in Active(left) : e \in Active(chain')
      /\ \A i \in 1 .. Len(queue) : \/ queue[i] \in Active(chain')
                                    \/ \E j \in 1 .. Len(queue') : queue'[j] = queue[i]
  <2>1. CASE chain' = left /\ UNCHANGED queue
    BY <1>2, <1>4, <1>6, <2>1
  <2>2. CASE Fill(left, queue)
    BY <1>2, <1>4, <1>6, <2>2, FillFacts DEF IInv
  <2> QED
    BY <1>1, <2>1, <2>2
<1>8. \A e \in Experiments : \/ chain'[e] = chain[e]
                             \/ chain'[e].pc \in {"out", "begin"}
  BY <1>3, <1>7 DEF left
<1>9. results \in [Experiments -> {"none", "succeeded", "failed", "skipped"}]
  BY DEF IInv, TypeOK
<1>10. results' \in [Experiments -> {"none", "succeeded", "failed", "skipped"}]
  BY <1>1, <1>9
<1>11. TypeOK'
  BY <1>1, <1>7, <1>10 DEF IInv, TypeOK, ChainStates
<1>12. Founded'
  BY <1>1 DEF IInv, Founded
<1>13. ASSUME NEW e \in Experiments
       PROVE  ChainIsTrue(e)'
  <2>1. ChainIsTrue(e)
    BY DEF IInv
  <2>2. results'[e] = "succeeded" => results[e] = "succeeded" \/ chain[e].pc = "returned"
    BY <1>1
  <2>3. results'[e] = "succeeded" => Made(e, "backtest") \in made
    BY <2>1, <2>2 DEF ChainIsTrue
  <2> QED
    BY <1>1, <1>8, <2>1, <2>3, SameArguments DEF ChainIsTrue, Current
<1>14. PoolIsKept'
  <2>1. Workers' = Workers
    BY <1>1, SameArguments
  <2>2. ASSUME NEW e \in Experiments
        PROVE  \/ results'[e] # "none" \/ e \in Active(chain')
               \/ \E i \in 1 .. Len(queue') : queue'[i] = e
    <3>1. CASE e \in Finished
      BY <1>1, <3>1
    <3>2. CASE e \notin Finished /\ results[e] # "none"
      BY <1>1, <3>2
    <3>3. CASE e \notin Finished /\ e \in Active(chain)
      BY <1>5, <1>7, <3>3
    <3>4. CASE \E i \in 1 .. Len(queue) : queue[i] = e
      BY <1>7, <3>4
    <3> QED
      BY <1>1, <3>1, <3>2, <3>3, <3>4 DEF IInv, PoolIsKept
  <2> QED
    BY <1>1, <1>7, <2>1, <2>2 DEF PoolIsKept
<1> QED
  BY <1>11, <1>12, <1>13, <1>14 DEF IInv

LEMMA EndKeeps ==
  ASSUME IInv, End
  PROVE  IInv'
<1>1. /\ phase = "running" /\ Active(chain) = {} /\ phase' = "ended"
      /\ results' = [e \in Experiments |->
           IF \E i \in 1 .. Len(queue) : queue[i] = e THEN "skipped" ELSE results[e]]
      /\ UNCHANGED <<args, starts, queue, stopping, chain, rows, executions, made>>
  BY DEF End
<1>2. results \in [Experiments -> {"none", "succeeded", "failed", "skipped"}]
  BY DEF IInv, TypeOK
<1>3. results' \in [Experiments -> {"none", "succeeded", "failed", "skipped"}]
  BY <1>1, <1>2
<1>4. TypeOK'
  BY <1>1, <1>3 DEF IInv, TypeOK
<1>5. Founded'
  BY <1>1 DEF IInv, Founded
<1>6. ASSUME NEW e \in Experiments
      PROVE  ChainIsTrue(e)'
  <2>1. results'[e] = "succeeded" => results[e] = "succeeded"
    BY <1>1
  <2> QED
    BY <1>1, <2>1, SameArguments DEF IInv, ChainIsTrue, Current
<1>7. \A e \in Experiments : results'[e] # "none"
  BY <1>1 DEF IInv, PoolIsKept
<1>8. PoolIsKept'
  BY <1>1, <1>7 DEF PoolIsKept, Active
<1> QED
  BY <1>4, <1>5, <1>6, <1>8 DEF IInv

LEMMA KillKeeps ==
  ASSUME IInv, Kill
  PROVE  IInv'
<1>1. /\ phase' = "killed" /\ chain' = [e \in Experiments |-> Out]
      /\ UNCHANGED <<args, starts, queue, stopping, results, rows, executions, made>>
  BY DEF Kill
<1>2. \A e \in Experiments : chain'[e] = Out /\ chain'[e].pc = "out"
  BY <1>1 DEF Out
<1>3. TypeOK'
  BY <1>1 DEF IInv, TypeOK, Out
<1>4. Founded'
  BY <1>1 DEF IInv, Founded
<1>5. ASSUME NEW e \in Experiments
      PROVE  ChainIsTrue(e)'
  BY <1>1, <1>2 DEF IInv, ChainIsTrue
<1>6. PoolIsKept'
  BY <1>1, <1>2 DEF PoolIsKept, Active
<1> QED
  BY <1>3, <1>4, <1>5, <1>6 DEF IInv

-----------------------------------------------------------------------------
(* The theorems.                                                           *)

LEMMA InitIsKept == Init => IInv
<1> SUFFICES ASSUME Init
             PROVE  IInv
  OBVIOUS
<1>1. TypeOK
  BY Numbers DEF Init, TypeOK, NoArgs, Out, Statuses
<1>2. Founded
  BY DEF Init, Founded
<1>3. ASSUME NEW e \in Experiments
      PROVE  ChainIsTrue(e)
  <2>1. /\ chain[e].pc = "out" /\ results[e] = "none"
        /\ rows[e][Named("backtest")] = "none"
    BY DEF Init, Out, StepIds
  <2> QED
    BY <2>1 DEF ChainIsTrue
<1>4. PoolIsKept
  BY DEF Init, PoolIsKept, Active, Out
<1> QED
  BY <1>1, <1>2, <1>3, <1>4 DEF IInv

LEMMA StepKeeps == IInv /\ [Next]_vars => IInv'
<1> SUFFICES ASSUME IInv, [Next]_vars
             PROVE  IInv'
  OBVIOUS
<1>1. CASE Configure
  BY <1>1, ConfigureKeeps
<1>2. CASE Submit
  BY <1>2, SubmitKeeps
<1>3. CASE Collect
  BY <1>3, CollectKeeps
<1>4. CASE End
  BY <1>4, EndKeeps
<1>5. CASE Kill
  BY <1>5, KillKeeps
<1>6. ASSUME NEW e \in Experiments, Thread(e) \/ GiveUp(e)
      PROVE  IInv'
  BY <1>6, BeginChainKeeps, ReturnChainKeeps, SkipKeeps, RunStepKeeps, SettleKeeps, GiveUpKeeps
     DEF Thread
<1>7. ASSUME NEW x \in executions, ExecutionEnds(x)
      PROVE  IInv'
  BY <1>7, ExecutionEndsKeeps
<1>8. CASE UNCHANGED vars
  <2>1. Workers' = Workers /\ \A e : Chain(e)' = Chain(e)
    BY <1>8, SameArguments DEF vars
  <2>2. TypeOK' /\ Founded'
    BY <1>8 DEF vars, IInv, TypeOK, Founded
  <2>3. ASSUME NEW e \in Experiments
        PROVE  ChainIsTrue(e)'
    BY <1>8, <2>1 DEF vars, IInv, ChainIsTrue, Current
  <2>4. PoolIsKept'
    BY <1>8, <2>1 DEF vars, IInv, PoolIsKept, Active
  <2> QED
    BY <2>2, <2>3, <2>4 DEF IInv
<1> QED
  BY <1>1, <1>2, <1>3, <1>4, <1>5, <1>6, <1>7, <1>8 DEF Next

THEOREM Invariance == Spec => []IInv
BY InitIsKept, StepKeeps, PTL DEF Spec

\* The orchestrator's state has its types in every reachable state.
THEOREM TypeCorrect == Spec => []TypeOK
<1>1. IInv => TypeOK
  BY DEF IInv
<1> QED
  BY <1>1, Invariance, PTL

\* The report of an orchestrator that ended is true (pipeline_control.py,
\* run_experiments): one that is said to have succeeded has its backtest and all it
\* rests on, every experiment has a result, and the exit status is 0 only if all of
\* them succeeded.
THEOREM ReportsAreTrue == Spec => []ReportIsTrue
<1>1. IInv => ReportIsTrue
  <2> SUFFICES ASSUME IInv, phase = "ended"
               PROVE  /\ \A e \in Experiments : results[e] # "none"
                      /\ \A e \in Experiments : results[e] = "succeeded" => Stands(e)
                      /\ ExitsZero => \A e \in Experiments : Stands(e)
    BY DEF ReportIsTrue
  <2>1. \A e \in Experiments : results[e] # "none"
    BY DEF IInv, PoolIsKept
  <2>2. ASSUME NEW e, Made(e, "backtest") \in made
        PROVE  Stands(e)
    <3>1. Made(Predicts[e], "predictions") \in made
      <4>1. RestsIn(Made(e, "backtest"), made)
        BY <2>2 DEF IInv, Founded
      <4> QED
        BY <4>1 DEF RestsIn, Made
    <3>2. \/ Made(Predicts[e], "trained") \in made
          \/ MadeUnits(Predicts[e], AllUnits) \subseteq made
      <4>1. RestsIn(Made(Predicts[e], "predictions"), made)
        BY <3>1 DEF IInv, Founded
      <4> QED
        BY <4>1 DEF RestsIn, Made
    <3>3. MadeUnits(Predicts[e], AllUnits) \subseteq made => Made(Predicts[e], "matrix") \in made
      <4> SUFFICES ASSUME MadeUnits(Predicts[e], AllUnits) \subseteq made
                   PROVE  Made(Predicts[e], "matrix") \in made
        OBVIOUS
      <4>1. 1 \in AllUnits
        BY PoolAssumption DEF AllUnits
      <4>2. <<Predicts[e], "unit", 1>> \in made
        BY <4>1 DEF MadeUnits
      <4>3. RestsIn(<<Predicts[e], "unit", 1>>, made)
        BY <4>2 DEF IInv, Founded
      <4> QED
        BY <4>3 DEF RestsIn
    <3> QED
      BY <2>2, <3>1, <3>2, <3>3 DEF Stands, Trained
  <2>3. \A e \in Experiments : results[e] = "succeeded" => Stands(e)
    BY <2>2 DEF IInv, ChainIsTrue
  <2>4. ExitsZero => \A e \in Experiments : results[e] = "succeeded"
    BY <2>1 DEF IInv, TypeOK, ExitsZero
  <2> QED
    BY <2>1, <2>3, <2>4
<1> QED
  BY <1>1, Invariance, PTL

-----------------------------------------------------------------------------
(* Two accounts that agree in what SameState and the history compare.         *)

\* What the record of an account holds, whatever the values.
IsAccount(a) ==
    a = [start |-> a.start, cash |-> a.cash, shares |-> a.shares, pending |-> a.pending,
         target |-> a.target, history |-> a.history]

Alike(a, b) == a.cash = b.cash /\ a.shares = b.shares /\ a.pending = b.pending

\* The net asset value is a matter of cash and holdings.
LEMMA SameNav ==
    ASSUME NEW a, NEW b, NEW q, Alike(a, b)
    PROVE  Held(a) = Held(b) /\ NavBefore(a, q) = NavBefore(b, q)
<1>1. Held(a) = Held(b)
  BY DEF Held, Alike
<1>2. [s \in Secs |-> a.shares[s] * ValuationPrice(close, q, s)]
        = [s \in Secs |-> b.shares[s] * ValuationPrice(close, q, s)]
  BY DEF Alike
<1> QED BY <1>1, <1>2 DEF NavBefore, Alike

\* Corporate actions keep two alike accounts alike.
LEMMA SameCorporateActions ==
    ASSUME NEW a, NEW b, NEW p, NEW r, NEW e, IsAccount(a), IsAccount(b),
           Alike(a, b), a.history = b.history, p.corporate = r.corporate
    PROVE  Alike(ApplyCorporateActions(a, p, e), ApplyCorporateActions(b, r, e))
<1>1. CASE e = NoEvent
  BY <1>1 DEF ApplyCorporateActions
<1>2. CASE e # NoEvent
  <2>1. RecordShares(a, e) = RecordShares(b, e)
    BY DEF RecordShares, Alike
  <2>2. Dividend(a, p, e) = Dividend(b, r, e) /\ SplitDelta(a, p, e) = SplitDelta(b, r, e)
    BY <2>1 DEF Dividend, SplitDelta
  <2>3. PICK d, x : d = Dividend(a, p, e) /\ x = SplitDelta(a, p, e)
    OBVIOUS
  <2>4. /\ ApplyCorporateActions(a, p, e)
             = [a EXCEPT !.cash = @ + d, !.shares[e.sec] = Max({0, @ + x})]
        /\ ApplyCorporateActions(b, r, e)
             = [b EXCEPT !.cash = @ + d, !.shares[e.sec] = Max({0, @ + x})]
    BY <1>2, <2>2, <2>3 DEF ApplyCorporateActions
  <2>5. ASSUME NEW c, IsAccount(c)
        PROVE  LET n == [c EXCEPT !.cash = @ + d, !.shares[e.sec] = Max({0, @ + x})]
               IN  /\ n.cash = c.cash + d
                   /\ n.shares = [c.shares EXCEPT ![e.sec] = Max({0, @ + x})]
                   /\ n.pending = c.pending
    BY <2>5 DEF IsAccount
  <2> QED BY <2>4, <2>5 DEF Alike
<1> QED BY <1>1, <1>2

\* The plans of a day agree where the target agrees in its ranks and weights,
\* and altogether on a day a signal is executed.
LEMMA SameLot100 ==
    ASSUME NEW a, NEW b, NEW p, NEW r, NEW q, NEW g, NEW h, NEW reb \in BOOLEAN,
           Alike(a, b), p.guard = r.guard, g.weight = h.weight, reb => g = h
    PROVE  PlanLot100(a, p, q, g, reb) = PlanLot100(b, r, q, h, reb)
<1>1. Held(a) = Held(b)
  BY SameNav
<1>2. PICK nav : nav = NavBefore(a, q) /\ nav = NavBefore(b, q)
  BY SameNav
<1>3. ASSUME NEW s \in Secs
      PROVE  RowLot100(a, p, q, g, reb, nav, s) = RowLot100(b, r, q, h, reb, nav, s)
  BY DEF RowLot100, Alike
<1>4. Held(a) \cup a.pending \cup (IF reb THEN {s \in Secs : g.weight[s] > 0} ELSE {})
        = Held(b) \cup b.pending \cup (IF reb THEN {s \in Secs : h.weight[s] > 0} ELSE {})
  BY <1>1 DEF Alike
<1>5. PICK U : /\ U = Held(a) \cup a.pending \cup (IF reb THEN {s \in Secs : g.weight[s] > 0} ELSE {})
               /\ U = Held(b) \cup b.pending \cup (IF reb THEN {s \in Secs : h.weight[s] > 0} ELSE {})
  BY <1>4
<1>6. /\ PlanLot100(a, p, q, g, reb)
           = [s \in Secs |-> IF s \in U THEN RowLot100(a, p, q, g, reb, nav, s) ELSE Absent]
      /\ PlanLot100(b, r, q, h, reb)
           = [s \in Secs |-> IF s \in U THEN RowLot100(b, r, q, h, reb, nav, s) ELSE Absent]
  BY <1>2, <1>5 DEF PlanLot100
<1> QED BY <1>3, <1>6

LEMMA SameTopdown ==
    ASSUME NEW a, NEW b, NEW p, NEW q, NEW g, Alike(a, b)
    PROVE  PlanTopdown(a, p, q, g) = PlanTopdown(b, p, q, g)
<1>1. Held(a) = Held(b)
  BY SameNav
<1>2. PICK nav : nav = NavBefore(a, q) /\ nav = NavBefore(b, q)
  BY SameNav
<1>3. PICK leaving : leaving = Held(a) \ Walk(p, g) /\ leaving = Held(b) \ Walk(p, g)
  BY <1>1
<1>4. PICK can : can = Buyable(a, p, q, g) /\ can = Buyable(b, p, q, g)
  <2>1. Buyable(a, p, q, g) = Buyable(b, p, q, g)
    BY <1>1 DEF Buyable
  <2> QED BY <2>1
<1>5. AvailableCash(a, q, leaving) = AvailableCash(b, q, leaving)
  <2>1. [s \in Secs |-> IF s \in leaving /\ q[s].sell /\ q[s].open > 0
                        THEN SellProceeds(q, s, a.shares[s]) ELSE 0]
          = [s \in Secs |-> IF s \in leaving /\ q[s].sell /\ q[s].open > 0
                            THEN SellProceeds(q, s, b.shares[s]) ELSE 0]
    BY DEF Alike
  <2> QED BY <2>1 DEF AvailableCash, Alike
<1>6. PICK afford : /\ afford = Afforded(q, nav, AvailableCash(a, q, leaving), ByRank(g, can))
                    /\ afford = Afforded(q, nav, AvailableCash(b, q, leaving), ByRank(g, can))
  BY <1>5
<1>7. /\ PlanTopdown(a, p, q, g)
           = [s \in Secs |->
                IF s \in leaving THEN SellRow(q, s, a.shares[s], FALSE)
                ELSE IF s \in Held(a) THEN RetainedRow(a, q, s)
                ELSE IF s \in can /\ s \in afford THEN BuyRow(q, s, MinShares(nav, q, s))
                ELSE Absent]
      /\ PlanTopdown(b, p, q, g)
           = [s \in Secs |->
                IF s \in leaving THEN SellRow(q, s, b.shares[s], FALSE)
                ELSE IF s \in Held(b) THEN RetainedRow(b, q, s)
                ELSE IF s \in can /\ s \in afford THEN BuyRow(q, s, MinShares(nav, q, s))
                ELSE Absent]
  BY <1>2, <1>3, <1>4, <1>6 DEF PlanTopdown
<1>8. \A s \in Secs : RetainedRow(a, q, s) = RetainedRow(b, q, s)
  BY DEF RetainedRow, Alike
<1> QED BY <1>1, <1>7, <1>8 DEF Alike

LEMMA SameRetry ==
    ASSUME NEW a, NEW b, NEW q, Alike(a, b)
    PROVE  PlanRetry(a, q) = PlanRetry(b, q)
<1>1. Held(a) = Held(b)
  BY SameNav
<1> QED BY <1>1 DEF PlanRetry, Alike

\* So does what is executed.
LEMMA SameFilled ==
    ASSUME NEW p, NEW r, NEW q, NEW g, NEW h, NEW plan, NEW cash,
           p.version = r.version, g.rank = h.rank
    PROVE  Filled(p, q, g, plan, cash) = Filled(r, q, h, plan, cash)
<1>1. Scaled(p, q, plan, cash) = Scaled(r, q, plan, cash)
  BY DEF Scaled
<1>2. PICK orders : /\ orders = Table(Scaled(p, q, plan, cash))
                    /\ orders = Table(Scaled(r, q, plan, cash))
  BY <1>1
<1>3. \A s : Priority(g, s) = Priority(h, s)
  BY DEF Priority
<1>4. \A s \in Secs : NotWorse(g, s) = NotWorse(h, s)
  BY <1>3 DEF NotWorse
<1>5. Executable(p, q, g, orders, cash) = Executable(r, q, h, orders, cash)
  BY <1>4 DEF Executable
<1> QED BY <1>2, <1>5 DEF Filled

LEMMA SameParamsAgree ==
    ASSUME NEW p \in Settings, NEW r \in Settings, SameParams(p, r)
    PROVE  /\ p.version = r.version /\ p.guard = r.guard /\ p.corporate = r.corporate
           /\ p.version = "topdown" => p = r
<1>1. p.version = r.version /\ p.guard = r.guard /\ p.corporate = r.corporate
  BY DEF SameParams, ParamsHash
<1>2. ASSUME p.version = "topdown" PROVE p = r
  <2>1. p.walk = r.walk
    BY <1>1, <1>2 DEF SameParams, ParamsHash
  <2> QED BY <1>1, <2>1 DEF Settings
<1> QED BY <1>1, <1>2

LEMMA SamePlan ==
    ASSUME NEW a, NEW b, NEW p \in Settings, NEW r \in Settings, SameParams(p, r),
           NEW q, NEW g, NEW h, NEW reb \in BOOLEAN,
           Alike(a, b), g.weight = h.weight, reb => g = h
    PROVE  DailyPlan(a, p, q, g, reb) = DailyPlan(b, r, q, h, reb)
<1>1. CASE p.version = "lot100"
  BY <1>1, SameLot100, SameParamsAgree DEF DailyPlan
<1>2. CASE p.version # "lot100" /\ reb
  <2>1. p = r /\ g = h
    BY <1>2, SameParamsAgree DEF Settings
  <2> QED BY <1>2, <2>1, SameTopdown DEF DailyPlan
<1>3. CASE p.version # "lot100" /\ ~reb
  BY <1>3, SameRetry, SameParamsAgree DEF DailyPlan
<1> QED BY <1>1, <1>2, <1>3

\* Two runs that agree at the end of a day, and execute a signal on the next or
\* both execute none, agree at the end of the next.
LEMMA SameWalk ==
    ASSUME NEW a, NEW b, NEW p \in Settings, NEW r \in Settings, SameParams(p, r),
           NEW q, NEW e, NEW g, IsAccount(a), IsAccount(b), Alike(a, b),
           a.target \in Targets, b.target \in Targets,
           SnapshotTarget(a.target) = SnapshotTarget(b.target),
           a.history = b.history, Rebalances(a, g) <=> Rebalances(b, g)
    PROVE  LET x == Walked(a, p, q, e, g)
               y == Walked(b, r, q, e, g)
           IN  /\ Alike(x, y) /\ x.history = y.history
               /\ SnapshotTarget(x.target) = SnapshotTarget(y.target)
<1>1. PICK reb \in BOOLEAN : reb = Rebalances(a, g) /\ reb = Rebalances(b, g)
  BY DEF Rebalances
<1>2. PICK sa, sb : sa = ApplyCorporateActions(a, p, e) /\ sb = ApplyCorporateActions(b, r, e)
  OBVIOUS
<1>3. Alike(sa, sb)
  BY <1>2, SameCorporateActions, SameParamsAgree
<1>4. PICK ta, tb : /\ ta = (IF reb THEN g ELSE a.target)
                    /\ tb = (IF reb THEN g ELSE b.target)
  OBVIOUS
<1>5. /\ ta.rank = tb.rank /\ ta.weight = tb.weight /\ (reb => ta = tb)
      /\ SnapshotTarget(ta) = SnapshotTarget(tb)
  BY <1>4 DEF SnapshotTarget, Targets
<1>6. PICK plan : /\ plan = Table(DailyPlan(sa, p, q, ta, reb))
                  /\ plan = Table(DailyPlan(sb, r, q, tb, reb))
  BY <1>3, <1>5, SamePlan
<1>7. CashAfterSells(sa, q, plan) = CashAfterSells(sb, q, plan)
  BY <1>3 DEF CashAfterSells, Alike
<1>8. PICK cash : /\ cash = CashAfterSells(sa, q, plan)
                  /\ cash = CashAfterSells(sb, q, plan)
  BY <1>7
<1>9. PICK bought : /\ bought = Filled(p, q, ta, plan, cash)
                    /\ bought = Filled(r, q, tb, plan, cash)
  BY <1>5, SameFilled, SameParamsAgree
<1>10. UpdateHoldings(sa, plan, bought) = UpdateHoldings(sb, plan, bought)
  BY <1>3 DEF UpdateHoldings, Alike
<1>11. PICK n : /\ n = Table(UpdateHoldings(sa, plan, bought))
                /\ n = Table(UpdateHoldings(sb, plan, bought))
  BY <1>10
<1>12. UpdatePendingSell(sa, q, plan, reb) = UpdatePendingSell(sb, q, plan, reb)
  BY <1>3 DEF UpdatePendingSell, Alike
<1>13. /\ Walked(a, p, q, e, g) = Closed(a, sa, q, plan, reb, ta, cash, bought, n)
       /\ Walked(b, r, q, e, g) = Closed(b, sb, q, plan, reb, tb, cash, bought, n)
  <2>1. /\ Walked(a, p, q, e, g) = Executed(a, p, q, sa, ta, reb, plan)
        /\ Walked(b, r, q, e, g) = Executed(b, r, q, sb, tb, reb, plan)
    BY <1>1, <1>2, <1>4, <1>6 DEF Walked
  <2> QED BY <2>1, <1>8, <1>9, <1>11 DEF Executed
<1> QED BY <1>5, <1>12, <1>13 DEF Closed, Alike

LEMMA DivInt ==
    ASSUME NEW a \in Int, NEW b \in Nat \ {0}
    PROVE  a \div b \in Int /\ (a >= 0 => a \div b \in Nat) /\ (a \div b) * b <= a
  OBVIOUS

LEMMA LotInt ==
    ASSUME NEW n \in Int
    PROVE  /\ FloorToLot(n) \in Int /\ FloorToLot(n) <= n
           /\ n >= 0 => FloorToLot(n) \in Nat
<1>1. LotSize \in Nat \ {0}
  BY LedgerAssumption
<1>2. PICK k \in Int : k = n \div LotSize /\ (n >= 0 => k \in Nat) /\ k * LotSize <= n
  BY <1>1, DivInt
<1> QED BY <1>1, <1>2 DEF FloorToLot

LEMMA BpsNat ==
    ASSUME NEW n \in Int, NEW rate \in Nat
    PROVE  Bps(n, rate) \in Int /\ (n >= 0 => Bps(n, rate) \in Nat)
  BY DivInt, n * rate \in Int, n >= 0 => n * rate >= 0 DEF Bps

LEMMA MaxInt ==
    ASSUME NEW a \in Int, NEW b \in Int
    PROVE  Max({a, b}) = (IF a >= b THEN a ELSE b)
  BY DEF Max

LEMMA MinInt ==
    ASSUME NEW a \in Int, NEW b \in Int
    PROVE  Min({a, b}) = (IF a <= b THEN a ELSE b)
  BY DEF Min

\* Every non-empty set of numbers has a least element.
LEMMA LeastExists ==
    ASSUME NEW S \in SUBSET Nat, S # {}
    PROVE  \E x \in S : \A m \in S : x <= m
<1> DEFINE R == {p \in Nat \X Nat : p[1] < p[2]}
<1>1. IsWellFoundedOn(R, Nat)
  <2>1. IsWellFoundedOn({ss \in Nat \X Nat : ss[1] < ss[2]}, Nat)
    BY NatLessThanWellFounded, Zenon DEF OpToRel
  <2> QED BY <2>1
<1>2. \A x, y \in Nat : <<y, x>> \in R <=> y < x
  OBVIOUS
<1> HIDE DEF R
<1>3. \E x \in S : \A y \in S : ~(<<y, x>> \in R)
  BY <1>1, WFMin
<1>4. \A x, y \in Nat : ~(y < x) => x <= y
  OBVIOUS
<1> QED BY <1>2, <1>3, <1>4

\* The running sum exists.
LEMMA UpToExists ==
    ASSUME NEW f \in [Secs -> Int]
    PROVE  \E u \in [0 .. SecCount -> Int] :
              u = [n \in 0 .. SecCount |-> IF n = 0 THEN 0 ELSE u[n - 1] + f[n]]
<1> DEFINE Sums(u, m) == /\ u \in [0 .. m -> Int] /\ u[0] = 0
                         /\ \A n \in 1 .. m : u[n] = u[n - 1] + f[n]
           Bad == {m \in 0 .. SecCount : \A u : ~Sums(u, m)}
<1>0. SecCount \in Nat \ {0}
  BY LedgerAssumption
<1>1. Bad = {}
  <2> SUFFICES ASSUME Bad # {} PROVE FALSE
    OBVIOUS
  <2>1. PICK m \in Bad : \A k \in Bad : m <= k
    <3>1. Bad \in SUBSET Nat
      BY <1>0
    <3> HIDE DEF Bad
    <3> QED BY <3>1, LeastExists
  <2>2. CASE m = 0
    <3>1. Sums([n \in 0 .. 0 |-> 0], 0)
      OBVIOUS
    <3> QED BY <2>1, <2>2, <3>1
  <2>3. CASE m # 0
    <3>1. m - 1 \in 0 .. SecCount /\ m \in Secs /\ m - 1 < m
      BY <1>0, <2>1, <2>3 DEF Secs
    <3>2. m - 1 \notin Bad
      BY <3>1, <2>1
    <3>3. PICK u : Sums(u, m - 1)
      BY <3>1, <3>2
    <3>4. PICK v : v = [n \in 0 .. m |-> IF n = m THEN u[m - 1] + f[m] ELSE u[n]]
      OBVIOUS
    <3>5. Sums(v, m)
      <4>0. m \in Nat /\ 0 # m
        BY <1>0, <2>1, <2>3
      <4> HIDE DEF Bad
      <4>1. v \in [0 .. m -> Int]
        <5>1. f[m] \in Int /\ u[m - 1] \in Int
          BY <3>1, <3>3, <4>0
        <5>2. \A n \in 0 .. m : n # m => u[n] \in Int
          BY <3>3, <4>0
        <5> QED BY <3>4, <5>1, <5>2
      <4>2. v[0] = 0
        BY <3>3, <3>4, <4>0
      <4>3. ASSUME NEW n \in 1 .. m
            PROVE  v[n] = v[n - 1] + f[n]
        <5>1. /\ m \in Nat /\ n \in 0 .. m /\ n - 1 \in 0 .. m /\ n - 1 # m
              /\ n # m => n \in 1 .. (m - 1)
          BY <4>0
        <5>2. v[n - 1] = u[n - 1]
          BY <3>4, <5>1
        <5>3. CASE n = m
          <6>1. v[n] = u[m - 1] + f[m]
            BY <3>4, <5>1, <5>3
          <6> QED BY <5>2, <5>3, <6>1
        <5>4. CASE n # m
          <6>1. v[n] = u[n]
            BY <3>4, <5>1, <5>4
          <6>2. u[n] = u[n - 1] + f[n]
            BY <3>3, <5>1, <5>4
          <6> QED BY <5>2, <6>1, <6>2
        <5> QED BY <5>3, <5>4
      <4> QED BY <4>1, <4>2, <4>3
    <3> QED BY <2>1, <3>5
  <2> QED BY <2>2, <2>3
<1>2. PICK u : Sums(u, SecCount)
  <2>1. SecCount \in 0 .. SecCount
    BY <1>0
  <2> HIDE DEF Sums
  <2> QED BY <1>1, <2>1
<1>3. u = [n \in 0 .. SecCount |-> IF n = 0 THEN 0 ELSE u[n - 1] + f[n]]
  BY <1>0, <1>2
<1> QED BY <1>2, <1>3

LEMMA TotalIs ==
    ASSUME NEW f \in [Secs -> Int]
    PROVE  \E u : /\ u = [n \in 0 .. SecCount |-> IF n = 0 THEN 0 ELSE u[n - 1] + f[n]]
                  /\ Total(f) = u[SecCount]
  BY UpToExists DEF Total

\* The sum of whole numbers is one.
LEMMA TotalInt ==
    ASSUME NEW f \in [Secs -> Int]
    PROVE  Total(f) \in Int
<1>0. SecCount \in Nat \ {0}
  BY LedgerAssumption
<1>1. PICK u : /\ u = [n \in 0 .. SecCount |-> IF n = 0 THEN 0 ELSE u[n - 1] + f[n]]
               /\ Total(f) = u[SecCount]
  BY TotalIs
<1> DEFINE Bad == {n \in 0 .. SecCount : u[n] \notin Int}
<1>2. Bad = {}
  <2> SUFFICES ASSUME Bad # {} PROVE FALSE
    OBVIOUS
  <2>1. PICK m \in Bad : \A k \in Bad : m <= k
    <3>1. Bad \in SUBSET Nat
      BY <1>0
    <3> HIDE DEF Bad
    <3> QED BY <3>1, LeastExists
  <2>2. m # 0
    BY <1>1, <2>1
  <2>3. m - 1 \in 0 .. SecCount /\ m \in Secs /\ m - 1 < m
    BY <1>0, <2>1, <2>2 DEF Secs
  <2>4. m - 1 \notin Bad
    BY <2>1, <2>3
  <2> QED BY <1>1, <2>1, <2>2, <2>3, <2>4
<1>3. SecCount \in 0 .. SecCount
  BY <1>0
<1>4. u[SecCount] \in Int
  BY <1>2, <1>3
<1> QED BY <1>1, <1>4

\* A sum of numbers that are not negative is at least each of them.
LEMMA TotalAtLeast ==
    ASSUME NEW f \in [Secs -> Nat], NEW s \in Secs
    PROVE  Total(f) >= f[s]
<1>0. SecCount \in Nat \ {0}
  BY LedgerAssumption
<1>1. PICK u : /\ u = [n \in 0 .. SecCount |-> IF n = 0 THEN 0 ELSE u[n - 1] + f[n]]
               /\ Total(f) = u[SecCount]
  BY TotalIs
<1> DEFINE Good(n) == u[n] \in Nat /\ \A k \in 1 .. n : f[k] <= u[n]
           Bad == {n \in 0 .. SecCount : ~Good(n)}
<1>2. Bad = {}
  <2> SUFFICES ASSUME Bad # {} PROVE FALSE
    OBVIOUS
  <2>1. PICK m \in Bad : \A k \in Bad : m <= k
    <3>1. Bad \in SUBSET Nat
      BY <1>0
    <3> HIDE DEF Bad
    <3> QED BY <3>1, LeastExists
  <2>2. m # 0
    BY <1>1, <2>1
  <2>3. m - 1 \in 0 .. SecCount /\ m \in Secs /\ m - 1 < m
    BY <1>0, <2>1, <2>2 DEF Secs
  <2>4. Good(m - 1)
    BY <2>1, <2>3
  <2>5. f[m] \in Nat /\ u[m] = u[m - 1] + f[m]
    BY <1>1, <2>1, <2>2, <2>3
  <2>6. \A k \in 1 .. m : k = m \/ k \in 1 .. (m - 1)
    BY <2>1, <1>0
  <2>7. \A k \in 1 .. m : k \in Secs
    BY <2>1, <1>0 DEF Secs
  <2>8. Good(m)
    BY <2>4, <2>5, <2>6, <2>7
  <2> QED BY <2>1, <2>8
<1>3. Good(SecCount) /\ s \in 1 .. SecCount
  BY <1>0, <1>2 DEF Secs
<1> QED BY <1>1, <1>3

LEMMA TotalNat ==
    ASSUME NEW f \in [Secs -> Nat]
    PROVE  Total(f) \in Nat
<1>1. 1 \in Secs
  BY LedgerAssumption DEF Secs
<1>2. Total(f) >= f[1] /\ f[1] >= 0
  BY <1>1, TotalAtLeast
<1>3. Total(f) \in Int
  BY TotalInt
<1>4. f[1] \in Nat
  BY <1>1
<1> QED BY <1>2, <1>3, <1>4

LEMMA TotalMonotone ==
    ASSUME NEW f \in [Secs -> Nat], NEW g \in [Secs -> Nat], \A s \in Secs : f[s] <= g[s]
    PROVE  Total(f) <= Total(g)
<1>0. SecCount \in Nat \ {0}
  BY LedgerAssumption
<1>1. PICK u : /\ u = [n \in 0 .. SecCount |-> IF n = 0 THEN 0 ELSE u[n - 1] + f[n]]
               /\ Total(f) = u[SecCount]
  BY TotalIs
<1>2. PICK v : /\ v = [n \in 0 .. SecCount |-> IF n = 0 THEN 0 ELSE v[n - 1] + g[n]]
               /\ Total(g) = v[SecCount]
  BY TotalIs
<1> DEFINE Good(n) == u[n] \in Nat /\ v[n] \in Nat /\ u[n] <= v[n]
           Bad == {n \in 0 .. SecCount : ~Good(n)}
<1>3. Bad = {}
  <2> SUFFICES ASSUME Bad # {} PROVE FALSE
    OBVIOUS
  <2>1. PICK m \in Bad : \A k \in Bad : m <= k
    <3>1. Bad \in SUBSET Nat
      BY <1>0
    <3> HIDE DEF Bad
    <3> QED BY <3>1, LeastExists
  <2>2. m # 0
    BY <1>1, <1>2, <2>1
  <2>3. m - 1 \in 0 .. SecCount /\ m \in Secs /\ m - 1 < m
    BY <1>0, <2>1, <2>2 DEF Secs
  <2>4. Good(m - 1)
    BY <2>1, <2>3
  <2>5. u[m] = u[m - 1] + f[m] /\ v[m] = v[m - 1] + g[m]
    BY <1>1, <1>2, <2>1, <2>2
  <2>6. f[m] \in Nat /\ g[m] \in Nat /\ f[m] <= g[m]
    BY <2>3
  <2>7. Good(m)
    BY <2>4, <2>5, <2>6
  <2> QED BY <2>1, <2>7
<1>4. Good(SecCount)
  BY <1>0, <1>3
<1> QED BY <1>1, <1>2, <1>4

LEMMA TotalZero ==
    ASSUME NEW f \in [Secs -> Nat], \A s \in Secs : f[s] = 0
    PROVE  Total(f) = 0
<1>0. SecCount \in Nat \ {0}
  BY LedgerAssumption
<1>1. PICK u : /\ u = [n \in 0 .. SecCount |-> IF n = 0 THEN 0 ELSE u[n - 1] + f[n]]
               /\ Total(f) = u[SecCount]
  BY TotalIs
<1> DEFINE Bad == {n \in 0 .. SecCount : u[n] # 0}
<1>2. Bad = {}
  <2> SUFFICES ASSUME Bad # {} PROVE FALSE
    OBVIOUS
  <2>1. PICK m \in Bad : \A k \in Bad : m <= k
    <3>1. Bad \in SUBSET Nat
      BY <1>0
    <3> HIDE DEF Bad
    <3> QED BY <3>1, LeastExists
  <2>2. m # 0
    BY <1>1, <2>1
  <2>3. m - 1 \in 0 .. SecCount /\ m \in Secs /\ m - 1 < m
    BY <1>0, <2>1, <2>2 DEF Secs
  <2>4. u[m - 1] = 0
    BY <2>1, <2>3
  <2>5. u[m] = u[m - 1] + f[m]
    BY <1>1, <2>1, <2>2
  <2> QED BY <2>1, <2>3, <2>4, <2>5
<1>3. SecCount \in 0 .. SecCount
  BY <1>0
<1>4. u[SecCount] = 0
  BY <1>2, <1>3
<1> QED BY <1>1, <1>4

\* A table is the function it is written from.
LEMMA TableIs ==
    ASSUME NEW f, f = [s \in Secs |-> f[s]]
    PROVE  Table(f) = f
<1>0. SecCount \in Nat \ {0}
  BY LedgerAssumption
<1>1. \A i \in 1 .. (SecCount - 1 + 1) : f[i + 1 - 1] = f[i]
  BY <1>0
<1>2. DOMAIN f = 1 .. SecCount /\ SecCount - 1 + 1 = SecCount
  BY <1>0 DEF Secs
<1>3. PICK T : T = {f[s] : s \in Secs}
  OBVIOUS
<1>4. f \in Seq(T) /\ Len(f) = SecCount
  BY <1>0, <1>3 DEF Secs
<1>5. /\ SubSeq(f, 1, SecCount) \in Seq(T) /\ Len(SubSeq(f, 1, SecCount)) = SecCount
      /\ \A i \in 1 .. SecCount : SubSeq(f, 1, SecCount)[i] = f[i]
  BY <1>0, <1>2, <1>4
<1>6. SubSeq(f, 1, SecCount) = f
  BY <1>0, <1>4, <1>5, SeqEqual
<1> QED BY <1>6 DEF Table

-----------------------------------------------------------------------------
(* What a plan may hold.                                                      *)

LEMMA QuoteIs ==
    ASSUME NEW q \in Quotes, NEW s \in Secs
    PROVE  /\ q[s].open \in Nat /\ q[s].close \in Nat
           /\ q[s].buy \in BOOLEAN /\ q[s].sell \in BOOLEAN
           /\ q[s].buy => q[s].close > 0
  BY MarketAssumption

LEMMA Costs ==
    ASSUME NEW q \in Quotes, NEW s \in Secs, NEW n \in Nat
    PROVE  /\ SellProceeds(q, s, n) \in Int
           /\ CashRequired(q, s, n) \in Nat
           /\ n > 0 /\ q[s].open > 0 => CashRequired(q, s, n) > 0
<1>0. {CommissionBps, MinCommission, SellTaxBps, SlippageBps} \subseteq Nat
  BY LedgerAssumption
<1>1. PICK o \in Nat : o = q[s].open
  BY QuoteIs
<1>2. PICK slip \in Nat : slip = Bps(o, SlippageBps)
  BY <1>0, BpsNat
<1>3. \A t \in Int : Fee(t) \in Int /\ Fee(t) >= 0
  <2> SUFFICES ASSUME NEW t \in Int PROVE Fee(t) \in Int /\ Fee(t) >= 0
    OBVIOUS
  <2>1. Bps(t, CommissionBps) \in Int
    BY <1>0, BpsNat
  <2> QED BY <1>0, <2>1, MaxInt DEF Fee
<1>4. SellPrice(q, s) = o - slip /\ BuyPrice(q, s) = o + slip
  BY <1>1, <1>2 DEF SellPrice, BuyPrice
<1>5. PICK t \in Int : t = n * (o - slip)
  OBVIOUS
<1>6. Bps(t, SellTaxBps) \in Int
  BY <1>0, BpsNat
<1>7. SellProceeds(q, s, n) = t - Fee(t) - Bps(t, SellTaxBps)
  BY <1>4, <1>5 DEF SellProceeds
<1>8. PICK v \in Nat : v = n * (o + slip) /\ (n > 0 /\ o > 0 => v > 0)
  <2>1. n * (o + slip) \in Nat
    OBVIOUS
  <2>2. n > 0 /\ o > 0 => n * (o + slip) > 0
    OBVIOUS
  <2> QED BY <2>1, <2>2
<1>9. CashRequired(q, s, n) = v + Fee(v)
  BY <1>4, <1>8 DEF CashRequired
<1>10. SellProceeds(q, s, n) \in Int
  BY <1>3, <1>6, <1>7
<1>11. CashRequired(q, s, n) \in Nat /\ (n > 0 /\ o > 0 => CashRequired(q, s, n) > 0)
  BY <1>3, <1>8, <1>9
<1> QED BY <1>1, <1>10, <1>11

LEMMA Valued ==
    ASSUME NEW q \in Quotes, NEW s \in Secs, close \in [Secs -> Nat]
    PROVE  /\ ValuationPrice(close, q, s) \in Nat
           /\ close[s] > 0 => ValuationPrice(close, q, s) > 0
  BY QuoteIs DEF ValuationPrice, FirstFinite

LEMMA NavInt ==
    ASSUME NEW q \in Quotes, NEW a, a.cash \in Int, a.shares \in [Secs -> Nat],
           close \in [Secs -> Nat]
    PROVE  NavBefore(a, q) \in Int
<1>1. \A s \in Secs : a.shares[s] * ValuationPrice(close, q, s) \in Int
  BY Valued
<1>2. PICK f : f = [s \in Secs |-> a.shares[s] * ValuationPrice(close, q, s)]
  OBVIOUS
<1>3. f \in [Secs -> Int]
  BY <1>1, <1>2
<1> QED BY <1>2, <1>3, TotalInt DEF NavBefore

\* What a plan may do with a security of which n shares are held.
RowOK(w, q, s, n) ==
    /\ w.row \in BOOLEAN /\ w.pending \in BOOLEAN
    /\ w.sell \in Nat /\ w.sell <= n /\ (w.sell > 0 => q[s].open > 0)
    /\ w.want \in Int /\ w.planned \in Nat
    /\ w.want > 0 => q[s].buy /\ q[s].open > 0

\* It is sold out, or it could not be traded and stays on the list.
Dropped(w, n) ==
    /\ w.want = 0
    /\ \/ ~w.row
       \/ w.sell = n
       \/ w.row /\ w.sell = 0 /\ w.desired = 0 /\ w.skip = "untradable"

LEMMA AbsentOK ==
    ASSUME NEW q, NEW s, NEW n \in Nat
    PROVE  RowOK(Absent, q, s, n) /\ Dropped(Absent, n)
  BY DEF RowOK, Dropped, Absent

LEMMA SellRowOK ==
    ASSUME NEW q, NEW s, NEW n \in Nat, NEW pending \in BOOLEAN
    PROVE  RowOK(SellRow(q, s, n, pending), q, s, n) /\ Dropped(SellRow(q, s, n, pending), n)
  BY DEF RowOK, Dropped, SellRow, PlanRow

LEMMA RowLot100OK ==
    ASSUME NEW a, NEW p, NEW q \in Quotes, NEW g \in Targets, NEW reb \in BOOLEAN,
           NEW nav \in Int, NEW s \in Secs, a.shares \in [Secs -> Nat],
           close \in [Secs -> Nat], a.shares[s] > 0 => close[s] > 0
    PROVE  LET w == RowLot100(a, p, q, g, reb, nav, s)
           IN  /\ RowOK(w, q, s, a.shares[s])
               /\ g.weight[s] = 0 /\ (reb \/ s \in a.pending \/ a.shares[s] = 0)
                    => Dropped(w, a.shares[s])
<1>1. PICK n \in Nat, v \in Nat, o \in Nat, wt \in Nat :
        /\ n = a.shares[s] /\ v = ValuationPrice(close, q, s)
        /\ o = q[s].open /\ wt = g.weight[s]
  BY QuoteIs, Valued DEF Targets
<1>2. PICK b, c, pen, bl \in BOOLEAN :
        /\ b <=> q[s].buy
        /\ c <=> q[s].sell
        /\ pen <=> s \in a.pending
        /\ bl <=> p.guard /\ (g.off \/ (s \in g.risky /\ n = 0))
  OBVIOUS
<1>3. PICK desired \in Int : desired = (wt * nav) \div 10 /\ (wt = 0 => desired = 0)
  <2>1. wt * nav \in Int
    OBVIOUS
  <2>2. (wt * nav) \div 10 \in Int
    BY <2>1, DivInt
  <2>3. wt = 0 => wt * nav = 0
    OBVIOUS
  <2>4. wt = 0 => (wt * nav) \div 10 = 0
    BY <2>3
  <2> QED BY <2>2, <2>4
<1>4. PICK gap \in Int : gap = n * v - desired /\ (desired = 0 /\ n > 0 => gap > 0)
                         /\ (desired = 0 => gap >= 0)
  <2>1. n * v \in Nat
    OBVIOUS
  <2>2. n > 0 => v > 0
    BY <1>1, Valued
  <2>3. n > 0 => n * v > 0
    BY <2>2
  <2>4. n * v - desired \in Int
    BY <2>1
  <2> QED BY <2>1, <2>3, <2>4
<1>5. PICK part : part = PartialSell(n, gap, o)
  OBVIOUS
<1>6. gap > 0 /\ o > 0 => part \in Nat /\ part <= n
  <2> SUFFICES ASSUME gap > 0, o > 0 PROVE part \in Nat /\ part <= n
    OBVIOUS
  <2>1. PICK d \in Nat : d = gap \div o
    BY DivInt
  <2>2. PICK k \in Nat : k = Min({n, gap \div o}) /\ k <= n
    <3>1. Min({n, d}) = (IF n <= d THEN n ELSE d)
      BY MinInt
    <3> QED BY <2>1, <3>1
  <2>3. FloorToLot(k) \in Nat /\ FloorToLot(k) <= k
    BY LotInt
  <2> QED BY <1>5, <2>2, <2>3 DEF PartialSell
<1>7. PICK intent, sellable, buys \in BOOLEAN :
        /\ intent <=> n > 0 /\ (reb \/ pen) /\ gap > 0
        /\ sellable <=> intent /\ c /\ o > 0
        /\ buys <=> reb /\ b /\ o > 0 /\ gap < 0 /\ ~bl
  OBVIOUS
<1>8. PICK w : w = RowLot100(a, p, q, g, reb, nav, s)
  OBVIOUS
<1>9. /\ w.row = TRUE /\ w.desired = desired /\ w.planned = 0 /\ w.pending = pen
      /\ w.sell = (IF ~sellable THEN 0 ELSE IF desired = 0 THEN n ELSE part)
      /\ w.want = (IF buys THEN -gap ELSE 0)
      /\ w.skip = (IF sellable /\ desired > 0 /\ part = 0 THEN "partial"
                   ELSE IF intent /\ ~sellable THEN "untradable" ELSE "none")
  <2>1. w.row = TRUE /\ w.desired = desired /\ w.planned = 0 /\ (w.pending = pen)
    BY <1>1, <1>2, <1>3, <1>8 DEF RowLot100
  <2>2. w.sell = (IF ~sellable THEN 0 ELSE IF desired = 0 THEN n ELSE part)
    BY <1>1, <1>2, <1>3, <1>4, <1>5, <1>7, <1>8 DEF RowLot100
  <2>3. w.want = (IF buys THEN -gap ELSE 0)
    BY <1>1, <1>2, <1>3, <1>4, <1>5, <1>7, <1>8 DEF RowLot100
  <2>4. w.skip = (IF sellable /\ desired > 0 /\ part = 0 THEN "partial"
                  ELSE IF intent /\ ~sellable THEN "untradable" ELSE "none")
    BY <1>1, <1>2, <1>3, <1>4, <1>5, <1>7, <1>8 DEF RowLot100
  <2> QED BY <2>1, <2>2, <2>3, <2>4
<1>10. RowOK(w, q, s, n)
  <2>2. w.sell \in Nat /\ w.sell <= n
    BY <1>6, <1>7, <1>9
  <2>7. w.sell > 0 => q[s].open > 0
    BY <1>1, <1>7, <1>9
  <2>3. w.want \in Int /\ (w.want > 0 => buys)
    <3>1. -gap \in Int
      OBVIOUS
    <3>2. CASE buys
      BY <1>9, <3>1, <3>2
    <3>3. CASE ~buys
      BY <1>9, <3>3
    <3> QED BY <3>2, <3>3
  <2>4. w.row \in BOOLEAN /\ w.pending \in BOOLEAN
    BY <1>9, Zenon
  <2>6. w.planned \in Nat
    BY <1>9
  <2>5. w.want > 0 => q[s].buy /\ q[s].open > 0
    BY <1>1, <1>2, <1>7, <2>3
  <2> QED BY <2>2, <2>3, <2>4, <2>5, <2>6, <2>7 DEF RowOK
<1>11. ASSUME wt = 0, reb \/ pen \/ n = 0 PROVE Dropped(w, n)
  <2>1. desired = 0 /\ ~(gap < 0) /\ (n > 0 => gap > 0)
    BY <1>3, <1>4, <1>11
  <2>2. ~buys
    BY <1>7, <2>1
  <2>3. w.want = 0
    BY <1>9, <2>2
  <2>4. CASE n = 0
    BY <1>7, <1>9, <2>3, <2>4 DEF Dropped
  <2>5. CASE n > 0 /\ sellable
    BY <1>9, <2>1, <2>3, <2>5 DEF Dropped
  <2>6. CASE n > 0 /\ ~sellable
    <3>1. intent
      BY <1>7, <1>11, <2>1, <2>6
    <3> QED BY <1>9, <1>11, <2>1, <2>3, <2>6, <3>1 DEF Dropped
  <2> QED BY <2>4, <2>5, <2>6
<1> QED BY <1>1, <1>2, <1>8, <1>10, <1>11

\* The plan of a day as a whole: b is the account after corporate actions.
PlanOK(b, q, plan) == \A s \in Secs : RowOK(plan[s], q, s, b.shares[s])
PlanDrops(b, p, g, plan, reb) ==
    \A s \in Secs :
       (IF p.version = "topdown" THEN s \notin Walk(p, g) ELSE g.weight[s] = 0)
          /\ (reb \/ s \in b.pending \/ b.shares[s] = 0)
       => Dropped(plan[s], b.shares[s])

LEMMA PlanLot100OK ==
    ASSUME NEW b, NEW p \in Settings, NEW q \in Quotes, NEW g \in Targets,
           NEW reb \in BOOLEAN, b.cash \in Int, b.shares \in [Secs -> Nat],
           close \in [Secs -> Nat], \A s \in Held(b) : close[s] > 0,
           p.version = "lot100"
    PROVE  LET plan == PlanLot100(b, p, q, g, reb)
           IN  PlanOK(b, q, plan) /\ PlanDrops(b, p, g, plan, reb)
<1>1. PICK nav \in Int : nav = NavBefore(b, q)
  BY NavInt
<1>2. PICK U : U = Held(b) \cup b.pending
                      \cup (IF reb THEN {s \in Secs : g.weight[s] > 0} ELSE {})
  OBVIOUS
<1>3. PICK plan : plan = PlanLot100(b, p, q, g, reb)
  OBVIOUS
<1>4. plan = [s \in Secs |-> IF s \in U THEN RowLot100(b, p, q, g, reb, nav, s) ELSE Absent]
  BY <1>1, <1>2, <1>3 DEF PlanLot100
<1>5. ASSUME NEW s \in Secs
      PROVE  /\ RowOK(plan[s], q, s, b.shares[s])
             /\ g.weight[s] = 0 /\ (reb \/ s \in b.pending \/ b.shares[s] = 0)
                  => Dropped(plan[s], b.shares[s])
  <2>1. b.shares[s] > 0 => close[s] > 0
    BY DEF Held
  <2>2. CASE s \in U
    BY <1>4, <2>1, <2>2, RowLot100OK
  <2>3. CASE s \notin U
    <3>1. plan[s] = Absent
      BY <1>4, <2>3
    <3> QED BY <3>1, AbsentOK
  <2> QED BY <2>2, <2>3
<1> QED BY <1>3, <1>5 DEF PlanOK, PlanDrops

LEMMA MinSharesNat ==
    ASSUME NEW q \in Quotes, NEW s \in Secs, NEW nav \in Int, q[s].open > 0
    PROVE  MinShares(nav, q, s) \in Nat
<1>0. {SecCount, LotSize, MinBuyLot, FloorCount, InitialCapital, Days} \subseteq Nat \ {0}
  BY LedgerAssumption
<1>1. PICK o \in Nat \ {0} : o = q[s].open
  BY QuoteIs
<1>2. PICK k \in Nat \ {0} : k = FloorCount * LotSize * o
  <2>1. FloorCount * LotSize \in Nat \ {0}
    BY <1>0
  <2>2. \A x \in Nat \ {0} : x * o \in Nat \ {0}
    OBVIOUS
  <2> QED BY <2>1, <2>2
<1>3. PICK m \in Int : m = (nav + k - 1) \div k
  BY DivInt, nav + k - 1 \in Int
<1>4. Max({MinBuyLot, m}) \in Nat
  <2>1. Max({MinBuyLot, m}) = (IF MinBuyLot >= m THEN MinBuyLot ELSE m)
    BY <1>0, MaxInt
  <2> QED BY <1>0, <2>1
<1>5. \A x \in Nat : x * LotSize \in Nat
  BY <1>0
<1> QED BY <1>1, <1>2, <1>3, <1>4, <1>5 DEF MinShares

LEMMA PlanTopdownOK ==
    ASSUME NEW b, NEW p \in Settings, NEW q \in Quotes, NEW g \in Targets,
           b.cash \in Int, b.shares \in [Secs -> Nat],
           close \in [Secs -> Nat], p.version = "topdown"
    PROVE  LET plan == PlanTopdown(b, p, q, g)
           IN  PlanOK(b, q, plan) /\ PlanDrops(b, p, g, plan, TRUE)
<1>1. PICK nav \in Int : nav = NavBefore(b, q)
  BY NavInt
<1>2. PICK can : can = Buyable(b, p, q, g)
  OBVIOUS
<1>3. \A s \in can : s \in Walk(p, g) /\ q[s].buy /\ q[s].open > 0
  BY <1>2 DEF Buyable
<1>4. PICK leaving : leaving = Held(b) \ Walk(p, g)
  OBVIOUS
<1>5. PICK afford : afford = Afforded(q, nav, AvailableCash(b, q, leaving), ByRank(g, can))
  OBVIOUS
<1>6. PICK plan : plan = PlanTopdown(b, p, q, g)
  OBVIOUS
<1>7. plan = [s \in Secs |->
                IF s \in leaving THEN SellRow(q, s, b.shares[s], FALSE)
                ELSE IF s \in Held(b) THEN RetainedRow(b, q, s)
                ELSE IF s \in can /\ s \in afford THEN BuyRow(q, s, MinShares(nav, q, s))
                ELSE Absent]
  BY <1>1, <1>2, <1>4, <1>5, <1>6 DEF PlanTopdown
<1>8. ASSUME NEW s \in Secs
      PROVE  /\ RowOK(plan[s], q, s, b.shares[s])
             /\ s \notin Walk(p, g) => Dropped(plan[s], b.shares[s])
  <2>0. b.shares[s] \in Nat
    OBVIOUS
  <2>1. CASE s \in leaving
    <3>1. plan[s] = SellRow(q, s, b.shares[s], FALSE)
      BY <1>7, <2>1
    <3> QED BY <2>0, <3>1, SellRowOK
  <2>2. CASE s \in Held(b) /\ s \notin leaving
    <3>1. plan[s] = RetainedRow(b, q, s) /\ s \in Walk(p, g)
      BY <1>4, <1>7, <2>2
    <3>2. RowOK(RetainedRow(b, q, s), q, s, b.shares[s])
      BY <2>0 DEF RetainedRow, PlanRow, RowOK
    <3> QED BY <3>1, <3>2
  <2>3. CASE s \notin Held(b) /\ s \in can /\ s \in afford
    <3>1. plan[s] = BuyRow(q, s, MinShares(nav, q, s)) /\ s \in Walk(p, g)
      BY <1>3, <1>4, <1>7, <2>3
    <3>2. PICK n \in Nat : n = MinShares(nav, q, s)
      BY <1>3, <2>3, MinSharesNat
    <3>3. n * q[s].open \in Int
      BY QuoteIs
    <3>4. RowOK(BuyRow(q, s, n), q, s, b.shares[s])
      BY <1>3, <2>0, <2>3, <3>3 DEF BuyRow, RowOK
    <3> QED BY <3>1, <3>2, <3>4
  <2>4. CASE s \notin Held(b) /\ ~(s \in can /\ s \in afford)
    <3>1. plan[s] = Absent
      BY <1>4, <1>7, <2>4
    <3> QED BY <2>0, <3>1, AbsentOK
  <2> QED BY <2>1, <2>2, <2>3, <2>4
<1> QED BY <1>6, <1>8 DEF PlanOK, PlanDrops

LEMMA PlanRetryOK ==
    ASSUME NEW b, NEW p, NEW q \in Quotes, NEW g,
           b.shares \in [Secs -> Nat]
    PROVE  LET plan == PlanRetry(b, q)
           IN  PlanOK(b, q, plan) /\ PlanDrops(b, p, g, plan, FALSE)
<1>1. PICK plan : plan = PlanRetry(b, q)
  OBVIOUS
<1>2. ASSUME NEW s \in Secs
      PROVE  /\ RowOK(plan[s], q, s, b.shares[s])
             /\ s \in b.pending \/ b.shares[s] = 0 => Dropped(plan[s], b.shares[s])
  <2>0. b.shares[s] \in Nat
    OBVIOUS
  <2>1. CASE s \notin Held(b)
    <3>1. plan[s] = Absent
      BY <1>1, <2>1 DEF PlanRetry
    <3> QED BY <2>0, <3>1, AbsentOK
  <2>2. CASE s \in Held(b) /\ s \in b.pending
    <3>1. plan[s] = SellRow(q, s, b.shares[s], TRUE)
      BY <1>1, <2>2 DEF PlanRetry
    <3> QED BY <2>0, <3>1, SellRowOK
  <2>3. CASE s \in Held(b) /\ s \notin b.pending
    <3>1. plan[s] = PlanRow(0, 0, "none", FALSE)
      BY <1>1, <2>3 DEF PlanRetry
    <3>2. RowOK(PlanRow(0, 0, "none", FALSE), q, s, b.shares[s])
      BY <2>0 DEF PlanRow, RowOK
    <3>3. b.shares[s] # 0
      BY <2>0, <2>3 DEF Held
    <3> QED BY <2>3, <3>1, <3>2, <3>3
  <2> QED BY <2>1, <2>2, <2>3
<1> QED BY <1>1, <1>2 DEF PlanOK, PlanDrops

LEMMA DailyPlanOK ==
    ASSUME NEW b, NEW p \in Settings, NEW q \in Quotes, NEW g \in Targets,
           NEW reb \in BOOLEAN, b.cash \in Int, b.shares \in [Secs -> Nat],
           close \in [Secs -> Nat], \A s \in Held(b) : close[s] > 0
    PROVE  LET plan == DailyPlan(b, p, q, g, reb)
           IN  PlanOK(b, q, plan) /\ PlanDrops(b, p, g, plan, reb)
<1>1. CASE p.version = "lot100"
  BY <1>1, PlanLot100OK DEF DailyPlan
<1>2. CASE p.version # "lot100" /\ reb
  <2>1. p.version = "topdown" /\ reb = TRUE
    BY <1>2 DEF Settings
  <2> QED BY <1>2, <2>1, PlanTopdownOK DEF DailyPlan
<1>3. CASE p.version # "lot100" /\ ~reb
  <2>1. reb = FALSE
    BY <1>3
  <2> QED BY <1>3, <2>1, PlanRetryOK DEF DailyPlan
<1> QED BY <1>1, <1>2, <1>3

\* The plan is written out as it stands.
LEMMA PlanTable ==
    ASSUME NEW b, NEW p, NEW q, NEW g, NEW reb
    PROVE  Table(DailyPlan(b, p, q, g, reb)) = DailyPlan(b, p, q, g, reb)
<1>1. PICK plan : plan = DailyPlan(b, p, q, g, reb)
  OBVIOUS
<1>2. plan = [s \in Secs |-> plan[s]]
  <2>1. CASE p.version = "lot100"
    BY <1>1, <2>1 DEF DailyPlan, PlanLot100
  <2>2. CASE p.version # "lot100" /\ reb
    BY <1>1, <2>2 DEF DailyPlan, PlanTopdown
  <2>3. CASE p.version # "lot100" /\ ~reb
    BY <1>1, <2>3 DEF DailyPlan, PlanRetry
  <2> QED BY <2>1, <2>2, <2>3
<1> QED BY <1>1, <1>2, TableIs

-----------------------------------------------------------------------------
(* What the day buys.                                                         *)

LEMMA CashInt ==
    ASSUME NEW b, NEW q \in Quotes, NEW plan, b.cash \in Int, PlanOK(b, q, plan)
    PROVE  CashAfterSells(b, q, plan) \in Int
<1>1. PICK f : f = [s \in Secs |-> IF plan[s].sell > 0
                                   THEN SellProceeds(q, s, plan[s].sell) ELSE 0]
  OBVIOUS
<1>2. ASSUME NEW s \in Secs PROVE f[s] \in Int
  <2>1. plan[s].sell \in Nat
    BY DEF PlanOK, RowOK
  <2>2. SellProceeds(q, s, plan[s].sell) \in Int
    BY <2>1, Costs
  <2> QED BY <1>1, <2>2
<1>3. f \in [Secs -> Int]
  BY <1>1, <1>2
<1> QED BY <1>1, <1>3, TotalInt DEF CashAfterSells

LEMMA CashNat ==
    ASSUME NEW b, NEW q \in Quotes, NEW plan, b.cash \in Nat, PlanOK(b, q, plan), SalesPay
    PROVE  CashAfterSells(b, q, plan) \in Nat
<1>1. PICK f : f = [s \in Secs |-> IF plan[s].sell > 0
                                   THEN SellProceeds(q, s, plan[s].sell) ELSE 0]
  OBVIOUS
<1>2. ASSUME NEW s \in Secs PROVE f[s] \in Nat
  <2>1. plan[s].sell \in Nat /\ (plan[s].sell > 0 => q[s].open > 0)
    BY DEF PlanOK, RowOK
  <2>2. plan[s].sell > 0 => SellProceeds(q, s, plan[s].sell) \in Nat
    BY <2>1, Costs DEF SalesPay
  <2> QED BY <1>1, <2>2
<1>3. f \in [Secs -> Nat]
  BY <1>1, <1>2
<1> QED BY <1>1, <1>3, TotalNat DEF CashAfterSells

LEMMA RequiredNat ==
    ASSUME NEW q \in Quotes, NEW orders \in [Secs -> Nat], NEW S
    PROVE  /\ Required(q, orders, S) \in Int
           /\ \A s \in Secs : s \in S /\ orders[s] > 0 /\ q[s].open > 0
                              => Required(q, orders, S) > 0
<1>1. PICK f : f = [s \in Secs |-> IF s \in S /\ orders[s] > 0
                                   THEN CashRequired(q, s, orders[s]) ELSE 0]
  OBVIOUS
<1>2. \A s \in Secs : f[s] \in Nat
  BY <1>1, Costs
<1>3. f \in [Secs -> Nat] /\ f \in [Secs -> Int]
  BY <1>1, <1>2
<1>4. Total(f) \in Int /\ Required(q, orders, S) = Total(f)
  BY <1>1, <1>3, TotalInt DEF Required
<1>5. ASSUME NEW s \in Secs, s \in S, orders[s] > 0, q[s].open > 0
      PROVE  Total(f) > 0
  <2>1. f[s] = CashRequired(q, s, orders[s])
    BY <1>1, <1>5
  <2>2. f[s] > 0
    BY <1>5, <2>1, Costs
  <2>3. Total(f) >= f[s]
    BY <1>3, TotalAtLeast
  <2> QED BY <1>2, <1>4, <2>2, <2>3
<1> QED BY <1>4, <1>5

LEMMA ProvisionalOK ==
    ASSUME NEW b, NEW q \in Quotes, NEW plan, PlanOK(b, q, plan)
    PROVE  /\ Provisional(q, plan) \in [Secs -> Nat]
           /\ \A s \in Secs : Provisional(q, plan)[s] > 0 => plan[s].want > 0
<1>1. ASSUME NEW s \in Secs
      PROVE  Provisional(q, plan)[s] \in Nat
               /\ (Provisional(q, plan)[s] > 0 => plan[s].want > 0)
  <2>1. plan[s].want \in Int /\ plan[s].planned \in Nat /\ q[s].open \in Nat
        /\ (plan[s].want > 0 => q[s].open > 0)
    BY QuoteIs DEF PlanOK, RowOK
  <2>2. plan[s].want > 0 => PlannedBuy(q, plan, s) \in Nat
    <3> SUFFICES ASSUME plan[s].want > 0 PROVE PlannedBuy(q, plan, s) \in Nat
      OBVIOUS
    <3>1. PICK k \in Nat : k = plan[s].want \div q[s].open
      BY <2>1, DivInt
    <3>2. FloorToLot(k) \in Nat
      BY LotInt
    <3> QED BY <2>1, <3>1, <3>2 DEF PlannedBuy
  <2> QED BY <2>1, <2>2 DEF Provisional
<1>2. DOMAIN Provisional(q, plan) = Secs
      /\ Provisional(q, plan) = [s \in Secs |-> Provisional(q, plan)[s]]
  BY DEF Provisional
<1> QED BY <1>1, <1>2

\* Whatever is bought was wanted.
LEMMA ScaledOK ==
    ASSUME NEW b, NEW p, NEW q \in Quotes, NEW plan, NEW cash \in Int, PlanOK(b, q, plan)
    PROVE  LET o == Scaled(p, q, plan, cash)
           IN  /\ o \in [Secs -> Nat]
               /\ \A s \in Secs : o[s] > 0 => plan[s].want > 0
<1>1. PICK orders : orders = Provisional(q, plan)
  OBVIOUS
<1>2. orders \in [Secs -> Nat] /\ \A s \in Secs : orders[s] > 0 => plan[s].want > 0
  BY <1>1, ProvisionalOK
<1>3. PICK need \in Int : need = Required(q, orders, Secs)
  BY <1>2, RequiredNat
<1> DEFINE Cut(s) == FloorToLot((plan[s].want * cash) \div (need * q[s].open))
<1>4. PICK o : o = [s \in Secs |-> IF orders[s] > 0 /\ Cut(s) >= MinBuyShares THEN Cut(s) ELSE 0]
  OBVIOUS
<1>5. Scaled(p, q, plan, cash) = (IF p.version = "topdown" \/ need <= cash THEN orders ELSE o)
  BY <1>1, <1>3, <1>4 DEF Scaled
<1>6. ASSUME NEW s \in Secs, orders[s] > 0 PROVE Cut(s) \in Int
  <2>1. plan[s].want \in Int /\ plan[s].want > 0 /\ q[s].open \in Nat /\ q[s].open > 0
    BY <1>2, <1>6, QuoteIs DEF PlanOK, RowOK
  <2>2. need > 0
    BY <1>2, <1>3, <1>6, <2>1, RequiredNat
  <2>3. PICK m \in Nat \ {0} : m = need * q[s].open
    BY <2>1, <2>2
  <2>4. PICK n \in Int : n = plan[s].want * cash
    BY <2>1
  <2>5. PICK d \in Int : d = n \div m
    BY DivInt
  <2>6. FloorToLot(d) \in Int
    BY LotInt
  <2> QED BY <2>3, <2>4, <2>5, <2>6
<1>7. MinBuyShares \in Nat
  BY LedgerAssumption DEF MinBuyShares
<1> HIDE DEF Cut
<1>8. \A s \in Secs : o[s] \in Nat /\ (o[s] > 0 => orders[s] > 0)
  BY <1>4, <1>6, <1>7
<1>9. o \in [Secs -> Nat]
  BY <1>4, <1>8
<1> QED BY <1>2, <1>5, <1>8, <1>9

-----------------------------------------------------------------------------
(* What remains of the orders can be paid.                                    *)

\* Of some securities one is ranked worst.
LEMMA WorstExists ==
    ASSUME NEW g \in Targets, NEW K \in SUBSET Secs, K # {}
    PROVE  \E w \in K : \A s \in K : s \in NotWorse(g, w)
<1>0. SecCount \in Nat \ {0} /\ Secs = 1 .. SecCount
  BY LedgerAssumption DEF Secs
<1>1. \A s \in Secs : Priority(g, s) \in Nat
  BY DEF Targets, Priority, Unranked
<1>2. \A s, t \in Secs : s \in NotWorse(g, t) \/ t \in NotWorse(g, s)
  BY <1>0, <1>1 DEF NotWorse
<1>3. \A s, t, w \in Secs : s \in NotWorse(g, t) /\ t \in NotWorse(g, w) => s \in NotWorse(g, w)
  BY <1>0, <1>1 DEF NotWorse
<1>4. \A s \in Secs : s \in NotWorse(g, s)
  BY <1>0, <1>1 DEF NotWorse
<1> DEFINE Worst(n) == \E w \in K : w <= n /\ \A s \in K : s <= n => s \in NotWorse(g, w)
           Bad == {n \in 1 .. SecCount : (\E s \in K : s <= n) /\ ~Worst(n)}
<1>5. Bad = {}
  <2> SUFFICES ASSUME Bad # {} PROVE FALSE
    OBVIOUS
  <2>1. PICK m \in Bad : \A k \in Bad : m <= k
    <3>1. Bad \in SUBSET Nat
      BY <1>0
    <3> HIDE DEF Bad
    <3> QED BY <3>1, LeastExists
  <2>2. m \in Secs /\ m \in Nat /\ K \subseteq Secs /\ Secs \subseteq Nat
    <3>1. m \in 1 .. SecCount
      BY <2>1
    <3> HIDE DEF Bad
    <3> QED BY <1>0, <3>1
  <2>3. \A s \in K : s <= m <=> s = m \/ s <= m - 1
    BY <2>2
  <2>4. CASE \A s \in K : s <= m => s = m
    <3>1. m \in K
      BY <2>1, <2>4
    <3> QED BY <1>4, <2>1, <2>2, <2>4, <3>1
  <2>5. CASE \E s \in K : s <= m /\ s # m
    <3>1. PICK s \in K : s <= m - 1
      BY <2>3, <2>5
    <3>2. m - 1 \in 1 .. SecCount /\ m - 1 < m
      BY <1>0, <2>1, <2>2, <3>1
    <3>3. Worst(m - 1)
      BY <2>1, <3>1, <3>2
    <3>4. PICK w \in K : w <= m - 1 /\ \A t \in K : t <= m - 1 => t \in NotWorse(g, w)
      BY <3>3
    <3>5. w <= m
      BY <2>3, <3>4
    <3>6. CASE m \notin K
      BY <2>1, <2>3, <3>4, <3>5, <3>6
    <3>7. CASE m \in K /\ m \in NotWorse(g, w)
      BY <2>1, <2>3, <3>4, <3>5, <3>7
    <3>8. CASE m \in K /\ w \in NotWorse(g, m)
      <4>1. \A t \in K : t <= m => t \in NotWorse(g, m)
        BY <1>3, <1>4, <2>2, <2>3, <3>4, <3>8
      <4> QED BY <2>1, <2>2, <3>8, <4>1
    <3> QED BY <1>2, <2>2, <3>6, <3>7, <3>8
  <2> QED BY <2>4, <2>5
<1>6. \A s \in K : s <= SecCount
  BY <1>0
<1>7. SecCount \in 1 .. SecCount /\ \E s \in K : s <= SecCount
  <2>1. SecCount \in 1 .. SecCount
    BY <1>0
  <2>2. PICK s : s \in K
    OBVIOUS
  <2> QED BY <1>6, <2>1, <2>2
<1>8. Worst(SecCount)
  <2> HIDE DEF Worst
  <2> QED BY <1>5, <1>7
<1> QED BY <1>6, <1>8

\* The orders left over when the worst-ranked ones were dropped cost no more
\* than the cash, or there are none (drop_buys_until_cash_nonnegative).
THEOREM BuysArePaidFor ==
    ASSUME NEW p, NEW q \in Quotes, NEW g \in Targets,
           NEW orders \in [Secs -> Nat], NEW cash \in Int
    PROVE  LET need == Required(q, Executable(p, q, g, orders, cash), Secs)
           IN  need <= cash \/ need = 0
<1>1. PICK o : o = Executable(p, q, g, orders, cash)
  OBVIOUS
<1>2. o = [s \in Secs |-> IF Required(q, orders, NotWorse(g, s)) <= cash THEN orders[s] ELSE 0]
  BY <1>1 DEF Executable
<1>3. PICK cost : cost = [s \in Secs |-> CashRequired(q, s, orders[s])]
  OBVIOUS
<1>4. cost \in [Secs -> Nat]
  <2>1. \A s \in Secs : CashRequired(q, s, orders[s]) \in Nat
    BY Costs
  <2> QED BY <1>3, <2>1
<1> DEFINE Part(S) == [s \in Secs |-> IF s \in S /\ orders[s] > 0 THEN cost[s] ELSE 0]
<1>5. \A S : Part(S) \in [Secs -> Nat] /\ Required(q, orders, S) = Total(Part(S))
  <2> SUFFICES ASSUME NEW S
               PROVE  Part(S) \in [Secs -> Nat] /\ Required(q, orders, S) = Total(Part(S))
    OBVIOUS
  <2>1. Part(S) = [s \in Secs |-> IF s \in S /\ orders[s] > 0
                                  THEN CashRequired(q, s, orders[s]) ELSE 0]
    BY <1>3
  <2> QED BY <1>4, <2>1 DEF Required
<1>6. PICK K : K = {s \in Secs : Required(q, orders, NotWorse(g, s)) <= cash}
  OBVIOUS
<1>7. Required(q, o, Secs) = Total(Part(K))
  <2>1. [s \in Secs |-> IF s \in Secs /\ o[s] > 0 THEN CashRequired(q, s, o[s]) ELSE 0]
          = Part(K)
    BY <1>2, <1>3, <1>6
  <2> QED BY <2>1 DEF Required
<1>8. CASE K = {}
  <2>1. \A s \in Secs : Part(K)[s] = 0
    BY <1>8
  <2>2. Total(Part(K)) = 0
    <3> HIDE DEF Part
    <3> QED BY <1>5, <2>1, TotalZero
  <2> QED BY <1>1, <1>7, <2>2
<1>9. CASE K # {}
  <2>1. PICK w \in K : \A s \in K : s \in NotWorse(g, w)
    BY <1>6, <1>9, WorstExists
  <2>2. \A s \in Secs : Part(K)[s] <= Part(NotWorse(g, w))[s]
    BY <1>4, <2>1
  <2>3. Total(Part(K)) <= Total(Part(NotWorse(g, w)))
    <3> HIDE DEF Part
    <3> QED BY <1>5, <2>2, TotalMonotone
  <2>4. Total(Part(NotWorse(g, w))) <= cash
    BY <1>5, <1>6, <2>1
  <2>5. Total(Part(K)) \in Nat /\ Total(Part(NotWorse(g, w))) \in Nat
    <3> HIDE DEF Part
    <3> QED BY <1>5, TotalNat
  <2> QED BY <1>1, <1>7, <2>3, <2>4, <2>5
<1> QED BY <1>8, <1>9

LEMMA FilledOK ==
    ASSUME NEW b, NEW p, NEW q \in Quotes, NEW g \in Targets, NEW plan, NEW cash \in Int,
           PlanOK(b, q, plan)
    PROVE  LET o == Filled(p, q, g, plan, cash)
           IN  /\ o \in [Secs -> Nat]
               /\ \A s \in Secs : o[s] > 0 => plan[s].want > 0
               /\ Required(q, o, Secs) <= cash \/ Required(q, o, Secs) = 0
<1>1. PICK orders : orders = Scaled(p, q, plan, cash)
  OBVIOUS
<1>2. orders \in [Secs -> Nat] /\ \A s \in Secs : orders[s] > 0 => plan[s].want > 0
  BY <1>1, ScaledOK
<1>3. Table(orders) = orders
  BY <1>2, TableIs
<1>4. PICK o : o = Executable(p, q, g, orders, cash)
  OBVIOUS
<1>5. /\ o = [s \in Secs |-> o[s]]
      /\ \A s \in Secs : o[s] = orders[s] \/ o[s] = 0
  BY <1>4 DEF Executable
<1>6. Filled(p, q, g, plan, cash) = o
  BY <1>1, <1>3, <1>4, <1>5, TableIs DEF Filled
<1>7. Required(q, o, Secs) <= cash \/ Required(q, o, Secs) = 0
  BY <1>2, <1>4, BuysArePaidFor
<1> QED BY <1>2, <1>5, <1>6, <1>7

-----------------------------------------------------------------------------
(* One day of one account.                                                    *)

\* A dividend or a split gives nothing to who holds nothing.
LEMMA CorporateOK ==
    ASSUME NEW a, NEW p, NEW e \in Events, AccountOK(a)
    PROVE  LET b == ApplyCorporateActions(a, p, e)
           IN  /\ b.cash \in Int /\ (a.cash >= 0 => b.cash >= 0)
               /\ b.shares \in [Secs -> Nat]
               /\ b.pending = a.pending /\ Held(b) \subseteq Held(a)
<1>0. a \in [start : Nat, cash : Int, shares : [Secs -> Nat], pending : SUBSET Secs,
             target : Targets, history : {<<>>, [d \in {day} |-> a.shares]}]
  BY DEF AccountOK
<1>1. CASE e = NoEvent
  BY <1>0, <1>1 DEF ApplyCorporateActions
<1>2. CASE e # NoEvent
  <2>1. e.sec \in Secs /\ e.split \in Nat /\ e.div \in Nat
    BY <1>2, MarketAssumption
  <2>2. PICK n \in Nat : n = a.shares[e.sec] /\ n = RecordShares(a, e)
    <3>1. a.history = << >> \/ a.history = [d \in {day} |-> a.shares]
      BY <1>0
    <3>2. RecordShares(a, e) = a.shares[e.sec]
      BY <3>1 DEF RecordShares
    <3> QED BY <1>0, <2>1, <3>2
  <2>3. PICK d \in Nat : d = Dividend(a, p, e)
    <3>1. PICK t \in Nat : t = n * e.div
      BY <2>1
    <3>2. t - t \div 10 \in Nat
      OBVIOUS
    <3> QED BY <2>2, <3>1, <3>2 DEF Dividend
  <2>4. PICK x \in Nat : x = SplitDelta(a, p, e) /\ (n = 0 => x = 0)
    <3>1. n * e.split \in Nat /\ (n = 0 => n * e.split = 0)
      BY <2>1
    <3>2. PICK t \in Nat : t = n * e.split /\ (n = 0 => t = 0)
      BY <3>1
    <3>3. t \div 2 \in Nat /\ (t = 0 => t \div 2 = 0)
      BY DivInt
    <3> QED BY <2>2, <3>2, <3>3 DEF SplitDelta
  <2>5. PICK m \in Nat : m = n + x /\ m = Max({0, n + x}) /\ (n = 0 => m = 0)
    <3>1. Max({0, n + x}) = (IF 0 >= n + x THEN 0 ELSE n + x)
      BY MaxInt
    <3>2. n + x \in Nat /\ (n = 0 => n + x = 0)
      BY <2>4
    <3> QED BY <3>1, <3>2
  <2>6. PICK b : b = [a EXCEPT !.cash = @ + d, !.shares[e.sec] = Max({0, @ + x})]
    OBVIOUS
  <2>7. ApplyCorporateActions(a, p, e) = b
    BY <1>2, <2>3, <2>4, <2>6 DEF ApplyCorporateActions
  <2>8. /\ b.cash = a.cash + d /\ b.pending = a.pending
        /\ b.shares = [a.shares EXCEPT ![e.sec] = m]
    BY <1>0, <2>2, <2>5, <2>6
  <2>9. b.shares \in [Secs -> Nat]
    <3>1. a.shares \in [Secs -> Nat]
      BY <1>0
    <3> QED BY <2>8, <3>1
  <2>10. \A s \in Secs : b.shares[s] > 0 => a.shares[s] > 0
    <3>1. a.shares \in [Secs -> Nat]
      BY <1>0
    <3>2. \A s \in Secs : b.shares[s] = (IF s = e.sec THEN m ELSE a.shares[s])
      BY <2>8, <3>1
    <3>3. m > 0 => n > 0
      BY <2>5
    <3>4. n > 0 => a.shares[e.sec] > 0
      BY <2>2
    <3> QED BY <3>2, <3>3, <3>4
  <2> QED BY <1>0, <2>7, <2>8, <2>9, <2>10 DEF Held
<1> QED BY <1>1, <1>2

\* What the account x is after a day of quotes q that began with the account a.
DayOK(a, p, q, x) ==
    /\ x \in [start : Nat, cash : Int, shares : [Secs -> Nat],
              pending : SUBSET Secs, target : Targets,
              history : {[d \in {day + 1} |-> x.shares]}]
    /\ \A s \in Held(x) : close[s] > 0 \/ q[s].close > 0
    /\ x.start = a.start /\ Retried(p, x)
    /\ SalesPay /\ a.cash >= 0 => x.cash >= 0

LEMMA WalkOK ==
    ASSUME NEW a, NEW p \in Settings, NEW q \in Quotes, NEW e \in Events,
           NEW g \in Targets, NEW x, x = Walked(a, p, q, e, g),
           day \in Nat, close \in [Secs -> Nat], AccountOK(a), Retried(p, a)
    PROVE  DayOK(a, p, q, x)
<1>0. a \in [start : Nat, cash : Int, shares : [Secs -> Nat], pending : SUBSET Secs,
             target : Targets, history : {<<>>, [d \in {day} |-> a.shares]}]
      /\ \A s \in Held(a) : close[s] > 0
  BY DEF AccountOK
<1>1. PICK reb \in BOOLEAN : reb = Rebalances(a, g)
  BY DEF Rebalances
<1>2. PICK b : b = ApplyCorporateActions(a, p, e)
  OBVIOUS
<1>3. /\ b.cash \in Int /\ b.shares \in [Secs -> Nat]
      /\ b.pending = a.pending /\ Held(b) \subseteq Held(a)
      /\ a.cash >= 0 => b.cash >= 0
  BY <1>2, CorporateOK
<1>4. PICK t \in Targets : t = (IF reb THEN g ELSE a.target)
  BY <1>0
<1>5. PICK plan : plan = DailyPlan(b, p, q, t, reb)
  OBVIOUS
<1>6. PlanOK(b, q, plan) /\ PlanDrops(b, p, t, plan, reb)
  BY <1>0, <1>3, <1>5, DailyPlanOK
<1>7. PICK cash \in Int : cash = CashAfterSells(b, q, plan)
  BY <1>3, <1>6, CashInt
<1>8. PICK bought : bought = Filled(p, q, t, plan, cash)
  OBVIOUS
<1>9. bought \in [Secs -> Nat] /\ \A s \in Secs : bought[s] > 0 => plan[s].want > 0
  BY <1>6, <1>8, FilledOK
<1>10. PICK n : n = UpdateHoldings(b, plan, bought)
  OBVIOUS
<1>11. \A s \in Secs : n[s] = (IF plan[s].row THEN b.shares[s] - plan[s].sell + bought[s] ELSE 0)
  BY <1>10 DEF UpdateHoldings
<1>12. n = [s \in Secs |-> n[s]]
  BY <1>10 DEF UpdateHoldings
<1>13. n \in [Secs -> Nat]
  <2>1. ASSUME NEW s \in Secs PROVE n[s] \in Nat
    <3>1. plan[s].sell \in Nat /\ plan[s].sell <= b.shares[s] /\ b.shares[s] \in Nat
          /\ bought[s] \in Nat
      BY <1>3, <1>6, <1>9 DEF PlanOK, RowOK
    <3>2. b.shares[s] - plan[s].sell + bought[s] \in Nat
      BY <3>1
    <3> QED BY <1>11, <3>2
  <2> QED BY <1>12, <2>1
<1>14. PICK pending \in SUBSET Secs : pending = UpdatePendingSell(b, q, plan, reb)
  BY DEF UpdatePendingSell
<1>15. x = Closed(a, b, q, plan, reb, t, cash, bought, n)
  <2>1. Table(plan) = plan /\ Table(n) = n
    BY <1>5, <1>12, PlanTable, TableIs
  <2>2. x = Executed(a, p, q, b, t, reb, Table(plan))
    BY <1>1, <1>2, <1>4, <1>5 DEF Walked
  <2> QED BY <1>7, <1>8, <1>10, <2>1, <2>2 DEF Executed
<1>16. PICK left \in Int : left = cash - Required(q, bought, Secs)
  BY <1>9, RequiredNat
<1>17. x = [start |-> a.start, cash |-> left, shares |-> n, pending |-> pending,
            target |-> t, history |-> [d \in {day + 1} |-> n]]
  BY <1>14, <1>15, <1>16 DEF Closed
<1>18. x \in [start : Nat, cash : Int, shares : [Secs -> Nat], pending : SUBSET Secs,
              target : Targets, history : {[d \in {day + 1} |-> x.shares]}]
  BY <1>0, <1>13, <1>17
<1>19. ASSUME NEW s \in Held(x) PROVE close[s] > 0 \/ q[s].close > 0
  <2>1. s \in Secs /\ n[s] > 0
    BY <1>17 DEF Held
  <2>2. CASE b.shares[s] > 0
    BY <1>0, <1>3, <2>1, <2>2 DEF Held
  <2>3. CASE ~(b.shares[s] > 0)
    <3>1. plan[s].sell \in Nat /\ b.shares[s] = 0 /\ bought[s] \in Nat
      BY <1>3, <1>6, <1>9, <2>1, <2>3 DEF PlanOK, RowOK
    <3>2. bought[s] > 0
      BY <1>11, <2>1, <3>1
    <3>3. q[s].buy
      BY <1>6, <1>9, <2>1, <3>2 DEF PlanOK, RowOK
    <3> QED BY <2>1, <3>3, QuoteIs
  <2> QED BY <2>2, <2>3
<1>20. ASSUME NEW s \in Held(x), ~Wanted(p, x, s) PROVE s \in x.pending
  <2>1. s \in Secs /\ n[s] > 0 /\ n[s] \in Nat
    BY <1>13, <1>17 DEF Held
  <2>2. b.shares[s] \in Nat /\ bought[s] \in Nat
    BY <1>3, <1>9, <2>1
  <2>3. IF p.version = "topdown" THEN s \notin Walk(p, t) ELSE t.weight[s] = 0
    <3>1. x.target = t /\ t.weight[s] \in Nat
      BY <1>17, <2>1 DEF Targets
    <3> QED BY <1>20, <3>1 DEF Wanted
  <2>4. reb \/ s \in b.pending \/ b.shares[s] = 0
    <3>1. SUFFICES ASSUME ~reb, b.shares[s] > 0 PROVE s \in b.pending
      BY <2>2
    <3>2. s \in Held(a) /\ t = a.target
      BY <1>3, <1>4, <2>1, <3>1 DEF Held
    <3>3. ~Wanted(p, a, s)
      BY <1>17, <1>20, <3>2 DEF Wanted
    <3> QED BY <1>3, <3>2, <3>3 DEF Retried
  <2>5. Dropped(plan[s], b.shares[s])
    BY <1>6, <2>1, <2>3, <2>4 DEF PlanDrops
  <2>6. bought[s] = 0
    BY <1>9, <2>1, <2>2, <2>5 DEF Dropped
  <2>7. plan[s].row
    BY <1>11, <2>1
  <2>8. n[s] = b.shares[s] - plan[s].sell /\ plan[s].sell # b.shares[s]
    <3>1. plan[s].sell \in Nat
      BY <1>6, <2>1 DEF PlanOK, RowOK
    <3> QED BY <1>11, <2>1, <2>2, <2>6, <2>7, <3>1
  <2>9. plan[s].sell = 0 /\ plan[s].desired = 0 /\ plan[s].skip = "untradable"
    BY <2>5, <2>7, <2>8 DEF Dropped
  <2>10. n[s] = b.shares[s]
    BY <2>2, <2>8, <2>9
  <2>11. PICK v \in Nat : v = ValuationPrice(close, q, s) /\ v > 0
    <3>1. close[s] > 0
      BY <1>0, <1>3, <2>1, <2>10 DEF Held
    <3> QED BY <2>1, <3>1, Valued
  <2>12. (b.shares[s] - plan[s].sell) * v > 0 /\ b.shares[s] - plan[s].sell > 0
    <3>1. b.shares[s] - plan[s].sell = n[s]
      BY <2>8
    <3>2. n[s] * v > 0
      BY <2>1, <2>11
    <3> QED BY <2>1, <3>1, <3>2
  <2>13. s \in UpdatePendingSell(b, q, plan, reb)
    BY <2>1, <2>7, <2>9, <2>11, <2>12 DEF UpdatePendingSell
  <2> QED BY <1>14, <1>17, <2>13
<1>21. x.start = a.start
  BY <1>17
<1>22. ASSUME SalesPay, a.cash >= 0 PROVE x.cash >= 0
  <2>1. cash >= 0
    BY <1>3, <1>6, <1>7, <1>22, CashNat
  <2>2. Required(q, bought, Secs) <= cash \/ Required(q, bought, Secs) = 0
    BY <1>6, <1>8, FilledOK
  <2>3. Required(q, bought, Secs) \in Int
    BY <1>9, RequiredNat
  <2> QED BY <1>16, <1>17, <2>1, <2>2, <2>3
<1> QED BY <1>18, <1>19, <1>20, <1>21, <1>22 DEF DayOK, Retried

-----------------------------------------------------------------------------
(* The invariant.                                                             *)

LEMMA MarketTypes ==
    /\ NoSignal \in Targets /\ Signals \subseteq Targets
    /\ \A g \in Targets : SnapshotTarget(g) \in Targets
<1>1. NoSignal \in Targets /\ Signals \subseteq Targets
  BY MarketAssumption
<1>2. ASSUME NEW g \in Targets PROVE SnapshotTarget(g) \in Targets
  BY DEF SnapshotTarget, Targets
<1> QED BY <1>1, <1>2

LEMMA LedgerInvInit == LedgerInit => LedgerInv
<1> SUFFICES ASSUME LedgerInit PROVE LedgerInv
  OBVIOUS
<1>0. {SecCount, LotSize, MinBuyLot, FloorCount, InitialCapital, Days} \subseteq Nat \ {0}
      /\ AllSettings \subseteq Settings
  BY LedgerAssumption
<1>1. PICK z \in [Secs -> Nat] : z = [s \in Secs |-> 0]
  OBVIOUS
<1>2. acct = [start |-> 1, cash |-> InitialCapital, shares |-> z, pending |-> {},
              target |-> NoSignal, history |-> << >>]
  BY <1>1 DEF LedgerInit, Fresh
<1>3. acct \in [start : Nat, cash : Int, shares : [Secs -> Nat], pending : SUBSET Secs,
                target : Targets, history : {<<>>, [d \in {day} |-> acct.shares]}]
  BY <1>0, <1>1, <1>2, MarketTypes
<1>4. Held(acct) = {}
  BY <1>1, <1>2 DEF Held
<1>5. LedgerTypeOK
  BY <1>0, <1>1, <1>3, <1>4, MarketTypes DEF LedgerInit, LedgerTypeOK, AccountOK
<1>6. LeftoverIsRetried
  BY <1>4 DEF LedgerInit, LeftoverIsRetried, Retried
<1>7. InStep
  BY <1>2 DEF LedgerInit, InStep
<1> QED BY <1>5, <1>6, <1>7 DEF LedgerInv

\* What AccountOK asks at the end of the day.
LEMMA DayClosed ==
    ASSUME NEW q \in Quotes, NEW x, day' = day + 1, close \in [Secs -> Nat],
           close' = [s \in Secs |-> FirstFinite(q[s].close, close[s])],
           x \in [start : Nat, cash : Int, shares : [Secs -> Nat], pending : SUBSET Secs,
                  target : Targets, history : {[d \in {day + 1} |-> x.shares]}],
           \A s \in Held(x) : close[s] > 0 \/ q[s].close > 0
    PROVE  AccountOK(x)' /\ close' \in [Secs -> Nat]
<1>1. \A s \in Secs : /\ FirstFinite(q[s].close, close[s]) \in Nat
                      /\ (close[s] > 0 \/ q[s].close > 0 => FirstFinite(q[s].close, close[s]) > 0)
  BY QuoteIs DEF FirstFinite
<1>2. close' \in [Secs -> Nat]
  BY <1>1
<1>3. \A s \in Held(x) : close'[s] > 0
  BY <1>1 DEF Held
<1>4. x \in [start : Nat, cash : Int, shares : [Secs -> Nat], pending : SUBSET Secs,
             target : Targets, history : {<<>>, [d \in {day'} |-> x.shares]}]
  OBVIOUS
<1>5. Held(x)' = Held(x)
  BY DEF Held
<1> QED BY <1>2, <1>3, <1>4, <1>5 DEF AccountOK

LEMMA TradeDayInv ==
    ASSUME LedgerInv, NEW q \in Quotes, NEW e \in Events, NEW next \in Signals,
           TradeDay(q, e, next)
    PROVE  LedgerInv'
<1>1. /\ day \in Nat /\ settings \in Settings /\ signal \in Targets
      /\ close \in [Secs -> Nat] /\ AccountOK(acct) /\ Retried(settings, acct)
      /\ acct.start = 1 /\ (signal # NoSignal => day >= 1)
  BY DEF LedgerInv, LedgerTypeOK, LeftoverIsRetried, InStep
<1>2. PICK x : x = Walked(acct, settings, q, e, signal)
  OBVIOUS
<1>3. acct' = x /\ day' = day + 1 /\ settings' = settings /\ signal' = next
      /\ close' = [s \in Secs |-> FirstFinite(q[s].close, close[s])]
  BY <1>2 DEF TradeDay
<1>4. /\ x \in [start : Nat, cash : Int, shares : [Secs -> Nat],
                pending : SUBSET Secs, target : Targets,
                history : {[d \in {day + 1} |-> x.shares]}]
      /\ \A s \in Held(x) : close[s] > 0 \/ q[s].close > 0
      /\ x.start = acct.start /\ Retried(settings, x)
  <2>1. DayOK(acct, settings, q, x)
    BY <1>1, <1>2, WalkOK
  <2> QED BY <2>1 DEF DayOK
<1>5. AccountOK(x)' /\ close' \in [Secs -> Nat]
  BY <1>1, <1>3, <1>4, DayClosed
<1>6. AccountOK(acct)' /\ Retried(settings, acct)'
  <2>1. \A b \in {acct'} : AccountOK(b)'
    BY <1>3, <1>5
  <2>2. Retried(settings, x)'
    BY <1>3, <1>4 DEF Retried, Wanted, Held, Walk, Ranked
  <2> QED BY <1>3, <2>1, <2>2 DEF AccountOK, Held, Retried, Wanted
<1>7. /\ day' \in Nat /\ settings' \in Settings /\ signal' \in Targets
      /\ acct'.start = 1 /\ (signal' # NoSignal => day' >= 1)
  BY <1>1, <1>3, <1>4, MarketTypes
<1>8. CASE child = NoRun
  <2>1. child' = NoRun
    BY <1>8 DEF TradeDay
  <2> QED BY <1>5, <1>6, <1>7, <2>1 DEF LedgerInv, LedgerTypeOK, LeftoverIsRetried, InStep
<1>9. CASE child # NoRun
  <2>1. PICK k \in Settings, m \in BOOLEAN :
          /\ child = [missed |-> m, settings |-> k, acct |-> child.acct]
          /\ AccountOK(child.acct) /\ Retried(k, child.acct) /\ SameParams(settings, k)
          /\ child.acct.start <= day + 1
          /\ ~m => /\ SameState(child.acct, acct) /\ child.acct.history = acct.history
                   /\ signal # NoSignal => child.acct.start <= day
    BY <1>9 DEF LedgerInv, LedgerTypeOK, LeftoverIsRetried, InStep
  <2>2. PICK y : y = Walked(child.acct, k, q, e, signal)
    OBVIOUS
  <2>3. child' = [missed |-> m, settings |-> k, acct |-> y]
    <3>1. child' = [child EXCEPT !.acct = Walked(child.acct, child.settings, q, e, signal)]
      BY <1>9 DEF TradeDay
    <3> QED BY <2>1, <2>2, <3>1
  <2>4. /\ y \in [start : Nat, cash : Int, shares : [Secs -> Nat],
                  pending : SUBSET Secs, target : Targets,
                  history : {[d \in {day + 1} |-> y.shares]}]
        /\ \A s \in Held(y) : close[s] > 0 \/ q[s].close > 0
        /\ y.start = child.acct.start /\ Retried(k, y)
    <3>1. PICK c : c = child.acct
      OBVIOUS
    <3>2. AccountOK(c) /\ Retried(k, c) /\ y = Walked(c, k, q, e, signal)
      BY <2>1, <2>2, <3>1
    <3>3. DayOK(c, k, q, y)
      BY <1>1, <3>2, WalkOK
    <3> QED BY <3>1, <3>3 DEF DayOK
  <2>5. AccountOK(y)'
    BY <1>1, <1>3, <2>4, DayClosed
  <2>6. AccountOK(child.acct)' /\ Retried(child.settings, child.acct)'
    <3>1. child'.acct = y /\ child'.settings = k
      BY <2>3
    <3>2. Retried(k, y)'
      BY <1>3, <2>4 DEF Retried, Wanted, Held, Walk, Ranked
    <3> QED BY <2>5, <3>1, <3>2 DEF AccountOK, Held, Retried, Wanted
  <2>7. child' \in [missed : BOOLEAN, settings : Settings, acct : {child'.acct}]
    BY <2>3
  <2>8. SameParams(settings, child.settings)' /\ child'.acct.start <= day' + 1
    BY <1>1, <1>3, <2>1, <2>3, <2>4 DEF SameParams, ParamsHash
  <2>9. ASSUME ~m
        PROVE  /\ SameState(y, x) /\ y.history = x.history
               /\ y.start <= day'
    <3>1. /\ Alike(child.acct, acct) /\ child.acct.history = acct.history
          /\ SnapshotTarget(child.acct.target) = SnapshotTarget(acct.target)
      BY <2>1, <2>9 DEF SameState, Alike
    <3>2. IsAccount(acct) /\ IsAccount(child.acct)
          /\ acct.target \in Targets /\ child.acct.target \in Targets
      BY <1>1, <2>1 DEF AccountOK, IsAccount
    <3>3. Rebalances(acct, signal) <=> Rebalances(child.acct, signal)
      BY <1>1, <2>1, <2>9 DEF Rebalances, AccountOK
    <3>4. /\ Alike(x, y) /\ x.history = y.history
          /\ SnapshotTarget(x.target) = SnapshotTarget(y.target)
      BY <1>1, <1>2, <2>1, <2>2, <3>1, <3>2, <3>3, SameWalk DEF Alike
    <3>5. y.start <= day'
      BY <1>1, <1>3, <2>1, <2>4
    <3> QED BY <3>4, <3>5 DEF SameState, Alike
  <2>10. ~child'.missed => /\ SameState(child.acct, acct)' /\ child'.acct.history = acct'.history
                           /\ signal' # NoSignal => child'.acct.start <= day'
    BY <1>3, <2>3, <2>9 DEF SameState, SnapshotTarget
  <2> QED BY <1>5, <1>6, <1>7, <2>6, <2>7, <2>8, <2>10
          DEF LedgerInv, LedgerTypeOK, LeftoverIsRetried, InStep
<1> QED BY <1>8, <1>9

LEMMA ResumeInv ==
    ASSUME LedgerInv, NEW p \in AllSettings, Resume(p)
    PROVE  LedgerInv'
<1>1. /\ day \in Nat /\ settings \in Settings /\ signal \in Targets /\ p \in Settings
      /\ close \in [Secs -> Nat] /\ AccountOK(acct) /\ Retried(settings, acct)
      /\ acct.start = 1 /\ (signal # NoSignal => day >= 1) /\ SameParams(settings, p)
  BY LedgerAssumption DEF LedgerInv, LedgerTypeOK, LeftoverIsRetried, InStep, Resume
<1>2. UNCHANGED <<day, settings, close, signal, acct>>
  BY DEF Resume
<1>3. PICK y : y = Snapshot(acct)
  OBVIOUS
<1>4. PICK m \in BOOLEAN : m <=> signal # NoSignal
  OBVIOUS
<1>5. child' = [missed |-> m, settings |-> p, acct |-> y] /\ child' # NoRun
  <2>1. child' = [missed |-> m, settings |-> p, acct |-> y]
    BY <1>3, <1>4 DEF Resume
  <2> QED BY <2>1 DEF NoRun
<1>6. acct \in [start : Nat, cash : Int, shares : [Secs -> Nat], pending : SUBSET Secs,
                target : Targets, history : {<<>>, [d \in {day} |-> acct.shares]}]
  BY <1>1 DEF AccountOK
<1>7. /\ y = [start |-> day + 1, cash |-> acct.cash, shares |-> acct.shares,
              pending |-> acct.pending, target |-> SnapshotTarget(acct.target),
              history |-> acct.history]
  BY <1>3, <1>6 DEF Snapshot
<1>8. PICK t \in Targets : t = SnapshotTarget(acct.target)
  BY <1>6, MarketTypes
<1>9. t.rank = acct.target.rank /\ t.weight = acct.target.weight /\ SnapshotTarget(t) = t
  BY <1>6, <1>8 DEF SnapshotTarget, Targets
<1>10. AccountOK(y)
  <2>1. Held(y) = Held(acct)
    BY <1>7 DEF Held
  <2>2. y \in [start : Nat, cash : Int, shares : [Secs -> Nat], pending : SUBSET Secs,
               target : Targets, history : {<<>>, [d \in {day} |-> y.shares]}]
    BY <1>1, <1>6, <1>7, <1>8
  <2> QED BY <1>1, <2>1, <2>2 DEF AccountOK
<1>11. Retried(p, y)
  <2>1. p.version = settings.version /\ (p.version = "topdown" => p = settings)
    BY <1>1, SameParamsAgree
  <2>2. ASSUME NEW s \in Held(y) PROVE Wanted(p, y, s) \/ s \in y.pending
    <3>1. s \in Held(acct)
      BY <1>7 DEF Held
    <3>2. y.target = t /\ y.pending = acct.pending
      BY <1>7, <1>8
    <3>3. Wanted(settings, acct, s) => Wanted(p, y, s)
      BY <1>9, <2>1, <3>2 DEF Wanted, Walk, Ranked
    <3> QED BY <1>1, <3>1, <3>2, <3>3 DEF Retried
  <2> QED BY <2>2 DEF Retried
<1>12. SameState(y, acct)
  BY <1>7, <1>8, <1>9 DEF SameState
<1>13. /\ AccountOK(acct)' /\ Retried(settings, acct)'
       /\ AccountOK(y)' /\ Retried(p, y)'
  BY <1>1, <1>2, <1>10, <1>11 DEF AccountOK, Retried, Held, Wanted, Walk, Ranked
<1>14. AccountOK(child.acct)' /\ Retried(child.settings, child.acct)'
  <2>1. child'.acct = y /\ child'.settings = p
    BY <1>5
  <2> QED BY <1>13, <2>1 DEF AccountOK, Retried, Held, Wanted, Walk, Ranked
<1>15. child' \in [missed : BOOLEAN, settings : Settings, acct : {child'.acct}]
  BY <1>1, <1>5
<1>16. SameParams(settings, child.settings)' /\ child'.acct.start <= day' + 1
  BY <1>1, <1>2, <1>5, <1>7 DEF SameParams, ParamsHash
<1>17. ~child'.missed => /\ SameState(child.acct, acct)' /\ child'.acct.history = acct'.history
                         /\ signal' # NoSignal => child'.acct.start <= day'
  <2>1. child'.acct = y /\ child'.missed = m /\ y.history = acct.history
    BY <1>5, <1>7
  <2> QED BY <1>2, <1>4, <1>12, <2>1 DEF SameState, SnapshotTarget
<1>18. /\ day' \in Nat /\ settings' \in Settings /\ signal' \in Targets
       /\ close' \in [Secs -> Nat]
       /\ acct'.start = 1 /\ (signal' # NoSignal => day' >= 1)
  BY <1>1, <1>2
<1> QED BY <1>13, <1>14, <1>15, <1>16, <1>17, <1>18
        DEF LedgerInv, LedgerTypeOK, LeftoverIsRetried, InStep

LEMMA LedgerInvNext == LedgerInv /\ [LedgerNext]_ledgerVars => LedgerInv'
<1> SUFFICES ASSUME LedgerInv, [LedgerNext]_ledgerVars PROVE LedgerInv'
  OBVIOUS
<1>1. ASSUME NEW q \in Quotes, NEW e \in Events, NEW next \in Signals, TradeDay(q, e, next)
      PROVE  LedgerInv'
  BY <1>1, TradeDayInv
<1>2. ASSUME NEW p \in AllSettings, Resume(p) PROVE LedgerInv'
  BY <1>2, ResumeInv
<1>3. CASE WalkedOut \/ UNCHANGED ledgerVars
  <2>1. UNCHANGED <<day, settings, close, signal, acct, child>>
    BY <1>3 DEF WalkedOut, ledgerVars
  <2>2. SameParams(settings, child.settings) <=> SameParams(settings, child.settings)'
    BY <2>1 DEF SameParams, ParamsHash
  <2>3. \A a : /\ AccountOK(a) <=> AccountOK(a)'
               /\ \A p : Retried(p, a) <=> Retried(p, a)'
    BY <2>1 DEF AccountOK, Retried, Held, Wanted, Walk, Ranked
  <2>4. \A a, b : SameState(a, b) <=> SameState(a, b)'
    BY DEF SameState, SnapshotTarget
  <2> QED BY <2>1, <2>2, <2>3, <2>4
          DEF LedgerInv, LedgerTypeOK, LeftoverIsRetried, InStep,
              AccountOK, Retried, Held, Wanted, Walk, Ranked, SameState, SnapshotTarget
<1> QED BY <1>1, <1>2, <1>3 DEF LedgerNext

\* Whatever the market does, what is held although the target does not want it
\* is on the list of pending sells, in the run and in the one resumed from it
\* (update_pending_sell).
THEOREM LeftoversStayOnTheList == LedgerSpec => []LeftoverIsRetried
<1>1. LedgerInv => LeftoverIsRetried
  BY DEF LedgerInv
<1> QED BY <1>1, LedgerInvInit, LedgerInvNext, PTL DEF LedgerSpec

\* A run resumed from a day without a signal walks the days of the run it was
\* cut from, whatever the market, the corporate actions and the settings the
\* resume checks let through (load_resume_snapshot, ledger_params_hash).
THEOREM ResumedWalksTheSame == LedgerSpec => []ResumeExact
<1>1. LedgerInv => ResumeExact
  BY DEF LedgerInv, InStep, ResumeExact
<1> QED BY <1>1, LedgerInvInit, LedgerInvNext, PTL DEF LedgerSpec

LEMMA CashNext ==
    SalesPay => (LedgerInv /\ CashNeverNegative /\ [LedgerNext]_ledgerVars => CashNeverNegative')
<1> SUFFICES ASSUME SalesPay, LedgerInv, CashNeverNegative, [LedgerNext]_ledgerVars
             PROVE  CashNeverNegative'
  OBVIOUS
<1>0. acct.cash >= 0 /\ (child # NoRun => child.acct.cash >= 0)
  BY DEF CashNeverNegative, Accounts
<1>1. SUFFICES acct'.cash >= 0 /\ (child' # NoRun => child'.acct.cash >= 0)
  BY DEF CashNeverNegative, Accounts
<1>2. /\ day \in Nat /\ settings \in Settings /\ signal \in Targets
      /\ close \in [Secs -> Nat] /\ AccountOK(acct) /\ Retried(settings, acct)
      /\ child # NoRun =>
           /\ child \in [missed : BOOLEAN, settings : Settings, acct : {child.acct}]
           /\ AccountOK(child.acct) /\ Retried(child.settings, child.acct)
  BY DEF LedgerInv, LedgerTypeOK, LeftoverIsRetried
<1>3. ASSUME NEW q \in Quotes, NEW e \in Events, NEW next \in Signals, TradeDay(q, e, next)
      PROVE  acct'.cash >= 0 /\ (child' # NoRun => child'.acct.cash >= 0)
  <2>1. ASSUME NEW a, NEW p \in Settings, AccountOK(a), Retried(p, a), a.cash >= 0
        PROVE  Walked(a, p, q, e, signal).cash >= 0
    <3>1. PICK x : x = Walked(a, p, q, e, signal)
      OBVIOUS
    <3>2. DayOK(a, p, q, x)
      BY <1>2, <2>1, <3>1, WalkOK
    <3> QED BY <2>1, <3>1, <3>2 DEF DayOK
  <2>2. acct'.cash >= 0
    BY <1>0, <1>2, <1>3, <2>1 DEF TradeDay
  <2>3. CASE child = NoRun
    BY <1>3, <2>2, <2>3 DEF TradeDay
  <2>4. CASE child # NoRun
    <3>1. PICK k \in Settings, m \in BOOLEAN, c \in {child.acct} :
            /\ child = [missed |-> m, settings |-> k, acct |-> c]
            /\ AccountOK(c) /\ Retried(k, c) /\ c.cash >= 0
      BY <1>0, <1>2, <2>4
    <3>2. PICK y : y = Walked(c, k, q, e, signal)
      OBVIOUS
    <3>3. child' = [missed |-> m, settings |-> k, acct |-> y]
      BY <1>3, <2>4, <3>1, <3>2 DEF TradeDay
    <3>4. y.cash >= 0
      BY <2>1, <3>1, <3>2
    <3> QED BY <2>2, <3>3, <3>4
  <2> QED BY <2>3, <2>4
<1>4. ASSUME NEW p \in AllSettings, Resume(p)
      PROVE  acct'.cash >= 0 /\ (child' # NoRun => child'.acct.cash >= 0)
  <2>1. acct' = acct /\ child'.acct = Snapshot(acct)
    BY <1>4 DEF Resume
  <2>2. Snapshot(acct).cash = acct.cash
    BY <1>2 DEF Snapshot, AccountOK
  <2> QED BY <1>0, <2>1, <2>2
<1>5. CASE WalkedOut \/ UNCHANGED ledgerVars
  BY <1>0, <1>5 DEF WalkedOut, ledgerVars
<1> QED BY <1>3, <1>4, <1>5 DEF LedgerNext

\* Where no sale costs more than it brings, no account is ever in debt.
THEOREM NeverInDebt ==
    ASSUME SalesPay
    PROVE  LedgerSpec => []CashNeverNegative
<1>1. LedgerInit => CashNeverNegative
  BY LedgerAssumption DEF LedgerInit, Fresh, CashNeverNegative, Accounts
<1>2. LedgerInv /\ CashNeverNegative /\ [LedgerNext]_ledgerVars => CashNeverNegative'
  BY CashNext
<1> QED BY <1>1, <1>2, LedgerInvInit, LedgerInvNext, PTL DEF LedgerSpec
=============================================================================
