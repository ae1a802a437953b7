------------------------ MODULE WarehouseRefreshProofs ------------------------
(***************************************************************************)
(* For any number of executions, any plan sizes and any leases that are at *)
(* least as long as a task, writing tasks exclude one another.             *)
(*                                                                         *)
(* Two arguments meet.  About the plans: a task without a heartbeat is     *)
(* never followed by a writing one, and only executions that lock write.   *)
(* About the lock: as long as an execution is Covered its lease cannot be  *)
(* evicted, so whatever another execution does leaves it Covered.          *)
(***************************************************************************)
EXTENDS WarehouseRefresh, SequenceTheorems, TLAPS

AnyTask == [group : Groups, writes : BOOLEAN, beat : BOOLEAN]

Beats(s)  == \A i \in 1 .. Len(s) : s[i].beat
Quiet(s)  == \A i \in 1 .. Len(s) : ~s[i].writes
Strong(s) == \A i \in 1 .. Len(s) : ~IsWeak(s[i])
Guarded(s) ==
  \A i \in 1 .. Len(s) - 1 : ~s[i].beat => ~s[i + 1].writes

-----------------------------------------------------------------------------
(* The plans.                                                              *)

LEMMA ConcatItems ==
  ASSUME NEW s \in Seq(AnyTask), NEW t \in Seq(AnyTask)
  PROVE  /\ s \o t \in Seq(AnyTask)
         /\ Len(s \o t) = Len(s) + Len(t)
         /\ \A i \in 1 .. Len(s) : (s \o t)[i] = s[i]
         /\ \A i \in 1 .. Len(t) : (s \o t)[Len(s) + i] = t[i]
         /\ \A i \in 1 .. Len(s \o t) :
              i \in 1 .. Len(s) \/ i - Len(s) \in 1 .. Len(t)
         /\ Len(s) \in Nat /\ Len(t) \in Nat
  <1>1. /\ s \o t \in Seq(AnyTask) /\ Len(s) \in Nat /\ Len(t) \in Nat
        /\ Len(s \o t) = Len(s) + Len(t)
    BY ConcatProperties, LenProperties
  <1>2. /\ \A i \in 1 .. Len(s) : (s \o t)[i] = s[i]
        /\ \A i \in 1 .. Len(t) : (s \o t)[Len(s) + i] = t[i]
    BY <1>1
  <1>3. QED
    BY <1>1, <1>2

\* What all tasks of two sequences have, all of their concatenation have.
LEMMA ConcatAll ==
  ASSUME NEW s \in Seq(AnyTask), NEW t \in Seq(AnyTask)
  PROVE  /\ Beats(s) /\ Beats(t) => Beats(s \o t)
         /\ Quiet(s) /\ Quiet(t) => Quiet(s \o t)
         /\ Strong(s) /\ Strong(t) => Strong(s \o t)
  <1>1. ASSUME NEW i \in 1 .. Len(s \o t)
        PROVE  \/ \E j \in 1 .. Len(s) : (s \o t)[i] = s[j]
               \/ \E j \in 1 .. Len(t) : (s \o t)[i] = t[j]
    <2>1. CASE i \in 1 .. Len(s)
      BY <2>1, ConcatItems
    <2>2. CASE i - Len(s) \in 1 .. Len(t)
      <3>1. i = Len(s) + (i - Len(s))
        BY ConcatItems
      <3>2. (s \o t)[i] = t[i - Len(s)]
        BY <2>2, <3>1, ConcatItems
      <3>3. QED
        BY <2>2, <3>2
    <2>3. QED
      BY <2>1, <2>2, ConcatItems
  <1>2. QED
    BY <1>1, Zenon DEF Beats, Quiet, Strong

\* A guarded sequence stays so behind tasks with heartbeats, and before tasks
\* that do not write.
LEMMA ConcatGuarded ==
  ASSUME NEW s \in Seq(AnyTask), NEW t \in Seq(AnyTask)
  PROVE  /\ Beats(s) /\ Guarded(t) => Guarded(s \o t)
         /\ Guarded(s) /\ Quiet(t) => Guarded(s \o t)
  <1> SUFFICES ASSUME \/ Beats(s) /\ Guarded(t)
                      \/ Guarded(s) /\ Quiet(t),
                      NEW i \in 1 .. Len(s \o t) - 1,
                      ~(s \o t)[i].beat
               PROVE  ~(s \o t)[i + 1].writes
    BY DEF Guarded
  <1> DEFINE j == i - Len(s)
  <1>1. /\ Len(s) \in Nat /\ Len(t) \in Nat /\ i \in Nat
        /\ i < Len(s) + Len(t) /\ i = Len(s) + j /\ i >= 1 /\ j \in Int
    BY ConcatItems
  <1> HIDE DEF j
  <1>2. CASE i < Len(s)
    <2>1. /\ i \in 1 .. Len(s) /\ i + 1 \in 1 .. Len(s)
          /\ i \in 1 .. Len(s) - 1
      BY <1>1, <1>2
    <2>2. (s \o t)[i] = s[i] /\ (s \o t)[i + 1] = s[i + 1]
      BY <2>1, ConcatItems
    <2>3. QED
      BY <2>1, <2>2 DEF Beats, Guarded
  <1>3. CASE i = Len(s)
    <2>1. i \in 1 .. Len(s) /\ 1 \in 1 .. Len(t) /\ i + 1 = Len(s) + 1
      BY <1>1, <1>3
    <2>2. (s \o t)[i] = s[i] /\ (s \o t)[i + 1] = t[1]
      BY <2>1, ConcatItems
    <2>3. QED
      BY <2>1, <2>2 DEF Beats, Quiet
  <1>4. CASE i > Len(s)
    <2>1. /\ j \in 1 .. Len(t) /\ j + 1 \in 1 .. Len(t)
          /\ j \in 1 .. Len(t) - 1 /\ i + 1 = Len(s) + (j + 1)
      BY <1>1, <1>4
    <2>2. (s \o t)[i] = t[j] /\ (s \o t)[i + 1] = t[j + 1]
      BY <1>1, <2>1, ConcatItems
    <2>3. QED
      BY <2>1, <2>2 DEF Guarded, Quiet
  <1>5. QED
    BY <1>1, <1>2, <1>3, <1>4

LEMMA SimpleGuarded ==
  ASSUME NEW s \in Seq(AnyTask), Beats(s) \/ Quiet(s)
  PROVE  Guarded(s)
  <1> SUFFICES ASSUME NEW i \in 1 .. Len(s) - 1
               PROVE  ~s[i].beat => ~s[i + 1].writes
    BY DEF Guarded
  <1>1. i \in 1 .. Len(s) /\ i + 1 \in 1 .. Len(s)
    BY LenProperties
  <1>2. QED
    BY <1>1 DEF Beats, Quiet

LEMMA TimesItems ==
  ASSUME NEW n \in Nat, NEW t \in AnyTask
  PROVE  /\ Times(n, t) \in Seq(AnyTask)
         /\ Len(Times(n, t)) = n
         /\ \A i \in 1 .. n : Times(n, t)[i] = t
  BY DEF Times

\* The building blocks of the plans.
LEMMA TaskTypes ==
  /\ Transform \in AnyTask /\ Check \in AnyTask /\ Metadata \in AnyTask
  /\ Qa \in AnyTask /\ Task("qa_only", FALSE, FALSE) \in AnyTask
  /\ Rebuild(TRUE) \in AnyTask /\ Rebuild(FALSE) \in AnyTask
  BY DEF Transform, Check, Metadata, Qa, Rebuild, Task, AnyTask, Groups

Steady(t) == t \in AnyTask /\ t.beat /\ ~IsWeak(t)

LEMMA SteadyTasks ==
  /\ Steady(Transform) /\ Steady(Check) /\ Steady(Metadata) /\ Steady(Qa)
  /\ Steady(Rebuild(TRUE)) /\ Steady(Rebuild(FALSE))
  <1>1. /\ Transform.beat = TRUE /\ Check.beat = TRUE /\ Metadata.beat = TRUE
        /\ Qa.beat = TRUE
        /\ Rebuild(TRUE).beat = TRUE /\ Rebuild(FALSE).beat = TRUE
    BY DEF Transform, Check, Metadata, Qa, Rebuild, Task
  <1>2. /\ Transform.group = "windowed_transform"
        /\ Check.group = "windowed_transform"
        /\ Metadata.group = "windowed_metadata"
        /\ Qa.group = "qa_after_window"
        /\ Rebuild(TRUE).group = "rebuild" /\ Rebuild(FALSE).group = "rebuild"
    BY DEF Transform, Check, Metadata, Qa, Rebuild, Task
  <1>3. /\ ~IsWeak(Transform) /\ ~IsWeak(Check) /\ ~IsWeak(Metadata)
        /\ ~IsWeak(Qa) /\ ~IsWeak(Rebuild(TRUE)) /\ ~IsWeak(Rebuild(FALSE))
    BY <1>2 DEF IsWeak
  <1>4. QED
    BY <1>1, <1>3, TaskTypes, Zenon DEF Steady

Plain(s) == s \in Seq(AnyTask) /\ Beats(s) /\ Strong(s)

\* Concatenation by a name of its own: what follows is not about items.
Join(s, t) == s \o t

LEMMA PlainJoin ==
  ASSUME NEW s, NEW t, Plain(s), Plain(t)
  PROVE  Plain(Join(s, t)) /\ Len(Join(s, t)) = Len(s) + Len(t)
  BY ConcatItems, ConcatAll DEF Plain, Join

LEMMA GuardedJoin ==
  ASSUME NEW s \in Seq(AnyTask), NEW t \in Seq(AnyTask)
  PROVE  /\ Join(s, t) \in Seq(AnyTask)
         /\ Len(Join(s, t)) = Len(s) + Len(t)
         /\ Beats(s) /\ Guarded(t) => Guarded(Join(s, t))
         /\ Guarded(s) /\ Quiet(t) => Guarded(Join(s, t))
         /\ 1 <= Len(t) => Join(s, t)[Len(s) + 1] = t[1]
  <1>1. /\ Join(s, t) \in Seq(AnyTask)
        /\ Len(Join(s, t)) = Len(s) + Len(t)
    BY ConcatItems DEF Join
  <1>2. /\ Beats(s) /\ Guarded(t) => Guarded(Join(s, t))
        /\ Guarded(s) /\ Quiet(t) => Guarded(Join(s, t))
    BY ConcatGuarded DEF Join
  <1>3. 1 <= Len(t) => Join(s, t)[Len(s) + 1] = t[1]
    BY ConcatItems DEF Join
  <1>4. QED
    BY <1>1, <1>2, <1>3

LEMMA PlainTimes ==
  ASSUME NEW n \in Nat, NEW t, Steady(t)
  PROVE  Plain(Times(n, t)) /\ Len(Times(n, t)) = n
  BY TimesItems DEF Plain, Beats, Strong, Steady

LEMMA PlainShort ==
  ASSUME NEW t, Steady(t), NEW u, Steady(u)
  PROVE  /\ Plain(<<t>>) /\ Len(<<t>>) = 1
         /\ Plain(<<t, u>>) /\ Len(<<t, u>>) = 2
  BY DEF Plain, Beats, Strong, Steady

LEMMA CorePlan == Plain(Core) /\ Len(Core) = Dims + 7 /\ Dims \in Nat
  <1>1. Dims \in Nat
    BY WarehouseAssumption DEF WarehouseAssumption
  <1>2. Plain(Dimensions) /\ Len(Dimensions) = Dims
    BY <1>1, PlainTimes, SteadyTasks DEF Dimensions
  <1>3. Plain(<<Metadata>>) /\ Len(<<Metadata>>) = 1
    BY PlainShort, SteadyTasks
  <1>4. /\ Plain(Index) /\ Len(Index) = 2
        /\ Plain(Stock) /\ Len(Stock) = 2
        /\ Plain(Market) /\ Len(Market) = 2
    BY PlainShort, SteadyTasks DEF Index, Stock, Market
  <1> DEFINE A == Join(Dimensions, <<Metadata>>)
             B == Join(A, Index)
             C == Join(B, Stock)
  <1> HIDE DEF A, B, C
  <1>5. Plain(A) /\ Len(A) = Dims + 1
    BY <1>1, <1>2, <1>3, PlainJoin DEF A
  <1>6. Plain(B) /\ Len(B) = (Dims + 1) + 2
    BY <1>1, <1>4, <1>5, PlainJoin DEF B
  <1>7. Plain(C) /\ Len(C) = ((Dims + 1) + 2) + 2
    BY <1>1, <1>4, <1>6, PlainJoin DEF C
  <1>8. Plain(Join(C, Market)) /\ Len(Join(C, Market)) = (((Dims + 1) + 2) + 2) + 2
    BY <1>1, <1>4, <1>7, PlainJoin
  <1>9. Core = Join(C, Market)
    BY DEF Core, A, B, C, Join
  <1>10. QED
    BY <1>1, <1>8, <1>9

LEMMA RebuildPlan == Plain(Plan("rebuild")) /\ Len(Plan("rebuild")) >= 1
  <1>1. Dims \in Nat /\ Qas \in Nat /\ Rebuilds \in Nat
    BY WarehouseAssumption DEF WarehouseAssumption
  <1>2. Plain(<<Rebuild(FALSE)>>) /\ Len(<<Rebuild(FALSE)>>) = 1
    BY PlainShort, SteadyTasks
  <1>3. /\ Plain(RebuildDims) /\ Len(RebuildDims) = Dims
        /\ Plain(RebuildDwd) /\ Len(RebuildDwd) = Rebuilds
        /\ Plain(RebuildDws) /\ Len(RebuildDws) = Rebuilds
        /\ Plain(RebuildQa) /\ Len(RebuildQa) = Qas
    BY <1>1, PlainTimes, SteadyTasks
    DEF RebuildDims, RebuildDwd, RebuildDws, RebuildQa
  <1>4. Plain(RebuildMeta) /\ Len(RebuildMeta) = 2
    BY PlainShort, SteadyTasks DEF RebuildMeta
  <1> DEFINE A == Join(<<Rebuild(FALSE)>>, RebuildDims)
             B == Join(A, RebuildDwd)
             C == Join(B, RebuildDws)
             D == Join(C, RebuildMeta)
  <1> HIDE DEF A, B, C, D
  <1>5. Plain(A) /\ Len(A) = 1 + Dims
    BY <1>1, <1>2, <1>3, PlainJoin DEF A
  <1>6. Plain(B) /\ Len(B) = (1 + Dims) + Rebuilds
    BY <1>1, <1>3, <1>5, PlainJoin DEF B
  <1>7. Plain(C) /\ Len(C) = ((1 + Dims) + Rebuilds) + Rebuilds
    BY <1>1, <1>3, <1>6, PlainJoin DEF C
  <1>8. Plain(D) /\ Len(D) = (((1 + Dims) + Rebuilds) + Rebuilds) + 2
    BY <1>1, <1>4, <1>7, PlainJoin DEF D
  <1>9. /\ Plain(Join(D, RebuildQa))
        /\ Len(Join(D, RebuildQa)) = ((((1 + Dims) + Rebuilds) + Rebuilds) + 2) + Qas
    BY <1>1, <1>3, <1>8, PlainJoin
  <1>10. Plan("rebuild") = Join(D, RebuildQa)
    BY Zenon DEF Plan, A, B, C, D, Join
  <1>11. QED
    BY <1>1, <1>9, <1>10

LEMMA QaPlan ==
  /\ Plain(QaAfter) /\ Quiet(QaAfter) /\ Len(QaAfter) = Qas
  /\ QaOnly \in Seq(AnyTask) /\ Quiet(QaOnly) /\ Strong(QaOnly)
  /\ Len(QaOnly) = Qas
  /\ Qas \in Nat \ {0}
  <1>1. Qas \in Nat \ {0}
    BY WarehouseAssumption, LeaseCoversTask
    DEF WarehouseAssumption, LeaseCoversTask
  <1>2. Plain(QaAfter) /\ Len(QaAfter) = Qas
    BY <1>1, PlainTimes, SteadyTasks DEF QaAfter
  <1> DEFINE t == Task("qa_only", FALSE, FALSE)
  <1>3. Qa.writes = FALSE /\ t.writes = FALSE /\ t.group = "qa_only"
    BY DEF Qa, Task
  <1>4. ~IsWeak(t)
    BY <1>3 DEF IsWeak
  <1>5. Quiet(QaAfter)
    BY <1>1, <1>3, TimesItems, TaskTypes DEF QaAfter, Quiet
  <1>6. QaOnly \in Seq(AnyTask) /\ Len(QaOnly) = Qas
    BY <1>1, TimesItems, TaskTypes DEF QaOnly
  <1>7. \A i \in 1 .. Qas : QaOnly[i] = t
    BY <1>1, TimesItems, TaskTypes DEF QaOnly
  <1>8. Quiet(QaOnly) /\ Strong(QaOnly)
    BY <1>3, <1>4, <1>6, <1>7 DEF Quiet, Strong
  <1>9. QED
    BY <1>1, <1>2, <1>5, <1>6, <1>8

LEMMA WeakPlan ==
  WeakChain \in Seq(AnyTask) /\ Len(WeakChain) = 2 /\ Guarded(WeakChain)
  <1> DEFINE t == Task("windowed_weak_transform", TRUE, FALSE)
             u == Task("windowed_weak_qa", FALSE, FALSE)
  <1>1. t \in AnyTask /\ u \in AnyTask
    BY DEF Task, AnyTask, Groups
  <1>2. u.writes = FALSE
    BY DEF Task
  <1>3. WeakChain = <<t, u>>
    BY DEF WeakChain
  <1> HIDE DEF t, u
  <1>4. WeakChain \in Seq(AnyTask) /\ Len(WeakChain) = 2 /\ WeakChain[2] = u
    BY <1>1, <1>3
  <1>5. Guarded(WeakChain)
    BY <1>2, <1>4 DEF Guarded
  <1>6. QED
    BY <1>4, <1>5

AnyMode == {"daily_current", "backfill", "qa_only", "rebuild", "skip", "bad"}

\* All that the proofs need of the plans.
LEMMA PlanFacts ==
  ASSUME NEW m \in AnyMode
  PROVE  /\ Plan(m) \in Seq(AnyTask) /\ Guarded(Plan(m))
         /\ ~Locking(m) => Quiet(Plan(m))
         /\ m # "daily_current" => Strong(Plan(m))
         /\ Locking(m) \/ m = "qa_only" => 1 <= Len(Plan(m))
  <1>1. CASE m = "daily_current"
    <2>1. Plan(m) = Join(Join(Core, WeakChain), QaAfter)
      BY <1>1 DEF Plan, Join
    <2>2. /\ Join(Core, WeakChain) \in Seq(AnyTask)
          /\ Guarded(Join(Core, WeakChain))
          /\ Len(Join(Core, WeakChain)) = Len(Core) + 2
      BY CorePlan, WeakPlan, GuardedJoin DEF Plain
    <2>3. /\ Plan(m) \in Seq(AnyTask) /\ Guarded(Plan(m))
          /\ Len(Plan(m)) = Len(Join(Core, WeakChain)) + Qas
      BY <2>1, <2>2, QaPlan, GuardedJoin DEF Plain
    <2>4. 1 <= Len(Plan(m))
      BY <2>2, <2>3, CorePlan, QaPlan
    <2>5. QED
      BY <1>1, <2>3, <2>4 DEF Locking
  <1>2. CASE m = "backfill"
    <2>1. Plan(m) = Join(Core, QaAfter)
      BY <1>2 DEF Plan, Join
    <2>2. Plain(Plan(m)) /\ Len(Plan(m)) = (Dims + 7) + Qas
      BY <2>1, CorePlan, QaPlan, PlainJoin
    <2>3. QED
      BY <1>2, <2>2, CorePlan, QaPlan, SimpleGuarded DEF Plain, Locking
  <1>3. CASE m = "qa_only"
    <2>1. Plan(m) = QaOnly
      BY <1>3 DEF Plan
    <2>2. QED
      BY <1>3, <2>1, QaPlan, SimpleGuarded
  <1>4. CASE m = "rebuild"
    BY <1>4, RebuildPlan, SimpleGuarded DEF Plain, Locking
  <1>5. CASE m \in {"skip", "bad"}
    <2>1. Plan(m) = << >>
      BY <1>5 DEF Plan
    <2>2. Plan(m) \in Seq(AnyTask) /\ Len(Plan(m)) = 0
      BY <2>1, EmptySeq
    <2>3. QED
      BY <1>5, <2>2 DEF Guarded, Quiet, Strong, Locking
  <1>6. QED
    BY <1>1, <1>2, <1>3, <1>4, <1>5 DEF AnyMode

\* Where a run goes on after its corporate action chain has failed.
LEMMA AfterWeakChain ==
  LET n == Len(Core) + Len(WeakChain) + 1
      plan == Plan("daily_current")
  IN  n \in 1 .. Len(plan) /\ ~plan[n].writes
  <1> DEFINE A == Join(Core, WeakChain)
             plan == Plan("daily_current")
  <1>1. A \in Seq(AnyTask) /\ Len(A) = (Dims + 7) + 2
    BY CorePlan, WeakPlan, GuardedJoin DEF Plain
  <1>2. plan = Join(A, QaAfter)
    BY DEF Plan, Join
  <1> HIDE DEF A, plan
  <1>3. /\ QaAfter \in Seq(AnyTask) /\ Len(QaAfter) = Qas
        /\ 1 <= Len(QaAfter) /\ 1 \in 1 .. Len(QaAfter)
    BY QaPlan DEF Plain
  <1>4. Len(plan) = Len(A) + Qas /\ plan[Len(A) + 1] = QaAfter[1]
    BY <1>1, <1>2, <1>3, GuardedJoin
  <1>5. ~QaAfter[1].writes
    BY <1>3, QaPlan DEF Quiet
  <1>6. Len(Core) + Len(WeakChain) + 1 = Len(A) + 1
    BY <1>1, CorePlan, WeakPlan
  <1>7. Len(A) + 1 \in 1 .. Len(plan)
    BY <1>1, <1>4, CorePlan, QaPlan
  <1>8. QED
    BY <1>4, <1>5, <1>6, <1>7 DEF plan

-----------------------------------------------------------------------------
(* Executions.                                                             *)

Places == {"idle", "acquire", "post", "task", "beat", "report", "release",
           "finalize", "error", "succeeded", "failed", "cancelled"}

\* What is known of an execution that is about to take a step.
Known(w) ==
  /\ mode[w] \in AnyMode /\ step[w] \in Nat \ {0} /\ timer[w] \in Nat
  /\ Lease[w] \in Nat \ {0} /\ left \in Int
  /\ TaskLimit[Kind[w]] \in Nat /\ TaskLimit[Kind[w]] <= Lease[w]
  /\ w # NoOne
  /\ ClientInv(w)
  /\ Len(Plan(mode[w])) \in Nat
  /\ pc[w] \in {"post", "task", "beat", "report"} =>
       step[w] \in 1 .. Len(Plan(mode[w])) /\ Current(w) \in AnyTask

LEMMA ModesTyped ==
  ASSUME NEW w \in Client
  PROVE  Modes(Kind[w]) \subseteq AnyMode
  BY DEF Modes, AnyMode

LEMMA KnownFacts ==
  ASSUME IInv, NEW w \in Client
  PROVE  Known(w)
  <1>1. /\ ClientInv(w) /\ mode[w] \in AnyMode
        /\ step[w] \in Nat \ {0} /\ timer[w] \in Nat /\ left \in Int
    BY ModesTyped DEF IInv, TypeOK
  <1>2. /\ Lease[w] \in Nat \ {0} /\ w # NoOne
        /\ TaskLimit[Kind[w]] \in Nat /\ TaskLimit[Kind[w]] <= Lease[w]
    BY LeaseAssumption, WarehouseAssumption, LeaseCoversTask
    DEF LeaseAssumption, WarehouseAssumption, LeaseCoversTask
  <1>3. Plan(mode[w]) \in Seq(AnyTask) /\ Len(Plan(mode[w])) \in Nat
    BY <1>1, PlanFacts, LenProperties
  <1>4. ASSUME pc[w] \in {"post", "task", "beat", "report"}
        PROVE  step[w] \in 1 .. Len(Plan(mode[w]))
    <2>1. step[w] <= Len(Plan(mode[w]))
      BY <1>1, <1>4 DEF IInv, TypeOK, ClientInv, Position
    <2>2. QED
      BY <1>1, <1>3, <2>1
  <1>5. ASSUME pc[w] \in {"post", "task", "beat", "report"}
        PROVE  Current(w) \in AnyTask
    BY <1>3, <1>4, <1>5, ElementOfSeq DEF Current
  <1>6. QED
    BY <1>1, <1>2, <1>3, <1>4, <1>5 DEF Known

Alone(v) ==
  pc'[v] = pc[v] /\ mode'[v] = mode[v] /\ step'[v] = step[v] /\ timer'[v] = timer[v]

\* The lock changes hands only from nobody, from w itself, or after expiry.
LockMove(w) == UNCHANGED lock \/ left < 0 \/ holder \in {NoOne, w}

\* An execution that takes no step keeps its part of the invariant, as long
\* as its lease runs: nobody else can change the lock.
LEMMA OthersKeep ==
  ASSUME IInv, NEW v \in Client, Alone(v),
         UNCHANGED lock \/ left < 0 \/ holder # v
  PROVE  ClientInv(v)'
  <1>1. Known(v)
    BY KnownFacts
  <1>2. Position(v)' /\ OnTime(v)'
    BY <1>1 DEF Known, ClientInv, Position, OnTime, Alone
  <1>3. ASSUME pc[v] \in {"post", "task"}, Current(v).writes
        PROVE  UNCHANGED lock /\ holder = v /\ left >= Lease[v] - timer[v]
    <2>1. holder = v /\ left >= Lease[v] - timer[v]
      BY <1>1, <1>3 DEF Known, ClientInv, Covered
    <2>2. timer[v] <= Lease[v]
      BY <1>1, <1>3 DEF Known, ClientInv, OnTime
    <2>3. left >= 0
      BY <1>1, <2>1, <2>2 DEF Known
    <2>4. QED
      BY <1>1, <2>1, <2>3 DEF Known
  <1>4. Current(v)' = Current(v)
    BY DEF Current, Alone
  <1>5. Covered(v)'
    BY <1>3, <1>4 DEF Covered, Alone, lock
  <1>6. QED
    BY <1>2, <1>5 DEF ClientInv

StepTypes ==
  /\ holder' \in Client \cup {NoOne} /\ left' \in Int
  /\ pc' \in [Client -> Places]
  /\ mode' \in [Client -> Modes("window") \cup Modes("rebuild")]
  /\ \A w \in Client : mode'[w] \in Modes(Kind[w])
  /\ step' \in [Client -> Nat \ {0}]
  /\ at' \in [Client -> Groups]
  /\ timer' \in [Client -> Nat]
  /\ polls' \in [Client -> 0 .. MaxPolls]
  /\ flag' \in [Client -> BOOLEAN] /\ stray' \in [Client -> BOOLEAN]
  /\ late' \in [Client -> BOOLEAN] /\ lost' \in [Client -> BOOLEAN]
  /\ touched' \in [Client -> BOOLEAN]

InPlan(w) == pc[w] \in {"post", "task"} => step[w] <= Len(Plan(mode[w]))

StepInv(w) ==
  /\ StepTypes
  /\ \A v \in Client \ {w} : Alone(v)
  /\ LockMove(w)
  /\ InPlan(w)' /\ ClientInv(w)'

LEMMA ClientStepInv ==
  ASSUME NEW w \in Client, IInv, StepInv(w)
  PROVE  IInv'
  <1>1. ASSUME NEW v \in Client
        PROVE  ClientInv(v)' /\ InPlan(v)'
    <2>1. CASE v = w
      BY <2>1 DEF StepInv
    <2>2. CASE v # w
      <3>1. Alone(v) /\ (UNCHANGED lock \/ left < 0 \/ holder # v)
        BY <2>2, KnownFacts DEF StepInv, LockMove, Known
      <3>2. InPlan(v)'
        BY <3>1 DEF IInv, TypeOK, InPlan, Alone
      <3>3. QED
        BY <3>1, <3>2, OthersKeep
    <2>3. QED
      BY <2>1, <2>2
  <1>2. TypeOK'
    BY <1>1 DEF StepInv, StepTypes, Places, TypeOK, InPlan
  <1>3. QED
    BY <1>1, <1>2 DEF IInv

\* The types of the invariant in the form the steps need.
LEMMA Types ==
  ASSUME IInv
  PROVE  /\ holder \in Client \cup {NoOne} /\ left \in Int
         /\ pc \in [Client -> Places]
         /\ mode \in [Client -> Modes("window") \cup Modes("rebuild")]
         /\ \A w \in Client : mode[w] \in Modes(Kind[w])
         /\ step \in [Client -> Nat \ {0}]
         /\ at \in [Client -> Groups]
         /\ timer \in [Client -> Nat]
         /\ polls \in [Client -> 0 .. MaxPolls]
         /\ flag \in [Client -> BOOLEAN] /\ stray \in [Client -> BOOLEAN]
         /\ late \in [Client -> BOOLEAN] /\ lost \in [Client -> BOOLEAN]
         /\ touched \in [Client -> BOOLEAN]
  BY DEF IInv, TypeOK, Places

LEMMA GotoFacts ==
  ASSUME IInv, NEW w \in Client, NEW p \in Places, Goto(w, p)
  PROVE  /\ pc' \in [Client -> Places] /\ timer' \in [Client -> Nat]
         /\ pc'[w] = p /\ timer'[w] = 0
         /\ \A v \in Client \ {w} : pc'[v] = pc[v] /\ timer'[v] = timer[v]
  BY Types DEF Goto

\* A task without a heartbeat is not followed by one that writes.
LEMMA NextIsQuiet ==
  ASSUME IInv, NEW w \in Client, pc[w] = "task", ~Current(w).beat,
         step[w] < Len(Plan(mode[w]))
  PROVE  ~Plan(mode[w])[step[w] + 1].writes
  <1>1. Known(w)
    BY KnownFacts
  <1>2. step[w] \in 1 .. Len(Plan(mode[w])) - 1
    BY <1>1 DEF Known
  <1>3. Guarded(Plan(mode[w]))
    BY <1>1, PlanFacts DEF Known
  <1>4. QED
    BY <1>2, <1>3 DEF Guarded, Current

-----------------------------------------------------------------------------
(* Action by action.                                                       *)

\* step advances by one.
LEMMA AdvanceFacts ==
  ASSUME IInv, NEW w \in Client, step' = [step EXCEPT ![w] = @ + 1]
  PROVE  /\ step' \in [Client -> Nat \ {0}]
         /\ step'[w] = step[w] + 1
         /\ \A v \in Client \ {w} : step'[v] = step[v]
  <1>1. step \in [Client -> Nat \ {0}]
    BY Types
  <1>2. step[w] + 1 \in Nat \ {0}
    BY <1>1
  <1>3. QED
    BY <1>1, <1>2

LEMMA StartInv ==
  ASSUME NEW w \in Client, IInv, Start(w)
  PROVE  StepInv(w)
  <1>1. Known(w)
    BY KnownFacts
  <1>2. PICK m \in Modes(Kind[w]) :
          /\ mode' = [mode EXCEPT ![w] = m]
          /\ \/ Goto(w, IF Locking(m) THEN "acquire"
                        ELSE IF m = "qa_only" THEN "post"
                        ELSE IF m = "skip" THEN "finalize" ELSE "error")
             \/ Goto(w, "error")
    BY DEF Start
  <1>3. PICK p \in {"acquire", "post", "finalize", "error"} :
          /\ Goto(w, p)
          /\ p = "acquire" => Locking(m)
          /\ p = "post" => m = "qa_only"
    BY <1>2
  <1>4. m \in AnyMode /\ m \in Modes("window") \cup Modes("rebuild")
    BY ModesTyped, WarehouseAssumption DEF WarehouseAssumption
  <1>5. /\ mode' \in [Client -> Modes("window") \cup Modes("rebuild")]
        /\ mode'[w] = m /\ \A v \in Client \ {w} : mode'[v] = mode[v]
    BY <1>2, <1>4, Types
  <1>6. /\ pc' \in [Client -> Places] /\ timer' \in [Client -> Nat]
        /\ pc'[w] = p /\ timer'[w] = 0
        /\ \A v \in Client \ {w} : pc'[v] = pc[v] /\ timer'[v] = timer[v]
    BY <1>3, GotoFacts DEF Places
  <1>7. StepTypes
    BY <1>5, <1>6, Types DEF StepTypes, Start, lock, hist
  <1>8. \A v \in Client \ {w} : Alone(v)
    BY <1>5, <1>6 DEF Alone, Start
  <1>9. UNCHANGED lock /\ step'[w] = 1
    BY <1>1 DEF Start, Known, ClientInv, Position
  <1>10. p = "post" => 1 <= Len(Plan(m)) /\ ~Plan(m)[1].writes
    BY <1>3, <1>4, PlanFacts, LenProperties DEF Quiet, Locking
  <1>11. InPlan(w)' /\ ClientInv(w)'
    BY <1>3, <1>5, <1>6, <1>9, <1>10
    DEF InPlan, ClientInv, Position, OnTime, Covered, Current
  <1>12. QED
    BY <1>7, <1>8, <1>9, <1>11 DEF StepInv, LockMove

LEMMA PostTaskInv ==
  ASSUME NEW w \in Client, IInv, PostTask(w)
  PROVE  StepInv(w)
  <1>1. Known(w) /\ pc[w] = "post"
    BY KnownFacts DEF PostTask
  <1>2. /\ pc' \in [Client -> Places] /\ timer' \in [Client -> Nat]
        /\ pc'[w] = "task" /\ timer'[w] = 0
        /\ \A v \in Client \ {w} : pc'[v] = pc[v] /\ timer'[v] = timer[v]
    BY GotoFacts DEF PostTask, Places
  <1>3. Current(w).group \in Groups /\ Current(w).writes \in BOOLEAN
    BY <1>1 DEF Known, AnyTask
  <1>4. touched' \in [Client -> BOOLEAN]
    BY Types, <1>3 DEF PostTask, Inside
  <1>5. StepTypes
    BY <1>2, <1>3, <1>4, Types DEF StepTypes, PostTask, lock
  <1>6. \A v \in Client \ {w} : Alone(v)
    BY <1>2 DEF Alone, PostTask
  <1>7. UNCHANGED lock /\ mode' = mode /\ step' = step
    BY DEF PostTask
  <1>8. InPlan(w)' /\ ClientInv(w)'
    <2>1. Covered(w)'
      BY <1>1, <1>2, <1>7 DEF Known, ClientInv, OnTime, Covered, Current, lock
    <2>2. InPlan(w)' /\ Position(w)' /\ OnTime(w)'
      BY <1>1, <1>2, <1>7 DEF Known, InPlan, Position, OnTime
    <2>3. QED
      BY <2>1, <2>2 DEF ClientInv
  <1>9. QED
    BY <1>5, <1>6, <1>7, <1>8 DEF StepInv, LockMove

LEMMA TaskSucceedsInv ==
  ASSUME NEW w \in Client, IInv, TaskSucceeds(w)
  PROVE  StepInv(w)
  <1>1. Known(w) /\ pc[w] = "task"
    BY KnownFacts DEF TaskSucceeds
  <1>2. PICK p \in {"beat", "post", "release", "finalize"} :
          /\ Goto(w, p)
          /\ p = "beat" => step' = step
          /\ p # "beat" => ~Current(w).beat /\ step' = [step EXCEPT ![w] = @ + 1]
          /\ p = "post" => step[w] < Len(Plan(mode[w]))
    BY DEF TaskSucceeds, AfterStep
  <1>3. /\ pc' \in [Client -> Places] /\ timer' \in [Client -> Nat]
        /\ pc'[w] = p /\ timer'[w] = 0
        /\ \A v \in Client \ {w} : pc'[v] = pc[v] /\ timer'[v] = timer[v]
    BY <1>2, GotoFacts DEF Places
  <1>4. /\ step' \in [Client -> Nat \ {0}]
        /\ p = "beat" => step'[w] = step[w]
        /\ p # "beat" => step'[w] = step[w] + 1
        /\ \A v \in Client \ {w} : step'[v] = step[v]
    BY <1>2, Types, AdvanceFacts
  <1>5. polls' \in [Client -> 0 .. MaxPolls]
    BY Types, WarehouseAssumption DEF WarehouseAssumption, TaskSucceeds
  <1>6. StepTypes
    BY <1>3, <1>4, <1>5, Types DEF StepTypes, TaskSucceeds, lock, hist
  <1>7. \A v \in Client \ {w} : Alone(v)
    BY <1>3, <1>4 DEF Alone, TaskSucceeds
  <1>8. UNCHANGED lock /\ mode' = mode
    BY DEF TaskSucceeds
  <1>9. InPlan(w)' /\ ClientInv(w)'
    <2>1. InPlan(w)' /\ Position(w)' /\ OnTime(w)'
      BY <1>1, <1>2, <1>3, <1>4, <1>8 DEF Known, InPlan, Position, OnTime
    <2>2. Covered(w)'
      BY <1>1, <1>2, <1>3, <1>4, <1>8, NextIsQuiet DEF Covered, Current
    <2>3. QED
      BY <2>1, <2>2 DEF ClientInv
  <1>10. QED
    BY <1>6, <1>7, <1>8, <1>9 DEF StepInv, LockMove

LEMMA TaskFailsInv ==
  ASSUME NEW w \in Client, IInv, TaskFails(w)
  PROVE  StepInv(w)
  <1>1. Known(w) /\ pc[w] = "task"
    BY KnownFacts DEF TaskFails
  <1>2. PICK p \in {"report", "error"} :
          Goto(w, p) /\ (p = "report" => IsWeak(Current(w)))
    BY DEF TaskFails
  <1>3. /\ pc' \in [Client -> Places] /\ timer' \in [Client -> Nat]
        /\ pc'[w] = p /\ timer'[w] = 0
        /\ \A v \in Client \ {w} : pc'[v] = pc[v] /\ timer'[v] = timer[v]
    BY <1>2, GotoFacts DEF Places
  <1>4. polls' \in [Client -> 0 .. MaxPolls]
    BY Types, WarehouseAssumption DEF WarehouseAssumption, TaskFails
  <1>5. Current(w).writes \in BOOLEAN
    BY <1>1 DEF Known, AnyTask
  <1>6. stray' \in [Client -> BOOLEAN]
    BY <1>5, Types DEF TaskFails
  <1>7. StepTypes
    BY <1>3, <1>4, <1>6, Types DEF StepTypes, TaskFails, lock, hist
  <1>8. \A v \in Client \ {w} : Alone(v)
    BY <1>3 DEF Alone, TaskFails
  <1>9. UNCHANGED lock /\ mode' = mode /\ step' = step
    BY DEF TaskFails
  <1>10. p = "report" => mode[w] = "daily_current"
    BY <1>1, <1>2, PlanFacts DEF Known, Current, Strong
  <1>11. InPlan(w)' /\ ClientInv(w)'
    BY <1>1, <1>3, <1>9, <1>10
    DEF Known, InPlan, ClientInv, Position, OnTime, Covered
  <1>12. QED
    BY <1>7, <1>8, <1>9, <1>11 DEF StepInv, LockMove

LEMMA ReportWeakFailureInv ==
  ASSUME NEW w \in Client, IInv, ReportWeakFailure(w)
  PROVE  StepInv(w)
  <1> DEFINE n == Len(Core) + Len(WeakChain) + 1
  <1>1. Known(w) /\ pc[w] = "report" /\ mode[w] = "daily_current"
    BY KnownFacts DEF ReportWeakFailure, Known, ClientInv, Position
  <1>2. PICK p \in {"post", "error"} :
          /\ Goto(w, p)
          /\ p = "post" => step' = [step EXCEPT ![w] = n]
          /\ p = "error" => step' = step
    BY DEF ReportWeakFailure
  <1>3. /\ pc' \in [Client -> Places] /\ timer' \in [Client -> Nat]
        /\ pc'[w] = p /\ timer'[w] = 0
        /\ \A v \in Client \ {w} : pc'[v] = pc[v] /\ timer'[v] = timer[v]
    BY <1>2, GotoFacts DEF Places
  <1>4. /\ n \in 1 .. Len(Plan("daily_current"))
        /\ ~Plan("daily_current")[n].writes
    BY AfterWeakChain
  <1> HIDE DEF n
  <1>5. n \in Nat \ {0} /\ n <= Len(Plan(mode[w]))
    BY <1>1, <1>4 DEF Known
  <1>6. /\ step' \in [Client -> Nat \ {0}]
        /\ p = "post" => step'[w] = n
        /\ \A v \in Client \ {w} : step'[v] = step[v]
    <2>1. step \in [Client -> Nat \ {0}]
      BY Types
    <2> QED BY <1>2, <1>5, <2>1
  <1>7. StepTypes
    BY <1>3, <1>6, Types DEF StepTypes, ReportWeakFailure, lock, hist
  <1>8. \A v \in Client \ {w} : Alone(v)
    BY <1>3, <1>6 DEF Alone, ReportWeakFailure
  <1>9. UNCHANGED lock /\ mode' = mode
    BY DEF ReportWeakFailure
  <1>10. InPlan(w)' /\ ClientInv(w)'
    BY <1>1, <1>2, <1>3, <1>4, <1>5, <1>6, <1>9
    DEF InPlan, ClientInv, Position, OnTime, Covered, Current
  <1>11. QED
    BY <1>7, <1>8, <1>9, <1>10 DEF StepInv, LockMove

\* A heartbeat that is answered well covers what comes next.
LEMMA BeatFacts ==
  ASSUME NEW w \in Client, IInv, NEW next \in Places, Beat(w, next)
  PROVE  \E p \in {next, "error"} :
           /\ Goto(w, p)
           /\ p # "error" => holder' = w /\ left' = Lease[w]
           /\ LockMove(w)
           /\ holder' \in Client \cup {NoOne} /\ left' \in Int
           /\ lost' \in [Client -> BOOLEAN]
  <1>1. Known(w)
    BY KnownFacts
  <1>2. CASE Extend(w) /\ Goto(w, next) /\ UNCHANGED lost
    BY <1>1, <1>2, Types DEF Extend, Renew, LockMove, Known
  <1>3. CASE holder # w /\ Goto(w, "error") /\ UNCHANGED <<lock, lost>>
    BY <1>3, Types DEF LockMove, lock
  <1>4. CASE Goto(w, "error") /\ Lose(w) /\ (Extend(w) \/ UNCHANGED lock)
    <2>1. lost' \in [Client -> BOOLEAN]
      BY <1>4, Types DEF Lose
    <2>2. /\ LockMove(w)
          /\ holder' \in Client \cup {NoOne} /\ left' \in Int
      BY <1>1, <1>4, Types DEF Extend, Renew, LockMove, Known, lock
    <2>3. QED
      BY <1>4, <2>1, <2>2
  <1>5. QED
    BY <1>2, <1>3, <1>4 DEF Beat

LEMMA HeartbeatAfterTaskInv ==
  ASSUME NEW w \in Client, IInv, HeartbeatAfterTask(w)
  PROVE  StepInv(w)
  <1>1. Known(w) /\ pc[w] = "beat"
    BY KnownFacts DEF HeartbeatAfterTask
  <1>2. AfterStep(w) \in {"post", "release", "finalize"}
    BY DEF AfterStep
  <1>3. PICK p \in {AfterStep(w), "error"} :
           /\ Goto(w, p)
           /\ p # "error" => holder' = w /\ left' = Lease[w]
           /\ LockMove(w)
           /\ holder' \in Client \cup {NoOne} /\ left' \in Int
           /\ lost' \in [Client -> BOOLEAN]
    BY <1>2, BeatFacts DEF HeartbeatAfterTask, Places
  <1>4. /\ p \in {"post", "release", "finalize", "error"}
        /\ p = "post" => step[w] < Len(Plan(mode[w]))
    BY <1>2, <1>3 DEF AfterStep
  <1>5. /\ pc' \in [Client -> Places] /\ timer' \in [Client -> Nat]
        /\ pc'[w] = p /\ timer'[w] = 0
        /\ \A v \in Client \ {w} : pc'[v] = pc[v] /\ timer'[v] = timer[v]
    BY <1>3, <1>4, GotoFacts DEF Places
  <1>6. /\ step' \in [Client -> Nat \ {0}] /\ step'[w] = step[w] + 1
        /\ \A v \in Client \ {w} : step'[v] = step[v]
    BY AdvanceFacts DEF HeartbeatAfterTask
  <1>7. StepTypes
    BY <1>3, <1>5, <1>6, Types DEF StepTypes, HeartbeatAfterTask
  <1>8. \A v \in Client \ {w} : Alone(v)
    BY <1>5, <1>6 DEF Alone, HeartbeatAfterTask
  <1>9. mode' = mode
    BY DEF HeartbeatAfterTask
  <1>10. InPlan(w)' /\ ClientInv(w)'
    BY <1>1, <1>3, <1>4, <1>5, <1>6, <1>9
    DEF Known, InPlan, ClientInv, Position, OnTime, Covered
  <1>11. QED
    BY <1>3, <1>7, <1>8, <1>10 DEF StepInv

LEMMA PollAgainInv ==
  ASSUME NEW w \in Client, IInv, PollAgain(w)
  PROVE  StepInv(w)
  <1>1. Known(w) /\ pc[w] = "task" /\ polls[w] < MaxPolls
    BY KnownFacts DEF PollAgain
  <1>2. PICK p \in {"task", "error"} :
           /\ Goto(w, p)
           /\ p # "error" => holder' = w /\ left' = Lease[w]
           /\ LockMove(w)
           /\ holder' \in Client \cup {NoOne} /\ left' \in Int
           /\ lost' \in [Client -> BOOLEAN]
    BY BeatFacts DEF PollAgain, Places
  <1>3. /\ pc' \in [Client -> Places] /\ timer' \in [Client -> Nat]
        /\ pc'[w] = p /\ timer'[w] = 0
        /\ \A v \in Client \ {w} : pc'[v] = pc[v] /\ timer'[v] = timer[v]
    BY <1>2, GotoFacts DEF Places
  <1>4. polls' \in [Client -> 0 .. MaxPolls]
    <2>1. polls[w] + 1 \in 0 .. MaxPolls
      BY <1>1, Types, WarehouseAssumption DEF WarehouseAssumption
    <2>2. QED
      BY <2>1, Types DEF PollAgain
  <1>5. Current(w).writes \in BOOLEAN
    BY <1>1 DEF Known, AnyTask
  <1>6. stray' \in [Client -> BOOLEAN]
    BY <1>5, Types DEF PollAgain
  <1>7. StepTypes
    BY <1>2, <1>3, <1>4, <1>6, Types DEF StepTypes, PollAgain
  <1>8. \A v \in Client \ {w} : Alone(v)
    BY <1>3 DEF Alone, PollAgain
  <1>9. mode' = mode /\ step' = step
    BY DEF PollAgain
  <1>10. InPlan(w)' /\ ClientInv(w)'
    BY <1>1, <1>2, <1>3, <1>9
    DEF Known, InPlan, ClientInv, Position, OnTime, Covered
  <1>11. QED
    BY <1>2, <1>7, <1>8, <1>10 DEF StepInv

\* What a request to take the lock or give it back does to it.
LEMMA LockFacts ==
  ASSUME IInv, NEW w \in Client, TakeLock(w) \/ Release(w) \/ Evict \/ UNCHANGED lock
  PROVE  /\ LockMove(w)
         /\ holder' \in Client \cup {NoOne} /\ left' \in Int
         /\ TakeLock(w) => holder' = w /\ left' = Lease[w]
  BY KnownFacts, Types
  DEF TakeLock, Grant, Free, Release, Evict, Stale, LockMove, Known, lock

LEMMA AcquireInv ==
  ASSUME NEW w \in Client, IInv, Acquire(w)
  PROVE  StepInv(w)
  <1>1. Known(w) /\ pc[w] = "acquire" /\ step[w] = 1 /\ Locking(mode[w])
    BY KnownFacts DEF Acquire, Known, ClientInv, Position
  <1>2. PICK p \in {"post", "error"} :
          Goto(w, p) /\ (p = "post" => TakeLock(w))
    BY DEF Acquire
  <1>3. /\ LockMove(w)
        /\ holder' \in Client \cup {NoOne} /\ left' \in Int
        /\ TakeLock(w) => holder' = w /\ left' = Lease[w]
    BY LockFacts DEF Acquire
  <1>4. /\ pc' \in [Client -> Places] /\ timer' \in [Client -> Nat]
        /\ pc'[w] = p /\ timer'[w] = 0
        /\ \A v \in Client \ {w} : pc'[v] = pc[v] /\ timer'[v] = timer[v]
    BY <1>2, GotoFacts DEF Places
  <1>5. /\ at' \in [Client -> Groups]
        /\ flag' \in [Client -> BOOLEAN]
        /\ late' \in [Client -> BOOLEAN] /\ lost' \in [Client -> BOOLEAN]
    BY Types DEF Acquire, Lose, Groups
  <1>6. StepTypes
    BY <1>3, <1>4, <1>5, Types DEF StepTypes, Acquire
  <1>7. \A v \in Client \ {w} : Alone(v)
    BY <1>4 DEF Alone, Acquire
  <1>8. mode' = mode /\ step' = step /\ 1 <= Len(Plan(mode[w]))
    BY <1>1, PlanFacts DEF Acquire, Known
  <1>9. InPlan(w)' /\ ClientInv(w)'
    BY <1>1, <1>2, <1>3, <1>4, <1>8
    DEF Known, InPlan, ClientInv, Position, OnTime, Covered
  <1>10. QED
    BY <1>3, <1>6, <1>7, <1>9 DEF StepInv

\* Requests and jobs that nobody waits for: no execution takes a step.
LEMMA BackgroundInv ==
  ASSUME NEW w \in Client, IInv,
         Reclaim(w) \/ LateAcquire(w) \/ Resubmit(w) \/ StrayEnds(w)
  PROVE  StepInv(w)
  <1>1. /\ LockMove(w)
        /\ holder' \in Client \cup {NoOne} /\ left' \in Int
    BY LockFacts DEF Reclaim, LateAcquire, Resubmit, StrayEnds
  <1>2. UNCHANGED lock \/ left < 0 \/ holder # w
    BY KnownFacts
    DEF Known, Reclaim, LateAcquire, Resubmit, StrayEnds, TakeLock, Grant,
        Free, Evict, Stale
  <1>3. UNCHANGED <<pc, timer, run, lost, touched>>
    BY DEF Reclaim, LateAcquire, Resubmit, StrayEnds, hist
  <1>4. Known(w)
    BY KnownFacts
  <1>5. stray' \in [Client -> BOOLEAN] /\ late' \in [Client -> BOOLEAN]
    <2>1. CASE Reclaim(w)
      BY <2>1, Types DEF Reclaim, hist
    <2>2. CASE LateAcquire(w)
      BY <2>2, Types DEF LateAcquire
    <2>3. CASE Resubmit(w)
      <3>1. Current(w).writes \in BOOLEAN
        BY <1>4, <2>3 DEF Known, AnyTask, Resubmit
      <3>2. QED
        BY <2>3, <3>1, Types DEF Resubmit, hist
    <2>4. CASE StrayEnds(w)
      BY <2>4, Types DEF StrayEnds, hist
    <2>5. QED
      BY <2>1, <2>2, <2>3, <2>4
  <1>6. StepTypes
    BY <1>1, <1>3, <1>5, Types DEF StepTypes, run
  <1>7. \A v \in Client : Alone(v)
    BY <1>3 DEF Alone, run
  <1>8. ClientInv(w)'
    BY <1>2, <1>7, OthersKeep
  <1>9. InPlan(w)'
    BY <1>4, <1>7 DEF Known, InPlan, Alone
  <1>10. QED
    BY <1>1, <1>6, <1>7, <1>8, <1>9 DEF StepInv

\* The steps after which an execution neither posts nor waits for a task.
LEMMA LeavingInv ==
  ASSUME NEW w \in Client, IInv,
         NEW p \in {"finalize", "error", "succeeded", "failed", "cancelled"},
         Goto(w, p),
         step' = step \/ step' = [step EXCEPT ![w] = 1],
         UNCHANGED <<mode, polls, late, touched>>,
         TakeLock(w) \/ Release(w) \/ Evict \/ UNCHANGED lock,
         at' \in [Client -> Groups], flag' \in [Client -> BOOLEAN],
         stray' \in [Client -> BOOLEAN], lost' \in [Client -> BOOLEAN]
  PROVE  StepInv(w)
  <1>1. /\ LockMove(w)
        /\ holder' \in Client \cup {NoOne} /\ left' \in Int
    BY LockFacts
  <1>2. /\ pc' \in [Client -> Places] /\ timer' \in [Client -> Nat]
        /\ pc'[w] = p /\ timer'[w] = 0
        /\ \A v \in Client \ {w} : pc'[v] = pc[v] /\ timer'[v] = timer[v]
    BY GotoFacts DEF Places
  <1>3. /\ step' \in [Client -> Nat \ {0}]
        /\ \A v \in Client \ {w} : step'[v] = step[v]
    BY Types
  <1>4. StepTypes
    BY <1>1, <1>2, <1>3, Types DEF StepTypes
  <1>5. \A v \in Client \ {w} : Alone(v)
    BY <1>2, <1>3 DEF Alone
  <1>6. InPlan(w)' /\ ClientInv(w)'
    BY <1>2 DEF InPlan, ClientInv, Position, OnTime, Covered
  <1>7. QED
    BY <1>1, <1>4, <1>5, <1>6 DEF StepInv

LEMMA ReleaseAtEndInv ==
  ASSUME NEW w \in Client, IInv, ReleaseAtEnd(w)
  PROVE  StepInv(w)
  <1>1. PICK p \in {"finalize", "error"} : Goto(w, p)
    BY DEF ReleaseAtEnd
  <1>2. /\ at' \in [Client -> Groups] /\ flag' \in [Client -> BOOLEAN]
        /\ stray' \in [Client -> BOOLEAN] /\ lost' \in [Client -> BOOLEAN]
    BY Types DEF ReleaseAtEnd, Lose, Groups
  <1>3. Release(w) \/ UNCHANGED lock
    BY DEF ReleaseAtEnd
  <1>4. step' = step /\ UNCHANGED <<mode, polls, late, touched>>
    BY DEF ReleaseAtEnd
  <1>5. QED
    BY <1>1, <1>2, <1>3, <1>4, LeavingInv

LEMMA FinalizeInv ==
  ASSUME NEW w \in Client, IInv, Finalize(w)
  PROVE  StepInv(w)
  <1>1. PICK p \in {"succeeded", "error"} :
          Goto(w, p) /\ (step' = step \/ step' = [step EXCEPT ![w] = 1])
    BY DEF Finalize, Finish
  <1>2. /\ at' \in [Client -> Groups] /\ flag' \in [Client -> BOOLEAN]
        /\ stray' \in [Client -> BOOLEAN] /\ lost' \in [Client -> BOOLEAN]
    BY Types DEF Finalize, Groups, hist
  <1>3. UNCHANGED lock /\ UNCHANGED <<mode, polls, late, touched>>
    BY DEF Finalize, hist
  <1>4. QED
    BY <1>1, <1>2, <1>3, LeavingInv

LEMMA OnErrorInv ==
  ASSUME NEW w \in Client, IInv, OnError(w)
  PROVE  StepInv(w)
  <1>1. Goto(w, "failed") /\ step' = [step EXCEPT ![w] = 1]
    BY DEF OnError, Finish
  <1>2. /\ at' \in [Client -> Groups] /\ flag' \in [Client -> BOOLEAN]
        /\ stray' \in [Client -> BOOLEAN] /\ lost' \in [Client -> BOOLEAN]
    BY Types DEF OnError, Lose
  <1>3. Release(w) \/ UNCHANGED lock
    BY DEF OnError
  <1>4. UNCHANGED <<mode, polls, late, touched>>
    BY DEF OnError
  <1>5. QED
    BY <1>1, <1>2, <1>3, <1>4, LeavingInv

LEMMA CancelInv ==
  ASSUME NEW w \in Client, IInv, Cancel(w)
  PROVE  StepInv(w)
  <1>1. Goto(w, "cancelled") /\ step' = [step EXCEPT ![w] = 1]
    BY DEF Cancel, Finish
  <1>2. AttachedWriter(w) \in BOOLEAN
    BY KnownFacts DEF AttachedWriter, Known, AnyTask
  <1>3. /\ at' \in [Client -> Groups] /\ flag' \in [Client -> BOOLEAN]
        /\ stray' \in [Client -> BOOLEAN] /\ lost' \in [Client -> BOOLEAN]
    BY <1>2, Types DEF Cancel, hist
  <1>4. UNCHANGED lock /\ UNCHANGED <<mode, polls, late, touched>>
    BY DEF Cancel, hist
  <1>5. QED
    BY <1>1, <1>3, <1>4, LeavingInv

\* A tick takes from the lease what it adds to the timers, and comes only
\* while every task is within its limit.
LEMMA TickInv ==
  ASSUME IInv, Tick
  PROVE  IInv'
  <1>1. \A w \in Client : Known(w) /\ Patient(w)
    BY KnownFacts DEF Tick
  <1>2. /\ UNCHANGED <<holder, pc, mode, step, at, polls, flag, stray, hist>>
        /\ left' = Down(left) /\ left' \in Int /\ left' >= left - 1
    BY Types DEF Tick, Elapse, Down
  <1>3. /\ timer' \in [Client -> Nat]
        /\ \A w \in Client :
             timer'[w] = IF pc[w] = "task" THEN timer[w] + 1 ELSE timer[w]
    BY Types DEF Tick
  <1>4. TypeOK'
    BY <1>2, <1>3 DEF IInv, TypeOK, hist
  <1>5. ASSUME NEW w \in Client
        PROVE  ClientInv(w)'
    <2>1. Position(w)'
      BY <1>1, <1>2 DEF Known, ClientInv, Position
    <2>2. OnTime(w)'
      BY <1>1, <1>2, <1>3 DEF Known, ClientInv, OnTime, Patient, Ended
    <2>3. Covered(w)'
      <3> SUFFICES ASSUME pc[w] \in {"post", "task"}, Current(w).writes
                   PROVE  holder' = w /\ left' >= Lease[w] - timer'[w]
        BY <1>2 DEF Covered, Current
      <3>1. pc[w] = "task"
        BY <1>1 DEF Patient, Ended
      <3>2. holder = w /\ left >= Lease[w] - timer[w]
        BY <1>1 DEF Known, ClientInv, Covered
      <3>3. timer'[w] = timer[w] + 1 /\ timer[w] \in Nat /\ Lease[w] \in Nat
        BY <1>1, <1>3, <3>1 DEF Known
      <3>4. QED
        BY <1>1, <1>2, <3>2, <3>3 DEF Known
    <2>4. QED
      BY <2>1, <2>2, <2>3 DEF ClientInv
  <1>6. QED
    BY <1>4, <1>5 DEF IInv

LEMMA StutterInv ==
  ASSUME IInv, UNCHANGED vars
  PROVE  IInv'
  BY DEF IInv, vars, TypeOK, ClientInv, Position, OnTime, Covered, Current

LEMMA InitInv == Init => IInv
  <1> SUFFICES ASSUME Init PROVE IInv
    OBVIOUS
  <1>1. TypeOK
    <2>1. {flag, stray, late, lost, touched} \subseteq [Client -> BOOLEAN]
      BY DEF Init
    <2>2. \A w \in Client : mode[w] \in Modes(Kind[w])
      BY DEF Init, Modes
    <2>3. mode \in [Client -> Modes("window") \cup Modes("rebuild")]
      BY DEF Init, Modes
    <2>4. QED
      BY <2>1, <2>2, <2>3, WarehouseAssumption
      DEF WarehouseAssumption, Init, LeaseInit, TypeOK, Groups
  <1>2. ASSUME NEW w \in Client
        PROVE  ClientInv(w)
    BY DEF Init, ClientInv, Position, OnTime, Covered
  <1>3. QED
    BY <1>1, <1>2 DEF IInv

LEMMA NextInv == IInv /\ [Next]_vars => IInv'
  <1> SUFFICES ASSUME IInv, [Next]_vars PROVE IInv'
    OBVIOUS
  <1>1. CASE Tick
    BY <1>1, TickInv
  <1>2. ASSUME NEW w \in Client,
               \/ Start(w) \/ Workflow(w) \/ TaskStep(w)
               \/ LateAcquire(w) \/ Resubmit(w) \/ Cancel(w) \/ StrayEnds(w)
        PROVE  IInv'
    <2>1. StepInv(w)
      BY <1>2, StartInv, BackgroundInv, AcquireInv, PostTaskInv,
         HeartbeatAfterTaskInv, ReportWeakFailureInv, ReleaseAtEndInv,
         FinalizeInv, OnErrorInv, TaskSucceedsInv, TaskFailsInv, PollAgainInv,
         CancelInv
      DEF Workflow, TaskStep
    <2>2. QED
      BY <2>1, ClientStepInv
  <1>3. CASE UNCHANGED vars
    BY <1>3, StutterInv
  <1>4. QED
    BY <1>1, <1>2, <1>3 DEF Next

-----------------------------------------------------------------------------
(* The results.                                                            *)

\* Type correctness: in particular a task that is posted is one of the plan.
THEOREM TypeCorrect == Spec => []TypeOK
  <1>1. IInv => TypeOK
    BY DEF IInv
  <1>2. QED
    BY InitInv, NextInv, <1>1, PTL DEF Spec

\* Leases as long as a task, heartbeats after the writing tasks and a lock
\* that keeps its promise are enough: at no time do two executions wait for
\* tasks that write the warehouse.
THEOREM WritersExclude == Spec => []AttachedWritersExclusive
  <1>1. IInv => AttachedWritersExclusive
    <2> SUFFICES ASSUME IInv, NEW v \in Client, NEW w \in Client,
                        AttachedWriter(v), AttachedWriter(w)
                 PROVE  v = w
      BY DEF AttachedWritersExclusive
    <2>1. holder = v /\ holder = w
      BY DEF IInv, ClientInv, Covered, AttachedWriter
    <2>2. QED
      BY <2>1
  <1>2. QED
    BY InitInv, NextInv, <1>1, PTL DEF Spec

-----------------------------------------------------------------------------
(* How executions end: who ends well was alone, and a lock is left behind  *)
(* only for one of the known reasons.  Both rest on what was shown so far: *)
(* whoever posts a writing task holds the lock at that time.               *)
(*                                                                         *)
(* The key is that inside its section an execution can lose the lock but   *)
(* never get it back, since the only request that could take it for an     *)
(* execution that does not wait for it is one that has failed its caller.  *)

LeftBehind == {"windowed_metadata", "windowed_weak_transform",
               "windowed_weak_qa"}

Section == LeftBehind \cup
           {"window_refresh_lock", "windowed_transform", "qa_after_window"}

-----------------------------------------------------------------------------
(* Every task of a window refresh that locks has one of these prefixes.    *)

SectionTask == [group : Section, writes : BOOLEAN, beat : BOOLEAN]

LEMMA SectionJoin ==
  ASSUME NEW s \in Seq(SectionTask), NEW t \in Seq(SectionTask)
  PROVE  Join(s, t) \in Seq(SectionTask)
  BY ConcatProperties DEF Join

LEMMA SectionPlan ==
  ASSUME NEW m \in {"daily_current", "backfill"}
  PROVE  Plan(m) \in Seq(SectionTask)
  <1> DEFINE t == Task("windowed_weak_transform", TRUE, FALSE)
             u == Task("windowed_weak_qa", FALSE, FALSE)
  <1>1. /\ Transform \in SectionTask /\ Check \in SectionTask
        /\ Metadata \in SectionTask /\ Qa \in SectionTask
        /\ t \in SectionTask /\ u \in SectionTask
    BY DEF Transform, Check, Metadata, Qa, Task, SectionTask, Section, LeftBehind
  <1> HIDE DEF t, u
  <1>2. Dims \in Nat /\ Qas \in Nat
    BY WarehouseAssumption DEF WarehouseAssumption
  <1>3. \A n \in Nat, x \in SectionTask : Times(n, x) \in Seq(SectionTask)
    BY DEF Times
  <1>4. Dimensions \in Seq(SectionTask) /\ QaAfter \in Seq(SectionTask)
    BY <1>1, <1>2, <1>3 DEF Dimensions, QaAfter
  <1>5. /\ <<Metadata>> \in Seq(SectionTask) /\ Index \in Seq(SectionTask)
        /\ Stock \in Seq(SectionTask) /\ Market \in Seq(SectionTask)
    BY <1>1 DEF Index, Stock, Market
  <1>6. WeakChain \in Seq(SectionTask)
    <2>1. WeakChain = <<t, u>>
      BY DEF WeakChain, t, u
    <2>2. QED
      BY <1>1, <2>1
  <1>7. Core = Join(Join(Join(Join(Dimensions, <<Metadata>>), Index), Stock), Market)
    BY DEF Core, Join
  <1>8. Core \in Seq(SectionTask)
    BY <1>4, <1>5, <1>7, SectionJoin
  <1>9. /\ m = "daily_current" => Plan(m) = Join(Join(Core, WeakChain), QaAfter)
        /\ m = "backfill" => Plan(m) = Join(Core, QaAfter)
    BY DEF Plan, Join
  <1>10. QED
    BY <1>4, <1>6, <1>8, <1>9, SectionJoin

-----------------------------------------------------------------------------
(* A step as the others see it, and as it is for the one who takes it.     *)

Leaves(v) ==
  /\ pc'[v] = pc[v] /\ mode'[v] = mode[v] /\ late'[v] = late[v]
  /\ lost'[v] = lost[v] /\ at'[v] = at[v] /\ flag'[v] = flag[v]
  /\ touched'[v] => touched[v] \/ (Inside(v) /\ holder' # v)

OutcomeStep(w) ==
  /\ \A v \in Client \ {w} : Leaves(v)
  /\ holder' \in {holder, NoOne, w}
  /\ Outcome(w)'

LEMMA OutcomeOfOthers ==
  ASSUME NEW w \in Client, NEW v \in Client \ {w}, v # NoOne, Outcome(v),
         Leaves(v), holder' \in {holder, NoOne, w}
  PROVE  Outcome(v)'
  <1>1. Inside(v)' = Inside(v) /\ Remembers(v)' = Remembers(v)
    BY DEF Leaves, Inside, Remembers
  <1>2. LateIsLost(v)'
    BY DEF Outcome, LateIsLost, Leaves
  <1>3. TouchedHasLost(v)'
    BY <1>1 DEF Outcome, TouchedHasLost, Leaves
  <1>4. HolderIsKnown(v)'
    BY <1>1 DEF Outcome, HolderIsKnown, Leaves
  <1>5. QED
    BY <1>2, <1>3, <1>4 DEF Outcome

\* A step that leaves holder, at, flag and what others see alone.
LEMMA PlainStep ==
  ASSUME NEW w \in Client, IInv, Outcome(w), NEW p \in Places, Goto(w, p),
         UNCHANGED <<holder, at, flag, late, touched>>,
         \A v \in Client \ {w} : mode'[v] = mode[v] /\ lost'[v] = lost[v],
         lost[w] => lost'[w],
         ~late[w],
         Inside(w) => Inside(w)' \/ p = "error",
         pc[w] \notin {"error", "failed", "cancelled"}
  PROVE  OutcomeStep(w)
  <1>1. pc'[w] = p /\ \A v \in Client \ {w} : pc'[v] = pc[v]
    BY GotoFacts
  <1>2. \A v \in Client \ {w} : Leaves(v)
    BY <1>1 DEF Leaves
  <1>3. Remembers(w)' = Remembers(w)
    BY DEF Remembers
  <1>4. LateIsLost(w)' /\ TouchedHasLost(w)' /\ HolderIsKnown(w)'
    BY <1>1, <1>3
    DEF Outcome, LateIsLost, TouchedHasLost, HolderIsKnown
  <1>5. QED
    BY <1>2, <1>4 DEF OutcomeStep, Outcome

LEMMA StartOut ==
  ASSUME NEW w \in Client, IInv, Outcome(w), Start(w)
  PROVE  OutcomeStep(w)
  <1>1. PICK p \in Places : Goto(w, p)
    BY DEF Start, Places
  <1>2. \A v \in Client \ {w} : mode'[v] = mode[v]
    BY Types DEF Start
  <1>3. ~late[w] /\ ~Inside(w) /\ pc[w] = "idle"
    BY DEF Outcome, LateIsLost, Inside, Start
  <1>4. UNCHANGED <<holder, at, flag, late, lost, touched>>
    BY DEF lock, Start, hist
  <1>5. QED
    BY <1>1, <1>2, <1>3, <1>4, PlainStep

LEMMA TaskEndOut ==
  ASSUME NEW w \in Client, IInv, Outcome(w),
         TaskSucceeds(w) \/ TaskFails(w) \/ ReportWeakFailure(w)
  PROVE  OutcomeStep(w)
  <1>1. PICK p \in {"beat", "post", "release", "finalize", "report", "error"} :
          /\ Goto(w, p)
          /\ p = "finalize" => ~Locking(mode[w])
    BY DEF TaskSucceeds, TaskFails, ReportWeakFailure, AfterStep
  <1>2. pc[w] \in {"task", "report"} /\ mode' = mode
    BY DEF TaskSucceeds, TaskFails, ReportWeakFailure
  <1>3. ~late[w]
    BY <1>2 DEF Outcome, LateIsLost
  <1>4. pc'[w] = p /\ p \in Places
    BY <1>1, GotoFacts DEF Places
  <1>5. Inside(w) => Inside(w)' \/ p = "error"
    BY <1>1, <1>2, <1>4 DEF Inside
  <1>6. UNCHANGED <<holder, at, flag, late, lost, touched>>
    BY DEF lock, TaskSucceeds, TaskFails, ReportWeakFailure, hist
  <1>7. QED
    BY <1>1, <1>2, <1>3, <1>4, <1>5, <1>6, PlainStep

\* A heartbeat changes no holder, and at most loses its answer.
LEMMA BeatHolder ==
  ASSUME NEW w \in Client, IInv, NEW next \in Places, Beat(w, next)
  PROVE  /\ \E p \in {next, "error"} : Goto(w, p)
         /\ UNCHANGED holder
         /\ \A v \in Client \ {w} : lost'[v] = lost[v]
         /\ lost[w] => lost'[w]
  BY Types DEF Beat, Extend, Renew, Lose, lock

LEMMA BeatOut ==
  ASSUME NEW w \in Client, IInv, Outcome(w),
         HeartbeatAfterTask(w) \/ PollAgain(w)
  PROVE  OutcomeStep(w)
  <1>1. PICK next \in {"task", "post", "release", "finalize"} :
          /\ Beat(w, next)
          /\ next = "finalize" => ~Locking(mode[w])
    BY DEF HeartbeatAfterTask, PollAgain, AfterStep
  <1>2. PICK p \in {next, "error"} : Goto(w, p)
    BY <1>1, BeatHolder DEF Places
  <1>3. pc[w] \in {"task", "beat"} /\ mode' = mode
    BY DEF HeartbeatAfterTask, PollAgain
  <1>4. UNCHANGED <<holder, at, flag, late, touched>>
    BY <1>1, BeatHolder DEF HeartbeatAfterTask, PollAgain, Places
  <1>5. /\ \A v \in Client \ {w} : lost'[v] = lost[v]
        /\ lost[w] => lost'[w]
    BY <1>1, BeatHolder DEF Places
  <1>6. ~late[w]
    BY <1>3 DEF Outcome, LateIsLost
  <1>7. pc'[w] = p /\ p \in Places
    BY <1>1, <1>2, GotoFacts DEF Places
  <1>8. Inside(w) => Inside(w)' \/ p = "error"
    BY <1>1, <1>2, <1>3, <1>7 DEF Inside
  <1>9. QED
    BY <1>2, <1>3, <1>4, <1>5, <1>6, <1>7, <1>8, PlainStep

\* A writing task is posted by the holder: whoever else is inside by its own
\* view has lost the lock.
LEMMA PostTaskOut ==
  ASSUME NEW w \in Client, IInv, Outcome(w), PostTask(w)
  PROVE  OutcomeStep(w)
  <1>1. /\ Known(w) /\ pc[w] = "post"
        /\ UNCHANGED <<holder, mode, flag, late, lost>>
    BY KnownFacts DEF PostTask, lock
  <1>2. pc'[w] = "task" /\ \A v \in Client \ {w} : pc'[v] = pc[v]
    BY GotoFacts DEF PostTask, Places
  <1>3. /\ at'[w] = Current(w).group
        /\ \A v \in Client \ {w} : at'[v] = at[v]
        /\ touched'[w] = touched[w]
        /\ \A v \in Client \ {w} :
             touched'[v] => touched[v] \/ (Current(w).writes /\ Inside(v))
    BY Types DEF PostTask
  <1>4. Current(w).writes => holder' = w
    BY <1>1 DEF Known, ClientInv, Covered
  <1>5. \A v \in Client \ {w} : Leaves(v)
    BY <1>1, <1>2, <1>3, <1>4 DEF Leaves
  <1>6. Inside(w)' = Inside(w)
    BY <1>1, <1>2 DEF Inside
  <1>7. LateIsLost(w)' /\ TouchedHasLost(w)'
    BY <1>1, <1>2, <1>3, <1>6 DEF Outcome, LateIsLost, TouchedHasLost
  <1>8. ASSUME Inside(w), Remembers(w)
        PROVE  Remembers(w)'
    <2>1. CASE Kind[w] = "rebuild"
      BY <1>1, <1>8, <2>1 DEF Remembers
    <2>2. CASE Kind[w] # "rebuild"
      <3>1. mode[w] \in {"daily_current", "backfill"}
        BY <1>8, <2>2, Types, WarehouseAssumption
        DEF WarehouseAssumption, Inside, Locking, Modes
      <3>2. Current(w) \in SectionTask
        BY <1>1, <3>1, SectionPlan, ElementOfSeq DEF Known, Current
      <3>3. at'[w] \in Section
        BY <1>3, <3>2 DEF SectionTask
      <3>4. QED
        BY <2>2, <3>3 DEF Remembers, Section, LeftBehind
    <2>3. QED
      BY <2>1, <2>2
  <1>9. HolderIsKnown(w)'
    BY <1>1, <1>2, <1>6, <1>8 DEF Outcome, HolderIsKnown
  <1>10. QED
    BY <1>1, <1>5, <1>7, <1>9 DEF OutcomeStep, Outcome

\* What the lock calls can do to the holder.
LEMMA HolderMoves ==
  ASSUME NEW w \in Client,
         TakeLock(w) \/ Release(w) \/ Evict \/ UNCHANGED lock
  PROVE  holder' \in {holder, NoOne, w}
  BY DEF TakeLock, Grant, Release, Evict, lock

LEMMA AcquireOut ==
  ASSUME NEW w \in Client, IInv, Outcome(w), Acquire(w)
  PROVE  OutcomeStep(w)
  <1>1. /\ pc[w] = "acquire" /\ mode' = mode /\ touched' = touched
        /\ Known(w) /\ Locking(mode[w])
    BY KnownFacts DEF Acquire, Known, ClientInv, Position
  <1>2. ~late[w] /\ ~touched[w] /\ (holder # w \/ lost[w])
    BY <1>1
    DEF Outcome, LateIsLost, TouchedHasLost, HolderIsKnown, Inside
  <1>3. at'[w] = "window_refresh_lock"
    BY Types DEF Acquire
  <1>4. \/ /\ pc'[w] = "post" /\ flag'[w] /\ late' = late /\ lost' = lost
        \/ /\ pc'[w] = "error" /\ UNCHANGED <<holder, late, lost>>
        \/ /\ pc'[w] = "error" /\ lost'[w]
    BY GotoFacts, Types DEF Acquire, Lose, Places, lock
  <1>5. \A v \in Client \ {w} :
          /\ pc'[v] = pc[v] /\ at'[v] = at[v] /\ flag'[v] = flag[v]
          /\ late'[v] = late[v] /\ lost'[v] = lost[v]
    BY GotoFacts, Types DEF Acquire, Lose, Places
  <1>6. \A v \in Client \ {w} : Leaves(v)
    BY <1>1, <1>5 DEF Leaves
  <1>7. holder' \in {holder, NoOne, w}
    BY HolderMoves DEF Acquire
  <1>8. LateIsLost(w)' /\ TouchedHasLost(w)' /\ HolderIsKnown(w)'
    BY <1>1, <1>2, <1>3, <1>4
    DEF LateIsLost, TouchedHasLost, HolderIsKnown, Inside, Remembers
  <1>9. QED
    BY <1>6, <1>7, <1>8 DEF OutcomeStep, Outcome

LEMMA BackgroundOut ==
  ASSUME NEW w \in Client, IInv, Outcome(w),
         Reclaim(w) \/ LateAcquire(w) \/ Resubmit(w) \/ StrayEnds(w)
  PROVE  OutcomeStep(w)
  <1>1. UNCHANGED <<pc, mode, at, flag, lost, touched>>
    BY DEF Reclaim, LateAcquire, Resubmit, StrayEnds, run, hist
  <1>2. holder' \in {holder, NoOne, w}
    BY HolderMoves DEF Reclaim, LateAcquire, Resubmit, StrayEnds
  <1>3. /\ late'[w] => late[w]
        /\ \A v \in Client \ {w} : late'[v] = late[v]
    BY Types DEF Reclaim, LateAcquire, Resubmit, StrayEnds, hist
  <1>4. \A v \in Client \ {w} : Leaves(v)
    BY <1>1, <1>3 DEF Leaves
  <1>5. holder' = w => holder = w \/ late[w]
    BY KnownFacts
    DEF Known, Reclaim, LateAcquire, Resubmit, StrayEnds, Evict, lock
  <1>6. Inside(w)' = Inside(w) /\ Remembers(w)' = Remembers(w)
    BY <1>1 DEF Inside, Remembers
  <1>7. LateIsLost(w)' /\ TouchedHasLost(w)' /\ HolderIsKnown(w)'
    BY <1>1, <1>3, <1>5, <1>6
    DEF Outcome, LateIsLost, TouchedHasLost, HolderIsKnown
  <1>8. QED
    BY <1>2, <1>4, <1>7 DEF OutcomeStep, Outcome

\* Steps to an end, in which only w's own at, flag and lost may change.
LEMMA EndFacts ==
  ASSUME NEW w \in Client, IInv, NEW p \in Places, Goto(w, p),
         UNCHANGED <<mode, late, touched>>,
         \A v \in Client \ {w} :
           at'[v] = at[v] /\ flag'[v] = flag[v] /\ lost'[v] = lost[v],
         Release(w) \/ UNCHANGED lock
  PROVE  /\ \A v \in Client \ {w} : Leaves(v)
         /\ holder' \in {holder, NoOne, w}
         /\ pc'[w] = p
  BY GotoFacts, HolderMoves DEF Leaves

LEMMA ReleaseAtEndOut ==
  ASSUME NEW w \in Client, IInv, Outcome(w), ReleaseAtEnd(w)
  PROVE  OutcomeStep(w)
  <1>1. Known(w) /\ pc[w] = "release" /\ ~late[w]
    BY KnownFacts DEF Outcome, LateIsLost, ReleaseAtEnd
  <1>2. \/ Goto(w, "finalize") /\ holder = w /\ holder' = NoOne
        \/ Goto(w, "error") /\ holder # w /\ UNCHANGED <<lock, lost>>
        \/ Goto(w, "error") /\ lost'[w]
    BY Types DEF ReleaseAtEnd, Release, Lose
  <1>3. /\ UNCHANGED <<mode, late, touched>>
        /\ \A v \in Client \ {w} :
             at'[v] = at[v] /\ flag'[v] = flag[v] /\ lost'[v] = lost[v]
        /\ Release(w) \/ UNCHANGED lock
    BY Types DEF ReleaseAtEnd, Lose
  <1>4. PICK p \in {"finalize", "error"} : Goto(w, p)
    BY <1>2
  <1>5. /\ \A v \in Client \ {w} : Leaves(v)
        /\ holder' \in {holder, NoOne, w}
        /\ pc'[w] = p
    BY <1>3, <1>4, EndFacts DEF Places
  <1>6. \/ pc'[w] = "finalize" /\ holder = w /\ holder' = NoOne
        \/ pc'[w] = "error" /\ holder # w /\ holder' = holder
        \/ pc'[w] = "error" /\ lost'[w]
    BY <1>2, GotoFacts DEF Places, lock
  <1>7. LateIsLost(w)' /\ TouchedHasLost(w)' /\ HolderIsKnown(w)'
    BY <1>1, <1>3, <1>6
    DEF Known, Outcome, LateIsLost, TouchedHasLost, HolderIsKnown
  <1>8. QED
    BY <1>5, <1>7 DEF OutcomeStep, Outcome

LEMMA FinalizeOut ==
  ASSUME NEW w \in Client, IInv, Outcome(w), Finalize(w)
  PROVE  OutcomeStep(w)
  <1>1. /\ pc[w] = "finalize" /\ ~late[w] /\ ~touched[w]
        /\ holder # w \/ lost[w]
    BY DEF Outcome, LateIsLost, TouchedHasLost, HolderIsKnown, Inside, Finalize
  <1>2. PICK p \in {"succeeded", "error"} : Goto(w, p)
    BY DEF Finalize, Finish
  <1>3. /\ UNCHANGED <<mode, late, touched, holder, lost>> /\ UNCHANGED lock
        /\ \A v \in Client \ {w} :
             at'[v] = at[v] /\ flag'[v] = flag[v] /\ lost'[v] = lost[v]
    BY Types DEF Finalize, lock, hist
  <1>4. /\ \A v \in Client \ {w} : Leaves(v)
        /\ holder' \in {holder, NoOne, w}
        /\ pc'[w] = p
    BY <1>2, <1>3, EndFacts DEF Places
  <1>5. LateIsLost(w)' /\ TouchedHasLost(w)' /\ HolderIsKnown(w)'
    BY <1>1, <1>3 DEF LateIsLost, TouchedHasLost, HolderIsKnown
  <1>6. QED
    BY <1>4, <1>5 DEF OutcomeStep, Outcome

\* The error branch leaves a lock it holds only where its pattern says so.
LEMMA OnErrorOut ==
  ASSUME NEW w \in Client, IInv, Outcome(w), OnError(w)
  PROVE  OutcomeStep(w)
  <1>1. Known(w) /\ pc[w] = "error" /\ Goto(w, "failed")
    BY KnownFacts DEF OnError, Finish
  <1>2. /\ UNCHANGED <<mode, late, touched, at>>
        /\ \A v \in Client \ {w} :
             at'[v] = at[v] /\ flag'[v] = flag[v] /\ lost'[v] = lost[v]
        /\ Release(w) \/ UNCHANGED lock
        /\ lost[w] => lost'[w]
    BY Types DEF OnError, Lose
  <1>3. /\ \A v \in Client \ {w} : Leaves(v)
        /\ holder' \in {holder, NoOne, w}
        /\ pc'[w] = "failed"
    BY <1>1, <1>2, EndFacts DEF Places
  <1>4. \/ holder' = NoOne
        \/ holder # w /\ holder' = holder
        \/ lost'[w]
        \/ ~ReleasesOnError(w) /\ UNCHANGED <<holder, lost>>
    BY Types DEF OnError, Release, Lose, lock
  <1>5. LateIsLost(w)' /\ TouchedHasLost(w)'
    BY <1>2, <1>3 DEF Outcome, LateIsLost, TouchedHasLost
  <1>6. HolderIsKnown(w)'
    <2> SUFFICES ASSUME holder' = w, ~lost'[w]
                 PROVE  at[w] \in LeftBehind
      BY <1>2, <1>3 DEF HolderIsKnown, LeftBehind
    <2>1. holder = w /\ ~lost[w] /\ ~ReleasesOnError(w)
      BY <1>1, <1>4 DEF Known
    <2>2. Remembers(w)
      BY <1>1, <2>1 DEF Outcome, HolderIsKnown, Inside
    <2>3. QED
      BY <2>1, <2>2 DEF Remembers, ReleasesOnError, LeftBehind
  <1>7. QED
    BY <1>3, <1>5, <1>6 DEF OutcomeStep, Outcome

LEMMA CancelOut ==
  ASSUME NEW w \in Client, IInv, Outcome(w), Cancel(w)
  PROVE  OutcomeStep(w)
  <1>1. Goto(w, "cancelled")
    BY DEF Cancel, Finish
  <1>2. UNCHANGED <<mode, late, touched, at, flag, lost>> /\ UNCHANGED lock
    BY DEF Cancel, hist
  <1>3. /\ \A v \in Client \ {w} : Leaves(v)
        /\ holder' \in {holder, NoOne, w}
        /\ pc'[w] = "cancelled"
    BY <1>1, <1>2, EndFacts DEF Places
  <1>4. LateIsLost(w)' /\ TouchedHasLost(w)' /\ HolderIsKnown(w)'
    BY <1>2, <1>3 DEF Outcome, LateIsLost, TouchedHasLost, HolderIsKnown
  <1>5. QED
    BY <1>3, <1>4 DEF OutcomeStep, Outcome

-----------------------------------------------------------------------------
(* All of it.                                                              *)

LEMMA InitOut == Init => Outcomes
  <1> SUFFICES ASSUME Init, NEW w \in Client PROVE Outcome(w)
    BY DEF Outcomes
  <1>1. late[w] = FALSE /\ touched[w] = FALSE
    BY DEF Init
  <1>2. holder # w
    BY LeaseAssumption DEF LeaseAssumption, Init, LeaseInit
  <1>3. QED
    BY <1>1, <1>2 DEF Outcome, LateIsLost, TouchedHasLost, HolderIsKnown

LEMMA IdleOut ==
  ASSUME Outcomes,
         UNCHANGED <<holder, pc, mode, at, flag, late, lost, touched>>
  PROVE  Outcomes'
  BY DEF Outcomes, Outcome, LateIsLost, TouchedHasLost, HolderIsKnown, Inside,
         Remembers

LEMMA NextOut == IInv /\ Outcomes /\ [Next]_vars => Outcomes'
  <1> SUFFICES ASSUME IInv, Outcomes, [Next]_vars PROVE Outcomes'
    OBVIOUS
  <1>1. CASE Tick \/ UNCHANGED vars
    <2>1. UNCHANGED <<holder, pc, mode, at, flag, late, lost, touched>>
      BY <1>1 DEF Tick, Elapse, vars, hist
    <2>2. QED
      BY <2>1, IdleOut
  <1>2. ASSUME NEW w \in Client,
               \/ Start(w) \/ Workflow(w) \/ TaskStep(w)
               \/ LateAcquire(w) \/ Resubmit(w) \/ Cancel(w) \/ StrayEnds(w)
        PROVE  Outcomes'
    <2>1. \A v \in Client : Outcome(v) /\ v # NoOne
      BY KnownFacts DEF Outcomes, Known
    <2>2. OutcomeStep(w)
      BY <1>2, <2>1, StartOut, BackgroundOut, AcquireOut, PostTaskOut, BeatOut,
         TaskEndOut, ReleaseAtEndOut, FinalizeOut, OnErrorOut, CancelOut
      DEF Workflow, TaskStep
    <2>3. ASSUME NEW v \in Client
          PROVE  Outcome(v)'
      BY <2>1, <2>2, OutcomeOfOthers DEF OutcomeStep
    <2>4. QED
      BY <2>3 DEF Outcomes
  <1>3. QED
    BY <1>1, <1>2 DEF Next

\* An execution that ends well was the only one to start writes between its
\* acquire and its release.
THEOREM SuccessExcludes == Spec => []SuccessIsExclusive
  <1>1. Outcomes => SuccessIsExclusive
    BY DEF Outcomes, Outcome, TouchedHasLost, SuccessIsExclusive, Inside
  <1>2. QED
    BY InitInv, NextInv, InitOut, NextOut, <1>1, PTL DEF Spec

\* A lock that outlives its execution has been left by a cancellation, by a
\* lost answer, or by a failure the error branch of the window refresh is not
\* made for.
THEOREM LeaksExplained == Spec => []LeakHasCause
  <1>1. Outcomes => LeakHasCause
    BY DEF Outcomes, Outcome, HolderIsKnown, LeakHasCause, Ended, Inside
  <1>2. QED
    BY InitInv, NextInv, InitOut, NextOut, <1>1, PTL DEF Spec
=============================================================================
