--------------------------- MODULE PromotionProofs ---------------------------
(***************************************************************************)
(* A continuous run has one prediction of a day, and what a promotion of   *)
(* all roles publishes is of one backtest.  The inductive invariant has    *)
(* two halves that no action disturbs together: the sources and the        *)
(* continuous run, which refits and merges write, and the ledger and its   *)
(* summary, which the backtest writes and a promotion publishes.           *)
(*                                                                         *)
(* And the search before it, for any candidates, however often it is       *)
(* killed and started again: a job that is not forced appends nothing      *)
(* twice, and what is compared is of the matrix the search is over.        *)
(*                                                                         *)
(* And the gate that judges it: its verdict is the same whenever it is     *)
(* taken, and by contract v3 means what is said of it, for every NAV and   *)
(* every index.  Powers and the deepest fall are defined by recursion and  *)
(* by a minimum, so the arithmetic of ratios rests on lemmas about these.  *)
(***************************************************************************)
EXTENDS Promotion, CandidateSearch, AcceptanceGate, WellFoundedInduction,
        FiniteSetTheorems, TLAPS

-----------------------------------------------------------------------------
(* Tables.                                                                  *)

\* A statement that puts rows of a role into a table changes that role only and keeps the
\* tables' types.
LEMMA PutRows ==
    ASSUME Tables(research), NEW role \in Roles, NEW rows,
           research' = [research EXCEPT ![role] = rows]
    PROVE  /\ research'[role] = rows
           /\ \A o \in Roles : o # role => research'[o] = research[o]
           /\ rows \subseteq RowsFor(role) => Tables(research)'
<1>1. research = [o \in Roles |-> research[o]]
  BY DEF Tables
<1>2. /\ research'[role] = rows
      /\ \A o \in Roles : o # role => research'[o] = research[o]
      /\ research' = [o \in Roles |-> research'[o]]
  BY <1>1
<1>3. ASSUME rows \subseteq RowsFor(role)
      PROVE  Tables(research)'
  BY <1>2, <1>3 DEF Tables
<1> QED
  BY <1>2, <1>3

LEMMA RowTypes ==
    /\ RowsFor("registry") = RegistryRows /\ RowsFor("prediction") = PredictionRows
    /\ RowsFor("candidate") = DatedRows /\ RowsFor("target") = DatedRows
    /\ RowsFor("trade") = DatedRows /\ RowsFor("nav") = DatedRows
    /\ RowsFor("summary") = SummaryRows
  BY DEF RowsFor

LEMMA ResearchRows ==
    ASSUME Tables(research)
    PROVE  /\ research.registry \subseteq RegistryRows
           /\ research.prediction \subseteq PredictionRows
           /\ research.candidate \subseteq DatedRows /\ research.target \subseteq DatedRows
           /\ research.trade \subseteq DatedRows /\ research.nav \subseteq DatedRows
           /\ research.summary \subseteq SummaryRows
  BY RowTypes DEF Tables, Roles

-----------------------------------------------------------------------------
(* Each statement of a refit.                                               *)

\* What a refit leaves alone.
RefitLeaves ==
    /\ UNCHANGED <<merge, backtest, stacked, ads, accepted, manifest>>
    /\ \A role \in Roles \ {"registry", "prediction"} : research'[role] = research[role]

LEMMA RefitTyped ==
    ASSUME TypeOK, refit.at # "idle", RefitClear \/ RefitDrop \/ RefitRegister \/ RefitPredict
    PROVE  TypeOK' /\ RefitLeaves
<1> DEFINE y == refit.year
<1>1. /\ refit \in [at : {"clear", "drop", "register", "predict"}, year : Years, ver : Nat,
                    force : BOOLEAN]
      /\ y \in Years /\ refit.ver \in Nat /\ y \in Years \cup {Synth}
  BY DEF TypeOK, RefitOK, Idle
<1>2. /\ UNCHANGED <<starts, merge, backtest, stacked, ads, accepted, manifest>>
      /\ raced' \in BOOLEAN
  BY DEF RefitClear, RefitDrop, RefitRegister, RefitPredict, RefitStep, RefitUnchanged,
         Outcome, TypeOK
<1>3. RefitOK'
  <2>1. refit' = Idle \/ \E at \in {"drop", "register", "predict"} : refit' = [refit EXCEPT !.at = at]
    BY DEF RefitClear, RefitDrop, RefitRegister, RefitPredict, RefitStep
  <2> QED
    BY <1>1, <2>1 DEF RefitOK
<1>4. Tables(research)' /\ \A role \in Roles \ {"registry", "prediction"} : research'[role] = research[role]
  <2>1. Tables(research) /\ "registry" \in Roles /\ "prediction" \in Roles
    BY DEF TypeOK, Roles
  <2>2. CASE RefitClear
    <3>1. research' = [research EXCEPT !["prediction"] = research.prediction \ Predictions(y)]
      BY <2>2 DEF RefitClear, RefitStep
    <3>2. research.prediction \ Predictions(y) \subseteq RowsFor("prediction")
      BY <2>1, ResearchRows, RowTypes
    <3> QED
      BY <2>1, <3>1, <3>2, PutRows
  <2>3. CASE RefitDrop
    <3>1. research' = [research EXCEPT !["registry"] = research.registry \ RowsOf(y)]
      BY <2>3 DEF RefitDrop, RefitStep
    <3>2. research.registry \ RowsOf(y) \subseteq RowsFor("registry")
      BY <2>1, ResearchRows, RowTypes
    <3> QED
      BY <2>1, <3>1, <3>2, PutRows
  <2>4. CASE RefitRegister
    <3>1. research' = [research EXCEPT !["registry"] =
                          research.registry \cup {Registered(y, refit.ver)}]
      BY <2>4 DEF RefitRegister, RefitStep
    <3>a. 0 \in Nat
      OBVIOUS
    <3>b. Registered(y, refit.ver) \in RegistryRows
      BY <1>1, <3>a DEF Registered, RegistryRows
    <3>2. research.registry \cup {Registered(y, refit.ver)} \subseteq RowsFor("registry")
      BY <2>1, <3>b, ResearchRows, RowTypes
    <3> QED
      BY <2>1, <3>1, <3>2, PutRows
  <2>5. CASE RefitPredict
    <3> DEFINE rows == {[run |-> y, day |-> d, ver |-> refit.ver, of |-> 0] : d \in SourceDays[y]}
    <3>1. research' = [research EXCEPT !["prediction"] = research.prediction \cup rows]
      BY <2>5 DEF RefitPredict, RefitStep
    <3>a. 0 \in Nat /\ SourceDays[y] \subseteq Days
      BY <1>1, PromotionAssumption
    <3>b. rows \subseteq PredictionRows
      BY <1>1, <3>a DEF PredictionRows
    <3>2. research.prediction \cup rows \subseteq RowsFor("prediction")
      BY <2>1, <3>b, ResearchRows, RowTypes
    <3> QED
      BY <2>1, <3>1, <3>2, PutRows
  <2> QED
    BY <2>2, <2>3, <2>4, <2>5
<1> QED
  BY <1>2, <1>3, <1>4 DEF TypeOK, MergeOK, BacktestOK, RefitLeaves, Tables

\* The half of the invariant about merges survives what a refit does to its own year.
LEMMA RefitKeepsMerges ==
    ASSUME TypeOK, SourceInv, refit.year \in Years, UNCHANGED merge,
           raced' = (raced \/ (merge.at # "idle" /\ \E s \in merge.slices : s.year = refit.year)),
           \A z : z # refit.year => RowsOf(z)' = RowsOf(z) /\ Predictions(z)' = Predictions(z)
    PROVE  SourcesSingle' /\ TargetClear' /\ DaysOnce'
<1>1. Synth # refit.year
  BY PromotionAssumption
<1>2. Predictions(Synth)' = Predictions(Synth)
  BY <1>1
<1>3. SourcesSingle'
  <2>1. merge.at # "idle" => ValidManifest(merge.slices)'
    BY DEF SourceInv, SourcesSingle, ValidManifest
  <2>2. ASSUME merge.at # "idle", ~raced', NEW s \in merge.slices, NEW r \in RowsOf(s.year)',
               NEW t \in RowsOf(s.year)'
        PROVE  r = t
    <3>1. ~raced /\ s.year # refit.year
      BY <2>2 DEF TypeOK
    <3>2. RowsOf(s.year)' = RowsOf(s.year)
      BY <3>1
    <3>3. r \in RowsOf(s.year) /\ t \in RowsOf(s.year)
      BY <3>2
    <3> QED
      BY <2>2, <3>1, <3>3 DEF SourceInv, SourcesSingle
  <2> QED
    BY <2>1, <2>2 DEF SourcesSingle
<1>4. TargetClear'
  BY <1>2 DEF SourceInv, TargetClear, InMergeWindow
<1>5. DaysOnce'
  BY <1>2 DEF SourceInv, DaysOnce
<1> QED
  BY <1>3, <1>4, <1>5

LEMMA RefitSources ==
    ASSUME TypeOK, SourceInv, refit.at # "idle",
           RefitClear \/ RefitDrop \/ RefitRegister \/ RefitPredict
    PROVE  SourceInv'
<1>0. PICK y \in Years : y = refit.year
  BY DEF TypeOK, RefitOK, Idle
<1>1. /\ refit \in [at : {"clear", "drop", "register", "predict"}, year : Years, ver : Nat,
                    force : BOOLEAN]
      /\ y # Synth
  BY <1>0, PromotionAssumption DEF TypeOK, RefitOK, Idle
<1>2. /\ UNCHANGED merge
      /\ raced' = (raced \/ (merge.at # "idle" /\ \E s \in merge.slices : s.year = y))
  BY <1>0 DEF RefitClear, RefitDrop, RefitRegister, RefitPredict, RefitStep, RefitUnchanged
<1>3. Tables(research) /\ "registry" \in Roles /\ "prediction" \in Roles
  BY DEF TypeOK, Roles
<1>4. ASSUME \A z : z # y => RowsOf(z)' = RowsOf(z) /\ Predictions(z)' = Predictions(z),
             IsFiniteSet(RowsOf(y))',
             \A p \in Predictions(y)' : p.of = 0 /\ \E r \in RowsOf(y)' : r.ver = p.ver,
             refit'.at = "drop" => refit'.year = y /\ Predictions(y)' = {},
             refit'.at = "predict" =>
                 refit'.year = y /\ \E r \in RowsOf(y)' : r.ver = refit'.ver
      PROVE  SourceInv'
  <2>1. SourcesSingle' /\ TargetClear' /\ DaysOnce'
    BY <1>0, <1>2, <1>4, RefitKeepsMerges
  <2>2. \A z \in Years : IsFiniteSet(RowsOf(z))'
    BY <1>4 DEF SourceInv
  <2>3. \A z \in Years : \A p \in Predictions(z)' : p.of = 0 /\ \E r \in RowsOf(z)' : r.ver = p.ver
    BY <1>4 DEF SourceInv, SourcesRegistered
  <2>4. SourcesRegistered'
    BY <1>4, <2>3 DEF SourcesRegistered
  <2> QED
    BY <2>1, <2>2, <2>4 DEF SourceInv
<1>5. CASE RefitClear
  <2>1. /\ research' = [research EXCEPT !["prediction"] = research.prediction \ Predictions(y)]
        /\ refit' = [refit EXCEPT !.at = "drop"]
    BY <1>0, <1>5 DEF RefitClear, RefitStep
  <2>2. /\ research'.prediction = research.prediction \ Predictions(y)
        /\ research'.registry = research.registry
    BY <1>3, <2>1, PutRows
  <2>3. /\ \A z : RowsOf(z)' = RowsOf(z)
        /\ \A z : z # y => Predictions(z)' = Predictions(z)
        /\ Predictions(y)' = {}
    BY <2>2 DEF RowsOf, Predictions
  <2>4. refit'.at = "drop" /\ refit'.year = y
    BY <1>0, <1>1, <2>1
  <2>5. IsFiniteSet(RowsOf(y))'
    BY <1>1, <2>3 DEF SourceInv
  <2> QED
    BY <1>4, <2>3, <2>4, <2>5
<1>6. CASE RefitDrop
  <2>1. /\ research' = [research EXCEPT !["registry"] = research.registry \ RowsOf(y)]
        /\ refit' = [refit EXCEPT !.at = "register"] /\ refit.at = "drop"
    BY <1>0, <1>6 DEF RefitDrop, RefitStep
  <2>2. /\ research'.registry = research.registry \ RowsOf(y)
        /\ research'.prediction = research.prediction
    BY <1>3, <2>1, PutRows
  <2>3. /\ \A z : Predictions(z)' = Predictions(z)
        /\ \A z : z # y => RowsOf(z)' = RowsOf(z)
        /\ RowsOf(y)' = {}
    BY <2>2 DEF RowsOf, Predictions
  <2>4. refit'.at = "register"
    BY <1>1, <2>1
  <2>5. Predictions(y)' = {}
    BY <1>0, <2>1, <2>3 DEF SourceInv, SourcesRegistered
  <2>6. IsFiniteSet(RowsOf(y))'
    BY <2>3, FS_EmptySet
  <2> QED
    BY <1>4, <2>3, <2>4, <2>5, <2>6
<1>7. CASE RefitRegister
  <2> DEFINE reg == Registered(y, refit.ver)
  <2>1. /\ research' = [research EXCEPT !["registry"] = research.registry \cup {reg}]
        /\ refit' = [refit EXCEPT !.at = "predict"]
    BY <1>0, <1>7 DEF RefitRegister, RefitStep
  <2>2. /\ research'.registry = research.registry \cup {reg}
        /\ research'.prediction = research.prediction
    BY <1>3, <2>1, PutRows
  <2>3. reg.run = y /\ reg.ver = refit.ver
    BY DEF Registered
  <2>4. /\ \A z : Predictions(z)' = Predictions(z)
        /\ \A z : z # y => RowsOf(z)' = RowsOf(z)
        /\ RowsOf(y)' = RowsOf(y) \cup {reg}
    BY <2>2, <2>3 DEF RowsOf, Predictions
  <2>5. refit'.at = "predict" /\ refit'.year = y /\ refit'.ver = refit.ver
    BY <1>0, <1>1, <2>1
  <2>6. IsFiniteSet(RowsOf(y))'
    BY <1>1, <2>4, FS_AddElement DEF SourceInv
  <2>7. \A p \in Predictions(y)' : p.of = 0 /\ \E r \in RowsOf(y)' : r.ver = p.ver
    BY <1>1, <2>4 DEF SourceInv, SourcesRegistered
  <2> QED
    BY <1>4, <2>3, <2>4, <2>5, <2>6, <2>7
<1>8. CASE RefitPredict
  <2> DEFINE rows == {[run |-> y, day |-> d, ver |-> refit.ver, of |-> 0] : d \in SourceDays[y]}
  <2>1. /\ research' = [research EXCEPT !["prediction"] = research.prediction \cup rows]
        /\ refit' = Idle /\ refit.at = "predict"
    BY <1>0, <1>8 DEF RefitPredict, RefitStep
  <2>2. /\ research'.prediction = research.prediction \cup rows
        /\ research'.registry = research.registry
    BY <1>3, <2>1, PutRows
  <2>3. \A p \in rows : p.run = y /\ p.of = 0 /\ p.ver = refit.ver
    OBVIOUS
  <2>4. /\ \A z : RowsOf(z)' = RowsOf(z)
        /\ \A z : z # y => Predictions(z)' = Predictions(z)
        /\ Predictions(y)' = Predictions(y) \cup rows
    BY <2>2, <2>3 DEF RowsOf, Predictions
  <2>5. refit'.at = "idle"
    BY <2>1 DEF Idle
  <2>6. IsFiniteSet(RowsOf(y))'
    BY <1>1, <2>4 DEF SourceInv
  <2>7. \A p \in Predictions(y)' : p.of = 0 /\ \E r \in RowsOf(y)' : r.ver = p.ver
    BY <1>0, <2>1, <2>3, <2>4 DEF SourceInv, SourcesRegistered
  <2> QED
    BY <1>4, <2>4, <2>5, <2>6, <2>7
<1> QED
  BY <1>5, <1>6, <1>7, <1>8

-----------------------------------------------------------------------------
(* Each statement of a merge.                                               *)

MergeLeaves ==
    /\ UNCHANGED <<refit, backtest, raced, stacked, ads, accepted, manifest>>
    /\ \A role \in Roles \ {"registry", "prediction"} : research'[role] = research[role]

\* What a merge leaves alone of the sources.
SourcesSame ==
    \A z \in Years : RowsOf(z)' = RowsOf(z) /\ Predictions(z)' = Predictions(z)

MergeRows ==
    UNION {{[run |-> Synth, day |-> p.day, ver |-> merge.ver, of |-> p.ver] :
               p \in {q \in Predictions(s.year) : Within(s, q.day)}} : s \in merge.slices}

LEMMA MergeRecord ==
    ASSUME TypeOK, merge.at # "idle"
    PROVE  /\ merge \in [at : {"count", "drop", "clear", "register", "insert"},
                         slices : Manifests, ver : Nat, force : BOOLEAN]
           /\ \A s \in merge.slices : s.year \in Years /\ s.first \in Nat /\ s.last \in Nat
<1>1. merge \in [at : {"count", "drop", "clear", "register", "insert"},
                 slices : Manifests, ver : Nat, force : BOOLEAN]
  BY DEF TypeOK, MergeOK, Idle
<1> QED
  BY <1>1, PromotionAssumption

\* What each statement does to the tables, and the statement it goes on to.
LEMMA MergeEffects ==
    ASSUME TypeOK, merge.at # "idle"
    PROVE  /\ MergeCount =>
                /\ UNCHANGED research
                /\ merge' = Idle \/ \E at \in {"drop", "register"} : merge' = [merge EXCEPT !.at = at]
                /\ merge'.at = "register" => ~ExistingTargetRows
           /\ MergeDrop => research'.registry = research.registry \ RowsOf(Synth)
                           /\ research'.prediction = research.prediction
                           /\ merge' = [merge EXCEPT !.at = "clear"]
           /\ MergeClear => research'.prediction = research.prediction \
                                {p \in Predictions(Synth) : InMergeWindow(p)}
                            /\ research'.registry = research.registry
                            /\ merge' = [merge EXCEPT !.at = "register"]
           /\ MergeRegister => research'.registry =
                                   research.registry \cup {Registered(Synth, merge.ver)}
                               /\ research'.prediction = research.prediction
                               /\ merge' = [merge EXCEPT !.at = "insert"]
           /\ MergeInsert => research'.prediction = research.prediction \cup MergeRows
                             /\ research'.registry = research.registry
                             /\ merge' = Idle /\ merge.at = "insert"
           /\ MergeCount \/ MergeDrop \/ MergeClear \/ MergeRegister \/ MergeInsert =>
                MergeLeaves /\ Tables(research)' /\ UNCHANGED starts
<1>1. merge \in [at : {"count", "drop", "clear", "register", "insert"},
                 slices : Manifests, ver : Nat, force : BOOLEAN]
  BY MergeRecord
<1>2. Tables(research) /\ "registry" \in Roles /\ "prediction" \in Roles
  BY DEF TypeOK, Roles
<1>3. MergeCount \/ MergeDrop \/ MergeClear \/ MergeRegister \/ MergeInsert =>
        UNCHANGED <<starts, refit, backtest, raced, stacked, ads, accepted, manifest>>
  BY DEF MergeCount, MergeDrop, MergeClear, MergeRegister, MergeInsert, MergeStep,
         MergeUnchanged, Outcome
<1>4. ASSUME MergeCount
      PROVE  /\ UNCHANGED research
             /\ merge' = Idle \/ \E at \in {"drop", "register"} : merge' = [merge EXCEPT !.at = at]
             /\ merge'.at = "register" => ~ExistingTargetRows
             /\ MergeLeaves /\ Tables(research)'
  <2>0. UNCHANGED research
    BY <1>4 DEF MergeCount
  <2>1. CASE merge.force
    <3>1. merge' = [merge EXCEPT !.at = "drop"]
      BY <1>4, <2>1 DEF MergeCount, MergeStep
    <3>2. merge'.at = "drop"
      BY <1>1, <3>1
    <3> QED
      BY <1>2, <1>3, <1>4, <2>0, <3>1, <3>2 DEF MergeLeaves, Tables
  <2>2. CASE ~merge.force /\ ExistingTargetRows
    <3>1. merge' = Idle
      BY <1>4, <2>2 DEF MergeCount, MergeStep
    <3>2. merge'.at = "idle"
      BY <3>1 DEF Idle
    <3> QED
      BY <1>2, <1>3, <1>4, <2>0, <3>1, <3>2 DEF MergeLeaves, Tables
  <2>3. CASE ~merge.force /\ ~ExistingTargetRows
    <3>1. merge' = [merge EXCEPT !.at = "register"]
      BY <1>4, <2>3 DEF MergeCount, MergeStep
    <3> QED
      BY <1>2, <1>3, <1>4, <2>0, <2>3, <3>1 DEF MergeLeaves, Tables
  <2> QED
    BY <1>1, <2>1, <2>2, <2>3
<1>5. ASSUME MergeDrop
      PROVE  /\ research'.registry = research.registry \ RowsOf(Synth)
             /\ research'.prediction = research.prediction
             /\ merge' = [merge EXCEPT !.at = "clear"]
             /\ MergeLeaves /\ Tables(research)'
  <2>1. /\ research' = [research EXCEPT !["registry"] = research.registry \ RowsOf(Synth)]
        /\ merge' = [merge EXCEPT !.at = "clear"]
    BY <1>5 DEF MergeDrop, MergeStep
  <2>2. research.registry \ RowsOf(Synth) \subseteq RowsFor("registry")
    BY <1>2, ResearchRows, RowTypes
  <2>3. /\ research'["registry"] = research.registry \ RowsOf(Synth)
        /\ \A o \in Roles : o # "registry" => research'[o] = research[o]
        /\ Tables(research)'
    BY <1>2, <2>1, <2>2, PutRows
  <2> QED
    BY <1>2, <1>3, <1>5, <2>1, <2>3 DEF MergeLeaves
<1>6. ASSUME MergeClear
      PROVE  /\ research'.prediction =
                    research.prediction \ {p \in Predictions(Synth) : InMergeWindow(p)}
             /\ research'.registry = research.registry
             /\ merge' = [merge EXCEPT !.at = "register"]
             /\ MergeLeaves /\ Tables(research)'
  <2> DEFINE rows == research.prediction \ {p \in Predictions(Synth) : InMergeWindow(p)}
  <2>1. /\ research' = [research EXCEPT !["prediction"] = rows]
        /\ merge' = [merge EXCEPT !.at = "register"]
    BY <1>6 DEF MergeClear, MergeStep
  <2>2. rows \subseteq RowsFor("prediction")
    BY <1>2, ResearchRows, RowTypes
  <2>3. /\ research'["prediction"] = rows
        /\ \A o \in Roles : o # "prediction" => research'[o] = research[o]
        /\ Tables(research)'
    BY <1>2, <2>1, <2>2, PutRows
  <2> QED
    BY <1>2, <1>3, <1>6, <2>1, <2>3 DEF MergeLeaves
<1>7. ASSUME MergeRegister
      PROVE  /\ research'.registry = research.registry \cup {Registered(Synth, merge.ver)}
             /\ research'.prediction = research.prediction
             /\ merge' = [merge EXCEPT !.at = "insert"]
             /\ MergeLeaves /\ Tables(research)'
  <2> DEFINE rows == research.registry \cup {Registered(Synth, merge.ver)}
  <2>1. /\ research' = [research EXCEPT !["registry"] = rows]
        /\ merge' = [merge EXCEPT !.at = "insert"]
    BY <1>7 DEF MergeRegister, MergeStep
  <2>a. 0 \in Nat
    OBVIOUS
  <2>b. Registered(Synth, merge.ver) \in RegistryRows
    BY <1>1, <2>a DEF Registered, RegistryRows
  <2>2. rows \subseteq RowsFor("registry")
    BY <1>2, <2>b, ResearchRows, RowTypes
  <2>3. /\ research'["registry"] = rows
        /\ \A o \in Roles : o # "registry" => research'[o] = research[o]
        /\ Tables(research)'
    BY <1>2, <2>1, <2>2, PutRows
  <2> QED
    BY <1>2, <1>3, <1>7, <2>1, <2>3 DEF MergeLeaves
<1>8. ASSUME MergeInsert
      PROVE  /\ research'.prediction = research.prediction \cup MergeRows
             /\ research'.registry = research.registry
             /\ merge' = Idle /\ merge.at = "insert"
             /\ MergeLeaves /\ Tables(research)'
  <2> DEFINE rows == research.prediction \cup MergeRows
  <2>1. /\ research' = [research EXCEPT !["prediction"] = rows]
        /\ merge' = Idle /\ merge.at = "insert"
    BY <1>8 DEF MergeInsert, MergeStep, MergeRows
  <2>a. research.prediction \subseteq PredictionRows
    BY <1>2, ResearchRows
  <2>b. MergeRows \subseteq PredictionRows
    BY <1>1, <2>a DEF MergeRows, Predictions, PredictionRows
  <2>2. rows \subseteq RowsFor("prediction")
    BY <2>a, <2>b, RowTypes
  <2>3. /\ research'["prediction"] = rows
        /\ \A o \in Roles : o # "prediction" => research'[o] = research[o]
        /\ Tables(research)'
    BY <1>2, <2>1, <2>2, PutRows
  <2> QED
    BY <1>2, <1>3, <1>8, <2>1, <2>3 DEF MergeLeaves
<1> QED
  BY <1>3, <1>4, <1>5, <1>6, <1>7, <1>8

LEMMA MergeTyped ==
    ASSUME TypeOK, merge.at # "idle",
           MergeCount \/ MergeDrop \/ MergeClear \/ MergeRegister \/ MergeInsert
    PROVE  TypeOK' /\ MergeLeaves
<1>1. MergeLeaves /\ Tables(research)' /\ UNCHANGED starts
  BY MergeEffects
<1>2. \/ merge' = Idle
      \/ \E at \in {"count", "drop", "clear", "register", "insert"} : merge' = [merge EXCEPT !.at = at]
  BY MergeEffects
<1>3. MergeOK'
  BY <1>2, MergeRecord DEF MergeOK
<1> QED
  BY <1>1, <1>3 DEF TypeOK, RefitOK, BacktestOK, MergeLeaves, Tables

\* The slices of a manifest do not overlap and a source year has one version: a day is
\* inserted once.
LEMMA InsertedOnce ==
    ASSUME TypeOK, SourceInv, merge.at # "idle", ~raced, NEW p \in MergeRows, NEW q \in MergeRows,
           p.day = q.day
    PROVE  p = q
<1>1. /\ merge.slices \in Manifests
      /\ \A s \in merge.slices : s.year \in Years /\ s.year \in Nat /\ s.first \in Nat /\ s.last \in Nat
  BY MergeRecord, PromotionAssumption
<1>2. PICK s \in merge.slices : \E a \in Predictions(s.year) :
        Within(s, a.day) /\ p = [run |-> Synth, day |-> a.day, ver |-> merge.ver, of |-> a.ver]
  BY DEF MergeRows
<1>3. PICK a \in Predictions(s.year) :
        Within(s, a.day) /\ p = [run |-> Synth, day |-> a.day, ver |-> merge.ver, of |-> a.ver]
  BY <1>2
<1>4. PICK t \in merge.slices : \E b \in Predictions(t.year) :
        Within(t, b.day) /\ q = [run |-> Synth, day |-> b.day, ver |-> merge.ver, of |-> b.ver]
  BY DEF MergeRows
<1>5. PICK b \in Predictions(t.year) :
        Within(t, b.day) /\ q = [run |-> Synth, day |-> b.day, ver |-> merge.ver, of |-> b.ver]
  BY <1>4
<1>6. /\ a.day = b.day /\ a.day \in Nat
      /\ p.run = Synth /\ q.run = Synth /\ p.ver = q.ver
      /\ s.first <= a.day /\ a.day <= s.last /\ t.first <= a.day /\ a.day <= t.last
  <2>1. a \in PredictionRows
    BY ResearchRows DEF TypeOK, Predictions
  <2> QED
    BY <1>3, <1>5, <2>1, PromotionAssumption DEF Within, PredictionRows
<1>7. ValidManifest(merge.slices)
  BY DEF SourceInv, SourcesSingle
<1>8. ~(s.year < t.year) /\ ~(t.year < s.year)
  BY <1>1, <1>6, <1>7 DEF ValidManifest
<1>9. s.year = t.year /\ s.year \in Years
  BY <1>1, <1>8
<1>10. a.ver = b.ver
  <2>1. PICK r \in RowsOf(s.year) : r.ver = a.ver
    BY <1>3, <1>9 DEF SourceInv, SourcesRegistered
  <2>2. PICK u \in RowsOf(s.year) : u.ver = b.ver
    BY <1>5, <1>9 DEF SourceInv, SourcesRegistered
  <2>3. r = u
    BY <2>1, <2>2 DEF SourceInv, SourcesSingle
  <2> QED
    BY <2>1, <2>2, <2>3
<1> QED
  BY <1>3, <1>5, <1>6, <1>10

LEMMA InsertedInWindow ==
    ASSUME NEW p \in MergeRows
    PROVE  p.run = Synth /\ InMergeWindow(p)
  BY DEF MergeRows, InMergeWindow, Within

\* The sources stay registered when no row of theirs is written; a program that stops
\* leaves nothing to be kept.
LEMMA SourcesKept ==
    ASSUME TypeOK, SourceInv, refit' = refit \/ refit' = Idle, SourcesSame
    PROVE  SourcesRegistered' /\ \A z \in Years : IsFiniteSet(RowsOf(z))'
<1>1. \A z \in Years : RowsOf(z)' = RowsOf(z) /\ Predictions(z)' = Predictions(z)
  BY DEF SourcesSame
<1>2. \A z \in Years : IsFiniteSet(RowsOf(z))'
  BY <1>1 DEF SourceInv
<1>3. \A z \in Years : \A p \in Predictions(z)' : p.of = 0 /\ \E r \in RowsOf(z)' : r.ver = p.ver
  BY <1>1 DEF SourceInv, SourcesRegistered
<1>4. CASE refit' = Idle
  <2>1. refit'.at = "idle"
    BY <1>4 DEF Idle
  <2> QED
    BY <1>2, <1>3, <2>1 DEF SourcesRegistered
<1>5. CASE refit' = refit /\ refit.at # "idle"
  <2>1. refit.year \in Years
    BY <1>5 DEF TypeOK, RefitOK, Idle
  <2>2. RowsOf(refit.year)' = RowsOf(refit.year) /\ Predictions(refit.year)' = Predictions(refit.year)
    BY <1>1, <1>5, <2>1 DEF RowsOf, Predictions
  <2> QED
    BY <1>2, <1>3, <1>5, <2>2 DEF SourceInv, SourcesRegistered
<1>6. CASE refit' = refit /\ refit.at = "idle"
  BY <1>2, <1>3, <1>6 DEF SourcesRegistered
<1> QED
  BY <1>4, <1>5, <1>6

LEMMA MergeSources ==
    ASSUME TypeOK, SourceInv, merge.at # "idle",
           MergeCount \/ MergeDrop \/ MergeClear \/ MergeRegister \/ MergeInsert
    PROVE  SourceInv'
<1>1. /\ UNCHANGED <<refit, raced>>
      /\ raced \in BOOLEAN
  BY MergeEffects DEF MergeLeaves, TypeOK
<1>2. /\ merge \in [at : {"count", "drop", "clear", "register", "insert"},
                    slices : Manifests, ver : Nat, force : BOOLEAN]
      /\ \A s \in merge.slices : s.year \in Years /\ s.year # Synth
  BY MergeRecord, PromotionAssumption
<1>3. merge' = Idle \/ merge'.slices = merge.slices
  BY <1>2, MergeEffects
<1>4. SourcesSame
  <2>1. \A y \in Years : y # Synth
    BY PromotionAssumption
  <2>2. \A p \in MergeRows : p.run = Synth
    BY InsertedInWindow
  <2>3. Registered(Synth, merge.ver).run = Synth
    BY DEF Registered
  <2>4. CASE MergeCount
    BY <2>4, MergeEffects DEF SourcesSame, RowsOf, Predictions
  <2>5. CASE MergeDrop
    BY <2>1, <2>5, MergeEffects DEF SourcesSame, RowsOf, Predictions
  <2>6. CASE MergeClear
    BY <2>1, <2>6, MergeEffects DEF SourcesSame, RowsOf, Predictions
  <2>7. CASE MergeRegister
    BY <2>1, <2>3, <2>7, MergeEffects DEF SourcesSame, RowsOf, Predictions
  <2>8. CASE MergeInsert
    BY <2>1, <2>2, <2>8, MergeEffects DEF SourcesSame, RowsOf, Predictions
  <2> QED
    BY <2>4, <2>5, <2>6, <2>7, <2>8
<1>5. SourcesRegistered' /\ \A z \in Years : IsFiniteSet(RowsOf(z))'
  BY <1>1, <1>4, SourcesKept
<1>6. SourcesSingle'
  <2>1. CASE merge' = Idle
    BY <2>1 DEF SourcesSingle, Idle
  <2>2. CASE merge'.slices = merge.slices
    <3>1. ValidManifest(merge.slices)'
      BY <2>2 DEF SourceInv, SourcesSingle, ValidManifest
    <3>2. \A s \in merge'.slices : RowsOf(s.year)' = RowsOf(s.year)
      BY <1>2, <1>4, <2>2 DEF SourcesSame
    <3>3. raced' \/ \A s \in merge'.slices : \A r, t \in RowsOf(s.year)' : r = t
      BY <1>1, <2>2, <3>2 DEF SourceInv, SourcesSingle
    <3> QED
      BY <3>1, <3>3 DEF SourcesSingle
  <2> QED
    BY <1>3, <2>1, <2>2
<1>7. TargetClear' /\ DaysOnce'
  <2>1. CASE MergeCount
    <3>1. /\ research' = research /\ Predictions(Synth)' = Predictions(Synth)
          /\ merge'.at = "register" => ~ExistingTargetRows
      BY <2>1, MergeEffects DEF Predictions
    <3>2. merge'.at # "insert"
      BY <1>2, <2>1, MergeEffects DEF Idle
    <3>3. CASE merge' = Idle
      BY <1>1, <3>1, <3>3 DEF SourceInv, TargetClear, DaysOnce, Idle
    <3>4. CASE merge'.slices = merge.slices
      <4>1. TargetClear'
        BY <3>1, <3>2, <3>4 DEF ExistingTargetRows, TargetClear, InMergeWindow
      <4> QED
        BY <1>1, <3>1, <4>1 DEF SourceInv, DaysOnce
    <3> QED
      BY <1>3, <3>3, <3>4
  <2>2. CASE MergeDrop
    <3>1. Predictions(Synth)' = Predictions(Synth) /\ merge'.at = "clear"
      BY <1>2, <2>2, MergeEffects DEF Predictions
    <3> QED
      BY <1>1, <3>1 DEF SourceInv, TargetClear, DaysOnce
  <2>3. CASE MergeClear
    <3>1. /\ Predictions(Synth)' = {p \in Predictions(Synth) : ~InMergeWindow(p)}
          /\ merge'.slices = merge.slices
      BY <1>2, <2>3, MergeEffects DEF Predictions
    <3>2. TargetClear'
      BY <3>1 DEF TargetClear, InMergeWindow
    <3> QED
      BY <1>1, <3>1, <3>2 DEF SourceInv, DaysOnce
  <2>4. CASE MergeRegister
    <3>1. /\ Predictions(Synth)' = Predictions(Synth)
          /\ merge'.slices = merge.slices
          /\ merge.at = "register"
      BY <1>2, <2>4, MergeEffects DEF Predictions, MergeRegister, MergeStep
    <3>2. TargetClear'
      BY <3>1 DEF SourceInv, TargetClear, InMergeWindow
    <3> QED
      BY <1>1, <3>1, <3>2 DEF SourceInv, DaysOnce
  <2>5. CASE MergeInsert
    <3>1. /\ research'.prediction = research.prediction \cup MergeRows
          /\ merge' = Idle /\ merge'.at = "idle" /\ merge.at = "insert"
      BY <2>5, MergeEffects DEF Idle
    <3>2. Predictions(Synth)' = Predictions(Synth) \cup MergeRows
      BY <3>1, InsertedInWindow DEF Predictions
    <3>3. ASSUME ~raced, NEW p \in Predictions(Synth)', NEW q \in Predictions(Synth)',
                 p.day = q.day
          PROVE  p = q
      <4>1. CASE p \in MergeRows /\ q \in MergeRows
        BY <3>3, <4>1, InsertedOnce
      <4>2. CASE p \in Predictions(Synth) /\ q \in Predictions(Synth)
        BY <3>3, <4>2 DEF SourceInv, DaysOnce
      <4>3. ~(p \in MergeRows /\ q \in Predictions(Synth))
        BY <3>1, <3>3, InsertedInWindow DEF SourceInv, TargetClear, InMergeWindow
      <4>4. ~(q \in MergeRows /\ p \in Predictions(Synth))
        BY <3>1, <3>3, InsertedInWindow DEF SourceInv, TargetClear, InMergeWindow
      <4> QED
        BY <3>2, <3>3, <4>1, <4>2, <4>3, <4>4
    <3>4. DaysOnce'
      BY <1>1, <3>3 DEF DaysOnce
    <3> QED
      BY <3>1, <3>4 DEF TargetClear
  <2> QED
    BY <2>1, <2>2, <2>3, <2>4, <2>5
<1> QED
  BY <1>5, <1>6, <1>7 DEF SourceInv

-----------------------------------------------------------------------------
(* Steps that write neither a source nor a prediction.                      *)

LEMMA OthersKeepSources ==
    ASSUME TypeOK, SourceInv,
           refit' = refit \/ refit' = Idle, merge' = merge \/ merge' = Idle, raced' = raced,
           research'.prediction = research.prediction,
           \A y \in Years : RowsOf(y)' = RowsOf(y)
    PROVE  SourceInv'
<1>1. SourcesSame /\ Predictions(Synth)' = Predictions(Synth)
  BY DEF SourcesSame, Predictions
<1>2. SourcesRegistered' /\ \A z \in Years : IsFiniteSet(RowsOf(z))'
  BY <1>1, SourcesKept
<1>3. DaysOnce'
  BY <1>1 DEF SourceInv, DaysOnce
<1>4. CASE merge' = Idle
  <2>1. merge'.at = "idle"
    BY <1>4 DEF Idle
  <2> QED
    BY <1>2, <1>3, <2>1 DEF SourceInv, SourcesSingle, TargetClear
<1>5. CASE merge' = merge /\ merge.at = "idle"
  BY <1>2, <1>3, <1>5 DEF SourceInv, SourcesSingle, TargetClear
<1>6. CASE merge' = merge /\ merge.at # "idle"
  <2>1. ValidManifest(merge.slices)'
    BY <1>6 DEF SourceInv, SourcesSingle, ValidManifest
  <2>2. \A s \in merge.slices : RowsOf(s.year)' = RowsOf(s.year)
    BY <1>6, MergeRecord
  <2>3. raced' \/ \A s \in merge'.slices : \A r, t \in RowsOf(s.year)' : r = t
    BY <1>6, <2>2 DEF SourceInv, SourcesSingle
  <2>4. SourcesSingle'
    BY <2>1, <2>3 DEF SourcesSingle
  <2>5. TargetClear'
    BY <1>1, <1>6 DEF SourceInv, TargetClear, InMergeWindow
  <2> QED
    BY <1>2, <1>3, <2>4, <2>5 DEF SourceInv
<1> QED
  BY <1>4, <1>5, <1>6

-----------------------------------------------------------------------------
(* Programs start, and stop.                                                *)

LEMMA StartRefitKeeps ==
    ASSUME TypeOK, SourceInv, NEW y \in Years, NEW forced \in BOOLEAN, StartRefit(y, forced)
    PROVE  TypeOK' /\ SourceInv' /\ UNCHANGED <<backtest, research, stacked, ads, manifest>>
<1> DEFINE start(at) == [at |-> at, year |-> y, ver |-> starts + 1, force |-> forced]
<1>1. /\ UNCHANGED <<merge, backtest, research, raced, stacked, ads, accepted, manifest>>
      /\ starts' = starts + 1
      /\ refit' = start("clear") \/ refit' = start("register")
  BY DEF StartRefit, RefitUnchanged, Outcome, CountStart
<1>2. starts' \in Nat
  BY <1>1 DEF TypeOK
<1>3. RefitOK'
  BY <1>1, <1>2 DEF RefitOK
<1>4. TypeOK'
  BY <1>1, <1>2, <1>3 DEF TypeOK, MergeOK, BacktestOK, Tables
<1>5. refit'.at # "drop" /\ refit'.at # "predict"
  BY <1>1
<1>6. \A z : RowsOf(z)' = RowsOf(z) /\ Predictions(z)' = Predictions(z)
  BY <1>1 DEF RowsOf, Predictions
<1>7. SourcesRegistered'
  BY <1>5, <1>6 DEF SourceInv, SourcesRegistered
<1>8. SourcesSingle' /\ TargetClear' /\ DaysOnce' /\ \A z \in Years : IsFiniteSet(RowsOf(z))'
  BY <1>1 DEF SourceInv, SourcesSingle, ValidManifest, TargetClear, InMergeWindow, DaysOnce,
              RowsOf, Predictions
<1> QED
  BY <1>1, <1>4, <1>7, <1>8 DEF SourceInv

LEMMA StartMergeKeeps ==
    ASSUME TypeOK, SourceInv, NEW m \in Manifests, NEW forced \in BOOLEAN, StartMerge(m, forced)
    PROVE  TypeOK' /\ SourceInv' /\ UNCHANGED <<backtest, research, stacked, ads, manifest>>
<1>1. /\ UNCHANGED <<refit, backtest, research, raced, stacked, ads, accepted, manifest>>
      /\ starts' = starts + 1
      /\ merge' = [at |-> "count", slices |-> m, ver |-> starts + 1, force |-> forced]
      /\ ValidManifest(m)
      /\ \A s \in m : Cardinality(RowsOf(s.year)) = 1
  BY DEF StartMerge, MergeUnchanged, Outcome, CountStart
<1>2. starts' \in Nat
  BY <1>1 DEF TypeOK
<1>3. MergeOK'
  BY <1>1, <1>2 DEF MergeOK
<1>4. TypeOK'
  BY <1>1, <1>2, <1>3 DEF TypeOK, RefitOK, BacktestOK, Tables
<1>5. merge'.at = "count" /\ merge'.slices = m
  BY <1>1
<1>6. \A z : RowsOf(z)' = RowsOf(z) /\ Predictions(z)' = Predictions(z)
  BY <1>1 DEF RowsOf, Predictions
<1>7. SourcesSame
  BY <1>6 DEF SourcesSame
<1>8. SourcesRegistered' /\ \A z \in Years : IsFiniteSet(RowsOf(z))'
  BY <1>1, <1>7, SourcesKept
<1>9. \A s \in m : \A r, t \in RowsOf(s.year)' : r = t
  <2> SUFFICES ASSUME NEW s \in m, NEW r \in RowsOf(s.year), NEW t \in RowsOf(s.year)
               PROVE  r = t
    BY <1>6
  <2>1. s.year \in Years
    BY PromotionAssumption
  <2>2. IsFiniteSet(RowsOf(s.year)) /\ Cardinality(RowsOf(s.year)) = 1
    BY <1>1, <2>1 DEF SourceInv
  <2>3. \E x : RowsOf(s.year) = {x}
    BY <2>2, FS_Singleton
  <2> QED
    BY <2>3
<1>10. ValidManifest(merge.slices)'
  BY <1>1, <1>5 DEF ValidManifest
<1>11. SourcesSingle'
  BY <1>5, <1>9, <1>10 DEF SourcesSingle
<1>12. TargetClear' /\ DaysOnce'
  BY <1>1, <1>5, <1>6 DEF SourceInv, TargetClear, DaysOnce
<1> QED
  BY <1>1, <1>4, <1>8, <1>11, <1>12 DEF SourceInv

LEMMA StopKeeps ==
    ASSUME TypeOK, SourceInv, Stop
    PROVE  /\ TypeOK' /\ SourceInv'
           /\ backtest' = backtest \/ backtest' = Idle
           /\ UNCHANGED <<research, stacked, ads, manifest>>
<1>1. /\ UNCHANGED <<starts, research, raced, stacked, ads, accepted, manifest>>
      /\ refit' = refit \/ refit' = Idle
      /\ merge' = merge \/ merge' = Idle
      /\ backtest' = backtest \/ backtest' = Idle
  BY DEF Stop, Outcome
<1>2. RefitOK' /\ MergeOK' /\ BacktestOK'
  BY <1>1 DEF TypeOK, RefitOK, MergeOK, BacktestOK
<1>3. TypeOK'
  BY <1>1, <1>2 DEF TypeOK, Tables
<1>4. SourceInv'
  BY <1>1, OthersKeepSources DEF RowsOf
<1> QED
  BY <1>1, <1>3, <1>4

-----------------------------------------------------------------------------
(* The verdict.                                                             *)

LEMMA JudgeKeeps ==
    ASSUME TypeOK, SourceInv, Judge
    PROVE  /\ TypeOK' /\ SourceInv' /\ UNCHANGED <<backtest, stacked, ads, manifest>>
           /\ \A role \in Roles \ {"registry"} : research'[role] = research[role]
<1> DEFINE judged(r) == IF r.run = Synth THEN [r EXCEPT !.accepted = TRUE] ELSE r
           rows == {judged(r) : r \in research.registry}
<1>1. /\ UNCHANGED <<starts, refit, merge, backtest, ads, manifest, raced, stacked>>
      /\ accepted' \in BOOLEAN
      /\ research' = research \/ research' = [research EXCEPT !["registry"] = rows]
  BY DEF Judge, TypeOK
<1>2. Tables(research) /\ "registry" \in Roles /\ "prediction" \in Roles
  BY DEF TypeOK, Roles
<1>3. research.registry \subseteq RegistryRows
  BY <1>2, ResearchRows
<1>4. \A r \in RegistryRows : judged(r) \in RegistryRows /\ judged(r).run = r.run
  BY DEF RegistryRows
<1>5. rows \subseteq RowsFor("registry")
  BY <1>3, <1>4, RowTypes
<1>6. /\ Tables(research)'
      /\ \A role \in Roles \ {"registry"} : research'[role] = research[role]
      /\ research'.registry = research.registry \/ research'.registry = rows
  <2>1. CASE research' = research
    BY <1>2, <2>1 DEF Tables
  <2>2. CASE research' = [research EXCEPT !["registry"] = rows]
    BY <1>2, <1>5, <2>2, PutRows
  <2> QED
    BY <1>1, <2>1, <2>2
<1>7. TypeOK'
  BY <1>1, <1>6 DEF TypeOK, RefitOK, MergeOK, BacktestOK, Tables
<1>8. \A y \in Years : RowsOf(y)' = RowsOf(y)
  <2> SUFFICES ASSUME NEW y \in Years, research'.registry = rows
               PROVE  RowsOf(y)' = RowsOf(y)
    BY <1>6 DEF RowsOf
  <2>1. y # Synth
    BY PromotionAssumption
  <2>2. \A r \in research.registry : judged(r).run = r.run
    BY <1>3, <1>4
  <2>3. {r \in rows : r.run = y} = {r \in research.registry : r.run = y}
    <3>1. ASSUME NEW r \in rows, r.run = y
          PROVE  r \in research.registry
      <4>1. PICK t \in research.registry : r = judged(t)
        OBVIOUS
      <4>2. t.run = y
        BY <2>2, <3>1, <4>1
      <4> QED
        BY <2>1, <4>1, <4>2
    <3>2. ASSUME NEW r \in research.registry, r.run = y
          PROVE  r \in rows
      <4>1. judged(r) = r
        BY <2>1, <3>2
      <4> QED
        BY <4>1
    <3> QED
      BY <3>1, <3>2
  <2> QED
    BY <2>3 DEF RowsOf
<1>9. SourceInv'
  BY <1>1, <1>2, <1>6, <1>8, OthersKeepSources
<1> QED
  BY <1>1, <1>6, <1>7, <1>9

-----------------------------------------------------------------------------
(* A promotion.                                                             *)

\* Its source tables keep their rows up to the id of the promotion.
SameSummaries ==
    \A s \in research'.summary : \E t \in research.summary :
        s.first = t.first /\ s.last = t.last /\ s.ver = t.ver

LEMMA ScopeIsPart ==
    ASSUME NEW tables, NEW role, NEW w
    PROVE  /\ Scope(tables, role, w) \subseteq tables[role]
           /\ Scope(tables, "summary", w) = tables["summary"]
           /\ \A r \in Scope(tables, "registry", w) : r.run = Synth
           /\ role \in Ledger => Scope(tables, role, w) = {r \in tables[role] : Within(w, r.day)}
  BY DEF Scope, Ledger

LEMMA PromoteTyped ==
    ASSUME TypeOK, NEW w \in PromotionWindows, NEW roles \in RoleSets, NEW forced \in BOOLEAN,
           NEW allowUnaccepted \in BOOLEAN, Promote(w, roles, forced, allowUnaccepted)
    PROVE  /\ TypeOK'
           /\ UNCHANGED <<refit, merge, backtest, raced, stacked>>
           /\ \A role \in Roles \ {"registry", "summary"} : research'[role] = research[role]
           /\ \A y \in Years : RowsOf(y)' = RowsOf(y)
           /\ SameSummaries
<1> DEFINE id == Cardinality(manifest) + 1
           reg == Scope(research, "registry", w)
           rec == [id |-> id, window |-> w, roles |-> roles]
<1>1. /\ ads' = [role \in Roles |-> IF role \in roles THEN Copied(role, w) ELSE ads[role]]
      /\ research' = [role \in Roles |->
             IF role \in roles \cap {"registry", "summary"}
             THEN (research[role] \ Scope(research, role, w)) \cup
                      {[r EXCEPT !.promo = id] : r \in Scope(research, role, w)}
             ELSE research[role]]
      /\ manifest' = manifest \cup {rec}
      /\ UNCHANGED <<starts, refit, merge, backtest, accepted, raced, stacked>>
  BY DEF Promote
<1>2. id \in Nat
  <2>1. Cardinality(manifest) \in Nat
    BY FS_CardinalityType DEF TypeOK
  <2> QED
    BY <2>1
<1>3. /\ manifest' \subseteq [id : Nat, window : PromotionWindows, roles : RoleSets]
      /\ IsFiniteSet(manifest')
  <2>1. rec \in [id : Nat, window : PromotionWindows, roles : RoleSets]
    BY <1>2
  <2> QED
    BY <1>1, <2>1, FS_AddElement DEF TypeOK
<1>4. /\ research.registry \subseteq RegistryRows /\ research.summary \subseteq SummaryRows
      /\ ads.registry \subseteq RegistryRows /\ ads.summary \subseteq SummaryRows
  BY RowTypes DEF TypeOK, Tables, Roles
<1>5. /\ \A r \in RegistryRows : [r EXCEPT !.promo = id] \in RegistryRows
      /\ \A r \in SummaryRows : [r EXCEPT !.promo = id] \in SummaryRows
      /\ \A r \in RegistryRows : [r EXCEPT !.promo = 0] \in RegistryRows
      /\ \A r \in SummaryRows : [r EXCEPT !.promo = 0] \in SummaryRows
  BY <1>2 DEF RegistryRows, SummaryRows
<1>6. Tables(research)'
  <2>1. ASSUME NEW role \in Roles
        PROVE  research'[role] \subseteq RowsFor(role)
    <3>1. CASE role \in roles \cap {"registry", "summary"}
      <4>1. research'[role] = (research[role] \ Scope(research, role, w)) \cup
                                 {[r EXCEPT !.promo = id] : r \in Scope(research, role, w)}
        BY <1>1, <3>1
      <4>2. research[role] \subseteq RowsFor(role) /\ Scope(research, role, w) \subseteq research[role]
        BY ScopeIsPart DEF TypeOK, Tables
      <4>3. \A r \in RowsFor(role) : [r EXCEPT !.promo = id] \in RowsFor(role)
        BY <1>5, <3>1, RowTypes
      <4> QED
        BY <4>1, <4>2, <4>3
    <3>2. CASE role \notin roles \cap {"registry", "summary"}
      BY <1>1, <3>2 DEF TypeOK, Tables
    <3> QED
      BY <3>1, <3>2
  <2> QED
    BY <1>1, <2>1 DEF Tables
<1>7. Tables(ads)'
  <2>1. ASSUME NEW role \in Roles
        PROVE  ads'[role] \subseteq RowsFor(role)
    <3>1. research[role] \subseteq RowsFor(role) /\ ads[role] \subseteq RowsFor(role)
          /\ Scope(research, role, w) \subseteq research[role]
      BY ScopeIsPart DEF TypeOK, Tables
    <3>2. CASE role \in roles /\ role \in {"registry", "summary"}
      <4>1. ads'[role] = (ads[role] \ Scope(ads, role, w)) \cup
                             {[r EXCEPT !.promo = 0] : r \in Scope(research, role, w)}
        BY <1>1, <3>2 DEF Copied
      <4>2. \A r \in RowsFor(role) : [r EXCEPT !.promo = 0] \in RowsFor(role)
        BY <1>5, <3>2, RowTypes
      <4> QED
        BY <3>1, <4>1, <4>2
    <3>3. CASE role \in roles /\ role \notin {"registry", "summary"}
      BY <1>1, <3>1, <3>3 DEF Copied
    <3>4. CASE role \notin roles
      BY <1>1, <3>1, <3>4
    <3> QED
      BY <3>2, <3>3, <3>4
  <2> QED
    BY <1>1, <2>1 DEF Tables
<1>8. TypeOK'
  BY <1>1, <1>3, <1>6, <1>7 DEF TypeOK, RefitOK, MergeOK, BacktestOK
<1>9. \A role \in Roles \ {"registry", "summary"} : research'[role] = research[role]
  BY <1>1
<1>10. \A y \in Years : RowsOf(y)' = RowsOf(y)
  <2> SUFFICES ASSUME NEW y \in Years
               PROVE  RowsOf(y)' = RowsOf(y)
    OBVIOUS
  <2>1. y # Synth
    BY PromotionAssumption
  <2>2. CASE "registry" \in roles
    <3>1. research'["registry"] = (research["registry"] \ reg) \cup
                                     {[r EXCEPT !.promo = id] : r \in reg}
      BY <1>1, <2>2 DEF Roles
    <3>2. \A r \in reg : r.run = Synth /\ r \in RegistryRows
      BY <1>4, ScopeIsPart
    <3>3. \A r \in reg : [r EXCEPT !.promo = id].run = Synth
      BY <3>2 DEF RegistryRows
    <3> QED
      BY <2>1, <3>1, <3>2, <3>3 DEF RowsOf
  <2>3. CASE "registry" \notin roles
    <3>1. research'.registry = research.registry
      BY <1>1, <2>3 DEF Roles
    <3> QED
      BY <3>1 DEF RowsOf
  <2> QED
    BY <2>2, <2>3
<1>11. SameSummaries
  <2>1. CASE "summary" \in roles
    <3>1. research'["summary"] = (research["summary"] \ research["summary"]) \cup
                                    {[r EXCEPT !.promo = id] : r \in research["summary"]}
      BY <1>1, <2>1, ScopeIsPart DEF Roles
    <3>2. \A r \in SummaryRows : LET s == [r EXCEPT !.promo = id] IN
              s.first = r.first /\ s.last = r.last /\ s.ver = r.ver
      BY DEF SummaryRows
    <3>3. \A r \in research.summary : r \in SummaryRows
      BY <1>4
    <3> SUFFICES ASSUME NEW s \in research'.summary
                 PROVE  \E t \in research.summary :
                          s.first = t.first /\ s.last = t.last /\ s.ver = t.ver
      BY DEF SameSummaries
    <3>4. PICK r \in research.summary : s = [r EXCEPT !.promo = id]
      BY <3>1
    <3> QED
      BY <3>2, <3>3, <3>4
  <2>2. CASE "summary" \notin roles
    <3>1. research'.summary = research.summary
      BY <1>1, <2>2 DEF Roles
    <3> QED
      BY <3>1 DEF SameSummaries
  <2> QED
    BY <2>1, <2>2
<1> QED
  BY <1>1, <1>8, <1>9, <1>10, <1>11

\* A ledger and a summary that the step leaves alone stay one backtest's.
LEMMA LedgerStays ==
    ASSUME TypeOK, LedgerKeepsUp, LedgerIsSummarised,
           backtest' = backtest \/ backtest' = Idle, stacked' = stacked, SameSummaries,
           research'.trade = research.trade, research'.nav = research.nav
    PROVE  LedgerKeepsUp' /\ LedgerIsSummarised'
<1>1. \A role \in Ledger : research'[role] = research[role]
  BY DEF Ledger
<1>2. LedgerIsSummarised'
  <2> SUFFICES ASSUME ~stacked, NEW s \in research'.summary, NEW role \in Ledger,
                      NEW r \in research'[role], s.first <= r.day, r.day <= s.last
               PROVE  r.ver = s.ver
    BY DEF LedgerIsSummarised
  <2>1. PICK t \in research.summary : s.first = t.first /\ s.last = t.last /\ s.ver = t.ver
    BY DEF SameSummaries
  <2> QED
    BY <1>1, <2>1 DEF LedgerIsSummarised
<1>3. research.summary = {} => research'.summary = {}
  BY DEF SameSummaries
<1>4. LedgerKeepsUp'
  <2>1. CASE backtest' = Idle
    <3>1. backtest'.at = "idle"
      BY <2>1 DEF Idle
    <3> QED
      BY <3>1 DEF LedgerKeepsUp
  <2>2. CASE backtest' = backtest
    BY <1>3, <2>2 DEF LedgerKeepsUp, Cleared, Own, InWindow
  <2> QED
    BY <2>1, <2>2
<1> QED
  BY <1>2, <1>4

LEMMA PublishedStays ==
    ASSUME PublishedIsOneBacktest, stacked \in BOOLEAN, stacked => stacked', UNCHANGED <<ads, manifest>>
    PROVE  PublishedIsOneBacktest'
  BY DEF PublishedIsOneBacktest

LEMMA PromotePublishes ==
    ASSUME TypeOK, LedgerInv, NEW w \in PromotionWindows, NEW roles \in RoleSets,
           NEW forced \in BOOLEAN, NEW allowUnaccepted \in BOOLEAN,
           Promote(w, roles, forced, allowUnaccepted)
    PROVE  PublishedIsOneBacktest'
<1> SUFFICES ASSUME ~stacked', \A m \in manifest' : m.roles = Roles,
                    NEW s \in ads'.summary, NEW role \in Ledger, NEW r \in ads'[role],
                    s.first <= r.day, r.day <= s.last
             PROVE  r.ver = s.ver
  BY DEF PublishedIsOneBacktest
<1> DEFINE rec == [id |-> Cardinality(manifest) + 1, window |-> w, roles |-> roles]
<1>1. rec \in manifest' /\ rec.roles = roles /\ stacked' = stacked
  BY DEF Promote
<1>2. roles = Roles /\ role \in Roles /\ role \notin {"registry", "summary"} /\ "summary" \in Roles
  BY <1>1 DEF Roles, Ledger
<1>3. ads' = [o \in Roles |-> Copied(o, w)]
  BY <1>2 DEF Promote
<1>4. PICK t \in research.summary : s = [t EXCEPT !.promo = 0]
  <2>1. ads'["summary"] = (ads["summary"] \ ads["summary"]) \cup
                              {[q EXCEPT !.promo = 0] : q \in research["summary"]}
    BY <1>2, <1>3, ScopeIsPart DEF Copied
  <2> QED
    BY <2>1
<1>5. t \in SummaryRows
  BY ResearchRows DEF TypeOK
<1>6. s.first = t.first /\ s.last = t.last /\ s.ver = t.ver
  BY <1>4, <1>5 DEF SummaryRows
<1>7. Within(w, t.first) /\ Within(w, t.last)
  BY DEF Promote, SummaryWithin
<1>8. ads'[role] = {q \in ads[role] : ~Within(w, q.day)} \cup {q \in research[role] : Within(w, q.day)}
  BY <1>2, <1>3, ScopeIsPart DEF Copied
<1>9. r.day \in Nat
  <2>1. research[role] \subseteq DatedRows /\ ads[role] \subseteq DatedRows
    BY <1>2, RowTypes DEF TypeOK, Tables, Ledger
  <2> QED
    BY <1>8, <2>1, PromotionAssumption DEF DatedRows
<1>10. Within(w, r.day)
  <2>1. /\ w.first \in Nat /\ w.last \in Nat /\ t.first \in Nat /\ t.last \in Nat
    BY <1>5, PromotionAssumption DEF SummaryRows
  <2> QED
    BY <1>6, <1>7, <1>9, <2>1 DEF Within
<1>11. r \in research[role]
  BY <1>8, <1>10
<1> QED
  BY <1>1, <1>6, <1>11 DEF LedgerInv, LedgerIsSummarised

-----------------------------------------------------------------------------
(* Each step of a backtest.                                                 *)

LEMMA BacktestRecord ==
    ASSUME TypeOK
    PROVE  /\ backtest.at \in {"check", "insert"} =>
                backtest \in [at : {"check", "insert"}, role : {"candidate", "target"},
                              window : Windows, ver : Nat, force : BOOLEAN]
           /\ backtest.at = "clear" =>
                backtest \in [at : {"clear"}, role : Ledger \cup {"summary"},
                              window : Windows, ver : Nat, force : BOOLEAN]
           /\ backtest.at = "load" =>
                backtest \in [at : {"load"}, role : Ledger, window : Windows, ver : Nat,
                              force : BOOLEAN]
           /\ backtest.at = "summarise" =>
                backtest \in [at : {"summarise"}, role : {"summary"}, window : Windows,
                              ver : Nat, force : BOOLEAN]
  BY DEF TypeOK, BacktestOK, Idle

LEMMA DatedTyped ==
    ASSUME backtest.ver \in Nat, NEW days \in SUBSET Days
    PROVE  /\ Dated(days) \subseteq DatedRows
           /\ \A r \in Dated(days) : r.ver = backtest.ver /\ InWindow(r) /\ r.day \in Days
  BY DEF Dated, DatedRows, InWindow

\* What every step of a backtest leaves alone.
BacktestLeaves ==
    /\ UNCHANGED <<refit, merge, raced, ads, accepted, manifest>>
    /\ \A role \in {"registry", "prediction"} : research'[role] = research[role]
    /\ stacked => stacked'

LEMMA BacktestStep ==
    ASSUME TypeOK, BacktestLeaves, BacktestOK', Tables(research)', starts' \in Nat,
           stacked' \in BOOLEAN, SourceInv, LedgerInv, LedgerKeepsUp', LedgerIsSummarised'
    PROVE  IInv'
<1>1. TypeOK'
  BY DEF TypeOK, BacktestLeaves, RefitOK, MergeOK, Tables
<1>2. SourceInv'
  <2>1. research'.prediction = research.prediction /\ \A y \in Years : RowsOf(y)' = RowsOf(y)
    BY DEF BacktestLeaves, RowsOf
  <2> QED
    BY <2>1, OthersKeepSources DEF BacktestLeaves
<1>3. PublishedIsOneBacktest'
  BY PublishedStays DEF TypeOK, LedgerInv, BacktestLeaves
<1> QED
  BY <1>1, <1>2, <1>3 DEF IInv, LedgerInv

\* A step that writes no ledger and no summary, and whose backtest claims nothing of them.
LEMMA LedgerUntouched ==
    ASSUME LedgerInv, stacked' = stacked,
           research'.trade = research.trade, research'.nav = research.nav,
           research'.summary = research.summary,
           backtest'.at \in {"idle", "check", "insert"}
    PROVE  LedgerKeepsUp' /\ LedgerIsSummarised'
<1>1. \A role \in Ledger : research'[role] = research[role]
  BY DEF Ledger
<1>2. LedgerIsSummarised'
  BY <1>1 DEF LedgerInv, LedgerIsSummarised
<1> QED
  BY <1>2 DEF LedgerKeepsUp

LEMMA StartBacktestKeeps ==
    ASSUME IInv, NEW w \in Windows, NEW forced \in BOOLEAN, StartBacktest(w, forced)
    PROVE  IInv'
<1>1. /\ UNCHANGED <<refit, merge, raced, ads, accepted, manifest, research, stacked>>
      /\ starts' = starts + 1
      /\ backtest' = [at |-> "check", role |-> "candidate", window |-> w, ver |-> starts + 1,
                      force |-> forced]
  BY DEF StartBacktest, BacktestUnchanged, Outcome, CountStart
<1>2. starts' \in Nat
  BY <1>1 DEF IInv, TypeOK
<1>3. BacktestOK' /\ backtest'.at = "check"
  BY <1>1, <1>2 DEF BacktestOK
<1>4. BacktestLeaves /\ Tables(research)' /\ stacked' \in BOOLEAN
  BY <1>1 DEF BacktestLeaves, IInv, TypeOK, Tables
<1>5. LedgerKeepsUp' /\ LedgerIsSummarised'
  BY <1>1, <1>3, LedgerUntouched DEF IInv
<1> QED
  BY <1>2, <1>3, <1>4, <1>5, BacktestStep DEF IInv

LEMMA CheckTargetKeeps ==
    ASSUME IInv, CheckTarget
    PROVE  IInv'
<1> DEFINE there == {r \in research[backtest.role] : InWindow(r)}
<1>1. /\ UNCHANGED <<refit, merge, raced, ads, accepted, manifest, starts, stacked>>
      /\ backtest.at = "check"
      /\ \/ /\ backtest' = [backtest EXCEPT !.at = "insert", !.role = backtest.role]
            /\ research' = [research EXCEPT ![backtest.role] = research[backtest.role] \ there]
         \/ backtest' = Idle /\ research' = research
  BY DEF CheckTarget, BacktestUnchanged, Outcome, GoOn, Leave
<1>2. /\ backtest \in [at : {"check", "insert"}, role : {"candidate", "target"},
                       window : Windows, ver : Nat, force : BOOLEAN]
      /\ backtest.role \in Roles
      /\ backtest.role \in {"candidate", "target"}
  BY <1>1, BacktestRecord DEF IInv, Roles
<1>3. BacktestOK' /\ backtest'.at \in {"idle", "insert"}
  <2>1. CASE backtest' = Idle
    BY <2>1 DEF BacktestOK, Idle
  <2>2. CASE backtest' = [backtest EXCEPT !.at = "insert", !.role = backtest.role]
    <3>1. /\ backtest' \in [at : {"check", "insert"}, role : {"candidate", "target"},
                            window : Windows, ver : Nat, force : BOOLEAN]
          /\ backtest'.at = "insert"
      BY <1>2, <2>2
    <3> QED
      BY <3>1 DEF BacktestOK
  <2> QED
    BY <1>1, <2>1, <2>2
<1>4. Tables(research)' /\ \A o \in Roles : o \notin {"candidate", "target"} => research'[o] = research[o]
  <2>1. Tables(research)
    BY DEF IInv, TypeOK
  <2>2. CASE research' = research
    BY <2>1, <2>2 DEF Tables
  <2>3. CASE research' = [research EXCEPT ![backtest.role] = research[backtest.role] \ there]
    <3>1. PICK role \in Roles : role = backtest.role /\ role \in {"candidate", "target"}
      BY <1>2
    <3> DEFINE rest == research[role] \ there
    <3>2. rest \subseteq RowsFor(role)
      BY <2>1 DEF Tables
    <3>3. research' = [research EXCEPT ![role] = rest]
      BY <2>3, <3>1
    <3> HIDE DEF rest
    <3>4. Tables(research)' /\ \A o \in Roles : o # role => research'[o] = research[o]
      BY <2>1, <3>2, <3>3, PutRows
    <3> QED
      BY <3>1, <3>4
  <2> QED
    BY <1>1, <2>2, <2>3
<1>5. BacktestLeaves /\ stacked' \in BOOLEAN /\ starts' \in Nat
  BY <1>1, <1>4 DEF BacktestLeaves, IInv, TypeOK, Roles
<1>6. LedgerKeepsUp' /\ LedgerIsSummarised'
  BY <1>1, <1>3, <1>4, LedgerUntouched DEF IInv, Roles
<1> QED
  BY <1>3, <1>4, <1>5, <1>6, BacktestStep DEF IInv

LEMMA InsertTargetKeeps ==
    ASSUME IInv, InsertTarget
    PROVE  IInv'
<1> DEFINE candidates == Dated({p.day : p \in Predictions(Synth)} \cap RebalanceDays)
           targets == Dated({c.day : c \in research.candidate})
<1>1. /\ UNCHANGED <<refit, merge, raced, ads, accepted, manifest, starts, stacked>>
      /\ backtest.at = "insert"
      /\ \/ /\ backtest.role = "candidate"
            /\ backtest' = [backtest EXCEPT !.at = "check", !.role = "target"]
            /\ research' = [research EXCEPT !["candidate"] = research["candidate"] \cup candidates]
         \/ /\ backtest.role = "target"
            /\ \/ backtest.force /\ backtest' = [backtest EXCEPT !.at = "clear", !.role = "trade"]
               \/ ~backtest.force /\ backtest' = [backtest EXCEPT !.at = "load", !.role = "trade"]
            /\ research' = [research EXCEPT !["target"] = research["target"] \cup targets]
  BY DEF InsertTarget, BacktestUnchanged, Outcome, GoOn
<1>2. backtest \in [at : {"check", "insert"}, role : {"candidate", "target"},
                    window : Windows, ver : Nat, force : BOOLEAN]
  BY <1>1, BacktestRecord DEF IInv
<1>3. Tables(research) /\ "candidate" \in Roles /\ "target" \in Roles
  BY DEF IInv, TypeOK, Roles
<1>4. /\ research.prediction \subseteq PredictionRows /\ research.candidate \subseteq DatedRows
      /\ research.target \subseteq DatedRows
  BY <1>3, ResearchRows
<1>5. candidates \subseteq DatedRows /\ targets \subseteq DatedRows
  <2>1. {p.day : p \in Predictions(Synth)} \cap RebalanceDays \subseteq Days
    BY <1>4 DEF Predictions, PredictionRows
  <2>2. {c.day : c \in research.candidate} \subseteq Days
    BY <1>4 DEF DatedRows
  <2> QED
    BY <1>2, <2>1, <2>2, DatedTyped
<1>6. Tables(research)' /\ \A o \in Roles : o \notin {"candidate", "target"} => research'[o] = research[o]
  <2>1. CASE research' = [research EXCEPT !["candidate"] = research["candidate"] \cup candidates]
    <3>1. research["candidate"] \cup candidates \subseteq RowsFor("candidate")
      BY <1>4, <1>5, RowTypes
    <3> QED
      BY <1>3, <2>1, <3>1, PutRows
  <2>2. CASE research' = [research EXCEPT !["target"] = research["target"] \cup targets]
    <3>1. research["target"] \cup targets \subseteq RowsFor("target")
      BY <1>4, <1>5, RowTypes
    <3> QED
      BY <1>3, <2>2, <3>1, PutRows
  <2> QED
    BY <1>1, <2>1, <2>2
<1>7. BacktestLeaves /\ stacked' \in BOOLEAN /\ starts' \in Nat
  BY <1>1, <1>6 DEF BacktestLeaves, IInv, TypeOK, Roles
<1>8. /\ BacktestOK'
      /\ \/ backtest'.at = "check"
         \/ backtest'.at = "clear" /\ backtest'.force /\ backtest'.role = "trade"
         \/ backtest'.at = "load" /\ ~backtest'.force /\ backtest'.role = "trade"
  <2>1. CASE backtest' = [backtest EXCEPT !.at = "check", !.role = "target"]
    <3>1. /\ backtest' \in [at : {"check", "insert"}, role : {"candidate", "target"},
                            window : Windows, ver : Nat, force : BOOLEAN]
          /\ backtest'.at = "check"
      BY <1>2, <2>1
    <3> QED
      BY <3>1 DEF BacktestOK
  <2>2. CASE backtest.force /\ backtest' = [backtest EXCEPT !.at = "clear", !.role = "trade"]
    <3>1. /\ backtest' \in [at : {"clear"}, role : Ledger \cup {"summary"},
                            window : Windows, ver : Nat, force : BOOLEAN]
          /\ backtest'.at = "clear" /\ backtest'.force /\ backtest'.role = "trade"
      BY <1>2, <2>2 DEF Ledger
    <3> QED
      BY <3>1 DEF BacktestOK
  <2>3. CASE ~backtest.force /\ backtest' = [backtest EXCEPT !.at = "load", !.role = "trade"]
    <3>1. /\ backtest' \in [at : {"load"}, role : Ledger, window : Windows, ver : Nat,
                            force : BOOLEAN]
          /\ backtest'.at = "load" /\ ~backtest'.force /\ backtest'.role = "trade"
      BY <1>2, <2>3 DEF Ledger
    <3> QED
      BY <3>1 DEF BacktestOK
  <2> QED
    BY <1>1, <2>1, <2>2, <2>3
<1>9. LedgerIsSummarised'
  <2>1. \A role \in Ledger \cup {"summary"} : research'[role] = research[role]
    BY <1>6 DEF Ledger, Roles
  <2> QED
    BY <1>1, <2>1 DEF IInv, LedgerInv, LedgerIsSummarised
<1>10. LedgerKeepsUp'
  BY <1>8 DEF LedgerKeepsUp, Ledger
<1> QED
  BY <1>6, <1>7, <1>8, <1>9, <1>10, BacktestStep DEF IInv

LEMMA ClearLedgerKeeps ==
    ASSUME IInv, ClearLedger
    PROVE  IInv'
<1> DEFINE Before(role) == {r \in research[role] : r.day < backtest.window.first}
<1>1. /\ UNCHANGED <<refit, merge, raced, ads, accepted, manifest, starts, stacked>>
      /\ backtest.at = "clear"
  BY DEF ClearLedger, BacktestUnchanged, Outcome
<1>2. /\ backtest \in [at : {"clear"}, role : Ledger \cup {"summary"}, window : Windows,
                       ver : Nat, force : BOOLEAN]
      /\ backtest.window.first \in Nat
  <2>1. backtest \in [at : {"clear"}, role : Ledger \cup {"summary"}, window : Windows,
                      ver : Nat, force : BOOLEAN]
    BY <1>1, BacktestRecord DEF IInv
  <2> QED
    BY <2>1, PromotionAssumption
<1>3. \/ /\ backtest.role = "trade" /\ backtest' = [backtest EXCEPT !.at = "clear", !.role = "nav"]
         /\ research' = [research EXCEPT !["trade"] = Before("trade")]
      \/ /\ backtest.role = "nav" /\ backtest' = [backtest EXCEPT !.at = "clear", !.role = "summary"]
         /\ research' = [research EXCEPT !["nav"] = Before("nav")]
      \/ /\ backtest.role = "summary" /\ backtest' = [backtest EXCEPT !.at = "load", !.role = "trade"]
         /\ research' = [research EXCEPT !["summary"] = {}]
  <2>1. CASE backtest.role = "trade"
    BY <2>1 DEF ClearLedger, GoOn
  <2>2. CASE backtest.role = "nav"
    BY <2>2 DEF ClearLedger, GoOn
  <2>3. CASE backtest.role = "summary"
    BY <2>3 DEF ClearLedger, GoOn
  <2> QED
    BY <1>2, <2>1, <2>2, <2>3 DEF Ledger
<1>4. Tables(research) /\ "trade" \in Roles /\ "nav" \in Roles /\ "summary" \in Roles
  BY DEF IInv, TypeOK, Roles
<1>5. \A role \in Ledger : research[role] \subseteq DatedRows
  BY <1>4, ResearchRows DEF Ledger
<1>6. \A role \in Ledger : \A r \in Before(role) : ~InWindow(r)
  <2> SUFFICES ASSUME NEW role \in Ledger, NEW r \in Before(role)
               PROVE  ~InWindow(r)
    OBVIOUS
  <2>1. r.day \in Nat
    BY <1>5, PromotionAssumption DEF DatedRows
  <2> QED
    BY <1>2, <2>1 DEF InWindow, Within
<1>7. LedgerKeepsUp /\ LedgerIsSummarised /\ backtest.force
  BY <1>1 DEF IInv, LedgerInv, LedgerKeepsUp
<1>8. CASE backtest.role = "trade" /\ backtest' = [backtest EXCEPT !.at = "clear", !.role = "nav"]
           /\ research' = [research EXCEPT !["trade"] = Before("trade")]
  <2>1. Before("trade") \subseteq RowsFor("trade")
    BY <1>4, ResearchRows, RowTypes
  <2>2. /\ research'["trade"] = Before("trade") /\ Tables(research)'
        /\ \A o \in Roles : o # "trade" => research'[o] = research[o]
    <3>1. research' = [research EXCEPT !["trade"] = Before("trade")]
      BY <1>8
    <3> HIDE DEF Before
    <3> QED BY <1>4, <2>1, <3>1, PutRows
  <2>3. /\ backtest' \in [at : {"clear"}, role : Ledger \cup {"summary"}, window : Windows,
                          ver : Nat, force : BOOLEAN]
        /\ backtest'.at = "clear" /\ backtest'.role = "nav" /\ backtest'.force
        /\ backtest'.window = backtest.window
    BY <1>2, <1>7, <1>8 DEF Ledger
  <2>4. Cleared("trade")'
    BY <1>6, <2>2, <2>3 DEF Cleared, InWindow, Ledger
  <2>5. LedgerKeepsUp'
    BY <2>3, <2>4 DEF LedgerKeepsUp
  <2>6. LedgerIsSummarised'
    BY <1>1, <1>4, <1>7, <2>2 DEF LedgerIsSummarised, Ledger
  <2>7. BacktestLeaves /\ BacktestOK' /\ stacked' \in BOOLEAN /\ starts' \in Nat
    BY <1>1, <2>2, <2>3 DEF BacktestLeaves, BacktestOK, IInv, TypeOK, Roles
  <2> QED
    BY <2>2, <2>5, <2>6, <2>7, BacktestStep DEF IInv
<1>9. CASE backtest.role = "nav" /\ backtest' = [backtest EXCEPT !.at = "clear", !.role = "summary"]
           /\ research' = [research EXCEPT !["nav"] = Before("nav")]
  <2>1. Before("nav") \subseteq RowsFor("nav")
    BY <1>4, ResearchRows, RowTypes
  <2>2. /\ research'["nav"] = Before("nav") /\ Tables(research)'
        /\ \A o \in Roles : o # "nav" => research'[o] = research[o]
    <3>1. research' = [research EXCEPT !["nav"] = Before("nav")]
      BY <1>9
    <3> HIDE DEF Before
    <3> QED BY <1>4, <2>1, <3>1, PutRows
  <2>3. /\ backtest' \in [at : {"clear"}, role : Ledger \cup {"summary"}, window : Windows,
                          ver : Nat, force : BOOLEAN]
        /\ backtest'.at = "clear" /\ backtest'.role = "summary" /\ backtest'.force
        /\ backtest'.window = backtest.window
    BY <1>2, <1>7, <1>9 DEF Ledger
  <2>4. Cleared("nav")'
    BY <1>6, <2>2, <2>3 DEF Cleared, InWindow, Ledger
  <2>5. Cleared("trade")'
    <3>1. Cleared("trade")
      BY <1>1, <1>7, <1>9 DEF LedgerKeepsUp
    <3> QED
      BY <1>4, <2>2, <2>3, <3>1 DEF Cleared, InWindow
  <2>6. LedgerKeepsUp'
    BY <2>3, <2>4, <2>5 DEF LedgerKeepsUp
  <2>7. LedgerIsSummarised'
    BY <1>1, <1>4, <1>7, <2>2 DEF LedgerIsSummarised, Ledger
  <2>8. BacktestLeaves /\ BacktestOK' /\ stacked' \in BOOLEAN /\ starts' \in Nat
    BY <1>1, <2>2, <2>3 DEF BacktestLeaves, BacktestOK, IInv, TypeOK, Roles
  <2> QED
    BY <2>2, <2>6, <2>7, <2>8, BacktestStep DEF IInv
<1>10. CASE backtest.role = "summary" /\ backtest' = [backtest EXCEPT !.at = "load", !.role = "trade"]
            /\ research' = [research EXCEPT !["summary"] = {}]
  <2>1. {} \subseteq RowsFor("summary")
    OBVIOUS
  <2>2. /\ research'["summary"] = {} /\ Tables(research)'
        /\ \A o \in Roles : o # "summary" => research'[o] = research[o]
    <3>1. research' = [research EXCEPT !["summary"] = {}]
      BY <1>10
    <3> QED BY <1>4, <2>1, <3>1, PutRows
  <2>3. /\ backtest' \in [at : {"load"}, role : Ledger, window : Windows, ver : Nat,
                          force : BOOLEAN]
        /\ backtest'.at = "load" /\ backtest'.role = "trade" /\ backtest'.force
        /\ backtest'.window = backtest.window
    BY <1>2, <1>7, <1>10 DEF Ledger
  <2>4. Cleared("nav")' /\ Cleared("trade")'
    <3>1. Cleared("nav") /\ Cleared("trade")
      BY <1>1, <1>7, <1>10 DEF LedgerKeepsUp
    <3> QED
      BY <1>4, <2>2, <2>3, <3>1 DEF Cleared, InWindow
  <2>5. LedgerKeepsUp'
    BY <2>2, <2>3, <2>4 DEF LedgerKeepsUp
  <2>6. LedgerIsSummarised'
    BY <2>2 DEF LedgerIsSummarised
  <2>7. BacktestLeaves /\ BacktestOK' /\ stacked' \in BOOLEAN /\ starts' \in Nat
    BY <1>1, <2>2, <2>3 DEF BacktestLeaves, BacktestOK, IInv, TypeOK, Roles
  <2> QED
    BY <2>2, <2>5, <2>6, <2>7, BacktestStep DEF IInv
<1> QED
  BY <1>3, <1>8, <1>9, <1>10

\* A backtest that has loaded its rows of a role without a mark in the history: they are
\* the only ones of its window, and no summary is over them.
LEMMA LoadedAlone ==
    ASSUME IInv, backtest.at = "load", stacked' = (stacked \/ (~backtest.force /\ OverAnother)),
           ~stacked', NEW role \in Ledger, role = backtest.role,
           research'[role] = research[role] \cup Dated(Days),
           \A o \in Roles : o # role => research'[o] = research[o]
    PROVE  /\ \A r \in research'[role] : InWindow(r) => r.ver = backtest.ver
           /\ LedgerIsSummarised'
<1>1. ~stacked /\ (backtest.force \/ ~OverAnother)
  BY DEF IInv, TypeOK
<1>2. \A r \in Dated(Days) : r.ver = backtest.ver /\ InWindow(r) /\ r.day \in Days
  <2>1. backtest.ver \in Nat
    BY BacktestRecord DEF IInv
  <2> QED
    BY <2>1, DatedTyped
<1>3. \A r \in research[role] : ~InWindow(r)
  <2>1. CASE backtest.force
    BY <2>1 DEF IInv, LedgerInv, LedgerKeepsUp, Cleared, Ledger
  <2>2. CASE ~OverAnother
    BY <2>2 DEF OverAnother
  <2> QED
    BY <1>1, <2>1, <2>2
<1>4. \A s \in research.summary, r \in Dated(Days) : ~(s.first <= r.day /\ r.day <= s.last)
  <2>1. CASE backtest.force
    BY <2>1 DEF IInv, LedgerInv, LedgerKeepsUp
  <2>2. CASE ~OverAnother
    BY <1>2, <2>2 DEF OverAnother, InWindow, Within
  <2> QED
    BY <1>1, <2>1, <2>2
<1>5. LedgerIsSummarised'
  <2> SUFFICES ASSUME NEW s \in research'.summary, NEW o \in Ledger, NEW r \in research'[o],
                      s.first <= r.day, r.day <= s.last
               PROVE  r.ver = s.ver
    BY DEF LedgerIsSummarised
  <2>1. s \in research.summary /\ (r \in research[o] \/ (o = role /\ r \in Dated(Days)))
    BY DEF Ledger, Roles
  <2>2. r \in research[o]
    BY <1>4, <2>1
  <2> QED
    BY <1>1, <2>1, <2>2 DEF IInv, LedgerInv, LedgerIsSummarised
<1> QED
  BY <1>2, <1>3, <1>5

LEMMA LoadLedgerKeeps ==
    ASSUME IInv, LoadLedger
    PROVE  IInv'
<1>1. /\ UNCHANGED <<refit, merge, raced, ads, accepted, manifest, starts>>
      /\ backtest.at = "load"
  BY DEF LoadLedger, BacktestUnchanged, Outcome
<1>2. /\ backtest \in [at : {"load"}, role : Ledger, window : Windows, ver : Nat,
                       force : BOOLEAN]
      /\ Dated(Days) \subseteq DatedRows
  <2>1. backtest \in [at : {"load"}, role : Ledger, window : Windows, ver : Nat,
                      force : BOOLEAN]
    BY <1>1, BacktestRecord DEF IInv
  <2> QED
    BY <2>1, DatedTyped
<1>3. Tables(research) /\ LedgerKeepsUp /\ LedgerIsSummarised /\ TypeOK
  BY DEF IInv, TypeOK, LedgerInv
<1>4. CASE ~\E t \in research.target : InWindow(t)
  <2>1. UNCHANGED <<research, stacked>> /\ backtest' = Idle
    BY <1>4 DEF LoadLedger, Leave
  <2>2. SameSummaries
    BY <2>1 DEF SameSummaries
  <2>3. LedgerKeepsUp' /\ LedgerIsSummarised'
    BY <1>3, <2>1, <2>2, LedgerStays
  <2>4. BacktestLeaves /\ BacktestOK' /\ stacked' \in BOOLEAN /\ starts' \in Nat /\ Tables(research)'
    BY <1>1, <1>3, <2>1 DEF BacktestLeaves, BacktestOK, TypeOK, Tables
  <2> QED
    BY <2>3, <2>4, BacktestStep DEF IInv
<1>5. CASE \E t \in research.target : InWindow(t)
  <2>1. PICK role \in Ledger : role = backtest.role
    BY <1>2
  <2>2. /\ stacked' = (stacked \/ (~backtest.force /\ OverAnother))
        /\ research' = [research EXCEPT ![role] = research[role] \cup Dated(Days)]
        /\ \/ role = "trade" /\ backtest' = [backtest EXCEPT !.at = "load", !.role = "nav"]
           \/ role = "nav" /\ backtest' = [backtest EXCEPT !.at = "summarise", !.role = "summary"]
    BY <1>5, <2>1 DEF LoadLedger, GoOn, Ledger
  <2>3. role \in Roles /\ RowsFor(role) = DatedRows
    BY RowTypes DEF Roles, Ledger
  <2>4. research[role] \cup Dated(Days) \subseteq RowsFor(role)
    BY <1>2, <1>3, <2>3 DEF Tables
  <2>5. /\ research'[role] = research[role] \cup Dated(Days) /\ Tables(research)'
        /\ \A o \in Roles : o # role => research'[o] = research[o]
    BY <1>3, <2>2, <2>3, <2>4, PutRows
  <2>6. /\ BacktestOK' /\ backtest'.ver = backtest.ver /\ backtest'.window = backtest.window
        /\ backtest'.force = backtest.force
        /\ role = "trade" => backtest'.at = "load" /\ backtest'.role = "nav"
        /\ role = "nav" => backtest'.at = "summarise"
    <3>1. CASE role = "trade" /\ backtest' = [backtest EXCEPT !.at = "load", !.role = "nav"]
      <4>1. /\ backtest' \in [at : {"load"}, role : Ledger, window : Windows, ver : Nat,
                              force : BOOLEAN]
            /\ backtest'.ver = backtest.ver /\ backtest'.window = backtest.window
            /\ backtest'.force = backtest.force /\ backtest'.at = "load" /\ backtest'.role = "nav"
        BY <1>2, <3>1 DEF Ledger
      <4> QED
        BY <3>1, <4>1 DEF BacktestOK
    <3>2. CASE role = "nav" /\ backtest' = [backtest EXCEPT !.at = "summarise", !.role = "summary"]
      <4>1. /\ backtest' \in [at : {"summarise"}, role : {"summary"}, window : Windows, ver : Nat,
                              force : BOOLEAN]
            /\ backtest'.ver = backtest.ver /\ backtest'.window = backtest.window
            /\ backtest'.force = backtest.force /\ backtest'.at = "summarise"
        BY <1>2, <3>2
      <4> QED
        BY <3>2, <4>1 DEF BacktestOK
    <3> QED
      BY <2>2, <3>1, <3>2
  <2>7. \A r : InWindow(r)' <=> InWindow(r)
    BY <2>6 DEF InWindow
  <2>8. stacked' \/ (Own(role)' /\ LedgerIsSummarised')
    BY <1>1, <2>1, <2>2, <2>5, <2>6, <2>7, LoadedAlone DEF Own
  <2>9. LedgerIsSummarised'
    BY <2>8 DEF LedgerIsSummarised
  <2>10. LedgerKeepsUp'
    <3>1. CASE role = "trade"
      <4>1. backtest.force => research'.summary = {} /\ Cleared("nav")'
        BY <1>1, <1>3, <2>5, <2>7, <3>1 DEF LedgerKeepsUp, Cleared, Roles
      <4>2. stacked' \/ Own("trade")'
        BY <2>8, <3>1
      <4> QED
        BY <2>6, <3>1, <4>1, <4>2 DEF LedgerKeepsUp
    <3>2. CASE role = "nav"
      <4>1. stacked' \/ Own("nav")'
        BY <2>8, <3>2
      <4>2. stacked' \/ Own("trade")'
        <5>1. stacked \/ Own("trade")
          BY <1>1, <1>3, <2>1, <3>2 DEF LedgerKeepsUp
        <5>2. stacked => stacked'
          BY <2>2
        <5>3. Own("trade") => Own("trade")'
          BY <2>5, <2>6, <2>7, <3>2 DEF Own, Roles
        <5> QED
          BY <5>1, <5>2, <5>3
      <4> QED
        BY <2>6, <3>2, <4>1, <4>2 DEF LedgerKeepsUp
    <3> QED
      BY <3>1, <3>2 DEF Ledger
  <2>11. BacktestLeaves /\ stacked' \in BOOLEAN /\ starts' \in Nat
    BY <1>1, <1>3, <2>2, <2>5 DEF BacktestLeaves, TypeOK, Roles, Ledger
  <2> QED
    BY <2>5, <2>6, <2>9, <2>10, <2>11, BacktestStep DEF IInv
<1> QED
  BY <1>4, <1>5

LEMMA SummariseKeeps ==
    ASSUME IInv, Summarise
    PROVE  IInv'
<1>1. /\ UNCHANGED <<refit, merge, raced, ads, accepted, manifest, starts, stacked>>
      /\ backtest.at = "summarise" /\ backtest' = Idle
  BY DEF Summarise, BacktestUnchanged, Outcome, Leave
<1>2. /\ backtest \in [at : {"summarise"}, role : {"summary"}, window : Windows, ver : Nat,
                       force : BOOLEAN]
      /\ backtest.window.first \in Nat /\ backtest.window.last \in Nat
  <2>1. backtest \in [at : {"summarise"}, role : {"summary"}, window : Windows, ver : Nat,
                      force : BOOLEAN]
    BY <1>1, BacktestRecord DEF IInv
  <2> QED
    BY <2>1, PromotionAssumption
<1>3. Tables(research) /\ LedgerKeepsUp /\ LedgerIsSummarised /\ TypeOK /\ "summary" \in Roles
  BY DEF IInv, TypeOK, LedgerInv, Roles
<1>4. BacktestOK' /\ stacked' \in BOOLEAN /\ starts' \in Nat
  BY <1>1, <1>3 DEF BacktestOK, TypeOK
<1>5. LedgerKeepsUp'
  <2>1. backtest'.at = "idle"
    BY <1>1 DEF Idle
  <2> QED
    BY <2>1 DEF LedgerKeepsUp
<1>6. CASE research' = research
  <2>1. LedgerIsSummarised'
    BY <1>1, <1>3, <1>6 DEF LedgerIsSummarised
  <2>2. BacktestLeaves /\ Tables(research)'
    BY <1>1, <1>3, <1>6 DEF BacktestLeaves, Tables
  <2> QED
    BY <1>4, <1>5, <2>1, <2>2, BacktestStep DEF IInv
<1>7. CASE research' # research
  <2> DEFINE days == {n.day : n \in {r \in research.nav : InWindow(r)}}
             made(a, b) == [first |-> a, last |-> b, ver |-> backtest.ver, promo |-> 0]
  <2>1. PICK a \in days, b \in days : research' = [research EXCEPT !["summary"] = {made(a, b)}]
    BY <1>7 DEF Summarise
  <2>2. research.nav \subseteq DatedRows /\ research.trade \subseteq DatedRows
    BY <1>3, ResearchRows
  <2>3. a \in Days /\ b \in Days /\ Within(backtest.window, a) /\ Within(backtest.window, b)
    BY <2>2 DEF DatedRows, InWindow
  <2>4. 0 \in Nat
    OBVIOUS
  <2>5. made(a, b) \in SummaryRows
    BY <1>2, <2>3, <2>4 DEF SummaryRows
  <2>6. {made(a, b)} \subseteq RowsFor("summary")
    BY <2>5, RowTypes
  <2>7. /\ research'["summary"] = {made(a, b)} /\ Tables(research)'
        /\ \A o \in Roles : o # "summary" => research'[o] = research[o]
    BY <1>3, <2>1, <2>6, PutRows
  <2>8. LedgerIsSummarised'
    <3> SUFFICES ASSUME ~stacked, NEW role \in Ledger, NEW r \in research[role],
                        a <= r.day, r.day <= b
                 PROVE  r.ver = backtest.ver
      BY <1>1, <2>7 DEF LedgerIsSummarised, Ledger, Roles
    <3>1. r.day \in Nat /\ a \in Nat /\ b \in Nat
      <4>1. r \in DatedRows
        BY <2>2 DEF Ledger
      <4> QED
        BY <2>3, <4>1, PromotionAssumption DEF DatedRows
    <3>2. InWindow(r)
      BY <1>2, <2>3, <3>1 DEF InWindow, Within
    <3>3. Own("trade") /\ Own("nav")
      BY <1>1, <1>3 DEF LedgerKeepsUp
    <3> QED
      BY <3>2, <3>3 DEF Own, Ledger
  <2>9. BacktestLeaves
    BY <1>1, <2>7 DEF BacktestLeaves, Roles
  <2> QED
    BY <1>4, <1>5, <2>7, <2>8, <2>9, BacktestStep DEF IInv
<1> QED
  BY <1>6, <1>7

-----------------------------------------------------------------------------
(* The invariant, and what follows from it.                                 *)

LEMMA InitHolds == Init => IInv
<1> SUFFICES ASSUME Init
             PROVE  IInv
  OBVIOUS
<1>1. /\ refit = Idle /\ merge = Idle /\ backtest = Idle /\ starts = 0
      /\ accepted = FALSE /\ raced = FALSE /\ stacked = FALSE /\ manifest = {}
      /\ refit.at = "idle" /\ merge.at = "idle" /\ backtest.at = "idle"
  BY DEF Init, Idle
<1>2. \A role \in Roles : research[role] = {} /\ ads[role] = {}
  BY DEF Init
<1>3. Tables(research) /\ Tables(ads)
  BY DEF Init, Tables
<1>4. TypeOK
  BY <1>1, <1>3, FS_EmptySet DEF TypeOK, RefitOK, MergeOK, BacktestOK
<1>5. \A z : RowsOf(z) = {} /\ Predictions(z) = {}
  BY <1>2 DEF RowsOf, Predictions, Roles
<1>6. SourceInv
  BY <1>1, <1>5, FS_EmptySet DEF SourceInv, SourcesRegistered, SourcesSingle, TargetClear, DaysOnce
<1>7. LedgerInv
  BY <1>1, <1>2 DEF LedgerInv, LedgerKeepsUp, LedgerIsSummarised, PublishedIsOneBacktest, Roles,
                    Ledger
<1> QED
  BY <1>4, <1>6, <1>7 DEF IInv

\* A step that leaves the backtest, its tables and the published ones alone, or stops it.
LEMMA LedgerAside ==
    ASSUME IInv, TypeOK', SourceInv', backtest' = backtest \/ backtest' = Idle,
           UNCHANGED <<stacked, ads, manifest>>,
           \A role \in Roles \ {"registry", "prediction"} : research'[role] = research[role]
    PROVE  IInv'
<1>1. /\ SameSummaries
      /\ research'.trade = research.trade /\ research'.nav = research.nav
  BY DEF SameSummaries, Roles
<1>2. LedgerKeepsUp' /\ LedgerIsSummarised'
  BY <1>1, LedgerStays DEF IInv, LedgerInv
<1>3. PublishedIsOneBacktest'
  BY PublishedStays DEF IInv, TypeOK, LedgerInv
<1> QED
  BY <1>2, <1>3 DEF IInv, LedgerInv

LEMMA StepKeeps == IInv /\ [Next]_vars => IInv'
<1> SUFFICES ASSUME IInv, [Next]_vars
             PROVE  IInv'
  OBVIOUS
<1> USE DEF IInv
<1>1. CASE Refit
  <2>1. ASSUME NEW y \in Years, NEW forced \in BOOLEAN, StartRefit(y, forced)
        PROVE  IInv'
    BY <2>1, StartRefitKeeps, LedgerAside
  <2>2. ASSUME refit.at # "idle", RefitClear \/ RefitDrop \/ RefitRegister \/ RefitPredict
        PROVE  IInv'
    BY <2>2, RefitTyped, RefitSources, LedgerAside DEF RefitLeaves
  <2> QED
    BY <1>1, <2>1, <2>2 DEF Refit
<1>2. CASE Merge
  <2>1. ASSUME NEW m \in Manifests, NEW forced \in BOOLEAN, StartMerge(m, forced)
        PROVE  IInv'
    BY <2>1, StartMergeKeeps, LedgerAside
  <2>2. ASSUME merge.at # "idle",
               MergeCount \/ MergeDrop \/ MergeClear \/ MergeRegister \/ MergeInsert
        PROVE  IInv'
    BY <2>2, MergeTyped, MergeSources, LedgerAside DEF MergeLeaves
  <2> QED
    BY <1>2, <2>1, <2>2 DEF Merge
<1>3. CASE Backtest
  BY <1>3, StartBacktestKeeps, CheckTargetKeeps, InsertTargetKeeps, ClearLedgerKeeps,
     LoadLedgerKeeps, SummariseKeeps DEF Backtest
<1>4. CASE Stop
  BY <1>4, StopKeeps, LedgerAside
<1>5. CASE Judge
  BY <1>5, JudgeKeeps, LedgerAside
<1>6. ASSUME NEW w \in PromotionWindows, NEW roles \in RoleSets, NEW forced \in BOOLEAN,
             NEW allowUnaccepted \in BOOLEAN, Promote(w, roles, forced, allowUnaccepted)
      PROVE  IInv'
  <2>1. /\ TypeOK' /\ SameSummaries /\ UNCHANGED <<refit, merge, backtest, raced, stacked>>
        /\ \A role \in Roles \ {"registry", "summary"} : research'[role] = research[role]
        /\ \A y \in Years : RowsOf(y)' = RowsOf(y)
    BY <1>6, PromoteTyped
  <2>2. /\ research'.prediction = research.prediction
        /\ research'.trade = research.trade /\ research'.nav = research.nav
    BY <2>1 DEF Roles
  <2>3. SourceInv'
    BY <2>1, <2>2, OthersKeepSources
  <2>4. LedgerKeepsUp' /\ LedgerIsSummarised'
    BY <2>1, <2>2, LedgerStays DEF LedgerInv
  <2>5. PublishedIsOneBacktest'
    BY <1>6, PromotePublishes
  <2> QED
    BY <2>1, <2>3, <2>4, <2>5 DEF LedgerInv
<1>7. CASE UNCHANGED vars
  <2>1. TypeOK'
    BY <1>7 DEF vars, TypeOK, RefitOK, MergeOK, BacktestOK, Tables
  <2>2. SourceInv'
    BY <1>7, OthersKeepSources DEF vars, RowsOf
  <2> QED
    BY <1>7, <2>1, <2>2, LedgerAside DEF vars
<1> QED
  BY <1>1, <1>2, <1>3, <1>4, <1>5, <1>6, <1>7 DEF Next

\* IInv holds in every state: the sources are registered row by row, a merge that writes has
\* its window to itself, and a ledger and its summary are one backtest's.
THEOREM Invariance == Spec => []IInv
  BY InitHolds, StepKeeps, PTL DEF Spec

\* The variables of the yearly refits, the merge, the backtest and the promotion have the
\* values the code can give them.
THEOREM TypeCorrect == Spec => []TypeOK
<1>1. IInv => TypeOK
  BY DEF IInv
<1> QED
  BY <1>1, Invariance, PTL

\* However refits and merges stop and are started again, the continuous run has one
\* prediction of a day, unless a source is rewritten while it is merged.
THEOREM DayIsPredictedOnce == Spec => []SyntheticDaysOnce
<1>1. IInv => SyntheticDaysOnce
  <2> SUFFICES ASSUME IInv, ~raced, NEW d \in Days
               PROVE  Cardinality({p \in Predictions(Synth) : p.day = d}) <= 1
    BY DEF SyntheticDaysOnce
  <2> DEFINE S == {p \in Predictions(Synth) : p.day = d}
  <2>1. \A p, q \in S : p = q
    BY DEF IInv, SourceInv, DaysOnce
  <2>2. S = {} \/ \E x : S = {x}
    BY <2>1
  <2>3. Cardinality(S) = 0 \/ Cardinality(S) = 1
    BY <2>2, FS_EmptySet, FS_Singleton
  <2> QED
    BY <2>3
<1> QED
  BY <1>1, Invariance, PTL

\* What promotions of all roles have published is of the backtest its summary was computed
\* from, between whatever statements of a rewrite they fell.
THEOREM PublishedIsWhole == Spec => []PublishedIsOneBacktest
<1>1. IInv => PublishedIsOneBacktest
  BY DEF IInv, LedgerInv
<1> QED
  BY <1>1, Invariance, PTL

-----------------------------------------------------------------------------
(* The search: however often it is started, a candidate is written once.    *)

\* The update of a step's status of one candidate.
LEMMA DoneUpdates ==
    ASSUME WorkOK, NEW c \in Candidates, NEW step \in JobSteps, NEW s \in Statuses,
           Done(c, step, s)
    PROVE  /\ status' \in [prepare : Statuses, train : Statuses,
                           select : [Candidates -> Statuses],
                           backtest : [Candidates -> Statuses]]
           /\ status'.prepare = status.prepare
           /\ \A d \in Candidates :
                 /\ status'.select[d] = IF step = "select" /\ d = c THEN s
                                        ELSE status.select[d]
                 /\ status'.backtest[d] = IF step = "backtest" /\ d = c THEN s
                                          ELSE status.backtest[d]
<1>1. status \in [prepare : Statuses, train : Statuses, select : [Candidates -> Statuses],
                  backtest : [Candidates -> Statuses]]
  BY DEF WorkOK
<1>2. CASE step = "select"
  <2>1. status' = [status EXCEPT !.select = [status.select EXCEPT ![c] = s]]
    BY <1>2 DEF Done
  <2> QED
    BY <1>1, <1>2, <2>1
<1>3. CASE step = "backtest"
  <2>1. status' = [status EXCEPT !.backtest = [status.backtest EXCEPT ![c] = s]]
    BY <1>3 DEF Done
  <2> QED
    BY <1>1, <1>3, <2>1
<1> QED
  BY <1>2, <1>3 DEF JobSteps

\* What the invariant says of a candidate stays true while nothing of it changes and the
\* orchestrator stays in its phase.
LEMMA CandidateStands ==
    ASSUME NEW c \in Candidates, CandidateOK(c),
           UNCHANGED <<pc, force, resume, runs, redone, matrix>>,
           out'[c] = out[c], job'[c] = job[c], thread'[c] = thread[c], rank'[c] = rank[c],
           status'.prepare = status.prepare, status'.select[c] = status.select[c],
           status'.backtest[c] = status.backtest[c]
    PROVE  CandidateOK(c)'
<1>1. FirstWriteGuards(c)'
  BY DEF CandidateOK, FirstWriteGuards
<1>2. ThreadHasItsJob(c)'
  BY DEF CandidateOK, ThreadHasItsJob
<1>3. ~redone => OfThisMatrix(c)'
  BY DEF CandidateOK, OfThisMatrix, Selected, Tested
<1>4. ~redone => NothingBefore(c)'
  BY DEF CandidateOK, NothingBefore, Prepared
<1> QED
  BY <1>1, <1>2, <1>3, <1>4 DEF CandidateOK

\* What the end of a job does to its candidate and to the thread that waits for it.
LEMMA JobEnding ==
    ASSUME WorkOK, NEW c \in Candidates, CandidateOK(c), job[c] # "none",
           NEW ok \in BOOLEAN, JobEnds(c, ok),
           UNCHANGED <<pc, force, resume, runs, redone, matrix, rank>>,
           out'[c].stamp = out[c].stamp, out'[c].tested = out[c].tested,
           FirstWriteGuards(c)',
           ok /\ job[c] \in SelectWrites /\ ~redone => Selected(c),
           ok /\ job[c] \in BacktestWrites /\ ~redone => Tested(c)
    PROVE  /\ WorkOK' /\ CandidateOK(c)' /\ status'.prepare = status.prepare
           /\ \A d \in Candidates : d # c =>
                 /\ job'[d] = job[d] /\ thread'[d] = thread[d]
                 /\ status'.select[d] = status.select[d]
                 /\ status'.backtest[d] = status.backtest[d]
<1>1. job' = [job EXCEPT ![c] = "none"]
  BY DEF JobEnds
<1>2. /\ job \in [Candidates -> {"none"} \cup SelectWrites \cup BacktestWrites]
      /\ thread \in [Candidates -> ThreadStates]
  BY DEF WorkOK
<1>3. job' \in [Candidates -> {"none"} \cup SelectWrites \cup BacktestWrites]
      /\ job'[c] = "none" /\ \A d \in Candidates : d # c => job'[d] = job[d]
  BY <1>1, <1>2
<1>4. CASE ~Waiting(c)
  <2>1. UNCHANGED <<status, thread>>
    BY <1>4 DEF JobEnds
  <2>2. ThreadHasItsJob(c)'
    BY <1>3, <1>4, <2>1 DEF CandidateOK, ThreadHasItsJob, Waiting
  <2>3. ~redone => OfThisMatrix(c)'
    BY <1>3, <2>1 DEF CandidateOK, OfThisMatrix, Selected, Tested, SelectWrites, BacktestWrites
  <2>4. ~redone => NothingBefore(c)'
    BY <1>3, <2>1 DEF CandidateOK, NothingBefore, Prepared
  <2> QED
    BY <1>2, <1>3, <2>1, <2>2, <2>3, <2>4 DEF CandidateOK, WorkOK
<1>5. CASE Waiting(c)
  <2> DEFINE step == IF thread[c] = "selecting" THEN "select" ELSE "backtest"
             s == IF ok THEN "succeeded" ELSE "failed"
             t == IF ok THEN After(step) ELSE "failed"
  <2>1. Done(c, step, s) /\ thread' = [thread EXCEPT ![c] = t]
    BY <1>5 DEF JobEnds
  <2>2. t \in ThreadStates /\ t \in {"backtest", "done", "failed"}
    BY DEF ThreadStates, After
  <2>3. /\ thread' \in [Candidates -> ThreadStates] /\ thread'[c] = t
        /\ \A d \in Candidates : d # c => thread'[d] = thread[d]
    BY <1>2, <2>1, <2>2
  <2>4. step \in JobSteps /\ s \in Statuses
    BY DEF JobSteps, Statuses
  <2>5. /\ status' \in [prepare : Statuses, train : Statuses,
                        select : [Candidates -> Statuses],
                        backtest : [Candidates -> Statuses]]
        /\ status'.prepare = status.prepare
        /\ \A d \in Candidates :
              /\ status'.select[d] = IF step = "select" /\ d = c THEN s
                                     ELSE status.select[d]
              /\ status'.backtest[d] = IF step = "backtest" /\ d = c THEN s
                                       ELSE status.backtest[d]
    BY <2>1, <2>4, DoneUpdates
  <2>6. /\ thread[c] = "selecting" => job[c] \in SelectWrites
        /\ thread[c] = "backtesting" => job[c] \in BacktestWrites
        /\ thread[c] \in {"selecting", "backtesting"} /\ pc = "topk"
    BY <1>5 DEF CandidateOK, ThreadHasItsJob, Waiting
  <2>7. ThreadHasItsJob(c)'
    BY <1>3, <2>2, <2>3, <2>6 DEF CandidateOK, ThreadHasItsJob
  <2>8. ~redone => OfThisMatrix(c)'
    <3> SUFFICES ASSUME ~redone PROVE OfThisMatrix(c)'
      OBVIOUS
    <3>1. /\ Selected(c)' <=> Selected(c)
          /\ Tested(c)' <=> Tested(c)
      BY DEF Selected, Tested
    <3>2. CASE ok
      <4>1. CASE thread[c] = "selecting"
        <5>1. Selected(c) /\ t = "backtest" /\ status'.backtest[c] = status.backtest[c]
          BY <2>5, <2>6, <3>2, <4>1 DEF After
        <5> QED
          BY <1>3, <2>3, <3>1, <5>1 DEF OfThisMatrix, CandidateOK, SelectWrites, BacktestWrites
      <4>2. CASE thread[c] = "backtesting"
        <5>1. Tested(c) /\ t = "done" /\ status'.select[c] = status.select[c]
          BY <2>5, <2>6, <3>2, <4>2 DEF After
        <5> QED
          BY <1>3, <2>3, <3>1, <5>1 DEF OfThisMatrix, CandidateOK, Tested, SelectWrites, BacktestWrites
      <4> QED
        BY <2>6, <4>1, <4>2
    <3>3. CASE ~ok
      <4>1. /\ t = "failed"
            /\ status'.select[c] = "succeeded" => status.select[c] = "succeeded"
            /\ status'.backtest[c] = "succeeded" => status.backtest[c] = "succeeded"
        BY <2>5, <3>3
      <4> QED
        BY <1>3, <2>3, <3>1, <4>1 DEF OfThisMatrix, CandidateOK, SelectWrites, BacktestWrites
    <3> QED
      BY <3>2, <3>3
  <2>9. ~redone => NothingBefore(c)'
    BY <1>3, <2>5 DEF CandidateOK, NothingBefore, Prepared
  <2> QED
    BY <1>3, <2>3, <2>5, <2>7, <2>8, <2>9 DEF CandidateOK, WorkOK
<1> QED
  BY <1>4, <1>5

\* A step on one candidate, in the same phase of the search, keeps the invariant if it
\* keeps it for that candidate and what was tested on this matrix still is.
LEMMA OneCandidate ==
    ASSUME SearchInv, NEW c \in Candidates,
           UNCHANGED <<pc, control, matrix, rank, comparison, launched>>,
           patched' \subseteq Candidates \X {"registry", "summary"},
           WorkOK', CandidateOK(c)', status'.prepare = status.prepare,
           out' \in [Candidates -> Output], ~redone /\ Tested(c) => Tested(c)',
           \A d \in Candidates : d # c =>
              /\ out'[d] = out[d] /\ job'[d] = job[d] /\ thread'[d] = thread[d]
              /\ status'.select[d] = status.select[d]
              /\ status'.backtest[d] = status.backtest[d]
    PROVE  SearchInv'
<1>1. UNCHANGED <<force, resume, runs, redone>>
  BY DEF control
<1>2. SearchTypeOK'
  BY <1>1 DEF SearchInv, SearchTypeOK
<1>3. ASSUME NEW d \in Candidates
      PROVE  CandidateOK(d)'
  <2>1. CASE d = c
    BY <2>1
  <2>2. CASE d # c
    <3>1. CandidateOK(d)
      BY DEF SearchInv
    <3>2. rank'[d] = rank[d]
      OBVIOUS
    <3> QED
      BY <1>1, <2>2, <3>1, <3>2, CandidateStands
  <2> QED
    BY <2>1, <2>2
<1>4. (pc # "down" => runs > 0)' /\ (~redone => MatrixIsPrepared)'
  BY <1>1 DEF SearchInv, MatrixIsPrepared, Prepared
<1>5. WrittenOnce'
  BY DEF Output, WrittenOnce
<1>6. ComparedAreCurrent'
  <2> SUFFICES ASSUME (comparison # NoComparison /\ ~redone)', NEW d \in comparison'.rows
               PROVE  (out[d].stamp = matrix /\ out[d].tested = matrix)'
    BY DEF ComparedAreCurrent
  <2>1. d \in Candidates /\ out[d].stamp = matrix /\ out[d].tested = matrix /\ ~redone
    BY <1>1 DEF SearchInv, SearchTypeOK, ComparedAreCurrent
  <2>2. Tested(d)'
    BY <2>1 DEF Tested, Selected
  <2> QED
    BY <2>2 DEF Tested, Selected
<1> QED
  BY <1>2, <1>3, <1>4, <1>5, <1>6 DEF SearchInv

LEMMA OutputOf ==
    ASSUME SearchInv, NEW c \in Candidates
    PROVE  /\ out \in [Candidates -> Output] /\ out[c] \in Output /\ CandidateOK(c)
           /\ WorkOK /\ force \in BOOLEAN
           /\ patched \subseteq Candidates \X {"registry", "summary"}
  BY DEF SearchInv, SearchTypeOK

\* A job that ends, having written r last.
LEMMA LastWrite ==
    ASSUME SearchInv, NEW c \in Candidates, job[c] # "none", NEW ok \in BOOLEAN,
           JobEnds(c, ok), OnlyJob, NEW r \in Output, out' = [out EXCEPT ![c] = r],
           r.stamp = out[c].stamp, r.tested = out[c].tested, FirstWriteGuards(c)',
           ok /\ job[c] \in SelectWrites /\ ~redone => Selected(c),
           ok /\ job[c] \in BacktestWrites /\ ~redone => Tested(c)
    PROVE  SearchInv'
<1>1. /\ out \in [Candidates -> Output] /\ CandidateOK(c) /\ WorkOK
      /\ patched \subseteq Candidates \X {"registry", "summary"}
  BY OutputOf
<1>2. /\ UNCHANGED <<pc, control, matrix, rank, patched, comparison, launched>>
      /\ UNCHANGED <<pc, force, resume, runs, redone, matrix, rank>>
  BY DEF OnlyJob, inputs, control
<1>3. /\ out' \in [Candidates -> Output] /\ out'[c] = r
      /\ \A d \in Candidates : d # c => out'[d] = out[d]
  BY <1>1
<1>4. /\ WorkOK' /\ CandidateOK(c)' /\ status'.prepare = status.prepare
      /\ \A d \in Candidates : d # c =>
            /\ job'[d] = job[d] /\ thread'[d] = thread[d]
            /\ status'.select[d] = status.select[d]
            /\ status'.backtest[d] = status.backtest[d]
  BY <1>1, <1>2, <1>3, JobEnding
<1>5. Tested(c) => Tested(c)'
  BY <1>2, <1>3 DEF Tested, Selected
<1> QED
  BY <1>1, <1>2, <1>3, <1>4, <1>5, OneCandidate

\* A job that goes on to its next write.
LEMMA NextWrite ==
    ASSUME SearchInv, NEW c \in Candidates, NEW next,
           \/ job[c] \in SelectWrites /\ next \in SelectWrites
           \/ job[c] \in BacktestWrites /\ next \in BacktestWrites,
           Goes(c, next), OnlyJob, NEW r \in Output, out' = [out EXCEPT ![c] = r],
           FirstWriteGuards(c)', ~redone => OfThisMatrix(c)',
           ~redone /\ Tested(c) => Tested(c)'
    PROVE  SearchInv'
<1>1. /\ out \in [Candidates -> Output] /\ CandidateOK(c) /\ WorkOK
      /\ patched \subseteq Candidates \X {"registry", "summary"}
  BY OutputOf
<1>2. /\ UNCHANGED <<pc, control, matrix, rank, patched, comparison, launched>>
      /\ UNCHANGED <<force, resume, runs, redone>> /\ UNCHANGED <<status, thread>>
  BY DEF OnlyJob, inputs, control, Goes
<1>3. /\ out' \in [Candidates -> Output] /\ out'[c] = r
      /\ \A d \in Candidates : d # c => out'[d] = out[d]
  BY <1>1
<1>4. /\ job \in [Candidates -> {"none"} \cup SelectWrites \cup BacktestWrites]
      /\ job' = [job EXCEPT ![c] = next]
      /\ next \in SelectWrites \cup BacktestWrites
  BY <1>1 DEF WorkOK, Goes
<1>5. /\ job' \in [Candidates -> {"none"} \cup SelectWrites \cup BacktestWrites]
      /\ job'[c] = next /\ \A d \in Candidates : d # c => job'[d] = job[d]
  BY <1>4
<1>6. WorkOK'
  BY <1>1, <1>2, <1>5 DEF WorkOK
<1>7. job[c] # "none" /\ ThreadHasItsJob(c)'
  BY <1>1, <1>2, <1>5 DEF CandidateOK, ThreadHasItsJob, SelectWrites, BacktestWrites
<1>8. ~redone => NothingBefore(c)'
  BY <1>1, <1>2, <1>7 DEF CandidateOK, NothingBefore, Prepared
<1>9. CandidateOK(c)'
  BY <1>2, <1>7, <1>8 DEF CandidateOK
<1> QED
  BY <1>1, <1>2, <1>3, <1>5, <1>6, <1>9, OneCandidate

-----------------------------------------------------------------------------
(* The writes of the jobs.                                                  *)

LEMMA JobFailsKeeps ==
    ASSUME SearchInv, NEW c \in Candidates, JobFails(c)
    PROVE  SearchInv'
<1>1. /\ out \in [Candidates -> Output] /\ out[c] \in Output /\ CandidateOK(c)
  BY OutputOf
<1>2. /\ job[c] # "none" /\ JobEnds(c, FALSE) /\ OnlyJob /\ UNCHANGED out
  BY DEF JobFails
<1>3. out' = [out EXCEPT ![c] = out[c]] /\ job'[c] = "none" /\ force' = force
  BY <1>1, <1>2 DEF JobEnds, OnlyJob, control, SearchInv, SearchTypeOK, WorkOK
<1>4. FirstWriteGuards(c)'
  BY <1>1, <1>2, <1>3 DEF CandidateOK, FirstWriteGuards
<1> QED
  BY <1>1, <1>2, <1>3, <1>4, LastWrite

LEMMA JobNow ==
    ASSUME SearchInv, NEW c \in Candidates, NEW next,
           \/ Goes(c, next)
           \/ next = "none" /\ \E ok \in BOOLEAN : JobEnds(c, ok)
    PROVE  job'[c] = next
  BY DEF Goes, JobEnds, SearchInv, SearchTypeOK, WorkOK

LEMMA CopyAliasKeeps ==
    ASSUME SearchInv, NEW c \in Candidates, CopyAlias(c)
    PROVE  SearchInv'
<1>1. /\ out \in [Candidates -> Output] /\ out[c] \in Output /\ CandidateOK(c)
      /\ force \in BOOLEAN
  BY OutputOf
<1>2. /\ job[c] = "alias" /\ OnlyJob /\ matrix \in {0} \cup 1..MaxStamp
      /\ force' = force /\ matrix' = matrix /\ redone' = redone
  BY DEF CopyAlias, OnlyJob, control, inputs, SearchInv, SearchTypeOK
<1>3. CASE Loadable /\ (force \/ ~out[c].alias)
  <2> DEFINE r == [out[c] EXCEPT !.model = matrix, !.alias = TRUE,
                                 !.predictions = IF force THEN 0 ELSE @]
  <2>1. out' = [out EXCEPT ![c] = r] /\ Goes(c, "registry")
    BY <1>1, <1>3 DEF CopyAlias
  <2>2. /\ r \in Output /\ r.model = matrix /\ r.alias = TRUE
        /\ r.predictions = (IF force THEN 0 ELSE out[c].predictions)
        /\ r.models = out[c].models /\ r.stamp = out[c].stamp
        /\ r.plan = out[c].plan /\ r.ledger = out[c].ledger
        /\ r.tested = out[c].tested
    BY <1>1, <1>2 DEF Output
  <2> HIDE DEF r
  <2>3. out'[c] = r
    BY <1>1, <2>1
  <2>4. job'[c] = "registry"
    BY <2>1, JobNow
  <2>5. FirstWriteGuards(c)'
    BY <1>1, <1>2, <1>3, <2>2, <2>3, <2>4 DEF CandidateOK, FirstWriteGuards
  <2>6. UNCHANGED <<status, thread>>
    BY <2>1 DEF Goes
  <2>7. /\ ~redone => OfThisMatrix(c)'
        /\ ~redone /\ Tested(c) => Tested(c)'
    BY <1>1, <1>2, <2>2, <2>3, <2>4, <2>6
    DEF CandidateOK, OfThisMatrix, Tested, Selected, BacktestWrites
  <2> QED
    BY <1>2, <2>1, <2>2, <2>5, <2>7, NextWrite DEF SelectWrites
<1>4. CASE ~(Loadable /\ (force \/ ~out[c].alias))
  <2> DEFINE r == [out[c] EXCEPT !.model = IF Loadable THEN matrix ELSE @]
  <2>1. out' = [out EXCEPT ![c] = r] /\ JobEnds(c, FALSE)
    BY <1>1, <1>4 DEF CopyAlias
  <2>2. /\ r \in Output /\ r.alias = out[c].alias
        /\ r.predictions = out[c].predictions
        /\ r.models = out[c].models /\ r.stamp = out[c].stamp
        /\ r.plan = out[c].plan /\ r.ledger = out[c].ledger
        /\ r.tested = out[c].tested
    BY <1>1, <1>2 DEF Output
  <2> HIDE DEF r
  <2>3. out'[c] = r /\ job'[c] = "none"
    BY <1>1, <2>1, JobNow
  <2>4. FirstWriteGuards(c)'
    BY <1>1, <1>2, <2>2, <2>3 DEF CandidateOK, FirstWriteGuards
  <2> QED
    BY <1>2, <2>1, <2>2, <2>4, LastWrite
<1> QED
  BY <1>3, <1>4

LEMMA WriteRegistryKeeps ==
    ASSUME SearchInv, NEW c \in Candidates, WriteRegistry(c)
    PROVE  SearchInv'
<1>1. /\ out \in [Candidates -> Output] /\ out[c] \in Output /\ CandidateOK(c)
      /\ force \in BOOLEAN
  BY OutputOf
<1>2. /\ job[c] = "registry" /\ OnlyJob /\ Goes(c, "predictions")
      /\ force' = force /\ matrix' = matrix /\ redone' = redone
      /\ UNCHANGED <<status, thread>>
  BY DEF WriteRegistry, OnlyJob, control, inputs, Goes
<1> DEFINE r == [out[c] EXCEPT !.models = IF force THEN 1 ELSE @ + 1,
                               !.stamp = out[c].model, !.verdict = "candidate"]
<1>3. out' = [out EXCEPT ![c] = r]
  BY <1>1 DEF WriteRegistry
<1>4. (out[c].models = 0 \/ force) /\ out[c].alias /\ out[c].predictions = 0
  BY <1>1, <1>2 DEF CandidateOK, FirstWriteGuards
<1> DEFINE n == IF force THEN 1 ELSE out[c].models + 1
<1>n. n \in {0, 1} /\ r = [out[c] EXCEPT !.models = n, !.stamp = out[c].model,
                                         !.verdict = "candidate"]
  BY <1>4
<1> HIDE DEF n, r
<1>5. /\ r \in Output /\ r.alias = out[c].alias /\ r.predictions = out[c].predictions
      /\ r.stamp = out[c].model /\ r.plan = out[c].plan
      /\ r.ledger = out[c].ledger /\ r.tested = out[c].tested /\ r.model = out[c].model
  BY <1>1, <1>n DEF Output
<1>6. out'[c] = r /\ job'[c] = "predictions"
  BY <1>1, <1>2, <1>3, JobNow
<1>7. FirstWriteGuards(c)'
  BY <1>1, <1>2, <1>4, <1>5, <1>6 DEF CandidateOK, FirstWriteGuards
<1>8. /\ ~redone => OfThisMatrix(c)'
      /\ ~redone /\ Tested(c) => Tested(c)'
  BY <1>1, <1>2, <1>5, <1>6
  DEF CandidateOK, OfThisMatrix, Tested, Selected, BacktestWrites
<1> QED
  BY <1>2, <1>3, <1>5, <1>7, <1>8, NextWrite DEF SelectWrites

LEMMA WritePredictionsKeeps ==
    ASSUME SearchInv, NEW c \in Candidates, WritePredictions(c)
    PROVE  SearchInv'
<1>1. /\ out \in [Candidates -> Output] /\ out[c] \in Output /\ CandidateOK(c)
      /\ force \in BOOLEAN
  BY OutputOf
<1>2. /\ job[c] = "predictions" /\ OnlyJob /\ JobEnds(c, TRUE) /\ force' = force
  BY DEF WritePredictions, OnlyJob, control
<1> DEFINE r == [out[c] EXCEPT !.predictions = @ + 1]
<1>3. out' = [out EXCEPT ![c] = r]
  BY <1>1 DEF WritePredictions
<1>4. out[c].predictions = 0 /\ out[c].alias
  BY <1>1, <1>2 DEF CandidateOK, FirstWriteGuards
<1> DEFINE n == out[c].predictions + 1
<1>n. n \in {0, 1} /\ r = [out[c] EXCEPT !.predictions = n]
  BY <1>4
<1> HIDE DEF n, r
<1>5. /\ r \in Output /\ r.alias = out[c].alias /\ r.models = out[c].models
      /\ r.stamp = out[c].stamp /\ r.plan = out[c].plan
      /\ r.ledger = out[c].ledger /\ r.tested = out[c].tested
  BY <1>1, <1>n DEF Output
<1>6. out'[c] = r /\ job'[c] = "none"
  BY <1>1, <1>2, <1>3, JobNow
<1>7. FirstWriteGuards(c)'
  BY <1>1, <1>2, <1>4, <1>5, <1>6 DEF CandidateOK, FirstWriteGuards
<1>8. ~redone => Selected(c)
  BY <1>1, <1>2 DEF CandidateOK, OfThisMatrix
<1>9. job[c] \notin BacktestWrites /\ job[c] # "none"
  BY <1>2 DEF BacktestWrites
<1> QED
  BY <1>2, <1>3, <1>5, <1>7, <1>8, <1>9, LastWrite

LEMMA BuildPlanKeeps ==
    ASSUME SearchInv, NEW c \in Candidates, BuildPlan(c)
    PROVE  SearchInv'
<1>1. /\ out \in [Candidates -> Output] /\ out[c] \in Output /\ CandidateOK(c)
      /\ force \in BOOLEAN
  BY OutputOf
<1>2. /\ job[c] = "plan" /\ OnlyJob
      /\ force' = force /\ matrix' = matrix /\ redone' = redone
  BY DEF BuildPlan, OnlyJob, control, inputs
<1>3. CASE out[c].plan /\ ~force
  <2>1. JobEnds(c, FALSE) /\ UNCHANGED out
    BY <1>3 DEF BuildPlan
  <2>2. JobFails(c)
    BY <1>2, <2>1 DEF JobFails
  <2> QED
    BY <2>2, JobFailsKeeps
<1>4. CASE ~(out[c].plan /\ ~force)
  <2> DEFINE r == [out[c] EXCEPT !.plan = TRUE]
  <2>1. out' = [out EXCEPT ![c] = r] /\ Goes(c, "ledger")
    BY <1>1, <1>4 DEF BuildPlan
  <2>2. /\ r \in Output /\ r.alias = out[c].alias /\ r.plan = TRUE
        /\ r.predictions = out[c].predictions
        /\ r.models = out[c].models /\ r.stamp = out[c].stamp
        /\ r.ledger = out[c].ledger /\ r.tested = out[c].tested
    BY <1>1, <1>2 DEF Output
  <2> HIDE DEF r
  <2>3. out'[c] = r /\ job'[c] = "ledger" /\ UNCHANGED <<status, thread>>
    BY <1>1, <2>1, JobNow DEF Goes
  <2>4. FirstWriteGuards(c)'
    BY <1>1, <1>2, <1>4, <2>2, <2>3 DEF CandidateOK, FirstWriteGuards
  <2>5. /\ ~redone => OfThisMatrix(c)'
        /\ ~redone /\ Tested(c) => Tested(c)'
    BY <1>1, <1>2, <2>2, <2>3
    DEF CandidateOK, OfThisMatrix, Tested, Selected, BacktestWrites
  <2> QED
    BY <1>2, <2>1, <2>2, <2>4, <2>5, NextWrite DEF BacktestWrites
<1> QED
  BY <1>3, <1>4

LEMMA RunLedgerKeeps ==
    ASSUME SearchInv, NEW c \in Candidates, RunLedger(c)
    PROVE  SearchInv'
<1>1. /\ out \in [Candidates -> Output] /\ out[c] \in Output /\ CandidateOK(c)
      /\ force \in BOOLEAN
  BY OutputOf
<1>2. /\ job[c] = "ledger" /\ OnlyJob /\ Goes(c, "summary")
      /\ force' = force /\ matrix' = matrix /\ redone' = redone
      /\ UNCHANGED <<status, thread>>
  BY DEF RunLedger, OnlyJob, control, inputs, Goes
<1> DEFINE r == [out[c] EXCEPT !.ledger = IF force THEN 1 ELSE @ + 1,
                               !.tested = out[c].stamp,
                               !.merit = IF force THEN "none" ELSE @,
                               !.summaryVerdict = IF force THEN "none" ELSE @]
<1>3. out' = [out EXCEPT ![c] = r]
  BY <1>1 DEF RunLedger
<1>4. (out[c].ledger = 0 \/ force) /\ out[c].plan
  BY <1>1, <1>2 DEF CandidateOK, FirstWriteGuards
<1> DEFINE n == IF force THEN 1 ELSE out[c].ledger + 1
           m == IF force THEN "none" ELSE out[c].merit
           v == IF force THEN "none" ELSE out[c].summaryVerdict
<1>n. n \in {0, 1} /\ r = [out[c] EXCEPT !.ledger = n, !.tested = out[c].stamp,
                                         !.merit = m, !.summaryVerdict = v]
  BY <1>4
<1>m. /\ out[c].merit \in {"none"} \cup Merits
      /\ out[c].summaryVerdict \in {"none", "failed"} \cup Merits
  BY <1>1 DEF Output
<1>v. m \in {"none"} \cup Merits /\ v \in {"none", "failed"} \cup Merits
  BY <1>m
<1> HIDE DEF n, m, v, r
<1>5. /\ r \in Output /\ r.alias = out[c].alias /\ r.predictions = out[c].predictions
      /\ r.models = out[c].models /\ r.stamp = out[c].stamp /\ r.plan = out[c].plan
      /\ r.tested = out[c].stamp /\ r.model = out[c].model
  BY <1>1, <1>n, <1>v DEF Output
<1>6. out'[c] = r /\ job'[c] = "summary"
  BY <1>1, <1>2, <1>3, JobNow
<1>7. FirstWriteGuards(c)'
  BY <1>1, <1>2, <1>4, <1>5, <1>6 DEF CandidateOK, FirstWriteGuards
<1>8. /\ ~redone => OfThisMatrix(c)'
      /\ ~redone /\ Tested(c) => Tested(c)'
  BY <1>1, <1>2, <1>5, <1>6
  DEF CandidateOK, OfThisMatrix, Tested, Selected, BacktestWrites
<1> QED
  BY <1>2, <1>3, <1>5, <1>7, <1>8, NextWrite DEF BacktestWrites

LEMMA WriteSummaryKeeps ==
    ASSUME SearchInv, NEW c \in Candidates, WriteSummary(c)
    PROVE  SearchInv'
<1>1. /\ out \in [Candidates -> Output] /\ out[c] \in Output /\ CandidateOK(c)
      /\ force \in BOOLEAN
  BY OutputOf
<1>2. /\ job[c] = "summary" /\ OnlyJob
      /\ force' = force /\ matrix' = matrix /\ redone' = redone
  BY DEF WriteSummary, OnlyJob, control, inputs
<1>3. CASE out[c].merit # "none" /\ ~force
  <2>1. JobEnds(c, FALSE) /\ UNCHANGED out
    BY <1>3 DEF WriteSummary
  <2>2. JobFails(c)
    BY <1>2, <2>1 DEF JobFails
  <2> QED
    BY <2>2, JobFailsKeeps
<1>4. CASE ~(out[c].merit # "none" /\ ~force)
  <2>1. PICK m \in Merits : out' = [out EXCEPT ![c].merit = m, ![c].summaryVerdict = "none"]
    BY <1>4 DEF WriteSummary
  <2> DEFINE r == [out[c] EXCEPT !.merit = m, !.summaryVerdict = "none"]
  <2>2. out' = [out EXCEPT ![c] = r] /\ Goes(c, "report")
    BY <1>1, <1>4, <2>1 DEF WriteSummary
  <2>3. /\ r \in Output /\ r.alias = out[c].alias /\ r.plan = out[c].plan
        /\ r.predictions = out[c].predictions
        /\ r.models = out[c].models /\ r.stamp = out[c].stamp
        /\ r.ledger = out[c].ledger /\ r.tested = out[c].tested
    BY <1>1, <1>2 DEF Output
  <2> HIDE DEF r
  <2>4. out'[c] = r /\ job'[c] = "report" /\ UNCHANGED <<status, thread>>
    BY <1>1, <2>2, JobNow DEF Goes
  <2>5. FirstWriteGuards(c)'
    BY <1>1, <1>2, <1>4, <2>3, <2>4 DEF CandidateOK, FirstWriteGuards
  <2>6. /\ ~redone => OfThisMatrix(c)'
        /\ ~redone /\ Tested(c) => Tested(c)'
    BY <1>1, <1>2, <2>3, <2>4
    DEF CandidateOK, OfThisMatrix, Tested, Selected, BacktestWrites
  <2> QED
    BY <1>2, <2>2, <2>3, <2>5, <2>6, NextWrite DEF BacktestWrites
<1> QED
  BY <1>3, <1>4

LEMMA ReportKeeps ==
    ASSUME SearchInv, NEW c \in Candidates, Report(c)
    PROVE  SearchInv'
<1>1. /\ out \in [Candidates -> Output] /\ out[c] \in Output /\ CandidateOK(c)
  BY OutputOf
<1>2. /\ job[c] = "report" /\ JobEnds(c, TRUE) /\ OnlyJob /\ UNCHANGED out
      /\ force' = force
  BY DEF Report, OnlyJob, control
<1>3. out' = [out EXCEPT ![c] = out[c]] /\ job'[c] = "none"
  BY <1>1, <1>2, JobNow
<1>4. FirstWriteGuards(c)'
  BY <1>1, <1>2, <1>3 DEF CandidateOK, FirstWriteGuards
<1>5. job[c] \notin SelectWrites /\ job[c] # "none" /\ (~redone => Tested(c))
  BY <1>1, <1>2 DEF SelectWrites, CandidateOK, OfThisMatrix
<1> QED
  BY <1>1, <1>2, <1>3, <1>4, <1>5, LastWrite

-----------------------------------------------------------------------------
(* The steps of the orchestrator.                                           *)

LEMMA ThreadStepKeeps ==
    ASSUME SearchInv, NEW c \in Candidates, ThreadStep(c)
    PROVE  SearchInv'
<1> DEFINE step == thread[c]
<1>1. /\ out \in [Candidates -> Output] /\ CandidateOK(c) /\ WorkOK
      /\ patched \subseteq Candidates \X {"registry", "summary"}
  BY OutputOf
<1>2. /\ pc = "topk" /\ step \in JobSteps
      /\ UNCHANGED <<pc, control, matrix, rank, patched, comparison, launched, out>>
      /\ UNCHANGED <<force, resume, runs, redone>>
  BY DEF ThreadStep, control, inputs
<1>3. /\ job \in [Candidates -> {"none"} \cup SelectWrites \cup BacktestWrites]
      /\ thread \in [Candidates -> ThreadStates]
  BY <1>1 DEF WorkOK
<1>4. ~redone => Prepared
  BY <1>2 DEF SearchInv, MatrixIsPrepared
<1>5. Tested(c) => Tested(c)'
  BY <1>2 DEF Tested, Selected
<1>6. FirstWriteGuards(c) /\ ThreadHasItsJob(c) /\ rank[c] > 0 /\ (~redone => OfThisMatrix(c))
  BY <1>1, <1>2 DEF CandidateOK, ThreadHasItsJob, JobSteps
<1>7. /\ Selected(c)' <=> Selected(c)
      /\ Tested(c)' <=> Tested(c)
  BY <1>2 DEF Selected, Tested
<1>8. CASE ThreadSkips(c, step)
  <2>1. /\ thread' = [thread EXCEPT ![c] = After(step)] /\ UNCHANGED <<status, job>>
        /\ status[step][c] = "succeeded"
    BY <1>8 DEF ThreadSkips
  <2>2. After(step) \in ThreadStates /\ After(step) \in {"backtest", "done"}
    BY DEF After, ThreadStates
  <2>3. /\ thread' \in [Candidates -> ThreadStates] /\ thread'[c] = After(step)
        /\ \A d \in Candidates : d # c => thread'[d] = thread[d]
    BY <1>3, <2>1, <2>2
  <2>4. WorkOK'
    BY <1>1, <2>1, <2>3 DEF WorkOK
  <2>5. FirstWriteGuards(c)' /\ ThreadHasItsJob(c)'
    BY <1>2, <1>6, <2>1, <2>2, <2>3 DEF FirstWriteGuards, ThreadHasItsJob
  <2>6. ~redone => OfThisMatrix(c)'
    <3>1. CASE step = "select"
      <4>1. status.select[c] = "succeeded" /\ After(step) = "backtest"
        BY <2>1, <3>1 DEF After
      <4> QED
        BY <1>2, <1>6, <1>7, <2>1, <2>3, <4>1 DEF OfThisMatrix
    <3>2. CASE step = "backtest"
      <4>1. status.backtest[c] = "succeeded" /\ After(step) = "done"
        BY <2>1, <3>2 DEF After
      <4> QED
        BY <1>2, <1>6, <1>7, <2>1, <2>3, <4>1 DEF OfThisMatrix
    <3> QED
      BY <1>2, <3>1, <3>2 DEF JobSteps
  <2>7. ~redone => NothingBefore(c)'
    BY <1>4, <2>1 DEF NothingBefore, Prepared
  <2>8. CandidateOK(c)'
    BY <1>2, <2>5, <2>6, <2>7 DEF CandidateOK
  <2> QED
    BY <1>1, <1>2, <1>5, <2>1, <2>3, <2>4, <2>8, OneCandidate
<1>9. CASE ThreadRefused(c, step)
  <2>1. /\ thread' = [thread EXCEPT ![c] = "failed"] /\ UNCHANGED job
        /\ Done(c, step, "cancelled")
    BY <1>9 DEF ThreadRefused
  <2>2. /\ thread' \in [Candidates -> ThreadStates] /\ thread'[c] = "failed"
        /\ \A d \in Candidates : d # c => thread'[d] = thread[d]
    BY <1>3, <2>1 DEF ThreadStates
  <2>3. "cancelled" \in Statuses
    BY DEF Statuses
  <2>4. /\ status' \in [prepare : Statuses, train : Statuses,
                        select : [Candidates -> Statuses],
                        backtest : [Candidates -> Statuses]]
        /\ status'.prepare = status.prepare
        /\ \A d \in Candidates :
              /\ status'.select[d] = IF step = "select" /\ d = c THEN "cancelled"
                                     ELSE status.select[d]
              /\ status'.backtest[d] = IF step = "backtest" /\ d = c THEN "cancelled"
                                       ELSE status.backtest[d]
    BY <1>1, <1>2, <2>1, <2>3, DoneUpdates
  <2>5. WorkOK'
    BY <1>3, <2>1, <2>2, <2>4 DEF WorkOK
  <2>6. FirstWriteGuards(c)' /\ ThreadHasItsJob(c)'
    BY <1>2, <1>6, <2>1, <2>2 DEF FirstWriteGuards, ThreadHasItsJob
  <2>7. ~redone => OfThisMatrix(c)'
    BY <1>2, <1>6, <1>7, <2>1, <2>2, <2>4 DEF OfThisMatrix
  <2>8. ~redone => NothingBefore(c)'
    BY <1>4, <2>4 DEF NothingBefore, Prepared
  <2>9. CandidateOK(c)'
    BY <1>2, <2>6, <2>7, <2>8 DEF CandidateOK
  <2> QED
    BY <1>1, <1>2, <1>5, <2>1, <2>2, <2>4, <2>5, <2>9, OneCandidate
<1>10. CASE ThreadSubmits(c, step)
  <2> DEFINE doing == Doing(step)
             first == FirstWrite(step)
  <2>1. /\ thread' = [thread EXCEPT ![c] = doing] /\ job' = [job EXCEPT ![c] = first]
        /\ Done(c, step, "running") /\ job[c] = "none"
    BY <1>10 DEF ThreadSubmits
  <2>2. /\ doing \in ThreadStates
        /\ \/ doing = "selecting" /\ first = "alias" /\ step = "select"
           \/ doing = "backtesting" /\ first = "plan" /\ step = "backtest"
        /\ first \in {"none"} \cup SelectWrites \cup BacktestWrites
    BY <1>2 DEF JobSteps, Doing, FirstWrite, ThreadStates, SelectWrites, BacktestWrites
  <2> HIDE DEF doing, first
  <2>3. /\ thread' \in [Candidates -> ThreadStates] /\ thread'[c] = doing
        /\ \A d \in Candidates : d # c => thread'[d] = thread[d]
    BY <1>3, <2>1, <2>2
  <2>4. /\ job' \in [Candidates -> {"none"} \cup SelectWrites \cup BacktestWrites]
        /\ job'[c] = first /\ \A d \in Candidates : d # c => job'[d] = job[d]
    BY <1>3, <2>1, <2>2
  <2>5. "running" \in Statuses
    BY DEF Statuses
  <2>6. /\ status' \in [prepare : Statuses, train : Statuses,
                        select : [Candidates -> Statuses],
                        backtest : [Candidates -> Statuses]]
        /\ status'.prepare = status.prepare
        /\ \A d \in Candidates :
              /\ status'.select[d] = IF step = "select" /\ d = c THEN "running"
                                     ELSE status.select[d]
              /\ status'.backtest[d] = IF step = "backtest" /\ d = c THEN "running"
                                       ELSE status.backtest[d]
    BY <1>1, <1>2, <2>1, <2>5, DoneUpdates
  <2>7. WorkOK'
    BY <2>3, <2>4, <2>6 DEF WorkOK
  <2>8. FirstWriteGuards(c)' /\ ThreadHasItsJob(c)'
    BY <1>2, <1>6, <2>2, <2>3, <2>4
    DEF FirstWriteGuards, ThreadHasItsJob, SelectWrites, BacktestWrites
  <2>9. ~redone => OfThisMatrix(c)'
    BY <1>2, <1>6, <1>7, <2>2, <2>3, <2>4, <2>6 DEF OfThisMatrix, BacktestWrites
  <2>10. ~redone => NothingBefore(c)'
    BY <1>4, <2>6 DEF NothingBefore, Prepared
  <2>11. CandidateOK(c)'
    BY <1>2, <2>8, <2>9, <2>10 DEF CandidateOK
  <2> QED
    BY <1>1, <1>2, <1>5, <2>3, <2>4, <2>6, <2>7, <2>11, OneCandidate
<1> QED
  BY <1>8, <1>9, <1>10 DEF ThreadStep

\* A verdict written into one of the two tables changes nothing else of a candidate.
LEMMA PatchKeeps ==
    ASSUME SearchInv, NEW c \in Candidates, NEW r \in Output,
           out' = [out EXCEPT ![c] = r],
           r.alias = out[c].alias, r.plan = out[c].plan, r.models = out[c].models,
           r.predictions = out[c].predictions, r.ledger = out[c].ledger,
           r.model = out[c].model, r.stamp = out[c].stamp, r.tested = out[c].tested,
           NEW table \in {"registry", "summary"}, patched' = patched \cup {<<c, table>>},
           UNCHANGED <<pc, control, inputs, status, rank, thread, job, comparison, launched>>
    PROVE  SearchInv'
<1>1. /\ out \in [Candidates -> Output] /\ CandidateOK(c) /\ WorkOK
      /\ patched \subseteq Candidates \X {"registry", "summary"}
  BY OutputOf
<1>2. /\ UNCHANGED <<pc, control, matrix, rank, comparison, launched>>
      /\ UNCHANGED <<force, resume, runs, redone>> /\ UNCHANGED <<status, thread, job>>
  BY DEF control, inputs
<1>3. /\ out' \in [Candidates -> Output] /\ out'[c] = r
      /\ \A d \in Candidates : d # c => out'[d] = out[d]
  BY <1>1
<1>4. WorkOK'
  BY <1>1, <1>2 DEF WorkOK
<1>5. FirstWriteGuards(c)' /\ ThreadHasItsJob(c)'
  BY <1>1, <1>2, <1>3 DEF CandidateOK, FirstWriteGuards, ThreadHasItsJob
<1>6. /\ ~redone => OfThisMatrix(c)' /\ NothingBefore(c)'
      /\ Tested(c) => Tested(c)'
  BY <1>1, <1>2, <1>3
  DEF CandidateOK, OfThisMatrix, NothingBefore, Prepared, Tested, Selected
<1>7. CandidateOK(c)'
  BY <1>2, <1>5, <1>6 DEF CandidateOK
<1>8. patched' \subseteq Candidates \X {"registry", "summary"}
  BY <1>1
<1> QED
  BY <1>2, <1>3, <1>4, <1>6, <1>7, <1>8, OneCandidate

LEMMA PatchRegistryKeeps ==
    ASSUME SearchInv, NEW c \in Candidates, PatchRegistry(c)
    PROVE  SearchInv'
<1>1. out \in [Candidates -> Output] /\ out[c] \in Output
  BY OutputOf
<1> DEFINE v == Verdict(c)
           r == [out[c] EXCEPT !.verdict = v]
<1>2. out[c].merit \in {"none"} \cup Merits
  BY <1>1 DEF Output
<1>3. v \in {"candidate", "failed"} \cup Merits /\ out' = [out EXCEPT ![c] = r]
  BY <1>1, <1>2 DEF PatchRegistry, Verdict
<1>4. /\ patched' = patched \cup {<<c, "registry">>}
      /\ UNCHANGED <<pc, control, inputs, status, rank, thread, job, comparison, launched>>
  BY DEF PatchRegistry, NextPatch
<1> HIDE DEF v
<1>5. /\ r \in Output /\ r.alias = out[c].alias /\ r.plan = out[c].plan
      /\ r.models = out[c].models /\ r.predictions = out[c].predictions
      /\ r.ledger = out[c].ledger /\ r.model = out[c].model
      /\ r.stamp = out[c].stamp /\ r.tested = out[c].tested
  BY <1>1, <1>3 DEF Output
<1> HIDE DEF r
<1> QED
  BY <1>3, <1>4, <1>5, PatchKeeps

LEMMA PatchSummaryKeeps ==
    ASSUME SearchInv, NEW c \in Candidates, PatchSummary(c)
    PROVE  SearchInv'
<1>1. out \in [Candidates -> Output] /\ out[c] \in Output
  BY OutputOf
<1> DEFINE v == IF out[c].merit = "none" THEN "none" ELSE Verdict(c)
           r == [out[c] EXCEPT !.summaryVerdict = v]
<1>2. out[c].merit \in {"none"} \cup Merits
  BY <1>1 DEF Output
<1>3. v \in {"none", "failed"} \cup Merits /\ out' = [out EXCEPT ![c] = r]
  BY <1>1, <1>2 DEF PatchSummary, Verdict
<1>4. /\ patched' = patched \cup {<<c, "summary">>}
      /\ UNCHANGED <<pc, control, inputs, status, rank, thread, job, comparison, launched>>
  BY DEF PatchSummary, NextPatch
<1> HIDE DEF v
<1>5. /\ r \in Output /\ r.alias = out[c].alias /\ r.plan = out[c].plan
      /\ r.models = out[c].models /\ r.predictions = out[c].predictions
      /\ r.ledger = out[c].ledger /\ r.model = out[c].model
      /\ r.stamp = out[c].stamp /\ r.tested = out[c].tested
  BY <1>1, <1>3 DEF Output
<1> HIDE DEF r
<1> QED
  BY <1>3, <1>4, <1>5, PatchKeeps

\* What a new phase of the search asks of a candidate whose rows, jobs and statuses are as
\* they were: that its thread fits the phase.
LEMMA CandidateInNewPhase ==
    ASSUME NEW c \in Candidates, CandidateOK(c), UNCHANGED <<force, matrix>>,
           redone' \/ ~redone, out'[c] = out[c], job'[c] = job[c],
           status'.prepare = "succeeded" \/ status'.prepare = status.prepare,
           status'.select[c] = status.select[c], status'.backtest[c] = status.backtest[c],
           \/ thread'[c] = "none"
           \/ thread'[c] = "select" /\ rank'[c] > 0 /\ pc' = "topk"
           \/ /\ thread'[c] = thread[c] /\ rank'[c] = rank[c]
              /\ pc' \notin {"prepare", "train", "load"}
              /\ thread[c] \notin {"selecting", "backtesting"}
    PROVE  CandidateOK(c)'
<1>1. FirstWriteGuards(c)'
  BY DEF CandidateOK, FirstWriteGuards
<1>2. ThreadHasItsJob(c)'
  BY DEF CandidateOK, ThreadHasItsJob
<1>3. ~redone' => OfThisMatrix(c)'
  BY DEF CandidateOK, OfThisMatrix, Selected, Tested
<1>4. ~redone' => NothingBefore(c)'
  BY DEF CandidateOK, NothingBefore, Prepared
<1> QED
  BY <1>1, <1>2, <1>3, <1>4 DEF CandidateOK

\* A step from one phase to another keeps the invariant if the search as a whole and the
\* thread of every candidate fit the new phase.
LEMMA NewPhase ==
    ASSUME SearchInv, SearchTypeOK', UNCHANGED <<force, matrix, out, job>>,
           redone' \/ ~redone,
           pc' # "down" => runs' > 0, ~redone' => MatrixIsPrepared',
           status'.prepare = "succeeded" \/ status'.prepare = status.prepare,
           \A c \in Candidates :
              /\ status'.select[c] = status.select[c]
              /\ status'.backtest[c] = status.backtest[c]
              /\ \/ thread'[c] = "none"
                 \/ thread'[c] = "select" /\ rank'[c] > 0 /\ pc' = "topk"
                 \/ /\ thread'[c] = thread[c] /\ rank'[c] = rank[c]
                    /\ pc' \notin {"prepare", "train", "load"}
                    /\ thread[c] \notin {"selecting", "backtesting"},
           \/ comparison' \in {comparison, NoComparison}
           \/ \A c \in comparison'.rows : c \in Candidates /\ thread[c] = "done"
    PROVE  SearchInv'
<1>1. ASSUME NEW c \in Candidates
      PROVE  CandidateOK(c)'
  <2>1. CandidateOK(c)
    BY DEF SearchInv
  <2>2. out'[c] = out[c] /\ job'[c] = job[c]
    OBVIOUS
  <2> QED
    BY <2>1, <2>2, CandidateInNewPhase
<1>2. WrittenOnce'
  BY DEF SearchInv, WrittenOnce
<1>3. ComparedAreCurrent'
  <2> SUFFICES ASSUME (comparison # NoComparison /\ ~redone)', NEW c \in comparison'.rows
               PROVE  (out[c].stamp = matrix /\ out[c].tested = matrix)'
    BY DEF ComparedAreCurrent
  <2>1. comparison' # NoComparison
    BY DEF NoComparison
  <2>2. CASE comparison' = comparison
    BY <2>1, <2>2 DEF SearchInv, ComparedAreCurrent, NoComparison
  <2>3. CASE c \in Candidates /\ thread[c] = "done"
    <3>1. OfThisMatrix(c)
      BY <2>3 DEF SearchInv, CandidateOK
    <3> QED
      BY <2>3, <3>1 DEF OfThisMatrix, Tested, Selected
  <2> QED
    BY <2>1, <2>2, <2>3
<1> QED
  BY <1>1, <1>2, <1>3 DEF SearchInv

LEMMA StartKeeps ==
    ASSUME SearchInv, Start
    PROVE  SearchInv'
<1>1. /\ pc' = "prepare" /\ runs' = runs + 1 /\ resume' \in BOOLEAN
      /\ redone' = (redone \/ (runs > 0 /\ ~resume')) /\ comparison' = NoComparison
      /\ rank' = [c \in Candidates |-> 0] /\ thread' = [c \in Candidates |-> "none"]
      /\ patched' = {}
      /\ UNCHANGED <<force, matrix, artifact, status, job, out, launched>>
  BY DEF Start, Forget
<1>2. /\ SearchTypeOK /\ runs \in Nat /\ redone \in BOOLEAN
      /\ ~redone => MatrixIsPrepared
  BY DEF SearchInv, SearchTypeOK
<1>3. runs' \in Nat /\ runs' > 0 /\ redone' \in BOOLEAN
  BY <1>1, <1>2
<1>4. WorkOK'
  BY <1>1, <1>2 DEF SearchTypeOK, WorkOK, ThreadStates
<1>5. comparison'.rows = {}
  BY <1>1 DEF NoComparison
<1>6. SearchTypeOK'
  BY <1>1, <1>2, <1>3, <1>4, <1>5 DEF SearchTypeOK
<1>7. ~redone' => MatrixIsPrepared'
  <2>0. runs > 0 \/ runs = 0
    BY <1>2
  <2>1. ~redone' => ~redone /\ (runs = 0 \/ resume')
    BY <1>1, <2>0, Zenon
  <2>2. Prepared' <=> Prepared
    BY <1>1 DEF Prepared
  <2>3. runs' # 0
    BY <1>3
  <2> QED
    BY <1>1, <1>2, <2>1, <2>2, <2>3 DEF MatrixIsPrepared
<1> QED
  BY <1>1, <1>3, <1>6, <1>7, NewPhase

LEMMA CrashKeeps ==
    ASSUME SearchInv, Crash \/ (Qa /\ pc' = "down")
    PROVE  SearchInv'
<1>1. /\ pc' = "down" /\ pc # "down" /\ rank' = [c \in Candidates |-> 0]
      /\ UNCHANGED <<force, resume, runs, redone, matrix, status, job, out, launched>>
      /\ comparison' = comparison
      /\ thread' = [c \in Candidates |-> "none"] /\ patched' = {}
  BY DEF Crash, Qa, Forget, control, inputs
<1>2. /\ SearchTypeOK /\ runs \in Nat /\ (~redone => MatrixIsPrepared) /\ runs > 0
  BY <1>1 DEF SearchInv, SearchTypeOK
<1>3. WorkOK'
  BY <1>1, <1>2 DEF SearchTypeOK, WorkOK, ThreadStates
<1>4. SearchTypeOK'
  BY <1>1, <1>2, <1>3 DEF SearchTypeOK
<1>5. ~redone' => MatrixIsPrepared'
  BY <1>1, <1>2 DEF MatrixIsPrepared, Prepared
<1> QED
  BY <1>1, <1>4, <1>5, NewPhase

\* A step of the search itself, as run_step leaves the status table.
LEMMA StepEnding ==
    ASSUME SearchTypeOK, NEW step \in {"prepare", "train"}, NEW next, NEW ok \in BOOLEAN,
           StepEnds(step, next, ok), UNCHANGED <<thread, job>>
    PROVE  /\ WorkOK' /\ status'.select = status.select
           /\ status'.backtest = status.backtest
           /\ \/ ok /\ pc' = next /\ status'[step] = "succeeded"
              \/ pc' = "down" /\ status'[step] # "succeeded"
           /\ step = "train" => status'.prepare = status.prepare
<1>1. PICK v \in Statuses : /\ status' = [status EXCEPT ![step] = v]
                            /\ \/ ok /\ pc' = next /\ v = "succeeded"
                               \/ pc' = "down" /\ v # "succeeded"
  BY DEF StepEnds, Statuses
<1>2. WorkOK
  BY DEF SearchTypeOK
<1>3. CASE step = "prepare"
  <2>1. status' = [status EXCEPT !.prepare = v]
    BY <1>1, <1>3
  <2> QED
    BY <1>1, <1>2, <1>3, <2>1 DEF WorkOK
<1>4. CASE step = "train"
  <2>1. status' = [status EXCEPT !.train = v]
    BY <1>1, <1>4
  <2> QED
    BY <1>1, <1>2, <1>4, <2>1 DEF WorkOK
<1> QED
  BY <1>3, <1>4

LEMMA PrepareKeeps ==
    ASSUME SearchInv, Prepare
    PROVE  SearchInv'
<1>1. /\ pc = "prepare" /\ UNCHANGED <<force, resume, runs, redone>>
      /\ UNCHANGED <<rank, thread, job, out, patched, comparison, launched>>
  BY DEF Prepare, control
<1>2. /\ SearchTypeOK /\ runs \in Nat /\ (~redone => MatrixIsPrepared) /\ runs > 0
      /\ \A c \in Candidates : CandidateOK(c) /\ thread[c] = "none"
      /\ redone \in BOOLEAN
  BY <1>1 DEF SearchInv, SearchTypeOK, CandidateOK, ThreadHasItsJob
<1>3. CASE Skip("prepare", "train")
  <2>1. resume /\ Prepared /\ pc' = "train" /\ UNCHANGED <<status, matrix>>
    BY <1>3 DEF Skip, Prepared, inputs
  <2>2. SearchTypeOK'
    BY <1>1, <1>2, <2>1 DEF SearchTypeOK, WorkOK
  <2>3. ~redone' => MatrixIsPrepared'
    BY <1>1, <1>2, <2>1 DEF MatrixIsPrepared, Prepared
  <2> QED
    BY <1>1, <1>2, <2>1, <2>2, <2>3, NewPhase
<1>4. CASE ~(resume /\ Prepared)
  <2>1. PICK new \in 1..MaxStamp, ok \in BOOLEAN :
           matrix' = (IF ok THEN new ELSE matrix) /\ StepEnds("prepare", "train", ok)
    BY <1>4 DEF Prepare, Skip, Prepared
  <2>2. /\ WorkOK' /\ status'.select = status.select /\ status'.backtest = status.backtest
        /\ \/ ok /\ pc' = "train" /\ Prepared'
           \/ pc' = "down" /\ ~Prepared'
    BY <1>1, <1>2, <2>1, StepEnding DEF Prepared
  <2>3. SearchTypeOK'
    BY <1>1, <1>2, <2>1, <2>2 DEF SearchTypeOK
  <2>4. ~redone => ~Prepared /\ comparison = NoComparison
    BY <1>1, <1>2, <1>4 DEF MatrixIsPrepared, SearchTypeOK
  <2>5. ~redone' => MatrixIsPrepared'
    BY <1>1, <1>2, <2>2, <2>4 DEF MatrixIsPrepared
  <2>6. ASSUME NEW c \in Candidates
        PROVE  CandidateOK(c)'
    <3>1. FirstWriteGuards(c)' /\ ThreadHasItsJob(c)'
      BY <1>1, <1>2 DEF CandidateOK, FirstWriteGuards, ThreadHasItsJob
    <3>2. ASSUME ~redone
          PROVE  NothingBefore(c)' /\ OfThisMatrix(c)'
      <4>1. /\ job[c] = "none" /\ status.select[c] # "succeeded"
            /\ status.backtest[c] # "succeeded" /\ thread[c] = "none"
        BY <1>2, <2>4, <3>2 DEF CandidateOK, NothingBefore
      <4> QED
        BY <1>1, <2>2, <4>1 DEF NothingBefore, OfThisMatrix, BacktestWrites
    <3> QED
      BY <1>1, <3>1, <3>2 DEF CandidateOK
  <2>7. WrittenOnce'
    BY <1>1 DEF SearchInv, WrittenOnce
  <2>8. ComparedAreCurrent'
    BY <1>1, <2>4 DEF ComparedAreCurrent, NoComparison
  <2> QED
    BY <1>1, <1>2, <2>3, <2>5, <2>6, <2>7, <2>8 DEF SearchInv
<1> QED
  BY <1>3, <1>4 DEF Prepare, Prepared

LEMMA TrainKeeps ==
    ASSUME SearchInv, Train
    PROVE  SearchInv'
<1>1. /\ pc = "train" /\ UNCHANGED <<force, resume, runs, redone>>
      /\ UNCHANGED <<rank, thread, job, out, patched, comparison, launched>>
  BY DEF Train, control
<1>2. /\ SearchTypeOK /\ runs \in Nat /\ (~redone => MatrixIsPrepared) /\ runs > 0
      /\ \A c \in Candidates : thread[c] = "none"
  BY <1>1 DEF SearchInv, SearchTypeOK, CandidateOK, ThreadHasItsJob
<1>3. /\ UNCHANGED matrix /\ pc' \in {"load", "down"} /\ WorkOK'
      /\ status'.select = status.select /\ status'.backtest = status.backtest
      /\ status'.prepare = status.prepare
  <2>1. CASE Skip("train", "load")
    BY <1>1, <1>2, <2>1 DEF Skip, inputs, SearchTypeOK, WorkOK
  <2>2. CASE ~Skip("train", "load")
    <3>1. UNCHANGED matrix /\ \E ok \in BOOLEAN : StepEnds("train", "load", ok)
      BY <2>2 DEF Train
    <3> QED
      BY <1>1, <1>2, <3>1, StepEnding
  <2> QED
    BY <2>1, <2>2
<1>4. SearchTypeOK'
  BY <1>1, <1>2, <1>3 DEF SearchTypeOK
<1>5. ~redone' => MatrixIsPrepared'
  BY <1>1, <1>2, <1>3 DEF MatrixIsPrepared, Prepared
<1> QED
  BY <1>1, <1>2, <1>3, <1>4, <1>5, NewPhase

LEMMA ShortlistKeeps ==
    ASSUME SearchInv, Shortlist
    PROVE  SearchInv'
<1>1. /\ pc = "load" /\ UNCHANGED <<force, resume, runs, redone, matrix>>
      /\ UNCHANGED <<status, job, out, patched, comparison, launched>>
      /\ rank' = IF Loadable THEN RankCandidates ELSE rank
      /\ pc' = IF \E c \in Candidates : rank'[c] > 0 THEN "topk" ELSE "down"
      /\ thread' = [c \in Candidates |-> IF rank'[c] > 0 THEN "select" ELSE "none"]
  BY DEF Shortlist, control, inputs
<1>2. /\ SearchTypeOK /\ runs \in Nat /\ (~redone => MatrixIsPrepared) /\ runs > 0
  BY <1>1 DEF SearchInv, SearchTypeOK
<1>3. DOMAIN rank' = Candidates
  BY <1>1, <1>2 DEF RankCandidates, SearchTypeOK
<1>4. WorkOK'
  BY <1>1, <1>2 DEF SearchTypeOK, WorkOK, ThreadStates
<1>5. SearchTypeOK'
  BY <1>1, <1>2, <1>3, <1>4 DEF SearchTypeOK
<1>6. ~redone' => MatrixIsPrepared'
  BY <1>1, <1>2 DEF MatrixIsPrepared, Prepared
<1>7. \A c \in Candidates : \/ thread'[c] = "none"
                            \/ thread'[c] = "select" /\ rank'[c] > 0 /\ pc' = "topk"
  BY <1>1
<1> QED
  BY <1>1, <1>2, <1>5, <1>6, <1>7, NewPhase

LEMMA LaterPhase ==
    ASSUME SearchInv, Collect \/ Compare \/ (Qa /\ pc' = "next") \/ NextWave
    PROVE  SearchInv'
<1>1. /\ pc \in {"topk", "judge", "qa", "next"} /\ pc' \in {"judge", "qa", "next", "finished"}
      /\ UNCHANGED <<force, resume, runs, redone, matrix>>
      /\ UNCHANGED <<status, rank, thread, job, out, patched>>
  BY DEF Collect, Compare, Qa, NextWave, control, inputs
<1>2. /\ SearchTypeOK /\ runs \in Nat /\ (~redone => MatrixIsPrepared) /\ runs > 0
      /\ launched \in Nat /\ \A c \in Candidates : CandidateOK(c)
  BY <1>1 DEF SearchInv, SearchTypeOK
<1>3. \A c \in Candidates : thread[c] \notin {"selecting", "backtesting"}
  <2>1. CASE pc # "topk"
    BY <1>2, <2>1 DEF CandidateOK, ThreadHasItsJob
  <2>2. CASE pc = "topk"
    BY <1>2, <2>2 DEF CandidateOK, ThreadHasItsJob, Collect, Compare, Qa, NextWave, TopRows
  <2> QED
    BY <2>1, <2>2
<1>4. launched' \in Nat
  BY <1>2 DEF Collect, Compare, Qa, NextWave
<1>5. /\ comparison'.rows \subseteq Candidates
      /\ \/ comparison' \in {comparison, NoComparison}
         \/ \A c \in comparison'.rows : c \in Candidates /\ thread[c] = "done"
  BY <1>2 DEF Collect, Compare, Qa, NextWave, Rows, Succeeded, TopRows, SearchTypeOK
<1>6. SearchTypeOK'
  BY <1>1, <1>2, <1>4, <1>5 DEF SearchTypeOK, WorkOK
<1>7. ~redone' => MatrixIsPrepared'
  <2>1. ~redone => Prepared
    BY <1>1, <1>2 DEF MatrixIsPrepared
  <2> QED
    BY <1>1, <1>2, <2>1 DEF MatrixIsPrepared, Prepared
<1> QED
  BY <1>1, <1>2, <1>3, <1>5, <1>6, <1>7, NewPhase

-----------------------------------------------------------------------------
(* The search as a whole.                                                   *)

LEMMA SearchStarts ==
    ASSUME SearchInit
    PROVE  SearchInv
<1>1. WorkOK
  BY DEF SearchInit, WorkOK, Statuses, ThreadStates
<1>2. NoRows \in Output
  BY DEF NoRows, Output
<1>3. SearchTypeOK
  BY <1>1, <1>2 DEF SearchInit, SearchTypeOK, NoComparison
<1>4. ASSUME NEW c \in Candidates
      PROVE  CandidateOK(c)
  <2>1. /\ out[c] = NoRows /\ job[c] = "none" /\ thread[c] = "none" /\ pc = "down"
        /\ status.select[c] = "none" /\ status.backtest[c] = "none"
    BY DEF SearchInit
  <2> QED
    BY <2>1 DEF CandidateOK, FirstWriteGuards, ThreadHasItsJob, NothingBefore,
                OfThisMatrix, NoRows, BacktestWrites
<1>5. MatrixIsPrepared
  BY DEF SearchInit, MatrixIsPrepared, Prepared
<1>6. WrittenOnce /\ ComparedAreCurrent
  BY <1>2, <1>3 DEF SearchInit, WrittenOnce, ComparedAreCurrent, NoRows, NoComparison
<1> QED
  BY <1>3, <1>4, <1>5, <1>6 DEF SearchInv, SearchInit

LEMMA SearchStep ==
    ASSUME SearchInv, [SearchNext]_searchVars
    PROVE  SearchInv'
<1>1. CASE Start
  BY <1>1, StartKeeps
<1>2. CASE Orchestrate
  <2>1. CASE Qa
    <3>1. pc' = "next" \/ pc' = "down"
      BY <2>1 DEF Qa
    <3> QED
      BY <2>1, <3>1, CrashKeeps, LaterPhase
  <2>2. CASE \E c \in Candidates : ThreadStep(c) \/ PatchRegistry(c) \/ PatchSummary(c)
    BY <2>2, ThreadStepKeeps, PatchRegistryKeeps, PatchSummaryKeeps
  <2> QED
    BY <1>2, <2>1, <2>2, PrepareKeeps, TrainKeeps, ShortlistKeeps, LaterPhase
    DEF Orchestrate
<1>3. CASE Crash
  BY <1>3, CrashKeeps
<1>4. ASSUME NEW c \in Candidates, JobWrites(c) \/ JobFails(c)
      PROVE  SearchInv'
  BY <1>4, CopyAliasKeeps, WriteRegistryKeeps, WritePredictionsKeeps, BuildPlanKeeps,
     RunLedgerKeeps, WriteSummaryKeeps, ReportKeeps, JobFailsKeeps DEF JobWrites
<1>5. CASE UNCHANGED searchVars
  BY <1>5 DEF searchVars, SearchInv, SearchTypeOK, WorkOK, MatrixIsPrepared, Prepared,
              CandidateOK, FirstWriteGuards, ThreadHasItsJob, NothingBefore, OfThisMatrix,
              Tested, Selected, WrittenOnce, ComparedAreCurrent
<1> QED
  BY <1>1, <1>2, <1>3, <1>4, <1>5 DEF SearchNext

THEOREM SearchIsInductive == SearchSpec => []SearchInv
  BY SearchStarts, SearchStep, PTL DEF SearchSpec

\* For any number of candidates, starts and matrices, with and without --force-replace,
\* and wherever the orchestrator and the jobs stop: a candidate is registered, predicted
\* and backtested at most once.
THEOREM SearchWritesOnce == SearchSpec => []WrittenOnce
<1>1. SearchInv => WrittenOnce
  BY DEF SearchInv
<1> QED
  BY <1>1, SearchIsInductive, PTL

\* For any number of candidates, starts and matrices: a search that was only ever resumed
\* compares models of the matrix in GCS, each backtested as that model.
THEOREM SearchComparesItsOwnMatrix == SearchSpec => []ComparedAreCurrent
<1>1. SearchInv => ComparedAreCurrent
  BY DEF SearchInv
<1> QED
  BY <1>1, SearchIsInductive, PTL

-----------------------------------------------------------------------------
(* Least numbers and powers.                                                *)

\* Every non-empty set of numbers has a least element.
LEMMA LeastNumber ==
    ASSUME NEW S \in SUBSET Nat, S # {}
    PROVE  \E x \in S : \A m \in S : x <= m
<1> DEFINE R == {p \in Nat \X Nat : p[1] < p[2]}
<1>1. IsWellFoundedOn(R, Nat)
  <2>1. IsWellFoundedOn({ss \in Nat \X Nat : ss[1] < ss[2]}, Nat)
    BY NatLessThanWellFounded, Zenon DEF OpToRel
  <2> QED BY <2>1
<1>2. \A x, y \in Nat : <<y, x>> \in R <=> y < x
  OBVIOUS
<1> HIDE DEF R
<1>3. \E x \in S : \A y \in S : ~(<<y, x>> \in R)
  BY <1>1, WFMin
<1>4. \A x, y \in Nat : ~(y < x) => x <= y
  OBVIOUS
<1> QED BY <1>2, <1>3, <1>4

LEMMA LastOfInterval ==
    ASSUME NEW m \in Nat \ {0}
    PROVE  m \in 1 .. m /\ \A j \in 1 .. m : j = m \/ j \in 1 .. (m - 1)
OBVIOUS

\* Of finitely many days one comes first in any order of all days.
LEMMA BestDay ==
    ASSUME NEW n \in Nat \ {0}, NEW R,
           \A i, j \in 1 .. n : <<i, j>> \in R \/ <<j, i>> \in R,
           \A i, j, k \in 1 .. n : <<i, j>> \in R /\ <<j, k>> \in R => <<i, k>> \in R
    PROVE  \E i \in 1 .. n : \A j \in 1 .. n : <<i, j>> \in R
<1> DEFINE Leads(m) == \E i \in 1 .. m : \A j \in 1 .. m : <<i, j>> \in R
           Bad == {m \in 1 .. n : ~Leads(m)}
<1>1. Bad = {}
  <2> SUFFICES ASSUME Bad # {} PROVE FALSE
    OBVIOUS
  <2>1. PICK m \in Bad : \A k \in Bad : m <= k
    <3>1. Bad \in SUBSET Nat
      OBVIOUS
    <3> HIDE DEF Bad
    <3> QED BY <3>1, LeastNumber
  <2>a. m \in 1 .. n /\ ~Leads(m) /\ \A k \in 1 .. n : k < m => Leads(k)
    <3>1. \A k \in 1 .. n : k \in Bad <=> ~Leads(k)
      OBVIOUS
    <3>2. m \in 1 .. n
      BY <2>1
    <3>3. \A k \in 1 .. n : k < m => ~(m <= k)
      BY <3>2
    <3> HIDE DEF Leads, Bad
    <3> QED BY <2>1, <3>1, <3>2, <3>3
  <2>2. m # 1
    <3>1. Leads(1)
      <4>1. <<1, 1>> \in R
        OBVIOUS
      <4> QED BY <4>1
    <3> QED BY <2>a, <3>1
  <2>3. m - 1 \in 1 .. n /\ m - 1 < m /\ m \in 1 .. n /\ m \in Nat \ {0}
    <3> HIDE DEF Leads, Bad
    <3> QED BY <2>a, <2>2
  <2>b. \A j \in 1 .. m : j = m \/ j \in 1 .. (m - 1)
    BY <2>3, LastOfInterval
  <2>4. Leads(m - 1)
    <3> HIDE DEF Leads, Bad
    <3> QED BY <2>a, <2>3
  <2>5. PICK i \in 1 .. (m - 1) : \A j \in 1 .. (m - 1) : <<i, j>> \in R
    BY <2>4
  <2>6. i \in 1 .. n /\ i \in 1 .. m
    BY <2>3
  <2>7. <<m, m>> \in R
    BY <2>3
  <2>8. CASE <<i, m>> \in R
    <3>1. \A j \in 1 .. m : <<i, j>> \in R
      BY <2>b, <2>5, <2>8
    <3> QED BY <2>a, <2>6, <3>1
  <2>9. CASE <<m, i>> \in R
    <3>1. \A j \in 1 .. (m - 1) : j \in 1 .. n
      BY <2>3
    <3>2. \A j \in 1 .. m : <<m, j>> \in R
      BY <2>3, <2>b, <2>5, <2>6, <2>7, <2>9, <3>1
    <3>3. m \in 1 .. m
      BY <2>3, LastOfInterval
    <3>4. Leads(m)
      BY <3>2, <3>3
    <3> QED BY <2>a, <3>4
  <2> QED BY <2>3, <2>6, <2>8, <2>9
<1>2. n \in 1 .. n
  OBVIOUS
<1>3. \A m \in 1 .. n : m \notin Bad => Leads(m)
  OBVIOUS
<1> HIDE DEF Bad
<1> QED BY <1>1, <1>2, <1>3

-----------------------------------------------------------------------------
(* Powers.                                                                  *)

Powers(x, u, n) ==
  u[0] = 1 /\ \A k \in 1 .. n : u[k] = x * u[k - 1]

LEMMA PowersExist ==
    ASSUME NEW x \in Nat, NEW n \in Nat
    PROVE  \E u \in [0 .. n -> Nat] : Powers(x, u, n)
<1> DEFINE Has(m) == \E u \in [0 .. m -> Nat] : Powers(x, u, m)
           Bad == {m \in 0 .. n : ~Has(m)}
<1>1. Bad = {}
  <2> SUFFICES ASSUME Bad # {} PROVE FALSE
    OBVIOUS
  <2>1. PICK m \in Bad : \A k \in Bad : m <= k
    <3>1. Bad \in SUBSET Nat
      OBVIOUS
    <3> HIDE DEF Bad
    <3> QED BY <3>1, LeastNumber
  <2>2. CASE m = 0
    <3>1. [k \in 0 .. 0 |-> 1] \in [0 .. 0 -> Nat] /\ Powers(x, [k \in 0 .. 0 |-> 1], 0)
      BY DEF Powers
    <3> QED BY <2>1, <2>2, <3>1
  <2>3. CASE m # 0
    <3>1. m - 1 \in 0 .. n /\ m - 1 < m /\ m \in Nat \ {0}
      BY <2>1, <2>3
    <3>2. Has(m - 1)
      <4>1. \A k \in 0 .. n : k \in Bad <=> ~Has(k)
        OBVIOUS
      <4>2. ~(m <= m - 1)
        BY <3>1
      <4> HIDE DEF Has, Bad
      <4> QED BY <2>1, <3>1, <4>1, <4>2
    <3>3. PICK u \in [0 .. (m - 1) -> Nat] : Powers(x, u, m - 1)
      BY <3>2
    <3>4. PICK v : v = [k \in 0 .. m |-> IF k = m THEN x * u[m - 1] ELSE u[k]]
      OBVIOUS
    <3>5. v \in [0 .. m -> Nat]
      <4>1. u[m - 1] \in Nat
        BY <3>1
      <4>2. x * u[m - 1] \in Nat
        BY <4>1
      <4> QED BY <3>1, <3>4, <4>2
    <3>6. v[0] = 1 /\ v[m] = x * v[m - 1]
      BY <3>1, <3>3, <3>4 DEF Powers
    <3>7. \A k \in 1 .. (m - 1) : v[k] = x * v[k - 1]
      <4> SUFFICES ASSUME NEW k \in 1 .. (m - 1) PROVE v[k] = x * v[k - 1]
        OBVIOUS
      <4>1. k \in 0 .. m /\ k - 1 \in 0 .. m /\ k # m /\ k - 1 # m
        BY <3>1
      <4>2. v[k] = u[k] /\ v[k - 1] = u[k - 1]
        BY <4>1, <3>4
      <4> QED BY <4>2, <3>3 DEF Powers
    <3>8. \A k \in 1 .. m : k = m \/ k \in 1 .. (m - 1)
      BY <3>1, LastOfInterval
    <3>9. Powers(x, v, m)
      BY <3>1, <3>6, <3>7, <3>8 DEF Powers
    <3>10. Has(m)
      BY <3>5, <3>9
    <3> QED BY <2>1, <3>10
  <2> QED BY <2>2, <2>3
<1>2. n \in 0 .. n
  OBVIOUS
<1>3. \A m \in 0 .. n : m \notin Bad => Has(m)
  OBVIOUS
<1> HIDE DEF Bad
<1> QED BY <1>1, <1>2, <1>3

LEMMA PowerIs ==
    ASSUME NEW x \in Nat, NEW n \in Nat
    PROVE  \E u \in [0 .. n -> Nat] : Powers(x, u, n) /\ Power(x, n) = u[n]
<1> DEFINE Step(u) == [k \in 0 .. n |-> IF k = 0 THEN 1 ELSE x * u[k - 1]]
<1>1. PICK v \in [0 .. n -> Nat] : Powers(x, v, n)
  BY PowersExist
<1>2. v = Step(v)
  BY <1>1 DEF Powers
<1>3. PICK u : u = Step(u) /\ Power(x, n) = u[n]
  BY <1>2 DEF Power
<1> DEFINE Bad == {k \in 0 .. n : u[k] # v[k]}
<1>4. Bad = {}
  <2> SUFFICES ASSUME Bad # {} PROVE FALSE
    OBVIOUS
  <2>1. PICK m \in Bad : \A k \in Bad : m <= k
    <3>1. Bad \in SUBSET Nat
      OBVIOUS
    <3> HIDE DEF Bad
    <3> QED BY <3>1, LeastNumber
  <2>2. u[0] = 1 /\ v[0] = 1 /\ \A k \in 0 .. n : k # 0 => u[k] = x * u[k - 1] /\ v[k] = x * v[k - 1]
    BY <1>2, <1>3
  <2>3. m # 0 /\ m \in 0 .. n /\ u[m] # v[m]
    BY <2>1, <2>2
  <2>4. m - 1 \in 0 .. n /\ m - 1 < m /\ m \in Nat
    BY <2>3
  <2>5. u[m - 1] = v[m - 1]
    BY <2>1, <2>4
  <2> QED BY <2>2, <2>3, <2>5
<1>5. n \in 0 .. n
  OBVIOUS
<1> QED BY <1>1, <1>3, <1>4, <1>5

LEMMA PowerNat ==
    ASSUME NEW x \in Nat, NEW n \in Nat
    PROVE  Power(x, n) \in Nat /\ (n = 0 => Power(x, n) = 1)
<1>1. PICK u \in [0 .. n -> Nat] : Powers(x, u, n) /\ Power(x, n) = u[n]
  BY PowerIs
<1>2. n \in 0 .. n
  OBVIOUS
<1> QED BY <1>1, <1>2 DEF Powers

LEMMA PowerPositive ==
    ASSUME NEW x \in Nat \ {0}, NEW n \in Nat
    PROVE  Power(x, n) > 0
<1>1. PICK u \in [0 .. n -> Nat] : Powers(x, u, n) /\ Power(x, n) = u[n]
  BY PowerIs
<1> DEFINE Bad == {k \in 0 .. n : ~(u[k] > 0)}
<1>2. Bad = {}
  <2> SUFFICES ASSUME Bad # {} PROVE FALSE
    OBVIOUS
  <2>1. PICK m \in Bad : \A k \in Bad : m <= k
    <3>1. Bad \in SUBSET Nat
      OBVIOUS
    <3> HIDE DEF Bad
    <3> QED BY <3>1, LeastNumber
  <2>2. m \in 1 .. n /\ m - 1 \in 0 .. n /\ m - 1 < m /\ ~(u[m] > 0)
    BY <1>1, <2>1 DEF Powers
  <2>3. u[m - 1] \in Nat /\ u[m - 1] > 0
    BY <2>1, <2>2
  <2>4. u[m] = x * u[m - 1]
    BY <1>1, <2>2 DEF Powers
  <2>5. \A a, b \in Nat : a > 0 /\ b > 0 => a * b > 0
    OBVIOUS
  <2> QED BY <2>2, <2>3, <2>4, <2>5
<1>3. n \in 0 .. n
  OBVIOUS
<1> QED BY <1>1, <1>2, <1>3

LEMMA TimesGrows ==
    ASSUME NEW a \in Nat, NEW b \in Nat, NEW c \in Nat, NEW d \in Nat, a <= b, c <= d
    PROVE  a * c <= b * d
<1>1. a * c <= b * c
  OBVIOUS
<1>2. b * c <= b * d
  OBVIOUS
<1>3. a * c \in Nat /\ b * c \in Nat /\ b * d \in Nat
  OBVIOUS
<1> QED BY <1>1, <1>2, <1>3

LEMMA PowerGrows ==
    ASSUME NEW x \in Nat, NEW y \in Nat, NEW n \in Nat, x <= y
    PROVE  Power(x, n) <= Power(y, n)
<1>1. PICK u \in [0 .. n -> Nat] : Powers(x, u, n) /\ Power(x, n) = u[n]
  BY PowerIs
<1>2. PICK v \in [0 .. n -> Nat] : Powers(y, v, n) /\ Power(y, n) = v[n]
  BY PowerIs
<1> DEFINE Bad == {k \in 0 .. n : ~(u[k] <= v[k])}
<1>3. Bad = {}
  <2> SUFFICES ASSUME Bad # {} PROVE FALSE
    OBVIOUS
  <2>1. PICK m \in Bad : \A k \in Bad : m <= k
    <3>1. Bad \in SUBSET Nat
      OBVIOUS
    <3> HIDE DEF Bad
    <3> QED BY <3>1, LeastNumber
  <2>2. m \in 1 .. n /\ m - 1 \in 0 .. n /\ m - 1 < m /\ ~(u[m] <= v[m])
    BY <1>1, <1>2, <2>1 DEF Powers
  <2>3. u[m - 1] \in Nat /\ v[m - 1] \in Nat /\ u[m - 1] <= v[m - 1]
    BY <2>1, <2>2
  <2>4. u[m] = x * u[m - 1] /\ v[m] = y * v[m - 1]
    BY <1>1, <1>2, <2>2 DEF Powers
  <2>5. x * u[m - 1] <= y * v[m - 1]
    BY <2>3, TimesGrows
  <2> QED BY <2>2, <2>4, <2>5
<1>4. n \in 0 .. n
  OBVIOUS
<1> QED BY <1>1, <1>2, <1>3, <1>4

LEMMA PowerOfProduct ==
    ASSUME NEW x \in Nat, NEW y \in Nat, NEW n \in Nat
    PROVE  Power(x * y, n) = Power(x, n) * Power(y, n)
<1>0. x * y \in Nat
  OBVIOUS
<1>1. PICK u \in [0 .. n -> Nat] : Powers(x, u, n) /\ Power(x, n) = u[n]
  BY PowerIs
<1>2. PICK v \in [0 .. n -> Nat] : Powers(y, v, n) /\ Power(y, n) = v[n]
  BY PowerIs
<1>3. PICK w \in [0 .. n -> Nat] : Powers(x * y, w, n) /\ Power(x * y, n) = w[n]
  BY <1>0, PowerIs
<1> DEFINE Bad == {k \in 0 .. n : w[k] # u[k] * v[k]}
<1>4. Bad = {}
  <2> SUFFICES ASSUME Bad # {} PROVE FALSE
    OBVIOUS
  <2>1. PICK m \in Bad : \A k \in Bad : m <= k
    <3>1. Bad \in SUBSET Nat
      OBVIOUS
    <3> HIDE DEF Bad
    <3> QED BY <3>1, LeastNumber
  <2>2. m \in 0 .. n /\ w[m] # u[m] * v[m]
    BY <2>1
  <2>a. \A k \in 0 .. n : ~(m <= k) => w[k] = u[k] * v[k]
    BY <2>1
  <2> HIDE DEF Bad
  <2>3. m # 0
    BY <1>1, <1>2, <1>3, <2>2 DEF Powers
  <2>4. m \in 1 .. n /\ m - 1 \in 0 .. n /\ m - 1 < m
    BY <2>2, <2>3
  <2>5. w[m - 1] = u[m - 1] * v[m - 1] /\ u[m - 1] \in Nat /\ v[m - 1] \in Nat
    <3>1. ~(m <= m - 1)
      BY <2>4
    <3>2. w[m - 1] = u[m - 1] * v[m - 1]
      BY <2>a, <2>4, <3>1
    <3>3. u[m - 1] \in Nat /\ v[m - 1] \in Nat
      BY <2>4
    <3> QED BY <3>2, <3>3
  <2>6. u[m] = x * u[m - 1] /\ v[m] = y * v[m - 1] /\ w[m] = (x * y) * w[m - 1]
    BY <1>1, <1>2, <1>3, <2>4 DEF Powers
  <2>7. \A a, b \in Nat : (x * y) * (a * b) = (x * a) * (y * b)
    OBVIOUS
  <2> QED
    <3>1. PICK a, b \in Nat : a = u[m - 1] /\ b = v[m - 1]
      BY <2>5
    <3>2. w[m] = (x * y) * (a * b) /\ u[m] * v[m] = (x * a) * (y * b)
      BY <2>5, <2>6, <3>1
    <3> QED BY <2>2, <2>7, <3>2
<1>5. n \in 0 .. n
  OBVIOUS
<1> QED BY <1>1, <1>2, <1>3, <1>4, <1>5

-----------------------------------------------------------------------------
(* Ratios.                                                                  *)

LEMMA Cancels ==
    ASSUME NEW a \in Int, NEW b \in Int, NEW c \in Nat \ {0}
    PROVE  a * c < b * c <=> a < b
OBVIOUS

LEMMA Scales ==
    ASSUME NEW a \in Int, NEW b \in Int, NEW c \in Nat, a <= b
    PROVE  a * c <= b * c
OBVIOUS

\* Of three ratios, a[1] to a[2] and so on.
LEMMA NotLessGoesOn ==
    ASSUME NEW a1 \in Int, NEW a2 \in Nat \ {0}, NEW b1 \in Int, NEW b2 \in Nat \ {0},
           NEW c1 \in Int, NEW c2 \in Nat \ {0},
           ~(b1 * a2 < a1 * b2), ~(c1 * b2 < b1 * c2)
    PROVE  ~(c1 * a2 < a1 * c2)
<1>1. a1 * b2 <= b1 * a2 /\ b1 * c2 <= c1 * b2
  OBVIOUS
<1>2. (a1 * b2) * c2 <= (b1 * a2) * c2 /\ (b1 * c2) * a2 <= (c1 * b2) * a2
  BY <1>1, Scales
<1>3. /\ (a1 * b2) * c2 = (a1 * c2) * b2 /\ (b1 * a2) * c2 = (b1 * c2) * a2
      /\ (c1 * b2) * a2 = (c1 * a2) * b2
  OBVIOUS
<1>4. (a1 * c2) * b2 <= (c1 * a2) * b2
  <2>1. (a1 * c2) * b2 \in Int /\ (c1 * a2) * b2 \in Int /\ (b1 * c2) * a2 \in Int
    OBVIOUS
  <2> QED BY <1>2, <1>3, <2>1
<1>5. a1 * c2 \in Int /\ c1 * a2 \in Int
  OBVIOUS
<1>6. (c1 * a2) * b2 < (a1 * c2) * b2 <=> c1 * a2 < a1 * c2
  BY <1>5, Cancels
<1>7. (a1 * c2) * b2 \in Int /\ (c1 * a2) * b2 \in Int
  OBVIOUS
<1> QED BY <1>4, <1>6, <1>7

-----------------------------------------------------------------------------
(* What a NAV must have done to pass.                                       *)

ANav(nav) == nav \in Seq(Nat \ {0}) /\ nav # <<>>

LEMMA NavDays ==
    ASSUME NEW nav, ANav(nav)
    PROVE  /\ Len(nav) \in Nat \ {0} /\ DOMAIN nav = 1 .. Len(nav)
           /\ \A d \in DOMAIN nav : nav[d] \in Nat \ {0}
           /\ FirstDay(nav) = 1 /\ LastDay(nav) = Len(nav)
           /\ 1 \in DOMAIN nav /\ Len(nav) \in DOMAIN nav
<1>1. /\ Len(nav) \in Nat \ {0} /\ DOMAIN nav = 1 .. Len(nav)
      /\ \A d \in DOMAIN nav : nav[d] \in Nat \ {0}
  BY DEF ANav
<1>2. 1 \in 1 .. Len(nav) /\ Len(nav) \in 1 .. Len(nav)
  BY <1>1
<1>3. FirstDay(nav) = 1
  <2>1. \A y \in 1 .. Len(nav) : 1 <= y
    BY <1>1
  <2>2. \A x \in 1 .. Len(nav) : (\A y \in 1 .. Len(nav) : x <= y) => x = 1
    BY <1>2
  <2> QED BY <1>1, <1>2, <2>1, <2>2 DEF FirstDay, Min
<1>4. LastDay(nav) = Len(nav)
  <2>1. \A y \in 1 .. Len(nav) : Len(nav) >= y
    BY <1>1
  <2>2. \A x \in 1 .. Len(nav) : (\A y \in 1 .. Len(nav) : x >= y) => x = Len(nav)
    <3> SUFFICES ASSUME NEW x \in 1 .. Len(nav), \A y \in 1 .. Len(nav) : x >= y
                 PROVE  x = Len(nav)
      OBVIOUS
    <3>1. x >= Len(nav)
      BY <1>2
    <3>2. x \in Nat /\ x <= Len(nav) /\ Len(nav) \in Nat
      BY <1>1
    <3> QED BY <3>1, <3>2
  <2>3. LastDay(nav) = CHOOSE x \in 1 .. Len(nav) : \A y \in 1 .. Len(nav) : x >= y
    BY <1>1 DEF LastDay, Max
  <2> QED BY <1>2, <2>1, <2>2, <2>3
<1> QED BY <1>1, <1>2, <1>3, <1>4

\* A peak is a value of the NAV so far, and none so far is above it.
LEMMA PeakIs ==
    ASSUME NEW nav, ANav(nav), NEW d \in DOMAIN nav
    PROVE  /\ Peak(nav, d) \in Nat \ {0}
           /\ \A e \in DOMAIN nav : e <= d => nav[e] <= Peak(nav, d)
<1>1. /\ DOMAIN nav = 1 .. Len(nav) /\ Len(nav) \in Nat
      /\ \A e \in DOMAIN nav : nav[e] \in Nat \ {0}
  BY NavDays
<1>2. d \in Nat \ {0} /\ d <= Len(nav)
  BY <1>1
<1> DEFINE R == {p \in (1 .. d) \X (1 .. d) : nav[p[1]] >= nav[p[2]]}
<1>3. \A i, j \in 1 .. d : <<i, j>> \in R <=> nav[i] >= nav[j]
  OBVIOUS
<1>4. \A i \in 1 .. d : i \in DOMAIN nav /\ nav[i] \in Nat \ {0}
  BY <1>1, <1>2
<1>5. PICK i \in 1 .. d : \A j \in 1 .. d : <<i, j>> \in R
  <2>1. \A j, k \in 1 .. d : <<j, k>> \in R \/ <<k, j>> \in R
    <3> SUFFICES ASSUME NEW j \in 1 .. d, NEW k \in 1 .. d
                 PROVE  <<j, k>> \in R \/ <<k, j>> \in R
      OBVIOUS
    <3>1. nav[j] \in Nat /\ nav[k] \in Nat
      BY <1>4
    <3>2. nav[j] >= nav[k] \/ nav[k] >= nav[j]
      BY <3>1
    <3> HIDE DEF R
    <3> QED BY <1>3, <3>2
  <2>2. \A h, j, k \in 1 .. d : <<h, j>> \in R /\ <<j, k>> \in R => <<h, k>> \in R
    BY <1>3, <1>4
  <2> HIDE DEF R
  <2> QED BY <1>2, <2>1, <2>2, BestDay
<1> HIDE DEF R
<1> DEFINE V == {nav[e] : e \in {x \in DOMAIN nav : x <= d}}
<1>6. \A e \in DOMAIN nav : e <= d <=> e \in 1 .. d
  BY <1>1, <1>2
<1>7. nav[i] \in V /\ \A y \in V : nav[i] >= y
  BY <1>3, <1>4, <1>5, <1>6
<1>8. Peak(nav, d) \in V /\ \A y \in V : Peak(nav, d) >= y
  BY <1>7 DEF Peak, Max
<1>9. Peak(nav, d) \in Nat \ {0}
  BY <1>1, <1>8
<1>10. \A e \in DOMAIN nav : e <= d => nav[e] \in V
  OBVIOUS
<1> HIDE DEF V
<1> QED BY <1>1, <1>8, <1>9, <1>10

\* No fall from a peak is deeper than that of the trough.
LEMMA TroughIs ==
    ASSUME NEW nav, ANav(nav)
    PROVE  /\ Trough(nav) \in DOMAIN nav
           /\ \A e \in DOMAIN nav : ~Less(Drawdown(nav, e), Drawdown(nav, Trough(nav)))
<1>1. /\ DOMAIN nav = 1 .. Len(nav) /\ Len(nav) \in Nat \ {0}
      /\ \A e \in DOMAIN nav : nav[e] \in Nat \ {0}
  BY NavDays
<1>2. \A e \in DOMAIN nav : /\ Drawdown(nav, e)[1] \in Int /\ Drawdown(nav, e)[2] \in Nat \ {0}
  <2> SUFFICES ASSUME NEW e \in DOMAIN nav
               PROVE  /\ Drawdown(nav, e)[1] \in Int /\ Drawdown(nav, e)[2] \in Nat \ {0}
    OBVIOUS
  <2>1. Peak(nav, e) \in Nat \ {0}
    BY PeakIs
  <2> QED BY <1>1, <2>1 DEF Drawdown
<1> DEFINE fall == [e \in DOMAIN nav |-> Drawdown(nav, e)]
           R == {p \in (DOMAIN nav) \X (DOMAIN nav) : ~Less(fall[p[2]], fall[p[1]])}
<1>3. \A i, j \in DOMAIN nav : <<i, j>> \in R <=> ~(fall[j][1] * fall[i][2] < fall[i][1] * fall[j][2])
  BY DEF Less
<1>4. \A e \in DOMAIN nav : fall[e][1] \in Int /\ fall[e][2] \in Nat \ {0}
  BY <1>2
<1> HIDE DEF fall
<1>5. PICK i \in DOMAIN nav : \A j \in DOMAIN nav : <<i, j>> \in R
  <2>1. \A j, k \in DOMAIN nav : <<j, k>> \in R \/ <<k, j>> \in R
    <3> SUFFICES ASSUME NEW j \in DOMAIN nav, NEW k \in DOMAIN nav
                 PROVE  <<j, k>> \in R \/ <<k, j>> \in R
      OBVIOUS
    <3>1. /\ fall[k][1] * fall[j][2] \in Int /\ fall[j][1] * fall[k][2] \in Int
      BY <1>4
    <3> QED BY <1>3, <3>1
  <2>2. \A h, j, k \in DOMAIN nav : <<h, j>> \in R /\ <<j, k>> \in R => <<h, k>> \in R
    <3> SUFFICES ASSUME NEW h \in DOMAIN nav, NEW j \in DOMAIN nav, NEW k \in DOMAIN nav,
                        <<h, j>> \in R, <<j, k>> \in R
                 PROVE  <<h, k>> \in R
      OBVIOUS
    <3>1. ~(fall[j][1] * fall[h][2] < fall[h][1] * fall[j][2])
      BY <1>3
    <3>2. ~(fall[k][1] * fall[j][2] < fall[j][1] * fall[k][2])
      BY <1>3
    <3>3. ~(fall[k][1] * fall[h][2] < fall[h][1] * fall[k][2])
      BY <1>4, <3>1, <3>2, NotLessGoesOn
    <3> QED BY <1>3, <3>3
  <2> HIDE DEF R
  <2> QED BY <1>1, <2>1, <2>2, BestDay
<1> DEFINE T == {d \in DOMAIN nav : \A e \in DOMAIN nav : ~Less(Drawdown(nav, e), Drawdown(nav, d))}
<1>6. i \in T
  <2>1. \A j \in DOMAIN nav : ~Less(fall[j], fall[i])
    BY <1>5
  <2> QED BY <2>1 DEF fall
<1>7. T \in SUBSET Nat
  BY <1>1
<1>8. PICK t \in T : \A m \in T : t <= m
  <2> HIDE DEF T
  <2> QED BY <1>6, <1>7, LeastNumber
<1>9. Trough(nav) \in T
  <2>1. Trough(nav) = Min(T)
    BY DEF Trough
  <2> HIDE DEF T
  <2> QED BY <1>8, <2>1 DEF Min
<1> HIDE DEF R
<1> QED BY <1>9

\* A return is that of the whole window, as a power.
LEMMA ReturnIs ==
    ASSUME NEW nav, ANav(nav), AnnualFactor \in Nat, NEW r \in StrategyReturn(nav)
    PROVE  \E p \in Nat :
             /\ Periods(nav) > 0 /\ p = AnnualFactor \div Periods(nav)
             /\ r[2] = Power(nav[FirstDay(nav)], p)
             /\ r[1] = Power(nav[LastDay(nav)], p) - Power(nav[FirstDay(nav)], p)
<1>1. nav[FirstDay(nav)] \in Nat \ {0} /\ nav[LastDay(nav)] \in Nat \ {0}
  BY NavDays
<1>2. Periods(nav) = Len(nav) - 1 /\ Periods(nav) \in Int
  <2>1. DOMAIN nav = 1 .. Len(nav) /\ Len(nav) \in Nat
    BY NavDays
  <2>2. Cardinality(1 .. Len(nav)) = Len(nav)
    <3>1. 1 \in Int /\ Len(nav) \in Int /\ 1 <= Len(nav)
      BY <1>1, NavDays
    <3> QED BY <3>1, FS_Interval
  <2> QED BY <2>1, <2>2 DEF Periods
<1>3. Periods(nav) > 0
  BY <1>1, <1>2 DEF StrategyReturn, Annualized
<1> DEFINE p == AnnualFactor \div Periods(nav)
<1>4. p \in Nat
  BY <1>2, <1>3
<1>5. r = <<Power(nav[LastDay(nav)], p) - Power(nav[FirstDay(nav)], p),
            Power(nav[FirstDay(nav)], p)>>
  BY <1>1, <1>2, <1>3 DEF StrategyReturn, Annualized
<1> HIDE DEF p
<1>6. p = AnnualFactor \div Periods(nav)
  BY DEF p
<1> QED BY <1>3, <1>4, <1>5, <1>6

\* A ratio above one to how much was lost: r is above what was lost.
LEMMA CalmarIs ==
    ASSUME NEW r1 \in Int, NEW r2 \in Nat \ {0}, NEW v \in Int, NEW p \in Nat \ {0}, v <= p,
           Less(<<1, 1>>, Over(<<r1, r2>>, Abs(<<v - p, p>>)))
    PROVE  r2 * (p - v) < r1 * p
<1>1. Abs(<<v - p, p>>) = <<p - v, p>>
  BY DEF Abs
<1>2. CASE p = v
  <2>1. Over(<<r1, r2>>, <<p - v, p>>) =
          IF r1 > 0 THEN <<1, 0>> ELSE IF r1 < 0 THEN <<-1, 0>> ELSE <<0, 1>>
    BY <1>2 DEF Over
  <2>2. r1 > 0
    BY <1>1, <2>1 DEF Less
  <2>3. r1 * p > 0 /\ r2 * (p - v) = 0
    BY <1>2, <2>2
  <2> QED BY <2>3
<1>3. CASE p # v
  <2>1. Over(<<r1, r2>>, <<p - v, p>>) = <<r1 * p, r2 * (p - v)>>
    BY <1>3 DEF Over
  <2>2. Less(<<1, 1>>, <<r1 * p, r2 * (p - v)>>) <=> 1 * (r2 * (p - v)) < (r1 * p) * 1
    BY DEF Less
  <2>3. r1 * p \in Int /\ r2 * (p - v) \in Int
    OBVIOUS
  <2> QED BY <1>1, <2>1, <2>2, <2>3
<1> QED BY <1>2, <1>3

\* What exceeds the deepest fall exceeds the fall from any day to a later one.
LEMMA AboveEveryFall ==
    ASSUME NEW r1 \in Int, NEW r2 \in Nat \ {0},
           NEW t \in Nat, NEW pt \in Nat \ {0}, r2 * (pt - t) < r1 * pt,
           NEW e \in Nat \ {0}, NEW pe \in Nat \ {0}, ~Less(<<e - pe, pe>>, <<t - pt, pt>>),
           NEW d \in Nat \ {0}, d <= pe
    PROVE  (d - e) * r2 < r1 * d
<1>1. (pe - e) * pt <= (pt - t) * pe
  <2>1. (t - pt) * pe <= (e - pe) * pt
    <3>1. (t - pt) * pe \in Int /\ (e - pe) * pt \in Int
      OBVIOUS
    <3> QED BY <3>1 DEF Less
  <2>2. (pe - e) * pt = -((e - pe) * pt) /\ (pt - t) * pe = -((t - pt) * pe)
    OBVIOUS
  <2>3. (t - pt) * pe \in Int /\ (e - pe) * pt \in Int
    OBVIOUS
  <2> QED BY <2>1, <2>2, <2>3
<1>2. ((pe - e) * pt) * r2 <= ((pt - t) * pe) * r2
  <2>1. (pe - e) * pt \in Int /\ (pt - t) * pe \in Int
    OBVIOUS
  <2> QED BY <1>1, <2>1, Scales
<1>3. (r2 * (pt - t)) * pe < (r1 * pt) * pe
  <2>1. r2 * (pt - t) \in Int /\ r1 * pt \in Int
    OBVIOUS
  <2> QED BY <2>1, Cancels
<1>4. /\ ((pe - e) * pt) * r2 = (r2 * (pe - e)) * pt
      /\ ((pt - t) * pe) * r2 = (r2 * (pt - t)) * pe
      /\ (r1 * pt) * pe = (r1 * pe) * pt
  OBVIOUS
<1>5. r2 * (pe - e) < r1 * pe
  <2>1. r2 * (pe - e) \in Int /\ r1 * pe \in Int
    OBVIOUS
  <2>2. (r2 * (pe - e)) * pt < (r1 * pe) * pt
    <3>1. /\ (r2 * (pe - e)) * pt \in Int /\ (r1 * pe) * pt \in Int
          /\ (r2 * (pt - t)) * pe \in Int
      OBVIOUS
    <3> QED BY <1>2, <1>3, <1>4, <3>1
  <2> QED BY <2>1, <2>2, Cancels
\* (d - e) / d is at most (pe - e) / pe.
<1>6. ((d - e) * r2) * pe <= (r2 * (pe - e)) * d
  <2>1. (d - e) * pe <= (pe - e) * d
    <3>1. (d - e) * pe = d * pe - e * pe /\ (pe - e) * d = d * pe - e * d
      OBVIOUS
    <3>2. e * d <= e * pe
      BY TimesGrows
    <3>3. e * d \in Nat /\ e * pe \in Nat /\ d * pe \in Nat
      OBVIOUS
    <3> QED BY <3>1, <3>2, <3>3
  <2>2. ((d - e) * pe) * r2 <= ((pe - e) * d) * r2
    <3>1. (d - e) * pe \in Int /\ (pe - e) * d \in Int
      OBVIOUS
    <3> QED BY <2>1, <3>1, Scales
  <2>3. ((d - e) * pe) * r2 = ((d - e) * r2) * pe /\ ((pe - e) * d) * r2 = (r2 * (pe - e)) * d
    OBVIOUS
  <2> QED BY <2>2, <2>3
<1>7. (r2 * (pe - e)) * d < (r1 * pe) * d
  <2>1. r2 * (pe - e) \in Int /\ r1 * pe \in Int
    OBVIOUS
  <2> QED BY <1>5, <2>1, Cancels
<1>8. ((d - e) * r2) * pe < (r1 * d) * pe
  <2>1. (r1 * pe) * d = (r1 * d) * pe
    OBVIOUS
  <2>2. /\ ((d - e) * r2) * pe \in Int /\ (r2 * (pe - e)) * d \in Int /\ (r1 * d) * pe \in Int
    OBVIOUS
  <2> QED BY <1>6, <1>7, <2>1, <2>2
<1>9. (d - e) * r2 \in Int /\ r1 * d \in Int
  OBVIOUS
<1> QED BY <1>8, <1>9, Cancels

\* What the gate passes has grown, and more per year than it lost between any two days.
LEMMA AbsoluteMeans ==
    ASSUME NEW nav, ANav(nav), AnnualFactor \in Nat, AbsolutePasses(nav)
    PROVE  /\ nav[LastDay(nav)] > nav[FirstDay(nav)]
           /\ \A d, e \in DOMAIN nav :
                d < e => Exceeds(StrategyReturn(nav), <<nav[d] - nav[e], nav[d]>>)
<1> DEFINE t == Trough(nav)
           pt == Peak(nav, t)
<1>1. PICK r \in StrategyReturn(nav) : Less(<<1, 1>>, Over(r, Abs(Drawdown(nav, t))))
  BY DEF AbsolutePasses
<1>2. PICK p \in Nat : /\ Periods(nav) > 0 /\ p = AnnualFactor \div Periods(nav)
                       /\ r[2] = Power(nav[FirstDay(nav)], p)
                       /\ r[1] = Power(nav[LastDay(nav)], p) - Power(nav[FirstDay(nav)], p)
  BY ReturnIs
<1>3. nav[FirstDay(nav)] \in Nat \ {0} /\ nav[LastDay(nav)] \in Nat \ {0}
  BY NavDays
<1>4. Power(nav[FirstDay(nav)], p) \in Nat \ {0} /\ Power(nav[LastDay(nav)], p) \in Nat
  <2>1. Power(nav[FirstDay(nav)], p) \in Nat /\ Power(nav[LastDay(nav)], p) \in Nat
    BY <1>3, PowerNat
  <2>2. Power(nav[FirstDay(nav)], p) > 0
    BY <1>3, PowerPositive
  <2> QED BY <2>1, <2>2
<1>5. r[1] \in Int /\ r[2] \in Nat \ {0} /\ r = <<r[1], r[2]>>
  <2>1. r[1] \in Int /\ r[2] \in Nat \ {0}
    BY <1>2, <1>4
  <2>2. r = <<r[1], r[2]>>
    BY DEF StrategyReturn, Annualized
  <2> QED BY <2>1, <2>2
<1>6. /\ t \in DOMAIN nav /\ nav[t] \in Nat \ {0} /\ pt \in Nat \ {0} /\ nav[t] <= pt
      /\ Drawdown(nav, t) = <<nav[t] - pt, pt>>
  <2>1. t \in DOMAIN nav
    BY TroughIs
  <2>2. nav[t] \in Nat \ {0} /\ t <= t
    BY <2>1, NavDays
  <2>3. pt \in Nat \ {0} /\ nav[t] <= pt
    BY <2>1, <2>2, PeakIs
  <2> QED BY <2>1, <2>2, <2>3 DEF Drawdown
<1> HIDE DEF t, pt
<1>7. r[2] * (pt - nav[t]) < r[1] * pt
  <2>1. Less(<<1, 1>>, Over(<<r[1], r[2]>>, Abs(<<nav[t] - pt, pt>>)))
    BY <1>1, <1>5, <1>6
  <2> QED BY <1>5, <1>6, <2>1, CalmarIs
<1>8. nav[LastDay(nav)] > nav[FirstDay(nav)]
  <2>1. r[1] > 0
    <3>1. r[2] * (pt - nav[t]) >= 0 /\ r[2] * (pt - nav[t]) \in Int /\ r[1] * pt \in Int
      BY <1>5, <1>6
    <3>2. r[1] * pt > 0
      BY <1>7, <3>1
    <3> QED BY <1>5, <1>6, <3>2
  <2>2. Power(nav[LastDay(nav)], p) > Power(nav[FirstDay(nav)], p)
    BY <1>2, <1>4, <2>1
  <2>3. ~(nav[LastDay(nav)] <= nav[FirstDay(nav)])
    BY <1>3, <1>4, <2>2, PowerGrows
  <2> QED BY <1>3, <2>3
<1>9. ASSUME NEW d \in DOMAIN nav, NEW e \in DOMAIN nav, d < e
      PROVE  Exceeds(StrategyReturn(nav), <<nav[d] - nav[e], nav[d]>>)
  <2>1. nav[d] \in Nat \ {0} /\ nav[e] \in Nat \ {0} /\ d <= e
    <3>1. \A x \in DOMAIN nav : x \in Nat /\ nav[x] \in Nat \ {0}
      BY NavDays
    <3> QED BY <1>9, <3>1
  <2>2. Peak(nav, e) \in Nat \ {0} /\ nav[d] <= Peak(nav, e)
    BY <2>1, PeakIs
  <2>3. ~Less(<<nav[e] - Peak(nav, e), Peak(nav, e)>>, <<nav[t] - pt, pt>>)
    BY <1>6, TroughIs DEF Drawdown, t
  <2>4. (nav[d] - nav[e]) * r[2] < r[1] * nav[d]
    BY <1>5, <1>6, <1>7, <2>1, <2>2, <2>3, AboveEveryFall
  <2> QED BY <2>4 DEF Exceeds, Less
<1> QED BY <1>8, <1>9

\* What passes against an index has outgrown it.
LEMMA RelativeMeans ==
    ASSUME NEW nav, ANav(nav), AnnualFactor \in Nat, NEW b,
           \A d \in DOMAIN nav : /\ Close(b, d) \subseteq Nat \ {0}
                                 /\ \A x, y \in Close(b, d) : x = y,
           RelativePasses(b, nav)
    PROVE  /\ \A d \in DOMAIN nav : Close(b, d) # {}
           /\ \A x \in Close(b, FirstDay(nav)), y \in Close(b, LastDay(nav)) :
                nav[LastDay(nav)] * x > y * nav[FirstDay(nav)]
<1>1. PICK e \in Lifted(Minus, StrategyReturn(nav), BenchmarkReturn(b, nav)) : e[1] > 0
  BY DEF RelativePasses
<1>2. PICK r \in StrategyReturn(nav), q \in BenchmarkReturn(b, nav) : e = Minus(r, q)
  BY DEF Lifted
<1>3. \A d \in DOMAIN nav : Close(b, d) # {}
  BY DEF BenchmarkReturn
<1>4. PICK p \in Nat : /\ Periods(nav) > 0 /\ p = AnnualFactor \div Periods(nav)
                       /\ r[2] = Power(nav[FirstDay(nav)], p)
                       /\ r[1] = Power(nav[LastDay(nav)], p) - Power(nav[FirstDay(nav)], p)
  BY ReturnIs
<1>5. PICK x \in Close(b, FirstDay(nav)), y \in Close(b, LastDay(nav)) :
         q \in Annualized(<<y, x>>, Periods(nav))
  BY <1>3 DEF BenchmarkReturn
<1>6. q[1] = Power(y, p) - Power(x, p) /\ q[2] = Power(x, p)
  BY <1>4, <1>5 DEF Annualized
<1>7. FirstDay(nav) \in DOMAIN nav /\ LastDay(nav) \in DOMAIN nav
  BY NavDays
<1>8. x \in Nat \ {0} /\ y \in Nat \ {0}
  BY <1>5, <1>7
<1> DEFINE a == nav[FirstDay(nav)]
           z == nav[LastDay(nav)]
<1>9. a \in Nat \ {0} /\ z \in Nat \ {0}
  BY <1>7, NavDays
<1>10. /\ Power(a, p) \in Nat /\ Power(z, p) \in Nat
       /\ Power(x, p) \in Nat /\ Power(y, p) \in Nat
  BY <1>8, <1>9, PowerNat
<1> HIDE DEF a, z
<1>11. e[1] = (Power(z, p) - Power(a, p)) * Power(x, p) - (Power(y, p) - Power(x, p)) * Power(a, p)
  BY <1>2, <1>4, <1>6 DEF Minus, a, z
<1>12. Power(z, p) * Power(x, p) > Power(y, p) * Power(a, p)
  <2>1. \A A, X, Y, Z \in Nat : (Z - A) * X - (Y - X) * A = Z * X - Y * A
    OBVIOUS
  <2>2. e[1] = Power(z, p) * Power(x, p) - Power(y, p) * Power(a, p)
    BY <1>10, <1>11, <2>1
  <2>3. Power(z, p) * Power(x, p) \in Nat /\ Power(y, p) * Power(a, p) \in Nat
    BY <1>10
  <2> QED BY <1>1, <2>2, <2>3
<1>13. z * x > y * a
  <2>1. Power(z * x, p) > Power(y * a, p)
    BY <1>8, <1>9, <1>12, PowerOfProduct
  <2>2. z * x \in Nat /\ y * a \in Nat
    BY <1>8, <1>9
  <2>3. Power(z * x, p) \in Nat /\ Power(y * a, p) \in Nat
    BY <2>2, PowerNat
  <2>4. ~(z * x <= y * a)
    BY <2>1, <2>2, <2>3, PowerGrows
  <2> QED BY <2>2, <2>4
<1>14. \A v \in Close(b, FirstDay(nav)), w \in Close(b, LastDay(nav)) : v = x /\ w = y
  BY <1>5, <1>7
<1> QED BY <1>3, <1>13, <1>14 DEF a, z

-----------------------------------------------------------------------------
(* The verdicts.                                                            *)

\* A judging changes nothing that it looks at.
LEMMA PatchKeepsVerdict ==
    ASSUME row = [f \in RowFields |-> row[f]], Patch, UNCHANGED case
    PROVE  /\ row' = [f \in RowFields |-> row'[f]]
           /\ GateVerdict' = GateVerdict
           /\ row'.storedTestIc = row'.testIc /\ row'.storedTestTb = row'.testTb
           /\ row'.cv = row.cv /\ Diagnosed(row') = Diagnosed(row)
<1>r. {"holdout", "storedTestIc", "storedTestTb", "testIc", "testTb"} \subseteq RowFields
  BY DEF RowFields
<1>p. /\ row' = [f \in RowFields |-> row'[f]]
      /\ row'.holdout = HoldoutStatus(row)
      /\ row'.storedTestIc = row.testIc /\ row'.storedTestTb = row.testTb
      /\ \A f \in RowFields \ {"holdout", "storedTestIc", "storedTestTb"} : row'[f] = row[f]
  <2>1. PICK held : held = HoldoutStatus(row)
    OBVIOUS
  <2>2. PICK ic, tb : ic = row.testIc /\ tb = row.testTb
    OBVIOUS
  <2>3. row' = [row EXCEPT !.holdout = held, !.storedTestIc = ic, !.storedTestTb = tb]
    BY <2>1, <2>2 DEF Patch
  <2> QED BY <1>r, <2>1, <2>2, <2>3
<1>1. /\ row' = [f \in RowFields |-> row'[f]]
      /\ row'.holdout = HoldoutStatus(row)
      /\ row'.storedTestIc = row.testIc /\ row'.storedTestTb = row.testTb
  BY <1>p
<1>2. \A f \in RowFields \ {"holdout", "storedTestIc", "storedTestTb"} : row'[f] = row[f]
  BY <1>p
<1>3. /\ row'.cv = row.cv /\ row'.cvIc = row.cvIc /\ row'.cvTb = row.cvTb
      /\ row'.folds = row.folds /\ row'.legacy = row.legacy /\ row'.signal = row.signal
      /\ row'.orient = row.orient /\ row'.ic = row.ic /\ row'.tb = row.tb
      /\ row'.testIc = row.testIc /\ row'.testTb = row.testTb
  BY <1>2 DEF RowFields
<1>4. /\ row'.report = row.report /\ row'.diagnosed = row.diagnosed /\ row'.oldMask = row.oldMask
      /\ row'.inverted = row.inverted /\ row'.weak = row.weak
      /\ row'.otherHorizon = row.otherHorizon /\ row'.unexplained = row.unexplained
      /\ row'.costly = row.costly
  BY <1>2 DEF RowFields
<1>5. /\ row'.yearExcess = row.yearExcess /\ row'.excess = row.excess /\ row'.total = row.total
      /\ row'.sharpe = row.sharpe /\ row'.drawdown = row.drawdown /\ row'.days = row.days
      /\ row'.hExcess = row.hExcess /\ row'.hTotal = row.hTotal /\ row'.wave = row.wave
      /\ row'.riskFeatures = row.riskFeatures
  BY <1>2 DEF RowFields
<1>6. HoldoutStatus(row') = HoldoutStatus(row)
  BY <1>1, <1>5 DEF HoldoutStatus
<1>7. Diagnosed(row') = Diagnosed(row)
  BY <1>4 DEF Diagnosed, Diagnosis
<1>8. LateWave(row') = LateWave(row)
  BY <1>5, <1>6 DEF LateWave
<1>9. Metrics(row') = Metrics(row)
  BY <1>3, <1>5 DEF Metrics
<1>10. HardReject(row') = HardReject(row)
  BY <1>3, <1>5, <1>7, <1>9 DEF HardReject
<1>11. LiveV1(row') = LiveV1(row)
  <2>1. NeedsEvidence(row') = NeedsEvidence(row)
    BY <1>3, <1>5, <1>8 DEF NeedsEvidence
  <2>2. Unmatched(row') = Unmatched(row)
    BY <1>3 DEF Unmatched
  <2>3. Checks(row') = Checks(row)
    BY <1>3, <1>5, <1>9 DEF Checks
  <2>4. RiskTargetMissed(row') = RiskTargetMissed(row)
    BY <1>5 DEF RiskTargetMissed
  <2> QED BY <1>8, <1>10, <2>1, <2>2, <2>3, <2>4 DEF LiveV1
<1>12. CvStatus(row', {}) = CvStatus(row, {})
  BY <1>3 DEF CvStatus
<1>13. LiveV3' = LiveV3
  <2>1. Nav' = Nav /\ \A b, d : Close(b, d)' = Close(b, d)
    BY DEF Nav, Close
  <2>2. GatePasses(Nav)' = GatePasses(Nav)
    BY <2>1 DEF GatePasses, AbsolutePasses, RelativePasses, BenchmarkReturn, Close, Nav
  <2>3. SignalPasses(row', {}, row'.testIc, row'.testTb, Diagnosed(row'))
          = SignalPasses(row, {}, row.testIc, row.testTb, Diagnosed(row))
    BY <1>3, <1>7, <1>12 DEF SignalPasses
  <2> QED BY <2>2, <2>3 DEF LiveV3
<1>14. Covered(Nav)' = Covered(Nav)
  BY DEF Covered, Nav
<1>15. LiveV1(row)' = LiveV1(row)
  BY <1>11
<1>16. GateVerdict' = GateVerdict
  BY <1>4, <1>13, <1>14, <1>15 DEF GateVerdict
<1>17. row'.storedTestIc = row'.testIc /\ row'.storedTestTb = row'.testTb
  BY <1>1, <1>3
<1> QED BY <1>1, <1>3, <1>7, <1>16, <1>17

\* The NAV that is judged, and the closes it is compared with.
LEMMA CaseIsSound ==
    ASSUME CasesAreSound, NEW c \in Cases, case \in c.inputs
    PROVE  /\ ANav(Nav) /\ AnnualFactor \in Nat
           /\ \A b \in Benchmarks : \A d \in DOMAIN Nav :
                /\ Close(b, d) \subseteq Nat \ {0}
                /\ \A x, y \in Close(b, d) : x = y
<1>1. ANav(Nav) /\ AnnualFactor \in Nat
  BY DEF CasesAreSound, ANav, Nav
<1>2. ASSUME NEW b \in Benchmarks, NEW d
      PROVE  Close(b, d) \subseteq Nat \ {0} /\ \A x, y \in Close(b, d) : x = y
  <2>1. CASE d \in DOMAIN case.closes[b]
    BY <2>1 DEF CasesAreSound, Close
  <2>2. CASE d \notin DOMAIN case.closes[b]
    BY <2>2 DEF Close
  <2> QED BY <2>1, <2>2
<1> QED BY <1>1, <1>2

\* What a judging by contract v3 says, when it is not stopped before.
LEMMA V3Decides ==
    ASSUME case.contract = "v3"
    PROVE  /\ GateVerdict \notin {"raised", "failed"} => GateVerdict = LiveV3 /\ Covered(Nav)
           /\ GateVerdict = "accepted" => GatePasses(Nav)
           /\ LiveV3 \in {"accepted", "rejected"}
<1>1. /\ LiveV3 \in {"accepted", "rejected"}
      /\ LiveV3 = "accepted" => GatePasses(Nav)
  BY DEF LiveV3, V3Verdict
<1> QED BY <1>1 DEF GateVerdict

\* The replay of a candidate whose status is on record decides as the judging did.
LEMMA ReplayDecidesTheSame ==
    ASSUME CasesAreSound, GateInv, Replay,
           replay' \notin {"none", "raised"}, live # "failed", DOMAIN Nav \subseteq Window,
           row.cv # {}, Diagnosed(row) \cap HardRejectDiagnoses = {}
    PROVE  replay' = live
<1>1. live = LiveV3
  BY V3Decides DEF Replay, GateInv
<1>2. NavInWindow = Nav
  <2>1. PICK c \in Cases : case \in c.inputs
    BY DEF GateInv
  <2>2. Nav \in Seq(Nat \ {0})
    BY <2>1, CaseIsSound DEF ANav
  <2>3. Nav = [d \in DOMAIN Nav |-> Nav[d]]
    BY <2>2
  <2>4. DOMAIN Nav \cap Window = DOMAIN Nav
    OBVIOUS
  <2> QED BY <2>3, <2>4 DEF NavInWindow
<1>3. /\ ReplayTest(row.storedTestIc, row.testIc) = row.testIc
      /\ ReplayTest(row.storedTestTb, row.testTb) = row.testTb
  BY DEF GateInv, Replay, ReplayTest, Coalesced
<1>4. CvStatus(row, row.folds) = CvStatus(row, {})
  BY DEF CvStatus
<1>5. SignalPasses(row, row.folds, row.testIc, row.testTb, {})
        = SignalPasses(row, {}, row.testIc, row.testTb, Diagnosed(row))
  BY <1>4 DEF SignalPasses
<1>6. replay' = V3Verdict(/\ SignalPasses(row, row.folds, row.testIc, row.testTb, {})
                          /\ GatePasses(Nav))
  BY <1>2, <1>3 DEF Replay
<1> QED BY <1>1, <1>5, <1>6 DEF LiveV3

LEMMA GateStarts ==
    ASSUME CasesAreSound, GateInit
    PROVE  GateInv
<1>1. PICK c \in Cases : case \in c.inputs /\ row \in c.rows
  BY DEF GateInit
<1>2. row = [f \in RowFields |-> row[f]]
  BY <1>1 DEF CasesAreSound
<1>3. VerdictStands
  BY DEF GateInit, VerdictStands
<1> QED BY <1>1, <1>2, <1>3 DEF GateInit, GateInv

LEMMA GateGoesOn ==
    ASSUME CasesAreSound, GateInv, [GateNext]_gateVars
    PROVE  GateInv'
<1>1. UNCHANGED case
  BY DEF GateNext, JudgeLive, JudgeAgain, Replay, gateVars
<1>2. (\E c \in Cases : case \in c.inputs)'
  BY <1>1 DEF GateInv
<1>3. ASSUME Patch
      PROVE  /\ row' = [f \in RowFields |-> row'[f]]
             /\ GateVerdict' = GateVerdict
             /\ row'.storedTestIc = row'.testIc /\ row'.storedTestTb = row'.testTb
             /\ row'.cv = row.cv /\ Diagnosed(row') = Diagnosed(row)
  BY <1>1, <1>3, PatchKeepsVerdict DEF GateInv
<1>4. ASSUME UNCHANGED row
      PROVE  GateVerdict' = GateVerdict /\ row' = [f \in RowFields |-> row'[f]]
  <2>1. row' = [f \in RowFields |-> row'[f]]
    BY <1>4 DEF GateInv
  <2>2. GateVerdict' = GateVerdict
    BY <1>1, <1>4 DEF GateVerdict, LiveV3, LiveV1, Covered, Nav, GatePasses, AbsolutePasses,
      RelativePasses, BenchmarkReturn, Close
  <2> QED BY <2>1, <2>2
<1>5. CASE JudgeLive
  <2>1. live = "none" /\ again = "none" /\ replay = "none"
    BY <1>5 DEF JudgeLive, GateInv
  <2>2. live' = GateVerdict /\ again' = "none" /\ replay' = "none"
    BY <1>5, <2>1 DEF JudgeLive
  <2>3. VerdictStands'
    BY <2>2 DEF VerdictStands
  <2>4. GateVerdict # "none"
    BY V3Decides DEF GateVerdict, LiveV1
  <2>5. CASE GateVerdict = "raised"
    <3>1. UNCHANGED row
      BY <1>5, <2>5 DEF JudgeLive
    <3> QED BY <1>2, <1>4, <2>2, <2>3, <2>4, <2>5, <3>1 DEF GateInv
  <2>6. CASE GateVerdict # "raised"
    <3>1. Patch
      BY <1>5, <2>6 DEF JudgeLive
    <3> QED BY <1>2, <1>3, <2>2, <2>3, <2>4, <3>1 DEF GateInv
  <2> QED BY <2>5, <2>6
<1>6. CASE JudgeAgain
  <2>1. /\ live = GateVerdict /\ live \notin {"none", "raised"} /\ live' = live
        /\ again' = GateVerdict /\ replay' = replay /\ Patch
    BY <1>6 DEF JudgeAgain, GateInv
  <2>2. VerdictStands'
    <3>1. again' # "none" => again' = live'
      BY <2>1
    <3>2. Nav' = Nav
      BY <1>1 DEF Nav
    <3>3. /\ replay' \notin {"none", "raised"} /\ live' # "failed"
          /\ DOMAIN Nav' \subseteq Window /\ row'.cv # {}
          /\ Diagnosed(row') \cap HardRejectDiagnoses = {}
          => replay' = live'
      BY <1>3, <2>1, <3>2 DEF VerdictStands, GateInv
    <3> QED BY <3>1, <3>3 DEF VerdictStands
  <2> QED BY <1>2, <1>3, <2>1, <2>2 DEF GateInv
<1>7. CASE Replay
  <2>1. UNCHANGED <<case, row, live, again>> /\ live \notin {"none", "raised"}
    BY <1>7 DEF Replay
  <2>2. VerdictStands'
    <3>1. again' # "none" => again' = live'
      BY <2>1 DEF VerdictStands, GateInv
    <3>2. Nav' = Nav /\ Diagnosed(row') = Diagnosed(row)
      BY <2>1 DEF Nav
    <3>3. /\ replay' \notin {"none", "raised"} /\ live' # "failed"
          /\ DOMAIN Nav' \subseteq Window /\ row'.cv # {}
          /\ Diagnosed(row') \cap HardRejectDiagnoses = {}
          => replay' = live'
      BY <1>7, <2>1, <3>2, ReplayDecidesTheSame
    <3> QED BY <3>1, <3>3 DEF VerdictStands
  <2>3. live' = GateVerdict'
    BY <1>4, <2>1 DEF GateInv
  <2>4. row'.storedTestIc = row'.testIc /\ row'.storedTestTb = row'.testTb
    BY <2>1 DEF GateInv
  <2> QED BY <1>2, <1>4, <2>1, <2>2, <2>3, <2>4 DEF GateInv
<1>8. CASE UNCHANGED gateVars
  <2>1. UNCHANGED <<case, row, live, again, replay>>
    BY <1>8 DEF gateVars
  <2>2. VerdictStands'
    BY <2>1 DEF VerdictStands, GateInv, Nav
  <2> QED BY <1>2, <1>4, <2>1, <2>2 DEF GateInv
<1> QED BY <1>5, <1>6, <1>7, <1>8 DEF GateNext

LEMMA GateAlways ==
    ASSUME CasesAreSound
    PROVE  GateSpec => []GateInv
<1>1. GateInit => GateInv
  BY GateStarts
<1>2. GateInv /\ [GateNext]_gateVars => GateInv'
  BY GateGoesOn
<1> QED BY <1>1, <1>2, PTL DEF GateSpec

\* A resumed search decides again what it decided, although the judging before it wrote into
\* the row it reads; and so does the replay of the gate, if the NAV is in its window.
THEOREM VerdictsStand ==
    ASSUME CasesAreSound
    PROVE  GateSpec => []VerdictStands
<1>1. GateInv => VerdictStands
  BY DEF GateInv
<1> QED BY <1>1, GateAlways, PTL

\* By contract v3 an accepted strategy has grown, has outgrown one of the indexes that are
\* priced on each of its days, and gained more per year than it lost between any two days.
THEOREM AcceptedHasBeatenAnIndex ==
    ASSUME CasesAreSound
    PROVE  GateSpec => []AcceptedBeatsAnIndex
<1>1. ASSUME GateInv
      PROVE  AcceptedBeatsAnIndex
  <2> SUFFICES ASSUME live = "accepted", case.contract = "v3"
               PROVE  /\ Nav[LastDay(Nav)] > Nav[FirstDay(Nav)]
                      /\ \E b \in Benchmarks :
                           /\ \A d \in DOMAIN Nav : Close(b, d) # {}
                           /\ \A x \in Close(b, FirstDay(Nav)), y \in Close(b, LastDay(Nav)) :
                                Nav[LastDay(Nav)] * x > y * Nav[FirstDay(Nav)]
                      /\ \A d, e \in DOMAIN Nav :
                           d < e => Exceeds(StrategyReturn(Nav), <<Nav[d] - Nav[e], Nav[d]>>)
    BY DEF AcceptedBeatsAnIndex
  <2>1. GatePasses(Nav)
    BY <1>1, V3Decides DEF GateInv
  <2>2. PICK c \in Cases : case \in c.inputs
    BY <1>1 DEF GateInv
  <2>3. ANav(Nav) /\ AnnualFactor \in Nat
    BY <2>2, CaseIsSound
  <2>4. /\ Nav[LastDay(Nav)] > Nav[FirstDay(Nav)]
        /\ \A d, e \in DOMAIN Nav :
             d < e => Exceeds(StrategyReturn(Nav), <<Nav[d] - Nav[e], Nav[d]>>)
    BY <2>1, <2>3, AbsoluteMeans DEF GatePasses
  <2>5. PICK b \in Benchmarks : RelativePasses(b, Nav)
    BY <2>1 DEF GatePasses
  <2>6. \A d \in DOMAIN Nav : /\ Close(b, d) \subseteq Nat \ {0}
                              /\ \A x, y \in Close(b, d) : x = y
    BY <2>2, CaseIsSound
  <2>7. /\ \A d \in DOMAIN Nav : Close(b, d) # {}
        /\ \A x \in Close(b, FirstDay(Nav)), y \in Close(b, LastDay(Nav)) :
             Nav[LastDay(Nav)] * x > y * Nav[FirstDay(Nav)]
    BY <2>3, <2>5, <2>6, RelativeMeans
  <2> QED BY <2>4, <2>7
<1>2. GateInv => AcceptedBeatsAnIndex
  BY <1>1
<1> QED BY <1>2, GateAlways, PTL
================================================================================
