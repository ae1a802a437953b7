------------------------------ MODULE Promotion ------------------------------
(***************************************************************************)
(* From yearly predictions to published tables.  A refit writes the        *)
(* registry row and the predictions of a year's source run; the synthetic  *)
(* merge copies the years of a manifest into one continuous run; a         *)
(* backtest of that run writes its candidates and targets, its ledger and  *)
(* its summary; an approved promotion copies all of it from the research   *)
(* tables into the ADS tables, in one BigQuery transaction.                *)
(*                                                                         *)
(* The writers are separate programs without a common lock or transaction: *)
(* each may stop after any statement and be started again, with or without *)
(* --force-replace, and others run in between.  A row carries the number   *)
(* of the program start that wrote it, which stands for its content.       *)
(*                                                                         *)
(* Order plan, positions and ledger states are written, cleared and        *)
(* promoted as targets and trades are, the signal monitor with the         *)
(* summary; they have no table of their own here.                          *)
(***************************************************************************)
EXTENDS Integers, FiniteSets

CONSTANTS
    Days,           \* open days
    SourceDays,     \* year -> the days its source run predicts
    Manifests,      \* synthetic manifests: sets of year slices
    Windows,        \* windows a backtest may be asked for
    PromotionWindows, RoleSets,   \* what a promotion may be asked for
    RebalanceDays,
    MaxStarts, MaxPromotions      \* bounds on the starts of programs

Years == DOMAIN SourceDays
Synth == 0          \* the run id the merge writes to
Ledger == {"trade", "nav"}
Roles == {"registry", "prediction", "candidate", "target", "trade", "nav", "summary"}

ASSUME PromotionAssumption ==
    /\ Days \subseteq Nat /\ Years \subseteq Nat \ {Synth}
    /\ \A y \in Years : SourceDays[y] \subseteq Days
    /\ \A roles \in RoleSets : roles \subseteq Roles
    /\ \A w \in Windows \cup PromotionWindows : w.first \in Nat /\ w.last \in Nat
    /\ \A m \in Manifests : \A s \in m : s.year \in Years /\ s.first \in Nat /\ s.last \in Nat

VARIABLES
    starts,         \* program starts so far
    refit, merge, backtest,   \* the program under way, and its next statement
    research, ads,  \* role -> rows
    accepted,       \* research_acceptance_result accepts the backtest
    manifest,       \* research_promotion_manifest
    raced,          \* history: a source was written while it was merged
    stacked         \* history: without force, a ledger was written over one that was
                    \* there, or into the dates of a summary that was there

vars == <<starts, refit, merge, backtest, research, ads, accepted, manifest, raced, stacked>>

Idle == [at |-> "idle"]

Within(w, d) == w.first <= d /\ d <= w.last
RowsOf(run) == {r \in research.registry : r.run = run}
Predictions(run) == {p \in research.prediction : p.run = run}
Registered(run, ver) == [run |-> run, ver |-> ver, accepted |-> FALSE, promo |-> 0]

Init ==
    /\ starts = 0 /\ refit = Idle /\ merge = Idle /\ backtest = Idle
    /\ research = [role \in Roles |-> {}] /\ ads = [role \in Roles |-> {}]
    /\ accepted = FALSE /\ manifest = {} /\ raced = FALSE /\ stacked = FALSE

CountStart == starts < MaxStarts /\ starts' = starts + 1
Outcome == UNCHANGED <<ads, accepted, manifest>>

-----------------------------------------------------------------------------
(* Refit of one year: refit_register_predict, after the model is fitted.   *)

RefitUnchanged == Outcome /\ UNCHANGED <<merge, backtest, stacked>>

StartRefit(y, force) ==
    /\ refit.at = "idle" /\ CountStart
    /\ refit' = [at |-> IF force THEN "clear" ELSE "register", year |-> y, ver |-> starts + 1,
                 force |-> force]
    /\ RefitUnchanged /\ UNCHANGED <<research, raced>>

\* A statement of the refit; a merge that has read its sources is overtaken.
RefitStep(at, then, role, rows) ==
    /\ refit.at = at
    /\ refit' = IF then = "idle" THEN Idle ELSE [refit EXCEPT !.at = then]
    /\ research' = [research EXCEPT ![role] = rows]
    /\ raced' = (raced \/ (merge.at # "idle" /\ \E s \in merge.slices : s.year = refit.year))
    /\ RefitUnchanged /\ UNCHANGED starts

\* clear_train_predict_outputs, then write_registry, then write_predictions.
RefitClear ==
    RefitStep("clear", "drop", "prediction", research.prediction \ Predictions(refit.year))
RefitDrop ==
    RefitStep("drop", "register", "registry", research.registry \ RowsOf(refit.year))
RefitRegister ==
    RefitStep("register", "predict", "registry",
              research.registry \cup {Registered(refit.year, refit.ver)})
RefitPredict ==
    RefitStep("predict", "idle", "prediction",
              research.prediction \cup
                  {[run |-> refit.year, day |-> d, ver |-> refit.ver, of |-> 0] :
                      d \in SourceDays[refit.year]})

Refit ==
    \/ \E y \in Years, force \in BOOLEAN : StartRefit(y, force)
    \/ refit.at # "idle" /\ (RefitClear \/ RefitDrop \/ RefitRegister \/ RefitPredict)

-----------------------------------------------------------------------------
(* The synthetic merge: run_synthetic_merge.                               *)

MergeUnchanged == Outcome /\ UNCHANGED <<refit, backtest, raced, stacked>>

\* load_synthetic_manifest
ValidManifest(m) ==
    /\ m # {}
    /\ \A s \in m : s.first <= s.last
    /\ \A s, t \in m :
         /\ s.year = t.year => s = t
         /\ s.year < t.year => s.last < t.first
    /\ \A s \in m : (\A t \in m : s.year <= t.year) \/ \E t \in m : t.year = s.year - 1

\* Between the first day of a slice and the last day of one.
InMergeWindow(p) ==
    /\ \E s \in merge.slices : s.first <= p.day
    /\ \E s \in merge.slices : p.day <= s.last

\* load_source_registry_rows: each source run has one selected row.
StartMerge(m, force) ==
    /\ merge.at = "idle" /\ CountStart /\ ValidManifest(m)
    /\ \A s \in m : Cardinality(RowsOf(s.year)) = 1
    /\ merge' = [at |-> "count", slices |-> m, ver |-> starts + 1, force |-> force]
    /\ MergeUnchanged /\ UNCHANGED research

MergeStep(at, then) ==
    /\ merge.at = at
    /\ merge' = IF then = "idle" THEN Idle ELSE [merge EXCEPT !.at = then]
    /\ MergeUnchanged /\ UNCHANGED starts

\* Mutant: only the registry is looked at.
ExistingRegistryRows == RowsOf(Synth) # {}

\* count_existing_target_rows
ExistingTargetRows == RowsOf(Synth) # {} \/ \E p \in Predictions(Synth) : InMergeWindow(p)

MergeCount ==
    /\ MergeStep("count", CASE merge.force -> "drop"
                            [] ~merge.force /\ ExistingTargetRows -> "idle"   \* raises
                            [] OTHER -> "register")
    /\ UNCHANGED research

\* clear_synthetic_outputs: two statements.
MergeDrop ==
    /\ MergeStep("drop", "clear")
    /\ research' = [research EXCEPT !.registry = @ \ RowsOf(Synth)]

MergeClear ==
    /\ MergeStep("clear", "register")
    /\ research' = [research EXCEPT !.prediction =
                        @ \ {p \in Predictions(Synth) : InMergeWindow(p)}]

MergeRegister ==
    /\ MergeStep("register", "insert")
    /\ research' = [research EXCEPT !.registry = @ \cup {Registered(Synth, merge.ver)}]

\* insert_synthetic_predictions: joins the manifest with what the sources'
\* prediction rows are by now.
MergeInsert ==
    /\ MergeStep("insert", "idle")
    /\ research' = [research EXCEPT !.prediction = @ \cup
           UNION {{[run |-> Synth, day |-> p.day, ver |-> merge.ver, of |-> p.ver] :
                      p \in {q \in Predictions(s.year) : Within(s, q.day)}} : s \in merge.slices}]

Merge ==
    \/ \E m \in Manifests, force \in BOOLEAN : StartMerge(m, force)
    \/ merge.at # "idle" /\ (MergeCount \/ MergeDrop \/ MergeClear \/ MergeRegister \/ MergeInsert)

-----------------------------------------------------------------------------
(* The backtest of the synthetic run: backtest_report.                     *)

BacktestUnchanged == Outcome /\ UNCHANGED <<refit, merge, raced>>

StartBacktest(w, force) ==
    /\ backtest.at = "idle" /\ CountStart
    /\ backtest' = [at |-> "check", role |-> "candidate", window |-> w, ver |-> starts + 1,
                    force |-> force]
    /\ BacktestUnchanged /\ UNCHANGED <<research, stacked>>

GoOn(at, role) == backtest' = [backtest EXCEPT !.at = at, !.role = role]
Leave == backtest' = Idle

InWindow(r) == Within(backtest.window, r.day)
Dated(days) == {[day |-> d, ver |-> backtest.ver] :
                   d \in {e \in days : Within(backtest.window, e)}}

\* The head of build_candidates and build_portfolio_targets: rows that are
\* there are deleted, or refused.
CheckTarget ==
    LET role == backtest.role
        there == {r \in research[role] : InWindow(r)}
        model == role = "candidate" => RowsOf(Synth) # {}
    IN
    /\ backtest.at = "check"
    /\ IF model /\ (backtest.force \/ there = {})
       THEN GoOn("insert", role) /\ research' = [research EXCEPT ![role] = @ \ there]
       ELSE Leave /\ UNCHANGED research
    /\ BacktestUnchanged /\ UNCHANGED <<starts, stacked>>

\* Candidates from the predictions of the rebalance days, targets from them.
InsertTarget ==
    /\ backtest.at = "insert"
    /\ \/ /\ backtest.role = "candidate" /\ GoOn("check", "target")
          /\ research' = [research EXCEPT !.candidate =
                 @ \cup Dated({p.day : p \in Predictions(Synth)} \cap RebalanceDays)]
       \/ /\ backtest.role = "target"
          /\ GoOn(IF backtest.force THEN "clear" ELSE "load", "trade")
          /\ research' = [research EXCEPT !.target =
                 @ \cup Dated({c.day : c \in research.candidate})]
    /\ BacktestUnchanged /\ UNCHANGED <<starts, stacked>>

\* Mutant: the summary of the ledger that is replaced stays.
ClearOnlyLedger ==
    /\ backtest.at = "clear"
    /\ IF backtest.role = "trade" THEN GoOn("clear", "nav") ELSE GoOn("load", "trade")
    /\ research' = [research EXCEPT ![backtest.role] =
                       {r \in @ : r.day < backtest.window.first}]
    /\ BacktestUnchanged /\ UNCHANGED <<starts, stacked>>

\* clear_ledger_outputs: a statement per table, from the first day of the
\* window on, then the summary.
ClearLedger ==
    /\ backtest.at = "clear"
    /\ CASE backtest.role = "trade" -> GoOn("clear", "nav")
         [] backtest.role = "nav" -> GoOn("clear", "summary")
         [] OTHER -> GoOn("load", "trade")
    /\ research' = [research EXCEPT ![backtest.role] =
           IF backtest.role = "summary" THEN {} ELSE {r \in @ : r.day < backtest.window.first}]
    /\ BacktestUnchanged /\ UNCHANGED <<starts, stacked>>

OverAnother ==
    \/ \E r \in research[backtest.role] : InWindow(r)
    \/ \E s \in research.summary, d \in Days :
           Within(backtest.window, d) /\ Within(s, d)

\* run_ledger appends what it has simulated; without targets it raises.
LoadLedger ==
    /\ backtest.at = "load"
    /\ IF \E t \in research.target : InWindow(t)
       THEN /\ IF backtest.role = "trade" THEN GoOn("load", "nav")
                                         ELSE GoOn("summarise", "summary")
            /\ stacked' = (stacked \/ (~backtest.force /\ OverAnother))
            /\ research' = [research EXCEPT ![backtest.role] = @ \cup Dated(Days)]
       ELSE Leave /\ UNCHANGED <<research, stacked>>
    /\ BacktestUnchanged /\ UNCHANGED starts

\* build_metrics_and_report_inputs: from the NAV rows of the window.
Summarise ==
    LET days == {n.day : n \in {r \in research.nav : InWindow(r)}} IN
    /\ backtest.at = "summarise" /\ Leave
    /\ IF RowsOf(Synth) # {} /\ (backtest.force \/ research.summary = {})
       THEN \E first, last \in days :
              /\ \A d \in days : first <= d /\ d <= last
              /\ research' = [research EXCEPT !.summary =
                     {[first |-> first, last |-> last, ver |-> backtest.ver, promo |-> 0]}]
       ELSE UNCHANGED research
    /\ BacktestUnchanged /\ UNCHANGED <<starts, stacked>>

Backtest ==
    \/ \E w \in Windows, force \in BOOLEAN : StartBacktest(w, force)
    \/ CheckTarget \/ InsertTarget \/ ClearLedger \/ LoadLedger \/ Summarise

-----------------------------------------------------------------------------
(* A program stops: it is killed, or a call fails.                         *)

Stop ==
    /\ \/ refit.at # "idle" /\ refit' = Idle /\ UNCHANGED <<merge, backtest>>
       \/ merge.at # "idle" /\ merge' = Idle /\ UNCHANGED <<refit, backtest>>
       \/ backtest.at # "idle" /\ backtest' = Idle /\ UNCHANGED <<refit, merge>>
    /\ Outcome /\ UNCHANGED <<starts, research, raced, stacked>>

-----------------------------------------------------------------------------
(* Acceptance and promotion.                                               *)

\* The verdict on the backtest is written into the registry row or into
\* research_acceptance_result, which is keyed by ids and outlives a rewrite.
Judge ==
    /\ research.summary # {}
    /\ \/ accepted' = TRUE /\ UNCHANGED research
       \/ /\ research' = [research EXCEPT !.registry =
                 {IF r.run = Synth THEN [r EXCEPT !.accepted = TRUE] ELSE r : r \in @}]
          /\ UNCHANGED accepted
    /\ UNCHANGED <<starts, refit, merge, backtest, ads, manifest, raced, stacked>>

\* PROMOTION_TABLE_SPECS: the rows of a role a promotion reads or replaces.
Scope(tables, role, w) ==
    CASE role = "registry" -> {r \in tables[role] : r.run = Synth}
      [] role = "prediction" -> {p \in tables[role] : p.run = Synth /\ Within(w, p.day)}
      [] role = "summary" -> tables[role]
      [] OTHER -> {r \in tables[role] : Within(w, r.day)}

\* _accepted_source_guard
AcceptedSource == accepted \/ \E r \in RowsOf(Synth) : r.accepted

\* _summary_window_guard
SummaryWithin(w) == \A s \in research.summary : Within(w, s.first) /\ Within(w, s.last)

\* _table_copy_statements: there are source rows, for trades and NAV none
\* outside the window, and nothing to overwrite unless by force.
Copyable(role, w, force) ==
    /\ Scope(research, role, w) # {}
    /\ role \in Ledger => \A r \in research[role] : Within(w, r.day)
    /\ force \/ Scope(ads, role, w) = {}

\* The lifecycle columns are not copied.
Copied(role, w) ==
    LET rows == Scope(research, role, w) IN
    (ads[role] \ Scope(ads, role, w)) \cup
        (IF role \in {"registry", "summary"} THEN {[r EXCEPT !.promo = 0] : r \in rows} ELSE rows)

\* run_promotion: one transaction; a failed assertion leaves nothing behind.
Promote(w, roles, force, allowUnaccepted) ==
    LET id == Cardinality(manifest) + 1 IN
    /\ id <= MaxPromotions
    /\ allowUnaccepted \/ AcceptedSource
    /\ SummaryWithin(w)
    /\ \A role \in roles : Copyable(role, w, force)
    /\ ads' = [role \in Roles |-> IF role \in roles THEN Copied(role, w) ELSE ads[role]]
    /\ research' = [role \in Roles |->
           IF role \in roles \cap {"registry", "summary"}
           THEN (research[role] \ Scope(research, role, w)) \cup
                    {[r EXCEPT !.promo = id] : r \in Scope(research, role, w)}
           ELSE research[role]]
    /\ manifest' = manifest \cup {[id |-> id, window |-> w, roles |-> roles]}
    /\ UNCHANGED <<starts, refit, merge, backtest, accepted, raced, stacked>>

Next ==
    \/ Refit \/ Merge \/ Backtest \/ Stop \/ Judge
    \/ \E w \in PromotionWindows, roles \in RoleSets, force, allowUnaccepted \in BOOLEAN :
           Promote(w, roles, force, allowUnaccepted)

Spec == Init /\ [][Next]_vars

-----------------------------------------------------------------------------
(* Properties.                                                             *)

RegistryRows == [run : Years \cup {Synth}, ver : Nat, accepted : BOOLEAN, promo : Nat]
PredictionRows == [run : Years \cup {Synth}, day : Days, ver : Nat, of : Nat]
SummaryRows == [first : Days, last : Days, ver : Nat, promo : Nat]
DatedRows == [day : Days, ver : Nat]
RowsFor(role) ==
    CASE role = "registry" -> RegistryRows
      [] role = "prediction" -> PredictionRows
      [] role = "summary" -> SummaryRows
      [] OTHER -> DatedRows
Tables(t) ==
    /\ t = [role \in Roles |-> t[role]]
    /\ \A role \in Roles : t[role] \subseteq RowsFor(role)

RefitOK ==
    refit \in {Idle} \cup
        [at : {"clear", "drop", "register", "predict"}, year : Years, ver : Nat, force : BOOLEAN]
MergeOK ==
    merge \in {Idle} \cup
        [at : {"count", "drop", "clear", "register", "insert"}, slices : Manifests, ver : Nat,
         force : BOOLEAN]
BacktestOK ==
    backtest \in {Idle} \cup
        [at : {"check", "insert"}, role : {"candidate", "target"}, window : Windows, ver : Nat,
         force : BOOLEAN] \cup
        [at : {"clear"}, role : Ledger \cup {"summary"}, window : Windows, ver : Nat,
         force : BOOLEAN] \cup
        [at : {"load"}, role : Ledger, window : Windows, ver : Nat, force : BOOLEAN] \cup
        [at : {"summarise"}, role : {"summary"}, window : Windows, ver : Nat, force : BOOLEAN]

\* The variables have the values the code can give them; a program at a statement works on
\* one of the statement's tables.
TypeOK ==
    /\ starts \in Nat
    /\ RefitOK /\ MergeOK /\ BacktestOK
    /\ Tables(research) /\ Tables(ads)
    /\ accepted \in BOOLEAN /\ raced \in BOOLEAN /\ stacked \in BOOLEAN
    /\ manifest \subseteq [id : Nat, window : PromotionWindows, roles : RoleSets]
    /\ IsFiniteSet(manifest)

\* However merges and refits stop and are started again, with and without
\* force and over other windows, the continuous run has one prediction of a
\* day; only a source rewritten while it is merged can double one.
SyntheticDaysOnce ==
    raced \/ \A d \in Days : Cardinality({p \in Predictions(Synth) : p.day = d}) <= 1

\* What a promotion of all roles publishes belongs together: within the dates
\* of the published summary, trades and NAV are of the backtest the summary
\* was computed from, although the backtest is rewritten in many statements
\* and a promotion may fall between any two.  (The check of the candidates does
\* not find a ledger or a summary that is there: a backtest without force over
\* what a forced one has left when it was killed is the exception.)
PublishedIsOneBacktest ==
    ~stacked /\ (\A m \in manifest : m.roles = Roles) =>
        \A s \in ads.summary, role \in Ledger : \A r \in ads[role] :
            s.first <= r.day /\ r.day <= s.last => r.ver = s.ver

-----------------------------------------------------------------------------
(* The inductive invariant: the sources and the continuous run.            *)

\* Each prediction of a source run has the registry row it was written with, and who is
\* to write predictions has written that row.
SourcesRegistered ==
    /\ \A y \in Years : \A p \in Predictions(y) : \E r \in RowsOf(y) : r.ver = p.ver
    /\ \A y \in Years : \A p \in Predictions(y) : p.of = 0
    /\ refit.at = "drop" => Predictions(refit.year) = {}
    /\ refit.at = "predict" => \E r \in RowsOf(refit.year) : r.ver = refit.ver

\* The registry row a merge has found for a year is the only one until a refit races it.
SourcesSingle ==
    merge.at # "idle" =>
        /\ ValidManifest(merge.slices)
        /\ raced \/ \A s \in merge.slices : \A r, t \in RowsOf(s.year) : r = t

\* A merge that writes has its window to itself.
TargetClear ==
    merge.at \in {"register", "insert"} => \A p \in Predictions(Synth) : ~InMergeWindow(p)

DaysOnce == raced \/ \A p, q \in Predictions(Synth) : p.day = q.day => p = q

SourceInv ==
    /\ \A y \in Years : IsFiniteSet(RowsOf(y))
    /\ SourcesRegistered /\ SourcesSingle /\ TargetClear /\ DaysOnce

-----------------------------------------------------------------------------
(* The inductive invariant: the ledger and its summary.                    *)

Cleared(role) == \A r \in research[role] : ~InWindow(r)
Own(role) == \A r \in research[role] : InWindow(r) => r.ver = backtest.ver

\* How far a backtest by force has cleared the way for its ledger, and which rows of its
\* window are a backtest's own.
LedgerKeepsUp ==
    /\ backtest.at = "clear" =>
         /\ backtest.force
         /\ backtest.role # "trade" => Cleared("trade")
         /\ backtest.role = "summary" => Cleared("nav")
    /\ backtest.at = "load" =>
         /\ backtest.force => research.summary = {} /\ Cleared("nav")
         /\ backtest.force /\ backtest.role = "trade" => Cleared("trade")
         /\ stacked \/ backtest.role = "trade" \/ Own("trade")
    /\ backtest.at = "summarise" => stacked \/ (Own("trade") /\ Own("nav"))

\* A ledger that is there within the dates of the summary is the summary's.
LedgerIsSummarised == stacked \/
    \A s \in research.summary, role \in Ledger : \A r \in research[role] :
        s.first <= r.day /\ r.day <= s.last => r.ver = s.ver

LedgerInv == LedgerKeepsUp /\ LedgerIsSummarised /\ PublishedIsOneBacktest

IInv == TypeOK /\ SourceInv /\ LedgerInv
=============================================================================
