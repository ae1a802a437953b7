----------------------------- MODULE Ingestion -----------------------------
(***************************************************************************)
(* Executions of the ingestion job.  Each walks its plan: it asks the      *)
(* source for the rows of an endpoint and a day, page by page, writes the  *)
(* partitions they belong to, staging object first, and in the end records *)
(* the outcomes in ashare_meta.  Executions follow each other, for the     *)
(* same day or another one, or overlap; the workflow gives them all one    *)
(* run id, and with it one staging path.                                   *)
(*                                                                         *)
(* A row is <<day, n>>, the n-th row the source has for that day.  Merging *)
(* is union: the primary keys hold the announcement date.                  *)
(***************************************************************************)
EXTENDS Integers, Sequences, FiniteSets

CONSTANTS
    Exec,          \* executions
    Settings,      \* what may be given: the arguments of the executions, the
                   \* number of rows the source has by endpoint and day, and
                   \* whether its server pages or "ignores" the offset
    Days,          \* business dates
    Endpoints,     \* the endpoints of the group, in order
    Semantics,     \* of each endpoint: "business_date" or "report_period"
    LookbackOpenDays,  \* of each endpoint
    OpenDays,      \* open days, as far as the calendar reaches
    EndDate,       \* report period of the n-th row of a day
    RowLimit, MaxPages, MaxRetries

ASSUME IngestionAssumption ==
    /\ OpenDays \subseteq Days /\ Days \subseteq Nat \ {0} /\ IsFiniteSet(Days)
    /\ RowLimit \in Nat \ {0} /\ MaxPages \in Nat \ {0} /\ MaxRetries \in Nat

Names == {Endpoints[i] : i \in DOMAIN Endpoints}

\* The manifest: each endpoint is in a group once; the endpoints of a group that look back
\* do so equally far, and those of a report period do not.
ASSUME ManifestAssumption ==
    /\ Endpoints \in Seq(Names) /\ Endpoints # <<>>
    /\ \A i, j \in DOMAIN Endpoints : Endpoints[i] = Endpoints[j] => i = j
    /\ \A x \in Names :
         /\ LookbackOpenDays[x] \in Nat \ {0}
         /\ \A y \in Names : LookbackOpenDays[x] > 1 =>
               LookbackOpenDays[y] \in {1, LookbackOpenDays[x]}
         /\ Semantics[x] = "report_period" => LookbackOpenDays[x] = 1

ASSUME SourceAssumption ==
    /\ EndDate \in Seq(Nat)
    /\ \A s \in Settings :
        /\ \A e \in Exec : s.day[e] \in Days
        /\ \A x \in Names, d \in Days : s.rows[x][d] \in 0 .. Len(EndDate)

VARIABLES
    setting,    \* day and mode of each execution, source and server
    at,         \* where each execution is
    item,       \* the item of its plan: number of the endpoint, and date
    page, tries, fetched,  \* pages read, retries, rows received
    todo,       \* rows of the item still to be written
    base,       \* rows read from the partition, to be merged
    raised,     \* whether the items of its plan are written off
    results,    \* outcomes to be recorded
    partition,     \* published partitions
    staging,    \* staging objects
    runs,       \* rows of ingestion_run
    status,     \* rows of ingestion_partition_status
    published,  \* history: what each execution has published
    last,       \* history: the execution started last
    overlapped  \* history: two executions were under way at once

reading == <<page, tries, fetched>>
writing == <<todo, base>>
storage == <<partition, staging, published>>
tables == <<runs, status>>
history == <<last, overlapped>>
world == <<setting, history>>
outcomes == <<raised, results>>
ingestionVars == <<setting, at, item, reading, writing, outcomes, storage, tables, history>>

Missing == {}   \* no object: a published partition has rows
NoStatus == [status |-> "none", by |-> "nobody"]
Underway(e) == at[e] \notin {"idle", "ok", "failed", "killed"}
Day(e) == setting.day[e]
Writes(e) == setting.mode[e] = "write"
Least(S) == CHOOSE n \in S : \A m \in S : n <= m

-----------------------------------------------------------------------------
(* The plan.                                                               *)

OpenUpTo(day) == {d \in OpenDays : d <= day}

PartitionDates(x, day) ==
    IF LookbackOpenDays[x] = 1 THEN {day}
    ELSE {d \in OpenUpTo(day) :
            Cardinality({c \in OpenUpTo(day) : c > d}) < LookbackOpenDays[x]}

\* resolve_open_business_dates: the calendar must hold the whole look-back.
DatesResolve(day) ==
    \A x \in Names : Cardinality(PartitionDates(x, day)) = LookbackOpenDays[x]

\* The plan: by endpoint, then by date.
Endpoint(e) == Endpoints[item[e][1]]
LogicalDate(e) == item[e][2]
Merges(e) == Semantics[Endpoint(e)] = "report_period"

FirstOf(e, i) == <<i, Least(PartitionDates(Endpoints[i], Day(e)))>>
Later(e) == {d \in PartitionDates(Endpoint(e), Day(e)) : d > LogicalDate(e)}
LastItem(e) == item[e][1] = Len(Endpoints) /\ Later(e) = {}
Following(e) ==
    IF Later(e) # {} THEN <<item[e][1], Least(Later(e))>> ELSE FirstOf(e, item[e][1] + 1)

\* The partitions of the ODS and their status rows have the same keys.
ItemKey(e) == <<Endpoint(e), LogicalDate(e)>>
Keys == Names \X (Days \cup {EndDate[n] : n \in DOMAIN EndDate})

\* The partition the next row belongs to, and all its rows of this item.
Period(e) == EndDate[Least(todo[e])]
Key(e) == IF Merges(e) THEN <<Endpoint(e), Period(e)>> ELSE ItemKey(e)
InGroup(e, n) == ~Merges(e) \/ EndDate[n] = Period(e)
Group(e) == {<<LogicalDate(e), n>> : n \in {m \in todo[e] : InGroup(e, m)}}

-----------------------------------------------------------------------------
IngestionInit ==
    /\ setting \in Settings
    /\ at = [e \in Exec |-> "idle"] /\ item = [e \in Exec |-> <<0, 0>>]
    /\ page = [e \in Exec |-> 0] /\ tries = [e \in Exec |-> 0] /\ fetched = [e \in Exec |-> {}]
    /\ todo = [e \in Exec |-> {}] /\ base = [e \in Exec |-> {}]
    /\ raised = [e \in Exec |-> FALSE] /\ results = [e \in Exec |-> <<>>]
    /\ partition = [k \in Keys |-> Missing] /\ staging = [k \in Keys |-> Missing]
    /\ runs = {} /\ status = [k \in Keys |-> NoStatus]
    /\ published = [e \in Exec |-> {}] /\ last = "nobody" /\ overlapped = FALSE

GoTo(e, where) == at' = [at EXCEPT ![e] = where]

\* The except branch of main: every item of the plan is written off.
Raise(e) ==
    IF Writes(e)
    THEN /\ GoTo(e, "insert") /\ item' = [item EXCEPT ![e] = FirstOf(e, 1)]
         /\ raised' = [raised EXCEPT ![e] = TRUE]
         /\ results' = [results EXCEPT ![e] = <<>>]
    ELSE GoTo(e, "failed") /\ UNCHANGED <<item, outcomes>>

\* Before the try: nothing is recorded of an execution without a plan.
Start(e) ==
    /\ at[e] = "idle"
    /\ IF ~DatesResolve(Day(e)) THEN GoTo(e, "failed") /\ UNCHANGED item
       ELSE IF setting.mode[e] = "dry_run" THEN GoTo(e, "ok") /\ UNCHANGED item
       ELSE GoTo(e, "query") /\ item' = [item EXCEPT ![e] = FirstOf(e, 1)]
    /\ last' = e /\ overlapped' = (overlapped \/ \E f \in Exec : Underway(f))
    /\ UNCHANGED <<setting, reading, writing, outcomes, storage, tables>>

-----------------------------------------------------------------------------
(* TushareClient.query.                                                    *)

SourceRows(e) == setting.rows[Endpoint(e)][LogicalDate(e)]

PageRows(e) ==
    LET offset == IF setting.server = "pages" THEN page[e] * RowLimit ELSE 0
    IN {n \in 1..SourceRows(e) : offset < n /\ n <= offset + RowLimit}

Repeated(e) == PageRows(e) # {} /\ PageRows(e) \subseteq fetched[e]

NextItem(e) ==
    /\ GoTo(e, IF ~LastItem(e) THEN "query" ELSE IF Writes(e) THEN "insert" ELSE "ok")
    /\ item' = [item EXCEPT ![e] = IF LastItem(e) THEN @ ELSE Following(e)]
    /\ page' = [page EXCEPT ![e] = 0] /\ fetched' = [fetched EXCEPT ![e] = {}]

Outcome(key, s) == [key |-> key, status |-> s]

\* ingest_plan, with all the rows of an item.
Received(e, all) ==
    IF all = {}
    THEN /\ results' = [results EXCEPT ![e] = Append(@, Outcome(ItemKey(e), "empty_return"))]
         /\ NextItem(e) /\ UNCHANGED <<todo, raised>>
    ELSE IF Writes(e)
    THEN /\ todo' = [todo EXCEPT ![e] = all] /\ fetched' = [fetched EXCEPT ![e] = all]
         /\ GoTo(e, IF Merges(e) THEN "read" ELSE "stage")
         /\ UNCHANGED <<item, page, outcomes>>
    ELSE NextItem(e) /\ UNCHANGED <<todo, outcomes>>

PageRead(e) ==
    /\ at[e] = "query" /\ tries' = [tries EXCEPT ![e] = 0]
    /\ LET all == fetched[e] \cup PageRows(e)
           full == Cardinality(PageRows(e)) = RowLimit
       IN IF Repeated(e) \/ (full /\ page[e] + 1 = MaxPages)
          THEN Raise(e) /\ UNCHANGED <<page, fetched, todo>>
          ELSE IF full
          THEN /\ page' = [page EXCEPT ![e] = @ + 1] /\ fetched' = [fetched EXCEPT ![e] = all]
               /\ UNCHANGED <<at, item, todo, outcomes>>
          ELSE Received(e, all)
    /\ UNCHANGED <<base, storage, tables, world>>

\* A timeout, a lost connection or a 5xx; other errors are not tried again.
PageFails(e) ==
    /\ at[e] = "query"
    /\ \/ /\ tries[e] < MaxRetries /\ tries' = [tries EXCEPT ![e] = @ + 1]
          /\ UNCHANGED <<at, item, outcomes>>
       \/ Raise(e) /\ UNCHANGED tries
    /\ UNCHANGED <<page, fetched, writing, storage, tables, world>>

-----------------------------------------------------------------------------
(* write_parquet_to_gcs.                                                   *)

\* Mutant: the partition is replaced by the new rows.
ReadNothing(e) ==
    /\ at[e] = "read"
    /\ base' = [base EXCEPT ![e] = {}] /\ GoTo(e, "stage")
    /\ UNCHANGED <<item, reading, todo, outcomes, storage, tables, world>>

ReadExisting(e) ==
    /\ at[e] = "read"
    /\ base' = [base EXCEPT ![e] = partition[Key(e)]] /\ GoTo(e, "stage")
    /\ UNCHANGED <<item, reading, todo, outcomes, storage, tables, world>>

Stage(e) ==
    /\ at[e] = "stage"
    /\ staging' = [staging EXCEPT ![Key(e)] = base[e] \cup Group(e)]
    /\ GoTo(e, "verify")
    /\ UNCHANGED <<item, reading, writing, outcomes, partition, published, tables, world>>

\* The staged object is read back; its schema may turn out another one.
Verify(e) ==
    /\ at[e] = "verify"
    /\ \/ staging[Key(e)] # Missing /\ GoTo(e, "publish")
          /\ UNCHANGED <<item, outcomes, staging>>
       \/ Raise(e) /\ staging' = [staging EXCEPT ![Key(e)] = Missing]
    /\ UNCHANGED <<reading, writing, partition, published, tables, world>>

\* Copies what is staged now.
Publish(e) ==
    /\ at[e] = "publish"
    /\ IF staging[Key(e)] = Missing THEN Raise(e) /\ UNCHANGED <<partition, published>>
       ELSE /\ partition' = [partition EXCEPT ![Key(e)] = staging[Key(e)]]
            /\ published' = [published EXCEPT ![e] = @ \cup {[key |-> Key(e), rows |-> Group(e)]}]
            /\ GoTo(e, "unstage") /\ UNCHANGED <<item, outcomes>>
    /\ UNCHANGED <<reading, writing, staging, tables, world>>

\* Mutant: the outcome of a partition is filed under the date of its item.
UnstageByItem(e) ==
    /\ at[e] = "unstage"
    /\ LET left == {n \in todo[e] : ~InGroup(e, n)} IN
       IF staging[Key(e)] = Missing
       THEN Raise(e) /\ UNCHANGED <<page, fetched, writing, staging>>
       ELSE /\ staging' = [staging EXCEPT ![Key(e)] = Missing]
            /\ results' = [results EXCEPT ![e] = Append(@, Outcome(ItemKey(e), "success"))]
            /\ todo' = [todo EXCEPT ![e] = left] /\ base' = [base EXCEPT ![e] = {}]
            /\ IF left = {} THEN NextItem(e)
               ELSE GoTo(e, IF Merges(e) THEN "read" ELSE "stage") /\ UNCHANGED <<item, page, fetched>>
            /\ UNCHANGED raised
    /\ UNCHANGED <<tries, partition, published, tables, world>>

\* Deleting an object that is gone is an error, after the publish.
Unstage(e) ==
    /\ at[e] = "unstage"
    /\ LET left == {n \in todo[e] : ~InGroup(e, n)} IN
       IF staging[Key(e)] = Missing
       THEN Raise(e) /\ UNCHANGED <<page, fetched, writing, staging>>
       ELSE /\ staging' = [staging EXCEPT ![Key(e)] = Missing]
            /\ results' = [results EXCEPT ![e] = Append(@, Outcome(Key(e), "success"))]
            /\ todo' = [todo EXCEPT ![e] = left] /\ base' = [base EXCEPT ![e] = {}]
            /\ IF left = {} THEN NextItem(e)
               ELSE GoTo(e, IF Merges(e) THEN "read" ELSE "stage") /\ UNCHANGED <<item, page, fetched>>
            /\ UNCHANGED raised
    /\ UNCHANGED <<tries, partition, published, tables, world>>

\* A call to GCS fails before it has done anything.
StorageFails(e) ==
    /\ at[e] \in {"read", "stage", "verify", "publish", "unstage"} /\ Raise(e)
    /\ UNCHANGED <<reading, writing, storage, tables, world>>

-----------------------------------------------------------------------------
(* IngestionStatusWriter: per outcome a row of ingestion_run, then the     *)
(* MERGE into ingestion_partition_status.                                  *)

\* The outcome to be recorded: of the results, or of the item that is written off.
Current(e) == IF raised[e] THEN Outcome(ItemKey(e), "failed") ELSE Head(results[e])

AllRecorded(e) == IF raised[e] THEN LastItem(e) ELSE Len(results[e]) = 1

InsertRun(e) ==
    /\ at[e] = "insert" /\ GoTo(e, "merge")
    /\ runs' = runs \cup {[by |-> e, key |-> Current(e).key, status |-> Current(e).status]}
    /\ UNCHANGED <<item, reading, writing, outcomes, storage, status, world>>

MergeStatus(e) ==
    /\ at[e] = "merge"
    /\ status' = [status EXCEPT ![Current(e).key] = [status |-> Current(e).status, by |-> e]]
    /\ results' = [results EXCEPT ![e] = IF raised[e] THEN @ ELSE Tail(@)]
    /\ item' = [item EXCEPT ![e] = IF raised[e] /\ ~LastItem(e) THEN Following(e) ELSE @]
    /\ GoTo(e, IF ~AllRecorded(e) THEN "insert" ELSE IF raised[e] THEN "failed" ELSE "ok")
    /\ UNCHANGED <<raised, reading, writing, storage, runs, world>>

\* A failed statement ends the execution: nobody records that.
TableFails(e) ==
    /\ at[e] \in {"insert", "merge"} /\ GoTo(e, "failed")
    /\ UNCHANGED <<item, reading, writing, outcomes, storage, tables, world>>

\* Cancelled, or out of time: the task timeout of the job.
KillExecution(e) ==
    /\ Underway(e) /\ GoTo(e, "killed")
    /\ UNCHANGED <<item, reading, writing, outcomes, storage, tables, world>>

IngestionNext ==
    \E e \in Exec :
        \/ Start(e) \/ PageRead(e) \/ PageFails(e)
        \/ ReadExisting(e) \/ Stage(e) \/ Verify(e) \/ Publish(e) \/ Unstage(e) \/ StorageFails(e)
        \/ InsertRun(e) \/ MergeStatus(e) \/ TableFails(e) \/ KillExecution(e)

IngestionSpec == IngestionInit /\ [][IngestionNext]_ingestionVars

-----------------------------------------------------------------------------
(* Properties.                                                             *)

\* While executions do not overlap, whatever kills or fails them, no row of a
\* report period that was published once is lost by a later publish.
NoRowLost ==
    ~overlapped =>
        \A e \in Exec : \A p \in published[e] :
            Semantics[p.key[1]] = "report_period" => p.rows \subseteq partition[p.key]

\* What a rerun is confirmed by: a partition recorded as a success was
\* published by the execution named, which has a row in ingestion_run; and
\* after an execution that ends well, with no other one started since, all it
\* has published is recorded so.
SuccessIsConfirmed ==
    /\ \A k \in Keys : status[k].status = "success" =>
         /\ \E p \in published[status[k].by] : p.key = k
         /\ [by |-> status[k].by, key |-> k, status |-> "success"] \in runs
    /\ \A e \in Exec : ~overlapped /\ last = e /\ at[e] = "ok" =>
         \A p \in published[e] : status[p.key] = [status |-> "success", by |-> e]

-----------------------------------------------------------------------------
(* What makes them inductive.                                              *)

Writing == {"read", "stage", "verify", "publish", "unstage"}
Recording == {"insert", "merge"}
Result == [key : Keys, status : {"success", "empty_return"}]
IngestionTypeOK ==
    /\ setting \in Settings
    /\ at \in [Exec -> {"idle", "query", "ok", "failed", "killed"} \cup Writing \cup Recording]
    /\ item \in [Exec -> Nat \X Nat] /\ page \in [Exec -> Nat] /\ tries \in [Exec -> Nat]
    /\ raised \in [Exec -> BOOLEAN] /\ overlapped \in BOOLEAN /\ last \in Exec \cup {"nobody"}
    /\ fetched \in [Exec -> SUBSET DOMAIN EndDate] /\ todo \in [Exec -> SUBSET DOMAIN EndDate]
    /\ base \in [Exec -> SUBSET (Nat \X Nat)] /\ results \in [Exec -> Seq(Result)]
    /\ partition \in [Keys -> SUBSET (Nat \X Nat)] /\ staging \in [Keys -> SUBSET (Nat \X Nat)]
    /\ runs \subseteq [by : Exec, key : Keys, status : {"failed", "success", "empty_return"}]
    /\ status \in [Keys -> [status : {"none", "failed", "success", "empty_return"},
                           by : Exec \cup {"nobody"}]]
    /\ published \in [Exec -> SUBSET [key : Keys, rows : SUBSET (Nat \X Nat)]]

\* Without an overlap only the execution started last is under way.
Alone == ~overlapped => \A e \in Exec : Underway(e) => last = e

\* The keys of items before the present one of an execution.
Passed(e, key) ==
    \E i \in 1 .. item[e][1] :
        /\ key[1] = Endpoints[i]
        /\ i = item[e][1] => ~Merges(e) /\ key[2] < LogicalDate(e)
Placed(e) ==
    /\ at[e] \in {"query"} \cup Writing \cup Recording =>
         /\ DatesResolve(Day(e)) /\ item[e][1] \in DOMAIN Endpoints
         /\ LogicalDate(e) \in PartitionDates(Endpoint(e), Day(e))
    /\ at[e] \in Writing \cup Recording => Writes(e)
    /\ at[e] \in Writing => todo[e] # {}
    /\ at[e] = "read" => Merges(e)
    /\ at[e] \in {"idle", "query", "ok"} \cup Writing => ~raised[e]
    /\ at[e] \in Recording /\ ~raised[e] => results[e] # <<>>
    /\ at[e] = "idle" => results[e] = <<>>
    /\ at[e] = "ok" /\ Writes(e) => results[e] = <<>>
    /\ at[e] = "idle" \/ ~Writes(e) => published[e] = {}

\* An execution deals with each key once: what it has recorded, or has yet to record, of a
\* key is not overwritten by what it finds later.
Ordered(e) ==
    /\ at[e] = "query" => \A p \in published[e] : Passed(e, p.key)
    /\ at[e] \in Writing =>
         \A p \in published[e] :
            Passed(e, p.key) \/ (p.key[1] = Endpoint(e) /\ (Merges(e) \/ p.key = ItemKey(e)))
    /\ at[e] \in {"query"} \cup Writing =>
         \A i \in DOMAIN results[e] :
            results[e][i].status = "empty_return" => Passed(e, results[e][i].key)
    /\ \A i \in DOMAIN results[e], p \in published[e] :
         results[e][i].status = "empty_return" => results[e][i].key # p.key

\* What is to be recorded as a success was published, and is so already in ingestion_run
\* when it is merged.
Backed(e) ==
    /\ at[e] = "unstage" => \E p \in published[e] : p.key = Key(e)
    /\ \A i \in DOMAIN results[e] :
         results[e][i].status = "success" => \E p \in published[e] : p.key = results[e][i].key
    /\ at[e] = "merge" => [by |-> e, key |-> Current(e).key, status |-> Current(e).status] \in runs
StatusBacked ==
    \A k \in Keys : status[k].status = "success" =>
         /\ status[k].by \in Exec
         /\ \E p \in published[status[k].by] : p.key = k
         /\ [by |-> status[k].by, key |-> k, status |-> "success"] \in runs

\* Without an overlap: what is staged adds to what is published, and all that is published
\* is recorded, or has yet to be.
Staged(e) ==
    /\ at[e] = "stage" /\ Merges(e) => partition[Key(e)] \subseteq base[e]
    /\ at[e] \in {"verify", "publish"} =>
         /\ Group(e) \subseteq staging[Key(e)]
         /\ Merges(e) => partition[Key(e)] \subseteq staging[Key(e)]
Accounted(e) ==
    at[e] \in {"query", "ok"} \cup Writing \cup Recording /\ ~raised[e] =>
        \A p \in published[e] :
            \/ status[p.key] = [status |-> "success", by |-> e]
            \/ \E i \in DOMAIN results[e] : results[e][i] = Outcome(p.key, "success")
            \/ at[e] = "unstage" /\ p.key = Key(e)

IngestionInv ==
    /\ IngestionTypeOK /\ Alone /\ NoRowLost /\ StatusBacked
    /\ \A e \in Exec : Placed(e) /\ Ordered(e) /\ Backed(e)
    /\ ~overlapped => \A e \in Exec : last = e => Staged(e) /\ Accounted(e)
=============================================================================
