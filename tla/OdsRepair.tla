------------------------------ MODULE OdsRepair ------------------------------
(***************************************************************************)
(* The repair of the parquet schemas of the ODS, for one file.  A worker   *)
(* reads the file, casts it to the contract, writes the result to a        *)
(* staging object, has BigQuery read it through a temporary table, copies  *)
(* the original to a backup, and then the staging object over the file.    *)
(* Staging object, table, backup and manifest belong to the run id, which  *)
(* workers may share; the ingestion may publish the file anew at any time. *)
(***************************************************************************)
EXTENDS Integers, Sequences, SequencesExt

CONSTANTS
  Workers,     \* calls of the script
  RunId,       \* of each worker
  MaxStarts,   \* bound: how often a worker is started
  MaxFailures, \* bound: requests that fail, workers that are killed
  MaxVersions  \* bound: how often the file is published, counting the first time

VARIABLES
  source,      \* the file: version, "contract", "castable" or "risky", cast or not
  newest,      \* the version the ingestion has published last
  staging, backup,  \* per run id: objects, or Absent
  table,       \* run ids with a temporary table
  manifest,    \* per run id: rows, the last of which counts
  pc, read,    \* per worker: what it does next, what it has read
  outcome,     \* per worker: status it is about to write
  starts, failures,
  late,        \* history: this version came when a worker was busy, or after a backup
  overtaken    \* history: some version came while a worker was busy

world == <<source, newest, staging, backup, table, manifest>>
repairVars == <<world, pc, read, outcome, starts, failures, late, overtaken>>

Absent == [version |-> 0, shape |-> "none", cast |-> FALSE]
File(version, shape) == [version |-> version, shape |-> shape, cast |-> FALSE]
Runs == {RunId[w] : w \in Workers}
Cast(file) == [file EXCEPT !.shape = "contract", !.cast = TRUE]

\* validate_file of validate_repair.py; the number of rows stands for the version.
Valid(row) ==
  /\ row.status \notin {"read_failed", "staging_write_failed", "backup_failed"}
  /\ source.shape = "contract" /\ source.version = row.version

Idle(w) == pc[w] = "idle"
Repaired(r) == manifest[r] # <<>> /\ Last(manifest[r]).status = "ok"

RepairInit ==
  /\ source \in {File(1, shape) : shape \in {"contract", "castable", "risky"}}
  /\ newest = 1 /\ staging = [r \in Runs |-> Absent] /\ backup = [r \in Runs |-> Absent]
  /\ table = {} /\ manifest = [r \in Runs |-> <<>>]
  /\ pc = [w \in Workers |-> "idle"] /\ read = [w \in Workers |-> Absent]
  /\ outcome = [w \in Workers |-> ""]
  /\ starts = 0 /\ failures = 0 /\ late = FALSE /\ overtaken = FALSE

MoveTo(w, next) == pc' = [pc EXCEPT ![w] = next]
Row(w, status) ==
  manifest' = [manifest EXCEPT ![RunId[w]] = Append(@, [status |-> status, version |-> read'[w].version])]
NoFailure == UNCHANGED failures
Failure == failures < MaxFailures /\ failures' = failures + 1
history == <<starts, late, overtaken>>

-----------------------------------------------------------------------------
\* The manifest is read once; a row "ok" ends the matter.
Start(w) ==
  /\ Idle(w) /\ starts < MaxStarts /\ ~Repaired(RunId[w])
  /\ starts' = starts + 1
  /\ MoveTo(w, "read")
  /\ UNCHANGED <<world, read, outcome, failures, late, overtaken>>

\* Read, compare and cast: what needs no cast, or cannot be cast, is noted and left.
ReadFile(w) ==
  /\ pc[w] = "read"
  /\ read' = [read EXCEPT ![w] = source]
  /\ \/ /\ source.shape = "contract" /\ Row(w, "ok")
        /\ MoveTo(w, "idle") /\ NoFailure
     \/ /\ source.shape # "contract" /\ Row(w, "dry_run_mismatch")    \* --dry-run
        /\ MoveTo(w, "idle") /\ NoFailure
     \/ /\ source.shape = "risky" /\ Row(w, "manual_review")
        /\ MoveTo(w, "idle") /\ NoFailure
     \/ /\ source.shape = "castable" /\ UNCHANGED manifest
        /\ MoveTo(w, "stage") /\ NoFailure
     \/ Row(w, "read_failed") /\ MoveTo(w, "idle") /\ Failure
  /\ UNCHANGED <<source, newest, staging, backup, table, outcome, history>>

\* A request that fails may have had its effect.
Put(objects, r, file) == objects' = [objects EXCEPT ![r] = file]

StageOnce(w) ==      \* mutant: what an earlier attempt has left is taken
  /\ pc[w] = "stage"
  /\ IF staging[RunId[w]] = Absent THEN Put(staging, RunId[w], Cast(read[w]))
       ELSE UNCHANGED staging
  /\ MoveTo(w, "create_table") /\ NoFailure
  /\ UNCHANGED <<source, newest, backup, table, manifest, read, outcome, history>>
Stage(w) ==
  /\ pc[w] = "stage"
  /\ \/ Put(staging, RunId[w], Cast(read[w])) /\ NoFailure
        /\ MoveTo(w, "create_table") /\ UNCHANGED outcome
     \/ Put(staging, RunId[w], Cast(read[w])) /\ Failure
        /\ MoveTo(w, "note") /\ outcome' = [outcome EXCEPT ![w] = "staging_write_failed"]
     \/ UNCHANGED staging /\ Failure
        /\ MoveTo(w, "note") /\ outcome' = [outcome EXCEPT ![w] = "staging_write_failed"]
  /\ UNCHANGED <<source, newest, backup, table, manifest, read, history>>

Discard(w, status) == MoveTo(w, "discard") /\ outcome' = [outcome EXCEPT ![w] = status]

\* Delete, then create; another worker may do the same under the same name.
CreateTable(w) ==
  /\ pc[w] = "create_table"
  /\ \/ table' = table \cup {RunId[w]} /\ MoveTo(w, "query") /\ NoFailure /\ UNCHANGED outcome
     \/ table' \in {table, table \ {RunId[w]}} /\ Discard(w, "bq_validation_failed") /\ Failure
  /\ UNCHANGED <<source, newest, staging, backup, manifest, read, history>>

\* Another version need not have another number of rows.
Query(w) ==
  LET r == RunId[w] IN
  /\ pc[w] = "query"
  /\ \/ r \in table /\ staging[r] # Absent
        /\ MoveTo(w, "drop_table") /\ NoFailure /\ UNCHANGED outcome
     \/ (r \notin table \/ staging[r] = Absent \/ staging[r].version # read[w].version)
        /\ Discard(w, "bq_validation_failed") /\ NoFailure
     \/ Discard(w, "bq_validation_failed") /\ Failure
  /\ table' = IF pc'[w] = "discard" THEN table \ {r} ELSE table
  /\ UNCHANGED <<source, newest, staging, backup, manifest, read, history>>

DropTable(w) ==
  /\ pc[w] = "drop_table"
  /\ table' = table \ {RunId[w]} /\ MoveTo(w, "check_backup")
  /\ UNCHANGED <<source, newest, staging, backup, manifest, read, outcome, failures, history>>

CheckBackup(w) ==
  /\ pc[w] = "check_backup"
  /\ MoveTo(w, IF backup[RunId[w]] = Absent THEN "backup" ELSE "publish")
  /\ UNCHANGED <<world, read, outcome, failures, history>>

\* if_generation_match=0: a backup that is there stays.
AlwaysFree(r) == TRUE      \* mutant
Free(r) == backup[r] = Absent
Backup(w) ==
  LET r == RunId[w] IN
  /\ pc[w] = "backup"
  /\ \/ Free(r) /\ Put(backup, r, source) /\ MoveTo(w, "publish") /\ NoFailure
        /\ UNCHANGED outcome
     \/ ~Free(r) /\ UNCHANGED <<backup, outcome>> /\ MoveTo(w, "publish") /\ NoFailure
     \/ Free(r) /\ Put(backup, r, source) /\ Discard(w, "backup_failed") /\ Failure
     \/ UNCHANGED backup /\ Discard(w, "backup_failed") /\ Failure
  /\ UNCHANGED <<source, newest, staging, table, manifest, read, history>>

Publish(w) ==
  LET file == staging[RunId[w]] IN
  /\ pc[w] = "publish"
  /\ \/ file # Absent /\ source' = file /\ MoveTo(w, "tidy") /\ NoFailure /\ UNCHANGED outcome
     \/ file = Absent /\ UNCHANGED source /\ Discard(w, "publish_failed") /\ NoFailure
     \/ file # Absent /\ source' \in {source, file} /\ Discard(w, "publish_failed") /\ Failure
  /\ UNCHANGED <<newest, staging, backup, table, manifest, read, history>>

\* The staging object is deleted, after a failure and after success, and then the row written.
Tidy(w) ==
  /\ pc[w] \in {"discard", "tidy"}
  /\ Put(staging, RunId[w], Absent)
  /\ outcome' = [outcome EXCEPT ![w] = IF pc[w] = "tidy" THEN "ok" ELSE @]
  /\ MoveTo(w, "note")
  /\ UNCHANGED <<source, newest, backup, table, manifest, read, failures, history>>

Note(w) ==
  /\ pc[w] = "note" /\ UNCHANGED read /\ Row(w, outcome[w])
  /\ MoveTo(w, "idle")
  /\ UNCHANGED <<source, newest, staging, backup, table, outcome, failures, history>>

Kill(w) ==
  /\ ~Idle(w) /\ MoveTo(w, "idle") /\ Failure
  /\ UNCHANGED <<world, read, outcome, history>>

\* The ingestion publishes the file anew.
Busy == \E w \in Workers : pc[w] \notin {"idle", "read"}
Ingest ==
  /\ newest < MaxVersions /\ newest' = newest + 1
  /\ \E shape \in {"contract", "castable"} : source' = File(newest', shape)
  /\ late' = (Busy \/ \E r \in Runs : backup[r] # Absent)
  /\ overtaken' = (overtaken \/ Busy)
  /\ UNCHANGED <<staging, backup, table, manifest, pc, read, outcome, starts, failures>>

WorkerStep(w) ==
  \/ Start(w) \/ ReadFile(w) \/ Stage(w) \/ CreateTable(w) \/ Query(w) \/ DropTable(w)
  \/ CheckBackup(w) \/ Backup(w) \/ Publish(w) \/ Tidy(w) \/ Note(w) \/ Kill(w)
RepairNext == Ingest \/ \E w \in Workers : WorkerStep(w)
RepairSpec == RepairInit /\ [][RepairNext]_repairVars

-----------------------------------------------------------------------------
(* Properties *)

Statuses == {"ok", "dry_run_mismatch", "manual_review", "read_failed", "staging_write_failed",
             "bq_validation_failed", "backup_failed", "publish_failed"}
Files == [version : Nat, shape : {"none", "contract", "castable", "risky"}, cast : BOOLEAN]
Entries == [status : Statuses \cup {""}, version : Nat]
Places == {"idle", "read", "stage", "create_table", "query", "drop_table", "check_backup",
           "backup", "publish", "tidy", "discard", "note"}

\* The variables have the values the code can give them.
RepairTypeOK ==
  /\ source \in Files /\ newest \in Nat \ {0}
  /\ staging \in [Runs -> Files] /\ backup \in [Runs -> Files] /\ table \subseteq Runs
  /\ manifest \in [Runs -> Seq(Entries)] /\ pc \in [Workers -> Places]
  /\ read \in [Workers -> Files] /\ outcome \in [Workers -> Statuses \cup {""}]
  /\ starts \in Nat /\ failures \in Nat /\ late \in BOOLEAN /\ overtaken \in BOOLEAN

\* The original of a file that was repaired is in a backup, however many workers have
\* repaired it, died or failed: the second one must not back up the first one's result.
\* One who reads before the file is published anew, or a backup made before, may be late.
OriginalIsKept ==
  source.cast /\ ~late =>
    \E r \in Runs : backup[r] = File(source.version, "castable")

\* The newest version of the file is never replaced by an older one, unless it came
\* while a worker was between reading and publishing: what a dead worker left in the
\* staging area does not come back.
NewestStays == ~overtaken => source.version = newest

\* A file the manifest has as repaired passes validation, unless published anew.
OkIsValid ==
  \A r \in Runs :
    Repaired(r) /\ Last(manifest[r]).version = source.version => Valid(Last(manifest[r]))

-----------------------------------------------------------------------------
(* The inductive invariant. *)

HasRead(w) == pc[w] \in {"stage", "create_table", "query", "drop_table", "check_backup",
                         "backup", "publish"}
HasStaged(w) == HasRead(w) /\ pc[w] # "stage"
Staged(w) == staging[RunId[w]]

\* What a worker holds, or has staged, is the newest version.  What another one has left
\* in the staging area is put aside by the worker's own copy.
HoldsNewest(w) ==
  /\ HasRead(w) => read[w].version = newest
  /\ HasStaged(w) => Staged(w) = Absent \/ Staged(w).version = newest

Original == File(newest, "castable")
BackedUp == \E r \in Runs : backup[r] = Original

\* A version published when nobody was busy and nothing backed up is either the original
\* or the result of its cast.  Whoever has read it has read the original, and who is to
\* publish has seen a backup.
RepairsOriginal(w) ==
  /\ HasRead(w) => read[w] = Original /\ source \in {Original, Cast(Original)}
  /\ HasStaged(w) => Staged(w) \in {Absent, Cast(Original)}
  /\ pc[w] = "publish" => backup[RunId[w]] # Absent

IfTimely == late \/
  /\ source \in {File(newest, shape) : shape \in {"contract", "castable", "risky"}}
                 \cup {Cast(Original)}
  /\ \A w \in Workers : RepairsOriginal(w)
  /\ source.cast \/ (\E r \in Runs : backup[r] # Absent) => BackedUp

IfNotOvertaken == overtaken \/
  /\ source.version = newest
  /\ \A w \in Workers : HoldsNewest(w)

RepairInv == RepairTypeOK /\ IfTimely /\ IfNotOvertaken
=============================================================================
