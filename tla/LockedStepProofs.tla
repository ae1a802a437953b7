--------------------------- MODULE LockedStepProofs ---------------------------
(***************************************************************************)
(* For every number of orchestrators, every lease and whichever of them    *)
(* resume: a step of the chain keeps IInv.                                 *)
(*                                                                         *)
(* Every step but Tick belongs to one orchestrator c.  It changes the lock *)
(* object in one of five ways (ObjectStep) and leaves the threads of the   *)
(* others alone (Untouched); no such step disturbs what IInv says of the   *)
(* others.  What it says of c itself is shown action by action.            *)
(*                                                                         *)
(* For every group of endpoints, every calendar and source, and however    *)
(* many executions of the ingestion job: a step keeps IngestionInv.  It    *)
(* belongs to one execution e and leaves the control of the others alone   *)
(* (Elsewhere); without an overlap e is the one started last, and what is  *)
(* said of it alone (Staged, Accounted) needs no other execution.          *)
(***************************************************************************)
EXTENDS LockedStep, Ingestion, FiniteSetTheorems, WellFoundedInduction, TLAPS

ObjectStep(c) ==
  \/ UNCHANGED object
  \/ gen = 0 /\ Write(c, Lease, NoOne)
  \/ Matches(c) /\ \E e \in Int, x \in Runner \cup {NoOne} : Write(owner, e, x)
  \/ Matches(c) /\ Delete
  \/ pc[c] = "reclaim" /\ gen = got[c].seen /\ Delete

RowStep(c) == row' = row \/ row'.by = c

JobStep(c) ==
  \A x \in Runner : Terminal(job[x]) \/ x # c => job'[x] = job[x]

Untouched(c) ==
  \A d \in Runner \ {c} :
    /\ pc'[d] = pc[d] /\ my'[d] = my[d] /\ got'[d] = got[d] /\ hb'[d] = hb[d]
    /\ fault'[d] = fault[d] /\ erased'[d] = erased[d]

Frame(c) ==
  TypeOK' /\ ObjectStep(c) /\ RowStep(c) /\ JobStep(c) /\ Untouched(c)

-----------------------------------------------------------------------------
(* Types.                                                                  *)

LEMMA Values ==
  /\ "create" \in MainPcs /\ "recreate" \in MainPcs /\ "created" \in MainPcs
  /\ "probe" \in MainPcs /\ "reclaim" \in MainPcs /\ "busy" \in MainPcs
  /\ "skipped" \in MainPcs /\ "first_row" \in MainPcs /\ "submit" \in MainPcs
  /\ "rec_read" \in MainPcs /\ "rec_write" \in MainPcs
  /\ "rec_reload" \in MainPcs /\ "disown" \in MainPcs /\ "job_row" \in MainPcs
  /\ "wait" \in MainPcs /\ "failing" \in MainPcs /\ "succeeding" \in MainPcs
  /\ "releasing" \in MainPcs /\ "giving_up" \in MainPcs
  /\ "returned" \in MainPcs /\ "raised" \in MainPcs /\ "killed" \in MainPcs
  /\ "none" \in Statuses /\ "running" \in Statuses /\ "succeeded" \in Statuses
  /\ "failed" \in Statuses /\ "cancelled" \in Statuses
  BY DEF MainPcs, Before, Statuses

LEMMA RecordValues ==
  /\ \A seen \in Nat, exp \in Int : [seen |-> seen, exp |-> exp] \in Reads
  /\ \A st \in Statuses, r \in Runner : Row(r, st) \in Rows
  /\ HbAt("off") \in Threads /\ HbAt("wait") \in Threads
  /\ HbAt("read") \in Threads /\ HbAt("note") \in Threads
  /\ \A seen \in Nat, exp \in Int, x \in Runner \cup {NoOne} :
       /\ Thread("write", seen, exp, x) \in Threads
       /\ Thread("reload", seen, exp, x) \in Threads
  BY DEF Reads, Row, Rows, HbAt, Thread, Threads

LEMMA FieldTypes ==
  ASSUME TypeOK, NEW r \in Runner
  PROVE  /\ got[r] \in Reads /\ got[r].seen \in Nat /\ got[r].exp \in Int
         /\ hb[r] \in Threads /\ hb[r].seen \in Nat /\ hb[r].exp \in Int
         /\ hb[r].exec \in Runner \cup {NoOne}
  BY DEF TypeOK, Reads, Threads

-----------------------------------------------------------------------------
(* The other orchestrators.                                                *)

LEMMA OthersKeep ==
  ASSUME IInv, NEW c \in Runner, NEW d \in Runner, c # d, Frame(c)
  PROVE  RunnerInv(d)'
  <1>1. /\ TypeOK /\ gen <= lastGen /\ RunnerInv(c) /\ RunnerInv(d)
        /\ RowStep(c) /\ JobStep(c)
    BY DEF IInv, Frame
  <1>2. /\ pc'[d] = pc[d] /\ my'[d] = my[d] /\ got'[d] = got[d] /\ hb'[d] = hb[d]
        /\ fault'[d] = fault[d] /\ erased'[d] = erased[d] /\ job'[d] = job[d]
    BY <1>1 DEF Frame, Untouched, JobStep
  <1>3. \/ UNCHANGED object
        \/ /\ lastGen' = lastGen + 1 /\ gen' = lastGen' /\ owner' = c /\ ~OwnedBy(d)
        \/ gen' = 0 /\ lastGen' = lastGen /\ owner' = NoOne /\ ~OwnedBy(d)
        \/ /\ gen' = 0 /\ lastGen' = lastGen /\ owner' = NoOne
           /\ gen # 0 /\ exec # NoOne => Terminal(job[exec])
    BY <1>1, LockedStepAssumption
    DEF Frame, ObjectStep, Write, Delete, Matches, object, RunnerInv, GenerationsOwn,
        ReclaimIsSafe, OwnedBy, LockedStepAssumption
  <1>4. GenerationsIssued(d)'
    BY <1>1, <1>2, <1>3, FieldTypes DEF TypeOK, object, RunnerInv, GenerationsIssued
  <1>5. GenerationsOwn(d)'
    BY <1>1, <1>2, <1>3, FieldTypes
    DEF TypeOK, object, RunnerInv, GenerationsIssued, GenerationsOwn
  <1>6. NotYet(d)'
    BY <1>1, <1>2 DEF RunnerInv, NotYet
  <1>7. ReclaimIsSafe(d)'
    BY <1>1, <1>2, <1>3, FieldTypes
    DEF TypeOK, object, RunnerInv, GenerationsIssued, ReclaimIsSafe, JobStep, Terminal
  <1>8. RecordPending(d)'
    BY <1>1, <1>2, <1>3, FieldTypes
    DEF TypeOK, object, RunnerInv, GenerationsIssued, RecordPending
  <1>9. Remembered(d)'
    BY <1>1, <1>2, <1>3, LockedStepAssumption
    DEF object, RunnerInv, Remembered, OwnedBy, LockedStepAssumption
  <1>10. RowIsLast(d)'
    BY <1>1, <1>2 DEF RunnerInv, RowIsLast, RowStep
  <1>11. (Protected(d) => OwnedBy(d) /\ exec = d)'
    BY <1>1, <1>2, <1>3, LockedStepAssumption
    DEF object, RunnerInv, Protected, OwnedBy, Terminal, LockedStepAssumption
  <1>12. (pc[d] \in {"returned", "raised"} /\ OwnedBy(d) => fault[d])'
    BY <1>1, <1>2, <1>3, LockedStepAssumption
    DEF object, RunnerInv, OwnedBy, LockedStepAssumption
  <1>13. (pc[d] \in {"releasing", "giving_up", "returned", "raised", "killed"}
            => hb[d].pc = "off")'
    BY <1>1, <1>2 DEF RunnerInv
  <1>14. QED
    BY <1>4, <1>5, <1>6, <1>7, <1>8, <1>9, <1>10, <1>11, <1>12, <1>13 DEF RunnerInv

-----------------------------------------------------------------------------
(* The orchestrator that takes the step, action by action.                 *)

LEMMA BeginStep ==
  ASSUME IInv, NEW c \in Runner, Begin(c)
  PROVE  Frame(c) /\ RunnerInv(c)'
  <1>1. TypeOK /\ gen <= lastGen /\ RunnerInv(c)
    BY DEF IInv
  <1>2. TypeOK'
    <2>1. pc' \in [Runner -> MainPcs]
      BY <1>1, Values DEF TypeOK, Begin, Goto
    <2>2. QED
      BY <1>1, <2>1 DEF TypeOK, Begin, object, events, hist
  <1>3. ObjectStep(c)
    BY DEF ObjectStep, Begin, object
  <1>4. RowStep(c)
    BY DEF RowStep, Begin
  <1>5. JobStep(c)
    BY DEF JobStep, Begin
  <1>6. Untouched(c)
    BY <1>1 DEF Untouched, TypeOK, Begin, Goto, object, events, hist
  <1>7. RunnerInv(c)'
    BY <1>1, FieldTypes DEF TypeOK, Begin, Goto, object, events, hist,
           RunnerInv, GenerationsIssued, GenerationsOwn, NotYet,
           ReclaimIsSafe, RecordPending, Remembered, RowIsLast, Protected,
           OwnedBy, Before, Terminal
  <1>8. QED
    BY <1>2, <1>3, <1>4, <1>5, <1>6, <1>7 DEF Frame

LEMMA CreateStep ==
  ASSUME IInv, NEW c \in Runner, Create(c)
  PROVE  Frame(c) /\ RunnerInv(c)'
  <1>1. TypeOK /\ gen <= lastGen /\ RunnerInv(c)
    BY DEF IInv
  <1>2. TypeOK'
    <2>1. /\ gen' \in Nat /\ lastGen' \in Nat /\ left' \in Int
         /\ owner' \in Runner \cup {NoOne} /\ exec' \in Runner \cup {NoOne}
      BY <1>1, LockedStepAssumption DEF TypeOK, Create, Write, object,
             LockedStepAssumption
    <2>2. pc' \in [Runner -> MainPcs]
      BY <1>1, Values DEF TypeOK, Create, Goto
    <2>3. got' \in [Runner -> Reads]
      BY <1>1, RecordValues DEF TypeOK, Create, Write, Got
    <2>4. fault' \in [Runner -> BOOLEAN]
      BY <1>1 DEF TypeOK, Create, Fault
    <2>5. QED
      BY <1>1, <2>1, <2>2, <2>3, <2>4 DEF TypeOK, Create, object, events
  <1>3. ObjectStep(c)
    BY <1>1, FieldTypes DEF ObjectStep, TypeOK, Create, Write, object, Goto,
           Got, Fault, events, Matches
  <1>4. RowStep(c)
    BY DEF RowStep, Create
  <1>5. JobStep(c)
    BY DEF JobStep, Create
  <1>6. Untouched(c)
    BY <1>1 DEF Untouched, TypeOK, Create, Write, object, Goto, Got, Fault,
           events
  <1>7. RunnerInv(c)'
    BY <1>1, FieldTypes DEF TypeOK, Create, Write, object, Goto, Got, Fault,
           events, RunnerInv, GenerationsIssued, GenerationsOwn, NotYet,
           ReclaimIsSafe, RecordPending, Remembered, RowIsLast, Protected,
           OwnedBy, Before, Terminal
  <1>8. QED
    BY <1>2, <1>3, <1>4, <1>5, <1>6, <1>7 DEF Frame

LEMMA CreatedStep ==
  ASSUME IInv, NEW c \in Runner, Created(c)
  PROVE  Frame(c) /\ RunnerInv(c)'
  <1>1. TypeOK /\ gen <= lastGen /\ RunnerInv(c)
    BY DEF IInv
  <1>2. TypeOK'
    <2>1. pc' \in [Runner -> MainPcs]
      BY <1>1, Values DEF TypeOK, Created, Goto
    <2>2. my' \in [Runner -> Nat]
      BY <1>1, FieldTypes DEF TypeOK, Created
    <2>3. got' \in [Runner -> Reads]
      BY <1>1, RecordValues DEF TypeOK, Created, Forget, Got
    <2>4. fault' \in [Runner -> BOOLEAN]
      BY <1>1 DEF TypeOK, Created, Fault
    <2>5. QED
      BY <1>1, <2>1, <2>2, <2>3, <2>4 DEF TypeOK, Created, object, events
  <1>3. ObjectStep(c)
    BY DEF ObjectStep, Created, object
  <1>4. RowStep(c)
    BY DEF RowStep, Created
  <1>5. JobStep(c)
    BY DEF JobStep, Created
  <1>6. Untouched(c)
    BY <1>1 DEF Untouched, TypeOK, Created, Goto, Forget, Got, Fault, object,
           events
  <1>7. RunnerInv(c)'
    BY <1>1, FieldTypes DEF TypeOK, Created, Goto, Forget, Got, Fault, object,
           events, RunnerInv, GenerationsIssued, GenerationsOwn, NotYet,
           ReclaimIsSafe, RecordPending, Remembered, RowIsLast, Protected,
           OwnedBy, Before, Terminal
  <1>8. QED
    BY <1>2, <1>3, <1>4, <1>5, <1>6, <1>7 DEF Frame

LEMMA ProbeStep ==
  ASSUME IInv, NEW c \in Runner, Probe(c)
  PROVE  Frame(c) /\ RunnerInv(c)'
  <1>1. TypeOK /\ gen <= lastGen /\ RunnerInv(c)
    BY DEF IInv
  <1>2. TypeOK'
    <2>1. pc' \in [Runner -> MainPcs]
      BY <1>1, Values DEF TypeOK, Probe, Goto
    <2>2. got' \in [Runner -> Reads]
      BY <1>1, RecordValues DEF TypeOK, Probe, Got
    <2>3. QED
      BY <1>1, <2>1, <2>2 DEF TypeOK, Probe, object, events, hist
  <1>3. ObjectStep(c)
    BY DEF ObjectStep, Probe, object
  <1>4. RowStep(c)
    BY DEF RowStep, Probe
  <1>5. JobStep(c)
    BY DEF JobStep, Probe
  <1>6. Untouched(c)
    BY <1>1 DEF Untouched, TypeOK, Probe, Goto, Got, object, events, hist
  <1>7. RunnerInv(c)'
    BY <1>1, FieldTypes DEF TypeOK, Probe, Goto, Got, object, events, hist,
           RunnerInv, GenerationsIssued, GenerationsOwn, NotYet,
           ReclaimIsSafe, RecordPending, Remembered, RowIsLast, Protected,
           OwnedBy, Before, Terminal
  <1>8. QED
    BY <1>2, <1>3, <1>4, <1>5, <1>6, <1>7 DEF Frame

LEMMA ReclaimStep ==
  ASSUME IInv, NEW c \in Runner, Reclaim(c)
  PROVE  Frame(c) /\ RunnerInv(c)'
  <1>1. TypeOK /\ gen <= lastGen /\ RunnerInv(c)
    BY DEF IInv
  <1>2. TypeOK'
    <2>1. /\ gen' \in Nat /\ lastGen' \in Nat /\ left' \in Int
         /\ owner' \in Runner \cup {NoOne} /\ exec' \in Runner \cup {NoOne}
      BY <1>1, FieldTypes DEF TypeOK, Reclaim, Delete, object
    <2>2. pc' \in [Runner -> MainPcs]
      BY <1>1, Values DEF TypeOK, Reclaim, Goto
    <2>3. got' \in [Runner -> Reads]
      BY <1>1, RecordValues DEF TypeOK, Reclaim, Forget, Got
    <2>4. QED
      BY <1>1, <2>1, <2>2, <2>3 DEF TypeOK, Reclaim, events, hist
  <1>3. ObjectStep(c)
    BY <1>1, FieldTypes DEF ObjectStep, TypeOK, Reclaim, Delete, object, Goto,
           Forget, Got, events, hist, Matches
  <1>4. RowStep(c)
    BY DEF RowStep, Reclaim
  <1>5. JobStep(c)
    BY DEF JobStep, Reclaim
  <1>6. Untouched(c)
    BY <1>1 DEF Untouched, TypeOK, Reclaim, Delete, object, Goto, Forget, Got,
           events, hist
  <1>7. RunnerInv(c)'
    BY <1>1, FieldTypes DEF TypeOK, Reclaim, Delete, object, Goto, Forget,
           Got, events, hist, RunnerInv, GenerationsIssued, GenerationsOwn,
           NotYet, ReclaimIsSafe, RecordPending, Remembered, RowIsLast,
           Protected, OwnedBy, Before, Terminal
  <1>8. QED
    BY <1>2, <1>3, <1>4, <1>5, <1>6, <1>7 DEF Frame

LEMMA BusyStep ==
  ASSUME IInv, NEW c \in Runner, Busy(c)
  PROVE  Frame(c) /\ RunnerInv(c)'
  <1>1. TypeOK /\ gen <= lastGen /\ RunnerInv(c)
    BY DEF IInv
  <1>2. TypeOK'
    <2>1. row' \in Rows
      BY <1>1, Values, RecordValues DEF TypeOK, Busy, Upsert
    <2>2. pc' \in [Runner -> MainPcs]
      BY <1>1, Values DEF TypeOK, Busy, Upsert, Goto
    <2>3. QED
      BY <1>1, <2>1, <2>2 DEF TypeOK, Busy, object, events, hist
  <1>3. ObjectStep(c)
    BY DEF ObjectStep, Busy, object
  <1>4. RowStep(c)
    BY DEF RowStep, Busy, Upsert, Row
  <1>5. JobStep(c)
    BY DEF JobStep, Busy
  <1>6. Untouched(c)
    BY <1>1 DEF Untouched, TypeOK, Busy, Upsert, Goto, object, events, hist,
           Row
  <1>7. RunnerInv(c)'
    BY <1>1, FieldTypes DEF TypeOK, Busy, Upsert, Goto, object, events, hist,
           Row, RunnerInv, GenerationsIssued, GenerationsOwn, NotYet,
           ReclaimIsSafe, RecordPending, Remembered, RowIsLast, Protected,
           OwnedBy, Before, Terminal
  <1>8. QED
    BY <1>2, <1>3, <1>4, <1>5, <1>6, <1>7 DEF Frame

LEMMA FirstRowStep ==
  ASSUME IInv, NEW c \in Runner, FirstRow(c)
  PROVE  Frame(c) /\ RunnerInv(c)'
  <1>1. TypeOK /\ gen <= lastGen /\ RunnerInv(c)
    BY DEF IInv
  <1>2. TypeOK'
    <2>1. row' \in Rows
      BY <1>1, Values, RecordValues DEF TypeOK, FirstRow, Upsert
    <2>2. pc' \in [Runner -> MainPcs]
      BY <1>1, Values DEF TypeOK, FirstRow, Upsert, Goto
    <2>3. hb' \in [Runner -> Threads]
      BY <1>1, RecordValues DEF TypeOK, FirstRow
    <2>4. QED
      BY <1>1, <2>1, <2>2, <2>3 DEF TypeOK, FirstRow, object, events, hist
  <1>3. ObjectStep(c)
    BY DEF ObjectStep, FirstRow, object
  <1>4. RowStep(c)
    BY DEF RowStep, FirstRow, Upsert, Row
  <1>5. JobStep(c)
    BY DEF JobStep, FirstRow
  <1>6. Untouched(c)
    BY <1>1 DEF Untouched, TypeOK, FirstRow, Upsert, Goto, object, events,
           hist, Row, HbAt, Thread
  <1>7. RunnerInv(c)'
    BY <1>1, FieldTypes DEF TypeOK, FirstRow, Upsert, Goto, object, events,
           hist, Row, HbAt, Thread, RunnerInv, GenerationsIssued,
           GenerationsOwn, NotYet, ReclaimIsSafe, RecordPending, Remembered,
           RowIsLast, Protected, OwnedBy, Before, Terminal
  <1>8. QED
    BY <1>2, <1>3, <1>4, <1>5, <1>6, <1>7 DEF Frame

LEMMA SubmitStep ==
  ASSUME IInv, NEW c \in Runner, Submit(c)
  PROVE  Frame(c) /\ RunnerInv(c)'
  <1>1. TypeOK /\ gen <= lastGen /\ RunnerInv(c)
    BY DEF IInv
  <1>2. TypeOK'
    <2>1. job' \in [Runner -> Statuses]
      BY <1>1, Values DEF TypeOK, Submit
    <2>2. pc' \in [Runner -> MainPcs]
      BY <1>1, Values DEF TypeOK, Submit, Goto
    <2>3. QED
      BY <1>1, <2>1, <2>2 DEF TypeOK, Submit, object, events, hist
  <1>3. ObjectStep(c)
    BY DEF ObjectStep, Submit, object
  <1>4. RowStep(c)
    BY DEF RowStep, Submit
  <1>5. JobStep(c)
    BY <1>1 DEF TypeOK, Submit, JobStep, Terminal, RunnerInv, NotYet, Before
  <1>6. Untouched(c)
    BY <1>1 DEF Untouched, TypeOK, Submit, Goto, object, events, hist
  <1>7. RunnerInv(c)'
    BY <1>1, FieldTypes DEF TypeOK, Submit, Goto, object, events, hist,
           RunnerInv, GenerationsIssued, GenerationsOwn, NotYet,
           ReclaimIsSafe, RecordPending, Remembered, RowIsLast, Protected,
           OwnedBy, Before, Terminal
  <1>8. QED
    BY <1>2, <1>3, <1>4, <1>5, <1>6, <1>7 DEF Frame

LEMMA RecordReadStep ==
  ASSUME IInv, NEW c \in Runner, RecordRead(c)
  PROVE  Frame(c) /\ RunnerInv(c)'
  <1>1. TypeOK /\ gen <= lastGen /\ RunnerInv(c)
    BY DEF IInv
  <1>2. TypeOK'
    <2>1. pc' \in [Runner -> MainPcs]
      BY <1>1, Values DEF TypeOK, RecordRead, Goto
    <2>2. got' \in [Runner -> Reads]
      BY <1>1, RecordValues DEF TypeOK, RecordRead, Got
    <2>3. QED
      BY <1>1, <2>1, <2>2 DEF TypeOK, RecordRead, object, events, hist
  <1>3. ObjectStep(c)
    BY DEF ObjectStep, RecordRead, object
  <1>4. RowStep(c)
    BY DEF RowStep, RecordRead
  <1>5. JobStep(c)
    BY DEF JobStep, RecordRead
  <1>6. Untouched(c)
    BY <1>1 DEF Untouched, TypeOK, RecordRead, Goto, Got, object, events,
           hist, Matches
  <1>7. RunnerInv(c)'
    BY <1>1, FieldTypes DEF TypeOK, RecordRead, Goto, Got, object, events,
           hist, Matches, RunnerInv, GenerationsIssued, GenerationsOwn,
           NotYet, ReclaimIsSafe, RecordPending, Remembered, RowIsLast,
           Protected, OwnedBy, Before, Terminal
  <1>8. QED
    BY <1>2, <1>3, <1>4, <1>5, <1>6, <1>7 DEF Frame

LEMMA RecordWriteStep ==
  ASSUME IInv, NEW c \in Runner, RecordWrite(c)
  PROVE  Frame(c) /\ RunnerInv(c)'
  <1>1. TypeOK /\ gen <= lastGen /\ RunnerInv(c)
    BY DEF IInv
  <1>2. TypeOK'
    <2>1. /\ gen' \in Nat /\ lastGen' \in Nat /\ left' \in Int
         /\ owner' \in Runner \cup {NoOne} /\ exec' \in Runner \cup {NoOne}
      BY <1>1, FieldTypes DEF TypeOK, RecordWrite, Write, object
    <2>2. pc' \in [Runner -> MainPcs]
      BY <1>1, Values DEF TypeOK, RecordWrite, Goto
    <2>3. got' \in [Runner -> Reads]
      BY <1>1, RecordValues DEF TypeOK, RecordWrite, Write, Forget, Got
    <2>4. fault' \in [Runner -> BOOLEAN]
      BY <1>1 DEF TypeOK, RecordWrite, Fault
    <2>5. QED
      BY <1>1, <2>1, <2>2, <2>3, <2>4 DEF TypeOK, RecordWrite, events
  <1>3. ObjectStep(c)
    BY <1>1, FieldTypes DEF ObjectStep, TypeOK, RecordWrite, Write, object,
           Goto, Forget, Got, Fault, events, Matches
  <1>4. RowStep(c)
    BY DEF RowStep, RecordWrite
  <1>5. JobStep(c)
    BY DEF JobStep, RecordWrite
  <1>6. Untouched(c)
    BY <1>1 DEF Untouched, TypeOK, RecordWrite, Write, object, Goto, Forget,
           Got, Fault, events, Matches
  <1>7. RunnerInv(c)'
    BY <1>1, FieldTypes DEF TypeOK, RecordWrite, Write, object, Goto, Forget,
           Got, Fault, events, Matches, RunnerInv, GenerationsIssued,
           GenerationsOwn, NotYet, ReclaimIsSafe, RecordPending, Remembered,
           RowIsLast, Protected, OwnedBy, Before, Terminal
  <1>8. QED
    BY <1>2, <1>3, <1>4, <1>5, <1>6, <1>7 DEF Frame

LEMMA RecordReloadStep ==
  ASSUME IInv, NEW c \in Runner, RecordReload(c)
  PROVE  Frame(c) /\ RunnerInv(c)'
  <1>1. TypeOK /\ gen <= lastGen /\ RunnerInv(c)
    BY DEF IInv
  <1>2. TypeOK'
    <2>1. pc' \in [Runner -> MainPcs]
      BY <1>1, Values DEF TypeOK, RecordReload, Goto
    <2>2. my' \in [Runner -> Nat]
      BY <1>1, FieldTypes DEF TypeOK, RecordReload
    <2>3. got' \in [Runner -> Reads]
      BY <1>1, RecordValues DEF TypeOK, RecordReload, Forget, Got
    <2>4. fault' \in [Runner -> BOOLEAN]
      BY <1>1 DEF TypeOK, RecordReload, Fault
    <2>5. QED
      BY <1>1, <2>1, <2>2, <2>3, <2>4 DEF TypeOK, RecordReload, object, events
  <1>3. ObjectStep(c)
    BY DEF ObjectStep, RecordReload, object
  <1>4. RowStep(c)
    BY DEF RowStep, RecordReload
  <1>5. JobStep(c)
    BY DEF JobStep, RecordReload
  <1>6. Untouched(c)
    BY <1>1 DEF Untouched, TypeOK, RecordReload, Goto, Forget, Got, Fault,
           object, events
  <1>7. RunnerInv(c)'
    BY <1>1, FieldTypes DEF TypeOK, RecordReload, Goto, Forget, Got, Fault,
           object, events, RunnerInv, GenerationsIssued, GenerationsOwn,
           NotYet, ReclaimIsSafe, RecordPending, Remembered, RowIsLast,
           Protected, OwnedBy, Before, Terminal
  <1>8. QED
    BY <1>2, <1>3, <1>4, <1>5, <1>6, <1>7 DEF Frame

LEMMA DisownStep ==
  ASSUME IInv, NEW c \in Runner, Disown(c)
  PROVE  Frame(c) /\ RunnerInv(c)'
  <1>1. TypeOK /\ gen <= lastGen /\ RunnerInv(c)
    BY DEF IInv
  <1>2. TypeOK'
    <2>1. job' \in [Runner -> Statuses]
      BY <1>1, Values DEF TypeOK, Disown, CancelExecution
    <2>2. pc' \in [Runner -> MainPcs]
      BY <1>1, Values DEF TypeOK, Disown, Goto
    <2>3. QED
      BY <1>1, <2>1, <2>2 DEF TypeOK, Disown, object, events, hist
  <1>3. ObjectStep(c)
    BY DEF ObjectStep, Disown, object
  <1>4. RowStep(c)
    BY DEF RowStep, Disown
  <1>5. JobStep(c)
    BY <1>1 DEF TypeOK, Disown, CancelExecution, JobStep, Terminal
  <1>6. Untouched(c)
    BY <1>1 DEF Untouched, TypeOK, Disown, CancelExecution, Goto, object,
           events, hist
  <1>7. RunnerInv(c)'
    BY <1>1, FieldTypes DEF TypeOK, Disown, CancelExecution, Goto, object,
           events, hist, RunnerInv, GenerationsIssued, GenerationsOwn, NotYet,
           ReclaimIsSafe, RecordPending, Remembered, RowIsLast, Protected,
           OwnedBy, Before, Terminal
  <1>8. QED
    BY <1>2, <1>3, <1>4, <1>5, <1>6, <1>7 DEF Frame

LEMMA JobRowStep ==
  ASSUME IInv, NEW c \in Runner, JobRow(c)
  PROVE  Frame(c) /\ RunnerInv(c)'
  <1>1. TypeOK /\ gen <= lastGen /\ RunnerInv(c)
    BY DEF IInv
  <1>2. TypeOK'
    <2>1. row' \in Rows
      BY <1>1, Values, RecordValues DEF TypeOK, JobRow, Upsert
    <2>2. pc' \in [Runner -> MainPcs]
      BY <1>1, Values DEF TypeOK, JobRow, Upsert, Goto
    <2>3. QED
      BY <1>1, <2>1, <2>2 DEF TypeOK, JobRow, object, events, hist
  <1>3. ObjectStep(c)
    BY DEF ObjectStep, JobRow, object
  <1>4. RowStep(c)
    BY DEF RowStep, JobRow, Upsert, Row
  <1>5. JobStep(c)
    BY DEF JobStep, JobRow
  <1>6. Untouched(c)
    BY <1>1 DEF Untouched, TypeOK, JobRow, Upsert, Goto, object, events, hist,
           Row
  <1>7. RunnerInv(c)'
    BY <1>1, FieldTypes DEF TypeOK, JobRow, Upsert, Goto, object, events,
           hist, Row, RunnerInv, GenerationsIssued, GenerationsOwn, NotYet,
           ReclaimIsSafe, RecordPending, Remembered, RowIsLast, Protected,
           OwnedBy, Before, Terminal
  <1>8. QED
    BY <1>2, <1>3, <1>4, <1>5, <1>6, <1>7 DEF Frame

LEMMA WaitStep ==
  ASSUME IInv, NEW c \in Runner, Wait(c)
  PROVE  Frame(c) /\ RunnerInv(c)'
  <1>1. TypeOK /\ gen <= lastGen /\ RunnerInv(c)
    BY DEF IInv
  <1>2. TypeOK'
    <2>1. job' \in [Runner -> Statuses]
      BY <1>1, Values DEF TypeOK, Wait, CancelExecution
    <2>2. pc' \in [Runner -> MainPcs]
      BY <1>1, Values DEF TypeOK, Wait, Goto
    <2>3. QED
      BY <1>1, <2>1, <2>2 DEF TypeOK, Wait, object, events, hist
  <1>3. ObjectStep(c)
    BY DEF ObjectStep, Wait, object
  <1>4. RowStep(c)
    BY DEF RowStep, Wait
  <1>5. JobStep(c)
    BY <1>1 DEF TypeOK, Wait, CancelExecution, JobStep, Terminal
  <1>6. Untouched(c)
    BY <1>1 DEF Untouched, TypeOK, Wait, CancelExecution, Goto, object,
           events, hist
  <1>7. RunnerInv(c)'
    BY <1>1, FieldTypes DEF TypeOK, Wait, CancelExecution, Goto, object,
           events, hist, RunnerInv, GenerationsIssued, GenerationsOwn, NotYet,
           ReclaimIsSafe, RecordPending, Remembered, RowIsLast, Protected,
           OwnedBy, Before, Terminal
  <1>8. QED
    BY <1>2, <1>3, <1>4, <1>5, <1>6, <1>7 DEF Frame

LEMMA StopWaitingStep ==
  ASSUME IInv, NEW c \in Runner, StopWaiting(c)
  PROVE  Frame(c) /\ RunnerInv(c)'
  <1>1. TypeOK /\ gen <= lastGen /\ RunnerInv(c)
    BY DEF IInv
  <1>2. TypeOK'
    <2>1. pc' \in [Runner -> MainPcs]
      BY <1>1, Values DEF TypeOK, StopWaiting, Goto
    <2>2. QED
      BY <1>1, <2>1 DEF TypeOK, StopWaiting, object, events, hist
  <1>3. ObjectStep(c)
    BY DEF ObjectStep, StopWaiting, object
  <1>4. RowStep(c)
    BY DEF RowStep, StopWaiting
  <1>5. JobStep(c)
    BY DEF JobStep, StopWaiting
  <1>6. Untouched(c)
    BY <1>1 DEF Untouched, TypeOK, StopWaiting, Goto, object, events, hist
  <1>7. RunnerInv(c)'
    BY <1>1, FieldTypes DEF TypeOK, StopWaiting, Goto, object, events, hist,
           RunnerInv, GenerationsIssued, GenerationsOwn, NotYet,
           ReclaimIsSafe, RecordPending, Remembered, RowIsLast, Protected,
           OwnedBy, Before, Terminal
  <1>8. QED
    BY <1>2, <1>3, <1>4, <1>5, <1>6, <1>7 DEF Frame

LEMMA StopHeartbeatStep ==
  ASSUME IInv, NEW c \in Runner, StopHeartbeat(c)
  PROVE  Frame(c) /\ RunnerInv(c)'
  <1>1. TypeOK /\ gen <= lastGen /\ RunnerInv(c)
    BY DEF IInv
  <1>2. TypeOK'
    <2>1. stop' \in [Runner -> BOOLEAN]
      BY <1>1 DEF TypeOK, StopHeartbeat
    <2>2. QED
      BY <1>1, <2>1 DEF TypeOK, StopHeartbeat, object, hist
  <1>3. ObjectStep(c)
    BY DEF ObjectStep, StopHeartbeat, object
  <1>4. RowStep(c)
    BY DEF RowStep, StopHeartbeat
  <1>5. JobStep(c)
    BY DEF JobStep, StopHeartbeat
  <1>6. Untouched(c)
    BY <1>1 DEF Untouched, TypeOK, StopHeartbeat, object, hist
  <1>7. RunnerInv(c)'
    BY <1>1, FieldTypes DEF TypeOK, StopHeartbeat, object, hist, RunnerInv,
           GenerationsIssued, GenerationsOwn, NotYet, ReclaimIsSafe,
           RecordPending, Remembered, RowIsLast, Protected, OwnedBy, Before,
           Terminal
  <1>8. QED
    BY <1>2, <1>3, <1>4, <1>5, <1>6, <1>7 DEF Frame

LEMMA LastRowStep ==
  ASSUME IInv, NEW c \in Runner, LastRow(c)
  PROVE  Frame(c) /\ RunnerInv(c)'
  <1>1. TypeOK /\ gen <= lastGen /\ RunnerInv(c)
    BY DEF IInv
  <1>2. TypeOK'
    <2>1. row' \in Rows
      BY <1>1, Values, RecordValues DEF TypeOK, LastRow, Upsert
    <2>2. pc' \in [Runner -> MainPcs]
      BY <1>1, Values DEF TypeOK, LastRow, Upsert, Goto
    <2>3. QED
      BY <1>1, <2>1, <2>2 DEF TypeOK, LastRow, object, events, hist
  <1>3. ObjectStep(c)
    BY DEF ObjectStep, LastRow, object
  <1>4. RowStep(c)
    BY DEF RowStep, LastRow, Upsert, Row
  <1>5. JobStep(c)
    BY DEF JobStep, LastRow
  <1>6. Untouched(c)
    BY <1>1 DEF Untouched, TypeOK, LastRow, Upsert, Goto, object, events,
           hist, Row
  <1>7. RunnerInv(c)'
    BY <1>1, FieldTypes DEF TypeOK, LastRow, Upsert, Goto, object, events,
           hist, Row, RunnerInv, GenerationsIssued, GenerationsOwn, NotYet,
           ReclaimIsSafe, RecordPending, Remembered, RowIsLast, Protected,
           OwnedBy, Before, Terminal
  <1>8. QED
    BY <1>2, <1>3, <1>4, <1>5, <1>6, <1>7 DEF Frame

LEMMA ReleaseStep ==
  ASSUME IInv, NEW c \in Runner, Release(c)
  PROVE  Frame(c) /\ RunnerInv(c)'
  <1>1. TypeOK /\ gen <= lastGen /\ RunnerInv(c)
    BY DEF IInv
  <1>2. TypeOK'
    <2>1. /\ gen' \in Nat /\ lastGen' \in Nat /\ left' \in Int
         /\ owner' \in Runner \cup {NoOne} /\ exec' \in Runner \cup {NoOne}
      BY <1>1, FieldTypes DEF TypeOK, Release, Delete, object
    <2>2. pc' \in [Runner -> MainPcs]
      BY <1>1, Values DEF TypeOK, Release, Leave, Goto
    <2>3. my' \in [Runner -> Nat]
      BY <1>1 DEF TypeOK, Release, Leave
    <2>4. got' \in [Runner -> Reads]
      BY <1>1, RecordValues DEF TypeOK, Release, Leave, Forget, Got
    <2>5. hb' \in [Runner -> Threads]
      BY <1>1, RecordValues DEF TypeOK, Release, Leave
    <2>6. stop' \in [Runner -> BOOLEAN]
      BY <1>1 DEF TypeOK, Release, Leave
    <2>7. abort' \in [Runner -> BOOLEAN]
      BY <1>1 DEF TypeOK, Release, Leave
    <2>8. fault' \in [Runner -> BOOLEAN]
      BY <1>1 DEF TypeOK, Release, Fault
    <2>9. erased' \in [Runner -> BOOLEAN]
      BY <1>1 DEF TypeOK, Release, Leave
    <2>10. QED
      BY <1>1, <2>1, <2>2, <2>3, <2>4, <2>5, <2>6, <2>7, <2>8, <2>9 DEF
             TypeOK, Release, Leave
  <1>3. ObjectStep(c)
    BY <1>1, FieldTypes DEF ObjectStep, TypeOK, Release, Delete, object,
           Leave, Goto, Forget, Got, Fault, HbAt, Thread, Matches
  <1>4. RowStep(c)
    BY DEF RowStep, Release
  <1>5. JobStep(c)
    BY DEF JobStep, Release
  <1>6. Untouched(c)
    BY <1>1 DEF Untouched, TypeOK, Release, Delete, object, Leave, Goto,
           Forget, Got, Fault, HbAt, Thread, Matches
  <1>7. RunnerInv(c)'
    BY <1>1, FieldTypes DEF TypeOK, Release, Delete, object, Leave, Goto,
           Forget, Got, Fault, HbAt, Thread, Matches, RunnerInv,
           GenerationsIssued, GenerationsOwn, NotYet, ReclaimIsSafe,
           RecordPending, Remembered, RowIsLast, Protected, OwnedBy, Before,
           Terminal
  <1>8. QED
    BY <1>2, <1>3, <1>4, <1>5, <1>6, <1>7 DEF Frame

LEMMA HbWakeStep ==
  ASSUME IInv, NEW c \in Runner, HbWake(c)
  PROVE  Frame(c) /\ RunnerInv(c)'
  <1>1. TypeOK /\ gen <= lastGen /\ RunnerInv(c)
    BY DEF IInv
  <1>2. TypeOK'
    <2>1. hb' \in [Runner -> Threads]
      BY <1>1, RecordValues DEF TypeOK, HbWake, Hb
    <2>2. QED
      BY <1>1, <2>1 DEF TypeOK, HbWake, object, events, hist
  <1>3. ObjectStep(c)
    BY DEF ObjectStep, HbWake, object
  <1>4. RowStep(c)
    BY DEF RowStep, HbWake
  <1>5. JobStep(c)
    BY DEF JobStep, HbWake
  <1>6. Untouched(c)
    BY <1>1 DEF Untouched, TypeOK, HbWake, Hb, object, events, hist, HbAt,
           Thread
  <1>7. RunnerInv(c)'
    BY <1>1, FieldTypes DEF TypeOK, HbWake, Hb, object, events, hist, HbAt,
           Thread, RunnerInv, GenerationsIssued, GenerationsOwn, NotYet,
           ReclaimIsSafe, RecordPending, Remembered, RowIsLast, Protected,
           OwnedBy, Before, Terminal
  <1>8. QED
    BY <1>2, <1>3, <1>4, <1>5, <1>6, <1>7 DEF Frame

LEMMA HbReadStep ==
  ASSUME IInv, NEW c \in Runner, HbRead(c)
  PROVE  Frame(c) /\ RunnerInv(c)'
  <1>1. TypeOK /\ gen <= lastGen /\ RunnerInv(c)
    BY DEF IInv
  <1>2. TypeOK'
    <2>1. hb' \in [Runner -> Threads]
      BY <1>1, RecordValues, LockedStepAssumption DEF TypeOK, HbRead, Hb,
             LoseLock, HbAt, LockedStepAssumption
    <2>2. abort' \in [Runner -> BOOLEAN]
      BY <1>1 DEF TypeOK, HbRead, LoseLock
    <2>3. QED
      BY <1>1, <2>1, <2>2 DEF TypeOK, HbRead, object, hist
  <1>3. ObjectStep(c)
    BY DEF ObjectStep, HbRead, object
  <1>4. RowStep(c)
    BY DEF RowStep, HbRead
  <1>5. JobStep(c)
    BY DEF JobStep, HbRead
  <1>6. Untouched(c)
    BY <1>1 DEF Untouched, TypeOK, HbRead, Hb, LoseLock, object, hist, HbAt,
           Thread, Matches
  <1>7. RunnerInv(c)'
    BY <1>1, FieldTypes DEF TypeOK, HbRead, Hb, LoseLock, object, hist, HbAt,
           Thread, Matches, RunnerInv, GenerationsIssued, GenerationsOwn,
           NotYet, ReclaimIsSafe, RecordPending, Remembered, RowIsLast,
           Protected, OwnedBy, Before, Terminal
  <1>8. QED
    BY <1>2, <1>3, <1>4, <1>5, <1>6, <1>7 DEF Frame

LEMMA HbWriteStep ==
  ASSUME IInv, NEW c \in Runner, HbWrite(c)
  PROVE  Frame(c) /\ RunnerInv(c)'
  <1>1. TypeOK /\ gen <= lastGen /\ RunnerInv(c)
    BY DEF IInv
  <1>2. TypeOK'
    <2>1. /\ gen' \in Nat /\ lastGen' \in Nat /\ left' \in Int
         /\ owner' \in Runner \cup {NoOne} /\ exec' \in Runner \cup {NoOne}
      BY <1>1, FieldTypes DEF TypeOK, HbWrite, Write, object
    <2>2. hb' \in [Runner -> Threads]
      BY <1>1, RecordValues DEF TypeOK, HbWrite, Write, Hb, LoseLock
    <2>3. abort' \in [Runner -> BOOLEAN]
      BY <1>1 DEF TypeOK, HbWrite, LoseLock
    <2>4. fault' \in [Runner -> BOOLEAN]
      BY <1>1 DEF TypeOK, HbWrite, Fault
    <2>5. erased' \in [Runner -> BOOLEAN]
      BY <1>1 DEF TypeOK, HbWrite
    <2>6. QED
      BY <1>1, <2>1, <2>2, <2>3, <2>4, <2>5 DEF TypeOK, HbWrite
  <1>3. ObjectStep(c)
    BY <1>1, FieldTypes DEF ObjectStep, TypeOK, HbWrite, Write, object, Hb,
           LoseLock, Fault, HbAt, Thread, Matches
  <1>4. RowStep(c)
    BY DEF RowStep, HbWrite
  <1>5. JobStep(c)
    BY DEF JobStep, HbWrite
  <1>6. Untouched(c)
    BY <1>1 DEF Untouched, TypeOK, HbWrite, Write, object, Hb, LoseLock,
           Fault, HbAt, Thread, Matches
  <1>7. RunnerInv(c)'
    <2>1. GenerationsIssued(c)'
      BY <1>1, FieldTypes DEF TypeOK, HbWrite, Write, object, Hb, LoseLock,
             Fault, HbAt, Thread, Matches, RunnerInv, GenerationsIssued
    <2>2. GenerationsOwn(c)'
      BY <1>1, FieldTypes DEF TypeOK, HbWrite, Write, object, Hb, LoseLock,
             Fault, HbAt, Thread, Matches, RunnerInv, GenerationsOwn
    <2>3. NotYet(c)'
      BY <1>1, FieldTypes DEF TypeOK, HbWrite, Write, object, Hb, LoseLock,
             Fault, HbAt, Thread, Matches, RunnerInv, NotYet, Before
    <2>4. ReclaimIsSafe(c)'
      BY <1>1, FieldTypes DEF TypeOK, HbWrite, Write, object, Hb, LoseLock,
             Fault, HbAt, Thread, Matches, RunnerInv, ReclaimIsSafe, Terminal,
             NotYet, Before
    <2>5. RecordPending(c)'
      BY <1>1, FieldTypes DEF TypeOK, HbWrite, Write, object, Hb, LoseLock,
             Fault, HbAt, Thread, Matches, RunnerInv, RecordPending,
             GenerationsIssued
    <2>6. Remembered(c)'
      BY <1>1, FieldTypes DEF TypeOK, HbWrite, Write, object, Hb, LoseLock,
             Fault, HbAt, Thread, Matches, RunnerInv, Remembered, OwnedBy
    <2>7. RowIsLast(c)'
      BY <1>1, FieldTypes DEF TypeOK, HbWrite, Write, object, Hb, LoseLock,
             Fault, HbAt, Thread, Matches, RunnerInv, RowIsLast
    <2>8. (Protected(c) => OwnedBy(c) /\ exec = c)'
      <3>1. pc'[c] = pc[c] /\ job'[c] = job[c]
        BY DEF HbWrite
      <3>2. CASE UNCHANGED <<object, erased>>
        BY <1>1, <3>1, <3>2 DEF object, RunnerInv, Protected, OwnedBy
      <3>3. CASE /\ Matches(c) /\ Write(owner, hb[c].exp, hb[c].exec)
                 /\ erased' = [erased EXCEPT ![c] = @ \/ hb[c].exec # exec]
        <4>1. erased'[c] = (erased[c] \/ hb[c].exec # exec)
          BY <1>1, <3>3 DEF TypeOK
        <4>2. Protected(c)' => Protected(c) /\ hb[c].exec = exec
          BY <3>1, <4>1 DEF Protected
        <4>3. gen' # 0 /\ owner' = owner /\ exec' = hb[c].exec
          BY <1>1, <3>3 DEF TypeOK, Write
        <4>4. QED
          BY <1>1, <4>2, <4>3 DEF RunnerInv, OwnedBy
      <3>4. QED
        BY <3>2, <3>3 DEF HbWrite
    <2>9. (pc[c] \in {"returned", "raised"} /\ OwnedBy(c) => fault[c])'
      BY <1>1, FieldTypes DEF TypeOK, HbWrite, Write, object, Hb, LoseLock,
             Fault, HbAt, Thread, Matches, RunnerInv, OwnedBy
    <2>10. (pc[c] \in {"releasing", "giving_up", "returned", "raised", "killed"}
            => hb[c].pc = "off")'
      BY <1>1, FieldTypes DEF TypeOK, HbWrite, Write, object, Hb, LoseLock,
             Fault, HbAt, Thread, Matches, RunnerInv
    <2>11. QED
      BY <2>1, <2>2, <2>3, <2>4, <2>5, <2>6, <2>7, <2>8, <2>9, <2>10 DEF
             RunnerInv
  <1>8. QED
    BY <1>2, <1>3, <1>4, <1>5, <1>6, <1>7 DEF Frame

LEMMA HbReloadStep ==
  ASSUME IInv, NEW c \in Runner, HbReload(c)
  PROVE  Frame(c) /\ RunnerInv(c)'
  <1>1. TypeOK /\ gen <= lastGen /\ RunnerInv(c)
    BY DEF IInv
  <1>2. TypeOK'
    <2>1. my' \in [Runner -> Nat]
      BY <1>1, FieldTypes DEF TypeOK, HbReload
    <2>2. hb' \in [Runner -> Threads]
      BY <1>1, RecordValues DEF TypeOK, HbReload, Hb, LoseLock
    <2>3. abort' \in [Runner -> BOOLEAN]
      BY <1>1 DEF TypeOK, HbReload, LoseLock
    <2>4. fault' \in [Runner -> BOOLEAN]
      BY <1>1 DEF TypeOK, HbReload, Fault
    <2>5. QED
      BY <1>1, <2>1, <2>2, <2>3, <2>4 DEF TypeOK, HbReload, object
  <1>3. ObjectStep(c)
    BY DEF ObjectStep, HbReload, object
  <1>4. RowStep(c)
    BY DEF RowStep, HbReload
  <1>5. JobStep(c)
    BY DEF JobStep, HbReload
  <1>6. Untouched(c)
    BY <1>1 DEF Untouched, TypeOK, HbReload, Hb, LoseLock, Fault, object,
           HbAt, Thread
  <1>7. RunnerInv(c)'
    BY <1>1, FieldTypes DEF TypeOK, HbReload, Hb, LoseLock, Fault, object,
           HbAt, Thread, RunnerInv, GenerationsIssued, GenerationsOwn, NotYet,
           ReclaimIsSafe, RecordPending, Remembered, RowIsLast, Protected,
           OwnedBy, Before, Terminal
  <1>8. QED
    BY <1>2, <1>3, <1>4, <1>5, <1>6, <1>7 DEF Frame

LEMMA HbNoteStep ==
  ASSUME IInv, NEW c \in Runner, HbNote(c)
  PROVE  Frame(c) /\ RunnerInv(c)'
  <1>1. TypeOK /\ gen <= lastGen /\ RunnerInv(c)
    BY DEF IInv
  <1>2. TypeOK'
    <2>1. row' \in Rows
      BY <1>1, Values, RecordValues DEF TypeOK, HbNote
    <2>2. hb' \in [Runner -> Threads]
      BY <1>1, RecordValues DEF TypeOK, HbNote, Hb
    <2>3. QED
      BY <1>1, <2>1, <2>2 DEF TypeOK, HbNote, object, events, hist
  <1>3. ObjectStep(c)
    BY DEF ObjectStep, HbNote, object
  <1>4. RowStep(c)
    BY DEF RowStep, HbNote, Row
  <1>5. JobStep(c)
    BY DEF JobStep, HbNote
  <1>6. Untouched(c)
    BY <1>1 DEF Untouched, TypeOK, HbNote, Hb, object, events, hist, Row,
           HbAt, Thread
  <1>7. RunnerInv(c)'
    BY <1>1, FieldTypes DEF TypeOK, HbNote, Hb, object, events, hist, Row,
           HbAt, Thread, RunnerInv, GenerationsIssued, GenerationsOwn, NotYet,
           ReclaimIsSafe, RecordPending, Remembered, RowIsLast, Protected,
           OwnedBy, Before, Terminal
  <1>8. QED
    BY <1>2, <1>3, <1>4, <1>5, <1>6, <1>7 DEF Frame

LEMMA JobEndsStep ==
  ASSUME IInv, NEW c \in Runner, JobEnds(c)
  PROVE  Frame(c) /\ RunnerInv(c)'
  <1>1. TypeOK /\ gen <= lastGen /\ RunnerInv(c)
    BY DEF IInv
  <1>2. TypeOK'
    <2>1. job' \in [Runner -> Statuses]
      BY <1>1, Values DEF TypeOK, JobEnds
    <2>2. QED
      BY <1>1, <2>1 DEF TypeOK, JobEnds, object, events, hist
  <1>3. ObjectStep(c)
    BY DEF ObjectStep, JobEnds, object
  <1>4. RowStep(c)
    BY DEF RowStep, JobEnds
  <1>5. JobStep(c)
    BY <1>1 DEF TypeOK, JobEnds, JobStep, Terminal
  <1>6. Untouched(c)
    BY <1>1 DEF Untouched, TypeOK, JobEnds, object, events, hist
  <1>7. RunnerInv(c)'
    BY <1>1, FieldTypes DEF TypeOK, JobEnds, object, events, hist, RunnerInv,
           GenerationsIssued, GenerationsOwn, NotYet, ReclaimIsSafe,
           RecordPending, Remembered, RowIsLast, Protected, OwnedBy, Before,
           Terminal
  <1>8. QED
    BY <1>2, <1>3, <1>4, <1>5, <1>6, <1>7 DEF Frame

LEMMA KillStep ==
  ASSUME IInv, NEW c \in Runner, Kill(c)
  PROVE  Frame(c) /\ RunnerInv(c)'
  <1>1. TypeOK /\ gen <= lastGen /\ RunnerInv(c)
    BY DEF IInv
  <1>2. TypeOK'
    <2>1. pc' \in [Runner -> MainPcs]
      BY <1>1, Values DEF TypeOK, Kill, Leave, Goto
    <2>2. my' \in [Runner -> Nat]
      BY <1>1 DEF TypeOK, Kill, Leave
    <2>3. got' \in [Runner -> Reads]
      BY <1>1, RecordValues DEF TypeOK, Kill, Leave, Forget, Got
    <2>4. hb' \in [Runner -> Threads]
      BY <1>1, RecordValues DEF TypeOK, Kill, Leave
    <2>5. stop' \in [Runner -> BOOLEAN]
      BY <1>1 DEF TypeOK, Kill, Leave
    <2>6. abort' \in [Runner -> BOOLEAN]
      BY <1>1 DEF TypeOK, Kill, Leave
    <2>7. erased' \in [Runner -> BOOLEAN]
      BY <1>1 DEF TypeOK, Kill, Leave
    <2>8. QED
      BY <1>1, <2>1, <2>2, <2>3, <2>4, <2>5, <2>6, <2>7 DEF TypeOK, Kill,
             object, Leave
  <1>3. ObjectStep(c)
    BY DEF ObjectStep, Kill, object
  <1>4. RowStep(c)
    BY DEF RowStep, Kill
  <1>5. JobStep(c)
    BY DEF JobStep, Kill
  <1>6. Untouched(c)
    BY <1>1 DEF Untouched, TypeOK, Kill, Leave, Goto, Forget, Got, object,
           HbAt, Thread, Ended
  <1>7. RunnerInv(c)'
    BY <1>1, FieldTypes DEF TypeOK, Kill, Leave, Goto, Forget, Got, object,
           HbAt, Thread, Ended, RunnerInv, GenerationsIssued, GenerationsOwn,
           NotYet, ReclaimIsSafe, RecordPending, Remembered, RowIsLast,
           Protected, OwnedBy, Before, Terminal
  <1>8. QED
    BY <1>2, <1>3, <1>4, <1>5, <1>6, <1>7 DEF Frame

\* Time passes: only countdowns change.
LEMMA TickStep ==
  ASSUME IInv, Tick
  PROVE  TypeOK' /\ \A d \in Runner : RunnerInv(d)'
  <1>1. TypeOK /\ Down(left) \in Int
    BY DEF IInv, TypeOK, Down
  <1>2. got' \in [Runner -> Reads]
    <2>1. \A d \in Runner : [got[d] EXCEPT !.exp = Down(@)] \in Reads
      BY <1>1, FieldTypes DEF Reads, Down
    <2>2. QED
      BY <2>1 DEF Tick
  <1>3. hb' \in [Runner -> Threads]
    <2>1. \A d \in Runner : [hb[d] EXCEPT !.exp = Down(@)] \in Threads
      BY <1>1, FieldTypes DEF Threads, Down
    <2>2. QED
      BY <2>1 DEF Tick
  <1>4. TypeOK'
    BY <1>1, <1>2, <1>3 DEF TypeOK, Tick, events, hist
  <1>5. ASSUME NEW d \in Runner
        PROVE  RunnerInv(d)'
    <2>1. got'[d].seen = got[d].seen
      BY <1>1, FieldTypes DEF Tick, Reads
    <2>2. hb'[d].seen = hb[d].seen /\ hb'[d].pc = hb[d].pc
      BY <1>1, FieldTypes DEF Tick, Threads
    <2>3. RunnerInv(d) /\ UNCHANGED <<gen, owner, exec, lastGen, row, job, pc, my, fault, erased>>
      BY DEF IInv, Tick, hist
    <2>4. QED
      BY <2>1, <2>2, <2>3
      DEF RunnerInv, GenerationsIssued, GenerationsOwn, NotYet, ReclaimIsSafe,
          RecordPending, Remembered, RowIsLast, Protected, OwnedBy
  <1>6. QED
    BY <1>4, <1>5

-----------------------------------------------------------------------------
(* The invariant.                                                          *)

LEMMA InitInv ==
  Init => IInv
  <1> SUFFICES ASSUME Init PROVE IInv
    OBVIOUS
  <1>1. -1 \in Int /\ 0 \in Nat
    OBVIOUS
  <1>2. TypeOK
    BY <1>1, Values, RecordValues DEF Init, TypeOK, Rows, MainPcs, Before
  <1>3. ASSUME NEW d \in Runner PROVE RunnerInv(d)
    BY DEF Init, HbAt, Thread, RunnerInv, GenerationsIssued, GenerationsOwn, NotYet,
           ReclaimIsSafe, RecordPending, Remembered, RowIsLast, Protected, OwnedBy
  <1>4. QED
    BY <1>2, <1>3 DEF IInv, Init

\* The steps of one orchestrator.
LEMMA RunnerSteps ==
  ASSUME IInv, NEW c \in Runner,
         Main(c) \/ Heartbeat(c) \/ StopWaiting(c) \/ JobEnds(c) \/ Kill(c)
  PROVE  Frame(c) /\ RunnerInv(c)'
  <1>1. CASE Main(c)
    BY <1>1, BeginStep, CreateStep, CreatedStep, ProbeStep, ReclaimStep, BusyStep,
       FirstRowStep, SubmitStep, RecordReadStep, RecordWriteStep, RecordReloadStep,
       DisownStep, JobRowStep, WaitStep, StopHeartbeatStep, LastRowStep, ReleaseStep
    DEF Main
  <1>2. CASE Heartbeat(c)
    BY <1>2, HbWakeStep, HbReadStep, HbWriteStep, HbReloadStep, HbNoteStep
    DEF Heartbeat
  <1>3. QED
    BY <1>1, <1>2, StopWaitingStep, JobEndsStep, KillStep

LEMMA StepInv ==
  IInv /\ [Next]_vars => IInv'
  <1> SUFFICES ASSUME IInv, [Next]_vars PROVE IInv'
    OBVIOUS
  <1>1. CASE UNCHANGED vars
    BY <1>1
    DEF vars, IInv, TypeOK, RunnerInv, GenerationsIssued, GenerationsOwn, NotYet,
        ReclaimIsSafe, RecordPending, Remembered, RowIsLast, Protected, OwnedBy
  <1>2. CASE Tick
    BY <1>2, TickStep DEF IInv, Tick
  <1>3. ASSUME NEW c \in Runner,
               Main(c) \/ Heartbeat(c) \/ StopWaiting(c) \/ JobEnds(c) \/ Kill(c)
        PROVE  IInv'
    <2>1. Frame(c) /\ RunnerInv(c)'
      BY <1>3, RunnerSteps
    <2>2. \A d \in Runner : RunnerInv(d)'
      BY <2>1, OthersKeep
    <2>3. gen' <= lastGen'
      BY <2>1 DEF Frame, ObjectStep, Write, Delete, object, IInv, TypeOK
    <2>4. (row.status \in {"succeeded", "failed", "cancelled"} => row.by # NoOne)'
      BY <2>1, LockedStepAssumption
      DEF Frame, RowStep, IInv, LockedStepAssumption
    <2>5. QED
      BY <2>1, <2>2, <2>3, <2>4 DEF IInv, Frame
  <1>4. QED
    BY <1>1, <1>2, <1>3 DEF Next

THEOREM Invariance ==
  Spec => []IInv
  BY InitInv, StepInv, PTL DEF Spec

\* Every variable keeps its type.
THEOREM TypeCorrect ==
  Spec => []TypeOK
  <1>1. IInv => TypeOK
    BY DEF IInv
  <1>2. QED
    BY <1>1, Invariance, PTL

\* Nobody takes the lock object from an orchestrator that waits for a running
\* execution whose id the object still names, however many of them run the
\* step and whatever the lease is.
THEOREM RunningExecutionKeepsLock ==
  Spec => []ProtectedKeepsLock
  <1>1. IInv => ProtectedKeepsLock
    BY DEF IInv, RunnerInv, ProtectedKeepsLock
  <1>2. QED
    BY <1>1, Invariance, PTL

\* An orchestrator that came to its end without a failed GCS call has left no
\* lock object of its own.
THEOREM EndLeavesNoLock ==
  Spec => []LeavesNoLock
  <1>1. IInv => LeavesNoLock
    BY DEF IInv, RunnerInv, LeavesNoLock
  <1>2. QED
    BY <1>1, Invariance, PTL

-----------------------------------------------------------------------------
(* The last row.                                                           *)

RowStays ==
  row.status \in {"succeeded", "failed", "cancelled"} /\ row'.by = row.by
    => row'.status # "running"

\* Only three actions write "running"; the orchestrator whose row is the last
\* one can take none of them.
LEMMA StepKeepsRow ==
  IInv /\ [Next]_vars => [RowStays]_vars
  <1> SUFFICES ASSUME IInv, Next, row' # row,
                      row.status \in {"succeeded", "failed", "cancelled"},
                      row'.by = row.by, row'.status = "running"
               PROVE  FALSE
    BY DEF RowStays, vars
  <1>1. PICK c \in Runner : Main(c) \/ Heartbeat(c)
    BY DEF Next, Tick, StopWaiting, JobEnds, Kill
  <1>2. row'.by = c
    BY <1>1, RunnerSteps DEF Frame, RowStep
  <1>3. /\ pc[c] \in {"failing", "releasing", "giving_up", "returned", "raised", "killed"}
        /\ hb[c].pc = "off"
    BY <1>2 DEF IInv, RunnerInv, RowIsLast
  <1>4. \/ Busy(c) \/ FirstRow(c) \/ JobRow(c) \/ LastRow(c) \/ HbNote(c)
    BY <1>1
    DEF Main, Heartbeat, Begin, Create, Created, Probe, Reclaim, Submit, RecordRead,
        RecordWrite, RecordReload, Disown, Wait, StopHeartbeat, Release, HbWake,
        HbRead, HbWrite, HbReload
  <1>5. LastRow(c)
    BY <1>3, <1>4 DEF Busy, FirstRow, JobRow, HbNote
  <1>6. QED
    BY <1>5 DEF LastRow, Upsert, Row

\* No step puts "running" over the last row of the orchestrator that wrote it.
THEOREM LastRowStaysLast ==
  Spec => LastRowStays
  <1>1. Spec => [][RowStays]_vars
    BY Invariance, StepKeepsRow, PTL DEF Spec
  <1>2. QED
    BY <1>1 DEF RowStays, LastRowStays

-----------------------------------------------------------------------------
(* Ingestion: the plan.                                                    *)

\* Every non-empty set of numbers has a least element.
LEMMA LeastIs ==
  ASSUME NEW S \in SUBSET Nat, S # {}
  PROVE Least(S) \in S /\ \A m \in S : Least(S) <= m
<1> DEFINE R == {p \in Nat \X Nat : p[1] < p[2]}
<1>1. IsWellFoundedOn(R, Nat)
  <2>1. IsWellFoundedOn({ss \in Nat \X Nat : ss[1] < ss[2]}, Nat)
    BY NatLessThanWellFounded, Zenon DEF OpToRel
  <2> QED BY <2>1
<1>2. \A x, y \in Nat : <<y, x>> \in R <=> y < x
  OBVIOUS
<1> HIDE DEF R
<1>3. \E x \in S : \A y \in S : ~(<<y, x>> \in R)
  BY <1>1, WFMin
<1>4. \A x, y \in Nat : ~(y < x) => x <= y
  OBVIOUS
<1>5. \E x \in S : \A m \in S : x <= m
  BY <1>2, <1>3, <1>4
<1> QED
  BY <1>5, Zenon DEF Least

\* The day and the mode of an execution.
LEMMA DayIs ==
  ASSUME IngestionTypeOK, NEW e \in Exec
  PROVE Day(e) \in Days /\ Day(e) \in Nat
  BY SourceAssumption, IngestionAssumption DEF IngestionTypeOK, Day

\* Every endpoint of the group has an item when the calendar resolves.
LEMMA DatesAre ==
  ASSUME NEW x \in Names, NEW day \in Days, DatesResolve(day)
  PROVE PartitionDates(x, day) \subseteq Days /\ PartitionDates(x, day) \in SUBSET Nat
        /\ PartitionDates(x, day) # {}
<1>1. Cardinality(PartitionDates(x, day)) \in Nat \ {0}
  BY ManifestAssumption DEF DatesResolve
<1>2. PartitionDates(x, day) # {}
  BY <1>1, FS_EmptySet
<1> QED
  BY <1>2, IngestionAssumption DEF PartitionDates, OpenUpTo

\* An endpoint of a report period has one item.
LEMMA OneDate ==
  ASSUME NEW x \in Names, Semantics[x] = "report_period", NEW day
  PROVE PartitionDates(x, day) = {day}
  BY ManifestAssumption DEF PartitionDates

LEMMA IndexIs ==
  ASSUME NEW i \in DOMAIN Endpoints
  PROVE i \in Nat /\ i >= 1 /\ i <= Len(Endpoints) /\ Endpoints[i] \in Names
  BY ManifestAssumption DEF Names

LEMMA FirstItem ==
  ASSUME IngestionTypeOK, NEW e \in Exec, DatesResolve(Day(e)), NEW i \in DOMAIN Endpoints
  PROVE FirstOf(e, i) \in Nat \X Nat /\ FirstOf(e, i)[1] = i
        /\ FirstOf(e, i)[2] \in PartitionDates(Endpoints[i], Day(e))
<1>1. Least(PartitionDates(Endpoints[i], Day(e))) \in PartitionDates(Endpoints[i], Day(e))
  BY DayIs, DatesAre, LeastIs, IndexIs
<1> QED
  BY <1>1, DayIs, DatesAre, IndexIs DEF FirstOf

\* An execution under way has an item.
Walks(e) == at[e] \in {"query"} \cup Writing \cup Recording

LEMMA ItemIs ==
  ASSUME IngestionTypeOK, NEW e \in Exec, Placed(e), Walks(e)
  PROVE /\ item[e] \in Nat \X Nat /\ item[e][1] \in DOMAIN Endpoints
        /\ Endpoint(e) \in Names /\ LogicalDate(e) \in Days /\ LogicalDate(e) \in Nat
        /\ ItemKey(e) \in Keys
<1>1. item[e] \in Nat \X Nat
  BY DEF IngestionTypeOK
<1>2. item[e][1] \in DOMAIN Endpoints /\ LogicalDate(e) \in PartitionDates(Endpoint(e), Day(e))
      /\ DatesResolve(Day(e))
  BY DEF Placed, Walks
<1>3. Endpoint(e) \in Names
  BY <1>2, IndexIs DEF Endpoint
<1>4. LogicalDate(e) \in Days /\ LogicalDate(e) \in Nat
  BY <1>2, <1>3, DatesAre, DayIs
<1> QED
  BY <1>1, <1>2, <1>3, <1>4 DEF ItemKey, Keys

LEMMA KeyIs ==
  ASSUME IngestionTypeOK, NEW e \in Exec, Placed(e), Walks(e), todo[e] # {}
  PROVE /\ Key(e) \in Keys /\ Key(e)[1] = Endpoint(e) /\ (~Merges(e) => Key(e) = ItemKey(e))
        /\ Group(e) \in SUBSET (Nat \X Nat)
<1>1. todo[e] \in SUBSET DOMAIN EndDate /\ DOMAIN EndDate \in SUBSET Nat
  <2>1. DOMAIN EndDate = 1 .. Len(EndDate) /\ Len(EndDate) \in Nat
    BY SourceAssumption
  <2> QED BY <2>1 DEF IngestionTypeOK
<1>2. Least(todo[e]) \in DOMAIN EndDate
  BY <1>1, LeastIs
<1>3. <<Endpoint(e), Period(e)>> \in Keys
  BY <1>2, ItemIs DEF Period, Keys
<1>4. Group(e) \in SUBSET (Nat \X Nat)
  BY <1>1, ItemIs DEF Group
<1> QED
  BY <1>3, <1>4, ItemIs DEF Key, ItemKey

LEMMA KeyDates ==
  ASSUME NEW key \in Keys
  PROVE key[2] \in Nat
<1>1. \A n \in DOMAIN EndDate : EndDate[n] \in Nat
  BY SourceAssumption
<1> QED
  BY <1>1, IngestionAssumption DEF Keys

\* Each outcome has the key of a partition.
LEMMA ResultsAre ==
  ASSUME NEW seq \in Seq(Result), NEW i \in DOMAIN seq
  PROVE seq[i] \in Result /\ seq[i].key \in Keys /\ seq[i].status \in {"success", "empty_return"}
<1>1. seq[i] \in Result
  OBVIOUS
<1> QED BY <1>1 DEF Result

LEMMA TailIs ==
  ASSUME NEW seq \in Seq(Result), seq # <<>>
  PROVE /\ Tail(seq) \in Seq(Result)
        /\ (Len(seq) = 1 <=> Tail(seq) = <<>>)
        /\ \A i \in DOMAIN Tail(seq) : i + 1 \in DOMAIN seq /\ Tail(seq)[i] = seq[i + 1]
        /\ \A j \in DOMAIN seq \ {1} : j - 1 \in DOMAIN Tail(seq) /\ Tail(seq)[j - 1] = seq[j]
<1>1. /\ Tail(seq) \in Seq(Result) /\ Len(seq) \in Nat \ {0} /\ DOMAIN seq = 1 .. Len(seq)
      /\ Len(Tail(seq)) = Len(seq) - 1 /\ DOMAIN Tail(seq) = 1 .. Len(seq) - 1
  OBVIOUS
<1>2. \A i \in 1 .. Len(seq) - 1 : Tail(seq)[i] = seq[i + 1]
  OBVIOUS
<1>3. Len(seq) = 1 <=> Tail(seq) = <<>>
  BY <1>1
<1>4. \A i \in DOMAIN Tail(seq) : i + 1 \in DOMAIN seq /\ Tail(seq)[i] = seq[i + 1]
  BY <1>1, <1>2
<1>5. \A j \in DOMAIN seq \ {1} : j - 1 \in DOMAIN Tail(seq) /\ Tail(seq)[j - 1] = seq[j]
  BY <1>1, <1>2
<1> QED BY <1>1, <1>3, <1>4, <1>5

\* The keys an execution has dealt with, the present item included.
Covered(e, key) ==
  Passed(e, key) \/ (key[1] = Endpoint(e) /\ (Merges(e) \/ key = ItemKey(e)))

LEMMA NotPassed ==
  ASSUME IngestionTypeOK, NEW e \in Exec, Placed(e), Walks(e), NEW key,
         key[1] = Endpoint(e), Merges(e) \/ key = ItemKey(e)
  PROVE ~Passed(e, key)
<1> SUFFICES ASSUME NEW i \in 1 .. item[e][1], key[1] = Endpoints[i],
                    i = item[e][1] => ~Merges(e) /\ key[2] < LogicalDate(e)
             PROVE FALSE
  BY DEF Passed
<1>1. item[e][1] \in DOMAIN Endpoints
  BY ItemIs
<1>2. i \in DOMAIN Endpoints
  BY <1>1, ManifestAssumption
<1>3. i = item[e][1]
  BY <1>1, <1>2, ManifestAssumption DEF Endpoint
<1>4. key = ItemKey(e) /\ key[2] < LogicalDate(e)
  BY <1>3
<1>5. LogicalDate(e) \in Nat /\ LogicalDate(e) < LogicalDate(e)
  BY <1>4, ItemIs DEF ItemKey
<1> QED
  BY <1>5

\* The next item is another one, and later.
LEMMA FollowingIs ==
  ASSUME IngestionTypeOK, NEW e \in Exec, Placed(e), Walks(e), ~LastItem(e)
  PROVE /\ Following(e) \in Nat \X Nat /\ Following(e)[1] \in DOMAIN Endpoints
        /\ Following(e)[2] \in PartitionDates(Endpoints[Following(e)[1]], Day(e))
        /\ \/ Following(e)[1] = item[e][1] /\ Following(e)[2] > item[e][2] /\ ~Merges(e)
           \/ Following(e)[1] = item[e][1] + 1
<1>1. DatesResolve(Day(e)) /\ LogicalDate(e) \in PartitionDates(Endpoint(e), Day(e))
  BY DEF Placed, Walks
<1>2. CASE Later(e) # {}
  <2>1. Following(e) = <<item[e][1], Least(Later(e))>>
    BY <1>2 DEF Following
  <2>2. Later(e) \subseteq PartitionDates(Endpoint(e), Day(e)) /\ Later(e) \in SUBSET Nat
    BY <1>1, ItemIs, DayIs, DatesAre DEF Later
  <2>3. Least(Later(e)) \in Later(e)
    BY <2>2, <1>2, LeastIs
  <2>4. ~Merges(e)
    <3> SUFFICES ASSUME Merges(e) PROVE FALSE
      OBVIOUS
    <3>1. PartitionDates(Endpoint(e), Day(e)) = {Day(e)}
      BY OneDate, ItemIs DEF Merges
    <3>2. Least(Later(e)) = Day(e) /\ LogicalDate(e) = Day(e) /\ Least(Later(e)) > LogicalDate(e)
      BY <3>1, <2>2, <2>3, <1>1 DEF Later
    <3> QED BY <3>2, DayIs
  <2>5. Least(Later(e)) > item[e][2] /\ Least(Later(e)) \in Nat
    BY <2>2, <2>3 DEF Later, LogicalDate
  <2> QED
    BY <2>1, <2>2, <2>3, <2>4, <2>5, ItemIs DEF Endpoint
<1>3. CASE Later(e) = {}
  <2>1. item[e][1] # Len(Endpoints)
    BY <1>3 DEF LastItem
  <2>2. item[e][1] + 1 \in DOMAIN Endpoints
    BY <2>1, ItemIs, ManifestAssumption
  <2>3. Following(e) = FirstOf(e, item[e][1] + 1)
    BY <1>3 DEF Following
  <2> QED
    BY <2>2, <2>3, <1>1, FirstItem
<1> QED BY <1>2, <1>3

-----------------------------------------------------------------------------
(* Ingestion: what a step leaves alone.                                    *)

LEMMA SameItem ==
  ASSUME NEW e \in Exec, setting' = setting, item'[e] = item[e]
  PROVE /\ Day(e)' = Day(e) /\ Writes(e)' = Writes(e) /\ Endpoint(e)' = Endpoint(e)
        /\ LogicalDate(e)' = LogicalDate(e) /\ Merges(e)' = Merges(e) /\ ItemKey(e)' = ItemKey(e)
        /\ \A key : Passed(e, key)' = Passed(e, key)
  BY DEF Day, Writes, Endpoint, LogicalDate, Merges, ItemKey, Passed

LEMMA SameRows ==
  ASSUME NEW e \in Exec, setting' = setting, item'[e] = item[e], todo'[e] = todo[e]
  PROVE Key(e)' = Key(e) /\ Group(e)' = Group(e)
<1>1. LogicalDate(e)' = LogicalDate(e) /\ Merges(e)' = Merges(e) /\ ItemKey(e)' = ItemKey(e)
      /\ Endpoint(e)' = Endpoint(e)
  BY SameItem
<1>2. Period(e)' = Period(e)
  BY DEF Period
<1> QED
  BY <1>1, <1>2 DEF Key, Group, InGroup

\* A step of another execution.
Elsewhere(e) ==
  /\ setting' = setting /\ runs \subseteq runs'
  /\ \A f \in Exec \ {e} :
       /\ at'[f] = at[f] /\ item'[f] = item[f] /\ todo'[f] = todo[f]
       /\ raised'[f] = raised[f] /\ results'[f] = results[f] /\ published'[f] = published[f]
  /\ published[e] \subseteq published'[e]

LEMMA OthersStay ==
  ASSUME NEW e \in Exec, NEW f \in Exec \ {e}, Elsewhere(e), Placed(f), Ordered(f), Backed(f)
  PROVE Placed(f)' /\ Ordered(f)' /\ Backed(f)'
<1> USE DEF Elsewhere
<1>1. /\ at'[f] = at[f] /\ item'[f] = item[f] /\ todo'[f] = todo[f] /\ setting' = setting
      /\ raised'[f] = raised[f] /\ results'[f] = results[f] /\ published'[f] = published[f]
  OBVIOUS
<1>2. /\ Day(f)' = Day(f) /\ Writes(f)' = Writes(f) /\ Endpoint(f)' = Endpoint(f)
      /\ LogicalDate(f)' = LogicalDate(f) /\ Merges(f)' = Merges(f) /\ ItemKey(f)' = ItemKey(f)
      /\ \A key : Passed(f, key)' = Passed(f, key)
  BY <1>1, SameItem
<1>3. Key(f)' = Key(f)
  BY <1>1, SameRows
<1>4. Placed(f)'
  <2>1. DatesResolve(Day(f))' = DatesResolve(Day(f))
    BY <1>2 DEF DatesResolve
  <2>2. PartitionDates(Endpoint(f), Day(f))' = PartitionDates(Endpoint(f), Day(f))
    BY <1>2 DEF PartitionDates, OpenUpTo
  <2> QED
    BY <1>1, <1>2, <2>1, <2>2 DEF Placed
<1>5. Ordered(f)'
  BY <1>1, <1>2 DEF Ordered
<1>6. Current(f)' = Current(f)
  BY <1>1, <1>2 DEF Current
<1>7. Backed(f)'
  BY <1>1, <1>3, <1>6 DEF Backed
<1> QED BY <1>4, <1>5, <1>7

LEMMA StatusStays ==
  ASSUME NEW e \in Exec, Elsewhere(e), status' = status, StatusBacked
  PROVE StatusBacked'
<1>1. \A f \in Exec : published[f] \subseteq published'[f]
  BY DEF Elsewhere
<1>2. runs \subseteq runs'
  BY DEF Elsewhere
<1> QED
  BY <1>1, <1>2 DEF StatusBacked

\* What the invariant says of the execution that takes the step.
Held(e) ==
  /\ Placed(e) /\ Ordered(e) /\ Backed(e)
  /\ ~overlapped => Staged(e) /\ Accounted(e)

Kept(e) ==
  /\ Placed(e)' /\ Ordered(e)' /\ Backed(e)'
  /\ ~overlapped => Staged(e)' /\ Accounted(e)'

ControlTypes ==
  /\ at \in [Exec -> {"idle", "query", "ok", "failed", "killed"} \cup Writing \cup Recording]
  /\ item \in [Exec -> Nat \X Nat] /\ raised \in [Exec -> BOOLEAN]
  /\ results \in [Exec -> Seq(Result)]

LEMMA StepKeeps ==
  ASSUME IngestionInv, NEW e \in Exec, Elsewhere(e), IngestionTypeOK', Kept(e), Underway(e),
         last' = last, overlapped' = overlapped, StatusBacked', NoRowLost'
  PROVE IngestionInv'
<1>1. Alone'
  BY DEF IngestionInv, Alone, Underway, Elsewhere
<1>2. \A f \in Exec : Placed(f)' /\ Ordered(f)' /\ Backed(f)'
  BY OthersStay DEF IngestionInv, Kept
<1>3. ~overlapped => last = e
  BY DEF IngestionInv, Alone
<1>4. (~overlapped => \A f \in Exec : last = f => Staged(f) /\ Accounted(f))'
  BY <1>3 DEF Kept
<1> QED
  BY <1>1, <1>2, <1>4 DEF IngestionInv

LEMMA LostStays ==
  ASSUME NoRowLost, partition' = partition, published' = published, overlapped' = overlapped
  PROVE NoRowLost'
  BY DEF NoRowLost

LEMMA InvHolds ==
  ASSUME IngestionInv, NEW e \in Exec, Underway(e)
  PROVE IngestionTypeOK /\ Held(e)
  BY DEF IngestionInv, Held, Alone

\* The part of the control that the steps of e leave alone.
OthersControl(e) ==
  \A f \in Exec \ {e} : at'[f] = at[f] /\ item'[f] = item[f]
     /\ raised'[f] = raised[f] /\ results'[f] = results[f]

\* An execution that stays where it is.
LEMMA SameKeeps ==
  ASSUME NEW e \in Exec, Held(e), at[e] = "query", at' = at, item' = item, raised' = raised,
         results' = results, todo' = todo, setting' = setting, published' = published,
         runs' = runs, status' = status
  PROVE Kept(e)
<1>1. /\ Day(e)' = Day(e) /\ Writes(e)' = Writes(e) /\ Endpoint(e)' = Endpoint(e)
      /\ LogicalDate(e)' = LogicalDate(e) /\ Merges(e)' = Merges(e)
      /\ \A key : Passed(e, key)' = Passed(e, key)
  BY SameItem
<1>2. DatesResolve(Day(e))' = DatesResolve(Day(e))
      /\ PartitionDates(Endpoint(e), Day(e))' = PartitionDates(Endpoint(e), Day(e))
  BY <1>1 DEF DatesResolve, PartitionDates, OpenUpTo
<1>3. Placed(e)'
  BY <1>1, <1>2 DEF Held, Placed, Writing, Recording
<1>4. Ordered(e)' /\ Backed(e)' /\ Staged(e)'
  BY <1>1 DEF Held, Ordered, Backed, Staged, Writing, Recording
<1>5. ~overlapped => Accounted(e)'
  BY DEF Held, Accounted
<1> QED BY <1>3, <1>4, <1>5 DEF Kept

\* Writing off the plan, or giving up.
LEMMA RaiseKeeps ==
  ASSUME IngestionTypeOK, NEW e \in Exec, Held(e), at[e] \in {"query"} \cup Writing, Raise(e),
         setting' = setting, published' = published
  PROVE Kept(e) /\ ControlTypes' /\ OthersControl(e)
<1> USE DEF Writing, Recording
<1>1. CASE Writes(e)
  <2>1. /\ at' = [at EXCEPT ![e] = "insert"] /\ item' = [item EXCEPT ![e] = FirstOf(e, 1)]
        /\ raised' = [raised EXCEPT ![e] = TRUE] /\ results' = [results EXCEPT ![e] = <<>>]
    BY <1>1 DEF Raise, GoTo
  <2>2. DatesResolve(Day(e)) /\ 1 \in DOMAIN Endpoints
    BY ManifestAssumption DEF Held, Placed
  <2>3. FirstOf(e, 1) \in Nat \X Nat /\ FirstOf(e, 1)[1] = 1
        /\ FirstOf(e, 1)[2] \in PartitionDates(Endpoints[1], Day(e))
    BY <2>2, FirstItem
  <2>4. /\ at'[e] = "insert" /\ item'[e] = FirstOf(e, 1) /\ raised'[e] = TRUE /\ results'[e] = <<>>
    BY <2>1 DEF IngestionTypeOK
  <2>5. Placed(e)'
    <3>1. Day(e)' = Day(e) /\ Writes(e)' /\ DatesResolve(Day(e))' = DatesResolve(Day(e))
      BY <1>1 DEF Day, Writes, DatesResolve
    <3>2. Endpoint(e)' = Endpoints[1] /\ LogicalDate(e)' = FirstOf(e, 1)[2]
      BY <2>3, <2>4 DEF Endpoint, LogicalDate
    <3>3. PartitionDates(Endpoint(e), Day(e))' = PartitionDates(Endpoints[1], Day(e))
      BY <3>1, <3>2 DEF PartitionDates, OpenUpTo
    <3> QED
      BY <2>2, <2>3, <2>4, <3>1, <3>2, <3>3 DEF Placed
  <2>6. Ordered(e)' /\ Backed(e)' /\ Staged(e)' /\ Accounted(e)'
    BY <2>4 DEF Ordered, Backed, Staged, Accounted
  <2>7. ControlTypes' /\ OthersControl(e)
    BY <2>1, <2>3 DEF IngestionTypeOK, ControlTypes, OthersControl
  <2> QED
    BY <2>5, <2>6, <2>7 DEF Kept
<1>2. CASE ~Writes(e)
  <2>1. at' = [at EXCEPT ![e] = "failed"] /\ item' = item /\ raised' = raised /\ results' = results
    BY <1>2 DEF Raise, GoTo, outcomes
  <2>2. at'[e] = "failed" /\ Writes(e)' = Writes(e)
    BY <2>1 DEF IngestionTypeOK, Writes
  <2>3. Placed(e)' /\ Ordered(e)' /\ Backed(e)' /\ Staged(e)' /\ Accounted(e)'
    BY <2>1, <2>2, <1>2 DEF Held, Placed, Ordered, Backed, Staged, Accounted
  <2>4. ControlTypes' /\ OthersControl(e)
    BY <2>1 DEF IngestionTypeOK, ControlTypes, OthersControl
  <2> QED
    BY <2>3, <2>4 DEF Kept
<1> QED BY <1>1, <1>2

\* The end of an execution by a failure or from outside.
LEMMA EndKeeps ==
  ASSUME IngestionTypeOK, NEW e \in Exec, Held(e), NEW where \in {"failed", "killed"},
         at[e] # "idle", GoTo(e, where), setting' = setting, published' = published,
         item' = item, raised' = raised, results' = results
  PROVE Kept(e) /\ ControlTypes' /\ OthersControl(e)
<1> USE DEF Writing, Recording
<1>1. at' = [at EXCEPT ![e] = where] /\ at'[e] = where
  BY DEF IngestionTypeOK, GoTo
<1>2. Writes(e)' = Writes(e)
  BY DEF Writes
<1>3. Placed(e)' /\ Ordered(e)' /\ Backed(e)' /\ Staged(e)' /\ Accounted(e)'
  BY <1>1, <1>2 DEF Held, Placed, Ordered, Backed, Staged, Accounted
<1>4. ControlTypes' /\ OthersControl(e)
  BY <1>1 DEF IngestionTypeOK, ControlTypes, OthersControl
<1> QED
  BY <1>3, <1>4 DEF Kept

\* To the next item, or past the last one.
LEMMA NextItemKeeps ==
  ASSUME IngestionTypeOK, NEW e \in Exec, Held(e), at[e] \in {"query"} \cup Writing, NextItem(e),
         setting' = setting, published' = published, raised' = raised,
         results' \in [Exec -> Seq(Result)],
         \A f \in Exec \ {e} : results'[f] = results[f],
         Writes(e) => results'[e] # <<>>,
         \A i \in DOMAIN results'[e] : results'[e][i].status = "empty_return" =>
            /\ Covered(e, results'[e][i].key)
            /\ \A p \in published[e] : results'[e][i].key # p.key,
         \A i \in DOMAIN results'[e] :
            results'[e][i].status = "success" => \E p \in published[e] : p.key = results'[e][i].key,
         ~overlapped => \A p \in published[e] :
            \/ status'[p.key] = [status |-> "success", by |-> e]
            \/ \E i \in DOMAIN results'[e] : results'[e][i] = Outcome(p.key, "success")
  PROVE Kept(e) /\ ControlTypes' /\ OthersControl(e)
<1> USE DEF Writing, Recording
<1>w. Walks(e) /\ Placed(e) /\ ~raised[e] /\ ~raised'[e]
  BY DEF Walks, Held, Placed
<1>p. \A p \in published[e] : Covered(e, p.key)
  BY DEF Held, Ordered, Covered
<1>d. DatesResolve(Day(e))' /\ DatesResolve(Day(e)) /\ Day(e)' = Day(e) /\ Writes(e)' = Writes(e)
  BY <1>w DEF Placed, Walks, Day, DatesResolve, Writes
<1>e. published'[e] = published[e]
  OBVIOUS
<1>1. CASE ~LastItem(e)
  <2>1. at' = [at EXCEPT ![e] = "query"] /\ item' = [item EXCEPT ![e] = Following(e)]
    BY <1>1 DEF NextItem, GoTo
  <2>2. at'[e] = "query" /\ item'[e] = Following(e)
    BY <2>1 DEF IngestionTypeOK
  <2>3. /\ Following(e) \in Nat \X Nat /\ Following(e)[1] \in DOMAIN Endpoints
        /\ Following(e)[2] \in PartitionDates(Endpoints[Following(e)[1]], Day(e))
        /\ \/ Following(e)[1] = item[e][1] /\ Following(e)[2] > item[e][2] /\ ~Merges(e)
           \/ Following(e)[1] = item[e][1] + 1
    BY <1>1, <1>w, FollowingIs
  <2>4. Endpoint(e)' = Endpoints[Following(e)[1]] /\ LogicalDate(e)' = Following(e)[2]
        /\ Merges(e)' = (Semantics[Endpoints[Following(e)[1]]] = "report_period")
    BY <2>2 DEF Endpoint, LogicalDate, Merges
  <2>5. PartitionDates(Endpoint(e), Day(e))' = PartitionDates(Endpoints[Following(e)[1]], Day(e))
    BY <1>d, <2>4 DEF PartitionDates, OpenUpTo
  <2>6. Placed(e)'
    BY <1>d, <1>w, <1>e, <2>2, <2>3, <2>4, <2>5 DEF Placed, Held
  <2>7. ASSUME NEW key \in Keys, Covered(e, key) PROVE Passed(e, key)'
    <3> DEFINE i == item[e][1]
    <3>1. i \in Nat /\ i >= 1 /\ Endpoint(e) = Endpoints[i]
          /\ LogicalDate(e) = item[e][2] /\ LogicalDate(e) \in Nat
      BY <1>w, ItemIs, IndexIs DEF Endpoint, LogicalDate
    <3>2. CASE Passed(e, key)
      <4>1. PICK j \in 1 .. i : key[1] = Endpoints[j]
                   /\ (j = i => ~Merges(e) /\ key[2] < LogicalDate(e))
        BY <3>2 DEF Passed
      <4>2. \/ item'[e][1] = i + 1
            \/ item'[e][1] = i /\ ~Merges(e)' /\ LogicalDate(e)' > LogicalDate(e)
        BY <2>2, <2>3, <2>4, <3>1 DEF Merges, Endpoint
      <4>3. LogicalDate(e)' \in Nat
        BY <2>3, <2>4
      <4>4. key[2] < LogicalDate(e) => key[2] < LogicalDate(e)' \/ item'[e][1] = i + 1
        BY <3>1, <4>2, <4>3, KeyDates
      <4>5. j \in 1 .. item'[e][1]
        BY <3>1, <4>2
      <4>6. j = item'[e][1] => ~Merges(e)' /\ key[2] < LogicalDate(e)'
        BY <3>1, <4>1, <4>2, <4>4
      <4> QED
        BY <4>1, <4>5, <4>6 DEF Passed
    <3>3. CASE key[1] = Endpoint(e) /\ (Merges(e) \/ key = ItemKey(e))
      <4>1. \/ item'[e][1] = i + 1
            \/ item'[e][1] = i /\ ~Merges(e) /\ ~Merges(e)' /\ LogicalDate(e)' > LogicalDate(e)
        BY <2>2, <2>3, <2>4, <3>1 DEF Merges, Endpoint
      <4>2. i \in 1 .. item'[e][1]
        BY <3>1, <4>1
      <4>3. i = item'[e][1] => ~Merges(e)' /\ key[2] < LogicalDate(e)'
        BY <3>1, <3>3, <4>1 DEF ItemKey
      <4> QED
        BY <3>1, <3>3, <4>2, <4>3 DEF Passed
    <3> QED BY <2>7, <3>2, <3>3 DEF Covered
  <2>8. Ordered(e)'
    <3>1. \A p \in published[e] : p.key \in Keys
      BY DEF IngestionTypeOK
    <3>2. \A i \in DOMAIN results'[e] : results'[e][i].key \in Keys
      BY ResultsAre
    <3> QED
      BY <1>p, <1>e, <2>2, <2>7, <3>1, <3>2 DEF Ordered
  <2>9. Backed(e)' /\ Staged(e)' /\ (~overlapped => Accounted(e)')
    BY <1>e, <2>2 DEF Backed, Staged, Accounted
  <2>10. ControlTypes' /\ OthersControl(e)
    BY <2>1, <2>3 DEF IngestionTypeOK, ControlTypes, OthersControl
  <2> QED
    BY <2>6, <2>8, <2>9, <2>10 DEF Kept
<1>2. CASE LastItem(e)
  <2>1. PICK where \in {"insert", "ok"} :
           at' = [at EXCEPT ![e] = where] /\ where = (IF Writes(e) THEN "insert" ELSE "ok")
    BY <1>2 DEF NextItem, GoTo
  <2>2. at'[e] = where /\ item' = item
    BY <1>2, <2>1 DEF IngestionTypeOK, NextItem
  <2>3. Placed(e)'
    <3>1. Endpoint(e)' = Endpoint(e) /\ LogicalDate(e)' = LogicalDate(e)
      BY <2>2, SameItem
    <3>2. PartitionDates(Endpoint(e), Day(e))' = PartitionDates(Endpoint(e), Day(e))
      BY <1>d, <3>1 DEF PartitionDates, OpenUpTo
    <3> QED
      BY <1>d, <1>w, <1>e, <2>1, <2>2, <3>1, <3>2 DEF Placed, Held, Walks
  <2>4. Ordered(e)' /\ Backed(e)' /\ Staged(e)' /\ (~overlapped => Accounted(e)')
    BY <1>e, <2>1, <2>2 DEF Ordered, Backed, Staged, Accounted
  <2>5. ControlTypes' /\ OthersControl(e)
    BY <2>1, <2>2 DEF IngestionTypeOK, ControlTypes, OthersControl
  <2> QED
    BY <2>3, <2>4, <2>5 DEF Kept
<1> QED BY <1>1, <1>2

-----------------------------------------------------------------------------
(* Ingestion: every step keeps the invariant.                              *)

\* What the steps that neither publish nor record leave as it is.
Quiet(e) ==
  /\ setting' = setting /\ published' = published /\ partition' = partition
  /\ runs' = runs /\ status' = status /\ last' = last /\ overlapped' = overlapped
  /\ \A f \in Exec \ {e} : todo'[f] = todo[f]

LEMMA QuietKeeps ==
  ASSUME IngestionInv, NEW e \in Exec, Quiet(e), OthersControl(e), IngestionTypeOK', Kept(e),
         Underway(e)
  PROVE IngestionInv'
<1>1. Elsewhere(e)
  BY DEF Quiet, OthersControl, Elsewhere
<1>2. StatusBacked' /\ NoRowLost'
  BY <1>1, StatusStays, LostStays DEF IngestionInv, Quiet
<1> QED
  BY <1>1, <1>2, StepKeeps DEF Quiet

LEMMA FetchTypes ==
  ASSUME IngestionTypeOK, NEW e \in Exec, Placed(e), at[e] = "query"
  PROVE PageRows(e) \in SUBSET DOMAIN EndDate
        /\ fetched[e] \cup PageRows(e) \in SUBSET DOMAIN EndDate
<1>1. Endpoint(e) \in Names /\ LogicalDate(e) \in Days
  BY ItemIs DEF Walks
<1>2. SourceRows(e) \in 0 .. Len(EndDate)
  BY <1>1, SourceAssumption DEF SourceRows, IngestionTypeOK
<1>3. DOMAIN EndDate = 1 .. Len(EndDate) /\ Len(EndDate) \in Nat
  BY SourceAssumption
<1>4. PageRows(e) \subseteq 1 .. SourceRows(e)
  BY DEF PageRows
<1> QED
  BY <1>2, <1>3, <1>4 DEF IngestionTypeOK

LEMMA PageFailsKeeps ==
  ASSUME IngestionInv, NEW e \in Exec, PageFails(e)
  PROVE IngestionInv'
<1> USE DEF PageFails, writing, storage, tables, world, history, outcomes
<1>1. IngestionTypeOK /\ Held(e) /\ Underway(e)
  BY InvHolds DEF Underway
<1>2. Quiet(e)
  BY DEF Quiet
<1>3. CASE tries[e] < MaxRetries /\ tries' = [tries EXCEPT ![e] = @ + 1]
           /\ UNCHANGED <<at, item, outcomes>>
  <2>1. IngestionTypeOK'
    BY <1>1, <1>3 DEF IngestionTypeOK
  <2>2. Kept(e)
    BY <1>1, <1>3, SameKeeps DEF Quiet
  <2>3. OthersControl(e)
    BY <1>3 DEF OthersControl
  <2> QED BY <1>1, <1>2, <2>1, <2>2, <2>3, QuietKeeps
<1>4. CASE Raise(e) /\ UNCHANGED tries
  <2>1. Kept(e) /\ ControlTypes' /\ OthersControl(e)
    BY <1>1, <1>4, RaiseKeeps
  <2>2. IngestionTypeOK'
    BY <1>1, <1>4, <2>1 DEF IngestionTypeOK, ControlTypes
  <2> QED BY <1>1, <1>2, <2>1, <2>2, QuietKeeps
<1> QED BY <1>3, <1>4

LEMMA PageReadKeeps ==
  ASSUME IngestionInv, NEW e \in Exec, PageRead(e)
  PROVE IngestionInv'
<1> USE DEF storage, tables, world, history, outcomes
<1> DEFINE all == fetched[e] \cup PageRows(e)
<1>1. IngestionTypeOK /\ Held(e) /\ Underway(e) /\ at[e] = "query"
  BY InvHolds DEF Underway, PageRead
<1>2. /\ tries' = [tries EXCEPT ![e] = 0] /\ base' = base /\ partition' = partition
      /\ staging' = staging /\ published' = published /\ runs' = runs /\ status' = status
      /\ setting' = setting /\ last' = last /\ overlapped' = overlapped
  BY DEF PageRead
<1>3. all \in SUBSET DOMAIN EndDate
  BY <1>1, FetchTypes DEF Held
<1>w. Walks(e) /\ Placed(e)
  BY <1>1 DEF Walks, Held
<1>4. CASE Raise(e) /\ UNCHANGED <<page, fetched, todo>>
  <2>1. Kept(e) /\ ControlTypes' /\ OthersControl(e)
    BY <1>1, <1>2, <1>4, RaiseKeeps
  <2>2. IngestionTypeOK'
    BY <1>1, <1>2, <1>4, <2>1 DEF IngestionTypeOK, ControlTypes
  <2>3. Quiet(e)
    BY <1>2, <1>4 DEF Quiet
  <2> QED BY <1>1, <2>1, <2>2, <2>3, QuietKeeps
<1>5. CASE /\ page' = [page EXCEPT ![e] = @ + 1] /\ fetched' = [fetched EXCEPT ![e] = all]
           /\ UNCHANGED <<at, item, todo, outcomes>>
  <2>1. IngestionTypeOK'
    <3>1. page' \in [Exec -> Nat] /\ fetched' \in [Exec -> SUBSET DOMAIN EndDate]
      BY <1>1, <1>3, <1>5 DEF IngestionTypeOK
    <3> QED BY <1>1, <1>2, <1>5, <3>1 DEF IngestionTypeOK
  <2>2. Kept(e)
    BY <1>1, <1>2, <1>5, SameKeeps
  <2>3. OthersControl(e) /\ Quiet(e)
    BY <1>2, <1>5 DEF OthersControl, Quiet
  <2> QED BY <1>1, <2>1, <2>2, <2>3, QuietKeeps
<1>6. CASE all = {} /\ Received(e, all)
  <2>1. /\ results' = [results EXCEPT ![e] = Append(@, Outcome(ItemKey(e), "empty_return"))]
        /\ NextItem(e) /\ todo' = todo /\ raised' = raised
    BY <1>6 DEF Received
  <2>2. PICK o \in Result : o = Outcome(ItemKey(e), "empty_return")
    BY <1>1, <1>w, ItemIs DEF Outcome, Result
  <2>3. results[e] \in Seq(Result) /\ results'[e] = Append(results[e], o)
        /\ results' \in [Exec -> Seq(Result)]
        /\ \A f \in Exec \ {e} : results'[f] = results[f]
    BY <1>1, <2>1, <2>2 DEF IngestionTypeOK
  <2>4. results'[e] # <<>> /\ DOMAIN results'[e] = 1 .. Len(results[e]) + 1
        /\ DOMAIN results[e] = 1 .. Len(results[e]) /\ Len(results[e]) \in Nat
        /\ results'[e][Len(results[e]) + 1] = o
        /\ \A i \in DOMAIN results[e] : results'[e][i] = results[e][i]
    BY <2>2, <2>3
  <2>5. Kept(e) /\ ControlTypes' /\ OthersControl(e)
    <3>1. o.key = ItemKey(e) /\ o.status = "empty_return"
      BY <2>2 DEF Outcome
    <3>2. \A p \in published[e] : o.key # p.key
      <4>1. \A p \in published[e] : Passed(e, p.key)
        BY <1>1 DEF Held, Ordered
      <4>2. ~Passed(e, ItemKey(e))
        BY <1>1, <1>w, NotPassed DEF ItemKey
      <4> QED BY <3>1, <4>1, <4>2
    <3>3. \A i \in DOMAIN results'[e] : i \in DOMAIN results[e] \/ results'[e][i] = o
      BY <2>4
    <3>4. \A i \in DOMAIN results'[e] : results'[e][i].status = "empty_return" =>
            /\ Covered(e, results'[e][i].key)
            /\ \A p \in published[e] : results'[e][i].key # p.key
      <4>1. Covered(e, ItemKey(e))
        BY DEF Covered, ItemKey
      <4>2. \A i \in DOMAIN results[e] : results[e][i].status = "empty_return" =>
              Passed(e, results[e][i].key) /\ \A p \in published[e] : results[e][i].key # p.key
        BY <1>1 DEF Held, Ordered
      <4> QED BY <2>4, <3>1, <3>2, <3>3, <4>1, <4>2 DEF Covered
    <3>5. \A i \in DOMAIN results'[e] : results'[e][i].status = "success" =>
            \E p \in published[e] : p.key = results'[e][i].key
      BY <1>1, <2>4, <3>1, <3>3 DEF Held, Backed
    <3>6. ~overlapped => \A p \in published[e] :
            \/ status'[p.key] = [status |-> "success", by |-> e]
            \/ \E i \in DOMAIN results'[e] : results'[e][i] = Outcome(p.key, "success")
      <4>1. ~raised[e]
        BY <1>1, <1>w DEF Placed
      <4>2. ~overlapped => \A p \in published[e] :
            \/ status[p.key] = [status |-> "success", by |-> e]
            \/ \E i \in DOMAIN results[e] : results[e][i] = Outcome(p.key, "success")
        BY <1>1, <4>1 DEF Held, Accounted
      <4>3. DOMAIN results[e] \subseteq DOMAIN results'[e]
        BY <2>4
      <4> QED BY <1>2, <2>4, <4>2, <4>3
    <3> QED
      BY <1>1, <1>2, <2>1, <2>3, <2>4, <3>4, <3>5, <3>6, NextItemKeeps
  <2>6. IngestionTypeOK'
    BY <1>1, <1>2, <2>1, <2>5 DEF IngestionTypeOK, ControlTypes, NextItem
  <2>7. Quiet(e)
    BY <1>2, <2>1 DEF Quiet
  <2> QED BY <1>1, <2>5, <2>6, <2>7, QuietKeeps
<1>7. CASE all # {} /\ Writes(e) /\ Received(e, all)
  <2>1. /\ todo' = [todo EXCEPT ![e] = all] /\ fetched' = [fetched EXCEPT ![e] = all]
        /\ page' = page /\ item' = item /\ raised' = raised /\ results' = results
    BY <1>7 DEF Received
  <2>2. PICK where \in {"read", "stage"} :
           at' = [at EXCEPT ![e] = where] /\ where = (IF Merges(e) THEN "read" ELSE "stage")
    BY <1>7 DEF Received, GoTo
  <2>3. at'[e] = where /\ todo'[e] = all
    BY <1>1, <2>1, <2>2 DEF IngestionTypeOK
  <2>4. IngestionTypeOK'
    BY <1>1, <1>2, <1>3, <2>1, <2>2 DEF IngestionTypeOK, Writing
  <2>5. OthersControl(e) /\ Quiet(e)
    BY <1>2, <2>1, <2>2 DEF OthersControl, Quiet
  <2>6. Kept(e)
    <3>1. /\ Day(e)' = Day(e) /\ Writes(e)' = Writes(e) /\ Endpoint(e)' = Endpoint(e)
          /\ LogicalDate(e)' = LogicalDate(e) /\ Merges(e)' = Merges(e) /\ ItemKey(e)' = ItemKey(e)
          /\ \A key : Passed(e, key)' = Passed(e, key)
      BY <1>2, <2>1, SameItem
    <3>2. DatesResolve(Day(e))' = DatesResolve(Day(e))
          /\ PartitionDates(Endpoint(e), Day(e))' = PartitionDates(Endpoint(e), Day(e))
      BY <3>1 DEF DatesResolve, PartitionDates, OpenUpTo
    <3>3. Placed(e)'
      BY <1>1, <1>w, <1>2, <1>7, <2>1, <2>2, <2>3, <3>1, <3>2 DEF Placed, Walks, Writing, Recording
    <3>4. Ordered(e)'
      BY <1>1, <1>2, <2>1, <2>2, <2>3, <3>1 DEF Held, Ordered, Writing
    <3>5. Backed(e)'
      BY <1>1, <1>2, <2>1, <2>2, <2>3 DEF Held, Backed
    <3>6. Staged(e)'
      BY <2>2, <2>3, <3>1 DEF Staged
    <3>7. ~overlapped => Accounted(e)'
      BY <1>1, <1>2, <2>1, <2>2, <2>3 DEF Held, Accounted, Writing
    <3> QED BY <3>3, <3>4, <3>5, <3>6, <3>7 DEF Kept
  <2> QED BY <1>1, <2>4, <2>5, <2>6, QuietKeeps
<1>8. CASE all # {} /\ ~Writes(e) /\ Received(e, all)
  <2>1. NextItem(e) /\ todo' = todo /\ raised' = raised /\ results' = results
    BY <1>8 DEF Received
  <2>2. published[e] = {}
    BY <1>8, <1>w DEF Placed
  <2>3. Kept(e) /\ ControlTypes' /\ OthersControl(e)
    <3>1. \A i \in DOMAIN results'[e] : results'[e][i].status = "empty_return" =>
            Covered(e, results'[e][i].key)
      BY <1>1, <2>1 DEF Held, Ordered, Covered
    <3>2. \A i \in DOMAIN results'[e] : results'[e][i].status = "success" =>
            \E p \in published[e] : p.key = results'[e][i].key
      BY <1>1, <2>1 DEF Held, Backed
    <3>3. results' \in [Exec -> Seq(Result)]
      BY <1>1, <2>1 DEF IngestionTypeOK
    <3> QED
      BY <1>1, <1>2, <1>8, <2>1, <2>2, <3>1, <3>2, <3>3, NextItemKeeps
  <2>4. IngestionTypeOK'
    BY <1>1, <1>2, <2>1, <2>3 DEF IngestionTypeOK, ControlTypes, NextItem
  <2>5. Quiet(e)
    BY <1>2, <2>1 DEF Quiet
  <2> QED BY <1>1, <2>3, <2>4, <2>5, QuietKeeps
<1> QED
  BY <1>4, <1>5, <1>6, <1>7, <1>8 DEF PageRead, Received

\* What all the steps that write have in common.
LEMMA WritingIs ==
  ASSUME IngestionInv, NEW e \in Exec, at[e] \in Writing
  PROVE /\ IngestionTypeOK /\ Held(e) /\ Underway(e) /\ Walks(e) /\ Placed(e) /\ Writes(e)
        /\ todo[e] # {} /\ ~raised[e] /\ Key(e) \in Keys /\ Key(e)[1] = Endpoint(e)
        /\ (~Merges(e) => Key(e) = ItemKey(e)) /\ Group(e) \in SUBSET (Nat \X Nat)
<1>1. IngestionTypeOK /\ Held(e) /\ Underway(e)
  BY InvHolds DEF Underway, Writing
<1>2. Walks(e) /\ Placed(e) /\ Writes(e) /\ todo[e] # {} /\ ~raised[e]
  BY <1>1 DEF Walks, Held, Placed
<1> QED BY <1>1, <1>2, KeyIs

\* On to the next step of a partition.
LEMMA OnwardKeeps ==
  ASSUME IngestionInv, NEW e \in Exec, at[e] \in Writing \ {"unstage"},
         NEW where \in {"stage", "verify", "publish"}, GoTo(e, where),
         item' = item, raised' = raised, results' = results, todo' = todo, setting' = setting,
         published' = published, runs' = runs, status' = status
  PROVE /\ Placed(e)' /\ Ordered(e)' /\ Backed(e)' /\ (~overlapped => Accounted(e)')
        /\ ControlTypes' /\ OthersControl(e) /\ at'[e] = where
        /\ Key(e)' = Key(e) /\ Group(e)' = Group(e) /\ Merges(e)' = Merges(e)
<1> USE DEF Writing, Recording
<1>1. at' = [at EXCEPT ![e] = where] /\ at'[e] = where
  BY DEF GoTo, IngestionInv, IngestionTypeOK
<1>2. /\ Day(e)' = Day(e) /\ Writes(e)' = Writes(e) /\ Endpoint(e)' = Endpoint(e)
      /\ LogicalDate(e)' = LogicalDate(e) /\ Merges(e)' = Merges(e) /\ ItemKey(e)' = ItemKey(e)
      /\ \A key : Passed(e, key)' = Passed(e, key)
  BY SameItem
<1>3. DatesResolve(Day(e))' = DatesResolve(Day(e))
      /\ PartitionDates(Endpoint(e), Day(e))' = PartitionDates(Endpoint(e), Day(e))
  BY <1>2 DEF DatesResolve, PartitionDates, OpenUpTo
<1>4. Held(e) /\ IngestionTypeOK
  BY WritingIs
<1>5. Placed(e)'
  BY <1>1, <1>2, <1>3, <1>4 DEF Held, Placed
<1>6. Ordered(e)' /\ Backed(e)' /\ (~overlapped => Accounted(e)')
  BY <1>1, <1>2, <1>4 DEF Held, Ordered, Backed, Accounted
<1>7. ControlTypes' /\ OthersControl(e)
  BY <1>1, <1>4 DEF IngestionTypeOK, ControlTypes, OthersControl
<1>8. Key(e)' = Key(e) /\ Group(e)' = Group(e)
  BY SameRows
<1> QED BY <1>1, <1>2, <1>5, <1>6, <1>7, <1>8

LEMMA ReadExistingKeeps ==
  ASSUME IngestionInv, NEW e \in Exec, ReadExisting(e)
  PROVE IngestionInv'
<1> USE DEF ReadExisting, reading, storage, tables, world, history, outcomes
<1>1. IngestionTypeOK /\ Underway(e) /\ Key(e) \in Keys
  BY WritingIs DEF Writing
<1>2. /\ Placed(e)' /\ Ordered(e)' /\ Backed(e)' /\ (~overlapped => Accounted(e)')
      /\ ControlTypes' /\ OthersControl(e) /\ at'[e] = "stage" /\ Key(e)' = Key(e)
  BY OnwardKeeps DEF Writing
<1>3. base'[e] = partition[Key(e)] /\ base' \in [Exec -> SUBSET (Nat \X Nat)]
  BY <1>1 DEF IngestionTypeOK
<1>4. Staged(e)'
  BY <1>2, <1>3 DEF Staged
<1>5. IngestionTypeOK'
  BY <1>1, <1>2, <1>3 DEF IngestionTypeOK, ControlTypes
<1>6. Quiet(e)
  BY DEF Quiet
<1> QED BY <1>1, <1>2, <1>4, <1>5, <1>6, QuietKeeps DEF Kept

LEMMA StageKeeps ==
  ASSUME IngestionInv, NEW e \in Exec, Stage(e)
  PROVE IngestionInv'
<1> USE DEF Stage, reading, writing, tables, world, history, outcomes
<1>1. IngestionTypeOK /\ Underway(e) /\ Key(e) \in Keys /\ Held(e)
      /\ Group(e) \in SUBSET (Nat \X Nat)
  BY WritingIs DEF Writing
<1>2. /\ Placed(e)' /\ Ordered(e)' /\ Backed(e)' /\ (~overlapped => Accounted(e)')
      /\ ControlTypes' /\ OthersControl(e) /\ at'[e] = "verify" /\ Key(e)' = Key(e)
      /\ Group(e)' = Group(e) /\ Merges(e)' = Merges(e)
  BY OnwardKeeps DEF Writing
<1>3. staging'[Key(e)] = base[e] \cup Group(e)
      /\ staging' \in [Keys -> SUBSET (Nat \X Nat)]
  BY <1>1 DEF IngestionTypeOK
<1>4. ~overlapped => Staged(e)'
  BY <1>1, <1>2, <1>3 DEF Staged, Held
<1>5. IngestionTypeOK'
  BY <1>1, <1>2, <1>3 DEF IngestionTypeOK, ControlTypes
<1>6. Quiet(e)
  BY DEF Quiet
<1> QED BY <1>1, <1>2, <1>4, <1>5, <1>6, QuietKeeps DEF Kept

\* A step that writes the plan off.
LEMMA RaisingKeeps ==
  ASSUME IngestionInv, NEW e \in Exec, at[e] \in Writing, Raise(e),
         UNCHANGED <<page, tries, fetched, todo, base, partition, published, runs, status,
                     setting, last, overlapped>>,
         staging' \in [Keys -> SUBSET (Nat \X Nat)]
  PROVE IngestionInv'
<1>1. IngestionTypeOK /\ Held(e) /\ Underway(e)
  BY WritingIs
<1>2. Kept(e) /\ ControlTypes' /\ OthersControl(e)
  BY <1>1, RaiseKeeps
<1>3. IngestionTypeOK'
  BY <1>1, <1>2 DEF IngestionTypeOK, ControlTypes
<1>4. Quiet(e)
  BY DEF Quiet
<1> QED BY <1>1, <1>2, <1>3, <1>4, QuietKeeps

LEMMA VerifyKeeps ==
  ASSUME IngestionInv, NEW e \in Exec, Verify(e)
  PROVE IngestionInv'
<1> USE DEF Verify, reading, writing, tables, world, history, outcomes
<1>1. IngestionTypeOK /\ Underway(e) /\ Key(e) \in Keys /\ Held(e)
  BY WritingIs DEF Writing
<1>2. CASE GoTo(e, "publish") /\ UNCHANGED <<item, outcomes, staging>>
  <2>1. /\ Placed(e)' /\ Ordered(e)' /\ Backed(e)' /\ (~overlapped => Accounted(e)')
        /\ ControlTypes' /\ OthersControl(e) /\ at'[e] = "publish" /\ Key(e)' = Key(e)
        /\ Group(e)' = Group(e) /\ Merges(e)' = Merges(e)
    BY <1>2, OnwardKeeps DEF Writing
  <2>2. ~overlapped => Staged(e)'
    BY <1>1, <1>2, <2>1 DEF Staged, Held
  <2>3. IngestionTypeOK'
    BY <1>1, <1>2, <2>1 DEF IngestionTypeOK, ControlTypes
  <2>4. Quiet(e)
    BY DEF Quiet
  <2> QED BY <1>1, <2>1, <2>2, <2>3, <2>4, QuietKeeps DEF Kept
<1>3. CASE Raise(e) /\ staging' = [staging EXCEPT ![Key(e)] = Missing]
  <2>1. staging' \in [Keys -> SUBSET (Nat \X Nat)]
    BY <1>1, <1>3 DEF IngestionTypeOK, Missing
  <2> QED BY <1>3, <2>1, RaisingKeeps DEF Writing
<1> QED BY <1>2, <1>3

LEMMA StorageFailsKeeps ==
  ASSUME IngestionInv, NEW e \in Exec, StorageFails(e)
  PROVE IngestionInv'
<1> USE DEF StorageFails, reading, writing, storage, tables, world, history
<1>1. staging' \in [Keys -> SUBSET (Nat \X Nat)]
  BY DEF IngestionInv, IngestionTypeOK
<1> QED BY <1>1, RaisingKeeps DEF Writing

LEMMA PublishKeeps ==
  ASSUME IngestionInv, NEW e \in Exec, Publish(e)
  PROVE IngestionInv'
<1> USE DEF reading, writing, tables, world, history, outcomes
<1>1. /\ IngestionTypeOK /\ Held(e) /\ Underway(e) /\ Walks(e) /\ Placed(e) /\ Writes(e)
      /\ todo[e] # {} /\ ~raised[e] /\ Key(e) \in Keys /\ Key(e)[1] = Endpoint(e)
      /\ (~Merges(e) => Key(e) = ItemKey(e)) /\ Group(e) \in SUBSET (Nat \X Nat)
  BY WritingIs DEF Writing, Publish
<1>2. CASE Raise(e) /\ UNCHANGED <<partition, published>>
  <2>1. staging' \in [Keys -> SUBSET (Nat \X Nat)]
    BY <1>1 DEF IngestionTypeOK, Publish
  <2> QED BY <1>2, <2>1, RaisingKeeps DEF Writing, Publish
<1>3. CASE /\ partition' = [partition EXCEPT ![Key(e)] = staging[Key(e)]]
           /\ published' = [published EXCEPT ![e] = @ \cup {[key |-> Key(e), rows |-> Group(e)]}]
           /\ GoTo(e, "unstage") /\ UNCHANGED <<item, outcomes>>
  <2>1. PICK new \in [key : Keys, rows : SUBSET (Nat \X Nat)] :
           new = [key |-> Key(e), rows |-> Group(e)]
    BY <1>1
  <2>2. new.key = Key(e) /\ new.rows = Group(e)
    BY <2>1
  <2>3. /\ published' = [published EXCEPT ![e] = published[e] \cup {new}]
        /\ published'[e] = published[e] \cup {new}
        /\ published' \in [Exec -> SUBSET [key : Keys, rows : SUBSET (Nat \X Nat)]]
        /\ \A f \in Exec \ {e} : published'[f] = published[f]
    BY <1>1, <1>3, <2>1 DEF IngestionTypeOK
  <2>4. /\ at' = [at EXCEPT ![e] = "unstage"] /\ at'[e] = "unstage" /\ item' = item
        /\ raised' = raised /\ results' = results /\ todo' = todo /\ setting' = setting
        /\ runs' = runs /\ status' = status /\ at[e] = "publish"
    BY <1>1, <1>3 DEF Publish, GoTo, IngestionTypeOK
  <2>5. /\ Day(e)' = Day(e) /\ Writes(e)' = Writes(e) /\ Endpoint(e)' = Endpoint(e)
        /\ LogicalDate(e)' = LogicalDate(e) /\ Merges(e)' = Merges(e) /\ ItemKey(e)' = ItemKey(e)
        /\ Key(e)' = Key(e) /\ \A key : Passed(e, key)' = Passed(e, key)
    BY <2>4, SameItem, SameRows
  <2>6. DatesResolve(Day(e))' = DatesResolve(Day(e))
        /\ PartitionDates(Endpoint(e), Day(e))' = PartitionDates(Endpoint(e), Day(e))
    BY <2>5 DEF DatesResolve, PartitionDates, OpenUpTo
  <2>7. Placed(e)'
    BY <1>1, <2>4, <2>5, <2>6 DEF Placed, Walks, Writing, Recording
  <2>8. Ordered(e)'
    <3>1. Merges(e) \/ Key(e) = ItemKey(e)
      BY <1>1
    <3>2. ~Passed(e, Key(e))
      BY <1>1, <3>1, NotPassed
    <3>3. \A p \in published'[e] :
            Passed(e, p.key) \/ (p.key[1] = Endpoint(e) /\ (Merges(e) \/ p.key = ItemKey(e)))
      BY <1>1, <2>2, <2>3, <2>4, <3>1 DEF Held, Ordered, Writing
    <3>4. \A i \in DOMAIN results[e] :
            results[e][i].status = "empty_return" => Passed(e, results[e][i].key)
      BY <1>1, <2>4 DEF Held, Ordered, Writing
    <3>5. \A i \in DOMAIN results[e], p \in published'[e] :
            results[e][i].status = "empty_return" => results[e][i].key # p.key
      BY <1>1, <2>2, <2>3, <3>2, <3>4 DEF Held, Ordered
    <3> QED
      BY <2>4, <2>5, <3>3, <3>4, <3>5 DEF Ordered, Writing
  <2>9. Backed(e)'
    BY <1>1, <2>2, <2>3, <2>4, <2>5 DEF Held, Backed
  <2>10. Staged(e)'
    BY <2>4 DEF Staged
  <2>11. ~overlapped => Accounted(e)'
    <3>1. ~overlapped => \A p \in published[e] :
            \/ status[p.key] = [status |-> "success", by |-> e]
            \/ \E i \in DOMAIN results[e] : results[e][i] = Outcome(p.key, "success")
      BY <1>1, <2>4 DEF Held, Accounted, Writing
    <3> QED
      BY <2>2, <2>3, <2>4, <2>5, <3>1 DEF Accounted
  <2>12. ControlTypes' /\ OthersControl(e)
    BY <1>1, <2>4 DEF IngestionTypeOK, ControlTypes, OthersControl, Writing
  <2>13. /\ partition' \in [Keys -> SUBSET (Nat \X Nat)]
         /\ partition'[Key(e)] = staging[Key(e)]
         /\ \A k \in Keys \ {Key(e)} : partition'[k] = partition[k]
    BY <1>1, <1>3 DEF IngestionTypeOK
  <2>14. IngestionTypeOK'
    BY <1>1, <2>3, <2>4, <2>12, <2>13 DEF IngestionTypeOK, ControlTypes, Publish
  <2>15. Elsewhere(e)
    BY <2>3, <2>4, <2>12 DEF Elsewhere, OthersControl
  <2>16. NoRowLost'
    <3> SUFFICES ASSUME ~overlapped, NEW f \in Exec, NEW p \in published'[f],
                        Semantics[p.key[1]] = "report_period"
                 PROVE p.rows \subseteq partition'[p.key]
      BY DEF NoRowLost, Publish
    <3>1. p.key \in Keys
      BY <2>3
    <3>2. p \in published[f] \/ p = new
      BY <2>3
    <3>3. p \in published[f] => p.rows \subseteq partition[p.key]
      BY DEF IngestionInv, NoRowLost
    <3>4. CASE p.key # Key(e)
      BY <2>2, <2>13, <3>1, <3>2, <3>3, <3>4
    <3>5. CASE p.key = Key(e)
      <4>1. Merges(e)
        BY <1>1, <3>5 DEF Merges
      <4>2. Group(e) \subseteq staging[Key(e)] /\ partition[Key(e)] \subseteq staging[Key(e)]
        BY <1>1, <2>4, <4>1 DEF Held, Staged
      <4> QED
        BY <2>2, <2>13, <3>2, <3>3, <3>5, <4>2
    <3> QED BY <3>4, <3>5
  <2>17. StatusBacked'
    BY <2>4, <2>15, StatusStays DEF IngestionInv
  <2>18. last' = last /\ overlapped' = overlapped
    BY DEF Publish
  <2> QED
    BY <1>1, <2>7, <2>8, <2>9, <2>10, <2>11, <2>14, <2>15, <2>16, <2>17, <2>18, StepKeeps DEF Kept
<1> QED
  BY <1>2, <1>3 DEF Publish

LEMMA UnstageKeeps ==
  ASSUME IngestionInv, NEW e \in Exec, Unstage(e)
  PROVE IngestionInv'
<1> USE DEF tables, world, history
<1> DEFINE rest == {n \in todo[e] : ~InGroup(e, n)}
<1>1. /\ IngestionTypeOK /\ Held(e) /\ Underway(e) /\ Walks(e) /\ Placed(e) /\ Writes(e)
      /\ todo[e] # {} /\ ~raised[e] /\ Key(e) \in Keys /\ Key(e)[1] = Endpoint(e)
      /\ (~Merges(e) => Key(e) = ItemKey(e))
  BY WritingIs DEF Writing, Unstage
<1>2. /\ at[e] = "unstage" /\ tries' = tries /\ partition' = partition /\ published' = published
      /\ runs' = runs /\ status' = status /\ setting' = setting /\ last' = last
      /\ overlapped' = overlapped
  BY DEF Unstage
<1>3. CASE Raise(e) /\ UNCHANGED <<page, fetched, writing, staging>>
  <2>1. staging' \in [Keys -> SUBSET (Nat \X Nat)]
    BY <1>1, <1>3 DEF IngestionTypeOK
  <2> QED BY <1>2, <1>3, <2>1, RaisingKeeps DEF Writing, writing
<1>4. CASE /\ staging' = [staging EXCEPT ![Key(e)] = Missing]
           /\ results' = [results EXCEPT ![e] = Append(@, Outcome(Key(e), "success"))]
           /\ todo' = [todo EXCEPT ![e] = rest] /\ base' = [base EXCEPT ![e] = {}]
           /\ IF rest = {} THEN NextItem(e)
              ELSE GoTo(e, IF Merges(e) THEN "read" ELSE "stage") /\ UNCHANGED <<item, page, fetched>>
           /\ UNCHANGED raised
  <2>1. PICK o \in Result : o = Outcome(Key(e), "success")
    BY <1>1 DEF Outcome, Result
  <2>2. results[e] \in Seq(Result) /\ results'[e] = Append(results[e], o)
        /\ results' \in [Exec -> Seq(Result)]
        /\ \A f \in Exec \ {e} : results'[f] = results[f]
    BY <1>1, <1>4, <2>1 DEF IngestionTypeOK
  <2>3. results'[e] # <<>> /\ DOMAIN results'[e] = 1 .. Len(results[e]) + 1
        /\ DOMAIN results[e] = 1 .. Len(results[e]) /\ Len(results[e]) \in Nat
        /\ results'[e][Len(results[e]) + 1] = o
        /\ \A i \in DOMAIN results[e] : results'[e][i] = results[e][i]
    BY <2>2
  <2>4. o.key = Key(e) /\ o.status = "success"
    BY <2>1 DEF Outcome
  <2>5. \A i \in DOMAIN results'[e] : i \in DOMAIN results[e] \/ results'[e][i] = o
    BY <2>3
  <2>6. \A i \in DOMAIN results'[e] : results'[e][i].status = "empty_return" =>
          /\ Passed(e, results'[e][i].key)
          /\ \A p \in published[e] : results'[e][i].key # p.key
    <3>1. \A i \in DOMAIN results[e] : results[e][i].status = "empty_return" =>
            Passed(e, results[e][i].key) /\ \A p \in published[e] : results[e][i].key # p.key
      BY <1>1, <1>2 DEF Held, Ordered, Writing
    <3> QED BY <2>3, <2>4, <2>5, <3>1
  <2>7. \A i \in DOMAIN results'[e] : results'[e][i].status = "success" =>
          \E p \in published[e] : p.key = results'[e][i].key
    BY <1>1, <1>2, <2>3, <2>4, <2>5 DEF Held, Backed
  <2>8. ~overlapped => \A p \in published[e] :
          \/ status'[p.key] = [status |-> "success", by |-> e]
          \/ \E i \in DOMAIN results'[e] : results'[e][i] = Outcome(p.key, "success")
    <3>1. ~overlapped => \A p \in published[e] :
          \/ status[p.key] = [status |-> "success", by |-> e]
          \/ \E i \in DOMAIN results[e] : results[e][i] = Outcome(p.key, "success")
          \/ p.key = Key(e)
      BY <1>1, <1>2 DEF Held, Accounted, Writing
    <3>2. DOMAIN results[e] \subseteq DOMAIN results'[e]
          /\ Len(results[e]) + 1 \in DOMAIN results'[e]
      BY <2>3
    <3> QED BY <1>2, <2>1, <2>3, <3>1, <3>2
  <2>9. rest \in SUBSET DOMAIN EndDate
    BY <1>1 DEF IngestionTypeOK
  <2>10. /\ staging' \in [Keys -> SUBSET (Nat \X Nat)]
         /\ todo' \in [Exec -> SUBSET DOMAIN EndDate]
         /\ base' \in [Exec -> SUBSET (Nat \X Nat)]
    BY <1>1, <1>4, <2>9 DEF IngestionTypeOK, Missing
  <2>11. Quiet(e)
    BY <1>1, <1>2, <1>4 DEF Quiet, IngestionTypeOK
  <2>12. CASE rest = {}
    <3>1. NextItem(e) /\ raised' = raised
      BY <1>4, <2>12
    <3>2. \A i \in DOMAIN results'[e] : results'[e][i].status = "empty_return" =>
            /\ Covered(e, results'[e][i].key)
            /\ \A p \in published[e] : results'[e][i].key # p.key
      BY <2>6 DEF Covered
    <3>3. at[e] \in {"query"} \cup Writing
      BY <1>2 DEF Writing
    <3>4. Kept(e) /\ ControlTypes' /\ OthersControl(e)
      BY <1>1, <1>2, <2>2, <2>3, <2>7, <2>8, <3>1, <3>2, <3>3, NextItemKeeps
    <3>5. page' \in [Exec -> Nat] /\ fetched' \in [Exec -> SUBSET DOMAIN EndDate]
      BY <1>1, <3>1 DEF IngestionTypeOK, NextItem
    <3>6. IngestionTypeOK'
      BY <1>1, <1>2, <2>10, <3>4, <3>5 DEF IngestionTypeOK, ControlTypes
    <3> QED BY <1>1, <2>11, <3>4, <3>6, QuietKeeps
  <2>13. CASE rest # {}
    <3>1. Merges(e)
      BY <2>13 DEF InGroup
    <3>2. /\ at' = [at EXCEPT ![e] = "read"] /\ item' = item /\ page' = page /\ fetched' = fetched
          /\ raised' = raised
      BY <1>4, <2>13, <3>1 DEF GoTo
    <3>3. at'[e] = "read" /\ todo'[e] = rest
      BY <1>1, <1>4, <3>2 DEF IngestionTypeOK
    <3>4. ControlTypes' /\ OthersControl(e)
      BY <1>1, <2>2, <3>2 DEF IngestionTypeOK, ControlTypes, OthersControl, Writing
    <3>5. IngestionTypeOK'
      BY <1>1, <1>2, <2>10, <3>2, <3>4 DEF IngestionTypeOK, ControlTypes
    <3>6. /\ Day(e)' = Day(e) /\ Writes(e)' = Writes(e) /\ Endpoint(e)' = Endpoint(e)
          /\ LogicalDate(e)' = LogicalDate(e) /\ Merges(e)' = Merges(e) /\ ItemKey(e)' = ItemKey(e)
          /\ \A key : Passed(e, key)' = Passed(e, key)
      BY <1>2, <3>2, SameItem
    <3>7. DatesResolve(Day(e))' = DatesResolve(Day(e))
          /\ PartitionDates(Endpoint(e), Day(e))' = PartitionDates(Endpoint(e), Day(e))
      BY <3>6 DEF DatesResolve, PartitionDates, OpenUpTo
    <3>8. Placed(e)'
      BY <1>1, <2>13, <3>1, <3>2, <3>3, <3>6, <3>7 DEF Placed, Walks, Writing, Recording
    <3>9. Ordered(e)'
      <4>1. \A p \in published[e] : Passed(e, p.key) \/ p.key[1] = Endpoint(e)
        BY <1>1, <1>2 DEF Held, Ordered, Writing
      <4> QED BY <1>2, <2>6, <3>1, <3>3, <3>6, <4>1 DEF Ordered, Writing
    <3>10. Backed(e)' /\ Staged(e)'
      BY <1>2, <2>7, <3>3 DEF Backed, Staged
    <3>11. ~overlapped => Accounted(e)'
      BY <1>2, <2>8, <3>3 DEF Accounted
    <3> QED
      BY <1>1, <2>11, <3>4, <3>5, <3>8, <3>9, <3>10, <3>11, QuietKeeps DEF Kept
  <2> QED BY <2>12, <2>13
<1> QED
  BY <1>3, <1>4 DEF Unstage

\* What is recorded next.
LEMMA CurrentIs ==
  ASSUME IngestionInv, NEW e \in Exec, at[e] \in Recording
  PROVE /\ Current(e).key \in Keys /\ Current(e).status \in {"failed", "success", "empty_return"}
        /\ raised[e] => Current(e).status = "failed"
        /\ ~raised[e] => /\ results[e] \in Seq(Result) /\ results[e] # <<>>
                        /\ Current(e) = results[e][1] /\ 1 \in DOMAIN results[e]
        /\ IngestionTypeOK /\ Held(e) /\ Underway(e) /\ Walks(e) /\ Placed(e) /\ Writes(e)
<1>1. IngestionTypeOK /\ Held(e) /\ Underway(e)
  BY InvHolds DEF Underway, Recording
<1>2. Walks(e) /\ Placed(e) /\ Writes(e)
  BY <1>1 DEF Walks, Held, Placed
<1>3. CASE raised[e]
  <2>1. Current(e).key = ItemKey(e) /\ Current(e).status = "failed"
    BY <1>3 DEF Current, Outcome
  <2> QED BY <1>1, <1>2, <1>3, <2>1, ItemIs
<1>4. CASE ~raised[e]
  <2>1. results[e] \in Seq(Result) /\ results[e] # <<>>
    BY <1>1, <1>2, <1>4 DEF IngestionTypeOK, Placed
  <2>2. Current(e) = results[e][1] /\ 1 \in DOMAIN results[e]
    BY <1>4, <2>1 DEF Current
  <2> QED BY <1>1, <1>2, <1>4, <2>1, <2>2, ResultsAre
<1> QED BY <1>3, <1>4

LEMMA InsertRunKeeps ==
  ASSUME IngestionInv, NEW e \in Exec, InsertRun(e)
  PROVE IngestionInv'
<1> USE DEF InsertRun, reading, writing, storage, world, history, outcomes
<1>1. /\ Current(e).key \in Keys /\ Current(e).status \in {"failed", "success", "empty_return"}
      /\ IngestionTypeOK /\ Held(e) /\ Underway(e) /\ Walks(e) /\ Placed(e) /\ Writes(e)
  BY CurrentIs DEF Recording
<1> DEFINE entry == [by |-> e, key |-> Current(e).key, status |-> Current(e).status]
<1>2. entry \in [by : Exec, key : Keys, status : {"failed", "success", "empty_return"}]
  BY <1>1
<1>3. runs' = runs \cup {entry}
  OBVIOUS
<1>4. at' = [at EXCEPT ![e] = "merge"] /\ at'[e] = "merge" /\ at[e] = "insert"
  BY <1>1 DEF GoTo, IngestionTypeOK
<1>5. ControlTypes' /\ OthersControl(e)
  BY <1>1, <1>4 DEF IngestionTypeOK, ControlTypes, OthersControl, Recording
<1>6. /\ Day(e)' = Day(e) /\ Writes(e)' = Writes(e) /\ Endpoint(e)' = Endpoint(e)
      /\ LogicalDate(e)' = LogicalDate(e) /\ Merges(e)' = Merges(e) /\ ItemKey(e)' = ItemKey(e)
  BY SameItem
<1>7. DatesResolve(Day(e))' = DatesResolve(Day(e))
      /\ PartitionDates(Endpoint(e), Day(e))' = PartitionDates(Endpoint(e), Day(e))
  BY <1>6 DEF DatesResolve, PartitionDates, OpenUpTo
<1>8. Placed(e)'
  BY <1>1, <1>4, <1>6, <1>7 DEF Placed, Walks, Writing, Recording
<1>9. Ordered(e)' /\ Staged(e)'
  BY <1>1, <1>4 DEF Held, Ordered, Staged, Writing
<1>10. Backed(e)'
  <2>1. Current(e)' = Current(e)
    BY <1>6 DEF Current
  <2>2. entry \in runs'
    BY <1>3
  <2> QED
    BY <1>1, <1>4, <2>1, <2>2 DEF Held, Backed
<1>11. ~overlapped => Accounted(e)'
  BY <1>1, <1>4 DEF Held, Accounted, Recording
<1> HIDE DEF entry
<1>12. IngestionTypeOK'
  BY <1>1, <1>2, <1>3, <1>5 DEF IngestionTypeOK, ControlTypes
<1>13. Elsewhere(e)
  BY <1>3, <1>5 DEF Elsewhere, OthersControl
<1>14. StatusBacked' /\ NoRowLost'
  BY <1>13, StatusStays, LostStays DEF IngestionInv
<1> QED
  BY <1>1, <1>8, <1>9, <1>10, <1>11, <1>12, <1>13, <1>14, StepKeeps DEF Kept

LEMMA MergeStatusKeeps ==
  ASSUME IngestionInv, NEW e \in Exec, MergeStatus(e)
  PROVE IngestionInv'
<1> USE DEF reading, writing, storage, world, history
<1>1. /\ Current(e).key \in Keys /\ Current(e).status \in {"failed", "success", "empty_return"}
      /\ IngestionTypeOK /\ Held(e) /\ Underway(e) /\ Walks(e) /\ Placed(e) /\ Writes(e)
  BY CurrentIs DEF Recording, MergeStatus
<1>2. /\ at[e] = "merge" /\ setting' = setting /\ page' = page /\ tries' = tries
      /\ fetched' = fetched /\ todo' = todo /\ base' = base /\ partition' = partition
      /\ staging' = staging /\ published' = published /\ runs' = runs /\ last' = last
      /\ overlapped' = overlapped /\ raised' = raised
  BY DEF MergeStatus
<1>3. PICK entry \in [status : {"none", "failed", "success", "empty_return"},
                    by : Exec \cup {"nobody"}] :
         entry = [status |-> Current(e).status, by |-> e]
  BY <1>1
<1>4. entry.status = Current(e).status /\ entry.by = e
  BY <1>3
<1>5. /\ status' = [status EXCEPT ![Current(e).key] = entry] /\ status'[Current(e).key] = entry
      /\ \A k \in Keys \ {Current(e).key} : status'[k] = status[k]
      /\ status' \in [Keys -> [status : {"none", "failed", "success", "empty_return"},
                               by : Exec \cup {"nobody"}]]
  BY <1>1, <1>3 DEF MergeStatus, IngestionTypeOK
<1>6. [by |-> e, key |-> Current(e).key, status |-> Current(e).status] \in runs
  BY <1>1, <1>2 DEF Held, Backed
<1>7. StatusBacked'
  <2> SUFFICES ASSUME NEW k \in Keys, status'[k].status = "success"
               PROVE /\ status'[k].by \in Exec
                     /\ \E p \in published[status'[k].by] : p.key = k
                     /\ [by |-> status'[k].by, key |-> k, status |-> "success"] \in runs
    BY <1>2 DEF StatusBacked
  <2>1. CASE k # Current(e).key
    BY <1>5, <2>1 DEF IngestionInv, StatusBacked
  <2>2. CASE k = Current(e).key
    <3>1. Current(e).status = "success" /\ status'[k].by = e
      BY <1>4, <1>5, <2>2
    <3>2. ~raised[e] /\ Current(e) = results[e][1] /\ 1 \in DOMAIN results[e]
      BY <1>2, <3>1, CurrentIs DEF Recording
    <3>3. \E p \in published[e] : p.key = Current(e).key
      BY <1>1, <3>1, <3>2 DEF Held, Backed
    <3> QED BY <1>6, <2>2, <3>1, <3>3
  <2> QED BY <2>1, <2>2
<1>8. NoRowLost'
  BY <1>2, LostStays DEF IngestionInv
<1>9. CASE raised[e]
  <2>1. results' = results
    BY <1>1, <1>9 DEF MergeStatus, IngestionTypeOK
  <2>2. CASE LastItem(e)
    <3>1. GoTo(e, "failed") /\ item' = item
      BY <1>1, <1>9, <2>2 DEF MergeStatus, AllRecorded, IngestionTypeOK
    <3>2. Kept(e) /\ ControlTypes' /\ OthersControl(e)
      BY <1>1, <1>2, <2>1, <3>1, EndKeeps
    <3>3. IngestionTypeOK'
      BY <1>1, <1>2, <1>5, <3>2 DEF IngestionTypeOK, ControlTypes
    <3>4. Elsewhere(e)
      BY <1>2, <3>2 DEF Elsewhere, OthersControl
    <3> QED BY <1>1, <1>2, <1>7, <1>8, <3>2, <3>3, <3>4, StepKeeps
  <2>3. CASE ~LastItem(e)
    <3>1. at' = [at EXCEPT ![e] = "insert"] /\ item' = [item EXCEPT ![e] = Following(e)]
      BY <1>9, <2>3 DEF MergeStatus, AllRecorded, GoTo
    <3>2. at'[e] = "insert" /\ item'[e] = Following(e)
      BY <1>1, <3>1 DEF IngestionTypeOK
    <3>3. /\ Following(e) \in Nat \X Nat /\ Following(e)[1] \in DOMAIN Endpoints
          /\ Following(e)[2] \in PartitionDates(Endpoints[Following(e)[1]], Day(e))
      BY <1>1, <2>3, FollowingIs
    <3>4. DatesResolve(Day(e))' /\ Day(e)' = Day(e) /\ Writes(e)' = Writes(e)
      BY <1>1, <1>2 DEF Placed, Walks, Day, DatesResolve, Writes
    <3>5. Endpoint(e)' = Endpoints[Following(e)[1]] /\ LogicalDate(e)' = Following(e)[2]
      BY <3>2 DEF Endpoint, LogicalDate
    <3>6. PartitionDates(Endpoint(e), Day(e))' = PartitionDates(Endpoints[Following(e)[1]], Day(e))
      BY <3>4, <3>5 DEF PartitionDates, OpenUpTo
    <3>7. Placed(e)'
      BY <1>1, <1>2, <1>9, <3>2, <3>3, <3>4, <3>5, <3>6 DEF Placed, Writing, Recording
    <3>8. Ordered(e)' /\ Backed(e)' /\ Staged(e)' /\ Accounted(e)'
      BY <1>1, <1>2, <1>9, <2>1, <3>2 DEF Held, Ordered, Backed, Staged, Accounted, Writing
    <3>9. ControlTypes' /\ OthersControl(e)
      BY <1>1, <1>2, <2>1, <3>1, <3>3 DEF IngestionTypeOK, ControlTypes, OthersControl, Recording
    <3>10. IngestionTypeOK'
      BY <1>1, <1>2, <1>5, <3>9 DEF IngestionTypeOK, ControlTypes
    <3>11. Elsewhere(e)
      BY <1>2, <3>9 DEF Elsewhere, OthersControl
    <3> QED BY <1>1, <1>2, <1>7, <1>8, <3>7, <3>8, <3>10, <3>11, StepKeeps DEF Kept
  <2> QED BY <2>2, <2>3
<1>10. CASE ~raised[e]
  <2>1. /\ results[e] \in Seq(Result) /\ results[e] # <<>>
        /\ Current(e) = results[e][1] /\ 1 \in DOMAIN results[e]
    BY <1>2, <1>10, CurrentIs DEF Recording
  <2>2. /\ Tail(results[e]) \in Seq(Result)
        /\ (Len(results[e]) = 1 <=> Tail(results[e]) = <<>>)
        /\ \A i \in DOMAIN Tail(results[e]) :
              i + 1 \in DOMAIN results[e] /\ Tail(results[e])[i] = results[e][i + 1]
        /\ \A j \in DOMAIN results[e] \ {1} : j - 1 \in DOMAIN Tail(results[e])
              /\ Tail(results[e])[j - 1] = results[e][j]
    BY <2>1, TailIs
  <2>3. results' = [results EXCEPT ![e] = Tail(results[e])] /\ results'[e] = Tail(results[e])
        /\ item' = item
    BY <1>1, <1>10 DEF MergeStatus, IngestionTypeOK
  <2>4. PICK where \in {"insert", "ok"} : /\ at' = [at EXCEPT ![e] = where]
                                        /\ (where = "ok" <=> Tail(results[e]) = <<>>)
    BY <1>10, <2>2 DEF MergeStatus, AllRecorded, GoTo
  <2>5. at'[e] = where
    BY <1>1, <2>4 DEF IngestionTypeOK
  <2>6. /\ Day(e)' = Day(e) /\ Writes(e)' = Writes(e) /\ Endpoint(e)' = Endpoint(e)
        /\ LogicalDate(e)' = LogicalDate(e) /\ Merges(e)' = Merges(e) /\ ItemKey(e)' = ItemKey(e)
    BY <1>2, <2>3, SameItem
  <2>7. DatesResolve(Day(e))' = DatesResolve(Day(e))
        /\ PartitionDates(Endpoint(e), Day(e))' = PartitionDates(Endpoint(e), Day(e))
    BY <2>6 DEF DatesResolve, PartitionDates, OpenUpTo
  <2>8. Placed(e)'
    BY <1>1, <1>2, <1>10, <2>3, <2>4, <2>5, <2>6, <2>7 DEF Placed, Walks, Writing, Recording
  <2>9. Ordered(e)' /\ Backed(e)' /\ Staged(e)'
    BY <1>1, <1>2, <2>2, <2>3, <2>4, <2>5 DEF Held, Ordered, Backed, Staged, Writing
  <2>10. ~overlapped => Accounted(e)'
    <3> SUFFICES ASSUME ~overlapped, NEW p \in published[e]
                 PROVE \/ status'[p.key] = [status |-> "success", by |-> e]
                       \/ \E i \in DOMAIN results'[e] : results'[e][i] = Outcome(p.key, "success")
      BY <1>2 DEF Accounted
    <3>1. p.key \in Keys
      BY <1>1 DEF IngestionTypeOK
    <3>2. \/ status[p.key] = [status |-> "success", by |-> e]
          \/ \E i \in DOMAIN results[e] : results[e][i] = Outcome(p.key, "success")
      BY <1>1, <1>2, <1>10 DEF Held, Accounted, Recording
    <3>3. CASE p.key = Current(e).key
      <4>1. Current(e).status \in {"success", "empty_return"}
        BY <2>1, ResultsAre
      <4>2. Current(e).status # "empty_return"
        BY <1>1, <2>1, <3>3 DEF Held, Ordered
      <4>3. entry = [status |-> "success", by |-> e]
        BY <1>3, <4>1, <4>2
      <4> QED BY <1>5, <3>3, <4>3
    <3>4. CASE p.key # Current(e).key
      <4>1. CASE status[p.key] = [status |-> "success", by |-> e]
        BY <1>5, <3>1, <3>4, <4>1
      <4>2. CASE \E i \in DOMAIN results[e] : results[e][i] = Outcome(p.key, "success")
        <5>1. PICK i \in DOMAIN results[e] : results[e][i] = Outcome(p.key, "success")
          BY <4>2
        <5>2. results[e][i].key = p.key
          BY <5>1 DEF Outcome
        <5>3. i # 1 /\ i \in DOMAIN results[e]
          BY <2>1, <3>4, <5>2
        <5>4. i - 1 \in DOMAIN results'[e] /\ results'[e][i - 1] = results[e][i]
          BY <2>2, <2>3, <5>3
        <5> QED BY <5>1, <5>4
      <4> QED BY <3>2, <4>1, <4>2
    <3> QED BY <3>3, <3>4
  <2>11. ControlTypes' /\ OthersControl(e)
    BY <1>1, <1>2, <2>2, <2>3, <2>4 DEF IngestionTypeOK, ControlTypes, OthersControl, Recording
  <2>12. IngestionTypeOK'
    BY <1>1, <1>2, <1>5, <2>11 DEF IngestionTypeOK, ControlTypes
  <2>13. Elsewhere(e)
    BY <1>2, <2>11 DEF Elsewhere, OthersControl
  <2> QED BY <1>1, <1>2, <1>7, <1>8, <2>8, <2>9, <2>10, <2>12, <2>13, StepKeeps DEF Kept
<1> QED BY <1>9, <1>10

LEMMA LeavingKeeps ==
  ASSUME IngestionInv, NEW e \in Exec, TableFails(e) \/ KillExecution(e)
  PROVE IngestionInv'
<1> USE DEF reading, writing, storage, tables, world, history, outcomes
<1>1. Underway(e)
  BY DEF TableFails, KillExecution, Underway
<1>2. IngestionTypeOK /\ Held(e) /\ at[e] # "idle"
  BY <1>1, InvHolds DEF Underway
<1>3. PICK where \in {"failed", "killed"} : GoTo(e, where)
  BY DEF TableFails, KillExecution
<1>4. UNCHANGED <<item, page, tries, fetched, todo, base, raised, results, partition, staging,
                  published, runs, status, setting, last, overlapped>>
  BY DEF TableFails, KillExecution
<1>5. Kept(e) /\ ControlTypes' /\ OthersControl(e)
  BY <1>2, <1>3, <1>4, EndKeeps
<1>6. IngestionTypeOK'
  BY <1>2, <1>4, <1>5 DEF IngestionTypeOK, ControlTypes
<1>7. Quiet(e)
  BY <1>4 DEF Quiet
<1> QED BY <1>1, <1>5, <1>6, <1>7, QuietKeeps

LEMMA StartKeeps ==
  ASSUME IngestionInv, NEW e \in Exec, Start(e)
  PROVE IngestionInv'
<1> USE DEF reading, writing, storage, tables, outcomes
<1>1. IngestionTypeOK /\ Placed(e) /\ Ordered(e) /\ Backed(e)
  BY DEF IngestionInv
<1>2. /\ at[e] = "idle" /\ last' = e /\ results[e] = <<>> /\ published[e] = {} /\ ~raised[e]
      /\ UNCHANGED <<page, tries, fetched, todo, base, raised, results, partition, staging,
                     published, runs, status, setting>>
  BY <1>1 DEF Start, Placed
<1>3. overlapped' = (overlapped \/ \E f \in Exec : Underway(f))
  BY DEF Start
<1>4. PICK where \in {"failed", "ok", "query"} :
         /\ GoTo(e, where)
         /\ IF where = "query" THEN DatesResolve(Day(e)) /\ item' = [item EXCEPT ![e] = FirstOf(e, 1)]
            ELSE item' = item
  BY DEF Start
<1>5. at' = [at EXCEPT ![e] = where] /\ at'[e] = where
  BY <1>1, <1>4 DEF GoTo, IngestionTypeOK
<1>6. where = "query" =>
        /\ 1 \in DOMAIN Endpoints /\ FirstOf(e, 1) \in Nat \X Nat /\ FirstOf(e, 1)[1] = 1
        /\ FirstOf(e, 1)[2] \in PartitionDates(Endpoints[1], Day(e)) /\ item'[e] = FirstOf(e, 1)
  <2>1. 1 \in DOMAIN Endpoints
    BY ManifestAssumption
  <2> QED BY <1>1, <1>4, <2>1, FirstItem DEF IngestionTypeOK
<1>7. item' \in [Exec -> Nat \X Nat] /\ \A f \in Exec \ {e} : item'[f] = item[f]
  BY <1>1, <1>4, <1>6 DEF IngestionTypeOK
<1>8. IngestionTypeOK'
  BY <1>1, <1>2, <1>3, <1>5, <1>7 DEF IngestionTypeOK
<1>9. Placed(e)'
  <2>1. Day(e)' = Day(e) /\ Writes(e)' = Writes(e) /\ DatesResolve(Day(e))' = DatesResolve(Day(e))
    BY <1>2 DEF Day, Writes, DatesResolve
  <2>2. CASE where = "query"
    <3>1. Endpoint(e)' = Endpoints[1] /\ LogicalDate(e)' = FirstOf(e, 1)[2]
      BY <1>6, <2>2 DEF Endpoint, LogicalDate
    <3>2. PartitionDates(Endpoint(e), Day(e))' = PartitionDates(Endpoints[1], Day(e))
      BY <2>1, <3>1 DEF PartitionDates, OpenUpTo
    <3> QED
      BY <1>2, <1>4, <1>5, <1>6, <2>1, <2>2, <3>1, <3>2 DEF Placed, Writing, Recording
  <2>3. CASE where # "query"
    BY <1>2, <1>5, <2>3 DEF Placed, Writing, Recording
  <2> QED BY <2>2, <2>3
<1>10. Ordered(e)' /\ Backed(e)' /\ Staged(e)' /\ Accounted(e)'
  BY <1>2, <1>5 DEF Ordered, Backed, Staged, Accounted, Writing, Recording
<1>11. Elsewhere(e)
  BY <1>2, <1>5, <1>7 DEF Elsewhere
<1>12. \A f \in Exec : Placed(f)' /\ Ordered(f)' /\ Backed(f)'
  BY <1>9, <1>10, <1>11, OthersStay DEF IngestionInv
<1>13. StatusBacked'
  BY <1>2, <1>11, StatusStays DEF IngestionInv
<1>14. NoRowLost'
  BY <1>2, <1>3 DEF IngestionInv, NoRowLost
<1>15. Alone'
  BY <1>1, <1>2, <1>3, <1>5 DEF Alone, Underway, IngestionTypeOK
<1>16. (~overlapped => \A f \in Exec : last = f => Staged(f) /\ Accounted(f))'
  BY <1>2, <1>10
<1> QED
  BY <1>8, <1>12, <1>13, <1>14, <1>15, <1>16 DEF IngestionInv

LEMMA IngestionStarts == IngestionInit => IngestionInv
<1> SUFFICES ASSUME IngestionInit PROVE IngestionInv
  OBVIOUS
<1> USE DEF IngestionInit, Missing, NoStatus
<1>1. IngestionTypeOK
  <2>1. /\ setting \in Settings /\ at \in [Exec -> {"idle"}] /\ item \in [Exec -> Nat \X Nat]
        /\ page \in [Exec -> Nat] /\ tries \in [Exec -> Nat]
        /\ raised \in [Exec -> BOOLEAN] /\ overlapped \in BOOLEAN /\ last \in Exec \cup {"nobody"}
        /\ runs = {}
    OBVIOUS
  <2>2. at \in [Exec -> {"idle", "query", "ok", "failed", "killed"} \cup Writing \cup Recording]
    BY DEF Writing, Recording
  <2>3. /\ fetched \in [Exec -> SUBSET DOMAIN EndDate] /\ todo \in [Exec -> SUBSET DOMAIN EndDate]
        /\ base \in [Exec -> SUBSET (Nat \X Nat)] /\ results \in [Exec -> Seq(Result)]
    OBVIOUS
  <2>4. /\ partition \in [Keys -> SUBSET (Nat \X Nat)] /\ staging \in [Keys -> SUBSET (Nat \X Nat)]
    OBVIOUS
  <2>5. status \in [Keys -> [status : {"none", "failed", "success", "empty_return"},
                           by : Exec \cup {"nobody"}]]
    OBVIOUS
  <2>6. published \in [Exec -> SUBSET [key : Keys, rows : SUBSET (Nat \X Nat)]]
    OBVIOUS
  <2> QED BY <2>1, <2>2, <2>3, <2>4, <2>5, <2>6 DEF IngestionTypeOK
<1>2. Alone /\ NoRowLost /\ StatusBacked
  BY DEF Alone, Underway, NoRowLost, StatusBacked
<1>3. \A e \in Exec : Placed(e) /\ Ordered(e) /\ Backed(e) /\ Staged(e) /\ Accounted(e)
  BY DEF Placed, Ordered, Backed, Staged, Accounted, Writing, Recording
<1> QED
  BY <1>1, <1>2, <1>3 DEF IngestionInv

LEMMA IngestionKeeps == IngestionInv /\ [IngestionNext]_ingestionVars => IngestionInv'
<1> SUFFICES ASSUME IngestionInv, [IngestionNext]_ingestionVars PROVE IngestionInv'
  OBVIOUS
<1>1. CASE IngestionNext
  <2>1. PICK e \in Exec :
        \/ Start(e) \/ PageRead(e) \/ PageFails(e)
        \/ ReadExisting(e) \/ Stage(e) \/ Verify(e) \/ Publish(e) \/ Unstage(e) \/ StorageFails(e)
        \/ InsertRun(e) \/ MergeStatus(e) \/ TableFails(e) \/ KillExecution(e)
    BY <1>1 DEF IngestionNext
  <2> QED
    BY <2>1, StartKeeps, PageReadKeeps, PageFailsKeeps, ReadExistingKeeps, StageKeeps, VerifyKeeps,
       PublishKeeps, UnstageKeeps, StorageFailsKeeps, InsertRunKeeps, MergeStatusKeeps, LeavingKeeps
<1>2. CASE UNCHANGED ingestionVars
  <2> USE <1>2 DEF ingestionVars, reading, writing, storage, tables, history, outcomes
  <2>1. IngestionTypeOK' /\ Alone' /\ NoRowLost' /\ StatusBacked'
    BY DEF IngestionInv, IngestionTypeOK, Alone, Underway, NoRowLost, StatusBacked
  <2>2. ASSUME NEW e \in Exec PROVE Elsewhere(e) /\ OthersControl(e)
    BY DEF Elsewhere, OthersControl
  <2>3. \A e \in Exec : Placed(e)' = Placed(e) /\ Ordered(e)' = Ordered(e) /\ Backed(e)' = Backed(e)
                        /\ Staged(e)' = Staged(e) /\ Accounted(e)' = Accounted(e)
    BY DEF Placed, Ordered, Backed, Staged, Accounted, Day, DatesResolve, PartitionDates, OpenUpTo, Endpoint, LogicalDate, Merges, Writes, Passed, ItemKey, Key, Period, Group, InGroup, Current, Least
  <2> QED BY <2>1, <2>3 DEF IngestionInv
<1> QED BY <1>1, <1>2

\* Whatever kills or fails the executions that follow each other, no row of a
\* report period that was published once is lost by a later publish.
THEOREM IngestionLosesNoRow == IngestionSpec => []NoRowLost
<1>1. IngestionInv => NoRowLost
  BY DEF IngestionInv
<1> QED
  BY <1>1, IngestionStarts, IngestionKeeps, PTL DEF IngestionSpec

\* A partition recorded as a success was published, by the execution that the
\* row names; and an execution that ends well has recorded all it published.
THEOREM IngestionConfirmsSuccess == IngestionSpec => []SuccessIsConfirmed
<1>1. IngestionInv => SuccessIsConfirmed
  <2> SUFFICES ASSUME IngestionInv PROVE SuccessIsConfirmed
    OBVIOUS
  <2>1. StatusBacked
    BY DEF IngestionInv
  <2>2. ASSUME NEW e \in Exec, ~overlapped, last = e, at[e] = "ok", NEW p \in published[e]
        PROVE status[p.key] = [status |-> "success", by |-> e]
    <3>1. Placed(e) /\ Accounted(e)
      BY <2>2 DEF IngestionInv
    <3>2. Writes(e) /\ results[e] = <<>> /\ ~raised[e]
      BY <2>2, <3>1 DEF Placed
    <3> QED BY <2>2, <3>1, <3>2 DEF Accounted
  <2> QED BY <2>1, <2>2 DEF StatusBacked, SuccessIsConfirmed
<1> QED
  BY <1>1, IngestionStarts, IngestionKeeps, PTL DEF IngestionSpec
=============================================================================
