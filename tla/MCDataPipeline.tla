--------------------------- MODULE MCDataPipeline ---------------------------
(* The daily data pipeline in the two forms the repository has, the        *)
(* workflow with its status rows (PipelineStatus) or the Composer DAGs that*)
(* are kept for rollback (ComposerDags), and the two programs that turn the*)
(* rows into alerts (AlertChecker, AlertPolicies).  A behaviour is one of  *)
(* the four; the others have not begun in it.                              *)
EXTENDS PipelineStatus, ComposerDags, AlertChecker, AlertPolicies

CONSTANT Forms   \* which of the four: "workflow", "composer", "checker", "policies"

DailyRun(gate, dryRun, skipIngestion, skipRefresh) ==
  [kind |-> "daily", gate |-> gate, dryRun |-> dryRun, skipIngestion |-> skipIngestion,
   skipRefresh |-> skipRefresh, trigger |-> FALSE]
MCOptions ==
  {DailyRun(TRUE, FALSE, FALSE, FALSE),     \* scheduled
   DailyRun(FALSE, TRUE, FALSE, FALSE),     \* a dry run
   DailyRun(FALSE, FALSE, TRUE, FALSE),     \* ingestion skipped: no refresh either
   [DailyRun(FALSE, FALSE, TRUE, FALSE) EXCEPT !.trigger = TRUE],
   DailyRun(FALSE, FALSE, FALSE, TRUE),     \* ODS only
   [DailyRun(FALSE, FALSE, FALSE, FALSE) EXCEPT !.kind = "rebuild"]}

Base == [mode |-> "daily_current", dry |-> {}, skipTransform |-> FALSE,
         skipIngestion |-> FALSE, skipDownstream |-> FALSE, trigger |-> FALSE,
         confirm |-> FALSE, gated |-> FALSE, open |-> TRUE]
Scheduled == [Base EXCEPT !.gated = TRUE]
By(mode) == [Base EXCEPT !.mode = mode, !.dry = {FALSE}]

\* with the Variable for dry runs set or not, before or after the partitions are there
MCStarts ==
  {<<Ingestion, c, dry, ready>> :
     c \in {Scheduled, [Base EXCEPT !.skipIngestion = TRUE, !.trigger = TRUE]},
     dry \in BOOLEAN, ready \in BOOLEAN}
    \cup {<<Ingestion, [Scheduled EXCEPT !.open = FALSE], FALSE, FALSE>>,
          <<Ingestion, [Base EXCEPT !.skipDownstream = TRUE], FALSE, FALSE>>,
          <<Window, Base, TRUE, FALSE>>, <<Window, By("backfill"), FALSE, TRUE>>,
          <<Window, By("qa_only"), FALSE, TRUE>>,
          <<Rebuild, [Base EXCEPT !.mode = "full_rebuild", !.confirm = TRUE], TRUE, TRUE>>,
          <<Rebuild, By("full_rebuild"), FALSE, TRUE>>,
          <<Daily, Scheduled, FALSE, FALSE>>, <<Daily, By("qa_only"), FALSE, TRUE>>}

VARIABLE form

\* one scheduled check every second unit, looking back over two; by hand also
\* without --write-log (--json ends a check like a query that fails)
MCCheckers == {"scheduled", "hand"}
MCArguments ==
  [c \in MCCheckers |->
     IF c = "scheduled" THEN {Args(2, TRUE, TRUE, FALSE)}
     ELSE {Args(1, TRUE, TRUE, FALSE), Args(1, FALSE, TRUE, FALSE)}]
MCNever == -9

\* policies that exist (ids enough for a duplicate); a list with and one without a channel
MCIds == 1 .. 3
MCChannels == {{}, {"mail"}}

\* The hypotheses of the theorems about the two programs, and about the DAGs.  The DAGs
\* are the same in both configurations; the one that runs none of them looks at their shape.
ASSUME AlertHypotheses == CheckerConstants /\ PoliciesConstants
ASSUME GraphHypothesis == Forms = {"workflow"} => GraphsInOrder

OneStart == <<Window, Base, TRUE, FALSE>>
OnePolicy ==
  [key |-> 1, labelled |-> TRUE, name |-> "current", wanted |-> FALSE, channels |-> {}]

MCInit ==
  /\ form \in Forms /\ Init /\ DagInit /\ CheckerInit /\ PoliciesInit
  /\ form # "workflow" => opt = DailyRun(TRUE, FALSE, FALSE, FALSE)
  /\ form # "composer" =>
       /\ conf = [d \in {OneStart[1]} |-> OneStart[2]]
       /\ dryVar = OneStart[3] /\ partition = OneStart[4]
  /\ form # "policies" => metrics = {} /\ policies[1] = OnePolicy

MCNext ==
  /\ UNCHANGED form
  /\ \/ form = "workflow" /\ Next /\ UNCHANGED <<dagVars, checkerVars, policiesVars>>
     \/ form = "composer" /\ DagNext /\ UNCHANGED <<vars, checkerVars, policiesVars>>
     \/ form = "checker" /\ CheckerNext /\ UNCHANGED <<vars, dagVars, policiesVars>>
     \/ form = "policies" /\ PoliciesNext /\ UNCHANGED <<vars, dagVars, checkerVars>>

MCSpec == MCInit /\ [][MCNext]_<<form, vars, dagVars, checkerVars, policiesVars>>

=============================================================================
