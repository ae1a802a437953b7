----------------------------- MODULE AlertPolicies -----------------------------
(***************************************************************************)
(* setup_alerts.py: creates the log metrics and brings the alert policies  *)
(* of the project to what the script defines, one policy after the other:  *)
(* list, match, then create or update.  Policies of earlier versions of the*)
(* script may have an old name and no label; someone may edit policies in  *)
(* the console, and the script may be run by two operators at once.        *)
(*                                                                         *)
(* A call may fail, and may have been carried out although it failed.  The *)
(* definition of a policy is abstracted to whether it is the one wanted;   *)
(* --dry-run, which only prints, is left out.                              *)
(***************************************************************************)
EXTENDS Integers, FiniteSets

CONSTANTS
  Keys,       \* policy_key of the definitions, in order 1 .. n
  Ids,        \* ids the service may give to policies
  Operators,  \* who runs the script
  Channels,   \* sets of notification channels
  MaxEdits    \* bound: edits in the console

VARIABLES
  metrics,    \* log metrics that exist
  policies,   \* policies, by id; NoPolicy
  setup,      \* the script's run of each operator
  edits

policiesVars == <<metrics, policies, setup, edits>>

NoPolicy == [key |-> 0, labelled |-> FALSE, name |-> "none", wanted |-> FALSE, channels |-> {}]
Live == {i \in Ids : policies[i] # NoPolicy}

\* An id is given once; the model gives the smallest that is free.
NewId == {i \in Ids \ Live : \A j \in Ids \ Live : i <= j}

\* found: the policy that matched, as it was listed; before: the channels of
\* every policy when the run began; alone: nobody else has changed one since
ScriptAt(pc, key, given) ==
  [pc |-> pc, key |-> key, given |-> given, found |-> 0, keeps |-> {},
   before |-> [k \in Keys |-> {}], alone |-> TRUE]

\* Policies made by an earlier version: with the label, or under a name the
\* script knows.
PoliciesInit ==
  /\ metrics \in {{}, Keys}
  /\ policies \in {[i \in Ids |-> IF i = 1 THEN p ELSE NoPolicy] :
       p \in {q \in [key : Keys, labelled : BOOLEAN, name : {"current", "legacy", "other"},
                     wanted : {FALSE}, channels : Channels] :
                q.labelled \/ q.name # "other"}}
  /\ setup = [o \in Operators |-> ScriptAt("idle", 1, {})]
  /\ edits = 0

\* Mutant: a policy is looked up under its names only.
MatchesByName(p, k) == p.key = k /\ p.name \in {"current", "legacy"}

\* policy_matches: by label, else by the current or a legacy name
PolicyMatches(p, k) == p.key = k /\ (p.labelled \/ p.name \in {"current", "legacy"})

\* A policy somebody could tell to be the script's
Known(k) == {i \in Live : /\ policies[i].key = k
                          /\ policies[i].labelled \/ policies[i].name # "other"}

-----------------------------------------------------------------------------
Update(o, run) == setup' = [setup EXCEPT ![o] = run]

\* the policies change: the others are not alone any more
Change(o, to, run) ==
  /\ policies' = to
  /\ setup' = [q \in Operators |->
       IF q = o THEN run ELSE [setup[q] EXCEPT !.alone = to = policies /\ @]]

BeginSetup(o) ==
  /\ setup[o].pc = "idle"
  /\ \E given \in Channels :
       Update(o, [ScriptAt("metrics", 1, given) EXCEPT
                    !.before = [k \in Keys |-> UNION {policies[i].channels : i \in Known(k)}]])
  /\ UNCHANGED <<metrics, policies, edits>>

\* create_log_metric: one that exists is left as it is
CreateMetric(o) ==
  /\ setup[o].pc = "metrics"
  /\ LET k == setup[o].key
         done == metrics \cup {k}
     IN \/ /\ metrics' = done
           /\ Update(o, IF k + 1 \in Keys THEN [setup[o] EXCEPT !.key = k + 1]
                        ELSE [setup[o] EXCEPT !.key = 1, !.pc = "list"])
        \/ metrics' \in {metrics, done} /\ Update(o, [setup[o] EXCEPT !.pc = "failed"])
  /\ UNCHANGED <<policies, edits>>

\* create_alert_policy lists the policies; two that match are an error
ListPolicies(o) ==
  /\ setup[o].pc = "list"
  /\ LET matches == {i \in Live : PolicyMatches(policies[i], setup[o].key)}
     IN \/ Update(o, [setup[o] EXCEPT !.pc = "failed"])
        \/ matches = {} /\ Update(o, [setup[o] EXCEPT !.pc = "write", !.found = 0, !.keeps = {}])
        \/ \E i \in matches :
             /\ matches = {i}
             /\ Update(o, [setup[o] EXCEPT !.pc = "write", !.found = i,
                                           !.keeps = policies[i].channels])
  /\ UNCHANGED <<metrics, policies, edits>>

\* build_alert_policy; channels that were not given are those listed before
Built(run) ==
  [key |-> run.key, labelled |-> TRUE, name |-> "current", wanted |-> TRUE,
   channels |-> IF run.given = {} THEN run.keeps ELSE run.given]

Written(run, id) == [policies EXCEPT ![id] = Built(run)]

\* Create, or update the policy found unless it has been deleted meanwhile.
WritePolicy(o) ==
  /\ setup[o].pc = "write"
  /\ LET run == setup[o]
         next == IF run.key + 1 \in Keys
                   THEN [run EXCEPT !.pc = "list", !.key = @ + 1] ELSE [run EXCEPT !.pc = "done"]
         fail == [run EXCEPT !.pc = "failed"]
     IN \/ \E id \in IF run.found = 0 THEN NewId ELSE Live \cap {run.found} :
             Change(o, Written(run, id), next) \/ Change(o, Written(run, id), fail)
        \/ Change(o, policies, fail)
  /\ UNCHANGED <<metrics, edits>>

\* The operator starts the script again.
Again(o) ==
  /\ setup[o].pc \in {"done", "failed"}
  /\ Update(o, ScriptAt("idle", 1, {}))
  /\ UNCHANGED <<metrics, policies, edits>>

\* Someone renames a policy, changes its channels or its definition, or
\* deletes it.
Edit ==
  /\ edits < MaxEdits /\ edits' = edits + 1
  /\ \E i \in Live :
       \E p \in {[policies[i] EXCEPT !.name = "other"], [policies[i] EXCEPT !.wanted = FALSE],
                 NoPolicy} \cup {[policies[i] EXCEPT !.channels = c] : c \in Channels} :
         /\ policies' = [policies EXCEPT ![i] = p]
         /\ setup' = [o \in Operators |-> [setup[o] EXCEPT !.alone = FALSE]]
  /\ UNCHANGED metrics

PoliciesNext ==
  \/ Edit
  \/ \E o \in Operators : \/ BeginSetup(o) \/ CreateMetric(o) \/ ListPolicies(o)
                          \/ WritePolicy(o) \/ Again(o)

PoliciesSpec == PoliciesInit /\ [][PoliciesNext]_policiesVars

-----------------------------------------------------------------------------
\* A run of the script that nobody disturbs and that ends well has made every
\* metric and leaves one policy for each key, whatever earlier versions, runs
\* that failed half way or renames left behind: the one wanted, labelled, and
\* with the channels it had unless others were given.
SetupConverges ==
  \A o \in Operators :
    setup[o].pc = "done" /\ setup[o].alone =>
      /\ metrics = Keys
      /\ \A k \in Keys :
           /\ Cardinality(Known(k)) = 1
           /\ \A i \in Known(k) :
                /\ policies[i].wanted /\ policies[i].labelled
                /\ policies[i].channels = IF setup[o].given = {} THEN setup[o].before[k]
                                          ELSE setup[o].given

-----------------------------------------------------------------------------
(* What makes it inductive.                                                *)

PoliciesConstants ==
  Cardinality(Keys) \in Nat \ {0} /\ Keys = 1 .. Cardinality(Keys) /\ 0 \notin Ids

Policy ==
  [key : Keys, labelled : BOOLEAN, name : {"current", "legacy", "other"}, wanted : BOOLEAN,
   channels : SUBSET UNION Channels]
ScriptRun ==
  [pc : {"idle", "metrics", "list", "write", "done", "failed"}, key : Keys,
   given : Channels \cup {{}}, found : Ids \cup {0}, keeps : SUBSET UNION Channels,
   before : [Keys -> SUBSET UNION Channels], alone : BOOLEAN]
PoliciesTypeOK ==
  /\ metrics \subseteq Keys /\ edits \in Nat
  /\ policies \in [Ids -> Policy \cup {NoPolicy}]
  /\ setup \in [Operators -> ScriptRun]

\* A key whose policy is as SetupConverges asks, and one that the run has not come to.
KeySettled(run, k) ==
  \E i \in Ids : /\ Known(k) = {i} /\ policies[i].wanted /\ policies[i].labelled
                 /\ policies[i].channels = IF run.given = {} THEN run.before[k] ELSE run.given
Untouched(run, k) == run.before[k] = UNION {policies[i].channels : i \in Known(k)}

\* The policy to write is the one there is.
ListedIsThere(run) ==
  IF run.found = 0 THEN Known(run.key) = {} /\ run.keeps = {}
  ELSE Known(run.key) = {run.found} /\ run.keeps = policies[run.found].channels

\* How far a run has come if nobody else has changed a policy.
Progress(run) ==
  /\ run.pc = "metrics" => \A k \in Keys : Untouched(run, k)
  /\ run.pc \in {"list", "write"} =>
       \A k \in Keys : IF k < run.key THEN KeySettled(run, k) ELSE Untouched(run, k)
  /\ run.pc = "write" => ListedIsThere(run)
  /\ run.pc = "done" => \A k \in Keys : KeySettled(run, k)
MetricsMade(run) ==
  /\ run.pc = "metrics" => \A k \in Keys : k < run.key => k \in metrics
  /\ run.pc \in {"list", "write", "done"} => metrics = Keys

PoliciesInv ==
  /\ PoliciesTypeOK
  /\ \A o \in Operators : \A run \in {setup[o]} :
       MetricsMade(run) /\ (run.alone => Progress(run))
=============================================================================
