--------------------------- MODULE MCGuardedObjects ---------------------------
(* The objects in Cloud Storage that several callers write under a          *)
(* generation precondition: the lock object, for a window refresh with the  *)
(* shorter lease and a full rebuild with the longer one (ControlLock), or   *)
(* the objects of the schema repair, for two workers of one run and one of  *)
(* another (OdsRepair).  The program that is not run stays where it began,  *)
(* so the properties of both may be asked for throughout.                   *)
EXTENDS ControlLock, OdsRepair, TLC

CONSTANTS window, rebuild

MCClient == {window, rebuild}
MCLease  == window :> 1 @@ rebuild :> 2

MCWorkers == {"w1", "w2", "w3"}
MCRunId == [w1 |-> "r1", w2 |-> "r1", w3 |-> "r2"]

VARIABLE program

MCInit ==
  /\ Init /\ RepairInit
  /\ \/ program = "lock" /\ source.shape = "contract"
     \/ program = "repair"
MCNext ==
  /\ UNCHANGED program
  /\ \/ program = "lock" /\ Next /\ UNCHANGED repairVars
     \/ program = "repair" /\ RepairNext /\ UNCHANGED vars

MCSpec == MCInit /\ [][MCNext]_<<program, vars, repairVars>>
=============================================================================
