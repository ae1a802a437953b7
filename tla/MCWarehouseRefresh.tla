------------------------- MODULE MCWarehouseRefresh -------------------------
(* Times in units of 900 s: the window lease of 4500 s is 5 ticks and its   *)
(* task timeout of 1800 s is 2; the full rebuild reaches the lock at least  *)
(* every 5 ticks against a lease of 21600 s, which is 24.                   *)
EXTENDS WarehouseRefresh, TLC

CONSTANTS w1, w2, r1

WindowRebuild  == {w1, r1}
KindOf == [w \in Client |-> IF w = r1 THEN "rebuild" ELSE "window"]
LeaseOf == [w \in Client |-> IF w = r1 THEN 24 ELSE 5]
Limits == [k \in {"window", "rebuild"} |-> IF k = "window" THEN 2 ELSE 5]
=============================================================================
