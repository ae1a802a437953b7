----------------------------- MODULE MCPromotion -----------------------------
(* Instance of Promotion for TLC: three days and two years; the source of   *)
(* the second year also predicts the first one's day, its validation data.  *)
EXTENDS Promotion, TLC

Slice(y, a, b) == [year |-> y, first |-> a, last |-> b]
Window(a, b) == [first |-> a, last |-> b]

MCDays == 1..3
MCSourceDays == (1 :> {1}) @@ (2 :> {1, 2, 3})
MCManifests == {{Slice(1, 1, 1), Slice(2, 2, 3)}, {Slice(2, 1, 3)}}
MCWindows == {Window(1, 3), Window(2, 3)}
MCPromotionWindows == {Window(1, 3), Window(2, 3)}
MCRoleSets == {Roles, {"summary", "nav"}}
=============================================================================
