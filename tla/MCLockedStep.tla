---------------------------- MODULE MCLockedStep ----------------------------
(* Two orchestrators, both started with --resume, work on the same step.    *)
EXTENDS LockedStep, TLC

CONSTANTS o1, o2

TwoRunners == {o1, o2}
OneRunner  == {o1}
Alike      == Permutations(TwoRunners)
=============================================================================
