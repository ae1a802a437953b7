---------------------------- MODULE MCRollingPlan ----------------------------
(* The default arm and the true-five-year arm that reuses its selections. *)
EXTENDS RollingPlan

MCArms ==
  {[horizon |-> 2, suffix |-> "__refit01", trueFive |-> FALSE, refitOnly |-> FALSE, yearly |-> TRUE],
   [horizon |-> 2, suffix |-> "__true5y01", trueFive |-> TRUE, refitOnly |-> TRUE, yearly |-> FALSE]}
=============================================================================
