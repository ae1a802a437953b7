---------------------------- MODULE MCNativeSearch ----------------------------
(* The search with its jobs, and the gate it judges their backtests by: either   *)
(* the search over three candidates whose merit is chosen (CandidateSearch), or  *)
(* the judging of one backtest in full (AcceptanceGate): a NAV of one to three   *)
(* days, or of four, against two indexes, with a registry row that passes; and a *)
(* NAV that passes (or not) with a row of which two fields are off.              *)
EXTENDS CandidateSearch, AcceptanceGate

G(cv, cvIc, ic, coverage) ==
  [cv |-> cv, cvIc |-> cvIc, ic |-> ic, coverage |-> coverage, converged |-> TRUE]
Strong == G("passed", 2, 1, 90)
Weak == G("passed", 1, 2, 90)
Refused == G("failed", 3, -1, 90)     \* by the cross-validation
Thin == G("passed", 3, 2, 80)        \* its coverage is below that of its peers
NoSignal == G("passed", 1, -1, 90)

Passing ==
  [cv |-> {"passed"}, cvIc |-> {1}, cvTb |-> {1}, folds |-> {3}, legacy |-> FALSE,
   signal |-> {"stable"}, orient |-> {"identity"}, ic |-> {1}, tb |-> {1},
   testIc |-> {1}, testTb |-> {1}, storedTestIc |-> {}, storedTestTb |-> {},
   report |-> TRUE, diagnosed |-> TRUE, oldMask |-> FALSE, inverted |-> FALSE,
   weak |-> FALSE, otherHorizon |-> FALSE, unexplained |-> FALSE, costly |-> FALSE,
   yearExcess |-> {1}, excess |-> {1}, total |-> {1}, sharpe |-> {1}, drawdown |-> {1},
   days |-> {1}, hExcess |-> {2}, hTotal |-> {2}, holdout |-> {}, wave |-> 1,
   riskFeatures |-> FALSE]

Signs == {{}, {0}, {-1}}
Off ==
  [f \in {"ic", "tb", "testIc", "testTb", "yearExcess", "excess", "total", "sharpe",
          "drawdown"} |-> Signs]
    @@ [f \in {"oldMask", "inverted", "weak", "otherHorizon", "unexplained", "costly",
               "riskFeatures", "legacy"} |-> {TRUE}]
    @@ [f \in {"report", "diagnosed"} |-> {FALSE}]
    @@ [f \in {"hExcess", "hTotal"} |-> {{}, {0}, {1}}]
    @@ [f \in {"cvIc", "cvTb"} |-> {{}, {0}}]
    @@ [f \in {"storedTestIc", "storedTestTb"} |-> {{-1}, {1}}]
    @@ [cv |-> {{}, {"failed"}, {"missing"}, {"other"}}, folds |-> {{}, {2}},
        signal |-> {{}, {"weak"}, {"failed"}, {"other"}},
        orient |-> {{}, {"reverse_probability"}, {"other"}}, days |-> {{}, {0}},
        holdout |-> {{"passed"}, {"failed"}}, wave |-> {4}]

Changes == UNION {{<<f, v>> : v \in Off[f]} : f \in DOMAIN Off}
GateRows == {[Passing EXCEPT ![c[1]] = c[2], ![d[1]] = d[2]] : c, d \in Changes} \cup {Passing}

Navs == UNION {[1..n -> 1..3] : n \in 1..3}
Closes(days, values) == [days -> {{v} : v \in values}]
Indexes ==
  {[b1 |-> c, b2 |-> d] : c \in Closes(1..3, {1, 2, 3}),
     d \in {<<{2}, {2}, {2}>>, <<{1}, {3}, {2}>>, <<{2}, {}, {1}>>, <<{1}, {1}>>}}
Flat == [b1 |-> <<{2}, {2}, {2}, {2}>>, b2 |-> <<{2}, {2}, {2}, {2}>>]
LongIndexes ==
  {Flat, [b1 |-> <<{2}, {3}, {1}, {3}>>, b2 |-> <<{1}, {1}, {}, {2}>>],
   [b1 |-> <<{2}, {2}, {2}>>, b2 |-> <<{1}, {1}, {2}, {1}>>]}

Inputs(contract, nav, closes, vol, n) ==
  [contract |-> contract, nav |-> nav, closes |-> closes, vol |-> vol, backtests |-> n]

MCCases ==
  {[inputs |-> {Inputs("v3", n, i, v, 1) :
                  n \in Navs, i \in Indexes, v \in {{}, {<<1, 2>>}, {<<8, 1>>}}},
    rows |-> {Passing}],
   [inputs |-> {Inputs("v3", n, i, {<<1, 2>>}, 1) : n \in [1..4 -> 1..3], i \in LongIndexes},
    rows |-> {Passing}],
   [inputs |-> {Inputs("v3", n, Flat, {<<1, 2>>}, k) :
                  n \in {<<1, 3, 2>>, <<3, 1, 2>>, <<3, 1, 3, 2>>}, k \in 0..2},
    rows |-> GateRows],
   [inputs |-> {Inputs("v1", <<1, 3, 2>>, Flat, {}, 1)}, rows |-> GateRows]}

MCGradings == {<<Weak, Thin, Strong>>, <<NoSignal, Refused, NoSignal>>}

MCBenchmarks == {"b1", "b2"}
MCWindow == 1..3
ASSUME GateHypothesis == CasesAreSound

VARIABLE mode

\* What is not run stays where it began, at one of its beginnings.
OneCase == Inputs("v1", <<1, 3, 2>>, Flat, {}, 1)

MCInit ==
  /\ SearchInit /\ GateInit
  /\ \/ mode = "search" /\ case = OneCase /\ row = Passing
     \/ mode = "gate" /\ force = FALSE

MCNext ==
  /\ UNCHANGED mode
  /\ \/ mode = "search" /\ SearchNext /\ UNCHANGED gateVars
     \/ mode = "gate" /\ GateNext /\ UNCHANGED searchVars

MCSpec == MCInit /\ [][MCNext]_<<mode, searchVars, gateVars>>
=============================================================================
