---------------------------- MODULE MCIngestion ----------------------------
(* Instance of Ingestion for TLC: two endpoints, two executions; reports   *)
(* of a day fall into the periods 2, also a day, and 12.                   *)
EXTENDS Ingestion

MCExec == {"e1", "e2"}
MCEndpoints == <<"income", "dividend">>
MCSemantics == [income |-> "report_period", dividend |-> "business_date"]
MCLookback == [income |-> 1, dividend |-> 2]
MCEndDate == <<2, 12, 2, 12>>

Given(day, mode, income, dividend, server) ==
    [day |-> [e1 |-> day[1], e2 |-> day[2]], mode |-> [e1 |-> mode[1], e2 |-> mode[2]],
     rows |-> [income |-> income, dividend |-> dividend], server |-> server]
Live == <<"write", "write">>

MCSettings ==
    { Given(<<2, 3>>, Live, <<0, 3, 1>>, <<0, 0, 1>>, "pages"),  \* two days
      Given(<<2, 2>>, Live, <<0, 2, 0>>, <<1, 2, 0>>, "pages"),  \* a rerun
      Given(<<2, 3>>, Live, <<0, 1, 3>>, <<1, 1, 1>>, "ignores"),
      Given(<<1, 3>>, Live, <<1, 0, 4>>, <<1, 1, 1>>, "pages"),  \* too early, too much
      Given(<<3, 2>>, <<"read_only", "dry_run">>, <<1, 1, 1>>, <<1, 0, 3>>, "pages") }
=============================================================================
