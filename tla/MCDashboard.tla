----------------------------- MODULE MCDashboard -----------------------------
(* Dashboard for TLC: mixes of what the environment may do, so that no run   *)
(* has to do everything at once, and .env without a line and with two that   *)
(* differ.                                                                   *)
EXTENDS Dashboard

Mix(lines, trades, asks, deploys, connects, vanishes, faults) ==
  [env |-> lines,
   budget |-> [k \in Kinds |-> CASE k = "trades" -> trades [] k = "asks" -> asks
                                 [] k = "deploys" -> deploys [] k = "connects" -> connects
                                 [] k = "vanishes" -> vanishes [] k = "faults" -> faults]]

Differ == <<"1", "0">>

MCSettings ==
  {Mix(<<>>, 0, 2, 1, 0, 0, 1), Mix(Differ, 0, 2, 1, 0, 0, 1), Mix(<<>>, 2, 0, 0, 2, 1, 0),
   Mix(<<>>, 1, 0, 0, 3, 1, 0), Mix(<<>>, 2, 1, 0, 1, 0, 1), Mix(<<>>, 1, 0, 0, 2, 1, 1),
   Mix(<<>>, 4, 0, 0, 1, 0, 1), Mix(<<>>, 3, 0, 0, 2, 0, 0)}
==============================================================================
