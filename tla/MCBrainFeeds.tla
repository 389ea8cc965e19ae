---------------------------- MODULE MCBrainFeeds ----------------------------
(* BrainFeeds for TLC: one agent at a time, and both with little to do.     *)
EXTENDS BrainFeeds

Setting(at, m, w, b, t, f) ==
  [start |-> at, market |-> m, whale |-> w, books |-> b, trades |-> t, faults |-> f]

MCSettings ==
  {Setting(4, "rolling", FALSE, 3, 0, 0), Setting(4, "rolling", FALSE, 2, 0, 2),
   Setting(4, "static", FALSE, 2, 0, 1), Setting(4, "off", TRUE, 0, 3, 0),
   Setting(6, "off", TRUE, 0, 2, 2), Setting(4, "rolling", TRUE, 1, 1, 0)}
=============================================================================
