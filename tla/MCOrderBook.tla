----------------------------- MODULE MCOrderBook -----------------------------
(* OrderBook for TLC: one bid and one ask to begin with. *)
EXTENDS OrderBook

MCFirstBook == [l \in Level |-> IF l \in {<<"bid", 1>>, <<"ask", 3>>} THEN 1 ELSE 0]
==============================================================================
