---------------------------- MODULE MCPaperBrain ----------------------------
(* PaperBrain for TLC: how much may fail with each strategy.                *)
EXTENDS PaperBrain

MCFailures == [s \in Strategies |-> IF s = "obi" THEN 1 ELSE 0]
MCStrikeFailures == [s \in Strategies |-> 1]
=============================================================================
