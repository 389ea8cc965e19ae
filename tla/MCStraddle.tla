----------------------------- MODULE MCStraddle ------------------------------
(* StraddleMeter for TLC: the spot on the beat, a little off, and unknown; *)
(* no quote; and, in the second window, a beat that is not known yet.      *)
EXTENDS StraddleMeter

MCReadings ==
  {[spot |-> 10, beat |-> 10, up |-> 20], [spot |-> 12, beat |-> 10, up |-> 80],
   [spot |-> 10, beat |-> 10, up |-> None], [spot |-> NoPrice, beat |-> 10, up |-> 50]}

MCFew == {[spot |-> 10, beat |-> 10, up |-> 20], [spot |-> 12, beat |-> NoPrice, up |-> 80]}
==============================================================================
