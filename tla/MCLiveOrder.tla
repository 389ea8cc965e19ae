----------------------------- MODULE MCLiveOrder -----------------------------
(* LiveOrder for TLC: a behaviour has one setting, rich in some of what may happen. *)
EXTENDS LiveOrder

CONSTANT Settings
VARIABLE setting

\* What a setting leaves to the environment.  Runs are named in the order of their start.
Within(s) ==
  /\ \A p \in Proc : pc'[p] # "off" => p <= s.procs /\ \A q \in 1..p : pc'[q] # "off"
  /\ Len(stream') <= s.entries /\ epoch' <= s.losses /\ faults' <= s.faults
  /\ \A i \in DOMAIN stream' : stream'[i].win \in s.windows \cup {0}
  /\ dotenv' # dotenv => s.switches = BOOLEAN

MCInit ==
  /\ Init
  /\ setting \in Settings
  /\ source \in setting.sources /\ mode \in setting.modes /\ dotenv \in setting.switches

MCNext == Next /\ Within(setting) /\ UNCHANGED setting
MCSpec == MCInit /\ [][MCNext]_<<vars, setting>> /\ Fairness

Live(procs, entries, losses) ==
  [procs |-> procs, windows |-> {3}, entries |-> entries, losses |-> losses, faults |-> 0,
   sources |-> {"entries"}, modes |-> {"LIVE"}, switches |-> {TRUE}]

Overlap == Live(2, 2, 0)
Restarted == Live(2, 1, 1)
Lost == Live(1, 2, 1)
Alone ==
  [procs |-> 1, windows |-> {3, 6}, entries |-> 2, losses |-> 0, faults |-> 1,
   sources |-> {"entries", "signals"}, modes |-> {"LIVE"}, switches |-> BOOLEAN]
Rehearsed == [Alone EXCEPT !.entries = 1, !.modes = {"DRY_RUN"}]

MCSettings == {Overlap, Restarted, Lost, Alone, Rehearsed}
==============================================================================
