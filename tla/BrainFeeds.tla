----------------------------- MODULE BrainFeeds -----------------------------
(***************************************************************************)
(* Two of the brain's feeds on one clock: the price of the current market  *)
(* (MarketFeed) and the flow of trades (WhaleFlow). An agent whose URL is  *)
(* not set is off.                                                         *)
(***************************************************************************)
EXTENDS MarketFeed, WhaleFlow

CONSTANTS Settings,   \* the settings a run may have: when it starts, which
                      \* agents are on, and bounds on what the world does
          Horizon     \* bound: the clock

ASSUME FeedsAssumption ==
  /\ Settings \subseteq [start : Nat, market : Modes, whale : BOOLEAN, books : Nat,
                         trades : Nat, faults : Nat]
  /\ Horizon \in Nat

vars == <<now, market, whale>>

TypeOK == now \in Nat /\ MarketTypeOK /\ WhaleTypeOK

Init == \E s \in Settings : /\ now = s.start
                           /\ MarketInit(s.market, s.books, s.faults)
                           /\ WhaleInit(s.whale, s.trades, s.faults)

Tick == /\ now < Horizon /\ MarketLetsTick
        /\ now' = now + 1 /\ UNCHANGED <<market, whale>>

Next == \/ Tick
        \/ MarketNext /\ UNCHANGED <<now, whale>>
        \/ WhaleNext /\ UNCHANGED <<now, market>>

Spec == Init /\ [][Next]_vars

(* The clock goes on, and so does the agent.                                *)
FairSpec == /\ Spec /\ WF_vars(Tick)
            /\ WF_vars(AgentGoesOn /\ UNCHANGED <<mode, quote, now, whale>>)
=============================================================================
