----------------------------- MODULE PaperLedger -----------------------------
(***************************************************************************)
(* What the paper trader promises about its bets: it bets on a window at   *)
(* most once and only on newer and newer windows, it settles a bet once,   *)
(* with the outcome of that very window, and it loses a bet only when the  *)
(* process that holds it ends, and the whole account with it.              *)
(***************************************************************************)
EXTENDS Naturals

VARIABLES
  truth,   \* how each window turns out, by its start
  open,    \* windows bet on and not settled
  settled  \* settled bets, as [win, outcome]

ledgerVars == <<truth, open, settled>>

Init == open = {} /\ settled = {}

Verdict(w) == [win |-> w, outcome |-> truth[w]]

\* No bet is on w or on a later window.
Newer(w) ==
  /\ \A v \in open : v < w
  /\ \A b \in settled : b.win < w

\* Settles the bets on `done`, and bets on the windows of `new`, one at most.
Turn(done, new) ==
  /\ done \subseteq open
  /\ \A w \in new : new = {w} /\ Newer(w)
  /\ open' = (open \ done) \cup new
  /\ settled' = settled \cup {Verdict(w) : w \in done}
  /\ UNCHANGED truth

Forget ==
  /\ open' = {} /\ settled' = {}
  /\ UNCHANGED truth

Next == Turn(open \ open', open' \ open) \/ Forget

Spec == Init /\ [][Next]_ledgerVars

==============================================================================
