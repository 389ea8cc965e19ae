----------------------------- MODULE OrderLedger -----------------------------
(***************************************************************************)
(* What the execution agent promises about live orders, with no process,   *)
(* lock or clock in sight: a slot is a market window in one life of Redis, *)
(* and a slot has at most one claim.  When Redis restarts empty the agent  *)
(* has forgotten its orders, and the slots of the next life are free.      *)
(***************************************************************************)
EXTENDS Naturals

CONSTANT Window

VARIABLES
  epoch,      \* lives of Redis so far
  claims,     \* orders started, as [win, epoch, holder]
  atExchange  \* those that reached the exchange

ledgerVars == <<epoch, claims, atExchange>>

Init == epoch = 0 /\ claims = {} /\ atExchange = {}

Free(w) == \A c \in claims : c.win = w => c.epoch # epoch

\* An order is started for a window whose slot is free.
Claim(c) ==
  /\ c.win \in Window /\ c.epoch = epoch
  /\ Free(c.win)
  /\ claims' = claims \cup {c}
  /\ UNCHANGED <<epoch, atExchange>>

\* An order reaches the exchange, once, at whatever time.
Arrive(c) ==
  /\ c \notin atExchange
  /\ atExchange' = atExchange \cup {c}
  /\ UNCHANGED <<epoch, claims>>

Forget ==
  /\ epoch' = epoch + 1
  /\ UNCHANGED <<claims, atExchange>>

\* A holder can be anything: the claim of a step is whatever the step adds.
Next ==
  \/ \E c \in claims' \ claims : Claim(c)
  \/ \E c \in claims : Arrive(c)
  \/ Forget

Spec == Init /\ [][Next]_ledgerVars

==============================================================================
