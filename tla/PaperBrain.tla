----------------------------- MODULE PaperBrain ------------------------------
(***************************************************************************)
(* The brain's paper trade (src/2_brain_engine/main_brain.py and           *)
(* PaperTrader of paper_trader.py) on top of the price-to-beat feed.       *)
(*                                                                         *)
(* For every CEX quote the main loop takes the clock, the window and the   *)
(* strike, awaits Redis (the dashboard record, the generic signal), calls  *)
(* PaperTrader.update, and publishes what came of it, one XADD at a time:  *)
(* an OPEN record goes to stream:entries, where the execution agent finds  *)
(* it, and then, like a SETTLED one, to stream:trades.  The feed's task    *)
(* may run at each of these awaits.  A restart forgets everything.         *)
(***************************************************************************)
EXTENDS PriceToBeatFeed, Sequences, SequencesExt

CONSTANTS
  Strategies,  \* values of PAPER_STRATEGY considered
  CheapPrice,  \* what the cheaper side may cost, in cents
  MinEntry,    \* OBI_MIN_ENTRY, in cents
  DipMax,      \* DIP_MAX, in cents
  ValueMax,    \* OBI_VALUE_MAX, in cents
  RevWin,      \* REVERSAL_WINDOW_SEC
  PasTail,     \* how long before the end a "dip" slot is given up: 2 s
  LockAt,      \* SIGNAL_SAMPLE_SEC
  Stake,       \* PAPER_STAKE, in cents
  LoopMax,     \* how long the loop may take from its clock reading to its last XADD
  LastBet,     \* bound: no bet on a window that starts later
  Failures     \* bound: requests and XADDs that may fail, by strategy

ASSUME BrainAssumption ==
  /\ Strategies \subseteq {"dip", "obi"}
  /\ CheapPrice \subseteq 1..50
  /\ {RevWin, PasTail, LockAt} \subseteq 0..WindowLen
  /\ {MinEntry, DipMax, ValueMax, Stake, LoopMax, LastBet} \subseteq Nat
  /\ Failures \in [Strategies -> 0..MaxFails]

VARIABLES
  strategy,  \* PAPER_STRATEGY
  truth,     \* how each window turns out, by its start: what Polymarket resolves it to
  faults,    \* XADDs that raised so far
  loop,      \* where the main loop is
  sample,    \* win, now_sec and (as the window it belongs to) strike of this turn
  slot,      \* open_trade: the slot of the current window
  pending,   \* slots bet on and awaiting settlement
  wins, losses, pnl,
  outbox,    \* the records of _to_publish being published
  entered,   \* the head of outbox is in stream:entries
  opened,    \* windows this run of main_brain.py bet on
  settled,   \* bets it settled
  entries,   \* what it added to stream:entries
  trades     \* what it added to stream:trades

traderVars == <<slot, pending, wins, losses, pnl, opened, settled>>
streamVars == <<entries, trades>>
brainVars  == <<strategy, truth, faults, loop, sample, traderVars, outbox, entered,
                streamVars>>
vars == <<feedVars, brainVars>>

Dir == {"LONG", "SHORT"}
Starts == {e - WindowLen : e \in Ends}
Other(d) == IF d = "LONG" THEN "SHORT" ELSE "LONG"

NoSample == [win |-> 0, at |-> 0, strike |-> 0]

\* `dir` is None ("watching") until the slot is locked, by a bet or by a pass.
Slot(w) == [win |-> w, dir |-> "watching", price |-> 0, strike |-> 0]
Bet(s, d, p) == [s EXCEPT !.dir = d, !.price = p, !.strike = sample.strike]
Pas(s) == [s EXCEPT !.dir = "PAS"]
IsBet(s) == s.dir \in Dir

\* What the loop's readings of the market come to: the quote of the window's market (if
\* fresh), the side the spot price is on, the side the book leans to (if it leans enough),
\* and whether the spot is near enough to the strike.
Market == [quoted : BOOLEAN, cheap : Dir, price : CheapPrice, lead : Dir, obi : Dir \cup {"weak"},
           near : BOOLEAN]

\* The cheaper side is the losing one, the book leans to it, and it costs what a dip costs.
Reversal(m) ==
  /\ m.quoted /\ m.near
  /\ m.cheap = Other(m.lead) /\ m.obi = m.cheap
  /\ m.price \in MinEntry..DipMax

DipChoice(s, secIn, m) ==
  CASE secIn < WindowLen - RevWin -> s
    [] secIn >= WindowLen - RevWin /\ Reversal(m) -> Bet(s, m.cheap, m.price)
    [] secIn >= WindowLen - RevWin /\ ~Reversal(m) ->
         IF secIn >= WindowLen - PasTail THEN Pas(s) ELSE s

ObiChoice(s, secIn, m) ==
  LET price == IF m.obi = m.cheap THEN m.price ELSE 100 - m.price IN
  IF secIn < LockAt THEN s
  ELSE IF m.quoted /\ m.obi \in Dir /\ price \in MinEntry..ValueMax THEN Bet(s, m.obi, price)
  ELSE Pas(s)

\* Mutant: a slot that was locked is looked at again.
DecisionsUnlocked(s, secIn) ==
  {IF strategy = "dip" THEN DipChoice(s, secIn, m) ELSE ObiChoice(s, secIn, m) : m \in Market}

\* What update may make of the slot, over all the market may show.
Decisions(s, secIn) ==
  IF s.dir # "watching" THEN {s}
  ELSE {IF strategy = "dip" THEN DipChoice(s, secIn, m) ELSE ObiChoice(s, secIn, m) : m \in Market}

ShareQty(p) == (100 * Stake) \div p
Profit(p, won) == IF won THEN (Stake * (100 - p)) \div p ELSE -Stake

\* Mutants: the key of the window before, and one no page will list.
SettleKeyStart(s) == s.win
SettleKeyLate(s) == s.win + WindowLen + 1

\* A closed window is keyed by its end.
SettleKey(s) == s.win + WindowLen

Result(end) == truth[end - WindowLen]

Settled(s) ==
  [win |-> s.win, dir |-> s.dir, price |-> s.price,
   outcome |-> Result(SettleKey(s))]
Won(b) == b.dir = b.outcome

\* The bets in the order of their windows, in which they were queued.
ByWindow(bets) ==
  CHOOSE q \in [1..Cardinality(bets) -> bets] : \A i, j \in DOMAIN q : i < j => q[i].win < q[j].win

OpenRow(s) == [status |-> "OPEN", win |-> s.win, left |-> s.win + WindowLen - sample.at]
SettledRow(b) == [status |-> "SETTLED", win |-> b.win, left |-> 0]

TotalProfit(bets) == FoldLeft(LAMBDA sum, b : sum + Profit(b.price, Won(b)), 0, bets)

Init ==
  /\ FeedInit
  /\ strategy \in Strategies /\ fails = Failures[strategy]
  /\ truth \in [Starts -> Dir]
  /\ \A w \in Starts : w + WindowLen <= StartTime => truth[w] = "LONG"  \* never bet on
  /\ faults = 0
  /\ loop = "idle" /\ sample = NoSample
  /\ slot = Slot(0) /\ pending = {}
  /\ wins = 0 /\ losses = 0 /\ pnl = 0
  /\ outbox = <<>> /\ entered = FALSE
  /\ opened = {} /\ settled = {}
  /\ entries = <<>> /\ trades = <<>>

------------------------------------------------------------------------------

\* The loop spends its time waiting for quotes; a turn is over within LoopMax.
Tick ==
  /\ FeedTick
  /\ loop # "idle" => now < sample.at + LoopMax
  /\ UNCHANGED brainVars

FeedStep == Fetches /\ UNCHANGED brainVars

\* A quote has come: everything the loop computes before its first await.
Sample ==
  /\ loop = "idle"
  /\ loop' = "sampled"
  /\ sample' = [win |-> WindowOf(now), at |-> now,
                strike |-> IF beat # 0 THEN beat ELSE WindowOf(now)]
  /\ UNCHANGED <<feedVars, strategy, truth, faults, traderVars, outbox, entered, streamVars>>

\* Mutants: a bet that is dropped when its window ends, one settled but kept, and a slot
\* queued whether or not it was bet on.
KeptDropped(due, prev) == pending \ due
KeptAll(due, prev) == pending \cup prev
KeptWatching(due, prev) == (pending \ due) \cup {slot}

\* The bets that wait on: those without a result yet, and the one of the slot rotated out.
Kept(due, prev) == (pending \ due) \cup prev

\* PaperTrader.update: settle, rotate the slot, decide.
Update ==
  LET due    == {s \in pending : SettleKey(s) \in closed}
      done   == ByWindow({Settled(s) : s \in due})
      rotate == slot.win # sample.win
      prev   == IF rotate /\ IsBet(slot) THEN {slot} ELSE {}
      fresh  == IF rotate THEN Slot(sample.win) ELSE slot
      won    == {b \in {Settled(s) : s \in due} : Won(b)}
  IN
  /\ loop = "sampled"
  /\ loop' = "drain"
  /\ \E s \in Decisions(fresh, sample.at - sample.win) :
       /\ IsBet(s) => s.win <= LastBet
       /\ slot' = s
       /\ opened' = IF IsBet(s) THEN opened \cup {s.win} ELSE opened
       /\ outbox' = [i \in DOMAIN done |-> SettledRow(done[i])]
                    \o (IF IsBet(s) /\ ~IsBet(fresh) THEN <<OpenRow(s)>> ELSE <<>>)
  /\ pending' = Kept(due, prev)
  /\ settled' = settled \cup {Settled(s) : s \in due}
  /\ pnl' = pnl + TotalProfit(done)
  /\ wins' = wins + Cardinality(won)
  /\ losses' = losses + Cardinality(due) - Cardinality(won)
  /\ UNCHANGED <<feedVars, strategy, truth, faults, sample, entered, streamVars>>

------------------------------------------------------------------------------
(* The publication of the records, head by head. *)

Fault ==
  /\ fails > 0 /\ fails' = fails - 1
  /\ faults' = faults + 1
  /\ UNCHANGED <<now, beat, closed, ended>>

\* Mutant: the row is added, the entry is not.
NeedsEntryNever(row) == FALSE

NeedsEntry(row) == row.status = "OPEN" /\ ~entered

PublishEntry ==
  /\ loop = "drain" /\ outbox # <<>>
  /\ NeedsEntry(Head(outbox))
  /\ entries' = Append(entries, [win |-> Head(outbox).win,
                                 left |-> Head(outbox).left, ts |-> now])
  /\ entered' = TRUE
  /\ UNCHANGED <<feedVars, strategy, truth, faults, loop, sample, traderVars, outbox, trades>>

PublishTrade ==
  /\ loop = "drain" /\ outbox # <<>>
  /\ ~NeedsEntry(Head(outbox))
  /\ trades' = Append(trades, Head(outbox))
  /\ outbox' = Tail(outbox) /\ entered' = FALSE
  /\ UNCHANGED <<feedVars, strategy, truth, faults, loop, sample, traderVars, entries>>

\* Either XADD raises: the error is logged and the record is gone, also when half of it was
\* published.
PublishFails ==
  /\ loop = "drain" /\ outbox # <<>>
  /\ Fault
  /\ outbox' = Tail(outbox) /\ entered' = FALSE
  /\ UNCHANGED <<strategy, truth, loop, sample, traderVars, streamVars>>

TurnDone ==
  /\ loop = "drain" /\ outbox = <<>>
  /\ loop' = "idle" /\ sample' = NoSample
  /\ UNCHANGED <<feedVars, strategy, truth, faults, traderVars, outbox, entered, streamVars>>

\* The process ends, at any await, and another one starts with nothing; what is in Redis
\* stays there, but is not the new run's.
Restart ==
  /\ beat' = 0 /\ closed' = {} /\ ended' = now
  /\ loop' = "idle" /\ sample' = NoSample
  /\ slot' = Slot(0) /\ pending' = {} /\ opened' = {} /\ settled' = {}
  /\ wins' = 0 /\ losses' = 0 /\ pnl' = 0
  /\ outbox' = <<>> /\ entered' = FALSE /\ entries' = <<>> /\ trades' = <<>>
  /\ UNCHANGED <<now, fails, strategy, truth, faults>>

LoopStep == Sample \/ Update \/ PublishEntry \/ PublishTrade \/ TurnDone

Next == Tick \/ FeedStep \/ LoopStep \/ PublishFails \/ Restart

Spec == Init /\ [][Next]_vars

------------------------------------------------------------------------------
(* What the paper trade promises. *)

Records == [status : {"OPEN", "SETTLED"}, win : Nat, left : Int]
Slots == [win : Nat, dir : Dir \cup {"watching", "PAS"}, price : Nat, strike : Nat]

TypeOK ==
  /\ FeedTypeOK
  /\ strategy \in Strategies /\ truth \in [Starts -> Dir]
  /\ faults \in Nat
  /\ loop \in {"idle", "sampled", "drain"}
  /\ sample \in [win : Nat, at : Nat, strike : Nat]
  /\ slot \in Slots
  /\ pending \subseteq Slots /\ \A s \in pending : IsBet(s)
  /\ wins \in Nat /\ losses \in Nat /\ pnl \in Int
  /\ outbox \in Seq(Records) /\ entered \in BOOLEAN
  /\ opened \subseteq Nat
  /\ settled \subseteq [win : Nat, dir : Dir, price : Nat, outcome : Dir]
  /\ entries \in Seq([win : Nat, left : Int, ts : Nat])
  /\ trades \in Seq(Records)

Held == pending \cup (IF IsBet(slot) THEN {slot} ELSE {})
HeldWindows == {s.win : s \in Held}
SettledWindows == {b.win : b \in settled}

\* No bet is lost or settled twice by the rotation of slots, the settlement or the pruning of
\* the feed: every window bet on in this life is held or settled, never both, and nothing is
\* held twice.
BetsAccounted ==
  /\ opened = HeldWindows \cup SettledWindows
  /\ HeldWindows \cap SettledWindows = {}
  /\ \A s, t \in Held : s.win = t.win => s = t

\* A run of the brain sends the execution agent at most one candidate per window, in the
\* order of the windows, whatever is held, settled or being published meanwhile.  The
\* execution agent's order lock has to cope only with different runs.
EntriesOncePerWindow ==
  \A i, j \in DOMAIN entries :
    i < j => entries[i].win < entries[j].win

\* A bet is settled after its window, by what that window turned out to be, although the
\* results are keyed by another time than the bets and arrive by another task.
SettledByItsWindow ==
  \A b \in settled : b.win + WindowLen <= now /\ b.outcome = truth[b.win]

\* The published account adds up: every settled bet cost one stake, and those won were paid
\* the share quantity the dashboard shows.
Payouts(bets) == MapThenSumSet(LAMBDA b : ShareQty(b.price), bets)
AccountAddsUp ==
  /\ wins + losses = Cardinality(settled)
  /\ wins = Cardinality({b \in settled : Won(b)})
  /\ pnl = Payouts({b \in settled : Won(b)}) - Stake * (wins + losses)

\* The trade list never shows an OPEN row the execution agent had no entry for, and while no
\* XADD fails it shows no SETTLED row before the OPEN row of the same bet.
RowsInOrder ==
  \A i \in DOMAIN trades :
    LET row == trades[i] IN
    IF row.status = "OPEN"
    THEN \E e \in Range(entries) : e.win = row.win
    ELSE faults = 0 => \E j \in 1..(i - 1) :
           trades[j].status = "OPEN" /\ trades[j].win = row.win

\* The same promises as an abstract machine: see PaperLedger.
Ledger == INSTANCE PaperLedger WITH
  open <- HeldWindows,
  settled <- {[win |-> b.win, outcome |-> b.outcome] : b \in settled}
ImplementsPaperLedger == Ledger!Spec

\* Stated by the comment at the strike of the main loop: it is Polymarket's exact price to
\* beat.  p2b.price is used whatever window it belongs to, so a bet can be judged against the
\* beat of an earlier window.
StrikeOfItsWindow == \A s \in Held : s.strike = s.win

\* The clock, the feed's task and the loop go on, as long as quotes come and Redis answers.
Fairness == WF_vars(Tick) /\ WF_vars(FeedStep) /\ WF_vars(LoopStep)

FairSpec == Spec /\ Fairness

\* Every bet is settled in the end, or lost in a restart.
BetsSettle == \A w \in Starts : w \in HeldWindows ~> w \notin HeldWindows

==============================================================================
