------------------------------- MODULE WhatIf --------------------------------
(***************************************************************************)
(* What else the brain's main loop does with a quote: the two what-if      *)
(* simulators (StrongObiSimulator and SpotObiSimulator of                  *)
(* src/2_brain_engine/paper_trader.py) and the meters that count how often *)
(* the order book was right (signal_meter.py, obi_compare_meter.py).       *)
(*                                                                         *)
(* All of them settle first and look at the window of the turn after, and  *)
(* the turn's window comes from a clock reading that is as old as the      *)
(* awaits before it: the result of a window may be in while the loop is    *)
(* still in that window.                                                   *)
(***************************************************************************)
EXTENDS PriceToBeatFeed, Sequences, SequencesExt

CONSTANTS
  Sims,          \* simulators considered: "strong", "spot"
  ReversalOnly,  \* SPOT_OBI_REVERSAL_ONLY
  Price,         \* what the side bought may cost, in cents
  MinEntry,      \* min_entry, in cents
  MaxEntry,      \* max_entry, in cents
  MinLeft,       \* min_sec_left
  MaxLeft,       \* max_sec_left
  SampleAt,      \* SIGNAL_SAMPLE_SEC
  Stake,         \* PAPER_STAKE, in cents
  LoopMax,       \* how long the loop may take from its clock reading to its last XADD
  LastWin,       \* bound: nothing is bet on or sampled in a window that starts later
  MaxFaults      \* bound: XADDs that raise

ASSUME WhatIfAssumption ==
  /\ Sims \subseteq {"strong", "spot"} /\ ReversalOnly \in BOOLEAN
  /\ Price \subseteq 1..99
  /\ {MinLeft, MaxLeft, SampleAt} \subseteq 0..WindowLen
  /\ {MinEntry, MaxEntry, Stake, LoopMax, LastWin, MaxFaults} \subseteq Nat

VARIABLES
  sim,       \* the simulator looked at: the two share nothing
  truth,     \* how each window turns out, by its start
  faults,    \* XADDs that raised so far
  loop,      \* where the main loop is
  sample,    \* win_ts and now_sec of this turn
  bets,      \* the simulator's `pending`
  openWins,  \* its open_windows
  results,   \* the bets it settled; their windows are its settled_windows
  pnl,
  bands,     \* how many of them fell into each band of prices, and their net
  outbox,    \* its _to_publish
  rows,      \* what this run of main_brain.py added to its stream
  samples,   \* `pending` of a meter: the windows it has sampled
  counted,   \* how often it counted each window: `total` is the sum
  overran    \* windows that had ended when a turn that began in them updated

simVars   == <<bets, openWins, results, pnl, bands>>
meterVars == <<samples, counted, overran>>
vars == <<feedVars, sim, truth, faults, loop, sample, simVars, outbox, rows, meterVars>>

Dir == {"LONG", "SHORT"}
Starts == {e - WindowLen : e \in Ends}
NoTurn == [win |-> 0, at |-> 0]

\* What the loop's readings come to: is there a quote of the window's market, is the spot
\* near enough to the strike and which side is it on, where does the book lean, and do the
\* other book, the whales and the perpetual not speak against it.
Market == [quoted : BOOLEAN, near : BOOLEAN, lead : Dir \cup {"even"},
           obi : Dir \cup {"weak"}, backed : BOOLEAN, price : Price]

Enters(m) ==
  /\ m.quoted /\ m.near /\ m.obi \in Dir
  /\ sim = "strong" \/ ReversalOnly => m.obi # m.lead
  /\ sim = "strong" => m.backed
  /\ MinEntry <= m.price /\ m.price <= MaxEntry

\* Mutant: the result of the window before, which ended when this one began.
ResultInEarly(w) == w \in closed

\* Results are keyed by the end of a window.
ResultIn(w) == w + WindowLen \in closed

\* Mutant: only the bets still pending are remembered.
KnownPending(w) == ~ResultIn(w) /\ \E b \in Range(bets) : b.win = w

Known(w) == w \in openWins \/ \E b \in Range(results) : b.win = w

InRange(secLeft) == MinLeft <= secLeft /\ secLeft <= MaxLeft

\* The bets that may be placed in this turn, as sequences of one or none.
Entries ==
  {<<>>} \cup
  (IF \/ Known(sample.win)
      \/ ~InRange(sample.win + WindowLen - sample.at)
      \/ sample.win > LastWin
   THEN {}
   ELSE {<<[win |-> sample.win, dir |-> m.obi, price |-> m.price]>> :
           m \in {n \in Market : Enters(n)}})

Profit(b) == IF b.dir = b.outcome THEN (Stake * (100 - b.price)) \div b.price ELSE -Stake
Net(judged) == FoldLeft(LAMBDA sum, b : sum + Profit(b), 0, judged)

\* The members of a list that pass, as a loop over it collects them.
Select(list, passing) ==
  FoldLeft(LAMBDA kept, x : IF x \in passing THEN Append(kept, x) ELSE kept, <<>>, list)

\* Mutant: the open record is merged over the settled one, with its empty outcome.
JudgedUnder(b) == [win |-> b.win, dir |-> b.dir, price |-> b.price, outcome |-> ""]

Judged(b) == [win |-> b.win, dir |-> b.dir, price |-> b.price, outcome |-> truth[b.win]]

Bands == {"0-10c", "10-20c", "20c+"}

BandOf(price) == IF price < 10 THEN "0-10c" ELSE IF price < 20 THEN "10-20c" ELSE "20c+"

\* _add_band.
AddBand(table, b) ==
  [table EXCEPT ![BandOf(b.price)] = [n |-> @.n + 1, net |-> @.net + Profit(b)]]

\* Mutant: every row shows the net of the whole turn.
NetAfterAll(judged, k) == pnl + Net(judged)

\* pnl_after the k-th bet settled in this turn.
NetAfter(judged, k) == pnl + Net(SubSeq(judged, 1, k))

NewRows(judged, new) ==
  [k \in DOMAIN judged |-> [status |-> "SETTLED", bet |-> judged[k],
                            net |-> NetAfter(judged, k)]]
  \o [k \in DOMAIN new |-> [status |-> "OPEN", bet |-> new[k],
                            net |-> NetAfter(judged, Len(judged))]]

NoBands == [l \in Bands |-> [n |-> 0, net |-> 0]]
NoCounts == [w \in Starts |-> 0]

Init ==
  /\ FeedInit
  /\ bets = <<>> /\ openWins = {} /\ results = <<>> /\ pnl = 0 /\ bands = NoBands
  /\ samples = {} /\ counted = NoCounts /\ overran = {}
  /\ sim \in Sims /\ truth \in [Starts -> Dir]
  /\ faults = 0
  /\ loop = "idle" /\ sample = NoTurn
  /\ outbox = <<>> /\ rows = <<>>

------------------------------------------------------------------------------

Tick ==
  /\ FeedTick
  /\ loop # "idle" => now < sample.at + LoopMax
  /\ UNCHANGED <<sim, truth, faults, loop, sample, simVars, outbox, rows, meterVars>>

FeedStep ==
  Fetches /\ UNCHANGED <<sim, truth, faults, loop, sample, simVars, outbox, rows, meterVars>>

\* A quote has come: the clock is read.
Sample ==
  /\ loop = "idle"
  /\ loop' = "sampled"
  /\ sample' = [win |-> WindowOf(now), at |-> now]
  /\ UNCHANGED <<feedVars, sim, truth, faults, simVars, outbox, rows, meterVars>>

\* update of the simulator: settle, then bet if the turn allows it.
SimUpdate ==
  LET due    == {b \in Range(bets) : ResultIn(b.win)}
      done   == Select(bets, due)
      judged == [k \in DOMAIN done |-> Judged(done[k])]
  IN
  \E new \in Entries :
    /\ bets' = Select(bets, Range(bets) \ due) \o new
    /\ openWins' = openWins \cup {b.win : b \in Range(new)}
    /\ results' = results \o judged
    /\ pnl' = NetAfter(judged, Len(judged))
    /\ bands' = FoldLeft(AddBand, bands, judged)
    /\ outbox' = NewRows(judged, new)

TimeToSample == sample.at - sample.win >= SampleAt

\* Mutant: a sample is counted and kept.
LeftOverAll(done) == samples

\* The samples that wait on.
LeftOver(done) == samples \ done

\* update of a meter: settle, then sample the window once -- once among those that wait.
MeterUpdate ==
  LET done == {w \in samples : ResultIn(w)} IN
  /\ counted' = [w \in Starts |-> counted[w] + IF w \in done THEN 1 ELSE 0]
  /\ samples' = LeftOver(done) \cup
       (IF TimeToSample /\ sample.win <= LastWin THEN {sample.win} ELSE {})

Update ==
  /\ loop = "sampled"
  /\ loop' = "drain"
  /\ SimUpdate /\ MeterUpdate
  /\ overran' = IF now >= sample.win + WindowLen THEN overran \cup {sample.win} ELSE overran
  /\ UNCHANGED <<feedVars, sim, truth, faults, sample, rows>>

PublishRow ==
  /\ loop = "drain" /\ outbox # <<>>
  /\ outbox' = Tail(outbox)
  /\ rows' = Append(rows, Head(outbox))
  /\ UNCHANGED <<feedVars, sim, truth, faults, loop, sample, simVars, meterVars>>

\* The XADD raises: logged, and the record is gone.
RowFails ==
  /\ loop = "drain" /\ outbox # <<>>
  /\ faults < MaxFaults /\ faults' = faults + 1
  /\ outbox' = Tail(outbox)
  /\ UNCHANGED <<feedVars, sim, truth, loop, sample, simVars, rows, meterVars>>

TurnDone ==
  /\ loop = "drain" /\ outbox = <<>>
  /\ loop' = "idle" /\ sample' = NoTurn
  /\ UNCHANGED <<feedVars, sim, truth, faults, simVars, outbox, rows, meterVars>>

\* The process ends at any await, and another one starts with nothing.
Restart ==
  /\ beat' = 0 /\ closed' = {} /\ ended' = now
  /\ loop' = "idle" /\ sample' = NoTurn
  /\ bets' = <<>> /\ openWins' = {} /\ results' = <<>> /\ pnl' = 0
  /\ bands' = NoBands
  /\ samples' = {} /\ counted' = NoCounts /\ overran' = {}
  /\ outbox' = <<>> /\ rows' = <<>>
  /\ UNCHANGED <<now, fails, sim, truth, faults>>

Next ==
  \/ Tick \/ FeedStep \/ Sample \/ Update \/ PublishRow \/ RowFails \/ TurnDone \/ Restart

Spec == Init /\ [][Next]_vars

------------------------------------------------------------------------------
(* What the simulators and the meters promise. *)

Bet == [win : Nat, dir : Dir, price : Price]
Result == [win : Nat, dir : Dir, price : Price, outcome : Dir]
Row == [status : {"OPEN", "SETTLED"}, bet : Bet \cup Result, net : Int]

TypeOK ==
  /\ FeedTypeOK
  /\ sim \in Sims /\ truth \in [Starts -> Dir] /\ faults \in Nat
  /\ loop \in {"idle", "sampled", "drain"} /\ sample \in [win : Nat, at : Nat]
  /\ bets \in Seq(Bet) /\ openWins \subseteq Nat
  /\ results \in Seq(Result) /\ pnl \in Int
  /\ bands \in [Bands -> [n : Nat, net : Int]]
  /\ outbox \in Seq(Row) /\ rows \in Seq(Row)
  /\ samples \subseteq Nat /\ counted \in [Starts -> Nat]
  /\ overran \subseteq Nat

\* A simulator bets once on a window and settles the bet once, by that window's outcome: the
\* promise of the paper trade, kept by other means.  See PaperLedger.
Ledger == INSTANCE PaperLedger WITH
  open <- {b.win : b \in Range(bets)},
  settled <- {[win |-> b.win, outcome |-> b.outcome] : b \in Range(results)}
ImplementsPaperLedger == Ledger!Spec

\* Every settled bet is in one band, and the bands' bets and nets make up the account.
BandsAddUp ==
  /\ MapThenSumSet(LAMBDA l : bands[l].n, Bands) = Len(results)
  /\ MapThenSumSet(LAMBDA l : bands[l].net, Bands) = pnl

\* The net that a row of the stream shows is that of the SETTLED rows up to it, while no XADD
\* failed: also when several bets are settled in one turn, and one is placed.
NetOfRows(list) ==
  FoldLeft(LAMBDA sum, row : sum + (IF row.status = "SETTLED" THEN Profit(row.bet) ELSE 0), 0, list)
RowsAddUp ==
  faults = 0 => \A k \in DOMAIN rows : rows[k].net = NetOfRows(SubSeq(rows, 1, k))

\* The three accounts of the same bets agree: the simulator's, its bands' and its rows'.
NetsAddUp == BandsAddUp /\ RowsAddUp

\* Neither a bet nor a sample is judged before its window has ended, although a turn may look
\* for results of the window it believes to be in.
JudgedAfterItsWindow ==
  /\ \A b \in Range(results) : b.win + WindowLen <= now
  /\ \A w \in Starts : counted[w] > 0 => w + WindowLen <= now

\* What SignalMeter says of itself: each window is sampled once, at one fixed point of it.  It
\* does not hold: update settles first, and a turn that began in a window may update when the
\* window's result is in.  The sample is counted and dropped, and the window, no longer among
\* those that wait, is sampled again, at the same turn.
SampledOnce ==
  \A w \in Starts : counted[w] + (IF w \in samples THEN 1 ELSE 0) <= 1

\* What holds besides: only a window that had ended when a turn that began in it updated is
\* counted more than once, and it is counted at most twice, however the turns, the results
\* and the restarts fall.
RecountedOnlyOverrun ==
  \A w \in Starts : counted[w] <= IF w \in overran THEN 2 ELSE 1

==============================================================================
