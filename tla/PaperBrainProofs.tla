--------------------------- MODULE PaperBrainProofs --------------------------
(***************************************************************************)
(* The paper trader loses no bet, settles none twice and settles each by   *)
(* its own window; its account is what the settled bets paid, and its      *)
(* streams say once and in order what it did -- for every window length,   *)
(* page, memory of the feed, strategy, stake and price.                    *)
(*                                                                         *)
(* The first inductive invariant (IInv) puts every bet in the past of the  *)
(* slot: the pending and the settled bets are on earlier windows than the  *)
(* slot, the slot's window is not later than that of the turn in progress, *)
(* and that one is not later than the clock's.  The windows being          *)
(* multiples, this needs WindowOf to be monotone (WindowMonotone).         *)
(*                                                                         *)
(* The second one (JInv) is about what is published.  Between an update    *)
(* and the end of its turn, what the account and the bets say and what the *)
(* streams say differ by the records in hand: an OPEN record is the last   *)
(* of them and about the slot (OutboxOK), and an entry about the slot's    *)
(* window is there exactly while its record is next (EntriesOK).           *)
(***************************************************************************)
EXTENDS PaperBrain, CommonLemmas

\* The feed knows nothing of the future.
FeedOK ==
  /\ now \in Nat /\ beat \in Nat
  /\ ended \in 0..now
  /\ closed \subseteq {e \in Ends : e <= now}

BetsTyped ==
  /\ truth \in [Starts -> Dir]
  /\ slot \in Slots
  /\ pending \subseteq {s \in Slots : IsBet(s)}
  /\ settled \subseteq [win : Nat, dir : Dir, price : Nat, outcome : Dir]
  /\ sample \in [win : Nat, at : Nat, strike : Nat]
  /\ loop \in {"idle", "sampled", "drain"}

\* Time orders the bets.
Ordered ==
  /\ slot.win <= WindowOf(now)
  /\ loop = "sampled" => slot.win <= sample.win /\ sample.win <= WindowOf(now)
  /\ \A s \in pending : s.win < slot.win
  /\ \A b \in settled : b.win < slot.win

IInv == FeedOK /\ BetsTyped /\ Ordered /\ BetsAccounted /\ SettledByItsWindow

------------------------------------------------------------------------------
(* Windows. *)

\* A later time is in no earlier window.
LEMMA WindowMonotone ==
  ASSUME NEW t \in Nat
  PROVE  WindowOf(t) <= WindowOf(t + 1)
BY FeedAssumption, StartMonotone DEF WindowOf

\* The window of a time began no later.
LEMMA WindowIsPast ==
  ASSUME NEW t \in Nat
  PROVE  WindowOf(t) \in Nat /\ WindowOf(t) <= t
BY FeedAssumption DEF WindowOf

\* The end of a window is a time.
LEMMA EndsAreTimes ==
  /\ Ends \subseteq Nat
  /\ \A e \in Ends : e - WindowLen \in Starts
BY FeedAssumption DEF Ends, Starts

------------------------------------------------------------------------------
(* What a choice may make of a slot. *)

\* A decision is about the slot's window, and a bet that is made stays.
LEMMA ChoiceKeepsWindow ==
  ASSUME NEW s \in Slots, sample \in [win : Nat, at : Nat, strike : Nat],
         NEW n \in Int, NEW t \in Decisions(s, n)
  PROVE  /\ t \in Slots /\ t.win = s.win
         /\ IsBet(s) => t = s
<1>1. CASE s.dir # "watching"
  BY <1>1 DEF Decisions
<1>2. CASE s.dir = "watching"
  <2>1. PICK m \in Market :
          t = IF strategy = "dip" THEN DipChoice(s, n, m) ELSE ObiChoice(s, n, m)
    BY <1>2 DEF Decisions
  <2>2. /\ Pas(s) \in Slots /\ Pas(s).win = s.win
    BY DEF Pas, Slots
  <2>3. ASSUME NEW d \in Dir, NEW p \in Nat
        PROVE  Bet(s, d, p) \in Slots /\ Bet(s, d, p).win = s.win
    BY DEF Bet, Slots
  <2>4. m.cheap \in Dir /\ m.price \in Nat /\ 100 - m.price \in Nat
    <3>1. m.price \in 1..50
      BY BrainAssumption DEF Market
    <3>2. m.cheap \in Dir
      BY DEF Market
    <3> QED BY <3>1, <3>2
  <2>5. DipChoice(s, n, m) \in {s, Pas(s), Bet(s, m.cheap, m.price)}
    BY BrainAssumption, FeedAssumption DEF DipChoice
  <2>6. ObiChoice(s, n, m) \in
          {s, Pas(s)} \cup {Bet(s, d, p) : d \in Dir, p \in {m.price, 100 - m.price}}
    BY DEF ObiChoice
  <2>7. t \in Slots /\ t.win = s.win
    <3>1. CASE strategy = "dip"
      BY <2>1, <2>2, <2>3, <2>4, <2>5, <3>1
    <3>2. CASE strategy # "dip"
      BY <2>1, <2>2, <2>3, <2>4, <2>6, <3>2
    <3> QED BY <3>1, <3>2
  <2> QED BY <1>2, <2>7 DEF IsBet, Dir
<1> QED BY <1>1, <1>2

------------------------------------------------------------------------------
(* update: what is held, and what it settles. *)

Due == {s \in pending : SettleKey(s) \in closed}
NewBet == IF IsBet(slot') THEN {slot'} ELSE {}

LEMMA DueSettles ==
  ASSUME IInv, NEW d \in Due
  PROVE  /\ d \in Slots /\ IsBet(d) /\ d \in Held /\ d.win < slot.win
         /\ d.win + WindowLen <= now
         /\ Settled(d) = [win |-> d.win, dir |-> d.dir, price |-> d.price, outcome |-> truth[d.win]]
         /\ Settled(d) \in [win : Nat, dir : Dir, price : Nat, outcome : Dir]
<1>1. d \in pending /\ d \in Slots /\ IsBet(d) /\ d.win \in Nat /\ d.win < slot.win
  BY DEF IInv, Due, BetsTyped, Ordered, Slots
<1>2. d.win + WindowLen \in Ends /\ d.win + WindowLen <= now
  BY DEF IInv, Due, FeedOK, SettleKey
<1>3. (d.win + WindowLen) - WindowLen = d.win
  BY <1>1, FeedAssumption
<1>4. d.win \in Starts
  BY <1>2, <1>3, EndsAreTimes
<1>5. Result(SettleKey(d)) = truth[d.win] /\ truth[d.win] \in Dir
  BY <1>3, <1>4 DEF Result, SettleKey, IInv, BetsTyped
<1> QED BY <1>1, <1>2, <1>5 DEF Settled, Held, Slots, IsBet

LEMMA UpdateHolds ==
  ASSUME IInv, Update
  PROVE  /\ slot' \in Slots /\ slot'.win = sample.win /\ slot.win <= slot'.win
         /\ pending' \subseteq {s \in Slots : IsBet(s)}
         /\ \A s \in pending' : s.win < slot'.win
         /\ Held' = (Held \ Due) \cup NewBet
         /\ NewBet = {} \/ NewBet \subseteq Held \ Due \/ \A s \in Held : s.win < slot'.win
         /\ opened' = opened \cup {s.win : s \in NewBet}
         /\ settled' = settled \cup {Settled(d) : d \in Due}
<1> DEFINE rotate == slot.win # sample.win
           prev   == IF rotate /\ IsBet(slot) THEN {slot} ELSE {}
           fresh  == IF rotate THEN Slot(sample.win) ELSE slot
<1>1. PICK s \in Decisions(fresh, sample.at - sample.win) :
        /\ slot' = s
        /\ opened' = IF IsBet(s) THEN opened \cup {s.win} ELSE opened
  BY DEF Update
<1>2. pending' = (pending \ Due) \cup prev /\ settled' = settled \cup {Settled(d) : d \in Due}
  BY DEF Update, Due, Kept
<1>3. /\ sample \in [win : Nat, at : Nat, strike : Nat] /\ slot \in Slots
      /\ slot.win \in Nat /\ sample.win \in Nat /\ sample.at \in Nat
      /\ slot.win <= sample.win
      /\ \A p \in pending : p \in Slots /\ IsBet(p) /\ p.win \in Nat /\ p.win < slot.win
  BY DEF IInv, BetsTyped, Ordered, Update, Slots
<1>4. fresh \in Slots /\ fresh.win = sample.win
  BY <1>3 DEF Slot, Slots
<1>5. s \in Slots /\ s.win = sample.win /\ (IsBet(fresh) => s = fresh)
  BY <1>1, <1>3, <1>4, ChoiceKeepsWindow
<1>6. prev \subseteq {p \in Slots : IsBet(p)} /\ \A p \in prev : p.win < sample.win
  BY <1>3
<1>7. /\ pending' \subseteq {p \in Slots : IsBet(p)}
      /\ \A p \in pending' : p.win < slot'.win
  BY <1>1, <1>2, <1>3, <1>5, <1>6 DEF Due
<1>8. slot \notin Due
  BY <1>3 DEF Due
<1>9. CASE rotate
  <2>1. \A p \in Held : p.win < slot'.win
    BY <1>1, <1>3, <1>5, <1>9 DEF Held
  <2>2. Held' = (Held \ Due) \cup NewBet
    BY <1>2, <1>8, <1>9 DEF Held, NewBet
  <2> QED BY <1>1, <1>2, <1>3, <1>5, <1>7, <2>1, <2>2 DEF NewBet
<1>10. CASE ~rotate /\ IsBet(slot)
  <2>1. slot' = slot
    BY <1>1, <1>5, <1>10
  <2>2. Held' = (Held \ Due) \cup NewBet /\ NewBet \subseteq Held \ Due
    BY <1>2, <1>8, <1>10, <2>1 DEF Held, NewBet
  <2> QED BY <1>1, <1>2, <1>3, <1>5, <1>7, <2>1, <2>2 DEF NewBet
<1>11. CASE ~rotate /\ ~IsBet(slot)
  <2>1. \A p \in Held : p.win < slot'.win
    BY <1>1, <1>3, <1>5, <1>11 DEF Held
  <2>2. Held' = (Held \ Due) \cup NewBet
    BY <1>2, <1>8, <1>11 DEF Held, NewBet
  <2> QED BY <1>1, <1>2, <1>3, <1>5, <1>7, <2>1, <2>2 DEF NewBet
<1> QED BY <1>9, <1>10, <1>11

\* No two bets are on one window, so the settled ones take their windows with them.
LEMMA UpdateAccounts ==
  ASSUME IInv, Update
  PROVE  /\ HeldWindows' = (HeldWindows \ {d.win : d \in Due}) \cup {s.win : s \in NewBet}
         /\ SettledWindows' = SettledWindows \cup {d.win : d \in Due}
         /\ {d.win : d \in Due} \subseteq HeldWindows
         /\ {s.win : s \in NewBet} \cap {d.win : d \in Due} = {}
         /\ BetsAccounted'
<1> DEFINE D == {d.win : d \in Due}
           N == {s.win : s \in NewBet}
<1>1. /\ Held' = (Held \ Due) \cup NewBet
      /\ opened' = opened \cup N
      /\ settled' = settled \cup {Settled(d) : d \in Due}
      /\ NewBet = {} \/ NewBet \subseteq Held \ Due \/ \A s \in Held : s.win < slot'.win
      /\ slot'.win \in Nat /\ slot.win <= slot'.win
  BY UpdateHolds DEF Slots
<1>2. \A s \in NewBet : s.win = slot'.win /\ s = slot'
  BY DEF NewBet
<1>3. /\ Due \subseteq Held
      /\ \A d \in Due : Settled(d).win = d.win
  BY DueSettles
<1>4. /\ opened = HeldWindows \cup SettledWindows
      /\ HeldWindows \cap SettledWindows = {}
      /\ \A s, t \in Held : s.win = t.win => s = t
  BY DEF IInv, BetsAccounted
<1>5. \A w \in SettledWindows : w \in Nat /\ w < slot'.win
  <2>1. \A b \in settled : b.win \in Nat /\ b.win < slot.win
    BY DEF IInv, BetsTyped, Ordered
  <2>2. slot.win \in Nat
    BY DEF IInv, BetsTyped, Slots
  <2> QED BY <1>1, <2>1, <2>2 DEF SettledWindows
<1>6. \A s \in Held : s.win \in Nat
  BY DEF IInv, BetsTyped, Held, Slots
<1>7. SettledWindows' = SettledWindows \cup D
  BY <1>1, <1>3 DEF SettledWindows
<1>8. HeldWindows' = (HeldWindows \ D) \cup N
  BY <1>1, <1>3, <1>4 DEF HeldWindows
<1>9. D \subseteq HeldWindows
  BY <1>3 DEF HeldWindows
<1>10. N \cap (SettledWindows \cup D) = {}
  <2>1. CASE NewBet = {}
    BY <2>1
  <2>2. CASE NewBet \subseteq Held \ Due
    BY <2>2, <1>3, <1>4 DEF HeldWindows
  <2>3. CASE \A s \in Held : s.win < slot'.win
    BY <2>3, <1>1, <1>2, <1>3, <1>5, <1>6
  <2> QED BY <1>1, <2>1, <2>2, <2>3
<1>11. \A s, t \in Held' : s.win = t.win => s = t
  <2>1. CASE NewBet = {}
    BY <1>1, <1>4, <2>1
  <2>2. CASE NewBet \subseteq Held \ Due
    BY <1>1, <1>4, <2>2
  <2>3. CASE \A s \in Held : s.win < slot'.win
    BY <1>1, <1>2, <1>4, <1>6, <2>3
  <2> QED BY <1>1, <2>1, <2>2, <2>3
<1>12. BetsAccounted'
  <2>1. opened' = HeldWindows' \cup SettledWindows'
    BY <1>1, <1>4, <1>7, <1>8, <1>9
  <2>2. HeldWindows' \cap SettledWindows' = {}
    BY <1>4, <1>7, <1>8, <1>9, <1>10
  <2> QED BY <1>11, <2>1, <2>2 DEF BetsAccounted
<1> QED BY <1>7, <1>8, <1>9, <1>10, <1>12

LEMMA UpdateStep ==
  ASSUME IInv, Update
  PROVE  IInv'
<1>1. FeedOK' /\ now' = now
  BY DEF IInv, Update, FeedOK, feedVars
<1>2. BetsTyped'
  <2>1. settled' \subseteq [win : Nat, dir : Dir, price : Nat, outcome : Dir]
    BY UpdateHolds, DueSettles DEF IInv, BetsTyped
  <2>2. truth' = truth /\ sample' = sample /\ loop' = "drain"
    BY DEF Update
  <2> QED BY <2>1, <2>2, UpdateHolds DEF IInv, BetsTyped
<1>3. Ordered'
  <2>1. slot'.win <= WindowOf(now)
    BY UpdateHolds DEF IInv, Ordered, Update
  <2>2. loop' = "drain" /\ WindowOf(now)' = WindowOf(now)
    BY <1>1 DEF Update, WindowOf
  <2>3. \A b \in settled' : b.win < slot'.win
    <3>1. slot.win \in Nat /\ slot'.win \in Nat /\ slot.win <= slot'.win
      BY UpdateHolds DEF IInv, BetsTyped, Slots
    <3>2. \A b \in settled : b.win \in Nat /\ b.win < slot.win
      BY DEF IInv, BetsTyped, Ordered
    <3>3. \A d \in Due : Settled(d).win \in Nat /\ Settled(d).win < slot.win
      BY DueSettles DEF Slots
    <3> QED BY <3>1, <3>2, <3>3, UpdateHolds
  <2> QED BY <2>1, <2>2, <2>3, UpdateHolds DEF Ordered
<1>4. BetsAccounted'
  BY UpdateAccounts
<1>5. SettledByItsWindow'
  <2>1. truth' = truth
    BY DEF Update
  <2> QED BY <1>1, <2>1, UpdateHolds, DueSettles DEF IInv, SettledByItsWindow
<1> QED BY <1>1, <1>2, <1>3, <1>4, <1>5 DEF IInv

------------------------------------------------------------------------------
(* The other steps, and the invariant. *)

LEMMA PageIsPast ==
  ASSUME NEW t \in Nat, t <= now, now \in Nat
  PROVE  Page(t) \subseteq {e \in Ends : e <= now}
<1> SUFFICES ASSUME NEW e \in Page(t) PROVE e \in Ends /\ e <= now
  OBVIOUS
<1>1. e \in Ends /\ e <= t
  BY DEF Page
<1>2. e \in Nat
  BY <1>1, EndsAreTimes
<1> QED BY <1>1, <1>2

LEMMA FeedKeeps ==
  ASSUME IInv, Fetches, UNCHANGED brainVars
  PROVE  IInv'
<1>1. now' = now /\ now \in Nat
  BY DEF Fetches, FetchDone, FetchFails, IInv, FeedOK
<1>2. FeedOK'
  <2>1. CASE FetchFails
    BY <2>1 DEF FetchFails, IInv, FeedOK
  <2>2. ASSUME NEW asked \in ended..now, NEW served \in ended..now, NEW named \in BOOLEAN,
               FetchDone(asked, served, named)
        PROVE  FeedOK'
    <3>1. asked \in Nat /\ served \in Nat /\ served <= now
      BY <1>1 DEF IInv, FeedOK
    <3>2. beat' \in Nat
      BY <2>2, <3>1, WindowIsPast DEF FetchDone, IInv, FeedOK
    <3>3. closed' \subseteq {e \in Ends : e <= now}
      BY <2>2, <1>1, <3>1, PageIsPast DEF FetchDone, Newest, IInv, FeedOK
    <3>4. ended' = now
      BY <2>2 DEF FetchDone
    <3> QED BY <1>1, <3>2, <3>3, <3>4 DEF FeedOK
  <2> QED BY <2>1, <2>2 DEF Fetches
<1> QED BY <1>1, <1>2 DEF IInv, BetsTyped, Ordered, BetsAccounted, SettledByItsWindow, WindowOf,
           Held, HeldWindows, SettledWindows, brainVars, traderVars

LEMMA InvariantStep ==
  ASSUME IInv, [Next]_vars
  PROVE  IInv'
<1>1. CASE Tick
  <2>1. now' = now + 1 /\ now \in Nat
    BY <1>1 DEF Tick, FeedTick, IInv, FeedOK
  <2>2. FeedOK'
    BY <1>1, <2>1, EndsAreTimes DEF Tick, FeedTick, IInv, FeedOK
  <2>3. WindowOf(now) <= WindowOf(now)'
    BY <2>1, WindowMonotone DEF WindowOf
  <2>4. WindowOf(now) \in Nat /\ WindowOf(now)' \in Nat
    BY <2>1, FeedAssumption DEF WindowOf
  <2>5. UNCHANGED brainVars
    BY <1>1 DEF Tick
  <2>6. Ordered'
    BY <2>3, <2>4, <2>5 DEF IInv, BetsTyped, Ordered, Slots, brainVars, traderVars
  <2>7. SettledByItsWindow'
    BY <2>1, <2>5, FeedAssumption DEF IInv, BetsTyped, SettledByItsWindow, brainVars, traderVars
  <2> QED BY <2>2, <2>5, <2>6, <2>7 DEF IInv, BetsTyped, BetsAccounted, Held, HeldWindows,
             SettledWindows, brainVars, traderVars
<1>2. CASE FeedStep
  BY <1>2, FeedKeeps DEF FeedStep
<1>3. CASE Sample
  <2>1. UNCHANGED <<feedVars, truth, traderVars>> /\ loop' = "sampled"
    BY <1>3 DEF Sample
  <2>2. /\ now \in Nat /\ WindowOf(now) \in Nat
        /\ sample'.win = WindowOf(now)
        /\ sample' \in [win : Nat, at : Nat, strike : Nat]
    BY <1>3, WindowIsPast DEF Sample, IInv, FeedOK
  <2>3. Ordered'
    BY <2>1, <2>2 DEF IInv, Ordered, feedVars, traderVars, WindowOf
  <2> QED BY <2>1, <2>2, <2>3 DEF IInv, FeedOK, BetsTyped, BetsAccounted, SettledByItsWindow, Held,
             HeldWindows, SettledWindows, feedVars, traderVars
<1>4. CASE Update
  BY <1>4, UpdateStep
<1>5. CASE PublishEntry \/ PublishTrade \/ PublishFails \/ TurnDone
  <2>1. /\ UNCHANGED <<now, beat, closed, ended, truth, traderVars>>
        /\ loop' \in {"idle", "drain"}
        /\ sample' = sample \/ sample' = NoSample
    BY <1>5 DEF feedVars, Fault, PublishEntry, PublishTrade, PublishFails, TurnDone, IInv, BetsTyped
  <2>2. NoSample \in [win : Nat, at : Nat, strike : Nat]
    BY DEF NoSample
  <2> QED BY <2>1, <2>2 DEF IInv, FeedOK, BetsTyped, Ordered, BetsAccounted, SettledByItsWindow,
             WindowOf, Held, HeldWindows, SettledWindows, feedVars, traderVars
<1>6. CASE Restart
  <2>1. /\ now' = now /\ beat' = 0 /\ closed' = {} /\ ended' = now /\ truth' = truth
        /\ loop' = "idle" /\ sample' = NoSample /\ slot' = Slot(0)
        /\ pending' = {} /\ opened' = {} /\ settled' = {}
    BY <1>6 DEF Restart
  <2>2. Slot(0) \in Slots /\ Slot(0).win = 0 /\ ~IsBet(Slot(0))
    BY DEF Slot, Slots, IsBet, Dir
  <2>3. NoSample \in [win : Nat, at : Nat, strike : Nat]
    BY DEF NoSample
  <2>4. now \in Nat /\ WindowOf(now) \in Nat
    BY WindowIsPast DEF IInv, FeedOK
  <2>5. IsBet(slot)' = FALSE
    BY <2>1, <2>2 DEF IsBet
  <2>6. FeedOK' /\ BetsTyped' /\ Ordered'
    BY <2>1, <2>2, <2>3, <2>4 DEF IInv, FeedOK, BetsTyped, Ordered, WindowOf
  <2>7. Held' = {}
    BY <2>1, <2>5 DEF Held, IsBet
  <2> QED BY <2>1, <2>6, <2>7 DEF IInv, BetsAccounted, SettledByItsWindow, HeldWindows,
             SettledWindows
<1>7. CASE UNCHANGED vars
  BY <1>7 DEF vars, IInv, FeedOK, BetsTyped, Ordered, BetsAccounted, SettledByItsWindow, WindowOf,
     Held, HeldWindows, SettledWindows, feedVars, brainVars, traderVars
<1> QED BY <1>1, <1>2, <1>3, <1>4, <1>5, <1>6, <1>7 DEF Next, LoopStep

LEMMA InvariantInit == Init => IInv
<1> SUFFICES ASSUME Init PROVE IInv
  OBVIOUS
<1>1. now \in Nat /\ WindowOf(now) \in Nat
  BY FeedAssumption, WindowIsPast DEF Init, FeedInit
<1>2. slot \in Slots /\ slot.win = 0 /\ ~IsBet(slot)
  BY DEF Init, Slot, Slots, IsBet, Dir
<1>3. NoSample \in [win : Nat, at : Nat, strike : Nat]
  BY DEF NoSample
<1> QED BY <1>1, <1>2, <1>3 DEF Init, FeedInit, IInv, FeedOK, BetsTyped, Ordered, BetsAccounted,
           SettledByItsWindow, Held, HeldWindows, SettledWindows

\* The invariant itself: the feed knows only the past, every bet is of the past of the slot.
THEOREM Invariant == Spec => []IInv
BY InvariantInit, InvariantStep, PTL DEF Spec

\* PaperTrader.update neither loses a bet nor settles one twice, and bets on a window once
\* (rotation of open_trade, _settle_pending).
THEOREM Accounted == Spec => []BetsAccounted
<1>1. IInv => BetsAccounted
  BY DEF IInv
<1> QED BY <1>1, Invariant, PTL

\* _settle_pending settles a bet only when its window is over and by the result of that
\* window, whatever the feed has pruned or has in flight.
THEOREM SettledRight == Spec => []SettledByItsWindow
<1>1. IInv => SettledByItsWindow
  BY DEF IInv
<1> QED BY <1>1, Invariant, PTL

------------------------------------------------------------------------------
(* Refinement of the abstract ledger. *)

Brief(b) == [win |-> b.win, outcome |-> b.outcome]

LEMMA UpdateTurns ==
  ASSUME IInv, Update
  PROVE  Ledger!Turn(HeldWindows \ HeldWindows', HeldWindows' \ HeldWindows)
<1> DEFINE D == {d.win : d \in Due}
           N == {s.win : s \in NewBet}
           new == HeldWindows' \ HeldWindows
<1>1. /\ HeldWindows' = (HeldWindows \ D) \cup N
      /\ D \subseteq HeldWindows /\ N \cap D = {}
  BY UpdateAccounts
<1>2. /\ settled' = settled \cup {Settled(d) : d \in Due}
      /\ NewBet = {} \/ NewBet \subseteq Held \ Due \/ \A s \in Held : s.win < slot'.win
      /\ slot'.win \in Nat /\ slot.win <= slot'.win
  BY UpdateHolds DEF Slots
<1>3. \A s \in NewBet : s = slot'
  BY DEF NewBet
<1>4. HeldWindows \ HeldWindows' = D /\ new \subseteq N
  BY <1>1
<1>5. \A d \in Due : Brief(Settled(d)) = Ledger!Verdict(d.win)
  BY DueSettles DEF Brief, Ledger!Verdict
<1>6. {Brief(b) : b \in settled'} = {Brief(b) : b \in settled} \cup {Ledger!Verdict(w) : w \in D}
  BY <1>2, <1>5
<1>7. \A w \in new : w = slot'.win /\ new = {w}
  BY <1>3, <1>4
<1>8. ASSUME NEW w \in new PROVE Ledger!Newer(w)
  <2>1. w = slot'.win
    BY <1>7
  <2>2. \A s \in Held : s.win < slot'.win
    <3>1. NewBet # {}
      BY <1>4
    <3>2. ~(NewBet \subseteq Held \ Due)
      BY <1>4 DEF HeldWindows
    <3> QED BY <1>2, <3>1, <3>2
  <2>3. \A b \in settled : b.win < slot'.win
    <3>1. slot.win \in Nat /\ \A b \in settled : b.win \in Nat /\ b.win < slot.win
      BY DEF IInv, BetsTyped, Ordered, Slots
    <3> QED BY <1>2, <3>1
  <2> QED BY <2>1, <2>2, <2>3 DEF Ledger!Newer, HeldWindows
<1>9. truth' = truth
  BY DEF Update
<1>10. HeldWindows' = (HeldWindows \ D) \cup new
  BY <1>1, <1>4
<1> HIDE DEF D, N, new
<1> QED BY <1>1, <1>4, <1>6, <1>7, <1>8, <1>9, <1>10 DEF Ledger!Turn, Brief, new

LEMMA LedgerStep ==
  ASSUME IInv, [Next]_vars
  PROVE  [Ledger!Next]_(Ledger!ledgerVars)
<1>1. CASE Update
  BY <1>1, UpdateTurns DEF Ledger!Next
<1>2. CASE Restart
  <2>1. pending' = {} /\ settled' = {} /\ truth' = truth /\ slot' = Slot(0)
    BY <1>2 DEF Restart
  <2>2. ~IsBet(slot)'
    BY <2>1 DEF IsBet, Slot, Dir
  <2>3. HeldWindows' = {}
    BY <2>1, <2>2 DEF HeldWindows, Held, IsBet
  <2> QED BY <2>1, <2>3 DEF Ledger!Next, Ledger!Forget
<1>3. CASE UNCHANGED <<truth, traderVars>>
  BY <1>3 DEF Ledger!ledgerVars, HeldWindows, Held, IsBet, traderVars
<1>4. \/ Update \/ Restart \/ UNCHANGED <<truth, traderVars>>
  BY DEF Next, LoopStep, Tick, FeedStep, Sample, PublishEntry, PublishTrade, PublishFails, TurnDone,
     vars, brainVars
<1> QED BY <1>1, <1>2, <1>3, <1>4

\* The paper trade implements the abstract bet ledger: an update settles what is due by its
\* own outcome and takes at most one newer bet, a restart forgets, nothing else is visible.
THEOREM Refinement == Spec => ImplementsPaperLedger
<1>1. Init => Ledger!Init
  BY DEF Init, Ledger!Init, HeldWindows, Held, IsBet, Slot, Dir
<1>2. IInv /\ [Next]_vars => [Ledger!Next]_(Ledger!ledgerVars)
  BY LedgerStep
<1> QED BY <1>1, <1>2, Invariant, PTL DEF Spec, ImplementsPaperLedger, Ledger!Spec

------------------------------------------------------------------------------
(* The account, the entries and the rows: a second invariant, on top of    *)
(* the first.                                                              *)

Entry == [win : Nat, left : Int, ts : Nat]
Prices == 1..99
Results == [win : Nat, dir : Dir, price : Prices, outcome : Dir]

\* What a bet paid, by its price.
Share == [b \in Results |-> ShareQty(b.price)]

WonBets(S) == {b \in S : Won(b)}

\* AccountAddsUp, as a sum of a function.
AccountOK ==
  /\ IsFiniteSet(pending) /\ IsFiniteSet(settled)
  /\ \A s \in Held : s.price \in Prices
  /\ settled \subseteq Results
  /\ pnl \in Int /\ wins \in Nat /\ losses \in Nat
  /\ wins + losses = Cardinality(settled)
  /\ wins = Cardinality(WonBets(settled))
  /\ pnl = Total(Share, WonBets(settled)) - Stake * Cardinality(settled)

RestTyped ==
  /\ fails \in Nat /\ faults \in Nat /\ strategy \in Strategies
  /\ outbox \in Seq(Records) /\ entered \in BOOLEAN
  /\ entries \in Seq([win : Nat, left : Int, ts : Nat])
  /\ trades \in Seq(Records)

\* An OPEN record is the last of its turn and about the slot's bet, a SETTLED one is about an
\* earlier bet.
OutboxOK ==
  /\ loop # "drain" => outbox = <<>>
  /\ \A i \in DOMAIN outbox :
       IF outbox[i].status = "OPEN"
       THEN i = Len(outbox) /\ IsBet(slot) /\ outbox[i].win = slot.win
       ELSE outbox[i].win < slot.win /\ outbox[i].win \in opened
  /\ entered => outbox # <<>> /\ Head(outbox).status = "OPEN"

HasOpen(rows) == \E i \in DOMAIN rows : rows[i].status = "OPEN"
OpenAt(rows, w) == \E i \in DOMAIN rows : rows[i].status = "OPEN" /\ rows[i].win = w

\* Entries are about bets, and about the slot's only once its OPEN record has been there.
EntriesOK ==
  /\ EntriesOncePerWindow
  /\ \A i \in DOMAIN entries : entries[i].win <= slot.win
  /\ (HasOpen(outbox) \/ ~IsBet(slot)) /\ ~entered =>
        \A i \in DOMAIN entries : entries[i].win < slot.win
  /\ entered => \E i \in DOMAIN entries : entries[i].win = slot.win

\* While nothing failed, the OPEN row of every bet is in the list or on its way.
RowsOK ==
  /\ RowsInOrder
  /\ faults = 0 => \A w \in opened : OpenAt(trades, w) \/ OpenAt(outbox, w)

JInv == AccountOK /\ RestTyped /\ OutboxOK /\ EntriesOK /\ RowsOK

\* What is won is the payout less the stake.
LEMMA WinIsPayoutLessStake ==
  ASSUME NEW p \in Prices
  PROVE  /\ ShareQty(p) \in Nat
         /\ Profit(p, TRUE) = ShareQty(p) - Stake /\ Profit(p, FALSE) = -Stake
<1>1. p \in 1..99 /\ Stake \in Nat
  BY BrainAssumption DEF Prices
<1> DEFINE L == p
           t == 100 * Stake
           q == t \div L
           r == t % L
           u == Stake * (100 - p)
<1>2. L \in Nat \ {0} /\ t \in Nat
  BY <1>1
<1>3. q \in Int /\ r \in 0..(L - 1) /\ t = (L * q) + r
  <2> HIDE DEF L, t
  <2> QED BY <1>2, Division
<1>4. u \in Nat /\ u = (L * (q - Stake)) + r
  <2>1. 100 - p \in Nat
    BY <1>1
  <2>2. u \in Nat
    BY <1>1, <2>1
  <2>3. u = t - (L * Stake)
    BY <1>1
  <2> HIDE DEF q, r, u, t, L
  <2>4. L * (q - Stake) = (L * q) - (L * Stake)
    BY <1>1, <1>2, <1>3
  <2> QED BY <1>1, <1>2, <1>3, <2>2, <2>3, <2>4
<1>5. u \div L = q - Stake
  <2>1. q - Stake \in Int
    BY <1>1, <1>3
  <2> HIDE DEF q, r, u, t, L
  <2> QED BY <1>2, <1>3, <1>4, <2>1, QuotientIs
<1>6. q \in Nat
  BY <1>1, <1>2
<1>7. ShareQty(p) = q /\ Profit(p, TRUE) = u \div L /\ Profit(p, FALSE) = -Stake
  BY DEF ShareQty, Profit
<1> QED BY <1>5, <1>6, <1>7

Gain == [b \in Results |-> Profit(b.price, Won(b))]

\* What a settled bet gains is its payout, if it won, less the stake.
LEMMA GainIs ==
  ASSUME NEW b \in Results
  PROVE  /\ Gain[b] = (IF Won(b) THEN Share[b] ELSE 0) - Stake
         /\ Gain[b] \in Int /\ Share[b] \in Nat
<1>1. b.price \in Prices /\ Stake \in Nat
  BY BrainAssumption DEF Results
<1>2. /\ ShareQty(b.price) \in Nat
      /\ Profit(b.price, TRUE) = ShareQty(b.price) - Stake /\ Profit(b.price, FALSE) = -Stake
  BY <1>1, WinIsPayoutLessStake
<1> DEFINE w == (Stake * (100 - b.price)) \div b.price
<1>3. Gain[b] = (IF Won(b) THEN w ELSE -Stake) /\ Share[b] = ShareQty(b.price)
  BY DEF Gain, Share, Profit
<1>4. w = ShareQty(b.price) - Stake
  BY <1>2 DEF Profit
<1> HIDE DEF w
<1> QED BY <1>1, <1>2, <1>3, <1>4

\* Every bet cost a stake, and those won paid their share.
LEMMA GainsAddUp ==
  ASSUME NEW S, IsFiniteSet(S), S \subseteq Results
  PROVE  /\ Total(Gain, S) = Total(Share, WonBets(S)) - (Stake * Cardinality(S))
         /\ Total(Share, WonBets(S)) \in Int
<1>0. /\ Stake \in Nat /\ \A b \in S : Gain[b] \in Int /\ Share[b] \in Int
      /\ \A b \in S : Gain[b] = (IF Won(b) THEN Share[b] ELSE 0) - Stake
  BY BrainAssumption, GainIs
<1> DEFINE Fine(U) == Total(Gain, U) = Total(Share, WonBets(U)) - (Stake * Cardinality(U))
           F == {U \in SUBSET S : ~Fine(U)}
<1>1. ASSUME F # {} PROVE FALSE
  <2>1. PICK m \in F : \A t \in F : t \subseteq m => t = m
    <3>1. F \subseteq SUBSET S
      OBVIOUS
    <3> HIDE DEF F
    <3> QED BY <1>1, <3>1, MinimalSet
  <2>2. m \in SUBSET S /\ IsFiniteSet(m) /\ ~Fine(m)
    BY <2>1, FS_Subset
  <2>3. PICK x \in m : TRUE
    <3> SUFFICES ASSUME m = {} PROVE FALSE
      OBVIOUS
    <3>1. WonBets(m) = {}
      BY DEF WonBets
    <3>2. Total(Gain, m) = 0 /\ Total(Share, WonBets(m)) = 0 /\ Cardinality(m) = 0
      BY <3>1, TotalEmpty, FS_EmptySet
    <3> QED BY <1>0, <2>2, <3>2
  <2> DEFINE V == m \ {x}
             n == Cardinality(V)
  <2>4. V \in SUBSET S /\ Fine(V) /\ x \in S /\ IsFiniteSet(V)
    BY <2>1, <2>2, <2>3, FS_Subset
  <2>5. n \in Nat /\ Cardinality(m) = n + 1
    <3>1. n \in Nat /\ Cardinality(m) \in Nat
      BY <2>2, <2>4, FS_CardinalityType
    <3>2. n = Cardinality(m) - 1
      BY <2>2, <2>3, FS_RemoveElement
    <3> HIDE DEF n
    <3> QED BY <3>1, <3>2
  <2> HIDE DEF F
  <2>6. Total(Gain, m) = Gain[x] + Total(Gain, V) /\ Total(Gain, V) \in Int
    BY <1>0, <2>2, <2>3, <2>4, TotalTake
  <2>7. IsFiniteSet(WonBets(m)) /\ IsFiniteSet(WonBets(V)) /\ WonBets(m) \subseteq S /\ WonBets(V) \subseteq S
    BY <2>2, <2>4, FS_Subset DEF WonBets
  <2>8. Total(Share, WonBets(V)) \in Int
    BY <1>0, <2>7, TotalTake
  <2>9. Total(Share, WonBets(m)) = Total(Share, WonBets(V)) + (IF Won(x) THEN Share[x] ELSE 0)
    <3>1. CASE Won(x)
      <4>1. WonBets(m) \ {x} = WonBets(V) /\ x \in WonBets(m)
        BY <2>3, <3>1 DEF WonBets
      <4>2. Total(Share, WonBets(m)) = Share[x] + Total(Share, WonBets(m) \ {x})
        BY <1>0, <2>7, <4>1, TotalTake
      <4>3. Share[x] \in Int
        BY <1>0, <2>4
      <4>4. Total(Share, WonBets(m)) = Share[x] + Total(Share, WonBets(V))
        BY <4>1, <4>2
      <4> HIDE DEF V
      <4> QED BY <2>8, <3>1, <4>3, <4>4
    <3>2. CASE ~Won(x)
      <4>1. WonBets(m) = WonBets(V)
        BY <3>2 DEF WonBets
      <4> QED BY <2>8, <3>2, <4>1
    <3> QED BY <3>1, <3>2
  <2>10. Stake * (n + 1) = (Stake * n) + Stake
    BY <1>0, <2>5
  <2>11. Share[x] \in Int /\ Gain[x] = (IF Won(x) THEN Share[x] ELSE 0) - Stake
    BY <1>0, <2>4
  <2>12. Stake * n \in Int
    BY <1>0, <2>5
  <2> HIDE DEF V, n
  <2>13. Total(Gain, m) = Total(Share, WonBets(m)) - (Stake * (n + 1))
    BY <1>0, <2>4, <2>6, <2>8, <2>9, <2>10, <2>11, <2>12 DEF n
  <2> QED BY <2>2, <2>5, <2>13
<1>2. Fine(S)
  BY <1>1
<1>3. Total(Share, WonBets(S)) \in Int
  <2>1. IsFiniteSet(WonBets(S)) /\ WonBets(S) \subseteq S
    BY FS_Subset DEF WonBets
  <2> QED BY <1>0, <2>1, TotalTake
<1> QED BY <1>2, <1>3

\* The bets in the order of their windows: all of them, each once.
LEMMA Queued ==
  ASSUME NEW S, IsFiniteSet(S), S \subseteq Results,
         \A b, c \in S : b.win = c.win => b = c
  PROVE  /\ ByWindow(S) \in [1..Cardinality(S) -> S]
         /\ \A i, j \in 1..Cardinality(S) : ByWindow(S)[i] = ByWindow(S)[j] => i = j
         /\ {ByWindow(S)[i] : i \in 1..Cardinality(S)} = S
<1>0. PICK f : f = [b \in S |-> b.win]
  OBVIOUS
<1>00. PICK n \in Nat : n = Cardinality(S)
  BY FS_CardinalityType
<1> DEFINE OK(q) == \A i, j \in DOMAIN q : i < j => q[i].win < q[j].win
<1>1. /\ \A x \in S : f[x] \in Int /\ f[x] = x.win
      /\ \A x, y \in S : f[x] = f[y] => x = y
  BY <1>0 DEF Results
<1>2. \A q \in [1..n -> S] : OK(q) <=> Increasing(q, n, f)
  BY <1>0 DEF Increasing
<1>3. \E q \in [1..n -> S] : Increasing(q, n, f)
  BY <1>00, <1>1, Sortable
<1>4. ByWindow(S) = CHOOSE q \in [1..n -> S] : OK(q)
  BY <1>00 DEF ByWindow
<1> HIDE DEF OK
<1>5. ByWindow(S) \in [1..n -> S] /\ OK(ByWindow(S))
  BY <1>2, <1>3, <1>4
<1>6. PICK q : q = ByWindow(S)
  OBVIOUS
<1>7. \A x \in S : f[x] \in Int
  BY <1>1
<1>8. q \in [1..n -> S] /\ Increasing(q, n, f)
  BY <1>2, <1>5, <1>6
<1>9. /\ \A i, j \in 1..n : q[i] = q[j] => i = j
      /\ \A x \in S : \E i \in 1..n : q[i] = x
  <2>1. q \in [1..Cardinality(S) -> S] /\ Increasing(q, Cardinality(S), f)
    BY <1>00, <1>8
  <2>2. Lists(q, Cardinality(S), S)
    BY <1>7, <2>1, SortedCovers
  <2> QED BY <1>00, <2>2 DEF Lists
<1>10. {q[i] : i \in 1..n} = S
  BY <1>8, <1>9
<1> QED BY <1>00, <1>6, <1>8, <1>9, <1>10

LEMMA ProfitOfTheQueue ==
  ASSUME NEW S, IsFiniteSet(S), S \subseteq Results,
         \A b, c \in S : b.win = c.win => b = c
  PROVE  TotalProfit(ByWindow(S)) = Total(Gain, S)
<1> DEFINE q == ByWindow(S)
<1>1. PICK n \in Nat : n = Cardinality(S)
  BY FS_CardinalityType
<1>2. /\ q \in [1..n -> S] /\ DOMAIN q = 1..n
      /\ \A i, j \in 1..n : q[i] = q[j] => i = j
      /\ {q[i] : i \in 1..n} = S
  BY <1>1, Queued
<1> DEFINE h == [i \in 1..n |-> Gain[q[i]]]
           R(it) == it = [s \in SUBSET DOMAIN q |->
                           IF s = {} THEN 0
                           ELSE it[s \ {Max(s)}] + Profit(q[Max(s)].price, Won(q[Max(s)]))]
<1>3. TotalProfit(q) = (CHOOSE it : R(it))[DOMAIN q]
  BY DEF TotalProfit, FoldLeft, MapThenFoldSet
<1> HIDE DEF q
<1>4. \A i \in 1..n : /\ h[i] \in Int /\ h[i] = Profit(q[i].price, Won(q[i]))
                      /\ Gain[q[i]] \in Int
  <2>1. \A i \in 1..n : q[i] \in Results
    BY <1>2
  <2> QED BY <2>1, GainIs DEF Gain
<1>5. \A s \in SUBSET (1..n) : s # {} => Max(s) \in 1..n
  BY LastChooses DEF Chooses, Last1
<1> HIDE DEF h
<1>6. ASSUME NEW it PROVE IsLeftSum(it, n, h) <=> R(it)
  <2>1. DOMAIN q = 1..n
    BY <1>2
  <2>2. \A s \in SUBSET (1..n) : s # {} =>
          it[s \ {Max(s)}] + h[Max(s)]
            = it[s \ {Max(s)}] + Profit(q[Max(s)].price, Won(q[Max(s)]))
    BY <1>4, <1>5
  <2> QED BY <2>1, <2>2 DEF IsLeftSum
<1>7. (\E it : IsLeftSum(it, n, h)) /\ \A it : IsLeftSum(it, n, h) => it[1..n] = Total(h, 1..n)
  BY <1>4, LeftSum
<1> HIDE DEF R
<1>8. R(CHOOSE it : R(it))
  BY <1>6, <1>7
<1>9. TotalProfit(q) = Total(h, 1..n)
  BY <1>2, <1>3, <1>6, <1>7, <1>8
<1>10. Total(h, 1..n) = Total(Gain, {q[i] : i \in 1..n})
  <2> DEFINE T == 1..n
  <2>1. IsFiniteSet(T)
    BY FS_Interval
  <2>2. \A i, j \in T : q[i] = q[j] => i = j
    BY <1>2
  <2>3. \A i \in T : Gain[q[i]] \in Int
    BY <1>4
  <2>4. h = [i \in T |-> Gain[q[i]]]
    BY DEF h
  <2> HIDE DEF T
  <2>5. Total([i \in T |-> Gain[q[i]]], T) = Total(Gain, {q[i] : i \in T})
    BY <2>1, <2>2, <2>3, TotalReindex
  <2> QED BY <2>4, <2>5 DEF T
<1> QED BY <1>2, <1>9, <1>10 DEF q

\* A choice bets at a price of the book, the cheap one or the rest of a dollar.
LEMMA ChoicePrices ==
  ASSUME NEW s \in Slots, NEW n \in Int, NEW t \in Decisions(s, n), IsBet(t), ~IsBet(s)
  PROVE  t.price \in Prices
<1>1. s.dir = "watching"
  BY DEF Decisions
<1>2. PICK m \in Market :
        t = IF strategy = "dip" THEN DipChoice(s, n, m) ELSE ObiChoice(s, n, m)
  BY <1>1 DEF Decisions
<1>3. m.price \in Prices /\ 100 - m.price \in Prices
  <2>1. m.price \in 1..50
    BY BrainAssumption DEF Market
  <2> QED BY <2>1 DEF Prices
<1>4. ~IsBet(Pas(s))
  BY DEF Pas, IsBet, Dir, Slots
<1>5. ASSUME NEW d, NEW p PROVE Bet(s, d, p).price = p
  BY DEF Bet, Slots
<1>6. DipChoice(s, n, m) \in {s, Pas(s), Bet(s, m.cheap, m.price)}
  BY BrainAssumption, FeedAssumption DEF DipChoice
<1>7. ObiChoice(s, n, m) \in {s, Pas(s), Bet(s, m.obi, m.price), Bet(s, m.obi, 100 - m.price)}
  BY DEF ObiChoice
<1>8. CASE strategy = "dip"
  BY <1>2, <1>3, <1>4, <1>5, <1>6, <1>8
<1>9. CASE strategy # "dip"
  BY <1>2, <1>3, <1>4, <1>5, <1>7, <1>9
<1> QED BY <1>8, <1>9

DueBets == {Settled(s) : s \in Due}
SameWindow == slot.win = sample.win
Opens == IsBet(slot') /\ ~(SameWindow /\ IsBet(slot))

\* What update does to the slot and to the records to publish.
LEMMA UpdateWrites ==
  ASSUME IInv, Update
  PROVE  /\ SameWindow /\ IsBet(slot) => slot' = slot
         /\ Opens => slot'.price \in Prices
         /\ outbox' = [i \in DOMAIN ByWindow(DueBets) |-> SettledRow(ByWindow(DueBets)[i])]
                      \o (IF Opens THEN <<OpenRow(slot')>> ELSE <<>>)
         /\ pending' \subseteq pending \cup {slot}
         /\ pnl' = pnl + TotalProfit(ByWindow(DueBets))
         /\ wins' = wins + Cardinality(WonBets(DueBets))
         /\ losses' = losses + Cardinality(Due) - Cardinality(WonBets(DueBets))
<1> DEFINE rotate == slot.win # sample.win
           prev   == IF rotate /\ IsBet(slot) THEN {slot} ELSE {}
           fresh  == IF rotate THEN Slot(sample.win) ELSE slot
           done   == ByWindow(DueBets)
<1>1. PICK s \in Decisions(fresh, sample.at - sample.win) :
        /\ slot' = s
        /\ outbox' = [i \in DOMAIN done |-> SettledRow(done[i])]
                     \o (IF IsBet(s) /\ ~IsBet(fresh) THEN <<OpenRow(s)>> ELSE <<>>)
  BY DEF Update, Due, DueBets
<1>2. /\ pending' = (pending \ Due) \cup prev
      /\ pnl' = pnl + TotalProfit(done)
      /\ wins' = wins + Cardinality(WonBets(DueBets))
      /\ losses' = losses + Cardinality(Due) - Cardinality(WonBets(DueBets))
  BY DEF Update, Due, Kept, DueBets, WonBets
<1>3. /\ sample \in [win : Nat, at : Nat, strike : Nat] /\ slot \in Slots
      /\ sample.win \in Nat /\ sample.at \in Nat /\ sample.at - sample.win \in Int
  BY DEF IInv, BetsTyped, Update
<1>4. fresh \in Slots /\ (IsBet(fresh) <=> SameWindow /\ IsBet(slot))
  BY <1>3 DEF Slot, Slots, IsBet, Dir, SameWindow
<1>5. IsBet(fresh) => s = fresh
  BY <1>1, <1>3, <1>4, ChoiceKeepsWindow
<1>6. IsBet(s) /\ ~IsBet(fresh) => s.price \in Prices
  BY <1>1, <1>3, <1>4, ChoicePrices
<1>7. Opens <=> IsBet(s) /\ ~IsBet(fresh)
  BY <1>1, <1>4 DEF Opens
<1>8. SameWindow /\ IsBet(slot) => slot' = slot
  BY <1>1, <1>4, <1>5 DEF SameWindow
<1> HIDE DEF fresh, done
<1> QED BY <1>1, <1>2, <1>6, <1>7, <1>8 DEF done

\* The bets that an update settles: as many as were due, on different windows, none of them
\* settled before.
LEMMA DueAre ==
  ASSUME IInv, AccountOK
  PROVE  /\ IsFiniteSet(DueBets) /\ Cardinality(DueBets) = Cardinality(Due)
         /\ DueBets \subseteq Results /\ DueBets \cap settled = {}
         /\ \A b, c \in DueBets : b.win = c.win => b = c
         /\ \A b \in DueBets : b.win \in opened /\ b.win < slot.win
<1>1. \A d \in Due : /\ Settled(d) \in [win : Nat, dir : Dir, price : Nat, outcome : Dir]
                     /\ Settled(d).win = d.win /\ Settled(d).price = d.price
                     /\ d \in Held /\ d.win < slot.win
  BY DueSettles
<1>2. \A d, e \in Due : Settled(d) = Settled(e) => d = e
  <2>1. \A d, e \in Held : d.win = e.win => d = e
    BY DEF IInv, BetsAccounted
  <2> QED BY <1>1, <2>1
<1>3. IsFiniteSet(Due)
  BY FS_Subset DEF AccountOK, Due
<1>4. IsFiniteSet(DueBets) /\ Cardinality(DueBets) = Cardinality(Due)
  <2> DEFINE f == [d \in Due |-> Settled(d)]
  <2>1. \A d, e \in Due : f[d] = f[e] => d = e
    BY <1>2
  <2>2. DueBets = {f[d] : d \in Due}
    BY DEF DueBets
  <2> HIDE DEF f
  <2> QED BY <1>3, <2>1, <2>2, Image
<1>5. DueBets \subseteq Results
  BY <1>1 DEF AccountOK, DueBets, Results
<1>6. DueBets \cap settled = {}
  <2>1. HeldWindows \cap SettledWindows = {}
    BY DEF IInv, BetsAccounted
  <2> QED BY <1>1, <2>1 DEF DueBets, HeldWindows, SettledWindows
<1>7. \A b \in DueBets : b.win \in opened /\ b.win < slot.win
  <2>1. HeldWindows \subseteq opened
    BY DEF IInv, BetsAccounted
  <2> QED BY <1>1, <2>1 DEF DueBets, HeldWindows
<1>8. \A b, c \in DueBets : b.win = c.win => b = c
  <2>1. \A d, e \in Held : d.win = e.win => d = e
    BY DEF IInv, BetsAccounted
  <2> QED BY <1>1, <2>1 DEF DueBets
<1> QED BY <1>4, <1>5, <1>6, <1>7, <1>8

\* An update's account is the old one and what the bets it settles gain.
LEMMA UpdateAccount ==
  ASSUME IInv, AccountOK, Update
  PROVE  AccountOK'
<1> DEFINE D == DueBets
<1>1. /\ IsFiniteSet(D) /\ Cardinality(D) = Cardinality(Due) /\ D \subseteq Results
      /\ D \cap settled = {} /\ \A b, c \in D : b.win = c.win => b = c
  BY DueAre
<1>2. /\ IsFiniteSet(pending) /\ IsFiniteSet(settled)
      /\ \A s \in Held : s.price \in Prices
      /\ settled \subseteq Results
      /\ pnl \in Int /\ wins \in Nat /\ losses \in Nat
      /\ wins + losses = Cardinality(settled)
      /\ wins = Cardinality(WonBets(settled))
      /\ pnl = Total(Share, WonBets(settled)) - Stake * Cardinality(settled)
  BY DEF AccountOK
<1>3. /\ Held' = (Held \ Due) \cup NewBet
      /\ NewBet = {} \/ NewBet \subseteq Held \ Due \/ \A s \in Held : s.win < slot'.win
      /\ settled' = settled \cup D
  BY UpdateHolds DEF DueBets
<1>4. /\ SameWindow /\ IsBet(slot) => slot' = slot
      /\ Opens => slot'.price \in Prices
      /\ pending' \subseteq pending \cup {slot}
      /\ pnl' = pnl + TotalProfit(ByWindow(D))
      /\ wins' = wins + Cardinality(WonBets(D))
      /\ losses' = losses + Cardinality(Due) - Cardinality(WonBets(D))
  BY UpdateWrites
<1>5. \A s \in Held' : s.price \in Prices
  <2>1. ASSUME NEW s \in NewBet PROVE s.price \in Prices
    <3>1. s = slot' /\ IsBet(slot')
      BY DEF NewBet
    <3>2. CASE Opens
      BY <1>4, <3>1, <3>2
    <3>3. CASE ~Opens
      <4>1. slot' = slot /\ IsBet(slot)
        BY <1>4, <3>1, <3>3 DEF Opens
      <4> QED BY <1>2, <3>1, <4>1 DEF Held
    <3> QED BY <3>2, <3>3
  <2> QED BY <1>2, <1>3, <2>1
<1>6. IsFiniteSet(pending')
  <2>1. IsFiniteSet(pending \cup {slot})
    BY <1>2, FS_AddElement
  <2> QED BY <1>4, <2>1, FS_Subset
<1> HIDE DEF D
<1>7. TotalProfit(ByWindow(D)) = Total(Gain, D)
  BY <1>1, ProfitOfTheQueue
<1>8. /\ Total(Gain, D) = Total(Share, WonBets(D)) - (Stake * Cardinality(D))
      /\ Total(Share, WonBets(D)) \in Int /\ Total(Share, WonBets(settled)) \in Int
  BY <1>1, <1>2, GainsAddUp
<1>9. /\ IsFiniteSet(settled') /\ settled' \subseteq Results
      /\ Cardinality(settled') = Cardinality(settled) + Cardinality(D)
      /\ Cardinality(settled) \in Nat /\ Cardinality(D) \in Nat
  <2>1. /\ IsFiniteSet(settled \cup D)
        /\ Cardinality(settled \cup D)
             = Cardinality(settled) + Cardinality(D) - Cardinality(settled \cap D)
        /\ Cardinality(settled) \in Nat /\ Cardinality(D) \in Nat
    BY <1>1, <1>2, FS_Union, FS_CardinalityType
  <2>2. settled \cap D = {} /\ Cardinality({}) = 0
    BY <1>1, FS_EmptySet
  <2>3. Cardinality(settled \cap D) = 0
    BY <2>2
  <2> QED BY <1>1, <1>2, <1>3, <2>1, <2>3
<1> DEFINE W == WonBets(settled)
           V == WonBets(D)
<1>10. WonBets(settled') = W \cup V /\ W \cap V = {} /\ W \subseteq settled /\ V \subseteq D
  BY <1>1, <1>3 DEF WonBets
<1>11. IsFiniteSet(W) /\ IsFiniteSet(V) /\ Cardinality(V) <= Cardinality(D)
  BY <1>1, <1>2, <1>10, FS_Subset
<1>12. \A b \in W \cup V : Share[b] \in Int
  BY <1>1, <1>2, <1>10, GainIs
<1>13. /\ Cardinality(W \cup V) = Cardinality(W) + Cardinality(V)
       /\ Cardinality(W) \in Nat /\ Cardinality(V) \in Nat
  <2> HIDE DEF W, V
  <2>1. /\ Cardinality(W \cup V) = Cardinality(W) + Cardinality(V) - Cardinality(W \cap V)
        /\ Cardinality(W) \in Nat /\ Cardinality(V) \in Nat
    BY <1>11, FS_Union, FS_CardinalityType
  <2>2. Cardinality(W \cap V) = 0
    BY <1>10, FS_EmptySet
  <2> QED BY <2>1, <2>2
<1>14. Total(Share, W \cup V) = Total(Share, W) + Total(Share, V)
  <2> HIDE DEF W, V
  <2> QED BY <1>10, <1>11, <1>12, TotalUnion
<1>15. Total(Share, W) \in Int /\ Total(Share, V) \in Int
  BY <1>8
<1>16. WonBets(settled)' = W \cup V
  BY <1>10 DEF WonBets
<1> HIDE DEF W, V
<1>17. wins' = Cardinality(W \cup V) /\ wins' \in Nat
  BY <1>2, <1>4, <1>13 DEF W, V
<1>18. losses' \in Nat /\ wins' + losses' = Cardinality(settled')
  <2>1. wins = Cardinality(W) /\ wins' = wins + Cardinality(V)
    BY <1>2, <1>4 DEF W, V
  <2>2. losses' = losses + Cardinality(D) - Cardinality(V)
    BY <1>1, <1>4 DEF V
  <2> QED BY <1>2, <1>9, <1>11, <1>13, <2>1, <2>2
<1>19. pnl' \in Int /\ pnl' = Total(Share, W \cup V) - Stake * Cardinality(settled')
  <2>1. PICK c \in Nat, d \in Nat : c = Cardinality(settled) /\ d = Cardinality(D)
    BY <1>9
  <2>2. Stake * (c + d) = (Stake * c) + (Stake * d) /\ Stake * c \in Int /\ Stake * d \in Int
    BY BrainAssumption
  <2>3. pnl = Total(Share, W) - (Stake * c)
    BY <1>2, <2>1 DEF W
  <2>4. pnl' = pnl + (Total(Share, V) - (Stake * d))
    BY <1>4, <1>7, <1>8, <2>1 DEF V
  <2>5. Cardinality(settled') = c + d
    BY <1>9, <2>1
  <2>6. pnl' = (Total(Share, W) + Total(Share, V)) - (Stake * (c + d)) /\ pnl' \in Int
    BY <1>15, <2>2, <2>3, <2>4
  <2> QED BY <1>14, <2>5, <2>6
<1> QED BY <1>5, <1>6, <1>9, <1>16, <1>17, <1>18, <1>19 DEF AccountOK

\* What an update queues for publication: the settled bets, then the new one.
LEMMA UpdateQueues ==
  ASSUME IInv, AccountOK, Update
  PROVE  \E n \in Nat :
           /\ outbox' \in Seq(Records)
           /\ Len(outbox') = IF Opens THEN n + 1 ELSE n
           /\ \A i \in 1..n : /\ outbox'[i].status = "SETTLED"
                              /\ outbox'[i].win \in opened /\ outbox'[i].win < slot.win
           /\ Opens => outbox'[n + 1].status = "OPEN" /\ outbox'[n + 1].win = slot'.win
<1>1. PICK q : q = ByWindow(DueBets)
  OBVIOUS
<1>2. PICK n \in Nat : n = Cardinality(DueBets)
  BY DueAre, FS_CardinalityType
<1>3. /\ IsFiniteSet(DueBets) /\ DueBets \subseteq Results
      /\ \A b, c \in DueBets : b.win = c.win => b = c
      /\ \A b \in DueBets : b.win \in opened /\ b.win < slot.win
  BY DueAre
<1>4. q \in [1..n -> DueBets]
  BY <1>1, <1>2, <1>3, Queued
<1>5. PICK rows : rows = [i \in DOMAIN q |-> SettledRow(q[i])]
  OBVIOUS
<1>6. /\ rows \in Seq(Records) /\ Len(rows) = n
      /\ \A i \in 1..n : rows[i].status = "SETTLED" /\ rows[i].win = q[i].win
  <2>1. DOMAIN q = 1..n /\ \A i \in 1..n : q[i] \in Results
    BY <1>3, <1>4
  <2>2. \A i \in 1..n : SettledRow(q[i]) \in Records
    BY <2>1 DEF SettledRow, Records, Results
  <2>3. rows \in [1..n -> Records]
    BY <1>5, <2>1, <2>2
  <2> QED BY <1>5, <2>1, <2>3 DEF SettledRow
<1>7. PICK new : new = IF Opens THEN <<OpenRow(slot')>> ELSE <<>>
  OBVIOUS
<1>8. OpenRow(slot') \in Records /\ OpenRow(slot').status = "OPEN" /\ OpenRow(slot').win = slot'.win
  <2>1. slot'.win \in Nat
    BY UpdateHolds DEF Slots
  <2>2. sample.at \in Nat /\ WindowLen \in Nat
    BY FeedAssumption DEF IInv, BetsTyped
  <2> QED BY <2>1, <2>2 DEF OpenRow, Records
<1>9. /\ new \in Seq(Records) /\ Len(new) = IF Opens THEN 1 ELSE 0
      /\ Opens => new[1] = OpenRow(slot')
  BY <1>7, <1>8
<1>10. outbox' = rows \o new
  BY <1>1, <1>5, <1>7, UpdateWrites
<1>11. /\ outbox' \in Seq(Records) /\ Len(outbox') = Len(rows) + Len(new)
       /\ \A i \in 1..Len(rows) : outbox'[i] = rows[i]
       /\ \A i \in 1..Len(new) : outbox'[Len(rows) + i] = new[i]
  <2>1. rows \in Seq(Records) /\ new \in Seq(Records)
    BY <1>6, <1>9
  <2> QED BY <1>10, <2>1, Concat
<1>12. Opens => outbox'[n + 1] = OpenRow(slot')
  <2>1. Opens => 1 \in 1..Len(new)
    BY <1>9
  <2> QED BY <1>6, <1>9, <1>11, <2>1
<1>13. \A i \in 1..n : q[i] \in DueBets
  BY <1>4
<1>14. Len(outbox') = IF Opens THEN n + 1 ELSE n
  BY <1>6, <1>9, <1>11
<1> QED BY SMTT(40), <1>3, <1>6, <1>8, <1>11, <1>12, <1>13, <1>14

\* After an update the list and the streams fit the bets again.
LEMMA UpdateBooks ==
  ASSUME IInv, JInv, Update
  PROVE  RestTyped' /\ OutboxOK' /\ EntriesOK' /\ RowsOK'
<1>1. AccountOK /\ RestTyped /\ OutboxOK /\ EntriesOK /\ RowsOK
  BY DEF JInv
<1>2. PICK n \in Nat :
        /\ outbox' \in Seq(Records)
        /\ Len(outbox') = IF Opens THEN n + 1 ELSE n
        /\ \A i \in 1..n : /\ outbox'[i].status = "SETTLED"
                           /\ outbox'[i].win \in opened /\ outbox'[i].win < slot.win
        /\ Opens => outbox'[n + 1].status = "OPEN" /\ outbox'[n + 1].win = slot'.win
  BY <1>1, UpdateQueues
<1>3. /\ loop = "sampled" /\ loop' = "drain"
      /\ fails' = fails /\ faults' = faults /\ strategy' = strategy /\ entered' = entered
      /\ entries' = entries /\ trades' = trades
  BY DEF Update, feedVars, streamVars
<1>4. outbox = <<>> /\ ~entered
  BY <1>1, <1>3 DEF OutboxOK
<1>5. /\ slot.win \in Nat /\ slot'.win \in Nat /\ slot.win <= slot'.win /\ slot'.win = sample.win
      /\ opened' = opened \cup {s.win : s \in NewBet}
  BY UpdateHolds DEF IInv, BetsTyped, Slots
<1>6. SameWindow /\ IsBet(slot) => slot' = slot
  BY UpdateWrites
<1>7. RestTyped'
  BY <1>1, <1>2, <1>3 DEF RestTyped
<1>8. IsBet(slot)' <=> IsBet(slot')
  BY DEF IsBet
<1>9. OutboxOK'
  <2>1. ~entered'
    BY <1>3, <1>4
  <2>2. ASSUME NEW i \in DOMAIN outbox'
        PROVE  IF outbox'[i].status = "OPEN"
               THEN i = Len(outbox') /\ IsBet(slot') /\ outbox'[i].win = slot'.win
               ELSE outbox'[i].win < slot'.win /\ outbox'[i].win \in opened'
    <3>1. i \in 1..Len(outbox')
      BY <1>2
    <3>2. CASE i \in 1..n
      <4>1. outbox'[i].status = "SETTLED" /\ outbox'[i].win \in opened /\ outbox'[i].win < slot.win
        BY <1>2, <3>2
      <4>2. opened \subseteq Nat
        BY DEF IInv, BetsAccounted, BetsTyped, HeldWindows, Held, SettledWindows, Slots
      <4>3. outbox'[i].win \in Nat
        BY <4>1, <4>2
      <4> QED BY <1>5, <4>1, <4>3
    <3>3. CASE i \notin 1..n
      <4>1. Opens /\ i = n + 1
        BY <1>2, <3>1, <3>3
      <4> QED BY <1>2, <4>1 DEF Opens
    <3> QED BY <3>2, <3>3
  <2> QED BY <1>3, <1>8, <2>1, <2>2 DEF OutboxOK
<1>10. EntriesOK'
  <2>1. /\ EntriesOncePerWindow
        /\ \A i \in DOMAIN entries : entries[i].win <= slot.win
        /\ (HasOpen(outbox) \/ ~IsBet(slot)) /\ ~entered =>
              \A i \in DOMAIN entries : entries[i].win < slot.win
    BY <1>1 DEF EntriesOK
  <2>2. \A i \in DOMAIN entries : entries[i].win \in Nat
    <3>1. entries \in Seq(Entry)
      BY <1>1 DEF RestTyped, Entry
    <3>2. DOMAIN entries = 1..Len(entries) /\ \A i \in 1..Len(entries) : entries[i] \in Entry
      BY <3>1
    <3> QED BY <3>2 DEF Entry
  <2>3. EntriesOncePerWindow'
    BY <1>3, <2>1 DEF EntriesOncePerWindow
  <2>4. \A i \in DOMAIN entries' : entries'[i].win <= slot'.win
    BY <1>3, <1>5, <2>1, <2>2
  <2>5. ASSUME HasOpen(outbox') \/ ~IsBet(slot')
        PROVE  \A i \in DOMAIN entries' : entries'[i].win < slot'.win
    <3>1. CASE ~SameWindow
      <4>1. slot.win < slot'.win
        BY <1>5, <3>1 DEF SameWindow
      <4> QED BY <1>3, <1>5, <2>1, <2>2, <4>1
    <3>2. CASE SameWindow
      <4>1. ~IsBet(slot)
        <5>1. CASE HasOpen(outbox')
          <6>1. PICK i \in 1..Len(outbox') : outbox'[i].status = "OPEN"
            BY <1>2, <5>1 DEF HasOpen
          <6>2. Opens
            BY <1>2, <6>1
          <6> QED BY <3>2, <6>2 DEF Opens
        <5>2. CASE ~IsBet(slot')
          BY <1>6, <3>2, <5>2
        <5> QED BY <2>5, <5>1, <5>2
      <4>2. slot'.win = slot.win
        BY <1>5, <3>2 DEF SameWindow
      <4> QED BY <1>3, <1>4, <2>1, <4>1, <4>2
    <3> QED BY <3>1, <3>2
  <2>6. HasOpen(outbox)' <=> HasOpen(outbox')
    BY DEF HasOpen
  <2> QED BY <1>3, <1>4, <1>8, <2>3, <2>4, <2>5, <2>6 DEF EntriesOK
<1>11. RowsOK'
  <2>1. RowsInOrder'
    BY <1>1, <1>3 DEF RowsOK, RowsInOrder
  <2>2. ASSUME faults = 0, NEW w \in opened' PROVE OpenAt(trades', w) \/ OpenAt(outbox', w)
    <3>1. ~OpenAt(outbox, w)
      BY <1>4 DEF OpenAt
    <3>2. CASE w \in opened
      BY <1>1, <1>3, <2>2, <3>1, <3>2 DEF RowsOK
    <3>3. CASE w \notin opened
      <4>1. w = slot'.win /\ IsBet(slot')
        BY <1>5, <3>3 DEF NewBet
      <4>2. Opens
        <5>1. SUFFICES ASSUME SameWindow, IsBet(slot) PROVE FALSE
          BY <4>1 DEF Opens
        <5>2. slot.win \in opened
          BY <5>1 DEF IInv, BetsAccounted, HeldWindows, Held
        <5> QED BY <1>6, <3>3, <4>1, <5>1, <5>2
      <4>3. n + 1 \in DOMAIN outbox'
        BY <1>2, <4>2
      <4> QED BY <1>2, <4>1, <4>2, <4>3 DEF OpenAt
    <3> QED BY <3>2, <3>3
  <2>3. \A w : OpenAt(trades, w)' <=> OpenAt(trades', w)
    BY DEF OpenAt
  <2>4. \A w : OpenAt(outbox, w)' <=> OpenAt(outbox', w)
    BY DEF OpenAt
  <2> QED BY <1>3, <2>1, <2>2, <2>3, <2>4 DEF RowsOK
<1> QED BY <1>7, <1>9, <1>10, <1>11

------------------------------------------------------------------------------
(* The publication of the records. *)

LEMMA Appending ==
  ASSUME NEW X, NEW p \in Seq(X), NEW x \in X, NEW r, r = Append(p, x)
  PROVE  /\ r \in Seq(X) /\ DOMAIN p = 1..Len(p) /\ DOMAIN r = 1..(Len(p) + 1)
         /\ Len(p) \in Nat /\ r[Len(p) + 1] = x
         /\ \A i \in 1..Len(p) : r[i] = p[i] /\ p[i] \in X
OBVIOUS

LEMMA HeadLeaves ==
  ASSUME NEW X, NEW p \in Seq(X), p # <<>>, NEW r, r = Tail(p)
  PROVE  /\ r \in Seq(X) /\ Len(p) \in Nat \ {0} /\ Len(r) = Len(p) - 1
         /\ DOMAIN p = 1..Len(p) /\ DOMAIN r = 1..(Len(p) - 1)
         /\ Head(p) = p[1] /\ p[1] \in X
         /\ \A i \in 1..(Len(p) - 1) : r[i] = p[i + 1] /\ i + 1 \in 1..Len(p)
         /\ \A i \in 1..Len(p) : i # 1 => i - 1 \in 1..(Len(p) - 1) /\ r[i - 1] = p[i]
<1>1. /\ r \in Seq(X) /\ Len(p) \in Nat \ {0} /\ Len(r) = Len(p) - 1
      /\ DOMAIN p = 1..Len(p) /\ DOMAIN r = 1..(Len(p) - 1)
      /\ Head(p) = p[1] /\ p[1] \in X
  OBVIOUS
<1>2. \A i \in 1..(Len(p) - 1) : r[i] = p[i + 1] /\ i + 1 \in 1..Len(p)
  OBVIOUS
<1>3. ASSUME NEW i \in 1..Len(p), i # 1 PROVE i - 1 \in 1..(Len(p) - 1) /\ r[i - 1] = p[i]
  <2>1. i - 1 \in 1..(Len(p) - 1) /\ (i - 1) + 1 = i
    BY <1>1, <1>3
  <2> QED BY <1>2, <2>1
<1> QED BY <1>1, <1>2, <1>3

\* The entry of the bet just opened is sent before its record.
LEMMA EntryStep ==
  ASSUME IInv, JInv, PublishEntry
  PROVE  JInv'
<1>1. AccountOK /\ RestTyped /\ OutboxOK /\ EntriesOK /\ RowsOK
  BY DEF JInv
<1>2. /\ UNCHANGED <<now, fails, strategy, faults, loop, traderVars, outbox, trades>>
      /\ outbox # <<>> /\ Head(outbox).status = "OPEN" /\ ~entered /\ entered' = TRUE
      /\ entries' = Append(entries, [win |-> Head(outbox).win, left |-> Head(outbox).left, ts |-> now])
  BY DEF PublishEntry, NeedsEntry, feedVars
<1>3. UNCHANGED <<slot, pending, wins, losses, pnl, opened, settled, outbox, trades>>
  BY <1>2 DEF traderVars
<1>4. AccountOK'
  BY <1>1, <1>3 DEF AccountOK, Held, IsBet, WonBets, Won
<1>5. /\ outbox \in Seq(Records) /\ trades \in Seq(Records)
      /\ entries \in Seq(Entry) /\ now \in Nat
  BY <1>1 DEF RestTyped, Entry, IInv, FeedOK
<1>6. Head(outbox) = outbox[1] /\ outbox[1] \in Records /\ 1 \in DOMAIN outbox
  BY <1>2, <1>5
<1>7. IsBet(slot) /\ outbox[1].win = slot.win /\ HasOpen(outbox) /\ slot.win \in Nat
  BY <1>1, <1>2, <1>6 DEF OutboxOK, HasOpen, IInv, BetsTyped, Slots
<1>8. PICK e \in Entry : e.win = slot.win /\ entries' = Append(entries, e)
  <2>1. [win |-> outbox[1].win, left |-> outbox[1].left, ts |-> now] \in Entry
    BY <1>5, <1>6 DEF Records, Entry
  <2> QED BY <1>2, <1>6, <1>7, <2>1
<1>9. /\ entries' \in Seq(Entry) /\ DOMAIN entries = 1..Len(entries) /\ Len(entries) \in Nat
      /\ DOMAIN entries' = 1..(Len(entries) + 1)
      /\ entries'[Len(entries) + 1] = e
      /\ \A i \in 1..Len(entries) : entries'[i] = entries[i] /\ entries[i] \in Entry
  BY <1>5, <1>8, Appending
<1>10. RestTyped'
  BY <1>1, <1>2, <1>9 DEF RestTyped, Entry
<1>11. OutboxOK'
  BY <1>1, <1>2, <1>3, <1>6 DEF OutboxOK, IsBet
<1>12. \A i \in 1..Len(entries) : entries[i].win < slot.win /\ entries[i].win \in Nat
  BY <1>1, <1>2, <1>7, <1>9 DEF EntriesOK, Entry
<1>13. EntriesOK'
  <2>1. EntriesOncePerWindow'
    <3> SUFFICES ASSUME NEW i \in DOMAIN entries', NEW j \in DOMAIN entries', i < j
                 PROVE  entries'[i].win < entries'[j].win
      BY DEF EntriesOncePerWindow
    <3>1. i \in 1..Len(entries)
      BY <1>9
    <3>2. CASE j \in 1..Len(entries)
      BY <1>1, <1>9, <3>1, <3>2 DEF EntriesOK, EntriesOncePerWindow
    <3>3. CASE j = Len(entries) + 1
      BY <1>8, <1>9, <1>12, <3>1, <3>3
    <3> QED BY <1>9, <3>2, <3>3
  <2>2. \A i \in DOMAIN entries' : entries'[i].win <= slot'.win
    <3> SUFFICES ASSUME NEW i \in DOMAIN entries' PROVE entries'[i].win <= slot.win
      BY <1>3
    <3>1. CASE i \in 1..Len(entries)
      BY <1>7, <1>9, <1>12, <3>1
    <3>2. CASE i = Len(entries) + 1
      BY <1>7, <1>8, <1>9, <3>2
    <3> QED BY <1>9, <3>1, <3>2
  <2>3. \E i \in DOMAIN entries' : entries'[i].win = slot'.win
    <3>1. Len(entries) + 1 \in DOMAIN entries'
      BY <1>9
    <3> QED BY <1>3, <1>8, <1>9, <3>1
  <2> QED BY <1>2, <2>1, <2>2, <2>3 DEF EntriesOK
<1>14. RowsOK'
  <2>1. Range(entries) \subseteq Range(entries')
    <3>1. \A i \in DOMAIN entries : i \in DOMAIN entries' /\ entries'[i] = entries[i]
      BY <1>9
    <3> QED BY <3>1 DEF Range
  <2>2. Range(entries)' = Range(entries')
    BY DEF Range
  <2>3. RowsInOrder'
    BY <1>1, <1>2, <2>1, <2>2 DEF RowsOK, RowsInOrder
  <2> QED BY <1>1, <1>2, <1>3, <2>3 DEF RowsOK, OpenAt
<1> QED BY <1>4, <1>10, <1>11, <1>13, <1>14 DEF JInv

\* The records that are left once the first one is gone.
LEMMA QueueShrinks ==
  ASSUME IInv, JInv, outbox # <<>>, loop' = "drain",
         outbox' = Tail(outbox), entered' = FALSE, entries' = entries,
         UNCHANGED <<slot, opened>>
  PROVE  OutboxOK' /\ EntriesOK'
<1>1. OutboxOK /\ EntriesOK
  BY DEF JInv
<1>2. outbox \in Seq(Records)
  BY DEF JInv, RestTyped
<1>3. /\ Len(outbox) \in Nat \ {0} /\ Len(outbox') = Len(outbox) - 1
      /\ DOMAIN outbox = 1..Len(outbox) /\ DOMAIN outbox' = 1..(Len(outbox) - 1)
      /\ Head(outbox) = outbox[1]
      /\ \A i \in 1..(Len(outbox) - 1) : outbox'[i] = outbox[i + 1] /\ i + 1 \in 1..Len(outbox)
  BY <1>2, HeadLeaves
<1>4. OutboxOK'
  <2>1. ASSUME NEW i \in DOMAIN outbox'
        PROVE  IF outbox'[i].status = "OPEN"
               THEN i = Len(outbox') /\ IsBet(slot) /\ outbox'[i].win = slot.win
               ELSE outbox'[i].win < slot.win /\ outbox'[i].win \in opened
    <3>1. outbox'[i] = outbox[i + 1] /\ i + 1 \in DOMAIN outbox /\ i \in Nat
      BY <1>3
    <3>2. i + 1 = Len(outbox) => i = Len(outbox')
      BY <1>3, <3>1
    <3> QED BY <1>1, <3>1, <3>2 DEF OutboxOK
  <2> QED BY <2>1 DEF OutboxOK, IsBet
<1>5. HasOpen(outbox') \/ ~IsBet(slot) => (HasOpen(outbox) \/ ~IsBet(slot)) /\ ~entered
  <2>1. CASE HasOpen(outbox')
    <3>1. PICK i \in DOMAIN outbox' : outbox'[i].status = "OPEN"
      BY <2>1 DEF HasOpen
    <3>2. outbox'[i] = outbox[i + 1] /\ i + 1 \in DOMAIN outbox /\ i \in Nat \ {0} /\ 1 \in DOMAIN outbox
      BY <1>3, <3>1
    <3>3. HasOpen(outbox)
      BY <3>1, <3>2 DEF HasOpen
    <3>4. Len(outbox) # 1
      BY <1>3, <3>2
    <3>5. outbox[1].status # "OPEN"
      BY <1>1, <3>2, <3>4 DEF OutboxOK
    <3> QED BY <1>1, <1>3, <3>3, <3>5 DEF OutboxOK
  <2>2. CASE ~IsBet(slot)
    <3>1. 1 \in DOMAIN outbox
      BY <1>3
    <3> QED BY <1>1, <1>3, <2>2, <3>1 DEF OutboxOK
  <2> QED BY <2>1, <2>2
<1>6. EntriesOK'
  <2>1. EntriesOncePerWindow'
    BY <1>1 DEF EntriesOK, EntriesOncePerWindow
  <2>2. HasOpen(outbox)' <=> HasOpen(outbox')
    BY DEF HasOpen
  <2>3. IsBet(slot)' <=> IsBet(slot)
    BY DEF IsBet
  <2> QED BY <1>1, <1>5, <2>1, <2>2, <2>3 DEF EntriesOK
<1> QED BY <1>4, <1>6

\* A record is sent, and leaves the list.
LEMMA TradeStep ==
  ASSUME IInv, JInv, PublishTrade
  PROVE  JInv'
<1>1. AccountOK /\ RestTyped /\ OutboxOK /\ EntriesOK /\ RowsOK
  BY DEF JInv
<1>2. /\ UNCHANGED <<now, fails, strategy, faults, loop, entries>>
      /\ UNCHANGED <<slot, pending, wins, losses, pnl, opened, settled>>
      /\ loop = "drain" /\ outbox # <<>> /\ (Head(outbox).status # "OPEN" \/ entered)
      /\ trades' = Append(trades, Head(outbox))
      /\ outbox' = Tail(outbox) /\ entered' = FALSE
  BY DEF PublishTrade, NeedsEntry, feedVars, traderVars
<1>3. AccountOK'
  BY <1>1, <1>2 DEF AccountOK, Held, IsBet, WonBets, Won
<1>4. OutboxOK' /\ EntriesOK'
  BY <1>2, QueueShrinks
<1>5. outbox \in Seq(Records) /\ trades \in Seq(Records)
  BY <1>1 DEF RestTyped
<1>6. /\ outbox' \in Seq(Records) /\ Len(outbox) \in Nat \ {0}
      /\ DOMAIN outbox = 1..Len(outbox) /\ DOMAIN outbox' = 1..(Len(outbox) - 1)
      /\ Head(outbox) = outbox[1] /\ outbox[1] \in Records
      /\ \A i \in 1..Len(outbox) : i # 1 => i - 1 \in 1..(Len(outbox) - 1)
                                            /\ outbox'[i - 1] = outbox[i]
  BY <1>2, <1>5, HeadLeaves
<1>7. PICK row \in Records : row = outbox[1]
  BY <1>6
<1>8. /\ trades' \in Seq(Records) /\ DOMAIN trades = 1..Len(trades) /\ Len(trades) \in Nat
      /\ DOMAIN trades' = 1..(Len(trades) + 1) /\ trades'[Len(trades) + 1] = row
      /\ \A i \in 1..Len(trades) : trades'[i] = trades[i]
  BY <1>2, <1>5, <1>6, <1>7, Appending
<1>9. RestTyped'
  BY <1>1, <1>2, <1>6, <1>8 DEF RestTyped
<1>10. 1 \in DOMAIN outbox /\ (row.status # "OPEN" \/ entered)
  BY <1>2, <1>6, <1>7
<1>11. RowsOK'
  <2>1. ASSUME NEW w, OpenAt(trades, w) PROVE OpenAt(trades', w)
    BY <1>8, <2>1 DEF OpenAt
  <2>2. ASSUME NEW w, OpenAt(outbox, w) PROVE OpenAt(trades', w) \/ OpenAt(outbox', w)
    <3>1. PICK i \in 1..Len(outbox) : outbox[i].status = "OPEN" /\ outbox[i].win = w
      BY <1>6, <2>2 DEF OpenAt
    <3>2. CASE i = 1
      <4>1. Len(trades) + 1 \in DOMAIN trades'
        BY <1>8
      <4> QED BY <1>7, <1>8, <3>1, <3>2, <4>1 DEF OpenAt
    <3>3. CASE i # 1
      <4>1. i - 1 \in DOMAIN outbox' /\ outbox'[i - 1] = outbox[i]
        BY <1>6, <3>3
      <4> QED BY <3>1, <4>1 DEF OpenAt
    <3> QED BY <3>2, <3>3
  <2>3. faults' = 0 => \A w \in opened' : OpenAt(trades', w) \/ OpenAt(outbox', w)
    BY <1>1, <1>2, <2>1, <2>2 DEF RowsOK
  <2>4. RowsInOrder'
    <3> SUFFICES ASSUME NEW i \in DOMAIN trades'
                 PROVE  IF trades'[i].status = "OPEN"
                        THEN \E e \in Range(entries) : e.win = trades'[i].win
                        ELSE faults = 0 => \E j \in 1..(i - 1) :
                               trades'[j].status = "OPEN" /\ trades'[j].win = trades'[i].win
      BY <1>2 DEF RowsInOrder, Range
    <3>1. CASE i \in 1..Len(trades)
      <4>1. trades'[i] = trades[i] /\ i \in DOMAIN trades
        BY <1>8, <3>1
      <4>2. \A j \in 1..(i - 1) : trades'[j] = trades[j]
        BY <1>8, <3>1
      <4> QED BY <1>1, <4>1, <4>2 DEF RowsOK, RowsInOrder
    <3>2. CASE i = Len(trades) + 1
      <4>1. trades'[i] = row
        BY <1>8, <3>2
      <4>2. CASE row.status = "OPEN"
        <5>1. row.win = slot.win
          BY <1>1, <1>7, <1>10, <4>2 DEF OutboxOK
        <5>2. \E k \in DOMAIN entries : entries[k].win = slot.win
          BY <1>1, <1>10, <4>2 DEF EntriesOK
        <5> QED BY <4>1, <4>2, <5>1, <5>2 DEF Range
      <4>3. CASE row.status # "OPEN"
        <5> SUFFICES ASSUME faults = 0
                     PROVE  \E j \in 1..(i - 1) :
                              trades'[j].status = "OPEN" /\ trades'[j].win = row.win
          BY <4>1, <4>3
        <5>1. row.win < slot.win /\ row.win \in opened
          BY <1>1, <1>7, <1>10, <4>3 DEF OutboxOK
        <5>2. ~OpenAt(outbox, row.win)
          <6> SUFFICES ASSUME NEW k \in DOMAIN outbox, outbox[k].status = "OPEN",
                              outbox[k].win = row.win
                       PROVE  FALSE
            BY DEF OpenAt
          <6>1. row.win = slot.win
            BY <1>1 DEF OutboxOK
          <6>2. slot.win \in Nat
            BY DEF IInv, BetsTyped, Slots
          <6> QED BY <5>1, <6>1, <6>2
        <5>3. OpenAt(trades, row.win)
          BY <1>1, <5>1, <5>2 DEF RowsOK
        <5>4. PICK k \in 1..Len(trades) : trades[k].status = "OPEN" /\ trades[k].win = row.win
          BY <1>8, <5>3 DEF OpenAt
        <5>5. k \in 1..(i - 1) /\ trades'[k] = trades[k]
          BY <1>8, <3>2
        <5> QED BY <5>4, <5>5
      <4> QED BY <4>2, <4>3
    <3> QED BY <1>8, <3>1, <3>2
  <2>5. \A w : OpenAt(trades, w)' <=> OpenAt(trades', w)
    BY DEF OpenAt
  <2>6. \A w : OpenAt(outbox, w)' <=> OpenAt(outbox', w)
    BY DEF OpenAt
  <2> QED BY <2>3, <2>4, <2>5, <2>6 DEF RowsOK
<1> QED BY <1>3, <1>4, <1>9, <1>11 DEF JInv

\* A call raises: the record leaves the list, and nothing else changes but the faults.
LEMMA FailedStep ==
  ASSUME IInv, JInv, PublishFails
  PROVE  JInv'
<1>1. AccountOK /\ RestTyped /\ OutboxOK /\ EntriesOK /\ RowsOK
  BY DEF JInv
<1>2. /\ fails > 0 /\ fails' = fails - 1 /\ faults' = faults + 1
      /\ UNCHANGED <<strategy, loop, entries, trades>>
      /\ UNCHANGED <<slot, pending, wins, losses, pnl, opened, settled>>
      /\ loop = "drain" /\ outbox # <<>>
      /\ outbox' = Tail(outbox) /\ entered' = FALSE
  BY DEF PublishFails, Fault, traderVars, streamVars
<1>3. AccountOK'
  BY <1>1, <1>2 DEF AccountOK, Held, IsBet, WonBets, Won
<1>4. OutboxOK' /\ EntriesOK'
  BY <1>2, QueueShrinks
<1>5. outbox' \in Seq(Records)
  <2>1. outbox \in Seq(Records)
    BY <1>1 DEF RestTyped
  <2> QED BY <1>2, <2>1, HeadLeaves
<1>6. fails' \in Nat /\ faults' \in Nat /\ faults' # 0
  BY <1>1, <1>2 DEF RestTyped
<1>7. RestTyped'
  BY <1>1, <1>2, <1>5, <1>6 DEF RestTyped
<1>8. RowsInOrder'
  <2> SUFFICES ASSUME NEW i \in DOMAIN trades, trades[i].status = "OPEN"
               PROVE  \E e \in Range(entries) : e.win = trades[i].win
    BY <1>2, <1>6 DEF RowsInOrder, Range
  <2> QED BY <1>1 DEF RowsOK, RowsInOrder
<1>9. RowsOK'
  BY <1>6, <1>8 DEF RowsOK
<1> QED BY <1>3, <1>4, <1>7, <1>9 DEF JInv

\* What a restart and the start of the program leave.
Blank ==
  /\ slot = Slot(0) /\ pending = {} /\ opened = {} /\ settled = {}
  /\ wins = 0 /\ losses = 0 /\ pnl = 0
  /\ outbox = <<>> /\ entered = FALSE /\ entries = <<>> /\ trades = <<>>
  /\ fails \in Nat /\ faults \in Nat /\ strategy \in Strategies

\* A run that has done nothing has the books in order.
LEMMA BlankHolds == Blank => JInv
<1> SUFFICES ASSUME Blank PROVE JInv
  OBVIOUS
<1>1. /\ slot = Slot(0) /\ pending = {} /\ opened = {} /\ settled = {}
      /\ wins = 0 /\ losses = 0 /\ pnl = 0
      /\ outbox = <<>> /\ entered = FALSE /\ entries = <<>> /\ trades = <<>>
      /\ fails \in Nat /\ faults \in Nat /\ strategy \in Strategies
  BY DEF Blank
<1>2. ~IsBet(slot) /\ Held = {}
  BY <1>1 DEF Slot, IsBet, Dir, Held
<1>3. AccountOK
  <2>1. WonBets(settled) = {}
    BY <1>1 DEF WonBets
  <2>2. /\ IsFiniteSet(settled) /\ IsFiniteSet(pending) /\ Cardinality(settled) = 0
        /\ Cardinality(WonBets(settled)) = 0 /\ Total(Share, WonBets(settled)) = 0
    BY <1>1, <2>1, FS_EmptySet, TotalEmpty
  <2>3. Stake * 0 = 0
    BY BrainAssumption
  <2>4. pnl = Total(Share, WonBets(settled)) - Stake * Cardinality(settled)
    BY <1>1, <2>2, <2>3
  <2>5. wins + losses = Cardinality(settled) /\ wins = Cardinality(WonBets(settled))
    BY <1>1, <2>2
  <2> QED BY <1>1, <1>2, <2>2, <2>4, <2>5 DEF AccountOK
<1>4. RestTyped
  <2>1. <<>> \in Seq(Records) /\ <<>> \in Seq(Entry)
    OBVIOUS
  <2> QED BY <1>1, <2>1 DEF RestTyped, Entry
<1>5. DOMAIN outbox = {} /\ DOMAIN entries = {} /\ DOMAIN trades = {}
  BY <1>1
<1>6. OutboxOK /\ EntriesOK
  BY <1>1, <1>5 DEF OutboxOK, EntriesOK, EntriesOncePerWindow
<1>7. RowsOK
  BY <1>1, <1>5 DEF RowsOK, RowsInOrder
<1> QED BY <1>3, <1>4, <1>6, <1>7 DEF JInv

\* The steps of the feed, the clock and the loop that publish nothing.
LEMMA QuietStep ==
  ASSUME JInv, UNCHANGED <<slot, pending, wins, losses, pnl, opened, settled>>,
         UNCHANGED <<faults, strategy, outbox, entered, entries, trades>>, fails' \in Nat,
         loop' = loop \/ outbox = <<>>
  PROVE  JInv'
<1>1. AccountOK /\ RestTyped /\ OutboxOK /\ EntriesOK /\ RowsOK
  BY DEF JInv
<1>2. AccountOK'
  BY <1>1 DEF AccountOK, Held, IsBet, WonBets, Won
<1>3. RestTyped'
  BY <1>1 DEF RestTyped
<1>4. OutboxOK'
  BY <1>1 DEF OutboxOK, IsBet
<1>5. EntriesOK'
  BY <1>1 DEF EntriesOK, EntriesOncePerWindow, HasOpen, IsBet
<1>6. RowsOK'
  BY <1>1 DEF RowsOK, RowsInOrder, OpenAt, Range
<1> QED BY <1>2, <1>3, <1>4, <1>5, <1>6 DEF JInv

LEMMA FeedFails ==
  ASSUME fails \in Nat, Fetches
  PROVE  fails' \in Nat
<1>1. CASE FetchFails
  BY <1>1 DEF FetchFails
<1>2. ASSUME NEW asked, NEW served, NEW named, FetchDone(asked, served, named)
      PROVE  fails' \in Nat
  BY <1>2 DEF FetchDone
<1> QED BY <1>1, <1>2 DEF Fetches

\* The books are in order after every step.
LEMMA BooksStep ==
  ASSUME IInv, JInv, [Next]_vars
  PROVE  JInv' \/ Blank'
<1>1. /\ fails \in Nat /\ faults \in Nat /\ strategy \in Strategies
      /\ loop = "idle" => outbox = <<>>
  BY DEF JInv, RestTyped, OutboxOK
<1>2. CASE Tick
  <2>1. /\ UNCHANGED <<slot, pending, wins, losses, pnl, opened, settled>>
        /\ UNCHANGED <<faults, strategy, outbox, entered, entries, trades>>
        /\ fails' = fails /\ loop' = loop
    BY <1>2 DEF Tick, FeedTick, brainVars, traderVars, streamVars
  <2> QED BY <1>1, <2>1, QuietStep
<1>3. CASE FeedStep
  <2>1. /\ UNCHANGED <<slot, pending, wins, losses, pnl, opened, settled>>
        /\ UNCHANGED <<faults, strategy, outbox, entered, entries, trades>>
        /\ loop' = loop
    BY <1>3 DEF FeedStep, brainVars, traderVars, streamVars
  <2>2. fails' \in Nat
    BY <1>1, <1>3, FeedFails DEF FeedStep
  <2> QED BY <2>1, <2>2, QuietStep
<1>4. CASE Sample
  <2>1. /\ UNCHANGED <<slot, pending, wins, losses, pnl, opened, settled>>
        /\ UNCHANGED <<faults, strategy, outbox, entered, entries, trades>>
        /\ fails' = fails /\ outbox = <<>>
    BY <1>1, <1>4 DEF Sample, feedVars, traderVars, streamVars
  <2> QED BY <1>1, <2>1, QuietStep
<1>5. CASE TurnDone
  <2>1. /\ UNCHANGED <<slot, pending, wins, losses, pnl, opened, settled>>
        /\ UNCHANGED <<faults, strategy, outbox, entered, entries, trades>>
        /\ fails' = fails /\ outbox = <<>>
    BY <1>5 DEF TurnDone, feedVars, traderVars, streamVars
  <2> QED BY <1>1, <2>1, QuietStep
<1>6. CASE UNCHANGED vars
  <2>1. /\ UNCHANGED <<slot, pending, wins, losses, pnl, opened, settled>>
        /\ UNCHANGED <<faults, strategy, outbox, entered, entries, trades>>
        /\ fails' = fails /\ loop' = loop
    BY <1>6 DEF vars, feedVars, brainVars, traderVars, streamVars
  <2> QED BY <1>1, <2>1, QuietStep
<1>7. CASE Update
  BY <1>7, UpdateAccount, UpdateBooks DEF JInv
<1>8. CASE PublishEntry
  BY <1>8, EntryStep
<1>9. CASE PublishTrade
  BY <1>9, TradeStep
<1>10. CASE PublishFails
  BY <1>10, FailedStep
<1>11. CASE Restart
  <2>1. Blank'
    BY <1>1, <1>11 DEF Restart, Blank, Slot
  <2> QED BY <2>1
<1> QED BY <1>2, <1>3, <1>4, <1>5, <1>6, <1>7, <1>8, <1>9, <1>10, <1>11 DEF Next, LoopStep

LEMMA BlankInit == Init => Blank
<1> SUFFICES ASSUME Init PROVE Blank
  OBVIOUS
<1>1. fails \in Nat
  <2>1. strategy \in Strategies /\ fails = Failures[strategy]
    BY DEF Init
  <2>2. Failures[strategy] \in 0..MaxFails
    BY <2>1, BrainAssumption
  <2> QED BY <2>1, <2>2, FeedAssumption
<1> QED BY <1>1 DEF Init, Blank

\* The second invariant: the account, the queue of records and the two streams fit the bets.
THEOREM BooksInvariant == Spec => []JInv
<1>1. Init => JInv
  BY BlankInit, BlankHolds
<1>2. IInv /\ JInv /\ [Next]_vars => JInv' \/ Blank'
  BY BooksStep
<1>3. Blank => JInv
  BY BlankHolds
<1> QED BY <1>1, <1>2, <1>3, Invariant, PTL DEF Spec

\* The variables stay in their types, whatever the loop, the feed and a restart do.
THEOREM TypeCorrect == Spec => []TypeOK
<1>1. IInv /\ JInv => TypeOK
  <2> SUFFICES ASSUME IInv, JInv PROVE TypeOK
    OBVIOUS
  <2>1. FeedTypeOK
    BY EndsAreTimes DEF IInv, FeedOK, JInv, RestTyped, FeedTypeOK
  <2>2. opened \subseteq Nat
    BY DEF IInv, BetsAccounted, BetsTyped, HeldWindows, Held, SettledWindows, Slots
  <2> QED BY <2>1, <2>2 DEF IInv, BetsTyped, JInv, AccountOK, RestTyped, TypeOK
<1> QED BY <1>1, Invariant, BooksInvariant, PTL

\* One run of the brain sends at most one candidate per window, in the order of the windows,
\* whatever is held, settled, published or failed in between (main_brain.py's XADDs).
THEOREM EntriesOnce == Spec => []EntriesOncePerWindow
<1>1. JInv => EntriesOncePerWindow
  BY DEF JInv, EntriesOK
<1> QED BY <1>1, BooksInvariant, PTL

\* The OPEN and SETTLED rows of stream:trades: an entry before the row, and, while nothing
\* failed, the OPEN row before the SETTLED one.
THEOREM RowsRight == Spec => []RowsInOrder
<1>1. JInv => RowsInOrder
  BY DEF JInv, RowsOK
<1> QED BY <1>1, BooksInvariant, PTL

\* The payouts, as a sum of a function.
LEMMA PayoutsAreShares ==
  ASSUME NEW S, IsFiniteSet(S), S \subseteq Results
  PROVE  Payouts(S) = Total(Share, S)
<1> DEFINE c == Picks(S)
           R(it) == it = [s \in SUBSET S |->
                           IF s = {} THEN 0 ELSE ShareQty(Pick(s).price) + it[s \ {Pick(s)}]]
<1>1. Chooses(c, S)
  BY PicksChoose
<1>2. \A b \in S : Share[b] = ShareQty(b.price) /\ Share[b] \in Int
  BY GainIs DEF Share
<1>3. PICK h : h = Share
  OBVIOUS
<1>4. \A s \in SUBSET S : s # {} => Pick(s) \in S /\ c[s] = Pick(s)
  BY <1>1 DEF Chooses, Picks
<1>5. Payouts(S) = (CHOOSE it : R(it))[S]
  BY DEF Payouts, MapThenSumSet, MapThenFoldSet, Pick
<1>6. \E it : IsSum(it, S, c, h) /\ Total(h, S) = it[S]
  <2>1. \A b \in S : h[b] \in Int
    BY <1>2, <1>3
  <2> QED BY <2>1, TotalIsSum
<1> HIDE DEF c
<1>7. ASSUME NEW it PROVE IsSum(it, S, c, h) <=> R(it)
  <2>1. \A s \in SUBSET S : s # {} =>
          h[c[s]] + it[s \ {c[s]}] = ShareQty(Pick(s).price) + it[s \ {Pick(s)}]
    BY <1>2, <1>3, <1>4
  <2> QED BY <2>1 DEF IsSum
<1> HIDE DEF R
<1>8. R(CHOOSE it : R(it))
  BY <1>6, <1>7
<1>9. \A b \in S : h[b] \in Int
  BY <1>2, <1>3
<1>10. (CHOOSE it : R(it))[S] = Total(h, S)
  <2>1. PICK i1 : i1 = (CHOOSE it : R(it))
    OBVIOUS
  <2>2. IsSum(i1, S, c, h)
    BY <1>7, <1>8, <2>1
  <2>3. PICK i2 : IsSum(i2, S, c, h) /\ Total(h, S) = i2[S]
    BY <1>6
  <2>4. i1[S] = i2[S]
    BY <1>1, <1>9, <2>2, <2>3, SumUnique
  <2> QED BY <2>1, <2>3, <2>4
<1> QED BY <1>3, <1>5, <1>10

\* The published account: as many bets as were settled, as many wins as were won, and a net
\* that is the payouts less a stake for each (PaperTrader.wins, losses and pnl).
THEOREM AccountRight == Spec => []AccountAddsUp
<1>1. JInv => AccountAddsUp
  <2> SUFFICES ASSUME AccountOK PROVE AccountAddsUp
    BY DEF JInv
  <2>1. /\ IsFiniteSet(settled) /\ settled \subseteq Results
        /\ wins + losses = Cardinality(settled)
        /\ wins = Cardinality(WonBets(settled))
        /\ pnl = Total(Share, WonBets(settled)) - Stake * Cardinality(settled)
    BY DEF AccountOK
  <2>2. IsFiniteSet(WonBets(settled)) /\ WonBets(settled) \subseteq Results
    BY <2>1, FS_Subset DEF WonBets
  <2>3. Payouts(WonBets(settled)) = Total(Share, WonBets(settled))
    BY <2>2, PayoutsAreShares
  <2>4. WonBets(settled) = {b \in settled : Won(b)}
    BY DEF WonBets
  <2> QED BY <2>1, <2>3, <2>4 DEF AccountAddsUp
<1> QED BY <1>1, BooksInvariant, PTL

==============================================================================
