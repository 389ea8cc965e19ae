---------------------------- MODULE StraddleMeter ----------------------------
(***************************************************************************)
(* The straddle meter of the brain (src/2_brain_engine/straddle_meter.py): *)
(* it pretends to leave two limit orders, UP and DOWN at the same price,   *)
(* when the spot is close to the price to beat near the end of a volatile  *)
(* window, watches until the end of the window which of the two would have *)
(* been filled, and counts what they would have paid.                      *)
(*                                                                         *)
(* It does so for several distances (buckets) and for two ideas of a fill: *)
(* the price touched the limit (opt), the price stayed there (cons).       *)
(*                                                                         *)
(* Everything is computed tick by tick; `ticks` is what a reader of the    *)
(* window's whole record would see.                                        *)
(***************************************************************************)
EXTENDS Integers, Sequences, FiniteSets, SequencesExt

CONSTANTS
  WindowLen,  \* 300 s
  Buckets,    \* STRADDLE_MAKAS_BUCKETS: distances, in dollars
  LastSec,    \* STRADDLE_LAST_SEC
  VolMin,     \* STRADDLE_VOL_MIN_USD
  Lookback,   \* STRADDLE_VOL_LOOKBACK_SEC
  Dwell,      \* STRADDLE_DWELL_SEC
  Limit,      \* STRADDLE_LIMIT_PRICE, in cents
  Readings,   \* what a tick may bring: the spot, the price to beat, and UP's price
  Lag,        \* the time from the loop's clock reading to the update
  StartTime,  \* the clock when the behaviour begins
  Horizon,    \* bound: the clock stops here
  FullUntil,  \* bound: from then on the readings are few
  FewReadings,
  MaxTicks,   \* bound: ticks of a window before that
  FewTicks    \* bound: and after

\* No quote of the window's market.
None == -1000

\* No spot, or no price to beat.
NoPrice == 0

ASSUME StraddleAssumption ==
  /\ {WindowLen, StartTime} \subseteq Nat \ {0}
  /\ Limit \in 1..100
  /\ Buckets \subseteq Nat
  /\ {LastSec, VolMin, Lookback, Dwell, Lag, Horizon, FullUntil, MaxTicks, FewTicks} \subseteq Nat
  /\ Readings \cup FewReadings \subseteq [spot : Nat, beat : Nat, up : 0..100 \cup {None}]
  /\ WindowLen <= StartTime

VARIABLES
  now,      \* the host's clock
  seen,     \* the clock reading of the last tick
  closed,   \* how the windows turned out that have a result, by their ends
  volBuf,   \* _vol_buf
  cur,      \* cur: the window being watched
  pending,  \* pending: windows with orders that wait for their result
  stats,    \* stats, by bucket and model
  ticks,    \* the ticks of the window being watched
  orders    \* the orders ever placed, by window and bucket

vars == <<now, seen, closed, volBuf, cur, pending, stats, ticks, orders>>

Model == {"opt", "cons"}
Leg == {"UP", "DOWN"}
Kind == {"both", "oneup", "onedown", "none"}

WindowOf(t) == t - (t % WindowLen)

Zero == [placed |-> 0, both |-> 0, oneup |-> 0, onedown |-> 0, none |-> 0,
         one_win |-> 0, profit |-> 0]

\* A leg that is not at the limit has no time since when it is.
Never == 0

NewBucket ==
  [placed |-> FALSE, low |-> 200, high |-> -100,
   since |-> [l \in Leg |-> Never], dwell |-> [l \in Leg |-> FALSE]]

NewWindow(w) == [win |-> w, b |-> [b \in Buckets |-> NewBucket]]
NoWindow == NewWindow(0)

------------------------------------------------------------------------------
(* One tick of one bucket. *)

AtLimit(leg, up) == IF leg = "UP" THEN up <= Limit ELSE up >= 100 - Limit

Least(a, b) == IF a <= b THEN a ELSE b
Greatest(a, b) == IF a >= b THEN a ELSE b

\* Mutant: leaving the limit does not reset the timer.
SinceKept(bs, leg, at, up) ==
  IF AtLimit(leg, up) /\ bs.since[leg] = Never THEN at ELSE bs.since[leg]

Since(bs, leg, at, up) ==
  IF ~AtLimit(leg, up) THEN Never
  ELSE IF bs.since[leg] = Never THEN at ELSE bs.since[leg]

Stayed(bs, leg, at, up) ==
  AtLimit(leg, up) /\ bs.since[leg] # Never /\ at - bs.since[leg] >= Dwell

\* What a quote tells of the orders of a bucket.
Watch(bs, at, up) ==
  [bs EXCEPT !.low = Least(@, up),
             !.high = Greatest(@, up),
             !.since = [l \in Leg |-> Since(bs, l, at, up)],
             !.dwell = [l \in Leg |-> bs.dwell[l] \/ Stayed(bs, l, at, up)]]

\* Mutant: an order is withdrawn when the spot leaves the zone.
PlaceHere(bs, inZone) == [bs EXCEPT !.placed = inZone]

\* The orders are placed on the first tick in the zone.
Place(bs, inZone) == IF inZone THEN [bs EXCEPT !.placed = TRUE] ELSE bs

\* They are watched from that tick on.
BucketTick(bs, inZone, at, up) ==
  LET placed == Place(bs, inZone)
  IN IF placed.placed /\ up # None THEN Watch(placed, at, up) ELSE placed

------------------------------------------------------------------------------
(* The tick. *)

Spots(buf) == {buf[i].spot : i \in DOMAIN buf}
Spread(prices) == Max(prices) - Min(prices)

\* popleft while the front is too old: what is left begins with the first that is not.
Recent(buf, at) ==
  LET fresh == {i \in DOMAIN buf : at - buf[i].at <= Lookback}
  IN IF fresh = {} THEN <<>> ELSE SubSeq(buf, Min(fresh), Len(buf))

\* Mutant: a missing spot is buffered like a price.
BufAfterBlind(buf, at, spot) == Recent(Append(buf, [at |-> at, spot |-> spot]), at)

\* The buffer after a tick, and how volatile that says the spot is.
BufAfter(buf, at, spot) ==
  IF spot = NoPrice THEN buf ELSE Recent(Append(buf, [at |-> at, spot |-> spot]), at)
Vol(buf, spot) == IF spot = NoPrice \/ buf = <<>> THEN 0 ELSE Spread(Spots(buf))

Dist(r) == IF r.spot < r.beat THEN r.beat - r.spot ELSE r.spot - r.beat

InZone(b, win, at, r, vol) ==
  /\ at - win >= WindowLen - LastSec
  /\ r.spot # NoPrice /\ r.beat # NoPrice /\ Dist(r) <= b
  /\ vol >= VolMin

HasOrders(w) == \E b \in Buckets : w.b[b].placed

Fills(bs, m, leg) ==
  IF m = "cons" THEN bs.dwell[leg]
  ELSE IF leg = "UP" THEN bs.low <= Limit ELSE bs.high >= 100 - Limit

KindOf(bs, m) ==
  LET up == Fills(bs, m, "UP") down == Fills(bs, m, "DOWN") IN
  CASE up /\ down  -> "both"
    [] up /\ ~down -> "oneup"
    [] ~up /\ down -> "onedown"
    [] OTHER       -> "none"

Wins(kind, outcome) ==
  \/ kind = "oneup" /\ outcome = "UP"
  \/ kind = "onedown" /\ outcome = "DOWN"

Profit(kind, won) ==
  CASE kind = "none" -> 0
    [] kind = "both" -> 100 - 2 * Limit
    [] OTHER         -> IF won THEN 100 - Limit ELSE -Limit

Tally(st, kind, won) ==
  [st EXCEPT !.placed = @ + 1,
             ![kind] = @ + 1,
             !.one_win = @ + (IF won THEN 1 ELSE 0),
             !.profit = @ + Profit(kind, won)]

\* _settle for one bucket and model, over the windows whose result is in.
Settled(st, b, m, done) ==
  FoldSet(LAMBDA w, acc :
            LET kind == KindOf(w.b[b], m)
            IN Tally(acc, kind, Wins(kind, closed[w.win + WindowLen])),
          st, {w \in done : w.b[b].placed})

\* Mutant: the window that is rotated out is forgotten when its result is in already.
RotatedOutUnless(w) == {v \in {w} : HasOrders(v) /\ v.win + WindowLen \notin DOMAIN closed}

\* The window that another one replaces waits for its result if it has orders.
RotatedOut(w) == {v \in {w} : HasOrders(v)}

Init ==
  /\ now = StartTime /\ seen = StartTime
  /\ closed = [e \in {} |-> "UP"]
  /\ volBuf = <<>> /\ cur = NoWindow /\ pending = {}
  /\ stats = [k \in Buckets \X Model |-> Zero]
  /\ ticks = <<>> /\ orders = {}

Tick ==
  /\ now < Horizon
  /\ now' = now + 1
  /\ UNCHANGED <<seen, closed, volBuf, cur, pending, stats, ticks, orders>>

\* The feed learns how a window ended.
Learn ==
  \E e \in (StartTime + 1)..now, outcome \in Leg :
    /\ e % WindowLen = 0 /\ e \notin DOMAIN closed
    /\ closed' = [f \in DOMAIN closed \cup {e} |-> IF f = e THEN outcome ELSE closed[f]]
    /\ UNCHANGED <<now, seen, volBuf, cur, pending, stats, ticks, orders>>

\* update with a clock reading and what the feeds say then.
Update(at, r) ==
  LET win == WindowOf(at)
      rotates == cur.win # win
      watched == IF rotates THEN NewWindow(win) ELSE cur
      buf == BufAfter(IF rotates THEN <<>> ELSE volBuf, at, r.spot)
      zone == [b \in Buckets |-> InZone(b, win, at, r, Vol(buf, r.spot))]
      done == {w \in pending : w.win + WindowLen \in DOMAIN closed}
  IN
  /\ rotates \/ Len(ticks) < (IF at < FullUntil THEN MaxTicks ELSE FewTicks)
  /\ seen' = at
  /\ stats' = [k \in Buckets \X Model |-> Settled(stats[k], k[1], k[2], done)]
  /\ pending' = (pending \ done) \cup (IF rotates THEN RotatedOut(cur) ELSE {})
  /\ volBuf' = buf
  /\ cur' = [win |-> win,
             b |-> [b \in Buckets |-> BucketTick(watched.b[b], zone[b], at, r.up)]]
  /\ ticks' = Append(IF rotates THEN <<>> ELSE ticks,
                     [at |-> at, spot |-> r.spot, beat |-> r.beat, up |-> r.up])
  /\ orders' = orders \cup {<<win, b>> : b \in {c \in Buckets : zone[c]}}
  /\ UNCHANGED <<now, closed>>

Next ==
  \/ Tick
  \/ Learn
  \/ \E at \in seen..now :
       /\ now - at <= Lag
       /\ \E r \in (IF at < FullUntil THEN Readings ELSE FewReadings) : Update(at, r)

Spec == Init /\ [][Next]_vars

------------------------------------------------------------------------------
(* What the meter promises. *)

Bucket == [placed : BOOLEAN, low : Int, high : Int,
           since : [Leg -> Nat], dwell : [Leg -> BOOLEAN]]
Window == [win : Nat, b : [Buckets -> Bucket]]
Price == [at : Nat, spot : Nat \ {NoPrice}]

TypeOK ==
  /\ now \in Nat /\ seen \in Nat /\ seen <= now
  /\ DOMAIN closed \subseteq Nat /\ Range(closed) \subseteq Leg
  /\ volBuf \in Seq(Price)
  /\ ticks \in Seq([at : Nat, spot : Nat, beat : Nat, up : Int])
  /\ cur \in Window /\ pending \subseteq Window
  /\ stats \in [Buckets \X Model -> [DOMAIN Zero -> Int]]
  /\ orders \subseteq Nat \X Buckets

\* A tick of the record is in the zone of a bucket: it is late in the window and close to the
\* beat, and two ticks no older than the lookback were far enough apart.
ZoneTick(i, b) ==
  /\ ticks[i].at - cur.win >= WindowLen - LastSec
  /\ ticks[i].spot # NoPrice /\ ticks[i].beat # NoPrice /\ Dist(ticks[i]) <= b
  /\ LET late == {j \in 1..i : ticks[j].spot # NoPrice /\ ticks[i].at - ticks[j].at <= Lookback}
     IN \E j, k \in late : ticks[j].spot - ticks[k].spot >= VolMin

\* The ticks of the record that come no earlier than the orders of a bucket.
Watched(b) ==
  LET zone == {j \in DOMAIN ticks : ZoneTick(j, b)}
  IN IF zone = {} THEN {} ELSE Min(zone)..Len(ticks)

\* Orders stand in the window being watched exactly if some tick of it was in the zone: also
\* when the buffer of the lookback was cut on the way, and whatever came before and after.
PlacedAsRecorded ==
  \A b \in Buckets : cur.b[b].placed <=> Watched(b) # {}

\* A leg counts as filled exactly if the record since the order says so: some quote reached
\* the limit (opt), or all quotes over a stretch of Dwell or more did (cons).
FilledAsRecorded ==
  \A b \in Buckets :
    LET quotes == {i \in Watched(b) : ticks[i].up # None} IN
    \A l \in Leg :
      LET there == {i \in quotes : AtLimit(l, ticks[i].up)} IN
      /\ Fills(cur.b[b], "opt", l) <=> there # {}
      /\ Fills(cur.b[b], "cons", l) <=>
           \E i, j \in there :
             /\ i < j /\ ticks[j].at - ticks[i].at >= Dwell
             /\ quotes \cap (i..j) \subseteq there

\* What the meter keeps tick by tick is what somebody reading the whole record would say.
AsRecorded == PlacedAsRecorded /\ FilledAsRecorded

\* A wider bucket has its orders no later than a narrower one, and they are filled whenever
\* those are, in either model: what the dashboard's table compares.
NestedBuckets ==
  \A w \in {cur} \cup pending, b, c \in Buckets :
    b <= c /\ w.b[b].placed =>
      /\ w.b[c].placed
      /\ \A m \in Model, l \in Leg : Fills(w.b[b], m, l) => Fills(w.b[c], m, l)

\* Every order placed is in the window being watched, in one that waits, or in the counts, and
\* in one of them only -- whenever the result of its window came.
OrdersAccounted ==
  \A b \in Buckets, m \in Model :
    Cardinality({o \in orders : o[2] = b}) =
      stats[<<b, m>>].placed
      + Cardinality({w \in pending : w.b[b].placed})
      + (IF cur.b[b].placed THEN 1 ELSE 0)

\* The counts pay what the file's formula says: 50 cents for each pair, and for a single leg
\* a dollar if it won, less its price.  And the conservative model fills no more.
CountsPay ==
  \A b \in Buckets :
    /\ \A m \in Model :
         LET st == stats[<<b, m>>] IN
         st.profit = (100 - 2 * Limit) * st.both
                     + 100 * st.one_win - Limit * (st.oneup + st.onedown)
    /\ stats[<<b, "cons">>].both <= stats[<<b, "opt">>].both
    /\ stats[<<b, "cons">>].none >= stats[<<b, "opt">>].none

\* The table of the dashboard: every order once, and paid by the formula.
CountsAddUp == OrdersAccounted /\ CountsPay

==============================================================================
