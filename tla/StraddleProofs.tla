---------------------------- MODULE StraddleProofs ---------------------------
(***************************************************************************)
(* The straddle meter, for all buckets, limits, dwells, lookbacks,         *)
(* readings and numbers of ticks and windows: its buckets are nested, its  *)
(* counts add up, and what it finds tick by tick is what the whole record  *)
(* says.                                                                   *)
(*                                                                         *)
(* NestedBuckets is not inductive: that a wider bucket is filled whenever  *)
(* a narrower one is depends on its lower low, its higher high and its     *)
(* earlier timers (Wider), and before the orders are placed on a bucket    *)
(* having seen nothing (BucketOK).                                         *)
(*                                                                         *)
(* Nor is CountsAddUp: a window that is settled leaves `pending`, so the   *)
(* count of the orders needs that windows are counted by what they placed, *)
(* that the windows waiting are earlier than the one watched, and that an  *)
(* order is in the watched window exactly if that one placed it            *)
(* (CountsOK).  That the conservative model pairs no more than the         *)
(* optimistic one is shown for both sums along the same order of windows.  *)
(*                                                                         *)
(* Nor is AsRecorded: a bucket's timer shows when the stretch of quotes at *)
(* the limit began that lasts until now (TimerOf), and the buffer holds    *)
(* the prices of exactly the ticks within the lookback, and perhaps of     *)
(* older ones while no price came (BufOK).                                 *)
(***************************************************************************)
EXTENDS StraddleMeter, CommonLemmas, SequenceTheorems

\* What every bucket of a window is at time t.  A timer or a filled leg has seen the limit.
BucketOK(bs, t) ==
  /\ bs \in Bucket
  /\ bs.low <= 200 /\ bs.high >= -100
  /\ \A l \in Leg :
       /\ bs.since[l] <= t
       /\ bs.since[l] # Never \/ bs.dwell[l] => bs.placed /\ Fills(bs, "opt", l)

\* Bucket y has seen all that bucket x has seen, and no later.
Wider(y, x) ==
  /\ x.placed => y.placed
  /\ y.low <= x.low /\ y.high >= x.high
  /\ \A l \in Leg :
       /\ x.since[l] # Never => y.since[l] # Never /\ y.since[l] <= x.since[l]
       /\ x.dwell[l] => y.dwell[l]

\* An unplaced bucket is as it was created.
Blank(bs) == ~bs.placed => bs = NewBucket

WindowOK(w, t) ==
  /\ w.b \in [Buckets -> Bucket]
  /\ \A b \in Buckets : BucketOK(w.b[b], t) /\ Blank(w.b[b])
  /\ \A b, c \in Buckets : b <= c => Wider(w.b[c], w.b[b])

IInv ==
  /\ now \in Nat /\ seen \in Nat /\ StartTime <= seen
  /\ \A w \in {cur} \cup pending : WindowOK(w, seen)

------------------------------------------------------------------------------
(* One bucket. *)

\* A new bucket is in order, and as wide as any other new one.
LEMMA NewBucketOK ==
  ASSUME NEW t \in Nat
  PROVE  BucketOK(NewBucket, t) /\ Blank(NewBucket) /\ Wider(NewBucket, NewBucket)
BY DEF BucketOK, Blank, Wider, NewBucket, Bucket, Leg, Never, Fills

\* A window in order stays in order as time goes by.
LEMMA Later ==
  ASSUME NEW w, NEW t \in Nat, NEW u \in Nat, t <= u, WindowOK(w, t)
  PROVE  WindowOK(w, u)
<1> SUFFICES ASSUME NEW b \in Buckets
             PROVE  BucketOK(w.b[b], u)
  BY DEF WindowOK
<1>1. BucketOK(w.b[b], t)
  BY DEF WindowOK
<1> QED
  BY <1>1 DEF BucketOK, Bucket

\* A quote, watched by a placed bucket, leaves it in order.
LEMMA WatchOK ==
  ASSUME NEW bs, NEW t \in Nat, NEW at \in Nat, NEW up \in Int,
         BucketOK(bs, t), t <= at, bs.placed
  PROVE  BucketOK(Watch(bs, at, up), at) /\ Watch(bs, at, up).placed
<1> DEFINE new == Watch(bs, at, up)
<1>1. bs \in Bucket
  BY DEF BucketOK
<1>2. /\ new.placed = bs.placed
      /\ new.low = Least(bs.low, up) /\ new.high = Greatest(bs.high, up)
      /\ new.since = [l \in Leg |-> Since(bs, l, at, up)]
      /\ new.dwell = [l \in Leg |-> bs.dwell[l] \/ Stayed(bs, l, at, up)]
  BY <1>1 DEF Watch, Bucket
<1>3. \A l \in Leg : Since(bs, l, at, up) \in Nat /\ Since(bs, l, at, up) <= at
  BY <1>1 DEF BucketOK, Bucket, Since, Never
<1>4. new \in Bucket
  <2>1. new.since \in [Leg -> Nat]
    BY <1>2, <1>3
  <2>2. new.dwell \in [Leg -> BOOLEAN]
    BY <1>2, <1>1, Zenon DEF Bucket, Stayed
  <2>3. new.low \in Int /\ new.high \in Int
    BY <1>1, <1>2 DEF Bucket, Least, Greatest
  <2> QED
    BY <1>1, <2>1, <2>2, <2>3, <1>2 DEF Watch, Bucket
<1>5. new.low <= 200 /\ new.high >= -100
  BY <1>1, <1>2 DEF BucketOK, Bucket, Least, Greatest
<1>6. ASSUME NEW l \in Leg, new.since[l] # Never \/ new.dwell[l]
      PROVE  Fills(new, "opt", l)
  <2>1. AtLimit(l, up) \/ Fills(bs, "opt", l)
    BY <1>2, <1>6 DEF Since, Stayed, BucketOK
  <2> QED
    BY <2>1, <1>1, <1>2, StraddleAssumption
       DEF Fills, AtLimit, Least, Greatest, Bucket
<1> QED
  BY <1>2, <1>3, <1>4, <1>5, <1>6 DEF BucketOK

\* A tick leaves a bucket in order.
LEMMA TickOK ==
  ASSUME NEW bs, NEW z \in BOOLEAN, NEW t \in Nat, NEW at \in Nat, NEW up \in Int,
         BucketOK(bs, t), Blank(bs), t <= at
  PROVE  LET new == BucketTick(bs, z, at, up) IN BucketOK(new, at) /\ Blank(new)
<1> DEFINE p == Place(bs, z)
<1>1. bs \in Bucket
  BY DEF BucketOK
<1>2. /\ p \in Bucket /\ p.placed = (bs.placed \/ z)
      /\ p.low = bs.low /\ p.high = bs.high /\ p.since = bs.since /\ p.dwell = bs.dwell
  BY <1>1 DEF Bucket, Place
<1>3. BucketOK(p, t) /\ BucketOK(p, at)
  BY <1>1, <1>2 DEF BucketOK, Bucket, Fills
<1>4. CASE p.placed /\ up # None
  BY <1>4, <1>3, WatchOK DEF BucketTick, Blank
<1>5. CASE ~(p.placed /\ up # None)
  <2>1. BucketTick(bs, z, at, up) = p
    BY <1>5 DEF BucketTick
  <2>2. Blank(p)
    <3>1. CASE p.placed
      BY <3>1 DEF Blank
    <3>2. CASE ~p.placed
      <4>1. p = bs
        BY <3>2, <1>1, <1>2 DEF Bucket, Place
      <4> QED
        BY <4>1
    <3> QED
      BY <3>1, <3>2
  <2> QED
    BY <2>1, <2>2, <1>3
<1> QED
  BY <1>4, <1>5

\* A tick that is in a wider bucket's zone whenever it is in a narrower one's leaves the wider
\* bucket the wider one.
LEMMA TickWider ==
  ASSUME NEW x, NEW y, NEW zx \in BOOLEAN, NEW zy \in BOOLEAN,
         NEW t \in Nat, NEW at \in Nat \ {0}, NEW up \in Int,
         BucketOK(x, t), BucketOK(y, t), Blank(x), t <= at,
         Wider(y, x), zx => zy
  PROVE  Wider(BucketTick(y, zy, at, up), BucketTick(x, zx, at, up))
<1> DEFINE px == Place(x, zx)
           py == Place(y, zy)
<1>1. x \in Bucket /\ y \in Bucket
  BY DEF BucketOK
<1>2. /\ px.placed = (x.placed \/ zx) /\ px.low = x.low /\ px.high = x.high
      /\ px.since = x.since /\ px.dwell = x.dwell
      /\ py.placed = (y.placed \/ zy) /\ py.low = y.low /\ py.high = y.high
      /\ py.since = y.since /\ py.dwell = y.dwell
      /\ px \in Bucket /\ py \in Bucket
  BY <1>1 DEF Bucket, Place
<1>3. px.placed => py.placed
  BY <1>2 DEF Wider
<1>4. CASE up = None \/ ~py.placed
  <2>1. BucketTick(x, zx, at, up) = px /\ BucketTick(y, zy, at, up) = py
    BY <1>3, <1>4 DEF BucketTick
  <2> QED
    BY <2>1, <1>2, <1>3 DEF Wider
<1>5. CASE up # None /\ py.placed /\ px.placed
  <2> DEFINE wx == Watch(px, at, up)
             wy == Watch(py, at, up)
  <2>1. BucketTick(x, zx, at, up) = wx /\ BucketTick(y, zy, at, up) = wy
    BY <1>5 DEF BucketTick
  <2>2. /\ wx.placed = px.placed /\ wy.placed = py.placed
        /\ wx.low = Least(x.low, up) /\ wy.low = Least(y.low, up)
        /\ wx.high = Greatest(x.high, up) /\ wy.high = Greatest(y.high, up)
        /\ \A l \in Leg : /\ wx.since[l] = Since(px, l, at, up)
                          /\ wy.since[l] = Since(py, l, at, up)
                          /\ wx.dwell[l] = (x.dwell[l] \/ Stayed(px, l, at, up))
                          /\ wy.dwell[l] = (y.dwell[l] \/ Stayed(py, l, at, up))
    BY <1>2 DEF Watch, Bucket
  <2>3. wy.low <= wx.low /\ wy.high >= wx.high
    BY <2>2, <1>1 DEF Wider, Bucket, Least, Greatest
  <2>4. ASSUME NEW l \in Leg
        PROVE  /\ wx.since[l] # Never => wy.since[l] # Never /\ wy.since[l] <= wx.since[l]
               /\ wx.dwell[l] => wy.dwell[l]
    <3>1. /\ x.since[l] \in Nat /\ y.since[l] \in Nat /\ y.since[l] <= at
          /\ x.since[l] # Never => y.since[l] # Never /\ y.since[l] <= x.since[l]
          /\ x.dwell[l] => y.dwell[l]
      BY <1>1 DEF Wider, Bucket, BucketOK
    <3>2. wx.since[l] # Never => wy.since[l] # Never /\ wy.since[l] <= wx.since[l]
      BY <2>2, <1>2, <3>1 DEF Since, Never
    <3>3. Stayed(px, l, at, up) => Stayed(py, l, at, up)
      BY <1>2, <3>1, StraddleAssumption DEF Stayed
    <3> QED
      BY <2>2, <3>1, <3>2, <3>3
  <2> QED
    BY <2>1, <2>2, <2>3, <2>4, <1>3 DEF Wider
<1>6. CASE up # None /\ py.placed /\ ~px.placed
  <2> DEFINE wy == Watch(py, at, up)
  <2>1. BucketTick(x, zx, at, up) = px /\ BucketTick(y, zy, at, up) = wy
    BY <1>6 DEF BucketTick
  <2>2. x = NewBucket
    BY <1>2, <1>6 DEF Blank
  <2>3. wy.low = Least(y.low, up) /\ wy.high = Greatest(y.high, up)
    BY <1>2 DEF Watch, Bucket
  <2>4. wy.low <= px.low /\ wy.high >= px.high
    BY <2>3, <1>1, <1>2 DEF Wider, Bucket, Least, Greatest
  <2>5. \A l \in Leg : px.since[l] = Never /\ ~px.dwell[l]
    BY <2>2, <1>2 DEF NewBucket, Never
  <2> QED
    BY <2>1, <2>4, <2>5, <1>6 DEF Wider
<1> QED
  BY <1>3, <1>4, <1>5, <1>6

------------------------------------------------------------------------------
(* The window, and the meter. *)

\* The zone of a wider bucket contains that of a narrower one.
LEMMA ZonesNest ==
  ASSUME NEW b \in Buckets, NEW c \in Buckets, b <= c,
         NEW win, NEW at, NEW r, r.spot \in Nat, r.beat \in Nat, NEW vol,
         InZone(b, win, at, r, vol)
  PROVE  InZone(c, win, at, r, vol)
BY StraddleAssumption DEF InZone, Dist

\* The window after a tick is in order.
LEMMA UpdateWindow ==
  ASSUME NEW w, NEW t \in Nat, NEW at \in Nat \ {0}, NEW up \in Int,
         NEW zone \in [Buckets -> BOOLEAN],
         WindowOK(w, t), t <= at,
         \A b, c \in Buckets : b <= c /\ zone[b] => zone[c]
  PROVE  \A win : WindowOK([win |-> win,
                            b |-> [b \in Buckets |-> BucketTick(w.b[b], zone[b], at, up)]], at)
<1> DEFINE nb == [b \in Buckets |-> BucketTick(w.b[b], zone[b], at, up)]
<1>1. ASSUME NEW b \in Buckets
      PROVE  BucketOK(nb[b], at) /\ Blank(nb[b])
  BY TickOK DEF WindowOK
<1>2. nb \in [Buckets -> Bucket]
  BY <1>1 DEF BucketOK
<1>3. ASSUME NEW b \in Buckets, NEW c \in Buckets, b <= c
      PROVE  Wider(nb[c], nb[b])
  <2>1. /\ BucketOK(w.b[b], t) /\ BucketOK(w.b[c], t) /\ Blank(w.b[b])
        /\ Wider(w.b[c], w.b[b]) /\ (zone[b] => zone[c])
    BY <1>3 DEF WindowOK
  <2>2. Wider(BucketTick(w.b[c], zone[c], at, up), BucketTick(w.b[b], zone[b], at, up))
    BY <2>1, TickWider
  <2> QED
    BY <2>2
<1> HIDE DEF nb
<1>4. \A win : WindowOK([win |-> win, b |-> nb], at)
  BY <1>1, <1>2, <1>3 DEF WindowOK
<1> QED
  BY <1>4 DEF nb

\* A window begins in order.
LEMMA NewWindowOK ==
  ASSUME NEW win, NEW t \in Nat
  PROVE  WindowOK(NewWindow(win), t)
<1>1. NewBucket \in Bucket
  BY NewBucketOK DEF BucketOK
<1> QED
  BY <1>1, NewBucketOK DEF WindowOK, NewWindow

\* An update leaves the windows in order: what is watched, and what waits.
LEMMA UpdateStep ==
  ASSUME IInv, NEW at \in seen..now, NEW r \in Readings \cup FewReadings, Update(at, r)
  PROVE  IInv'
<1> DEFINE win == WindowOf(at)
           rotates == cur.win # win
           watched == IF rotates THEN NewWindow(win) ELSE cur
           buf == BufAfter(IF rotates THEN <<>> ELSE volBuf, at, r.spot)
           zone == [b \in Buckets |-> InZone(b, win, at, r, Vol(buf, r.spot))]
<1>1. /\ seen' = at /\ now' = now
      /\ cur' = [win |-> win,
                 b |-> [b \in Buckets |-> BucketTick(watched.b[b], zone[b], at, r.up)]]
      /\ pending' \subseteq {cur} \cup pending
  BY Zenon DEF Update, RotatedOut
<1>2. /\ now \in Nat /\ seen \in Nat /\ at \in Nat \ {0} /\ seen <= at
      /\ StartTime <= at
  BY StraddleAssumption DEF IInv
<1>3. r.spot \in Nat /\ r.beat \in Nat /\ r.up \in Int
  BY StraddleAssumption DEF None
<1>4. WindowOK(watched, seen)
  BY <1>2, NewWindowOK DEF IInv
<1>5. zone \in [Buckets -> BOOLEAN]
  BY Zenon DEF InZone
<1>6. \A b, c \in Buckets : b <= c /\ zone[b] => zone[c]
  <2> SUFFICES ASSUME NEW b \in Buckets, NEW c \in Buckets, b <= c,
                      InZone(b, win, at, r, Vol(buf, r.spot))
               PROVE  InZone(c, win, at, r, Vol(buf, r.spot))
    OBVIOUS
  <2> HIDE DEF win, buf
  <2> QED
    BY <1>3, ZonesNest
<1> HIDE DEF zone, watched, win
<1>7. WindowOK(cur', at)
  BY <1>1, <1>2, <1>3, <1>4, <1>5, <1>6, UpdateWindow
<1>8. \A w \in pending' : WindowOK(w, at)
  BY <1>1, <1>2, Later DEF IInv
<1> QED
  BY <1>1, <1>2, <1>7, <1>8 DEF IInv

\* The nesting holds at the start,
LEMMA InvariantInit == Init => IInv
BY NewWindowOK, StraddleAssumption DEF Init, IInv, NoWindow

\* and after every step.
LEMMA InvariantStep == IInv /\ [Next]_vars => IInv'
<1> SUFFICES ASSUME IInv, [Next]_vars
             PROVE  IInv'
  OBVIOUS
<1>1. CASE Tick
  BY <1>1 DEF Tick, IInv
<1>2. CASE Learn
  BY <1>2 DEF Learn, IInv
<1>3. ASSUME NEW at \in seen..now, NEW r \in Readings \cup FewReadings, Update(at, r)
      PROVE  IInv'
  BY <1>3, UpdateStep
<1>4. CASE UNCHANGED vars
  BY <1>4 DEF vars, IInv
<1> QED
  BY <1>1, <1>2, <1>3, <1>4 DEF Next

\* The inductive invariant: windows in order, watched or waiting.
THEOREM Invariant == Spec => []IInv
<1> QED
  BY InvariantInit, InvariantStep, PTL DEF Spec

\* Wider buckets are placed and filled whenever narrower ones are.
THEOREM Nested == Spec => []NestedBuckets
<1>1. IInv => NestedBuckets
  <2> SUFFICES ASSUME IInv, NEW w \in {cur} \cup pending,
                      NEW b \in Buckets, NEW c \in Buckets, b <= c, w.b[b].placed
               PROVE  /\ w.b[c].placed
                      /\ \A m \in Model, l \in Leg :
                           Fills(w.b[b], m, l) => Fills(w.b[c], m, l)
    BY DEF NestedBuckets
  <2>1. /\ Wider(w.b[c], w.b[b])
        /\ w.b[b] \in Bucket /\ w.b[c] \in Bucket
    BY DEF IInv, WindowOK
  <2> QED
    BY <2>1, StraddleAssumption DEF Wider, Fills, Bucket, Model, Leg
<1> QED
  BY <1>1, Invariant, PTL

\* The conservative model fills a leg only if the optimistic one does, on every order.
ConservativeFillsLess ==
  \A w \in {cur} \cup pending, b \in Buckets, l \in Leg :
    Fills(w.b[b], "cons", l) => w.b[b].placed /\ Fills(w.b[b], "opt", l)

\* A leg that stayed at the limit has touched it: the counts of the two models bracket.
THEOREM Conservative == Spec => []ConservativeFillsLess
<1>1. IInv => ConservativeFillsLess
  BY DEF IInv, WindowOK, BucketOK, ConservativeFillsLess, Fills
<1> QED
  BY <1>1, Invariant, PTL

------------------------------------------------------------------------------
(* The counts: one window more, and all that a tick settles. *)

Stat == [DOMAIN Zero -> Int]

\* The formula of the file, for one bucket and model.
Pays(st) ==
  st.profit = (100 - 2 * Limit) * st.both + 100 * st.one_win - Limit * (st.oneup + st.onedown)

\* The fields, for the provers.
LEMMA StatFields ==
  DOMAIN Zero = {"placed", "both", "oneup", "onedown", "none", "one_win", "profit"}
BY DEF Zero

\* A window more is one placed more, of one kind, and is paid by the formula.
LEMMA TallyIs ==
  ASSUME NEW st \in Stat, NEW k \in Kind, NEW won \in BOOLEAN,
         won => k \in {"oneup", "onedown"}
  PROVE  LET new == Tally(st, k, won) IN
         /\ new \in Stat
         /\ new.placed = st.placed + 1
         /\ new.both = st.both + (IF k = "both" THEN 1 ELSE 0)
         /\ new.none = st.none + (IF k = "none" THEN 1 ELSE 0)
         /\ Pays(st) => Pays(new)
<1> DEFINE new == Tally(st, k, won)
           one == IF won THEN 1 ELSE 0
           paid == IF k = "none" THEN 0 ELSE IF k = "both" THEN 100 - 2 * Limit
                   ELSE IF won THEN 100 - Limit ELSE -Limit
           N(x) == IF k = x THEN 1 ELSE 0
<1>1. one \in Int /\ paid \in Int
  BY StraddleAssumption
<1>2. Profit(k, won) = paid
  BY DEF Profit, Kind
<1>3. new = [st EXCEPT !["placed"] = @ + 1, ![k] = @ + 1,
                       !["one_win"] = @ + one, !["profit"] = @ + paid]
  BY <1>2 DEF Tally
<1> HIDE DEF one, paid
<1>4. /\ new \in Stat
      /\ new.placed = st.placed + 1 /\ new.one_win = st.one_win + one
      /\ new.profit = st.profit + paid
      /\ new.both = st.both + N("both") /\ new.none = st.none + N("none")
      /\ new.oneup = st.oneup + N("oneup") /\ new.onedown = st.onedown + N("onedown")
  BY <1>1, <1>3, StatFields DEF Stat, Kind
<1> HIDE DEF new
<1>5. ASSUME Pays(st) PROVE Pays(new)
  <2>1. /\ st.both \in Int /\ st.oneup \in Int /\ st.onedown \in Int
        /\ st.one_win \in Int /\ st.profit \in Int /\ Limit \in Int
    BY StatFields, StraddleAssumption DEF Stat
  <2> DEFINE o == st.oneup + st.onedown
             c == 100 - 2 * Limit
  <2>2. /\ c * (st.both + 1) = c * st.both + c /\ c * (st.both + 0) = c * st.both
        /\ Limit * (o + 1) = Limit * o + Limit /\ Limit * (o + 0) = Limit * o
    BY <2>1
  <2>3. c * st.both \in Int /\ Limit * o \in Int /\ c \in Int
    BY <2>1
  <2>4. new.profit = c * new.both + 100 * new.one_win - Limit * (new.oneup + new.onedown)
    <3>1. CASE k = "both"
      <4>1. new.both = st.both + 1 /\ new.oneup + new.onedown = o
            /\ new.one_win = st.one_win /\ new.profit = st.profit + c
        BY <1>4, <2>1, <3>1 DEF one, paid
      <4> HIDE DEF c, o
      <4> QED BY <1>5, <2>1, <2>2, <2>3, <4>1 DEF Pays, c, o
    <3>2. CASE k = "none"
      <4>1. new.both = st.both /\ new.oneup + new.onedown = o
            /\ new.one_win = st.one_win /\ new.profit = st.profit
        BY <1>4, <2>1, <3>2 DEF one, paid
      <4> QED BY <1>5, <4>1 DEF Pays
    <3>3. CASE k \in {"oneup", "onedown"}
      <4>1. new.both = st.both /\ new.oneup + new.onedown = o + 1
            /\ new.one_win = st.one_win + one
            /\ new.profit = st.profit + 100 * one - Limit
        BY <1>4, <2>1, <3>3 DEF one, paid
      <4>2. st.profit = c * st.both + 100 * st.one_win - Limit * o
        BY <1>5 DEF Pays
      <4> HIDE DEF c, o
      <4> QED BY <1>1, <2>1, <2>2, <2>3, <4>1, <4>2
    <3> QED BY <3>1, <3>2, <3>3 DEF Kind
  <2> QED BY <2>4 DEF Pays
<1> QED BY <1>4, <1>5 DEF new

\* What a fold over the windows to be counted does, one window at a time.
PlacedIn(S, b) == {w \in S : w.b[b].placed}
CountedIn(st, b, m, w) ==
  Tally(st, KindOf(w.b[b], m), Wins(KindOf(w.b[b], m), closed[w.win + WindowLen]))
Settles(it, S, b, m, base) ==
  it = [s \in SUBSET S |->
         IF s = {} THEN base ELSE CountedIn(it[s \ {Pick(s)}], b, m, Pick(s))]

\* How a window's orders were filled is one of four kinds.
LEMMA KindTyped ==
  ASSUME NEW bs, NEW m, NEW outcome
  PROVE  /\ KindOf(bs, m) \in Kind
         /\ Wins(KindOf(bs, m), outcome) \in BOOLEAN
         /\ Wins(KindOf(bs, m), outcome) => KindOf(bs, m) \in {"oneup", "onedown"}
         /\ KindOf(bs, m) = "both" <=> Fills(bs, m, "UP") /\ Fills(bs, m, "DOWN")
         /\ KindOf(bs, m) = "none" <=> ~Fills(bs, m, "UP") /\ ~Fills(bs, m, "DOWN")
BY DEF KindOf, Kind, Wins

\* The fold of a settlement exists.
LEMMA SettlesExists ==
  ASSUME NEW b, NEW m, NEW base \in Stat, NEW S, IsFiniteSet(S)
  PROVE  \E it : Settles(it, S, b, m, base)
<1> DEFINE g == [w \in S |-> [st \in Stat |-> CountedIn(st, b, m, w)]]
           c == Picks(S)
<1>0. Chooses(c, S)
  BY PicksChoose
<1>1. PICK it : IsFold(it, S, c, base, g)
  <2> HIDE DEF g, c
  <2> QED BY <1>0, FoldExists
<1>2. /\ it[{}] = base
      /\ \A s \in SUBSET S : s # {} => Pick(s) \in S /\ it[s] = g[Pick(s)][it[s \ {Pick(s)}]]
  BY <1>0, <1>1 DEF IsFold, Chooses, Picks
<1> DEFINE F == {s \in SUBSET S : it[s] \notin Stat}
<1>3. F = {}
  <2> SUFFICES ASSUME F # {} PROVE FALSE
    OBVIOUS
  <2>1. PICK s \in F : \A t \in F : t \subseteq s => t = s
    <3>1. F \subseteq SUBSET S
      OBVIOUS
    <3> HIDE DEF F
    <3> QED BY <3>1, MinimalSet
  <2>2. s # {}
    BY <1>2
  <2>3. Pick(s) \in s
    BY <1>0, <2>2 DEF Chooses, Picks
  <2>4. it[s \ {Pick(s)}] \in Stat
    BY <2>1, <2>3
  <2>5. it[s] = CountedIn(it[s \ {Pick(s)}], b, m, Pick(s))
    BY <1>2, <2>2, <2>4
  <2>6. it[s] \in Stat
    BY <2>4, <2>5, TallyIs, KindTyped DEF CountedIn
  <2> QED BY <2>6
<1>4. \A s \in SUBSET S : s # {} => it[s] = CountedIn(it[s \ {Pick(s)}], b, m, Pick(s))
  <2> SUFFICES ASSUME NEW s \in SUBSET S, s # {}
               PROVE  it[s] = CountedIn(it[s \ {Pick(s)}], b, m, Pick(s))
    OBVIOUS
  <2>1. it[s \ {Pick(s)}] \in Stat
    BY <1>3
  <2> QED BY <1>2, <2>1
<1>5. it = [s \in SUBSET S |-> it[s]]
  BY <1>1 DEF IsFold
<1> QED BY <1>2, <1>4, <1>5 DEF Settles

\* So a settlement has the value of any such fold.
LEMMA SettledBy ==
  ASSUME NEW b, NEW m, NEW base \in Stat, NEW done, IsFiniteSet(PlacedIn(done, b))
  PROVE  \E it : /\ Settles(it, PlacedIn(done, b), b, m, base)
                 /\ Settled(base, b, m, done) = it[PlacedIn(done, b)]
<1> DEFINE S == PlacedIn(done, b)
           R(it) == it = [s \in SUBSET S |->
                      IF s = {} THEN base
                      ELSE Tally(it[s \ {Pick(s)}], KindOf(Pick(s).b[b], m),
                                 Wins(KindOf(Pick(s).b[b], m), closed[Pick(s).win + WindowLen]))]
<1>1. Settled(base, b, m, done) = (CHOOSE it : R(it))[S]
  BY DEF Settled, FoldSet, MapThenFoldSet, Pick, PlacedIn
<1>2. ASSUME NEW it PROVE Settles(it, S, b, m, base) <=> R(it)
  BY DEF Settles, CountedIn
<1> HIDE DEF R
<1>3. \E it : R(it)
  BY <1>2, SettlesExists
<1>4. R(CHOOSE it : R(it))
  BY <1>3
<1> QED BY <1>1, <1>2, <1>4

\* What the conservative model fills both legs of or none, the optimistic one does at least,
\* or at most.
Brackets(sc, so) == sc.both <= so.both /\ sc.none >= so.none

\* A tick counts every window that is due once, in both models; the counts still pay by the
\* formula, and the two models still bracket.
LEMMA SettledCounts ==
  ASSUME NEW b \in Buckets, NEW done, IsFiniteSet(PlacedIn(done, b)),
         \A w \in done, l \in Leg : Fills(w.b[b], "cons", l) => Fills(w.b[b], "opt", l),
         NEW so \in Stat, NEW sc \in Stat, Pays(so), Pays(sc), Brackets(sc, so)
  PROVE  LET no == Settled(so, b, "opt", done)
             nc == Settled(sc, b, "cons", done)
         IN /\ no \in Stat /\ nc \in Stat
            /\ no.placed = so.placed + Cardinality(PlacedIn(done, b))
            /\ nc.placed = sc.placed + Cardinality(PlacedIn(done, b))
            /\ Pays(no) /\ Pays(nc) /\ Brackets(nc, no)
<1>1. PICK S : S = PlacedIn(done, b)
  OBVIOUS
<1>2. IsFiniteSet(S) /\ S \subseteq done
  BY <1>1 DEF PlacedIn
<1>3. PICK io : Settles(io, S, b, "opt", so) /\ Settled(so, b, "opt", done) = io[S]
  BY <1>1, SettledBy
<1>4. PICK ic : Settles(ic, S, b, "cons", sc) /\ Settled(sc, b, "cons", done) = ic[S]
  BY <1>1, SettledBy
<1> DEFINE Right(s) ==
             /\ io[s] \in Stat /\ ic[s] \in Stat
             /\ io[s].placed = so.placed + Cardinality(s)
             /\ ic[s].placed = sc.placed + Cardinality(s)
             /\ Pays(io[s]) /\ Pays(ic[s]) /\ Brackets(ic[s], io[s])
           F == {s \in SUBSET S : ~Right(s)}
<1>5. Right({})
  <2>1. io[{}] = so /\ ic[{}] = sc
    BY <1>3, <1>4 DEF Settles
  <2>2. Cardinality({}) = 0 /\ so.placed \in Int /\ sc.placed \in Int
    BY FS_EmptySet, StatFields DEF Stat
  <2> QED BY <2>1, <2>2
<1>6. ASSUME NEW s \in SUBSET S, s # {}, \A t \in SUBSET S : t \subseteq s /\ t # s => Right(t)
      PROVE  Right(s)
  <2>1. PICK w : w = Pick(s)
    OBVIOUS
  <2>2. w \in s
    BY <1>6, <2>1, PicksChoose DEF Chooses, Picks
  <2>3. PICK r : r = s \ {w}
    OBVIOUS
  <2>4. Right(r) /\ w \in done
    BY <1>2, <1>6, <2>2, <2>3
  <2>5. io[s] = CountedIn(io[r], b, "opt", w) /\ ic[s] = CountedIn(ic[r], b, "cons", w)
    BY <1>3, <1>4, <1>6, <2>1, <2>3 DEF Settles
  <2>6. PICK ko, kc : ko = KindOf(w.b[b], "opt") /\ kc = KindOf(w.b[b], "cons")
    OBVIOUS
  <2>7. PICK e : e = closed[w.win + WindowLen]
    OBVIOUS
  <2>8. /\ ko \in Kind /\ kc \in Kind
        /\ Wins(ko, e) \in BOOLEAN /\ Wins(kc, e) \in BOOLEAN
        /\ Wins(ko, e) => ko \in {"oneup", "onedown"}
        /\ Wins(kc, e) => kc \in {"oneup", "onedown"}
        /\ kc = "both" => ko = "both"
        /\ ko = "none" => kc = "none"
    BY <2>4, <2>6, KindTyped DEF Leg
  <2>9. io[s] = Tally(io[r], ko, Wins(ko, e)) /\ ic[s] = Tally(ic[r], kc, Wins(kc, e))
    BY <2>5, <2>6, <2>7 DEF CountedIn
  <2>10. PICK no, nc : no = io[s] /\ nc = ic[s]
    OBVIOUS
  <2>11. /\ no \in Stat /\ no.placed = io[r].placed + 1 /\ Pays(no)
         /\ no.both = io[r].both + (IF ko = "both" THEN 1 ELSE 0)
         /\ no.none = io[r].none + (IF ko = "none" THEN 1 ELSE 0)
    BY <2>4, <2>8, <2>9, <2>10, TallyIs
  <2>12. /\ nc \in Stat /\ nc.placed = ic[r].placed + 1 /\ Pays(nc)
         /\ nc.both = ic[r].both + (IF kc = "both" THEN 1 ELSE 0)
         /\ nc.none = ic[r].none + (IF kc = "none" THEN 1 ELSE 0)
    BY <2>4, <2>8, <2>9, <2>10, TallyIs
  <2>13. /\ io[r].both \in Int /\ io[r].none \in Int /\ io[r].placed \in Int
         /\ ic[r].both \in Int /\ ic[r].none \in Int /\ ic[r].placed \in Int
         /\ so.placed \in Int /\ sc.placed \in Int
    BY <2>4, StatFields DEF Stat
  <2>14. Brackets(nc, no)
    BY <2>4, <2>8, <2>11, <2>12, <2>13 DEF Brackets
  <2>15. Cardinality(s) = Cardinality(r) + 1 /\ Cardinality(r) \in Int
    <3>1. IsFiniteSet(s)
      BY <1>2, FS_Subset
    <3>2. IsFiniteSet(r) /\ Cardinality(r) = Cardinality(s) - 1
      BY <2>2, <2>3, <3>1, FS_RemoveElement
    <3> QED BY <3>1, <3>2, FS_CardinalityType
  <2> QED BY <2>4, <2>10, <2>11, <2>12, <2>13, <2>14, <2>15
<1>7. F = {}
  <2> SUFFICES ASSUME F # {} PROVE FALSE
    OBVIOUS
  <2>1. PICK s \in F : \A t \in F : t \subseteq s => t = s
    <3>1. F \subseteq SUBSET S
      OBVIOUS
    <3> HIDE DEF F
    <3> QED BY <1>2, <3>1, MinimalSet
  <2>2. s # {}
    BY <1>5
  <2>3. \A t \in SUBSET S : t \subseteq s /\ t # s => Right(t)
    BY <2>1
  <2> HIDE DEF Right
  <2> QED BY <1>6, <2>1, <2>2, <2>3
<1>8. Right(S)
  BY <1>7
<1> QED BY <1>1, <1>3, <1>4, <1>8

------------------------------------------------------------------------------
(* Every order is in one place, and only the windows have moved on. *)

OfBucket(O, b) == {o \in O : o[2] = b}

\* The counts of the buckets, and the windows and orders they are to count: a window that waits
\* is older than the one being watched, an order no younger.
CountsOK ==
  /\ cur \in Window /\ cur.win <= WindowOf(seen)
  /\ IsFiniteSet(pending) /\ \A w \in pending : w \in Window /\ w.win < cur.win
  /\ orders \subseteq Nat \X Buckets /\ \A o \in orders : o[1] <= cur.win
  /\ stats \in [Buckets \X Model -> Stat]
  /\ \A b \in Buckets :
       /\ cur.b[b].placed <=> <<cur.win, b>> \in orders
       /\ IsFiniteSet(OfBucket(orders, b))
       /\ Pays(stats[<<b, "opt">>]) /\ Pays(stats[<<b, "cons">>])
       /\ Brackets(stats[<<b, "cons">>], stats[<<b, "opt">>])
       /\ \A m \in Model :
            Cardinality(OfBucket(orders, b)) =
              stats[<<b, m>>].placed + Cardinality(PlacedIn(pending, b))
              + (IF cur.b[b].placed THEN 1 ELSE 0)

\* Windows follow the clock.
LEMMA WindowMonotone ==
  ASSUME NEW t \in Nat, NEW u \in Nat, t <= u
  PROVE  /\ WindowOf(t) \in Nat /\ WindowOf(u) \in Nat
         /\ WindowOf(t) <= WindowOf(u) /\ WindowOf(u) <= u
<1>1. WindowLen \in Nat \ {0}
  BY StraddleAssumption
<1>2. 0 % WindowLen = 0
  <2>1. /\ 0 % WindowLen \in 0..(WindowLen - 1) /\ 0 \div WindowLen \in Int
        /\ 0 = (WindowLen * (0 \div WindowLen)) + (0 % WindowLen)
    BY <1>1, Division
  <2>2. 0 \div WindowLen = 0
    <3>1. 0 = (WindowLen * 0) + 0
      BY <1>1
    <3> QED BY <1>1, <3>1, QuotientIs
  <2> QED BY <1>1, <2>1, <2>2
<1>3. 0 - (0 % WindowLen) <= t - (t % WindowLen)
  BY <1>1, StartMonotone
<1>4. t - (t % WindowLen) <= u - (u % WindowLen)
  BY <1>1, StartMonotone
<1>5. t % WindowLen \in 0..(WindowLen - 1) /\ u % WindowLen \in 0..(WindowLen - 1)
  BY <1>1, Division
<1> QED BY <1>1, <1>2, <1>3, <1>4, <1>5 DEF WindowOf

\* A tick places orders for the buckets of Z, one each and none twice.
LEMMA OrdersGrow ==
  ASSUME NEW O, NEW win, NEW Z, NEW b, IsFiniteSet(OfBucket(O, b)),
         NEW P, P = O \cup {<<win, c>> : c \in Z}
  PROVE  /\ IsFiniteSet(OfBucket(P, b))
         /\ Cardinality(OfBucket(P, b)) = Cardinality(OfBucket(O, b))
              + (IF b \in Z /\ <<win, b>> \notin O THEN 1 ELSE 0)
<1>1. Cardinality(OfBucket(O, b)) \in Nat
  BY FS_CardinalityType
<1>2. CASE b \in Z /\ <<win, b>> \notin O
  <2>1. OfBucket(P, b) = OfBucket(O, b) \cup {<<win, b>>} /\ <<win, b>> \notin OfBucket(O, b)
    BY <1>2 DEF OfBucket
  <2> QED BY <1>2, <2>1, FS_AddElement
<1>3. CASE ~(b \in Z /\ <<win, b>> \notin O)
  <2>1. OfBucket(P, b) = OfBucket(O, b)
    BY <1>3 DEF OfBucket
  <2> QED BY <1>1, <1>3, <2>1
<1> QED BY <1>2, <1>3

\* What is settled and what is left make up what was pending.
LEMMA PendingSplits ==
  ASSUME NEW S, IsFiniteSet(S), NEW done \in SUBSET S, NEW b
  PROVE  /\ IsFiniteSet(PlacedIn(done, b)) /\ IsFiniteSet(PlacedIn(S \ done, b))
         /\ Cardinality(PlacedIn(S, b)) =
              Cardinality(PlacedIn(done, b)) + Cardinality(PlacedIn(S \ done, b))
<1> DEFINE d == PlacedIn(done, b)
           s == PlacedIn(S \ done, b)
<1>1. d \in SUBSET S /\ s \in SUBSET S
  BY DEF PlacedIn
<1>2. IsFiniteSet(d) /\ IsFiniteSet(s)
  BY <1>1, FS_Subset
<1>3. PlacedIn(S, b) = d \cup s /\ d \cap s = {}
  BY DEF PlacedIn
<1>4. Cardinality(d \cup s) = Cardinality(d) + Cardinality(s) - Cardinality(d \cap s)
  <2> HIDE DEF d, s
  <2> QED BY <1>2, FS_Union
<1>5. Cardinality({}) = 0
  BY FS_EmptySet
<1>6. Cardinality(d) \in Nat /\ Cardinality(s) \in Nat
  <2> HIDE DEF d, s
  <2> QED BY <1>2, FS_CardinalityType
<1>7. Cardinality(d \cap s) = 0
  BY <1>3, <1>5, Zenon
<1>8. Cardinality(PlacedIn(S, b)) = Cardinality(d \cup s)
  BY <1>3, Zenon
<1> HIDE DEF d, s
<1>9. Cardinality(PlacedIn(S, b)) = Cardinality(d) + Cardinality(s)
  BY <1>4, <1>6, <1>7, <1>8
<1> QED BY <1>2, <1>9 DEF d, s

\* A bucket has its orders after a tick if it had them or is in the zone.
LEMMA TickPlaces ==
  ASSUME NEW bs \in Bucket, NEW z \in BOOLEAN, NEW at, NEW up
  PROVE  BucketTick(bs, z, at, up).placed <=> bs.placed \/ z
<1>1. Place(bs, z).placed <=> bs.placed \/ z
  BY DEF Place, Bucket
<1>2. \A x : DOMAIN x = DOMAIN bs => Watch(x, at, up).placed = x.placed
  BY DEF Watch, Bucket
<1>3. DOMAIN Place(bs, z) = DOMAIN bs
  BY DEF Place
<1> QED BY <1>1, <1>2, <1>3 DEF BucketTick

\* What a tick does to the counts, the pending windows and the orders.
LEMMA UpdateCounts ==
  ASSUME IInv, CountsOK, NEW at \in seen..now, NEW r \in Readings \cup FewReadings,
         Update(at, r), IInv'
  PROVE  CountsOK'
<1>1. PICK win : win = WindowOf(at)
  OBVIOUS
<1>2. PICK watched : watched = (IF cur.win # win THEN NewWindow(win) ELSE cur)
  OBVIOUS
<1>3. PICK buf : buf = BufAfter(IF cur.win # win THEN <<>> ELSE volBuf, at, r.spot)
  OBVIOUS
<1>4. PICK zone : zone = [b \in Buckets |-> InZone(b, win, at, r, Vol(buf, r.spot))]
  OBVIOUS
<1>5. PICK done : done = {w \in pending : w.win + WindowLen \in DOMAIN closed}
  OBVIOUS
<1>6. PICK Z : Z = {c \in Buckets : zone[c]}
  OBVIOUS
<1>7. PICK out : out = (IF cur.win # win THEN RotatedOut(cur) ELSE {})
  OBVIOUS
<1>8. /\ seen' = at
      /\ stats' = [k \in Buckets \X Model |-> Settled(stats[k], k[1], k[2], done)]
      /\ pending' = (pending \ done) \cup out
      /\ cur' = [win |-> win,
                 b |-> [b \in Buckets |-> BucketTick(watched.b[b], zone[b], at, r.up)]]
      /\ orders' = orders \cup {<<win, b>> : b \in Z}
  BY <1>1, <1>2, <1>3, <1>4, <1>5, <1>6, <1>7, Zenon DEF Update
<1>9. /\ now \in Nat /\ seen \in Nat /\ at \in Nat /\ seen <= at
      /\ \A w \in {cur} \cup pending : WindowOK(w, seen)
  BY DEF IInv
<1>10. /\ win \in Nat /\ WindowOf(seen) <= win /\ WindowOf(seen) \in Nat
       /\ cur.win \in Nat /\ cur.win <= win
  <2>1. win \in Nat /\ WindowOf(seen) <= win /\ WindowOf(seen) \in Nat
    BY <1>1, <1>9, WindowMonotone
  <2> QED BY <2>1 DEF CountsOK, Window
<1>11. zone \in [Buckets -> BOOLEAN]
  BY <1>4, Zenon DEF InZone
<1>12. watched.b \in [Buckets -> Bucket]
  BY <1>2, <1>9, <1>10, NewWindowOK DEF WindowOK
<1>13. cur' \in Window /\ cur'.win = win
  <2>1. cur'.b \in [Buckets -> Bucket] /\ cur'.win = win
    BY <1>8 DEF IInv, WindowOK
  <2> QED BY <1>8, <1>10, <2>1 DEF Window
<1>14. \A b \in Buckets : cur'.b[b].placed <=> watched.b[b].placed \/ b \in Z
  BY <1>6, <1>8, <1>11, <1>12, TickPlaces
<1>15. ASSUME NEW b \in Buckets PROVE watched.b[b].placed <=> <<win, b>> \in orders
  <2>1. CASE cur.win = win
    BY <1>2, <2>1 DEF CountsOK
  <2>2. CASE cur.win # win
    <3>1. ~watched.b[b].placed
      BY <1>2, <2>2 DEF NewWindow, NewBucket
    <3>2. <<win, b>> \notin orders
      BY SMTT(40), <1>10, <2>2 DEF CountsOK
    <3> QED BY <3>1, <3>2
  <2> QED BY <2>1, <2>2
<1>16. \A b \in Buckets : cur'.b[b].placed <=> <<win, b>> \in orders'
  BY <1>8, <1>14, <1>15
<1>17. IsFiniteSet(done) /\ done \in SUBSET pending /\ IsFiniteSet(pending)
  BY <1>5, FS_Subset DEF CountsOK
<1>18. out \in SUBSET {cur} /\ IsFiniteSet(out) /\ (cur.win = win => out = {})
  <2>1. out \in SUBSET {cur} /\ (cur.win = win => out = {})
    BY <1>7 DEF RotatedOut
  <2> QED BY <2>1, FS_Singleton, FS_Subset
<1>19. cur \notin pending
  BY <1>10 DEF CountsOK, Window
<1>20. IsFiniteSet(pending') /\ \A w \in pending' : w \in Window /\ w.win < win
  <2>1. IsFiniteSet(pending \ done)
    BY <1>17, FS_Difference
  <2>2. IsFiniteSet(pending')
    BY <1>8, <1>18, <2>1, FS_Union
  <2>3. ASSUME NEW w \in pending' PROVE w \in Window /\ w.win < win
    <3>1. CASE w \in pending
      BY <1>10, <3>1 DEF CountsOK, Window
    <3>2. CASE w \in out
      BY <1>10, <1>18, <3>2 DEF CountsOK
    <3> QED BY <1>8, <3>1, <3>2
  <2> QED BY <2>2, <2>3
<1>21. orders' \subseteq Nat \X Buckets /\ \A o \in orders' : o[1] <= win
  <2>1. Z \subseteq Buckets
    BY <1>6
  <2> QED BY <1>8, <1>10, <2>1 DEF CountsOK
<1>22. ASSUME NEW b \in Buckets
       PROVE  /\ IsFiniteSet(OfBucket(orders', b))
              /\ Cardinality(OfBucket(orders', b)) = Cardinality(OfBucket(orders, b))
                   + (IF b \in Z /\ ~watched.b[b].placed THEN 1 ELSE 0)
  <2>1. IsFiniteSet(OfBucket(orders, b))
    BY DEF CountsOK
  <2>2. PICK P : P = orders'
    OBVIOUS
  <2>3. P = orders \cup {<<win, c>> : c \in Z}
    BY <1>8, <2>2
  <2>4. /\ IsFiniteSet(OfBucket(P, b))
        /\ Cardinality(OfBucket(P, b)) = Cardinality(OfBucket(orders, b))
             + (IF b \in Z /\ <<win, b>> \notin orders THEN 1 ELSE 0)
    BY <2>1, <2>3, OrdersGrow
  <2>5. <<win, b>> \notin orders <=> ~watched.b[b].placed
    BY <1>15
  <2> QED BY <2>2, <2>4, <2>5
<1>23. ASSUME NEW b \in Buckets
       PROVE  Cardinality(PlacedIn(pending', b)) =
                Cardinality(PlacedIn(pending, b)) - Cardinality(PlacedIn(done, b))
                + (IF cur.win # win /\ cur.b[b].placed THEN 1 ELSE 0)
  <2> DEFINE left == PlacedIn(pending \ done, b)
  <2>1. /\ IsFiniteSet(left) /\ IsFiniteSet(PlacedIn(done, b))
        /\ Cardinality(PlacedIn(pending, b)) = Cardinality(PlacedIn(done, b)) + Cardinality(left)
    BY <1>17, PendingSplits
  <2>2. Cardinality(left) \in Nat /\ Cardinality(PlacedIn(done, b)) \in Nat
    BY <2>1, FS_CardinalityType
  <2>3. CASE cur.win # win /\ cur.b[b].placed
    <3>1. out = {cur}
      BY <1>7, <2>3 DEF RotatedOut, HasOrders
    <3>2. PlacedIn(pending', b) = left \cup {cur} /\ cur \notin left
      BY <1>8, <1>19, <2>3, <3>1 DEF PlacedIn
    <3>3. Cardinality(left \cup {cur}) = Cardinality(left) + 1
      <4> HIDE DEF left
      <4> QED BY <2>1, <3>2, FS_AddElement
    <3> HIDE DEF left
    <3> QED BY <2>1, <2>2, <2>3, <3>2, <3>3
  <2>4. CASE ~(cur.win # win /\ cur.b[b].placed)
    <3>1. PlacedIn(pending', b) = left
      BY <1>8, <1>18, <2>4 DEF PlacedIn
    <3> HIDE DEF left
    <3> QED BY <2>1, <2>2, <2>4, <3>1
  <2> QED BY <2>3, <2>4
<1>24. ASSUME NEW b \in Buckets
       PROVE  LET no == stats'[<<b, "opt">>]
                  nc == stats'[<<b, "cons">>]
              IN /\ no \in Stat /\ nc \in Stat
                 /\ no.placed = stats[<<b, "opt">>].placed + Cardinality(PlacedIn(done, b))
                 /\ nc.placed = stats[<<b, "cons">>].placed + Cardinality(PlacedIn(done, b))
                 /\ Pays(no) /\ Pays(nc) /\ Brackets(nc, no)
  <2>1. PICK so, sc : so = stats[<<b, "opt">>] /\ sc = stats[<<b, "cons">>]
    OBVIOUS
  <2>2. so \in Stat /\ sc \in Stat /\ Pays(so) /\ Pays(sc) /\ Brackets(sc, so)
    BY <2>1 DEF CountsOK, Model
  <2>3. \A w \in done, l \in Leg : Fills(w.b[b], "cons", l) => Fills(w.b[b], "opt", l)
    BY <1>9, <1>17 DEF WindowOK, BucketOK, Fills
  <2>4. IsFiniteSet(PlacedIn(done, b))
    BY <1>17, PendingSplits
  <2>5. /\ stats'[<<b, "opt">>] = Settled(so, b, "opt", done)
        /\ stats'[<<b, "cons">>] = Settled(sc, b, "cons", done)
    <3>1. <<b, "opt">> \in Buckets \X Model /\ <<b, "cons">> \in Buckets \X Model
      BY DEF Model
    <3> QED BY <1>8, <2>1, <3>1
  <2> QED BY <2>1, <2>2, <2>3, <2>4, <2>5, SettledCounts
<1>25. stats' \in [Buckets \X Model -> Stat]
  <2>1. \A b \in Buckets, m \in Model : stats'[<<b, m>>] \in Stat
    BY <1>24 DEF Model
  <2>2. \A k \in Buckets \X Model : stats'[k] \in Stat
    BY <2>1
  <2>3. stats' = [k \in Buckets \X Model |-> stats'[k]]
    BY <1>8
  <2> QED BY <2>2, <2>3
<1>26. ASSUME NEW b \in Buckets, NEW m \in Model
       PROVE  Cardinality(OfBucket(orders', b)) =
                stats'[<<b, m>>].placed + Cardinality(PlacedIn(pending', b))
                + (IF cur'.b[b].placed THEN 1 ELSE 0)
  <2>1. PICK c : c = stats[<<b, m>>].placed
    OBVIOUS
  <2>2. stats'[<<b, m>>].placed = c + Cardinality(PlacedIn(done, b))
    BY <1>24, <2>1 DEF Model
  <2>3. c \in Int
    BY <2>1, StatFields DEF CountsOK, Stat
  <2>4. Cardinality(OfBucket(orders, b)) = c + Cardinality(PlacedIn(pending, b))
          + (IF cur.b[b].placed THEN 1 ELSE 0)
    BY <2>1 DEF CountsOK
  <2>5. Cardinality(PlacedIn(pending, b)) \in Nat /\ Cardinality(PlacedIn(done, b)) \in Nat
    <3>1. IsFiniteSet(PlacedIn(done, b)) /\ PlacedIn(pending, b) \in SUBSET pending
      BY <1>17, PendingSplits DEF PlacedIn
    <3>2. IsFiniteSet(PlacedIn(pending, b))
      BY <1>17, <3>1, FS_Subset
    <3> QED BY <3>1, <3>2, FS_CardinalityType
  <2>6. cur.win = win => watched = cur
    BY <1>2
  <2>7. cur.win # win => ~watched.b[b].placed
    BY <1>2 DEF NewWindow, NewBucket
  <2>8. CASE cur.win = win
    BY <1>14, <1>22, <1>23, <2>2, <2>3, <2>4, <2>5, <2>6, <2>8
  <2>9. CASE cur.win # win
    BY <1>14, <1>22, <1>23, <2>2, <2>3, <2>4, <2>5, <2>7, <2>9
  <2> QED BY <2>8, <2>9
<1>27. cur'.win <= WindowOf(seen')
  BY <1>1, <1>8, <1>10, <1>13
<1> QED
  BY <1>13, <1>16, <1>20, <1>21, <1>22, <1>24, <1>25, <1>26, <1>27 DEF CountsOK

\* Nothing is counted at the start.
LEMMA CountsInit == Init => CountsOK
<1> SUFFICES ASSUME Init PROVE CountsOK
  OBVIOUS
<1>1. /\ cur = NewWindow(0) /\ pending = {} /\ orders = {} /\ seen = StartTime
      /\ stats = [k \in Buckets \X Model |-> Zero]
  BY DEF Init, NoWindow
<1>2. WindowOf(seen) \in Nat
  BY <1>1, StraddleAssumption, WindowMonotone
<1>3. cur \in Window /\ cur.win = 0
  <2>1. cur.b \in [Buckets -> Bucket] /\ cur.win = 0
    BY <1>1, NewWindowOK DEF WindowOK, NewWindow
  <2> QED BY <1>1, <2>1 DEF NewWindow, Window
<1>4. Zero \in Stat /\ Pays(Zero) /\ Brackets(Zero, Zero) /\ Zero.placed = 0
  <2>1. /\ Zero.placed = 0 /\ Zero.both = 0 /\ Zero.oneup = 0 /\ Zero.onedown = 0
        /\ Zero.none = 0 /\ Zero.one_win = 0 /\ Zero.profit = 0
    BY DEF Zero
  <2>2. Pays(Zero)
    <3>1. (100 - 2 * Limit) * 0 = 0 /\ Limit * (0 + 0) = 0
      BY StraddleAssumption
    <3> QED BY <2>1, <3>1 DEF Pays
  <2>3. Zero \in Stat
    BY <2>1, StatFields DEF Stat, Zero
  <2> QED BY <2>1, <2>2, <2>3 DEF Brackets
<1>5. IsFiniteSet({}) /\ Cardinality({}) = 0
  BY FS_EmptySet
<1>6. \A b \in Buckets, m \in Model : stats[<<b, m>>] = Zero
  BY <1>1
<1>7. \A b \in Buckets : OfBucket(orders, b) = {} /\ PlacedIn(pending, b) = {}
  BY <1>1 DEF OfBucket, PlacedIn
<1>8. \A b \in Buckets : ~cur.b[b].placed
  BY <1>1 DEF NewWindow, NewBucket
<1>9. ASSUME NEW b \in Buckets
      PROVE  /\ cur.b[b].placed <=> <<cur.win, b>> \in orders
             /\ IsFiniteSet(OfBucket(orders, b))
             /\ Pays(stats[<<b, "opt">>]) /\ Pays(stats[<<b, "cons">>])
             /\ Brackets(stats[<<b, "cons">>], stats[<<b, "opt">>])
  BY <1>1, <1>4, <1>5, <1>6, <1>7, <1>8 DEF Model
<1>10. ASSUME NEW b \in Buckets, NEW m \in Model
       PROVE  Cardinality(OfBucket(orders, b)) =
                stats[<<b, m>>].placed + Cardinality(PlacedIn(pending, b))
                + (IF cur.b[b].placed THEN 1 ELSE 0)
  <2>1. stats[<<b, m>>].placed = 0
    BY <1>4, <1>6
  <2>2. OfBucket(orders, b) = {} /\ PlacedIn(pending, b) = {} /\ ~cur.b[b].placed
    BY <1>7, <1>8
  <2> QED BY <1>5, <2>1, <2>2
<1>11. /\ IsFiniteSet(pending) /\ \A w \in pending : w \in Window /\ w.win < cur.win
       /\ orders \subseteq Nat \X Buckets /\ \A o \in orders : o[1] <= cur.win
       /\ stats \in [Buckets \X Model -> Stat]
  BY <1>1, <1>4, <1>5
<1>12. cur.win <= WindowOf(seen)
  BY <1>2, <1>3
<1> QED
  BY <1>3, <1>9, <1>10, <1>11, <1>12 DEF CountsOK

\* The counts fit the windows after every step.
LEMMA CountsStep == IInv /\ CountsOK /\ [Next]_vars /\ IInv' => CountsOK'
<1> SUFFICES ASSUME IInv, CountsOK, [Next]_vars, IInv'
             PROVE  CountsOK'
  OBVIOUS
<1>1. ASSUME UNCHANGED <<cur, seen, pending, orders, stats>> PROVE CountsOK'
  BY <1>1 DEF CountsOK
<1>2. CASE Tick
  BY <1>1, <1>2 DEF Tick
<1>3. CASE Learn
  BY <1>1, <1>3 DEF Learn
<1>4. ASSUME NEW at \in seen..now, NEW r \in Readings \cup FewReadings, Update(at, r)
      PROVE  CountsOK'
  BY <1>4, UpdateCounts
<1>5. CASE UNCHANGED vars
  BY <1>1, <1>5 DEF vars
<1> QED
  BY <1>2, <1>3, <1>4, <1>5 DEF Next

\* The counts, the waiting windows and the orders fit together after every step.
THEOREM CountsInvariant == Spec => []CountsOK
<1>1. Init => IInv /\ CountsOK
  BY InvariantInit, CountsInit
<1>2. IInv /\ CountsOK /\ [Next]_vars => IInv' /\ CountsOK'
  BY InvariantStep, CountsStep
<1> QED
  BY <1>1, <1>2, PTL DEF Spec

\* The dashboard's table counts every order once, whenever its result came, and pays by the
\* formula at the top of straddle_meter.py, for any buckets, limit and number of windows.
THEOREM CountsRight == Spec => []CountsAddUp
<1>1. CountsOK => CountsAddUp
  <2> SUFFICES ASSUME CountsOK PROVE CountsAddUp
    OBVIOUS
  <2>1. OrdersAccounted
    BY DEF CountsOK, OrdersAccounted, OfBucket, PlacedIn
  <2>2. CountsPay
    BY ZenonT(60) DEF CountsOK, CountsPay, Pays, Brackets, Model
  <2> QED BY <2>1, <2>2 DEF CountsAddUp
<1> QED
  BY <1>1, CountsInvariant, PTL

------------------------------------------------------------------------------
(* The buffer of the spot, and the zone it decides. *)

Ticked == [at : Nat, spot : Nat, beat : Nat, up : Int]

\* The fields, for the provers.
LEMMA TickedFields ==
  \A x \in Ticked : x.at \in Nat /\ x.spot \in Nat /\ x.beat \in Nat /\ x.up \in Int
BY DEF Ticked

\* Those of a buffered price.
LEMMA PriceFields ==
  \A y \in Price : y.at \in Nat /\ y.spot \in Nat /\ y.spot # NoPrice
BY DEF Price

\* The spread is the largest difference.
LEMMA SpreadIs ==
  ASSUME NEW s, IsFiniteSet(s), s \subseteq Int, s # {}, NEW v \in Int
  PROVE  Spread(s) >= v <=> \E x, y \in s : x - y >= v
<1>1. Max(s) \in s /\ \A y \in s : Max(s) >= y
  BY MaxIsIn
<1>2. Min(s) \in s /\ \A y \in s : Min(s) <= y
  BY MinIsIn
<1>3. PICK a, b : a = Max(s) /\ b = Min(s)
  OBVIOUS
<1>4. /\ a \in s /\ b \in s /\ a \in Int /\ b \in Int /\ Spread(s) = a - b
      /\ \A y \in s : y \in Int /\ a >= y /\ b <= y
  BY <1>1, <1>2, <1>3 DEF Spread
<1>5. ASSUME NEW x \in s, NEW y \in s, x - y >= v PROVE a - b >= v
  <2>1. x \in Int /\ y \in Int /\ a >= x /\ b <= y
    BY <1>4
  <2> QED BY <1>4, <1>5, <2>1
<1> QED BY <1>4, <1>5

\* Taking what is old from the front leaves what is not: the buffer is in the order of time.
InOrder(buf) == \A i, j \in 1..Len(buf) : i <= j => buf[i].at <= buf[j].at

KeepsFresh(q, buf, at) ==
  /\ q \in Seq(Price)
  /\ \A i, j \in 1..Len(q) : i <= j => q[i].at <= q[j].at
  /\ \A i \in 1..Len(q) : \E j \in 1..Len(buf) : q[i] = buf[j]
  /\ \A i \in 1..Len(q) : at - q[i].at <= Lookback
  /\ \A j \in 1..Len(buf) : at - buf[j].at <= Lookback =>
       \E i \in 1..Len(q) : q[i] = buf[j]

\* Dropping what is old from the front of a buffer that is in order keeps exactly the rest.
LEMMA RecentIs ==
  ASSUME NEW buf \in Seq(Price), NEW at \in Nat, InOrder(buf),
         NEW q, q = Recent(buf, at)
  PROVE  KeepsFresh(q, buf, at)
<1> USE DEF InOrder, KeepsFresh
<1>1. PICK n : n = Len(buf)
  OBVIOUS
<1>2. n \in Nat /\ DOMAIN buf = 1..n /\ \A i \in 1..n : buf[i] \in Price
  BY <1>1
<1>3. PICK fresh : fresh = {i \in 1..n : at - buf[i].at <= Lookback}
  OBVIOUS
<1>4. q = (IF fresh = {} THEN <<>> ELSE SubSeq(buf, Min(fresh), n))
  BY <1>1, <1>2, <1>3 DEF Recent
<1>5. CASE fresh = {}
  <2>1. q = <<>> /\ q \in Seq(Price) /\ Len(q) = 0
    BY <1>4, <1>5
  <2> QED BY <1>1, <1>3, <1>5, <2>1
<1>6. CASE fresh # {}
  <2>1. PICK k : k = Min(fresh)
    OBVIOUS
  <2>2. k \in fresh /\ \A i \in fresh : k <= i
    <3>1. IsFiniteSet(fresh) /\ fresh \subseteq Int
      BY <1>2, <1>3, FS_Interval, FS_Subset
    <3> QED BY <1>6, <2>1, <3>1, MinIsIn
  <2>3. k \in 1..n /\ at - buf[k].at <= Lookback
    BY <1>3, <2>2
  <2>4. /\ q \in Seq(Price) /\ Len(q) = n - k + 1
        /\ \A i \in 1..(n - k + 1) : q[i] = buf[k + i - 1]
    <3>1. q = SubSeq(buf, k, n)
      BY <1>4, <1>6, <2>1
    <3>2. \A i \in k..n : buf[i] \in Price
      BY <1>2, <2>3
    <3> QED BY <1>1, <1>2, <2>3, <3>1, <3>2, SubSeqProperties
  <2>5. \A i \in 1..Len(q) : k + i - 1 \in k..n /\ k + i - 1 \in 1..n /\ q[i] = buf[k + i - 1]
    BY <1>2, <2>3, <2>4
  <2>6. \A i, j \in 1..Len(q) : i <= j => q[i].at <= q[j].at
    <3> SUFFICES ASSUME NEW i \in 1..Len(q), NEW j \in 1..Len(q), i <= j
                 PROVE  q[i].at <= q[j].at
      OBVIOUS
    <3>1. PICK x, y : x = k + i - 1 /\ y = k + j - 1
      OBVIOUS
    <3>2. x \in 1..n /\ y \in 1..n /\ x <= y /\ q[i] = buf[x] /\ q[j] = buf[y]
      BY <1>2, <2>3, <2>4, <2>5, <3>1
    <3> QED BY <1>1, <3>2
  <2>7. \A i \in 1..Len(q) : at - q[i].at <= Lookback
    <3> SUFFICES ASSUME NEW i \in 1..Len(q) PROVE at - q[i].at <= Lookback
      OBVIOUS
    <3>1. PICK j : j = k + i - 1
      OBVIOUS
    <3>2. j \in 1..n /\ k <= j /\ q[i] = buf[j]
      BY <1>2, <2>3, <2>5, <3>1
    <3>3. PICK a, b : a = buf[k].at /\ b = buf[j].at
      OBVIOUS
    <3>4. a <= b /\ a \in Nat /\ b \in Nat /\ q[i].at = b /\ at - a <= Lookback
      BY <1>1, <1>2, <2>3, <3>2, <3>3, PriceFields
    <3>5. Lookback \in Nat
      BY StraddleAssumption
    <3> QED BY <3>4, <3>5
  <2>8. ASSUME NEW j \in 1..n, at - buf[j].at <= Lookback
        PROVE  \E i \in 1..Len(q) : q[i] = buf[j]
    <3>1. k <= j
      BY <1>3, <2>2, <2>8
    <3>2. j - k + 1 \in 1..Len(q) /\ k + (j - k + 1) - 1 = j
      BY <1>2, <2>3, <2>4, <3>1
    <3> QED BY <2>5, <3>2
  <2> QED BY <1>1, <2>4, <2>5, <2>6, <2>7, <2>8
<1> QED BY <1>5, <1>6

\* The buffer at time t, as the ticks T of the window tell it: it has the spot of no other
\* ticks, in the order of time, and that of all that the lookback reaches.
BufOK(T, buf, t) ==
  /\ buf \in Seq(Price)
  /\ \A i, j \in 1..Len(buf) : i <= j => buf[i].at <= buf[j].at
  /\ \A i \in 1..Len(buf) :
       /\ buf[i].at <= t
       /\ \E j \in 1..Len(T) : T[j].at = buf[i].at /\ T[j].spot = buf[i].spot
  /\ \A j \in 1..Len(T) : T[j].spot # NoPrice /\ t - T[j].at <= Lookback =>
       \E i \in 1..Len(buf) : T[j].at = buf[i].at /\ T[j].spot = buf[i].spot

\* After a tick it is so again; and after a tick with a spot, nothing in it is old.
LEMMA BufStep ==
  ASSUME NEW T \in Seq(Ticked), NEW buf, NEW t \in Nat, BufOK(T, buf, t),
         \A j \in 1..Len(T) : T[j].at <= t,
         NEW x \in Ticked, t <= x.at, NEW U, U = Append(T, x),
         NEW q, q = BufAfter(buf, x.at, x.spot)
  PROVE  /\ BufOK(U, q, x.at)
         /\ x.spot # NoPrice => \A i \in 1..Len(q) : x.at - q[i].at <= Lookback
<1>1. PICK n : n = Len(T)
  OBVIOUS
<1>2. /\ n \in Nat /\ Len(U) = n + 1 /\ U[n + 1] = x
      /\ \A j \in 1..n : U[j] = T[j] /\ T[j] \in Ticked
  BY <1>1
<1>3. PICK at : at = x.at /\ at \in Nat /\ t <= at /\ x.spot \in Nat
  BY DEF Ticked
<1>4. Lookback \in Nat
  BY StraddleAssumption
<1>5. /\ buf \in Seq(Price)
      /\ \A i, j \in 1..Len(buf) : i <= j => buf[i].at <= buf[j].at
      /\ \A i \in 1..Len(buf) :
           /\ buf[i].at <= t
           /\ \E j \in 1..n : T[j].at = buf[i].at /\ T[j].spot = buf[i].spot
      /\ \A j \in 1..n : T[j].spot # NoPrice /\ t - T[j].at <= Lookback =>
           \E i \in 1..Len(buf) : T[j].at = buf[i].at /\ T[j].spot = buf[i].spot
  BY <1>1 DEF BufOK
<1>6. \A j \in 1..n : T[j].at \in Nat /\ (at - T[j].at <= Lookback => t - T[j].at <= Lookback)
  <2> SUFFICES ASSUME NEW j \in 1..n
               PROVE  T[j].at \in Nat /\ (at - T[j].at <= Lookback => t - T[j].at <= Lookback)
    OBVIOUS
  <2>1. PICK a : a = T[j].at
    OBVIOUS
  <2>2. a \in Nat
    BY <1>2, <2>1, TickedFields
  <2> QED BY <1>3, <1>4, <2>1, <2>2
<1>7. \A i \in 1..Len(buf) : buf[i] \in Price /\ buf[i].at \in Nat /\ buf[i].at <= at
  <2> SUFFICES ASSUME NEW i \in 1..Len(buf)
               PROVE  buf[i] \in Price /\ buf[i].at \in Nat /\ buf[i].at <= at
    OBVIOUS
  <2>1. buf[i] \in Price /\ buf[i].at <= t
    BY <1>5
  <2>2. PICK a : a = buf[i].at
    OBVIOUS
  <2>3. a \in Nat /\ a <= t
    BY <2>1, <2>2, PriceFields
  <2>4. a <= at
    BY <1>3, <2>3
  <2> QED BY <2>1, <2>2, <2>3, <2>4
<1>8. CASE x.spot = NoPrice
  <2>1. q = buf
    BY <1>8 DEF BufAfter
  <2>2. ASSUME NEW i \in 1..Len(q)
        PROVE  /\ q[i].at <= at
               /\ \E j \in 1..Len(U) : U[j].at = q[i].at /\ U[j].spot = q[i].spot
    <3>1. q[i].at <= at
      BY <1>7, <2>1
    <3>2. PICK j \in 1..n : T[j].at = q[i].at /\ T[j].spot = q[i].spot
      BY <1>5, <2>1
    <3>3. j \in 1..Len(U) /\ U[j] = T[j]
      BY <1>2
    <3> QED BY <3>1, <3>2, <3>3
  <2>3. ASSUME NEW j \in 1..Len(U), U[j].spot # NoPrice, at - U[j].at <= Lookback
        PROVE  \E i \in 1..Len(q) : U[j].at = q[i].at /\ U[j].spot = q[i].spot
    <3>1. j \in 1..n
      BY <1>2, <1>8, <2>3
    <3>2. U[j] = T[j]
      BY <1>2, <3>1
    <3> QED BY <1>5, <1>6, <2>1, <2>3, <3>1, <3>2
  <2>4. /\ q \in Seq(Price)
        /\ \A i, j \in 1..Len(q) : i <= j => q[i].at <= q[j].at
    BY <1>5, <2>1
  <2>5. BufOK(U, q, at)
    BY <2>2, <2>3, <2>4 DEF BufOK
  <2> QED BY <1>3, <1>8, <2>5
<1>9. CASE x.spot # NoPrice
  <2>1. PICK y : y = [at |-> at, spot |-> x.spot]
    OBVIOUS
  <2>2. y \in Price /\ y.at = at /\ y.spot = x.spot
    BY <1>3, <1>9, <2>1 DEF Price
  <2>3. PICK f : f = Append(buf, y)
    OBVIOUS
  <2>4. /\ f \in Seq(Price) /\ Len(f) = Len(buf) + 1 /\ f[Len(buf) + 1] = y
        /\ \A i \in 1..Len(buf) : f[i] = buf[i]
        /\ Len(buf) \in Nat
    BY <1>5, <2>2, <2>3
  <2>5. q = Recent(f, at)
    BY <1>3, <1>9, <2>1, <2>3 DEF BufAfter
  <2>6. InOrder(f)
    <3> USE DEF InOrder
    <3> SUFFICES ASSUME NEW i \in 1..Len(f), NEW j \in 1..Len(f), i <= j
                 PROVE  f[i].at <= f[j].at
      OBVIOUS
    <3>1. CASE j = Len(buf) + 1 /\ i = j
      BY <2>2, <2>4, <3>1, <1>3
    <3>2. CASE j = Len(buf) + 1 /\ i # j
      <4>1. i \in 1..Len(buf)
        BY <2>4, <3>2
      <4>2. f[i].at <= t /\ f[i].at \in Nat /\ f[j].at = at
        BY <1>5, <1>7, <2>2, <2>4, <3>2, <4>1
      <4> QED BY <1>3, <4>2
    <3>3. CASE j # Len(buf) + 1
      <4>1. i \in 1..Len(buf) /\ j \in 1..Len(buf)
        BY <2>4, <3>3
      <4> QED BY <1>5, <2>4, <4>1
    <3> QED BY <3>1, <3>2, <3>3
  <2>7. /\ q \in Seq(Price)
        /\ \A i, j \in 1..Len(q) : i <= j => q[i].at <= q[j].at
        /\ \A i \in 1..Len(q) : \E j \in 1..Len(f) : q[i] = f[j]
        /\ \A i \in 1..Len(q) : at - q[i].at <= Lookback
        /\ \A j \in 1..Len(f) : at - f[j].at <= Lookback => \E i \in 1..Len(q) : q[i] = f[j]
    <3>1. at \in Nat /\ f \in Seq(Price)
      BY <1>3, <2>4
    <3>2. KeepsFresh(q, f, at)
      BY <2>5, <2>6, <3>1, RecentIs
    <3> QED BY <3>2 DEF KeepsFresh
  <2>8. ASSUME NEW i \in 1..Len(q)
        PROVE  /\ q[i].at <= at
               /\ \E j \in 1..Len(U) : U[j].at = q[i].at /\ U[j].spot = q[i].spot
    <3>1. PICK k \in 1..Len(f) : q[i] = f[k]
      BY <2>7
    <3>2. CASE k = Len(buf) + 1
      <4>1. q[i].at = at /\ q[i].spot = x.spot
        BY <2>2, <2>4, <3>1, <3>2
      <4>2. n + 1 \in 1..Len(U) /\ U[n + 1].at = at /\ U[n + 1].spot = x.spot
        BY <1>2, <1>3
      <4>3. at <= at
        BY <1>3
      <4> QED BY <4>1, <4>2, <4>3
    <3>3. CASE k # Len(buf) + 1
      <4>1. k \in 1..Len(buf) /\ q[i] = buf[k]
        BY <2>4, <3>1, <3>3
      <4>2. PICK j \in 1..n : T[j].at = buf[k].at /\ T[j].spot = buf[k].spot
        BY <1>5, <4>1
      <4>3. j \in 1..Len(U) /\ U[j] = T[j]
        BY <1>2
      <4>4. buf[k].at <= at
        BY <1>7, <4>1
      <4> QED BY <4>1, <4>2, <4>3, <4>4
    <3> QED BY <3>2, <3>3
  <2>9. ASSUME NEW j \in 1..Len(U), U[j].spot # NoPrice, at - U[j].at <= Lookback
        PROVE  \E i \in 1..Len(q) : U[j].at = q[i].at /\ U[j].spot = q[i].spot
    <3>1. PICK k \in 1..Len(f) : U[j].at = f[k].at /\ U[j].spot = f[k].spot
      <4>1. CASE j = n + 1
        <5>1. U[j].at = f[Len(buf) + 1].at /\ U[j].spot = f[Len(buf) + 1].spot
          BY <1>2, <1>3, <2>2, <2>4, <4>1
        <5> QED BY <2>4, <5>1
      <4>2. CASE j # n + 1
        <5>1. j \in 1..n /\ U[j] = T[j]
          BY <1>2, <4>2
        <5>2. PICK k \in 1..Len(buf) : T[j].at = buf[k].at /\ T[j].spot = buf[k].spot
          BY <1>5, <1>6, <2>9, <5>1
        <5>3. k \in 1..Len(f) /\ f[k] = buf[k]
          BY <2>4
        <5> QED BY <5>1, <5>2, <5>3
      <4> QED BY <4>1, <4>2
    <3>2. at - f[k].at <= Lookback
      BY <2>9, <3>1
    <3>3. PICK i \in 1..Len(q) : q[i] = f[k]
      BY <2>7, <3>2
    <3> QED BY <3>1, <3>3
  <2>10. BufOK(U, q, at)
    BY <2>7, <2>8, <2>9 DEF BufOK
  <2> QED BY <1>3, <2>7, <2>10
<1> QED BY <1>8, <1>9

------------------------------------------------------------------------------
(* The record. *)

\* ZoneTick and Watched, for any record T of a window that began at w.
Late(T, i) == {j \in 1..i : T[j].spot # NoPrice /\ T[i].at - T[j].at <= Lookback}
ZoneAt(T, w, i, b) ==
  /\ T[i].at - w >= WindowLen - LastSec
  /\ T[i].spot # NoPrice /\ T[i].beat # NoPrice /\ Dist(T[i]) <= b
  /\ \E j, k \in Late(T, i) : T[j].spot - T[k].spot >= VolMin
Zones(T, w, b) == {i \in 1..Len(T) : ZoneAt(T, w, i, b)}
WatchedIn(T, w, b) ==
  IF Zones(T, w, b) = {} THEN {} ELSE Min(Zones(T, w, b))..Len(T)

\* Whether a tick is in a zone, the meter reads from its buffer, and rightly so.
LEMMA ZoneNow ==
  ASSUME NEW U \in Seq(Ticked), NEW n \in Nat, Len(U) = n, n # 0, NEW q, NEW w, NEW b,
         NEW at, at = U[n].at, BufOK(U, q, at),
         NEW r, r.spot = U[n].spot, r.beat = U[n].beat,
         r.spot # NoPrice => \A i \in 1..Len(q) : at - q[i].at <= Lookback
  PROVE  InZone(b, w, at, r, Vol(q, r.spot)) <=> ZoneAt(U, w, n, b)
<1>1. \A j \in 1..n : U[j] \in Ticked
  OBVIOUS
<1>2. n \in 1..n /\ at \in Nat /\ U[n].spot \in Nat
  BY <1>1, TickedFields
<1>3. CASE r.spot = NoPrice
  BY <1>3 DEF InZone, ZoneAt
<1>4. CASE r.spot # NoPrice
  <2>1. PICK S : S = {U[j].spot : j \in Late(U, n)}
    OBVIOUS
  <2>2. Lookback \in Nat /\ VolMin \in Int
    BY StraddleAssumption
  <2>3. n \in Late(U, n)
    BY <1>2, <1>4, <2>2 DEF Late
  <2>4. /\ q \in Seq(Price)
        /\ \A i \in 1..Len(q) : \E j \in 1..n : U[j].at = q[i].at /\ U[j].spot = q[i].spot
        /\ \A j \in 1..n : U[j].spot # NoPrice /\ at - U[j].at <= Lookback =>
             \E i \in 1..Len(q) : U[j].at = q[i].at /\ U[j].spot = q[i].spot
    BY DEF BufOK
  <2>5. DOMAIN q = 1..Len(q) /\ Len(q) \in Nat /\ \A i \in 1..Len(q) : q[i].spot # NoPrice
    <3>1. \A i \in 1..Len(q) : q[i] \in Price
      BY <2>4
    <3> QED BY <2>4, <3>1, PriceFields
  <2>6. ASSUME NEW i \in 1..Len(q) PROVE q[i].spot \in S
    <3>1. PICK j \in 1..n : U[j].at = q[i].at /\ U[j].spot = q[i].spot
      BY <2>4
    <3>2. j \in Late(U, n)
      BY <1>4, <2>5, <3>1 DEF Late
    <3> QED BY <2>1, <3>1, <3>2
  <2>7. ASSUME NEW j \in Late(U, n) PROVE \E i \in 1..Len(q) : U[j].spot = q[i].spot
    <3>1. j \in 1..n /\ U[j].spot # NoPrice /\ at - U[j].at <= Lookback
      BY DEF Late
    <3> QED BY <2>4, <3>1
  <2>8. Spots(q) = S
    <3>1. Spots(q) = {q[i].spot : i \in 1..Len(q)}
      BY <2>5 DEF Spots
    <3>2. ASSUME NEW y \in S PROVE \E i \in 1..Len(q) : y = q[i].spot
      BY <2>1, <2>7
    <3> QED BY <2>6, <3>1, <3>2
  <2>9. IsFiniteSet(S) /\ S \subseteq Int /\ S # {}
    <3>1. IsFiniteSet(1..n) /\ Late(U, n) \in SUBSET (1..n)
      BY FS_Interval DEF Late
    <3>2. IsFiniteSet(Late(U, n))
      BY <3>1, FS_Subset
    <3>3. PICK f : f = [j \in Late(U, n) |-> U[j].spot]
      OBVIOUS
    <3>4. f \in Surjection(Late(U, n), S)
      BY <2>1, <3>3 DEF Surjection
    <3>5. IsFiniteSet(S)
      BY <3>2, <3>4, FS_Surjection
    <3>6. \A j \in Late(U, n) : U[j].spot \in Int
      BY <1>1, <3>1, TickedFields
    <3> QED BY <2>1, <2>3, <3>5, <3>6
  <2>10. Vol(q, r.spot) = Spread(S)
    <3>1. q # <<>>
      BY <2>3, <2>5, <2>7
    <3> QED BY <1>4, <2>8, <3>1 DEF Vol
  <2>11. Spread(S) >= VolMin <=> \E x, y \in S : x - y >= VolMin
    BY <2>2, <2>9, SpreadIs
  <2>12. (\E x, y \in S : x - y >= VolMin)
           <=> \E j, k \in Late(U, n) : U[j].spot - U[k].spot >= VolMin
    BY <2>1
  <2>13. Dist(r) = Dist(U[n])
    BY DEF Dist
  <2> QED BY <2>10, <2>11, <2>12, <2>13 DEF InZone, ZoneAt
<1> QED BY <1>3, <1>4

\* The record U is T, of length n, with one tick more.
Longer(T, U, n) ==
  /\ n \in Nat /\ n = Len(T) /\ Len(U) = n + 1
  /\ T \in Seq(Ticked) /\ U \in Seq(Ticked)
  /\ \A j \in 1..n : U[j] = T[j]

\* A tick changes nothing of what was in a zone before it.
LEMMA ZonesGrow ==
  ASSUME NEW T, NEW U, NEW n, Longer(T, U, n), NEW w, NEW b
  PROVE  /\ ZoneAt(U, w, n + 1, b) => Zones(U, w, b) = Zones(T, w, b) \cup {n + 1}
         /\ ~ZoneAt(U, w, n + 1, b) => Zones(U, w, b) = Zones(T, w, b)
<1>1. n \in Nat /\ Len(T) = n /\ Len(U) = n + 1 /\ \A j \in 1..n : U[j] = T[j]
  BY DEF Longer
<1>2. ASSUME NEW i \in 1..n PROVE ZoneAt(U, w, i, b) <=> ZoneAt(T, w, i, b)
  <2>1. \A j \in 1..i : j \in 1..n /\ U[j] = T[j]
    BY <1>1
  <2>2. i \in 1..i /\ U[i] = T[i]
    BY <1>1
  <2>3. Late(U, i) = Late(T, i) /\ Late(T, i) \subseteq 1..i
    BY <2>1, <2>2 DEF Late
  <2>4. (\E j, k \in Late(U, i) : U[j].spot - U[k].spot >= VolMin)
          <=> \E j, k \in Late(T, i) : T[j].spot - T[k].spot >= VolMin
    BY <2>1, <2>3
  <2> QED BY <2>2, <2>4 DEF ZoneAt
<1>3. 1..Len(U) = (1..n) \cup {n + 1} /\ n + 1 \notin 1..n
  BY <1>1
<1> QED BY <1>1, <1>2, <1>3 DEF Zones

\* What is watched begins with the first tick in the zone, and goes on with every tick.
LEMMA WatchedGrows ==
  ASSUME NEW T, NEW U, NEW n, Longer(T, U, n), NEW w, NEW b
  PROVE  /\ WatchedIn(T, w, b) \subseteq 1..n
         /\ WatchedIn(T, w, b) # {} \/ ZoneAt(U, w, n + 1, b) =>
              WatchedIn(U, w, b) = WatchedIn(T, w, b) \cup {n + 1}
         /\ ~(WatchedIn(T, w, b) # {} \/ ZoneAt(U, w, n + 1, b)) => WatchedIn(U, w, b) = {}
<1>1. n \in Nat /\ Len(T) = n /\ Len(U) = n + 1
  BY DEF Longer
<1>2. PICK Z : Z = Zones(T, w, b)
  OBVIOUS
<1>3. PICK Y : Y = Zones(U, w, b)
  OBVIOUS
<1>4. /\ ZoneAt(U, w, n + 1, b) => Y = Z \cup {n + 1}
      /\ ~ZoneAt(U, w, n + 1, b) => Y = Z
      /\ Z \subseteq 1..n
  <2>1. /\ ZoneAt(U, w, n + 1, b) => Y = Z \cup {n + 1}
        /\ ~ZoneAt(U, w, n + 1, b) => Y = Z
    <3>1. /\ ZoneAt(U, w, n + 1, b) => Zones(U, w, b) = Zones(T, w, b) \cup {n + 1}
          /\ ~ZoneAt(U, w, n + 1, b) => Zones(U, w, b) = Zones(T, w, b)
      BY ZonesGrow
    <3> QED BY <1>2, <1>3, <3>1
  <2>2. Z \subseteq 1..n
    BY <1>1, <1>2 DEF Zones
  <2> QED BY <2>1, <2>2
<1>5. CASE Z = {}
  <2>1. WatchedIn(T, w, b) = {}
    BY <1>2, <1>5 DEF WatchedIn
  <2>2. CASE ZoneAt(U, w, n + 1, b)
    <3>1. Y = {n + 1}
      BY <1>4, <1>5, <2>2
    <3>2. Min(Y) = n + 1
      <4>1. IsFiniteSet({n + 1})
        BY FS_Singleton
      <4>2. IsFiniteSet(Y) /\ Y \subseteq Int /\ Y # {}
        BY <1>1, <3>1, <4>1
      <4> QED BY <3>1, <4>2, MinIsIn
    <3>3. WatchedIn(U, w, b) = (n + 1)..(n + 1)
      BY <1>1, <1>3, <3>1, <3>2 DEF WatchedIn
    <3> QED BY <1>1, <2>1, <2>2, <3>3
  <2>3. CASE ~ZoneAt(U, w, n + 1, b)
    <3>1. WatchedIn(U, w, b) = {}
      BY <1>3, <1>4, <1>5, <2>3 DEF WatchedIn
    <3> QED BY <2>1, <2>3, <3>1
  <2> QED BY <2>2, <2>3
<1>6. CASE Z # {}
  <2>1. IsFiniteSet(Z) /\ Z \subseteq Int /\ IsFiniteSet(Y) /\ Y \subseteq Int /\ Y # {}
    <3>1. IsFiniteSet(1..n)
      BY <1>1, FS_Interval
    <3>2. n + 1 \in Int /\ 1 \in Int
      BY <1>1
    <3>3. IsFiniteSet(1..(n + 1))
      BY <3>2, FS_Interval
    <3>4. Y \subseteq 1..(n + 1) /\ Y # {}
      <4>1. Y \subseteq Z \cup {n + 1} /\ Z \subseteq Y
        BY <1>4
      <4>2. (1..n) \cup {n + 1} \subseteq 1..(n + 1)
        BY <1>1
      <4> QED BY <1>4, <1>6, <4>1, <4>2
    <3>5. IsFiniteSet(Z) /\ IsFiniteSet(Y)
      BY <1>4, <3>1, <3>3, <3>4, FS_Subset
    <3> QED BY <1>4, <3>4, <3>5
  <2>2. PICK m, k : m = Min(Z) /\ k = Min(Y)
    OBVIOUS
  <2>3. m \in Z /\ k \in Y /\ (\A i \in Z : m <= i) /\ (\A i \in Y : k <= i)
    BY <1>6, <2>1, <2>2, MinIsIn
  <2>4. m \in 1..n /\ m = k
    <3>1. m \in 1..n /\ m \in Y /\ (k \in Z \/ k = n + 1)
      BY <1>4, <2>3
    <3>2. k <= m /\ (k \in Z => m <= k) /\ (k \in Z => k \in 1..n)
      BY <1>4, <2>3, <3>1
    <3> QED BY <1>1, <3>1, <3>2
  <2>5. WatchedIn(T, w, b) = m..n /\ WatchedIn(U, w, b) = m..(n + 1)
    BY <1>1, <1>2, <1>3, <1>6, <2>1, <2>2, <2>4 DEF WatchedIn
  <2>6. m..(n + 1) = (m..n) \cup {n + 1} /\ m \in m..n /\ m..n \subseteq 1..n
    BY <1>1, <2>4
  <2> QED BY <2>5, <2>6
<1> QED BY <1>5, <1>6

\* Of the ticks W that are watched, those with a quote, and those of them at the limit.
QuotesIn(T, W) == {i \in W : T[i].up # None}
ThereIn(T, W, l) == {i \in QuotesIn(T, W) : AtLimit(l, T[i].up)}

\* Quotes Q, those at the limit H: there is a stretch of them as long as the dwell; and these
\* begin one that lasts until tick n.
Stretch(Q, H, T) ==
  \E i, j \in H : i < j /\ T[j].at - T[i].at >= Dwell /\ Q \cap (i..j) \subseteq H
Running(Q, H, n) == {i \in H : Q \cap (i..n) \subseteq H}

\* A timer shows when the stretch began that lasts.
TimerOf(s, R, T) ==
  /\ s = Never => R = {}
  /\ s # Never => \E k \in R : s = T[k].at /\ \A i \in R : k <= i

\* Time runs forward in the record.
RecordInOrder(T) == \A i, j \in 1..Len(T) : i <= j => T[i].at <= T[j].at

\* Of the ticks up to n, Q have a quote and H are at the limit, and s is their timer.
Timed(T, n, Q, H, s) ==
  Q \subseteq 1..n /\ H \subseteq Q /\ TimerOf(s, Running(Q, H, n), T)

\* A quote at the limit lengthens the stretches that last, or begins one.
LEMMA QuoteAtLimit ==
  ASSUME NEW T, NEW U, NEW n, Longer(T, U, n), RecordInOrder(T), U[n + 1].at # Never,
         NEW Q, NEW H, NEW s, Timed(T, n, Q, H, s)
  PROVE  /\ Stretch(Q \cup {n + 1}, H \cup {n + 1}, U) <=>
              Stretch(Q, H, T) \/ (s # Never /\ U[n + 1].at - s >= Dwell)
         /\ Timed(U, n + 1, Q \cup {n + 1}, H \cup {n + 1},
                  IF s = Never THEN U[n + 1].at ELSE s)
<1> DEFINE P == Q \cup {n + 1}
           G == H \cup {n + 1}
<1>0. Q \subseteq 1..n /\ H \subseteq Q /\ TimerOf(s, Running(Q, H, n), T)
  BY DEF Timed
<1>1. n \in Nat /\ Len(T) = n /\ Len(U) = n + 1 /\ \A j \in 1..n : U[j] = T[j] /\ T[j] \in Ticked
  BY DEF Longer
<1>11. PICK at : at = U[n + 1].at
  OBVIOUS
<1>12. at \in Nat /\ at # Never
  <2>1. U[n + 1] \in Ticked
    BY <1>1 DEF Longer
  <2> QED BY <1>11, <2>1, TickedFields
<1>2. \A i \in H : i \in 1..n /\ U[i] = T[i] /\ T[i].at \in Nat
  BY <1>0, <1>1, TickedFields
<1>3. PICK R : R = Running(Q, H, n)
  OBVIOUS
<1>4. R \subseteq H /\ \A i \in H : i \in R <=> Q \cap (i..n) \subseteq H
  BY <1>3 DEF Running
<1>5. ASSUME NEW i \in H PROVE P \cap (i..(n + 1)) \subseteq G <=> i \in R
  <2>1. P \cap (i..(n + 1)) = (Q \cap (i..n)) \cup {n + 1}
    BY <1>1, <1>2
  <2>2. n + 1 \notin Q
    BY <1>0, <1>1
  <2> QED BY <1>4, <2>1, <2>2
<1>6. ASSUME NEW i \in H, NEW j \in H PROVE P \cap (i..j) \subseteq G <=> Q \cap (i..j) \subseteq H
  <2>1. n + 1 \notin i..j /\ n + 1 \notin Q
    BY <1>0, <1>1, <1>2
  <2> QED BY <2>1
<1>7. Running(P, G, n + 1) = R \cup {n + 1}
  <2>1. P \cap ((n + 1)..(n + 1)) \subseteq G
    BY <1>1
  <2> QED BY <1>4, <1>5, <2>1 DEF Running
<1>8. (\E i \in R : at - T[i].at >= Dwell) <=> (s # Never /\ at - s >= Dwell)
  <2>1. CASE s = Never
    BY <1>0, <1>3, <2>1 DEF TimerOf
  <2>2. CASE s # Never
    <3>1. PICK k \in R : s = T[k].at /\ \A i \in R : k <= i
      BY <1>0, <1>3, <2>2 DEF TimerOf
    <3>2. ASSUME NEW i \in R, at - T[i].at >= Dwell PROVE at - s >= Dwell
      <4>1. k \in 1..n /\ i \in 1..n /\ k <= i
        BY <1>2, <1>4, <3>1
      <4>2. T[k].at <= T[i].at
        BY <1>1, <4>1 DEF RecordInOrder
      <4>3. PICK a, c : a = T[k].at /\ c = T[i].at
        OBVIOUS
      <4>4. a \in Nat /\ c \in Nat /\ a <= c /\ at - c >= Dwell /\ s = a
        BY <1>2, <1>4, <3>1, <3>2, <4>2, <4>3
      <4>5. Dwell \in Nat
        BY StraddleAssumption
      <4> QED BY <1>12, <4>4, <4>5
    <3> QED BY <2>2, <3>1, <3>2
  <2> QED BY <2>1, <2>2
<1>9. Stretch(P, G, U) <=> Stretch(Q, H, T) \/ \E i \in R : at - T[i].at >= Dwell
  <2>1. ASSUME NEW i \in G, NEW j \in G, i < j, U[j].at - U[i].at >= Dwell,
               P \cap (i..j) \subseteq G
        PROVE  Stretch(Q, H, T) \/ \E m \in R : at - T[m].at >= Dwell
    <3>1. i \in H
      <4>1. i # n + 1
        BY <1>1, <1>2, <2>1
      <4> QED BY <4>1
    <3>2. CASE j = n + 1
      <4>1. i \in R
        BY <1>5, <2>1, <3>1, <3>2
      <4>2. at - T[i].at >= Dwell
        BY <1>2, <1>11, <2>1, <3>1, <3>2
      <4> QED BY <4>1, <4>2
    <3>3. CASE j # n + 1
      <4>1. j \in H
        BY <3>3
      <4> QED BY <1>2, <1>6, <2>1, <3>1, <4>1 DEF Stretch
    <3> QED BY <3>2, <3>3
  <2>2. ASSUME Stretch(Q, H, T) PROVE Stretch(P, G, U)
    <3>1. PICK i \in H, j \in H : i < j /\ T[j].at - T[i].at >= Dwell /\ Q \cap (i..j) \subseteq H
      BY <2>2 DEF Stretch
    <3>2. i \in G /\ j \in G /\ U[i] = T[i] /\ U[j] = T[j] /\ P \cap (i..j) \subseteq G
      BY <1>2, <1>6, <3>1
    <3> QED BY <3>1, <3>2 DEF Stretch
  <2>3. ASSUME NEW i \in R, at - T[i].at >= Dwell PROVE Stretch(P, G, U)
    <3>1. i \in H /\ i \in G /\ n + 1 \in G /\ i < n + 1 /\ U[i] = T[i]
      BY <1>1, <1>2, <1>4
    <3>2. P \cap (i..(n + 1)) \subseteq G
      BY <1>5, <3>1
    <3> QED BY <1>1, <1>11, <2>3, <3>1, <3>2 DEF Stretch
  <2> QED BY <2>1, <2>2, <2>3 DEF Stretch
<1>10. TimerOf(IF s = Never THEN at ELSE s, R \cup {n + 1}, U)
  <2>1. CASE s = Never
    <3>1. R = {}
      BY <1>0, <1>3, <2>1 DEF TimerOf
    <3>2. n + 1 <= n + 1
      BY <1>1
    <3> QED BY <1>11, <1>12, <2>1, <3>1, <3>2 DEF TimerOf, Never
  <2>2. CASE s # Never
    <3>1. PICK k \in R : s = T[k].at /\ \A i \in R : k <= i
      BY <1>0, <1>3, <2>2 DEF TimerOf
    <3>2. k \in R \cup {n + 1} /\ s = U[k].at /\ k <= n + 1
      BY <1>1, <1>2, <1>4, <3>1
    <3> QED BY <2>2, <3>1, <3>2 DEF TimerOf
  <2> QED BY <2>1, <2>2
<1>13. P \subseteq 1..(n + 1) /\ G \subseteq P
  <2>1. 1..n \subseteq 1..(n + 1) /\ n + 1 \in 1..(n + 1)
    BY <1>1
  <2> QED BY <1>0, <2>1
<1> QED BY <1>7, <1>8, <1>9, <1>10, <1>11, <1>13 DEF Timed

\* A quote off the limit ends them all, and no quote changes nothing.
LEMMA QuoteElsewhere ==
  ASSUME NEW T, NEW U, NEW n, Longer(T, U, n),
         NEW Q, NEW H, NEW s, Timed(T, n, Q, H, s)
  PROVE  /\ Stretch(Q \cup {n + 1}, H, U) <=> Stretch(Q, H, T)
         /\ Stretch(Q, H, U) <=> Stretch(Q, H, T)
         /\ Timed(U, n + 1, Q \cup {n + 1}, H, Never)
         /\ Timed(U, n + 1, Q, H, s)
<1> DEFINE P == Q \cup {n + 1}
<1>0. Q \subseteq 1..n /\ H \subseteq Q /\ TimerOf(s, Running(Q, H, n), T)
  BY DEF Timed
<1>1. n \in Nat /\ \A j \in 1..n : U[j] = T[j]
  BY DEF Longer
<1>2. \A i \in H : i \in 1..n /\ U[i] = T[i]
  BY <1>0, <1>1
<1>3. n + 1 \notin Q /\ n + 1 \notin H
  BY <1>0, <1>1
<1>4. ASSUME NEW i \in H, NEW j \in H PROVE P \cap (i..j) = Q \cap (i..j)
  <2>1. n + 1 \notin i..j
    BY <1>1, <1>2
  <2> QED BY <2>1
<1>5. Stretch(Q, H, U) <=> Stretch(Q, H, T)
  BY <1>2 DEF Stretch
<1>6. Stretch(P, H, U) <=> Stretch(Q, H, U)
  BY <1>4 DEF Stretch
<1>7. Running(P, H, n + 1) = {}
  <2>1. ASSUME NEW i \in H PROVE n + 1 \in P \cap (i..(n + 1))
    BY <1>1, <1>2
  <2> QED BY <1>3, <2>1 DEF Running
<1>8. Running(Q, H, n + 1) = Running(Q, H, n)
  <2>1. ASSUME NEW i \in H PROVE Q \cap (i..(n + 1)) = Q \cap (i..n)
    BY <1>0, <1>1, <1>2
  <2> QED BY <2>1 DEF Running
<1>9. TimerOf(Never, {}, U)
  BY DEF TimerOf
<1>10. \A k \in Running(Q, H, n) : U[k] = T[k]
  BY <1>2 DEF Running
<1>11. TimerOf(s, Running(Q, H, n), U)
  BY <1>0, <1>10 DEF TimerOf
<1>12. Q \subseteq 1..(n + 1) /\ P \subseteq 1..(n + 1) /\ H \subseteq P
  BY <1>0, <1>1
<1>13. Timed(U, n + 1, P, H, Never)
  BY <1>7, <1>9, <1>12 DEF Timed
<1>14. Timed(U, n + 1, Q, H, s)
  BY <1>0, <1>8, <1>11, <1>12 DEF Timed
<1> QED BY <1>5, <1>6, <1>13, <1>14

\* A bucket's state is what the watched ticks of the record say.
Recorded(T, W, bs) ==
  /\ bs.placed <=> W # {}
  /\ \A l \in Leg :
       /\ Fills(bs, "opt", l) <=> ThereIn(T, W, l) # {}
       /\ bs.dwell[l] <=> Stretch(QuotesIn(T, W), ThereIn(T, W, l), T)
       /\ Timed(T, Len(T), QuotesIn(T, W), ThereIn(T, W, l), bs.since[l])

\* A bucket that was not placed has nothing recorded.
LEMMA NothingRecorded ==
  ASSUME NEW T
  PROVE  Recorded(T, {}, NewBucket)
<1>1. \A l \in Leg : QuotesIn(T, {}) = {} /\ ThereIn(T, {}, l) = {}
  BY DEF QuotesIn, ThereIn
<1>2. /\ ~NewBucket.placed
      /\ \A l \in Leg : ~NewBucket.dwell[l] /\ NewBucket.since[l] = Never
                        /\ ~Fills(NewBucket, "opt", l)
  BY StraddleAssumption DEF NewBucket, Fills
<1>3. \A n : ~Stretch({}, {}, T) /\ Running({}, {}, n) = {}
  BY DEF Stretch, Running
<1>4. \A n : Timed(T, n, {}, {}, Never)
  BY <1>3 DEF Timed, TimerOf
<1> QED BY <1>1, <1>2, <1>3, <1>4 DEF Recorded

\* A tick keeps it so.
LEMMA RecordedStep ==
  ASSUME NEW T, NEW U, NEW n, Longer(T, U, n), RecordInOrder(T),
         NEW at \in Nat \ {0}, at = U[n + 1].at, NEW up \in Int, up = U[n + 1].up,
         NEW bs, NEW t \in Nat, BucketOK(bs, t), Blank(bs), NEW z \in BOOLEAN,
         NEW W, W \subseteq 1..n, Recorded(T, W, bs),
         NEW V, W # {} \/ z => V = W \cup {n + 1}, ~(W # {} \/ z) => V = {}
  PROVE  Recorded(U, V, BucketTick(bs, z, at, up))
<1>1. n \in Nat /\ Len(T) = n /\ Len(U) = n + 1 /\ \A j \in 1..n : U[j] = T[j]
  BY DEF Longer
<1>2. bs \in Bucket /\ (bs.placed <=> W # {})
  BY DEF BucketOK, Recorded
<1>3. CASE ~(W # {} \/ z)
  <2>1. bs = NewBucket /\ V = {} /\ ~bs.placed
    BY <1>2, <1>3 DEF Blank
  <2>2. BucketTick(bs, z, at, up) = bs
    BY <1>3, <2>1 DEF BucketTick, Place
  <2> QED BY <2>1, <2>2, NothingRecorded
<1>4. CASE W # {} \/ z
  <2>1. V = W \cup {n + 1} /\ V # {}
    BY <1>4
  <2>2. PICK p : p = Place(bs, z)
    OBVIOUS
  <2>3. /\ p \in Bucket /\ p.placed
        /\ p.low = bs.low /\ p.high = bs.high /\ p.since = bs.since /\ p.dwell = bs.dwell
    BY <1>2, <1>4, <2>2 DEF Bucket, Place
  <2>4. PICK Q : Q = QuotesIn(T, W)
    OBVIOUS
  <2>5. Q \subseteq W /\ Q \subseteq 1..n /\ n + 1 \notin W
    <3>1. Q \subseteq W
      BY <2>4 DEF QuotesIn
    <3>2. n + 1 \notin 1..n
      BY <1>1
    <3> QED BY <3>1, <3>2
  <2>6. \A i \in W : U[i] = T[i]
    BY <1>1
  <2>7. PICK new : new = BucketTick(bs, z, at, up)
    OBVIOUS
  <2>8. CASE up = None
    <3>1. new = p
      BY <2>2, <2>7, <2>8 DEF BucketTick
    <3>2. QuotesIn(U, V) = Q
      BY <2>1, <2>4, <2>6, <2>8 DEF QuotesIn
    <3>3. ASSUME NEW l \in Leg
          PROVE  /\ Fills(new, "opt", l) <=> ThereIn(U, V, l) # {}
                 /\ new.dwell[l] <=> Stretch(QuotesIn(U, V), ThereIn(U, V, l), U)
                 /\ Timed(U, Len(U), QuotesIn(U, V), ThereIn(U, V, l), new.since[l])
      <4>1. PICK H : H = ThereIn(T, W, l)
        OBVIOUS
      <4>2. ThereIn(U, V, l) = H /\ H \subseteq Q
        BY <2>4, <2>5, <2>6, <3>2, <4>1 DEF ThereIn
      <4>3. /\ Fills(bs, "opt", l) <=> H # {}
            /\ bs.dwell[l] <=> Stretch(Q, H, T)
            /\ Timed(T, n, Q, H, bs.since[l])
        BY <1>1, <2>4, <4>1 DEF Recorded
      <4>4. PICK s : s = bs.since[l]
        OBVIOUS
      <4>5. Timed(T, n, Q, H, s)
        BY <4>3, <4>4
      <4>6. /\ Stretch(Q, H, U) <=> Stretch(Q, H, T)
            /\ Timed(U, n + 1, Q, H, s)
        BY <4>5, QuoteElsewhere
      <4>7. Fills(new, "opt", l) <=> Fills(bs, "opt", l)
        BY <2>3, <3>1 DEF Fills
      <4> QED BY <1>1, <2>3, <3>1, <3>2, <4>2, <4>3, <4>4, <4>6, <4>7
    <3>4. new.placed
      BY <2>3, <3>1
    <3> QED BY <2>1, <2>7, <3>3, <3>4 DEF Recorded
  <2>9. CASE up # None
    <3>1. new = Watch(p, at, up)
      BY <2>2, <2>3, <2>7, <2>9 DEF BucketTick
    <3>2. /\ new.placed
          /\ new.low = Least(bs.low, up) /\ new.high = Greatest(bs.high, up)
          /\ \A l \in Leg : /\ new.since[l] = Since(p, l, at, up)
                            /\ new.dwell[l] <=> bs.dwell[l] \/ Stayed(p, l, at, up)
      BY <2>3, <3>1 DEF Watch, Bucket
    <3>3. PICK P : P = Q \cup {n + 1}
      OBVIOUS
    <3>4. QuotesIn(U, V) = P
      BY <2>1, <2>4, <2>6, <2>9, <3>3 DEF QuotesIn
    <3>5. ASSUME NEW l \in Leg
          PROVE  /\ Fills(new, "opt", l) <=> ThereIn(U, V, l) # {}
                 /\ new.dwell[l] <=> Stretch(QuotesIn(U, V), ThereIn(U, V, l), U)
                 /\ Timed(U, Len(U), QuotesIn(U, V), ThereIn(U, V, l), new.since[l])
      <4>1. PICK H : H = ThereIn(T, W, l)
        OBVIOUS
      <4>2. H \subseteq Q /\ \A i \in Q : i \in H <=> AtLimit(l, T[i].up)
        BY <2>4, <4>1 DEF ThereIn
      <4>3. /\ Fills(bs, "opt", l) <=> H # {}
            /\ bs.dwell[l] <=> Stretch(Q, H, T)
            /\ Timed(T, n, Q, H, bs.since[l])
        BY <1>1, <2>4, <4>1 DEF Recorded
      <4>4. PICK s : s = bs.since[l]
        OBVIOUS
      <4>5. Timed(T, n, Q, H, s) /\ p.since[l] = s
        BY <2>3, <4>3, <4>4
      <4>6. Fills(new, "opt", l) <=> Fills(bs, "opt", l) \/ AtLimit(l, up)
        BY <1>2, <3>2, StraddleAssumption DEF Fills, AtLimit, Least, Greatest, Bucket
      <4>7. CASE AtLimit(l, up)
        <5>1. PICK G : G = H \cup {n + 1}
          OBVIOUS
        <5>2. ThereIn(U, V, l) = G
          BY <2>5, <2>6, <3>3, <3>4, <4>2, <4>7, <5>1 DEF ThereIn
        <5>3. /\ Stretch(P, G, U) <=> Stretch(Q, H, T) \/ (s # Never /\ at - s >= Dwell)
              /\ Timed(U, n + 1, P, G, IF s = Never THEN at ELSE s)
          <6>1. U[n + 1].at # Never
            BY DEF Never
          <6>2. /\ Stretch(Q \cup {n + 1}, H \cup {n + 1}, U) <=>
                     Stretch(Q, H, T) \/ (s # Never /\ U[n + 1].at - s >= Dwell)
                /\ Timed(U, n + 1, Q \cup {n + 1}, H \cup {n + 1},
                         IF s = Never THEN U[n + 1].at ELSE s)
            BY <4>5, <6>1, QuoteAtLimit
          <6> QED BY <3>3, <5>1, <6>2
        <5>4. new.since[l] = IF s = Never THEN at ELSE s
          BY <3>2, <4>5, <4>7 DEF Since
        <5>5. new.dwell[l] <=> bs.dwell[l] \/ (s # Never /\ at - s >= Dwell)
          BY <3>2, <4>5, <4>7 DEF Stayed
        <5>6. G # {}
          BY <5>1
        <5> QED BY <1>1, <3>4, <4>3, <4>6, <4>7, <5>2, <5>3, <5>4, <5>5, <5>6
      <4>8. CASE ~AtLimit(l, up)
        <5>1. ThereIn(U, V, l) = H
          BY <2>5, <2>6, <3>3, <3>4, <4>2, <4>8 DEF ThereIn
        <5>2. /\ Stretch(P, H, U) <=> Stretch(Q, H, T)
              /\ Timed(U, n + 1, P, H, Never)
          <6>1. /\ Stretch(Q \cup {n + 1}, H, U) <=> Stretch(Q, H, T)
                /\ Timed(U, n + 1, Q \cup {n + 1}, H, Never)
            BY <4>5, QuoteElsewhere
          <6> QED BY <3>3, <6>1
        <5>3. new.since[l] = Never
          BY <3>2, <4>8 DEF Since
        <5>4. new.dwell[l] <=> bs.dwell[l]
          BY <3>2, <4>8 DEF Stayed
        <5> QED BY <1>1, <3>4, <4>3, <4>6, <4>8, <5>1, <5>2, <5>3, <5>4
      <4> QED BY <4>7, <4>8
    <3> QED BY <2>1, <2>7, <3>2, <3>5 DEF Recorded
  <2> QED BY <2>8, <2>9
<1> QED BY <1>3, <1>4

------------------------------------------------------------------------------
(* The meter and its record. *)

\* The ticks of a window until time t, and the buffer then.
History(T, buf, t) ==
  /\ T \in Seq(Ticked) /\ \A i \in 1..Len(T) : T[i].at <= t
  /\ RecordInOrder(T)
  /\ BufOK(T, buf, t)

\* A window begins without either.
LEMMA NoHistory ==
  ASSUME NEW t
  PROVE  History(<<>>, <<>>, t)
<1>1. <<>> \in Seq(Ticked) /\ <<>> \in Seq(Price) /\ 1..Len(<<>>) = {}
  OBVIOUS
<1> QED BY <1>1 DEF History, RecordInOrder, BufOK

\* After a tick with a spot, nothing in the buffer is old.
FreshAfter(x, q) == x.spot # NoPrice => \A i \in 1..Len(q) : x.at - q[i].at <= Lookback

\* A tick adds to them.
LEMMA HistoryStep ==
  ASSUME NEW T, NEW buf, NEW t \in Nat, History(T, buf, t), NEW x \in Ticked, t <= x.at
  PROVE  /\ History(Append(T, x), BufAfter(buf, x.at, x.spot), x.at)
         /\ Longer(T, Append(T, x), Len(T)) /\ Append(T, x)[Len(T) + 1] = x
         /\ FreshAfter(x, BufAfter(buf, x.at, x.spot))
<1> PICK U, q : U = Append(T, x) /\ q = BufAfter(buf, x.at, x.spot)
  OBVIOUS
<1>1. /\ T \in Seq(Ticked) /\ Len(T) \in Nat /\ BufOK(T, buf, t)
      /\ \A i \in 1..Len(T) : T[i].at <= t /\ T[i] \in Ticked
      /\ \A i, j \in 1..Len(T) : i <= j => T[i].at <= T[j].at
  BY DEF History, RecordInOrder
<1>2. /\ U \in Seq(Ticked) /\ Len(U) = Len(T) + 1 /\ U[Len(T) + 1] = x
      /\ \A i \in 1..Len(T) : U[i] = T[i]
  BY <1>1
<1>3. /\ BufOK(U, q, x.at)
      /\ x.spot # NoPrice => \A i \in 1..Len(q) : x.at - q[i].at <= Lookback
  BY <1>1, BufStep
<1>4. x.at \in Nat
  BY TickedFields
<1>5. ASSUME NEW i \in 1..Len(U) PROVE U[i].at <= x.at
  <2>1. CASE i = Len(T) + 1
    BY <1>2, <1>4, <2>1
  <2>2. CASE i # Len(T) + 1
    <3>1. i \in 1..Len(T)
      BY <1>1, <1>2, <2>2
    <3>2. U[i].at \in Nat /\ U[i].at <= t
      BY <1>1, <1>2, <3>1, TickedFields
    <3> QED BY <1>4, <3>2
  <2> QED BY <2>1, <2>2
<1>6. ASSUME NEW i \in 1..Len(U), NEW j \in 1..Len(U), i <= j PROVE U[i].at <= U[j].at
  <2>1. CASE j = Len(T) + 1
    BY <1>2, <1>5, <2>1
  <2>2. CASE j # Len(T) + 1
    <3>1. i \in 1..Len(T) /\ j \in 1..Len(T)
      BY <1>1, <1>2, <1>6, <2>2
    <3> QED BY <1>1, <1>2, <1>6, <3>1
  <2> QED BY <2>1, <2>2
<1>7. History(U, q, x.at)
  BY <1>2, <1>3, <1>5, <1>6 DEF History, RecordInOrder
<1>8. Longer(T, U, Len(T))
  BY <1>1, <1>2 DEF Longer
<1> QED BY <1>2, <1>3, <1>7, <1>8 DEF FreshAfter

\* What the record of window w says of a bucket's state.
AsToldBy(T, w, b, bs) == Recorded(T, WatchedIn(T, w, b), bs)

\* The tick of a bucket keeps its state what the record says.
LEMMA BucketStep ==
  ASSUME NEW T, NEW U, NEW n, Longer(T, U, n), RecordInOrder(T),
         NEW q, BufOK(U, q, U[n + 1].at),
         U[n + 1].spot # NoPrice => \A i \in 1..Len(q) : U[n + 1].at - q[i].at <= Lookback,
         U[n + 1].at # 0,
         NEW w, NEW b, NEW bs, NEW t \in Nat, BucketOK(bs, t), Blank(bs),
         AsToldBy(T, w, b, bs),
         NEW r, r.spot = U[n + 1].spot, r.beat = U[n + 1].beat
  PROVE  AsToldBy(U, w, b, BucketTick(bs, InZone(b, w, U[n + 1].at, r, Vol(q, r.spot)),
                                      U[n + 1].at, U[n + 1].up))
<1>1. n \in Nat /\ n = Len(T) /\ Len(U) = n + 1 /\ U \in Seq(Ticked)
  BY DEF Longer
<1>2. U[n + 1] \in Ticked
  BY <1>1
<1>3. PICK at, up : at = U[n + 1].at /\ up = U[n + 1].up
  OBVIOUS
<1>4. at \in Nat \ {0} /\ up \in Int
  BY <1>2, <1>3, TickedFields
<1>5. PICK z : z = InZone(b, w, at, r, Vol(q, r.spot))
  OBVIOUS
<1>6. z \in BOOLEAN
  BY <1>5, Zenon DEF InZone
<1>7. z <=> ZoneAt(U, w, n + 1, b)
  <2>1. PICK k : k = n + 1
    OBVIOUS
  <2>2. k \in Nat /\ k # 0 /\ Len(U) = k
    BY <1>1, <2>1
  <2>3. /\ BufOK(U, q, at) /\ at = U[k].at /\ r.spot = U[k].spot /\ r.beat = U[k].beat
        /\ r.spot # NoPrice => \A i \in 1..Len(q) : at - q[i].at <= Lookback
    BY <1>3, <2>1
  <2>4. InZone(b, w, at, r, Vol(q, r.spot)) <=> ZoneAt(U, w, k, b)
    BY ZenonT(60), <1>1, <2>2, <2>3, ZoneNow
  <2> QED BY <1>5, <2>1, <2>4
<1>8. PICK W, V : W = WatchedIn(T, w, b) /\ V = WatchedIn(U, w, b)
  OBVIOUS
<1>9. /\ W \subseteq 1..n
      /\ W # {} \/ z => V = W \cup {n + 1}
      /\ ~(W # {} \/ z) => V = {}
  BY <1>7, <1>8, WatchedGrows
<1>10. Recorded(T, W, bs)
  BY <1>8 DEF AsToldBy
<1>11. Recorded(U, V, BucketTick(bs, z, at, up))
  BY <1>3, <1>4, <1>6, <1>9, <1>10, RecordedStep
<1> QED BY <1>3, <1>5, <1>8, <1>11 DEF AsToldBy

\* The meter's state is what the record of its window says.
RecordOK ==
  /\ seen <= now
  /\ DOMAIN closed \subseteq Nat /\ Range(closed) \subseteq Leg
  /\ History(ticks, volBuf, seen)
  /\ \A b \in Buckets : AsToldBy(ticks, cur.win, b, cur.b[b])

\* Of a window without ticks, it says nothing.
LEMMA NothingTold ==
  ASSUME NEW w, NEW b
  PROVE  AsToldBy(<<>>, w, b, NewBucket)
<1>1. WatchedIn(<<>>, w, b) = {}
  BY DEF WatchedIn, Zones
<1> QED BY <1>1, NothingRecorded DEF AsToldBy

\* There is no record at the start.
LEMMA RecordInit == Init => RecordOK
<1> SUFFICES ASSUME Init PROVE RecordOK
  OBVIOUS
<1>1. seen <= now /\ ticks = <<>> /\ volBuf = <<>>
  BY StraddleAssumption DEF Init
<1>2. DOMAIN closed = {} /\ Range(closed) = {}
  BY DEF Init, Range
<1>3. \A b \in Buckets : cur.b[b] = NewBucket
  BY DEF Init, NoWindow, NewWindow
<1> QED BY <1>1, <1>2, <1>3, NoHistory, NothingTold DEF RecordOK

\* An update begins a new record or adds to the one there is, and reads it rightly.
LEMMA UpdateRecord ==
  ASSUME IInv, CountsOK, RecordOK, NEW at \in seen..now, NEW r \in Readings \cup FewReadings,
         Update(at, r)
  PROVE  RecordOK'
<1>1. PICK win, T, buf, wb, q :
        /\ win = WindowOf(at)
        /\ T = (IF cur.win # win THEN <<>> ELSE ticks)
        /\ buf = (IF cur.win # win THEN <<>> ELSE volBuf)
        /\ wb = (IF cur.win # win THEN NewWindow(win) ELSE cur)
        /\ q = BufAfter(buf, at, r.spot)
  OBVIOUS
<1>2. PICK x : x = [at |-> at, spot |-> r.spot, beat |-> r.beat, up |-> r.up]
  OBVIOUS
<1>3. PICK U : U = Append(T, x)
  OBVIOUS
<1>4. /\ seen' = at /\ now' = now /\ closed' = closed
      /\ volBuf' = q /\ ticks' = U
      /\ cur' = [win |-> win,
                 b |-> [b \in Buckets |->
                          BucketTick(wb.b[b], InZone(b, win, at, r, Vol(q, r.spot)), at, r.up)]]
  BY <1>1, <1>2, <1>3, Zenon DEF Update
<1>5. /\ now \in Nat /\ seen \in Nat /\ at \in Nat /\ at # 0 /\ seen <= at /\ at <= now
  BY StraddleAssumption DEF IInv
<1>6. r.spot \in Nat /\ r.beat \in Nat /\ r.up \in Int
  BY StraddleAssumption DEF None
<1>7. /\ x \in Ticked /\ x.at = at /\ x.spot = r.spot /\ x.beat = r.beat /\ x.up = r.up
  BY <1>2, <1>5, <1>6 DEF Ticked
<1>8. /\ History(T, buf, seen)
      /\ \A b \in Buckets : AsToldBy(T, win, b, wb.b[b])
      /\ WindowOK(wb, seen)
  <2>1. CASE cur.win # win
    <3>1. T = <<>> /\ buf = <<>> /\ wb = NewWindow(win)
      BY <1>1, <2>1
    <3>2. \A b \in Buckets : wb.b[b] = NewBucket
      BY <3>1 DEF NewWindow
    <3> QED BY <1>5, <3>1, <3>2, NoHistory, NothingTold, NewWindowOK
  <2>2. CASE cur.win = win
    <3>1. T = ticks /\ buf = volBuf /\ wb = cur
      BY <1>1, <2>2
    <3> QED BY <2>2, <3>1 DEF RecordOK, IInv
  <2> QED BY <2>1, <2>2
<1>9. PICK n : n = Len(T)
  OBVIOUS
<1>10. /\ History(U, q, at) /\ Longer(T, U, n) /\ U[n + 1] = x
       /\ x.spot # NoPrice => \A i \in 1..Len(q) : at - q[i].at <= Lookback
  <2>1. /\ q = BufAfter(buf, x.at, x.spot) /\ seen <= x.at
    BY <1>1, <1>5, <1>7
  <2>2. /\ History(Append(T, x), BufAfter(buf, x.at, x.spot), x.at)
        /\ Longer(T, Append(T, x), Len(T)) /\ Append(T, x)[Len(T) + 1] = x
        /\ FreshAfter(x, BufAfter(buf, x.at, x.spot))
    BY <1>5, <1>7, <1>8, <2>1, HistoryStep
  <2> QED BY <1>3, <1>7, <1>9, <2>1, <2>2 DEF FreshAfter
<1>11. ASSUME NEW b \in Buckets PROVE AsToldBy(U, win, b, cur'.b[b])
  <2>1. PICK bs : bs = wb.b[b]
    OBVIOUS
  <2>2. BucketOK(bs, seen) /\ Blank(bs) /\ AsToldBy(T, win, b, bs)
    BY <1>8, <2>1 DEF WindowOK
  <2>3. /\ RecordInOrder(T) /\ BufOK(U, q, U[n + 1].at)
        /\ U[n + 1].spot # NoPrice =>
             \A i \in 1..Len(q) : U[n + 1].at - q[i].at <= Lookback
        /\ U[n + 1].at # 0 /\ r.spot = U[n + 1].spot /\ r.beat = U[n + 1].beat
    BY <1>5, <1>7, <1>8, <1>10 DEF History
  <2>4. AsToldBy(U, win, b, BucketTick(bs, InZone(b, win, U[n + 1].at, r, Vol(q, r.spot)),
                                       U[n + 1].at, U[n + 1].up))
    BY <1>5, <1>10, <2>2, <2>3, BucketStep
  <2>5. cur'.b[b] = BucketTick(bs, InZone(b, win, at, r, Vol(q, r.spot)), at, r.up)
    BY <1>4, <2>1
  <2> QED BY <1>7, <1>10, <2>4, <2>5
<1>12. cur'.win = win
  BY <1>4
<1> QED BY <1>4, <1>5, <1>10, <1>11, <1>12 DEF RecordOK

\* The state is what the record says after every step.
LEMMA RecordStep == IInv /\ CountsOK /\ RecordOK /\ [Next]_vars => RecordOK'
<1> SUFFICES ASSUME IInv, CountsOK, RecordOK, [Next]_vars
             PROVE  RecordOK'
  OBVIOUS
<1>1. CASE Tick
  BY <1>1 DEF Tick, RecordOK, IInv
<1>2. CASE Learn
  <2>1. PICK e \in (StartTime + 1)..now, outcome \in Leg :
          /\ closed' = [f \in DOMAIN closed \cup {e} |-> IF f = e THEN outcome ELSE closed[f]]
          /\ UNCHANGED <<now, seen, volBuf, cur, pending, stats, ticks, orders>>
    BY <1>2 DEF Learn
  <2>2. e \in Nat
    BY StraddleAssumption DEF IInv
  <2>3. DOMAIN closed' \subseteq Nat /\ Range(closed') \subseteq Leg
    BY <2>1, <2>2 DEF RecordOK, Range
  <2> QED BY <2>1, <2>3 DEF RecordOK
<1>3. ASSUME NEW at \in seen..now, NEW r \in Readings \cup FewReadings, Update(at, r)
      PROVE  RecordOK'
  BY <1>3, UpdateRecord
<1>4. CASE UNCHANGED vars
  BY <1>4 DEF vars, RecordOK
<1> QED
  BY <1>1, <1>2, <1>3, <1>4 DEF Next

\* The buffer holds what the record says it should, and the buckets saw what the record shows.
THEOREM RecordInvariant == Spec => [](CountsOK /\ RecordOK)
<1>1. Init => IInv /\ CountsOK /\ RecordOK
  BY InvariantInit, CountsInit, RecordInit
<1>2. IInv /\ CountsOK /\ RecordOK /\ [Next]_vars => IInv' /\ CountsOK' /\ RecordOK'
  BY InvariantStep, CountsStep, RecordStep
<1> QED
  BY <1>1, <1>2, PTL DEF Spec

\* Somebody who reads the whole record of the window would say of every bucket what the meter
\* found tick by tick: whether orders stand, and which of them count as filled, for any number
\* of ticks, however often the buffer of straddle_meter.py was cut on the way.
THEOREM RecordRight == Spec => []AsRecorded
<1>1. RecordOK => AsRecorded
  <2> SUFFICES ASSUME RecordOK PROVE AsRecorded
    OBVIOUS
  <2>1. ticks \in Seq(Ticked) /\ DOMAIN ticks = 1..Len(ticks)
    BY DEF RecordOK, History
  <2>2. ASSUME NEW b \in Buckets PROVE Watched(b) = WatchedIn(ticks, cur.win, b)
    <3>1. \A i : ZoneTick(i, b) <=> ZoneAt(ticks, cur.win, i, b)
      BY DEF ZoneTick, ZoneAt, Late
    <3>2. {j \in DOMAIN ticks : ZoneTick(j, b)} = Zones(ticks, cur.win, b)
      BY <2>1, <3>1 DEF Zones
    <3> QED BY <3>2 DEF Watched, WatchedIn
  <2>3. \A b \in Buckets : Recorded(ticks, Watched(b), cur.b[b])
    BY <2>2 DEF RecordOK, AsToldBy
  <2>4. PlacedAsRecorded
    BY <2>3 DEF PlacedAsRecorded, Recorded
  <2>5. ASSUME NEW b \in Buckets, NEW l \in Leg
        PROVE  LET quotes == {i \in Watched(b) : ticks[i].up # None}
                   there == {i \in quotes : AtLimit(l, ticks[i].up)} IN
               /\ Fills(cur.b[b], "opt", l) <=> there # {}
               /\ Fills(cur.b[b], "cons", l) <=>
                    \E i, j \in there :
                      /\ i < j /\ ticks[j].at - ticks[i].at >= Dwell
                      /\ quotes \cap (i..j) \subseteq there
    <3>1. Fills(cur.b[b], "cons", l) = cur.b[b].dwell[l]
      BY DEF Fills
    <3>2. /\ Fills(cur.b[b], "opt", l) <=> ThereIn(ticks, Watched(b), l) # {}
          /\ cur.b[b].dwell[l] <=> Stretch(QuotesIn(ticks, Watched(b)),
                                           ThereIn(ticks, Watched(b), l), ticks)
      BY <2>3 DEF Recorded
    <3> QED BY <3>1, <3>2 DEF ThereIn, QuotesIn, Stretch
  <2>6. FilledAsRecorded
    BY <2>5 DEF FilledAsRecorded
  <2> QED BY <2>4, <2>6 DEF AsRecorded
<1> QED
  BY <1>1, RecordInvariant, PTL

\* The meter's state has the shape the source gives it: the buffer holds prices only, although
\* a tick may come without one, and the counts are numbers.
THEOREM TypeCorrect == Spec => []TypeOK
<1>1. IInv /\ CountsOK /\ RecordOK => TypeOK
  <2> SUFFICES ASSUME IInv, CountsOK, RecordOK PROVE TypeOK
    OBVIOUS
  <2>1. /\ now \in Nat /\ seen \in Nat /\ seen <= now
        /\ DOMAIN closed \subseteq Nat /\ Range(closed) \subseteq Leg
    BY DEF IInv, RecordOK
  <2>2. volBuf \in Seq(Price) /\ ticks \in Seq([at : Nat, spot : Nat, beat : Nat, up : Int])
    BY DEF RecordOK, History, BufOK, Ticked
  <2>3. cur \in Window /\ pending \subseteq Window /\ orders \subseteq Nat \X Buckets
    BY DEF CountsOK
  <2>4. stats \in [Buckets \X Model -> [DOMAIN Zero -> Int]]
    BY DEF CountsOK, Stat
  <2> QED BY <2>1, <2>2, <2>3, <2>4 DEF TypeOK
<1> QED
  BY <1>1, Invariant, RecordInvariant, PTL

==============================================================================
