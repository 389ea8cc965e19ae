---------------------------- MODULE WhatIfProofs ----------------------------
(***************************************************************************)
(* The accounts of the what-if simulators add up, and neither they nor the *)
(* meters judge a window early or count it too often, for any window       *)
(* length, page, memory of the feed, prices, stake and thresholds.         *)
(*                                                                         *)
(* The inductive invariant has a part for each of them.  Of the bets: no   *)
(* window bet on is later than the clock's or, in a turn, the turn's       *)
(* (BetsInOrder).  Of the meters: a window waits and was counted once, or  *)
(* as often as turns overran it; a window overran is over, and a turn that *)
(* begins later is in a later one (MeterOK).  Of the rows: each shows the  *)
(* net of the row before it and what it adds itself, from the first one in *)
(* the stream to the last one on its way there, which shows the account    *)
(* (RowsChain).                                                            *)
(***************************************************************************)
EXTENDS WhatIf, CommonLemmas

\* The feed knows nothing of the future.
FeedOK ==
  /\ now \in Nat /\ beat \in Nat /\ fails \in Nat
  /\ ended \in 0..now
  /\ closed \subseteq {e \in Ends : e <= now}

TurnOK ==
  /\ loop # "drain" => outbox = <<>>
  /\ loop = "sampled" => sample.win <= WindowOf(now)

BetsInOrder ==
  /\ \A w \in openWins : w <= WindowOf(now) /\ (loop = "sampled" => w <= sample.win)
  /\ \A b \in Range(bets) : b.win \in openWins
  /\ \A b \in Range(results) :
       /\ b.win \in openWins
       /\ b.win + WindowLen <= now
       /\ b.win \in Starts /\ b.outcome = truth[b.win]

MeterOK ==
  /\ \A w \in overran : w + WindowLen <= now /\ (loop = "sampled" => w # sample.win)
  /\ \A w \in Starts : counted[w] > 0 => w + WindowLen <= now
  /\ \A w \in Starts :
       counted[w] + (IF w \in samples THEN 1 ELSE 0) <= 1 + (IF w \in overran THEN 1 ELSE 0)

\* BandsAddUp, as sums of functions.
Tables == [Bands -> [n : Nat, net : Int]]

Number(t) == [l \in Bands |-> t[l].n]
Nets(t) == [l \in Bands |-> t[l].net]

BandsTotal ==
  /\ Total(Number(bands), Bands) = Len(results)
  /\ Total(Nets(bands), Bands) = pnl

\* What a row adds to the net it shows.
Worth(row) == IF row.status = "SETTLED" THEN Profit(row.bet) ELSE 0

NetBefore(all, k) == IF k = 1 THEN 0 ELSE all[k - 1].net

Chain(all, last) ==
  /\ \A k \in DOMAIN all : all[k].net = NetBefore(all, k) + Worth(all[k])
  /\ last = NetBefore(all, Len(all) + 1)

RowsChain == faults = 0 => Chain(rows \o outbox, pnl)

IInv ==
  /\ FeedOK /\ TypeOK /\ TurnOK
  /\ BetsInOrder /\ MeterOK
  /\ BandsTotal /\ RowsChain

------------------------------------------------------------------------------
(* Windows and the feed. *)

LEMMA Clock ==
  ASSUME NEW t \in Nat
  PROVE  /\ WindowOf(t) \in Nat /\ WindowOf(t) <= t /\ t < WindowOf(t) + WindowLen
         /\ \A u \in Nat : t <= u => WindowOf(t) <= WindowOf(u)
<1>1. WindowLen \in Nat \ {0}
  BY FeedAssumption
<1>2. WindowOf(t) \in Nat /\ WindowOf(t) <= t
  BY FeedAssumption DEF WindowOf
<1>3. \A u \in Nat : t <= u => WindowOf(t) <= WindowOf(u)
  BY <1>1, StartMonotone DEF WindowOf
<1>4. t < WindowOf(t) + WindowLen
  <2>1. t % WindowLen \in 0..(WindowLen - 1)
    BY <1>1, Division
  <2> QED BY <1>1, <2>1 DEF WindowOf
<1> QED BY <1>2, <1>3, <1>4

LEMMA EndsAreTimes ==
  /\ Ends \subseteq Nat
  /\ \A e \in Ends : e - WindowLen \in Starts
BY FeedAssumption DEF Ends, Starts

LEMMA FeedMoves ==
  ASSUME FeedOK, Fetches
  PROVE  FeedOK' /\ now' = now
<1>1. now' = now
  BY DEF Fetches, FetchDone, FetchFails
<1>0. now \in Nat /\ ended \in Nat
  BY DEF FeedOK
<1>2. CASE FetchFails
  BY <1>2 DEF FetchFails, FeedOK
<1>3. ASSUME NEW asked \in ended..now, NEW served \in ended..now, NEW named \in BOOLEAN,
             FetchDone(asked, served, named)
      PROVE  FeedOK'
  <2>1. asked \in Nat /\ served \in Nat /\ served <= now
    BY <1>0 DEF FeedOK
  <2>2. beat' \in Nat /\ ended' = now /\ fails' = fails
    BY <1>3, <2>1, Clock DEF FetchDone, FeedOK
  <2>3. Page(served) \subseteq {e \in Ends : e <= now}
    <3>1. \A e \in Page(served) : e \in Ends /\ e \in Nat /\ e <= served
      BY EndsAreTimes DEF Page
    <3> QED BY <1>0, <2>1, <3>1
  <2>4. closed' \subseteq {e \in Ends : e <= now}
    BY <1>3, <2>3 DEF FetchDone, Newest, FeedOK
  <2> QED BY <1>1, <2>2, <2>4 DEF FeedOK
<1> QED BY <1>1, <1>2, <1>3 DEF Fetches

\* A result that is in is of a window that has ended.
LEMMA ResultsArePast ==
  ASSUME FeedOK, NEW w \in Nat, ResultIn(w)
  PROVE  w \in Starts /\ w + WindowLen <= now
<1>1. w + WindowLen \in Ends /\ w + WindowLen <= now
  BY DEF FeedOK, ResultIn
<1>2. (w + WindowLen) - WindowLen = w
  BY FeedAssumption
<1> QED BY <1>1, <1>2, EndsAreTimes

------------------------------------------------------------------------------
(* Profits and their sums. *)

LEMMA ProfitIsInt ==
  ASSUME NEW b, b.price \in Price
  PROVE  Profit(b) \in Int
<1>1. b.price \in 1..99 /\ Stake \in Nat
  BY WhatIfAssumption
<1>2. (Stake * (100 - b.price)) \div b.price \in Int
  <2>1. Stake * (100 - b.price) \in Int
    BY <1>1
  <2> QED BY <1>1, <2>1
<1> QED BY <1>1, <1>2 DEF Profit

\* What the bets of a sequence add.
Profits(q) == [i \in DOMAIN q |-> Profit(q[i])]

LEMMA ProfitsAre ==
  ASSUME NEW q \in Seq(Result)
  PROVE  \A i \in 1..Len(q) : Profits(q)[i] = Profit(q[i]) /\ Profits(q)[i] \in Int
<1>1. DOMAIN q = 1..Len(q) /\ \A i \in 1..Len(q) : q[i] \in Result
  OBVIOUS
<1> QED BY <1>1, ProfitIsInt DEF Profits, Result

LEMMA NetIsTotal ==
  ASSUME NEW q \in Seq(Result)
  PROVE  Net(q) = Total(Profits(q), 1..Len(q))
<1> DEFINE n == Len(q)
           h == Profits(q)
           R(it) == it = [s \in SUBSET DOMAIN q |->
                           IF s = {} THEN 0 ELSE it[s \ {Max(s)}] + Profit(q[Max(s)])]
<1>1. n \in Nat /\ DOMAIN q = 1..n
  OBVIOUS
<1>2. \A i \in 1..n : h[i] = Profit(q[i]) /\ h[i] \in Int
  BY ProfitsAre
<1>3. \A s \in SUBSET (1..n) : s # {} => Max(s) \in 1..n
  BY <1>1, LastChooses DEF Chooses, Last1
<1> HIDE DEF h
<1>4. ASSUME NEW it PROVE IsLeftSum(it, n, h) <=> R(it)
  BY <1>1, <1>2, <1>3 DEF IsLeftSum
<1>5. Net(q) = (CHOOSE it : R(it))[DOMAIN q]
  BY DEF Net, FoldLeft, MapThenFoldSet
<1>6. (\E it : IsLeftSum(it, n, h)) /\ \A it : IsLeftSum(it, n, h) => it[1..n] = Total(h, 1..n)
  BY <1>1, <1>2, LeftSum
<1> HIDE DEF R, n
<1>7. R(CHOOSE it : R(it))
  BY <1>4, <1>6
<1> QED BY <1>1, <1>4, <1>5, <1>6, <1>7 DEF h, n

\* The net over one bet more.
LEMMA NetGrows ==
  ASSUME NEW q \in Seq(Result), NEW i \in 1..Len(q)
  PROVE  /\ Net(SubSeq(q, 1, i - 1)) \in Int /\ Net(SubSeq(q, 1, 0)) = 0
         /\ Net(SubSeq(q, 1, i)) = Net(SubSeq(q, 1, i - 1)) + Profit(q[i])
<1> DEFINE p == SubSeq(q, 1, i - 1)
           r == SubSeq(q, 1, i)
<1>1. /\ p \in Seq(Result) /\ Len(p) = i - 1 /\ r \in Seq(Result) /\ Len(r) = i
      /\ \A j \in 1..(i - 1) : p[j] = q[j] /\ r[j] = q[j]
      /\ r[i] = q[i] /\ i - 1 \in Nat /\ i \in Nat
  OBVIOUS
<1>2. SubSeq(q, 1, 0) = <<>> /\ <<>> \in Seq(Result) /\ Len(<<>>) = 0
  OBVIOUS
<1>3. Net(SubSeq(q, 1, 0)) = 0
  <2>1. 1..0 = {}
    OBVIOUS
  <2>2. Net(<<>>) = Total(Profits(<<>>), 1..0)
    BY <1>2, NetIsTotal
  <2> QED BY <1>2, <2>1, <2>2, TotalEmpty
<1> HIDE DEF p, r
<1>4. \A j \in 1..(i - 1) : Profits(p)[j] \in Int /\ Profits(p)[j] = Profits(r)[j]
  <2>1. \A j \in 1..(i - 1) : Profits(p)[j] = Profit(p[j]) /\ Profits(p)[j] \in Int
    BY <1>1, ProfitsAre
  <2>2. \A j \in 1..i : Profits(r)[j] = Profit(r[j])
    BY <1>1, ProfitsAre
  <2> QED BY <1>1, <2>1, <2>2
<1>5. \A j \in 1..i : Profits(r)[j] \in Int /\ Profits(r)[i] = Profit(q[i])
  BY <1>1, ProfitsAre
<1>6. Total(Profits(p), 1..(i - 1)) = Total(Profits(r), 1..(i - 1))
  <2>1. IsFiniteSet(1..(i - 1))
    BY FS_Interval
  <2> QED BY <1>4, <2>1, TotalSame
<1>7. /\ Total(Profits(r), 1..(i - 1)) \in Int
      /\ Total(Profits(r), 1..i) = Total(Profits(r), 1..(i - 1)) + Profits(r)[i]
  <2> DEFINE k == i - 1
  <2>1. k \in Nat /\ k + 1 = i
    BY <1>1
  <2> HIDE DEF k
  <2>2. \A j \in 1..(k + 1) : Profits(r)[j] \in Int
    BY <1>5, <2>1
  <2> QED BY <2>1, <2>2, TotalBy DEF k
<1>8. Net(p) = Total(Profits(p), 1..(i - 1)) /\ Net(r) = Total(Profits(r), 1..i)
  BY <1>1, NetIsTotal
<1>9. Net(r) = Net(p) + Profit(q[i]) /\ Net(p) \in Int
  BY <1>5, <1>6, <1>7, <1>8, <1>1
<1> QED BY <1>3, <1>9 DEF p, r

------------------------------------------------------------------------------
(* The bands. *)

LEMMA BandsAreFinite == IsFiniteSet(Bands)
<1>1. IsFiniteSet({"0-10c"})
  BY FS_Singleton
<1>2. IsFiniteSet({"0-10c"} \cup {"10-20c"})
  BY <1>1, FS_AddElement
<1>3. IsFiniteSet(({"0-10c"} \cup {"10-20c"}) \cup {"20c+"})
  BY <1>2, FS_AddElement
<1>4. Bands = ({"0-10c"} \cup {"10-20c"}) \cup {"20c+"}
  BY DEF Bands
<1> QED BY <1>3, <1>4

\* The two sums of BandsAddUp.
LEMMA BandSums ==
  ASSUME NEW t \in Tables
  PROVE  /\ MapThenSumSet(LAMBDA l : t[l].n, Bands) = Total(Number(t), Bands)
         /\ MapThenSumSet(LAMBDA l : t[l].net, Bands) = Total(Nets(t), Bands)
<1> DEFINE c == Picks(Bands)
<1>1. IsFiniteSet(Bands) /\ Chooses(c, Bands)
  BY BandsAreFinite, PicksChoose
<1>2. \A l \in Bands : Number(t)[l] = t[l].n /\ Nets(t)[l] = t[l].net
                       /\ t[l].n \in Int /\ t[l].net \in Int
  BY DEF Tables, Number, Nets
<1>3. MapThenSumSet(LAMBDA l : t[l].n, Bands) = Total(Number(t), Bands)
  <2> DEFINE h == Number(t)
             R(it) == it = [s \in SUBSET Bands |->
                             IF s = {} THEN 0 ELSE t[Pick(s)].n + it[s \ {Pick(s)}]]
  <2>1. \A l \in Bands : h[l] \in Int /\ h[l] = t[l].n
    BY <1>2
  <2>2. \A s \in SUBSET Bands : s # {} => Pick(s) \in Bands /\ c[s] = Pick(s)
    BY <1>1 DEF Chooses, Picks
  <2> HIDE DEF h, c
  <2>3. ASSUME NEW it PROVE IsSum(it, Bands, c, h) <=> R(it)
    BY SMTT(40), <2>1, <2>2 DEF IsSum
  <2>4. MapThenSumSet(LAMBDA l : t[l].n, Bands) = (CHOOSE it : R(it))[Bands]
    BY DEF MapThenSumSet, MapThenFoldSet, Pick
  <2>5. \E it : IsSum(it, Bands, c, h) /\ Total(h, Bands) = it[Bands]
    BY <1>1, <2>1, TotalIsSum DEF c
  <2> HIDE DEF R
  <2>6. R(CHOOSE it : R(it))
    BY <2>3, <2>5
  <2>7. (CHOOSE it : R(it))[Bands] = Total(h, Bands)
    BY <1>1, <2>1, <2>3, <2>5, <2>6, SumUnique
  <2> QED BY <2>4, <2>7 DEF h
<1>4. MapThenSumSet(LAMBDA l : t[l].net, Bands) = Total(Nets(t), Bands)
  <2> DEFINE h == Nets(t)
             R(it) == it = [s \in SUBSET Bands |->
                             IF s = {} THEN 0 ELSE t[Pick(s)].net + it[s \ {Pick(s)}]]
  <2>1. \A l \in Bands : h[l] \in Int /\ h[l] = t[l].net
    BY <1>2
  <2>2. \A s \in SUBSET Bands : s # {} => Pick(s) \in Bands /\ c[s] = Pick(s)
    BY <1>1 DEF Chooses, Picks
  <2> HIDE DEF h, c
  <2>3. ASSUME NEW it PROVE IsSum(it, Bands, c, h) <=> R(it)
    BY <2>1, <2>2 DEF IsSum
  <2>4. MapThenSumSet(LAMBDA l : t[l].net, Bands) = (CHOOSE it : R(it))[Bands]
    BY DEF MapThenSumSet, MapThenFoldSet, Pick
  <2>5. \E it : IsSum(it, Bands, c, h) /\ Total(h, Bands) = it[Bands]
    BY <1>1, <2>1, TotalIsSum DEF c
  <2> HIDE DEF R
  <2>6. R(CHOOSE it : R(it))
    BY <2>3, <2>5
  <2>7. (CHOOSE it : R(it))[Bands] = Total(h, Bands)
    BY <1>1, <2>1, <2>3, <2>5, <2>6, SumUnique
  <2> QED BY <2>4, <2>7 DEF h
<1> QED BY <1>3, <1>4

\* _add_band puts a bet into one band.
LEMMA BandTakesOne ==
  ASSUME NEW t \in Tables, NEW b, b.price \in Price
  PROVE  /\ AddBand(t, b) \in Tables
         /\ Total(Number(AddBand(t, b)), Bands) = Total(Number(t), Bands) + 1
         /\ Total(Nets(AddBand(t, b)), Bands) = Total(Nets(t), Bands) + Profit(b)
<1> DEFINE u == AddBand(t, b)
           x == BandOf(b.price)
<1>1. x \in Bands
  BY DEF BandOf, Bands
<1>2. Profit(b) \in Int
  BY ProfitIsInt
<1>3. /\ u = [t EXCEPT ![x] = [n |-> t[x].n + 1, net |-> t[x].net + Profit(b)]]
      /\ t \in [Bands -> [n : Nat, net : Int]]
  BY DEF AddBand, Tables
<1> HIDE DEF x, u
<1>4. /\ u \in [Bands -> [n : Nat, net : Int]]
      /\ u[x].n = t[x].n + 1 /\ u[x].net = t[x].net + Profit(b)
      /\ \A l \in Bands \ {x} : u[l] = t[l]
  <2>1. [n |-> t[x].n + 1, net |-> t[x].net + Profit(b)] \in [n : Nat, net : Int]
    BY <1>1, <1>2, <1>3
  <2> QED BY <1>1, <1>3, <2>1
<1>5. /\ \A l \in Bands : Number(t)[l] \in Int /\ Nets(t)[l] \in Int
      /\ Number(u)[x] = Number(t)[x] + 1 /\ Nets(u)[x] = Nets(t)[x] + Profit(b)
      /\ \A l \in Bands \ {x} : Number(u)[l] = Number(t)[l] /\ Nets(u)[l] = Nets(t)[l]
  BY <1>1, <1>3, <1>4 DEF Number, Nets
<1>6. Total(Number(u), Bands) = Total(Number(t), Bands) + 1
  <2> DEFINE one == 1
  <2>1. one \in Int /\ Number(u)[x] = Number(t)[x] + one
    BY <1>5
  <2> HIDE DEF one
  <2>2. Total(Number(u), Bands) = Total(Number(t), Bands) + one
    BY <1>1, <1>5, <2>1, BandsAreFinite, TotalBump
  <2> QED BY <2>2 DEF one
<1>7. Total(Nets(u), Bands) = Total(Nets(t), Bands) + Profit(b)
  BY <1>1, <1>2, <1>5, BandsAreFinite, TotalBump
<1> QED BY <1>4, <1>6, <1>7 DEF u, Tables

LEMMA BandsTake ==
  ASSUME NEW t \in Tables, NEW q \in Seq(Result)
  PROVE  /\ FoldLeft(AddBand, t, q) \in Tables
         /\ Total(Number(FoldLeft(AddBand, t, q)), Bands) = Total(Number(t), Bands) + Len(q)
         /\ Total(Nets(FoldLeft(AddBand, t, q)), Bands) = Total(Nets(t), Bands) + Net(q)
<1> DEFINE n == Len(q)
           g == [i \in 1..n |-> [u \in Tables |-> AddBand(u, q[i])]]
           c == Last1(n)
           R(it) == it = [s \in SUBSET DOMAIN q |->
                           IF s = {} THEN t ELSE AddBand(it[s \ {Max(s)}], q[Max(s)])]
<1>1. n \in Nat /\ DOMAIN q = 1..n /\ \A i \in 1..n : q[i].price \in Price
  <2>1. \A i \in 1..n : q[i] \in Result
    OBVIOUS
  <2> QED BY <2>1 DEF Result
<1>2. \E it : R(it)
  <2>1. \A i \in 1..n : g[i] \in [Tables -> Tables]
    BY <1>1, BandTakesOne
  <2>2. PICK it : IsFold(it, 1..n, c, t, g) /\ \A s \in SUBSET (1..n) : it[s] \in Tables
    <3> HIDE DEF n, g
    <3> QED BY <1>1, <2>1, LeftExists
  <2>3. ASSUME NEW s \in SUBSET (1..n), s # {}
        PROVE  g[c[s]][it[s \ {c[s]}]] = AddBand(it[s \ {Max(s)}], q[Max(s)])
    <3>1. c[s] = Max(s) /\ Max(s) \in 1..n
      BY <1>1, <2>3, LastChooses DEF Chooses, Last1
    <3>2. it[s \ {Max(s)}] \in Tables
      BY <2>2, <3>1
    <3> HIDE DEF c
    <3> QED BY <3>1, <3>2
  <2> HIDE DEF g, c, n
  <2>4. R(it)
    BY <1>1, <2>2, <2>3 DEF IsFold
  <2> QED BY <2>4
<1>3. PICK it : R(it) /\ FoldLeft(AddBand, t, q) = it[DOMAIN q]
  <2>1. FoldLeft(AddBand, t, q) = (CHOOSE it : R(it))[DOMAIN q]
    BY DEF FoldLeft, MapThenFoldSet
  <2> HIDE DEF R
  <2> QED BY <1>2, <2>1
<1> DEFINE Right(i) == /\ it[1..i] \in Tables
                       /\ Total(Number(it[1..i]), Bands) = Total(Number(t), Bands) + i
                       /\ Total(Nets(it[1..i]), Bands)
                            = Total(Nets(t), Bands) + Net(SubSeq(q, 1, i))
           N == {i \in 0..n : Right(i)}
<1>4. Total(Number(t), Bands) \in Int /\ Total(Nets(t), Bands) \in Int
  <2>1. \A l \in Bands : Number(t)[l] \in Int /\ Nets(t)[l] \in Int
    BY DEF Number, Nets, Tables
  <2> QED BY <2>1, BandsAreFinite, TotalTake
<1>5. 0 \in N
  <2>1. 1..0 = {} /\ {} \in SUBSET DOMAIN q
    OBVIOUS
  <2>2. it[1..0] = t
    BY <1>3, <2>1
  <2>3. Net(SubSeq(q, 1, 0)) = 0
    <3>1. SubSeq(q, 1, 0) = <<>> /\ <<>> \in Seq(Result) /\ Len(<<>>) = 0 /\ 1..0 = {}
      OBVIOUS
    <3> QED BY <3>1, NetIsTotal, TotalEmpty
  <2>4. Right(0)
    BY <1>4, <2>2, <2>3
  <2> QED BY <1>1, <2>4
<1>6. ASSUME NEW i \in 0..(n - 1), i \in N PROVE i + 1 \in N
  <2>1. Max(1..(i + 1)) = i + 1 /\ (1..(i + 1)) \ {i + 1} = 1..i /\ 1..(i + 1) # {}
    <3>1. i + 1 \in Nat \ {0} /\ (i + 1) - 1 = i
      BY <1>1
    <3> QED BY <3>1, LastOfPrefix
  <2>2. 1..(i + 1) \in SUBSET DOMAIN q /\ i + 1 \in 1..n /\ (i + 1) - 1 = i
    BY <1>1
  <2>3. it[1..(i + 1)] = AddBand(it[1..i], q[i + 1])
    BY <1>3, <2>1, <2>2
  <2>4. /\ Net(SubSeq(q, 1, i)) \in Int
        /\ Net(SubSeq(q, 1, i + 1)) = Net(SubSeq(q, 1, i)) + Profit(q[i + 1])
    BY <2>2, NetGrows
  <2>5. Right(i)
    BY <1>6
  <2>6. Profit(q[i + 1]) \in Int /\ q[i + 1].price \in Price
    BY <1>1, <2>2, ProfitIsInt
  <2> HIDE DEF R, N
  <2>7. /\ AddBand(it[1..i], q[i + 1]) \in Tables
        /\ Total(Number(AddBand(it[1..i], q[i + 1])), Bands) = Total(Number(it[1..i]), Bands) + 1
        /\ Total(Nets(AddBand(it[1..i], q[i + 1])), Bands)
             = Total(Nets(it[1..i]), Bands) + Profit(q[i + 1])
    BY <2>5, <2>6, BandTakesOne
  <2>8. Right(i + 1)
    BY <1>4, <2>3, <2>4, <2>5, <2>6, <2>7
  <2> QED BY <2>2, <2>8 DEF N
<1>7. n \in N
  <2> HIDE DEF N, n
  <2>1. 0..n \subseteq N
    BY <1>1, <1>5, <1>6, UpTo
  <2> QED BY <1>1, <2>1
<1>8. SubSeq(q, 1, n) = q
  OBVIOUS
<1> HIDE DEF R
<1> QED BY <1>1, <1>3, <1>7, <1>8

------------------------------------------------------------------------------
(* update: what it settles, and what it makes of the accounts. *)

\* What a loop over the bets collects.
LEMMA SelectedBets ==
  ASSUME TypeOK, NEW good
  PROVE  /\ Select(bets, good) \in Seq(Bet)
         /\ Range(Select(bets, good)) = Range(bets) \cap good
<1>1. PICK q : q = bets /\ q \in Seq(Bet)
  BY DEF TypeOK
<1>2. Select(q, good) = (CHOOSE it : IsSelect(it, q, good))[DOMAIN q]
  BY DEF Select, FoldLeft, MapThenFoldSet, IsSelect
<1>3. \E it : IsSelect(it, q, good)
  BY <1>1, SelectExists
<1> DEFINE a == CHOOSE it : IsSelect(it, q, good)
<1>4. IsSelect(a, q, good)
  BY <1>3
<1> HIDE DEF a
<1>5. a[DOMAIN q] \in Seq(Bet) /\ Range(a[DOMAIN q]) = {x \in Range(q) : x \in good}
  BY <1>1, <1>4, Selected
<1> QED BY <1>1, <1>2, <1>5 DEF a

\* The bets whose result is in, and the others.
DueNow == {b \in Range(bets) : ResultIn(b.win)}

\* An update's two loops over the bets: what is settled, and what waits on.
LEMMA SettledNow ==
  ASSUME TypeOK
  PROVE  /\ Select(bets, DueNow) \in Seq(Bet)
         /\ Range(Select(bets, DueNow)) = {b \in Range(bets) : ResultIn(b.win)}
         /\ Select(bets, Range(bets) \ DueNow) \in Seq(Bet)
         /\ Range(Select(bets, Range(bets) \ DueNow)) = {b \in Range(bets) : ~ResultIn(b.win)}
<1>1. /\ Range(bets) \cap DueNow = {b \in Range(bets) : ResultIn(b.win)}
      /\ Range(bets) \cap (Range(bets) \ DueNow) = {b \in Range(bets) : ~ResultIn(b.win)}
  BY DEF DueNow
<1> QED BY <1>1, SelectedBets

\* An update, as the facts the proofs use: `done` is settled, `still` waits on.
Settles(done, still, judged, new) ==
  /\ done \in Seq(Bet) /\ Range(done) = {b \in Range(bets) : ResultIn(b.win)}
  /\ still \in Seq(Bet) /\ Range(still) = {b \in Range(bets) : ~ResultIn(b.win)}
  /\ judged = [k \in DOMAIN done |-> Judged(done[k])]
  /\ judged \in Seq(Result)
  /\ Range(judged) = {Judged(b) : b \in Range(done)}
  /\ new \in Entries /\ new \in Seq(Bet) /\ Len(new) <= 1

LEMMA UpdateSettles ==
  ASSUME IInv, Update
  PROVE  \E done, still, judged, new :
           /\ Settles(done, still, judged, new)
           /\ bets' = still \o new
           /\ openWins' = openWins \cup {b.win : b \in Range(new)}
           /\ results' = results \o judged
           /\ pnl' = NetAfter(judged, Len(judged))
           /\ bands' = FoldLeft(AddBand, bands, judged)
           /\ outbox' = NewRows(judged, new)
<1> DEFINE done == Select(bets, DueNow)
           still == Select(bets, Range(bets) \ DueNow)
           judged == [k \in DOMAIN done |-> Judged(done[k])]
<1>1. PICK new \in Entries :
           /\ bets' = still \o new
           /\ openWins' = openWins \cup {b.win : b \in Range(new)}
           /\ results' = results \o judged
           /\ pnl' = NetAfter(judged, Len(judged))
           /\ bands' = FoldLeft(AddBand, bands, judged)
           /\ outbox' = NewRows(judged, new)
  BY DEF Update, SimUpdate, DueNow
<1>2. /\ done \in Seq(Bet) /\ Range(done) = {b \in Range(bets) : ResultIn(b.win)}
      /\ still \in Seq(Bet) /\ Range(still) = {b \in Range(bets) : ~ResultIn(b.win)}
  BY SettledNow DEF IInv
<1> HIDE DEF done, still
<1>3. \A k \in 1..Len(done) : done[k] \in Bet /\ done[k] \in Range(done)
  BY <1>2 DEF Range
<1>4. \A k \in 1..Len(done) : Judged(done[k]) \in Result
  <2> SUFFICES ASSUME NEW k \in 1..Len(done) PROVE Judged(done[k]) \in Result
    OBVIOUS
  <2>1. done[k] \in Bet /\ ResultIn(done[k].win)
    BY <1>2, <1>3
  <2>2. done[k].win \in Starts /\ truth \in [Starts -> Dir]
    BY <2>1, ResultsArePast DEF IInv, TypeOK, Bet
  <2> QED BY <2>1, <2>2 DEF Judged, Bet, Result
<1>5. judged \in Seq(Result) /\ Range(judged) = {Judged(b) : b \in Range(done)}
  BY <1>2, <1>4 DEF Range
<1>6. new \in Seq(Bet) /\ Len(new) <= 1
  <2>1. CASE new = <<>>
    BY <2>1
  <2>2. CASE new # <<>>
    <3>1. PICK m \in Market : Enters(m) /\ new = <<[win |-> sample.win, dir |-> m.obi, price |-> m.price]>>
      BY <1>1, <2>2 DEF Entries
    <3>2. m.obi \in Dir /\ m.price \in Price /\ sample.win \in Nat
      BY <3>1 DEF Enters, Market, IInv, TypeOK
    <3>3. [win |-> sample.win, dir |-> m.obi, price |-> m.price] \in Bet
      BY <3>2 DEF Bet
    <3> QED BY <3>1, <3>3
  <2> QED BY <2>1, <2>2
<1> QED BY <1>1, <1>2, <1>5, <1>6 DEF Settles

\* A bet of this turn is on the window of the turn, and that one was not bet on.
LEMMA EntryIsNew ==
  ASSUME IInv, NEW new \in Entries, NEW b \in Range(new)
  PROVE  b.win = sample.win /\ sample.win \notin openWins
<1>1. new # <<>>
  BY DEF Range
<1>2. ~Known(sample.win)
  BY <1>1 DEF Entries
<1>3. PICK m \in Market : new = <<[win |-> sample.win, dir |-> m.obi, price |-> m.price]>>
  BY <1>1 DEF Entries
<1>4. b = [win |-> sample.win, dir |-> m.obi, price |-> m.price]
  BY <1>3 DEF Range
<1> QED BY <1>2, <1>4 DEF Known

\* Update of the bets.
LEMMA UpdateBets ==
  ASSUME IInv, Update
  PROVE  /\ BetsInOrder'
         /\ bets' \in Seq(Bet) /\ openWins' \subseteq Nat /\ results' \in Seq(Result)
         /\ pnl' \in Int /\ bands' \in Tables /\ BandsTotal'
<1>1. PICK done, still, judged, new :
           /\ Settles(done, still, judged, new)
           /\ bets' = still \o new
           /\ openWins' = openWins \cup {b.win : b \in Range(new)}
           /\ results' = results \o judged
           /\ pnl' = NetAfter(judged, Len(judged))
           /\ bands' = FoldLeft(AddBand, bands, judged)
  BY UpdateSettles
<1>2. /\ loop = "sampled" /\ loop' = "drain" /\ sample' = sample /\ truth' = truth /\ now' = now
      /\ WindowOf(now)' = WindowOf(now) /\ now \in Nat /\ sample.win \in Nat
      /\ sample.win <= WindowOf(now) /\ WindowOf(now) \in Nat
  BY Clock DEF Update, feedVars, WindowOf, IInv, FeedOK, TypeOK, TurnOK
<1>3. /\ bets' \in Seq(Bet) /\ Range(bets') = Range(still) \cup Range(new)
      /\ results' \in Seq(Result) /\ Range(results') = Range(results) \cup Range(judged)
      /\ Len(results') = Len(results) + Len(judged)
  <2>1. /\ still \in Seq(Bet) /\ new \in Seq(Bet)
        /\ results \in Seq(Result) /\ judged \in Seq(Result)
    BY <1>1 DEF Settles, IInv, TypeOK
  <2>2. bets' \in Seq(Bet) /\ Range(bets') = Range(still) \cup Range(new)
    BY <1>1, <2>1, ConcatRange
  <2>3. /\ results' \in Seq(Result) /\ Range(results') = Range(results) \cup Range(judged)
        /\ Len(results') = Len(results) + Len(judged)
    BY <1>1, <2>1, ConcatRange
  <2> QED BY <2>2, <2>3
<1>4. \A b \in Range(new) : b.win = sample.win
  BY <1>1, EntryIsNew DEF Settles
<1>5. openWins' \subseteq openWins \cup {sample.win} /\ openWins \subseteq openWins'
  BY <1>1, <1>4
<1>6. \A b \in Range(judged) :
        b.win \in openWins /\ b.win + WindowLen <= now /\ b.win \in Starts /\ b.outcome = truth[b.win]
  <2> SUFFICES ASSUME NEW d \in Range(done)
               PROVE  /\ Judged(d).win \in openWins /\ Judged(d).win + WindowLen <= now
                      /\ Judged(d).win \in Starts /\ Judged(d).outcome = truth[Judged(d).win]
    BY <1>1 DEF Settles
  <2>1. d \in Range(bets) /\ ResultIn(d.win) /\ d.win \in openWins /\ d.win \in Nat
    BY <1>1 DEF Settles, IInv, BetsInOrder, TypeOK
  <2>2. d.win \in Starts /\ d.win + WindowLen <= now
    BY <2>1, ResultsArePast DEF IInv
  <2> QED BY <2>1, <2>2 DEF Judged
<1>7. \A w \in openWins' : w <= WindowOf(now)
  BY <1>2, <1>5 DEF IInv, BetsInOrder
<1>8. \A b \in Range(bets') : b.win \in openWins'
  <2>1. \A b \in Range(still) : b.win \in openWins'
    BY <1>1, <1>5 DEF Settles, IInv, BetsInOrder
  <2>2. \A b \in Range(new) : b.win \in openWins'
    BY <1>1
  <2> QED BY <1>3, <2>1, <2>2
<1>9. \A b \in Range(results') :
        b.win \in openWins' /\ b.win + WindowLen <= now /\ b.win \in Starts /\ b.outcome = truth[b.win]
  BY <1>3, <1>5, <1>6 DEF IInv, BetsInOrder
<1>10. BetsInOrder'
  <2>1. Starts' = Starts
    BY DEF Starts, Ends
  <2> QED BY <1>2, <1>7, <1>8, <1>9, <2>1 DEF BetsInOrder
<1>11. judged \in Seq(Result)
  BY <1>1 DEF Settles
<1>12. pnl' = pnl + Net(judged) /\ Net(judged) \in Int
  <2>1. SubSeq(judged, 1, Len(judged)) = judged
    BY <1>11
  <2>2. Net(judged) \in Int
    <3>1. IsFiniteSet(1..Len(judged))
      BY <1>11, FS_Interval
    <3> QED BY <1>11, <3>1, NetIsTotal, ProfitsAre, TotalTake
  <2> QED BY <1>1, <2>1, <2>2 DEF NetAfter
<1>13. /\ bands' \in Tables
       /\ Total(Number(bands'), Bands) = Total(Number(bands), Bands) + Len(judged)
       /\ Total(Nets(bands'), Bands) = Total(Nets(bands), Bands) + Net(judged)
  BY <1>1, <1>11, BandsTake DEF IInv, TypeOK, Tables
<1>14. /\ Total(Number(bands), Bands) = Len(results)
       /\ Total(Nets(bands), Bands) = pnl
  BY DEF IInv, BandsTotal
<1>15. BandsTotal'
  BY <1>3, <1>12, <1>13, <1>14 DEF BandsTotal
<1>16. openWins' \subseteq Nat /\ pnl' \in Int
  BY <1>2, <1>5, <1>12 DEF IInv, TypeOK
<1> QED BY <1>3, <1>10, <1>13, <1>15, <1>16

\* Update of a meter, one window at a time.
LEMMA UpdateMeter ==
  ASSUME IInv, Update
  PROVE  /\ MeterOK' /\ samples' \subseteq Nat /\ counted' \in [Starts -> Nat] /\ overran' \subseteq Nat
<1>1. /\ loop = "sampled" /\ loop' = "drain" /\ now' = now /\ now \in Nat
      /\ sample.win \in Nat /\ WindowLen \in Nat
      /\ samples \subseteq Nat /\ counted \in [Starts -> Nat] /\ overran \subseteq Nat
  BY FeedAssumption DEF Update, feedVars, IInv, FeedOK, TypeOK
<1>2. PICK done : done = {w \in samples : ResultIn(w)}
  OBVIOUS
<1>3. /\ counted' = [w \in Starts |-> counted[w] + IF w \in done THEN 1 ELSE 0]
      /\ samples' \subseteq (samples \ done) \cup {sample.win}
      /\ samples \ done \subseteq samples'
      /\ overran' = IF now >= sample.win + WindowLen THEN overran \cup {sample.win} ELSE overran
  <2>1. samples' = (samples \ done) \cup
                     (IF TimeToSample /\ sample.win <= LastWin THEN {sample.win} ELSE {})
    BY <1>2 DEF Update, MeterUpdate, LeftOver
  <2>2. counted' = [w \in Starts |-> counted[w] + IF w \in done THEN 1 ELSE 0]
    BY <1>2 DEF Update, MeterUpdate
  <2>3. overran' = IF now >= sample.win + WindowLen THEN overran \cup {sample.win} ELSE overran
    BY DEF Update
  <2> QED BY <2>1, <2>2, <2>3
<1>4. samples' \subseteq Nat /\ overran' \subseteq Nat /\ counted' \in [Starts -> Nat]
  <2>1. \A w \in Starts : counted[w] + (IF w \in done THEN 1 ELSE 0) \in Nat
    BY <1>1
  <2> QED BY <1>1, <1>3, <2>1
<1>5. \A w \in done : w \in samples /\ w + WindowLen <= now
  BY <1>1, <1>2, ResultsArePast DEF IInv
<1>6. \A w \in overran' : w + WindowLen <= now
  BY <1>1, <1>3 DEF IInv, MeterOK
<1>7. \A w \in Starts : counted'[w] = counted[w] + (IF w \in done THEN 1 ELSE 0) /\ counted[w] \in Nat
  BY <1>1, <1>3
<1>8. \A w \in Starts : counted'[w] > 0 => w + WindowLen <= now
  BY <1>5, <1>7 DEF IInv, MeterOK
<1>9. ASSUME NEW w \in Starts
      PROVE  counted'[w] + (IF w \in samples' THEN 1 ELSE 0)
               <= 1 + (IF w \in overran' THEN 1 ELSE 0)
  <2>1. /\ counted[w] + (IF w \in samples THEN 1 ELSE 0) <= 1 + (IF w \in overran THEN 1 ELSE 0)
        /\ sample.win \notin overran
        /\ counted[w] > 0 => w + WindowLen <= now
    BY <1>1 DEF IInv, MeterOK
  <2>2. overran \subseteq overran'
    BY <1>3
  <2>3. CASE w # sample.win
    <3>1. w \in samples' => w \in samples \ done
      BY <1>3, <2>3
    <3>2. CASE w \in done
      BY <1>5, <1>7, <2>1, <2>2, <3>1, <3>2
    <3>3. CASE w \notin done
      BY <1>7, <2>1, <2>2, <3>1, <3>3
    <3> QED BY <3>2, <3>3
  <2>4. CASE w = sample.win
    <3>1. w \notin overran
      BY <2>1, <2>4
    <3>2. CASE w \in done
      <4>1. w \in overran' /\ w \in samples
        BY <1>1, <1>3, <1>5, <2>4, <3>2
      <4>2. counted[w] = 0
        BY <1>7, <2>1, <3>1, <4>1
      <4> QED BY <1>7, <3>2, <4>1, <4>2
    <3>3. CASE w \notin done /\ counted[w] = 0
      BY <1>7, <3>3
    <3>4. CASE w \notin done /\ counted[w] # 0
      <4>1. w \in overran'
        BY <1>1, <1>3, <1>7, <2>1, <2>4, <3>4
      <4>2. counted[w] <= 1
        BY <1>7, <2>1, <3>1
      <4> QED BY <1>7, <3>4, <4>1, <4>2
    <3> QED BY <3>2, <3>3, <3>4
  <2> QED BY <2>3, <2>4
<1>10. MeterOK'
  <2>1. Starts' = Starts
    BY DEF Starts, Ends
  <2> QED BY <1>1, <1>6, <1>8, <1>9, <2>1 DEF MeterOK
<1> QED BY <1>4, <1>10

------------------------------------------------------------------------------
(* The rows of a turn, behind those that are in the stream. *)

LEMMA WorthIsInt ==
  ASSUME NEW row \in Row
  PROVE  Worth(row) \in Int
<1>1. row.bet.price \in Price
  BY DEF Row, Bet, Result
<1> QED BY <1>1, ProfitIsInt DEF Worth

LEMMA NewRowsAre ==
  ASSUME NEW judged \in Seq(Result), NEW new \in Seq(Bet), pnl \in Int
  PROVE  /\ NewRows(judged, new) \in Seq(Row)
         /\ Len(NewRows(judged, new)) = Len(judged) + Len(new)
         /\ NetAfter(judged, 0) = pnl
         /\ \A k \in 1..Len(judged) :
              /\ NewRows(judged, new)[k].net = NetAfter(judged, k)
              /\ Worth(NewRows(judged, new)[k]) = NetAfter(judged, k) - NetAfter(judged, k - 1)
         /\ \A k \in 1..Len(new) :
              /\ NewRows(judged, new)[Len(judged) + k].net = NetAfter(judged, Len(judged))
              /\ Worth(NewRows(judged, new)[Len(judged) + k]) = 0
         /\ \A k \in 0..Len(judged) : NetAfter(judged, k) \in Int
<1> DEFINE d == Len(judged)
           e == Len(new)
           p == [k \in DOMAIN judged |-> [status |-> "SETTLED", bet |-> judged[k],
                                          net |-> NetAfter(judged, k)]]
           q == [k \in DOMAIN new |-> [status |-> "OPEN", bet |-> new[k],
                                       net |-> NetAfter(judged, Len(judged))]]
<1>1. /\ d \in Nat /\ e \in Nat /\ DOMAIN judged = 1..d /\ DOMAIN new = 1..e
      /\ \A k \in 1..d : judged[k] \in Result
      /\ \A k \in 1..e : new[k] \in Bet
  OBVIOUS
<1>2. \A k \in 1..d : Net(SubSeq(judged, 1, k - 1)) \in Int
                     /\ Net(SubSeq(judged, 1, k)) = Net(SubSeq(judged, 1, k - 1)) + Profit(judged[k])
  BY NetGrows
<1>3. Net(SubSeq(judged, 1, 0)) = 0
  <2>1. SubSeq(judged, 1, 0) = <<>> /\ <<>> \in Seq(Result) /\ Len(<<>>) = 0 /\ 1..0 = {}
    OBVIOUS
  <2> QED BY <2>1, NetIsTotal, TotalEmpty
<1>4. \A k \in 1..d : Profit(judged[k]) \in Int
  BY <1>1, ProfitIsInt DEF Result
<1>5. \A k \in 0..d : Net(SubSeq(judged, 1, k)) \in Int
  <2> SUFFICES ASSUME NEW k \in 0..d PROVE Net(SubSeq(judged, 1, k)) \in Int
    OBVIOUS
  <2>1. CASE k = 0
    BY <1>3, <2>1
  <2>2. CASE k # 0
    <3>1. k \in 1..d
      BY <1>1, <2>2
    <3> QED BY <1>2, <1>4, <3>1
  <2> QED BY <2>1, <2>2
<1>6. /\ \A k \in 0..d : NetAfter(judged, k) \in Int
      /\ NetAfter(judged, 0) = pnl
      /\ \A k \in 1..d : NetAfter(judged, k) - NetAfter(judged, k - 1) = Profit(judged[k])
  <2>1. \A k \in 0..d : NetAfter(judged, k) \in Int
    BY <1>5 DEF NetAfter
  <2>2. NetAfter(judged, 0) = pnl
    BY <1>3 DEF NetAfter
  <2>3. \A k \in 1..d : NetAfter(judged, k) - NetAfter(judged, k - 1) = Profit(judged[k])
    BY <1>2, <1>4 DEF NetAfter
  <2> QED BY <2>1, <2>2, <2>3
<1>7. d \in 0..d /\ NetAfter(judged, d) \in Int /\ \A k \in 1..d : NetAfter(judged, k) \in Int
  BY <1>1, <1>6
<1>8. p \in Seq(Row) /\ Len(p) = d
  <2>1. \A k \in 1..d : [status |-> "SETTLED", bet |-> judged[k], net |-> NetAfter(judged, k)] \in Row
    BY <1>1, <1>7 DEF Row
  <2> HIDE DEF d
  <2> QED BY <1>1, <2>1 DEF d
<1>9. q \in Seq(Row) /\ Len(q) = e
  <2>1. \A k \in 1..e : [status |-> "OPEN", bet |-> new[k], net |-> NetAfter(judged, d)] \in Row
    BY <1>1, <1>7 DEF Row
  <2> HIDE DEF e
  <2> QED BY <1>1, <2>1 DEF e
<1>10. NewRows(judged, new) = p \o q
  BY DEF NewRows
<1>11. \A k \in 1..d : p[k].net = NetAfter(judged, k) /\ Worth(p[k]) = Profit(judged[k])
  BY <1>1 DEF Worth
<1>12. \A k \in 1..e : q[k].net = NetAfter(judged, d) /\ Worth(q[k]) = 0
  BY <1>1 DEF Worth
<1> HIDE DEF p, q, d, e
<1>13. /\ p \o q \in Seq(Row) /\ Len(p \o q) = d + e
       /\ \A k \in 1..d : (p \o q)[k] = p[k]
       /\ \A k \in 1..e : (p \o q)[d + k] = q[k]
  <2>0. p \in Seq(Row) /\ q \in Seq(Row)
    BY <1>8, <1>9
  <2>1. PICK r : r = p \o q
    OBVIOUS
  <2>2. /\ r \in Seq(Row) /\ Len(r) = Len(p) + Len(q)
        /\ \A k \in 1..Len(p) : r[k] = p[k]
        /\ \A k \in 1..Len(q) : r[Len(p) + k] = q[k]
    BY <2>0, <2>1, Concat
  <2> QED BY <1>8, <1>9, <2>1, <2>2
<1>14. /\ NewRows(judged, new) \in Seq(Row) /\ Len(NewRows(judged, new)) = d + e
       /\ \A k \in 1..d : NewRows(judged, new)[k] = p[k]
       /\ \A k \in 1..e : NewRows(judged, new)[d + k] = q[k]
  BY <1>10, <1>13
<1>15. \A k \in 1..d : /\ NewRows(judged, new)[k].net = NetAfter(judged, k)
                       /\ Worth(NewRows(judged, new)[k]) = NetAfter(judged, k) - NetAfter(judged, k - 1)
  BY <1>6, <1>11, <1>14
<1>16. \A k \in 1..e : /\ NewRows(judged, new)[d + k].net = NetAfter(judged, d)
                       /\ Worth(NewRows(judged, new)[d + k]) = 0
  BY <1>12, <1>14
<1> QED BY <1>6, <1>14, <1>15, <1>16 DEF d, e

LEMMA ChainGrows ==
  ASSUME NEW all \in Seq(Row), pnl \in Int, Chain(all, pnl),
         NEW judged \in Seq(Result), NEW new \in Seq(Bet)
  PROVE  Chain(all \o NewRows(judged, new), NetAfter(judged, Len(judged)))
<1> DEFINE m == Len(all)
           d == Len(judged)
           e == Len(new)
           more == NewRows(judged, new)
           z == all \o more
           net(k) == NetAfter(judged, k)
<1>1. /\ more \in Seq(Row) /\ Len(more) = d + e
      /\ net(0) = pnl
      /\ \A k \in 1..d : more[k].net = net(k) /\ Worth(more[k]) = net(k) - net(k - 1)
      /\ \A k \in 1..e : more[d + k].net = net(d) /\ Worth(more[d + k]) = 0
      /\ \A k \in 0..d : net(k) \in Int
  BY NewRowsAre
<1>2. m \in Nat /\ d \in Nat /\ e \in Nat
  OBVIOUS
<1>3. /\ z \in Seq(Row) /\ Len(z) = m + (d + e) /\ DOMAIN z = 1..(m + (d + e))
      /\ \A k \in 1..m : z[k] = all[k]
      /\ \A k \in 1..(d + e) : z[m + k] = more[k]
  <2> HIDE DEF more, net, d, e
  <2>0. more \in Seq(Row) /\ z = all \o more
    BY <1>1 DEF z
  <2> HIDE DEF z
  <2>1. /\ z \in Seq(Row) /\ Len(z) = Len(all) + Len(more)
        /\ \A k \in 1..Len(all) : z[k] = all[k]
        /\ \A k \in 1..Len(more) : z[Len(all) + k] = more[k]
    BY <2>0, Concat
  <2>2. DOMAIN z = 1..Len(z)
    BY <2>1
  <2> QED BY <1>1, <2>1, <2>2
<1>4. /\ \A k \in 1..m : all[k].net = NetBefore(all, k) + Worth(all[k])
      /\ pnl = NetBefore(all, m + 1)
  BY DEF Chain
<1> HIDE DEF m, d, e, more, z, net
\* The net shown before the k-th new row.
<1>5. NetBefore(z, m + 1) = pnl
  <2>1. CASE m = 0
    BY <1>4, <2>1 DEF NetBefore
  <2>2. CASE m # 0
    <3>1. m \in 1..m /\ m + 1 # 1 /\ (m + 1) - 1 = m
      BY <1>2, <2>2
    <3> QED BY <1>3, <1>4, <3>1 DEF NetBefore
  <2> QED BY <2>1, <2>2
<1>6. ASSUME NEW k \in 1..(d + e) PROVE NetBefore(z, (m + k) + 1) = more[k].net
  <2>1. (m + k) + 1 # 1 /\ ((m + k) + 1) - 1 = m + k
    BY <1>2
  <2> QED BY <1>3, <2>1 DEF NetBefore
<1>7. ASSUME NEW k \in 1..m PROVE z[k].net = NetBefore(z, k) + Worth(z[k])
  <2>1. NetBefore(z, k) = NetBefore(all, k)
    <3>1. CASE k = 1
      BY <3>1 DEF NetBefore
    <3>2. CASE k # 1
      <4>1. k - 1 \in 1..m
        BY <1>2, <3>2
      <4> QED BY <1>3, <4>1, <3>2 DEF NetBefore
    <3> QED BY <3>1, <3>2
  <2> QED BY <1>3, <1>4, <2>1
<1>8. ASSUME NEW k \in 1..d PROVE z[m + k].net = NetBefore(z, m + k) + Worth(z[m + k])
  <2>1. NetBefore(z, m + k) = net(k - 1)
    <3>1. CASE k = 1
      BY <1>1, <1>5, <3>1
    <3>2. CASE k # 1
      <4> DEFINE j == k - 1
      <4>1. j \in 1..d /\ j \in 1..(d + e) /\ (m + j) + 1 = m + k
        BY <1>2, <3>2
      <4> HIDE DEF j
      <4>2. NetBefore(z, m + k) = more[j].net
        BY <1>6, <4>1
      <4> QED BY <1>1, <4>1, <4>2 DEF j
    <3> QED BY <3>1, <3>2
  <2>2. k \in 1..(d + e) /\ k \in 0..d /\ k - 1 \in 0..d
    BY <1>2
  <2>3. z[m + k] = more[k] /\ net(k) \in Int /\ net(k - 1) \in Int
    BY <1>1, <1>3, <2>2
  <2> QED BY <1>1, <2>1, <2>3
<1>9. ASSUME NEW k \in 1..e
      PROVE  z[m + (d + k)].net = NetBefore(z, m + (d + k)) + Worth(z[m + (d + k)])
  <2> DEFINE j == (d + k) - 1
  <2>1. NetBefore(z, m + (d + k)) = net(d)
    <3>1. CASE j = 0
      <4>1. m + (d + k) = m + 1 /\ d = 0
        BY <1>2, <3>1
      <4> QED BY <1>1, <1>5, <4>1
    <3>2. CASE j # 0
      <4>1. j \in 1..(d + e) /\ (m + j) + 1 = m + (d + k)
        BY <1>2, <3>2
      <4> HIDE DEF j
      <4>2. NetBefore(z, m + (d + k)) = more[j].net
        BY <1>6, <4>1
      <4>3. CASE k = 1
        <5>1. j = d /\ d \in 1..d
          BY <1>2, <4>3, <4>1 DEF j
        <5> QED BY <1>1, <4>2, <5>1
      <4>4. CASE k # 1
        <5>1. PICK i \in 1..e : j = d + i
          <6>1. k - 1 \in 1..e /\ j = d + (k - 1)
            BY <1>2, <4>4 DEF j
          <6> QED BY <6>1
        <5> QED BY <1>1, <4>2, <5>1
      <4> QED BY <4>3, <4>4
    <3> QED BY <3>1, <3>2
  <2>2. d + k \in 1..(d + e) /\ d \in 0..d
    BY <1>2
  <2>3. z[m + (d + k)] = more[d + k] /\ net(d) \in Int
    BY <1>1, <1>3, <2>2
  <2> QED BY <1>1, <2>1, <2>3
<1>10. ASSUME NEW k \in 1..(m + (d + e)) PROVE z[k].net = NetBefore(z, k) + Worth(z[k])
  <2>1. CASE k <= m
    BY <1>2, <1>7, <2>1
  <2>2. CASE k > m /\ k <= m + d
    <3>1. PICK i \in 1..d : k = m + i
      <4>1. k - m \in 1..d /\ k = m + (k - m)
        BY <1>2, <2>2
      <4> QED BY <4>1
    <3> QED BY <1>8, <3>1
  <2>3. CASE k > m + d
    <3>1. PICK i \in 1..e : k = m + (d + i)
      <4>1. (k - m) - d \in 1..e /\ k = m + (d + ((k - m) - d))
        BY <1>2, <2>3
      <4> QED BY <4>1
    <3> QED BY <1>9, <3>1
  <2> QED BY <1>2, <2>1, <2>2, <2>3
<1>11. NetBefore(z, (m + (d + e)) + 1) = net(d)
  <2>1. CASE d + e = 0
    <3>1. d = 0 /\ m + (d + e) = m
      BY <1>2, <2>1
    <3> QED BY <1>1, <1>5, <3>1
  <2>2. CASE d + e # 0 /\ e = 0
    <3>1. d \in 1..d /\ d \in 1..(d + e) /\ d + e = d
      BY <1>2, <2>2
    <3> QED BY <1>1, <1>6, <3>1
  <2>3. CASE e # 0
    <3>1. e \in 1..e /\ d + e \in 1..(d + e)
      BY <1>2, <2>3
    <3> QED BY <1>1, <1>6, <3>1
  <2> QED BY <1>2, <2>1, <2>2, <2>3
<1> QED BY <1>3, <1>10, <1>11 DEF Chain, z, more, net, d

LEMMA UpdateRows ==
  ASSUME IInv, Update
  PROVE  outbox' \in Seq(Row) /\ RowsChain'
<1>1. PICK done, still, judged, new :
           /\ Settles(done, still, judged, new)
           /\ pnl' = NetAfter(judged, Len(judged))
           /\ outbox' = NewRows(judged, new)
  BY UpdateSettles
<1>2. judged \in Seq(Result) /\ new \in Seq(Bet)
  BY <1>1 DEF Settles
<1>3. rows \in Seq(Row) /\ outbox = <<>> /\ pnl \in Int /\ rows' = rows /\ faults' = faults
  BY DEF Update, IInv, TypeOK, TurnOK
<1>4. rows \o outbox = rows
  BY <1>3
<1>5. outbox' \in Seq(Row)
  BY <1>1, <1>2, <1>3, NewRowsAre
<1>6. ASSUME faults = 0 PROVE Chain(rows \o outbox, pnl)'
  <2>1. Chain(rows, pnl)
    BY <1>4, <1>6 DEF IInv, RowsChain
  <2>2. Chain(rows \o NewRows(judged, new), NetAfter(judged, Len(judged)))
    BY <1>2, <1>3, <2>1, ChainGrows
  <2> QED BY <1>1, <1>3, <2>2 DEF Chain, NetBefore, Worth, Profit
<1> QED BY <1>3, <1>5, <1>6 DEF RowsChain

LEMMA UpdateStep ==
  ASSUME IInv, Update
  PROVE  IInv'
<1>1. /\ UNCHANGED <<now, beat, closed, ended, fails, sim, truth, faults, sample, rows>>
      /\ loop' = "drain"
  BY DEF Update, feedVars
<1>2. FeedOK' /\ TurnOK'
  BY <1>1 DEF IInv, FeedOK, TurnOK
<1>3. TypeOK'
  <2>1. Starts' = Starts
    BY DEF Starts, Ends
  <2> QED BY <1>1, <2>1, UpdateBets, UpdateMeter, UpdateRows DEF IInv, TypeOK, FeedTypeOK, Tables
<1> QED BY <1>2, <1>3, UpdateBets, UpdateMeter, UpdateRows DEF IInv

------------------------------------------------------------------------------
(* The other steps, and the invariant. *)

LEMMA HandedOver ==
  ASSUME NEW X, NEW p \in Seq(X), NEW q \in Seq(X), q # <<>>
  PROVE  /\ Append(p, Head(q)) \in Seq(X) /\ Tail(q) \in Seq(X)
         /\ Append(p, Head(q)) \o Tail(q) = p \o q
OBVIOUS

LEMMA FeedStepKeeps ==
  ASSUME IInv, FeedOK', now' = now,
         UNCHANGED <<sim, truth, faults, loop, sample, simVars, outbox, rows, meterVars>>
  PROVE  IInv'
<1>1. /\ UNCHANGED <<now, sim, truth, faults, loop, sample, bets, openWins, results, pnl, bands>>
      /\ UNCHANGED <<outbox, rows, samples, counted, overran>>
  BY DEF simVars, meterVars
<1>2. TypeOK'
  <2>1. FeedTypeOK'
    BY EndsAreTimes DEF FeedOK, FeedTypeOK
  <2> QED BY <1>1, <2>1 DEF IInv, TypeOK
<1>3. TurnOK' /\ BetsInOrder'
  BY <1>1 DEF IInv, TurnOK, BetsInOrder, WindowOf
<1>4. MeterOK'
  BY <1>1 DEF IInv, MeterOK
<1>5. BandsTotal' /\ RowsChain'
  BY ZenonT(60), <1>1 DEF IInv, BandsTotal, RowsChain, Chain, NetBefore, Worth, Profit
<1> QED BY <1>2, <1>3, <1>4, <1>5 DEF IInv

LEMMA TickStep ==
  ASSUME IInv, Tick
  PROVE  IInv'
<1>1. /\ now' = now + 1 /\ now \in Nat
      /\ UNCHANGED <<beat, closed, ended, fails, sim, truth, faults, loop, sample>>
      /\ UNCHANGED <<bets, openWins, results, pnl, bands, outbox, rows, samples, counted, overran>>
  BY DEF Tick, FeedTick, simVars, meterVars, IInv, FeedOK
<1>2. FeedOK'
  BY <1>1, EndsAreTimes DEF IInv, FeedOK
<1>3. TypeOK'
  BY <1>1 DEF IInv, TypeOK, FeedTypeOK
<1>4. /\ WindowOf(now) \in Nat /\ WindowOf(now)' \in Nat /\ WindowOf(now) <= WindowOf(now)'
  <2>1. PICK u \in Nat : u = now' /\ now <= u
    BY <1>1
  <2>2. WindowOf(now) \in Nat /\ WindowOf(u) \in Nat /\ WindowOf(now) <= WindowOf(u)
    BY <1>1, <2>1, Clock
  <2> QED BY <2>1, <2>2 DEF WindowOf
<1>5. TurnOK'
  <2>1. sample.win \in Nat
    BY DEF IInv, TypeOK
  <2> QED BY <1>1, <1>4, <2>1 DEF IInv, TurnOK
<1>6. BetsInOrder'
  <2>1. openWins \subseteq Nat /\ \A b \in Range(results) : b.win \in Nat
    BY DEF IInv, TypeOK, BetsInOrder
  <2>2. \A w \in openWins : w <= WindowOf(now)' /\ (loop = "sampled" => w <= sample.win)
    <3>1. PICK v \in Nat, u \in Nat : v = WindowOf(now) /\ u = WindowOf(now)' /\ v <= u
      BY <1>4
    <3>2. \A w \in openWins : w \in Nat /\ w <= v /\ (loop = "sampled" => w <= sample.win)
      BY <2>1, <3>1 DEF IInv, BetsInOrder
    <3>3. \A w \in openWins : w <= u
      BY <3>1, <3>2
    <3> QED BY <3>1, <3>2, <3>3
  <2>3. \A b \in Range(results) : b.win + WindowLen <= now + 1
    BY <1>1, <2>1, FeedAssumption DEF IInv, BetsInOrder
  <2> QED BY <1>1, <2>2, <2>3 DEF IInv, BetsInOrder
<1>7. MeterOK'
  <2>1. overran \subseteq Nat /\ Starts \subseteq Int /\ WindowLen \in Nat
    <3>1. \A e \in Ends : e \in Nat /\ e - WindowLen \in Int
      BY FeedAssumption, EndsAreTimes
    <3> QED BY <3>1, FeedAssumption DEF IInv, TypeOK, Starts
  <2>2. \A w \in overran : w + WindowLen <= now + 1 /\ (loop = "sampled" => w # sample.win)
    BY <1>1, <2>1 DEF IInv, MeterOK
  <2>3. \A w \in Starts : counted[w] > 0 => w + WindowLen <= now + 1
    BY <1>1, <2>1 DEF IInv, MeterOK
  <2>4. Starts' = Starts
    BY DEF Starts, Ends
  <2> QED BY <1>1, <2>2, <2>3, <2>4 DEF IInv, MeterOK
<1>8. BandsTotal' /\ RowsChain'
  BY <1>1 DEF IInv, BandsTotal, RowsChain, Chain, NetBefore, Worth, Profit
<1> QED BY <1>2, <1>3, <1>5, <1>6, <1>7, <1>8 DEF IInv

LEMMA SampleStep ==
  ASSUME IInv, Sample
  PROVE  IInv'
<1>1. /\ UNCHANGED <<now, beat, closed, ended, fails, sim, truth, faults>>
      /\ UNCHANGED <<bets, openWins, results, pnl, bands, outbox, rows, samples, counted, overran>>
      /\ loop = "idle" /\ loop' = "sampled"
  BY DEF Sample, feedVars, simVars, meterVars
<1>2. /\ now \in Nat /\ WindowOf(now) \in Nat /\ now < WindowOf(now) + WindowLen
      /\ sample' = [win |-> WindowOf(now), at |-> now]
  BY Clock DEF Sample, IInv, FeedOK
<1>3. FeedOK' /\ TurnOK' /\ BandsTotal'
  BY <1>1, <1>2 DEF IInv, FeedOK, TurnOK, BandsTotal, WindowOf
<1>4. RowsChain'
  BY <1>1 DEF IInv, RowsChain, Chain, NetBefore, Worth, Profit
<1>5. TypeOK'
  BY <1>1, <1>2 DEF IInv, TypeOK, FeedTypeOK
<1>6. BetsInOrder'
  BY <1>1, <1>2 DEF IInv, BetsInOrder, WindowOf
<1>7. MeterOK'
  <2>1. \A w \in overran : w # WindowOf(now)
    BY <1>2, FeedAssumption DEF IInv, MeterOK
  <2> QED BY <1>1, <1>2, <2>1 DEF IInv, MeterOK
<1> QED BY <1>3, <1>4, <1>5, <1>6, <1>7 DEF IInv

\* What is not a turn's beginning and touches neither bets nor samples.
LEMMA QuietKeeps ==
  ASSUME IInv, UNCHANGED <<feedVars, sim, truth, simVars, meterVars>>,
         \/ loop' = loop /\ sample' = sample /\ loop = "drain"
         \/ loop' = "idle" /\ sample' = NoTurn /\ outbox' = <<>>
  PROVE  FeedOK' /\ BetsInOrder' /\ MeterOK' /\ BandsTotal' /\ TurnOK'
<1>1. UNCHANGED <<now, beat, closed, ended, fails, sim, truth, bets, openWins, results, pnl, bands,
                  samples, counted, overran>>
  BY DEF feedVars, simVars, meterVars
<1>2. loop' # "sampled"
  OBVIOUS
<1>3. FeedOK' /\ BandsTotal' /\ TurnOK'
  BY <1>1, <1>2 DEF IInv, FeedOK, BandsTotal, TurnOK
<1>4. BetsInOrder'
  BY <1>1, <1>2 DEF IInv, BetsInOrder, WindowOf
<1>5. MeterOK'
  BY <1>1, <1>2 DEF IInv, MeterOK
<1> QED BY <1>3, <1>4, <1>5

LEMMA PublishStep ==
  ASSUME IInv, PublishRow
  PROVE  IInv'
<1>1. FeedOK' /\ BetsInOrder' /\ MeterOK' /\ BandsTotal' /\ TurnOK'
  BY QuietKeeps DEF PublishRow
<1>2. /\ UNCHANGED <<now, beat, closed, ended, fails, sim, truth, faults, loop, sample>>
      /\ UNCHANGED <<bets, openWins, results, pnl, bands, samples, counted, overran>>
      /\ rows' = Append(rows, Head(outbox)) /\ outbox' = Tail(outbox)
  BY DEF PublishRow, feedVars, simVars, meterVars
<1>3. rows \in Seq(Row) /\ outbox \in Seq(Row) /\ outbox # <<>>
  BY DEF PublishRow, IInv, TypeOK
<1>4. rows' \in Seq(Row) /\ outbox' \in Seq(Row) /\ rows' \o outbox' = rows \o outbox
  BY <1>2, <1>3, HandedOver
<1>5. TypeOK'
  BY <1>2, <1>4 DEF IInv, TypeOK, FeedTypeOK
<1>6. RowsChain'
  <2>1. PICK all : all = rows \o outbox /\ all = rows' \o outbox'
    BY <1>4
  <2>2. faults = 0 => Chain(all, pnl)
    BY <2>1 DEF IInv, RowsChain
  <2> QED BY <1>2, <2>1, <2>2 DEF RowsChain
<1> QED BY <1>1, <1>5, <1>6 DEF IInv

LEMMA RowFailsStep ==
  ASSUME IInv, RowFails
  PROVE  IInv'
<1>1. FeedOK' /\ BetsInOrder' /\ MeterOK' /\ BandsTotal' /\ TurnOK'
  BY QuietKeeps DEF RowFails
<1>2. /\ UNCHANGED <<now, beat, closed, ended, fails, sim, truth, loop, sample, rows>>
      /\ UNCHANGED <<bets, openWins, results, pnl, bands, samples, counted, overran>>
      /\ faults' = faults + 1 /\ faults \in Nat /\ outbox' = Tail(outbox)
  BY DEF RowFails, feedVars, simVars, meterVars, IInv, TypeOK
<1>3. outbox \in Seq(Row) /\ outbox # <<>>
  BY DEF RowFails, IInv, TypeOK
<1>4. outbox' \in Seq(Row)
  BY <1>2, <1>3
<1>5. TypeOK'
  BY <1>2, <1>4 DEF IInv, TypeOK, FeedTypeOK
<1>6. RowsChain'
  BY <1>2 DEF RowsChain
<1> QED BY <1>1, <1>5, <1>6 DEF IInv

LEMMA TurnDoneStep ==
  ASSUME IInv, TurnDone
  PROVE  IInv'
<1>1. FeedOK' /\ BetsInOrder' /\ MeterOK' /\ BandsTotal' /\ TurnOK'
  BY QuietKeeps DEF TurnDone
<1>2. /\ UNCHANGED <<now, beat, closed, ended, fails, sim, truth, faults, outbox, rows>>
      /\ UNCHANGED <<bets, openWins, results, pnl, bands, samples, counted, overran>>
      /\ loop' = "idle" /\ sample' = NoTurn
  BY DEF TurnDone, feedVars, simVars, meterVars
<1>3. TypeOK'
  BY <1>2 DEF IInv, TypeOK, FeedTypeOK, NoTurn
<1>4. RowsChain'
  BY <1>2 DEF IInv, RowsChain, Chain, NetBefore, Worth, Profit
<1> QED BY <1>1, <1>3, <1>4 DEF IInv

\* Nothing bet, sampled or added yet.
Fresh ==
  /\ FeedOK /\ sim \in Sims /\ truth \in [Starts -> Dir] /\ faults \in Nat
  /\ loop = "idle" /\ sample = NoTurn /\ bets = <<>> /\ openWins = {} /\ results = <<>>
  /\ pnl = 0 /\ bands = NoBands /\ samples = {} /\ counted = NoCounts /\ overran = {}
  /\ outbox = <<>> /\ rows = <<>>

LEMMA FreshIsOK == Fresh => IInv
<1> SUFFICES ASSUME Fresh PROVE IInv
  OBVIOUS
<1> USE DEF Fresh
<1>1. TypeOK
  <2>1. FeedTypeOK
    BY EndsAreTimes DEF FeedOK, FeedTypeOK
  <2>2. NoBands \in [Bands -> [n : Nat, net : Int]]
    BY DEF NoBands
  <2>3. NoCounts \in [Starts -> Nat] /\ NoTurn \in [win : Nat, at : Nat]
    BY DEF NoCounts, NoTurn
  <2>4. bets \in Seq(Bet) /\ results \in Seq(Result) /\ outbox \in Seq(Row) /\ rows \in Seq(Row)
    OBVIOUS
  <2> QED BY <2>1, <2>2, <2>3, <2>4 DEF TypeOK
<1>2. TurnOK
  BY DEF TurnOK
<1>3. BetsInOrder
  BY DEF BetsInOrder, Range
<1>4. MeterOK
  BY DEF MeterOK, NoCounts
<1>5. BandsTotal
  <2>1. /\ Number(bands) = [l \in Bands |-> 0] /\ Nets(bands) = [l \in Bands |-> 0]
    BY DEF Number, Nets, NoBands
  <2>2. Total([l \in Bands |-> 0], Bands) = 0
    BY BandsAreFinite, TotalZero
  <2>3. Len(results) = 0
    OBVIOUS
  <2> QED BY <2>1, <2>2, <2>3 DEF BandsTotal
<1>6. RowsChain
  <2>1. rows \o outbox = <<>>
    OBVIOUS
  <2>2. Chain(<<>>, 0)
    BY DEF Chain, NetBefore
  <2> QED BY <2>1, <2>2 DEF RowsChain
<1> QED BY <1>1, <1>2, <1>3, <1>4, <1>5, <1>6 DEF IInv

LEMMA InvariantInit == Init => IInv
<1>1. Init => Fresh
  BY FeedAssumption DEF Init, FeedInit, Fresh, FeedOK
<1> QED BY <1>1, FreshIsOK

LEMMA InvariantStep == IInv /\ [Next]_vars => IInv'
<1>1. ASSUME IInv, Tick PROVE IInv'
  BY <1>1, TickStep
<1>2. ASSUME IInv, FeedStep PROVE IInv'
  BY <1>2, FeedMoves, FeedStepKeeps DEF FeedStep, IInv
<1>3. ASSUME IInv, Sample PROVE IInv'
  BY <1>3, SampleStep
<1>4. ASSUME IInv, Update PROVE IInv'
  BY <1>4, UpdateStep
<1>5. ASSUME IInv, PublishRow PROVE IInv'
  BY <1>5, PublishStep
<1>6. ASSUME IInv, RowFails PROVE IInv'
  BY <1>6, RowFailsStep
<1>7. ASSUME IInv, TurnDone PROVE IInv'
  BY <1>7, TurnDoneStep
<1>8. ASSUME IInv, Restart PROVE IInv'
  <2>1. Fresh'
    <3>1. now \in Nat /\ fails \in Nat
      BY <1>8 DEF IInv, FeedOK
    <3> QED BY <1>8, <3>1 DEF Restart, Fresh, FeedOK, IInv, TypeOK
  <2>2. Fresh' => IInv'
    BY FreshIsOK, PTL
  <2> QED BY <2>1, <2>2
<1>9. ASSUME IInv, UNCHANGED vars PROVE IInv'
  <2>1. FeedOK' /\ now' = now
    BY <1>9 DEF IInv, FeedOK, vars, feedVars
  <2> QED BY <1>9, <2>1, FeedStepKeeps DEF vars
<1> QED BY <1>1, <1>2, <1>3, <1>4, <1>5, <1>6, <1>7, <1>8, <1>9 DEF Next

\* The invariant itself: windows bet on are not in the future, a window waits or was counted
\* as often as turns overran it allow, and the accounts chain up.
THEOREM Invariant == Spec => []IInv
BY InvariantInit, InvariantStep, PTL DEF Spec

\* Every variable keeps its type: a bet and its row have all their fields, whatever fails.
THEOREM TypeCorrect == Spec => []TypeOK
<1>1. IInv => TypeOK
  BY DEF IInv
<1> QED BY <1>1, Invariant, PTL

\* Neither a bet nor a sample is judged early, although a turn looks for results of the
\* window it believes to be in (_settle_pending, _settle).
THEOREM JudgedLate == Spec => []JudgedAfterItsWindow
<1>1. IInv => JudgedAfterItsWindow
  BY DEF IInv, BetsInOrder, MeterOK, JudgedAfterItsWindow
<1> QED BY <1>1, Invariant, PTL

\* A meter counts a window once, or twice when a turn overran it (SignalMeter.update).
THEOREM Counted == Spec => []RecountedOnlyOverrun
<1>1. IInv => RecountedOnlyOverrun
  <2> SUFFICES ASSUME IInv, NEW w \in Starts
               PROVE  counted[w] <= IF w \in overran THEN 2 ELSE 1
    BY DEF RecountedOnlyOverrun
  <2>1. counted[w] \in Nat
    BY DEF IInv, TypeOK
  <2>2. counted[w] + (IF w \in samples THEN 1 ELSE 0) <= 1 + (IF w \in overran THEN 1 ELSE 0)
    BY DEF IInv, MeterOK
  <2> QED BY <2>1, <2>2
<1> QED BY <1>1, Invariant, PTL

------------------------------------------------------------------------------
(* The accounts agree. *)

Worths(list) == [i \in DOMAIN list |-> Worth(list[i])]

LEMMA NetOfRowsIsTotal ==
  ASSUME NEW list \in Seq(Row)
  PROVE  NetOfRows(list) = Total(Worths(list), 1..Len(list))
<1> DEFINE n == Len(list)
           h == Worths(list)
           R(it) == it = [s \in SUBSET DOMAIN list |->
                           IF s = {} THEN 0
                           ELSE it[s \ {Max(s)}]
                                  + (IF list[Max(s)].status = "SETTLED"
                                     THEN Profit(list[Max(s)].bet) ELSE 0)]
<1>1. n \in Nat /\ DOMAIN list = 1..n /\ \A i \in 1..n : list[i] \in Row
  OBVIOUS
<1>2. \A i \in 1..n : h[i] = Worth(list[i]) /\ h[i] \in Int
  BY <1>1, WorthIsInt DEF Worths
<1>3. \A s \in SUBSET (1..n) : s # {} => Max(s) \in 1..n
  BY <1>1, LastChooses DEF Chooses, Last1
<1> HIDE DEF h
<1>4. ASSUME NEW it PROVE IsLeftSum(it, n, h) <=> R(it)
  BY <1>1, <1>2, <1>3 DEF IsLeftSum, Worth
<1>5. NetOfRows(list) = (CHOOSE it : R(it))[DOMAIN list]
  BY DEF NetOfRows, FoldLeft, MapThenFoldSet
<1>6. (\E it : IsLeftSum(it, n, h)) /\ \A it : IsLeftSum(it, n, h) => it[1..n] = Total(h, 1..n)
  BY <1>1, <1>2, LeftSum
<1> HIDE DEF R, n
<1>7. R(CHOOSE it : R(it))
  BY <1>4, <1>6
<1> QED BY <1>1, <1>4, <1>5, <1>6, <1>7 DEF h, n

\* In a chain every row shows the sum of the worths up to it.
LEMMA ChainAddsUp ==
  ASSUME NEW all \in Seq(Row), NEW last, Chain(all, last), NEW n \in 1..Len(all)
  PROVE  all[n].net = NetOfRows(SubSeq(all, 1, n))
<1> DEFINE m == Len(all)
           h == Worths(all)
           N == {i \in 0..m : NetBefore(all, i + 1) = Total(h, 1..i)}
<1>1. /\ m \in Nat /\ DOMAIN all = 1..m
      /\ \A i \in 1..m : all[i] \in Row /\ h[i] = Worth(all[i]) /\ h[i] \in Int
  BY WorthIsInt DEF Worths
<1>2. \A i \in 1..m : all[i].net = NetBefore(all, i) + Worth(all[i])
  BY <1>1 DEF Chain
<1> HIDE DEF h, m
<1>3. 0 \in N
  <2>1. 1..0 = {} /\ 0 + 1 = 1
    OBVIOUS
  <2> QED BY <1>1, <2>1, TotalEmpty DEF NetBefore
<1>4. ASSUME NEW i \in 0..(m - 1), i \in N PROVE i + 1 \in N
  <2>1. /\ i \in Nat /\ i + 1 \in 1..m /\ i + 1 \in 0..m
        /\ (i + 1) + 1 # 1 /\ ((i + 1) + 1) - 1 = i + 1
    BY <1>1
  <2>2. Total(h, 1..(i + 1)) = Total(h, 1..i) + h[i + 1]
    <3>1. \A j \in 1..(i + 1) : h[j] \in Int
      BY <1>1, <2>1
    <3> QED BY <2>1, <3>1, TotalBy
  <2>3. NetBefore(all, (i + 1) + 1) = all[i + 1].net
    BY <2>1 DEF NetBefore
  <2>4. all[i + 1].net = NetBefore(all, i + 1) + h[i + 1]
    BY <1>1, <1>2, <2>1
  <2> QED BY <1>4, <2>1, <2>2, <2>3, <2>4
<1>5. n \in N
  <2> HIDE DEF N
  <2>1. 0..m \subseteq N
    BY <1>1, <1>3, <1>4, UpTo
  <2> QED BY <1>1, <2>1 DEF m
<1>6. all[n].net = Total(h, 1..n)
  <2>1. n \in Nat /\ n + 1 # 1 /\ (n + 1) - 1 = n
    OBVIOUS
  <2>2. NetBefore(all, n + 1) = all[n].net
    BY <2>1 DEF NetBefore
  <2> QED BY <1>5, <2>2
<1>7. NetOfRows(SubSeq(all, 1, n)) = Total(h, 1..n)
  <2> DEFINE p == SubSeq(all, 1, n)
  <2>1. p \in Seq(Row) /\ Len(p) = n /\ DOMAIN p = 1..n /\ \A i \in 1..n : p[i] = all[i] /\ i \in 1..m
    BY DEF m
  <2> HIDE DEF p
  <2>2. \A i \in 1..n : Worths(p)[i] = h[i] /\ Worths(p)[i] \in Int
    BY <1>1, <2>1 DEF Worths
  <2>3. Total(Worths(p), 1..n) = Total(h, 1..n)
    <3>1. IsFiniteSet(1..n)
      BY FS_Interval
    <3> QED BY <2>2, <3>1, TotalSame
  <2> QED BY <2>1, <2>3, NetOfRowsIsTotal DEF p
<1> QED BY <1>6, <1>7

\* The simulator's account, its bands' and its rows' agree, for any prices, stake and number
\* of bets settled in a turn, while no XADD failed (_settle_pending, _add_band, update).
THEOREM AccountsAgree == Spec => []NetsAddUp
<1>1. IInv => BandsAddUp
  <2> SUFFICES ASSUME IInv PROVE BandsAddUp
    OBVIOUS
  <2>1. bands \in Tables /\ BandsTotal
    BY DEF IInv, TypeOK, Tables
  <2> QED BY <2>1, BandSums DEF BandsTotal, BandsAddUp
<1>2. IInv => RowsAddUp
  <2> SUFFICES ASSUME IInv, faults = 0, NEW k \in DOMAIN rows
               PROVE  rows[k].net = NetOfRows(SubSeq(rows, 1, k))
    BY DEF RowsAddUp
  <2>1. rows \in Seq(Row) /\ outbox \in Seq(Row)
    BY DEF IInv, TypeOK
  <2>2. PICK all : all = rows \o outbox
    OBVIOUS
  <2>3. /\ all \in Seq(Row) /\ Len(all) = Len(rows) + Len(outbox)
        /\ \A i \in 1..Len(rows) : all[i] = rows[i]
    BY <2>1, <2>2, Concat
  <2>4. k \in 1..Len(rows) /\ k \in 1..Len(all) /\ Len(rows) \in Nat
    BY <2>1, <2>3
  <2>5. Chain(all, pnl)
    BY <2>2 DEF IInv, RowsChain
  <2>6. all[k].net = NetOfRows(SubSeq(all, 1, k))
    BY <2>3, <2>4, <2>5, ChainAddsUp
  <2>7. SubSeq(all, 1, k) = SubSeq(rows, 1, k)
    BY <2>1, <2>3, <2>4
  <2> QED BY <2>3, <2>4, <2>6, <2>7
<1>3. IInv => NetsAddUp
  BY <1>1, <1>2 DEF NetsAddUp
<1> QED BY <1>3, Invariant, PTL

------------------------------------------------------------------------------
(* Refinement of the abstract ledger. *)

Brief(b) == [win |-> b.win, outcome |-> b.outcome]
OpenBets(q) == {b.win : b \in Range(q)}
Verdicts(q) == {Brief(b) : b \in Range(q)}

LEMMA UpdateTurns ==
  ASSUME IInv, Update
  PROVE  Ledger!Turn(OpenBets(bets) \ OpenBets(bets'), OpenBets(bets') \ OpenBets(bets))
<1>1. PICK done, still, judged, new :
           /\ Settles(done, still, judged, new)
           /\ bets' = still \o new
           /\ results' = results \o judged
  BY UpdateSettles
<1>2. /\ loop = "sampled" /\ truth' = truth
      /\ bets \in Seq(Bet) /\ results \in Seq(Result) /\ openWins \subseteq Nat
      /\ sample.win \in Nat
  BY DEF Update, IInv, TypeOK
<1>3. /\ Range(bets') = Range(still) \cup Range(new)
      /\ Range(results') = Range(results) \cup Range(judged)
  <2>1. /\ still \in Seq(Bet) /\ new \in Seq(Bet) /\ judged \in Seq(Result)
    BY <1>1 DEF Settles
  <2>2. Range(bets') = Range(still) \cup Range(new)
    BY <1>1, <2>1, ConcatRange
  <2>3. Range(results') = Range(results) \cup Range(judged)
    BY <1>1, <1>2, <2>1, ConcatRange
  <2> QED BY <2>2, <2>3
<1>4. PICK old, nxt, D, N :
        /\ old = OpenBets(bets) /\ nxt = OpenBets(bets')
        /\ D = OpenBets(done) /\ N = OpenBets(new)
  OBVIOUS
<1>5. /\ \A w \in N : w = sample.win /\ sample.win \notin openWins
      /\ old \subseteq openWins
  <2>1. \A b \in Range(new) : b.win = sample.win /\ sample.win \notin openWins
    BY <1>1, EntryIsNew DEF Settles
  <2> QED BY <1>4, <2>1 DEF OpenBets, IInv, BetsInOrder
<1>6. nxt = (old \ D) \cup N /\ D \subseteq old /\ D \cap N = {}
  <2>1. D = {w \in old : ResultIn(w)}
    BY <1>1, <1>4 DEF Settles, OpenBets
  <2>2. OpenBets(still) = {w \in old : ~ResultIn(w)}
    BY <1>1, <1>4 DEF Settles, OpenBets
  <2>3. nxt = OpenBets(still) \cup N
    BY <1>3, <1>4 DEF OpenBets
  <2> QED BY <1>5, <2>1, <2>2, <2>3
<1>7. old \ nxt = D /\ nxt \ old = N
  BY <1>5, <1>6
<1>8. Verdicts(results') = Verdicts(results) \cup {Ledger!Verdict(w) : w \in D}
  <2>1. Range(judged) = {Judged(b) : b \in Range(done)}
    BY <1>1 DEF Settles
  <2>2. \A b \in Range(done) : Brief(Judged(b)) = Ledger!Verdict(b.win)
    BY DEF Brief, Judged, Ledger!Verdict
  <2>3. Verdicts(judged) = {Ledger!Verdict(w) : w \in D}
    BY <1>4, <2>1, <2>2 DEF Verdicts, OpenBets
  <2> QED BY <1>3, <2>3 DEF Verdicts
<1>9. ASSUME NEW w \in N PROVE Ledger!Newer(w) /\ N = {w}
  <2>1. w = sample.win /\ N = {w} /\ sample.win \notin openWins
    BY <1>5
  <2>2. \A v \in openWins : v < w
    BY <1>2, <2>1 DEF IInv, BetsInOrder
  <2>3. \A v \in old : v < w
    BY <1>5, <2>2
  <2>4. \A b \in Range(results) : b.win < w
    BY <2>2 DEF IInv, BetsInOrder
  <2> QED BY <1>4, <2>1, <2>3, <2>4 DEF Ledger!Newer, OpenBets
<1>10. nxt = (old \ (old \ nxt)) \cup (nxt \ old)
  OBVIOUS
<1> QED BY <1>2, <1>4, <1>6, <1>7, <1>8, <1>9 DEF Ledger!Turn, OpenBets, Verdicts, Brief

LEMMA LedgerStep ==
  ASSUME IInv, [Next]_vars
  PROVE  [Ledger!Next]_(Ledger!ledgerVars)
<1>1. CASE Update
  BY <1>1, UpdateTurns DEF Ledger!Next, OpenBets
<1>2. CASE Restart
  <2>1. bets' = <<>> /\ results' = <<>> /\ truth' = truth
    BY <1>2 DEF Restart
  <2> QED BY <2>1 DEF Ledger!Next, Ledger!Forget, Range
<1>3. CASE UNCHANGED <<truth, bets, results>>
  BY <1>3 DEF Ledger!ledgerVars
<1>4. \/ Update \/ Restart \/ UNCHANGED <<truth, bets, results>>
  BY DEF Next, Tick, FeedStep, Sample, PublishRow, RowFails, TurnDone, vars, simVars
<1> QED BY <1>1, <1>2, <1>3, <1>4

\* The simulators keep the paper trade's promise by other means: an update settles what is
\* due by its own outcome and takes at most one newer bet, a restart forgets.
THEOREM Refinement == Spec => ImplementsPaperLedger
<1>1. Init => Ledger!Init
  BY DEF Init, Ledger!Init, Range
<1>2. IInv /\ [Next]_vars => [Ledger!Next]_(Ledger!ledgerVars)
  BY LedgerStep
<1> QED BY <1>1, <1>2, Invariant, PTL DEF Spec, ImplementsPaperLedger, Ledger!Spec

==============================================================================
