-------------------------- MODULE OrderBookProofs ----------------------------
(***************************************************************************)
(* Every record an adapter publishes shows the exchange's book of one      *)
(* moment, a delta adapter's book is the exchange's at the last change it  *)
(* read, and a record is never crossed, for all books, levels, reconnects  *)
(* and numbers of messages.                                                *)
(*                                                                         *)
(* None is inductive: what a message does to the book depends on the book  *)
(* it was made for.  The invariant says that the messages on the wire form *)
(* a chain from the version the adapter heard last to the current one      *)
(* (Chain), each of them true to the books of its version (MessageOK);     *)
(* that a new connection begins with a snapshot, before any change         *)
(* (NotYet); and that every struct of the pool holds one book, with its    *)
(* version, or nothing (Past).                                             *)
(*                                                                         *)
(* A second invariant (Sane) carries that no book of the exchange is       *)
(* crossed, and that a record was made of a book with two sides; that a    *)
(* record's bands are ordered then follows from sums over larger sets      *)
(* being larger.                                                           *)
(***************************************************************************)
EXTENDS OrderBook, CommonLemmas, SequenceTheorems

Reading == [levels : Book, ver : Nat]
LevelFun == UNION {[ls -> 0..MaxSize] : ls \in SUBSET Level}
Message == [kind : {"snapshot", "delta", "other"}, levels : LevelFun, ver : Nat]

\* What message m tells of the books p, to an adapter of kind a.
MessageOK(a, p, m) ==
  /\ m.ver \in 1..Len(p)
  /\ m.kind = "snapshot" => Apply(Empty, m.levels) = Told(a, p[m.ver])
  /\ m.kind = "delta" =>
       /\ a = "delta" /\ m.ver > 1
       /\ Apply(p[m.ver - 1], m.levels) = p[m.ver]

\* m may follow a message of version v.
Continues(m, v) ==
  /\ m.kind = "delta" => m.ver = v + 1
  /\ m.kind = "other" => m.ver = v

\* No message with levels was read on this connection: the next one is a snapshot, maybe
\* after one message without levels.
NotYet(w) ==
  \/ w # <<>> /\ w[1].kind = "snapshot"
  \/ Len(w) >= 2 /\ w[1].kind = "other" /\ w[2].kind = "snapshot"

\* The messages w lead from version h to the last of the books p.
Chain(a, p, w, h) ==
  /\ \A i \in 1..Len(w) : MessageOK(a, p, w[i])
  /\ \A i \in 2..Len(w) : Continues(w[i], w[i - 1].ver)
  /\ h = 0 => NotYet(w)
  /\ h # 0 /\ w # <<>> => Continues(w[1], h)
  /\ w = <<>> => h = Len(p)
  /\ w # <<>> => w[Len(w)].ver = Len(p)

\* What an adapter of kind a holds that heard version h of the books p.
Holds(a, p, h, b) == h # 0 /\ a = "delta" => b = p[h]

\* What was read, x, is one of the books p, as told and with its version, or nothing.
Past(a, p, x) ==
  /\ x \in Reading
  /\ x.levels # Empty => x.ver \in 1..Len(p) /\ x.levels = Told(a, p[x.ver])

\* A record is one of the books p, as told.
Shows(a, p, r) == r # NoRecord => r.ver \in 1..Len(p) /\ r = Record(Told(a, p[r.ver]), r.ver)

IInv ==
  /\ adapter \in Adapters
  /\ past \in Seq(Book) /\ past # <<>>
  /\ wire \in Seq(Message)
  /\ up \in BOOLEAN /\ book \in Book
  /\ heard \in 0..Len(past) /\ (heard # 0 => up)
  /\ up => Chain(adapter, past, wire, heard)
  /\ Holds(adapter, past, heard, book)
  /\ \A x \in pool : Past(adapter, past, x)
  /\ \A r \in late \cup {shown} : Shows(adapter, past, r)

------------------------------------------------------------------------------
(* Books. *)

\* Levels applied to a book give a book.
LEMMA ApplyBook ==
  ASSUME NEW b \in Book, NEW lv \in LevelFun
  PROVE  Apply(b, lv) \in Book
BY DEF Apply, Book, LevelFun

\* The empty book is one, and has no prices.
LEMMA EmptyBook ==
  /\ Empty \in Book
  /\ ~TwoSided(Empty)
<1>1. Empty \in Book
  BY OrderBookAssumption DEF Empty, Book
<1>2. \A p \in Price : <<"bid", p>> \in Level
  BY DEF Level, Side
<1>3. Prices(Empty, "bid") = {}
  BY <1>2 DEF Prices, Empty
<1> QED
  BY <1>1, <1>3 DEF TwoSided, Side

\* What is told of a book is a book.
LEMMA ToldBook ==
  ASSUME NEW b \in Book, NEW a
  PROVE  Told(a, b) \in Book
BY OrderBookAssumption DEF Told, Book

\* The levels of a snapshot make up the book it was taken of.
LEMMA SnapshotTells ==
  ASSUME NEW b \in Book
  PROVE  /\ Levels(b) \in LevelFun
         /\ Apply(Empty, Levels(b)) = b
<1> DEFINE dom == {k \in Level : b[k] > 0}
<1>1. /\ Levels(b) = [l \in dom |-> b[l]]
      /\ dom \in SUBSET Level
  BY DEF Levels
<1>2. Levels(b) \in [dom -> 0..MaxSize]
  BY <1>1 DEF Book
<1>3. Levels(b) \in LevelFun
  BY <1>1, <1>2 DEF LevelFun
<1>4. ASSUME NEW l \in Level
      PROVE  Apply(Empty, Levels(b))[l] = b[l]
  <2>1. Apply(Empty, Levels(b))[l] = IF l \in dom THEN b[l] ELSE 0
    BY <1>1, <1>4 DEF Apply, Empty
  <2>2. b[l] \in Nat
    BY <1>4, OrderBookAssumption DEF Book
  <2> QED
    BY <2>1, <2>2
<1>5. Apply(Empty, Levels(b)) \in Book
  BY <1>3, ApplyBook, EmptyBook
<1> QED
  BY <1>3, <1>4, <1>5 DEF Book

\* A change applied to the book it was made for gives the new one.
LEMMA ChangeTells ==
  ASSUME NEW old \in Book, NEW lv \in Changes
  PROVE  /\ lv \in LevelFun
         /\ Changed(old, lv) \in Book
         /\ Apply(old, lv) = Changed(old, lv)
<1>1. lv \in LevelFun
  BY DEF Changes, LevelFun
<1>2. Apply(old, lv) = Changed(old, lv)
  BY DEF Apply, Changed
<1> QED
  BY <1>1, <1>2, ApplyBook

\* A record carries its version.
LEMMA RecordVer ==
  ASSUME NEW b, NEW v
  PROVE  Record(b, v).ver = v
BY DEF Record

------------------------------------------------------------------------------
(* Chains. *)

\* A chain goes on when the books do and the message about it is sent.
LEMMA ChainAppend ==
  ASSUME NEW a, NEW p \in Seq(Book), NEW q \in Seq(Book), NEW w \in Seq(Message),
         NEW h \in 0..Len(p), NEW m \in Message,
         p # <<>>, Len(p) <= Len(q), \A v \in 1..Len(p) : q[v] = p[v],
         Chain(a, p, w, h),
         MessageOK(a, q, m), Continues(m, Len(p)), m.ver = Len(q)
  PROVE  Chain(a, q, Append(w, m), h)
<1> DEFINE x == Append(w, m)
<1>1. /\ x \in Seq(Message) /\ Len(x) = Len(w) + 1 /\ x # <<>>
      /\ \A i \in 1..Len(w) : x[i] = w[i]
      /\ x[Len(w) + 1] = m
  BY AppendProperties
<1>2. Len(w) \in Nat /\ Len(p) \in Nat \ {0} /\ Len(q) \in Nat
  BY EmptySeq, LenProperties
<1>3. ASSUME NEW i \in 1..Len(x)
      PROVE  MessageOK(a, q, x[i])
  <2>1. CASE i = Len(w) + 1
    BY <2>1, <1>1
  <2>2. CASE i \in 1..Len(w)
    <3>1. MessageOK(a, p, w[i]) /\ w[i] \in Message /\ x[i] = w[i]
      BY <2>2, <1>1, ElementOfSeq DEF Chain
    <3>2. PICK k : k = w[i]
      OBVIOUS
    <3>3. k.ver \in 1..Len(p) /\ (k.kind = "delta" => k.ver > 1)
      BY <3>1, <3>2 DEF MessageOK
    <3>4. k.ver \in 1..Len(q) /\ q[k.ver] = p[k.ver]
      BY <3>3, <1>2
    <3>5. k.kind = "delta" => k.ver - 1 \in 1..Len(p) /\ q[k.ver - 1] = p[k.ver - 1]
      BY <3>3, <1>2
    <3>6. MessageOK(a, q, k)
      BY <3>1, <3>2, <3>4, <3>5 DEF MessageOK
    <3> QED
      BY <3>1, <3>2, <3>6
  <2> QED
    BY <2>1, <2>2, <1>1, <1>2
<1>4. ASSUME NEW i \in 2..Len(x)
      PROVE  Continues(x[i], x[i - 1].ver)
  <2>1. CASE i = Len(w) + 1
    <3>1. w # <<>> /\ x[i - 1] = w[Len(w)]
      BY <2>1, <1>1, <1>2
    <3> QED
      BY <3>1, <2>1, <1>1 DEF Chain
  <2>2. CASE i \in 2..Len(w)
    BY <2>2, <1>1, <1>2 DEF Chain
  <2> QED
    BY <2>1, <2>2, <1>1, <1>2
<1>5. h = 0 => NotYet(x)
  BY <1>1, <1>2 DEF Chain, NotYet
<1>6. h # 0 => Continues(x[1], h)
  <2>1. CASE w = <<>>
    BY <2>1, <1>1, <1>2 DEF Chain
  <2>2. CASE w # <<>>
    BY <2>2, <1>1, <1>2, EmptySeq DEF Chain
  <2> QED
    BY <2>1, <2>2
<1> QED
  BY <1>1, <1>3, <1>4, <1>5, <1>6 DEF Chain

\* A chain without its first message is a chain from there.
LEMMA ChainTail ==
  ASSUME NEW a, NEW p \in Seq(Book), NEW w \in Seq(Message), NEW h \in 0..Len(p),
         p # <<>>, w # <<>>, Chain(a, p, w, h)
  PROVE  Chain(a, p, Tail(w), IF w[1].kind = "other" THEN h ELSE w[1].ver)
<1> DEFINE x == Tail(w)
           g == IF w[1].kind = "other" THEN h ELSE w[1].ver
<1>1. /\ x \in Seq(Message) /\ Len(x) = Len(w) - 1
      /\ \A i \in 1..Len(x) : x[i] = w[i + 1]
  BY HeadTailProperties
<1>2. Len(w) \in Nat \ {0} /\ Len(p) \in Nat \ {0} /\ Len(x) \in Nat
  BY <1>1, EmptySeq, LenProperties
<1>3. w[1] \in Message /\ MessageOK(a, p, w[1])
  BY <1>2, ElementOfSeq DEF Chain
<1>4. \A i \in 1..Len(x) : MessageOK(a, p, x[i])
  BY <1>1, <1>2 DEF Chain
<1>5. ASSUME NEW i \in 2..Len(x)
      PROVE  Continues(x[i], x[i - 1].ver)
  <2>1. x[i] = w[i + 1] /\ x[i - 1] = w[i] /\ i + 1 \in 2..Len(w) /\ (i + 1) - 1 = i
    BY <1>1, <1>2
  <2> QED
    BY <2>1 DEF Chain
<1>6. x # <<>> => /\ Len(w) >= 2 /\ x[1] = w[2] /\ Continues(w[2], w[1].ver)
                  /\ x[Len(x)].ver = Len(p)
  <2>1. SUFFICES ASSUME x # <<>>
                 PROVE  /\ Len(w) >= 2 /\ x[1] = w[2] /\ Continues(w[2], w[1].ver)
                        /\ x[Len(x)].ver = Len(p)
    OBVIOUS
  <2>2. Len(x) # 0
    BY <2>1, <1>1, EmptySeq
  <2>3. Len(w) >= 2 /\ x[1] = w[2] /\ x[Len(x)] = w[Len(w)]
    BY <2>2, <1>1, <1>2
  <2>4. 2 \in 2..Len(w) /\ 2 - 1 = 1
    BY <2>3, <1>2
  <2>5. Continues(w[2], w[2 - 1].ver)
    BY <2>4 DEF Chain
  <2> QED
    BY <2>3, <2>4, <2>5 DEF Chain
<1>7. g = 0 => NotYet(x)
  <2>1. SUFFICES ASSUME g = 0
                 PROVE  NotYet(x)
    OBVIOUS
  <2>2. w[1].kind = "other" /\ h = 0
    BY <2>1, <1>3, <1>2 DEF MessageOK
  <2>3. Len(w) >= 2 /\ w[2].kind = "snapshot"
    BY <2>2 DEF Chain, NotYet
  <2>4. Len(x) # 0 /\ 1 \in 1..Len(x) /\ 1 + 1 = 2
    BY <2>3, <1>1, <1>2
  <2>5. x # <<>>
    BY <2>4, EmptySeq
  <2>6. x[1] = w[2]
    BY <2>4, <1>1
  <2> QED
    BY <2>3, <2>5, <2>6 DEF NotYet
<1>8. g # 0 /\ x # <<>> => Continues(x[1], g)
  <2>1. CASE w[1].kind = "other"
    BY <2>1, <1>6 DEF Chain, Continues
  <2>2. CASE w[1].kind # "other"
    BY <2>2, <1>6
  <2> QED
    BY <2>1, <2>2
<1>9. x = <<>> => g = Len(p)
  <2>1. SUFFICES ASSUME x = <<>>
                 PROVE  g = Len(p)
    OBVIOUS
  <2>2. Len(w) = 1
    BY <2>1, <1>1, <1>2, EmptySeq
  <2>3. w[1].ver = Len(p)
    BY <2>2 DEF Chain
  <2>4. CASE w[1].kind = "other"
    <3>1. h # 0
      BY <2>2, <2>4 DEF Chain, NotYet
    <3> QED
      BY <3>1, <2>3, <2>4 DEF Chain, Continues
  <2> QED
    BY <2>3, <2>4
<1> QED
  BY <1>4, <1>5, <1>6, <1>7, <1>8, <1>9 DEF Chain

------------------------------------------------------------------------------
(* The invariant. *)

LEMMA InitInvariant == Init => IInv
<1> SUFFICES ASSUME Init
             PROVE  IInv
  OBVIOUS
<1>1. past \in Seq(Book) /\ past # <<>> /\ Len(past) = 1
  BY OrderBookAssumption DEF Init
<1>2. wire \in Seq(Message)
  BY DEF Init
<1>3. ~up /\ up \in BOOLEAN /\ adapter \in Adapters /\ book \in Book
  BY EmptyBook DEF Init
<1>4. heard = 0 /\ Holds(adapter, past, heard, book) /\ pool = {}
      /\ \A r \in late \cup {shown} : Shows(adapter, past, r)
  BY DEF Init, Holds, Shows
<1> QED
  BY <1>1, <1>2, <1>3, <1>4 DEF IInv

\* The exchange's book changes.
LEMMA ChangeInvariant ==
  ASSUME IInv, Change
  PROVE  IInv'
<1>1. PICK lv \in Changes :
        LET new == Changed(Market, lv)
            told == IF adapter = "delta"
                    THEN [kind |-> "delta", levels |-> lv, ver |-> Len(past) + 1]
                    ELSE Snapshot(Told(adapter, new), Len(past) + 1)
        IN /\ past' = Append(past, new)
           /\ wire' = IF up THEN Append(wire, told) ELSE wire
  BY Zenon DEF Change
<1> DEFINE new == Changed(Market, lv)
           delta == [kind |-> "delta", levels |-> lv, ver |-> Len(past) + 1]
           told == IF adapter = "delta" THEN delta
                   ELSE Snapshot(Told(adapter, new), Len(past) + 1)
<1>2. UNCHANGED <<adapter, up, book, pool, heard, shown, late>>
  BY DEF Change, kept, published
<1>0. Market \in Book /\ new \in Book /\ lv \in LevelFun /\ Apply(Market, lv) = new
  <2>1. Market \in Book
    BY EmptySeq, LenProperties, ElementOfSeq DEF IInv, Market
  <2> QED
    BY <2>1, ChangeTells
<1>3. /\ past' \in Seq(Book) /\ past' # <<>> /\ Len(past') = Len(past) + 1
      /\ \A v \in 1..Len(past) : past'[v] = past[v]
      /\ past'[Len(past) + 1] = new
  BY <1>0, <1>1, AppendProperties DEF IInv
<1>4. Len(past) \in Nat \ {0} /\ Len(past') \in Nat
  BY <1>3, EmptySeq, LenProperties DEF IInv
<1>5. told \in Message /\ MessageOK(adapter, past', told) /\ Continues(told, Len(past))
      /\ told.ver = Len(past')
  <2>1. CASE adapter = "delta"
    <3>1. Market \in Book /\ Market = past'[Len(past)]
      BY <1>0, <1>3, <1>4 DEF Market
    <3>2. /\ delta.levels \in LevelFun
          /\ Apply(Market, delta.levels) = new
      BY <1>0
    <3>3. told = delta /\ delta.kind = "delta" /\ delta.ver = Len(past) + 1
      BY <2>1
    <3>4. delta \in Message
      BY <3>2, <1>4 DEF Message
    <3>5. MessageOK(adapter, past', delta)
      <4>1. delta.ver - 1 = Len(past) /\ delta.ver > 1 /\ delta.ver \in 1..Len(past')
        BY <3>3, <1>3, <1>4
      <4> QED
        BY <4>1, <3>1, <3>2, <3>3, <2>1, <1>3 DEF MessageOK
    <3> QED
      BY <3>3, <3>4, <3>5, <1>3 DEF Continues
  <2>2. CASE adapter # "delta"
    <3>1. Told(adapter, new) \in Book
      BY <1>0, ToldBook
    <3> DEFINE lw == Levels(Told(adapter, new))
    <3>2. lw \in LevelFun /\ Apply(Empty, lw) = Told(adapter, new)
      BY <3>1, SnapshotTells
    <3>3. told = [kind |-> "snapshot", levels |-> lw, ver |-> Len(past) + 1]
      BY <2>2 DEF Snapshot
    <3> HIDE DEF lw
    <3>4. told \in Message
      BY <3>2, <3>3, <1>4 DEF Message
    <3>5. MessageOK(adapter, past', told)
      BY <3>2, <3>3, <1>3, <1>4 DEF MessageOK
    <3> QED
      BY <3>3, <3>4, <3>5, <1>3 DEF Continues
  <2> QED
    BY <2>1, <2>2
<1> HIDE DEF told, delta, new
<1>6. wire' \in Seq(Message)
  BY <1>1, <1>5, AppendProperties DEF IInv, told, delta, new
<1>7. up' => Chain(adapter, past, wire, heard)'
  <2>1. SUFFICES ASSUME up
                 PROVE  Chain(adapter, past', Append(wire, told), heard)
    BY <1>1, <1>2 DEF told, delta, new
  <2> QED
    BY <2>1, <1>3, <1>4, <1>5, ChainAppend DEF IInv
<1>8. Holds(adapter, past, heard, book)'
  BY <1>2, <1>3, <1>4 DEF IInv, Holds
<1>9. \A r \in late' \cup {shown'} : Shows(adapter, past, r)'
  BY <1>2, <1>3, <1>4 DEF IInv, Shows
<1>10. \A x \in pool' : Past(adapter, past, x)'
  BY <1>2, <1>3, <1>4 DEF IInv, Past
<1> QED
  BY <1>2, <1>3, <1>4, <1>6, <1>7, <1>8, <1>9, <1>10 DEF IInv

\* A message without levels is sent.
LEMMA HeartbeatInvariant ==
  ASSUME IInv, Heartbeat
  PROVE  IInv'
<1>1. up /\ wire' = Append(wire, Other) /\ UNCHANGED <<adapter, past, up, book, pool, heard, shown, late>>
  BY DEF Heartbeat, kept, published
<1>2. Len(past) \in Nat \ {0}
  BY EmptySeq, LenProperties DEF IInv
<1>3. Levels(Empty) \in LevelFun
  BY SnapshotTells, EmptyBook
<1>4. /\ Other \in Message /\ Other.ver = Len(past)
      /\ MessageOK(adapter, past, Other) /\ Continues(Other, Len(past))
  BY <1>2, <1>3 DEF Other, Message, MessageOK, Continues
<1>5. Chain(adapter, past, Append(wire, Other), heard)
  BY <1>1, <1>2, <1>4, ChainAppend DEF IInv
<1>6. wire' \in Seq(Message)
  BY <1>1, <1>4, AppendProperties DEF IInv
<1> QED
  BY <1>1, <1>5, <1>6 DEF IInv

\* A connection begins with the whole book.
LEMMA ConnectInvariant ==
  ASSUME IInv, Connect
  PROVE  IInv'
<1> DEFINE first == Snapshot(Told(adapter, Market), Len(past))
<1>1. /\ up' = TRUE /\ heard' = 0
      /\ wire' = IF adapter = "pooled" THEN <<first>> ELSE <<Other, first>>
      /\ UNCHANGED <<adapter, past, book, pool, shown, late>>
  BY DEF Connect, kept, published
<1>2. Len(past) \in Nat \ {0}
  BY EmptySeq, LenProperties DEF IInv
<1>3. Market \in Book /\ Market = past[Len(past)]
  BY <1>2, ElementOfSeq DEF IInv, Market
<1>4. /\ first.kind = "snapshot" /\ first.ver = Len(past)
      /\ first \in Message /\ MessageOK(adapter, past, first)
  <2> DEFINE lv == Levels(Told(adapter, Market))
  <2>1. lv \in LevelFun /\ Apply(Empty, lv) = Told(adapter, Market)
    BY <1>3, ToldBook, SnapshotTells
  <2>2. first = [kind |-> "snapshot", levels |-> lv, ver |-> Len(past)]
    BY DEF Snapshot
  <2> HIDE DEF lv, first
  <2> QED
    BY <2>1, <2>2, <1>2, <1>3 DEF Message, MessageOK
<1>5. Levels(Empty) \in LevelFun
  BY SnapshotTells, EmptyBook
<1>6. /\ Other.kind = "other" /\ Other.ver = Len(past)
      /\ Other \in Message /\ MessageOK(adapter, past, Other)
  BY <1>2, <1>5 DEF Other, Message, MessageOK
<1> HIDE DEF first
<1>7. wire' \in Seq(Message)
  BY <1>1, <1>4, <1>6
<1>8. Chain(adapter, past, wire', 0)
  <2>1. CASE adapter = "pooled"
    BY <2>1, <1>1, <1>4 DEF Chain, NotYet
  <2>2. CASE adapter # "pooled"
    BY <2>2, <1>1, <1>4, <1>6 DEF Chain, NotYet, Continues
  <2> QED
    BY <2>1, <2>2
<1> QED
  BY <1>1, <1>2, <1>7, <1>8 DEF IInv, Holds

\* A connection ends, and the agent may end with it.
LEMMA EndInvariant ==
  ASSUME IInv, Drop \/ Restart
  PROVE  IInv'
<1>1. /\ up' = FALSE /\ heard' = 0 /\ wire' = <<>>
      /\ book' \in {book, Empty} /\ pool' \in {pool, {}}
      /\ UNCHANGED <<adapter, past, shown, late>>
  BY DEF Drop, Restart, kept, published
<1>2. Len(past) \in Nat
  BY LenProperties DEF IInv
<1>3. wire' \in Seq(Message) /\ book' \in Book
  BY <1>1, EmptyBook DEF IInv
<1>4. ~up' /\ up' \in BOOLEAN
  BY <1>1
<1>5. heard' \in 0..Len(past') /\ Holds(adapter, past, heard, book)'
  BY <1>1, <1>2 DEF Holds
<1> QED
  BY <1>1, <1>3, <1>4, <1>5 DEF IInv

\* A message is read as a book of before, and as the one heard if it has levels; that is what
\* is kept of it, and what its record shows.
LEMMA ReceiveHolds ==
  ASSUME IInv, Receive
  PROVE  /\ wire' \in Seq(Message) /\ Chain(adapter, past, wire', heard')
         /\ heard' \in 0..Len(past) /\ book' \in Book
         /\ Holds(adapter, past, heard', book')
         /\ \A x \in pool' : Past(adapter, past, x)
         /\ late \subseteq late'
         /\ \A r \in (late' \cup {shown'}) \ (late \cup {shown}) :
              \E x : /\ Past(adapter, past, x) /\ TwoSided(x.levels)
                     /\ r = Record(x.levels, x.ver)
         /\ up /\ UNCHANGED <<adapter, past, up>>
<1> DEFINE m == wire[1]
<1>0. /\ up /\ wire # <<>> /\ wire' = Tail(wire) /\ Head(wire) = m
      /\ heard' = IF m.kind = "other" THEN heard ELSE m.ver
      /\ UNCHANGED <<adapter, past, up>>
  BY HeadTailProperties DEF Receive, IInv
<1>1. PICK read \in Parsed(m) :
        /\ Keep(read)
        /\ IF Publishes(m, read.levels) THEN Add(Record(read.levels, read.ver))
           ELSE UNCHANGED <<published, fails>>
  BY <1>0 DEF Receive
<1>2. Len(wire) \in Nat \ {0} /\ Len(past) \in Nat \ {0}
  BY <1>0, EmptySeq, LenProperties DEF IInv
<1>3. m \in Message /\ MessageOK(adapter, past, m)
  BY <1>0, <1>2, ElementOfSeq DEF IInv, Chain
<1>4. m.ver \in 1..Len(past) /\ m.levels \in LevelFun
      /\ m.kind \in {"snapshot", "delta", "other"}
  BY <1>3 DEF MessageOK, Message
<1>5. Chain(adapter, past, Tail(wire), heard')
  BY <1>0, ChainTail DEF IInv
<1>6. wire' \in Seq(Message)
  BY <1>0, HeadTailProperties DEF IInv
<1> HIDE DEF m
<1>7. heard' \in 0..Len(past)
  BY <1>0, <1>2, <1>4 DEF IInv
\* What was read is one of the books told, the current one if it is kept as the book.
<1>8. /\ read \in Reading
      /\ adapter = "delta" => Holds(adapter, past, heard', read.levels)
      /\ m.kind # "other" \/ adapter # "delta" => Past(adapter, past, read)
  <2>1. CASE m.kind = "snapshot"
    <3>1. read = [levels |-> Apply(Empty, m.levels), ver |-> m.ver] /\ heard' = m.ver
      BY <2>1, <1>0, <1>1 DEF Parsed, Reset
    <3>2. read.levels = Told(adapter, past[heard'])
      BY <2>1, <3>1, <1>3 DEF MessageOK
    <3>3. read \in Reading
      BY <3>1, <1>4, ApplyBook, EmptyBook DEF Reading
    <3>4. adapter = "delta" => read.levels = past[heard']
      BY <3>2 DEF Told
    <3> QED
      BY <3>1, <3>2, <3>3, <3>4, <1>4 DEF Holds, Past
  <2>2. CASE m.kind = "delta"
    <3>1. read = [levels |-> Apply(book, m.levels), ver |-> m.ver] /\ heard' = m.ver
      BY <2>2, <1>0, <1>1 DEF Parsed
    <3>2. /\ adapter = "delta" /\ m.ver > 1
          /\ Apply(past[m.ver - 1], m.levels) = past[m.ver]
      BY <2>2, <1>3 DEF MessageOK
    <3>3. heard # 0 /\ m.ver = heard + 1
      <4>1. heard # 0
        BY <2>2, <1>0 DEF IInv, Chain, NotYet, m
      <4>2. Continues(m, heard)
        BY <4>1, <1>0 DEF IInv, Chain, m
      <4> QED
        BY <4>1, <4>2, <2>2 DEF Continues
    <3>4. book = past[m.ver - 1]
      <4>1. m.ver - 1 = heard
        BY <3>3, <1>4 DEF IInv
      <4> QED
        BY <4>1, <3>2, <3>3 DEF IInv, Holds
    <3>5. read.levels = past[heard']
      BY <3>1, <3>2, <3>4
    <3>6. read \in Reading
      BY <3>1, <1>4, ApplyBook DEF IInv, Reading
    <3> QED
      BY <3>1, <3>2, <3>5, <3>6, <1>4 DEF Holds, Past, Told
  <2>3. CASE m.kind = "other"
    <3>1. heard' = heard
      BY <2>3, <1>0
    <3>2. CASE adapter = "delta"
      <4>1. read = [levels |-> book, ver |-> heard]
        BY <2>3, <3>2, <1>1 DEF Parsed
      <4> QED
        BY <4>1, <3>1, <3>2, <2>3, <1>2 DEF IInv, Reading
    <3>3. CASE adapter # "delta"
      <4>1. read \in pool \/ read = [levels |-> Empty, ver |-> 0]
        BY <2>3, <3>3, <1>1 DEF Parsed
      <4>2. Past(adapter, past, read)
        BY <4>1, EmptyBook DEF IInv, Past, Reading
      <4> QED
        BY <4>2, <3>3 DEF Past
    <3> QED
      BY <3>2, <3>3
  <2> QED
    BY <2>1, <2>2, <2>3, <1>4
<1>9. book' \in Book /\ Holds(adapter, past, heard', book')
  <2>1. book' = IF adapter = "delta" THEN read.levels ELSE book
    BY <1>1 DEF Keep
  <2> QED
    BY <2>1, <1>8 DEF IInv, Holds, Reading
<1>10. \A x \in pool' : Past(adapter, past, x)
  <2>1. pool' = IF adapter = "pooled" THEN pool \cup {read} ELSE pool
    BY <1>1 DEF Keep
  <2> QED
    BY <2>1, <1>8 DEF IInv
<1>11. /\ late \subseteq late'
       /\ \A r \in (late' \cup {shown'}) \ (late \cup {shown}) :
            \E x : /\ Past(adapter, past, x) /\ TwoSided(x.levels)
                   /\ r = Record(x.levels, x.ver)
  <2>1. CASE Publishes(m, read.levels)
    <3>1. Past(adapter, past, read) /\ TwoSided(read.levels)
      BY <2>1, <1>8 DEF Publishes
    <3>2. /\ late' \in {late, late \cup {Record(read.levels, read.ver)}}
          /\ shown' \in {shown, Record(read.levels, read.ver)}
      BY <2>1, <1>1 DEF Add
    <3> QED
      BY <3>1, <3>2
  <2>2. CASE ~Publishes(m, read.levels)
    <3>1. UNCHANGED <<shown, late>>
      BY <2>2, <1>1 DEF published
    <3> QED
      BY <3>1
  <2> QED
    BY <2>1, <2>2
<1> QED
  BY <1>0, <1>5, <1>6, <1>7, <1>9, <1>10, <1>11

\* What is read and has levels is a book that a record may show.
LEMMA PastShows ==
  ASSUME NEW a, NEW p, NEW x, Past(a, p, x), TwoSided(x.levels)
  PROVE  /\ Shows(a, p, Record(x.levels, x.ver))
         /\ x.ver \in 1..Len(p) /\ x.levels = Told(a, p[x.ver])
<1>1. x.levels # Empty
  BY EmptyBook
<1>2. Record(x.levels, x.ver).ver = x.ver
  BY RecordVer
<1> QED
  BY <1>1, <1>2 DEF Past, Shows

LEMMA ReceiveInvariant ==
  ASSUME IInv, Receive
  PROVE  IInv'
<1>1. /\ wire' \in Seq(Message) /\ Chain(adapter, past, wire', heard')
      /\ heard' \in 0..Len(past) /\ book' \in Book
      /\ Holds(adapter, past, heard', book')
      /\ \A x \in pool' : Past(adapter, past, x)
      /\ up /\ UNCHANGED <<adapter, past, up>>
  BY ReceiveHolds
<1>2. \A r \in late' \cup {shown'} : Shows(adapter, past, r)
  <2> SUFFICES ASSUME NEW r \in late' \cup {shown'}
               PROVE  Shows(adapter, past, r)
    OBVIOUS
  <2>1. CASE r \in late \cup {shown}
    BY <2>1 DEF IInv
  <2>2. CASE r \notin late \cup {shown}
    <3>1. PICK x : /\ Past(adapter, past, x) /\ TwoSided(x.levels)
                   /\ r = Record(x.levels, x.ver)
      BY <2>2, ReceiveHolds
    <3> QED
      BY <3>1, PastShows
  <2> QED
    BY <2>1, <2>2
<1> QED
  BY <1>1, <1>2 DEF IInv

\* An XADD that was given up is carried out.
LEMMA LandInvariant ==
  ASSUME IInv, Land
  PROVE  IInv'
<1>1. /\ shown' \in late /\ late' \subseteq late
      /\ UNCHANGED <<adapter, past, up, wire, book, pool, heard>>
  BY DEF Land, kept
<1> QED
  BY <1>1 DEF IInv

\* The inductive invariant of an adapter and its exchange (cex_client.go, book_state.go).
THEOREM Invariant == Spec => []IInv
<1>1. IInv /\ [Next]_vars => IInv'
  <2>1. ASSUME IInv, Next
        PROVE  IInv'
    BY <2>1, ChangeInvariant, HeartbeatInvariant, ConnectInvariant, EndInvariant,
       ReceiveInvariant, LandInvariant DEF Next
  <2>2. ASSUME IInv, UNCHANGED vars
        PROVE  IInv'
    BY <2>2 DEF IInv, vars, kept, published
  <2> QED
    BY <2>1, <2>2
<1> QED
  BY <1>1, InitInvariant, PTL DEF Spec

\* Every record is the exchange's book of one moment, for all books and reconnects: what
\* connectCEX publishes after a reset or a delta, from any struct the pool may give it for a
\* message without levels, and however late an XADD is carried out.
THEOREM RecordsArePast == Spec => []ShownIsPast
<1>1. IInv => ShownIsPast
  <2>1. SUFFICES ASSUME IInv
                 PROVE  ShownIsPast
    OBVIOUS
  <2>2. DOMAIN past = 1..Len(past)
    BY <2>1, LenProperties DEF IInv
  <2> QED
    BY <2>1, <2>2 DEF IInv, Shows, ShownIsPast
<1> QED
  BY <1>1, Invariant, PTL

\* The book of an adapter that is told changes is the exchange's as of the last one it read:
\* bookState.Apply and Reset, whatever connections were lost in between.
THEOREM BooksArePast == Spec => []BookIsPast
<1>1. IInv => BookIsPast
  BY DEF IInv, Holds, BookIsPast
<1> QED
  BY <1>1, Invariant, PTL

------------------------------------------------------------------------------
(* What a record says of the book it was made from. *)

LEMMA SomeLevels ==
  ASSUME NEW b \in Book, NEW s \in Side
  PROVE  /\ Prices(b, s) \subseteq Price /\ IsFiniteSet(Prices(b, s))
         /\ \A p \in Price : b[<<s, p>>] \in Nat
         /\ \A p \in Prices(b, s) : b[<<s, p>>] > 0
<1>1. Prices(b, s) \subseteq Price /\ \A p \in Prices(b, s) : b[<<s, p>>] > 0
  BY DEF Prices
<1>2. IsFiniteSet(Prices(b, s))
  BY <1>1, OrderBookAssumption, FS_Subset
<1>3. \A p \in Price : b[<<s, p>>] \in 0..MaxSize
  <2>1. \A p \in Price : <<s, p>> \in Level
    BY DEF Level
  <2> QED
    BY <2>1 DEF Book
<1>4. MaxSize \in Nat
  BY OrderBookAssumption
<1> QED
  BY <1>1, <1>2, <1>3, <1>4

\* The best price of a side that has one is there, and none is better.
LEMMA BestIsBest ==
  ASSUME NEW b \in Book, NEW s \in Side, Prices(b, s) # {}
  PROVE  /\ Best(b, s) \in Prices(b, s)
         /\ \A q \in Prices(b, s) : ~Better(s, q, Best(b, s))
<1> DEFINE f == [p \in Price |-> IF s = "bid" THEN p ELSE -p]
           P == Prices(b, s)
<1>1. P \subseteq Price /\ IsFiniteSet(P) /\ P # {}
  BY SomeLevels
<1>2. \A p \in P : f[p] \in Int /\ p \in Nat
  <2>1. \A p \in P : p \in Price /\ p \in Nat
    BY <1>1, OrderBookAssumption
  <2>2. \A p \in Price : f[p] = IF s = "bid" THEN p ELSE -p
    OBVIOUS
  <2> HIDE DEF P, f
  <2>3. CASE s = "bid"
    BY <2>1, <2>2, <2>3
  <2>4. CASE s # "bid"
    BY <2>1, <2>2, <2>4
  <2> QED
    BY <2>3, <2>4
<1>3. PICK p \in P : \A q \in P : f[q] <= f[p]
  <2> HIDE DEF P, f
  <2> QED
    BY <1>1, <1>2, Largest
<1>4. \A q \in P : ~Better(s, q, p)
  <2> SUFFICES ASSUME NEW q \in P
               PROVE  ~Better(s, q, p)
    OBVIOUS
  <2>1. f[q] <= f[p] /\ q \in Nat /\ p \in Nat /\ q \in Price /\ p \in Price
    BY <1>1, <1>2, <1>3
  <2>2. CASE s = "bid"
    BY <2>1, <2>2 DEF Better
  <2>3. CASE s # "bid"
    <3>1. f[q] = -q /\ f[p] = -p
      BY <2>1, <2>3
    <3> QED
      BY <2>1, <2>3, <3>1 DEF Better
  <2> QED
    BY <2>2, <2>3
<1>5. Best(b, s) = CHOOSE x \in P : \A q \in P : ~Better(s, q, x)
  BY <1>1 DEF Best
<1> HIDE DEF P
<1> QED
  BY <1>3, <1>4, <1>5 DEF P

\* What the levels hold, as a sum of a function.
Sizes(b, s) == [p \in Price |-> b[<<s, p>>]]

LEMMA VolumeIsTotal ==
  ASSUME NEW b \in Book, NEW s \in Side, NEW S \in SUBSET Price
  PROVE  Volume(b, s, S) = Total(Sizes(b, s), S)
<1> DEFINE c == Picks(S)
           R(it) == it = [t \in SUBSET S |->
                           IF t = {} THEN 0 ELSE b[<<s, Pick(t)>>] + it[t \ {Pick(t)}]]
<1>1. Chooses(c, S) /\ IsFiniteSet(S)
  BY PicksChoose, OrderBookAssumption, FS_Subset
<1>2. PICK h : h = Sizes(b, s)
  OBVIOUS
<1>3. \A p \in S : h[p] \in Int /\ h[p] = b[<<s, p>>]
  BY <1>2, SomeLevels DEF Sizes
<1>4. \A t \in SUBSET S : t # {} => Pick(t) \in S /\ c[t] = Pick(t)
  BY <1>1 DEF Chooses, Picks
<1>5. Volume(b, s, S) = (CHOOSE it : R(it))[S]
  BY DEF Volume, MapThenSumSet, MapThenFoldSet, Pick
<1> HIDE DEF c
<1>6. ASSUME NEW it
      PROVE  IsSum(it, S, c, h) <=> R(it)
  BY ZenonT(60), <1>3, <1>4 DEF IsSum
<1>7. PICK i2 : IsSum(i2, S, c, h) /\ Total(h, S) = i2[S]
  BY <1>1, <1>3, TotalIsSum DEF c
<1> HIDE DEF R
<1>8. PICK i1 : i1 = (CHOOSE it : R(it)) /\ IsSum(i1, S, c, h)
  <2>1. R(CHOOSE it : R(it))
    BY <1>6, <1>7
  <2> QED
    BY <1>6, <2>1
<1>9. \A p \in S : h[p] \in Int
  BY <1>3
<1>10. i1[S] = i2[S]
  BY <1>1, <1>7, <1>8, <1>9, SumUnique
<1> QED
  BY <1>2, <1>5, <1>7, <1>8, <1>10

\* A band holds what is at the best price, and a wider one holds more.
LEMMA BandsHold ==
  ASSUME NEW b \in Book, NEW s \in Side, Prices(b, s) # {},
         NEW x \in Bands, NEW y \in Bands
  PROVE  /\ Volume(b, s, InBand(b, s, x)) > 0
         /\ x <= y => Volume(b, s, InBand(b, s, x)) <= Volume(b, s, InBand(b, s, y))
<1> DEFINE far(p) == IF s = "bid" THEN Best(b, s) - p ELSE p - Best(b, s)
<1>1. x \in Nat /\ y \in Nat
  BY OrderBookAssumption
<1>2. \A p \in Prices(b, s) : p \in Nat /\ b[<<s, p>>] > 0 /\ p \in Price
  BY SomeLevels, OrderBookAssumption
<1>3. Best(b, s) \in Prices(b, s) /\ Best(b, s) \in Nat
  BY <1>2, BestIsBest
<1>4. InBand(b, s, x) = {p \in Prices(b, s) : far(p) <= x}
      /\ InBand(b, s, y) = {p \in Prices(b, s) : far(p) <= y}
  BY DEF InBand
<1>5. ASSUME NEW p \in Prices(b, s)
      PROVE  far(p) \in Int
  <2>1. p \in Nat /\ Best(b, s) \in Nat
    BY <1>2, <1>3
  <2>2. Best(b, s) - p \in Int /\ p - Best(b, s) \in Int
    BY <2>1
  <2> QED
    BY <2>2
<1>6. Best(b, s) \in InBand(b, s, x)
  <2>1. far(Best(b, s)) = 0
    BY <1>3
  <2> QED
    BY <1>1, <1>3, <1>4, <2>1
<1>7. x <= y => InBand(b, s, x) \subseteq InBand(b, s, y)
  <2> HIDE DEF far
  <2> QED
    BY <1>1, <1>4, <1>5
<1>8. PICK X, Y, h : X = InBand(b, s, x) /\ Y = InBand(b, s, y) /\ h = Sizes(b, s)
  OBVIOUS
<1>9. /\ X \subseteq Prices(b, s) /\ Y \subseteq Prices(b, s)
      /\ X \in SUBSET Price /\ Y \in SUBSET Price
      /\ IsFiniteSet(X) /\ IsFiniteSet(Y)
  <2>1. X \subseteq Prices(b, s) /\ Y \subseteq Prices(b, s)
    BY <1>8 DEF InBand
  <2> QED
    BY <2>1, SomeLevels, FS_Subset
<1>10. \A p \in Price : h[p] \in Nat /\ h[p] = b[<<s, p>>]
  BY <1>8, SomeLevels DEF Sizes
<1>11. Volume(b, s, X) = Total(h, X) /\ Volume(b, s, Y) = Total(h, Y)
  BY <1>8, <1>9, VolumeIsTotal
<1>12. x <= y => Total(h, X) <= Total(h, Y)
  <2> SUFFICES ASSUME x <= y
               PROVE  Total(h, X) <= Total(h, Y)
    OBVIOUS
  <2>1. X \in SUBSET Y /\ \A p \in Y : h[p] \in Nat
    BY <1>7, <1>8, <1>9, <1>10
  <2> QED
    BY <1>9, <2>1, TotalMonotone
<1>13. Total(h, X) > 0
  <2>1. PICK p \in X : h[p] > 0
    BY <1>2, <1>3, <1>6, <1>8, <1>10
  <2>2. \A q \in X : h[q] \in Nat
    BY <1>9, <1>10
  <2>3. Total(h, X) = h[p] + Total(h, X \ {p})
    BY <1>9, <2>2, TotalTake
  <2>4. Total(h, X \ {p}) \in Nat
    <3> DEFINE Z == X \ {p}
    <3>1. IsFiniteSet(Z) /\ \A q \in Z : h[q] \in Nat
      BY <1>9, <2>2, FS_RemoveElement
    <3> HIDE DEF Z
    <3>2. Total(h, Z) \in Nat
      BY <3>1, TotalNat
    <3> QED
      BY <3>2 DEF Z
  <2> QED
    BY <2>1, <2>2, <2>3, <2>4
<1> QED
  BY <1>8, <1>11, <1>12, <1>13

\* The record of an uncrossed book with two sides is sane, and so is what is told of it.
LEMMA RecordIsSane ==
  ASSUME NEW b \in Book, TwoSided(b), Uncrossed(b), NEW v, NEW r, r = Record(b, v)
  PROVE  /\ r.best \in [Side -> Price] /\ r.best["bid"] < r.best["ask"]
         /\ \A s \in Side, x, y \in Bands :
              /\ r.band[s][x] > 0
              /\ x <= y => r.band[s][x] <= r.band[s][y]
<1>1. \A s \in Side : Prices(b, s) # {}
  BY DEF TwoSided
<1>2. \A s \in Side : Best(b, s) \in Prices(b, s) /\ Best(b, s) \in Price
  BY <1>1, BestIsBest, SomeLevels
<1>3. /\ r.best = [s \in Side |-> Best(b, s)]
      /\ r.band = [s \in Side |-> [x \in Bands |-> Volume(b, s, InBand(b, s, x))]]
  BY DEF Record
<1>4. Best(b, "bid") < Best(b, "ask")
  BY <1>2 DEF Uncrossed, Side
<1>5. r.best \in [Side -> Price] /\ r.best["bid"] < r.best["ask"]
  BY <1>2, <1>3, <1>4 DEF Side
<1>6. ASSUME NEW s \in Side, NEW x \in Bands, NEW y \in Bands
      PROVE  /\ r.band[s][x] > 0
             /\ x <= y => r.band[s][x] <= r.band[s][y]
  <2>1. /\ r.band[s][x] = Volume(b, s, InBand(b, s, x))
        /\ r.band[s][y] = Volume(b, s, InBand(b, s, y))
    BY <1>3
  <2> QED
    BY <1>1, <2>1, BandsHold
<1> QED
  BY <1>5, <1>6

\* The best levels of an uncrossed book are uncrossed.
LEMMA ToldUncrossed ==
  ASSUME NEW b \in Book, NEW a, Uncrossed(b)
  PROVE  Uncrossed(Told(a, b))
<1>1. CASE a = "delta"
  BY <1>1 DEF Told
<1>2. CASE a # "delta"
  <2> DEFINE t == Told(a, b)
  <2>1. ASSUME NEW s \in Side, NEW p \in Prices(t, s)
        PROVE  p \in Prices(b, s)
    <3>1. <<s, p>> \in Level /\ p \in Price /\ t[<<s, p>>] > 0
      BY DEF Prices, Level
    <3>2. t[<<s, p>>] = IF p \in TopPrices(b, s) THEN b[<<s, p>>] ELSE 0
      BY <1>2, <3>1 DEF Told
    <3> QED
      BY <3>1, <3>2 DEF Prices
  <2> HIDE DEF t
  <2>2. Uncrossed(t)
    BY <2>1 DEF Uncrossed, Side
  <2> QED
    BY <2>2 DEF t
<1> QED
  BY <1>1, <1>2

------------------------------------------------------------------------------
(* The records are sane. *)

\* What the record needs that IInv does not say: a book that was never crossed, and a record
\* only of a book with two sides.
Sane ==
  /\ \A i \in 1..Len(past) : Uncrossed(past[i])
  /\ \A r \in late \cup {shown} : r # NoRecord => TwoSided(Told(adapter, past[r.ver]))
  /\ astray \in {"no", "failed", "pool", "late"}
  /\ others \in Nat /\ drops \in Nat /\ fails \in Nat

LEMMA SaneInit == Init => Sane
<1> SUFFICES ASSUME Init
             PROVE  Sane
  OBVIOUS
<1>1. Len(past) = 1 /\ past[1] = FirstBook
  BY DEF Init
<1>2. \A i \in 1..Len(past) : i = 1
  BY <1>1
<1>3. \A i \in 1..Len(past) : Uncrossed(past[i])
  BY <1>1, <1>2, FirstBookAssumption
<1>4. astray = "no" /\ others \in Nat /\ drops \in Nat /\ fails \in Nat
      /\ shown = NoRecord /\ late = {}
  BY DEF Init
<1> QED
  BY <1>3, <1>4 DEF Sane

\* The steps that neither change the book nor publish.
LEMMA SaneKept ==
  ASSUME Sane, UNCHANGED <<adapter, past, shown, late, astray>>,
         others' \in Nat, drops' \in Nat, fails' \in Nat
  PROVE  Sane'
BY DEF Sane

LEMMA SaneChange ==
  ASSUME IInv, Sane, Change
  PROVE  Sane'
<1>1. /\ UNCHANGED <<adapter, shown, late, astray, others, drops, fails>>
      /\ \E lv \in Changes : /\ Uncrossed(Changed(Market, lv))
                             /\ past' = Append(past, Changed(Market, lv))
  BY DEF Change, bounds, published
<1>2. PICK lv \in Changes : /\ Uncrossed(Changed(Market, lv))
                            /\ past' = Append(past, Changed(Market, lv))
  BY <1>1
<1> DEFINE new == Changed(Market, lv)
<1>0. new \in Book
  <2>1. Market \in Book
    BY EmptySeq, LenProperties, ElementOfSeq DEF IInv, Market
  <2> QED
    BY <2>1, ChangeTells
<1>3. /\ Len(past') = Len(past) + 1 /\ past'[Len(past) + 1] = new
      /\ \A v \in 1..Len(past) : past'[v] = past[v]
  BY <1>0, <1>2, AppendProperties DEF IInv
<1>4. Len(past) \in Nat
  BY LenProperties DEF IInv
<1>5. \A i \in 1..Len(past') : Uncrossed(past'[i])
  <2> SUFFICES ASSUME NEW i \in 1..Len(past')
               PROVE  Uncrossed(past'[i])
    OBVIOUS
  <2>1. i \in 1..Len(past) \/ i = Len(past) + 1
    BY <1>3, <1>4
  <2>2. CASE i \in 1..Len(past)
    BY <1>3, <2>2 DEF Sane
  <2>3. CASE i = Len(past) + 1
    BY <1>2, <1>3, <2>3
  <2> QED
    BY <2>1, <2>2, <2>3
<1>6. \A r \in late \cup {shown} : r # NoRecord => past'[r.ver] = past[r.ver]
  BY <1>3 DEF IInv, Shows
<1> QED
  BY <1>1, <1>5, <1>6 DEF Sane

LEMMA SaneReceive ==
  ASSUME IInv, Sane, Receive
  PROVE  Sane'
<1>1. UNCHANGED <<adapter, past>>
  BY ReceiveHolds
<1>2. others' = others /\ drops' = drops /\ fails' \in Nat
      /\ astray' \in {"no", "failed", "pool", "late"}
  <2>1. /\ UNCHANGED <<others, drops>>
        /\ astray' \in {"no", "pool", "failed", astray}
        /\ fails' \in {fails, fails + 1}
    BY DEF Receive, Add, published
  <2>2. astray \in {"no", "failed", "pool", "late"} /\ fails \in Nat /\ fails + 1 \in Nat
    BY DEF Sane
  <2> QED
    BY <2>1, <2>2
<1>3. \A r \in late' \cup {shown'} : r # NoRecord => TwoSided(Told(adapter, past[r.ver]))
  <2> SUFFICES ASSUME NEW r \in late' \cup {shown'}, r # NoRecord
               PROVE  TwoSided(Told(adapter, past[r.ver]))
    OBVIOUS
  <2>1. CASE r \in late \cup {shown}
    BY <2>1 DEF Sane
  <2>2. CASE r \notin late \cup {shown}
    <3>1. PICK x : /\ Past(adapter, past, x) /\ TwoSided(x.levels)
                   /\ r = Record(x.levels, x.ver)
      BY <2>2, ReceiveHolds
    <3>2. r.ver = x.ver
      BY <3>1, RecordVer
    <3> QED
      BY <3>1, <3>2, PastShows
  <2> QED
    BY <2>1, <2>2
<1> QED
  BY <1>1, <1>2, <1>3 DEF Sane

\* No book of the exchange is crossed, and a record is only made of a book with two sides
\* (the guards of connectCEX between Parse and Publish).
THEOREM AlwaysSane == Spec => []Sane
<1>1. ASSUME IInv, Sane, Next
      PROVE  Sane'
  <2>1. CASE Change
    BY <1>1, <2>1, SaneChange
  <2>2. CASE Receive
    BY <1>1, <2>2, SaneReceive
  <2>3. CASE Heartbeat
    <3>1. UNCHANGED <<adapter, past, shown, late, astray, drops, fails>> /\ others' = others + 1
      BY <2>3 DEF Heartbeat, published
    <3> QED
      BY <1>1, <3>1, SaneKept DEF Sane
  <2>4. CASE Connect
    <3>1. UNCHANGED <<adapter, past, shown, late, astray, others, drops, fails>>
      BY <2>4 DEF Connect, bounds, published
    <3> QED
      BY <1>1, <3>1, SaneKept DEF Sane
  <2>5. CASE Drop \/ Restart
    <3>1. UNCHANGED <<adapter, past, shown, late, astray, others, fails>> /\ drops' = drops + 1
      BY <2>5 DEF Drop, Restart, published
    <3> QED
      BY <1>1, <3>1, SaneKept DEF Sane
  <2>6. CASE Land
    <3>1. /\ shown' \in late /\ late' \subseteq late /\ astray' = "late"
          /\ UNCHANGED <<adapter, past, others, drops, fails>>
      BY <2>6 DEF Land, bounds
    <3> QED
      BY <1>1, <3>1 DEF Sane
  <2> QED
    BY <1>1, <2>1, <2>2, <2>3, <2>4, <2>5, <2>6 DEF Next
<1>2. ASSUME Sane, UNCHANGED vars
      PROVE  Sane'
  <2>1. UNCHANGED <<adapter, past, shown, late, astray, others, drops, fails>>
    BY <1>2 DEF vars, bounds, published
  <2> QED
    BY <1>2, <2>1, SaneKept DEF Sane
<1>3. IInv /\ Sane /\ [Next]_vars => Sane'
  BY <1>1, <1>2
<1> QED
  BY <1>3, SaneInit, Invariant, PTL DEF Spec

\* A record that is shown or may still be is one of an uncrossed book with two sides.
LEMMA ShownIsSane ==
  ASSUME IInv, Sane, NEW r \in late \cup {shown}, r # NoRecord
  PROVE  /\ r.ver \in Nat /\ r.best \in [Side -> Price] /\ r.best["bid"] < r.best["ask"]
         /\ \A s \in Side, x, y \in Bands :
              /\ r.band[s][x] > 0
              /\ x <= y => r.band[s][x] <= r.band[s][y]
<1>1. r.ver \in 1..Len(past) /\ Len(past) \in Nat
  BY LenProperties DEF IInv, Shows
<1>2. past[r.ver] \in Book /\ Uncrossed(past[r.ver])
  BY <1>1, ElementOfSeq DEF IInv, Sane
<1>3. PICK b : b = Told(adapter, past[r.ver])
  OBVIOUS
<1>4. b \in Book /\ Uncrossed(b) /\ TwoSided(b) /\ r = Record(b, r.ver)
  BY <1>2, <1>3, ToldBook, ToldUncrossed DEF IInv, Shows, Sane
<1> QED
  BY <1>1, <1>4, RecordIsSane

\* A record is never crossed and its bands hold more the wider they are, for every adapter,
\* set of prices, bands and number of levels (book_state.go's volumes and best prices).
THEOREM RecordsAreSane == Spec => []RecordSane
<1>1. IInv /\ Sane => RecordSane
  BY ShownIsSane DEF RecordSane
<1> QED
  BY <1>1, Invariant, AlwaysSane, PTL

\* The variables of the adapter and its exchange stay in their types.
THEOREM TypeCorrect == Spec => []TypeOK
<1>1. IInv /\ Sane => TypeOK
  <2> SUFFICES ASSUME IInv, Sane
               PROVE  TypeOK
    OBVIOUS
  <2>1. \A i \in DOMAIN wire : wire[i].kind \in {"snapshot", "delta", "other"} /\ wire[i].ver \in Nat
    <3>1. \A i \in DOMAIN wire : wire[i] \in Message
      BY LenProperties, ElementOfSeq DEF IInv
    <3> QED
      BY <3>1 DEF Message
  <2>2. heard \in Nat
    BY LenProperties DEF IInv
  <2>3. \A r \in late \cup {shown} : r.ver \in Nat /\ (r # NoRecord => r.best \in [Side -> Price])
    BY ShownIsSane, RecordVer DEF NoRecord
  <2>4. pool \subseteq [levels : Book, ver : Nat]
    BY DEF IInv, Past, Reading
  <2> QED
    BY <2>1, <2>2, <2>3, <2>4 DEF IInv, Sane, TypeOK
<1> QED
  BY <1>1, Invariant, AlwaysSane, PTL

==============================================================================
