------------------------------ MODULE OrderBook ------------------------------
(***************************************************************************)
(* One exchange as the ingestion agent sees it                             *)
(* (src/1_ingestion_agents/cex_client.go, book_state.go and the adapters   *)
(* in cex_*.go and agent_cex.go): a connection that is made again whenever *)
(* it breaks, messages that tell the order book or how it changed, a local *)
(* book that the messages are applied to, and a record of its best levels  *)
(* that is added to stream:cex_l2 after each of them.                      *)
(*                                                                         *)
(* The adapters differ in what they are told and in what they keep:        *)
(*   delta   Bybit, Kraken, Coinbase: a snapshot, then changes; the        *)
(*           book lives in the adapter and survives the connection         *)
(*   full    OKX: the best levels in every message; nothing is kept        *)
(*   pooled  Binance: the same, but the struct a message is parsed into    *)
(*           comes from a pool and is not cleared: a message without       *)
(*           levels leaves in it those of any message parsed before        *)
(***************************************************************************)
EXTENDS Integers, Sequences, FiniteSets, FiniteSetsExt

CONSTANTS
  Adapters,     \* adapters considered
  Price,        \* prices, in dollars
  MaxSize,      \* sizes are 0..MaxSize; 0 is no level
  Top,          \* levels a record adds up: 5, 20, 50
  Bands,        \* distances from the best price, in dollars: 10, 25, 50, 100
  FirstBook,    \* the exchange's book when the behaviour begins
  MaxVersions,  \* bound: versions of the exchange's book
  MaxLevels,    \* bound: levels in one change
  MaxOther,     \* bound: messages without levels
  MaxDrops,     \* bound: connections that break
  MaxFails      \* bound: XADDs that fail

Side == {"bid", "ask"}
Level == Side \X Price
Book == [Level -> 0..MaxSize]

ASSUME OrderBookAssumption ==
  /\ Adapters \subseteq {"delta", "full", "pooled"}
  /\ Price \subseteq Nat \ {0} /\ IsFiniteSet(Price) /\ Bands \subseteq Nat
  /\ {MaxSize, Top, MaxVersions, MaxLevels, MaxOther, MaxDrops, MaxFails} \subseteq Nat
  /\ FirstBook \in Book

VARIABLES
  adapter,  \* the adapter looked at
  past,     \* the exchange's books, the last one being the current
  up,       \* is there a connection
  wire,     \* messages sent and not read
  book,     \* bids and asks of a delta adapter
  pool,     \* what is in the structs of the pool: the books parsed into them
  heard,    \* the version the last message with levels told, 0 before one on a connection
  shown,    \* the last record in stream:cex_l2
  late,     \* records whose XADD timed out and may still be carried out
  astray,   \* why the last record is not that of the last message with levels
  others, drops, fails

bounds == <<others, drops, fails>>
kept == <<book, pool>>
published == <<shown, late, astray>>
vars == <<adapter, past, up, wire, kept, heard, published, bounds>>

Market == past[Len(past)]

------------------------------------------------------------------------------
(* Books. *)

Empty == [l \in Level |-> 0]

\* Mutant: a size of 0 does not remove the level.
ApplyPositive(b, levels) ==
  [l \in Level |-> IF l \in DOMAIN levels /\ levels[l] > 0 THEN levels[l] ELSE b[l]]

Apply(b, levels) == [l \in Level |-> IF l \in DOMAIN levels THEN levels[l] ELSE b[l]]

\* Mutant: a snapshot is applied to the book there is.
ResetKeeping(b, levels) == Apply(b, levels)

Reset(b, levels) == Apply(Empty, levels)

Prices(b, side) == {p \in Price : b[<<side, p>>] > 0}
Better(side, p, q) == IF side = "bid" THEN p > q ELSE p < q

\* The best price of a side, 0 if there is none.
Best(b, side) ==
  IF Prices(b, side) = {} THEN 0
  ELSE CHOOSE p \in Prices(b, side) : \A q \in Prices(b, side) : ~Better(side, q, p)

TopPrices(b, side) ==
  {p \in Prices(b, side) : Cardinality({q \in Prices(b, side) : Better(side, q, p)}) < Top}

\* Mutant: prices off the best one by a band are no longer in it.
InBandBelow(b, side, band) ==
  {p \in Prices(b, side) : (IF side = "bid" THEN Best(b, side) - p ELSE p - Best(b, side)) < band}

InBand(b, side, band) ==
  {p \in Prices(b, side) : (IF side = "bid" THEN Best(b, side) - p ELSE p - Best(b, side)) <= band}

Volume(b, side, prices) == MapThenSumSet(LAMBDA p : b[<<side, p>>], prices)

\* Mutant: one side will do.
TwoSidedOr(b) == \E s \in Side : Prices(b, s) # {}

TwoSided(b) == \A s \in Side : Prices(b, s) # {}

Record(b, version) ==
  [ver  |-> version,
   best |-> [s \in Side |-> Best(b, s)],
   vol  |-> [s \in Side |-> Volume(b, s, TopPrices(b, s))],
   band |-> [s \in Side |-> [x \in Bands |-> Volume(b, s, InBand(b, s, x))]]]

NoRecord == Record(Empty, 0)

------------------------------------------------------------------------------
(* The exchange. *)

Uncrossed(b) == \A p \in Prices(b, "bid"), q \in Prices(b, "ask") : p < q

ASSUME FirstBookAssumption == Uncrossed(FirstBook)

\* What an adapter is told of a book: all of it, or its best levels.
Told(kind, b) ==
  IF kind = "delta" THEN b
  ELSE [l \in Level |-> IF l[2] \in TopPrices(b, l[1]) THEN b[l] ELSE 0]

Levels(b) == [l \in {k \in Level : b[k] > 0} |-> b[l]]

Snapshot(b, version) == [kind |-> "snapshot", levels |-> Levels(b), ver |-> version]
Other == [kind |-> "other", levels |-> Levels(Empty), ver |-> Len(past)]

\* A change is about a few levels, and says what they are now.
Changed(b, levels) == [l \in Level |-> IF l \in DOMAIN levels THEN levels[l] ELSE b[l]]
Changes == UNION {[ls -> 0..MaxSize] : ls \in {l \in SUBSET Level : Cardinality(l) \in 1..MaxLevels}}

Init ==
  /\ adapter \in Adapters
  /\ past = <<FirstBook>>
  /\ up = FALSE /\ wire = <<>>
  /\ book = Empty /\ pool = {} /\ heard = 0
  /\ shown = NoRecord /\ late = {} /\ astray = "no"
  /\ others = 0 /\ drops = 0 /\ fails = 0

\* The book changes, and a connected adapter will be told.
Change ==
  \E levels \in Changes :
    LET new == Changed(Market, levels)
        told == IF adapter = "delta"
                THEN [kind |-> "delta", levels |-> levels, ver |-> Len(past) + 1]
                ELSE Snapshot(Told(adapter, new), Len(past) + 1)
    IN
    /\ Len(past) < MaxVersions
    /\ Uncrossed(new) /\ new # Market
    /\ past' = Append(past, new)
    /\ wire' = IF up THEN Append(wire, told) ELSE wire
    /\ UNCHANGED <<adapter, up, kept, heard, published, bounds>>

\* A heartbeat, the answer to a ping.
Heartbeat ==
  /\ up /\ others < MaxOther
  /\ others' = others + 1
  /\ wire' = Append(wire, Other)
  /\ UNCHANGED <<adapter, past, up, kept, heard, published, drops, fails>>

------------------------------------------------------------------------------
(* The agent. *)

\* Dial and subscribe: the answer to the subscription, if there is one, and the book.
Connect ==
  /\ ~up
  /\ up' = TRUE /\ heard' = 0
  /\ wire' = (IF adapter = "pooled" THEN <<>> ELSE <<Other>>)
             \o <<Snapshot(Told(adapter, Market), Len(past))>>
  /\ UNCHANGED <<adapter, past, kept, published, bounds>>

\* The connection breaks; what was not read is lost, and the adapter keeps what it has.
Drop ==
  /\ up /\ drops < MaxDrops
  /\ drops' = drops + 1
  /\ up' = FALSE /\ heard' = 0 /\ wire' = <<>>
  /\ UNCHANGED <<adapter, past, kept, published, others, fails>>

\* The agent ends and is started again.
Restart ==
  /\ drops < MaxDrops
  /\ drops' = drops + 1
  /\ up' = FALSE /\ heard' = 0 /\ wire' = <<>>
  /\ book' = Empty /\ pool' = {}
  /\ UNCHANGED <<adapter, past, published, others, fails>>

\* What a message may be read as: levels, and the version they are of.  A delta adapter adds
\* up, and full levels replace what was there.  A message without levels leaves the struct as
\* the pool gave it: new, or one that any message before was parsed into.
Parsed(m) ==
  CASE m.kind = "snapshot" -> {[levels |-> Reset(book, m.levels), ver |-> m.ver]}
    [] m.kind = "delta"    -> {[levels |-> Apply(book, m.levels), ver |-> m.ver]}
    [] m.kind = "other"    -> IF adapter = "delta" THEN {[levels |-> book, ver |-> heard]}
                              ELSE pool \cup {[levels |-> Empty, ver |-> 0]}

\* What stays: the book of a delta adapter, or the struct, put back into the pool.
Keep(read) ==
  /\ book' = IF adapter = "delta" THEN read.levels ELSE book
  /\ pool' = IF adapter = "pooled" THEN pool \cup {read} ELSE pool

\* Mutant: a change of one side is skipped, as the comment on the reader says.
PublishesBothSides(m, b) ==
  /\ TwoSided(b)
  /\ \A s \in Side : \E l \in DOMAIN m.levels : l[1] = s

Publishes(m, b) == TwoSided(b) /\ (m.kind = "other" => adapter = "pooled")

\* XADD.  A try of it may fail and yet be carried out later; the client tries again, or the
\* agent goes on without the record.
Add(record) ==
  /\ \/ UNCHANGED <<late, fails>>
     \/ fails < MaxFails /\ fails' = fails + 1 /\ late' = late \cup {record}
  /\ \/ shown' = record /\ astray' = IF record.ver = heard' THEN "no" ELSE "pool"
     \/ fails' # fails /\ astray' = "failed" /\ UNCHANGED shown

\* One message is read, parsed and its record added.
Receive ==
  /\ up /\ wire # <<>>
  /\ LET m == Head(wire) IN
     /\ heard' = IF m.kind = "other" THEN heard ELSE m.ver
     /\ \E read \in Parsed(m) :
          /\ Keep(read)
          /\ IF Publishes(m, read.levels) THEN Add(Record(read.levels, read.ver))
             ELSE UNCHANGED <<published, fails>>
  /\ wire' = Tail(wire)
  /\ UNCHANGED <<adapter, past, up, others, drops>>

\* Redis carries out an XADD that the client has given up.
Land ==
  \E record \in late :
    /\ shown' = record /\ late' = late \ {record}
    /\ astray' = "late"
    /\ UNCHANGED <<adapter, past, up, wire, kept, heard, bounds>>

Next == Change \/ Heartbeat \/ Connect \/ Drop \/ Restart \/ Receive \/ Land

Spec == Init /\ [][Next]_vars

\* RunCEX dials again and again, and the reader reads whatever comes.
FairSpec == Spec /\ WF_vars(Connect) /\ WF_vars(Receive)

------------------------------------------------------------------------------
(* What the agent promises. *)

TypeOK ==
  /\ adapter \in Adapters /\ past \in Seq(Book) /\ past # <<>>
  /\ up \in BOOLEAN /\ astray \in {"no", "failed", "pool", "late"}
  /\ \A i \in DOMAIN wire : wire[i].kind \in {"snapshot", "delta", "other"} /\ wire[i].ver \in Nat
  /\ book \in Book /\ heard \in Nat
  /\ pool \subseteq [levels : Book, ver : Nat]
  /\ \A r \in late \cup {shown} : r.ver \in Nat /\ (r # NoRecord => r.best \in [Side -> Price])
  /\ others \in Nat /\ drops \in Nat /\ fails \in Nat

\* A record shows what the exchange's book was at one moment and never a mixture of two: not
\* after a reconnect, when the book still holds the levels of the connection before, nor from
\* a struct that other messages were parsed into.  How old the moment may be is another matter:
\* a message without levels brings back those of any message before, and an XADD given up may
\* be carried out later.
ShownIsPast ==
  shown # NoRecord =>
    shown.ver \in DOMAIN past /\ shown = Record(Told(adapter, past[shown.ver]), shown.ver)

\* The book of a delta adapter is what the exchange's was at the last message with levels.
BookIsPast == adapter = "delta" /\ heard # 0 => book = past[heard]

\* A record is never crossed, and its volumes fit together: wider bands hold more, and the
\* narrowest at least what is at the best price.
RecordSane ==
  shown # NoRecord =>
    /\ shown.best["bid"] < shown.best["ask"]
    /\ \A s \in Side, x, y \in Bands :
         /\ shown.band[s][x] > 0
         /\ x <= y => shown.band[s][x] <= shown.band[s][y]

\* Once the exchange and the connection are quiet, the last record is the current book's --
\* unless that book has one side only, or its record was the one that failed, or one after it
\* shows older levels: of a pooled struct, or of an XADD that was late.
Converges == <>[](TwoSided(Market) /\ astray = "no" => shown.ver = Len(past))

==============================================================================
