----------------------------- MODULE FeedProofs -----------------------------
(***************************************************************************)
(* Theorems about the brain's feeds. The invariant of the market's side    *)
(* (MarketInv) is about labels: whatever the agent holds, publishes or has *)
(* sent, and whatever the brain keeps, names the window of its own market. *)
(* That of the whale's side is about places (TradesAccounted, with one     *)
(* record at a time on its way, LinkOK, that is not in the stream yet,     *)
(* NotYet) and about order: an open connection adds its records in order   *)
(* of time unless an XADD fails (InOrder), and what the brain keeps is all *)
(* it was there for, except what is old (ReaderInv).                       *)
(***************************************************************************)
EXTENDS BrainFeeds, Integers, TLAPS

StreamOf(F) == [len : Nat, gone : Nat, recs : SUBSET [id : Nat, fields : F]]

-----------------------------------------------------------------------------
(* Streams and readers                                                      *)

(* What an XADD does to a stream.                                           *)
LEMMA AddedOne ==
  ASSUME NEW F, NEW s \in StreamOf(F), NEW f \in F, NEW t \in AfterAdd(s, f)
  PROVE  /\ t \in StreamOf(F) /\ t.len = s.len + 1
         /\ t.recs = s.recs \cup {[id |-> s.len + 1, fields |-> f]}
         /\ s.gone <= s.len => t.gone <= t.len
<1> DEFINE rec == [id |-> s.len + 1, fields |-> f]
           least == s.len + 1 - Keep
           most == IF s.len + 1 > Keep /\ least > s.gone THEN least ELSE s.gone
<1>1. PICK g \in {s.gone, most} : t = [len |-> s.len + 1, gone |-> g, recs |-> s.recs \cup {rec}]
  BY DEF AfterAdd
<1>2. s.len \in Nat /\ s.gone \in Nat /\ s.recs \subseteq [id : Nat, fields : F]
  BY DEF StreamOf
<1>3. most \in Nat /\ (s.gone <= s.len => most <= s.len + 1)
  BY <1>2, TailAssumption
<1>4. rec \in [id : Nat, fields : F]
  BY <1>2
<1>5. g \in Nat /\ (s.gone <= s.len => g <= s.len + 1)
  BY <1>2, <1>3
<1> HIDE DEF rec, most
<1>6. t \in StreamOf(F)
  BY <1>1, <1>2, <1>4, <1>5 DEF StreamOf
<1>7. t.len = s.len + 1 /\ t.recs = s.recs \cup {rec} /\ t.gone = g
  BY <1>1
<1> QED BY <1>5, <1>6, <1>7 DEF rec

(* What a call, an answer and its end do to a reader.                       *)
LEMMA ReaderSteps ==
  ASSUME NEW F, NEW s \in StreamOf(F), NEW r \in ReaderType
  PROVE  /\ From(r, s) \in Nat /\ Upto(r, s) \in Nat
         /\ Asking(r, s) \in ReaderType /\ Told(r, s) \in ReaderType
         /\ NoAnswer(r) \in ReaderType /\ Taken(r) \in ReaderType
         /\ NewReader \in ReaderType
<1>1. /\ r.cursor \in Nat /\ r.upto \in Nat /\ r.since \in Nat /\ r.tail \in BOOLEAN
      /\ s.len \in Nat /\ s.gone \in Nat /\ Count \in Nat
  BY TailAssumption DEF ReaderType, StreamOf
<1>2. From(r, s) \in Nat
  BY <1>1 DEF From
<1>3. Upto(r, s) \in Nat
  BY <1>1, <1>2 DEF Upto
<1>4. Asking(r, s) \in ReaderType
  BY <1>1, <1>2, <1>3 DEF Asking, ReaderType
<1>5. Told(r, s) \in ReaderType
  BY <1>1 DEF Told, ReaderType
<1>6. NoAnswer(r) \in ReaderType /\ Taken(r) \in ReaderType
  BY <1>1 DEF NoAnswer, Taken, ReaderType
<1>7. NewReader \in ReaderType
  BY DEF NewReader, ReaderType
<1> QED BY <1>2, <1>3, <1>4, <1>5, <1>6, <1>7

LEMMA Division ==
  ASSUME NEW L \in Nat \ {0}, NEW t \in Nat
  PROVE  /\ (t % L) \in 0..(L - 1) /\ (t \div L) \in Int
         /\ t = (L * (t \div L)) + (t % L)
OBVIOUS

(* Windows do not run backwards.                                            *)
LEMMA WindowMonotone ==
  ASSUME NEW t \in Nat
  PROVE  /\ Window(t) \in Nat
         /\ Window(t) <= Window(t + 1)
<1> DEFINE L == WindowLen
           q1 == t \div L
           q2 == (t + 1) \div L
           r1 == t % L
           r2 == (t + 1) % L
<1>1. L \in Nat \ {0}
  BY MarketAssumption
<1>2. /\ q1 \in Int /\ r1 \in 0..(L - 1) /\ t = (L * q1) + r1
      /\ q2 \in Int /\ r2 \in 0..(L - 1) /\ t + 1 = (L * q2) + r2
  BY <1>1, Division
<1> SUFFICES q1 >= 0 /\ q1 <= q2
  BY <1>2 DEF Window
<1> HIDE DEF L, q1, q2, r1, r2
<1>3. q1 >= 0
  <2> SUFFICES ASSUME q1 < 0 PROVE FALSE
    BY <1>2
  <2>1. L * q1 <= -L
    BY <1>1, <1>2
  <2> QED BY <1>1, <1>2, <2>1
<1>4. q1 <= q2
  <2> SUFFICES ASSUME q1 > q2 PROVE FALSE
    BY <1>2
  <2>1. L * q1 >= (L * q2) + L
    BY <1>1, <1>2
  <2> QED BY <1>1, <1>2, <2>1
<1> QED BY <1>3, <1>4

-----------------------------------------------------------------------------
(* Types                                                                    *)

LEMMA Constants ==
  /\ {ResolveMax, DialMax, AddMax, ResolvePause, DialPause, Fresh, LastFault} \subseteq Nat
  /\ {RetryPause, Span, MaxConn} \subseteq Nat
BY MarketAssumption, WhaleAssumption

Agents == [at : AgentAt, token : Nat, win : Nat, ts : Nat, due : Nat]
Links == [at : {"off", "dial", "open", "pause"}, conn : Nat, due : Nat]

LEMMA AgentMoves ==
  ASSUME NEW a \in Agents, NEW p \in AgentAt, NEW d \in Nat, NEW n \in Nat, NEW k \in Nat
  PROVE  /\ [a EXCEPT !.at = p] \in Agents
         /\ [a EXCEPT !.at = p, !.due = d] \in Agents
         /\ [a EXCEPT !.at = p, !.win = n, !.due = d] \in Agents
         /\ [a EXCEPT !.at = p, !.token = n, !.due = d] \in Agents
         /\ [a EXCEPT !.at = p, !.ts = n, !.due = d] \in Agents
         /\ [a EXCEPT !.at = p, !.token = n, !.win = k, !.due = d] \in Agents
BY DEF Agents

LEMMA LinkMoves ==
  ASSUME NEW l \in Links, NEW d \in Nat, NEW n \in Nat
  PROVE  /\ [l EXCEPT !.at = "open", !.conn = n] \in Links
         /\ [l EXCEPT !.at = "pause", !.due = d] \in Links
         /\ [l EXCEPT !.at = "dial"] \in Links
BY DEF Links

LEMMA MarketTyped ==
  ASSUME MarketTypeOK, now \in Nat, MarketNext
  PROVE  MarketTypeOK'
<1>1. /\ mode \in Modes /\ agent \in Agents /\ mstream \in StreamOf(Quote)
      /\ mreader \in ReaderType /\ quote \in Quote /\ books \in Nat /\ faults \in Nat
      /\ adrift \subseteq Quote
  BY DEF MarketTypeOK, StreamOf, Agents
<1>2. agent.win \in Nat /\ agent.token \in Nat /\ agent.ts \in Nat
  BY <1>1 DEF Agents
<1>3. Window(now) \in Nat
  BY WindowMonotone
<1> SUFFICES /\ mode' \in Modes /\ agent' \in Agents /\ mstream' \in StreamOf(Quote)
             /\ mreader' \in ReaderType /\ quote' \in Quote /\ books' \in Nat /\ faults' \in Nat
             /\ adrift' \subseteq Quote
  BY DEF MarketTypeOK, StreamOf, Agents
<1>4. ASSUME AgentStep, UNCHANGED <<mode, quote>> PROVE agent' \in Agents /\ faults' \in Nat
  <2>1. \A p \in AgentAt : Go(p) => agent' \in Agents
    BY <1>1, AgentMoves DEF Go
  <2>2. \A p \in AgentAt, long \in Nat : Await(p, long) => agent' \in Agents
    <3>1. \A long \in Nat : now + long \in Nat
      OBVIOUS
    <3>2. \A p \in AgentAt, d \in Nat : [agent EXCEPT !.at = p, !.due = d] \in Agents
      BY <1>1, AgentMoves
    <3> QED BY <3>1, <3>2 DEF Await
  <2>3. MayFail => faults' \in Nat
    BY <1>1 DEF MayFail
  <2>4. CASE Begin
    <3>1. "dial" \in AgentAt /\ "resolve" \in AgentAt
      BY DEF AgentAt
    <3>2. now + DialMax \in Nat /\ now + ResolveMax \in Nat /\ 0 \in Nat
      BY Constants
    <3>3. CASE mode = "static"
      BY <1>1, <2>4, <3>1, <3>2, <3>3, AgentMoves DEF Begin
    <3>4. CASE mode # "static"
      BY <1>1, <1>3, <2>4, <3>1, <3>2, <3>4, AgentMoves DEF Begin
    <3> QED BY <3>3, <3>4
  <2>5. CASE ResolveEnds
    <3>1. "dial" \in AgentAt /\ now + DialMax \in Nat
      BY Constants DEF AgentAt
    <3> QED BY <1>1, <1>2, <2>5, <3>1, AgentMoves DEF ResolveEnds, Resolved
  <2>6. CASE ResolveFails \/ DialTooLate \/ Broken
    BY <1>1, <2>2, <2>3, <2>6, Constants DEF ResolveFails, DialTooLate, Broken, AgentAt
  <2>7. CASE PauseEnds \/ Dial \/ RollOver \/ Added \/ AddFails \/ AddTooLate \/ LandQuote
    BY <1>1, <2>1, <2>3, <2>7 DEF PauseEnds, Dial, RollOver, Added, AddFails, AddTooLate,
       LandQuote, AgentAt
  <2>8. CASE Receive
    <3>1. "publish" \in AgentAt /\ now + AddMax \in Nat
      BY Constants DEF AgentAt
    <3> QED BY <1>1, <2>8, <3>1, AgentMoves DEF Receive
  <2> QED BY <1>4, <2>4, <2>5, <2>6, <2>7, <2>8 DEF AgentStep
<1>5. ASSUME AgentStep, UNCHANGED <<mode, quote>>
      PROVE /\ books' \in Nat /\ mstream' \in StreamOf(Quote) /\ mreader' \in ReaderType
            /\ adrift' \subseteq Quote
  <2>1. Carried \in Quote
    BY <1>2 DEF Carried, Quote
  <2>2. ASSUME NEW q \in Quote, AddQuote(q)
        PROVE  mstream' \in StreamOf(Quote) /\ mreader' \in ReaderType
    <3>1. mstream' \in StreamOf(Quote)
      BY <1>1, <2>2, AddedOne DEF AddQuote
    <3> QED BY <1>1, <2>2, <3>1, ReaderSteps DEF AddQuote
  <2>3. CASE Added
    BY <1>1, <2>1, <2>2, <2>3 DEF Added
  <2>4. CASE LandQuote
    BY <1>1, <2>2, <2>4 DEF LandQuote
  <2>5. CASE AddFails
    BY <1>1, <2>1, <2>5 DEF AddFails
  <2>6. CASE ~Added /\ ~LandQuote /\ ~AddFails
    BY <1>1, <1>5, <2>6 DEF AgentStep, Begin, ResolveEnds, ResolveFails, PauseEnds, Dial,
       DialTooLate, Broken, RollOver, Receive, AddTooLate
  <2> QED BY <2>3, <2>4, <2>5, <2>6
<1>6. ASSUME QuoteStep, UNCHANGED <<mode, agent, mstream, adrift, books, faults>>
      PROVE mreader' \in ReaderType /\ quote' \in Quote
  <2>1. CASE AskQuotes \/ NoQuotes
    BY <1>1, <2>1, ReaderSteps DEF AskQuotes, NoQuotes
  <2>2. CASE TakeQuotes
    <3>1. PICK rec \in mstream.recs : quote' = rec.fields
      BY <2>2 DEF TakeQuotes
    <3>2. rec \in [id : Nat, fields : Quote]
      BY <1>1, <3>1 DEF StreamOf
    <3> QED BY <1>1, <2>2, <3>1, <3>2, ReaderSteps DEF TakeQuotes
  <2> QED BY <1>6, <2>1, <2>2 DEF QuoteStep
<1> QED BY <1>1, <1>4, <1>5, <1>6 DEF MarketNext

LEMMA WhaleTyped ==
  ASSUME WhaleTypeOK, now \in Nat, WhaleNext
  PROVE  WhaleTypeOK'
<1> DEFINE Trades == Nat \ {0}
<1>1. /\ link \in Links /\ acc \in [Conn -> SUBSET Trades] /\ flushers \subseteq Conn
      /\ flying \in [Conn -> SUBSET Sum] /\ wstream \in StreamOf(Sum)
      /\ wreader \in ReaderType /\ buf \subseteq Stamped /\ heard \in Nat
      /\ lost \subseteq Trades /\ missed \subseteq Nat /\ trades \in Nat /\ losses \in Nat
      /\ doubtful \subseteq Sum /\ belated \subseteq Nat
  BY DEF WhaleTypeOK, StreamOf, Stamped, Links
<1> SUFFICES
      /\ link' \in Links /\ acc' \in [Conn -> SUBSET Trades] /\ flushers' \subseteq Conn
      /\ flying' \in [Conn -> SUBSET Sum] /\ wstream' \in StreamOf(Sum)
      /\ wreader' \in ReaderType /\ buf' \subseteq Stamped /\ heard' \in Nat
      /\ lost' \subseteq Trades /\ missed' \subseteq Nat /\ trades' \in Nat /\ losses' \in Nat
      /\ doubtful' \subseteq Sum /\ belated' \subseteq Nat
  BY DEF WhaleTypeOK, StreamOf, Stamped, Links
<1>2. link.conn \in Nat /\ Conn = 1..MaxConn /\ MaxConn \in Nat
  BY <1>1, Constants DEF Conn, Links
<1>3. MayLose => losses' \in Nat
  BY <1>1 DEF MayLose
<1>4. ASSUME LinkStep, UNCHANGED <<flying, doubtful, wstream, wreader, buf, lost, belated, missed>>
      PROVE /\ link' \in Links /\ acc' \in [Conn -> SUBSET Trades] /\ flushers' \subseteq Conn
            /\ heard' \in Nat /\ trades' \in Nat /\ losses' \in Nat
  <2>1. CASE Connect
    <3>1. link.conn + 1 \in Nat /\ link.conn + 1 \in Conn
      BY <1>2, <2>1 DEF Connect
    <3> QED BY <1>1, <2>1, <3>1, LinkMoves DEF Connect
  <2>2. CASE Disconnect
    <3>1. now + RetryPause \in Nat
      BY Constants
    <3> QED BY <1>1, <1>3, <2>2, <3>1, LinkMoves DEF Disconnect
  <2>3. CASE Redial
    BY <1>1, <2>3, LinkMoves DEF Redial
  <2>4. CASE Trade
    <3>1. acc' \in [Conn -> SUBSET Trades]
      <4>1. acc[link.conn] \cup {heard + 1} \subseteq Trades \/ link.conn \notin Conn
        BY <1>1
      <4> QED BY <1>1, <2>4, <4>1 DEF Trade
    <3>2. heard' \in Nat /\ trades' \in Nat
      BY <1>1, <2>4 DEF Trade
    <3> QED BY <1>1, <2>4, <3>1, <3>2 DEF Trade
  <2> QED BY <1>4, <2>1, <2>2, <2>3, <2>4 DEF LinkStep
<1>5. ASSUME FlushStep, UNCHANGED <<link, buf, heard, missed, trades>>
      PROVE /\ acc' \in [Conn -> SUBSET Trades] /\ flushers' \subseteq Conn
            /\ flying' \in [Conn -> SUBSET Sum]
            /\ wstream' \in StreamOf(Sum) /\ wreader' \in ReaderType
            /\ lost' \subseteq Trades /\ losses' \in Nat
            /\ doubtful' \subseteq Sum /\ belated' \subseteq Nat
  <2>a. ASSUME NEW rec \in Sum, Add(rec)
        PROVE  wstream' \in StreamOf(Sum) /\ wreader' \in ReaderType
    <3>1. wstream' \in StreamOf(Sum)
      BY <1>1, <2>a, AddedOne DEF Add
    <3> QED BY <1>1, <2>a, <3>1, ReaderSteps DEF Add
  <2>b. CASE Land
    BY <1>1, <1>3, <2>a, <2>b DEF Land
  <2>1. CASE ~Land
    <3>1. PICK c \in Conn : Flush(c) \/ Sent(c) \/ SendFails(c) \/ FlusherEnds(c)
      BY <1>5, <2>1 DEF FlushStep
    <3>2. CASE Flush(c)
      <4>1. [trades |-> acc[c], ts |-> now] \in Sum
        BY <1>1, <3>1 DEF Sum
      <4> QED BY <1>1, <3>1, <3>2, <4>1 DEF Flush, Kept
    <3>3. CASE Sent(c)
      <4>1. PICK rec \in flying[c] : Add(rec) /\ flying' = [flying EXCEPT ![c] = @ \ {rec}]
        BY <3>3 DEF Sent
      <4>2. rec \in Sum /\ wstream.len + 1 \in Nat
        BY <1>1, <3>1, <4>1 DEF StreamOf
      <4>3. wstream' \in StreamOf(Sum) /\ wreader' \in ReaderType
        BY <2>a, <4>1, <4>2
      <4>4. flying' \in [Conn -> SUBSET Sum]
        BY <1>1, <3>1, <4>1
      <4> QED BY <1>1, <3>1, <3>3, <4>2, <4>3, <4>4 DEF Sent
    <3>4. CASE SendFails(c)
      <4>1. PICK rec \in flying[c] :
              /\ doubtful' = doubtful \cup {rec} /\ MayLose
              /\ flying' \in {flying, [flying EXCEPT ![c] = @ \ {rec}]}
        BY <3>4 DEF SendFails
      <4>2. flying' \in [Conn -> SUBSET Sum]
        BY <1>1, <3>1, <4>1
      <4> QED BY <1>1, <1>3, <3>1, <3>4, <4>1, <4>2 DEF SendFails
    <3>5. CASE FlusherEnds(c)
      BY <1>1, <3>1, <3>5 DEF FlusherEnds
    <3> QED BY <3>1, <3>2, <3>3, <3>4, <3>5
  <2> QED BY <2>b, <2>1
<1>6. ASSUME AskFlow \/ NoFlow \/ TakeFlow, UNCHANGED <<wstream, trades>>
      PROVE wreader' \in ReaderType /\ buf' \subseteq Stamped /\ missed' \subseteq Nat
  <2>1. CASE AskFlow
    <3>1. wreader.cursor \in Nat /\ wstream.gone \in Nat
      BY <1>1 DEF ReaderType, StreamOf
    <3>2. (wreader.cursor + 1)..wstream.gone \subseteq Nat
      BY <3>1
    <3> QED BY <1>1, <2>1, <3>2, ReaderSteps DEF AskFlow
  <2>2. CASE NoFlow
    BY <1>1, <2>2, ReaderSteps DEF NoFlow
  <2>3. CASE TakeFlow
    <3>1. Response(wreader, wstream) \subseteq Stamped
      BY <1>1 DEF Response, StreamOf, Stamped
    <3>2. Pruned(buf \cup Response(wreader, wstream)) \subseteq Stamped
      BY <1>1, <3>1 DEF Pruned
    <3> QED BY <1>1, <2>3, <3>2, ReaderSteps DEF TakeFlow
  <2> QED BY <1>6, <2>1, <2>2, <2>3
<1> QED BY <1>1, <1>4, <1>5, <1>6 DEF WhaleNext

(* Every variable of the two feeds keeps its type, for any settings.        *)
THEOREM FeedsType == Spec => []TypeOK
<1>1. Init => TypeOK
  <2> SUFFICES ASSUME Init PROVE TypeOK
    OBVIOUS
  <2>1. PICK s \in Settings : MarketInit(s.market, s.books, s.faults)
                              /\ WhaleInit(s.whale, s.trades, s.faults)
    BY DEF Init
  <2>2. /\ s.market \in Modes /\ s.books \in Nat /\ s.trades \in Nat /\ s.faults \in Nat
        /\ now \in Nat
    BY FeedsAssumption DEF Init
  <2>3. MarketTypeOK
    BY <2>1, <2>2 DEF MarketInit, MarketTypeOK, NewStream, NewReader, ReaderType, NoQuote,
       Quote, AgentAt
  <2>4. WhaleTypeOK
    BY <2>1, <2>2 DEF WhaleInit, WhaleTypeOK, NewStream, NewReader, ReaderType
  <2> QED BY <2>2, <2>3, <2>4 DEF TypeOK
<1>2. TypeOK /\ [Next]_vars => TypeOK'
  <2> SUFFICES ASSUME TypeOK, [Next]_vars PROVE TypeOK'
    OBVIOUS
  <2>1. ASSUME UNCHANGED market PROVE MarketTypeOK'
    BY <2>1 DEF TypeOK, market, MarketTypeOK
  <2>2. ASSUME UNCHANGED whale PROVE WhaleTypeOK'
    BY <2>2 DEF TypeOK, whale, WhaleTypeOK
  <2>3. CASE Tick
    BY <2>1, <2>2, <2>3 DEF Tick, TypeOK
  <2>4. CASE MarketNext /\ UNCHANGED <<now, whale>>
    BY <2>2, <2>4, MarketTyped DEF TypeOK
  <2>5. CASE WhaleNext /\ UNCHANGED <<now, market>>
    BY <2>1, <2>5, WhaleTyped DEF TypeOK
  <2>6. CASE UNCHANGED vars
    BY <2>1, <2>2, <2>6 DEF TypeOK, vars
  <2> QED BY <2>3, <2>4, <2>5, <2>6 DEF Next
<1> QED BY <1>1, <1>2, PTL DEF Spec

-----------------------------------------------------------------------------
(* The market's side                                                        *)

AtMarket == {"dial", "open", "publish"}

\* What a label promises of the market whose price it carries.
Right(q) == q.token = q.win /\ (q.win # 0 => Window(q.ts) = q.win)

\* The agent has its market's token, and its window has begun.
Holds == /\ agent.at \in AtMarket => agent.token = agent.win
         /\ mode # "rolling" => agent.win = 0
         /\ mode = "rolling" => agent.win <= Window(now)
         /\ mode = "off" => agent.at = "off"
         /\ agent.at = "publish" => Right(agent)

Labels == /\ Right(quote) /\ \A q \in adrift : Right(q)
          /\ \A rec \in mstream.recs : Right(rec.fields)

MarketInv == Holds /\ Labels

LEMMA MarketStart == Init => MarketInv
<1> SUFFICES ASSUME Init PROVE MarketInv
  OBVIOUS
<1>1. PICK s \in Settings : MarketInit(s.market, s.books, s.faults)
  BY DEF Init
<1>2. Right(quote) /\ mstream.recs = {} /\ adrift = {}
  BY <1>1 DEF MarketInit, NoQuote, NewStream, Right
<1>3. /\ agent.at \notin AtMarket /\ agent.at # "publish" /\ agent.win = 0
      /\ mode = "off" => agent.at = "off"
  BY <1>1 DEF MarketInit, AtMarket
<1>4. Window(now) >= 0
  <2>1. now \in Nat
    BY FeedsAssumption DEF Init
  <2> QED BY <2>1, WindowMonotone
<1> QED BY <1>2, <1>3, <1>4 DEF MarketInv, Holds, Labels

(* Every step of the agent keeps what it holds.                             *)
LEMMA AgentHolds ==
  ASSUME TypeOK, MarketInv, AgentStep, UNCHANGED <<mode, quote, now>>
  PROVE  Holds'
<1>1. agent \in Agents /\ now \in Nat /\ mode \in Modes
  BY DEF TypeOK, MarketTypeOK, Agents
<1>2. Window(now) \in Nat /\ agent.win \in Nat
  BY <1>1, WindowMonotone DEF Agents
<1>k. ASSUME UNCHANGED agent PROVE Holds'
  BY <1>k DEF MarketInv, Holds, Right
<1>l. SUFFICES ASSUME ~(UNCHANGED agent) PROVE Holds'
  BY <1>k
<1>0. mode # "off"
  <2>1. agent.at # "off"
    BY <1>l DEF AgentStep, Begin, ResolveEnds, ResolveFails, PauseEnds, Dial, DialTooLate,
       Broken, RollOver, Receive, Added, AddFails, AddTooLate, LandQuote
  <2> QED BY <2>1 DEF MarketInv, Holds
<1>3. ASSUME NEW p, agent'.at = p, agent'.win = agent.win, agent'.token = agent.token,
             p \in AtMarket => agent.at \in AtMarket, p # "publish"
      PROVE Holds'
  BY <1>0, <1>3 DEF MarketInv, Holds
<1>4. \A p : Go(p) => agent'.at = p /\ agent'.win = agent.win /\ agent'.token = agent.token
  BY <1>1 DEF Go, Agents
<1>5. \A p, long : Await(p, long) =>
        agent'.at = p /\ agent'.win = agent.win /\ agent'.token = agent.token
  BY <1>1 DEF Await, Agents
<1>6. CASE Begin
  <2>1. CASE mode = "static"
    <3>1. agent'.win = 0 /\ agent'.token = 0 /\ agent'.at = "dial"
      BY <1>1, <1>6, <2>1 DEF Begin, Agents
    <3> QED BY <1>0, <1>2, <2>1, <3>1 DEF Holds
  <2>2. CASE mode # "static"
    <3>1. agent'.win = Window(now) /\ agent'.at = "resolve"
      BY <1>1, <1>6, <2>2 DEF Begin, Agents
    <3>2. mode = "rolling"
      BY <1>0, <1>1, <2>2 DEF Modes
    <3> QED BY <1>0, <1>2, <3>1, <3>2 DEF Holds, AtMarket
  <2> QED BY <2>1, <2>2
<1>7. CASE ResolveEnds
  <2>1. agent'.win = agent.win /\ agent'.token = agent.win /\ agent'.at = "dial"
    BY <1>1, <1>7 DEF ResolveEnds, Resolved, Agents
  <2> QED BY <1>0, <2>1 DEF MarketInv, Holds
<1>8. CASE ResolveFails \/ DialTooLate \/ Broken
  BY <1>3, <1>5, <1>8 DEF ResolveFails, DialTooLate, Broken, AtMarket
<1>9. CASE PauseEnds \/ Dial \/ RollOver \/ Added \/ AddFails \/ AddTooLate \/ LandQuote
  BY <1>l, <1>3, <1>4, <1>9 DEF PauseEnds, Dial, RollOver, Added, AddFails, AddTooLate,
     LandQuote, AtMarket
<1>10. CASE Receive
  <2>1. /\ agent'.win = agent.win /\ agent'.token = agent.token
        /\ agent'.at = "publish" /\ agent'.ts = now
    BY <1>1, <1>10 DEF Receive, Agents
  <2>2. agent.token = agent.win
    BY <1>10 DEF Receive, MarketInv, Holds, AtMarket
  <2>3. agent.win # 0 => Window(now) = agent.win
    BY <1>2, <1>10 DEF Receive, Lapsed, MarketInv, Holds
  <2>4. Right(agent')
    BY <2>1, <2>2, <2>3 DEF Right
  <2> QED BY <1>0, <2>1, <2>2, <2>4 DEF MarketInv, Holds
<1> QED BY <1>6, <1>7, <1>8, <1>9, <1>10 DEF AgentStep

(* A record takes over the agent's label, and the brain's quote a record's. *)
LEMMA LabelsStay ==
  ASSUME TypeOK, MarketInv, MarketNext
  PROVE  Labels'
<1>1. mstream \in StreamOf(Quote) /\ agent \in Agents /\ adrift \subseteq Quote
  BY DEF TypeOK, MarketTypeOK, StreamOf, Agents
<1>2. CASE AgentStep /\ UNCHANGED <<mode, quote>>
  <2>1. Carried \in Quote /\ (agent.at = "publish" => Right(Carried))
    BY <1>1 DEF Carried, Agents, Quote, MarketInv, Holds, Right
  <2>2. ASSUME NEW q \in Quote, Right(q), AddQuote(q), UNCHANGED adrift PROVE Labels'
    <3>1. mstream'.recs = mstream.recs \cup {[id |-> mstream.len + 1, fields |-> q]}
      BY <1>1, <2>2, AddedOne DEF AddQuote
    <3> QED BY <1>2, <2>2, <3>1 DEF MarketInv, Labels, Right
  <2>3. CASE Added
    BY <2>1, <2>2, <2>3 DEF Added
  <2>4. CASE LandQuote
    BY <1>1, <2>2, <2>4 DEF LandQuote, MarketInv, Labels
  <2>5. CASE AddFails
    BY <1>2, <2>1, <2>5 DEF AddFails, MarketInv, Labels, Right
  <2>6. CASE ~Added /\ ~LandQuote /\ ~AddFails
    <3>1. UNCHANGED <<mstream, adrift>>
      BY <1>2, <2>6 DEF AgentStep, Begin, ResolveEnds, ResolveFails, PauseEnds, Dial,
         DialTooLate, Broken, RollOver, Receive, AddTooLate
    <3> QED BY <1>2, <3>1 DEF MarketInv, Labels, Right
  <2> QED BY <2>3, <2>4, <2>5, <2>6
<1>3. CASE QuoteStep /\ UNCHANGED <<mode, agent, mstream, adrift, books, faults>>
  <2>1. CASE TakeQuotes
    <3>1. PICK rec \in mstream.recs : quote' = rec.fields
      BY <2>1 DEF TakeQuotes
    <3>2. Right(rec.fields)
      BY <3>1 DEF MarketInv, Labels
    <3> QED BY <1>3, <3>1, <3>2 DEF MarketInv, Labels, Right
  <2>2. CASE ~TakeQuotes
    BY <1>3, <2>2 DEF QuoteStep, AskQuotes, NoQuotes, MarketInv, Labels, Right
  <2> QED BY <2>1, <2>2
<1> QED BY <1>2, <1>3 DEF MarketNext

LEMMA MarketKept == TypeOK /\ MarketInv /\ [Next]_vars => MarketInv'
<1> SUFFICES ASSUME TypeOK, MarketInv, [Next]_vars PROVE MarketInv'
  OBVIOUS
<1>1. ASSUME UNCHANGED market, now' = now \/ now' = now + 1 PROVE MarketInv'
  <2>1. now \in Nat /\ agent \in Agents
    BY DEF TypeOK, MarketTypeOK, Agents
  <2>2. Window(now) \in Nat /\ Window(now') \in Nat /\ Window(now) <= Window(now')
    BY <1>1, <2>1, WindowMonotone
  <2>3. agent.win \in Nat
    BY <2>1 DEF Agents
  <2>4. /\ agent' = agent /\ mode' = mode /\ quote' = quote /\ mstream' = mstream
        /\ adrift' = adrift
    BY <1>1 DEF market
  <2>5. Holds'
    BY <2>2, <2>3, <2>4 DEF MarketInv, Holds, Right
  <2>6. Labels'
    BY <2>4 DEF MarketInv, Labels, Right
  <2> QED BY <2>5, <2>6 DEF MarketInv
<1>2. CASE MarketNext /\ UNCHANGED <<now, whale>>
  <2>1. CASE AgentStep /\ UNCHANGED <<mode, quote>>
    BY <1>2, <2>1, AgentHolds, LabelsStay DEF MarketInv
  <2>2. CASE QuoteStep /\ UNCHANGED <<mode, agent, mstream, adrift, books, faults>>
    <3>1. Holds'
      BY <1>2, <2>2 DEF MarketInv, Holds, Right
    <3> QED BY <1>2, <3>1, LabelsStay DEF MarketInv
  <2> QED BY <1>2, <2>1, <2>2 DEF MarketNext
<1> QED BY <1>1, <1>2 DEF Next, Tick, vars

(* The brain never takes the price of one market for another's: for all     *)
(* settings, time limits, pauses, failures and any length of a window.      *)
THEOREM QuoteBelongs == Spec => []QuoteOfItsMarket
<1>1. TypeOK /\ MarketInv => QuoteOfItsMarket
  <2> SUFFICES ASSUME TypeOK, MarketInv, NEW w \in 1..Window(now) + 1, NEW q \in ForWindow(w)
               PROVE  q.token = w /\ Window(q.ts) = w
    BY DEF QuoteOfItsMarket
  <2>1. q = quote /\ quote.win = w
    BY DEF ForWindow
  <2>2. w # 0
    BY WindowMonotone DEF TypeOK
  <2> QED BY <2>1, <2>2 DEF MarketInv, Labels, Right
<1> QED BY <1>1, MarketStart, MarketKept, FeedsType, PTL DEF Spec

-----------------------------------------------------------------------------
(* The whale's side: where each trade is                                    *)

LinkOK == /\ link.conn \in 0..MaxConn /\ (link.at = "open" => link.conn \in Conn)
          /\ \A c \in Conn : \A f, g \in flying[c] : f = g

\* A record on its way is in the stream only if an XADD of it failed, and no other
\* goroutine has it.
NotYet == \A c \in Conn : \A rec \in flying[c] :
            /\ rec.trades # {}
            /\ \A r \in wstream.recs : r.fields = rec => rec \in doubtful
            /\ \A d \in Conn \ {c} : rec \notin flying[d]

PlacesInv == LinkOK /\ NotYet /\ TradesAccounted

LEMMA WhaleTypes ==
  ASSUME TypeOK
  PROVE  /\ link \in Links /\ acc \in [Conn -> SUBSET (Nat \ {0})] /\ flushers \subseteq Conn
         /\ flying \in [Conn -> SUBSET Sum] /\ wstream \in StreamOf(Sum)
         /\ doubtful \subseteq Sum /\ belated \subseteq Nat
         /\ now \in Nat /\ link.conn \in Nat /\ heard \in Nat
         /\ \A c \in Conn : \A rec \in flying[c] : rec.ts \in Nat
<1>1. /\ link \in Links /\ acc \in [Conn -> SUBSET (Nat \ {0})] /\ flushers \subseteq Conn
      /\ flying \in [Conn -> SUBSET Sum] /\ wstream \in StreamOf(Sum)
      /\ doubtful \subseteq Sum /\ belated \subseteq Nat /\ now \in Nat /\ heard \in Nat
  BY DEF TypeOK, WhaleTypeOK, Links, StreamOf, Stamped
<1>2. link.conn \in Nat
  BY <1>1 DEF Links
<1>3. \A c \in Conn : \A rec \in flying[c] : rec.ts \in Nat
  BY <1>1 DEF Sum
<1> QED BY <1>1, <1>2, <1>3

(* What each step of the goroutines and of Redis does to the records.       *)
LEMMA FlushEffect ==
  ASSUME TypeOK, LinkOK, NEW c \in Conn, Flush(c)
  PROVE  \E new : /\ new = [trades |-> acc[c], ts |-> now] /\ flying[c] = {} /\ acc[c] # {}
                  /\ flying' = [flying EXCEPT ![c] = {new}]
                  /\ acc' = [acc EXCEPT ![c] = {}]
                  /\ UNCHANGED <<flushers, doubtful, wstream, wreader, lost, belated>>
BY WhaleTypes DEF Flush, MayFlush, Kept

LEMMA SentEffect ==
  ASSUME TypeOK, LinkOK, NEW c \in Conn, Sent(c)
  PROVE  \E rec \in flying[c] :
           /\ rec \in Sum /\ Add(rec) /\ flying' = [flying EXCEPT ![c] = {}]
           /\ wstream'.len = wstream.len + 1
           /\ wstream'.recs = wstream.recs \cup {[id |-> wstream.len + 1, fields |-> rec]}
           /\ belated' = IF Open(c) THEN belated ELSE belated \cup {wstream.len + 1}
           /\ UNCHANGED <<acc, flushers, doubtful, lost>>
<1>1. PICK rec \in flying[c] : /\ Add(rec) /\ flying' = [flying EXCEPT ![c] = @ \ {rec}]
                               /\ belated' = IF Open(c) THEN belated
                                             ELSE belated \cup {wstream.len + 1}
                               /\ UNCHANGED <<acc, flushers, doubtful, lost>>
  BY DEF Sent
<1>2. rec \in Sum /\ wstream \in StreamOf(Sum)
  BY <1>1, WhaleTypes
<1>3. /\ wstream'.len = wstream.len + 1
      /\ wstream'.recs = wstream.recs \cup {[id |-> wstream.len + 1, fields |-> rec]}
  BY <1>1, <1>2, AddedOne DEF Add
<1>4. flying[c] = {rec}
  BY <1>1 DEF LinkOK
<1>5. flying' = [flying EXCEPT ![c] = {}]
  BY <1>1, <1>4
<1> QED BY <1>1, <1>2, <1>3, <1>5

LEMMA FailsEffect ==
  ASSUME TypeOK, LinkOK, NEW c \in Conn, SendFails(c)
  PROVE  \E rec \in flying[c] :
           /\ doubtful' = doubtful \cup {rec}
           /\ flying' \in {flying, [flying EXCEPT ![c] = {}]}
           /\ UNCHANGED <<acc, flushers, wstream, wreader, lost, belated>>
<1>1. PICK rec \in flying[c] : /\ doubtful' = doubtful \cup {rec}
                               /\ flying' \in {flying, [flying EXCEPT ![c] = @ \ {rec}]}
                               /\ UNCHANGED <<acc, flushers, wstream, wreader, lost, belated>>
  BY DEF SendFails
<1>2. flying[c] = {rec}
  BY <1>1 DEF LinkOK
<1>3. flying' \in {flying, [flying EXCEPT ![c] = {}]}
  BY <1>1, <1>2
<1> QED BY <1>1, <1>3

LEMMA LandEffect ==
  ASSUME TypeOK, Land
  PROVE  \E rec \in doubtful :
           /\ rec \in Sum /\ Add(rec)
           /\ wstream'.len = wstream.len + 1
           /\ wstream'.recs = wstream.recs \cup {[id |-> wstream.len + 1, fields |-> rec]}
           /\ UNCHANGED <<acc, flushers, flying, doubtful, lost, belated>>
<1>1. PICK rec \in doubtful : Add(rec) /\ UNCHANGED <<acc, flushers, flying, doubtful, lost, belated>>
  BY DEF Land
<1>2. rec \in Sum /\ wstream \in StreamOf(Sum)
  BY <1>1, WhaleTypes
<1> QED BY <1>1, <1>2, AddedOne DEF Add

LEMMA LinkKept == TypeOK /\ LinkOK /\ [Next]_vars => LinkOK'
<1> SUFFICES ASSUME TypeOK, LinkOK, [Next]_vars PROVE LinkOK'
  OBVIOUS
<1>1. /\ link \in Links /\ flying \in [Conn -> SUBSET Sum]
      /\ Conn = 1..MaxConn /\ MaxConn \in Nat
  BY Constants DEF TypeOK, WhaleTypeOK, Links, Conn
<1>2. ASSUME UNCHANGED link, UNCHANGED flying PROVE LinkOK'
  BY <1>2 DEF LinkOK
<1>3. CASE LinkStep /\ UNCHANGED <<flying, doubtful, wstream, wreader, buf, lost, belated, missed>>
  <2>1. CASE Connect
    <3>1. link'.conn = link.conn + 1 /\ link.conn < MaxConn
      BY <1>1, <2>1 DEF Connect, Links
    <3> QED BY <1>1, <1>3, <3>1 DEF LinkOK
  <2>2. CASE Disconnect \/ Redial
    <3>1. link'.conn = link.conn /\ link'.at \in {"pause", "dial"}
      BY <1>1, <2>2 DEF Disconnect, Redial, Links
    <3> QED BY <1>3, <3>1 DEF LinkOK
  <2>3. CASE Trade
    BY <1>2, <1>3, <2>3 DEF Trade
  <2> QED BY <1>3, <2>1, <2>2, <2>3 DEF LinkStep
<1>4. CASE FlushStep /\ UNCHANGED <<link, buf, heard, missed, trades>>
  <2>1. CASE Land
    BY <1>2, <1>4, <2>1 DEF Land
  <2>2. ASSUME NEW c \in Conn, Flush(c) PROVE LinkOK'
    <3>1. \E new : flying' = [flying EXCEPT ![c] = {new}]
      BY <2>2, FlushEffect
    <3> QED BY <1>1, <1>4, <3>1 DEF LinkOK
  <2>3. ASSUME NEW c \in Conn, Sent(c) \/ SendFails(c) PROVE LinkOK'
    <3>1. flying' = flying \/ flying' = [flying EXCEPT ![c] = {}]
      BY <2>3, SentEffect, FailsEffect
    <3> QED BY <1>1, <1>4, <3>1 DEF LinkOK
  <2>4. ASSUME NEW c \in Conn, FlusherEnds(c) PROVE LinkOK'
    BY <1>2, <1>4, <2>4 DEF FlusherEnds
  <2> QED BY <1>4, <2>1, <2>2, <2>3, <2>4 DEF FlushStep
<1> QED BY <1>2, <1>3, <1>4 DEF Next, WhaleNext, Tick, vars, market, whale

(* A goroutine that takes an accumulator makes a record nobody has.         *)
LEMMA FlushMoves ==
  ASSUME TypeOK, PlacesInv, NEW c \in Conn, Flush(c), UNCHANGED heard
  PROVE  NotYet' /\ TradesAccounted'
<1>1. PICK new : /\ new = [trades |-> acc[c], ts |-> now] /\ flying[c] = {} /\ acc[c] # {}
                 /\ flying' = [flying EXCEPT ![c] = {new}]
                 /\ acc' = [acc EXCEPT ![c] = {}]
                 /\ UNCHANGED <<flushers, doubtful, wstream, wreader, lost, belated>>
  BY FlushEffect DEF PlacesInv
<1>2. new.trades = acc[c]
  BY <1>1
<1>3. /\ flying'[c] = {new} /\ \A d \in Conn : d # c => flying'[d] = flying[d]
      /\ acc'[c] = {} /\ \A d \in Conn : d # c => acc'[d] = acc[d]
  BY <1>1, WhaleTypes
<1>4. Records' = Records \cup {new}
  <2>1. UNION {flying'[d] : d \in Conn} = (UNION {flying[d] : d \in Conn}) \cup {new}
    BY <1>1, <1>3
  <2> QED BY <1>1, <2>1 DEF Records
<1>5. \A rec \in Records : Apart(rec.trades, new.trades) /\ rec # new
  <2> SUFFICES ASSUME NEW rec \in Records PROVE Apart(rec.trades, new.trades) /\ rec # new
    OBVIOUS
  <2>1. Apart(rec.trades, acc[c])
    BY DEF PlacesInv, TradesAccounted
  <2> QED BY <1>1, <1>2, <2>1 DEF Apart
<1>6. NotYet'
  <2>1. \A r \in wstream.recs : r.fields \in Records
    BY DEF Records
  <2>2. \A d \in Conn : flying[d] \subseteq Records
    BY DEF Records
  <2> QED BY <1>1, <1>2, <1>3, <1>5, <2>1, <2>2 DEF PlacesInv, NotYet
<1>7. (1..heard)' = (lost \cup (UNION {acc[d] : d \in Conn})
                       \cup UNION {rec.trades : rec \in Records})'
  <2>1. \A t : t \in UNION {rec.trades : rec \in Records'}
                <=> t \in acc[c] \/ t \in UNION {rec.trades : rec \in Records}
    <3>1. \A t : t \in UNION {rec.trades : rec \in Records'} <=> \E rec \in Records' : t \in rec.trades
      OBVIOUS
    <3>2. \A t : t \in UNION {rec.trades : rec \in Records} <=> \E rec \in Records : t \in rec.trades
      OBVIOUS
    <3> QED BY <1>2, <1>4, <3>1, <3>2
  <2>2. \A t : t \in UNION {acc[d] : d \in Conn}
                <=> t \in acc[c] \/ t \in UNION {acc'[d] : d \in Conn}
    BY <1>3
  <2>3. 1..heard = lost \cup (UNION {acc[d] : d \in Conn})
                        \cup UNION {rec.trades : rec \in Records}
    BY DEF PlacesInv, TradesAccounted
  <2>4. heard' = heard /\ lost' = lost
    BY <1>1
  <2>5. lost \cup (UNION {acc[d] : d \in Conn}) \cup (UNION {rec.trades : rec \in Records})
          = lost \cup (UNION {acc'[d] : d \in Conn}) \cup (UNION {rec.trades : rec \in Records'})
    <3> DEFINE A == UNION {acc[d] : d \in Conn}
               B == UNION {rec.trades : rec \in Records}
               C == UNION {acc'[d] : d \in Conn}
               D == UNION {rec.trades : rec \in Records'}
    <3>1. \A t : (t \in D <=> t \in acc[c] \/ t \in B) /\ (t \in A <=> t \in acc[c] \/ t \in C)
      BY <2>1, <2>2
    <3> HIDE DEF A, B, C, D
    <3> QED BY <3>1 DEF A, B, C, D
  <2> QED BY <2>3, <2>4, <2>5
<1>8. \A d \in Conn : Apart(acc'[d], lost) /\ \A e \in Conn \ {d} : Apart(acc'[d], acc'[e])
  BY <1>3 DEF PlacesInv, TradesAccounted, Apart
<1>9. \A rec \in Records' : /\ Apart(rec.trades, lost)
                            /\ \A d \in Conn : Apart(rec.trades, acc'[d])
                            /\ \A other \in Records' \ {rec} : Apart(rec.trades, other.trades)
  <2>1. /\ Apart(new.trades, lost) /\ \A d \in Conn : Apart(new.trades, acc'[d])
        /\ \A other \in Records' \ {new} : Apart(new.trades, other.trades)
    BY <1>2, <1>3, <1>4, <1>5 DEF PlacesInv, TradesAccounted, Apart
  <2>2. ASSUME NEW rec \in Records
        PROVE /\ Apart(rec.trades, lost) /\ \A d \in Conn : Apart(rec.trades, acc'[d])
              /\ \A other \in Records' \ {rec} : Apart(rec.trades, other.trades)
    BY <1>3, <1>4, <1>5 DEF PlacesInv, TradesAccounted, Apart
  <2> QED BY <1>4, <2>1, <2>2
<1>10. \A r, s \in wstream.recs : r.id # s.id /\ r.fields = s.fields => r.fields \in doubtful
  BY DEF PlacesInv, TradesAccounted
<1> QED BY <1>1, <1>6, <1>7, <1>8, <1>9, <1>10 DEF TradesAccounted

(* A record that is added, or whose XADD fails, is a record as before.      *)
LEMMA SameRecords ==
  ASSUME TradesAccounted, UNCHANGED <<heard, acc, lost>>, Records' = Records,
         \A r, s \in wstream'.recs : r.id # s.id /\ r.fields = s.fields => r.fields \in doubtful'
  PROVE  TradesAccounted'
BY DEF TradesAccounted, Apart

LEMMA SentMoves ==
  ASSUME TypeOK, PlacesInv, NEW c \in Conn, Sent(c), UNCHANGED heard
  PROVE  NotYet' /\ TradesAccounted'
<1>1. PICK rec \in flying[c] :
        /\ flying' = [flying EXCEPT ![c] = {}]
        /\ wstream'.recs = wstream.recs \cup {[id |-> wstream.len + 1, fields |-> rec]}
        /\ UNCHANGED <<acc, flushers, doubtful, lost>>
  BY SentEffect DEF PlacesInv
<1>2. PICK new : new = [id |-> wstream.len + 1, fields |-> rec]
  OBVIOUS
<1>3. new.fields = rec /\ wstream'.recs = wstream.recs \cup {new}
  BY <1>1, <1>2
<1>4. flying'[c] = {} /\ \A d \in Conn : d # c => flying'[d] = flying[d]
  BY <1>1, WhaleTypes
<1>5. flying[c] = {rec}
  BY <1>1 DEF PlacesInv, LinkOK
<1>6. Records' = Records
  <2>1. UNION {flying[d] : d \in Conn} = (UNION {flying'[d] : d \in Conn}) \cup {rec}
    BY <1>4, <1>5
  <2>2. {r.fields : r \in wstream'.recs} = {r.fields : r \in wstream.recs} \cup {rec}
    BY <1>3
  <2> QED BY <1>1, <2>1, <2>2 DEF Records
<1>7. \A r \in wstream.recs : r.fields = rec => rec \in doubtful
  BY <1>1 DEF PlacesInv, NotYet
<1>8. \A r, s \in wstream'.recs : r.id # s.id /\ r.fields = s.fields => r.fields \in doubtful'
  BY <1>1, <1>3, <1>7 DEF PlacesInv, TradesAccounted
<1>9. NotYet'
  BY <1>1, <1>3, <1>4 DEF PlacesInv, NotYet
<1> QED BY <1>1, <1>6, <1>8, <1>9, SameRecords DEF PlacesInv

LEMMA FailureMoves ==
  ASSUME TypeOK, PlacesInv, NEW c \in Conn, SendFails(c), UNCHANGED heard
  PROVE  NotYet' /\ TradesAccounted'
<1>1. PICK rec \in flying[c] :
        /\ doubtful' = doubtful \cup {rec}
        /\ flying' \in {flying, [flying EXCEPT ![c] = {}]}
        /\ UNCHANGED <<acc, wstream, lost>>
  BY FailsEffect DEF PlacesInv
<1>2. \A d \in Conn : flying'[d] \subseteq flying[d] /\ flying[d] \subseteq flying'[d] \cup {rec}
  <2>1. flying[c] = {rec}
    BY <1>1 DEF PlacesInv, LinkOK
  <2> QED BY <1>1, <2>1, WhaleTypes
<1>3. Records' = Records
  <2>1. (UNION {flying'[d] : d \in Conn}) \cup {rec} = UNION {flying[d] : d \in Conn}
    BY <1>1, <1>2
  <2> QED BY <1>1, <2>1 DEF Records
<1>4. \A r, s \in wstream'.recs : r.id # s.id /\ r.fields = s.fields => r.fields \in doubtful'
  BY <1>1 DEF PlacesInv, TradesAccounted
<1>5. NotYet'
  BY <1>1, <1>2 DEF PlacesInv, NotYet
<1> QED BY <1>1, <1>3, <1>4, <1>5, SameRecords DEF PlacesInv

LEMMA LandMoves ==
  ASSUME TypeOK, PlacesInv, Land, UNCHANGED heard
  PROVE  NotYet' /\ TradesAccounted'
<1>1. PICK rec \in doubtful :
        /\ wstream'.recs = wstream.recs \cup {[id |-> wstream.len + 1, fields |-> rec]}
        /\ UNCHANGED <<acc, flying, doubtful, lost>>
  BY LandEffect
<1>2. PICK new : new = [id |-> wstream.len + 1, fields |-> rec]
  OBVIOUS
<1>3. new.fields = rec /\ wstream'.recs = wstream.recs \cup {new}
  BY <1>1, <1>2
<1>4. Records' = Records
  <2>1. {r.fields : r \in wstream'.recs} = {r.fields : r \in wstream.recs} \cup {rec}
    BY <1>3
  <2> QED BY <1>1, <2>1 DEF Records
<1>5. \A r, s \in wstream'.recs : r.id # s.id /\ r.fields = s.fields => r.fields \in doubtful'
  BY <1>1, <1>3 DEF PlacesInv, TradesAccounted
<1>6. NotYet'
  BY <1>1, <1>3 DEF PlacesInv, NotYet
<1> QED BY <1>1, <1>4, <1>5, <1>6, SameRecords DEF PlacesInv

LEMMA EndMoves ==
  ASSUME TypeOK, PlacesInv, NEW c \in Conn, FlusherEnds(c), UNCHANGED heard
  PROVE  NotYet' /\ TradesAccounted'
<1>1. /\ acc'[c] = {} /\ \A d \in Conn : d # c => acc'[d] = acc[d]
      /\ lost' = lost \cup acc[c] /\ UNCHANGED <<flying, doubtful, wstream>>
  BY WhaleTypes DEF FlusherEnds
<1>2. Records' = Records
  BY <1>1 DEF Records
<1>3. NotYet'
  BY <1>1 DEF PlacesInv, NotYet
<1>4. UNION {acc[d] : d \in Conn} = (UNION {acc'[d] : d \in Conn}) \cup acc[c]
  BY <1>1
<1>5. \A d \in Conn : Apart(acc'[d], lost') /\ \A e \in Conn \ {d} : Apart(acc'[d], acc'[e])
  BY <1>1 DEF PlacesInv, TradesAccounted, Apart
<1>6. \A rec \in Records : Apart(rec.trades, lost') /\ \A d \in Conn : Apart(rec.trades, acc'[d])
  BY <1>1 DEF PlacesInv, TradesAccounted, Apart
<1> QED BY <1>1, <1>2, <1>3, <1>4, <1>5, <1>6 DEF PlacesInv, TradesAccounted

(* A new trade is nowhere else yet.                                         *)
LEMMA TradeMoves ==
  ASSUME TypeOK, PlacesInv, Trade, UNCHANGED <<flying, doubtful, wstream, lost>>
  PROVE  NotYet' /\ TradesAccounted'
<1>1. link.conn \in Conn
  BY DEF Trade, PlacesInv, LinkOK
<1>2. PICK c \in Conn : c = link.conn
  BY <1>1
<1>3. PICK t \in Nat : t = heard + 1
  BY WhaleTypes
<1>4. /\ acc'[c] = acc[c] \cup {t} /\ \A d \in Conn : d # c => acc'[d] = acc[d] /\ heard' = t
  BY <1>2, <1>3, WhaleTypes DEF Trade
<1>5. t \notin 1..heard /\ 1..t = (1..heard) \cup {t} /\ heard' = t
  BY <1>3, WhaleTypes DEF Trade
<1>6. Records' = Records
  BY DEF Records
<1>7. t \notin lost /\ (\A d \in Conn : t \notin acc[d]) /\ \A rec \in Records : t \notin rec.trades
  BY <1>5 DEF PlacesInv, TradesAccounted
<1>8. UNION {acc'[d] : d \in Conn} = (UNION {acc[d] : d \in Conn}) \cup {t}
  BY <1>4
<1>9. \A d \in Conn : Apart(acc'[d], lost) /\ \A e \in Conn \ {d} : Apart(acc'[d], acc'[e])
  BY <1>4, <1>7 DEF PlacesInv, TradesAccounted, Apart
<1>10. \A rec \in Records : \A d \in Conn : Apart(rec.trades, acc'[d])
  BY <1>4, <1>7 DEF PlacesInv, TradesAccounted, Apart
<1>11. NotYet'
  BY DEF PlacesInv, NotYet
<1> QED BY <1>5, <1>6, <1>8, <1>9, <1>10, <1>11 DEF PlacesInv, TradesAccounted

LEMMA PlacesStart == Init => PlacesInv
<1> SUFFICES ASSUME Init PROVE PlacesInv
  OBVIOUS
<1>1. PICK s \in Settings : WhaleInit(s.whale, s.trades, s.faults)
  BY DEF Init
<1>2. /\ link.conn = 0 /\ link.at # "open" /\ \A c \in Conn : acc[c] = {} /\ flying[c] = {}
      /\ lost = {} /\ wstream.recs = {} /\ heard = 0 /\ doubtful = {}
  BY <1>1 DEF WhaleInit, NewStream
<1>3. LinkOK /\ NotYet
  BY <1>2, Constants DEF LinkOK, NotYet
<1>4. Records = {}
  BY <1>2 DEF Records
<1>5. 1..heard = {}
  BY <1>2
<1> QED BY <1>2, <1>3, <1>4, <1>5 DEF PlacesInv, TradesAccounted, Apart

LEMMA PlacesKept == TypeOK /\ PlacesInv /\ [Next]_vars => PlacesInv'
<1> SUFFICES ASSUME TypeOK, PlacesInv, [Next]_vars PROVE NotYet' /\ TradesAccounted'
  BY LinkKept DEF PlacesInv
<1>1. ASSUME UNCHANGED <<acc, flying, doubtful, wstream, heard, lost>>
      PROVE  NotYet' /\ TradesAccounted'
  <2>1. Records' = Records
    BY <1>1 DEF Records
  <2>2. NotYet'
    BY <1>1 DEF PlacesInv, NotYet
  <2> QED BY <1>1, <2>1, <2>2, SameRecords DEF PlacesInv, TradesAccounted
<1>2. CASE LinkStep /\ UNCHANGED <<flying, doubtful, wstream, wreader, buf, lost, belated, missed>>
  <2>1. CASE Trade
    BY <1>2, <2>1, TradeMoves
  <2>2. CASE ~Trade
    BY <1>1, <1>2, <2>2 DEF LinkStep, Connect, Disconnect, Redial
  <2> QED BY <2>1, <2>2
<1>3. CASE FlushStep /\ UNCHANGED <<link, buf, heard, missed, trades>>
  BY <1>3, FlushMoves, SentMoves, FailureMoves, EndMoves, LandMoves DEF FlushStep
<1>4. CASE (AskFlow \/ NoFlow \/ TakeFlow)
             /\ UNCHANGED <<link, acc, flushers, flying, doubtful, wstream, heard, lost,
                            belated, trades, losses>>
  BY <1>1, <1>4
<1>5. CASE UNCHANGED whale
  BY <1>1, <1>5 DEF whale
<1> QED BY <1>2, <1>3, <1>4, <1>5 DEF Next, WhaleNext, Tick, vars

(* No trade is in two records or left behind, and no record is in the       *)
(* stream twice unless an XADD of it failed, for any number of trades,      *)
(* connections and failures.                                                *)
THEOREM TradesStay == Spec => []TradesAccounted
<1>1. PlacesInv => TradesAccounted
  BY DEF PlacesInv
<1> QED BY <1>1, PlacesStart, PlacesKept, FeedsType, PTL DEF Spec

-----------------------------------------------------------------------------
(* The whale's side: the order of the records                               *)

(* Of the records that did not go astray, the later one is the newer; and   *)
(* what an open connection has on its way is newer than all of them.        *)
InOrder ==
  /\ \A r \in wstream.recs : r.id <= wstream.len /\ r.fields.ts <= now
  /\ \A r, s \in wstream.recs : r.id = s.id => r = s
  /\ \A r, s \in wstream.recs :
       ~Astray(r) /\ ~Astray(s) /\ r.id < s.id => r.fields.ts <= s.fields.ts
  /\ \A rec \in doubtful : rec.ts <= now
  /\ \A i \in belated : i <= wstream.len
  /\ \A c \in Conn : \A rec \in flying[c] :
       /\ rec.ts <= now
       /\ Open(c) /\ rec \notin doubtful =>
            \A r \in wstream.recs : ~Astray(r) => r.fields.ts <= rec.ts

\* A connection that has not been made has nothing on its way.
Unmade == \A c \in Conn : c > link.conn => flying[c] = {} /\ c \notin flushers

OrderInv == LinkOK /\ Unmade /\ InOrder

LEMMA OrderTypes ==
  ASSUME TypeOK
  PROVE  /\ wstream.len \in Nat /\ now \in Nat /\ link.conn \in Nat
         /\ \A r \in wstream.recs : r.id \in Nat /\ r.fields.ts \in Nat
         /\ \A c \in Conn : \A rec \in flying[c] : rec.ts \in Nat
         /\ \A rec \in doubtful : rec.ts \in Nat
         /\ belated \subseteq Nat /\ Conn \subseteq Nat
<1>1. wstream.len \in Nat /\ wstream.recs \subseteq [id : Nat, fields : Sum]
  BY WhaleTypes DEF StreamOf
<1>2. \A r \in wstream.recs : r.id \in Nat /\ r.fields.ts \in Nat
  BY <1>1 DEF Sum
<1>3. \A rec \in doubtful : rec.ts \in Nat
  BY WhaleTypes DEF Sum
<1>4. Conn \subseteq Nat
  BY Constants DEF Conn
<1> QED BY <1>1, <1>2, <1>3, <1>4, WhaleTypes

LEMMA OrderStart == Init => OrderInv
<1> SUFFICES ASSUME Init PROVE OrderInv
  OBVIOUS
<1>1. PICK s \in Settings : WhaleInit(s.whale, s.trades, s.faults)
  BY DEF Init
<1>2. /\ wstream.recs = {} /\ flushers = {} /\ \A c \in Conn : flying[c] = {}
      /\ doubtful = {} /\ belated = {}
  BY <1>1 DEF WhaleInit, NewStream
<1>3. LinkOK
  BY PlacesStart DEF PlacesInv
<1> QED BY <1>2, <1>3 DEF OrderInv, InOrder, Unmade

(* The clock only makes things older.                                       *)
LEMMA OrderTick ==
  ASSUME TypeOK, OrderInv, Tick
  PROVE  Unmade' /\ InOrder'
<1>1. now' = now + 1 /\ UNCHANGED <<link, acc, flushers, flying, doubtful, wstream, belated>>
  BY DEF Tick, whale
<1>2. \A n \in Nat : n <= now => n <= now + 1
  BY OrderTypes
<1>3. InOrder'
  BY <1>1, <1>2, OrderTypes DEF OrderInv, InOrder, Astray, Open
<1> QED BY <1>1, <1>3 DEF OrderInv, Unmade

(* A connection that is made has nothing on its way.                        *)
LEMMA OrderLink ==
  ASSUME TypeOK, OrderInv, LinkStep,
         UNCHANGED <<now, flying, doubtful, wstream, wreader, buf, lost, belated, missed>>
  PROVE  Unmade' /\ InOrder'
<1>1. ASSUME \A c \in Conn : Open(c)' /\ ~Open(c) => flying[c] = {} PROVE InOrder'
  BY <1>1 DEF OrderInv, InOrder, Astray
<1>2. CASE Connect
  <2>1. /\ link'.conn = link.conn + 1 /\ flushers' = flushers \cup {link.conn + 1}
    BY <1>2, WhaleTypes DEF Connect, Links
  <2>2. flying[link.conn + 1] = {} \/ link.conn + 1 \notin Conn
    BY OrderTypes DEF OrderInv, Unmade
  <2>3. \A c \in Conn : Open(c)' /\ ~Open(c) => flying[c] = {}
    BY <2>1, <2>2 DEF Open
  <2>4. Unmade'
    BY <2>1, OrderTypes DEF OrderInv, Unmade
  <2> QED BY <1>1, <2>3, <2>4
<1>3. CASE Disconnect \/ Redial
  <2>1. link'.conn = link.conn /\ link'.at \in {"pause", "dial"} /\ UNCHANGED flushers
    BY <1>3, WhaleTypes DEF Disconnect, Redial, Links
  <2> QED BY <1>1, <2>1 DEF OrderInv, Unmade, Open
<1>4. CASE Trade
  <2>1. UNCHANGED <<link, flushers>>
    BY <1>4 DEF Trade
  <2> QED BY <1>1, <2>1 DEF OrderInv, Unmade, Open
<1> QED BY <1>2, <1>3, <1>4 DEF LinkStep

(* A record that is added stays in order with those that did not go astray, *)
(* if it does not go astray itself.                                         *)
LEMMA OrderAdded ==
  ASSUME TypeOK, OrderInv, NEW new, new.id = wstream.len + 1, new.fields.ts \in Nat,
         wstream'.len = wstream.len + 1, wstream'.recs = wstream.recs \cup {new},
         new.fields.ts <= now, UNCHANGED <<now, link, doubtful>>,
         belated' \subseteq belated \cup {new.id}, belated \subseteq belated',
         \A c \in Conn : flying'[c] \subseteq flying[c],
         ~Astray(new)' => /\ \A r \in wstream.recs : ~Astray(r) => r.fields.ts <= new.fields.ts
                          /\ \A c \in Conn : flying'[c] # {} => ~Open(c)
  PROVE  InOrder'
<1>1. \A r \in wstream.recs : r.id \in Nat /\ r.id <= wstream.len /\ r.id < new.id
  BY OrderTypes DEF OrderInv, InOrder
<1>2. \A r \in wstream.recs : Astray(r)' <=> Astray(r)
  BY <1>1, OrderTypes DEF Astray
<1>3. \A r \in wstream'.recs : r.id <= wstream'.len /\ r.fields.ts <= now'
  BY <1>1, OrderTypes DEF OrderInv, InOrder
<1>4. \A r, s \in wstream'.recs : r.id = s.id => r = s
  BY <1>1, OrderTypes DEF OrderInv, InOrder
<1>5. \A r, s \in wstream'.recs :
        ~Astray(r)' /\ ~Astray(s)' /\ r.id < s.id => r.fields.ts <= s.fields.ts
  <2> SUFFICES ASSUME NEW r \in wstream'.recs, NEW s \in wstream'.recs,
                      ~Astray(r)', ~Astray(s)', r.id < s.id
               PROVE  r.fields.ts <= s.fields.ts
    OBVIOUS
  <2>1. CASE r \in wstream.recs /\ s \in wstream.recs
    BY <1>2, <2>1 DEF OrderInv, InOrder
  <2>2. CASE r \in wstream.recs /\ s = new
    BY <1>2, <2>2
  <2>3. CASE r = new
    BY <1>1, <2>3, OrderTypes
  <2> QED BY <2>1, <2>2, <2>3
<1>6. \A i \in belated' : i <= wstream'.len
  BY OrderTypes DEF OrderInv, InOrder
<1>7. \A c \in Conn : \A rec \in flying'[c] :
        /\ rec.ts <= now
        /\ Open(c) /\ rec \notin doubtful =>
             \A r \in wstream'.recs : ~Astray(r)' => r.fields.ts <= rec.ts
  <2> SUFFICES ASSUME NEW c \in Conn, NEW rec \in flying'[c]
               PROVE  /\ rec.ts <= now
                      /\ Open(c) /\ rec \notin doubtful =>
                           \A r \in wstream'.recs : ~Astray(r)' => r.fields.ts <= rec.ts
    OBVIOUS
  <2>1. rec \in flying[c]
    OBVIOUS
  <2> QED BY <1>2, <2>1 DEF OrderInv, InOrder
<1> QED BY <1>3, <1>4, <1>5, <1>6, <1>7 DEF OrderInv, InOrder, Open

(* An open connection publishes in the order in which it takes.             *)
LEMMA OrderFlush ==
  ASSUME TypeOK, OrderInv, FlushStep, UNCHANGED <<now, link>>
  PROVE  Unmade' /\ InOrder'
<1>1. ASSUME NEW c \in Conn, Flush(c) PROVE Unmade' /\ InOrder'
  <2>1. PICK new : /\ new = [trades |-> acc[c], ts |-> now]
                   /\ flying' = [flying EXCEPT ![c] = {new}]
                   /\ UNCHANGED <<flushers, doubtful, wstream, belated>>
    BY <1>1, FlushEffect DEF OrderInv
  <2>2. new.ts = now
    BY <2>1
  <2>3. flying'[c] = {new} /\ \A d \in Conn : d # c => flying'[d] = flying[d]
    BY <2>1, WhaleTypes
  <2>4. c \in flushers
    BY <1>1 DEF Flush, MayFlush
  <2>5. Unmade'
    BY <2>1, <2>3, <2>4 DEF OrderInv, Unmade
  <2>6. \A d \in Conn : \A rec \in flying'[d] :
          /\ rec.ts <= now
          /\ Open(d) /\ rec \notin doubtful =>
               \A r \in wstream.recs : ~Astray(r) => r.fields.ts <= rec.ts
    BY <2>2, <2>3, OrderTypes DEF OrderInv, InOrder
  <2>7. InOrder'
    BY <2>1, <2>6 DEF OrderInv, InOrder, Astray, Open
  <2> QED BY <2>5, <2>7
<1>2. ASSUME NEW c \in Conn, Sent(c) PROVE Unmade' /\ InOrder'
  <2>1. PICK rec \in flying[c] :
          /\ rec \in Sum /\ flying' = [flying EXCEPT ![c] = {}]
          /\ wstream'.len = wstream.len + 1
          /\ wstream'.recs = wstream.recs \cup {[id |-> wstream.len + 1, fields |-> rec]}
          /\ belated' = IF Open(c) THEN belated ELSE belated \cup {wstream.len + 1}
          /\ UNCHANGED <<acc, flushers, doubtful, lost>>
    BY <1>2, SentEffect DEF OrderInv
  <2>2. PICK new : new = [id |-> wstream.len + 1, fields |-> rec]
    OBVIOUS
  <2>3. new.id = wstream.len + 1 /\ new.fields = rec /\ wstream'.recs = wstream.recs \cup {new}
    BY <2>1, <2>2
  <2>4. flying'[c] = {} /\ \A d \in Conn : d # c => flying'[d] = flying[d]
    BY <2>1, WhaleTypes
  <2>5. Unmade'
    BY <2>1, <2>4 DEF OrderInv, Unmade
  <2>6. new.fields.ts \in Nat /\ new.fields.ts <= now
    BY <2>1, <2>3, OrderTypes DEF OrderInv, InOrder
  <2>7. ASSUME ~Astray(new)'
        PROVE  /\ \A r \in wstream.recs : ~Astray(r) => r.fields.ts <= new.fields.ts
               /\ \A d \in Conn : flying'[d] # {} => ~Open(d)
    <3>1. Open(c) /\ rec \notin doubtful
      BY <2>1, <2>3, <2>7 DEF Astray
    <3> QED BY <2>1, <2>3, <2>4, <3>1 DEF OrderInv, InOrder, Open
  <2>8. belated' \subseteq belated \cup {new.id} /\ belated \subseteq belated'
    BY <2>1, <2>3
  <2>9. \A d \in Conn : flying'[d] \subseteq flying[d]
    BY <2>4
  <2> QED BY <2>1, <2>3, <2>5, <2>6, <2>7, <2>8, <2>9, OrderAdded
<1>3. ASSUME NEW c \in Conn, SendFails(c) PROVE Unmade' /\ InOrder'
  <2>1. PICK rec \in flying[c] :
          /\ doubtful' = doubtful \cup {rec}
          /\ flying' \in {flying, [flying EXCEPT ![c] = {}]}
          /\ UNCHANGED <<flushers, wstream, belated>>
    BY <1>3, FailsEffect DEF OrderInv
  <2>2. \A d \in Conn : flying'[d] \subseteq flying[d]
    BY <2>1, WhaleTypes
  <2>3. \A r : Astray(r) => Astray(r)'
    BY <2>1 DEF Astray
  <2>4. \A other \in doubtful' : other.ts <= now
    BY <2>1 DEF OrderInv, InOrder
  <2>5. InOrder'
    BY <2>1, <2>2, <2>3, <2>4 DEF OrderInv, InOrder, Open
  <2> QED BY <2>1, <2>2, <2>5 DEF OrderInv, Unmade
<1>4. CASE Land
  <2>1. PICK rec \in doubtful :
          /\ wstream'.len = wstream.len + 1
          /\ wstream'.recs = wstream.recs \cup {[id |-> wstream.len + 1, fields |-> rec]}
          /\ UNCHANGED <<flushers, flying, doubtful, belated>>
    BY <1>4, LandEffect
  <2>2. PICK new : new = [id |-> wstream.len + 1, fields |-> rec]
    OBVIOUS
  <2>3. new.id = wstream.len + 1 /\ new.fields = rec /\ wstream'.recs = wstream.recs \cup {new}
    BY <2>1, <2>2
  <2>4. Astray(new)' /\ new.fields.ts \in Nat /\ new.fields.ts <= now
    BY <2>1, <2>3, OrderTypes DEF Astray, OrderInv, InOrder
  <2>5. InOrder'
    BY <2>1, <2>3, <2>4, OrderAdded
  <2> QED BY <2>1, <2>5 DEF OrderInv, Unmade
<1>5. ASSUME NEW c \in Conn, FlusherEnds(c) PROVE Unmade' /\ InOrder'
  BY <1>5 DEF FlusherEnds, OrderInv, Unmade, InOrder, Astray, Open
<1> QED BY <1>1, <1>2, <1>3, <1>4, <1>5 DEF FlushStep

LEMMA OrderKept == TypeOK /\ OrderInv /\ [Next]_vars => OrderInv'
<1> SUFFICES ASSUME TypeOK, OrderInv, [Next]_vars PROVE Unmade' /\ InOrder'
  BY LinkKept DEF OrderInv
<1>1. ASSUME UNCHANGED <<now, link, flushers, flying, doubtful, wstream, belated>>
      PROVE Unmade' /\ InOrder'
  BY <1>1 DEF OrderInv, Unmade, InOrder, Astray, Open
<1>2. CASE Tick
  BY <1>2, OrderTick
<1>3. CASE (MarketNext /\ UNCHANGED <<now, whale>>) \/ UNCHANGED vars
  BY <1>1, <1>3 DEF whale, vars
<1>4. CASE WhaleNext /\ UNCHANGED <<now, market>>
  <2>1. CASE LinkStep /\ UNCHANGED <<flying, doubtful, wstream, wreader, buf, lost, belated, missed>>
    BY <1>4, <2>1, OrderLink
  <2>2. CASE FlushStep /\ UNCHANGED <<link, buf, heard, missed, trades>>
    BY <1>4, <2>2, OrderFlush
  <2>3. CASE (AskFlow \/ NoFlow \/ TakeFlow)
               /\ UNCHANGED <<link, acc, flushers, flying, doubtful, wstream, heard, lost,
                              belated, trades, losses>>
    BY <1>1, <1>4, <2>3
  <2> QED BY <1>4, <2>1, <2>2, <2>3 DEF WhaleNext
<1> QED BY <1>2, <1>3, <1>4 DEF Next

-----------------------------------------------------------------------------
(* The whale's side: what the brain has read                                *)

(* What is kept was read and not missed, and what should be summed is kept. *)
Read(r, b, m, recs) ==
  /\ r.tail => b = {} /\ m = {}
  /\ r.tail /\ r.at # "idle" => r.since = r.cursor
  /\ ~r.tail => r.since <= r.cursor
  /\ \A i \in m : i <= r.cursor
  /\ \A x \in b : x \in recs /\ r.since < x.id /\ x.id <= r.cursor /\ x.id \notin m

Expected == {rec \in WasRead : Recent(rec)}

ReaderInv ==
  /\ wstream.gone <= wstream.len /\ wreader.cursor <= wstream.len
  /\ wreader.at = "answered" => wreader.cursor <= wreader.upto /\ wreader.upto <= wstream.len
  /\ Read(wreader, buf, missed, wstream.recs)
  /\ ~wreader.tail => Expected \subseteq buf

LEMMA ReaderTypes ==
  ASSUME TypeOK
  PROVE  /\ wreader \in ReaderType /\ wstream \in StreamOf(Sum) /\ missed \subseteq Nat
         /\ wreader.cursor \in Nat /\ wreader.upto \in Nat /\ wreader.since \in Nat
         /\ wreader.tail \in BOOLEAN /\ wstream.len \in Nat /\ wstream.gone \in Nat
         /\ \A r \in wstream.recs : r.id \in Nat /\ r.fields.ts \in Nat
         /\ \A r \in buf : r.id \in Nat /\ r.fields.ts \in Nat
         /\ now \in Nat /\ Span \in Nat /\ Count \in Nat \ {0}
<1>1. /\ wreader \in ReaderType /\ wstream \in StreamOf(Sum) /\ missed \subseteq Nat
      /\ buf \subseteq Stamped /\ now \in Nat
  BY DEF TypeOK, WhaleTypeOK, StreamOf, Stamped
<1>2. /\ wreader.cursor \in Nat /\ wreader.upto \in Nat /\ wreader.since \in Nat
      /\ wreader.tail \in BOOLEAN
  BY <1>1 DEF ReaderType
<1>3. wstream.len \in Nat /\ wstream.gone \in Nat /\ wstream.recs \subseteq [id : Nat, fields : Sum]
  BY <1>1 DEF StreamOf
<1>4. \A r \in wstream.recs : r.id \in Nat /\ r.fields.ts \in Nat
  BY <1>3 DEF Sum
<1>5. \A r \in buf : r.id \in Nat /\ r.fields.ts \in Nat
  BY <1>1 DEF Sum, Stamped
<1> QED BY <1>1, <1>2, <1>3, <1>4, <1>5, Constants, TailAssumption

LEMMA ReaderStart == Init => ReaderInv
<1> SUFFICES ASSUME Init PROVE ReaderInv
  OBVIOUS
<1>1. PICK s \in Settings : WhaleInit(s.whale, s.trades, s.faults)
  BY DEF Init
<1>2. /\ wstream.len = 0 /\ wstream.gone = 0 /\ wstream.recs = {} /\ buf = {} /\ missed = {}
      /\ wreader.tail /\ wreader.cursor = 0 /\ wreader.at = "idle"
  BY <1>1 DEF WhaleInit, NewStream, NewReader
<1> QED BY <1>2 DEF ReaderInv, Read

(* A call skips what was trimmed and remembers that it did.                 *)
LEMMA ReadAsked ==
  ASSUME TypeOK, ReaderInv, AskFlow, UNCHANGED <<now, wstream>>
  PROVE  ReaderInv'
<1>1. PICK from \in Nat : from = From(wreader, wstream)
  BY ReaderTypes, ReaderSteps
<1>2. PICK upto \in Nat : upto = Upto(wreader, wstream)
  BY ReaderTypes, ReaderSteps
<1>3. /\ wreader'.cursor = from /\ wreader'.upto = upto /\ wreader'.tail = wreader.tail
      /\ wreader'.since = (IF wreader.tail THEN from ELSE wreader.since)
  BY <1>1, <1>2, ReaderTypes DEF AskFlow, Asking, ReaderType
<1>4. /\ wstream.gone <= wstream.len /\ wreader.cursor <= wstream.len
      /\ Read(wreader, buf, missed, wstream.recs)
      /\ ~wreader.tail => Expected \subseteq buf
  BY DEF ReaderInv
<1>5. /\ wreader.tail => from = wstream.len
      /\ ~wreader.tail /\ wreader.cursor > wstream.gone => from = wreader.cursor
      /\ ~wreader.tail /\ ~(wreader.cursor > wstream.gone) => from = wstream.gone
  BY <1>1 DEF From
<1>6. from <= wstream.len /\ (~wreader.tail => wreader.cursor <= from /\ wstream.gone <= from)
  BY <1>4, <1>5, ReaderTypes
<1>7. from <= upto /\ upto <= wstream.len
  BY <1>1, <1>2, <1>6, ReaderTypes DEF Upto
<1>8. CASE wreader.tail
  <2>1. missed' = {} /\ buf' = {} /\ wreader'.tail
    BY <1>3, <1>4, <1>8 DEF AskFlow, Read
  <2> QED BY <1>3, <1>4, <1>6, <1>7, <1>8, <2>1 DEF ReaderInv, Read
<1>9. CASE ~wreader.tail
  <2>1. missed' = missed \cup (wreader.cursor + 1)..wstream.gone /\ buf' = buf
    BY <1>9 DEF AskFlow
  <2>2. \A i \in missed' : i <= from
    BY <1>4, <1>6, <1>9, <2>1, ReaderTypes DEF Read
  <2>3. \A x \in buf : /\ x \in wstream.recs /\ wreader.since < x.id /\ x.id <= from
                       /\ x.id \notin missed'
    BY <1>4, <1>6, <1>9, <2>1, ReaderTypes DEF Read
  <2>4. wreader.since <= from
    BY <1>4, <1>6, <1>9, ReaderTypes DEF Read
  <2>5. ASSUME NEW x \in wstream.recs, wreader.since < x.id, x.id <= from, x.id \notin missed',
               Recent(x)
        PROVE  x \in buf
    <3>1. x.id \notin missed /\ x.id <= wreader.cursor
      BY <1>5, <1>9, <2>1, <2>5, ReaderTypes
    <3> QED BY <1>4, <1>9, <2>5, <3>1 DEF Expected, WasRead
  <2>6. Expected' \subseteq buf'
    BY <1>3, <1>9, <2>1, <2>5 DEF Expected, WasRead, Recent
  <2> QED BY <1>3, <1>4, <1>6, <1>7, <1>9, <2>1, <2>2, <2>3, <2>4, <2>6 DEF ReaderInv, Read
<1> QED BY <1>8, <1>9, ReaderTypes

(* An answer adds what was read, and pruning loses nothing recent.          *)
LEMMA ReadTaken ==
  ASSUME TypeOK, ReaderInv, TakeFlow, UNCHANGED <<now, wstream>>
  PROVE  ReaderInv'
<1>1. /\ wreader'.cursor = wreader.upto /\ ~wreader'.tail /\ wreader'.since = wreader.since
      /\ wreader'.at = "idle" /\ UNCHANGED missed
      /\ buf' = Pruned(buf \cup Response(wreader, wstream))
  BY ReaderTypes DEF TakeFlow, Taken, ReaderType
<1>2. /\ wstream.gone <= wstream.len /\ wreader.at = "answered"
      /\ wreader.cursor <= wreader.upto /\ wreader.upto <= wstream.len
      /\ Read(wreader, buf, missed, wstream.recs)
      /\ ~wreader.tail => Expected \subseteq buf
  BY DEF ReaderInv, TakeFlow
<1>3. wreader.since <= wreader.cursor
  BY <1>2, ReaderTypes DEF Read
<1>4. \A i \in missed : i <= wreader.upto
  BY <1>2, ReaderTypes DEF Read
<1>5. ASSUME NEW x \in buf'
      PROVE  /\ x \in wstream.recs /\ wreader.since < x.id /\ x.id <= wreader.upto
             /\ x.id \notin missed
  <2>1. x \in buf \/ x \in Response(wreader, wstream)
    BY <1>1, <1>5 DEF Pruned
  <2>2. CASE x \in buf
    BY <1>2, <2>2, ReaderTypes DEF Read
  <2>3. CASE x \in Response(wreader, wstream)
    BY <1>2, <1>3, <2>3, ReaderTypes DEF Response, Read
  <2> QED BY <2>1, <2>2, <2>3
<1>6. ASSUME NEW x \in wstream.recs, wreader.since < x.id, x.id <= wreader.upto,
             x.id \notin missed, Recent(x)
      PROVE  x \in buf'
  <2>1. CASE x.id <= wreader.cursor
    <3>1. ~wreader.tail
      BY <1>2, <1>6, <2>1, ReaderTypes DEF Read
    <3>2. x \in buf
      BY <1>2, <1>6, <2>1, <3>1 DEF Expected, WasRead
    <3> QED BY <1>1, <1>6, <3>2, ReaderTypes DEF Pruned
  <2>2. CASE ~(x.id <= wreader.cursor)
    <3>1. x \in Response(wreader, wstream)
      BY <1>6, <2>2, ReaderTypes DEF Response
    <3> QED BY <1>1, <1>6, <3>1, ReaderTypes DEF Pruned
  <2> QED BY <2>1, <2>2
<1>7. Expected' \subseteq buf'
  BY <1>1, <1>6 DEF Expected, WasRead, Recent
<1>8. wreader.since <= wreader.upto
  BY <1>2, <1>3, ReaderTypes
<1>9. Read(wreader', buf', missed', wstream'.recs)
  BY <1>1, <1>4, <1>5, <1>8 DEF Read
<1>10. /\ wstream'.gone <= wstream'.len /\ wreader'.cursor <= wstream'.len
       /\ wreader'.at # "answered"
  BY <1>1, <1>2
<1> QED BY <1>7, <1>9, <1>10 DEF ReaderInv

(* A record that is added is not read yet.                                  *)
LEMMA ReadAdded ==
  ASSUME TypeOK, ReaderInv, NEW f \in Sum, Add(f), UNCHANGED <<now, buf, missed>>
  PROVE  ReaderInv'
<1>1. wstream' \in AfterAdd(wstream, f)
  BY DEF Add
<1>3. PICK new : new = [id |-> wstream.len + 1, fields |-> f]
  OBVIOUS
<1>4. /\ wstream'.len = wstream.len + 1 /\ wstream'.recs = wstream.recs \cup {new}
      /\ wstream'.gone <= wstream'.len
  BY <1>1, <1>3, ReaderTypes, AddedOne DEF ReaderInv
<1>5. /\ wreader'.cursor = wreader.cursor /\ wreader'.since = wreader.since
      /\ wreader'.tail = wreader.tail
      /\ wreader'.at # "idle" <=> wreader.at # "idle"
      /\ wreader'.at = "answered" =>
           \/ wreader.at = "answered" /\ wreader'.upto = wreader.upto
           \/ wreader'.upto = wstream'.len
  BY ReaderTypes DEF Add, Told, ReaderType
<1>6. wreader.cursor <= wstream.len /\ Read(wreader, buf, missed, wstream.recs)
  BY DEF ReaderInv
<1>7. new.id = wstream.len + 1
  BY <1>3
<1>8. Expected' \subseteq Expected
  BY <1>4, <1>5, <1>6, <1>7, ReaderTypes DEF Expected, WasRead, Recent
<1>9. Read(wreader', buf', missed', wstream'.recs)
  BY <1>4, <1>5, <1>6 DEF Read
<1>10. /\ wreader'.cursor <= wstream'.len
       /\ wreader'.at = "answered" => /\ wreader'.cursor <= wreader'.upto
                                      /\ wreader'.upto <= wstream'.len
  BY <1>4, <1>5, <1>6, ReaderTypes DEF ReaderInv
<1> QED BY <1>4, <1>5, <1>8, <1>9, <1>10 DEF ReaderInv

LEMMA ReaderKept == TypeOK /\ ReaderInv /\ [Next]_vars => ReaderInv'
<1> SUFFICES ASSUME TypeOK, ReaderInv, [Next]_vars PROVE ReaderInv'
  OBVIOUS
<1>1. ASSUME UNCHANGED <<now, wstream, wreader, buf, missed>> PROVE ReaderInv'
  BY <1>1 DEF ReaderInv, Expected, WasRead, Recent
<1>2. CASE Tick
  <2>1. now' = now + 1 /\ UNCHANGED <<wstream, wreader, buf, missed>>
    BY <1>2 DEF Tick, whale
  <2>2. \A x \in wstream.recs : Recent(x)' => Recent(x)
    BY <2>1, ReaderTypes DEF Recent
  <2>3. Expected' \subseteq Expected
    BY <2>1, <2>2 DEF Expected, WasRead
  <2> QED BY <2>1, <2>3 DEF ReaderInv
<1>3. CASE (MarketNext /\ UNCHANGED <<now, whale>>) \/ UNCHANGED vars
  BY <1>1, <1>3 DEF whale, vars
<1>4. CASE WhaleNext /\ UNCHANGED <<now, market>>
  <2>1. CASE LinkStep /\ UNCHANGED <<flying, doubtful, wstream, wreader, buf, lost, belated, missed>>
    BY <1>1, <1>4, <2>1
  <2>2. CASE FlushStep /\ UNCHANGED <<link, buf, heard, missed, trades>>
    <3>1. ASSUME NEW f \in Sum, Add(f) PROVE ReaderInv'
      BY <1>4, <2>2, <3>1, ReadAdded
    <3>2. CASE Land
      BY <3>1, <3>2, WhaleTypes DEF Land
    <3>3. ASSUME NEW c \in Conn, Sent(c) PROVE ReaderInv'
      BY <3>1, <3>3, WhaleTypes DEF Sent
    <3>4. ASSUME NEW c \in Conn, Flush(c) \/ SendFails(c) \/ FlusherEnds(c) PROVE ReaderInv'
      BY <1>1, <1>4, <2>2, <3>4 DEF Flush, SendFails, FlusherEnds
    <3> QED BY <2>2, <3>2, <3>3, <3>4 DEF FlushStep
  <2>3. CASE (AskFlow \/ NoFlow \/ TakeFlow)
               /\ UNCHANGED <<link, acc, flushers, flying, doubtful, wstream, heard, lost,
                              belated, trades, losses>>
    <3>1. CASE NoFlow
      <4>1. /\ wreader'.at = "idle" /\ wreader'.cursor = wreader.cursor
            /\ wreader'.since = wreader.since /\ wreader'.tail = wreader.tail
            /\ UNCHANGED <<buf, missed>>
        BY <3>1, ReaderTypes DEF NoFlow, NoAnswer, ReaderType
      <4>2. Expected' = Expected
        BY <1>4, <2>3, <4>1 DEF Expected, WasRead, Recent
      <4> QED BY <2>3, <4>1, <4>2 DEF ReaderInv, Read
    <3> QED BY <1>4, <2>3, <3>1, ReadAsked, ReadTaken
  <2> QED BY <1>4, <2>1, <2>2, <2>3 DEF WhaleNext
<1> QED BY <1>2, <1>3, <1>4 DEF Next

(* The brain's signal sums every recent record it has read and nothing it   *)
(* has not read, and what it sums besides stands behind a record of a       *)
(* closed connection or of an XADD that failed: whatever the pauses and     *)
(* however late an XADD is executed, for every length of the stream.        *)
THEOREM SignalIsTheFlow == Spec => []SignalExact
<1>1. TypeOK /\ OrderInv /\ ReaderInv => SignalExact
  <2> SUFFICES ASSUME TypeOK, OrderInv, ReaderInv, ~wreader.tail
               PROVE  /\ \A rec \in WasRead : Recent(rec) => rec \in Summed
                      /\ \A rec \in Summed :
                           /\ rec \in WasRead
                           /\ \/ Recent(rec)
                              \/ \E front \in Summed : front.id <= rec.id /\ Astray(front)
    BY DEF SignalExact
  <2>1. Read(wreader, buf, missed, wstream.recs) /\ Expected \subseteq buf
    BY DEF ReaderInv
  <2>2. ASSUME NEW x \in WasRead, Recent(x) PROVE x \in Summed
    <3>1. x \in buf /\ x.id \in Nat
      BY <2>1, <2>2, ReaderTypes DEF Expected
    <3> QED BY <2>2, <3>1 DEF Summed, Pruned
  <2>3. ASSUME NEW x \in Summed
        PROVE  /\ x \in WasRead
               /\ Recent(x) \/ \E front \in Summed : front.id <= x.id /\ Astray(front)
    <3>1. PICK front \in buf : front.id <= x.id /\ Recent(front)
      BY <2>3 DEF Summed, Pruned
    <3>2. /\ x \in buf /\ x \in wstream.recs /\ front \in wstream.recs
          /\ x.id \in Nat /\ front.id \in Nat /\ x.fields.ts \in Nat /\ front.fields.ts \in Nat
      BY <2>1, <2>3, <3>1, ReaderTypes DEF Summed, Pruned, Read
    <3>3. front \in Summed
      BY <3>1, <3>2 DEF Summed, Pruned
    <3>4. x \in WasRead
      BY <2>1, <3>2 DEF WasRead, Read
    <3>5. CASE Astray(front) \/ Astray(x)
      BY <2>3, <3>1, <3>2, <3>3, <3>4, <3>5
    <3>6. CASE ~Astray(front) /\ ~Astray(x)
      <4>1. front.fields.ts <= x.fields.ts
        <5>1. CASE front.id = x.id
          <6>1. front = x
            BY <3>2, <5>1 DEF OrderInv, InOrder
          <6> QED BY <3>2, <6>1
        <5>2. CASE front.id < x.id
          BY <3>2, <3>6, <5>2 DEF OrderInv, InOrder
        <5> QED BY <3>1, <3>2, <5>1, <5>2
      <4>2. Recent(x)
        BY <3>1, <3>2, <4>1, ReaderTypes DEF Recent
      <4> QED BY <3>4, <4>2
    <3> QED BY <3>5, <3>6
  <2> QED BY <2>2, <2>3
<1> QED BY <1>1, OrderStart, OrderKept, ReaderStart, ReaderKept, FeedsType, PTL DEF Spec

=============================================================================
