----------------------------- MODULE MarketFeed -----------------------------
(***************************************************************************)
(* The Polymarket agent (agent_polymarket.go), which follows the market of *)
(* the five-minute window it finds itself in, and the task of the brain    *)
(* that keeps the last price it published (polymarket_feed.py).            *)
(*                                                                         *)
(* A market is named by its window; 0 is the market of a static token.     *)
(***************************************************************************)
EXTENDS StreamTail

CONSTANTS WindowLen,     \* polyWindowSec
          ResolveMax,    \* a request to the gamma API, a dial and a publication
          DialMax,       \* end after so long, one way or the other (the last by
          AddMax,        \* the timeouts of the client's socket)
          ResolvePause,  \* before the next attempt, when no token was found
          DialPause,     \* ... when the connection failed
          Fresh,         \* max_stale_ms of for_window
          LastFault      \* bound: nothing fails later than this

ASSUME MarketAssumption ==
  /\ WindowLen \in Nat \ {0} /\ LastFault \in Nat
  /\ {ResolveMax, DialMax, AddMax, ResolvePause, DialPause, Fresh} \subseteq Nat

VARIABLES mode,      \* which of its settings the agent was started with
          agent,     \* the agent: where it is, its market, window_ts, and when
                     \* what it waits for has ended at the latest
          mstream,   \* stream:polymarket
          adrift,    \* records of which an XADD failed: it may yet be executed
          mreader,   \* the task of the brain that reads it
          quote,     \* PolyFeed: what the last record read says
          books,     \* bound: book events the market may still send
          faults     \* bound: what may still fail

market == <<mode, agent, mstream, adrift, mreader, quote, books, faults>>

Modes == {"off", "static", "rolling"}
AgentAt == {"off", "top", "resolve", "dial", "open", "publish", "pause"}
Quote == [token : Nat, win : Nat, ts : Nat]

MarketTypeOK ==
  /\ mode \in Modes
  /\ agent \in [at : AgentAt, token : Nat, win : Nat, ts : Nat, due : Nat]
  /\ mstream \in [len : Nat, gone : Nat, recs : SUBSET [id : Nat, fields : Quote]]
  /\ adrift \subseteq Quote /\ mreader \in ReaderType /\ quote \in Quote
  /\ books \in Nat /\ faults \in Nat

NoQuote == [token |-> 0, win |-> 0, ts |-> 0]

MarketInit(m, b, f) ==
  /\ mode = m /\ books = b /\ faults = f
  /\ agent = [at |-> IF m = "off" THEN "off" ELSE "top",
              token |-> 0, win |-> 0, ts |-> 0, due |-> 0]
  /\ mstream = NewStream /\ adrift = {} /\ mreader = NewReader /\ quote = NoQuote

Window(t) == t \div WindowLen

\* Mutant: the connection is kept for as long as it is good.
LapsedNever == FALSE

Lapsed == mode = "rolling" /\ Window(now) > agent.win
MayFail == faults > 0 /\ now <= LastFault /\ faults' = faults - 1

Go(place) == agent' = [agent EXCEPT !.at = place]

\* Mutant: the difference taken the other way round.
AwaitBack(place, long) == agent' = [agent EXCEPT !.at = place, !.due = long - now]

Await(place, long) == agent' = [agent EXCEPT !.at = place, !.due = now + long]

-----------------------------------------------------------------------------
(* RunPolymarketAgent                                                       *)

Begin == /\ agent.at = "top"
         /\ agent' = IF mode = "static"
                     THEN [agent EXCEPT !.at = "dial", !.token = 0, !.win = 0,
                                        !.due = now + DialMax]
                     ELSE [agent EXCEPT !.at = "resolve", !.win = Window(now),
                                        !.due = now + ResolveMax]
         /\ UNCHANGED <<faults, books, mstream, adrift, mreader>>

\* Mutant: the window is read off the clock once the token is there.
ResolvedLate == [agent EXCEPT !.at = "dial", !.token = agent.win, !.win = Window(now),
                              !.due = now + DialMax]

Resolved == [agent EXCEPT !.at = "dial", !.token = agent.win, !.due = now + DialMax]

ResolveEnds == /\ agent.at = "resolve" /\ agent' = Resolved
               /\ UNCHANGED <<faults, books, mstream, adrift, mreader>>

ResolveFails == /\ agent.at = "resolve" /\ MayFail /\ Await("pause", ResolvePause)
                /\ UNCHANGED <<books, mstream, adrift, mreader>>

PauseEnds == /\ agent.at = "pause" /\ now >= agent.due /\ Go("top")
             /\ UNCHANGED <<faults, books, mstream, adrift, mreader>>

-----------------------------------------------------------------------------
(* connectPoly: the context it is given ends with the window                *)

Dial == /\ agent.at = "dial" /\ ~Lapsed /\ Go("open")
        /\ UNCHANGED <<faults, books, mstream, adrift, mreader>>

DialTooLate == /\ agent.at = "dial" /\ Lapsed /\ Await("pause", DialPause)
               /\ UNCHANGED <<faults, books, mstream, adrift, mreader>>

Broken == /\ agent.at \in {"dial", "open"} /\ ~Lapsed /\ MayFail
          /\ Await("pause", DialPause)
          /\ UNCHANGED <<books, mstream, adrift, mreader>>

RollOver == /\ agent.at = "open" /\ Lapsed /\ Go("top")
            /\ UNCHANGED <<faults, books, mstream, adrift, mreader>>

(* A book is read; with the context over, its publication fails at once.    *)
Receive == /\ agent.at = "open" /\ ~Lapsed /\ books > 0 /\ books' = books - 1
           /\ agent' = [agent EXCEPT !.at = "publish", !.ts = now, !.due = now + AddMax]
           /\ UNCHANGED <<faults, mstream, adrift, mreader>>

AddQuote(q) == mstream' \in AfterAdd(mstream, q) /\ mreader' = Told(mreader, mstream')

Carried == [token |-> agent.token, win |-> agent.win, ts |-> agent.ts]

Added == /\ agent.at = "publish" /\ Go("open") /\ AddQuote(Carried)
         /\ UNCHANGED <<faults, books, adrift>>

(* With the context over the client does not try again; otherwise it may.   *)
AddFails == /\ agent.at = "publish" /\ MayFail /\ adrift' = adrift \cup {Carried}
            /\ Go("open") \/ (~Lapsed /\ UNCHANGED agent)
            /\ UNCHANGED <<books, mstream, mreader>>

AddTooLate == /\ agent.at = "publish" /\ Lapsed /\ Go("open")
              /\ UNCHANGED <<faults, books, mstream, adrift, mreader>>

LandQuote == \E q \in adrift : MayFail /\ AddQuote(q) /\ UNCHANGED <<agent, books, adrift>>

AgentStep == \/ Begin \/ ResolveEnds \/ ResolveFails \/ PauseEnds \/ Dial \/ DialTooLate
             \/ Broken \/ RollOver \/ Receive \/ Added \/ AddFails \/ AddTooLate \/ LandQuote

(* Fairness of the agent's own steps: a request or a dial ends, a pause is  *)
(* over, the context's end is noticed. Nothing is asked of the market.      *)
AgentGoesOn == \/ Begin \/ ResolveEnds \/ PauseEnds \/ Dial \/ DialTooLate
               \/ RollOver \/ Added

(* The clock does not pass the end of what the agent waits for.             *)
MarketLetsTick == /\ agent.at \in {"resolve", "publish"} => now < agent.due
                  /\ agent.at = "dial" => now < agent.due /\ ~Lapsed

-----------------------------------------------------------------------------
(* PolyFeed                                                                 *)

AskQuotes == /\ mreader.at = "idle" /\ mreader' = Asking(mreader, mstream)
             /\ UNCHANGED quote

NoQuotes == /\ mreader.at = "blocked" /\ mreader' = NoAnswer(mreader)
            /\ UNCHANGED quote

(* Every record of the response replaces the one before; the last one stays *)
TakeQuotes == /\ mreader.at = "answered" /\ mreader' = Taken(mreader)
              /\ \E rec \in mstream.recs : /\ rec.id = mreader.upto
                                           /\ quote' = rec.fields

QuoteStep == AskQuotes \/ NoQuotes \/ TakeQuotes

IsFresh == quote.ts > 0 /\ now - quote.ts <= Fresh

ForWindow(w) == IF IsFresh /\ quote.win = w THEN {quote} ELSE {}

MarketNext == \/ AgentStep /\ UNCHANGED <<mode, quote>>
              \/ QuoteStep /\ UNCHANGED <<mode, agent, mstream, adrift, books, faults>>

-----------------------------------------------------------------------------
(* A price that for_window gives the brain for a window is of that window's *)
(* market and was stamped while the window was on, however long the token   *)
(* took to resolve, and however often and late its record was added.        *)
QuoteOfItsMarket ==
  \A w \in 1..Window(now) + 1 : \A q \in ForWindow(w) : q.token = w /\ Window(q.ts) = w

(* Whatever fails for a while, and even if the market falls silent, the     *)
(* agent ends up connected to the market of the window the clock is in.     *)
FollowsMarket ==
  mode = "rolling" => <>[](agent.at = "open" /\ agent.win = Window(now))
=============================================================================
