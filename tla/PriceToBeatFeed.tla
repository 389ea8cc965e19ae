--------------------------- MODULE PriceToBeatFeed ---------------------------
(***************************************************************************)
(* The brain's settlement source                                           *)
(* (src/2_brain_engine/pricetobeat_feed.py): a task that keeps asking      *)
(* Polymarket for the page of the window the clock is in, and leaves two   *)
(* things for the main loop to read whenever it likes: the open price of   *)
(* the active window (`price`, the price to beat) and the windows that     *)
(* have closed (`closed`, keyed by the time a window ENDS).                *)
(*                                                                         *)
(* The request runs in a thread: the window is taken from the clock        *)
(* before it, the result is applied after it, and time passes in between.  *)
(*                                                                         *)
(* The unit of the clock is longer than a poll with its 10 s timeout and   *)
(* shorter than a window: at least one request ends in every unit.         *)
(***************************************************************************)
EXTENDS Integers, FiniteSets

CONSTANTS
  WindowLen,   \* 300 s
  PageLen,     \* closed windows a page lists
  KeepClosed,  \* closed windows the feed remembers: 50
  StartTime,   \* the clock when the behaviour begins
  Horizon,     \* bound: the clock stops here
  MaxFails     \* bound: failures

ASSUME FeedAssumption ==
  /\ {WindowLen, PageLen, KeepClosed} \subseteq Nat \ {0}
  /\ {StartTime, Horizon, MaxFails} \subseteq Nat
  /\ WindowLen <= StartTime

VARIABLES
  now,     \* the host's clock
  beat,    \* window_ts: the window whose open price is in `price`, 0 before the first
  closed,  \* the keys of `closed`; what a page says of a closed window is final
  ended,   \* when the last request ended: the next one is asked no earlier
  fails    \* bound: what may still fail

feedVars == <<now, beat, closed, ended, fails>>

WindowOf(t) == t - (t % WindowLen)
Ends == {e \in 1..Horizon : e % WindowLen = 0}

\* The closed windows a page served at time t lists, by their ends.
Page(t) == {e \in Ends : e <= t /\ e > t - PageLen * WindowLen}

\* Mutant: the oldest are kept and not the newest.
NewestReversed(ends) == {e \in ends : Cardinality({f \in ends : f < e}) < KeepClosed}

Newest(ends) == {e \in ends : Cardinality({f \in ends : f > e}) < KeepClosed}

FeedInit ==
  /\ now = StartTime
  /\ beat = 0 /\ closed = {}
  /\ ended = StartTime /\ fails \in 0..MaxFails

FeedTick ==
  /\ now < Horizon
  /\ ended = now
  /\ now' = now + 1
  /\ UNCHANGED <<beat, closed, ended, fails>>

\* A request asked at one time, and served at a later one, comes back: with the open price
\* of the window asked for, or without it, when the close of the window that ended there
\* will do.
FetchDone(asked, served, named) ==
  LET win == WindowOf(asked) IN
  /\ ended <= asked /\ asked <= served
  /\ beat' = IF named \/ win \in Page(served) THEN win ELSE beat
  /\ closed' = Newest(closed \cup Page(served))
  /\ ended' = now
  /\ UNCHANGED <<now, fails>>

\* Any exception of the request or of the parsing is logged and nothing changes.
FetchFails ==
  /\ fails > 0
  /\ fails' = fails - 1
  /\ ended' = now
  /\ UNCHANGED <<now, beat, closed>>

Fetches ==
  \/ \E asked, served \in ended..now, named \in BOOLEAN : FetchDone(asked, served, named)
  \/ FetchFails

FeedTypeOK ==
  /\ now \in Nat /\ beat \in Nat /\ closed \subseteq Nat
  /\ ended \in Nat /\ fails \in Nat

==============================================================================
