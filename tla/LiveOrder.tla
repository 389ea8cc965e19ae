------------------------------ MODULE LiveOrder ------------------------------
(***************************************************************************)
(* The execution agent (src/3_execution_agent/main_execution.py).         *)
(*                                                                         *)
(* An exec process reads entries from a Redis stream with a cursor, and   *)
(* takes each one through handle_signal: gas, the armed switch, the last  *)
(* Polymarket snapshot, the guards, the risk state, the order lock of the  *)
(* window, the submission, the report.  Every `await` of handle_signal is  *)
(* a step of its own, so that another process, the operator, the market    *)
(* agent or a Redis failure can act between any two of them.               *)
(*                                                                         *)
(* A member of Proc is one run of main_execution.py: a restart is the next *)
(* member starting, and two may overlap.                                   *)
(*                                                                         *)
(* Time is one integer clock in a unit longer than a Redis round trip:     *)
(* time passes while a process waits for entries, for gas or for the CLOB, *)
(* and not while it waits for one Redis reply.                             *)
(***************************************************************************)
EXTENDS Integers, Sequences

CONSTANTS
  Proc,        \* runs of main_execution.py
  Sources,     \* values of EXECUTION_STREAM considered
  Modes,       \* values of TRADING_MODE considered
  Switches,    \* positions LIVE_ARMED may be in
  Window,      \* start times of the 5-minute markets
  WindowLen,   \* 300 s
  MaxLeft,     \* MAX_LIVE_SECONDS_LEFT
  MinLeft,     \* MIN_LIVE_SECONDS_LEFT
  Stale,       \* SIGNAL_MAX_STALE_MS
  GasMax,      \* time limit of the RPC call in compute_gas
  SubmitMax,   \* time limit of wait_for in submit_order
  BatchSize,   \* count= of XREAD
  BatchMax,    \* how long after a batch was read its last entry is still in hand
  Lag,         \* how far the brain's clock reading may lie behind the entry's own stamp
  LockTail,    \* the lock's life past the end of the window
  MinTTL,      \* the shortest life of a lock
  StartTime,   \* the clock when the behaviour begins
  LastEmit,    \* bound: no entry is published after this time
  Horizon,     \* bound: the clock stops here
  MaxEntries,  \* bound: entries published
  MaxLosses,   \* bound: restarts of Redis, which keeps nothing on disk
  MaxFaults    \* bound: Redis calls that raise

ASSUME LiveOrderAssumption ==
  /\ Sources \subseteq {"entries", "signals"} /\ Modes \subseteq {"LIVE", "DRY_RUN"}
  /\ Switches \subseteq BOOLEAN
  /\ Window \subseteq Nat \ {0}
  /\ WindowLen \in Nat \ {0}
  /\ {MaxLeft, Stale, GasMax, SubmitMax, BatchMax, Lag, LockTail, MinTTL} \subseteq Nat
  /\ {MinLeft, BatchSize} \subseteq Nat \ {0}
  /\ {StartTime, LastEmit, Horizon, MaxEntries, MaxLosses, MaxFaults} \subseteq Nat
  \* 295 s + 2 s + the lag and a batch end before 330 s: the lock outlives every entry of
  \* its window.
  /\ Stale + BatchMax + Lag < LockTail + MinLeft
  \* The clock runs on until the last fresh entry has been dealt with.
  /\ LastEmit + Stale + BatchMax <= Horizon

VARIABLES
  now,       \* the host's clock
  source,    \* EXECUTION_STREAM: "entries" (paper OPEN records) or "signals"
  mode,      \* TRADING_MODE: "LIVE" or "DRY_RUN"
  stream,    \* everything ever added to the stream, oldest first
  low,       \* entries 1..low are gone from Redis
  dotenv,    \* LIVE_ARMED in the .env file
  armedKey,  \* field `armed` of state:live, or "none"
  lockExp,   \* when the order lock of a window expires; not held from then on
  epoch,     \* restarts of Redis so far
  faults,    \* Redis calls that raised so far
  pc,        \* where each process is
  envArmed,  \* cfg["env_live_armed"]: LIVE_ARMED when the process started
  pos,       \* its cursor: the entry in hand or last dealt with
  batchEnd,  \* the last entry of the batch in hand
  batchNow,  \* now_ms: the clock when that batch was read
  since,     \* when its timed wait began
  seen,      \* cfg["live_armed"], as read for the entry in hand
  market,    \* window_ts of the stream:polymarket record it goes by, or 0
  verdict,   \* the row it is about to add to stream:executions
  started,   \* orders handed to the SDK thread, ever
  threads,   \* those whose thread is still running
  posted,    \* those that reached the exchange
  rows       \* rows of stream:executions about an order: <<process, entry, karar>>

switchVars == <<dotenv, armedKey>>
redisVars  == <<low, lockExp, epoch>>
batchVars  == <<pos, batchEnd, batchNow>>
entryVars  == <<seen, market>>
orderVars  == <<started, threads, posted, rows>>
configVars == <<source, mode>>
vars == <<now, configVars, stream, switchVars, redisVars, faults, pc, envArmed, batchVars, since,
          entryVars, verdict, orderVars>>

none == "none"
Karar == {"DRY_RUN", "RED", "LIVE_BLOCKED", "LIVE_SENT", "LIVE_REJECTED"}

\* What _latest_poly_snapshot makes of the newest record: no mid, a price the entry may be
\* bought at, one that ran away from the entry's price, one above the cap.
Quote == {none, "fair", "chased", "dear"}
Snapshot == [win : Window \cup {0}, quote : Quote]
NoSnapshot == [win |-> 0, quote |-> none]

\* _entry_fields: a paper OPEN record names its window and the seconds left in it; a record
\* of the generic trigger names neither.
Entry == [win : Window \cup {0}, ts : Nat, left : Int]
Order == [proc : Proc, entry : Nat, win : Window, token : Window \cup {0}, epoch : Nat, at : Nat]

\* In a timed wait time passes up to a limit; the steps in between, waits for Redis among
\* them, take none.
TimedWait == {"gas", "submit"}
Brisk     == {"next", "poly", "lock", "report"}
InBatch   == TimedWait \cup Brisk
Phase     == {"off", "new", "read", "dead"} \cup InBatch

CallWorks == faults' = faults
CallFails == faults < MaxFaults /\ faults' = faults + 1

Max2(a, b) == IF a >= b THEN a ELSE b
Min2(a, b) == IF a <= b THEN a ELSE b

\* The entry's window, else the snapshot's, else the one the clock is in.
EffectiveWindow(sig, polyWin) ==
  IF sig.win # 0 THEN sig.win
  ELSE IF polyWin # 0 THEN polyWin ELSE now - (now % WindowLen)

SecLeft(sig, polyWin) ==
  IF sig.left >= 0 THEN sig.left
  ELSE Max2(0, EffectiveWindow(sig, polyWin) + WindowLen - now)

\* Mutants: a lock that dies with its market, and one of the shortest life for every window.
LockTTLNoTail(win) == Max2(MinTTL, win + WindowLen - now)
LockTTLShortest(win) == MinTTL

\* _order_lock_ttl.
LockTTL(win) == Max2(MinTTL, win + WindowLen + LockTail - now)
LockHeld(win) == now < lockExp[win]

InHand(p) == stream[pos[p]]
OrderWindow(p) == EffectiveWindow(InHand(p), market[p])

Init ==
  /\ now = StartTime
  /\ source \in Sources /\ mode \in Modes
  /\ stream = <<>> /\ low = 0
  /\ dotenv \in Switches /\ armedKey = IF dotenv THEN "1" ELSE "0"
  /\ lockExp = [w \in Window |-> 0]
  /\ epoch = 0 /\ faults = 0
  /\ pc = [p \in Proc |-> "off"]
  /\ envArmed = [p \in Proc |-> FALSE]
  /\ pos = [p \in Proc |-> 0]
  /\ batchEnd = [p \in Proc |-> 0]
  /\ batchNow = [p \in Proc |-> 0]
  /\ since = [p \in Proc |-> 0]
  /\ seen = [p \in Proc |-> FALSE]
  /\ market = [p \in Proc |-> 0]
  /\ verdict = [p \in Proc |-> none]
  /\ started = {} /\ threads = {} /\ posted = {} /\ rows = {}

------------------------------------------------------------------------------
(* The rest of the system, as far as the agent can see it. *)

Tick ==
  /\ now < Horizon
  /\ \A p \in Proc :
       /\ pc[p] \notin Brisk
       /\ pc[p] = "gas" => now < since[p] + GasMax
       /\ pc[p] = "submit" => now < since[p] + SubmitMax
       /\ pc[p] \in InBatch => now < batchNow[p] + BatchMax
  /\ now' = now + 1
  /\ UNCHANGED <<configVars, stream, switchVars, redisVars, faults, pc, envArmed, batchVars,
                 since, entryVars, verdict, orderVars>>

Publish(entry) ==
  /\ now <= LastEmit
  /\ Len(stream) < MaxEntries
  /\ stream' = Append(stream, entry)
  /\ UNCHANGED <<now, configVars, switchVars, redisVars, faults, pc, envArmed, batchVars, since,
                 entryVars, verdict, orderVars>>

\* The paper trader opened a record in the window the clock was in when the brain's loop read
\* it.  sec_left comes from that reading; ts is stamped after the awaits in between.
PublishEntry(w, lag) ==
  /\ source = "entries"
  /\ w <= now - lag /\ now - lag < w + WindowLen
  /\ Publish([win |-> w, ts |-> now, left |-> w + WindowLen - (now - lag)])

PublishSignal ==
  /\ source = "signals"
  /\ Publish([win |-> 0, ts |-> now, left |-> -1])

\* live_arm and live_disarm, both writes done (LiveSwitch takes them apart).
SetSwitch(on) ==
  /\ dotenv # on
  /\ dotenv' = on
  /\ armedKey' = IF on THEN "1" ELSE "0"
  /\ UNCHANGED <<now, configVars, stream, redisVars, faults, pc, envArmed, batchVars, since,
                 entryVars, verdict, orderVars>>

\* --save "" --appendonly no: a restart of Redis comes back empty.
RedisRestart ==
  /\ epoch < MaxLosses
  /\ epoch' = epoch + 1
  /\ low' = Len(stream)
  /\ armedKey' = none
  /\ lockExp' = [w \in Window |-> 0]
  /\ UNCHANGED <<now, configVars, stream, dotenv, faults, pc, envArmed, batchVars, since,
                 entryVars, verdict, orderVars>>

------------------------------------------------------------------------------
(* A process comes and goes. *)

Start(p) ==
  /\ pc[p] = "off"
  /\ pc' = [pc EXCEPT ![p] = "new"]
  /\ envArmed' = [envArmed EXCEPT ![p] = dotenv]
  /\ pos' = [pos EXCEPT ![p] = Len(stream)]
  /\ UNCHANGED <<now, configVars, stream, switchVars, redisVars, faults, batchEnd, batchNow, since,
                 entryVars, verdict, orderVars>>

\* The process is gone with all it remembered.
Gone(p) ==
  /\ pc' = [pc EXCEPT ![p] = "dead"]
  /\ envArmed' = [envArmed EXCEPT ![p] = FALSE]
  /\ pos' = [pos EXCEPT ![p] = 0]
  /\ batchEnd' = [batchEnd EXCEPT ![p] = 0]
  /\ batchNow' = [batchNow EXCEPT ![p] = 0]
  /\ since' = [since EXCEPT ![p] = 0]
  /\ seen' = [seen EXCEPT ![p] = FALSE]
  /\ market' = [market EXCEPT ![p] = 0]
  /\ verdict' = [verdict EXCEPT ![p] = none]
  /\ UNCHANGED <<now, configVars, stream, switchVars, redisVars, started, posted, rows>>

\* Killed: whatever its threads had not sent is not sent.
Kill(p) ==
  /\ pc[p] \notin {"off", "dead"}
  /\ Gone(p)
  /\ threads' = {o \in threads : o.proc # p}
  /\ UNCHANGED faults

\* SIGINT or SIGTERM, noticed in the loop; the interpreter still joins the SDK threads.
Stop(p) ==
  /\ pc[p] \in {"new", "read"}
  /\ Gone(p)
  /\ UNCHANGED <<faults, threads>>

\* read.result() raises and nothing in the loop catches it: the process ends.
ReadFails(p) ==
  /\ pc[p] \in {"new", "read"}
  /\ CallFails
  /\ Gone(p)
  /\ UNCHANGED threads

------------------------------------------------------------------------------
(* run: the loop over batches. *)

\* Until its first batch the cursor is "$", which each XREAD resolves anew: entries added
\* since the last XREAD ran out are behind it.
Resolve(p) ==
  /\ pc[p] = "new"
  /\ pos[p] < Len(stream)
  /\ pos' = [pos EXCEPT ![p] = Len(stream)]
  /\ UNCHANGED <<now, configVars, stream, switchVars, redisVars, faults, pc, envArmed, batchEnd,
                 batchNow, since, entryVars, verdict, orderVars>>

\* Mutant: the entry at the cursor is read again.
ReadFromInclusive(p) == Max2(pos[p], low) - 1

\* Where the unread part of the stream begins, less one.
ReadFrom(p) == Max2(pos[p], low)

ReadBatch(p) ==
  /\ pc[p] \in {"new", "read"}
  /\ ReadFrom(p) < Len(stream)
  /\ pc' = [pc EXCEPT ![p] = "next"]
  /\ pos' = [pos EXCEPT ![p] = ReadFrom(p)]
  /\ batchEnd' = [batchEnd EXCEPT ![p] = Min2(ReadFrom(p) + BatchSize, Len(stream))]
  /\ batchNow' = [batchNow EXCEPT ![p] = now]
  /\ UNCHANGED <<now, configVars, stream, switchVars, redisVars, faults, envArmed, since,
                 entryVars, verdict, orderVars>>

IsStale(p, entry) == batchNow[p] - entry.ts > Stale

\* The next entry of the batch: dropped with a row, or given to handle_signal.
TakeUp(p) ==
  LET stale == IsStale(p, stream[pos[p] + 1]) IN
  /\ pc[p] = "next"
  /\ pos[p] < batchEnd[p]
  /\ pos' = [pos EXCEPT ![p] = @ + 1]
  /\ pc' = [pc EXCEPT ![p] = IF stale THEN "report" ELSE "gas"]
  /\ since' = [since EXCEPT ![p] = IF stale THEN 0 ELSE now]
  /\ verdict' = [verdict EXCEPT ![p] =
       IF ~stale THEN none ELSE IF mode = "LIVE" THEN "LIVE_BLOCKED" ELSE "RED"]
  /\ UNCHANGED <<now, configVars, stream, switchVars, redisVars, faults, envArmed, batchEnd, batchNow, entryVars, orderVars>>

BatchDone(p) ==
  /\ pc[p] = "next"
  /\ pos[p] = batchEnd[p]
  /\ pc' = [pc EXCEPT ![p] = "read"]
  /\ batchNow' = [batchNow EXCEPT ![p] = 0]
  /\ UNCHANGED <<now, configVars, stream, switchVars, redisVars, faults, envArmed, pos,
                 batchEnd, since, entryVars, verdict, orderVars>>

------------------------------------------------------------------------------
(* handle_signal. *)

\* compute_gas answers, from its cache, from the chain or with the fallback, and then
\* _runtime_live_armed: a missing key and a failing call both fall back on the value the
\* process was started with.
ReadArmed(p) ==
  /\ pc[p] = "gas"
  /\ pc' = [pc EXCEPT ![p] = "poly"]
  /\ since' = [since EXCEPT ![p] = 0]
  /\ \/ /\ CallWorks
        /\ seen' = [seen EXCEPT ![p] = IF armedKey = none THEN envArmed[p] ELSE armedKey = "1"]
     \/ /\ CallFails
        /\ seen' = [seen EXCEPT ![p] = envArmed[p]]
  /\ UNCHANGED <<now, configVars, stream, switchVars, redisVars, envArmed, batchVars, market,
                 verdict, orderVars>>

\* The handler returns once it has added this row.
Conclude(p, karar) ==
  /\ pc' = [pc EXCEPT ![p] = "report"]
  /\ verdict' = [verdict EXCEPT ![p] = karar]
  /\ seen' = [seen EXCEPT ![p] = FALSE]
  /\ market' = [market EXCEPT ![p] = 0]
  /\ since' = [since EXCEPT ![p] = 0]

\* Mutants: no check for an early entry, none for a market that rolled over.
InTimeLateOnly(sig, snap) == SecLeft(sig, snap.win) >= MinLeft
SameMarketUnchecked(sig, snap) == TRUE

\* The guards between the snapshot and the risk state.
InTime(sig, snap) ==
  SecLeft(sig, snap.win) <= MaxLeft /\ SecLeft(sig, snap.win) >= MinLeft
SameMarket(sig, snap) == sig.win # 0 /\ snap.win # 0 => sig.win = snap.win
NoChase(sig, snap) == sig.win # 0 => snap.quote # "chased"

Guards(sig, snap) ==
  /\ InTime(sig, snap)
  /\ SameMarket(sig, snap)
  /\ NoChase(sig, snap)

\* What the market agent may have published last: any market that has opened, so also one
\* that is over, or nothing at all.
Published(snap) == snap = NoSnapshot \/ (snap.win # 0 /\ snap.win <= now)

\* _live_block_reason.  `fit` stands for the reasons that lie in the configuration and in
\* p_cex: the router, ORDER_USDC against its limits, slippage, and the two limits on
\* state:risk.  No agent ever writes daily_loss_usdc or open_positions there, so the read of
\* state:risk, too, tells nothing but the configuration.
MaySend(p, snap, fit) ==
  /\ fit
  /\ seen[p]
  /\ snap.quote \in {"fair", "chased"}

\* _latest_poly_snapshot (a failing call reads as no record) and the guards after it.
ReadPoly(p) ==
  /\ pc[p] = "poly"
  /\ \E snap \in Snapshot, fit \in BOOLEAN :
       /\ Published(snap)
       /\ CallWorks \/ (snap = NoSnapshot /\ CallFails)
       /\ IF mode # "LIVE" THEN Conclude(p, "DRY_RUN")
          ELSE IF ~Guards(InHand(p), snap) \/ ~MaySend(p, snap, fit)
               THEN Conclude(p, "LIVE_BLOCKED")
          ELSE /\ pc' = [pc EXCEPT ![p] = "lock"]
               /\ market' = [market EXCEPT ![p] = snap.win]
               /\ UNCHANGED <<verdict, seen, since>>
  /\ UNCHANGED <<now, configVars, stream, switchVars, redisVars, envArmed, batchVars, orderVars>>

NewOrder(p) ==
  [proc |-> p, entry |-> pos[p], win |-> OrderWindow(p), token |-> market[p],
   epoch |-> epoch, at |-> now]

\* Mutant: SET without NX.
CanLockAlways(win) == TRUE

\* SET NX succeeds.
CanLock(win) == ~LockHeld(win)

\* The lock is ours: build, sign, and hand the order to the SDK thread.
TakeLock(p) ==
  /\ pc[p] = "lock"
  /\ CanLock(OrderWindow(p))
  /\ CallWorks
  /\ lockExp' = [lockExp EXCEPT ![OrderWindow(p)] = now + LockTTL(OrderWindow(p))]
  /\ started' = started \cup {NewOrder(p)}
  /\ threads' = threads \cup {NewOrder(p)}
  /\ pc' = [pc EXCEPT ![p] = "submit"]
  /\ since' = [since EXCEPT ![p] = now]
  /\ UNCHANGED <<now, configVars, stream, switchVars, low, epoch, envArmed, batchVars, entryVars,
                 verdict, posted, rows>>

\* Another order has it, or the call raised.
LockRefused(p) ==
  /\ pc[p] = "lock"
  /\ (~CanLock(OrderWindow(p)) /\ CallWorks) \/ CallFails
  /\ Conclude(p, "LIVE_BLOCKED")
  /\ UNCHANGED <<now, configVars, stream, switchVars, redisVars, envArmed, batchVars, orderVars>>

\* The SDK thread gets the order to the exchange.
Post(o) ==
  /\ o \notin posted
  /\ posted' = posted \cup {o}
  /\ UNCHANGED <<now, configVars, stream, switchVars, redisVars, faults, pc, envArmed, batchVars,
                 since, entryVars, verdict, started, threads, rows>>

\* The process is inside wait_for for this very order.
Awaits(p, o) == pc[p] = "submit" /\ o.proc = p /\ o.entry = pos[p]

\* The thread ends.  An accepted answer means the order was posted, a refusal that it was
\* not; an exception (a failed lookup, a lost response) leaves both possible.  The answer of
\* a thread that outlived its wait goes nowhere.  (last_order_* of state:risk, written
\* before the row, is telemetry that nothing reads.)
ThreadEnds(o, answer) ==
  /\ answer = "accepted" => o \in posted
  /\ answer = "refused" => o \notin posted
  /\ threads' = threads \ {o}
  /\ IF Awaits(o.proc, o)
     THEN Conclude(o.proc, IF answer = "accepted" THEN "LIVE_SENT" ELSE "LIVE_REJECTED")
     ELSE UNCHANGED <<pc, verdict, seen, market, since>>
  /\ UNCHANGED <<now, configVars, stream, switchVars, redisVars, faults, envArmed, batchVars,
                 started, posted, rows>>

\* Mutants: a timeout that is swallowed, and a wait without one.
SubmitTimeoutSwallowed(p) ==
  /\ pc[p] = "submit"
  /\ now >= since[p] + SubmitMax
  /\ pc' = [pc EXCEPT ![p] = "next"]
  /\ seen' = [seen EXCEPT ![p] = FALSE]
  /\ market' = [market EXCEPT ![p] = 0]
  /\ since' = [since EXCEPT ![p] = 0]
  /\ UNCHANGED <<now, configVars, stream, switchVars, redisVars, faults, envArmed, batchVars,
                 verdict, orderVars>>
NoSubmitTimeout(p) == FALSE /\ UNCHANGED vars

\* asyncio.TimeoutError: the await is given up, the thread is not.
SubmitTimeout(p) ==
  /\ pc[p] = "submit"
  /\ now >= since[p] + SubmitMax
  /\ Conclude(p, "LIVE_REJECTED")
  /\ UNCHANGED <<now, configVars, stream, switchVars, redisVars, faults, envArmed, batchVars,
                 orderVars>>

\* _emit_execution: an exception of XADD is logged and the row is lost.
Report(p) ==
  /\ pc[p] = "report"
  /\ pc' = [pc EXCEPT ![p] = "next"]
  /\ verdict' = [verdict EXCEPT ![p] = none]
  /\ \/ /\ CallWorks
        /\ rows' = IF verdict[p] \in {"LIVE_SENT", "LIVE_REJECTED"}
                   THEN rows \cup {<<p, pos[p], verdict[p]>>} ELSE rows
     \/ CallFails /\ rows' = rows
  /\ UNCHANGED <<now, configVars, stream, switchVars, redisVars, envArmed, batchVars, since,
                 entryVars, started, threads, posted>>

------------------------------------------------------------------------------

ProcNext(p) ==
  \/ Resolve(p) \/ ReadBatch(p) \/ TakeUp(p) \/ BatchDone(p)
  \/ ReadArmed(p) \/ ReadPoly(p) \/ TakeLock(p) \/ LockRefused(p)
  \/ SubmitTimeout(p) \/ Report(p)

Next ==
  \/ Tick
  \/ \E w \in Window, lag \in 0..Lag : PublishEntry(w, lag)
  \/ PublishSignal
  \/ \E on \in Switches : SetSwitch(on)
  \/ RedisRestart
  \/ \E p \in Proc : Start(p) \/ Kill(p) \/ Stop(p) \/ ReadFails(p)
  \/ \E p \in Proc : ProcNext(p)
  \/ \E o \in threads : Post(o)
  \/ \E o \in threads, answer \in {"accepted", "refused", "raised"} : ThreadEnds(o, answer)

Spec == Init /\ [][Next]_vars

------------------------------------------------------------------------------
(* What the agent promises. *)

TypeOK ==
  /\ now \in Nat /\ source \in Sources /\ mode \in Modes
  /\ stream \in Seq(Entry) /\ low \in Nat
  /\ dotenv \in BOOLEAN /\ armedKey \in {"1", "0", none}
  /\ lockExp \in [Window -> Int]
  /\ epoch \in Nat /\ faults \in Nat
  /\ pc \in [Proc -> Phase]
  /\ envArmed \in [Proc -> BOOLEAN]
  /\ pos \in [Proc -> Nat] /\ batchEnd \in [Proc -> Nat]
  /\ batchNow \in [Proc -> Nat] /\ since \in [Proc -> Nat]
  /\ seen \in [Proc -> BOOLEAN]
  /\ market \in [Proc -> Window \cup {0}]
  /\ verdict \in [Proc -> Karar \cup {none}]
  /\ started \subseteq Order /\ threads \subseteq started /\ posted \subseteq started
  /\ rows \subseteq (Proc \X Nat \X Karar)

\* However many processes run, restart and overlap, and however late an answer comes: while
\* Redis keeps its keys (within one epoch) a window gets at most one order.  This is what the
\* SET NX lock of _acquire_order_lock, its TTL and the stale check are there for together.
OneOrderPerWindow ==
  \A o1, o2 \in started : o1.win = o2.win /\ o1.epoch = o2.epoch => o1 = o2

\* The lock outlives the market: from the order on until LockTail after its window closed no
\* other order can take the lock of that window (_order_lock_ttl).
LockOutlivesMarket ==
  \A o \in started :
    o.epoch = epoch /\ now < o.win + WindowLen + LockTail => LockHeld(o.win)

\* No order is started before the last MaxLeft seconds of the market it is for, whichever of
\* the entry's own sec_left and the clock handle_signal went by.
NotEarly == \A o \in started : o.at >= o.win + WindowLen - MaxLeft

\* The outcome token an order buys belongs to the market its lock is for, although entry and
\* snapshot come from two agents that roll over at different times.
TokenOfItsWindow == \A o \in started : o.token = o.win

\* An order nobody waits for any more was reported: unless a Redis call raised or its process
\* ended there is a row for its entry in stream:executions.
NoSilentOrder ==
  \A o \in started :
    \/ faults > 0 \/ pc[o.proc] = "dead"
    \/ o.entry = pos[o.proc] /\ pc[o.proc] \in {"submit", "report"}
    \/ \E k \in {"LIVE_SENT", "LIVE_REJECTED"} : <<o.proc, o.entry, k>> \in rows

\* The same promise as an abstract machine: see OrderLedger.
ClaimOf(o) == [win |-> o.win, epoch |-> o.epoch, holder |-> <<o.proc, o.entry>>]
Claims(orders) == {ClaimOf(o) : o \in orders}
Ledger == INSTANCE OrderLedger WITH claims <- Claims(started), atExchange <- Claims(posted)
ImplementsLedger == Ledger!Spec

\* Stated by the dashboard: LIVE_REJECTED is an order the CLOB refused.  A wait_for that ran
\* out leaves its thread running, and the order may be posted all the same.
RejectedNotPosted ==
  \A o \in posted : <<o.proc, o.entry, "LIVE_REJECTED">> \notin rows

\* Stated by the change log: LIVE orders are blocked unless LIVE_ARMED=1 at run time.  With
\* the key gone or the call failing, _runtime_live_armed goes by what .env said at startup.
ArmedMeansArmed ==
  [][\A p \in Proc : pc[p] = "gas" /\ pc'[p] = "poly" /\ seen'[p] => dotenv]_vars

\* asyncio runs every ready task; the clock goes on.  Nothing makes an SDK thread end.
Fairness ==
  /\ WF_vars(Tick)
  /\ \A p \in Proc : WF_vars(ProcNext(p))

FairSpec == Spec /\ Fairness

\* handle_signal always comes back to the loop, also when the CLOB never answers.
HandlerReturns ==
  \A p \in Proc : pc[p] = "gas" ~> pc[p] \in {"read", "dead"}

==============================================================================
