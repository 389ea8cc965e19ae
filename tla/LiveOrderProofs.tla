--------------------------- MODULE LiveOrderProofs ---------------------------
(***************************************************************************)
(* Proofs about LiveOrder, for every value of its constants that satisfies *)
(* LiveOrderAssumption.                                                    *)
(*                                                                         *)
(* The order lock alone does not give one order per window: it expires.    *)
(* The argument is about time.  An entry in hand is at most Stale old when *)
(* its batch is read, the batch lasts at most BatchMax, the entry left at  *)
(* least MinLeft of its window by a clock at most Lag behind, and the lock *)
(* outlives the window by LockTail; so a process that reaches the lock reaches it before a lock   *)
(* of the same window can have expired.                                    *)
(***************************************************************************)
EXTENDS LiveOrder, TLAPS

\* A process in a batch stands inside the stream and inside the batch's time.
Cursors ==
  \A p \in Proc : pc[p] \in InBatch =>
    /\ pos[p] <= batchEnd[p] /\ batchEnd[p] <= Len(stream)
    /\ pc[p] # "next" => pos[p] >= 1
    /\ batchNow[p] <= now /\ now <= batchNow[p] + BatchMax

\* An entry that names its window says how much of it was left, by a clock at most Lag old.
Entries ==
  \A i \in 1..Len(stream) :
    /\ stream[i].ts <= now
    /\ stream[i].win # 0 =>
         /\ stream[i].left >= 0
         /\ stream[i].ts + stream[i].left >= stream[i].win + WindowLen
         /\ stream[i].ts + stream[i].left <= stream[i].win + WindowLen + Lag
    /\ stream[i].win = 0 => stream[i].left < 0

\* What handle_signal works on was fresh when its batch was read.
Fresh ==
  \A p \in Proc : pc[p] \in {"gas", "poly", "lock"} => batchNow[p] - InHand(p).ts <= Stale

\* A process at the lock has passed the guards.
Ready ==
  \A p \in Proc : pc[p] = "lock" =>
    /\ market[p] # 0
    /\ InHand(p).win # 0 => InHand(p).win = market[p]
    /\ SecLeft(InHand(p), market[p]) >= MinLeft
    /\ SecLeft(InHand(p), market[p]) <= MaxLeft

\* The lock behind an order of this life of Redis outlives the order's window by LockTail.
Locked ==
  \A o \in started :
    /\ o.epoch <= epoch
    /\ o.epoch = epoch => lockExp[o.win] >= o.win + WindowLen + LockTail

IInv == TypeOK /\ Cursors /\ Entries /\ Fresh /\ Ready /\ Locked /\ OneOrderPerWindow
          /\ NotEarly /\ TokenOfItsWindow

------------------------------------------------------------------------------
(* The entry in hand, and the window of an order about to be placed. *)

LEMMA Constants ==
  /\ Window \subseteq Nat \ {0} /\ WindowLen \in Nat \ {0}
  /\ MaxLeft \in Nat /\ Stale \in Nat /\ BatchMax \in Nat /\ LockTail \in Nat /\ MinTTL \in Nat
  /\ Lag \in Nat
  /\ MinLeft \in Nat \ {0} /\ BatchSize \in Nat \ {0}
  /\ StartTime \in Nat
  /\ Stale + BatchMax + Lag < LockTail + MinLeft
BY LiveOrderAssumption

LEMMA EntryInHand ==
  ASSUME TypeOK, Cursors, NEW p \in Proc, pc[p] \in {"gas", "poly", "lock"}
  PROVE  /\ pos[p] \in 1..Len(stream)
         /\ InHand(p) \in Entry
BY DEF TypeOK, Cursors, InBatch, TimedWait, Brisk, InHand

LEMMA LockWindow ==
  ASSUME TypeOK, Cursors, Entries, Fresh, Ready, NEW p \in Proc, pc[p] = "lock"
  PROVE  /\ OrderWindow(p) = market[p]
         /\ market[p] \in Window
         /\ now < market[p] + WindowLen + LockTail
         /\ now >= market[p] + WindowLen - MaxLeft
<1> DEFINE e == InHand(p)
           w == market[p]
<1>1. /\ pos[p] \in 1..Len(stream)
      /\ e \in Entry
  BY EntryInHand
<1>2. w \in Window /\ w # 0 /\ w \in Nat
  BY LiveOrderAssumption DEF TypeOK, Ready
<1>3. OrderWindow(p) = w
  BY <1>2 DEF OrderWindow, EffectiveWindow, Ready
<1>4. /\ now \in Nat /\ batchNow[p] \in Nat /\ e.ts \in Nat /\ e.left \in Int
      /\ now <= batchNow[p] + BatchMax /\ batchNow[p] - e.ts <= Stale
      /\ e.ts <= now
  BY <1>1 DEF TypeOK, Entry, Cursors, Fresh, Entries, InBatch, Brisk, InHand
<1>5. /\ MaxLeft \in Nat /\ Stale \in Nat /\ BatchMax \in Nat /\ LockTail \in Nat /\ Lag \in Nat
      /\ WindowLen \in Nat /\ MinLeft \in Nat \ {0}
      /\ Stale + BatchMax + Lag < LockTail + MinLeft
  BY Constants
<1>6. SecLeft(e, w) >= MinLeft /\ SecLeft(e, w) <= MaxLeft
  BY DEF Ready
<1>7. CASE e.left >= 0
  <2>1. SecLeft(e, w) = e.left
    BY <1>7 DEF SecLeft
  <2>2. e.ts + e.left >= w + WindowLen /\ e.ts + e.left <= w + WindowLen + Lag
    BY <1>1, <1>2, <1>4, <1>7 DEF Entries, Ready, InHand
  <2> QED BY <2>1, <2>2, <1>2, <1>3, <1>4, <1>5, <1>6
<1>8. CASE e.left < 0
  <2>1. SecLeft(e, w) = Max2(0, w + WindowLen - now)
    BY <1>1, <1>2, <1>4, <1>8 DEF SecLeft, EffectiveWindow, Ready
  <2> QED BY <2>1, <1>2, <1>3, <1>4, <1>5, <1>6 DEF Max2
<1> QED BY <1>4, <1>7, <1>8

------------------------------------------------------------------------------
(* Every step keeps the types. *)

LEMMA GoneType ==
  ASSUME TypeOK, NEW p \in Proc, Gone(p), faults' \in Nat, threads' \subseteq threads
  PROVE  TypeOK'
BY DEF TypeOK, Gone, Phase, configVars, switchVars, redisVars

LEMMA ConcludeType ==
  ASSUME TypeOK, NEW p \in Proc, NEW k \in Karar, Conclude(p, k)
  PROVE  /\ pc' \in [Proc -> Phase] /\ verdict' \in [Proc -> Karar \cup {none}]
         /\ seen' \in [Proc -> BOOLEAN] /\ market' \in [Proc -> Window \cup {0}]
         /\ since' \in [Proc -> Nat]
BY DEF TypeOK, Conclude, Phase, InBatch, Brisk

LEMMA TypeStep ==
  ASSUME TypeOK, Cursors, Entries, Fresh, Ready, [Next]_vars
  PROVE  TypeOK'
<1> USE DEF TypeOK, configVars, switchVars, redisVars, batchVars, entryVars, orderVars
<1>1. CASE Tick
  <2>1. now' \in Nat
    BY <1>1 DEF Tick
  <2> QED BY <1>1, <2>1 DEF Tick
<1>2. ASSUME NEW w \in Window, NEW lag \in 0..Lag, PublishEntry(w, lag) PROVE TypeOK'
  <2>1. [win |-> w, ts |-> now, left |-> w + WindowLen - (now - lag)] \in Entry
    BY Constants DEF Entry
  <2>2. stream' = Append(stream, [win |-> w, ts |-> now, left |-> w + WindowLen - (now - lag)])
    BY <1>2 DEF PublishEntry, Publish
  <2>3. stream' \in Seq(Entry)
    BY <2>1, <2>2
  <2> QED BY <1>2, <2>3 DEF PublishEntry, Publish
<1>3. CASE PublishSignal
  <2>1. [win |-> 0, ts |-> now, left |-> -1] \in Entry
    BY DEF Entry
  <2> QED BY SMTT(40), <1>3, <2>1 DEF PublishSignal, Publish
<1>4. ASSUME NEW on \in Switches, SetSwitch(on) PROVE TypeOK'
  BY <1>4, LiveOrderAssumption DEF SetSwitch
<1>5. CASE RedisRestart
  BY <1>5 DEF RedisRestart
<1>6. ASSUME NEW p \in Proc, Start(p) PROVE TypeOK'
  BY <1>6 DEF Start, Phase
<1>7. ASSUME NEW p \in Proc, Kill(p) PROVE TypeOK'
  BY <1>7, GoneType DEF Kill
<1>8. ASSUME NEW p \in Proc, Stop(p) PROVE TypeOK'
  BY <1>8, GoneType DEF Stop
<1>9. ASSUME NEW p \in Proc, ReadFails(p) PROVE TypeOK'
  <2>1. faults' \in Nat /\ threads' = threads
    BY <1>9 DEF ReadFails, CallFails
  <2> QED BY <1>9, <2>1, GoneType DEF ReadFails
<1>10. ASSUME NEW p \in Proc, Resolve(p) PROVE TypeOK'
  BY <1>10 DEF Resolve
<1>11. ASSUME NEW p \in Proc, ReadBatch(p) PROVE TypeOK'
  <2>1. ReadFrom(p) \in Nat
    BY DEF ReadFrom, Max2
  <2>2. Min2(ReadFrom(p) + BatchSize, Len(stream)) \in Nat
    BY <2>1, Constants DEF Min2
  <2> QED BY <1>11, <2>1, <2>2 DEF ReadBatch, Phase, InBatch, Brisk
<1>12. ASSUME NEW p \in Proc, TakeUp(p) PROVE TypeOK'
  BY <1>12 DEF TakeUp, Phase, InBatch, Brisk, TimedWait, Karar
<1>13. ASSUME NEW p \in Proc, BatchDone(p) PROVE TypeOK'
  BY <1>13 DEF BatchDone, Phase
<1>14. ASSUME NEW p \in Proc, ReadArmed(p) PROVE TypeOK'
  <2>1. faults' \in Nat
    BY <1>14 DEF ReadArmed, CallWorks, CallFails
  <2>2. pc' \in [Proc -> Phase] /\ seen' \in [Proc -> BOOLEAN]
    BY <1>14 DEF ReadArmed, Phase, InBatch, Brisk
  <2> QED BY <1>14, <2>1, <2>2 DEF ReadArmed
<1>15. ASSUME NEW p \in Proc, ReadPoly(p) PROVE TypeOK'
  <2>1. PICK snap \in Snapshot, fit \in BOOLEAN :
          /\ CallWorks \/ (snap = NoSnapshot /\ CallFails)
          /\ IF mode # "LIVE" THEN Conclude(p, "DRY_RUN")
             ELSE IF ~Guards(InHand(p), snap) \/ ~MaySend(p, snap, fit)
                  THEN Conclude(p, "LIVE_BLOCKED")
             ELSE /\ pc' = [pc EXCEPT ![p] = "lock"]
                  /\ market' = [market EXCEPT ![p] = snap.win]
                  /\ UNCHANGED <<verdict, seen, since>>
    BY <1>15 DEF ReadPoly
  <2>2. faults' \in Nat
    BY <2>1 DEF CallWorks, CallFails
  <2>3. CASE \E k \in Karar : Conclude(p, k)
    BY <1>15, <2>2, <2>3, ConcludeType DEF ReadPoly
  <2>4. CASE /\ pc' = [pc EXCEPT ![p] = "lock"]
             /\ market' = [market EXCEPT ![p] = snap.win]
             /\ UNCHANGED <<verdict, seen, since>>
    BY <1>15, <2>2, <2>4 DEF ReadPoly, Snapshot, Phase, InBatch, Brisk
  <2> QED BY <2>1, <2>3, <2>4 DEF Karar
<1>16. ASSUME NEW p \in Proc, TakeLock(p) PROVE TypeOK'
  <2>1. pc[p] = "lock"
    BY <1>16 DEF TakeLock
  <2>2. OrderWindow(p) \in Window /\ market[p] \in Window
    BY <2>1, LockWindow
  <2>3. NewOrder(p) \in Order
    BY <2>2 DEF NewOrder, Order
  <2>4. now + LockTTL(OrderWindow(p)) \in Int
    <3>1. ASSUME NEW w \in Window PROVE now + LockTTL(w) \in Int
      BY Constants DEF LockTTL, Max2
    <3> QED BY <2>2, <3>1
  <2> QED BY <1>16, <2>2, <2>3, <2>4 DEF TakeLock, CallWorks, Phase, InBatch, TimedWait
<1>17. ASSUME NEW p \in Proc, LockRefused(p) PROVE TypeOK'
  <2>1. faults' \in Nat
    BY <1>17 DEF LockRefused, CallWorks, CallFails
  <2> QED BY <1>17, <2>1, ConcludeType DEF LockRefused, Karar
<1>18. ASSUME NEW p \in Proc, SubmitTimeout(p) PROVE TypeOK'
  BY <1>18, ConcludeType DEF SubmitTimeout, Karar
<1>19. ASSUME NEW p \in Proc, Report(p) PROVE TypeOK'
  <2>1. verdict[p] \in {"LIVE_SENT", "LIVE_REJECTED"} => <<p, pos[p], verdict[p]>> \in Proc \X Nat \X Karar
    BY DEF Karar
  <2> QED BY <1>19, <2>1 DEF Report, CallWorks, CallFails, Phase, InBatch, Brisk
<1>20. ASSUME NEW o \in threads, Post(o) PROVE TypeOK'
  BY <1>20 DEF Post
<1>21. ASSUME NEW o \in threads, NEW answer, ThreadEnds(o, answer) PROVE TypeOK'
  <2>1. o.proc \in Proc
    BY DEF Order
  <2>2. CASE \E k \in Karar : Conclude(o.proc, k)
    BY <1>21, <2>1, <2>2, ConcludeType DEF ThreadEnds
  <2>3. CASE UNCHANGED <<pc, verdict, seen, market, since>>
    BY <1>21, <2>3 DEF ThreadEnds
  <2> QED BY <1>21, <2>2, <2>3 DEF ThreadEnds, Karar
<1>22. CASE UNCHANGED vars
  BY <1>22 DEF vars
<1> QED
  BY <1>1, <1>2, <1>3, <1>4, <1>5, <1>6, <1>7, <1>8, <1>9, <1>10, <1>11, <1>12, <1>13, <1>14,
     <1>15, <1>16, <1>17, <1>18, <1>19, <1>20, <1>21, <1>22 DEF Next, ProcNext

------------------------------------------------------------------------------
(* The stream, the clock and the batches. *)

\* The stream only grows.
LEMMA StreamGrows ==
  ASSUME TypeOK, [Next]_vars
  PROVE  /\ Len(stream') >= Len(stream)
         /\ \A i \in 1..Len(stream) : stream'[i] = stream[i]
<1>1. CASE stream' = stream
  BY <1>1 DEF TypeOK
<1>2. ASSUME NEW entry \in Entry, stream' = Append(stream, entry)
      PROVE  /\ Len(stream') >= Len(stream)
             /\ \A i \in 1..Len(stream) : stream'[i] = stream[i]
  BY <1>2 DEF TypeOK
<1>3. ASSUME NEW w \in Window, NEW lag \in 0..Lag, PublishEntry(w, lag)
      PROVE \E entry \in Entry : stream' = Append(stream, entry)
  <2>1. [win |-> w, ts |-> now, left |-> w + WindowLen - (now - lag)] \in Entry
    BY Constants DEF Entry, TypeOK
  <2> QED BY <1>3, <2>1 DEF PublishEntry, Publish
<1>4. ASSUME PublishSignal PROVE \E entry \in Entry : stream' = Append(stream, entry)
  <2>1. [win |-> 0, ts |-> now, left |-> -1] \in Entry
    BY DEF Entry, TypeOK
  <2> QED BY <1>4, <2>1 DEF PublishSignal, Publish
<1> QED
  BY <1>1, <1>2, <1>3, <1>4 DEF Next, vars, ProcNext, Tick, SetSwitch, RedisRestart, Start, Kill, Stop,
     ReadFails, Gone, Resolve, ReadBatch, TakeUp, BatchDone, ReadArmed, ReadPoly, TakeLock, LockRefused,
     Post, ThreadEnds, SubmitTimeout, Report

\* What a step does to the entries: nothing, a record of the clock's window, or a signal.
LEMMA EntriesStep ==
  ASSUME TypeOK, Entries, [Next]_vars
  PROVE  Entries'
<1>1. now \in Nat /\ now' \in Nat /\ now' >= now
  <2>1. now \in Nat
    BY DEF TypeOK
  <2>2. Tick \/ now' = now
    BY DEF Next, vars, ProcNext, PublishEntry, PublishSignal, Publish, SetSwitch, RedisRestart, Start,
       Kill, Stop, ReadFails, Gone, Resolve, ReadBatch, TakeUp, BatchDone, ReadArmed, ReadPoly, TakeLock,
       LockRefused, Post, ThreadEnds, SubmitTimeout, Report
  <2> QED BY <2>1, <2>2 DEF Tick
<1>2. CASE stream' = stream
  <2>1. \A i \in 1..Len(stream) : stream[i].ts \in Nat
    <3>1. stream \in Seq(Entry)
      BY DEF TypeOK
    <3>2. \A i \in 1..Len(stream) : stream[i] \in Entry
      BY <3>1
    <3> QED BY <3>2 DEF Entry
  <2> QED BY <1>1, <1>2, <2>1 DEF Entries
<1>3. ASSUME NEW w \in Window, NEW lag \in 0..Lag, PublishEntry(w, lag) PROVE Entries'
  <2> DEFINE new == [win |-> w, ts |-> now, left |-> w + WindowLen - (now - lag)]
  <2>1. stream' = Append(stream, new) /\ now' = now /\ now - lag < w + WindowLen
    BY <1>3 DEF PublishEntry, Publish, configVars
  <2>2. /\ new.ts <= now /\ new.left >= 0 /\ new.win = w /\ w # 0
        /\ new.ts + new.left >= w + WindowLen /\ new.ts + new.left <= w + WindowLen + Lag
    BY <1>1, <2>1, Constants
  <2>3. \A i \in 1..Len(stream') : (i \in 1..Len(stream) /\ stream'[i] = stream[i]) \/ stream'[i] = new
    BY <2>1 DEF TypeOK
  <2> QED BY <2>1, <2>2, <2>3 DEF Entries
<1>4. ASSUME PublishSignal PROVE Entries'
  BY <1>1, <1>4 DEF TypeOK, Entries, Entry, PublishSignal, Publish
<1> QED
  BY <1>2, <1>3, <1>4 DEF Next, vars, ProcNext, Tick, SetSwitch, RedisRestart, Start, Kill, Stop,
     ReadFails, Gone, Resolve, ReadBatch, TakeUp, BatchDone, ReadArmed, ReadPoly, TakeLock, LockRefused,
     Post, ThreadEnds, SubmitTimeout, Report

------------------------------------------------------------------------------
(* What a step can do to one process, as far as its entry in hand is concerned. *)

Keeps(q) == pos'[q] = pos[q] /\ batchEnd'[q] = batchEnd[q] /\ batchNow'[q] = batchNow[q]

Moves(q) ==
  \/ pc'[q] \notin InBatch
  \/ Keeps(q) /\ pc'[q] = pc[q] /\ market'[q] = market[q] /\ (now' = now \/ Tick)
  \/ ReadBatch(q)
  \/ TakeUp(q)
  \/ Keeps(q) /\ now' = now /\ pc[q] = "gas" /\ pc'[q] = "poly"
  \/ /\ Keeps(q) /\ now' = now /\ pc[q] = "poly" /\ pc'[q] = "lock" /\ stream' = stream
     /\ \E snap \in Snapshot : /\ snap.win # 0 /\ market'[q] = snap.win
                              /\ Guards(InHand(q), snap)
  \/ Keeps(q) /\ now' = now /\ pc[q] \in InBatch \ {"next"} /\ pc'[q] \in {"submit", "report", "next"}

LEMMA LocalStep ==
  ASSUME TypeOK, [Next]_vars, NEW q \in Proc
  PROVE  Moves(q)
<1> USE DEF TypeOK, configVars, switchVars, redisVars, batchVars, entryVars, orderVars
<1>1. CASE UNCHANGED <<pc, batchVars, market>> /\ (now' = now \/ Tick)
  BY <1>1 DEF Moves, Keeps
<1>2. ASSUME NEW p \in Proc, Start(p) PROVE Moves(q)
  BY <1>2 DEF Start, Moves, Keeps, InBatch, TimedWait, Brisk
<1>3. ASSUME NEW p \in Proc, Kill(p) \/ Stop(p) \/ ReadFails(p) PROVE Moves(q)
  <2>1. Gone(p) /\ now' = now
    BY <1>3 DEF Kill, Stop, ReadFails, Gone
  <2> QED BY <2>1 DEF Gone, Moves, Keeps, InBatch, TimedWait, Brisk
<1>4. ASSUME NEW p \in Proc, Resolve(p) PROVE Moves(q)
  BY <1>4 DEF Resolve, Moves, Keeps, InBatch, TimedWait, Brisk
<1>5. ASSUME NEW p \in Proc, ReadBatch(p) PROVE Moves(q)
  <2>1. CASE p = q
    BY <1>5, <2>1 DEF Moves
  <2>2. CASE p # q
    BY <1>5, <2>2 DEF ReadBatch, Moves, Keeps
  <2> QED BY <2>1, <2>2
<1>6. ASSUME NEW p \in Proc, TakeUp(p) PROVE Moves(q)
  <2>1. CASE p = q
    BY <1>6, <2>1 DEF Moves
  <2>2. CASE p # q
    BY <1>6, <2>2 DEF TakeUp, Moves, Keeps
  <2> QED BY <2>1, <2>2
<1>7. ASSUME NEW p \in Proc, BatchDone(p) PROVE Moves(q)
  BY <1>7 DEF BatchDone, Moves, Keeps, InBatch, TimedWait, Brisk
<1>8. ASSUME NEW p \in Proc, ReadArmed(p) PROVE Moves(q)
  BY <1>8 DEF ReadArmed, Moves, Keeps
<1>9. ASSUME NEW p \in Proc, NEW k, Conclude(p, k), pc[p] \in InBatch \ {"next"}, UNCHANGED <<now, batchVars>>
      PROVE Moves(q)
  BY <1>9 DEF Conclude, Moves, Keeps
<1>10. ASSUME NEW p \in Proc, ReadPoly(p) PROVE Moves(q)
  <2>0. pc[p] = "poly" /\ pc[p] \in InBatch \ {"next"} /\ UNCHANGED <<now, batchVars, stream>>
    BY <1>10 DEF ReadPoly, InBatch, Brisk
  <2>1. PICK snap \in Snapshot, fit \in BOOLEAN :
          /\ Published(snap)
          /\ IF mode # "LIVE" THEN Conclude(p, "DRY_RUN")
             ELSE IF ~Guards(InHand(p), snap) \/ ~MaySend(p, snap, fit)
                  THEN Conclude(p, "LIVE_BLOCKED")
             ELSE /\ pc' = [pc EXCEPT ![p] = "lock"]
                  /\ market' = [market EXCEPT ![p] = snap.win]
                  /\ UNCHANGED <<verdict, seen, since>>
    BY <1>10 DEF ReadPoly
  <2>2. CASE \E k : Conclude(p, k)
    BY <2>0, <2>2, <1>9
  <2>3. CASE /\ Guards(InHand(p), snap) /\ MaySend(p, snap, fit)
             /\ pc' = [pc EXCEPT ![p] = "lock"]
             /\ market' = [market EXCEPT ![p] = snap.win]
    <3>1. snap.win # 0
      BY <2>1, <2>3 DEF MaySend, Published, NoSnapshot, none
    <3> QED BY <2>0, <2>3, <3>1 DEF Moves, Keeps
  <2> QED BY <2>1, <2>2, <2>3
<1>11. ASSUME NEW p \in Proc, TakeLock(p) PROVE Moves(q)
  BY <1>11 DEF TakeLock, Moves, Keeps, InBatch, Brisk
<1>12. ASSUME NEW p \in Proc, LockRefused(p) PROVE Moves(q)
  BY <1>9, <1>12 DEF LockRefused, InBatch, Brisk
<1>13. ASSUME NEW p \in Proc, SubmitTimeout(p) PROVE Moves(q)
  BY <1>9, <1>13 DEF SubmitTimeout, InBatch, TimedWait
<1>14. ASSUME NEW p \in Proc, Report(p) PROVE Moves(q)
  BY <1>14 DEF Report, Moves, Keeps, InBatch, Brisk
<1>15. ASSUME NEW o \in threads, NEW answer, ThreadEnds(o, answer) PROVE Moves(q)
  <2>1. o.proc \in Proc
    BY DEF Order
  <2>2. CASE Awaits(o.proc, o)
    BY <1>9, <1>15, <2>1, <2>2 DEF ThreadEnds, Awaits, InBatch, TimedWait
  <2>3. CASE ~Awaits(o.proc, o)
    BY <1>1, <1>15, <2>3 DEF ThreadEnds
  <2> QED BY <2>2, <2>3
<1> QED
  BY <1>1, <1>2, <1>3, <1>4, <1>5, <1>6, <1>7, <1>8, <1>10, <1>11, <1>12, <1>13, <1>14, <1>15
  DEF Next, ProcNext, vars, Tick, PublishEntry, PublishSignal, Publish, SetSwitch, RedisRestart, Post

LEMMA CursorStep ==
  ASSUME TypeOK, TypeOK', Cursors, [Next]_vars
  PROVE  Cursors'
<1> SUFFICES ASSUME NEW q \in Proc, pc'[q] \in InBatch
             PROVE  /\ pos'[q] <= batchEnd'[q] /\ batchEnd'[q] <= Len(stream')
                    /\ pc'[q] # "next" => pos'[q] >= 1
                    /\ batchNow'[q] <= now' /\ now' <= batchNow'[q] + BatchMax
  BY DEF Cursors
<1>1. /\ now \in Nat /\ batchNow[q] \in Nat /\ pos[q] \in Nat /\ batchEnd[q] \in Nat
      /\ Len(stream) \in Nat /\ Len(stream') \in Nat /\ Len(stream') >= Len(stream)
      /\ low \in Nat /\ BatchMax \in Nat /\ BatchSize \in Nat
  <2>1. Len(stream) \in Nat /\ Len(stream') \in Nat
    <3>1. stream \in Seq(Entry) /\ stream' \in Seq(Entry)
      BY DEF TypeOK
    <3> QED BY <3>1
  <2>2. now \in Nat /\ batchNow[q] \in Nat /\ pos[q] \in Nat /\ batchEnd[q] \in Nat /\ low \in Nat
    BY DEF TypeOK
  <2> QED BY <2>1, <2>2, StreamGrows, Constants
<1>2. pc[q] \in InBatch =>
        /\ pos[q] <= batchEnd[q] /\ batchEnd[q] <= Len(stream)
        /\ pc[q] # "next" => pos[q] >= 1
        /\ batchNow[q] <= now /\ now <= batchNow[q] + BatchMax
  BY DEF Cursors
<1>3. CASE Keeps(q) /\ pc'[q] = pc[q] /\ (now' = now \/ Tick)
  BY <1>1, <1>2, <1>3 DEF Keeps, Tick
<1>4. CASE ReadBatch(q)
  <2>1. ReadFrom(q) \in Nat /\ ReadFrom(q) < Len(stream)
    BY <1>1, <1>4 DEF ReadBatch, ReadFrom, Max2
  <2> QED BY <1>1, <1>4, <2>1 DEF ReadBatch, Min2, TypeOK
<1>5. CASE TakeUp(q)
  BY <1>1, <1>2, <1>5 DEF TakeUp, TypeOK, InBatch, Brisk
<1>6. CASE Keeps(q) /\ now' = now /\ pc[q] \in InBatch \ {"next"}
  BY <1>1, <1>2, <1>6 DEF Keeps
<1> QED
  BY <1>3, <1>4, <1>5, <1>6, LocalStep DEF Moves, InBatch, TimedWait, Brisk

LEMMA HandlingStep ==
  ASSUME TypeOK, TypeOK', Cursors, Entries, Fresh, Ready, [Next]_vars
  PROVE  Fresh' /\ Ready'
<1> SUFFICES ASSUME NEW q \in Proc
             PROVE  /\ pc'[q] \in {"gas", "poly", "lock"} => batchNow'[q] - InHand(q)'.ts <= Stale
                    /\ pc'[q] = "lock" =>
                         /\ market'[q] # 0
                         /\ InHand(q)'.win # 0 => InHand(q)'.win = market'[q]
                         /\ SecLeft(InHand(q), market[q])' >= MinLeft
                         /\ SecLeft(InHand(q), market[q])' <= MaxLeft
  BY DEF Fresh, Ready
<1>1. pc[q] \in {"gas", "poly", "lock"} => pos[q] \in 1..Len(stream)
  BY EntryInHand
<1>2. CASE pc'[q] \notin {"gas", "poly", "lock"}
  BY <1>2
<1>3. ASSUME Keeps(q), pc[q] \in {"gas", "poly", "lock"}
      PROVE  InHand(q)' = InHand(q) /\ batchNow'[q] - InHand(q)'.ts <= Stale
  BY <1>1, <1>3, StreamGrows DEF Keeps, InHand, Fresh
<1>4. CASE /\ Keeps(q) /\ pc'[q] = pc[q] /\ market'[q] = market[q] /\ (now' = now \/ Tick)
           /\ pc[q] \in {"gas", "poly", "lock"}
  <2>1. CASE pc[q] = "lock"
    <3>1. now' = now
      BY <1>4, <2>1 DEF Tick, Brisk
    <3> QED BY <1>3, <1>4, <2>1, <3>1 DEF Ready, SecLeft, EffectiveWindow
  <2>2. CASE pc[q] # "lock"
    BY <1>3, <1>4, <2>2
  <2> QED BY <2>1, <2>2
<1>5. CASE TakeUp(q)
  <2>1. /\ pos'[q] = pos[q] + 1 /\ batchNow'[q] = batchNow[q] /\ stream' = stream
        /\ pc'[q] = IF IsStale(q, stream[pos[q] + 1]) THEN "report" ELSE "gas"
    BY <1>5 DEF TakeUp, TypeOK
  <2>2. batchNow[q] \in Nat /\ stream[pos[q] + 1].ts \in Nat /\ Stale \in Nat
    <3>1. pos[q] + 1 \in 1..Len(stream)
      BY <1>5 DEF TakeUp, TypeOK, Cursors, InBatch, Brisk
    <3>2. stream \in Seq(Entry) /\ batchNow[q] \in Nat
      BY DEF TypeOK
    <3>3. stream[pos[q] + 1] \in Entry
      BY <3>1, <3>2
    <3> QED BY <3>2, <3>3, Constants DEF Entry
  <2> QED BY <2>1, <2>2 DEF IsStale, InHand
<1>6. CASE Keeps(q) /\ now' = now /\ pc[q] = "gas" /\ pc'[q] = "poly"
  BY <1>3, <1>6
<1>7. ASSUME Keeps(q), now' = now, pc[q] = "poly", pc'[q] = "lock",
             NEW snap \in Snapshot, snap.win # 0, market'[q] = snap.win, Guards(InHand(q), snap)
      PROVE  /\ batchNow'[q] - InHand(q)'.ts <= Stale
             /\ market'[q] # 0
             /\ InHand(q)'.win # 0 => InHand(q)'.win = market'[q]
             /\ SecLeft(InHand(q), market[q])' >= MinLeft
             /\ SecLeft(InHand(q), market[q])' <= MaxLeft
  <2>1. InHand(q)' = InHand(q) /\ batchNow'[q] - InHand(q)'.ts <= Stale
    BY <1>3, <1>7
  <2> QED BY <1>7, <2>1 DEF Guards, InTime, SameMarket, SecLeft, EffectiveWindow
<1> QED
  BY ZenonT(60), <1>2, <1>4, <1>5, <1>6, <1>7, LocalStep DEF Moves, InBatch, TimedWait, Brisk, ReadBatch, TypeOK

------------------------------------------------------------------------------
(* The orders. *)

LEMMA OrderMoves ==
  ASSUME [Next]_vars
  PROVE  \/ \E p \in Proc : TakeLock(p)
         \/ RedisRestart
         \/ UNCHANGED <<started, epoch, lockExp>>
BY ZenonT(60) DEF Next, vars, ProcNext, redisVars, orderVars, Tick, PublishEntry, PublishSignal,
   Publish, SetSwitch, Start,
   Kill, Stop, ReadFails, Gone, Resolve, ReadBatch, TakeUp, BatchDone, ReadArmed, ReadPoly, LockRefused,
   Post, ThreadEnds, SubmitTimeout, Report

\* Whoever takes the lock is in time, and is the first of its window in this life of Redis.
LEMMA FirstOfItsWindow ==
  ASSUME IInv, NEW p \in Proc, TakeLock(p)
  PROVE  \A o \in started : ~(o.win = OrderWindow(p) /\ o.epoch = epoch)
<1>1. SUFFICES ASSUME NEW o \in started, o.win = OrderWindow(p), o.epoch = epoch PROVE FALSE
  OBVIOUS
<1>2. /\ OrderWindow(p) = market[p] /\ market[p] \in Window
      /\ now < market[p] + WindowLen + LockTail
  BY LockWindow DEF IInv, TakeLock
<1>3. lockExp[o.win] >= o.win + WindowLen + LockTail
  BY <1>1 DEF IInv, Locked
<1>4. ~(now < lockExp[o.win])
  BY <1>1 DEF TakeLock, CanLock, LockHeld
<1>5. now \in Nat /\ lockExp[o.win] \in Int /\ o.win \in Nat /\ WindowLen \in Nat /\ LockTail \in Nat
  BY <1>1, <1>2, Constants DEF IInv, TypeOK
<1> QED BY <1>1, <1>2, <1>3, <1>4, <1>5

LEMMA OrderStep ==
  ASSUME IInv, [Next]_vars
  PROVE  Locked' /\ OneOrderPerWindow' /\ NotEarly' /\ TokenOfItsWindow'
<1>1. CASE UNCHANGED <<started, epoch, lockExp>>
  BY <1>1 DEF IInv, Locked, OneOrderPerWindow, NotEarly, TokenOfItsWindow
<1>2. CASE RedisRestart
  <2>1. started' = started /\ epoch' = epoch + 1 /\ epoch \in Nat
    BY <1>2 DEF RedisRestart, IInv, TypeOK, orderVars
  <2>2. \A o \in started : o.epoch \in Nat /\ o.epoch <= epoch
    BY DEF IInv, Locked, TypeOK, Order
  <2> QED BY <2>1, <2>2 DEF IInv, Locked, OneOrderPerWindow, NotEarly, TokenOfItsWindow
<1>3. ASSUME NEW p \in Proc, TakeLock(p)
      PROVE  Locked' /\ OneOrderPerWindow' /\ NotEarly' /\ TokenOfItsWindow'
  <2> DEFINE n == NewOrder(p)
             w == market[p]
  <2>1. /\ OrderWindow(p) = w /\ w \in Window
        /\ now >= w + WindowLen - MaxLeft
    BY <1>3, LockWindow DEF IInv, TakeLock
  <2>2. n.win = w /\ n.token = w /\ n.epoch = epoch /\ n.at = now
    BY <2>1 DEF NewOrder
  <2>3. started' = started \cup {n} /\ epoch' = epoch
    BY <1>3 DEF TakeLock
  <2>4. lockExp' = [lockExp EXCEPT ![w] = now + LockTTL(w)]
    BY <1>3, <2>1 DEF TakeLock
  <2>5. OneOrderPerWindow'
    <3>1. \A o \in started : ~(o.win = n.win /\ o.epoch = n.epoch)
      BY <1>3, <2>1, <2>2, FirstOfItsWindow
    <3> HIDE DEF n
    <3> QED BY <2>3, <3>1 DEF IInv, OneOrderPerWindow
  <2>6. Locked'
    <3>1. now + LockTTL(w) >= w + WindowLen + LockTail
      <4>1. now \in Nat /\ w \in Nat
        BY <2>1, Constants DEF IInv, TypeOK
      <4> HIDE DEF w
      <4> QED BY <4>1, Constants DEF LockTTL, Max2
    <3>2. lockExp'[w] >= w + WindowLen + LockTail
      BY <2>1, <2>4, <3>1 DEF IInv, TypeOK
    <3>3. ASSUME NEW o \in started'
          PROVE  o.epoch <= epoch' /\ (o.epoch = epoch' => lockExp'[o.win] >= o.win + WindowLen + LockTail)
      <4>1. CASE o.win = w /\ o.epoch = epoch
        BY <2>3, <3>2, <4>1 DEF IInv, TypeOK
      <4>2. CASE o \in started /\ o.win # w
        BY <2>3, <2>4, <4>2 DEF IInv, Locked, TypeOK, Order
      <4>3. CASE o \in started /\ o.epoch # epoch
        BY <2>3, <4>3 DEF IInv, Locked
      <4> QED BY <2>2, <2>3, <3>3, <4>1, <4>2, <4>3
    <3> QED BY <3>3 DEF Locked
  <2>7. NotEarly'
    BY <2>1, <2>2, <2>3 DEF IInv, NotEarly
  <2>8. TokenOfItsWindow'
    BY <2>2, <2>3 DEF IInv, TokenOfItsWindow
  <2> QED BY <2>5, <2>6, <2>7, <2>8
<1> QED BY <1>1, <1>2, <1>3, OrderMoves

------------------------------------------------------------------------------
(* The theorems. *)

LEMMA InitInvariant == Init => IInv
<1> SUFFICES ASSUME Init PROVE IInv
  OBVIOUS
<1>1. TypeOK
  BY Constants, LiveOrderAssumption DEF Init, TypeOK, Phase, Karar
<1>2. Cursors /\ Fresh /\ Ready
  BY DEF Init, Cursors, Fresh, Ready, InBatch, TimedWait, Brisk
<1>3. Entries
  BY DEF Init, Entries
<1>4. Locked /\ OneOrderPerWindow /\ NotEarly /\ TokenOfItsWindow
  BY DEF Init, Locked, OneOrderPerWindow, NotEarly, TokenOfItsWindow
<1> QED BY <1>1, <1>2, <1>3, <1>4 DEF IInv

LEMMA StepInvariant == IInv /\ [Next]_vars => IInv'
<1> SUFFICES ASSUME IInv, [Next]_vars PROVE IInv'
  OBVIOUS
<1>1. TypeOK'
  BY TypeStep DEF IInv
<1>2. Cursors'
  BY <1>1, CursorStep DEF IInv
<1>3. Entries'
  BY EntriesStep DEF IInv
<1>4. Fresh' /\ Ready'
  BY <1>1, HandlingStep DEF IInv
<1>5. Locked' /\ OneOrderPerWindow' /\ NotEarly' /\ TokenOfItsWindow'
  BY OrderStep
<1> QED BY <1>1, <1>2, <1>3, <1>4, <1>5 DEF IInv

THEOREM Invariant == Spec => []IInv
BY InitInvariant, StepInvariant, PTL DEF Spec

\* Every variable keeps its type, whatever the constants: in particular an order is always
\* for a market the configuration knows, and the cursor never goes below the stream.
THEOREM TypeCorrect == Spec => []TypeOK
<1>1. IInv => TypeOK
  BY DEF IInv
<1> QED BY <1>1, Invariant, PTL

\* One order per window in each life of Redis: any number of processes, restarts, overlapping
\* runs and late answers (_acquire_order_lock, _order_lock_ttl and the stale check together).
THEOREM OneOrder == Spec => []OneOrderPerWindow
<1>1. IInv => OneOrderPerWindow
  BY DEF IInv
<1> QED BY <1>1, Invariant, PTL

\* The lock of a window is held from its order until LockTail after the window closed.
THEOREM LockOutlives == Spec => []LockOutlivesMarket
<1>1. IInv => LockOutlivesMarket
  <2> SUFFICES ASSUME IInv, NEW o \in started, o.epoch = epoch, now < o.win + WindowLen + LockTail
               PROVE  now < lockExp[o.win]
    BY DEF LockOutlivesMarket, LockHeld
  <2>1. lockExp[o.win] >= o.win + WindowLen + LockTail
    BY DEF IInv, Locked
  <2>2. now \in Nat /\ lockExp[o.win] \in Int /\ o.win \in Nat /\ WindowLen \in Nat /\ LockTail \in Nat
    BY Constants DEF IInv, TypeOK, Order
  <2> QED BY <2>1, <2>2
<1> QED BY <1>1, Invariant, PTL

\* No order before the last MaxLeft seconds of its market (the `erken entry` guard).
THEOREM OrdersNotEarly == Spec => []NotEarly
<1>1. IInv => NotEarly
  BY DEF IInv
<1> QED BY <1>1, Invariant, PTL

\* An order buys a token of the very market its lock is for (the `market penceresi degisti`
\* guard).
THEOREM TokensMatch == Spec => []TokenOfItsWindow
<1>1. IInv => TokenOfItsWindow
  BY DEF IInv
<1> QED BY <1>1, Invariant, PTL

------------------------------------------------------------------------------
(* The agent implements the ledger. *)

\* A slot is at the exchange at most once.
LEMMA PostMoves ==
  ASSUME [Next]_vars
  PROVE  \/ \E o \in threads : Post(o)
         \/ posted' = posted
BY DEF Next, vars, ProcNext, orderVars, Tick, PublishEntry, PublishSignal, Publish, SetSwitch, RedisRestart,
   Start, Kill, Stop, ReadFails, Gone, Resolve, ReadBatch, TakeUp, BatchDone, ReadArmed, ReadPoly, TakeLock,
   LockRefused, ThreadEnds, SubmitTimeout, Report

LEMMA LedgerStep ==
  ASSUME IInv, [Next]_vars
  PROVE  [Ledger!Next]_(Ledger!ledgerVars)
<1> USE DEF Ledger!Next, Ledger!ledgerVars
<1>1. ASSUME NEW p \in Proc, TakeLock(p)
      PROVE  \E c \in Claims(started') \ Claims(started) : Ledger!Claim(c)
  <2> DEFINE n == NewOrder(p)
             c == ClaimOf(n)
  <2>1. c.win = OrderWindow(p) /\ c.epoch = epoch
    BY DEF NewOrder, ClaimOf
  <2>2. OrderWindow(p) \in Window
    BY <1>1, LockWindow DEF IInv, TakeLock
  <2>3. started' = started \cup {n} /\ epoch' = epoch /\ posted' = posted
    BY <1>1 DEF TakeLock
  <2>4. \A d \in Claims(started) : d.win = c.win => d.epoch # epoch
    BY <1>1, <2>1, FirstOfItsWindow DEF Claims, ClaimOf
  <2>5. c \notin Claims(started)
    BY <2>1, <2>4
  <2>6. Claims(started') = Claims(started) \cup {c}
    <3> HIDE DEF n
    <3> QED BY <2>3 DEF Claims
  <2> HIDE DEF c
  <2> QED BY <2>1, <2>2, <2>3, <2>4, <2>5, <2>6 DEF Ledger!Claim, Ledger!Free
<1>2. ASSUME NEW o \in threads, Post(o) PROVE \E c \in Claims(started) : Ledger!Arrive(c)
  <2>1. o \in started /\ o \notin posted /\ posted \subseteq started
    BY <1>2 DEF IInv, TypeOK, Post
  <2>2. posted' = posted \cup {o} /\ started' = started /\ epoch' = epoch
    BY <1>2 DEF Post, redisVars
  <2>3. ClaimOf(o) \notin Claims(posted)
    BY <2>1 DEF IInv, OneOrderPerWindow, Claims, ClaimOf
  <2>4. Claims(posted') = Claims(posted) \cup {ClaimOf(o)}
    BY <2>2 DEF Claims
  <2>5. ClaimOf(o) \in Claims(started) /\ Claims(started') = Claims(started)
    BY <2>1, <2>2 DEF Claims
  <2> QED BY <2>2, <2>3, <2>4, <2>5 DEF Ledger!Arrive
<1>3. CASE RedisRestart
  BY <1>3 DEF RedisRestart, Ledger!Forget, orderVars
<1>4. CASE UNCHANGED <<started, epoch>> /\ posted' = posted
  BY <1>4
<1> QED BY <1>1, <1>2, <1>3, <1>4, OrderMoves, PostMoves

\* The agent is an implementation of the abstract order ledger: taking the lock claims a
\* free slot, the SDK thread reaching the exchange moves the claim there once, a Redis restart
\* forgets, and everything else is invisible.
THEOREM Refinement == Spec => ImplementsLedger
<1>1. Init => Ledger!Init
  BY DEF Init, Ledger!Init, Claims
<1>2. IInv /\ [Next]_vars => [Ledger!Next]_(Ledger!ledgerVars)
  BY LedgerStep
<1> QED BY <1>1, <1>2, Invariant, PTL DEF Spec, ImplementsLedger, Ledger!Spec

------------------------------------------------------------------------------
(* No order goes unreported. *)

Outcome == {"LIVE_SENT", "LIVE_REJECTED"}
Row(o) == \E k \in Outcome : <<o.proc, o.entry, k>> \in rows

\* NoSilentOrder with what an order's handler is about to say of it: from the lock on it is
\* either inside wait_for or holds one of the two verdicts of a sent order.
Reporting(o) ==
  \/ faults > 0 \/ pc[o.proc] = "dead"
  \/ o.entry = pos[o.proc] /\ pc[o.proc] = "submit"
  \/ o.entry = pos[o.proc] /\ pc[o.proc] = "report" /\ verdict[o.proc] \in Outcome
  \/ Row(o)

Reported == \A o \in started : Reporting(o)

\* How a step may change what a process says of its order in hand.
SpeaksOf(q) ==
  \/ pc'[q] = "dead"
  \/ pc'[q] = pc[q] /\ pos'[q] = pos[q] /\ verdict'[q] = verdict[q]
  \/ pc[q] \notin {"submit", "report", "dead"}
  \/ pc[q] = "submit" /\ pos'[q] = pos[q] /\ pc'[q] = "report" /\ verdict'[q] \in Outcome
  \/ Report(q)

\* Rows are only added, and failures counted.
LEMMA RowsGrow ==
  ASSUME TypeOK, [Next]_vars
  PROVE  rows \subseteq rows' /\ (faults' = faults \/ faults' = faults + 1)
BY ZenonT(60) DEF Next, vars, ProcNext, orderVars, Tick, PublishEntry, PublishSignal,
   Publish, SetSwitch, RedisRestart,
   Start, Kill, Stop, ReadFails, Gone, Resolve, ReadBatch, TakeUp, BatchDone, ReadArmed, ReadPoly, TakeLock,
   LockRefused, Post, ThreadEnds, SubmitTimeout, Report, CallWorks, CallFails

LEMMA SpeakStep ==
  ASSUME TypeOK, [Next]_vars, NEW q \in Proc
  PROVE  SpeaksOf(q)
<1> USE DEF TypeOK, SpeaksOf, batchVars, Outcome
<1>1. CASE Tick \/ RedisRestart \/ PublishSignal
  BY <1>1 DEF Tick, RedisRestart, PublishSignal, Publish
<1>2. ASSUME NEW w \in Window, NEW lag \in 0..Lag, PublishEntry(w, lag) PROVE SpeaksOf(q)
  BY <1>2 DEF PublishEntry, Publish
<1>3. ASSUME NEW on \in Switches, SetSwitch(on) PROVE SpeaksOf(q)
  BY <1>3 DEF SetSwitch
<1>4. ASSUME NEW p \in Proc, Start(p) PROVE SpeaksOf(q)
  <2>1. p # q => pc'[q] = pc[q] /\ pos'[q] = pos[q] /\ verdict'[q] = verdict[q]
    BY <1>4 DEF Start
  <2>2. p = q => SpeaksOf(q)
    BY <1>4 DEF Start
  <2> QED BY <2>1, <2>2
<1>5. ASSUME NEW p \in Proc, Kill(p) PROVE SpeaksOf(q)
  <2>1. p # q => pc'[q] = pc[q] /\ pos'[q] = pos[q] /\ verdict'[q] = verdict[q]
    BY <1>5 DEF Kill, Gone
  <2>2. p = q => SpeaksOf(q)
    BY <1>5 DEF Kill, Gone
  <2> QED BY <2>1, <2>2
<1>6. ASSUME NEW p \in Proc, Stop(p) PROVE SpeaksOf(q)
  <2>1. p # q => pc'[q] = pc[q] /\ pos'[q] = pos[q] /\ verdict'[q] = verdict[q]
    BY <1>6 DEF Stop, Gone
  <2>2. p = q => SpeaksOf(q)
    BY <1>6 DEF Stop, Gone
  <2> QED BY <2>1, <2>2
<1>7. ASSUME NEW p \in Proc, ReadFails(p) PROVE SpeaksOf(q)
  <2>1. p # q => pc'[q] = pc[q] /\ pos'[q] = pos[q] /\ verdict'[q] = verdict[q]
    BY <1>7 DEF ReadFails, Gone
  <2>2. p = q => SpeaksOf(q)
    BY <1>7 DEF ReadFails, Gone
  <2> QED BY <2>1, <2>2
<1>8. ASSUME NEW p \in Proc, Resolve(p) PROVE SpeaksOf(q)
  <2>1. p # q => pc'[q] = pc[q] /\ pos'[q] = pos[q] /\ verdict'[q] = verdict[q]
    BY <1>8 DEF Resolve
  <2>2. p = q => SpeaksOf(q)
    BY <1>8 DEF Resolve
  <2> QED BY <2>1, <2>2
<1>9. ASSUME NEW p \in Proc, ReadBatch(p) PROVE SpeaksOf(q)
  <2>1. p # q => pc'[q] = pc[q] /\ pos'[q] = pos[q] /\ verdict'[q] = verdict[q]
    BY <1>9 DEF ReadBatch
  <2>2. p = q => SpeaksOf(q)
    BY <1>9 DEF ReadBatch
  <2> QED BY <2>1, <2>2
<1>10. ASSUME NEW p \in Proc, TakeUp(p) PROVE SpeaksOf(q)
  <2>1. p # q => pc'[q] = pc[q] /\ pos'[q] = pos[q] /\ verdict'[q] = verdict[q]
    BY <1>10 DEF TakeUp
  <2>2. p = q => SpeaksOf(q)
    BY <1>10 DEF TakeUp
  <2> QED BY <2>1, <2>2
<1>11. ASSUME NEW p \in Proc, BatchDone(p) PROVE SpeaksOf(q)
  <2>1. p # q => pc'[q] = pc[q] /\ pos'[q] = pos[q] /\ verdict'[q] = verdict[q]
    BY <1>11 DEF BatchDone
  <2>2. p = q => SpeaksOf(q)
    BY <1>11 DEF BatchDone
  <2> QED BY <2>1, <2>2
<1>12. ASSUME NEW p \in Proc, ReadArmed(p) PROVE SpeaksOf(q)
  <2>1. p # q => pc'[q] = pc[q] /\ pos'[q] = pos[q] /\ verdict'[q] = verdict[q]
    BY <1>12 DEF ReadArmed
  <2>2. p = q => SpeaksOf(q)
    BY <1>12 DEF ReadArmed
  <2> QED BY <2>1, <2>2
<1>13. ASSUME NEW p \in Proc, ReadPoly(p) PROVE SpeaksOf(q)
  <2>1. p # q => pc'[q] = pc[q] /\ pos'[q] = pos[q] /\ verdict'[q] = verdict[q]
    BY <1>13 DEF ReadPoly, Conclude
  <2>2. p = q => SpeaksOf(q)
    BY <1>13 DEF ReadPoly, Conclude
  <2> QED BY <2>1, <2>2
<1>14. ASSUME NEW p \in Proc, TakeLock(p) PROVE SpeaksOf(q)
  <2>1. p # q => pc'[q] = pc[q] /\ pos'[q] = pos[q] /\ verdict'[q] = verdict[q]
    BY <1>14 DEF TakeLock
  <2>2. p = q => SpeaksOf(q)
    BY <1>14 DEF TakeLock
  <2> QED BY <2>1, <2>2
<1>15. ASSUME NEW p \in Proc, LockRefused(p) PROVE SpeaksOf(q)
  <2>1. p # q => pc'[q] = pc[q] /\ pos'[q] = pos[q] /\ verdict'[q] = verdict[q]
    BY <1>15 DEF LockRefused, Conclude
  <2>2. p = q => SpeaksOf(q)
    BY <1>15 DEF LockRefused, Conclude
  <2> QED BY <2>1, <2>2
<1>16. ASSUME NEW p \in Proc, SubmitTimeout(p) PROVE SpeaksOf(q)
  <2>1. p # q => pc'[q] = pc[q] /\ pos'[q] = pos[q] /\ verdict'[q] = verdict[q]
    BY <1>16 DEF SubmitTimeout, Conclude
  <2>2. p = q => SpeaksOf(q)
    BY <1>16 DEF SubmitTimeout, Conclude
  <2> QED BY <2>1, <2>2
<1>17. ASSUME NEW p \in Proc, Report(p) PROVE SpeaksOf(q)
  <2>1. p # q => pc'[q] = pc[q] /\ pos'[q] = pos[q] /\ verdict'[q] = verdict[q]
    BY <1>17 DEF Report
  <2> QED BY <1>17, <2>1
<1>18. ASSUME NEW o \in threads, Post(o) PROVE SpeaksOf(q)
  BY <1>18 DEF Post
<1>19. ASSUME NEW o \in threads, NEW answer \in {"accepted", "refused", "raised"},
              ThreadEnds(o, answer)
      PROVE  SpeaksOf(q)
  <2>1. pos' = pos
    BY <1>19 DEF ThreadEnds
  <2>2. CASE Awaits(o.proc, o) /\ q = o.proc
    BY <1>19, <2>1, <2>2 DEF ThreadEnds, Conclude, Awaits
  <2>3. CASE ~Awaits(o.proc, o)
    BY <1>19, <2>1, <2>3 DEF ThreadEnds
  <2>4. CASE Awaits(o.proc, o) /\ q # o.proc
    <3>1. pc'[q] = pc[q] /\ verdict'[q] = verdict[q]
      BY <1>19, <2>4 DEF ThreadEnds, Conclude
    <3> QED BY <2>1, <3>1
  <2> QED BY <2>2, <2>3, <2>4
<1>20. CASE UNCHANGED vars
  BY <1>20 DEF vars
<1> QED
  BY <1>1, <1>2, <1>3, <1>4, <1>5, <1>6, <1>7, <1>8, <1>9, <1>10,
     <1>11, <1>12, <1>13, <1>14, <1>15, <1>16, <1>17, <1>18, <1>19, <1>20
  DEF Next, ProcNext

LEMMA ReportStep ==
  ASSUME TypeOK, Reported, [Next]_vars
  PROVE  Reported'
<1> SUFFICES ASSUME NEW o \in started' PROVE Reporting(o)'
  BY DEF Reported
<1>1. ASSUME NEW p \in Proc, TakeLock(p), o = NewOrder(p) PROVE Reporting(o)'
  BY <1>1 DEF TakeLock, NewOrder, Reporting, TypeOK, batchVars
<1>2. CASE o \in started
  <2> DEFINE q == o.proc
  <2>1. q \in Proc /\ Reporting(o)
    BY <1>2 DEF TypeOK, Order, Reported
  <2>2. /\ SpeaksOf(q) /\ rows \subseteq rows'
        /\ faults \in Nat /\ (faults' = faults \/ faults' = faults + 1)
    BY <2>1, SpeakStep, RowsGrow DEF TypeOK
  <2>3. CASE faults > 0 \/ Row(o)
    <3>1. faults > 0 => faults' > 0
      BY <2>2
    <3>2. Row(o) => Row(o)'
      BY <2>2 DEF Row
    <3> QED BY <2>3, <3>1, <3>2 DEF Reporting
  <2>4. CASE pc[q] = "dead" /\ ~Report(q)
    BY <2>2, <2>4 DEF Reporting, SpeaksOf
  <2>5. CASE o.entry = pos[q] /\ pc[q] = "submit" /\ ~Report(q)
    BY <2>2, <2>5 DEF Reporting, SpeaksOf
  <2>6. CASE o.entry = pos[q] /\ pc[q] = "report" /\ verdict[q] \in Outcome /\ ~Report(q)
    BY <2>2, <2>6 DEF Reporting, SpeaksOf
  <2>7. CASE /\ Report(q)
             /\ o.entry = pos[q] /\ pc[q] = "report" /\ verdict[q] \in Outcome
    <3>1. CASE faults' = faults /\ rows' = rows \cup {<<q, pos[q], verdict[q]>>}
      BY <2>7, <3>1 DEF Reporting, Row
    <3>2. CASE faults' = faults + 1
      BY <3>2 DEF Reporting, TypeOK
    <3> QED BY <2>7, <3>1, <3>2 DEF Report, CallWorks, CallFails, Outcome
  <2>8. Report(q) => pc[q] = "report"
    BY DEF Report
  <2> QED BY <2>1, <2>3, <2>4, <2>5, <2>6, <2>7, <2>8 DEF Reporting
<1> QED BY <1>1, <1>2, OrderMoves DEF TakeLock, RedisRestart, orderVars

\* Every order is reported: until a Redis call raises or its process ends, an order is awaited,
\* or its row is about to be added or in stream:executions (_emit_execution after wait_for).
THEOREM NoOrderSilent == Spec => []NoSilentOrder
<1>1. Init => Reported
  BY DEF Init, Reported
<1>2. IInv /\ Reported /\ [Next]_vars => Reported'
  BY ReportStep DEF IInv
<1>3. Reported => NoSilentOrder
  BY DEF Reported, Reporting, Row, Outcome, NoSilentOrder
<1> QED BY <1>1, <1>2, <1>3, Invariant, PTL DEF Spec

==============================================================================
