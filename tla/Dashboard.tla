------------------------------ MODULE Dashboard ------------------------------
(***************************************************************************)
(* The dashboard server: one task that pumps the Redis streams to every    *)
(* connected WebSocket (redis_pump, ConnectionManager), one handler per    *)
(* WebSocket that sends it the past and then waits for its end             *)
(* (ws_endpoint), and the requests of the live switch, whose records are   *)
(* one of the streams (LiveSwitch). All of it runs in one event loop:      *)
(* a step goes from one await to the next.                                 *)
(***************************************************************************)
EXTENDS LiveSwitch, FiniteSets

CONSTANTS MaxSock,   \* bound: connections ever made
          Count,     \* records of a stream one XREAD returns at most
          Keep,      \* MAXLEN of a stream: trimming leaves at least so many
          HistMax,   \* records of the past sent to a new connection
          Settings   \* the settings a run may have: the LIVE_ARMED lines of
                     \* .env and, a bound, how often the environment acts

Sock == 1..MaxSock   \* connections, numbered as they come: a page that
                     \* connects again is another one
Streams == {"control", "trades"}
Kinds == {"trades", "asks", "deploys", "connects", "vanishes", "faults"}

ASSUME DashboardAssumption == /\ Count \in Nat \ {0} /\ Keep \in Nat \ {0}
                              /\ HistMax \in Nat \ {0}
                              /\ Settings \subseteq [env : Seq(Flag), budget : [Kinds -> Nat]]
                              /\ MaxSock \in Nat

VARIABLES added,     \* number of records ever added to each stream
          trimmed,   \* how many of these, the oldest, Redis no longer has
          cursor,    \* last_ids: the last record taken from each stream
          fromNow,   \* streams whose last_ids is still "$"
          upto,      \* the response of XREAD: the records after cursor, to here
          pump,      \* where redis_pump is
          sent,      \* the record being broadcast
          size,      \* how many connections the iteration began with
          cur,       \* the connection the broadcast is waiting for ({} or one)
          todo,      \* those the iteration has still to come to
          dead,      \* those whose send failed
          stirred,   \* what has become of active since the iteration began
          active,    \* ConnectionManager.active
          at,        \* where each connection's handler is
          gone,      \* connections whose client has vanished
          past,      \* history: the trades its handler read to send it, after
                     \* from and up to to, and the newest there was then, seen
          got,       \* history: records broadcast to each connection
          since,     \* history: cursor when the connection joined
          lost,      \* history: records the pump need not bring to everyone
          twice,     \* history: a record came again, or after a later one
          budget     \* bound: what the environment may still do

hub == <<cursor, fromNow, upto, pump, sent, size, cur, todo, dead, stirred>>
socks == <<active, at, gone, past, since>>
vars == <<switch, added, trimmed, hub, socks, got, lost, twice, budget>>

PumpAt == {"read", "blocked", "answered", "send", "sleep"}
Stirred == {"still", "changed", "resumed"}
SockAt == {"new", "ping", "fetch", "history", "listen", "bare", "raised", "done"}
Record == Streams \X Nat

HubTypeOK == /\ added \in [Streams -> Nat] /\ trimmed \in [Streams -> Nat]
             /\ cursor \in [Streams -> Nat] /\ upto \in [Streams -> Nat]
             /\ fromNow \subseteq Streams /\ pump \in PumpAt
             /\ sent \in Record /\ size \in Nat /\ stirred \in Stirred
             /\ cur \subseteq Sock /\ todo \subseteq Sock /\ dead \subseteq Sock
             /\ active \subseteq Sock /\ gone \subseteq Sock
             /\ at \in [Sock -> SockAt]
             /\ past \in [Sock -> [from : Nat, to : Nat, seen : Nat]]
             /\ got \in [Sock -> SUBSET Record] /\ lost \subseteq Record
             /\ since \in [Sock -> [Streams -> Nat]] /\ twice \in BOOLEAN
             /\ budget \in [Kinds -> Nat]

TypeOK == SwitchTypeOK /\ HubTypeOK

Spend(kind) == budget[kind] > 0 /\ budget' = [budget EXCEPT ![kind] = @ - 1]

Init == /\ \E s \in Settings : SwitchInit(s.env) /\ budget = s.budget
        /\ added = [s \in Streams |-> 0] /\ trimmed = [s \in Streams |-> 0]
        /\ cursor = [s \in Streams |-> 0] /\ upto = [s \in Streams |-> 0]
        /\ fromNow = Streams /\ pump = "read"
        /\ sent = <<"trades", 0>> /\ size = 0 /\ stirred = "still"
        /\ cur = {} /\ todo = {} /\ dead = {} /\ active = {} /\ gone = {}
        /\ at = [c \in Sock |-> "new"]
        /\ past = [c \in Sock |-> [from |-> 0, to |-> 0, seen |-> 0]]
        /\ got = [c \in Sock |-> {}]
        /\ since = [c \in Sock |-> [s \in Streams |-> 0]]
        /\ lost = {} /\ twice = FALSE
-----------------------------------------------------------------------------
(* Redis: an XADD, by whichever agent, trims the stream to Keep records or  *)
(* somewhat more, and answers an XREAD that waits.                          *)

Waiting(s) == s \in fromNow /\ upto[s] = cursor[s]  \* "$" is still to be resolved
Unasked(s) == pump # "blocked" /\ Waiting(s)         \* ... after the next record

Span(s, from, to) == {s} \X (from..to)
Skipped(s) == IF Unasked(s) THEN {<<s, added[s] + 1>>} ELSE {}

MayTrim(s) == LET least == added[s] + 1 - Keep
              IN trimmed[s]..(IF least > trimmed[s] THEN least ELSE trimmed[s])

Publish(s) ==
  /\ added' = [added EXCEPT ![s] = @ + 1]
  /\ \E t \in MayTrim(s) :
       /\ trimmed' = [trimmed EXCEPT ![s] = t]
       /\ lost' = lost \cup Span(s, upto[s] + 1, t) \cup Skipped(s)
  /\ cursor' = IF Unasked(s) THEN [cursor EXCEPT ![s] = added[s] + 1] ELSE cursor
  /\ upto' = IF Unasked(s) \/ pump = "blocked" THEN [upto EXCEPT ![s] = added[s] + 1]
                                              ELSE upto
  /\ pump' = IF pump = "blocked" THEN "answered" ELSE pump
  /\ UNCHANGED <<fromNow, sent, size, cur, todo, dead, stirred, socks, got, twice>>

-----------------------------------------------------------------------------
(* redis_pump                                                               *)

First(s) == IF s \in fromNow \/ cursor[s] > trimmed[s] THEN cursor[s] ELSE trimmed[s]
Last(s) == IF s \in fromNow THEN cursor[s]
           ELSE IF added[s] > First(s) + Count THEN First(s) + Count ELSE added[s]

Read == /\ pump = "read"
        /\ cursor' = [s \in Streams |-> First(s)]
        /\ upto' = [s \in Streams |-> Last(s)]
        /\ pump' = IF \E s \in Streams : Last(s) > First(s) THEN "answered" ELSE "blocked"
        /\ UNCHANGED <<fromNow, sent, size, cur, todo, dead, stirred>>

ReadTimesOut == /\ pump = "blocked" /\ pump' = "read"
                /\ UNCHANGED <<cursor, fromNow, upto, sent, size, cur, todo, dead, stirred>>

(* An exception: what is left of the response is thrown away. It is read    *)
(* again unless it has been trimmed meanwhile; "$" means the next call's now. *)
Forsaken == UNION {Span(s, cursor[s] + 1, IF s \in fromNow THEN added[s] ELSE trimmed[s])
                     : s \in Streams}

\* Mutant: after an error every stream is read from now on.
ResumeNow(s) == added[s]

Resume(s) == IF s \in fromNow THEN added[s] ELSE cursor[s]

Raises == /\ pump' = "sleep"
          /\ cursor' = [s \in Streams |-> Resume(s)]
          /\ upto' = cursor'
          /\ cur' = {} /\ todo' = {} /\ dead' = {}
          /\ lost' = lost \cup Forsaken
          /\ UNCHANGED <<fromNow, sent, size, stirred>>

ReadFails == pump \in {"read", "blocked", "answered"} /\ Raises

\* Mutant: an exception ends the task.
WakesNever == FALSE

Wakes == /\ pump = "sleep" /\ pump' = "read"
         /\ UNCHANGED <<cursor, fromNow, upto, sent, size, cur, todo, dead, stirred>>

Answered == {s \in Streams : cursor[s] < upto[s]}

(* The next record of the response: last_ids is moved, then broadcast runs  *)
(* to its first await. With nobody in act, nothing is awaited to the end.   *)
NextRecord(act) ==
  \/ /\ act = {} \/ Answered = {}
     /\ pump' = "read"
     /\ cursor' = upto /\ fromNow' = fromNow \ Answered
     /\ cur' = {} /\ todo' = {} /\ dead' = {}
     /\ UNCHANGED <<upto, sent, size, stirred>>
  \/ \E s \in Answered, c \in act :
        /\ pump' = "send"
        /\ cursor' = [cursor EXCEPT ![s] = @ + 1] /\ fromNow' = fromNow \ {s}
        /\ sent' = <<s, cursor[s] + 1>>
        /\ size' = Cardinality(act) /\ stirred' = "still"
        /\ cur' = {c} /\ todo' = act \ {c} /\ dead' = {}
        /\ UNCHANGED upto

Begin == pump = "answered" /\ NextRecord(active)

(* The iteration goes on with the next connection of rest.                  *)
NextSocket(rest, failed) ==
  \E c \in rest : /\ cur' = {c} /\ todo' = rest \ {c} /\ dead' = failed
                  /\ stirred' = IF stirred = "changed" THEN "resumed" ELSE stirred
                  /\ UNCHANGED <<cursor, fromNow, upto, pump, sent, size>>

(* What an iterator over a set that has changed without changing size will  *)
(* come to is not defined.                                                  *)
Rests == IF stirred = "changed" THEN SUBSET active ELSE {todo}

(* A send ends, well or badly, and broadcast runs to its next await: a set  *)
(* of another size raises, and at the end the failed ones are discarded.    *)
SendEnds(c) ==
  LET failed == dead \cup ({c} \cap gone)
  IN /\ pump = "send" /\ cur = {c}
     /\ got' = IF c \in gone THEN got ELSE [got EXCEPT ![c] = @ \cup {sent}]
     /\ twice' = (twice \/ (stirred = "still" /\ c \notin gone
                            /\ \E r \in got[c] : r[1] = sent[1] /\ r[2] >= sent[2]))
     /\ \/ Cardinality(active) # size /\ Raises /\ UNCHANGED active
        \/ /\ Cardinality(active) = size
           /\ \E rest \in Rests :
                IF rest = {} THEN active' = active \ failed /\ NextRecord(active')
                             ELSE NextSocket(rest, failed) /\ UNCHANGED active
           /\ UNCHANGED lost

-----------------------------------------------------------------------------
(* ws_endpoint, one per connection                                          *)

Stir == IF pump = "send" THEN stirred' = "changed" /\ lost' = lost \cup {sent}
                         ELSE UNCHANGED <<stirred, lost>>
Pumping == <<cursor, fromNow, upto, pump, sent, size, cur, todo, dead>>

(* manager.connect *)
Connect(c) == /\ at[c] = "new" /\ \A b \in 1..c - 1 : at[b] # "new"
              /\ at' = [at EXCEPT ![c] = "ping"]
              /\ active' = active \cup {c}
              /\ since' = [since EXCEPT ![c] = cursor]
              /\ Stir
              /\ UNCHANGED <<Pumping, gone, past>>

(* PING, then the status, which is sent outside of any try: an exception    *)
(* ends the handler and leaves the connection in active.                    *)
SendStatus(c) == /\ at[c] = "ping"
                 /\ at' = [at EXCEPT ![c] = IF c \in gone THEN "raised" ELSE "fetch"]
                 /\ UNCHANGED <<hub, active, gone, past, since, lost>>

(* XRANGE with a count: the oldest n of what Redis has. *)
\* Mutant: one record less than the count.
OldestFewer(n) == trimmed["trades"] + n - 1

Oldest(n) == IF added["trades"] < trimmed["trades"] + n THEN added["trades"]
             ELSE trimmed["trades"] + n

Fetch(c) == /\ at[c] = "fetch"
            /\ at' = [at EXCEPT ![c] = "history"]
            /\ past' = [past EXCEPT ![c] = 
                   [from |-> trimmed["trades"], to |-> Oldest(HistMax), seen |-> added["trades"]]]
            /\ UNCHANGED <<hub, active, gone, since, lost>>

(* It raises, is logged, and the handler goes on without the past. *)
FetchFails(c) == /\ at[c] = "fetch"
                 /\ at' = [at EXCEPT ![c] = "bare"]
                 /\ UNCHANGED <<hub, active, gone, past, since, lost>>

SendPast(c) == /\ at[c] = "history"
               /\ at' = [at EXCEPT ![c] = IF c \in gone THEN "bare" ELSE "listen"]
               /\ UNCHANGED <<hub, active, gone, past, since, lost>>

(* receive_text raises; manager.disconnect *)
Leave(c) == /\ at[c] \in {"listen", "bare"} /\ c \in gone
            /\ at' = [at EXCEPT ![c] = "done"]
            /\ active' = active \ {c}
            /\ IF c \in active THEN Stir ELSE UNCHANGED <<stirred, lost>>
            /\ UNCHANGED <<Pumping, gone, past, since>>

(* The client closes its connection, or the network does. *)
Vanish(c) == /\ at[c] \notin {"new", "raised", "done"} /\ c \notin gone
             /\ gone' = gone \cup {c}
             /\ UNCHANGED <<hub, active, at, past, since, lost>>

(* The process ends and starts again; every connection ends with it. *)
HubKill == /\ cursor' = added /\ upto' = added /\ fromNow' = Streams
           /\ pump' = "read" /\ cur' = {} /\ todo' = {} /\ dead' = {} /\ active' = {}
           /\ at' = [c \in Sock |-> IF at[c] = "new" THEN "new" ELSE "done"]
           /\ lost' = lost \cup UNION {Span(s, cursor[s] + 1, added[s]) : s \in Streams}
           /\ UNCHANGED <<sent, size, stirred, gone, past, since>>

(* Redis comes back empty; a call that waits for it raises. *)
HubRedisRestart ==
  /\ trimmed' = added
  /\ lost' = lost \cup UNION {Span(s, upto[s] + 1, added[s]) : s \in Streams}
  /\ pump' = IF pump = "blocked" THEN "sleep" ELSE pump
  /\ UNCHANGED <<cursor, fromNow, upto, sent, size, cur, todo, dead, stirred>>

-----------------------------------------------------------------------------
redis == <<added, trimmed>>
heard == <<got, twice>>

PumpStep == /\ \/ /\ Read \/ ReadTimesOut \/ Wakes \/ Begin
                  /\ UNCHANGED <<active, heard, lost>>
               \/ \E c \in Sock : SendEnds(c)
            /\ UNCHANGED <<switch, redis, at, gone, past, since, budget>>

SockStep == /\ \/ \E c \in Sock : Connect(c) /\ Spend("connects")
               \/ \E c \in Sock : Vanish(c) /\ Spend("vanishes")
               \/ \E c \in Sock : FetchFails(c) /\ Spend("faults")
               \/ /\ \E c \in Sock : SendStatus(c) \/ Fetch(c) \/ SendPast(c) \/ Leave(c)
                  /\ UNCHANGED budget
            /\ UNCHANGED <<switch, redis, heard>>

(* The requests of LiveSwitch; their XADDs are the records of the stream.   *)
SwitchStep ==
  \/ /\ \/ (\E o \in Operator, v \in Flag : Ask(o, v)) /\ Spend("asks")
        \/ DeployReads /\ Spend("deploys")
        \/ /\ \/ \E o \in Operator, landed \in BOOLEAN : HashFails(o, landed)
              \/ \E o \in Operator : TellFails(o, FALSE)
              \/ DeployHash(FALSE) \/ DeployTells(FALSE)
           /\ Spend("faults")
        \/ /\ \/ \E o \in Operator : WriteHash(o)
              \/ DeployLooks \/ DeployAppends \/ DeployHash(TRUE)
           /\ UNCHANGED budget
     /\ UNCHANGED <<redis, hub, socks, heard, lost>>
  \/ /\ \/ (\E o \in Operator : TellFails(o, TRUE)) /\ Spend("faults")
        \/ ((\E o \in Operator : Tell(o)) \/ DeployTells(TRUE)) /\ UNCHANGED budget
     /\ Publish("control")

Trade == Publish("trades") /\ Spend("trades") /\ UNCHANGED switch

Fault == /\ \/ ReadFails /\ UNCHANGED <<switch, redis, socks>>
            \/ HubKill /\ SwitchKill /\ UNCHANGED redis
            \/ /\ HubRedisRestart /\ SwitchRedisRestart
               /\ UNCHANGED <<added, socks>>
         /\ Spend("faults")
         /\ UNCHANGED heard

Next == PumpStep \/ SockStep \/ SwitchStep \/ Trade \/ Fault

Spec == Init /\ [][Next]_vars

(* asyncio runs the pump whenever it can go on; every XREAD and every send  *)
(* ends. Nothing is said of clients, operators or failures.                 *)
FairSpec == Spec /\ WF_vars(PumpStep)

-----------------------------------------------------------------------------
InHand(c, r) == pump = "send" /\ sent = r /\ c \in cur \cup todo
Connected(c) == at[c] \in {"ping", "fetch", "history", "listen", "bare"} /\ c \notin gone

(* What redis_pump's docstring says: it broadcasts every record. A page     *)
(* gets each record of a stream that comes after the page has joined and    *)
(* that the pump has left behind. It does not hold: "$" is resolved anew by *)
(* every XREAD until the first record has come, so that a record added      *)
(* between two calls is skipped; and a broadcast during which a connection  *)
(* joins or leaves raises, and its record is not sent again.                *)
EveryRecordBroadcast ==
  \A c \in Sock, s \in Streams :
    Connected(c) => \A i \in since[c][s] + 1..cursor[s] :
      <<s, i>> \in got[c] \/ InHand(c, <<s, i>>)

(* What holds besides: the records of those two causes, and those trimmed   *)
(* before the pump could read them, are all that a connected page can miss  *)
(* (lost), whatever happens to other connections meanwhile; and a page gets *)
(* none twice or out of the stream's order. (redis_pump, broadcast)         *)
HubDelivers ==
  /\ \A c \in Sock, s \in Streams :
       Connected(c) => \A i \in since[c][s] + 1..cursor[s] :
         <<s, i>> \in got[c] \cup lost \/ InHand(c, <<s, i>>)
  /\ ~twice

(* Between the past it is sent on connecting and what is broadcast to it, a *)
(* page misses no trade that Redis still has, except those in lost and those *)
(* that were there when its past was read, beyond the oldest HistMax.       *)
(* (ws_endpoint)                                                            *)
HistoryJoinsLive ==
  \A c \in Sock : at[c] = "listen" /\ c \notin gone =>
    \A i \in trimmed["trades"] + 1..cursor["trades"] :
      \/ i \in past[c].from + 1..past[c].to
      \/ past[c].to = past[c].from + HistMax /\ i <= past[c].seen
      \/ <<"trades", i>> \in got[c] \cup lost
      \/ InHand(c, <<"trades", i>>)

(* However connections come and go, the pump does not get stuck: it has     *)
(* always again dealt with every record there is. (redis_pump)              *)
PumpCatchesUp == []<>(cursor = added)

=============================================================================
