------------------------------ MODULE WhaleFlow ------------------------------
(***************************************************************************)
(* The whale agent (agent_whale.go), which adds up the trades of a futures *)
(* market between two publications, and the task of the brain that keeps   *)
(* the publications of the last while (whale_feed.py). An accumulator is   *)
(* the set of the trades it sums: its volumes, its largest trades and its  *)
(* count are functions of that set.                                        *)
(***************************************************************************)
EXTENDS StreamTail

CONSTANTS MaxConn,    \* bound: connections ever made
          RetryPause, \* before the next dial
          Span        \* window_ms: what the brain sums over

Conn == 1..MaxConn

ASSUME WhaleAssumption ==
  /\ MaxConn \in Nat /\ RetryPause \in Nat /\ Span \in Nat

VARIABLES link,      \* the read loop: its place, its connection, the pause's end
          acc,       \* the accumulator of each connection
          flushers,  \* connections whose flush goroutine runs
          flying,    \* the record each of these is publishing ({} or one)
          doubtful,  \* records of which an XADD failed: it may yet be executed
          wstream,   \* stream:whale
          wreader,   \* the task of the brain that reads it
          buf,       \* WhaleFeed: _buf, by record id
          heard,     \* the trades read so far are 1..heard
          lost,      \* history: trades of connections that closed
          belated,   \* history: records added for a connection that had closed
          missed,    \* history: records trimmed before the brain read them
          trades,    \* bound: trades still to come
          losses     \* bound: what may still fail

whale == <<link, acc, flushers, flying, doubtful, wstream, wreader, buf, heard, lost,
           belated, missed, trades, losses>>

Sum == [trades : SUBSET (Nat \ {0}), ts : Nat]
Stamped == [id : Nat, fields : Sum]

WhaleTypeOK ==
  /\ link \in [at : {"off", "dial", "open", "pause"}, conn : Nat, due : Nat]
  /\ acc \in [Conn -> SUBSET (Nat \ {0})] /\ flushers \subseteq Conn
  /\ flying \in [Conn -> SUBSET Sum] /\ doubtful \subseteq Sum
  /\ wstream \in [len : Nat, gone : Nat, recs : SUBSET Stamped]
  /\ wreader \in ReaderType /\ buf \subseteq Stamped /\ heard \in Nat
  /\ lost \subseteq Nat \ {0} /\ belated \subseteq Nat /\ missed \subseteq Nat
  /\ trades \in Nat /\ losses \in Nat

WhaleInit(on, t, f) ==
  /\ link = [at |-> IF on THEN "dial" ELSE "off", conn |-> 0, due |-> 0]
  /\ acc = [c \in Conn |-> {}] /\ flushers = {} /\ flying = [c \in Conn |-> {}]
  /\ doubtful = {} /\ belated = {} /\ wstream = NewStream /\ wreader = NewReader /\ buf = {}
  /\ heard = 0 /\ lost = {} /\ missed = {} /\ trades = t /\ losses = f

MayLose == losses > 0 /\ losses' = losses - 1

-----------------------------------------------------------------------------
(* RunWhaleAgent and the read loop of connectWhale                          *)

Connect == /\ link.at = "dial" /\ link.conn < MaxConn
           /\ link' = [link EXCEPT !.at = "open", !.conn = @ + 1]
           /\ flushers' = flushers \cup {link.conn + 1}
           /\ UNCHANGED <<acc, heard, trades, losses>>

Disconnect == /\ link.at \in {"dial", "open"} /\ MayLose
              /\ link' = [link EXCEPT !.at = "pause", !.due = now + RetryPause]
              /\ UNCHANGED <<acc, flushers, heard, trades>>

Redial == /\ link.at = "pause" /\ now >= link.due
          /\ link' = [link EXCEPT !.at = "dial"]
          /\ UNCHANGED <<acc, flushers, heard, trades, losses>>

Trade == /\ link.at = "open" /\ trades > 0 /\ trades' = trades - 1
         /\ heard' = heard + 1
         /\ acc' = [acc EXCEPT ![link.conn] = @ \cup {heard + 1}]
         /\ UNCHANGED <<link, flushers, losses>>

LinkStep == Connect \/ Disconnect \/ Redial \/ Trade

-----------------------------------------------------------------------------
(* The flush goroutine of a connection: takes the accumulator and empties   *)
(* it under one lock, then publishes. While it publishes it does not see    *)
(* that the connection is closed, and afterwards it may tick once more.     *)
(*                                                                          *)
(* The 500 ms of the publication's context do not end it: the client is     *)
(* made without ContextTimeoutEnabled, so it waits for the socket's own     *)
(* timeouts, tries again after a failure that came early, and reports a     *)
(* failure of commands that Redis may execute later, or has executed.       *)

Open(c) == link.at = "open" /\ link.conn = c

\* Mutant: what was taken is not cleared.
KeptAll(c) == acc[c]

Kept(c) == {}

\* Mutant: every tick publishes in a goroutine of its own.
MayFlushAtOnce(c) == c \in flushers /\ acc[c] # {}

MayFlush(c) == c \in flushers /\ acc[c] # {} /\ flying[c] = {}

Flush(c) == /\ MayFlush(c)
            /\ flying' = [flying EXCEPT ![c] = @ \cup {[trades |-> acc[c], ts |-> now]}]
            /\ acc' = [acc EXCEPT ![c] = Kept(c)]
            /\ UNCHANGED <<flushers, doubtful, wstream, wreader, lost, belated, losses>>

Add(rec) == wstream' \in AfterAdd(wstream, rec) /\ wreader' = Told(wreader, wstream')

Sent(c) == \E rec \in flying[c] :
             /\ Add(rec) /\ flying' = [flying EXCEPT ![c] = @ \ {rec}]
             /\ belated' = IF Open(c) THEN belated ELSE belated \cup {wstream.len + 1}
             /\ UNCHANGED <<acc, flushers, doubtful, lost, losses>>

(* The client tries again, or the goroutine goes on without the record.     *)
SendFails(c) == \E rec \in flying[c] :
                  /\ MayLose /\ doubtful' = doubtful \cup {rec}
                  /\ flying' \in {flying, [flying EXCEPT ![c] = @ \ {rec}]}
                  /\ UNCHANGED <<acc, flushers, wstream, wreader, lost, belated>>

Land == \E rec \in doubtful :
          /\ MayLose /\ Add(rec)
          /\ UNCHANGED <<acc, flushers, flying, doubtful, lost, belated>>

FlusherEnds(c) == /\ c \in flushers /\ ~Open(c) /\ flying[c] = {}
                  /\ flushers' = flushers \ {c}
                  /\ lost' = lost \cup acc[c] /\ acc' = [acc EXCEPT ![c] = {}]
                  /\ UNCHANGED <<flying, doubtful, wstream, wreader, belated, losses>>

FlushStep == Land \/ \E c \in Conn : Flush(c) \/ Sent(c) \/ SendFails(c) \/ FlusherEnds(c)

-----------------------------------------------------------------------------
(* WhaleFeed                                                                *)

Recent(rec) == now - rec.fields.ts <= Span

(* popleft while the front is too old: what is left begins with the first   *)
(* record that is not.                                                      *)
Pruned(b) == {rec \in b : \E front \in b : front.id <= rec.id /\ Recent(front)}

AskFlow == /\ wreader.at = "idle" /\ wreader' = Asking(wreader, wstream)
           /\ missed' = IF wreader.tail THEN missed
                        ELSE missed \cup (wreader.cursor + 1)..wstream.gone
           /\ UNCHANGED buf

NoFlow == /\ wreader.at = "blocked" /\ wreader' = NoAnswer(wreader)
          /\ UNCHANGED <<buf, missed>>

TakeFlow == /\ wreader.at = "answered" /\ wreader' = Taken(wreader)
            /\ buf' = Pruned(buf \cup Response(wreader, wstream))
            /\ UNCHANGED missed

(* signal: the net volume of what is left after pruning                     *)
Summed == Pruned(buf)

WhaleNext == \/ /\ LinkStep
                /\ UNCHANGED <<flying, doubtful, wstream, wreader, buf, lost, belated, missed>>
             \/ FlushStep /\ UNCHANGED <<link, buf, heard, missed, trades>>
             \/ /\ AskFlow \/ NoFlow \/ TakeFlow
                /\ UNCHANGED <<link, acc, flushers, flying, doubtful, wstream, heard, lost,
                               belated, trades, losses>>

-----------------------------------------------------------------------------
Apart(S, T) == S \cap T = {}

\* What has been taken out of an accumulator, wherever it is now.
Records == doubtful \cup {r.fields : r \in wstream.recs} \cup UNION {flying[c] : c \in Conn}

(* Each trade heard is in one place: an accumulator, one record, or lost    *)
(* with a closed connection; and the stream holds a record twice only if an *)
(* XADD of it failed.                                                       *)
TradesAccounted ==
  /\ 1..heard = lost \cup (UNION {acc[c] : c \in Conn}) \cup UNION {rec.trades : rec \in Records}
  /\ \A c \in Conn : Apart(acc[c], lost) /\ \A d \in Conn \ {c} : Apart(acc[c], acc[d])
  /\ \A rec \in Records : /\ Apart(rec.trades, lost)
                          /\ \A c \in Conn : Apart(rec.trades, acc[c])
                          /\ \A other \in Records \ {rec} : Apart(rec.trades, other.trades)
  /\ \A r, s \in wstream.recs : r.id # s.id /\ r.fields = s.fields => r.fields \in doubtful

\* What the brain was there for and was not trimmed before it read it.
WasRead == {rec \in wstream.recs : /\ wreader.since < rec.id /\ rec.id <= wreader.cursor
                                   /\ rec.id \notin missed}

\* A record that may stand in the stream behind one that was taken after it.
Astray(rec) == rec.id \in belated \/ rec.fields \in doubtful

(* The brain's signal sums every record of the last while that it has read, *)
(* and nothing that it has not read; and if it sums one that is older, then *)
(* a record of a closed connection or of an XADD that failed is among what  *)
(* it sums, at or before that one: an open connection publishes one record  *)
(* after the other, so popping from the front leaves nothing of its records *)
(* behind that is too old.                                                  *)
SignalExact ==
  ~wreader.tail =>
    /\ \A rec \in WasRead : Recent(rec) => rec \in Summed
    /\ \A rec \in Summed : /\ rec \in WasRead
                            /\ \/ Recent(rec)
                               \/ \E front \in Summed : front.id <= rec.id /\ Astray(front)
=============================================================================
