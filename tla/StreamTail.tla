----------------------------- MODULE StreamTail -----------------------------
(***************************************************************************)
(* A Redis stream with an approximate MAXLEN, and a task of the brain that *)
(* follows it with XREAD (PolyFeed.run, WhaleFeed.run). The task applies a *)
(* whole response without an await, so it has three places to be in: about *)
(* to call, waiting, and answered. The clock is the one everybody reads.   *)
(***************************************************************************)
EXTENDS Naturals

CONSTANTS Count,   \* records one XREAD returns at most
          Keep     \* MAXLEN: trimming leaves at least so many

ASSUME TailAssumption == Count \in Nat \ {0} /\ Keep \in Nat \ {0}

VARIABLE now

-----------------------------------------------------------------------------
(* The stream: records have the ids 1..len, and those up to gone are        *)
(* trimmed. recs keeps them all, to compare with.                           *)

NewStream == [len |-> 0, gone |-> 0, recs |-> {}]

AfterAdd(s, fields) ==
  LET rec == [id |-> s.len + 1, fields |-> fields]
      least == s.len + 1 - Keep
      most == IF s.len + 1 > Keep /\ least > s.gone THEN least ELSE s.gone
  IN {[len |-> s.len + 1, gone |-> g, recs |-> s.recs \cup {rec}] : g \in {s.gone, most}}

-----------------------------------------------------------------------------
(* The reader: tail says that _last_id is still "$"; cursor is the last     *)
(* record taken, or where "$" pointed at the call; the response is what is  *)
(* between cursor and upto; since is where the first response began.        *)

NewReader == [at |-> "idle", tail |-> TRUE, cursor |-> 0, upto |-> 0, since |-> 0]

From(r, s) == IF r.tail THEN s.len ELSE IF r.cursor > s.gone THEN r.cursor ELSE s.gone
Upto(r, s) == IF From(r, s) + Count < s.len THEN From(r, s) + Count ELSE s.len

Asking(r, s) ==
  [r EXCEPT !.at = IF Upto(r, s) > From(r, s) THEN "answered" ELSE "blocked",
            !.cursor = From(r, s), !.upto = Upto(r, s),
            !.since = IF r.tail THEN From(r, s) ELSE @]

\* What an XADD that makes the stream s does to a reader that waits.
Told(r, s) == IF r.at = "blocked" THEN [r EXCEPT !.at = "answered", !.upto = s.len] ELSE r

NoAnswer(r) == [r EXCEPT !.at = "idle"]
Taken(r) == [r EXCEPT !.at = "idle", !.tail = FALSE, !.cursor = r.upto]

Response(r, s) == {rec \in s.recs : r.cursor < rec.id /\ rec.id <= r.upto}

ReaderType == [at : {"idle", "blocked", "answered"}, tail : BOOLEAN,
               cursor : Nat, upto : Nat, since : Nat]
=============================================================================
