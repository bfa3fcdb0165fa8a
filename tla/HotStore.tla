------------------------------- MODULE HotStore -------------------------------
(***************************************************************************)
(* QuestDBHotStore.append_batch, read_capture and read_range: several      *)
(* stores on one table, each making one call at a time; a batch that was   *)
(* rejected may be offered again.                                          *)
(*                                                                         *)
(* How a store comes by its database is TableSetup's subject: here that    *)
(* step succeeds or the call ends as unavailable.  The two are used        *)
(* together, so the names of both are kept apart.                          *)
(*                                                                         *)
(* External, as the code relies on it: the client's sender, which buffers  *)
(* rows and may flush them on its own (the store connects without          *)
(* auto_flush=False), resends what was not acknowledged, and loses its     *)
(* frames with the connection; its completion watermark, which also passes *)
(* a frame the server dropped; the WAL table with DEDUP UPSERT KEYS        *)
(* (received_timestamp, capture_id).                                       *)
(***************************************************************************)
EXTENDS Naturals, Sequences, FiniteSetsExt, SequencesExt

CONSTANTS Stores,
          Facts,         \* records with a capture_id and what is stored of it
          Legacy,        \* rows written before the metadata columns
          Batches,       \* what callers offer
          Ranges,        \* what callers read
          MaxBatchRows,  \* max_batch_rows (500)
          MaxCalls,      \* bound on calls
          MaxResends,    \* bound on frames delivered twice
          MaxDropped     \* bound on frames the server drops and continues

(* The capture boundary gives every record a capture_id of its own.        *)
ASSUME HotStoreAssumption ==
    /\ Batches \subseteq Seq(Facts)
    /\ {MaxBatchRows, MaxCalls, MaxResends, MaxDropped} \subseteq Nat
    /\ Facts \cap Legacy = {}
    /\ \A f, g \in Facts \cup Legacy : f.capture_id = g.capture_id => f = g

VARIABLES stage, batch, given, buffer, fsn, reply,   \* one call per store
          inflight,      \* frames sent, outcome not settled
          frames, wal, rows,
          calls, resends, drops,
          offered,       \* history: facts of calls that were not refused
          receipted      \* history: facts of batches with a receipt

callVars == <<batch, given, buffer, fsn>>
serverVars == <<inflight, frames, wal, rows>>
countVars == <<calls, resends, drops>>
hotVars == <<stage, callVars, reply, serverVars, countVars, offered, receipted>>

Replies == {"none", "receipt", "too large", "unavailable", "rejected"}

Row == [n : Nat, fact : Facts \cup Legacy]

HotTypeOK ==
    /\ stage \in [Stores -> {"idle", "database", "rows", "await"}]
    /\ batch \in [Stores -> Seq(Facts)]
    /\ given \in [Stores -> 0..MaxBatchRows]
    /\ buffer \in [Stores -> SUBSET Facts]
    /\ fsn \in [Stores -> Nat]
    /\ reply \in [Stores -> Replies]
    /\ inflight \subseteq [n : Nat, by : Stores, facts : SUBSET Facts]
    /\ frames \in Nat
    /\ wal \subseteq Row /\ rows \subseteq Row
    /\ calls \in 0..MaxCalls /\ resends \in 0..MaxResends /\ drops \in 0..MaxDropped
    /\ offered \subseteq Facts /\ receipted \subseteq Facts

HotInit ==
    /\ stage = [s \in Stores |-> "idle"]
    /\ batch = [s \in Stores |-> <<>>]
    /\ given = [s \in Stores |-> 0]
    /\ buffer = [s \in Stores |-> {}]
    /\ fsn = [s \in Stores |-> 0]
    /\ reply = [s \in Stores |-> "none"]
    /\ inflight = {} /\ frames = 0 /\ wal = {}
    /\ rows = {[n |-> 0, fact |-> f] : f \in Legacy}
    /\ calls = 0 /\ resends = 0 /\ drops = 0
    /\ offered = {} /\ receipted = {}

-----------------------------------------------------------------------------
(* append_batch                                                            *)
Enter(s, step) == stage' = [stage EXCEPT ![s] = step]

End(s, result) ==
    /\ Enter(s, "idle")
    /\ reply' = [reply EXCEPT ![s] = result]
    /\ batch' = [batch EXCEPT ![s] = <<>>]
    /\ given' = [given EXCEPT ![s] = 0]
    /\ buffer' = [buffer EXCEPT ![s] = {}]
    /\ fsn' = [fsn EXCEPT ![s] = 0]

Send(s, facts) ==
    /\ frames' = frames + 1
    /\ inflight' = inflight \cup {[n |-> frames + 1, by |-> s, facts |-> facts]}
    /\ UNCHANGED <<wal, rows>>

(* A batch beyond the limit is refused whole, before the database is asked *)
(* for; an empty one is receipted without it.                              *)
SplitTooLarge(s, b) ==          \* mutant: the first rows are written anyway
    /\ Len(b) > MaxBatchRows
    /\ Send(s, ToSet(SubSeq(b, 1, MaxBatchRows)))
    /\ End(s, "too large")
    /\ UNCHANGED offered
RefuseTooLarge(s, b) ==
    /\ Len(b) > MaxBatchRows
    /\ End(s, "too large")
    /\ UNCHANGED <<offered, serverVars>>

Accept(s, b) ==
    /\ Len(b) \in 1..MaxBatchRows
    /\ Enter(s, "database")
    /\ batch' = [batch EXCEPT ![s] = b]
    /\ UNCHANGED <<given, buffer, fsn, reply, offered, serverVars>>

AppendBatch(s) == \E b \in Batches :
    /\ stage[s] = "idle"
    /\ calls < MaxCalls
    /\ calls' = calls + 1
    /\ \/ RefuseTooLarge(s, b)
       \/ b = <<>> /\ End(s, "receipt") /\ UNCHANGED <<offered, serverVars>>
       \/ Accept(s, b)
    /\ UNCHANGED <<resends, drops, receipted>>

DatabaseForUse(s) ==
    /\ stage[s] = "database"
    /\ \/ End(s, "unavailable") /\ UNCHANGED offered
       \/ /\ Enter(s, "rows")
          /\ offered' = offered \cup ToSet(batch[s])
          /\ UNCHANGED <<callVars, reply>>
    /\ UNCHANGED <<serverVars, countVars, receipted>>

GiveRow(s) ==
    /\ stage[s] = "rows" /\ given[s] < Len(batch[s])
    /\ given' = [given EXCEPT ![s] = @ + 1]
    /\ buffer' = [buffer EXCEPT ![s] = @ \cup {batch[s][given[s] + 1]}]
    /\ UNCHANGED <<stage, batch, fsn, reply, serverVars, countVars, offered, receipted>>

(* The sender flushes what it has buffered, on its own account.            *)
AutoFlush(s) ==
    /\ stage[s] = "rows" /\ buffer[s] # {}
    /\ Send(s, buffer[s])
    /\ buffer' = [buffer EXCEPT ![s] = {}]
    /\ UNCHANGED <<stage, batch, given, fsn, reply, countVars, offered, receipted>>

(* flush_and_get_fsn gives no number when there was nothing left to flush. *)
Flush(s) ==
    /\ stage[s] = "rows" /\ given[s] = Len(batch[s])
    /\ IF buffer[s] = {}
       THEN End(s, "rejected") /\ UNCHANGED serverVars
       ELSE /\ Send(s, buffer[s])
            /\ buffer' = [buffer EXCEPT ![s] = {}]
            /\ fsn' = [fsn EXCEPT ![s] = frames + 1]
            /\ Enter(s, "await")
            /\ UNCHANGED <<batch, given, reply>>
    /\ UNCHANGED <<countVars, offered, receipted>>

(* The watermark: no frame of the store up to its own is unsettled.        *)
FlushIsEnough(s) == TRUE                     \* mutant: nothing is awaited
Completed(s) == \A w \in inflight : w.by = s => w.n > fsn[s]

Outcome(acknowledged) == IF acknowledged THEN "receipt" ELSE "rejected"

AwaitAck(s) ==
    /\ stage[s] = "await"
    /\ \E acknowledged \in {FALSE, Completed(s)} :
          /\ End(s, Outcome(acknowledged))
          /\ receipted' = receipted \cup (IF acknowledged THEN ToSet(batch[s]) ELSE {})
    /\ UNCHANGED <<serverVars, countVars, offered>>

(* Any step of the sender may fail, and leaving it may flush what it has.  *)
SenderFails(s) ==
    /\ stage[s] \in {"rows", "await"}
    /\ End(s, "rejected")
    /\ \/ UNCHANGED serverVars
       \/ buffer[s] # {} /\ Send(s, buffer[s])
    /\ UNCHANGED <<countVars, offered, receipted>>

-----------------------------------------------------------------------------
(* The client's connection and the server (external).                      *)
Commit(w) == wal' = wal \cup {[n |-> w.n, fact |-> f] : f \in w.facts}

Deliver(w) ==
    /\ Commit(w)
    /\ inflight' = inflight \ {w}
    /\ UNCHANGED <<frames, rows, countVars>>

(* The frame is written but stays unacknowledged: it will be sent again,   *)
(* and be another WAL transaction.                                         *)
DeliverAgain(w) ==
    /\ resends < MaxResends /\ resends' = resends + 1
    /\ Commit(w)
    /\ frames' = frames + 1
    /\ inflight' = (inflight \ {w}) \cup {[w EXCEPT !.n = frames + 1]}
    /\ fsn' = [fsn EXCEPT ![w.by] = IF @ = w.n THEN frames + 1 ELSE @]
    /\ UNCHANGED <<rows, calls, drops>>

(* Drop and continue: the watermark passes a frame that was not written.   *)
Drop(w) ==
    /\ drops < MaxDropped /\ drops' = drops + 1
    /\ inflight' = inflight \ {w}
    /\ UNCHANGED <<frames, wal, rows, calls, resends>>

(* A frame whose call is over may be lost with its connection.             *)
Lose(w) ==
    /\ stage[w.by] = "idle"
    /\ inflight' = inflight \ {w}
    /\ UNCHANGED <<frames, wal, rows, countVars>>

DeduplicatedByTime(r) ==    \* mutant: UPSERT KEYS(received_timestamp) alone
    {v \in rows : v.fact.received # r.fact.received} \cup {r}
NotDeduplicated(r) == rows \cup {r}                             \* mutant
Upsert(r) ==
    {v \in rows : \/ v.fact.received # r.fact.received
                  \/ v.fact.capture_id # r.fact.capture_id} \cup {r}

Apply == \E r \in wal :
    /\ wal' = wal \ {r}
    /\ rows' = Upsert(r)
    /\ UNCHANGED <<inflight, frames, countVars, fsn>>

Server ==
    /\ \/ \E w \in inflight : DeliverAgain(w)
       \/ \E w \in inflight : Deliver(w) /\ UNCHANGED fsn
       \/ \E w \in inflight : Drop(w) /\ UNCHANGED fsn
       \/ \E w \in inflight : Lose(w) /\ UNCHANGED fsn
       \/ Apply
    /\ UNCHANGED <<stage, batch, given, buffer, reply, offered, receipted>>

HotNext ==
    \/ \E s \in Stores :
          AppendBatch(s) \/ DatabaseForUse(s) \/ GiveRow(s) \/ AutoFlush(s)
            \/ Flush(s) \/ AwaitAck(s) \/ SenderFails(s)
    \/ Server

HotSpec == HotInit /\ [][HotNext]_hotVars

-----------------------------------------------------------------------------
(* The reads, which change nothing: one query each.                        *)
Compatible(f) == f \notin Legacy

NoFact(outcome) == [outcome |-> outcome]
Found(f) == [outcome |-> "fact", fact |-> f]

ReadCapture(id) ==
    LET found == {r \in rows : r.fact.capture_id = id}
    IN  IF found = {} THEN NoFact("none")
        ELSE IF Cardinality(found) > 1 THEN NoFact("not unique")
        ELSE LET f == (CHOOSE r \in found : TRUE).fact
             IN  IF Compatible(f) THEN Found(f) ELSE NoFact("incompatible")

Selected(q) ==
    {r \in rows :
        /\ q.start <= r.fact.received /\ r.fact.received <= q.end
        /\ q.channel \in {"any", r.fact.channel}}

(* One incompatible row, and the whole range cannot be read.               *)
RangeRaises(q) == \E r \in Selected(q) : ~Compatible(r.fact)
ReadRange(q) ==
    SetToSortSeq(Selected(q), LAMBDA v, w : v.fact[q.order] < w.fact[q.order])

-----------------------------------------------------------------------------
Sent(f) ==
    \/ \E w \in inflight : f \in w.facts
    \/ \E r \in wal \cup rows : r.fact = f

(* "Persist one explicitly bounded batch or raise without a success        *)
(* receipt" (port.py:34): a fact with a receipt is in the WAL or readable, *)
(* whatever was flushed early, resent or retried.                          *)
ReceiptMeansStored ==
    \A f \in receipted : \E r \in wal \cup rows : r.fact = f

(* A call that is refused for its size, or finds no database, leaves no    *)
(* trace: every row on its way belongs to a batch whose call went on.      *)
RefusedCallSendsNothing == \A f \in Facts : Sent(f) => f \in offered

(* Batches rejected after they were sent and offered again, by the same or *)
(* another store, never make a capture "not uniquely retrievable"; facts   *)
(* received at the same instant stay distinct.                             *)
OneRowPerCapture ==
    \A f \in Facts : ReadCapture(f.capture_id) # NoFact("not unique")

(* A capture that could be read can be read again, and is the same; and a  *)
(* range that could be read and held it, holds it.                         *)
Holds(q, f) == \E i \in DOMAIN ReadRange(q) : ReadRange(q)[i].fact = f

OnceReadAlwaysRead ==
    [][ \A f \in Facts : ReadCapture(f.capture_id) = Found(f) =>
          /\ ReadCapture(f.capture_id)' = Found(f)
          /\ \A q \in Ranges :
                ~RangeRaises(q) /\ Holds(q, f) => ~RangeRaises(q)' /\ Holds(q, f)' ]_hotVars
=============================================================================
