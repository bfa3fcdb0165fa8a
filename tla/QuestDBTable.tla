----------------------------- MODULE QuestDBTable -----------------------------
(***************************************************************************)
(* External: one append-only QuestDB WAL table without DEDUP, as the       *)
(* adapters under src/ use it.  A published frame is in flight until the   *)
(* server writes it to the WAL or it is lost; a WAL transaction is durable *)
(* but not readable before it is applied (what wait_wal_table waits for);  *)
(* an applied row is readable for ever.  The client learns none of this    *)
(* except through the acknowledgement, the rejection diagnostics, the      *)
(* wait_wal_table barrier and its queries, and closing a sender does not   *)
(* recall what it has published (close(flush=False)).                      *)
(*                                                                         *)
(* WAL transactions are applied in any order here, a superset of the       *)
(* server's own order.                                                     *)
(***************************************************************************)
EXTENDS Naturals

VARIABLES inflight,    \* frames published, outcome not settled
          wal,         \* frames committed, not yet readable
          rows,        \* frames readable by every query
          frames       \* number of frames published so far

tableVars == <<inflight, wal, rows, frames>>

Frame(Row) == [n : Nat, row : Row]

TableTypeOK(Row) ==
    /\ inflight \subseteq Frame(Row)
    /\ wal \subseteq Frame(Row)
    /\ rows \subseteq Frame(Row)
    /\ frames \in Nat

TableInit == inflight = {} /\ wal = {} /\ rows = {} /\ frames = 0

Published == inflight \cup wal \cup rows

NextFrame(row) == [n |-> frames + 1, row |-> row]

(* sender.row + flush: the frame leaves the client.                        *)
Publish(row) ==
    /\ frames' = frames + 1
    /\ inflight' = inflight \cup {NextFrame(row)}
    /\ UNCHANGED <<wal, rows>>

(* A terminal rejection is only reported for a frame that will never be    *)
(* written.                                                                *)
TerminallyReject(w) ==
    /\ w \in inflight
    /\ inflight' = inflight \ {w}
    /\ UNCHANGED <<wal, rows, frames>>

Acknowledged(w) == w \in wal \cup rows

Commit == \E w \in inflight :
    /\ inflight' = inflight \ {w}
    /\ wal' = wal \cup {w}
    /\ UNCHANGED <<rows, frames>>

Apply == \E w \in wal :
    /\ wal' = wal \ {w}
    /\ rows' = rows \cup {w}
    /\ UNCHANGED <<inflight, frames>>

Lose == \E w \in inflight : TerminallyReject(w)

Server == Commit \/ Apply \/ Lose
=============================================================================
