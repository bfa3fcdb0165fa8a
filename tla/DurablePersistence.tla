-------------------------- MODULE DurablePersistence --------------------------
(***************************************************************************)
(* QuestDBSFDurablePersistence.persist over the QuestDB store-and-forward  *)
(* client and the deduplicating Hot Store table.                           *)
(*                                                                         *)
(* External, as the code relies on it: the spool of published frames on    *)
(* disk (it survives the process), delivery from its head in order and at  *)
(* least once while a client is connected, the completion watermark (which *)
(* also passes frames the server dropped), the bounded ring of rejection   *)
(* diagnostics with its count of losses, and the table with DEDUP UPSERT   *)
(* KEYS(received_timestamp, capture_id), a key every fact has for itself.  *)
(* The server's verdict on a frame does not change when it is resent.      *)
(*                                                                         *)
(* A fact is persisted once: Capture Boundary mints a new identity for     *)
(* every message and recover_fact does not persist.                        *)
(***************************************************************************)
EXTENDS Naturals

CONSTANTS Facts, NoFact,
          MaxLost,       \* bound on lost acknowledgements
          MaxDropped     \* bound on lost rejection diagnostics

ASSUME PersistenceAssumption ==
    NoFact \notin Facts /\ MaxLost \in Nat /\ MaxDropped \in Nat

VARIABLES spool,         \* frames the client owns and has not completed
          frames,        \* number of frames published (the last FSN)
          wal,           \* delivered, not yet readable
          rows,          \* the readable Hot Store table
          deliveries,    \* number of accepted deliveries
          lostAcks,      \* number of acknowledgements lost so far
          errors,        \* the ring of rejection diagnostics
          dropped,       \* count of diagnostics lost
          connected,     \* a client is open, so the spool is being sent
          pc, fact, frame, droppedBefore, acknowledged,
          status,        \* what persist answered for each fact
          refused        \* history: facts the server terminally rejected

spoolVars == <<spool, frames>>
serverVars == <<wal, rows, deliveries, lostAcks, refused>>
ringVars == <<errors, dropped>>
callVars == <<fact, frame, droppedBefore, acknowledged>>
vars == <<spoolVars, serverVars, ringVars, connected, pc, callVars, status>>

Statuses == {"local_persistence_failed", "persisted_pending", "acknowledged_ok",
             "definitely_rejected", "in_doubt"}

Frame == [n : Nat, fact : Facts]

TypeOK ==
    /\ spool \subseteq Frame
    /\ frames \in Nat
    /\ wal \subseteq Frame
    /\ rows \subseteq Frame
    /\ deliveries \in Nat
    /\ lostAcks \in Nat
    /\ errors \subseteq [n : Nat, terminal : BOOLEAN]
    /\ dropped \in Nat
    /\ connected \in BOOLEAN
    /\ pc \in {"idle", "publish", "await", "poll"}
    /\ fact \in Facts \cup {NoFact}
    /\ frame \in Nat
    /\ droppedBefore \in Nat
    /\ acknowledged \in BOOLEAN
    /\ status \in [Facts -> Statuses \cup {"new", "running", "crashed"}]
    /\ refused \subseteq Facts

Init ==
    /\ spool = {} /\ frames = 0
    /\ wal = {} /\ rows = {} /\ deliveries = 0 /\ lostAcks = 0 /\ refused = {}
    /\ errors = {} /\ dropped = 0
    /\ connected = FALSE
    /\ pc = "idle" /\ fact = NoFact
    /\ frame = 0 /\ droppedBefore = 0 /\ acknowledged = FALSE
    /\ status = [f \in Facts |-> "new"]

-----------------------------------------------------------------------------
(* persist                                                                 *)
Answer(result) ==
    /\ pc' = "idle"
    /\ status' = [status EXCEPT ![fact] = result]

Call(f) ==
    /\ pc = "idle"
    /\ status[f] = "new"
    /\ pc' = "publish"
    /\ fact' = f
    /\ status' = [status EXCEPT ![f] = "running"]
    /\ UNCHANGED <<spoolVars, serverVars, ringVars, connected, frame,
                   droppedBefore, acknowledged>>

(* row and flush into the local spool.                                     *)
Spool ==
    /\ frames' = frames + 1
    /\ spool' = spool \cup {[n |-> frames + 1, fact |-> fact]}

(* An error before the FSN: without the in_doubt flag nothing is owned.    *)
FlagIgnored(inDoubt) == "local_persistence_failed"            \* mutant
DoubtIsPending(inDoubt) ==                                    \* mutant
    IF inDoubt THEN "persisted_pending" ELSE "local_persistence_failed"
PrePublicationFailure(inDoubt) ==
    IF inDoubt THEN "in_doubt" ELSE "local_persistence_failed"

(* Connect, row, flush: a definite failure, an error flagged in_doubt (or  *)
(* a missing FSN) that hides whether the frame was spooled, or an FSN.     *)
PublishOnce ==
    /\ pc = "publish"
    /\ connected' \in {connected, TRUE}
    /\ \/ \E inDoubt \in BOOLEAN :
          /\ Answer(PrePublicationFailure(inDoubt))
          /\ UNCHANGED spoolVars \/ (inDoubt /\ connected' /\ Spool)
          /\ UNCHANGED <<frame, droppedBefore>>
       \/ /\ connected'
          /\ pc' = "await"
          /\ Spool
          /\ frame' = frames + 1
          /\ droppedBefore' = dropped
          /\ UNCHANGED status
    /\ UNCHANGED <<serverVars, ringVars, fact, acknowledged>>

(* The completion watermark has reached the frame.                         *)
Completed(n) == \A w \in spool : w.n > n

(* await_acked_fsn: an error is a pending frame, a timeout is no answer.   *)
Await ==
    /\ pc = "await"
    /\ \/ Answer("persisted_pending") /\ UNCHANGED acknowledged
       \/ /\ acknowledged' \in {FALSE, Completed(frame)}
          /\ pc' = "poll"
          /\ UNCHANGED status
    /\ UNCHANGED <<spoolVars, serverVars, ringVars, connected, fact, frame,
                   droppedBefore>>

(* The ring is drained, whatever frames its entries are about; a rejection *)
(* of this frame outweighs a loss of diagnostics, which outweighs the      *)
(* acknowledgement.                                                        *)
LossIgnored ==                    \* mutant: lost diagnostics do not matter
    LET own == {e \in errors : e.n = frame}
    IN  IF \E e \in own : e.terminal THEN "definitely_rejected"
        ELSE IF own # {} \/ ~acknowledged THEN "persisted_pending"
        ELSE "acknowledged_ok"

Interpret ==
    LET own == {e \in errors : e.n = frame}
    IN  IF \E e \in own : e.terminal THEN "definitely_rejected"
        ELSE IF own # {} THEN "persisted_pending"
        ELSE IF dropped # droppedBefore THEN "in_doubt"
        ELSE IF ~acknowledged THEN "persisted_pending"
        ELSE "acknowledged_ok"

Poll ==
    /\ pc = "poll"
    /\ Answer(Interpret) \/ Answer("persisted_pending")
    /\ errors' = {}
    /\ UNCHANGED <<spoolVars, serverVars, dropped, connected, callVars>>

Program == PublishOnce \/ Await \/ Poll

(* The process stops; a restart finds the spool but no client, no ring and *)
(* no call.  close() between calls has the same effect.                    *)
Stop ==
    /\ connected \/ pc # "idle"
    /\ connected' = FALSE
    /\ pc' = "idle"
    /\ errors' = {} /\ dropped' = 0
    /\ status' = IF pc = "idle" THEN status ELSE [status EXCEPT ![fact] = "crashed"]
    /\ UNCHANGED <<spoolVars, serverVars, callVars>>

-----------------------------------------------------------------------------
(* The client's sender and the server (external).                          *)
Head(w) == w \in spool /\ \A v \in spool : w.n <= v.n

Complete(w) == spool' = spool \ {w} /\ UNCHANGED frames

Write(w) ==
    /\ deliveries' = deliveries + 1
    /\ wal' = wal \cup {[n |-> deliveries + 1, fact |-> w.fact]}

(* The frame is written and acknowledged.                                  *)
Accept == \E w \in spool :
    /\ connected /\ Head(w)
    /\ Write(w)
    /\ Complete(w)
    /\ UNCHANGED <<rows, lostAcks, refused, ringVars, connected, pc, callVars, status>>

(* The frame is written but its acknowledgement is lost: it will be sent   *)
(* again.                                                                  *)
LoseAck == \E w \in spool :
    /\ connected /\ Head(w)
    /\ lostAcks < MaxLost
    /\ lostAcks' = lostAcks + 1
    /\ Write(w)
    /\ UNCHANGED <<rows, refused, spoolVars, ringVars, connected, pc, callVars, status>>

(* The diagnostic of a rejection reaches the ring, or is counted as lost.  *)
Diagnose(w, terminal) ==
    \/ errors' = errors \cup {[n |-> w.n, terminal |-> terminal]} /\ UNCHANGED dropped
    \/ dropped < MaxDropped /\ dropped' = dropped + 1 /\ UNCHANGED errors

Written(f) == \E w \in wal \cup rows : w.fact = f

Reject == \E w \in spool :
    /\ connected /\ Head(w) /\ ~Written(w.fact)
    /\ Diagnose(w, TRUE)
    /\ refused' = refused \cup {w.fact}
    /\ Complete(w)
    /\ UNCHANGED <<wal, rows, deliveries, lostAcks, connected, pc, callVars, status>>

RejectForNow == \E w \in spool :
    /\ connected /\ Head(w)
    /\ Diagnose(w, FALSE)
    /\ UNCHANGED <<spoolVars, serverVars, connected, pc, callVars, status>>

Upsert(w) == {v \in rows : v.fact # w.fact} \cup {w}

(* The WAL is applied, replacing the row of the same key.                  *)
Apply == \E w \in wal :
    /\ \A v \in wal : w.n <= v.n
    /\ wal' = wal \ {w}
    /\ rows' = Upsert(w)
    /\ UNCHANGED <<spoolVars, deliveries, lostAcks, refused, ringVars, connected, pc,
                   callVars, status>>

Server == Accept \/ LoseAck \/ Reject \/ RejectForNow \/ Apply

Next == (\E f \in Facts : Call(f)) \/ Program \/ Stop \/ Server

Spec == Init /\ [][Next]_vars

(* persist waits with bounded timeouts; a connected client keeps sending,  *)
(* the server finally accepts or rejects what it is sent and applies what  *)
(* it has written.                                                         *)
FairSpec ==
    /\ Spec
    /\ WF_vars(Program)
    /\ WF_vars(Accept \/ Reject)
    /\ WF_vars(Apply)

-----------------------------------------------------------------------------
Owned(f) == \E w \in spool : w.fact = f

(* "ACKNOWLEDGED_OK: server completion is proven, no rejection covers the  *)
(* frame, and diagnostic loss is ruled out": the fact is written, although *)
(* the watermark also passes dropped frames.                               *)
AcknowledgedIsWritten ==
    \A f \in Facts : status[f] = "acknowledged_ok" => Written(f)

(* A fact persist gave up on never appears later, so a recorder that stops *)
(* there leaves nothing half recorded.                                     *)
RefusedNeverAppears ==
    \A f \in Facts :
        status[f] \in {"local_persistence_failed", "definitely_rejected"} =>
            ~Owned(f) /\ ~Written(f)

(* A pending fact becomes readable or is refused, unless the client stops: *)
(* nothing is sent until a later persist connects again.                   *)
PendingSettles ==
    \A f \in Facts :
        status[f] = "persisted_pending" ~>
            (\E w \in rows : w.fact = f) \/ f \in refused \/ ~connected
=============================================================================
