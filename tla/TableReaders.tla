----------------------------- MODULE TableReaders -----------------------------
(***************************************************************************)
(* The adapters of TableSetup, once every one of them has its database,    *)
(* read rows: the server shows a row of one of the three tables to the     *)
(* table's own adapter and to the Replay source.                           *)
(***************************************************************************)
EXTENDS TableSetup, StoredRows

VARIABLE shown           \* the row shown, among the rows of each table

readerVars == <<vars, shown>>

NoRow == [facts |-> {}, decisions |-> {}, markers |-> {}]

ReaderInit == Init /\ shown = NoRow

Serving == \A a \in Adapters : ready[a] /\ pc[a] = "idle" /\ ~touched[a]

(* find, read_capture, read_range, candidate_records: no column is trusted *)
(* to hold what a writer would have put there.                             *)
ShowRow ==
    /\ Serving
    /\ shown = NoRow
    /\ \/ \E r \in FactRows : shown' = [NoRow EXCEPT !.facts = {r}]
       \/ \E r \in DecisionRows : shown' = [NoRow EXCEPT !.decisions = {r}]
       \/ \E r \in MarkerRows : shown' = [NoRow EXCEPT !.markers = {r}]
    /\ UNCHANGED vars

ReaderNext == (Next /\ shown' = NoRow) \/ ShowRow

ReaderSpec == ReaderInit /\ [][ReaderNext]_readerVars

ReaderTypeOK ==
    /\ TypeOK
    /\ shown \in [facts : SUBSET FactRows, decisions : SUBSET DecisionRows,
                  markers : SUBSET MarkerRows]

-----------------------------------------------------------------------------
(* A fact that is judged is replayed as the same fact or not at all: what  *)
(* the recorder's exact read-back lets pass, the source reads alike or     *)
(* refuses, as it does a number that is no int.  A row with every key and  *)
(* number in its column's type is read by both or by neither.              *)
Regular(r) ==
    /\ IsFull(r.capture_id) /\ IsFull(r.source_id) /\ IsFull(r.message_type)
    /\ r.sid.is = "int" /\ r.seq.is \in {"int", "none"}
    /\ r.received_timestamp.is \notin HotNulls

FactReadersAgree(r) ==
    /\ Judged(r) # {} => SourceFact(r) \subseteq Judged(r)
    /\ Regular(r) => SourceFact(r) = Judged(r)

(* The history and the Replay source read every decision row alike, and    *)
(* call the same rows malformed.                                           *)
DecisionReadersAgree(r) == HistoryDecision(r) = SourceDecision(r)

(* A marker Replay trusts is one the availability store would find, with   *)
(* the same time; one that only the store accepts was written for another  *)
(* source than the one Replay is configured for.                           *)
MarkerReadersAgree(r) == SourceMarker(r) = {m \in StoreMarker(r) : Bound(r)}

(* A row that the two readers of a table see in two ways would be judged   *)
(* as one thing and replayed as another: no row of the three tables,       *)
(* malformed ones included, is.  The rows only one of the two accepts are  *)
(* facts that are not Regular and markers of another source.               *)
ReadersAgree ==
    /\ \A r \in shown.facts : FactReadersAgree(r)
    /\ \A r \in shown.decisions : DecisionReadersAgree(r)
    /\ \A r \in shown.markers : MarkerReadersAgree(r)

(* What a writer of the repository wrote is read, as one and the same      *)
(* thing by both, in any form the driver may show its nulls and its        *)
(* timestamps in, with one exception: seq is the one nullable column the   *)
(* Hot Store does not map, so a null seq shown as NaN is equal to nothing, *)
(* and the fact is read back as another and never judged, though the       *)
(* source would read it as it was written.                                 *)
WrittenIsRead ==
    /\ \A r \in shown.facts : WrittenFact(r) =>
          /\ SourceFact(r) = {Written(r)}
          /\ Judged(r) = IF r.seq.is = "nan" THEN {} ELSE {Written(r)}
    /\ \A r \in shown.decisions :
          WrittenDecision(r) =>
              HistoryDecision(r) # {} /\ HistoryDecision(r) = SourceDecision(r)
    /\ \A r \in shown.markers :
          WrittenMarker(r) => StoreMarker(r) # {} /\ StoreMarker(r) = SourceMarker(r)
=============================================================================
