----------------------------- MODULE MarkerLedger -----------------------------
(***************************************************************************)
(* What the availability writer and its ledger promise together: a key     *)
(* gets one marker, for ever, no two markers bear the same instant, and a  *)
(* caller is only ever told the marker of the key it asked for.            *)
(***************************************************************************)
EXTENDS Naturals

CONSTANTS Keys, Sources, NoRecord

Marker == [key : Keys, at : Nat, source : Sources]

VARIABLES marker,      \* the readable marker of a key
          told         \* the markers handed out for a key

Init ==
    /\ marker = [k \in Keys |-> NoRecord]
    /\ told = [k \in Keys |-> {}]

Marked == {k \in Keys : marker[k] # NoRecord}

(* An appended marker becomes readable.                                    *)
Settle == \E k \in Keys \ Marked : LET new == marker'[k] IN
    /\ new \in Marker /\ new.key = k
    /\ \A j \in Marked : marker[j].at # new.at
    /\ marker' = [marker EXCEPT ![k] = new]
    /\ UNCHANGED told

(* record_proven returns.                                                  *)
Tell == \E k \in Marked :
    /\ told' = [told EXCEPT ![k] = @ \cup {marker[k]}]
    /\ UNCHANGED marker

Next == Settle \/ Tell

Spec == Init /\ [][Next]_<<marker, told>>
=============================================================================
