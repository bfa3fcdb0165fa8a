----------------------------- MODULE ReplayLedger -----------------------------
(***************************************************************************)
(* The three tables Replay reads, as the recorder fills them: evidence     *)
(* first, then its decision, and a marker for each only after it can be    *)
(* read (MarkersFollowProof of Recorder).                                  *)
(*                                                                         *)
(* A marker's instant is later than the floor its writer read when it      *)
(* started and than every instant that writer has issued since.  While its *)
(* append is under way or in doubt a marker cannot be read, and it may     *)
(* surface behind later ones or never.  So a restarted writer may issue an *)
(* instant at or before one of its predecessor's, which then surfaces.     *)
(* A decision re-appended adds a second row, and so does a marker that a   *)
(* restarted process appends again while the first is still in doubt       *)
(* (OneMarkerPerKey of AvailabilityLedger; the two may differ in instant). *)
(* A writer that has not restarted refuses a key in doubt; here it may     *)
(* append such a key again, so the readers meet more than it writes.       *)
(***************************************************************************)
EXTENDS ReplayPolicy

CONSTANTS MaxTime,       \* bound on instants
          MaxRepeats,    \* bound on subjects with a second decision row
          MaxMarkers,    \* bound on markers under way or in doubt
          Recorded       \* facts recorded, in order, before the first read

ASSUME LedgerAssumption ==
    /\ MaxTime \in Nat
    /\ MaxRepeats \in Nat /\ MaxMarkers \in Nat \ {0}
    /\ Recorded \subseteq ReplayFacts

VARIABLES evidence,      \* facts readable in the Hot Store
          decisions,     \* number of readable decision rows of each fact
          markers,       \* readable availability markers
          doubtful,      \* markers whose append is under way or in doubt
          latest         \* the running writer's floor or last instant, or -1

ledgerVars == <<evidence, decisions, markers, doubtful, latest>>

Marker == [kind : {"evidence", "authority"}, fact : ReplayFacts, at : Nat]

LedgerTypeOK ==
    /\ evidence \subseteq ReplayFacts
    /\ decisions \in [ReplayFacts -> Nat]
    /\ markers \subseteq Marker
    /\ doubtful \subseteq Marker
    /\ latest \in Nat \cup {-1}

(* The latest readable instant, if any: the floor of a starting writer.    *)
Floors == {n \in {-1} \cup {m.at : m \in markers} : \A m \in markers : m.at <= n}

LedgerInit ==
    /\ evidence = Recorded
    /\ decisions = [f \in ReplayFacts |-> IF f \in Recorded THEN 1 ELSE 0]
    /\ markers = {[kind |-> "evidence", fact |-> f, at |-> 2 * f.capture_id] : f \in Recorded}
           \cup {[kind |-> "authority", fact |-> f, at |-> 2 * f.capture_id + 1] : f \in Recorded}
    /\ doubtful = {}
    /\ latest \in Floors

StoreEvidence(f) ==
    /\ f \notin evidence
    /\ evidence' = evidence \cup {f}
    /\ UNCHANGED <<decisions, markers, doubtful, latest>>

DecideFact(f) ==
    /\ f \in evidence
    /\ \/ decisions[f] = 0
       \/ /\ decisions[f] = 1
          /\ Cardinality({g \in ReplayFacts : decisions[g] > 1}) < MaxRepeats
    /\ decisions' = [decisions EXCEPT ![f] = @ + 1]
    /\ UNCHANGED <<evidence, markers, doubtful, latest>>

Proof(kind, f) == IF kind = "evidence" THEN f \in evidence ELSE decisions[f] > 0

MarkersOf(S, kind, f) == {m \in S : m.kind = kind /\ m.fact = f}

Unmarked(kind, f) ==
    /\ MarkersOf(markers, kind, f) = {}
    /\ Cardinality(doubtful) < MaxMarkers

Mark(kind, f, at) ==
    /\ Proof(kind, f)
    /\ Unmarked(kind, f)
    /\ at > latest
    /\ latest' = at
    /\ LET marker == [kind |-> kind, fact |-> f, at |-> at] IN
       \/ markers' = markers \cup {marker} /\ UNCHANGED doubtful
       \/ doubtful' = doubtful \cup {marker} /\ UNCHANGED markers
    /\ UNCHANGED <<evidence, decisions>>

SettleMarker == \E m \in doubtful :
    /\ doubtful' = doubtful \ {m}
    /\ markers' \in {markers, markers \cup {m}}
    /\ UNCHANGED <<evidence, decisions, latest>>

(* A writer does not start over a ledger with two markers of one key.      *)
Restart ==
    /\ \A m \in markers : MarkersOf(markers, m.kind, m.fact) = {m}
    /\ latest' \in Floors
    /\ UNCHANGED <<evidence, decisions, markers, doubtful>>

LedgerStep ==
    \/ \E f \in ReplayFacts :
          \/ StoreEvidence(f)
          \/ DecideFact(f)
          \/ \E kind \in {"evidence", "authority"}, at \in 0..MaxTime : Mark(kind, f, at)
    \/ SettleMarker
    \/ Restart
=============================================================================
