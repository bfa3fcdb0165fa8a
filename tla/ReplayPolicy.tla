----------------------------- MODULE ReplayPolicy -----------------------------
(***************************************************************************)
(* The pure part of Replay & As-Of (service.py): what a request may ask,   *)
(* which candidates qualify at its cutoff, which of them its window        *)
(* selects, their order, and the cursor that binds the pages of one walk.  *)
(*                                                                         *)
(* A page is the set of its records: their order in it is the ordering     *)
(* key's.  A capture identifier is its rank in text order.  The SHA-256    *)
(* identities are the values they digest, so they never collide.  Page     *)
(* size and cursor are no part of a request's identity.                    *)
(***************************************************************************)
EXTENDS Integers, FiniteSets

CONSTANTS ReplayFacts,   \* the captured facts, as Replay reads them
          NoTime,        \* no provider timestamp, or no marker (None)
          NoFilter,      \* unfiltered (None)
          NoCursor,
          MaxPageSize    \* max_page_size

ReplayFact == [capture_id : Nat, asset : STRING, channel : STRING,
               received : Nat, provider : Nat \cup {NoTime}]

AsOfRequest == [cutoff : Nat,
                axis : {"arrival_time", "event_time"}, start : Nat, end : Nat,
                ordering : {"arrival", "strict_event"},
                assets : (SUBSET STRING) \cup {NoFilter},
                channels : (SUBSET STRING) \cup {NoFilter}]

ASSUME ReplayAssumption ==
    /\ ReplayFacts \subseteq ReplayFact
    /\ IsFiniteSet(ReplayFacts)
    /\ \A f, g \in ReplayFacts : f.capture_id = g.capture_id => f = g
    /\ NoTime \notin Int
    /\ MaxPageSize \in Nat \ {0}

(* _validate_request                                                       *)
ValidRequest(r, size) ==
    /\ r.start < r.end
    /\ size \in 1..MaxPageSize
    /\ r.assets # {}
    /\ r.channels # {}

-----------------------------------------------------------------------------
(* A candidate pairs a fact with the instants of its two markers.          *)
Candidate == [fact : ReplayFacts, evidence : Nat \cup {NoTime},
              authority : Nat \cup {NoTime}]

InScope(f, r) ==
    /\ r.assets = NoFilter \/ f.asset \in r.assets
    /\ r.channels = NoFilter \/ f.channel \in r.channels

LateOnTheCutoff(at, r) == at >= r.cutoff   \* mutant: the cutoff is excluded
Late(at, r) == at > r.cutoff

(* A missing marker is reported before a late one.                         *)
EvidenceOnly(c, r) ==                      \* mutant: a late decision counts
    IF c.evidence = NoTime \/ Late(c.evidence, r)
    THEN {"evidence_not_available_by_cutoff"}
    ELSE IF c.authority = NoTime THEN {"authority_not_available_by_cutoff"} ELSE {}
Exclusion(c, r) ==
    IF \/ c.evidence = NoTime
       \/ c.authority # NoTime /\ Late(c.evidence, r)
    THEN {"evidence_not_available_by_cutoff"}
    ELSE IF c.authority = NoTime \/ Late(c.authority, r)
    THEN {"authority_not_available_by_cutoff"}
    ELSE {}

Qualified(C, r) == {c \in C : InScope(c.fact, r) /\ Exclusion(c, r) = {}}

Excluded(C, r) == {c \in C : InScope(c.fact, r)} \ Qualified(C, r)

(* _select: the half-open window, on the axis of the request.              *)
InWindow(f, r) ==
    LET at == IF r.axis = "event_time" THEN f.provider ELSE f.received
    IN  at # NoTime /\ r.start <= at /\ at < r.end

Selected(C, r) == {c \in Qualified(C, r) : InWindow(c.fact, r)}

(* A record without a provider timestamp fails a request on the event-time *)
(* axis even outside its window, a strict event order only inside.         *)
UnsupportedEventTime(C, r) ==
    \/ /\ r.axis = "event_time"
       /\ \E c \in Qualified(C, r) : c.fact.provider = NoTime
    \/ /\ r.ordering = "strict_event"
       /\ \E c \in Selected(C, r) : c.fact.provider = NoTime

-----------------------------------------------------------------------------
OrderingKey(f, r) ==
    IF r.ordering = "arrival" THEN <<f.received, f.capture_id>>
    ELSE <<f.provider, f.received, f.capture_id>>

Less(k, l) ==
    \E i \in DOMAIN k : k[i] < l[i] /\ \A j \in 1..(i - 1) : k[j] = l[j]

(* _snapshot_identity binds the request and the members, not their order.  *)
Snapshot(S, r) == [request |-> r, members |-> {c.fact : c \in S}]

ContinueAfter(S, r, cursor) ==
    {c \in S : cursor # NoCursor => Less(cursor.last, OrderingKey(c.fact, r))}

Before(S, c, r) == {d \in S : Less(OrderingKey(d.fact, r), OrderingKey(c.fact, r))}
Page(S, r, size) == {c \in S : Cardinality(Before(S, c, r)) < size}

LastKey(P, r) ==
    LET last == CHOOSE c \in P : \A d \in P :
                    ~Less(OrderingKey(c.fact, r), OrderingKey(d.fact, r))
    IN  OrderingKey(last.fact, r)

PageIsTheSnapshot(S, P, r, snapshot) ==    \* mutant: the page's own identity
    IF S = P THEN NoCursor
    ELSE [request |-> r, snapshot |-> Snapshot(P, r), last |-> LastKey(P, r)]
NextCursor(S, P, r, snapshot) ==
    IF S = P THEN NoCursor
    ELSE [request |-> r, snapshot |-> snapshot, last |-> LastKey(P, r)]
=============================================================================
