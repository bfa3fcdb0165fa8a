------------------------------ MODULE StoredRows ------------------------------
(***************************************************************************)
(* Every table is read by two programs that share no decoder: its own      *)
(* adapter (the Hot Store's _capture_fact, the history's _decode, the      *)
(* availability store's _decode), whose readings Data Truth and the        *)
(* Recorder act on, and the Replay source, whose readings are replayed.    *)
(* A row arrives as the driver shows it: a null as None or NaN, in a       *)
(* timestamp as None or NaT, a timestamp as an int or an object that has   *)
(* one as its value, a LONG as an int or, among nulls, as a float.         *)
(*                                                                         *)
(* A cell is [is |-> how it arrives, v |-> value].  A decoder returns the  *)
(* set of what it accepts: {} when it raises.  The four columns of an      *)
(* event identity are EventColumns; payload stands for the texts of a fact *)
(* no decoder of the Hot Store looks at (provider, channel,                *)
(* schema_version, payload).                                               *)
(***************************************************************************)
EXTENDS Integers

CONSTANTS FactRows, DecisionRows, MarkerRows,  \* what the tables may show
          AssetIds, Categories, Reasons, Kinds,
          StringLists,            \* texts that are JSON lists of strings
          EventColumns, Proof,
          Identity                \* the configured source of each kind

Text(t) == [is |-> "text", v |-> t]
NullText == [is |-> "none", v |-> ""]
Long(n) == [is |-> "int", v |-> n]
NullInt == [is |-> "none", v |-> 0]
NaT == [is |-> "nat", v |-> -1]         \* its value is the least integer

(* Nothing but the driver's nulls for a VARCHAR: no NaT among texts.  The  *)
(* constructors of the adapters want an identity that is not empty.        *)
TextCell(c) == c.is \in {"text", "none", "nan"}

ASSUME RowsAssumption ==
    /\ Kinds = {"evidence", "authority"}
    /\ \A row \in FactRows : TextCell(row.event_subtype)
    /\ \A row \in DecisionRows :
          TextCell(row.reason) /\ \A c \in EventColumns : TextCell(row.event[c])
    /\ \A row \in MarkerRows : TextCell(row.policy_version)
    /\ \A kind \in Kinds : Identity[kind] # ""

-----------------------------------------------------------------------------
(* What each reader takes for a null.                                      *)
NoneOnly == {"none"}                                           \* mutant
HotNulls == {"none", "nan", "nat"}       \* pd.isna
HistoryNulls == {"none", "nan"}
StoreNulls == {"none", "nan"}
SourceNulls == {"none", "nan", "nat"}    \* _nullable

Value(c, nulls, null) ==
    IF c.is \in nulls THEN null ELSE [is |-> "value", v |-> c.v]

IsText(c) == c.is = "text"
IsFull(c) == c.is = "text" /\ c.v # ""

(* Facts, as they arrive and with an integer for whatever number is equal  *)
(* to one.                                                                 *)
Fact(r, nulls, sid, seq) ==
    [capture_id |-> r.capture_id, asset |-> r.asset.v, source_id |-> r.source_id.v,
     message_type |-> r.message_type.v,
     event_subtype |-> Value(r.event_subtype, nulls, NullText),
     sid |-> sid, seq |-> seq,
     provider_timestamp |-> Value(r.provider_timestamp, nulls, NullInt),
     received_timestamp |-> r.received_timestamp.v,
     payload |-> r.payload]

FactInIntegers(r, nulls, seqNulls) ==
    Fact(r, nulls, Long(r.sid.v),
         IF r.seq.is \in seqNulls THEN NullInt ELSE Long(r.seq.v))

CanonicalAsset(c) == IsText(c) /\ c.v \in AssetIds

(* The Hot Store hands capture_id, the plain texts, sid and seq on as they *)
(* arrive.                                                                 *)
HotFact(r) ==
    {f \in {Fact(r, HotNulls, r.sid, r.seq)} :
        /\ IsFull(r.source_id) /\ IsFull(r.message_type)
        /\ CanonicalAsset(r.asset)
        /\ r.event_subtype.is \in HotNulls \cup {"text"}
        /\ r.received_timestamp.is \notin HotNulls}

(* The source refuses a number that is no int, and maps every null.  The   *)
(* value of a NaT is an int to it.                                         *)
SourceFact(r) ==
    {f \in {FactInIntegers(r, SourceNulls, SourceNulls)} :
        /\ IsFull(r.capture_id)
        /\ IsText(r.source_id) /\ IsText(r.message_type) /\ IsText(r.payload)
        /\ CanonicalAsset(r.asset)
        /\ r.event_subtype.is \in SourceNulls \cup {"text"}
        /\ r.sid.is = "int" /\ r.seq.is \in SourceNulls \cup {"int"}
        /\ r.received_timestamp.is \notin {"none", "nan"}}

(* The captured fact a row is read back as, if any: the recorder judges a  *)
(* fact only when the Hot Store gives exactly that fact back.  To Python's *)
(* equality 7.0 is 7 and True is 1, NaN and NaT are nothing; a captured    *)
(* fact has no null but in its subtype, seq and provider timestamp.        *)
Number(c) == c.is \in {"int", "float", "bool"}

Judged(r) ==
    {FactInIntegers(r, HotNulls, {"none"}) :
        f \in {g \in HotFact(r) :
            /\ IsText(g.capture_id) /\ IsText(g.payload)
            /\ Number(g.sid) /\ (Number(g.seq) \/ g.seq.is = "none")}}

(* Decisions.                                                              *)
Decision(r, nulls) ==
    [policy_version |-> r.policy_version.v, category |-> r.category.v,
     contributing |-> r.contributing.v,
     reason |-> Value(r.reason, nulls, NullText),
     event |-> [c \in EventColumns |-> Value(r.event[c], nulls, NullText)]]

Decodable(r, nulls) ==
    /\ IsText(r.policy_version)
    /\ IsText(r.category) /\ r.category.v \in Categories
    /\ IsText(r.contributing) /\ r.contributing.v \in StringLists
    /\ r.reason.is \in nulls \/ (IsText(r.reason) /\ r.reason.v \in Reasons)
    /\ \/ \A c \in EventColumns : r.event[c].is \in nulls
       \/ \A c \in EventColumns : IsText(r.event[c])

HistoryDecision(r) ==
    {d \in {Decision(r, HistoryNulls)} : Decodable(r, HistoryNulls)}

PartialAccepted(r) ==           \* mutant: the first column speaks for all
    {d \in {Decision(r, SourceNulls)} :
        Decodable([r EXCEPT !.event = [c \in EventColumns |-> NullText]], SourceNulls)}
SourceDecision(r) ==
    {d \in {Decision(r, SourceNulls)} : Decodable(r, SourceNulls)}

(* Markers: both build an AvailabilityRecord, which validates itself; the  *)
(* source also wants the configured identity of the kind it asked for.     *)
Marker(r, nulls) ==
    [kind |-> r.kind.v, capture_id |-> r.capture_id.v,
     policy_version |-> Value(r.policy_version, nulls, NullText),
     available_at |-> r.available_at.v, identity |-> r.identity.v]

ValidMarker(r, nulls) ==
    /\ IsText(r.kind) /\ r.kind.v \in Kinds
    /\ IsFull(r.capture_id)
    /\ IF r.kind.v = "evidence" THEN r.policy_version.is \in nulls
       ELSE IsFull(r.policy_version)
    /\ r.available_at.is # "none" /\ r.available_at.v >= 0
    /\ IsText(r.proof) /\ r.proof.v = Proof
    /\ IsFull(r.identity)

StoreMarker(r) == {m \in {Marker(r, StoreNulls)} : ValidMarker(r, StoreNulls)}

Bound(r) == r.identity.v = Identity[r.kind.v]

SourceMarker(r) ==
    {m \in {Marker(r, SourceNulls)} : ValidMarker(r, SourceNulls) /\ Bound(r)}

-----------------------------------------------------------------------------
(* Rows as the writers fill them: sender.row's columns, _fields.           *)
NullOr(c, texts) == c.is \in {"none", "nan"} \/ (IsText(c) /\ c.v \in texts)
WrittenFact(r) ==
    /\ IsFull(r.capture_id)
    /\ IsFull(r.source_id) /\ IsFull(r.message_type) /\ IsText(r.payload)
    /\ CanonicalAsset(r.asset)
    /\ r.sid.is = "int" /\ r.seq.is \in {"int", "none", "nan"}
    /\ r.provider_timestamp.is \in {"int", "time", "none", "nat"}
    /\ r.received_timestamp.is \in {"int", "time"}
(* What was written: a column holds its value or nothing.                  *)
Written(r) == FactInIntegers(r, {"none", "nan", "nat"}, {"none", "nan"})
WrittenDecision(r) ==
    /\ IsText(r.policy_version)
    /\ IsText(r.category) /\ r.category.v \in Categories
    /\ IsText(r.contributing) /\ r.contributing.v \in StringLists
    /\ NullOr(r.reason, Reasons)
    /\ \/ \A c \in EventColumns : IsText(r.event[c])
       \/ \A c \in EventColumns : NullOr(r.event[c], {})
WrittenMarker(r) ==
    /\ IsText(r.kind) /\ r.kind.v \in Kinds
    /\ IsFull(r.capture_id)
    /\ IF r.kind.v = "evidence" THEN NullOr(r.policy_version, {}) ELSE IsFull(r.policy_version)
    /\ r.available_at.is \in {"int", "time"} /\ r.available_at.v >= 0
    /\ IsText(r.proof) /\ r.proof.v = Proof
    /\ IsText(r.identity) /\ r.identity.v = Identity[r.kind.v]
=============================================================================
