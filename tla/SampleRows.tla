------------------------------ MODULE SampleRows ------------------------------
(* A fact with any two columns as they should not be; of decisions and     *)
(* markers every combination of a right and a wrong text and of all nulls  *)
(* in the columns the decoders look at.                                    *)
EXTENDS StoredRows

NaN == [NullText EXCEPT !.is = "nan"]
Nulls == {NullText, NaN}
T(texts) == {Text(t) : t \in texts}
Stamp(n) == [is |-> "time", v |-> n]

NaNLong == [NullInt EXCEPT !.is = "nan"]
Float(n) == [is |-> "float", v |-> n]
Bool(n) == [is |-> "bool", v |-> n]

GoodFact ==
    [capture_id |-> Text("c"), asset |-> Text("BTC"), source_id |-> Text("s"),
     message_type |-> Text("trade"), event_subtype |-> Text("open"), sid |-> Long(1),
     seq |-> Long(7), provider_timestamp |-> Stamp(5), received_timestamp |-> Stamp(6),
     payload |-> Text("p")]

FactForms ==
    [capture_id |-> T({"c", ""}) \cup Nulls, asset |-> T({"BTC", "btc"}) \cup {NullText},
     source_id |-> T({"s", ""}) \cup {NullText}, message_type |-> T({"trade", ""}) \cup {NaN},
     event_subtype |-> T({"open"}) \cup Nulls,
     sid |-> {Long(1), Float(1), Bool(1), NullInt, NaNLong},
     seq |-> {Long(7), Float(7), Bool(1), NullInt, NaNLong, NaT},
     provider_timestamp |-> {Long(5), Stamp(5), NullInt, NaT},
     received_timestamp |-> {Long(6), Stamp(6), NullInt, NaT},
     payload |-> T({"p"}) \cup Nulls]

MCFactRows == UNION {
    {[GoodFact EXCEPT ![c] = x, ![d] = y] : x \in FactForms[c], y \in FactForms[d]} :
        c \in DOMAIN GoodFact, d \in DOMAIN GoodFact}

MCDecisionRows ==
    [policy_version : T({"v1"}) \cup {NullText},
     category : T({"accepted", "unknown"}) \cup {NullText},
     contributing : T({"[]", "{}"}) \cup {NullText},
     reason : T({"unsupported_trade_schema", "unknown"}) \cup Nulls,
     event : [EventColumns -> T({"e", ""}) \cup Nulls]]

MCMarkerRows ==
    [kind : T({"evidence", "authority", "unknown"}), capture_id : T({"c", ""}) \cup {NullText},
     policy_version : T({"v1", ""}) \cup Nulls, available_at : {Long(5), Stamp(0), Stamp(-5), NullInt, NaT},
     proof : T({"proof/v1", "proof/v2"}), identity : T({"hot", "history", ""})]

MCIdentity == [evidence |-> "hot", authority |-> "history"]
=============================================================================
