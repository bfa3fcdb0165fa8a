------------------------------ MODULE TruthPolicy ------------------------------
(***************************************************************************)
(* The stateless adjudication policy "data-truth/v1": which captured       *)
(* evidence is a valid Trade, which logical event it names, and which      *)
(* decision it earns against an optional accepted anchor of that event     *)
(* (event_facts.py, observation_facts.py, the routing in composition.py).  *)
(*                                                                         *)
(* A payload is abstracted to what the policy reads of the parsed Trade:   *)
(* whether it parses, its type, its two identity fields, and "terms", the  *)
(* rest of the message (price, size, side, time) as one comparable value.  *)
(* The policy version is a constant of the program and is left out.        *)
(***************************************************************************)
EXTENDS Sequences

CONSTANTS Facts,       \* the CaptureFacts that can be submitted
          NoEvent,     \* a decision about no logical event (None)
          NoFact       \* no accepted anchor exists (None)

ObservationTypes == {"orderbook_snapshot", "orderbook_delta", "ticker",
                     "market_lifecycle_v2", "event_fee_update",
                     "cfbenchmarks_value", "pyth_value"}

TradeSchemaVersion == "market-ingress/v1"

TradePayload == [parses : BOOLEAN, type : STRING, trade_id : STRING,
                 market_ticker : STRING, terms : STRING]

CaptureFact == [capture_id : STRING, provider : STRING, source_id : STRING,
                message_type : STRING, schema_version : STRING,
                payload : TradePayload]

Categories == {"accepted", "duplicate", "conflict", "not_accepted"}

Reasons == {"none", "invalid_trade_evidence", "trade_identity_mismatch",
            "unsupported_trade_schema"}

EventIdentity == [provider : STRING, source_id : STRING,
                  message_type : STRING, trade_id : STRING]

TruthDecision == [subject : STRING, category : Categories,
                  contributing : Seq(STRING), reason : Reasons,
                  event : EventIdentity \cup {NoEvent}]

(* A capture identifier names one fact, and the sentinels are no values.   *)
ASSUME FactsAssumption ==
    /\ Facts \subseteq CaptureFact
    /\ \A f, g \in Facts : f.capture_id = g.capture_id => f = g
    /\ NoEvent \notin EventIdentity
    /\ NoFact \notin Facts

-----------------------------------------------------------------------------
(* The order of the checks decides the reason a rejected Trade is given.   *)
NotAcceptedReason(f) ==
    IF f.schema_version # TradeSchemaVersion
    THEN "unsupported_trade_schema"
    ELSE IF \/ f.provider # "kalshi"
            \/ f.message_type # "trade"
            \/ ~f.payload.parses
            \/ f.payload.type # "trade"
            \/ f.payload.trade_id = ""
    THEN "invalid_trade_evidence"
    ELSE IF f.payload.market_ticker # f.source_id
    THEN "trade_identity_mismatch"
    ELSE "none"

ValidTrade(f) == NotAcceptedReason(f) = "none"

EventOf(f) == [provider |-> f.provider, source_id |-> f.source_id,
               message_type |-> f.message_type,
               trade_id |-> f.payload.trade_id]

Decision(f, category, contributing, reason, event) ==
    [subject |-> f.capture_id, category |-> category,
     contributing |-> contributing, reason |-> reason, event |-> event]

NotAccepted(f) ==
    Decision(f, "not_accepted", <<f.capture_id>>, NotAcceptedReason(f), NoEvent)

AcceptedObservation(f) ==
    Decision(f, "accepted", <<f.capture_id>>, "none", NoEvent)

(* EventFacts.decide: the first valid Trade of an event is accepted; later *)
(* ones are compared with it.                                              *)
TradeVerdict(f, anchor) ==
    IF anchor = NoFact
    THEN Decision(f, "accepted", <<f.capture_id>>, "none", EventOf(f))
    ELSE Decision(f,
                  IF anchor.payload.terms = f.payload.terms
                  THEN "duplicate" ELSE "conflict",
                  <<anchor.capture_id, f.capture_id>>, "none", EventOf(f))

(* DataTruth._candidate: which facts have a semantic owner, which of them  *)
(* need the accepted anchor of their event, and the decision they earn.    *)
Supported(f) == f.message_type \in ObservationTypes \cup {"trade"}

NeedsAnchor(f) == f.message_type = "trade" /\ ValidTrade(f)

Verdict(f, anchor) ==
    IF NeedsAnchor(f) THEN TradeVerdict(f, anchor)
    ELSE IF f.message_type = "trade" THEN NotAccepted(f)
    ELSE AcceptedObservation(f)
=============================================================================
