------------------------------ MODULE MCRecorder ------------------------------
(***************************************************************************)
(* The recorder with one Trade, the first of its event.                    *)
(***************************************************************************)
EXTENDS Recorder

First ==
    [capture_id |-> "c1", provider |-> "kalshi", source_id |-> "KXBTC",
     message_type |-> "trade", schema_version |-> "market-ingress/v1",
     payload |-> [parses |-> TRUE, type |-> "trade", trade_id |-> "t1",
                  market_ticker |-> "KXBTC", terms |-> "yes@40"]]

OnlyFirst == {First}
=============================================================================
