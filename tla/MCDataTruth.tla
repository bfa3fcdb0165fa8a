------------------------------ MODULE MCDataTruth ------------------------------
(***************************************************************************)
(* Small sets of captured evidence for DataTruth.                          *)
(***************************************************************************)
EXTENDS DataTruth

Trade(id, trade, terms) ==
    [capture_id |-> id, provider |-> "kalshi", source_id |-> "KXBTC",
     message_type |-> "trade", schema_version |-> "market-ingress/v1",
     payload |-> [parses |-> TRUE, type |-> "trade", trade_id |-> trade,
                  market_ticker |-> "KXBTC", terms |-> terms]]

First == Trade("c1", "t1", "yes@40")
Again == Trade("c2", "t1", "yes@40")
Other == Trade("c3", "t1", "yes@41")

Misfiled == [Trade("c5", "t1", "yes@40") EXCEPT !.source_id = "KXETH"]
Ticker == [Trade("c6", "", "") EXCEPT !.message_type = "ticker"]
Unowned == [Trade("c7", "", "") EXCEPT !.message_type = "multivariate"]

(* One event seen three times, once with other terms.                      *)
OneEvent == {First, Again, Other}

(* Every route of _candidate.                                              *)
EveryRoute == {First, Again, Other, Misfiled, Ticker, Unowned}
=============================================================================
