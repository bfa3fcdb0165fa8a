---------------------------- MODULE SampleMarkets ----------------------------
(***************************************************************************)
(* Two consecutive windows of one series, a rival market in the first, and *)
(* the first market before its strike is usable.                           *)
(***************************************************************************)
EXTENDS Naturals

Market(ticker, event, open, usable) ==
    [series |-> "KXBTC15M", ticker |-> ticker, event |-> event,
     open |-> open, close |-> open + 3, usable |-> usable]

MCAssets == {"BTC", "ETH"}
MCSeriesOf == [BTC |-> "KXBTC15M", ETH |-> "KXETH15M"]
MCMissing == ""
MCRequests == {[asset |-> "BTC", at |-> 4], [asset |-> "DOT", at |-> 4]}

First == Market("first", "E1", 3, TRUE)
Rival == Market("rival", "E1", 3, TRUE)
Unpriced == [First EXCEPT !.usable = FALSE]
Second == Market("second", "E2", 6, TRUE)
MCMarkets == {First, Rival, Unpriced, Second}
MCListings == {{First, Second}}
=============================================================================
