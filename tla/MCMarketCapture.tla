-------------------------- MODULE MCMarketCapture ---------------------------
(* The sample of official markets as the instance TLC checks.             *)
EXTENDS MarketCapture, SampleMarkets
=============================================================================
