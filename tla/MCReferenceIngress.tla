-------------------------- MODULE MCReferenceIngress --------------------------
(* Two assets of each source.                                              *)
EXTENDS ReferenceIngress

MCBindings == {[asset |-> "BTC", source |-> "cf_benchmarks", id |-> "BRTI"],
               [asset |-> "ETH", source |-> "cf_benchmarks", id |-> "ETHUSD_RTI"],
               [asset |-> "GOLD", source |-> "pyth_value", id |-> "Metal.XAU/USD"],
               [asset |-> "SILVER", source |-> "pyth_value", id |-> "Metal.XAG/USD"]}
=============================================================================
