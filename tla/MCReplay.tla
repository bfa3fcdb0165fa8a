------------------------------- MODULE MCReplay -------------------------------
(***************************************************************************)
(* Three captures that tie on receipt: two recorded before the reads, and  *)
(* one, which has no provider timestamp, during them.                      *)
(***************************************************************************)
EXTENDS Replay

Fact(id, channel, provider) ==
    [capture_id |-> id, asset |-> "BTC", channel |-> channel,
     received |-> 5, provider |-> provider]

First == Fact(0, "trade", 2)
Second == Fact(1, "ticker", 1)
Third == Fact(2, "trade", NoTime)

MCFacts == {First, Second, Third}
MCRecorded == {First, Second}

Request(axis, end, ordering, channels) ==
    [cutoff |-> 4, axis |-> axis, start |-> 1, end |-> end,
     ordering |-> ordering, assets |-> NoFilter, channels |-> channels]

(* The third capture's markers are at 4 and 5: at the cutoff and behind it.*)
(* The other request leaves the second capture out of its scope.           *)
MCRequests == {Request("arrival_time", 6, "arrival", NoFilter),
               Request("event_time", 3, "strict_event", {"trade"})}
=============================================================================
