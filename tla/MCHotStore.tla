------------------------------ MODULE MCHotStore ------------------------------
(* Two captures received at the same instant and a later one; a row from   *)
(* before the metadata columns.                                            *)
EXTENDS HotStore, TLC

Fact(id, channel, received) == [capture_id |-> id, channel |-> channel, received |-> received]

a == Fact("a", "trade", 5)
b == Fact("b", "ticker", 5)
c == Fact("c", "trade", 6)
MCFacts == {a, b, c}
MCLegacy == {Fact("old", "trade", 3)}
MCBatches == {<<>>, <<a, b>>, <<b>>, <<a, b, c>>}
MCRanges == {[start |-> s, end |-> 6, channel |-> "any", order |-> "received"] : s \in {3, 5}}
Symmetry == Permutations(Stores)
==============================================================================
