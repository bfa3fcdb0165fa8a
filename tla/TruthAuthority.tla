---------------------------- MODULE TruthAuthority ----------------------------
(***************************************************************************)
(* What Data Truth promises: a write-once map from captured evidence to    *)
(* its decision, in which a decision is the policy's verdict against the   *)
(* one accepted Trade of the same event, all in one atomic step.  It is    *)
(* the specification the DataTruth module implements.                      *)
(***************************************************************************)
EXTENDS TruthPolicy

CONSTANT NoDecision    \* the fact has no authority yet

VARIABLE truth         \* the authoritative decision of each fact

Accepted(e) == {g \in Facts : /\ truth[g] # NoDecision
                              /\ truth[g].category = "accepted"
                              /\ truth[g].event = e}

Anchor(f) == IF NeedsAnchor(f) /\ Accepted(EventOf(f)) # {}
             THEN CHOOSE g \in Accepted(EventOf(f)) : TRUE
             ELSE NoFact

Init == truth = [f \in Facts |-> NoDecision]

Decide(f) ==
    /\ Supported(f)
    /\ truth[f] = NoDecision
    /\ truth' = [truth EXCEPT ![f] = Verdict(f, Anchor(f))]

Next == \E f \in Facts : Decide(f)

Spec == Init /\ [][Next]_truth
=============================================================================
