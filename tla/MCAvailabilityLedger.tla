------------------------- MODULE MCAvailabilityLedger -------------------------
(***************************************************************************)
(* AvailabilityLedger with interchangeable keys.                           *)
(***************************************************************************)
EXTENDS AvailabilityLedger, TLC

KeySymmetry == Permutations(Keys)
=============================================================================
