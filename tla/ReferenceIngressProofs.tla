------------------------ MODULE ReferenceIngressProofs ------------------------
(***************************************************************************)
(* The registration of Pyth's messages is all or nothing, and what is then *)
(* subscribed is captured under its own asset, for every approved scope.   *)
(***************************************************************************)
EXTENDS ReferenceIngress, TLAPS

LEMMA FourEntries ==
    /\ Len(Entries) = 4 /\ DOMAIN Entries = 1..4
    /\ Registrations = {Entries[1], Entries[2], Entries[3], Entries[4]}
    /\ \A i, j \in 1..4 : Entries[i] = Entries[j] => i = j
<1>1. Len(Entries) = 4 /\ DOMAIN Entries = 1..4
  BY DEF Entries
<1>2. \A i, j \in 1..4 : Entries[i] = Entries[j] => i = j
  <2>1. /\ Entries[1] = "forward keys" /\ Entries[2] = "channel params"
        /\ Entries[3] = "value model" /\ Entries[4] = "list model"
    BY DEF Entries
  <2>2. \A i \in 1..4 : i = 1 \/ i = 2 \/ i = 3 \/ i = 4
    OBVIOUS
  <2> QED BY <2>1, <2>2
<1>3. Registrations = {Entries[1], Entries[2], Entries[3], Entries[4]}
  BY <1>1 DEF Registrations
<1> QED BY <1>1, <1>2, <1>3

-----------------------------------------------------------------------------
(* The type invariant of reference ingress.                                *)
THEOREM TypeCorrect == Spec => []TypeOK
<1>1. Init => TypeOK
  BY ScopeAssumption, FourEntries DEF Init, TypeOK
<1>2. TypeOK /\ [Next]_vars => TypeOK'
  <2> SUFFICES ASSUME TypeOK, [Next]_vars PROVE TypeOK'
    OBVIOUS
  <2> USE ScopeAssumption, FourEntries DEF TypeOK, Registry, sdkVars, callVars
  <2>1. CASE SubscribeCF
    BY <2>1 DEF SubscribeCF, Sources
  <2>2. CASE CallPyth
    BY <2>2 DEF CallPyth
  <2>3. CASE CheckVersion
    BY <2>3 DEF CheckVersion, Refuse
  <2>4. CASE CheckEntry
    <3>1. Entries[at] \in Registrations
      BY DEF Registrations
    <3> QED BY <2>4, <3>1 DEF CheckEntry, Refuse, Note, Advance
  <2>5. CASE ApplyEntry
    <3>1. Entries[at] \in Registrations
      BY DEF Registrations
    <3>2. registry' \in Registry
      BY <2>5, <3>1 DEF ApplyEntry
    <3> QED BY <2>5, <3>2 DEF ApplyEntry, Advance
  <2>6. CASE SubscribePyth
    BY <2>6 DEF SubscribePyth, Sources
  <2>7. CASE OthersRegister
    BY <2>7 DEF OthersRegister
  <2>8. CASE UNCHANGED vars
    BY <2>8 DEF vars
  <2> QED BY <2>1, <2>2, <2>3, <2>4, <2>5, <2>6, <2>7, <2>8 DEF Next
<1> QED BY <1>1, <1>2, PTL DEF Spec

-----------------------------------------------------------------------------
(* What an installation knows in each of its phases: until it applies, the *)
(* registries are as it found them, and what it passed was ours or is      *)
(* missing; as it applies, what it passed is ours.                         *)
Looking ==
    /\ registry = before /\ result = "none"
    /\ missing \subseteq {Entries[i] : i \in 1..(at - 1)}
    /\ \A i \in 1..4 : i < at =>
          registry[Entries[i]] = "ours"
             \/ (registry[Entries[i]] = "absent" /\ Entries[i] \in missing)

Applying ==
    /\ result = "none"
    /\ \A e \in Registrations : before[e] # "foreign"
    /\ \A i \in 1..4 :
          \/ registry[Entries[i]] = "ours"
          \/ at <= i /\ Entries[i] \in missing

InstallInv ==
    /\ phase \in {"idle", "version", "subscribe"} => at = 1
    /\ phase = "version" => registry = before /\ result = "none" /\ missing = {}
    /\ phase = "check" => Looking
    /\ phase = "apply" => Applying
    /\ result = "refused" => phase = "idle" /\ registry = before
    /\ InstallIsComplete

LEMMA InstallStep == TypeOK /\ InstallInv /\ [Next]_vars => InstallInv'
<1> SUFFICES ASSUME TypeOK, InstallInv, [Next]_vars PROVE InstallInv'
  OBVIOUS
<1> USE FourEntries
<1>1. CASE SubscribeCF
  BY <1>1 DEF SubscribeCF, InstallInv, InstallIsComplete, Looking, Applying, sdkVars, callVars
<1>2. CASE CallPyth
  BY <1>2 DEF CallPyth, InstallInv, InstallIsComplete, Looking, Applying, sdkVars
<1>3. CASE CheckVersion
  BY <1>3 DEF CheckVersion, Refuse, InstallInv, InstallIsComplete, Looking, Applying, sdkVars
<1>4. CASE CheckEntry
  <2> USE <1>4 DEF CheckEntry
  <2>1. Looking /\ at \in 1..4 /\ phase = "check"
    BY DEF InstallInv, TypeOK
  <2>2. CASE registry[Entries[at]] = "foreign"
    BY <2>1, <2>2 DEF Refuse, InstallInv, InstallIsComplete, Looking
  <2>3. CASE registry[Entries[at]] # "foreign"
    <3>1. registry[Entries[at]] \in {"ours", "absent"}
      BY <2>1, <2>3 DEF TypeOK, Registry
    <3>2. missing' = (IF registry[Entries[at]] = "absent" THEN missing \cup {Entries[at]} ELSE missing)
      BY <2>3 DEF Note
    <3>3. UNCHANGED <<registry, before, result>>
      BY <2>3 DEF Note
    <3>4. \A i \in 1..4 : i <= at =>
             registry[Entries[i]] = "ours"
                \/ (registry[Entries[i]] = "absent" /\ Entries[i] \in missing')
      BY <2>1, <3>1, <3>2 DEF Looking
    <3>5. missing' \subseteq {Entries[i] : i \in 1..at}
      BY <2>1, <3>2 DEF Looking
    <3>6. CASE at < 4
      <4>1. at' = at + 1 /\ phase' = "check"
        BY <2>1, <2>3, <3>6 DEF Advance
      <4>2. Looking'
        BY <2>1, <3>3, <3>4, <3>5, <4>1 DEF Looking
      <4> QED BY <2>1, <3>3, <4>1, <4>2 DEF InstallInv, InstallIsComplete, Looking
    <3>7. CASE at = 4
      <4>1. at' = 1 /\ phase' = "apply"
        BY <2>1, <2>3, <3>7 DEF Advance
      <4>2. Applying'
        BY <2>1, <3>3, <3>4, <3>7, <4>1 DEF Applying, Looking
      <4> QED BY <2>1, <3>3, <4>1, <4>2 DEF InstallInv, InstallIsComplete, Looking
    <3> QED BY <2>1, <3>6, <3>7
  <2> QED BY <2>2, <2>3
<1>5. CASE ApplyEntry
  <2> USE <1>5 DEF ApplyEntry
  <2>1. Applying /\ at \in 1..4 /\ phase = "apply" /\ registry \in Registry
    BY DEF InstallInv, TypeOK
  <2>2. \A i \in 1..4 : registry'[Entries[i]] = "ours" \/ (at + 1 <= i /\ Entries[i] \in missing)
    BY <2>1 DEF Applying, Applies, Registry
  <2>3. CASE at < 4
    <3>1. at' = at + 1 /\ phase' = "apply" /\ result' = "none"
      BY <2>1, <2>3 DEF Advance, Applying
    <3>2. Applying'
      BY <2>1, <2>2, <3>1 DEF Applying
    <3> QED BY <3>1, <3>2 DEF InstallInv, InstallIsComplete
  <2>4. CASE at = 4
    <3>1. at' = 1 /\ phase' = "subscribe" /\ result' = "installed"
      BY <2>1, <2>4 DEF Advance
    <3>2. \A e \in Registrations : registry'[e] = "ours" /\ before'[e] # "foreign"
      BY <2>1, <2>2, <2>4 DEF Applying
    <3> QED BY <3>1, <3>2 DEF InstallInv, InstallIsComplete
  <2> QED BY <2>1, <2>3, <2>4
<1>6. CASE SubscribePyth
  BY <1>6 DEF SubscribePyth, InstallInv, InstallIsComplete, sdkVars
<1>7. CASE OthersRegister
  BY <1>7 DEF OthersRegister, InstallInv, InstallIsComplete, Looking, Applying
<1>8. CASE UNCHANGED vars
  BY <1>8 DEF vars, sdkVars, callVars, InstallInv, InstallIsComplete, Looking, Applying
<1> QED BY <1>1, <1>2, <1>3, <1>4, <1>5, <1>6, <1>7, <1>8 DEF Next

LEMMA InstallAlways == Spec => []InstallInv
<1>1. Init => InstallInv
  BY DEF Init, InstallInv, InstallIsComplete
<1> QED BY <1>1, InstallStep, TypeCorrect, PTL DEF Spec

(* A refused installation leaves every registry as it found it.            *)
THEOREM RefusalIsClean == Spec => []RefusedInstallChangesNothing
<1>1. InstallInv => RefusedInstallChangesNothing
  BY DEF InstallInv, RefusedInstallChangesNothing
<1> QED BY <1>1, InstallAlways, PTL

(* A successful one completes whatever was missing and overwrites nobody.  *)
THEOREM InstallCompletes == Spec => []InstallIsComplete
<1>1. InstallInv => InstallIsComplete
  BY DEF InstallInv
<1> QED BY <1>1, InstallAlways, PTL

-----------------------------------------------------------------------------
(* After an installation, a value of an approved identifier is captured as *)
(* a fact of the one asset it is bound to.                                 *)
THEOREM SubscribedAreCaptured == Spec => []SubscribedIsCaptured
<1>1. InstallIsComplete => SubscribedIsCaptured
  <2> SUFFICES ASSUME InstallIsComplete,
                      NEW b \in Bindings, NEW m \in Message,
                      b.source = "pyth_value" => result = "installed",
                      m.type \in {"cfbenchmarks_value", "pyth_value"}, m.genuine,
                      SourceOf(m) = b.source, m.id = b.id
               PROVE  Captured(m) = {b.asset}
    BY DEF SubscribedIsCaptured
  <2>1. "value model" \in Registrations
    BY FourEntries DEF Entries
  <2>2. Typed(m)
    BY <2>1 DEF Typed, SourceOf, InstallIsComplete
  <2>3. ReferenceBinding(m) = {b}
    BY ScopeAssumption DEF ReferenceBinding
  <2> QED BY <2>2, <2>3 DEF Captured
<1> QED BY <1>1, InstallCompletes, PTL
=============================================================================
