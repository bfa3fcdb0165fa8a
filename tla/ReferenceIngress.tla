--------------------------- MODULE ReferenceIngress ---------------------------
(***************************************************************************)
(* ReferenceStream (cfbenchmarks, pyth_values), the registration of Pyth's *)
(* messages with the SDK it needs, and CaptureBoundary.capture_reference.  *)
(*                                                                         *)
(* External: the SDK's registries (what is forwarded on subscribe, the     *)
(* parameters of a channel, the models messages are parsed into), which    *)
(* other code of the process may have filled in before or may change       *)
(* between two calls; the socket; the provider's messages, each value      *)
(* about some identifier, each parsed into the model registered for its    *)
(* type.  Everything runs on one event loop: nothing else comes between    *)
(* the steps of one installation.                                          *)
(***************************************************************************)
EXTENDS Naturals, Sequences, FiniteSets

CONSTANTS Bindings,      \* the approved scope: asset, source, provider id
          MaxChanges     \* bound on registrations by others

Sources == {"cf_benchmarks", "pyth_value"}
Binding == [asset : STRING, source : Sources, id : STRING]

ASSUME ScopeAssumption ==
    /\ Bindings \subseteq Binding
    /\ \A b, c \in Bindings : b.asset = c.asset \/ b.id = c.id => b = c
    /\ MaxChanges \in Nat

VARIABLES registry,      \* the SDK's four registrations Pyth needs
          pinned,        \* the SDK is the pinned version
          changes,
          phase, at,     \* of an installation, and the entry it has come to
          missing,       \* what its prechecks did not find
          result,        \* of the last installation, until others register
          before,        \* history: the registry that installation found
          open           \* sources subscribed

sdkVars == <<registry, pinned, changes>>
callVars == <<phase, at, missing, result, before>>
vars == <<sdkVars, callVars, open>>

(* Checked and applied in this order.                                      *)
Entries == <<"forward keys", "channel params", "value model", "list model">>
Registrations == {Entries[i] : i \in DOMAIN Entries}

(* Approved bindings of a source, and the identifiers subscribed for it.   *)
BindingsFor(source) == {b \in Bindings : b.source = source}
Ids == {b.id : b \in Bindings} \cup {"unapproved"}

MessageTypes == {"cfbenchmarks_value", "cfbenchmarks_value_indexlist",
                 "pyth_value", "pyth_value_underlying_list"}
Message == [type : MessageTypes, genuine : BOOLEAN, id : Ids]

Registry == [Registrations -> {"absent", "ours", "foreign"}]

TypeOK ==
    /\ registry \in Registry /\ before \in Registry
    /\ pinned \in BOOLEAN /\ changes \in 0..MaxChanges
    /\ phase \in {"idle", "version", "check", "apply", "subscribe"}
    /\ at \in DOMAIN Entries
    /\ missing \subseteq Registrations
    /\ result \in {"none", "refused", "installed"}
    /\ open \subseteq Sources

Init ==
    /\ registry \in Registry /\ before = registry
    /\ pinned \in BOOLEAN /\ changes = 0
    /\ phase = "idle" /\ at = 1 /\ missing = {} /\ result = "none"
    /\ open = {}

-----------------------------------------------------------------------------
(* ReferenceStream.cfbenchmarks: the SDK has all it takes.                 *)
SubscribeCF ==
    /\ phase = "idle"
    /\ BindingsFor("cf_benchmarks") # {}
    /\ open' = open \cup {"cf_benchmarks"}
    /\ UNCHANGED <<sdkVars, callVars>>

(* ReferenceStream.pyth_values: install, then subscribe.                   *)
CallPyth ==
    /\ phase = "idle"
    /\ BindingsFor("pyth_value") # {}
    /\ phase' = "version"
    /\ missing' = {} /\ before' = registry /\ result' = "none"
    /\ UNCHANGED <<sdkVars, at, open>>

Refuse == phase' = "idle" /\ result' = "refused" /\ at' = 1

CheckVersion ==
    /\ phase = "version"
    /\ IF pinned THEN phase' = "check" /\ UNCHANGED <<at, result>> ELSE Refuse
    /\ UNCHANGED <<sdkVars, missing, before, open>>

(* To the next entry, or on to the next phase.                             *)
Advance(next) ==
    IF at < Len(Entries) THEN at' = at + 1 /\ UNCHANGED phase
    ELSE at' = 1 /\ phase' = next

(* Every registration is ours, or missing, or the call is refused; nothing *)
(* is registered until all were looked at.                                 *)
AppliedAsFound(e) ==          \* mutant: registered as soon as found missing
    registry' = [registry EXCEPT ![e] = "ours"] /\ UNCHANGED missing
Note(e) ==
    /\ missing' = IF registry[e] = "absent" THEN missing \cup {e} ELSE missing
    /\ UNCHANGED registry

CheckEntry ==
    /\ phase = "check"
    /\ IF registry[Entries[at]] = "foreign"
       THEN Refuse /\ UNCHANGED <<registry, missing>>
       ELSE Note(Entries[at]) /\ Advance("apply") /\ UNCHANGED result
    /\ UNCHANGED <<pinned, changes, before, open>>

ModelForgotten(e) == e # "value model" /\ e \in missing        \* mutant
Applies(e) == e \in missing

ApplyEntry ==
    /\ phase = "apply"
    /\ registry' = IF Applies(Entries[at]) THEN [registry EXCEPT ![Entries[at]] = "ours"]
                   ELSE registry
    /\ Advance("subscribe")
    /\ result' = IF at = Len(Entries) THEN "installed" ELSE result
    /\ UNCHANGED <<pinned, changes, missing, before, open>>

(* The socket may refuse.                                                  *)
SubscribePyth ==
    /\ phase = "subscribe"
    /\ phase' = "idle"
    /\ open' \in {open, open \cup {"pyth_value"}}
    /\ UNCHANGED <<sdkVars, at, missing, result, before>>

(* Other code registers what it likes, or takes it away.                   *)
OthersRegister == \E e \in Registrations, v \in {"absent", "ours", "foreign"} :
    /\ phase \in {"idle", "subscribe"}
    /\ changes < MaxChanges
    /\ changes' = changes + 1
    /\ registry' = [registry EXCEPT ![e] = v]
    /\ before' = registry' /\ result' = "none"
    /\ UNCHANGED <<pinned, phase, at, missing, open>>

-----------------------------------------------------------------------------
(* capture_reference.  A Pyth message is the project's own type only if    *)
(* its model is registered; a list is a control message.                   *)
SourceOf(m) == IF m.type \in {"pyth_value", "pyth_value_underlying_list"} THEN "pyth_value"
               ELSE "cf_benchmarks"

Typed(m) ==
    CASE m.type = "pyth_value" -> registry["value model"] = "ours"
      [] m.type = "pyth_value_underlying_list" -> registry["list model"] = "ours"
      [] OTHER -> TRUE

ReferenceBinding(m) == {b \in Bindings : b.source = SourceOf(m) /\ b.id = m.id}

(* The assets of the facts a message becomes: none when the call raises.   *)
(* The boundary keeps nothing.                                             *)
Captured(m) ==
    {b.asset : b \in {b \in ReferenceBinding(m) :
        Typed(m) /\ m.genuine /\ m.type \in {"cfbenchmarks_value", "pyth_value"}}}

Next ==
    \/ SubscribeCF \/ CallPyth \/ CheckVersion \/ CheckEntry \/ ApplyEntry
    \/ SubscribePyth \/ OthersRegister

Spec == Init /\ [][Next]_vars

-----------------------------------------------------------------------------
(* An installation that is refused, at whichever entry it meets a          *)
(* conflict, leaves every registry as it found it ("apply only             *)
(* registrations accepted by the complete precheck", sdk_compat.py:93).    *)
RefusedInstallChangesNothing == result = "refused" => registry = before

(* One that succeeds has completed what was missing, whatever part of it   *)
(* was there, and nobody else's registration is overwritten on the way.    *)
InstallIsComplete ==
    result = "installed" =>
        \A e \in Registrations : registry[e] = "ours" /\ before[e] # "foreign"

(* What is subscribed can be captured: after an installation, every value  *)
(* of an approved identifier, of either source, becomes a fact of the one  *)
(* asset the scope binds it to.                                            *)
SubscribedIsCaptured ==
    \A b \in Bindings, m \in Message :
        /\ b.source \in open
        /\ b.source = "pyth_value" => result = "installed"
        /\ m.type \in {"cfbenchmarks_value", "pyth_value"} /\ m.genuine
        /\ SourceOf(m) = b.source /\ m.id = b.id
        => Captured(m) = {b.asset}
=============================================================================
