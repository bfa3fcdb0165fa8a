------------------------------- MODULE Recorder -------------------------------
(***************************************************************************)
(* RecorderComposition: one captured fact is persisted, read back from the *)
(* Hot Store, marked available as EVIDENCE, decided by Data Truth and      *)
(* marked available as AUTHORITY; recover_fact does the same from the      *)
(* read-back on.  The lower components are reduced to what a caller meets: *)
(*   persistence: a refused fact never appears, another may at any later   *)
(*   time;                                                                 *)
(*   Data Truth: a lookup and an append, then a second lookup; what was    *)
(*   appended becomes readable, or is lost, at any time;                   *)
(*   availability: a lookup and an append; the keys left in doubt are      *)
(*   remembered until the process ends.                                    *)
(* The caller is the one the code allows: nothing keeps it from recovering *)
(* a fact again while an earlier append about it is under way.             *)
(***************************************************************************)
EXTENDS TruthPolicy, Integers, FiniteSets

CONSTANTS NoDecision,
          Recovered,     \* facts the caller keeps recovering
          MaxUnderway    \* bound on appends under way, of each table

ASSUME RecorderAssumption ==
    /\ NoDecision \notin TruthDecision
    /\ Recovered \subseteq Facts
    /\ MaxUnderway \in Nat

VARIABLES status,        \* what persist answered for each fact
          onTheWay,      \* facts the store-and-forward client still owns
          stored,        \* facts Hot Store can read back
          history,       \* readable decision rows
          undecided,     \* decision rows under way
          candidate,     \* the decision being appended
          markers,       \* readable marker rows
          doubtful,      \* marker rows under way
          remembered,    \* keys the running writer knows to be in doubt
          hasty,         \* history: appended while an earlier append about
                         \* the same key, subject or event was under way
          pc, fact,
          result         \* the RecorderCompositionResult being built

storage == <<status, onTheWay, stored>>
decisions == <<history, undecided, candidate>>
availability == <<markers, doubtful, remembered>>
vars == <<storage, decisions, availability, hasty, pc, fact, result>>

Statuses == {"local_persistence_failed", "persisted_pending", "acknowledged_ok",
             "definitely_rejected", "in_doubt"}

Refused == {"local_persistence_failed", "definitely_rejected"}

Key == [kind : {"evidence", "authority"}, fact : Facts]

Evidence(f) == [kind |-> "evidence", fact |-> f]
Authority(f) == [kind |-> "authority", fact |-> f]

(* A row of an append-only table: equal contents may be there twice.       *)
Row(Content) == [n : 0..MaxUnderway, is : Content]

(* How a marker ended in a result: not attempted, recorded, or an error.   *)
Marks == {"none", "recorded", "error"}

Empty == [proven |-> FALSE, evidence |-> "none", decision |-> NoDecision,
          authority |-> "none"]

TypeOK ==
    /\ status \in [Facts -> Statuses \cup {"new", "lost"}]
    /\ onTheWay \subseteq Facts
    /\ stored \subseteq Facts
    /\ history \subseteq Row(TruthDecision)
    /\ undecided \subseteq Row(TruthDecision)
    /\ candidate \in TruthDecision \cup {NoDecision}
    /\ markers \subseteq Row(Key)
    /\ doubtful \subseteq Row(Key)
    /\ remembered \subseteq Key
    /\ hasty \in BOOLEAN
    /\ pc \in {"down", "idle", "persist", "read", "evidence", "decide",
               "reconcile", "authority"}
    /\ fact \in Facts \cup {NoFact}
    /\ result \in [proven : BOOLEAN, evidence : Marks,
                   decision : TruthDecision \cup {NoDecision}, authority : Marks]

Init ==
    /\ status = [f \in Facts |-> "new"]
    /\ onTheWay = {} /\ stored = {}
    /\ history = {} /\ undecided = {} /\ candidate = NoDecision
    /\ markers = {} /\ doubtful = {} /\ remembered = {} /\ hasty = FALSE
    /\ pc = "down" /\ fact = NoFact /\ result = Empty

Sole(S) == {w \in S : S = {w}}

Many(S) == \E v, w \in S : v # w        \* a contradiction

SubjectRows(f) == {w \in history : w.is.subject = f.capture_id}

AcceptedRows(e) == {w \in history : w.is.category = "accepted" /\ w.is.event = e}

KeyRows(key) == {m \in markers : m.is = key}

(* The row a table S gets: the content, with the first free number.        *)
NewRows(S, content) ==
    {[n |-> n, is |-> content] : n \in
        {k \in 0..MaxUnderway :
            /\ [n |-> k, is |-> content] \notin S
            /\ \A j \in 0..(k - 1) : [n |-> j, is |-> content] \in S}}

-----------------------------------------------------------------------------
(* The process starts: the availability writer reads every marker, and     *)
(* refuses a table with two of one key; what was in doubt is forgotten.    *)
Start ==
    /\ pc = "down"
    /\ \A key \in Key : ~Many(KeyRows(key))
    /\ pc' = "idle"
    /\ remembered' = {}
    /\ UNCHANGED <<storage, decisions, markers, doubtful, hasty, fact, result>>

(* record_market and record_reference: a message has just been captured.   *)
Record(f) ==
    /\ pc = "idle"
    /\ status[f] = "new"
    /\ pc' = "persist" /\ fact' = f /\ result' = Empty
    /\ UNCHANGED <<storage, decisions, availability, hasty>>

RecoverDecision(f) ==             \* mutant: recovery begins with the decision
    /\ pc = "idle"
    /\ status[f] # "new"
    /\ pc' = "decide" /\ fact' = f /\ result' = Empty
    /\ UNCHANGED <<storage, decisions, availability, hasty>>

(* recover_fact: an already captured fact is proven again, not persisted.  *)
Recover(f) ==
    /\ pc = "idle"
    /\ status[f] # "new"
    /\ pc' = "read" /\ fact' = f /\ result' = Empty
    /\ UNCHANGED <<storage, decisions, availability, hasty>>

(* Only a refusal stops here; every other status goes on to the read-back. *)
Persist ==
    /\ pc = "persist"
    /\ \E answer \in Statuses :
        /\ status' = [status EXCEPT ![fact] = answer]
        /\ pc' = IF answer \in Refused THEN "idle" ELSE "read"
        /\ onTheWay' = IF answer \in Refused THEN onTheWay ELSE onTheWay \cup {fact}
    /\ UNCHANGED <<stored, decisions, availability, hasty, fact, result>>

StatusIsProof == fact \in stored \/ status[fact] = "acknowledged_ok"   \* mutant
ProofIsAssumed == TRUE                                                \* mutant
Proven == fact \in stored

(* The exact read-back; a failing query raises out of the call.            *)
ReadBack ==
    /\ pc = "read"
    /\ IF Proven
       THEN pc' = "evidence" /\ result' = [result EXCEPT !.proven = TRUE]
       ELSE pc' = "idle" /\ UNCHANGED result
    /\ UNCHANGED <<storage, decisions, availability, hasty, fact>>

(* A marker is appended: readable at once, or left in doubt.               *)
AppendMarker(key, readable) ==
    /\ Cardinality(doubtful) < MaxUnderway
    /\ hasty' = (hasty \/ \E d \in doubtful : d.is = key)
    /\ \E m \in NewRows(markers \cup doubtful, key) :
          IF readable
          THEN markers' = markers \cup {m} /\ UNCHANGED <<doubtful, remembered>>
          ELSE /\ doubtful' = doubtful \cup {m}
               /\ remembered' = remembered \cup {key}
               /\ UNCHANGED markers

RecordOptimistically(key, field) ==   \* mutant: doubt counts as recorded
    /\ result' = [result EXCEPT ![field] = "recorded"]
    /\ IF KeyRows(key) # {} THEN UNCHANGED <<availability, hasty>>
       ELSE \E readable \in BOOLEAN : AppendMarker(key, readable)

(* record_proven, its outcomes and what they leave behind: the marker that *)
(* is there, a new one, or an error, which leaves nothing new behind, as   *)
(* for a key in doubt, or an append in doubt.                              *)
RecordProven(key, field) ==
    \/ /\ Sole(KeyRows(key)) # {}
       /\ result' = [result EXCEPT ![field] = "recorded"]
       /\ remembered' = remembered \ {key}
       /\ UNCHANGED <<markers, doubtful, hasty>>
    \/ /\ KeyRows(key) = {} /\ key \notin remembered
       /\ \E mark \in {"recorded", "error"} :
             /\ result' = [result EXCEPT ![field] = mark]
             /\ AppendMarker(key, mark = "recorded")
    \/ /\ result' = [result EXCEPT ![field] = "error"]
       /\ UNCHANGED <<availability, hasty>>

(* An error of the marker is kept in the result and the call goes on.      *)
MarkEvidence ==
    /\ pc = "evidence"
    /\ RecordProven(Evidence(fact), "evidence")
    /\ pc' = "decide"
    /\ UNCHANGED <<storage, decisions, fact>>

AbsentEvenWhenDecided(f) == TRUE  \* mutant: the first lookup is left out
Absent(f) == SubjectRows(f) = {}

(* The anchors decide may compare f with: the accepted fact of its event,  *)
(* or none; two accepted rows raise.                                       *)
Anchors(f) ==
    IF ~NeedsAnchor(f) \/ AcceptedRows(EventOf(f)) = {} THEN {NoFact}
    ELSE {g \in Facts : \E w \in Sole(AcceptedRows(EventOf(f))) :
                            w.is.subject = g.capture_id}

UnderwayAbout(f) ==
    {w \in undecided :
        \/ w.is.subject = f.capture_id
        \/ NeedsAnchor(f) /\ w.is.event = EventOf(f)}

(* DataTruth.decide up to its append: the decision on record is returned,  *)
(* or a first one is appended.  Its lookups before the append are one step *)
(* here (DataTruth takes them apart).                                      *)
Decide ==
    /\ pc = "decide"
    /\ \/ \E w \in Sole(SubjectRows(fact)) :
             /\ result' = [result EXCEPT !.decision = w.is]
             /\ pc' = "authority"
             /\ UNCHANGED <<decisions, hasty>>
       \/ /\ Absent(fact) /\ Supported(fact)
          /\ Cardinality(undecided) < MaxUnderway
          /\ \E anchor \in Anchors(fact) : candidate' = Verdict(fact, anchor)
          /\ \E w \in NewRows(history \cup undecided, candidate') :
                undecided' = undecided \cup {w}
          /\ hasty' = (hasty \/ UnderwayAbout(fact) # {})
          /\ pc' = "reconcile"
          /\ UNCHANGED <<history, result>>
    /\ UNCHANGED <<storage, availability, fact>>

(* The second lookup, with the append acknowledged or in doubt: the one    *)
(* row of the subject is returned if it says the same; absence, another    *)
(* decision and a second row raise.                                        *)
Reconcile ==
    /\ pc = "reconcile"
    /\ IF \E w \in Sole(SubjectRows(fact)) : w.is = candidate
       THEN pc' = "authority" /\ result' = [result EXCEPT !.decision = candidate]
       ELSE pc' = "idle" /\ UNCHANGED result
    /\ candidate' = NoDecision
    /\ UNCHANGED <<storage, history, undecided, availability, hasty, fact>>

MarkAuthority ==
    /\ pc = "authority"
    /\ RecordProven(Authority(fact), "authority")
    /\ pc' = "idle"
    /\ UNCHANGED <<storage, decisions, fact>>

(* A query raises out of the call, or the process stops, anywhere.         *)
Leave(label) ==
    /\ pc' = label
    /\ status' = IF pc = "persist" THEN [status EXCEPT ![fact] = "lost"] ELSE status
    /\ onTheWay' \in IF pc = "persist" THEN {onTheWay, onTheWay \cup {fact}} ELSE {onTheWay}
    /\ candidate' = NoDecision
    /\ UNCHANGED <<stored, history, undecided, availability, hasty, fact, result>>

Raise == pc \notin {"down", "idle"} /\ Leave("idle")

Stop == pc # "down" /\ Leave("down")

-----------------------------------------------------------------------------
(* What is under way surfaces or is lost (external to the recorder: the    *)
(* client and the server).                                                 *)
StoreFact == \E f \in onTheWay :
    /\ onTheWay' = onTheWay \ {f}
    /\ stored' \in {stored, stored \cup {f}}
    /\ UNCHANGED <<status, decisions, availability, hasty, pc, fact, result>>

SettleDecision(f, readable) == \E w \in undecided :
    /\ w.is.subject = f.capture_id
    /\ undecided' = undecided \ {w}
    /\ history' = IF readable THEN history \cup {w} ELSE history
    /\ UNCHANGED <<storage, candidate, availability, hasty, pc, fact, result>>

SettleMarker(key) == \E m \in doubtful :
    /\ m.is = key
    /\ doubtful' = doubtful \ {m}
    /\ markers' \in {markers, markers \cup {m}}
    /\ UNCHANGED <<storage, decisions, remembered, hasty, pc, fact, result>>

Settle ==
    \/ StoreFact
    \/ \E f \in Facts, readable \in BOOLEAN : SettleDecision(f, readable)
    \/ \E key \in Key : SettleMarker(key)

Calls == \E f \in Facts : Record(f) \/ Recover(f)

Program == Persist \/ ReadBack \/ MarkEvidence \/ Decide \/ Reconcile \/ MarkAuthority

Next == Start \/ Calls \/ Program \/ Raise \/ Stop \/ Settle

Spec == Init /\ [][Next]_vars

(* The recovering caller.  It enters recover_fact for certain facts again  *)
(* and again; no step of such a call fails for ever, and the server does   *)
(* not lose every decision appended for them.  The process is restarted    *)
(* now and again, since only that lifts the doubt about a marker that was  *)
(* lost.  That QuestDB answers each query is assumed with this: src/       *)
(* bounds none of them, wait_wal_table included.                           *)
FairSpec ==
    /\ Spec
    /\ WF_vars(Start)
    /\ WF_vars(Stop)
    /\ \A f \in Recovered :
          /\ SF_vars(Recover(f))
          /\ SF_vars(fact = f /\ ReadBack)
          /\ SF_vars(fact = f /\ MarkEvidence /\ result'.evidence = "recorded")
          /\ SF_vars(fact = f /\ Decide)
          /\ SF_vars(fact = f /\ MarkAuthority /\ result'.authority = "recorded")
          /\ SF_vars(SettleDecision(f, TRUE))
          /\ WF_vars(SettleMarker(Evidence(f)) \/ SettleMarker(Authority(f)))

-----------------------------------------------------------------------------
Decided(f) == \E w \in history \cup undecided : w.is.subject = f.capture_id

Marked(key) == \E m \in markers \cup doubtful : m.is = key

(* "No persistence status alone is proof": no EVIDENCE marker, readable or *)
(* in doubt, without readable evidence, and no AUTHORITY marker without a  *)
(* readable decision.                                                      *)
MarkersFollowProof ==
    \A f \in Facts :
        /\ Marked(Evidence(f)) => f \in stored
        /\ Marked(Authority(f)) => SubjectRows(f) # {}

(* A refused fact stops before every lower call, and no later recovery     *)
(* brings it into the record.                                              *)
RefusedStaysOut ==
    \A f \in Facts : status[f] \in Refused =>
        /\ f \notin stored
        /\ ~Decided(f)
        /\ ~Marked(Evidence(f))
        /\ ~Marked(Authority(f))

(* What the result of a call claims is on record and stays there, also     *)
(* when its evidence marker failed and the call went on.                   *)
ResultIsOnRecord ==
    /\ result.proven => fact \in stored
    /\ result.evidence = "recorded" => KeyRows(Evidence(fact)) # {}
    /\ result.decision # NoDecision =>
           \E w \in SubjectRows(fact) : w.is = result.decision
    /\ result.authority = "recorded" => KeyRows(Authority(fact)) # {}
    /\ result.authority # "none" => result.decision # NoDecision

(* The record of a fact is contradictory: two decisions of its subject,    *)
(* two accepted decisions of its event, or two markers of one key.  Every  *)
(* later lookup or start fails for ever.                                   *)
Contradictory(f) ==
    \/ Many(SubjectRows(f))
    \/ NeedsAnchor(f) /\ Many(AcceptedRows(EventOf(f)))
    \/ \E key \in Key : Many(KeyRows(key))

(* The record becomes contradictory only through haste: as long as nothing *)
(* is appended about a key, subject or event that has an append under way, *)
(* no failure, interruption, loss or restart makes it so.                  *)
OnlyHasteContradicts ==
    \A f \in Facts : Contradictory(f) => hasty

(* Recovery repeated for long enough, when no failure repeats for ever,    *)
(* completes the record of a fact that became readable, unless its record  *)
(* has become contradictory: no doubt, lost append, restart or interrupted *)
(* call leaves it stuck half recorded.                                     *)
Complete(f) ==
    /\ SubjectRows(f) # {}
    /\ KeyRows(Evidence(f)) # {}
    /\ KeyRows(Authority(f)) # {}

RecoveryCompletes ==
    \A f \in Recovered :
        (f \in stored /\ Supported(f)) ~> (Complete(f) \/ Contradictory(f))
=============================================================================
