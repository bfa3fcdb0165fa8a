----------------------------- MODULE RecorderProofs -----------------------------
(***************************************************************************)
(* Proofs about Recorder for every set of facts and recovering caller.     *)
(***************************************************************************)
EXTENDS Recorder, TLAPS

-----------------------------------------------------------------------------
(* A verdict is a well-formed decision, and so never the sentinel: once    *)
(* decided, a fact stays decided.                                          *)
LEMMA VerdictIsDecision ==
    ASSUME NEW f \in Facts, NEW anchor \in Facts \cup {NoFact}
    PROVE  Verdict(f, anchor) \in TruthDecision /\ Verdict(f, anchor) # NoDecision
<1>1. \A g \in Facts : g.capture_id \in STRING /\ EventOf(g) \in EventIdentity
  BY FactsAssumption DEF EventOf, EventIdentity, CaptureFact, TradePayload
<1>2. /\ <<f.capture_id>> \in Seq(STRING)
      /\ anchor # NoFact => <<anchor.capture_id, f.capture_id>> \in Seq(STRING)
  BY <1>1
<1>3. NotAcceptedReason(f) \in Reasons
  BY DEF NotAcceptedReason, Reasons
<1>4. Verdict(f, anchor) \in TruthDecision
  BY <1>1, <1>2, <1>3 DEF Verdict, TradeVerdict, NotAccepted, AcceptedObservation,
     Decision, TruthDecision, Categories, Reasons
<1> QED BY <1>4, RecorderAssumption

LEMMA KeysDiffer ==
    \A f, g : /\ Evidence(f) # Authority(g)
              /\ Evidence(f) = Evidence(g) => f = g
              /\ Authority(f) = Authority(g) => f = g
<1> SUFFICES ASSUME NEW f, NEW g
             PROVE  /\ Evidence(f) # Authority(g)
                    /\ Evidence(f) = Evidence(g) => f = g
                    /\ Authority(f) = Authority(g) => f = g
  OBVIOUS
<1>1. /\ Evidence(f).kind = "evidence" /\ Authority(g).kind = "authority"
      /\ Evidence(f).fact = f /\ Evidence(g).fact = g
      /\ Authority(f).fact = f /\ Authority(g).fact = g
  BY DEF Evidence, Authority
<1> QED BY <1>1

LEMMA KeyType == \A f \in Facts : Evidence(f) \in Key /\ Authority(f) \in Key
BY DEF Evidence, Authority, Key

(* A new row is none of the table's, and holds the given content.          *)
LEMMA NewRowIsNew ==
    ASSUME NEW S, NEW content, NEW m \in NewRows(S, content)
    PROVE  m \notin S /\ m.is = content /\ m \in [n : 0..MaxUnderway, is : {content}]
<1>1. PICK k \in 0..MaxUnderway : m = [n |-> k, is |-> content] /\ m \notin S
  BY DEF NewRows
<1> QED BY <1>1

LEMMA SoleIsIn ==
    ASSUME NEW S, NEW w \in Sole(S) PROVE w \in S
BY DEF Sole

(* Where decide looks for its anchor: with an accepted row of the event on *)
(* record it compares, and its verdict accepts nothing.                    *)
LEMMA VerdictOf ==
    ASSUME NEW f \in Facts, NEW anchor \in Anchors(f)
    PROVE  /\ anchor \in Facts \cup {NoFact}
           /\ Verdict(f, anchor).subject = f.capture_id
           /\ Verdict(f, anchor).event # NoEvent =>
                 NeedsAnchor(f) /\ Verdict(f, anchor).event = EventOf(f)
           /\ Verdict(f, anchor).category = "accepted" /\ NeedsAnchor(f) =>
                 AcceptedRows(EventOf(f)) = {}
<1>1. anchor \in Facts \cup {NoFact}
  BY DEF Anchors
<1>2. NeedsAnchor(f) /\ AcceptedRows(EventOf(f)) # {} => anchor # NoFact
  BY FactsAssumption DEF Anchors
<1> QED
  BY <1>1, <1>2 DEF Verdict, TradeVerdict, NotAccepted, AcceptedObservation, Decision

-----------------------------------------------------------------------------
(* A fact is written at most once: until its persist answers, and for ever *)
(* when that answer is a refusal, nobody holds it.                         *)
PersistedInv ==
    /\ pc \notin {"down", "idle"} \/ result # Empty => fact \in Facts
    /\ pc = "persist" => status[fact] = "new"
    /\ \A f \in Facts : status[f] \in Refused \cup {"new"} =>
           f \notin onTheWay /\ f \notin stored

(* The read-back is the gate: behind it the fact is readable, and all that *)
(* a call leaves behind is about a readable fact.                          *)
ProvenInv ==
    /\ pc \in {"evidence", "decide", "reconcile", "authority"} => fact \in stored
    /\ \A f \in Facts : Decided(f) => f \in stored

RecordInv ==
    /\ TypeOK
    /\ PersistedInv
    /\ ProvenInv
    /\ MarkersFollowProof
    /\ pc = "authority" => result.decision # NoDecision
    /\ ResultIsOnRecord

(* What the recorder keeps while nobody is hasty: one row of a subject,    *)
(* one accepted row of an event and one row of a key, under way or not.    *)
CarefulInv ==
    ~hasty =>
        /\ \A v, w \in history \cup undecided :
              /\ v.is.subject = w.is.subject => v = w
              /\ /\ v.is.category = "accepted" /\ w.is.category = "accepted"
                 /\ v.is.event = w.is.event /\ v.is.event # NoEvent
                 => v = w
        /\ \A m, n \in markers \cup doubtful : m.is = n.is => m = n

LEMMA InitRecord == Init => RecordInv /\ CarefulInv
<1> SUFFICES ASSUME Init PROVE RecordInv /\ CarefulInv
  OBVIOUS
<1>1. TypeOK
  BY RecorderAssumption DEF Init, TypeOK, Statuses, Empty, Marks, Row
<1>2. PersistedInv /\ ProvenInv /\ MarkersFollowProof
  BY DEF Init, PersistedInv, ProvenInv, MarkersFollowProof, Decided, Marked
<1>3. ResultIsOnRecord /\ CarefulInv
  BY DEF Init, ResultIsOnRecord, Empty, CarefulInv
<1> QED BY <1>1, <1>2, <1>3 DEF RecordInv, Init

(* One of record_proven's outcomes, for a marker of the fact in hand.      *)
LEMMA MarkStep ==
    ASSUME NEW key \in Key, NEW field \in {"evidence", "authority"},
           TypeOK, CarefulInv, RecordProven(key, field)
    PROVE  /\ markers \subseteq markers' /\ markers' \subseteq Row(Key)
           /\ doubtful' \subseteq Row(Key) /\ remembered' \subseteq Key
           /\ hasty' \in BOOLEAN /\ (hasty => hasty')
           /\ \A k : (\E m \in markers' \cup doubtful' : m.is = k) => Marked(k) \/ k = key
           /\ ~hasty' => \A m, n \in markers' \cup doubtful' : m.is = n.is => m = n
           /\ \E mark \in {"recorded", "error"} :
                 /\ result' = [result EXCEPT ![field] = mark]
                 /\ mark = "recorded" => \E m \in markers' : m.is = key
<1>1. CASE /\ Sole(KeyRows(key)) # {}
           /\ result' = [result EXCEPT ![field] = "recorded"]
           /\ remembered' = remembered \ {key}
           /\ UNCHANGED <<markers, doubtful, hasty>>
  BY <1>1, SoleIsIn DEF TypeOK, CarefulInv, Marked, KeyRows
<1>2. ASSUME NEW mark \in {"recorded", "error"},
             KeyRows(key) = {},
             result' = [result EXCEPT ![field] = mark],
             AppendMarker(key, mark = "recorded")
      PROVE  /\ markers \subseteq markers' /\ markers' \subseteq Row(Key)
             /\ doubtful' \subseteq Row(Key) /\ remembered' \subseteq Key
             /\ hasty' \in BOOLEAN /\ (hasty => hasty')
             /\ \A k : (\E m \in markers' \cup doubtful' : m.is = k) => Marked(k) \/ k = key
             /\ ~hasty' => \A m, n \in markers' \cup doubtful' : m.is = n.is => m = n
             /\ mark = "recorded" => \E m \in markers' : m.is = key
  <2>1. PICK m \in NewRows(markers \cup doubtful, key) :
               IF mark = "recorded"
               THEN markers' = markers \cup {m} /\ UNCHANGED <<doubtful, remembered>>
               ELSE /\ doubtful' = doubtful \cup {m}
                    /\ remembered' = remembered \cup {key}
                    /\ UNCHANGED markers
    BY <1>2 DEF AppendMarker
  <2>2. m.is = key /\ m \in Row(Key)
    BY NewRowIsNew DEF Row
  <2>3. /\ markers' \cup doubtful' = markers \cup doubtful \cup {m}
        /\ markers \subseteq markers' /\ markers' \subseteq Row(Key)
        /\ doubtful' \subseteq Row(Key) /\ remembered' \subseteq Key
        /\ mark = "recorded" => m \in markers'
    BY <2>1, <2>2 DEF TypeOK
  <2>4. hasty' = (hasty \/ \E d \in doubtful : d.is = key)
    BY <1>2 DEF AppendMarker
  <2>5. ~hasty' => \A n \in markers \cup doubtful : n.is # key
    BY <1>2, <2>4 DEF KeyRows
  <2>6. ~hasty' => \A n, o \in markers' \cup doubtful' : n.is = o.is => n = o
    BY <2>2, <2>3, <2>4, <2>5 DEF CarefulInv
  <2> QED BY <2>2, <2>3, <2>4, <2>6 DEF TypeOK, Marked
<1>3. CASE /\ result' = [result EXCEPT ![field] = "error"]
           /\ UNCHANGED <<availability, hasty>>
  BY <1>3 DEF TypeOK, CarefulInv, Marked, availability
<1> QED BY <1>1, <1>2, <1>3 DEF RecordProven

(* Steps about the rows of neither table keep what is said of them.        *)
LEMMA SameRows ==
    ASSUME RecordInv, CarefulInv,
           UNCHANGED <<stored, history, undecided, markers, doubtful, hasty>>
    PROVE  CarefulInv' /\ MarkersFollowProof' /\ \A f \in Facts : Decided(f)' => f \in stored'
BY DEF RecordInv, ProvenInv, CarefulInv, MarkersFollowProof, Decided, Marked, SubjectRows

LEMMA InductiveStep ==
    RecordInv /\ CarefulInv /\ [Next]_vars => RecordInv' /\ CarefulInv'
<1> SUFFICES ASSUME RecordInv, CarefulInv, [Next]_vars PROVE RecordInv' /\ CarefulInv'
  OBVIOUS
<1>0. /\ TypeOK /\ PersistedInv /\ ProvenInv /\ MarkersFollowProof /\ ResultIsOnRecord
      /\ pc = "authority" => result.decision # NoDecision
  BY DEF RecordInv
<1> USE DEF storage, decisions, availability
<1>1. ASSUME NEW f \in Facts, Record(f) \/ Recover(f) PROVE RecordInv' /\ CarefulInv'
  <2>1. /\ pc = "idle" /\ pc' \in {"persist", "read"} /\ fact' = f /\ result' = Empty
        /\ pc' = "persist" => status[f] = "new"
        /\ UNCHANGED <<storage, decisions, availability, hasty>>
    BY <1>1 DEF Record, Recover
  <2>2. TypeOK'
    BY <1>0, <2>1 DEF TypeOK, Empty, Marks
  <2>3. ResultIsOnRecord' /\ PersistedInv'
    BY <1>0, <2>1 DEF ResultIsOnRecord, PersistedInv, Empty
  <2>4. CarefulInv' /\ MarkersFollowProof' /\ ProvenInv'
    BY <2>1, SameRows DEF ProvenInv
  <2> QED
    BY <2>1, <2>2, <2>3, <2>4 DEF RecordInv
<1>2. CASE Persist
  <2>1. TypeOK' /\ PersistedInv' /\ ResultIsOnRecord'
    BY <1>0, <1>2 DEF Persist, TypeOK, PersistedInv, ResultIsOnRecord, Statuses,
       Refused, KeyRows, SubjectRows
  <2>2. CarefulInv' /\ MarkersFollowProof' /\ ProvenInv'
    BY <1>2, SameRows DEF Persist, ProvenInv
  <2> QED BY <1>2, <2>1, <2>2 DEF RecordInv, Persist
<1>3. CASE ReadBack
  <2>1. /\ pc = "read" /\ pc' \in {"evidence", "idle"} /\ fact \in Facts
        /\ pc' = "evidence" => fact \in stored
        /\ \/ result' = result
           \/ fact \in stored /\ result' = [result EXCEPT !.proven = TRUE]
        /\ UNCHANGED <<storage, decisions, availability, hasty, fact>>
    BY <1>0, <1>3 DEF ReadBack, Proven, PersistedInv
  <2>2. TypeOK' /\ PersistedInv'
    BY <1>0, <2>1 DEF TypeOK, PersistedInv
  <2>3. ResultIsOnRecord'
    BY <1>0, <2>1 DEF ResultIsOnRecord, TypeOK, KeyRows, SubjectRows
  <2>4. CarefulInv' /\ MarkersFollowProof' /\ ProvenInv'
    BY <2>1, SameRows DEF ProvenInv
  <2> QED BY <2>1, <2>2, <2>3, <2>4 DEF RecordInv
<1>4. CASE MarkEvidence
  <2>1. /\ pc = "evidence" /\ pc' = "decide" /\ fact \in Facts /\ fact \in stored
        /\ RecordProven(Evidence(fact), "evidence")
        /\ UNCHANGED <<storage, decisions, fact>>
    BY <1>0, <1>4 DEF MarkEvidence, PersistedInv, ProvenInv
  <2>2. /\ markers \subseteq markers' /\ markers' \subseteq Row(Key)
        /\ doubtful' \subseteq Row(Key) /\ remembered' \subseteq Key
        /\ hasty' \in BOOLEAN /\ (hasty => hasty')
        /\ \A k : (\E m \in markers' \cup doubtful' : m.is = k) =>
                      Marked(k) \/ k = Evidence(fact)
        /\ ~hasty' => \A m, n \in markers' \cup doubtful' : m.is = n.is => m = n
    BY <1>0, <2>1, KeyType, MarkStep
  <2>3. PICK mark \in {"recorded", "error"} :
            /\ result' = [result EXCEPT !.evidence = mark]
            /\ mark = "recorded" => \E m \in markers' : m.is = Evidence(fact)
    BY <1>0, <2>1, KeyType, MarkStep
  <2>4. MarkersFollowProof'
    BY <1>0, <2>1, <2>2, KeysDiffer DEF MarkersFollowProof, Marked, SubjectRows
  <2>5. ResultIsOnRecord'
    BY <1>0, <2>1, <2>2, <2>3 DEF ResultIsOnRecord, TypeOK, KeyRows, SubjectRows
  <2>6. TypeOK'
    <3>1. result' \in [proven : BOOLEAN, evidence : Marks,
                      decision : TruthDecision \cup {NoDecision}, authority : Marks]
      BY <1>0, <2>3 DEF TypeOK, Marks
    <3> QED BY <1>0, <2>1, <2>2, <3>1 DEF TypeOK
  <2>7. PersistedInv'
    BY <1>0, <2>1 DEF PersistedInv
  <2>8. ProvenInv'
    BY <1>0, <2>1 DEF ProvenInv, Decided
  <2>9. CarefulInv'
    <3> SUFFICES ASSUME ~hasty' PROVE CarefulInv'
      BY DEF CarefulInv
    <3>1. ~hasty
      BY <2>2
    <3> QED BY <2>1, <2>2, <3>1 DEF CarefulInv
  <2> QED BY <2>1, <2>4, <2>5, <2>6, <2>7, <2>8, <2>9 DEF RecordInv
<1>5. CASE Decide
  <2>1. /\ pc = "decide" /\ fact \in Facts /\ fact \in stored
        /\ UNCHANGED <<storage, availability, fact>>
    BY <1>0, <1>5 DEF Decide, PersistedInv, ProvenInv
  <2>2. ASSUME NEW w \in Sole(SubjectRows(fact)),
               result' = [result EXCEPT !.decision = w.is],
               pc' = "authority", UNCHANGED <<decisions, hasty>>
        PROVE  RecordInv' /\ CarefulInv'
    <3>1. w \in SubjectRows(fact) /\ w \in history
      BY SoleIsIn DEF SubjectRows
    <3>2. w.is \in TruthDecision /\ w.is # NoDecision
      BY <1>0, <3>1, RecorderAssumption DEF TypeOK, Row
    <3>3. TypeOK' /\ PersistedInv' /\ result'.decision # NoDecision
      BY <1>0, <2>1, <2>2, <3>2 DEF TypeOK, PersistedInv
    <3>4. ResultIsOnRecord'
      BY <1>0, <2>1, <2>2, <3>1, <3>2 DEF ResultIsOnRecord, TypeOK, KeyRows, SubjectRows
    <3>5. CarefulInv' /\ MarkersFollowProof' /\ ProvenInv'
      BY <2>1, <2>2, SameRows DEF ProvenInv
    <3> QED BY <3>3, <3>4, <3>5 DEF RecordInv
  <2>3. CASE /\ Absent(fact) /\ Supported(fact)
             /\ Cardinality(undecided) < MaxUnderway
             /\ \E anchor \in Anchors(fact) : candidate' = Verdict(fact, anchor)
             /\ \E w \in NewRows(history \cup undecided, candidate') :
                   undecided' = undecided \cup {w}
             /\ hasty' = (hasty \/ UnderwayAbout(fact) # {})
             /\ pc' = "reconcile"
             /\ UNCHANGED <<history, result>>
    <3>1. PICK anchor \in Anchors(fact) : candidate' = Verdict(fact, anchor)
      BY <2>3
    <3>2. /\ candidate' \in TruthDecision
          /\ candidate'.subject = fact.capture_id
          /\ candidate'.event # NoEvent =>
                NeedsAnchor(fact) /\ candidate'.event = EventOf(fact)
          /\ candidate'.category = "accepted" /\ NeedsAnchor(fact) =>
                AcceptedRows(EventOf(fact)) = {}
      BY <2>1, <3>1, VerdictOf, VerdictIsDecision
    <3>3. PICK w \in NewRows(history \cup undecided, candidate') :
                   undecided' = undecided \cup {w}
      BY <2>3
    <3>4. w.is = candidate' /\ w \in Row(TruthDecision)
      BY <3>2, NewRowIsNew DEF Row
    <3>5. TypeOK' /\ PersistedInv'
      BY <1>0, <2>1, <2>3, <3>2, <3>3, <3>4 DEF TypeOK, PersistedInv
    <3>6. ProvenInv'
      <4>1. \A f \in Facts : candidate'.subject = f.capture_id => f = fact
        BY <2>1, <3>2, FactsAssumption
      <4> QED BY <1>0, <2>1, <2>3, <3>3, <3>4, <4>1 DEF ProvenInv, Decided
    <3>7. MarkersFollowProof' /\ ResultIsOnRecord'
      BY <1>0, <2>1, <2>3 DEF MarkersFollowProof, ResultIsOnRecord, Marked, KeyRows,
         SubjectRows
    <3>8. CarefulInv'
      <4> SUFFICES ASSUME ~hasty' PROVE CarefulInv'
        BY DEF CarefulInv
      <4>1. ~hasty /\ UnderwayAbout(fact) = {} /\ SubjectRows(fact) = {}
        BY <2>3 DEF Absent
      <4>2. \A v \in history \cup undecided :
               /\ v.is.subject # w.is.subject
               /\ ~ /\ v.is.category = "accepted" /\ w.is.category = "accepted"
                    /\ v.is.event = w.is.event /\ v.is.event # NoEvent
        BY <3>2, <3>4, <4>1 DEF UnderwayAbout, SubjectRows, AcceptedRows
      <4>3. history' \cup undecided' = history \cup undecided \cup {w}
        BY <2>3, <3>3
      <4> QED BY <2>1, <4>1, <4>2, <4>3 DEF CarefulInv
    <3> QED BY <2>3, <3>5, <3>6, <3>7, <3>8 DEF RecordInv
  <2> QED BY <1>5, <2>2, <2>3 DEF Decide
<1>6. CASE Reconcile
  <2>1. /\ pc = "reconcile" /\ pc' \in {"authority", "idle"} /\ fact \in Facts
        /\ fact \in stored /\ candidate' = NoDecision
        /\ UNCHANGED <<storage, history, undecided, availability, hasty, fact>>
    BY <1>0, <1>6 DEF Reconcile, PersistedInv, ProvenInv
  <2>2. CASE pc' = "idle" /\ result' = result
    <3>1. TypeOK' /\ PersistedInv' /\ ResultIsOnRecord'
      BY <1>0, <2>1, <2>2 DEF TypeOK, PersistedInv, ResultIsOnRecord, KeyRows, SubjectRows
    <3> QED BY <2>1, <2>2, <3>1, SameRows DEF ProvenInv, RecordInv
  <2>3. ASSUME NEW w \in Sole(SubjectRows(fact)), w.is = candidate,
               pc' = "authority", result' = [result EXCEPT !.decision = candidate]
        PROVE  RecordInv' /\ CarefulInv'
    <3>1. w \in SubjectRows(fact) /\ w \in history
      BY SoleIsIn DEF SubjectRows
    <3>2. candidate \in TruthDecision /\ candidate # NoDecision
      BY <1>0, <2>3, <3>1, RecorderAssumption DEF TypeOK, Row
    <3>3. TypeOK' /\ PersistedInv' /\ result'.decision # NoDecision
      BY <1>0, <2>1, <2>3, <3>2 DEF TypeOK, PersistedInv
    <3>4. ResultIsOnRecord'
      BY <1>0, <2>1, <2>3, <3>1, <3>2 DEF ResultIsOnRecord, TypeOK, KeyRows, SubjectRows
    <3> QED BY <2>1, <2>3, <3>3, <3>4, SameRows DEF ProvenInv, RecordInv
  <2> QED BY <1>6, <2>2, <2>3 DEF Reconcile
<1>7. CASE MarkAuthority
  <2>1. /\ pc = "authority" /\ pc' = "idle" /\ fact \in Facts
        /\ RecordProven(Authority(fact), "authority")
        /\ result.decision # NoDecision /\ SubjectRows(fact) # {}
        /\ UNCHANGED <<storage, decisions, fact>>
    BY <1>0, <1>7 DEF MarkAuthority, PersistedInv, ResultIsOnRecord
  <2>2. /\ markers \subseteq markers' /\ markers' \subseteq Row(Key)
        /\ doubtful' \subseteq Row(Key) /\ remembered' \subseteq Key
        /\ hasty' \in BOOLEAN /\ (hasty => hasty')
        /\ \A k : (\E m \in markers' \cup doubtful' : m.is = k) =>
                      Marked(k) \/ k = Authority(fact)
        /\ ~hasty' => \A m, n \in markers' \cup doubtful' : m.is = n.is => m = n
    BY <1>0, <2>1, KeyType, MarkStep
  <2>3. PICK mark \in {"recorded", "error"} :
            /\ result' = [result EXCEPT !.authority = mark]
            /\ mark = "recorded" => \E m \in markers' : m.is = Authority(fact)
    BY <1>0, <2>1, KeyType, MarkStep
  <2>4. MarkersFollowProof'
    BY <1>0, <2>1, <2>2, KeysDiffer DEF MarkersFollowProof, Marked, SubjectRows
  <2>5. ResultIsOnRecord'
    BY <1>0, <2>1, <2>2, <2>3 DEF ResultIsOnRecord, TypeOK, KeyRows, SubjectRows
  <2>6. TypeOK'
    <3>1. result' \in [proven : BOOLEAN, evidence : Marks,
                      decision : TruthDecision \cup {NoDecision}, authority : Marks]
      BY <1>0, <2>3 DEF TypeOK, Marks
    <3> QED BY <1>0, <2>1, <2>2, <3>1 DEF TypeOK
  <2>7. PersistedInv'
    BY <1>0, <2>1 DEF PersistedInv
  <2>8. ProvenInv'
    BY <1>0, <2>1 DEF ProvenInv, Decided
  <2>9. CarefulInv'
    <3> SUFFICES ASSUME ~hasty' PROVE CarefulInv'
      BY DEF CarefulInv
    <3>1. ~hasty
      BY <2>2
    <3> QED BY <2>1, <2>2, <3>1 DEF CarefulInv
  <2> QED BY <2>1, <2>4, <2>5, <2>6, <2>7, <2>8, <2>9 DEF RecordInv
<1>8. CASE Start
  <2>1. TypeOK' /\ PersistedInv' /\ ResultIsOnRecord'
    BY <1>0, <1>8 DEF Start, TypeOK, PersistedInv, ResultIsOnRecord, KeyRows, SubjectRows
  <2>2. CarefulInv' /\ MarkersFollowProof' /\ ProvenInv'
    BY <1>8, SameRows DEF Start, ProvenInv
  <2> QED BY <1>8, <2>1, <2>2 DEF RecordInv, Start
<1>9. ASSUME Raise \/ Stop PROVE RecordInv' /\ CarefulInv'
  <2>1. /\ pc' \in {"idle", "down"} /\ Leave(pc')
        /\ UNCHANGED <<stored, history, undecided, availability, hasty, fact, result>>
    BY <1>9 DEF Raise, Stop, Leave
  <2>2. TypeOK' /\ PersistedInv' /\ ResultIsOnRecord'
    BY <1>0, <2>1 DEF Leave, TypeOK, PersistedInv, ResultIsOnRecord, KeyRows, SubjectRows,
       Refused
  <2>3. CarefulInv' /\ MarkersFollowProof' /\ ProvenInv'
    BY <2>1, SameRows DEF ProvenInv
  <2> QED BY <2>1, <2>2, <2>3 DEF RecordInv
<1>10. CASE StoreFact
  BY <1>0, <1>10 DEF RecordInv, StoreFact, TypeOK, PersistedInv, ProvenInv,
     MarkersFollowProof, ResultIsOnRecord, Decided, Marked, CarefulInv, KeyRows,
     SubjectRows
<1>11. ASSUME NEW f \in Facts, NEW readable \in BOOLEAN, SettleDecision(f, readable)
       PROVE  RecordInv' /\ CarefulInv'
  <2>1. /\ history \subseteq history' /\ undecided' \subseteq undecided
        /\ history' \cup undecided' \subseteq history \cup undecided
        /\ UNCHANGED <<storage, candidate, availability, hasty, pc, fact, result>>
    BY <1>11 DEF SettleDecision
  <2>2. TypeOK' /\ PersistedInv' /\ ProvenInv'
    BY <1>0, <2>1 DEF TypeOK, PersistedInv, ProvenInv, Decided
  <2>3. MarkersFollowProof' /\ ResultIsOnRecord'
    BY <1>0, <2>1 DEF MarkersFollowProof, ResultIsOnRecord, Marked, KeyRows, SubjectRows
  <2>4. CarefulInv'
    BY <2>1 DEF CarefulInv
  <2> QED BY <1>0, <2>1, <2>2, <2>3, <2>4 DEF RecordInv
<1>12. ASSUME NEW key \in Key, SettleMarker(key) PROVE RecordInv' /\ CarefulInv'
  <2>1. /\ markers \subseteq markers' /\ doubtful' \subseteq doubtful
        /\ markers' \cup doubtful' \subseteq markers \cup doubtful
        /\ UNCHANGED <<storage, decisions, remembered, hasty, pc, fact, result>>
    BY <1>12 DEF SettleMarker
  <2>2. TypeOK' /\ PersistedInv' /\ ProvenInv'
    BY <1>0, <2>1 DEF TypeOK, PersistedInv, ProvenInv, Decided
  <2>3. MarkersFollowProof' /\ ResultIsOnRecord'
    BY <1>0, <2>1 DEF MarkersFollowProof, ResultIsOnRecord, Marked, KeyRows, SubjectRows
  <2>4. CarefulInv'
    BY <2>1 DEF CarefulInv
  <2> QED BY <1>0, <2>1, <2>2, <2>3, <2>4 DEF RecordInv
<1>13. CASE UNCHANGED vars
  <2>1. TypeOK' /\ PersistedInv' /\ ResultIsOnRecord'
    BY <1>0, <1>13 DEF vars, TypeOK, PersistedInv, ResultIsOnRecord, KeyRows, SubjectRows
  <2>2. CarefulInv' /\ MarkersFollowProof' /\ ProvenInv'
    BY <1>0, <1>13, SameRows DEF vars, ProvenInv
  <2> QED BY <1>0, <1>13, <2>1, <2>2 DEF RecordInv, vars
<1> QED
  BY <1>1, <1>2, <1>3, <1>4, <1>5, <1>6, <1>7, <1>8, <1>9, <1>10, <1>11, <1>12, <1>13
     DEF Next, Calls, Program, Settle

LEMMA Inductive == Spec => [](RecordInv /\ CarefulInv)
BY InitRecord, InductiveStep, PTL DEF Spec

(* No interruption, doubt or late arrival drives the recorder out of its   *)
(* states.                                                                 *)
THEOREM TypeCorrect == Spec => []TypeOK
<1>1. RecordInv => TypeOK
  BY DEF RecordInv
<1> QED BY <1>1, Inductive, PTL

(* "No persistence status alone is proof": a marker, readable or in doubt, *)
(* is of readable evidence or of a readable decision.                      *)
THEOREM MarkersAreProven == Spec => []MarkersFollowProof
<1>1. RecordInv => MarkersFollowProof
  BY DEF RecordInv
<1> QED BY <1>1, Inductive, PTL

(* A fact whose persist was refused never enters the record, however often *)
(* it is recovered.                                                        *)
THEOREM RefusedFactsStayOut == Spec => []RefusedStaysOut
<1>1. ASSUME RecordInv PROVE RefusedStaysOut
  <2>1. \A f \in Facts : SubjectRows(f) # {} => Decided(f)
    BY DEF SubjectRows, Decided
  <2> QED
    BY <1>1, <2>1 DEF RecordInv, RefusedStaysOut, PersistedInv, ProvenInv,
       MarkersFollowProof
<1> QED BY <1>1, Inductive, PTL

(* What the result of a call claims is on record, and stays there while    *)
(* the call goes on, is interrupted, or its doubts surface.                *)
THEOREM ResultsAreOnRecord == Spec => []ResultIsOnRecord
<1>1. RecordInv => ResultIsOnRecord
  BY DEF RecordInv
<1> QED BY <1>1, Inductive, PTL

(* The record becomes contradictory only when something was appended about *)
(* a key, subject or event that had an append under way: a caller that     *)
(* settles what is in doubt first never meets a contradiction.             *)
THEOREM ContradictionsNeedHaste == Spec => []OnlyHasteContradicts
<1>1. ASSUME RecordInv, CarefulInv PROVE OnlyHasteContradicts
  <2> SUFFICES ASSUME NEW f \in Facts, ~hasty PROVE ~Contradictory(f)
    BY DEF OnlyHasteContradicts
  <2>1. EventOf(f) # NoEvent
    BY FactsAssumption DEF EventOf, EventIdentity, CaptureFact, TradePayload
  <2>2. ~Many(SubjectRows(f)) /\ ~Many(AcceptedRows(EventOf(f)))
    BY <1>1, <2>1 DEF CarefulInv, Many, SubjectRows, AcceptedRows
  <2>3. \A key \in Key : ~Many(KeyRows(key))
    BY <1>1 DEF CarefulInv, Many, KeyRows
  <2> QED BY <2>2, <2>3 DEF Contradictory
<1> QED BY <1>1, Inductive, PTL
=============================================================================
