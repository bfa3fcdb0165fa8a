---------------------------- MODULE DataTruthProofs ----------------------------
(***************************************************************************)
(* Proofs about DataTruth for every set of facts and every bound.          *)
(***************************************************************************)
EXTENDS DataTruth, FiniteSetTheorems, TLAPS

-----------------------------------------------------------------------------
(* The policy.                                                             *)

LEMMA FactType ==
    ASSUME NEW f \in Facts
    PROVE  /\ f.capture_id \in STRING
           /\ EventOf(f) \in EventIdentity
           /\ NotAcceptedReason(f) \in Reasons
<1>1. f \in CaptureFact
  BY FactsAssumption
<1>2. f.capture_id \in STRING
  BY <1>1 DEF CaptureFact
<1>3. EventOf(f) \in EventIdentity
  BY <1>1 DEF EventOf, EventIdentity, CaptureFact, TradePayload
<1>4. NotAcceptedReason(f) \in Reasons
  BY DEF NotAcceptedReason, Reasons
<1> QED
  BY <1>2, <1>3, <1>4

LEMMA DecisionType ==
    ASSUME NEW f \in Facts, NEW category \in Categories, NEW reason \in Reasons,
           NEW contributing \in Seq(STRING),
           NEW event \in EventIdentity \cup {NoEvent}
    PROVE  Decision(f, category, contributing, reason, event) \in TruthDecision
<1>1. f.capture_id \in STRING
  BY FactType
<1> QED
  BY <1>1 DEF Decision, TruthDecision

(* The verdict on a fact is a well-formed decision about that fact.        *)
LEMMA VerdictType ==
    ASSUME NEW f \in Facts, NEW anchor \in Facts \cup {NoFact}
    PROVE  Verdict(f, anchor) \in TruthDecision
<1>1. /\ f.capture_id \in STRING
      /\ EventOf(f) \in EventIdentity \cup {NoEvent}
      /\ NotAcceptedReason(f) \in Reasons
  BY FactType
<1>2. <<f.capture_id>> \in Seq(STRING)
  BY <1>1
<1>3. /\ {"accepted", "duplicate", "conflict", "not_accepted"} \subseteq Categories
      /\ "none" \in Reasons
      /\ NoEvent \in EventIdentity \cup {NoEvent}
  BY DEF Categories, Reasons
<1>4. NotAccepted(f) \in TruthDecision
  BY <1>1, <1>2, <1>3, DecisionType DEF NotAccepted
<1>5. AcceptedObservation(f) \in TruthDecision
  BY <1>2, <1>3, DecisionType DEF AcceptedObservation
<1>6. TradeVerdict(f, anchor) \in TruthDecision
  <2>1. CASE anchor = NoFact
    BY <1>1, <1>2, <1>3, <2>1, DecisionType DEF TradeVerdict
  <2>2. CASE anchor # NoFact
    <3>1. anchor.capture_id \in STRING
      BY <2>2, FactType
    <3>2. <<anchor.capture_id, f.capture_id>> \in Seq(STRING)
      BY <1>1, <3>1
    <3> DEFINE category == IF anchor.payload.terms = f.payload.terms
                           THEN "duplicate" ELSE "conflict"
    <3>3. category \in Categories
      BY <1>3
    <3>4. TradeVerdict(f, anchor)
            = Decision(f, category, <<anchor.capture_id, f.capture_id>>,
                       "none", EventOf(f))
      BY <2>2 DEF TradeVerdict
    <3> HIDE DEF category
    <3> QED
      BY <1>1, <1>3, <3>2, <3>3, <3>4, DecisionType
  <2> QED
    BY <2>1, <2>2
<1> QED
  BY <1>4, <1>5, <1>6 DEF Verdict

LEMMA VerdictSubject ==
    ASSUME NEW f, NEW anchor
    PROVE  Verdict(f, anchor).subject = f.capture_id
BY DEF Verdict, TradeVerdict, NotAccepted, AcceptedObservation, Decision

LEMMA FactOfCapture ==
    ASSUME NEW f \in Facts
    PROVE  FactOf(f.capture_id) = f
BY FactsAssumption DEF FactOf

-----------------------------------------------------------------------------
(* Where the published decisions come from: each is the policy's verdict   *)
(* on a submitted fact.  Type correctness rests on it, because the anchor  *)
(* of a comparison is found by the subject of a row.                       *)
VerdictOn(f, d) == \E anchor \in Facts \cup {NoFact} : d = Verdict(f, anchor)

Deciding == {"append", "await", "wait_wal", "verify", "reconcile"}

Provenance ==
    /\ \A w \in Published : \E f \in Facts : VerdictOn(f, w.row)
    /\ pc # "idle" => fact \in Facts
    /\ pc \in Deciding => VerdictOn(fact, candidate)

TypeInv == TypeOK /\ Provenance

LEMMA VerdictOnType ==
    ASSUME NEW f \in Facts, NEW d, VerdictOn(f, d)
    PROVE  d \in TruthDecision /\ d.subject = f.capture_id
BY VerdictType, VerdictSubject DEF VerdictOn

(* The rows of a table step are old rows, or the newly published candidate.*)
LEMMA TypeInvInductive ==
    /\ Init => TypeInv
    /\ TypeInv /\ [Next]_vars => TypeInv'
<1>1. Init => TypeInv
  BY FactsAssumption DEF Init, TypeInv, TypeOK, Provenance, TableInit,
     TableTypeOK, PCs, Outcomes, Published, Deciding
<1>2. TypeInv /\ [Next]_vars => TypeInv'
  <2> SUFFICES ASSUME TypeInv, [Next]_vars PROVE TypeInv'
    OBVIOUS
  <2> USE DEF TypeInv, TypeOK, TableTypeOK, PCs, Outcomes, Provenance, Deciding
  <2>1. ASSUME NEW f \in Facts, Call(f) PROVE TypeInv'
    BY <2>1 DEF Call, tableVars, Published
  <2>2. CASE FindSubject
    <3>1. VerdictOn(fact, Verdict(fact, NoFact))
      BY DEF VerdictOn
    <3>2. fact \in Facts /\ Verdict(fact, NoFact) \in TruthDecision
      BY <2>2, VerdictType DEF FindSubject
    <3> QED
      BY <2>2, <3>1, <3>2 DEF FindSubject, Sole, Goto, Raise, Return, tableVars,
         SubjectRows, Frame, Published
  <2>3. CASE FindEvent
    <3>0. fact \in Facts
      BY <2>3 DEF FindEvent
    <3>1. ASSUME NEW w \in rows
          PROVE  FactOf(w.row.subject) \in Facts
      <4>1. PICK f \in Facts : VerdictOn(f, w.row)
        BY DEF Published
      <4> QED
        BY <4>1, VerdictOnType, FactOfCapture
    <3>2. ASSUME NEW anchor \in Facts \cup {NoFact},
                 candidate' = Verdict(fact, anchor), Goto("append"),
                 UNCHANGED <<tableVars, fact, frame>>
          PROVE  TypeInv'
      <4>1. VerdictOn(fact, Verdict(fact, anchor))
        BY DEF VerdictOn
      <4>2. Verdict(fact, anchor) \in TruthDecision
        BY <3>0, VerdictType
      <4> QED
        BY <3>0, <3>2, <4>1, <4>2 DEF Goto, tableVars, Published
    <3>3. ASSUME NEW error \in Outcomes, Raise(error),
                 UNCHANGED <<tableVars, candidate, fact, frame>>
          PROVE  TypeInv'
      BY <3>3 DEF Raise, tableVars, Published
    <3>4. {w \in rows : w \in AcceptedRows(EventOf(fact))} = AcceptedRows(EventOf(fact))
      BY DEF AcceptedRows
    <3> QED
      BY <2>3, <3>1, <3>2, <3>3, <3>4 DEF FindEvent, Sole, AnchorFact
  <2>4. CASE PublishOnce
    <3>1. fact \in Facts /\ VerdictOn(fact, candidate)
      BY <2>4 DEF PublishOnce
    <3>2. candidate \in TruthDecision
      BY <3>1, VerdictOnType
    <3>3. NextFrame(candidate) \in Frame(TruthDecision) /\ NextFrame(candidate).row = candidate
      BY <3>2 DEF NextFrame, Frame
    <3> QED
      BY <2>4, <3>1, <3>3 DEF PublishOnce, Goto, Raise, Publish, tableVars, Published
  <2>5. CASE Await
    BY <2>5 DEF Await, Goto, Raise, TerminallyReject, tableVars, Published
  <2>6. CASE WaitWal
    BY <2>6 DEF WaitWal, Goto, tableVars, Published
  <2>7. CASE LookupAgain
    BY <2>7 DEF LookupAgain, Sole, StillAbsent, Raise, Return, tableVars,
       SubjectRows, Frame, Published
  <2>8. CASE Crash
    BY <2>8 DEF Crash, Raise, tableVars, Published
  <2>9. CASE Environment
    BY <2>9 DEF Environment, Server, Commit, Apply, Lose, TerminallyReject, Published
  <2>10. CASE UNCHANGED vars
    BY <2>10 DEF vars, tableVars, Published
  <2> QED
    BY <2>1, <2>2, <2>3, <2>4, <2>5, <2>6, <2>7, <2>8, <2>9, <2>10 DEF Next, Program
<1> QED
  BY <1>1, <1>2

(* Every state of the recorder's decision path is well formed.             *)
THEOREM TypeCorrect == Spec => []TypeOK
<1>1. TypeInv => TypeOK
  BY DEF TypeInv
<1> QED
  BY <1>1, TypeInvInductive, PTL DEF Spec

-----------------------------------------------------------------------------
(* One answer per capture, for ever.  An answer is returned only when it   *)
(* is the single readable row of its subject, and readable rows stay: so   *)
(* an earlier answer, being on record, is that same row.                   *)
StableInv == TypeInv /\ ReturnedIsRecorded /\ StableAuthority

(* No step removes a readable row.                                         *)
LEMMA RowsOnlyGrow == [Next]_vars => rows \subseteq rows'
BY DEF Next, vars, tableVars, Program, Call, FindSubject, FindEvent, PublishOnce,
   Await, WaitWal, LookupAgain, Crash, Environment, Server, Publish,
   TerminallyReject, Commit, Apply, Lose

(* Returning the only readable row of the subject keeps the history of     *)
(* answers constant.                                                       *)
LEMMA ReturnIsStable ==
    ASSUME StableInv, fact \in Facts, rows' = rows,
           NEW w \in rows, SubjectRows(fact) = {w}, Return(w.row)
    PROVE  ReturnedIsRecorded' /\ StableAuthority'
<1> USE DEF StableInv, TypeInv, TypeOK
<1>1. \A f \in Facts : SubjectRows(f)' = SubjectRows(f)
  BY DEF SubjectRows
<1>2. returned'[fact] = returned[fact] \cup {w.row}
  BY DEF Return
<1>3. \A f \in Facts : f # fact => returned'[f] = returned[f]
  BY DEF Return
<1>4. \A d \in returned[fact] : d = w.row
  BY DEF ReturnedIsRecorded
<1>5. ReturnedIsRecorded'
  BY <1>1, <1>2, <1>3 DEF ReturnedIsRecorded
<1>6. StableAuthority'
  BY <1>2, <1>3, <1>4 DEF StableAuthority
<1> QED
  BY <1>5, <1>6

LEMMA StableInvInductive ==
    /\ Init => StableInv
    /\ StableInv /\ [Next]_vars => StableInv'
<1>1. Init => StableInv
  BY TypeInvInductive DEF Init, StableInv, ReturnedIsRecorded, StableAuthority
<1>2. StableInv /\ [Next]_vars => StableInv'
  <2> SUFFICES ASSUME StableInv, [Next]_vars PROVE ReturnedIsRecorded' /\ StableAuthority'
    BY TypeInvInductive DEF StableInv
  <2>1. rows \subseteq rows'
    BY RowsOnlyGrow
  <2>2. ASSUME UNCHANGED returned PROVE ReturnedIsRecorded' /\ StableAuthority'
    BY <2>1, <2>2 DEF StableInv, ReturnedIsRecorded, StableAuthority, SubjectRows
  <2>3. CASE FindSubject
    <3>1. fact \in Facts /\ rows' = rows
      BY <2>3 DEF FindSubject, StableInv, TypeInv, Provenance, tableVars
    <3>2. ASSUME NEW w \in SubjectRows(fact), SubjectRows(fact) = {w}, Return(w.row)
          PROVE  ReturnedIsRecorded' /\ StableAuthority'
      <4>1. w \in rows
        BY DEF SubjectRows
      <4> QED
        BY <3>1, <3>2, <4>1, ReturnIsStable
    <3> QED
      BY <2>2, <2>3, <3>2 DEF FindSubject, Sole, Raise, Goto
  <2>4. CASE LookupAgain
    <3>1. fact \in Facts /\ rows' = rows
      BY <2>4 DEF LookupAgain, StableInv, TypeInv, Provenance, tableVars
    <3>2. ASSUME NEW w \in SubjectRows(fact), SubjectRows(fact) = {w}, Return(w.row)
          PROVE  ReturnedIsRecorded' /\ StableAuthority'
      <4>1. w \in rows
        BY DEF SubjectRows
      <4> QED
        BY <3>1, <3>2, <4>1, ReturnIsStable
    <3> QED
      BY <2>2, <2>4, <3>2 DEF LookupAgain, Sole, StillAbsent, Raise
  <2>5. CASE ~(FindSubject \/ LookupAgain)
    <3>1. UNCHANGED returned
      BY <2>5 DEF Next, Program, vars, Call, FindEvent, PublishOnce, Await, WaitWal,
         Crash, Environment, Goto, Raise
    <3> QED
      BY <2>2, <3>1
  <2> QED
    BY <2>3, <2>4, <2>5
<1> QED
  BY <1>1, <1>2

(* decide never returns two different decisions for one capture, whatever  *)
(* its appends went through.                                               *)
THEOREM AuthorityIsStable == Spec => []StableAuthority
<1>1. StableInv => StableAuthority
  BY DEF StableInv
<1> QED
  BY <1>1, StableInvInductive, PTL DEF Spec

(* Every decision decide ever returned stays readable in the history.      *)
THEOREM AuthorityIsRecorded == Spec => []ReturnedIsRecorded
<1>1. StableInv => ReturnedIsRecorded
  BY DEF StableInv
<1> QED
  BY <1>1, StableInvInductive, PTL DEF Spec

-----------------------------------------------------------------------------
(* A caller that settles first.  Between the first lookup and the append   *)
(* nothing about the subject or its event is under way, so what the        *)
(* lookups saw is the whole truth: that is what the conjuncts after the    *)
(* two properties carry from the call to the publication.                  *)
LookingUp == {"find_subject", "find_event", "append"}

SettledInv ==
    /\ TypeInv
    /\ OneRowPerSubject
    /\ OneAcceptedPerEvent
    /\ NoInvariantError
    /\ pc \in LookingUp => Unsettled(fact) = {}
    /\ pc = "find_event" => NeedsAnchor(fact)
    /\ pc \in {"find_event", "append"} =>
          \A w \in Published : w.row.subject # fact.capture_id
    /\ /\ pc = "append"
       /\ candidate.category = "accepted"
       /\ candidate.event # NoEvent
       => \A w \in Published : w.row.category = "accepted" =>
                                w.row.event # candidate.event

LEMMA AtMostOne ==
    ASSUME NEW S, \A v, w \in S : v = w
    PROVE  ~(Cardinality(S) > 1)
<1>1. CASE S = {}
  BY <1>1, FS_EmptySet
<1>2. CASE S # {}
  <2>1. PICK v \in S : TRUE
    BY <1>2
  <2>2. S = {v}
    BY <2>1
  <2>3. Cardinality({v}) = 1
    BY FS_Singleton, Zenon
  <2> QED
    BY <2>2, <2>3
<1> QED
  BY <1>1, <1>2

(* Only a valid Trade is decided about an event, and it is its own.        *)
LEMMA VerdictEvent ==
    ASSUME NEW f, NEW d, VerdictOn(f, d)
    PROVE  /\ NeedsAnchor(f) => d.event = EventOf(f)
           /\ ~NeedsAnchor(f) => d.event = NoEvent
BY DEF VerdictOn, Verdict, TradeVerdict, NotAccepted, AcceptedObservation, Decision

(* The lookups of a settled caller find nothing contradictory.             *)
LEMMA SettledLookups ==
    ASSUME SettledInv
    PROVE  /\ ~(Cardinality(SubjectRows(fact)) > 1)
           /\ pc = "find_event" =>
                /\ ~(Cardinality(AcceptedRows(EventOf(fact))) > 1)
                /\ \A w \in AcceptedRows(EventOf(fact)) : ~AnchorContradicts(w)
<1> USE DEF SettledInv, Published
<1>1. ~(Cardinality(SubjectRows(fact)) > 1)
  <2>1. \A v, w \in SubjectRows(fact) : v = w
    BY DEF SubjectRows, OneRowPerSubject
  <2> QED
    BY <2>1, AtMostOne
<1>2. ASSUME pc = "find_event"
      PROVE  /\ ~(Cardinality(AcceptedRows(EventOf(fact))) > 1)
             /\ \A w \in AcceptedRows(EventOf(fact)) : ~AnchorContradicts(w)
  <2>1. fact \in Facts /\ NeedsAnchor(fact)
    BY <1>2 DEF TypeInv, Provenance
  <2>2. EventOf(fact) # NoEvent
    BY <2>1, FactType, FactsAssumption
  <2>3. \A v, w \in AcceptedRows(EventOf(fact)) : v = w
    BY <2>2 DEF AcceptedRows, OneAcceptedPerEvent
  <2>4. ASSUME NEW w \in AcceptedRows(EventOf(fact))
        PROVE  ~AnchorContradicts(w)
    <3>1. w \in Published /\ w.row.event = EventOf(fact)
      BY DEF AcceptedRows
    <3>2. PICK g \in Facts : VerdictOn(g, w.row)
      BY <3>1 DEF TypeInv, Provenance
    <3>3. NeedsAnchor(g) /\ EventOf(g) = EventOf(fact)
      BY <2>2, <3>1, <3>2, VerdictEvent
    <3>4. w.row.subject = g.capture_id /\ FactOf(w.row.subject) = g
      BY <3>2, VerdictOnType, FactOfCapture
    <3>5. g # fact
      BY <1>2, <3>1, <3>4
    <3> QED
      BY <2>1, <3>3, <3>4, <3>5 DEF AnchorContradicts
  <2> QED
    BY <2>3, <2>4, AtMostOne
<1> QED
  BY <1>1, <1>2

(* Publishing the candidate of a settled caller duplicates nothing.        *)
LEMMA SettledPublish ==
    ASSUME SettledInv, pc = "append", Publish(candidate)
    PROVE  OneRowPerSubject' /\ OneAcceptedPerEvent'
<1> DEFINE new == NextFrame(candidate)
<1>1. Published' = Published \cup {new} /\ new.row = candidate
  BY DEF Publish, NextFrame, Published
<1>2. candidate.subject = fact.capture_id
  BY VerdictOnType DEF SettledInv, TypeInv, Provenance, Deciding
<1>3. \A w \in Published : w.row.subject # new.row.subject
  BY <1>1, <1>2 DEF SettledInv
<1>4. OneRowPerSubject'
  BY <1>1, <1>3 DEF SettledInv, OneRowPerSubject
<1>5. candidate.category = "accepted" /\ candidate.event # NoEvent =>
        \A w \in Published : w.row.category = "accepted" =>
                             w.row.event # candidate.event
  BY DEF SettledInv
<1>6. OneAcceptedPerEvent'
  BY <1>1, <1>5 DEF SettledInv, OneAcceptedPerEvent
<1> QED
  BY <1>4, <1>6

LEMMA SettledInvInductive ==
    ASSUME SettleFirst
    PROVE  /\ Init => SettledInv
           /\ SettledInv /\ [Next]_vars => SettledInv'
<1>1. Init => SettledInv
  BY TypeInvInductive DEF Init, SettledInv, OneRowPerSubject, OneAcceptedPerEvent,
     NoInvariantError, LookingUp, TableInit, Published
<1>2. SettledInv /\ [Next]_vars => SettledInv'
  <2> SUFFICES ASSUME SettledInv, [Next]_vars PROVE SettledInv'
    OBVIOUS
  <2>0. TypeInv'
    BY TypeInvInductive DEF SettledInv
  <2> USE DEF LookingUp
  <2>1. ASSUME NEW f \in Facts, Call(f) PROVE SettledInv'
    BY <2>0, <2>1 DEF Call, SettledInv, OneRowPerSubject, OneAcceptedPerEvent,
       NoInvariantError, Published, Unsettled, tableVars
  <2>2. CASE FindSubject
    <3>1. fact \in Facts
      BY <2>2 DEF FindSubject, SettledInv, TypeInv, Provenance
    <3>2. UNCHANGED <<tableVars, fact, frame>>
      BY <2>2 DEF FindSubject
    <3>3. NoInvariantError' /\ pc' \in {"idle", "append", "find_event"}
      BY <2>2, SettledLookups DEF FindSubject, Many, Goto, Raise, Return,
         NoInvariantError, SettledInv
    <3>4. pc' # "idle" => SubjectRows(fact) = {} /\ Unsettled(fact) = {}
      BY <2>2 DEF FindSubject, Absent, Goto, Raise, Return, SettledInv
    <3>5. pc' # "idle" => \A w \in Published : w.row.subject # fact.capture_id
      BY <3>4 DEF Published, SubjectRows, Unsettled
    <3>6. pc' = "find_event" => NeedsAnchor(fact)
      BY <2>2 DEF FindSubject, Goto, Raise, Return
    <3>7. pc' = "append" => candidate'.event = NoEvent
      <4>1. pc' = "append" => ~NeedsAnchor(fact) /\ candidate' = Verdict(fact, NoFact)
        BY <2>2 DEF FindSubject, Goto, Raise, Return
      <4> QED
        BY <4>1, VerdictEvent DEF VerdictOn
    <3> QED
      BY <2>0, <3>2, <3>3, <3>4, <3>5, <3>6, <3>7 DEF SettledInv, OneRowPerSubject,
         OneAcceptedPerEvent, Published, Unsettled, tableVars
  <2>3. CASE FindEvent
    <3>1. fact \in Facts /\ NeedsAnchor(fact) /\ Unsettled(fact) = {}
      BY <2>3 DEF FindEvent, SettledInv, TypeInv, Provenance
    <3>2. UNCHANGED <<tableVars, fact, frame>>
      BY <2>3 DEF FindEvent
    <3>3. NoInvariantError' /\ pc' \in {"idle", "append"}
      BY <2>3, SettledLookups DEF FindEvent, Many, Goto, Raise, NoInvariantError,
         SettledInv
    <3>4. \A w \in Published : w.row.subject # fact.capture_id
      BY <2>3 DEF FindEvent, SettledInv
    <3>5. ASSUME pc' = "append", candidate'.category = "accepted"
          PROVE  \A w \in Published : w.row.category = "accepted" =>
                                      w.row.event # candidate'.event
      <4>1. PICK anchor \in Facts \cup {NoFact} :
              /\ candidate' = Verdict(fact, anchor)
              /\ anchor = NoFact => AcceptedRows(EventOf(fact)) = {}
        <5>1. ASSUME NEW w \in AcceptedRows(EventOf(fact))
              PROVE  FactOf(w.row.subject) \in Facts
          <6>1. PICK g \in Facts : VerdictOn(g, w.row)
            BY DEF AcceptedRows, SettledInv, TypeInv, Provenance, Published
          <6> QED
            BY <6>1, VerdictOnType, FactOfCapture
        <5> QED
          BY <2>3, <3>5, <5>1, FactsAssumption DEF FindEvent, Absent, AnchorFact, Sole,
             Goto, Raise
      <4>2. candidate' = TradeVerdict(fact, anchor)
        BY <3>1, <4>1 DEF Verdict
      <4>3. anchor = NoFact /\ candidate'.event = EventOf(fact)
        BY <3>5, <4>2 DEF TradeVerdict, Decision
      <4>4. \A w \in inflight \cup wal : w.row.event # EventOf(fact)
        BY <3>1 DEF Unsettled
      <4> QED
        BY <4>1, <4>3, <4>4 DEF Published, AcceptedRows
    <3> QED
      BY <2>0, <3>1, <3>2, <3>3, <3>4, <3>5 DEF SettledInv, OneRowPerSubject,
         OneAcceptedPerEvent, Published, Unsettled, tableVars
  <2>4. CASE PublishOnce
    <3>1. OneRowPerSubject' /\ OneAcceptedPerEvent'
      BY <2>4, SettledPublish DEF PublishOnce, SettledInv, OneRowPerSubject,
         OneAcceptedPerEvent, Published, tableVars
    <3>2. pc' \in {"idle", "reconcile", "await"} /\ outcome' \in {"rejected", outcome}
      BY <2>4 DEF PublishOnce, Goto, Raise
    <3> QED
      BY <2>0, <3>1, <3>2 DEF SettledInv, NoInvariantError
  <2>5. CASE Await
    <3>1. pc' \in {"idle", "reconcile", "wait_wal"} /\ outcome' \in {"rejected", outcome}
      BY <2>5 DEF Await, Goto, Raise
    <3>2. Published' \subseteq Published
      BY <2>5 DEF Await, TerminallyReject, tableVars, Published
    <3> QED
      BY <2>0, <3>1, <3>2 DEF SettledInv, NoInvariantError, OneRowPerSubject,
         OneAcceptedPerEvent
  <2>6. CASE WaitWal
    BY <2>0, <2>6 DEF WaitWal, Goto, tableVars, SettledInv, NoInvariantError,
       OneRowPerSubject, OneAcceptedPerEvent, Published
  <2>7. CASE LookupAgain
    <3>1. pc' = "idle" /\ NoInvariantError'
      BY <2>7, SettledLookups DEF LookupAgain, Many, StillAbsent, Raise, Return,
         NoInvariantError
    <3> QED
      BY <2>0, <2>7, <3>1 DEF LookupAgain, tableVars, SettledInv,
         OneRowPerSubject, OneAcceptedPerEvent, Published
  <2>8. CASE Crash
    BY <2>0, <2>8 DEF Crash, Raise, tableVars, SettledInv, NoInvariantError,
       OneRowPerSubject, OneAcceptedPerEvent, Published
  <2>9. CASE Environment
    <3>1. Published' \subseteq Published /\ inflight' \cup wal' \subseteq inflight \cup wal
      BY <2>9 DEF Environment, Server, Commit, Apply, Lose, TerminallyReject, Published
    <3>2. UNCHANGED <<pc, fact, candidate, outcome>>
      BY <2>9 DEF Environment
    <3>3. Unsettled(fact)' \subseteq Unsettled(fact)
      BY <3>1, <3>2 DEF Unsettled
    <3> QED
      BY <2>0, <3>1, <3>2, <3>3 DEF SettledInv, NoInvariantError, OneRowPerSubject,
         OneAcceptedPerEvent
  <2>10. CASE UNCHANGED vars
    BY <2>0, <2>10 DEF vars, tableVars, SettledInv, NoInvariantError, OneRowPerSubject,
       OneAcceptedPerEvent, Published, Unsettled
  <2> QED
    BY <2>1, <2>2, <2>3, <2>4, <2>5, <2>6, <2>7, <2>8, <2>9, <2>10 DEF Next, Program
<1> QED
  BY <1>1, <1>2

(* With a caller that settles first, a subject has one decision row.       *)
THEOREM SettledSubjects ==
    ASSUME SettleFirst PROVE Spec => []OneRowPerSubject
<1>1. SettledInv => OneRowPerSubject
  BY DEF SettledInv
<1> QED
  BY <1>1, SettledInvInductive, PTL DEF Spec

(* With a caller that settles first, an event has one accepted Trade.      *)
THEOREM SettledEvents ==
    ASSUME SettleFirst PROVE Spec => []OneAcceptedPerEvent
<1>1. SettledInv => OneAcceptedPerEvent
  BY DEF SettledInv
<1> QED
  BY <1>1, SettledInvInductive, PTL DEF Spec

(* With a caller that settles first, no lookup fails closed on the         *)
(* program's own history.                                                  *)
THEOREM SettledHistory ==
    ASSUME SettleFirst PROVE Spec => []NoInvariantError
<1>1. SettledInv => NoInvariantError
  BY DEF SettledInv
<1> QED
  BY <1>1, SettledInvInductive, PTL DEF Spec

-----------------------------------------------------------------------------
(* Comparisons.  "Made" collects every decision that was adjudicated: the  *)
(* published ones and the candidate about to be.  A comparison is made     *)
(* while its anchor is the only readable ACCEPTED row of the event, and    *)
(* that row stays readable: a later comparison that finds a single         *)
(* ACCEPTED row finds the same one.                                        *)
Made == {w.row : w \in Published} \cup (IF pc \in Deciding THEN {candidate} ELSE {})

Comparison(d) == d.category \in {"duplicate", "conflict"}

MadeAnchored == \A d \in Made : Comparison(d) => Anchored(d)

MadeAlike ==
    \A c, d \in Made :
        Comparison(c) /\ Comparison(d) /\ c.event = d.event
        => c.contributing[1] = d.contributing[1]

AnchorInv == TypeInv /\ MadeAnchored /\ MadeAlike

(* A comparison made by FindEvent is anchored in the one accepted row.     *)
LEMMA ComparisonIsAnchored ==
    ASSUME TypeInv, fact \in Facts, NeedsAnchor(fact),
           NEW w \in AcceptedRows(EventOf(fact)),
           NEW d, d = Verdict(fact, FactOf(w.row.subject))
    PROVE  /\ Anchored(d)
           /\ d.event = EventOf(fact)
           /\ d.contributing[1] = w.row.subject
<1>1. w \in rows /\ w.row.category = "accepted" /\ w.row.event = EventOf(fact)
  BY DEF AcceptedRows
<1>2. PICK g \in Facts : VerdictOn(g, w.row)
  BY <1>1 DEF TypeInv, Provenance, Published
<1>3. w.row.subject = g.capture_id /\ FactOf(w.row.subject) = g /\ g # NoFact
  BY <1>2, VerdictOnType, FactOfCapture, FactsAssumption
<1>4. d = Decision(fact, IF g.payload.terms = fact.payload.terms
                         THEN "duplicate" ELSE "conflict",
                   <<g.capture_id, fact.capture_id>>, "none", EventOf(fact))
  BY <1>3 DEF Verdict, TradeVerdict
<1>5. /\ d.subject = fact.capture_id
      /\ d.event = EventOf(fact)
      /\ d.contributing = <<g.capture_id, fact.capture_id>>
      /\ d.category = "duplicate" <=> g.payload.terms = fact.payload.terms
  BY <1>4 DEF Decision
<1>6. d.category = "duplicate" <=>
        \E f, h \in Facts : /\ f.capture_id = d.subject
                            /\ h.capture_id = w.row.subject
                            /\ f.payload.terms = h.payload.terms
  BY <1>3, <1>5, FactsAssumption
<1> QED
  BY <1>1, <1>3, <1>5, <1>6 DEF Anchored

LEMMA AnchorInvInductive ==
    /\ Init => AnchorInv
    /\ AnchorInv /\ [Next]_vars => AnchorInv'
<1>1. Init => AnchorInv
  BY TypeInvInductive DEF Init, AnchorInv, MadeAnchored, MadeAlike, Made, TableInit,
     Published, Deciding
<1>2. AnchorInv /\ [Next]_vars => AnchorInv'
  <2> SUFFICES ASSUME AnchorInv, [Next]_vars PROVE MadeAnchored' /\ MadeAlike'
    BY TypeInvInductive DEF AnchorInv
  <2> USE DEF AnchorInv
  <2>1. \A d : Anchored(d) => Anchored(d)'
    BY RowsOnlyGrow DEF Anchored
  <2>2. ASSUME Made' \subseteq Made PROVE MadeAnchored' /\ MadeAlike'
    BY <2>1, <2>2 DEF MadeAnchored, MadeAlike, Comparison
  <2>3. ASSUME NEW d, Made' \subseteq Made \cup {d}, ~Comparison(d)
        PROVE  MadeAnchored' /\ MadeAlike'
    BY <2>1, <2>3 DEF MadeAnchored, MadeAlike, Comparison
  <2>4. CASE FindSubject
    <3>1. Published' = Published
      BY <2>4 DEF FindSubject, tableVars, Published
    <3>2. CASE pc' = "append"
      <4>1. ~NeedsAnchor(fact) /\ candidate' = Verdict(fact, NoFact)
        BY <2>4, <3>2 DEF FindSubject, Goto, Raise, Return
      <4>2. ~Comparison(candidate')
        BY <4>1 DEF Verdict, NotAccepted, AcceptedObservation, Decision, Comparison
      <4>3. Made' \subseteq Made \cup {candidate'}
        BY <3>1 DEF Made
      <4> QED
        BY <2>3, <4>2, <4>3
    <3>3. CASE pc' # "append"
      <4>1. Made' \subseteq Made
        BY <2>4, <3>1, <3>3 DEF FindSubject, Goto, Raise, Return, Made, Deciding
      <4> QED
        BY <2>2, <4>1
    <3> QED
      BY <3>2, <3>3
  <2>5. CASE FindEvent
    <3>1. Published' = Published /\ rows' = rows
      BY <2>5 DEF FindEvent, tableVars, Published
    <3>2. Made' \subseteq Made \cup {candidate'}
      BY <3>1 DEF Made
    <3>3. CASE pc' # "append"
      <4>1. Made' \subseteq Made
        BY <2>5, <3>1, <3>3 DEF FindEvent, Goto, Raise, Made, Deciding
      <4> QED
        BY <2>2, <4>1
    <3>4. CASE candidate' = Verdict(fact, NoFact)
      <4>1. ~Comparison(candidate')
        BY <3>4 DEF Verdict, TradeVerdict, NotAccepted, AcceptedObservation, Decision,
           Comparison
      <4> QED
        BY <2>3, <3>2, <4>1
    <3>5. ASSUME NEW w \in AcceptedRows(EventOf(fact)), AcceptedRows(EventOf(fact)) = {w},
                 candidate' = Verdict(fact, FactOf(w.row.subject)), NeedsAnchor(fact)
          PROVE  MadeAnchored' /\ MadeAlike'
      <4>1. fact \in Facts
        BY <2>5 DEF FindEvent, TypeInv, Provenance
      <4>2. /\ Anchored(candidate')
            /\ candidate'.event = EventOf(fact)
            /\ candidate'.contributing[1] = w.row.subject
        BY <3>5, <4>1, ComparisonIsAnchored
      <4>3. MadeAnchored'
        BY <2>1, <3>2, <4>2 DEF MadeAnchored, Comparison
      <4>4. ASSUME NEW d \in Made, Comparison(d), d.event = EventOf(fact)
            PROVE  d.contributing[1] = w.row.subject
        <5>1. PICK a \in rows : /\ a.row.category = "accepted"
                                /\ a.row.event = d.event
                                /\ d.contributing = <<a.row.subject, d.subject>>
          BY <4>4 DEF MadeAnchored, Anchored
        <5>2. a = w
          BY <3>5, <4>4, <5>1 DEF AcceptedRows
        <5> QED
          BY <5>1, <5>2
      <4>5. MadeAlike'
        BY <3>2, <4>2, <4>4 DEF MadeAlike, Comparison
      <4> QED
        BY <4>3, <4>5
    <3>6. ~NeedsAnchor(fact) =>
            \A a : Verdict(fact, a) = Verdict(fact, NoFact)
      BY DEF Verdict
    <3> QED
      BY <2>5, <3>3, <3>4, <3>5, <3>6 DEF FindEvent, Sole, AnchorFact, Goto, Raise
  <2>6. CASE PublishOnce
    <3>1. Made' \subseteq Made
      BY <2>6 DEF PublishOnce, Goto, Raise, Publish, NextFrame, tableVars, Published,
         Made, Deciding
    <3> QED
      BY <2>2, <3>1
  <2>7. CASE ~(FindSubject \/ FindEvent \/ PublishOnce)
    <3>1. Published' \subseteq Published
      BY <2>7 DEF Next, Program, vars, tableVars, Call, Await, WaitWal, LookupAgain,
         Crash, Environment, Server, Commit, Apply, Lose, TerminallyReject, Published
    <3>2. pc' \in Deciding => pc \in Deciding /\ candidate' = candidate
      BY <2>7 DEF Next, Program, vars, Call, Await, WaitWal, LookupAgain, Crash,
         Environment, Goto, Raise, Return, Deciding
    <3>3. Made' \subseteq Made
      BY <3>1, <3>2 DEF Made
    <3> QED
      BY <2>2, <3>3
  <2> QED
    BY <2>4, <2>5, <2>6, <2>7
<1> QED
  BY <1>1, <1>2

(* Every DUPLICATE and CONFLICT is a right comparison with a readable      *)
(* accepted Trade of its event, in doubt or not, settled or not.           *)
THEOREM ComparisonsAreAnchored == Spec => []AnchoredVerdicts
<1>1. AnchorInv => AnchoredVerdicts
  BY DEF AnchorInv, MadeAnchored, Comparison, Made, AnchoredVerdicts
<1> QED
  BY <1>1, AnchorInvInductive, PTL DEF Spec

(* All comparisons of an event name the same accepted Trade.               *)
THEOREM ComparisonsAgree == Spec => []OneAnchorPerEvent
<1>1. AnchorInv => OneAnchorPerEvent
  BY DEF AnchorInv, MadeAlike, Comparison, Made, OneAnchorPerEvent
<1> QED
  BY <1>1, AnchorInvInductive, PTL DEF Spec

-----------------------------------------------------------------------------
(* The refinement.  A frame that is not readable yet is the verdict on its *)
(* subject against the history as it can be read now: it was when it was   *)
(* published, and nothing of its event has become readable since, for no   *)
(* two frames of one event are under way together.                         *)
IsAnchor(f, a) ==
    IF NeedsAnchor(f) /\ AcceptedRows(EventOf(f)) # {}
    THEN \E w \in AcceptedRows(EventOf(f)) : a = FactOf(w.row.subject)
    ELSE a = NoFact

RightOn(f, d) == \E a \in Facts \cup {NoFact} : IsAnchor(f, a) /\ d = Verdict(f, a)

DistinctFrames ==
    /\ \A w \in Published : w.n \leq frames
    /\ inflight \cap wal = {} /\ inflight \cap rows = {} /\ wal \cap rows = {}

UnderWay ==
    /\ \A w \in inflight \cup wal :
          \E f \in Facts : f.capture_id = w.row.subject /\ Supported(f) /\ RightOn(f, w.row)
    /\ \A v, w \in inflight \cup wal :
          v.row.event = w.row.event /\ v.row.event # NoEvent => v = w
    /\ pc = "append" => Supported(fact) /\ RightOn(fact, candidate)

TruthInv == SettledInv /\ DistinctFrames /\ UnderWay

(* What is right of an event stays right until a row of it is readable.    *)
LEMMA RightStays ==
    ASSUME NEW f, NEW d, RightOn(f, d),
           NeedsAnchor(f) => AcceptedRows(EventOf(f))' = AcceptedRows(EventOf(f))
    PROVE  RightOn(f, d)'
<1>1. ASSUME NEW a, IsAnchor(f, a) PROVE IsAnchor(f, a)'
  BY <1>1 DEF IsAnchor, FactOf
<1> QED BY <1>1 DEF RightOn

LEMMA RightEvent ==
    ASSUME NEW f \in Facts, NEW d, RightOn(f, d)
    PROVE  /\ d \in TruthDecision /\ d.subject = f.capture_id
           /\ NeedsAnchor(f) => d.event = EventOf(f) /\ d.event # NoEvent
           /\ ~NeedsAnchor(f) => d.event = NoEvent
<1>1. VerdictOn(f, d)
  BY DEF RightOn, VerdictOn
<1> QED BY <1>1, VerdictOnType, VerdictEvent, FactType, FactsAssumption

LEMMA FramesStayDistinct ==
    ASSUME TypeOK, DistinctFrames, [Next]_vars
    PROVE  DistinctFrames'
<1> USE DEF DistinctFrames, Published, TypeOK, TableTypeOK, Frame
<1>1. CASE UNCHANGED tableVars
  BY <1>1 DEF tableVars
<1>2. CASE Publish(candidate)
  BY <1>2 DEF Publish, NextFrame
<1>3. ASSUME NEW w, TerminallyReject(w) PROVE DistinctFrames'
  BY <1>3 DEF TerminallyReject
<1>4. CASE Commit
  BY <1>4 DEF Commit
<1>5. CASE Apply
  BY <1>5 DEF Apply
<1> QED
  BY <1>1, <1>2, <1>3, <1>4, <1>5 DEF Next, vars, tableVars, Program, Call, FindSubject, FindEvent,
     PublishOnce, Await, WaitWal, LookupAgain, Crash, Environment, Server, Lose

(* The table steps: what was right of a frame or of the candidate stays so.*)
LEMMA UnderWayKeeps ==
    ASSUME UnderWay, inflight' \cup wal' \subseteq inflight \cup wal, rows' = rows,
           pc' = "append" => pc = "append" /\ UNCHANGED <<fact, candidate>>
    PROVE  UnderWay'
<1>1. \A f, d : RightOn(f, d) => RightOn(f, d)'
  BY RightStays DEF AcceptedRows
<1>2. \A w \in inflight' \cup wal' :
         \E f \in Facts : f.capture_id = w.row.subject /\ Supported(f) /\ RightOn(f, w.row)'
  BY <1>1 DEF UnderWay
<1>3. pc' = "append" => Supported(fact') /\ RightOn(fact, candidate)'
  BY <1>1 DEF UnderWay, RightOn, IsAnchor, AcceptedRows, FactOf
<1>4. \A v, w \in inflight' \cup wal' :
          v.row.event = w.row.event /\ v.row.event # NoEvent => v = w
  BY DEF UnderWay
<1>5. ASSUME NEW w \in inflight' \cup wal'
      PROVE  \E f \in Facts : f.capture_id = w.row.subject /\ Supported(f) /\ RightOn(f, w.row)'
  BY <1>2
<1> QED BY <1>2, <1>3, <1>4 DEF UnderWay

LEMMA ApplyKeeps ==
    ASSUME TruthInv, Apply, UNCHANGED <<pc, fact, candidate>>
    PROVE  UnderWay'
<1>1. PICK w \in wal : /\ wal' = wal \ {w} /\ rows' = rows \cup {w} /\ inflight' = inflight
  BY DEF Apply
<1>2. w \notin inflight' \cup wal'
  BY <1>1 DEF TruthInv, DistinctFrames
<1>3. \A e : w.row.event # e => AcceptedRows(e)' = AcceptedRows(e)
  BY <1>1 DEF AcceptedRows
<1>4. ASSUME NEW v \in inflight' \cup wal'
      PROVE  \E f \in Facts : f.capture_id = v.row.subject /\ Supported(f) /\ RightOn(f, v.row)'
  <2>1. PICK f \in Facts : f.capture_id = v.row.subject /\ Supported(f) /\ RightOn(f, v.row)
    BY <1>1 DEF TruthInv, UnderWay
  <2>2. NeedsAnchor(f) => w.row.event # EventOf(f)
    BY <1>1, <1>2, <2>1, RightEvent DEF TruthInv, UnderWay
  <2>3. RightOn(f, v.row)'
    BY <1>3, <2>1, <2>2, RightStays
  <2> QED BY <2>1, <2>3
<1>5. ASSUME pc = "append" PROVE Supported(fact) /\ RightOn(fact, candidate)'
  <2>1. Unsettled(fact) = {} /\ Supported(fact) /\ RightOn(fact, candidate)
    BY <1>5 DEF TruthInv, SettledInv, LookingUp, UnderWay
  <2>2. NeedsAnchor(fact) => w.row.event # EventOf(fact)
    BY <1>1, <2>1 DEF Unsettled
  <2>3. \A a : IsAnchor(fact, a) => IsAnchor(fact, a)'
    BY <1>3, <2>2 DEF IsAnchor, FactOf
  <2> QED BY <2>1, <2>3 DEF RightOn
<1>6. \A u, v \in inflight' \cup wal' :
          u.row.event = v.row.event /\ u.row.event # NoEvent => u = v
  BY <1>1 DEF TruthInv, UnderWay
<1> QED BY <1>4, <1>5, <1>6 DEF UnderWay

LEMMA PublishKeeps ==
    ASSUME TruthInv, pc = "append", pc' # "append", Publish(candidate)
    PROVE  UnderWay'
<1> DEFINE new == NextFrame(candidate)
<1>1. /\ inflight' \cup wal' = (inflight \cup wal) \cup {new} /\ rows' = rows
      /\ new.row = candidate
  BY DEF Publish, NextFrame
<1>2. /\ fact \in Facts /\ Unsettled(fact) = {} /\ Supported(fact) /\ RightOn(fact, candidate)
      /\ fact.capture_id = candidate.subject
  BY RightEvent DEF TruthInv, SettledInv, LookingUp, UnderWay, TypeInv, Provenance
<1>3. \A f, d : RightOn(f, d) => RightOn(f, d)'
  BY <1>1, RightStays DEF AcceptedRows
<1>4. \A w \in inflight \cup wal : candidate.event # NoEvent => w.row.event # candidate.event
  BY <1>2, RightEvent DEF Unsettled
<1> HIDE DEF new
<1>5. ASSUME NEW w \in inflight' \cup wal'
      PROVE  \E f \in Facts : f.capture_id = w.row.subject /\ Supported(f) /\ RightOn(f, w.row)'
  <2>1. PICK f \in Facts : f.capture_id = w.row.subject /\ Supported(f) /\ RightOn(f, w.row)
    BY <1>1, <1>2 DEF TruthInv, UnderWay
  <2> QED BY <1>3, <2>1
<1>6. \A v, w \in inflight' \cup wal' :
          v.row.event = w.row.event /\ v.row.event # NoEvent => v = w
  BY <1>1, <1>4 DEF TruthInv, UnderWay
<1> QED BY <1>5, <1>6 DEF UnderWay

LEMMA TruthInvInductive ==
    ASSUME SettleFirst
    PROVE  /\ Init => TruthInv
           /\ TruthInv /\ [Next]_vars => TruthInv'
<1>1. Init => TruthInv
  BY SettledInvInductive DEF Init, TableInit, TruthInv, DistinctFrames, UnderWay, Published
<1>2. TruthInv /\ [Next]_vars => TruthInv'
  <2> SUFFICES ASSUME TruthInv, [Next]_vars PROVE UnderWay'
    BY SettledInvInductive, FramesStayDistinct DEF TruthInv, SettledInv, TypeInv
  <2> USE DEF TruthInv
  <2>1. ASSUME UNCHANGED tableVars, UNCHANGED fact, fact \in Facts, Supported(fact),
               NEW a \in Facts \cup {NoFact}, IsAnchor(fact, a), candidate' = Verdict(fact, a)
        PROVE  UnderWay'
    <3>1. \A f, d : RightOn(f, d) => RightOn(f, d)'
      BY <2>1, RightStays DEF AcceptedRows, tableVars
    <3>2. RightOn(fact, candidate)'
      BY <2>1 DEF RightOn, IsAnchor, AcceptedRows, FactOf, tableVars
    <3>3. ASSUME NEW w \in inflight' \cup wal'
          PROVE  \E f \in Facts : f.capture_id = w.row.subject /\ Supported(f) /\ RightOn(f, w.row)'
      <4>1. PICK f \in Facts : f.capture_id = w.row.subject /\ Supported(f) /\ RightOn(f, w.row)
        BY <2>1 DEF UnderWay, tableVars
      <4> QED BY <3>1, <4>1
    <3> QED BY <2>1, <3>2, <3>3 DEF UnderWay, tableVars
  <2>2. CASE FindSubject
    <3>1. fact \in Facts /\ UNCHANGED tableVars /\ UNCHANGED fact
      BY <2>2 DEF FindSubject, SettledInv, TypeInv, Provenance
    <3>2. CASE pc' # "append"
      BY <2>2, <3>1, <3>2, UnderWayKeeps DEF tableVars
    <3>3. CASE pc' = "append"
      <4>1. Supported(fact) /\ ~NeedsAnchor(fact) /\ candidate' = Verdict(fact, NoFact)
        BY <2>2, <3>3 DEF FindSubject, Goto, Raise, Return
      <4>2. IsAnchor(fact, NoFact)
        BY <4>1 DEF IsAnchor
      <4> QED BY <2>1, <3>1, <4>1, <4>2
    <3> QED BY <3>2, <3>3
  <2>3. CASE FindEvent
    <3>1. /\ fact \in Facts /\ NeedsAnchor(fact) /\ Supported(fact)
          /\ UNCHANGED tableVars /\ UNCHANGED fact
      BY <2>3 DEF FindEvent, SettledInv, TypeInv, Provenance, NeedsAnchor, Supported
    <3>2. CASE pc' # "append"
      BY <2>3, <3>1, <3>2, UnderWayKeeps DEF tableVars
    <3>3. CASE pc' = "append"
      <4>1. \/ AcceptedRows(EventOf(fact)) = {} /\ candidate' = Verdict(fact, NoFact)
            \/ \E w \in AcceptedRows(EventOf(fact)) :
                  candidate' = Verdict(fact, FactOf(w.row.subject))
        BY <2>3, <3>3 DEF FindEvent, Goto, Raise, Absent, Sole, AnchorFact
      <4>2. CASE AcceptedRows(EventOf(fact)) = {} /\ candidate' = Verdict(fact, NoFact)
        <5>1. IsAnchor(fact, NoFact)
          BY <4>2 DEF IsAnchor
        <5> QED BY <2>1, <3>1, <4>2, <5>1
      <4>3. ASSUME NEW w \in AcceptedRows(EventOf(fact)),
                   candidate' = Verdict(fact, FactOf(w.row.subject))
            PROVE  UnderWay'
        <5>1. PICK g \in Facts : VerdictOn(g, w.row)
          BY DEF AcceptedRows, SettledInv, TypeInv, Provenance, Published
        <5>2. FactOf(w.row.subject) \in Facts
          BY <5>1, VerdictOnType, FactOfCapture
        <5>3. IsAnchor(fact, FactOf(w.row.subject))
          BY <3>1 DEF IsAnchor
        <5> QED BY <2>1, <3>1, <4>3, <5>2, <5>3
      <4> QED BY <4>1, <4>2, <4>3
    <3> QED BY <3>2, <3>3
  <2>4. CASE PublishOnce
    <3>1. pc = "append" /\ pc' # "append"
      BY <2>4 DEF PublishOnce, Goto, Raise
    <3>2. CASE UNCHANGED tableVars
      BY <3>1, <3>2, UnderWayKeeps DEF tableVars
    <3>3. CASE Publish(candidate)
      BY <3>1, <3>3, PublishKeeps
    <3> QED BY <2>4, <3>2, <3>3 DEF PublishOnce, tableVars
  <2>5. CASE Apply /\ UNCHANGED <<pc, fact, candidate>>
    BY <2>5, ApplyKeeps
  <2>6. CASE \/ \E f \in Facts : Call(f)
             \/ Await \/ WaitWal \/ LookupAgain \/ Crash \/ UNCHANGED vars
    <3>1. /\ pc' = "append" => pc = "append" /\ UNCHANGED <<fact, candidate>>
          /\ inflight' \cup wal' \subseteq inflight \cup wal /\ rows' = rows
      BY <2>6 DEF Call, Await, WaitWal, LookupAgain, Crash, Goto, Raise, Return, StillAbsent,
         TerminallyReject, tableVars, vars
    <3> QED BY <3>1, UnderWayKeeps
  <2>7. CASE Environment
    <3>1. UNCHANGED <<pc, fact, candidate>> /\ (Commit \/ Apply \/ Lose)
      BY <2>7 DEF Environment, Server
    <3>2. CASE Commit \/ Lose
      <4>1. inflight' \cup wal' \subseteq inflight \cup wal /\ rows' = rows
        BY <3>2 DEF Commit, Lose, TerminallyReject
      <4> QED BY <3>1, <4>1, UnderWayKeeps
    <3> QED BY <2>5, <3>1, <3>2
  <2> QED
    BY <2>2, <2>3, <2>4, <2>6, <2>7 DEF Next, Program
<1> QED BY <1>1, <1>2

LEMMA SamePolicy ==
    ASSUME NEW f, NEW anchor
    PROVE  /\ Authority!Verdict(f, anchor) = Verdict(f, anchor)
           /\ Authority!NeedsAnchor(f) = NeedsAnchor(f)
           /\ Authority!EventOf(f) = EventOf(f)
           /\ Authority!Supported(f) = Supported(f)
BY DEF Verdict, TradeVerdict, NotAccepted, AcceptedObservation, Decision, NeedsAnchor,
   ValidTrade, NotAcceptedReason, EventOf, TradeSchemaVersion, Supported, ObservationTypes,
   Authority!Verdict, Authority!TradeVerdict, Authority!NotAccepted,
   Authority!AcceptedObservation, Authority!Decision, Authority!NeedsAnchor,
   Authority!ValidTrade, Authority!NotAcceptedReason, Authority!EventOf,
   Authority!TradeSchemaVersion, Authority!Supported, Authority!ObservationTypes

(* The history read as a map, and the accepted Trade of an event in it.    *)
LEMMA RecordedRow ==
    ASSUME TypeInv, OneRowPerSubject, NEW w \in rows, NEW f \in Facts, w.row.subject = f.capture_id
    PROVE  SubjectRows(f) = {w} /\ RecordedTruth[f] = w.row /\ w.row # NoDecision
<1>1. SubjectRows(f) = {w}
  BY DEF SubjectRows, OneRowPerSubject, Published
<1>2. w.row \in TruthDecision
  BY DEF TypeInv, TypeOK, TableTypeOK, Frame
<1> QED BY <1>1, <1>2, NoDecisionAssumption DEF RecordedTruth

LEMMA AnchorIsRead ==
    ASSUME TruthInv, NEW f \in Facts, NEW a, IsAnchor(f, a)
    PROVE  Authority!Anchor(f) = a
<1> USE DEF TruthInv, SettledInv
<1> DEFINE S == Authority!Accepted(EventOf(f))
<1>1. ASSUME NEW g \in S
      PROVE  \E w \in AcceptedRows(EventOf(f)) : w.row.subject = g.capture_id
  <2>1. /\ g \in Facts /\ RecordedTruth[g] # NoDecision
        /\ RecordedTruth[g].category = "accepted" /\ RecordedTruth[g].event = EventOf(f)
    BY DEF Authority!Accepted
  <2>2. PICK w \in SubjectRows(g) : TRUE
    BY <2>1 DEF RecordedTruth
  <2>3. w \in rows /\ w.row.subject = g.capture_id
    BY <2>2 DEF SubjectRows
  <2>4. RecordedTruth[g] = w.row
    BY <2>1, <2>3, RecordedRow
  <2> QED BY <2>1, <2>3, <2>4 DEF AcceptedRows
<1>2. ASSUME NEW w \in AcceptedRows(EventOf(f))
      PROVE  FactOf(w.row.subject) \in S
  <2>1. w \in rows /\ w.row.category = "accepted" /\ w.row.event = EventOf(f)
    BY DEF AcceptedRows
  <2>2. PICK g \in Facts : VerdictOn(g, w.row)
    BY <2>1 DEF TypeInv, Provenance, Published
  <2>3. w.row.subject = g.capture_id /\ FactOf(w.row.subject) = g
    BY <2>2, VerdictOnType, FactOfCapture
  <2>4. RecordedTruth[g] = w.row /\ w.row # NoDecision
    BY <2>1, <2>3, RecordedRow
  <2> QED BY <2>1, <2>3, <2>4 DEF Authority!Accepted
<1>3. EventOf(f) # NoEvent
  BY FactType, FactsAssumption
<1>4. \A v, w \in AcceptedRows(EventOf(f)) : v = w
  BY <1>3 DEF AcceptedRows, OneAcceptedPerEvent, Published
<1>5. Authority!Anchor(f) = IF NeedsAnchor(f) /\ S # {} THEN CHOOSE g \in S : TRUE ELSE NoFact
  <2>1. Authority!Anchor(f) =
          IF Authority!NeedsAnchor(f) /\ Authority!Accepted(Authority!EventOf(f)) # {}
          THEN CHOOSE g \in Authority!Accepted(Authority!EventOf(f)) : TRUE ELSE NoFact
    BY DEF Authority!Anchor
  <2>2. Authority!NeedsAnchor(f) = NeedsAnchor(f) /\ Authority!EventOf(f) = EventOf(f)
    BY SamePolicy
  <2> QED BY <2>1, <2>2, Zenon
<1>6. \A g \in S : g \in Facts
  BY DEF Authority!Accepted
<1> HIDE DEF S
<1>7. CASE ~NeedsAnchor(f) \/ AcceptedRows(EventOf(f)) = {}
  BY <1>1, <1>5, <1>7 DEF IsAnchor
<1>8. CASE NeedsAnchor(f) /\ AcceptedRows(EventOf(f)) # {}
  <2>1. PICK w \in AcceptedRows(EventOf(f)) : a = FactOf(w.row.subject)
    BY <1>8 DEF IsAnchor
  <2>2. \A g \in S : g = a
    BY <1>1, <1>4, <1>6, <2>1, FactOfCapture
  <2>3. (CHOOSE g \in S : TRUE) = a
    BY <1>2, <2>1, <2>2
  <2> QED BY <1>2, <1>5, <1>8, <2>1, <2>3
<1> QED BY <1>7, <1>8

(* A row that becomes readable decides its subject, as the policy would    *)
(* at that moment.                                                         *)
LEMMA ApplyDecides ==
    ASSUME TruthInv, Apply
    PROVE  \E f \in Facts : Authority!Decide(f)
<1> USE DEF TruthInv, SettledInv
<1>1. PICK w \in wal : wal' = wal \ {w} /\ rows' = rows \cup {w}
  BY DEF Apply
<1>2. PICK f \in Facts : f.capture_id = w.row.subject /\ Supported(f) /\ RightOn(f, w.row)
  BY <1>1 DEF UnderWay
<1>3. w.row = Verdict(f, Authority!Anchor(f))
  BY <1>2, AnchorIsRead DEF RightOn
<1>4. SubjectRows(f) = {} /\ SubjectRows(f)' = {w}
  <2>1. \A v \in rows : v.row.subject # w.row.subject
    BY <1>1 DEF OneRowPerSubject, Published, DistinctFrames
  <2> QED BY <1>1, <1>2, <2>1 DEF SubjectRows
<1>5. \A g \in Facts \ {f} : SubjectRows(g)' = SubjectRows(g)
  BY <1>1, <1>2, FactsAssumption DEF SubjectRows
<1>6. RecordedTruth[f] = NoDecision
  BY <1>4 DEF RecordedTruth
<1>7. RecordedTruth' = [RecordedTruth EXCEPT ![f] = w.row]
  <2>1. RecordedTruth' = [g \in Facts |-> RecordedTruth'[g]]
    BY DEF RecordedTruth
  <2>2. RecordedTruth'[f] = w.row
    <3>1. (CHOOSE v \in {w} : TRUE) = w
      OBVIOUS
    <3> QED BY <1>4, <3>1 DEF RecordedTruth
  <2>3. ASSUME NEW g \in Facts \ {f} PROVE RecordedTruth'[g] = RecordedTruth[g]
    <3>1. SubjectRows(g)' = SubjectRows(g)
      BY <1>5
    <3>2. CASE SubjectRows(g) = {}
      BY <3>1, <3>2 DEF RecordedTruth
    <3>3. ASSUME NEW v \in SubjectRows(g) PROVE RecordedTruth'[g] = RecordedTruth[g]
      <4>1. SubjectRows(g) = {v}
        BY DEF SubjectRows, OneRowPerSubject, Published
      <4>2. (CHOOSE u \in {v} : TRUE) = v
        OBVIOUS
      <4> QED BY <3>1, <4>1, <4>2 DEF RecordedTruth
    <3> QED BY <3>2, <3>3
  <2>4. RecordedTruth = [g \in Facts |-> RecordedTruth[g]]
    BY DEF RecordedTruth
  <2> QED BY ONLY <2>1, <2>2, <2>3, <2>4
<1> QED BY <1>2, <1>3, <1>6, <1>7, SamePolicy DEF Authority!Decide

(* decide, its appends and the server's delays are together one atomic     *)
(* decision: a row becomes readable only as the policy's verdict against   *)
(* the truth readable at that very moment, and is never replaced.          *)
THEOREM AuthorityIsImplemented ==
    ASSUME SettleFirst PROVE Spec => ImplementsAuthority
<1>1. Init => Authority!Init
  BY DEF Init, TableInit, Authority!Init, RecordedTruth, SubjectRows
<1>2. TruthInv /\ [Next]_vars => [Authority!Next]_RecordedTruth
  <2> SUFFICES ASSUME TruthInv, [Next]_vars PROVE Authority!Next \/ UNCHANGED RecordedTruth
    OBVIOUS
  <2>1. CASE rows' = rows
    BY <2>1 DEF RecordedTruth, SubjectRows
  <2>2. CASE Apply
    BY <2>2, ApplyDecides DEF Authority!Next
  <2>3. rows' = rows \/ Apply
    BY DEF Next, vars, tableVars, Program, Call, FindSubject, FindEvent, PublishOnce, Await,
       WaitWal, LookupAgain, Crash, Environment, Server, Publish, TerminallyReject, Commit, Lose
  <2> QED BY <2>1, <2>2, <2>3
<1>3. Spec => []TruthInv
  BY TruthInvInductive, PTL DEF Spec
<1> QED BY <1>1, <1>2, <1>3, PTL DEF Spec, ImplementsAuthority, Authority!Spec
=============================================================================
