------------------------------- MODULE DataTruth -------------------------------
(***************************************************************************)
(* DataTruth.decide over QuestDBTruthDecisionHistory, with one action per  *)
(* QuestDB call so that the server, a lost acknowledgement and a crash can *)
(* fall between any two of them.  There is one ordered writer, the         *)
(* approved constraint; it may be called again for any fact, in any order, *)
(* before or after a restart.                                              *)
(*                                                                         *)
(* SettleFirst selects the caller.  TRUE: decide is only called when no    *)
(* earlier append about the same subject or the same event is still        *)
(* undecided on the server.  FALSE: the caller the code allows, which may  *)
(* call decide again while an in-doubt frame is still under way.           *)
(***************************************************************************)
EXTENDS TruthPolicy, QuestDBTable, FiniteSets

CONSTANTS NoDecision,
          SettleFirst,
          MaxFrames     \* bound on published frames

ASSUME SettleAssumption == SettleFirst \in BOOLEAN
ASSUME FramesAssumption == MaxFrames \in Nat
ASSUME NoDecisionAssumption == NoDecision \notin TruthDecision

VARIABLES pc,          \* the call decide() is about to make
          fact,        \* its argument
          candidate,   \* the decision being appended
          frame,       \* the frame it was published in (its FSN)
          outcome,     \* how the last decide() ended
          returned     \* history: every decision ever returned for a fact

vars == <<tableVars, pc, fact, candidate, frame, outcome, returned>>

Outcomes == {"none", "running", "returned", "rejected", "in_doubt",
             "verification_error", "invariant_error", "unsupported", "crashed"}

PCs == {"idle", "find_subject", "find_event", "append", "await", "wait_wal",
        "verify", "reconcile"}

TypeOK ==
    /\ TableTypeOK(TruthDecision)
    /\ pc \in PCs
    /\ fact \in Facts \cup {NoFact}
    /\ candidate \in TruthDecision \cup {NoDecision}
    /\ frame \in Nat
    /\ outcome \in Outcomes
    /\ returned \in [Facts -> SUBSET TruthDecision]

Init ==
    /\ TableInit
    /\ pc = "idle"
    /\ fact = NoFact
    /\ candidate = NoDecision
    /\ frame = 0
    /\ outcome = "none"
    /\ returned = [f \in Facts |-> {}]

-----------------------------------------------------------------------------
SubjectRows(f) == {w \in rows : w.row.subject = f.capture_id}

AcceptedRows(e) == {w \in rows : w.row.category = "accepted" /\ w.row.event = e}

FactOf(capture) == CHOOSE f \in Facts : f.capture_id = capture

(* _one_decision_or_none: a lookup finds nothing, one row, or a            *)
(* contradiction.                                                          *)
AbsentEvenOnError(S) == TRUE      \* mutant: a failed lookup reads as absence
Absent(S) == S = {}

Sole(S) == {w \in S : S = {w}}

Many(S) == Cardinality(S) > 1

(* Frames whose fate the server has not settled and that concern f.        *)
Unsettled(f) ==
    {w \in inflight \cup wal :
        \/ w.row.subject = f.capture_id
        \/ NeedsAnchor(f) /\ w.row.event = EventOf(f)}

Goto(label) == pc' = label /\ UNCHANGED <<outcome, returned>>

Raise(error) == pc' = "idle" /\ outcome' = error /\ UNCHANGED returned

Return(d) ==
    /\ pc' = "idle"
    /\ outcome' = "returned"
    /\ returned' = [returned EXCEPT ![fact] = @ \cup {d}]

-----------------------------------------------------------------------------
(* decide() is entered.                                                    *)
Call(f) ==
    /\ pc = "idle"
    /\ SettleFirst => Unsettled(f) = {}
    /\ pc' = "find_subject"
    /\ fact' = f
    /\ candidate' = NoDecision
    /\ frame' = 0
    /\ outcome' = "running"
    /\ UNCHANGED <<tableVars, returned>>

(* The first lookup, and the routing of _candidate up to the next query.   *)
FindSubject ==
    /\ pc = "find_subject"
    /\ \/ Raise("verification_error") /\ UNCHANGED candidate
       \/ /\ Many(SubjectRows(fact))
          /\ Raise("invariant_error")
          /\ UNCHANGED candidate
       \/ \E w \in Sole(SubjectRows(fact)) :
          /\ Return(w.row)
          /\ UNCHANGED candidate
       \/ /\ Absent(SubjectRows(fact))
          /\ ~Supported(fact)
          /\ Raise("unsupported")
          /\ UNCHANGED candidate
       \/ /\ Absent(SubjectRows(fact))
          /\ Supported(fact)
          /\ ~NeedsAnchor(fact)
          /\ candidate' = Verdict(fact, NoFact)
          /\ Goto("append")
       \/ /\ Absent(SubjectRows(fact))
          /\ NeedsAnchor(fact)
          /\ Goto("find_event")
          /\ UNCHANGED candidate
    /\ UNCHANGED <<tableVars, fact, frame>>

(* find_accepted_event: the accepted rows of the event and the evidence of *)
(* the accepted subject, which the Hot Store may fail to produce.  An      *)
(* anchor that is the subject itself contradicts the first lookup.         *)
AnchorFactIsSubject(w) == fact    \* mutant: a Trade is compared with itself
AnchorFact(w) == FactOf(w.row.subject)

AnchorContradicts(w) ==
    LET anchor == FactOf(w.row.subject)
    IN  \/ anchor = fact
        \/ ~NeedsAnchor(anchor)
        \/ EventOf(anchor) # EventOf(fact)

FindEvent ==
    /\ pc = "find_event"
    /\ LET accepted == AcceptedRows(EventOf(fact)) IN
       \/ Raise("verification_error") /\ UNCHANGED candidate
       \/ /\ \/ Many(accepted)
             \/ \E w \in accepted : AnchorContradicts(w)
          /\ Raise("invariant_error")
          /\ UNCHANGED candidate
       \/ /\ Absent(accepted)
          /\ candidate' = Verdict(fact, NoFact)
          /\ Goto("append")
       \/ \E w \in Sole(accepted) :
          /\ ~AnchorContradicts(w)
          /\ candidate' = Verdict(fact, AnchorFact(w))
          /\ Goto("append")
    /\ UNCHANGED <<tableVars, fact, frame>>

(* append, up to the FSN: nothing was published; or an error flagged       *)
(* in_doubt or a missing FSN hides whether it was; or an FSN is known.     *)
(* Past MaxFrames nothing more gets published.                             *)
PublishOnce ==
    /\ pc = "append"
    /\ \/ Raise("rejected") /\ UNCHANGED <<tableVars, frame>>
       \/ Goto("reconcile") /\ UNCHANGED <<tableVars, frame>>
       \/ /\ frames < MaxFrames
          /\ Goto("reconcile")
          /\ Publish(candidate)
          /\ UNCHANGED frame
       \/ /\ frames < MaxFrames
          /\ Goto("await")
          /\ Publish(candidate)
          /\ frame' = frames + 1
    /\ UNCHANGED <<fact, candidate>>

OwnFrame == [n |-> frame, row |-> candidate]

(* await_acked_fsn and the diagnostics.  A timeout, an error, lost         *)
(* diagnostics and a retryable rejection all end in doubt, whatever the    *)
(* server has done with the frame.                                         *)
Await ==
    /\ pc = "await"
    /\ \/ Raise("rejected") /\ TerminallyReject(OwnFrame)
       \/ Goto("reconcile") /\ UNCHANGED tableVars
       \/ Acknowledged(OwnFrame) /\ Goto("wait_wal") /\ UNCHANGED tableVars
    /\ UNCHANGED <<fact, candidate, frame>>

(* wait_wal_table returns true once the acknowledged transaction is        *)
(* applied; any other answer leaves the append in doubt.  Nothing bounds   *)
(* the wait, and nothing here says that it ends.                           *)
WaitWal ==
    /\ pc = "wait_wal"
    /\ \/ OwnFrame \in rows /\ Goto("verify")
       \/ Goto("reconcile")
    /\ UNCHANGED <<tableVars, fact, candidate, frame>>

(* An append that is not readable: acknowledged, it is a failed            *)
(* verification; in doubt, it stays in doubt.                              *)
AbsentIsTrusted == Return(candidate)         \* mutant: trust the candidate
StillAbsent == Raise(IF pc = "verify" THEN "verification_error" ELSE "in_doubt")

(* The same-authority lookup after an append, acknowledged or in doubt.    *)
LookupAgain ==
    /\ pc \in {"verify", "reconcile"}
    /\ \/ Raise("verification_error")
       \/ Many(SubjectRows(fact)) /\ Raise("invariant_error")
       \/ Absent(SubjectRows(fact)) /\ StillAbsent
       \/ \E w \in Sole(SubjectRows(fact)) :
             IF w.row = candidate THEN Return(w.row)
             ELSE Raise("verification_error")
    /\ UNCHANGED <<tableVars, fact, candidate, frame>>

(* The process stops inside decide() and is started again.                 *)
Crash ==
    /\ pc # "idle"
    /\ Raise("crashed")
    /\ UNCHANGED <<tableVars, fact, candidate, frame>>

Environment ==
    /\ Server
    /\ UNCHANGED <<pc, fact, candidate, frame, outcome, returned>>

Program == FindSubject \/ FindEvent \/ PublishOnce \/ Await \/ WaitWal \/ LookupAgain

Next == (\E f \in Facts : Call(f)) \/ Program \/ Crash \/ Environment

Spec == Init /\ [][Next]_vars

-----------------------------------------------------------------------------
(* decide never gives two different answers for one capture, whatever      *)
(* frames are in doubt, retried, or committed late: an answer is only      *)
(* returned when it is the single readable row of its subject              *)
(* (_one_decision_or_none and the exact-match check of _append_and_verify).*)
StableAuthority ==
    \A f \in Facts : \A d, e \in returned[f] : d = e

(* A returned decision is on record: a row of its subject that every later *)
(* query reads says exactly that.                                          *)
ReturnedIsRecorded ==
    \A f \in Facts : \A d \in returned[f] :
        \E w \in SubjectRows(f) : w.row = d

(* Every DUPLICATE or CONFLICT ever published names, as its first          *)
(* contributor, the subject of a readable ACCEPTED row of the same event,  *)
(* and compares the two Trades rightly.                                    *)
Anchored(d) ==
    \E a \in rows :
        /\ a.row.category = "accepted"
        /\ a.row.event = d.event
        /\ d.contributing = <<a.row.subject, d.subject>>
        /\ d.category = "duplicate" <=>
             \E f, g \in Facts : /\ f.capture_id = d.subject
                                 /\ g.capture_id = a.row.subject
                                 /\ f.payload.terms = g.payload.terms

AnchoredVerdicts ==
    \A w \in Published :
        w.row.category \in {"duplicate", "conflict"} => Anchored(w.row)

(* All comparisons of one event are made against the same accepted Trade,  *)
(* even when a second ACCEPTED row of the event surfaces later: the lookup *)
(* of find_accepted_event fails closed from then on.                       *)
OneAnchorPerEvent ==
    \A v, w \in Published :
        /\ v.row.category \in {"duplicate", "conflict"}
        /\ w.row.category \in {"duplicate", "conflict"}
        /\ v.row.event = w.row.event
        => v.row.contributing[1] = w.row.contributing[1]

(* The append-only history holds one decision row per subject and one      *)
(* ACCEPTED row per event ("one authoritative decision for an exact        *)
(* subject key").  The table has no DEDUP: a second row can never be       *)
(* removed and every later lookup raises the invariant error.              *)
OneRowPerSubject ==
    \A v, w \in Published : v.row.subject = w.row.subject => v = w

OneAcceptedPerEvent ==
    \A v, w \in Published :
        /\ v.row.category = "accepted"
        /\ w.row.category = "accepted"
        /\ v.row.event = w.row.event
        /\ v.row.event # NoEvent
        => v = w

(* The history is never found inconsistent by its own writer.              *)
NoInvariantError == outcome # "invariant_error"

(* The readable history, as a map: what DataTruth makes of TruthAuthority. *)
RecordedTruth ==
    [f \in Facts |-> IF SubjectRows(f) = {} THEN NoDecision
                     ELSE (CHOOSE w \in SubjectRows(f) : TRUE).row]

Authority == INSTANCE TruthAuthority WITH truth <- RecordedTruth

(* A row becomes readable only as the policy's verdict, against the truth  *)
(* readable at that very moment: the lookups, the append and the server's  *)
(* delays of one decide() are together one atomic decision.                *)
ImplementsAuthority == Authority!Spec
=============================================================================
