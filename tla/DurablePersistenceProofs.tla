----------------------- MODULE DurablePersistenceProofs -----------------------
(***************************************************************************)
(* Proofs about DurablePersistence for every set of facts and every bound  *)
(* on lost acknowledgements and diagnostics.                               *)
(***************************************************************************)
EXTENDS DurablePersistence, TLAPS

-----------------------------------------------------------------------------
(* A fact has one frame, in a call of its own.                             *)
SpoolInv ==
    /\ TypeOK
    /\ pc # "idle" => fact \in Facts /\ status[fact] = "running"
    /\ \A v, w \in spool : v.n = w.n \/ v.fact = w.fact => v = w
    /\ \A w \in spool : w.n <= frames
    /\ \A e \in errors : e.n <= frames

Unpublished(f) ==
    \/ status[f] \in {"new", "local_persistence_failed", "definitely_rejected"}
    \/ pc = "publish" /\ f = fact

Absent(f) == ~Owned(f) /\ ~Written(f)

(* A frame that has left the spool is written, or its rejection shows: in  *)
(* the ring, or as a diagnostic lost since the frame was published.        *)
Waiting == pc \in {"await", "poll"}

Rejection(e) == e.n = frame /\ e.terminal

FrameInv == Waiting =>
    /\ frame <= frames
    /\ droppedBefore <= dropped
    /\ \A w \in spool : w.n = frame <=> w.fact = fact
    /\ \/ Owned(fact) \/ Written(fact)
       \/ \E e \in errors : Rejection(e)
       \/ droppedBefore < dropped
    /\ (\E e \in errors : Rejection(e)) => Absent(fact)
    /\ pc = "poll" /\ acknowledged => Completed(frame)

StatusInv ==
    /\ SpoolInv
    /\ \A f \in Facts : Unpublished(f) => Absent(f)
    /\ FrameInv
    /\ AcknowledgedIsWritten

-----------------------------------------------------------------------------
(* What a delivery and an application do to what is written.               *)
LEMMA WriteWrites ==
    ASSUME NEW w, Write(w), rows' = rows
    PROVE  \A f : Written(f)' <=> Written(f) \/ f = w.fact
<1>1. wal' = wal \cup {[n |-> deliveries + 1, fact |-> w.fact]}
  BY DEF Write
<1>2. SUFFICES ASSUME NEW f PROVE Written(f)' <=> Written(f) \/ f = w.fact
  OBVIOUS
<1> DEFINE new == [n |-> deliveries + 1, fact |-> w.fact]
<1>3. new.fact = w.fact /\ wal' = wal \cup {new}
  BY <1>1
<1> HIDE DEF new
<1> QED BY <1>3 DEF Written

LEMMA ApplyKeeps ==
    ASSUME Apply
    PROVE  \A f : Written(f)' <=> Written(f)
<1>1. PICK w \in wal : wal' = wal \ {w} /\ rows' = Upsert(w)
  BY DEF Apply
<1> QED BY <1>1 DEF Written, Upsert

LEMMA RingTyped ==
    ASSUME NEW w \in Frame, NEW terminal \in BOOLEAN, TypeOK, Diagnose(w, terminal)
    PROVE  errors' \subseteq [n : Nat, terminal : BOOLEAN] /\ dropped' \in Nat
<1>1. [n |-> w.n, terminal |-> terminal] \in [n : Nat, terminal : BOOLEAN]
  BY DEF Frame
<1> QED BY <1>1 DEF Diagnose, TypeOK

LEMMA Typed == SpoolInv /\ [Next]_vars => TypeOK'
<1> SUFFICES ASSUME SpoolInv, [Next]_vars PROVE TypeOK'
  OBVIOUS
<1> USE PersistenceAssumption DEF SpoolInv, TypeOK, Frame, Statuses
<1>1. ASSUME NEW f \in Facts, Call(f) PROVE TypeOK'
  BY <1>1 DEF Call, spoolVars, serverVars, ringVars
<1>2. CASE PublishOnce
  <2>1. /\ connected' \in BOOLEAN /\ UNCHANGED <<serverVars, ringVars, fact, acknowledged>>
        /\ pc' \in {"idle", "await"}
    BY <1>2 DEF PublishOnce, Answer
  <2>2. frame' \in Nat /\ droppedBefore' \in Nat
    BY <1>2 DEF PublishOnce
  <2>3. spool' \subseteq Frame /\ frames' \in Nat
    <3>1. Spool => spool' \subseteq Frame /\ frames' \in Nat
      BY <1>2 DEF Spool, PublishOnce
    <3> QED BY <1>2, <3>1 DEF PublishOnce, spoolVars
  <2>4. status' \in [Facts -> Statuses \cup {"new", "running", "crashed"}]
    BY <1>2 DEF PublishOnce, Answer, PrePublicationFailure
  <2> QED BY <2>1, <2>2, <2>3, <2>4 DEF serverVars, ringVars
<1>3. CASE Await
  BY <1>3 DEF Await, Answer, Completed, spoolVars, serverVars, ringVars
<1>4. CASE Poll
  BY <1>4 DEF Poll, Answer, Interpret, spoolVars, serverVars, callVars
<1>5. CASE Stop
  BY <1>5 DEF Stop, spoolVars, serverVars, callVars
<1>6. CASE Accept
  BY <1>6 DEF Accept, Write, Complete, ringVars, callVars
<1>7. CASE LoseAck
  BY <1>7 DEF LoseAck, Write, spoolVars, ringVars, callVars
<1>8. CASE Reject
  BY <1>8, RingTyped DEF Reject, Complete, callVars
<1>9. CASE RejectForNow
  BY <1>9, RingTyped DEF RejectForNow, spoolVars, serverVars, callVars
<1>10. CASE Apply
  BY <1>10 DEF Apply, Upsert, spoolVars, ringVars, callVars
<1>11. CASE UNCHANGED vars
  BY <1>11 DEF vars, spoolVars, serverVars, ringVars, callVars
<1> QED
  BY <1>1, <1>2, <1>3, <1>4, <1>5, <1>6, <1>7, <1>8, <1>9, <1>10, <1>11
     DEF Next, Program, Server

LEMMA SpoolInvKept == StatusInv /\ [Next]_vars => SpoolInv'
<1> SUFFICES ASSUME StatusInv, [Next]_vars PROVE SpoolInv'
  OBVIOUS
<1>0. SpoolInv /\ TypeOK'
  BY Typed DEF StatusInv
<1>1. /\ frames \in Nat /\ \A w \in spool : w.n \in Nat /\ w.n <= frames /\ w.fact \in Facts
      /\ \A e \in errors : e.n \in Nat /\ e.n <= frames
      /\ status \in [Facts -> Statuses \cup {"new", "running", "crashed"}]
  BY <1>0 DEF SpoolInv, TypeOK, Frame
<1> USE <1>0, <1>1 DEF SpoolInv
<1>2. ASSUME NEW f \in Facts, Call(f) PROVE SpoolInv'
  BY <1>2 DEF Call, spoolVars, ringVars
<1>3. CASE PublishOnce
  <2>1. /\ errors' = errors /\ fact' = fact /\ pc = "publish" /\ ~Owned(fact)
        /\ pc' # "idle" => status' = status
    BY <1>3 DEF PublishOnce, ringVars, Answer, StatusInv, Unpublished, Absent
  <2>2. CASE UNCHANGED spoolVars
    BY <2>1, <2>2 DEF spoolVars
  <2>3. CASE Spool
    <3> DEFINE new == [n |-> frames + 1, fact |-> fact]
    <3>1. new.n = frames + 1 /\ new.fact = fact /\ spool' = spool \cup {new} /\ frames' = frames + 1
      BY <2>3 DEF Spool
    <3> HIDE DEF new
    <3> QED BY <2>1, <3>1 DEF Owned
  <2> QED BY <1>3, <2>2, <2>3 DEF PublishOnce
<1>4. CASE Await \/ Poll \/ Stop
  BY <1>4 DEF Await, Poll, Stop, Answer, spoolVars, ringVars, callVars
<1>5. CASE Accept
  BY <1>5 DEF Accept, Complete, ringVars, callVars
<1>6. CASE LoseAck
  BY <1>6 DEF LoseAck, spoolVars, ringVars, callVars
<1>7. CASE Reject
  BY <1>7 DEF Reject, Diagnose, Complete, callVars
<1>8. CASE RejectForNow
  BY <1>8 DEF RejectForNow, Diagnose, spoolVars, callVars
<1>9. CASE Apply \/ UNCHANGED vars
  BY <1>9 DEF Apply, vars, spoolVars, ringVars, callVars
<1> QED
  BY <1>2, <1>3, <1>4, <1>5, <1>6, <1>7, <1>8, <1>9 DEF Next, Program, Server

-----------------------------------------------------------------------------
(* A step of the server moves a frame along, drops it with a diagnostic,   *)
(* or leaves it where it is; no fact without a frame is written.           *)
LEMMA ServerSteps ==
    ASSUME StatusInv, Server
    PROVE  /\ \A f : Absent(f) => Absent(f)'
           /\ \A f : Written(f) => Written(f)'
           /\ errors \subseteq errors' /\ dropped <= dropped'
           /\ spool' \subseteq spool
           /\ \A w \in spool : w \in spool' \/ Written(w.fact)' \/
                 (\E e \in errors' : e.n = w.n /\ e.terminal) \/ dropped < dropped'
           /\ \A e \in errors' \ errors :
                 e.terminal => \E w \in spool : e.n = w.n /\ Absent(w.fact)'
<1>0. dropped \in Nat /\ \A v, w \in spool : v.fact = w.fact => v = w
  BY DEF StatusInv, SpoolInv, TypeOK
<1>1. CASE Accept \/ LoseAck
  <2>1. PICK w \in spool : /\ Write(w) /\ rows' = rows
                           /\ Complete(w) \/ UNCHANGED spoolVars
                           /\ UNCHANGED ringVars
    BY <1>1 DEF Accept, LoseAck
  <2>2. \A f : Written(f)' <=> Written(f) \/ f = w.fact
    BY <2>1, WriteWrites
  <2>3. spool' = spool \/ spool' = spool \ {w}
    BY <2>1 DEF Complete, spoolVars
  <2> QED BY <1>0, <2>1, <2>2, <2>3 DEF Absent, Owned, ringVars
<1>2. CASE Reject
  <2>1. PICK w \in spool : /\ ~Written(w.fact) /\ Diagnose(w, TRUE) /\ spool' = spool \ {w}
                           /\ wal' = wal /\ rows' = rows
    BY <1>2 DEF Reject, Complete
  <2>2. \A f : Written(f)' <=> Written(f)
    BY <2>1 DEF Written
  <2>3. Absent(w.fact)'
    BY <1>0, <2>1, <2>2 DEF Absent, Owned
  <2> DEFINE new == [n |-> w.n, terminal |-> TRUE]
  <2>4. /\ new.n = w.n /\ new.terminal
        /\ \/ errors' = errors \cup {new} /\ dropped' = dropped
           \/ errors' = errors /\ dropped' = dropped + 1
    BY <2>1 DEF Diagnose
  <2> HIDE DEF new
  <2>5. \A f : (Absent(f) => Absent(f)') /\ (Written(f) => Written(f)')
    BY <2>1, <2>2 DEF Absent, Owned
  <2> QED BY <1>0, <2>1, <2>2, <2>3, <2>4, <2>5
<1>3. CASE RejectForNow
  <2>1. PICK w \in spool : Diagnose(w, FALSE) /\ UNCHANGED <<spoolVars, serverVars>>
    BY <1>3 DEF RejectForNow
  <2>2. \A f : (Written(f)' <=> Written(f)) /\ (Owned(f)' <=> Owned(f))
    BY <2>1 DEF Written, Owned, spoolVars, serverVars
  <2>3. \/ /\ errors' = errors \cup {[n |-> w.n, terminal |-> FALSE]} /\ dropped' = dropped
        \/ errors' = errors /\ dropped' = dropped + 1
    BY <2>1 DEF Diagnose
  <2> QED BY <1>0, <2>1, <2>2, <2>3 DEF Absent, spoolVars
<1>4. CASE Apply
  <2>1. UNCHANGED <<spoolVars, ringVars>>
    BY <1>4 DEF Apply
  <2> QED BY <1>0, <1>4, <2>1, ApplyKeeps DEF Absent, Owned, spoolVars, ringVars
<1> QED BY <1>1, <1>2, <1>3, <1>4 DEF Server

LEMMA ServerKeepsStatusInv ==
    ASSUME StatusInv, Server PROVE StatusInv'
<1>0. SpoolInv' /\ UNCHANGED <<pc, callVars, status>>
  BY SpoolInvKept DEF Next, Server, Accept, LoseAck, Reject, RejectForNow, Apply
<1>1. \A f \in Facts : Unpublished(f)' => Absent(f)'
  BY <1>0, ServerSteps DEF StatusInv, Unpublished, callVars
<1>2. AcknowledgedIsWritten'
  BY <1>0, ServerSteps DEF StatusInv, AcknowledgedIsWritten
<1>3. FrameInv'
  <2> SUFFICES ASSUME Waiting' PROVE FrameInv'
    BY DEF FrameInv
  <2>1. Waiting /\ UNCHANGED <<pc, fact, frame, droppedBefore, acknowledged>>
    BY <1>0 DEF Waiting, callVars
  <2>2. /\ frame \in Nat /\ droppedBefore \in Nat /\ dropped \in Nat /\ dropped' \in Nat /\ frames' = frames
        /\ fact \in Facts
    BY <1>0, <2>1 DEF StatusInv, SpoolInv, TypeOK, Waiting, Server, Accept, LoseAck, Reject, RejectForNow, Apply,
       Complete, spoolVars
  <2>3. \A w \in spool : w.n = frame <=> w.fact = fact
    BY <2>1 DEF StatusInv, FrameInv
  <2>4. frame <= frames' /\ droppedBefore <= dropped'
    BY <2>1, <2>2, ServerSteps DEF StatusInv, FrameInv
  <2>5. \/ Owned(fact)' \/ Written(fact)'
        \/ \E e \in errors' : Rejection(e)
        \/ droppedBefore < dropped'
    BY <2>1, <2>2, <2>3, ServerSteps DEF StatusInv, FrameInv, Rejection, Owned
  <2>6. (\E e \in errors' : Rejection(e)) => Absent(fact)'
    BY <2>1, <2>3, ServerSteps DEF StatusInv, FrameInv, Rejection
  <2>7. pc = "poll" /\ acknowledged => Completed(frame)'
    BY <2>1, ServerSteps DEF StatusInv, FrameInv, Completed
  <2> QED BY <2>1, <2>3, <2>4, <2>5, <2>6, <2>7, ServerSteps DEF FrameInv, Rejection, Owned, Written, Absent, Completed
<1> QED BY <1>0, <1>1, <1>2, <1>3 DEF StatusInv

-----------------------------------------------------------------------------
LEMMA StatusInvInductive == StatusInv /\ [Next]_vars => StatusInv'
<1> SUFFICES ASSUME StatusInv, [Next]_vars PROVE StatusInv'
  OBVIOUS
<1>0. SpoolInv' /\ SpoolInv
  BY SpoolInvKept DEF StatusInv
<1>1. /\ status \in [Facts -> Statuses \cup {"new", "running", "crashed"}]
      /\ frames \in Nat /\ dropped \in Nat /\ droppedBefore \in Nat /\ frame \in Nat
      /\ \A w \in spool : w.n <= frames /\ w.n \in Nat
      /\ \A e \in errors : e.n <= frames /\ e.n \in Nat
      /\ pc # "idle" => fact \in Facts /\ status[fact] = "running"
  BY <1>0 DEF SpoolInv, TypeOK, Frame
<1>2. ASSUME NEW f \in Facts, Call(f) PROVE StatusInv'
  <2>1. /\ \A g : (Written(g)' <=> Written(g)) /\ (Owned(g)' <=> Owned(g))
        /\ status' = [status EXCEPT ![f] = "running"] /\ status[f] = "new"
        /\ pc' = "publish" /\ fact' = f
    BY <1>2 DEF Call, spoolVars, serverVars, Written, Owned
  <2>2. \A g \in Facts : Unpublished(g)' => Unpublished(g)
    BY <1>1, <2>1 DEF Unpublished
  <2> QED BY <1>0, <1>1, <2>1, <2>2
      DEF StatusInv, FrameInv, Waiting, Absent, AcknowledgedIsWritten
<1>3. CASE PublishOnce
  <2>1. /\ pc = "publish" /\ fact' = fact
        /\ UNCHANGED <<serverVars, ringVars, acknowledged>>
        /\ \A f : Written(f)' <=> Written(f)
        /\ Absent(fact)
    BY <1>1, <1>3 DEF PublishOnce, serverVars, Written, StatusInv, Unpublished
  <2>2. CASE pc' = "idle"
    <3>1. \/ status' = [status EXCEPT ![fact] = "in_doubt"]
          \/ /\ status' = [status EXCEPT ![fact] = "local_persistence_failed"]
             /\ spool' = spool
      BY <1>3, <2>2 DEF PublishOnce, Answer, PrePublicationFailure, spoolVars
    <3>2. spool' = spool \/ \E w : w.fact = fact /\ spool' = spool \cup {w}
      BY <1>3 DEF PublishOnce, Spool, spoolVars
    <3>3. \A f \in Facts : Unpublished(f)' => Absent(f)'
      BY <1>1, <2>1, <2>2, <3>1, <3>2 DEF StatusInv, Unpublished, Absent, Owned
    <3>4. AcknowledgedIsWritten'
      BY <1>1, <2>1, <3>1 DEF StatusInv, AcknowledgedIsWritten
    <3> QED BY <1>0, <2>2, <3>3, <3>4 DEF StatusInv, FrameInv, Waiting
  <2>3. CASE pc' = "await"
    <3> DEFINE new == [n |-> frames + 1, fact |-> fact]
    <3>1. /\ new.n = frames + 1 /\ new.fact = fact
          /\ spool' = spool \cup {new} /\ frames' = frames + 1 /\ frame' = frames + 1
          /\ droppedBefore' = dropped /\ status' = status
      BY <1>3, <2>3 DEF PublishOnce, Answer, Spool
    <3> HIDE DEF new
    <3>2. \A f \in Facts : Unpublished(f)' => Absent(f)'
      BY <1>1, <2>1, <2>3, <3>1 DEF StatusInv, Unpublished, Absent, Owned
    <3>3. FrameInv'
      BY <1>1, <2>1, <2>3, <3>1 DEF FrameInv, Waiting, Owned, Absent, Rejection, ringVars
    <3>4. AcknowledgedIsWritten'
      BY <2>1, <3>1 DEF StatusInv, AcknowledgedIsWritten
    <3> QED BY <1>0, <3>2, <3>3, <3>4 DEF StatusInv
  <2> QED BY <1>3, <2>2, <2>3 DEF PublishOnce, Answer
<1>4. CASE Await
  <2>1. /\ pc = "await" /\ UNCHANGED <<spoolVars, serverVars, ringVars, fact, frame, droppedBefore>>
        /\ \A f : (Written(f)' <=> Written(f)) /\ (Owned(f)' <=> Owned(f))
    BY <1>4 DEF Await, spoolVars, serverVars, Written, Owned
  <2>2. \/ pc' = "idle" /\ status' = [status EXCEPT ![fact] = "persisted_pending"]
        \/ pc' = "poll" /\ status' = status /\ acknowledged' \in {FALSE, Completed(frame)}
    BY <1>4 DEF Await, Answer
  <2>3. \A f \in Facts : Unpublished(f)' => Absent(f)'
    BY <1>1, <2>1, <2>2 DEF StatusInv, Unpublished, Absent
  <2>4. AcknowledgedIsWritten'
    BY <1>1, <2>1, <2>2 DEF StatusInv, AcknowledgedIsWritten
  <2>5. pc' = "poll" /\ acknowledged' => Completed(frame)'
    BY <2>1, <2>2 DEF Completed, spoolVars
  <2>6. FrameInv'
    BY <2>1, <2>2, <2>5 DEF StatusInv, FrameInv, Waiting, Absent, Rejection, spoolVars, ringVars
  <2> QED BY <1>0, <2>3, <2>4, <2>6 DEF StatusInv
<1>5. CASE Poll
  <2>1. /\ pc = "poll" /\ pc' = "idle" /\ fact' = fact
        /\ \A f : (Written(f)' <=> Written(f)) /\ (Owned(f)' <=> Owned(f))
    BY <1>5 DEF Poll, Answer, spoolVars, serverVars, callVars, Written, Owned
  <2>2. PICK result : /\ status' = [status EXCEPT ![fact] = result]
                      /\ result \in {Interpret, "persisted_pending"}
    BY <1>5 DEF Poll, Answer
  <2>3. result = "acknowledged_ok" => Written(fact)
    <3>1. SUFFICES ASSUME result = "acknowledged_ok" PROVE Written(fact)
      OBVIOUS
    <3>2. /\ ~(\E e \in errors : e.n = frame) /\ dropped = droppedBefore /\ acknowledged
      BY <2>2, <3>1 DEF Interpret
    <3>3. Completed(frame) /\ (Owned(fact) \/ Written(fact))
      BY <1>1, <2>1, <3>2 DEF StatusInv, FrameInv, Waiting, Rejection
    <3> QED BY <1>1, <2>1, <3>3 DEF StatusInv, FrameInv, Waiting, Completed, Owned
  <2>4. result = "definitely_rejected" => Absent(fact)
    BY <2>1, <2>2 DEF Interpret, StatusInv, FrameInv, Waiting, Rejection
  <2>5. result \notin {"new", "local_persistence_failed"}
    BY <2>2 DEF Interpret
  <2>6. \A f \in Facts : Unpublished(f)' => Absent(f)'
    BY <1>1, <2>1, <2>2, <2>4, <2>5 DEF StatusInv, Unpublished, Absent
  <2>7. AcknowledgedIsWritten'
    BY <1>1, <2>1, <2>2, <2>3 DEF StatusInv, AcknowledgedIsWritten
  <2> QED BY <1>0, <2>1, <2>6, <2>7 DEF StatusInv, FrameInv, Waiting
<1>6. CASE Stop
  <2>1. /\ pc' = "idle" /\ fact' = fact
        /\ \A f : (Written(f)' <=> Written(f)) /\ (Owned(f)' <=> Owned(f))
        /\ status' = status \/ status' = [status EXCEPT ![fact] = "crashed"]
    BY <1>6 DEF Stop, spoolVars, serverVars, callVars, Written, Owned
  <2> QED BY <1>0, <1>1, <2>1
      DEF StatusInv, Unpublished, Absent, FrameInv, Waiting, AcknowledgedIsWritten
<1>7. CASE Server
  BY <1>7, ServerKeepsStatusInv
<1>8. CASE UNCHANGED vars
  <2>1. \A f : (Written(f)' <=> Written(f)) /\ (Owned(f)' <=> Owned(f))
    BY <1>8 DEF vars, spoolVars, serverVars, Written, Owned
  <2> QED BY <1>0, <1>8, <2>1
      DEF vars, callVars, spoolVars, ringVars, StatusInv, Unpublished, Absent, FrameInv, Waiting,
          Rejection, Completed, AcknowledgedIsWritten
<1> QED
  BY <1>2, <1>3, <1>4, <1>5, <1>6, <1>7, <1>8 DEF Next, Program

LEMMA StatusInvHolds == Spec => []StatusInv
<1>1. Init => StatusInv
  <2> SUFFICES ASSUME Init PROVE StatusInv
    OBVIOUS
  <2>1. TypeOK
    BY DEF Init, TypeOK, Statuses
  <2>2. \A f : Absent(f)
    BY DEF Init, Absent, Owned, Written
  <2>3. \A f \in Facts : status[f] = "new"
    BY DEF Init
  <2> QED BY <2>1, <2>2, <2>3
      DEF Init, StatusInv, SpoolInv, FrameInv, Waiting, AcknowledgedIsWritten
<1> QED BY <1>1, StatusInvInductive, PTL DEF Spec

(* Every variable of the client, the server and the call keeps its type.   *)
THEOREM TypeCorrect == Spec => []TypeOK
<1>1. StatusInv => TypeOK
  BY DEF StatusInv, SpoolInv
<1> QED BY <1>1, StatusInvHolds, PTL

(* ACKNOWLEDGED_OK is only answered for a fact that is written, although   *)
(* the watermark also passes rejected frames and diagnostics may be lost.  *)
THEOREM AcknowledgedFactsAreWritten == Spec => []AcknowledgedIsWritten
<1>1. StatusInv => AcknowledgedIsWritten
  BY DEF StatusInv
<1> QED BY <1>1, StatusInvHolds, PTL

(* A fact answered as refused is in no spool and never becomes readable,   *)
(* whatever is resent, lost or restarted afterwards.                       *)
THEOREM RefusedFactsStayAbsent == Spec => []RefusedNeverAppears
<1>1. StatusInv => RefusedNeverAppears
  BY DEF StatusInv, Unpublished, Absent, RefusedNeverAppears
<1> QED BY <1>1, StatusInvHolds, PTL
=============================================================================
