-------------------------- MODULE AvailabilityProofs --------------------------
(***************************************************************************)
(* Proofs about AvailabilityLedger for every set of keys and sources and   *)
(* every bound.  The theorems that assume SettleFirst are about a process  *)
(* started once every earlier append is decided, the others about any.     *)
(***************************************************************************)
EXTENDS AvailabilityLedger, FiniteSetTheorems, TLAPS

-----------------------------------------------------------------------------
(* While a call runs it is about one key; a marker handed back is readable *)
(* from then on; so a second one handed back, being the sole row of its    *)
(* key, is the same.                                                       *)
Running == {"find", "store_find", "publish", "await", "wait_wal", "verify"}

Shape ==
    /\ returned = [k \in Keys |-> returned[k]]
    /\ pc \in Running => key \in Keys

ReturnedIsReadable ==
    \A k \in Keys : \A m \in returned[k] : \E w \in KeyRows(k) : w.row = m

StableInv == Shape /\ ReturnedIsReadable /\ MarkerIsStable

-----------------------------------------------------------------------------
(* No step of the table takes a readable row away.                         *)
LEMMA RowsStay ==
    ASSUME \/ Server \/ UNCHANGED tableVars
           \/ \E row : Publish(row)
           \/ \E w : TerminallyReject(w)
    PROVE  rows \subseteq rows'
BY DEF Server, Commit, Apply, Lose, Publish, TerminallyReject, tableVars

(* Returning the row a query found alone for the key of the call.          *)
LEMMA ReturnSole ==
    ASSUME StableInv, NEW w \in Sole(KeyRows(key)), pc \in Running,
           Return(w.row), UNCHANGED tableVars
    PROVE  StableInv'
<1> USE DEF StableInv, Shape
<1>1. /\ key \in Keys
      /\ KeyRows(key) = {w}
      /\ returned' = [returned EXCEPT ![key] = @ \cup {w.row}]
      /\ rows' = rows
      /\ pc' \notin Running
  BY DEF Sole, Return, tableVars, Running
<1>2. \A m \in returned[key] : m = w.row
  BY <1>1 DEF ReturnedIsReadable
<1>3. \A k \in Keys : KeyRows(k)' = KeyRows(k)
  BY <1>1 DEF KeyRows
<1>4. /\ returned' = [k \in Keys |-> returned'[k]]
      /\ \A k \in Keys : returned'[k] = IF k = key THEN returned[k] \cup {w.row}
                                        ELSE returned[k]
  BY <1>1
<1>5. ReturnedIsReadable'
  BY <1>1, <1>3, <1>4 DEF ReturnedIsReadable
<1>6. MarkerIsStable'
  BY <1>2, <1>4 DEF MarkerIsStable
<1> QED
  BY <1>1, <1>4, <1>5, <1>6

(* A step that hands nothing back and keeps the key of a running call.     *)
LEMMA NothingReturned ==
    ASSUME StableInv, returned' = returned, rows \subseteq rows',
           pc' \in Running => key' \in Keys
    PROVE  StableInv'
BY DEF StableInv, Shape, ReturnedIsReadable, MarkerIsStable, KeyRows

-----------------------------------------------------------------------------
LEMMA StableInvInductive == StableInv /\ [Next]_vars => StableInv'
<1> SUFFICES ASSUME StableInv, [Next]_vars PROVE StableInv'
  OBVIOUS
<1> USE DEF Running
<1>1. CASE Start
  <2>1. returned' = returned /\ UNCHANGED tableVars /\ pc' \notin Running
    BY <1>1 DEF Start, End
  <2> QED
    BY <2>1, RowsStay, NothingReturned
<1>2. ASSUME NEW k \in Keys, NEW s \in Sources, Call(k, s) PROVE StableInv'
  <2>1. returned' = returned /\ UNCHANGED tableVars /\ key' \in Keys
    BY <1>2 DEF Call
  <2> QED
    BY <2>1, RowsStay, NothingReturned
<1>3. CASE Find
  <2>1. pc = "find" /\ UNCHANGED tableVars /\ key' = key /\ key \in Keys
    BY <1>3 DEF Find, StableInv, Shape
  <2>2. \/ returned' = returned
        \/ \E w \in Sole(KeyRows(key)) : Return(w.row)
    BY <1>3 DEF Find, FindExisting, Issue, Goto, Raise, End
  <2>3. CASE returned' = returned
    BY <2>1, <2>3, RowsStay, NothingReturned
  <2>4. CASE \E w \in Sole(KeyRows(key)) : Return(w.row)
    BY <2>1, <2>4, ReturnSole
  <2> QED
    BY <2>2, <2>3, <2>4
<1>4. CASE StoreFind
  <2>1. pc = "store_find" /\ UNCHANGED tableVars /\ key' = key /\ key \in Keys
    BY <1>4 DEF StoreFind, callVars, StableInv, Shape
  <2>2. \/ returned' = returned
        \/ OnlyRecord /\ Return(record)
    BY <1>4 DEF StoreFind, Goto, Raise, End
  <2>3. CASE returned' = returned
    BY <2>1, <2>3, RowsStay, NothingReturned
  <2>4. CASE OnlyRecord /\ Return(record)
    BY <2>1, <2>4, ReturnSole DEF OnlyRecord
  <2> QED
    BY <2>2, <2>3, <2>4
<1>5. CASE PublishOnce
  <2>1. returned' = returned /\ key' = key /\ key \in Keys
    BY <1>5 DEF PublishOnce, AppendInDoubt, Goto, Raise, End, StableInv, Shape
  <2>2. UNCHANGED tableVars \/ Publish(record)
    BY <1>5 DEF PublishOnce
  <2> QED
    BY <2>1, <2>2, RowsStay, NothingReturned
<1>6. CASE Await
  <2>1. returned' = returned /\ key' = key /\ key \in Keys
    BY <1>6 DEF Await, AppendInDoubt, Goto, Raise, End, callVars, StableInv, Shape
  <2>2. UNCHANGED tableVars \/ TerminallyReject(OwnFrame)
    BY <1>6 DEF Await
  <2> QED
    BY <2>1, <2>2, RowsStay, NothingReturned
<1>7. CASE WaitWal
  <2>1. /\ returned' = returned /\ key' = key /\ key \in Keys
        /\ UNCHANGED tableVars
    BY <1>7 DEF WaitWal, AppendInDoubt, Goto, Raise, End, callVars, StableInv, Shape
  <2> QED
    BY <2>1, RowsStay, NothingReturned
<1>8. CASE Verify
  <2>1. pc = "verify" /\ UNCHANGED tableVars /\ key' = key /\ key \in Keys
    BY <1>8 DEF Verify, callVars, StableInv, Shape
  <2>2. \/ returned' = returned
        \/ OnlyRecord /\ Return(record)
    BY <1>8 DEF Verify, AppendInDoubt, Raise, End
  <2>3. CASE returned' = returned
    BY <2>1, <2>3, RowsStay, NothingReturned
  <2>4. CASE OnlyRecord /\ Return(record)
    BY <2>1, <2>4, ReturnSole DEF OnlyRecord
  <2> QED
    BY <2>2, <2>3, <2>4
<1>9. CASE Crash
  <2>1. returned' = returned /\ UNCHANGED tableVars /\ pc' \notin Running
    BY <1>9 DEF Crash, End
  <2> QED
    BY <2>1, RowsStay, NothingReturned
<1>10. CASE Environment
  <2>1. /\ returned' = returned /\ pc' = pc /\ key' = key
        /\ Server
        /\ pc \in Running => key \in Keys
    BY <1>10 DEF Environment, callVars, StableInv, Shape
  <2> QED
    BY <2>1, RowsStay, NothingReturned
<1>11. CASE UNCHANGED vars
  <2>1. /\ returned' = returned /\ pc' = pc /\ key' = key
        /\ UNCHANGED tableVars
        /\ pc \in Running => key \in Keys
    BY <1>11 DEF vars, callVars, StableInv, Shape
  <2> QED
    BY <2>1, RowsStay, NothingReturned
<1> QED
  BY <1>1, <1>2, <1>3, <1>4, <1>5, <1>6, <1>7, <1>8, <1>9, <1>10, <1>11
     DEF Next, Program

(* record_proven never hands out two markers for a key, and what it handed *)
(* out stays readable, whatever is retried, in doubt, lost or restarted at *)
(* any time (availability.py:97-129).                                      *)
THEOREM MarkersAreStable == Spec => []MarkerIsStable
<1>1. Init => StableInv
  BY DEF Init, StableInv, Shape, ReturnedIsReadable, MarkerIsStable, Running
<1>2. StableInv => MarkerIsStable
  BY DEF StableInv
<1> QED
  BY <1>1, <1>2, StableInvInductive, PTL DEF Spec
-----------------------------------------------------------------------------
(* A finite set of frames has a greatest instant.  The frames above each   *)
(* frame form a family of finite sets; a smallest one of them is empty.    *)
LEMMA GreatestInstant ==
    ASSUME NEW S, IsFiniteSet(S), S # {}, \A w \in S : w.row.at \in Nat
    PROVE  \E w \in S : \A v \in S : v.row.at <= w.row.at
<1> DEFINE Above(w) == {v \in S : v.row.at > w.row.at}
           T == {Above(w) : w \in S}
<1>1. T \subseteq FiniteSubsetsOf(S) /\ T # {}
  <2>1. \A w \in S : IsFiniteSet(Above(w))
    BY FS_Subset
  <2> QED BY <2>1 DEF FiniteSubsetsOf
<1>2. PICK x \in T : \A y \in T : <<y, x>> \notin StrictSubsetOrdering(S)
  <2> HIDE DEF T
  <2> QED BY <1>1, WFMin, FS_StrictSubsetOrderingWellFounded
<1>3. PICK w \in S : x = Above(w)
  OBVIOUS
<1>4. ASSUME NEW v \in S, v.row.at > w.row.at PROVE FALSE
  <2>1. Above(v) \subseteq Above(w)
    BY <1>4
  <2>2. v \in Above(w) /\ v \notin Above(v)
    BY <1>4
  <2>3. <<Above(v), x>> \in StrictSubsetOrdering(S)
    BY <2>1, <2>2, <1>3 DEF StrictSubsetOrdering
  <2> QED BY <2>3, <1>2
<1> QED BY <1>4

LEMMA LatestIsGreatest ==
    ASSUME NEW S, IsFiniteSet(S), \A w \in S : w.row.at \in Nat
    PROVE  /\ Latest(S) \in Nat \cup {-1}
           /\ \A w \in S : w.row.at <= Latest(S)
BY GreatestInstant DEF Latest

-----------------------------------------------------------------------------
(* A call in progress has a key, and once it has issued an instant for it  *)
(* the writer remembers no doubt about that key.                           *)
Issued == Running \ {"find"}

CallInv ==
    /\ TypeOK
    /\ IsFiniteSet(Published)
    /\ pc \in Running => key \in Keys /\ source \in Sources
    /\ pc \in Issued =>
          record \in Record /\ record.key = key /\ writerDoubt[key] = NoRecord

LEMMA TableSteps ==
    ASSUME CallInv,
           \/ Server \/ UNCHANGED tableVars
           \/ \E row \in Record : Publish(row)
           \/ \E w : TerminallyReject(w)
    PROVE  TableTypeOK(Record)' /\ IsFiniteSet(Published)'
<1> USE DEF CallInv, TypeOK, TableTypeOK
<1>1. CASE \E row \in Record : Publish(row)
  <2>1. PICK row \in Record : Publish(row)
    BY <1>1
  <2>2. NextFrame(row) \in Frame(Record)
    BY DEF NextFrame, Frame
  <2>3. Published' = Published \cup {NextFrame(row)}
    BY <2>1 DEF Publish, Published
  <2> QED BY <2>1, <2>2, <2>3, FS_AddElement DEF Publish
<1>2. CASE Server \/ UNCHANGED tableVars \/ \E w : TerminallyReject(w)
  <2>1. Published' \subseteq Published
    BY <1>2 DEF Server, Commit, Apply, Lose, TerminallyReject, tableVars, Published
  <2>2. IsFiniteSet(Published)'
    BY <2>1, FS_Subset
  <2> QED BY <1>2, <2>2 DEF Server, Commit, Apply, Lose, TerminallyReject, tableVars
<1> QED BY <1>1, <1>2

LEMMA CallInvInductive == CallInv /\ [Next]_vars => CallInv'
<1> SUFFICES ASSUME CallInv, [Next]_vars PROVE CallInv'
  OBVIOUS
<1> USE LedgerAssumption DEF Running, Issued, PCs, Outcomes
<1>1. CASE Start
  <2>1. UNCHANGED tableVars
    BY <1>1 DEF Start
  <2>2. IsFiniteSet(rows) /\ \A w \in rows : w.row.at \in Nat
    BY FS_Subset DEF CallInv, TypeOK, TableTypeOK, Published, Frame, Record
  <2>3. Latest(rows) \in Nat \cup {-1}
    BY <2>2, LatestIsGreatest
  <2> QED
    BY <1>1, <2>1, <2>3, TableSteps DEF Start, End, CallInv, TypeOK, callVars, processVars
<1>2. ASSUME NEW k \in Keys, NEW s \in Sources, Call(k, s) PROVE CallInv'
  BY <1>2, TableSteps DEF Call, CallInv, TypeOK, processVars
<1>3. CASE Find
  <2>1. UNCHANGED tableVars
    BY <1>3 DEF Find
  <2> QED BY <1>3, <2>1, TableSteps DEF Find, FindExisting, Issue, Goto, Raise, End, Return,
     CallInv, TypeOK, processVars, Sole, KeyRows, ProofTime, InDoubt, Record, TableTypeOK, Frame
<1>4. CASE StoreFind
  <2>1. UNCHANGED tableVars
    BY <1>4 DEF StoreFind
  <2> QED BY <1>4, <2>1, TableSteps DEF StoreFind, Goto, Raise, End, Return,
     CallInv, TypeOK, callVars
<1>5. CASE PublishOnce
  <2>1. UNCHANGED tableVars \/ \E row \in Record : Publish(row)
    BY <1>5 DEF PublishOnce, CallInv
  <2>2. frame' \in Nat
    BY <1>5 DEF PublishOnce, CallInv, TypeOK, TableTypeOK
  <2> QED BY <1>5, <2>1, <2>2, TableSteps DEF PublishOnce, AppendInDoubt, Goto, Raise, End,
     CallInv, TypeOK
<1>6. CASE Await
  <2>1. UNCHANGED tableVars \/ \E w : TerminallyReject(w)
    BY <1>6 DEF Await
  <2> QED BY <1>6, <2>1, TableSteps DEF Await, AppendInDoubt, Goto, Raise, End,
     CallInv, TypeOK, callVars
<1>7. CASE WaitWal
  <2>1. UNCHANGED tableVars
    BY <1>7 DEF WaitWal
  <2> QED BY <1>7, <2>1, TableSteps DEF WaitWal, AppendInDoubt, Goto, Raise, End,
     CallInv, TypeOK, callVars
<1>8. CASE Verify
  <2>1. UNCHANGED tableVars
    BY <1>8 DEF Verify
  <2> QED BY <1>8, <2>1, TableSteps DEF Verify, AppendInDoubt, Raise, End, Return,
     CallInv, TypeOK, callVars
<1>9. CASE Crash
  BY <1>9, TableSteps DEF Crash, End, CallInv, TypeOK, callVars, processVars
<1>10. CASE Environment
  BY <1>10, TableSteps DEF Environment, CallInv, TypeOK, callVars, processVars
<1>11. CASE UNCHANGED vars
  BY <1>11, TableSteps DEF vars, CallInv, TypeOK, callVars, processVars
<1> QED
  BY <1>1, <1>2, <1>3, <1>4, <1>5, <1>6, <1>7, <1>8, <1>9, <1>10, <1>11
     DEF Next, Program

LEMMA CallInvInit == Init => CallInv
BY FS_EmptySet, LedgerAssumption DEF Init, TableInit, CallInv, TypeOK, TableTypeOK,
   Published, PCs, Outcomes, Running, Issued

LEMMA CallInvHolds == Spec => []CallInv
BY CallInvInit, CallInvInductive, PTL DEF Spec

(* Every variable of the ledger keeps its type; the floor of a start is a  *)
(* readable instant because there are only finitely many markers.          *)
THEOREM TypeCorrect == Spec => []TypeOK
<1>1. CallInv => TypeOK
  BY DEF CallInv
<1> QED BY <1>1, CallInvHolds, PTL

(* The writer's doubt about a key ends with the very marker it remembers,  *)
(* or with the process: no call for another key, no error and no rejection *)
(* nobody heard of replaces it (availability.py:97-129).                   *)
THEOREM DoubtsEndWithTheirMarker == Spec => DoubtEndsWithItsMarker
<1> DEFINE Step == \A k \in Keys :
          writerDoubt[k] \notin {NoRecord, writerDoubt'[k]} =>
              \/ pc = "down"
              \/ \E w \in rows : w.row = writerDoubt[k]
<1>1. CallInv /\ [Next]_vars => [Step]_vars
  <2> SUFFICES ASSUME CallInv, Next, NEW k \in Keys,
                      writerDoubt[k] \notin {NoRecord, writerDoubt'[k]}, pc # "down"
               PROVE  \E w \in rows : w.row = writerDoubt[k]
    OBVIOUS
  <2>1. CASE Find
    BY <2>1 DEF Find, FindExisting, Issue, processVars, CallInv, TypeOK, Sole, KeyRows
  <2>2. CASE StoreFind \/ PublishOnce \/ Await \/ WaitWal \/ Verify
    BY <2>2 DEF StoreFind, PublishOnce, Await, WaitWal, Verify, AppendInDoubt,
       CallInv, TypeOK, Running, Issued
  <2>3. CASE Start \/ Crash \/ Environment \/ \E l \in Keys, s \in Sources : Call(l, s)
    BY <2>3 DEF Start, Crash, Environment, Call, processVars
  <2> QED BY <2>1, <2>2, <2>3 DEF Next, Program
<1> QED BY <1>1, CallInvHolds, PTL DEF Spec, DoubtEndsWithItsMarker
-----------------------------------------------------------------------------
(* When a process is only started once every append of an earlier one is   *)
(* decided, a frame that is not readable yet is remembered as a doubt, or  *)
(* is the one the call waits for, or was published last before a crash.    *)
FramesInv ==
    /\ inflight \cap wal = {} /\ Unsettled \cap rows = {}
    /\ \A w \in Published : w.n <= frames

Last(w) == \A v \in Published : v = w \/ v.row.at < w.row.at

InstantInv ==
    /\ pc # "down" => \A w \in Published : w.row.at <= latest
    /\ pc \in Issued => record.at <= latest
    /\ pc \in {"store_find", "publish"} => \A w \in Published : w.row.at < record.at
    /\ pc \in {"await", "wait_wal", "verify"} => Last(OwnFrame)

DoubtInv ==
    /\ \A w \in Unsettled :
          \/ writerDoubt[w.row.key] = w.row
          \/ pc \in {"await", "wait_wal"} /\ w = OwnFrame
          \/ pc = "down" /\ Last(w)
    /\ pc = "publish" => \A w \in Published : w.row.key # key
    /\ pc = "verify" => OwnFrame \in rows

DistinctInv == \A v, w \in Published :
    v.row.key = w.row.key \/ v.row.at = w.row.at => v = w

LedgerInv == CallInv /\ FramesInv /\ InstantInv /\ DoubtInv /\ DistinctInv

(* Steps that publish nothing.                                             *)
LEMMA NothingPublished ==
    ASSUME CallInv, FramesInv, DistinctInv,
           Server \/ UNCHANGED tableVars \/ \E w : TerminallyReject(w)
    PROVE  /\ Published' \subseteq Published /\ rows \subseteq rows'
           /\ Unsettled' \subseteq Unsettled
           /\ FramesInv' /\ DistinctInv'
           /\ \A w : Last(w) => Last(w)'
<1>1. /\ Published' \subseteq Published /\ rows \subseteq rows'
      /\ Unsettled' \subseteq Unsettled /\ frames' = frames
  BY DEF Server, Commit, Apply, Lose, TerminallyReject, tableVars, Published, Unsettled
<1>2. inflight' \cap wal' = {} /\ Unsettled' \cap rows' = {}
  BY DEF FramesInv, Server, Commit, Apply, Lose, TerminallyReject, tableVars, Unsettled
<1> QED BY <1>1, <1>2 DEF FramesInv, DistinctInv, Last

(* The publication of a marker later than every other, of a new key.       *)
LEMMA NewPublished ==
    ASSUME LedgerInv, pc = "publish", Publish(record)
    PROVE  LET own == NextFrame(record) IN
           /\ Published' = Published \cup {own}
           /\ Unsettled' = Unsettled \cup {own}
           /\ rows' = rows
           /\ own \notin Published
           /\ FramesInv' /\ DistinctInv'
           /\ \A w \in Published' : w.row.at <= record.at /\ (w = own \/ w.row.at < record.at)
<1> DEFINE own == NextFrame(record)
<1>1. /\ own.row = record /\ own.n = frames + 1
      /\ frames' = frames + 1 /\ inflight' = inflight \cup {own}
      /\ wal' = wal /\ rows' = rows
  BY DEF Publish, NextFrame
<1>2. /\ frames \in Nat /\ record \in Record /\ record.key = key
      /\ \A w \in Published : w.n \in Nat /\ w.row.at \in Nat /\ w.n <= frames
  BY DEF LedgerInv, CallInv, TypeOK, TableTypeOK, Frame, Record, FramesInv, Published,
     Running, Issued
<1>3. \A w \in Published : w.row.at < record.at /\ w.row.key # key
  BY DEF LedgerInv, InstantInv, DoubtInv
<1>4. record.at \in Nat
  BY <1>2 DEF Record
<1> HIDE DEF own
<1>5. Published' = Published \cup {own} /\ Unsettled' = Unsettled \cup {own} /\ own \notin Published
  BY <1>1, <1>2 DEF Published, Unsettled
<1>6. FramesInv'
  BY <1>1, <1>2, <1>5 DEF FramesInv, LedgerInv, Published, Unsettled
<1>7. DistinctInv'
  BY <1>1, <1>2, <1>3, <1>4, <1>5 DEF LedgerInv, DistinctInv
<1>8. \A w \in Published' : w.row.at <= record.at /\ (w = own \/ w.row.at < record.at)
  BY <1>1, <1>2, <1>3, <1>4, <1>5
<1> QED BY <1>1, <1>5, <1>6, <1>7, <1>8 DEF own

LEMMA LedgerInvInductive ==
    ASSUME SettleFirst, LedgerInv, [Next]_vars
    PROVE  LedgerInv'
<1> USE DEF Running, Issued
<1>0. CallInv'
  BY CallInvInductive DEF LedgerInv
<1>1. CASE Start
  <2>1. UNCHANGED tableVars /\ Unsettled = {}
    BY <1>1 DEF Start
  <2>2. IsFiniteSet(rows) /\ (\A w \in rows : w.row.at \in Nat) /\ Published' = rows
    BY <2>1, FS_Subset DEF LedgerInv, CallInv, TypeOK, TableTypeOK, Published, Frame,
       Record, Unsettled, tableVars
  <2>3. pc' = "down" \/ (pc' = "idle" /\ latest' = Latest(rows))
    BY <1>1 DEF Start, End
  <2>4. pc' # "down" => \A w \in Published' : w.row.at <= latest'
    BY <2>2, <2>3, LatestIsGreatest
  <2>5. FramesInv' /\ DistinctInv' /\ Unsettled' = {}
    BY <2>1, NothingPublished DEF LedgerInv
  <2> QED
    BY <1>0, <2>3, <2>4, <2>5 DEF LedgerInv, InstantInv, DoubtInv
<1>2. ASSUME NEW k \in Keys, NEW s \in Sources, Call(k, s) PROVE LedgerInv'
  <2>1. UNCHANGED tableVars
    BY <1>2 DEF Call
  <2>2. FramesInv' /\ DistinctInv' /\ Unsettled' = Unsettled /\ Published' = Published
    BY <2>1, NothingPublished DEF LedgerInv, tableVars, Unsettled, Published
  <2> QED BY <1>0, <1>2, <2>2 DEF LedgerInv, InstantInv, DoubtInv, Call, processVars
<1>3. CASE Find
  <2>1. UNCHANGED tableVars /\ key' = key /\ pc = "find" /\ UNCHANGED <<storeDoubt>>
    BY <1>3 DEF Find, processVars
  <2>2. FramesInv' /\ DistinctInv' /\ Unsettled' = Unsettled /\ Published' = Published
    BY <2>1, NothingPublished DEF LedgerInv, tableVars, Unsettled, Published
  <2>3. InstantInv'
    BY <1>3, <2>1, <2>2 DEF Find, FindExisting, Issue, Goto, Raise, End, Return, processVars,
       ProofTime, LedgerInv, CallInv, TypeOK, TableTypeOK, Frame, Record, Published, InstantInv
  <2>4. DoubtInv'
    <3>1. \A w \in Unsettled : writerDoubt'[w.row.key] = w.row
      BY <1>3 DEF Find, FindExisting, Issue, processVars, LedgerInv, CallInv, TypeOK,
         TableTypeOK, Frame, Record, Published, Unsettled, FramesInv, DistinctInv,
         DoubtInv, Sole, KeyRows
    <3>2. pc' \in {"idle", "store_find"}
      BY <1>3 DEF Find, FindExisting, Issue, Goto, Raise, End, Return
    <3> QED BY <2>2, <3>1, <3>2 DEF DoubtInv
  <2> QED BY <1>0, <2>2, <2>3, <2>4 DEF LedgerInv
<1>4. CASE StoreFind
  <2>1. UNCHANGED tableVars /\ UNCHANGED <<key, record, latest>> /\ pc = "store_find"
    BY <1>4 DEF StoreFind, callVars
  <2>2. FramesInv' /\ DistinctInv' /\ Unsettled' = Unsettled /\ Published' = Published
    BY <2>1, NothingPublished DEF LedgerInv, tableVars, Unsettled, Published
  <2>3. pc' \in {"idle", "publish"} /\ (pc' = "publish" => KeyRows(key) = {})
    BY <1>4 DEF StoreFind, Goto, Raise, End, Return
  <2>4. \A w \in Unsettled : writerDoubt[w.row.key] = w.row /\ w.row.key # key
    BY <2>1, LedgerAssumption DEF LedgerInv, DoubtInv, CallInv, TypeOK, TableTypeOK, Frame,
       Unsettled
  <2>5. \A w \in Unsettled : writerDoubt'[w.row.key] = w.row
    BY <1>4, <2>4 DEF StoreFind, LedgerInv, CallInv, TypeOK, TableTypeOK, Frame, Record, Unsettled
  <2>6. pc' = "publish" => \A w \in Published : w.row.key # key
    BY <2>3, <2>4 DEF KeyRows, Published, Unsettled
  <2> QED BY <1>0, <2>1, <2>2, <2>3, <2>5, <2>6 DEF LedgerInv, InstantInv, DoubtInv
<1>5. CASE PublishOnce
  <2>1. UNCHANGED <<key, record, latest>> /\ pc = "publish" /\ pc' \in {"idle", "await"}
    BY <1>5 DEF PublishOnce, AppendInDoubt, Goto, Raise, End
  <2>2. CASE Publish(record)
    <3>1. \A w \in Unsettled : writerDoubt'[w.row.key] = w.row
      BY <1>5, <2>1 DEF PublishOnce, AppendInDoubt, LedgerInv, DoubtInv, CallInv, TypeOK,
         TableTypeOK, Frame, Record, Unsettled, Published
    <3>2. /\ pc' = "idle" => writerDoubt'[key] = record
          /\ pc' = "await" => frame' = frames + 1
      BY <1>5, <2>1, <2>2 DEF PublishOnce, AppendInDoubt, Goto, Raise, End, LedgerInv, CallInv,
         TypeOK, TableTypeOK, tableVars, Publish
    <3>3. pc' = "await" => OwnFrame' = NextFrame(record)
      BY <2>1, <3>2 DEF OwnFrame, NextFrame
    <3> QED BY <1>0, <2>1, <2>2, <3>1, <3>2, <3>3, NewPublished
        DEF LedgerInv, CallInv, InstantInv, DoubtInv, Last, NextFrame
  <2>3. CASE UNCHANGED tableVars
    BY <1>0, <1>5, <2>1, <2>3, NothingPublished
       DEF PublishOnce, AppendInDoubt, Goto, Raise, End, LedgerInv, CallInv, TypeOK, TableTypeOK, tableVars, Publish,
           InstantInv, DoubtInv, Frame, Record, Published, Unsettled
  <2> QED BY <1>5, <2>2, <2>3 DEF PublishOnce
<1>6. CASE Await
  <2>1. UNCHANGED <<key, record, frame, latest>> /\ pc = "await" /\ pc' \in {"idle", "wait_wal"}
    BY <1>6 DEF Await, AppendInDoubt, Goto, Raise, End, callVars
  <2>2. UNCHANGED tableVars \/ TerminallyReject(OwnFrame)
    BY <1>6 DEF Await
  <2>3. /\ Published' \subseteq Published /\ Unsettled' \subseteq Unsettled
        /\ FramesInv' /\ DistinctInv'
        /\ \A w : Last(w) => Last(w)'
    BY <2>2, NothingPublished DEF LedgerInv
  <2>4. OwnFrame' = OwnFrame
    BY <2>1 DEF OwnFrame
  <2>5. InstantInv'
    BY <2>1, <2>3, <2>4 DEF LedgerInv, InstantInv
  <2>6. \A w \in Unsettled' :
          writerDoubt'[w.row.key] = w.row \/ (pc' = "wait_wal" /\ w = OwnFrame)
    <3>1. CASE AppendInDoubt
      BY <2>1, <2>3, <3>1, LedgerAssumption DEF AppendInDoubt, LedgerInv, CallInv, TypeOK, TableTypeOK, Frame, Record,
         Unsettled, DoubtInv, OwnFrame
    <3>2. CASE TerminallyReject(OwnFrame) /\ UNCHANGED writerDoubt
      <4>1. OwnFrame \notin Unsettled'
        BY <3>2 DEF TerminallyReject, Unsettled, LedgerInv, FramesInv
      <4> QED BY <2>1, <2>3, <3>2, <4>1 DEF LedgerInv, DoubtInv
    <3>3. CASE pc' = "wait_wal" /\ UNCHANGED writerDoubt
      BY <2>1, <2>3, <3>3 DEF LedgerInv, DoubtInv
    <3> QED BY <1>6, <3>1, <3>2, <3>3 DEF Await, Goto
  <2> QED BY <1>0, <2>1, <2>3, <2>4, <2>5, <2>6 DEF LedgerInv, DoubtInv
<1>7. CASE WaitWal
  <2>1. /\ UNCHANGED <<key, record, frame, latest>> /\ UNCHANGED tableVars
        /\ pc = "wait_wal" /\ pc' \in {"idle", "verify"}
    BY <1>7 DEF WaitWal, AppendInDoubt, Goto, Raise, End, callVars
  <2>2. FramesInv' /\ DistinctInv' /\ Unsettled' = Unsettled /\ Published' = Published
    BY <2>1, NothingPublished DEF LedgerInv, tableVars, Unsettled, Published
  <2>3. OwnFrame' = OwnFrame /\ rows' = rows
    BY <2>1 DEF OwnFrame, tableVars
  <2>4. InstantInv'
    BY <2>1, <2>2, <2>3 DEF LedgerInv, InstantInv, Last
  <2>5. \A w \in Unsettled : writerDoubt'[w.row.key] = w.row
    <3>1. CASE AppendInDoubt
      BY <2>1, <2>3, <3>1, LedgerAssumption DEF AppendInDoubt, LedgerInv, CallInv, TypeOK, TableTypeOK, Frame, Record,
         Unsettled, DoubtInv, OwnFrame
    <3>2. CASE OwnFrame \in rows /\ UNCHANGED writerDoubt
      BY <2>1, <3>2 DEF LedgerInv, DoubtInv, FramesInv
    <3> QED BY <1>7, <3>1, <3>2 DEF WaitWal
  <2>6. pc' = "verify" => OwnFrame \in rows
    BY <1>7 DEF WaitWal, AppendInDoubt, Raise, End
  <2> QED BY <1>0, <2>1, <2>2, <2>3, <2>4, <2>5, <2>6 DEF LedgerInv, DoubtInv
<1>8. CASE Verify
  <2>1. /\ UNCHANGED <<key, record, frame, latest>> /\ UNCHANGED tableVars
        /\ pc = "verify" /\ pc' = "idle"
    BY <1>8 DEF Verify, AppendInDoubt, Raise, End, Return, callVars
  <2>2. FramesInv' /\ DistinctInv' /\ Unsettled' = Unsettled /\ Published' = Published
    BY <2>1, NothingPublished DEF LedgerInv, tableVars, Unsettled, Published
  <2>3. InstantInv'
    BY <2>1, <2>2 DEF LedgerInv, InstantInv
  <2>4. OwnFrame \in rows /\ KeyRows(key) # {}
    BY <2>1 DEF LedgerInv, CallInv, DoubtInv, KeyRows, OwnFrame
  <2>5. UNCHANGED writerDoubt
    BY <1>8, <2>4 DEF Verify
  <2> QED BY <1>0, <2>1, <2>2, <2>3, <2>5 DEF LedgerInv, DoubtInv
<1>9. CASE Crash
  <2>1. UNCHANGED tableVars /\ UNCHANGED writerDoubt /\ pc' = "down"
    BY <1>9 DEF Crash, End, processVars
  <2>2. FramesInv' /\ DistinctInv' /\ Unsettled' = Unsettled /\ Published' = Published
    BY <2>1, NothingPublished DEF LedgerInv, tableVars, Unsettled, Published
  <2>3. \A w \in Unsettled : writerDoubt[w.row.key] = w.row \/ Last(w)
    BY <1>9 DEF Crash, LedgerInv, DoubtInv, InstantInv
  <2> QED BY <1>0, <2>1, <2>2, <2>3 DEF LedgerInv, InstantInv, DoubtInv, Last
<1>10. CASE Environment \/ UNCHANGED vars
  <2>1. UNCHANGED <<pc, key, record, frame, latest, writerDoubt>>
    BY <1>10 DEF Environment, callVars, processVars, vars
  <2>2. /\ Published' \subseteq Published /\ rows \subseteq rows'
        /\ Unsettled' \subseteq Unsettled
        /\ FramesInv' /\ DistinctInv'
        /\ \A w : Last(w) => Last(w)'
    BY <1>10, NothingPublished DEF Environment, vars, LedgerInv
  <2>3. OwnFrame' = OwnFrame
    BY <2>1 DEF OwnFrame
  <2>4. InstantInv'
    BY <2>1, <2>2, <2>3 DEF LedgerInv, InstantInv
  <2>5. DoubtInv'
    BY <2>1, <2>2, <2>3 DEF LedgerInv, DoubtInv
  <2> QED BY <1>0, <2>2, <2>4, <2>5 DEF LedgerInv
<1> QED
  BY <1>1, <1>2, <1>3, <1>4, <1>5, <1>6, <1>7, <1>8, <1>9, <1>10
     DEF Next, Program

LEMMA LedgerInvHolds == ASSUME SettleFirst PROVE Spec => []LedgerInv
<1>1. Init => LedgerInv
  BY CallInvInit DEF Init, TableInit, LedgerInv, FramesInv, InstantInv, DoubtInv,
     DistinctInv, Published, Unsettled, Issued, Running
<1>2. LedgerInv /\ [Next]_vars => LedgerInv'
  BY LedgerInvInductive
<1> QED BY <1>1, <1>2, PTL DEF Spec

(* "Exactly one row per semantic key", for ever and across restarts, when  *)
(* a process is started only after every earlier append is decided.        *)
THEOREM OneMarker ==
    ASSUME SettleFirst PROVE Spec => []OneMarkerPerKey
<1>1. LedgerInv => OneMarkerPerKey
  BY DEF LedgerInv, DistinctInv, OneMarkerPerKey
<1> QED BY <1>1, LedgerInvHolds, PTL

(* No marker is published at or before the instant of a readable one,      *)
(* whatever the wall clock of a restarted process shows.                   *)
THEOREM NewMarkersComeLast ==
    ASSUME SettleFirst PROVE Spec => NewMarkersAreLatest
<1> DEFINE Step == \A w \in Published' \ Published : \A v \in rows : v.row.at < w.row.at
<1>1. LedgerInv /\ [Next]_vars => [Step]_vars
  <2> SUFFICES ASSUME LedgerInv, Next, NEW w \in Published' \ Published, NEW v \in rows
               PROVE  v.row.at < w.row.at
    OBVIOUS
  <2>1. CASE pc = "publish" /\ Publish(record)
    BY <2>1 DEF Publish, NextFrame, Published, LedgerInv, InstantInv
  <2>2. CASE Server \/ UNCHANGED tableVars \/ \E u : TerminallyReject(u)
    BY <2>2, NothingPublished DEF LedgerInv
  <2> QED BY <2>1, <2>2 DEF Next, Program, Start, Call, Find, StoreFind, PublishOnce,
      Await, WaitWal, Verify, Crash, Environment
<1> QED BY <1>1, LedgerInvHolds, PTL DEF Spec, NewMarkersAreLatest

(* Only a marker reported in doubt becomes readable behind a later one.    *)
THEOREM OnlyDoubtsComeLate ==
    ASSUME SettleFirst PROVE Spec => LateMarkersAreInDoubt
<1> DEFINE Step == \A w \in rows' \ rows :
          (\E v \in rows : v.row.at >= w.row.at) => writerDoubt[w.row.key] = w.row
<1>1. LedgerInv /\ [Next]_vars => [Step]_vars
  <2> SUFFICES ASSUME LedgerInv, Next, NEW w \in rows' \ rows, NEW v \in rows,
                      v.row.at >= w.row.at
               PROVE  writerDoubt[w.row.key] = w.row
    OBVIOUS
  <2>1. w \in wal
    BY DEF Next, Program, Start, Call, Find, StoreFind, PublishOnce, Publish, Await,
       TerminallyReject, WaitWal, Verify, Crash, Environment, Server, Commit, Apply, Lose,
       tableVars
  <2>2. v # w /\ v \in Published /\ w \in Unsettled
    BY <2>1 DEF Published, Unsettled
  <2>3. v.row.at \in Nat /\ w.row.at \in Nat
    BY <2>1 DEF LedgerInv, CallInv, TypeOK, TableTypeOK, Frame, Record
  <2>4. ~Last(w)
    BY <2>2, <2>3 DEF Last
  <2> QED BY <2>2, <2>4 DEF LedgerInv, DoubtInv, InstantInv
<1> QED BY <1>1, LedgerInvHolds, PTL DEF Spec, LateMarkersAreInDoubt

-----------------------------------------------------------------------------
(* The refinement: a row that becomes readable settles the marker of its   *)
(* key, a return tells it, and every other step is a stutter.              *)
LEMMA ReadableIsTheRow ==
    ASSUME LedgerInv, NEW k \in Keys
    PROVE  /\ KeyRows(k) = {} => ReadableMarker(k) = NoRecord
           /\ \A w \in KeyRows(k) :
                 /\ ReadableMarker(k) = w.row /\ w.row \in Record
                 /\ ReadableMarker(k) # NoRecord /\ w.row.key = k
<1>1. ASSUME NEW w \in KeyRows(k)
      PROVE  \A v \in KeyRows(k) : v = w
  BY DEF LedgerInv, DistinctInv, KeyRows, Published
<1>2. \A w \in KeyRows(k) : w.row \in Record /\ w.row.key = k
  BY DEF LedgerInv, CallInv, TypeOK, TableTypeOK, Frame, KeyRows
<1> QED BY <1>1, <1>2, LedgerAssumption DEF ReadableMarker

LEMMA SettleStep ==
    ASSUME LedgerInv, LedgerInv', Apply, returned' = returned
    PROVE  Promise!Settle
<1> DEFINE marker == [k \in Keys |-> ReadableMarker(k)]
<1>1. PICK w \in wal : rows' = rows \cup {w}
  BY DEF Apply
<1> DEFINE k == w.row.key
<1>2. w.row \in Record /\ k \in Keys
  BY DEF LedgerInv, CallInv, TypeOK, TableTypeOK, Frame, Record
<1>3. w \in Published /\ w \notin rows /\ rows \subseteq Published
  BY DEF Published, LedgerInv, FramesInv, Unsettled
<1>4. KeyRows(k) = {} /\ KeyRows(k)' = {w}
  BY <1>1, <1>3 DEF KeyRows, LedgerInv, DistinctInv
<1>5. \A j \in Keys \ {k} : KeyRows(j)' = KeyRows(j)
  BY <1>1 DEF KeyRows
<1>6. ReadableMarker(k) = NoRecord /\ ReadableMarker(k)' = w.row
  BY <1>2, <1>4 DEF ReadableMarker
<1>7. \A j \in Keys \ {k} : ReadableMarker(j)' = ReadableMarker(j)
  <2> SUFFICES ASSUME NEW j \in Keys \ {k} PROVE ReadableMarker(j)' = ReadableMarker(j)
    OBVIOUS
  <2> DEFINE Of(S) == IF S = {} THEN NoRecord ELSE (CHOOSE v \in S : TRUE).row
  <2>1. ReadableMarker(j) = Of(KeyRows(j)) /\ ReadableMarker(j)' = Of(KeyRows(j)')
    BY DEF ReadableMarker
  <2>2. KeyRows(j)' = KeyRows(j)
    BY <1>5
  <2> HIDE DEF Of
  <2> QED BY <2>1, <2>2
<1>8. ASSUME NEW j \in Keys, ReadableMarker(j) # NoRecord
      PROVE  ReadableMarker(j).at # w.row.at
  <2>1. PICK v \in KeyRows(j) : TRUE
    BY <1>8 DEF ReadableMarker
  <2>2. ReadableMarker(j) = v.row /\ v \in rows
    BY <2>1, ReadableIsTheRow DEF KeyRows
  <2> QED BY <1>3, <2>2 DEF LedgerInv, DistinctInv
<1>9. marker' = [marker EXCEPT ![k] = w.row]
  BY <1>2, <1>6, <1>7
<1> HIDE DEF marker
<1> QED BY <1>2, <1>6, <1>8, <1>9 DEF Promise!Settle, Promise!Marked, Promise!Marker, Record, marker

LEMMA TellStep ==
    ASSUME LedgerInv, key \in Keys, NEW w \in Sole(KeyRows(key)), Return(w.row),
           rows' = rows
    PROVE  Promise!Tell
<1> DEFINE marker == [k \in Keys |-> ReadableMarker(k)]
<1>1. KeyRows(key) = {w}
  BY DEF Sole
<1>2. ReadableMarker(key) = w.row /\ w.row # NoRecord
  BY <1>1, ReadableIsTheRow
<1>3. marker' = marker
  BY DEF ReadableMarker, KeyRows
<1>4. returned' = [returned EXCEPT ![key] = @ \cup {w.row}]
  BY DEF Return
<1>5. marker[key] = w.row
  BY <1>2
<1> HIDE DEF marker
<1> QED BY <1>2, <1>3, <1>4, <1>5 DEF Promise!Tell, Promise!Marked, marker

LEMMA LedgerStepIsPromised ==
    ASSUME LedgerInv, LedgerInv', [Next]_vars
    PROVE  [Promise!Next]_<<[k \in Keys |-> ReadableMarker(k)], returned>>
<1> DEFINE marker == [k \in Keys |-> ReadableMarker(k)]
<1>1. CASE rows' = rows /\ returned' = returned
  <2>1. marker' = marker
    BY <1>1 DEF ReadableMarker, KeyRows
  <2> QED BY <1>1, <2>1
<1>2. CASE Apply /\ returned' = returned
  BY <1>2, SettleStep DEF Promise!Next
<1>3. CASE /\ key \in Keys /\ rows' = rows
           /\ \E w \in Sole(KeyRows(key)) : Return(w.row)
  BY <1>3, TellStep DEF Promise!Next
<1>4. CASE Find
  <2>1. rows' = rows /\ key \in Keys
    BY <1>4 DEF Find, tableVars, LedgerInv, CallInv, Running
  <2>2. returned' = returned \/ \E w \in Sole(KeyRows(key)) : Return(w.row)
    BY <1>4 DEF Find, FindExisting, Issue, Goto, Raise, End
  <2> QED BY <1>1, <1>3, <2>1, <2>2
<1>5. CASE StoreFind
  <2>1. rows' = rows /\ key \in Keys
    BY <1>5 DEF StoreFind, tableVars, LedgerInv, CallInv, Running
  <2>2. returned' = returned \/ \E w \in Sole(KeyRows(key)) : Return(w.row)
    BY <1>5 DEF StoreFind, OnlyRecord, Goto, Raise, End
  <2> QED BY <1>1, <1>3, <2>1, <2>2
<1>6. CASE Verify
  <2>1. rows' = rows /\ key \in Keys
    BY <1>6 DEF Verify, tableVars, LedgerInv, CallInv, Running
  <2>2. returned' = returned \/ \E w \in Sole(KeyRows(key)) : Return(w.row)
    BY <1>6 DEF Verify, OnlyRecord, AppendInDoubt, Raise, End
  <2> QED BY <1>1, <1>3, <2>1, <2>2
<1>7. CASE Start \/ (\E k \in Keys, s \in Sources : Call(k, s)) \/ WaitWal \/ Crash \/ UNCHANGED vars
  BY <1>1, <1>7 DEF Start, Call, WaitWal, Crash, AppendInDoubt, Goto, Raise, End, tableVars, vars
<1>8. CASE PublishOnce \/ Await
  BY <1>1, <1>8 DEF PublishOnce, Await, Publish, TerminallyReject, AppendInDoubt, Goto, Raise,
     End, tableVars
<1>9. CASE Environment
  BY <1>1, <1>2, <1>9 DEF Environment, Server, Commit, Lose, TerminallyReject
<1> QED
  BY <1>4, <1>5, <1>6, <1>7, <1>8, <1>9 DEF Next, Program

(* record_proven and its store keep the promise of MarkerLedger: a key     *)
(* gets one marker for ever, no two markers bear the same instant, and a   *)
(* caller is only told the readable marker of its key.                     *)
THEOREM LedgerIsImplemented ==
    ASSUME SettleFirst PROVE Spec => ImplementsLedger
<1>1. Init => Promise!Init
  BY DEF Init, TableInit, Promise!Init, ReadableMarker, KeyRows
<1>2. LedgerInv /\ LedgerInv' /\ [Next]_vars
        => [Promise!Next]_<<[k \in Keys |-> ReadableMarker(k)], returned>>
  BY LedgerStepIsPromised
<1> QED BY <1>1, <1>2, LedgerInvHolds, PTL DEF Spec, ImplementsLedger, Promise!Spec
=============================================================================
