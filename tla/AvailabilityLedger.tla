-------------------------- MODULE AvailabilityLedger --------------------------
(***************************************************************************)
(* AvailabilityWriter.record_proven over QuestDBAvailabilityStore: one     *)
(* ordered writer that stamps each proven fact with the instant it became  *)
(* available, one action per QuestDB call.  Markers of appends in doubt    *)
(* are remembered by the writer (the record) and by the store (the key),   *)
(* in memory only: a restart forgets both and keeps only the floor, the    *)
(* latest instant then readable.                                           *)
(*                                                                         *)
(* Instants: the wall clock sampled once at start plus the monotonic time  *)
(* since is one reading "projected"; the monotonic clock regresses exactly *)
(* when projected does.  Nothing relates the readings of two processes.    *)
(*                                                                         *)
(* SettleFirst selects how the process is started: TRUE when no append of  *)
(* an earlier process is still undecided on the server, FALSE at any time. *)
(***************************************************************************)
EXTENDS QuestDBTable, Integers, FiniteSets

CONSTANTS Keys,          \* (kind, capture, policy) semantic keys
          Sources,       \* source authority identities
          NoRecord,
          NoKey,
          SettleFirst,
          MaxTime,       \* bound on instants
          MaxFrames      \* bound on published frames

Record == [key : Keys, at : Nat, source : Sources]

ASSUME LedgerAssumption ==
    /\ SettleFirst \in BOOLEAN
    /\ MaxTime \in Nat
    /\ MaxFrames \in Nat
    /\ NoRecord \notin Record
    /\ NoKey \notin Keys

VARIABLES pc,            \* the QuestDB call about to be made
          key, source,   \* arguments of record_proven
          record,        \* the candidate marker
          frame,         \* the frame it was published in
          observed,      \* last clock reading of this process
          latest,        \* max of committed floor and last issued; -1 if none
          writerDoubt,   \* AvailabilityWriter._in_doubt
          storeDoubt,    \* QuestDBAvailabilityStore._in_doubt
          outcome,       \* how the last call ended
          returned       \* history: markers returned for each key

callVars == <<key, source, record, frame>>
processVars == <<observed, latest, writerDoubt, storeDoubt>>
vars == <<tableVars, pc, callVars, processVars, outcome, returned>>

PCs == {"down", "idle", "find", "store_find", "publish", "await", "wait_wal",
        "verify"}

Outcomes == {"none", "running", "started", "returned", "crashed",
             "definite_prepublication_failure", "definite_rejection",
             "in_doubt", "invariant_conflict", "source_unavailable"}

TypeOK ==
    /\ TableTypeOK(Record)
    /\ pc \in PCs
    /\ key \in Keys \cup {NoKey}
    /\ source \in Sources \cup {NoKey}
    /\ record \in Record \cup {NoRecord}
    /\ frame \in Nat
    /\ observed \in Nat
    /\ latest \in Nat \cup {-1}
    /\ writerDoubt \in [Keys -> Record \cup {NoRecord}]
    /\ storeDoubt \subseteq Keys
    /\ outcome \in Outcomes
    /\ returned \in [Keys -> SUBSET Record]

Init ==
    /\ TableInit
    /\ pc = "down"
    /\ key = NoKey /\ source = NoKey /\ record = NoRecord /\ frame = 0
    /\ observed = 0 /\ latest = -1
    /\ writerDoubt = [k \in Keys |-> NoRecord] /\ storeDoubt = {}
    /\ outcome = "none"
    /\ returned = [k \in Keys |-> {}]

-----------------------------------------------------------------------------
KeyRows(k) == {w \in rows : w.row.key = k}

(* find: nothing, one record, or a conflict.                               *)
Sole(S) == {w \in S : S = {w}}

Many(S) == Cardinality(S) > 1

Unsettled == inflight \cup wal

Goto(label) == pc' = label /\ UNCHANGED <<outcome, returned>>

End(label, result) == pc' = label /\ outcome' = result /\ UNCHANGED returned

Raise(code) == End("idle", code)

Return(m) ==
    /\ pc' = "idle"
    /\ outcome' = "returned"
    /\ returned' = [returned EXCEPT ![key] = @ \cup {m}]

(* The store reports an append in doubt: it remembers the key, and the     *)
(* writer the exact record.                                                *)
AppendForgotten ==                \* mutant: the doubt is not remembered
    /\ Raise("in_doubt")
    /\ UNCHANGED <<storeDoubt, writerDoubt>>

AppendInStoreDoubt ==             \* mutant: only the store remembers it
    /\ Raise("in_doubt")
    /\ storeDoubt' = storeDoubt \cup {key}
    /\ UNCHANGED writerDoubt

AppendTrusted ==                  \* mutant: the marker is handed back anyway
    /\ Return(record)
    /\ UNCHANGED <<storeDoubt, writerDoubt>>

AppendInDoubt ==
    /\ Raise("in_doubt")
    /\ storeDoubt' = storeDoubt \cup {key}
    /\ writerDoubt' = [writerDoubt EXCEPT ![key] = record]

-----------------------------------------------------------------------------
(* AvailabilityWriter.__init__: sample the clocks, read the floor over all *)
(* readable markers; a duplicate key anywhere refuses the start.           *)
Duplicates == \E v, w \in rows : v # w /\ v.row.key = w.row.key

NoFloor(S) == -1                  \* mutant: every start begins a new time
Latest(S) ==
    IF S = {} THEN -1
    ELSE (CHOOSE w \in S : \A v \in S : v.row.at <= w.row.at).row.at

Start ==
    /\ pc = "down"
    /\ SettleFirst => Unsettled = {}
    /\ \/ End("down", "source_unavailable") /\ UNCHANGED processVars
       \/ /\ Duplicates
          /\ End("down", "invariant_conflict")
          /\ UNCHANGED processVars
       \/ /\ ~Duplicates
          /\ \E wall \in 0..MaxTime : observed' = wall
          /\ latest' = Latest(rows)
          /\ writerDoubt' = [k \in Keys |-> NoRecord]
          /\ storeDoubt' = {}
          /\ End("idle", "started")
    /\ UNCHANGED <<tableVars, callVars>>

(* record_proven is entered with a freshly proven fact.                    *)
Call(k, s) ==
    /\ pc = "idle"
    /\ pc' = "find"
    /\ key' = k
    /\ source' = s
    /\ record' = NoRecord
    /\ frame' = 0
    /\ outcome' = "running"
    /\ UNCHANGED <<tableVars, processVars, returned>>

(* _next_proof_time: never at or before the floor or the last issued.      *)
InstantReused(projected) ==       \* mutant: the latest instant is free again
    IF projected < latest THEN latest + 1 ELSE projected
ProofTime(projected) == IF projected <= latest THEN latest + 1 ELSE projected

Compatible(m) == m.source = source

FindExisting(m) ==
    IF \/ writerDoubt[key] # NoRecord /\ m # writerDoubt[key]
       \/ ~Compatible(m)
    THEN Raise("invariant_conflict") /\ UNCHANGED writerDoubt
    ELSE Return(m) /\ writerDoubt' = [writerDoubt EXCEPT ![key] = NoRecord]

Issue ==
    \E projected \in 0..MaxTime :
        IF projected < observed
        THEN /\ Raise("source_unavailable")
             /\ UNCHANGED <<observed, latest, record>>
        ELSE /\ ProofTime(projected) <= MaxTime
             /\ observed' = projected
             /\ latest' = ProofTime(projected)
             /\ record' = [key |-> key, at |-> ProofTime(projected), source |-> source]
             /\ Goto("store_find")

NeverInDoubt(k) == FALSE          \* mutant: the writer's doubts are not read
InDoubt(k) == writerDoubt[k] # NoRecord

Find ==
    /\ pc = "find"
    /\ \/ Raise("source_unavailable") /\ UNCHANGED <<processVars, record>>
       \/ /\ Many(KeyRows(key))
          /\ Raise("invariant_conflict")
          /\ UNCHANGED <<processVars, record>>
       \/ \E w \in Sole(KeyRows(key)) :
          /\ FindExisting(w.row)
          /\ UNCHANGED <<observed, latest, storeDoubt, record>>
       \/ /\ KeyRows(key) = {}
          /\ InDoubt(key)
          /\ Raise("in_doubt")
          /\ UNCHANGED <<processVars, record>>
       \/ /\ KeyRows(key) = {}
          /\ ~InDoubt(key)
          /\ Issue
          /\ UNCHANGED <<writerDoubt, storeDoubt>>
    /\ UNCHANGED <<tableVars, key, source, frame>>

(* The key is readable as exactly the candidate, once.                     *)
OnlyRecord == \E w \in Sole(KeyRows(key)) : w.row = record

(* The store looks the key up again before it appends.                     *)
StoreFind ==
    /\ pc = "store_find"
    /\ \/ Raise("source_unavailable") /\ UNCHANGED writerDoubt
       \/ /\ KeyRows(key) # {} /\ ~OnlyRecord
          /\ Raise("invariant_conflict")
          /\ UNCHANGED writerDoubt
       \/ /\ OnlyRecord
          /\ Return(record)
          /\ UNCHANGED writerDoubt
       \/ /\ KeyRows(key) = {}
          /\ IF key \in storeDoubt
             THEN /\ Raise("in_doubt")
                  /\ writerDoubt' = [writerDoubt EXCEPT ![key] = record]
             ELSE /\ Goto("publish")
                  /\ UNCHANGED writerDoubt
    /\ UNCHANGED <<tableVars, callVars, observed, latest, storeDoubt>>

(* sender.row and flush.  An error before the FSN says in_doubt or not;    *)
(* only the writer remembers that kind of doubt.  A missing FSN is         *)
(* remembered by both.  Past MaxFrames nothing more is published.          *)
PublishOnce ==
    /\ pc = "publish"
    /\ \/ /\ Raise("definite_prepublication_failure")
          /\ UNCHANGED <<tableVars, frame, writerDoubt, storeDoubt>>
       \/ /\ Raise("in_doubt")
          /\ writerDoubt' = [writerDoubt EXCEPT ![key] = record]
          /\ UNCHANGED <<frame, storeDoubt>>
          /\ UNCHANGED tableVars \/ (frames < MaxFrames /\ Publish(record))
       \/ /\ AppendInDoubt
          /\ UNCHANGED frame
          /\ UNCHANGED tableVars \/ (frames < MaxFrames /\ Publish(record))
       \/ /\ frames < MaxFrames
          /\ Publish(record)
          /\ frame' = frames + 1
          /\ Goto("await")
          /\ UNCHANGED <<writerDoubt, storeDoubt>>
    /\ UNCHANGED <<key, source, record, observed, latest>>

OwnFrame == [n |-> frame, row |-> record]

(* Anything but a plain acknowledgement is in doubt, except a terminal     *)
(* rejection seen together with the advanced acknowledgement watermark.    *)
Await ==
    /\ pc = "await"
    /\ \/ AppendInDoubt /\ UNCHANGED tableVars
       \/ /\ Raise("definite_rejection")
          /\ TerminallyReject(OwnFrame)
          /\ UNCHANGED <<writerDoubt, storeDoubt>>
       \/ /\ Acknowledged(OwnFrame)
          /\ Goto("wait_wal")
          /\ UNCHANGED <<tableVars, writerDoubt, storeDoubt>>
    /\ UNCHANGED <<callVars, observed, latest>>

(* As in DataTruth: nothing bounds the wait.                               *)
WaitWal ==
    /\ pc = "wait_wal"
    /\ \/ AppendInDoubt
       \/ /\ OwnFrame \in rows
          /\ Goto("verify")
          /\ UNCHANGED <<writerDoubt, storeDoubt>>
    /\ UNCHANGED <<tableVars, callVars, observed, latest>>

(* The store's exact verification.  A read error or a conflict leaves the  *)
(* key in the store's doubts but not in the writer's.                      *)
Verify ==
    /\ pc = "verify"
    /\ \/ /\ Raise("source_unavailable")
          /\ storeDoubt' = storeDoubt \cup {key}
          /\ UNCHANGED writerDoubt
       \/ IF KeyRows(key) = {} THEN AppendInDoubt
          ELSE IF OnlyRecord
          THEN Return(record) /\ UNCHANGED <<writerDoubt, storeDoubt>>
          ELSE /\ Raise("invariant_conflict")
               /\ storeDoubt' = storeDoubt \cup {key}
               /\ UNCHANGED writerDoubt
    /\ UNCHANGED <<tableVars, callVars, observed, latest>>

Crash ==
    /\ pc # "down"
    /\ End("down", "crashed")
    /\ UNCHANGED <<tableVars, callVars, processVars>>

Environment ==
    /\ Server
    /\ UNCHANGED <<pc, callVars, processVars, outcome, returned>>

Program == Find \/ StoreFind \/ PublishOnce \/ Await \/ WaitWal \/ Verify

Next ==
    \/ Start
    \/ \E k \in Keys, s \in Sources : Call(k, s)
    \/ Program
    \/ Crash
    \/ Environment

Spec == Init /\ [][Next]_vars

-----------------------------------------------------------------------------
(* record_proven never hands out two different markers for one key, across *)
(* retries, doubts, restarts and clock steps: a marker is only returned    *)
(* when it is the single readable row of its key.                          *)
MarkerIsStable ==
    \A k \in Keys : \A m, n \in returned[k] : m = n

(* "Exactly one row per semantic key": a second one makes every lookup of  *)
(* the key, and the floor read of every later start, fail for ever.        *)
OneMarkerPerKey ==
    \A v, w \in Published : v.row.key = w.row.key => v = w

(* A marker is published with an instant after every readable marker's, so *)
(* no reader that already used a cutoff at or below the latest marker can  *)
(* have missed it.                                                         *)
NewMarkersAreLatest ==
    [][\A w \in Published' \ Published : \A v \in rows : v.row.at < w.row.at]_vars

(* A marker that becomes readable after a later one, which moves the past  *)
(* of an as-of reader, is always one the writer has reported in doubt.     *)
LateMarkersAreInDoubt ==
    [][\A w \in rows' \ rows :
          (\E v \in rows : v.row.at >= w.row.at) =>
              writerDoubt[w.row.key] = w.row]_vars

(* A key in doubt stays in doubt until the very marker it remembers is     *)
(* readable, or the process ends: neither an answer for another key nor a  *)
(* rejection nobody heard of (questdb_availability.py:103) makes the       *)
(* writer issue another marker for it.                                     *)
DoubtEndsWithItsMarker ==
    [][\A k \in Keys :
          writerDoubt[k] \notin {NoRecord, writerDoubt'[k]} =>
              \/ pc = "down"
              \/ \E w \in rows : w.row = writerDoubt[k]]_vars

(* The detailed ledger implements the abstract one: the marker of a key is *)
(* its one readable row.                                                   *)
ReadableMarker(k) ==
    IF KeyRows(k) = {} THEN NoRecord ELSE (CHOOSE w \in KeyRows(k) : TRUE).row

Promise == INSTANCE MarkerLedger WITH
    marker <- [k \in Keys |-> ReadableMarker(k)], told <- returned

ImplementsLedger == Promise!Spec
=============================================================================
