-------------------------------- MODULE Replay --------------------------------
(***************************************************************************)
(* ReplayAsOf.read (service.py) over QuestDBReplaySource                   *)
(* (questdb_source.py), and a client that walks the pages of one view.     *)
(*                                                                         *)
(* A read is a sequence of queries without a transaction around them: the  *)
(* decision rows, then for each row its fact, its evidence marker and its  *)
(* authority marker.  Each query is one step, and the recorder's own steps *)
(* interleave with them.  Any query may fail.                              *)
(***************************************************************************)
EXTENDS ReplayLedger, Sequences

CONSTANT Requests        \* the requests the client asks

VARIABLES pc,            \* where the read is
          call,          \* its request, page size and cursor
          rows,          \* decision rows its first query returned
          read,          \* how many of them it has visited
          current,       \* the candidate it is building
          candidates,    \* the candidates it has built
          view,          \* the last view answered
          walk           \* the client's walk over one request

reader == <<pc, call, rows, read, current, candidates>>
vars == <<ledgerVars, reader, view, walk>>

Cursor == [request : Requests, last : Seq(Int),
           snapshot : [request : Requests, members : SUBSET ReplayFacts]]

(* The client asks something, and None is no cursor.                       *)
ASSUME RequestAssumption ==
    /\ Requests \subseteq AsOfRequest /\ Requests # {}
    /\ NoCursor \notin Cursor

NoRows == [f \in ReplayFacts |-> 0]
NoCall == [request |-> CHOOSE r \in Requests : TRUE, size |-> 1,
           cursor |-> NoCursor, settled |-> FALSE, conflicts |-> {}]
NoWalk == [status |-> "none", request |-> NoCall.request, cursor |-> NoCursor,
           delivered |-> {}, repeated |-> FALSE, members |-> {}]
NoView == [request |-> NoCall.request, members |-> {}, exclusions |-> {},
           conflicts |-> {}, settled |-> FALSE]

Init ==
    /\ LedgerInit
    /\ pc = "idle"
    /\ call = NoCall
    /\ rows = NoRows /\ read = NoRows
    /\ current = {} /\ candidates = {}
    /\ view = NoView
    /\ walk = NoWalk

-----------------------------------------------------------------------------
(* The cutoff is settled once no marker at or before it can still appear:  *)
(* none is under way or in doubt there, the running writer is past it, and *)
(* a readable marker keeps every later writer past it.                     *)
Settled(r) ==
    /\ \E m \in markers : m.at >= r.cutoff
    /\ latest >= r.cutoff
    /\ \A m \in doubtful : m.at > r.cutoff

(* Decided facts the tables contradict themselves about.                   *)
Conflicts == {f \in ReplayFacts :
    \/ decisions[f] > 1
    \/ /\ decisions[f] = 1
       /\ \E kind \in {"evidence", "authority"} :
             Cardinality(MarkersOf(markers, kind, f)) > 1}

(* A read that raises leaves nothing behind.  The walk survives a mistaken *)
(* call and SOURCE_UNAVAILABLE, and no other error.                        *)
OfTheWalk == call.cursor # NoCursor /\ call.request = walk.request

Finish ==
    /\ pc' = "idle"
    /\ call' = NoCall /\ rows' = NoRows /\ read' = NoRows
    /\ current' = {} /\ candidates' = {}

RaiseUnavailable == Finish /\ UNCHANGED <<walk, view>>

Raise ==
    /\ Finish
    /\ walk' = IF OfTheWalk THEN [walk EXCEPT !.status = "failed"] ELSE walk
    /\ UNCHANGED view

(* An invalid request is refused before any query: nothing happens.        *)
Call(r, size, cursor) ==
    /\ pc = "idle"
    /\ ValidRequest(r, size)
    /\ call' = [NoCall EXCEPT !.request = r, !.size = size, !.cursor = cursor]
    /\ pc' = "truth"
    /\ view' = NoView
    /\ walk' = IF cursor = NoCursor THEN NoWalk ELSE walk
    /\ UNCHANGED <<ledgerVars, rows, read, current, candidates>>

Open == \E r \in Requests, size \in 0..(MaxPageSize + 1) :
    walk.status # "open" /\ Call(r, size, NoCursor)

(* The page size may change between pages, and a client may pass a cursor  *)
(* with a request it does not belong to.                                   *)
ResumeWith(r) == \E size \in 1..MaxPageSize :
    walk.status = "open" /\ Call(r, size, walk.cursor)

Resume == ResumeWith(walk.request)

Mistake == \E r \in Requests \ {walk.request} : ResumeWith(r)

-----------------------------------------------------------------------------
QueryTruth ==
    /\ pc = "truth"
    /\ pc' = "row"
    /\ rows' = decisions
    /\ call' = [call EXCEPT !.settled = Settled(call.request), !.conflicts = Conflicts]
    /\ UNCHANGED <<ledgerVars, read, current, candidates, view, walk>>

Pending == {f \in ReplayFacts : read[f] < rows[f]}

Repeated(f) == read[f] > 0

(* _one_fact: evidence must exist exactly once; the Hot Store's key keeps  *)
(* it from existing twice.                                                 *)
QueryFact(f) ==
    /\ pc = "row"
    /\ f \in Pending
    /\ UNCHANGED ledgerVars
    /\ IF Repeated(f) \/ f \notin evidence
       THEN Raise
       ELSE /\ pc' = "evidence"
            /\ read' = [read EXCEPT ![f] = @ + 1]
            /\ current' = {[fact |-> f, evidence |-> NoTime, authority |-> NoTime]}
            /\ UNCHANGED <<call, rows, candidates, view, walk>>

(* _availability: no marker, or the one instant; a key with two is not     *)
(* read.                                                                   *)
AnyMarkerWillDo(kind, c) == FALSE          \* mutant: the first row is taken
Ambiguous(kind, c) == Cardinality(MarkersOf(markers, kind, c.fact)) > 1

Instant(kind, c) ==
    LET found == MarkersOf(markers, kind, c.fact)
    IN  IF found = {} THEN NoTime ELSE (CHOOSE m \in found : TRUE).at

QueryEvidence ==
    /\ pc = "evidence"
    /\ UNCHANGED ledgerVars
    /\ \E c \in current :
          IF Ambiguous("evidence", c) THEN Raise
          ELSE /\ pc' = "authority"
               /\ current' = {[c EXCEPT !.evidence = Instant("evidence", c)]}
               /\ UNCHANGED <<call, rows, read, candidates, view, walk>>

QueryAuthority ==
    /\ pc = "authority"
    /\ UNCHANGED ledgerVars
    /\ \E c \in current :
          IF Ambiguous("authority", c) THEN Raise
          ELSE /\ pc' = "row"
               /\ candidates' = candidates \cup
                      {[c EXCEPT !.authority = Instant("authority", c)]}
               /\ current' = {}
               /\ UNCHANGED <<call, rows, read, view, walk>>

(* SOURCE_UNAVAILABLE: the connection, the schema or a query.  A snapshot  *)
(* that cannot be reproduced has the same code (Answer), so a client that  *)
(* retries the one retries the other.                                      *)
Fail ==
    /\ pc \in {"truth", "evidence", "authority"} \/ (pc = "row" /\ Pending # {})
    /\ RaiseUnavailable
    /\ UNCHANGED ledgerVars

-----------------------------------------------------------------------------
DriftAccepted(snapshot) == FALSE           \* mutant: membership may change
Drifted(snapshot) == call.cursor.snapshot # snapshot

CursorMismatch == call.cursor # NoCursor /\ call.cursor.request # call.request

(* _qualify compares the subjects in scope once more.                      *)
Conflicting == \E f \in ReplayFacts : InScope(f, call.request) /\ read[f] > 1

Facts(C) == {c.fact : c \in C}

Deliver(selected, page, next) ==
    LET first == call.cursor = NoCursor IN
    walk' = [status |-> IF next = NoCursor THEN "done" ELSE "open",
             request |-> call.request,
             cursor |-> next,
             delivered |-> Facts(page) \cup (IF first THEN {} ELSE walk.delivered),
             repeated |-> ~first /\ (walk.repeated \/ Facts(page) \cap walk.delivered # {}),
             members |-> IF first THEN Facts(selected) ELSE walk.members]

(* read, after the source has returned its candidates.                     *)
Answer ==
    /\ pc = "row" /\ Pending = {}
    /\ UNCHANGED ledgerVars
    /\ LET r == call.request
           selected == Selected(candidates, r)
           snapshot == Snapshot(selected, r)
           continued == ContinueAfter(selected, r, call.cursor)
           page == Page(continued, r, call.size)
       IN  IF Conflicting \/ UnsupportedEventTime(candidates, r)
           THEN Raise
           ELSE IF CursorMismatch
           THEN Raise
           ELSE IF call.cursor # NoCursor /\ Drifted(snapshot)
           THEN RaiseUnavailable
           ELSE /\ Deliver(selected, page, NextCursor(continued, page, r, snapshot))
                /\ view' = [request |-> r, members |-> Facts(selected),
                            exclusions |-> Facts(Excluded(candidates, r)),
                            conflicts |-> call.conflicts, settled |-> call.settled]
                /\ Finish
-----------------------------------------------------------------------------
Query == QueryTruth \/ (\E f \in ReplayFacts : QueryFact(f)) \/ QueryEvidence \/ QueryAuthority

Next ==
    \/ Open \/ Resume \/ Mistake
    \/ Query \/ Fail \/ Answer
    \/ LedgerStep /\ UNCHANGED <<reader, view, walk>>

(* A read that was called runs on.  The client is one that keeps asking    *)
(* for its next page: no code in the repository walks a view.              *)
Fairness == WF_vars(Query \/ Answer) /\ SF_vars(Resume)

Spec == Init /\ [][Next]_vars /\ Fairness

-----------------------------------------------------------------------------
TypeOK ==
    /\ LedgerTypeOK
    /\ pc \in {"idle", "truth", "row", "evidence", "authority"}
    /\ call \in [request : Requests, size : 1..MaxPageSize,
                 cursor : Cursor \cup {NoCursor}, settled : BOOLEAN,
                 conflicts : SUBSET ReplayFacts]
    /\ rows \in [ReplayFacts -> Nat] /\ read \in [ReplayFacts -> Nat]
    /\ current \subseteq Candidate /\ candidates \subseteq Candidate
    /\ view.members \subseteq ReplayFacts /\ view.exclusions \subseteq ReplayFacts
    /\ walk.status \in {"none", "open", "done", "failed"}
    /\ walk.cursor \in Cursor \cup {NoCursor}
    /\ walk.status = "open" => walk.cursor # NoCursor

(* What the tables, as they are now, put before the cutoff and the window  *)
(* of a request, said without candidates and exclusions.                   *)
AvailableBy(kind, f, cutoff) == \E m \in markers : m.kind = kind /\ m.fact = f /\ m.at <= cutoff

AsOf(r) == {f \in ReplayFacts :
    /\ InScope(f, r) /\ InWindow(f, r)
    /\ f \in evidence /\ decisions[f] > 0
    /\ AvailableBy("evidence", f, r.cutoff)
    /\ AvailableBy("authority", f, r.cutoff)}

(* A view never shows what was not available, as evidence and as authority *)
(* both, by its cutoff: no row, marker or doubt that comes later turns it  *)
(* into a look ahead.                                                      *)
ViewIsPast == view.members \subseteq AsOf(view.request)

(* A view of a settled cutoff is all of the past: although its queries saw *)
(* the tables at different moments, it has every record the tables put     *)
(* before the cutoff, then and ever after, across restarts of the writer   *)
(* and appends that surface late, and excludes none of them.               *)
SettledViewIsExact == view.settled =>
    /\ view.members = AsOf(view.request)
    /\ view.exclusions \cap AsOf(view.request) = {}

(* The pages of one walk are the records of its first snapshot, in order:  *)
(* none twice, none skipped, whatever the page sizes and the calls and     *)
(* failures in between, and all of them when the walk is done.             *)
WalkIsOneSnapshot ==
    /\ walk.delivered \subseteq walk.members
    /\ ~walk.repeated
    /\ \A f \in walk.members \ walk.delivered, g \in walk.delivered :
          Less(OrderingKey(g, walk.request), OrderingKey(f, walk.request))
    /\ walk.status = "done" => walk.delivered = walk.members

(* Two decision rows of one subject, or two markers of one key, fail every *)
(* read that begins after them, even one whose scope leaves the subject    *)
(* out.                                                                    *)
ConflictFailsClosed == view.conflicts = {}

(* Unless the source keeps failing, a walk that is resumed comes to an     *)
(* end, or the tables put more before its cutoff than its snapshot has.    *)
(* Then it may be refused for ever: no later read can give its snapshot    *)
(* again, and the code it is refused with is that of a failing source.     *)
WalkEnds == <>[][~Fail]_vars =>
    ((walk.status = "open") ~> \/ walk.status # "open"
                               \/ AsOf(walk.request) # walk.members)
=============================================================================
