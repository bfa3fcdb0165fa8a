------------------------------ MODULE ReplayProofs ------------------------------
(***************************************************************************)
(* Proofs about Replay for every set of facts and requests, every page     *)
(* size and every bound of the ledger.                                     *)
(***************************************************************************)
EXTENDS Replay, FiniteSetTheorems, TLAPS

Kinds == {"evidence", "authority"}

-----------------------------------------------------------------------------
(* The inductive invariant, part by part.                                  *)
Shape ==
    /\ TypeOK
    /\ IsFiniteSet(markers) /\ IsFiniteSet(candidates)
    /\ view \in [request : Requests, members : SUBSET ReplayFacts,
                 exclusions : SUBSET ReplayFacts, conflicts : SUBSET ReplayFacts,
                 settled : BOOLEAN]
    /\ walk \in [status : {"none", "open", "done", "failed"},
                 request : Requests, cursor : Cursor \cup {NoCursor},
                 delivered : SUBSET ReplayFacts, repeated : BOOLEAN,
                 members : SUBSET ReplayFacts]

(* A marker, in doubt or not, is of something readable.                    *)
LedgerInv == \A m \in markers \cup doubtful : Proof(m.kind, m.fact)

Reading == pc \in {"row", "evidence", "authority"}

OnRecord(kind, f, at) == \E m \in markers : m.kind = kind /\ m.fact = f /\ m.at = at

(* What the read holds was in the tables when it was read, so it still is. *)
ReadInv ==
    /\ ~Reading => rows = NoRows /\ read = NoRows /\ candidates = {}
    /\ pc \notin {"evidence", "authority"} => current = {}
    /\ \A c, d \in current : c = d
    /\ pc = "evidence" => \A c \in current : c.evidence = NoTime
    /\ \A c \in current : c.authority = NoTime
    /\ \A f \in ReplayFacts : read[f] <= 1 /\ rows[f] <= decisions[f]
    /\ \A f \in ReplayFacts : read[f] > 0 => \E c \in candidates \cup current : c.fact = f
    /\ \A c \in candidates \cup current :
          /\ Proof("evidence", c.fact) /\ Proof("authority", c.fact)
          /\ \A kind \in Kinds : c[kind] # NoTime => OnRecord(kind, c.fact, c[kind])

(* A candidate has an instant by the cutoff for each marker that has.      *)
Seen(c, kind, cutoff) ==
    AvailableBy(kind, c.fact, cutoff) => c[kind] # NoTime /\ c[kind] <= cutoff

(* A read that began at a settled cutoff misses nothing of its past.       *)
SettledInv == Reading /\ call.settled =>
    /\ Settled(call.request)
    /\ \A f \in ReplayFacts :
          AvailableBy("authority", f, call.request.cutoff) => rows[f] > 0
    /\ \A c \in candidates, kind \in Kinds : Seen(c, kind, call.request.cutoff)
    /\ pc = "authority" => \A c \in current : Seen(c, "evidence", call.request.cutoff)

Twice(kind, f) == Cardinality(MarkersOf(markers, kind, f)) > 1

(* A contradiction the read began with is still ahead of it.               *)
ConflictInv == Reading => \A f \in call.conflicts :
    /\ rows[f] > 1 \/ (rows[f] = 1 /\ \E kind \in Kinds : Twice(kind, f))
    /\ (\E c \in candidates : c.fact = f) => rows[f] > 1
    /\ pc = "authority" /\ (\E c \in current : c.fact = f) => rows[f] > 1 \/ Twice("authority", f)

ViewInv ==
    /\ ViewIsPast
    /\ view.settled => Settled(view.request)
    /\ SettledViewIsExact
    /\ ConflictFailsClosed

(* A key is comparable: a strict event order has provider timestamps.      *)
Keyed(f, r) == f \in ReplayFacts /\ (r.ordering = "strict_event" => f.provider # NoTime)

(* The cursor of an open walk cuts its snapshot behind what was delivered. *)
WalkInv ==
    /\ WalkIsOneSnapshot
    /\ \A f \in walk.members : Keyed(f, walk.request)
    /\ walk.status = "open" =>
          /\ walk.cursor.request = walk.request
          /\ walk.cursor.snapshot = [request |-> walk.request, members |-> walk.members]
          /\ \E h \in walk.members : walk.cursor.last = OrderingKey(h, walk.request)
          /\ \A f \in walk.members : f \in walk.delivered <=>
                ~Less(walk.cursor.last, OrderingKey(f, walk.request))
    /\ call.cursor # NoCursor => walk.status = "open" /\ call.cursor = walk.cursor

ReplayInv ==
    Shape /\ LedgerInv /\ ReadInv /\ SettledInv /\ ConflictInv /\ ViewInv /\ WalkInv

-----------------------------------------------------------------------------
(* The order of a page.                                                    *)
LEMMA LessOfPairs ==
    ASSUME NEW k, NEW l, DOMAIN k = {1, 2}
    PROVE  Less(k, l) <=> k[1] < l[1] \/ (k[1] = l[1] /\ k[2] < l[2])
<1>1. 1..(1 - 1) = {} /\ 1..(2 - 1) = {1}
  OBVIOUS
<1>2. Less(k, l) <=> \/ k[1] < l[1] /\ \A j \in 1..(1 - 1) : k[j] = l[j]
                     \/ k[2] < l[2] /\ \A j \in 1..(2 - 1) : k[j] = l[j]
  BY DEF Less
<1> QED BY <1>1, <1>2

LEMMA LessOfTriples ==
    ASSUME NEW k, NEW l, DOMAIN k = {1, 2, 3}
    PROVE  Less(k, l) <=>
               k[1] < l[1] \/ (k[1] = l[1] /\ (k[2] < l[2] \/ (k[2] = l[2] /\ k[3] < l[3])))
<1>1. 1..(1 - 1) = {} /\ 1..(2 - 1) = {1} /\ 1..(3 - 1) = {1, 2}
  OBVIOUS
<1>2. Less(k, l) <=> \/ k[1] < l[1] /\ \A j \in 1..(1 - 1) : k[j] = l[j]
                     \/ k[2] < l[2] /\ \A j \in 1..(2 - 1) : k[j] = l[j]
                     \/ k[3] < l[3] /\ \A j \in 1..(3 - 1) : k[j] = l[j]
  BY DEF Less
<1> QED BY <1>1, <1>2

(* Ordering keys of comparable facts are strictly and totally ordered: the *)
(* capture identifier breaks every tie.                                    *)
LEMMA KeysAreOrdered ==
    ASSUME NEW r \in AsOfRequest, NEW f, NEW g, NEW h,
           Keyed(f, r), Keyed(g, r), Keyed(h, r)
    PROVE  /\ ~Less(OrderingKey(f, r), OrderingKey(f, r))
           /\ Less(OrderingKey(f, r), OrderingKey(g, r)) /\ Less(OrderingKey(g, r), OrderingKey(h, r))
                 => Less(OrderingKey(f, r), OrderingKey(h, r))
           /\ Less(OrderingKey(f, r), OrderingKey(g, r)) \/ Less(OrderingKey(g, r), OrderingKey(f, r))
                 \/ f = g
<1>1. \A x \in {f, g, h} : /\ x \in ReplayFacts /\ x.received \in Int /\ x.capture_id \in Int
                           /\ r.ordering # "arrival" => x.provider \in Int
  BY ReplayAssumption DEF Keyed, ReplayFact, AsOfRequest
<1>2. f.capture_id = g.capture_id => f = g
  BY <1>1, ReplayAssumption
<1> DEFINE k(x) == OrderingKey(x, r)
<1>3. CASE r.ordering = "arrival"
  <2>1. \A x : DOMAIN k(x) = {1, 2} /\ k(x)[1] = x.received /\ k(x)[2] = x.capture_id
    BY <1>3 DEF OrderingKey
  <2> HIDE DEF k
  <2>2. \A x, y : Less(k(x), k(y)) <=>
            x.received < y.received \/ (x.received = y.received /\ x.capture_id < y.capture_id)
    BY <2>1, LessOfPairs
  <2>3. /\ ~Less(k(f), k(f))
        /\ Less(k(f), k(g)) /\ Less(k(g), k(h)) => Less(k(f), k(h))
        /\ Less(k(f), k(g)) \/ Less(k(g), k(f)) \/ f = g
    BY <1>1, <1>2, <2>2
  <2> QED BY <2>3 DEF k
<1>4. CASE r.ordering # "arrival"
  <2>1. \A x : /\ DOMAIN k(x) = {1, 2, 3} /\ k(x)[1] = x.provider
               /\ k(x)[2] = x.received /\ k(x)[3] = x.capture_id
    BY <1>4 DEF OrderingKey
  <2> HIDE DEF k
  <2>2. \A x, y : Less(k(x), k(y)) <=>
            \/ x.provider < y.provider
            \/ /\ x.provider = y.provider
               /\ \/ x.received < y.received
                  \/ x.received = y.received /\ x.capture_id < y.capture_id
    BY <2>1, LessOfTriples
  <2>3. /\ ~Less(k(f), k(f))
        /\ Less(k(f), k(g)) /\ Less(k(g), k(h)) => Less(k(f), k(h))
        /\ Less(k(f), k(g)) \/ Less(k(g), k(f)) \/ f = g
    BY <1>1, <1>2, <1>4, <2>2
  <2> QED BY <2>3 DEF k
<1> QED BY <1>3, <1>4

LEMMA KeyType ==
    ASSUME NEW r \in AsOfRequest, NEW f, Keyed(f, r)
    PROVE  OrderingKey(f, r) \in Seq(Int)
<1>1. /\ f.received \in Int /\ f.capture_id \in Int
      /\ r.ordering # "arrival" => f.provider \in Int
  BY ReplayAssumption DEF Keyed, ReplayFact, AsOfRequest
<1>2. /\ <<f.received, f.capture_id>> \in Seq(Int)
      /\ r.ordering # "arrival" => <<f.provider, f.received, f.capture_id>> \in Seq(Int)
  BY <1>1
<1> QED BY <1>2 DEF OrderingKey

-----------------------------------------------------------------------------
(* Pages.  Comparable candidates in a finite set have a first and a last.  *)
Comparable(S, r) == IsFiniteSet(S) /\ \A c \in S : Keyed(c.fact, r)

Behind(c, d, r) == Less(OrderingKey(c.fact, r), OrderingKey(d.fact, r))

LEMMA BehindOrder ==
    ASSUME NEW r \in AsOfRequest, NEW c, NEW d, NEW e,
           Keyed(c.fact, r), Keyed(d.fact, r), Keyed(e.fact, r)
    PROVE  /\ ~Behind(c, c, r)
           /\ Behind(c, d, r) /\ Behind(d, e, r) => Behind(c, e, r)
           /\ Behind(c, d, r) \/ Behind(d, c, r) \/ c.fact = d.fact
BY KeysAreOrdered DEF Behind

LEMMA Least ==
    ASSUME NEW S, IsFiniteSet(S), S # {}, NEW R,
           \A c \in S : <<c, c>> \notin R,
           \A c, d, e \in S : <<c, d>> \in R /\ <<d, e>> \in R => <<c, e>> \in R
    PROVE  \E c \in S : \A d \in S : <<d, c>> \notin R
<1> DEFINE Below(c) == {d \in S : <<d, c>> \in R}
           T == {Below(c) : c \in S}
<1>1. T \subseteq FiniteSubsetsOf(S) /\ T # {}
  <2>1. \A c \in S : Below(c) \subseteq S /\ IsFiniteSet(Below(c))
    BY FS_Subset
  <2> HIDE DEF Below
  <2> QED BY <2>1 DEF FiniteSubsetsOf
<1>2. PICK x \in T : \A y \in T : <<y, x>> \notin StrictSubsetOrdering(S)
  <2> HIDE DEF T
  <2> QED BY <1>1, WFMin, FS_StrictSubsetOrderingWellFounded
<1>3. PICK c \in S : x = Below(c)
  OBVIOUS
<1>4. ASSUME NEW d \in S, <<d, c>> \in R PROVE FALSE
  <2>1. Below(d) \subseteq Below(c) /\ d \in Below(c) /\ d \notin Below(d)
    BY <1>4
  <2>2. <<Below(d), x>> \in StrictSubsetOrdering(S)
    BY <2>1, <1>3 DEF StrictSubsetOrdering
  <2> QED BY <2>2, <1>2
<1> QED BY <1>4

LEMMA FirstAndLast ==
    ASSUME NEW r \in AsOfRequest, NEW S, Comparable(S, r), S # {}
    PROVE  /\ \E c \in S : \A d \in S : ~Behind(d, c, r)
           /\ \E c \in S : \A d \in S : ~Behind(c, d, r)
<1> DEFINE Up == {p \in S \X S : Behind(p[1], p[2], r)}
           Down == {p \in S \X S : Behind(p[2], p[1], r)}
<1>1. /\ \A c \in S : ~Behind(c, c, r)
      /\ \A c, d, e \in S : Behind(c, d, r) /\ Behind(d, e, r) => Behind(c, e, r)
  BY BehindOrder DEF Comparable
<1>2. \A c, d \in S : /\ <<c, d>> \in Up <=> Behind(c, d, r)
                      /\ <<c, d>> \in Down <=> Behind(d, c, r)
  OBVIOUS
<1> HIDE DEF Up, Down
<1>3. \E c \in S : \A d \in S : <<d, c>> \notin Up
  BY <1>1, <1>2, Least DEF Comparable
<1>4. \E c \in S : \A d \in S : <<d, c>> \notin Down
  BY <1>1, <1>2, Least DEF Comparable
<1> QED BY <1>2, <1>3, <1>4

(* The first page of what is left is a beginning of it, and the cursor's   *)
(* key cuts exactly there.                                                 *)
LEMMA PageIsBeginning ==
    ASSUME NEW r \in AsOfRequest, NEW S, Comparable(S, r), S # {}, NEW size \in Nat \ {0}
    PROVE  /\ \E c \in Page(S, r, size) : LastKey(Page(S, r, size), r) = OrderingKey(c.fact, r)
           /\ \A c \in S : c \in Page(S, r, size) <=>
                  ~Less(LastKey(Page(S, r, size), r), OrderingKey(c.fact, r))
<1> DEFINE P == Page(S, r, size)
<1>0. /\ P \subseteq S
      /\ \A c \in S : IsFiniteSet(Before(S, c, r)) /\ Cardinality(Before(S, c, r)) \in Nat
      /\ \A c \in S : c \in P <=> Cardinality(Before(S, c, r)) < size
      /\ \A c, d \in S : d \in Before(S, c, r) <=> Behind(d, c, r)
  BY FS_Subset, FS_CardinalityType DEF Page, Before, Behind, Comparable
<1>1. P # {}
  <2>1. PICK c \in S : \A d \in S : ~Behind(d, c, r)
    BY FirstAndLast
  <2>2. Before(S, c, r) = {}
    BY <2>1 DEF Before, Behind
  <2>3. Cardinality(Before(S, c, r)) = 0
    BY <2>2, FS_EmptySet
  <2> QED BY <1>0, <2>3
<1>2. Comparable(P, r)
  BY <1>0, FS_Subset DEF Comparable
<1>3. PICK last \in P : /\ \A d \in P : ~Behind(last, d, r)
                        /\ LastKey(P, r) = OrderingKey(last.fact, r)
  <2> DEFINE last == CHOOSE c \in P : \A d \in P :
                        ~Less(OrderingKey(c.fact, r), OrderingKey(d.fact, r))
  <2>1. \E c \in P : \A d \in P : ~Less(OrderingKey(c.fact, r), OrderingKey(d.fact, r))
    BY <1>1, <1>2, FirstAndLast DEF Behind
  <2>2. last \in P /\ \A d \in P : ~Less(OrderingKey(last.fact, r), OrderingKey(d.fact, r))
    BY <2>1
  <2>3. LastKey(P, r) = OrderingKey(last.fact, r)
    BY DEF LastKey
  <2> HIDE DEF last
  <2> QED BY <2>2, <2>3 DEF Behind
<1>4. ASSUME NEW c \in S PROVE c \in P <=> ~Behind(last, c, r)
  <2>0. last \in S /\ Keyed(last.fact, r) /\ Keyed(c.fact, r)
    BY <1>0 DEF Comparable
  <2>1. ASSUME c \notin P, ~Behind(last, c, r) PROVE FALSE
    <3>1. \A d \in S : Behind(d, c, r) => Behind(d, last, r)
      BY <2>0, <2>1, BehindOrder DEF Behind, Comparable
    <3>2. Before(S, c, r) \subseteq Before(S, last, r)
      BY <2>0, <3>1 DEF Before, Behind
    <3>3. Cardinality(Before(S, c, r)) <= Cardinality(Before(S, last, r))
      BY <1>0, <2>0, <3>2, FS_Subset
    <3> QED BY <1>0, <2>0, <2>1, <3>3
  <2> QED BY <1>3, <2>1
<1> HIDE DEF P
<1>5. /\ \E c \in P : LastKey(P, r) = OrderingKey(c.fact, r)
      /\ \A c \in S : c \in P <=> ~Less(LastKey(P, r), OrderingKey(c.fact, r))
  BY <1>3, <1>4 DEF Behind
<1> QED BY <1>5 DEF P

-----------------------------------------------------------------------------
(* The ledger only grows, and nothing new appears by a settled cutoff.     *)
LEMMA LedgerGrows ==
    ASSUME LedgerTypeOK, LedgerInv, IsFiniteSet(markers), LedgerStep \/ UNCHANGED ledgerVars
    PROVE  /\ LedgerTypeOK' /\ LedgerInv' /\ IsFiniteSet(markers)'
           /\ evidence \subseteq evidence' /\ markers \subseteq markers'
           /\ \A f \in ReplayFacts : decisions[f] <= decisions'[f]
           /\ \A m \in markers' \ markers : m \in doubtful \/ latest < m.at
           /\ \A m \in doubtful' \ doubtful : latest < m.at
           /\ latest <= latest' \/ \A m \in markers : m.at <= latest'
<1> USE DEF LedgerTypeOK, LedgerInv, Proof
<1>1. ASSUME NEW f \in ReplayFacts, StoreEvidence(f) \/ DecideFact(f)
      PROVE  /\ evidence' \subseteq ReplayFacts /\ evidence \subseteq evidence'
             /\ decisions' \in [ReplayFacts -> Nat]
             /\ \A g \in ReplayFacts : decisions[g] <= decisions'[g]
             /\ UNCHANGED <<markers, doubtful, latest>>
  BY <1>1 DEF StoreEvidence, DecideFact
<1>2. CASE \E f \in ReplayFacts : StoreEvidence(f) \/ DecideFact(f)
  <2>1. \A m \in markers \cup doubtful : m.fact \in ReplayFacts
    BY DEF Marker
  <2> QED BY <1>1, <1>2, <2>1
<1>3. ASSUME NEW f \in ReplayFacts, NEW kind \in Kinds, NEW at \in 0..MaxTime, Mark(kind, f, at)
      PROVE  /\ LedgerTypeOK' /\ LedgerInv' /\ IsFiniteSet(markers)'
             /\ evidence \subseteq evidence' /\ markers \subseteq markers'
             /\ decisions' = decisions
             /\ \A m \in (markers' \ markers) \cup (doubtful' \ doubtful) : latest < m.at
             /\ latest <= latest'
  <2> DEFINE m == [kind |-> kind, fact |-> f, at |-> at]
  <2>1. m \in Marker /\ m.kind = kind /\ m.fact = f /\ m.at = at
    BY <1>3, LedgerAssumption DEF Marker, Kinds
  <2>2. /\ Proof(kind, f) /\ latest < at /\ latest' = at /\ at \in Nat
        /\ \/ markers' = markers \cup {m} /\ doubtful' = doubtful
           \/ doubtful' = doubtful \cup {m} /\ markers' = markers
        /\ UNCHANGED <<evidence, decisions>>
    BY <1>3, LedgerAssumption DEF Mark
  <2> HIDE DEF m
  <2>3. IsFiniteSet(markers')
    BY <2>2, FS_AddElement
  <2> QED BY <2>1, <2>2, <2>3
<1>4. CASE SettleMarker
  <2>1. PICK m \in doubtful : /\ doubtful' = doubtful \ {m}
                             /\ markers' \in {markers, markers \cup {m}}
                             /\ UNCHANGED <<evidence, decisions, latest>>
    BY <1>4 DEF SettleMarker
  <2>2. IsFiniteSet(markers')
    BY <2>1, FS_AddElement
  <2> QED BY <2>1, <2>2
<1>5. CASE Restart
  <2>1. /\ latest' \in Nat \cup {-1} /\ \A m \in markers : m.at <= latest'
        /\ UNCHANGED <<evidence, decisions, markers, doubtful>>
    BY <1>5 DEF Restart, Floors, Marker
  <2> QED BY <2>1
<1>6. CASE UNCHANGED ledgerVars
  BY <1>6 DEF ledgerVars
<1> QED BY <1>2, <1>3, <1>4, <1>5, <1>6 DEF LedgerStep, Kinds

(* What is readable at or behind a settled cutoff keeps a restarted writer *)
(* past it.                                                                *)
LEMMA SettledStays ==
    ASSUME LedgerTypeOK, LedgerInv, IsFiniteSet(markers), LedgerStep \/ UNCHANGED ledgerVars
    PROVE  \A r \in AsOfRequest : Settled(r) =>
               /\ Settled(r)'
               /\ \A kind, f : AvailableBy(kind, f, r.cutoff)' <=> AvailableBy(kind, f, r.cutoff)
<1> SUFFICES ASSUME NEW r \in AsOfRequest, Settled(r)
             PROVE  /\ Settled(r)'
                    /\ \A kind, f : AvailableBy(kind, f, r.cutoff)' <=> AvailableBy(kind, f, r.cutoff)
  OBVIOUS
<1>1. /\ \A m \in markers \cup doubtful \cup markers' \cup doubtful' : m.at \in Nat
      /\ r.cutoff \in Nat /\ latest \in Int /\ latest' \in Int
  BY LedgerGrows DEF LedgerTypeOK, Marker, AsOfRequest
<1>2. PICK last \in markers : last.at >= r.cutoff
  BY DEF Settled
<1>3. \A m \in (markers' \ markers) \cup doubtful' : m.at > r.cutoff
  <2>1. latest >= r.cutoff /\ \A m \in doubtful : m.at > r.cutoff
    BY DEF Settled
  <2> QED BY <1>1, <2>1, LedgerGrows
<1>4. markers \subseteq markers'
  BY LedgerGrows
<1>5. latest' >= r.cutoff
  <2>1. latest >= r.cutoff /\ last.at \in Nat
    BY <1>1 DEF Settled
  <2>2. latest <= latest' \/ last.at <= latest'
    BY LedgerGrows
  <2> QED BY <1>1, <1>2, <2>1, <2>2
<1> QED BY <1>1, <1>2, <1>3, <1>4, <1>5 DEF Settled, AvailableBy

(* A second marker of a key stays a second one.                            *)
LEMMA TwiceStays ==
    ASSUME LedgerTypeOK, LedgerInv, IsFiniteSet(markers), LedgerStep \/ UNCHANGED ledgerVars,
           NEW kind, NEW f, Twice(kind, f)
    PROVE  Twice(kind, f)'
<1> DEFINE S == MarkersOf(markers, kind, f)
           T == MarkersOf(markers', kind, f)
<1>1. S \subseteq T /\ IsFiniteSet(T)
  BY LedgerGrows, FS_Subset DEF MarkersOf
<1>2. IsFiniteSet(S) /\ Cardinality(S) <= Cardinality(T)
  BY <1>1, FS_Subset
<1>3. Cardinality(S) \in Nat /\ Cardinality(T) \in Nat
  BY <1>1, <1>2, FS_CardinalityType
<1>4. Cardinality(S) > 1 /\ (Twice(kind, f)' <=> Cardinality(T) > 1)
  BY DEF Twice, MarkersOf
<1> QED BY <1>2, <1>3, <1>4

(* A key with no second marker has the one instant its query answers.      *)
LEMMA InstantOfOne ==
    ASSUME LedgerTypeOK, IsFiniteSet(markers), NEW kind, NEW c, ~Ambiguous(kind, c)
    PROVE  /\ Instant(kind, c) \in Nat \cup {NoTime}
           /\ Instant(kind, c) # NoTime => OnRecord(kind, c.fact, Instant(kind, c))
           /\ \A m \in markers : m.kind = kind /\ m.fact = c.fact =>
                  Instant(kind, c) = m.at /\ Instant(kind, c) # NoTime
<1> DEFINE S == MarkersOf(markers, kind, c.fact)
           one == CHOOSE m \in S : TRUE
<1>1. S \subseteq markers /\ IsFiniteSet(S) /\ \A m \in S : m.kind = kind /\ m.fact = c.fact
  BY FS_Subset DEF MarkersOf
<1>2. \A m \in S : m.at \in Nat /\ m.at # NoTime
  BY <1>1, ReplayAssumption DEF LedgerTypeOK, Marker
<1>3. Instant(kind, c) = IF S = {} THEN NoTime ELSE one.at
  BY DEF Instant
<1>4. S # {} => one \in S
  OBVIOUS
<1>5. \A m, n \in S : m = n
  <2>1. ~(Cardinality(S) > 1)
    BY DEF Ambiguous
  <2>2. Cardinality(S) \in Nat
    BY <1>1, FS_CardinalityType
  <2>3. S = {} \/ \E m : S = {m}
    <3>1. Cardinality(S) = 0 \/ Cardinality(S) = 1
      BY <2>1, <2>2
    <3> HIDE DEF S
    <3> QED BY <1>1, <3>1, FS_EmptySet, FS_Singleton
  <2> QED BY <2>3
<1> HIDE DEF one
<1>6. \A m \in markers : m.kind = kind /\ m.fact = c.fact => m \in S
  BY DEF MarkersOf
<1> HIDE DEF S
<1> QED BY <1>1, <1>2, <1>3, <1>4, <1>5, <1>6 DEF OnRecord

-----------------------------------------------------------------------------
(* The initial state.                                                      *)
LEMMA Sentinels ==
    /\ NoCall.request \in Requests /\ NoCall.size \in 1..MaxPageSize
    /\ NoCall \in [request : Requests, size : 1..MaxPageSize,
                   cursor : Cursor \cup {NoCursor}, settled : BOOLEAN,
                   conflicts : SUBSET ReplayFacts]
    /\ NoWalk \in [status : {"none", "open", "done", "failed"},
                   request : Requests, cursor : Cursor \cup {NoCursor},
                   delivered : SUBSET ReplayFacts, repeated : BOOLEAN,
                   members : SUBSET ReplayFacts]
    /\ NoView \in [request : Requests, members : SUBSET ReplayFacts,
                   exclusions : SUBSET ReplayFacts, conflicts : SUBSET ReplayFacts,
                   settled : BOOLEAN]
<1>1. (CHOOSE r \in Requests : TRUE) \in Requests
  BY RequestAssumption
<1>2. 1 \in 1..MaxPageSize
  BY ReplayAssumption
<1> QED BY <1>1, <1>2 DEF NoCall, NoWalk, NoView

LEMMA InitLedger == LedgerInit => LedgerTypeOK /\ IsFiniteSet(markers) /\ LedgerInv
<1> SUFFICES ASSUME LedgerInit PROVE LedgerTypeOK /\ IsFiniteSet(markers) /\ LedgerInv
  OBVIOUS
<1> DEFINE E(f) == [kind |-> "evidence", fact |-> f, at |-> 2 * f.capture_id]
           A(f) == [kind |-> "authority", fact |-> f, at |-> 2 * f.capture_id + 1]
<1>1. \A f \in ReplayFacts : f.capture_id \in Nat
  BY ReplayAssumption DEF ReplayFact
<1>2. IsFiniteSet(Recorded)
  BY LedgerAssumption, ReplayAssumption, FS_Subset
<1>3. \A f \in Recorded : E(f) \in Marker /\ A(f) \in Marker
  BY <1>1, LedgerAssumption DEF Marker
<1>4. \A f : E(f).kind = "evidence" /\ E(f).fact = f /\ A(f).kind = "authority" /\ A(f).fact = f
  OBVIOUS
<1>5. markers = {E(f) : f \in Recorded} \cup {A(f) : f \in Recorded} /\ doubtful = {}
  BY DEF LedgerInit
<1> HIDE DEF E, A
<1>6. IsFiniteSet({E(f) : f \in Recorded}) /\ IsFiniteSet({A(f) : f \in Recorded})
  <2> DEFINE Image(g) == {g[f] : f \in Recorded}
             e == [f \in Recorded |-> E(f)]
             a == [f \in Recorded |-> A(f)]
  <2>1. e \in Surjection(Recorded, Image(e)) /\ a \in Surjection(Recorded, Image(a))
    BY DEF Surjection
  <2>2. IsFiniteSet(Image(e)) /\ IsFiniteSet(Image(a))
    BY <1>2, <2>1, FS_Surjection
  <2>3. Image(e) = {E(f) : f \in Recorded} /\ Image(a) = {A(f) : f \in Recorded}
    OBVIOUS
  <2> QED BY <2>2, <2>3
<1>7. IsFiniteSet(markers)
  BY <1>5, <1>6, FS_Union
<1>8. /\ evidence = Recorded
      /\ decisions = [f \in ReplayFacts |-> IF f \in Recorded THEN 1 ELSE 0]
  BY DEF LedgerInit
<1>9. LedgerTypeOK
  <2>1. markers \subseteq Marker
    BY <1>3, <1>5
  <2>2. latest \in Nat \cup {-1}
    BY <2>1 DEF LedgerInit, Floors, Marker
  <2> QED BY <1>3, <1>5, <1>8, <2>2, LedgerAssumption DEF LedgerTypeOK
<1>10. LedgerInv
  BY <1>4, <1>5, <1>8, LedgerAssumption DEF LedgerInv, Proof
<1> QED BY <1>7, <1>9, <1>10

LEMMA InitInv == Init => ReplayInv
<1> SUFFICES ASSUME Init PROVE ReplayInv
  OBVIOUS
<1>1. /\ LedgerTypeOK /\ IsFiniteSet(markers) /\ LedgerInv
      /\ pc = "idle" /\ call = NoCall /\ rows = NoRows /\ read = NoRows
      /\ current = {} /\ candidates = {} /\ view = NoView /\ walk = NoWalk
  BY InitLedger DEF Init
<1>2. /\ NoCall.cursor = NoCursor
      /\ NoView.members = {} /\ NoView.exclusions = {} /\ NoView.conflicts = {} /\ ~NoView.settled
      /\ NoWalk.status = "none" /\ NoWalk.cursor = NoCursor /\ NoWalk.members = {}
      /\ NoWalk.delivered = {} /\ ~NoWalk.repeated
  BY DEF NoCall, NoView, NoWalk
<1>3. NoRows \in [ReplayFacts -> Nat] /\ \A f \in ReplayFacts : NoRows[f] = 0
  BY DEF NoRows
<1>4. Shape
  BY <1>1, <1>2, <1>3, Sentinels, FS_EmptySet DEF Shape, TypeOK
<1>5. ReadInv
  BY <1>1, <1>3 DEF ReadInv, Reading, LedgerTypeOK
<1>6. SettledInv /\ ConflictInv /\ ViewInv /\ WalkInv
  BY <1>1, <1>2 DEF SettledInv, ConflictInv, Reading, ViewInv, ViewIsPast,
     SettledViewIsExact, ConflictFailsClosed, WalkInv, WalkIsOneSnapshot
<1> QED BY <1>1, <1>4, <1>5, <1>6 DEF ReplayInv

-----------------------------------------------------------------------------
(* The recorder's steps between the queries of a read.                     *)
LEMMA ProofStays ==
    ASSUME LedgerTypeOK, LedgerInv, IsFiniteSet(markers), LedgerStep \/ UNCHANGED ledgerVars
    PROVE  /\ \A kind, f : f \in ReplayFacts /\ Proof(kind, f) => Proof(kind, f)'
           /\ \A kind, f, at : OnRecord(kind, f, at) => OnRecord(kind, f, at)'
           /\ \A kind, f, cutoff : AvailableBy(kind, f, cutoff) => AvailableBy(kind, f, cutoff)'
<1>1. /\ evidence \subseteq evidence' /\ markers \subseteq markers'
      /\ \A f \in ReplayFacts : decisions[f] \in Nat /\ decisions'[f] \in Nat
                                /\ decisions[f] <= decisions'[f]
  BY LedgerGrows DEF LedgerTypeOK
<1> QED BY <1>1 DEF Proof, OnRecord, AvailableBy

(* A marker shows its fact to be stored or decided.                        *)
LEMMA AvailableIsProven ==
    ASSUME LedgerTypeOK, LedgerInv, NEW f \in ReplayFacts, NEW cutoff
    PROVE  /\ AvailableBy("evidence", f, cutoff) => f \in evidence
           /\ AvailableBy("authority", f, cutoff) => decisions[f] > 0
BY DEF LedgerInv, AvailableBy, Proof

LEMMA AsOfStays ==
    ASSUME LedgerTypeOK, LedgerInv, IsFiniteSet(markers), LedgerStep \/ UNCHANGED ledgerVars
    PROVE  \A r \in AsOfRequest : /\ AsOf(r) \subseteq AsOf(r)'
                                  /\ Settled(r) => AsOf(r)' = AsOf(r)
<1> SUFFICES ASSUME NEW r \in AsOfRequest
             PROVE  AsOf(r) \subseteq AsOf(r)' /\ (Settled(r) => AsOf(r)' = AsOf(r))
  OBVIOUS
<1>1. AsOf(r) \subseteq AsOf(r)'
  <2>1. /\ evidence \subseteq evidence'
        /\ \A f \in ReplayFacts : decisions[f] \in Nat /\ decisions'[f] \in Nat
                                  /\ decisions[f] <= decisions'[f]
    BY LedgerGrows DEF LedgerTypeOK
  <2> QED BY <2>1, ProofStays DEF AsOf
<1>2. ASSUME Settled(r) PROVE AsOf(r)' \subseteq AsOf(r)
  BY <1>2, SettledStays, AvailableIsProven DEF AsOf
<1> QED BY <1>1, <1>2

LEMMA LedgerKeeps ==
    ASSUME ReplayInv, LedgerStep \/ UNCHANGED ledgerVars, UNCHANGED <<reader, view, walk>>
    PROVE  ReplayInv'
<1>0. /\ Shape /\ TypeOK /\ LedgerTypeOK /\ LedgerInv /\ IsFiniteSet(markers)
      /\ ReadInv /\ SettledInv /\ ConflictInv /\ ViewInv /\ WalkInv
      /\ UNCHANGED <<pc, call, rows, read, current, candidates, view, walk>>
  BY DEF ReplayInv, Shape, TypeOK, reader
<1>1. LedgerTypeOK' /\ LedgerInv' /\ IsFiniteSet(markers)'
  BY <1>0, LedgerGrows
<1>2. call.request \in AsOfRequest /\ view.request \in AsOfRequest
  BY <1>0, RequestAssumption DEF Shape, TypeOK
<1>3. Shape'
  BY <1>0, <1>1 DEF Shape, TypeOK
<1>4. ReadInv'
  <2>1. \A f \in ReplayFacts : /\ rows[f] \in Nat /\ decisions[f] \in Nat /\ decisions'[f] \in Nat
                               /\ decisions[f] <= decisions'[f]
    BY <1>0, <1>1, LedgerGrows DEF TypeOK, LedgerTypeOK
  <2>2. \A c \in candidates \cup current : c.fact \in ReplayFacts
    BY <1>0 DEF TypeOK, Candidate
  <2>3. /\ \A f \in ReplayFacts : rows[f] <= decisions'[f]
        /\ \A c \in candidates \cup current :
              /\ Proof("evidence", c.fact)' /\ Proof("authority", c.fact)'
              /\ \A kind \in Kinds : c[kind] # NoTime => OnRecord(kind, c.fact, c[kind])'
    <3>1. \A f \in ReplayFacts : rows[f] <= decisions'[f]
      BY <1>0, <2>1 DEF ReadInv
    <3>2. ASSUME NEW c \in candidates \cup current
          PROVE  /\ Proof("evidence", c.fact)' /\ Proof("authority", c.fact)'
                 /\ \A kind \in Kinds : c[kind] # NoTime => OnRecord(kind, c.fact, c[kind])'
      BY <1>0, <2>2, ProofStays DEF ReadInv
    <3> QED BY <3>1, <3>2
  <2> QED BY <1>0, <2>3 DEF ReadInv, Reading
<1>5. SettledInv'
  <2>1. ASSUME Settled(call.request)
        PROVE  /\ Settled(call.request)'
               /\ \A kind, f : AvailableBy(kind, f, call.request.cutoff)'
                                  <=> AvailableBy(kind, f, call.request.cutoff)
    BY <1>0, <1>2, <2>1, SettledStays
  <2> QED BY <1>0, <2>1 DEF SettledInv, Reading, Seen
<1>6. ConflictInv'
  <2>1. \A kind, f : Twice(kind, f) => Twice(kind, f)'
    BY <1>0, TwiceStays
  <2> QED BY <1>0, <2>1 DEF ConflictInv, Reading
<1>7. ViewInv'
  <2>1. /\ AsOf(view.request) \subseteq AsOf(view.request)'
        /\ Settled(view.request) => /\ AsOf(view.request)' = AsOf(view.request)
                                    /\ Settled(view.request)'
    BY <1>0, <1>2, AsOfStays, SettledStays
  <2> QED BY <1>0, <2>1 DEF ViewInv, ViewIsPast, SettledViewIsExact, ConflictFailsClosed
<1>8. WalkInv'
  BY <1>0 DEF WalkInv, WalkIsOneSnapshot
<1> QED BY <1>1, <1>3, <1>4, <1>5, <1>6, <1>7, <1>8 DEF ReplayInv

-----------------------------------------------------------------------------
(* The steps of the read.  A call starts with nothing read, and an error   *)
(* leaves nothing read behind.                                             *)
LEMMA CallKeeps ==
    ASSUME ReplayInv, NEW r \in Requests, NEW size, NEW cursor \in {NoCursor, walk.cursor},
           cursor # NoCursor => walk.status = "open", Call(r, size, cursor)
    PROVE  ReplayInv'
<1>0. /\ Shape /\ TypeOK /\ LedgerTypeOK /\ LedgerInv /\ ReadInv /\ WalkInv
      /\ pc = "idle"
  BY DEF ReplayInv, Shape, TypeOK, Call
<1> DEFINE new == [NoCall EXCEPT !.request = r, !.size = size, !.cursor = cursor]
<1>1. /\ size \in 1..MaxPageSize /\ pc' = "truth" /\ call' = new /\ view' = NoView
      /\ walk' = IF cursor = NoCursor THEN NoWalk ELSE walk
      /\ UNCHANGED <<evidence, decisions, markers, doubtful, latest, rows, read, current, candidates>>
  BY DEF Call, ValidRequest, ledgerVars
<1>2. /\ new \in [request : Requests, size : 1..MaxPageSize,
                  cursor : Cursor \cup {NoCursor}, settled : BOOLEAN,
                  conflicts : SUBSET ReplayFacts]
      /\ new.cursor = cursor
  BY <1>0, <1>1, Sentinels DEF Shape, TypeOK
<1> HIDE DEF new
<1>3. /\ NoWalk.status = "none" /\ NoWalk.cursor = NoCursor /\ NoWalk.members = {}
      /\ NoWalk.delivered = {} /\ ~NoWalk.repeated
      /\ NoView.members = {} /\ NoView.exclusions = {} /\ NoView.conflicts = {} /\ ~NoView.settled
  BY DEF NoWalk, NoView
<1>4. Shape'
  BY <1>0, <1>1, <1>2, <1>3, Sentinels DEF Shape, TypeOK, LedgerTypeOK
<1>5. LedgerInv' /\ ReadInv'
  BY <1>0, <1>1 DEF LedgerInv, Proof, ReadInv, Reading, OnRecord
<1>6. SettledInv' /\ ConflictInv' /\ ViewInv'
  BY <1>1, <1>3 DEF SettledInv, ConflictInv, Reading, ViewInv, ViewIsPast,
     SettledViewIsExact, ConflictFailsClosed
<1>7. WalkInv'
  BY <1>0, <1>1, <1>2, <1>3 DEF WalkInv, WalkIsOneSnapshot
<1> QED BY <1>4, <1>5, <1>6, <1>7 DEF ReplayInv

LEMMA FinishReads ==
    ASSUME ReplayInv, Finish, UNCHANGED ledgerVars
    PROVE  LedgerTypeOK' /\ IsFiniteSet(markers)' /\ LedgerInv' /\ IsFiniteSet(candidates)'
           /\ ReadInv' /\ SettledInv' /\ ConflictInv'
           /\ rows' \in [ReplayFacts -> Nat] /\ read' \in [ReplayFacts -> Nat]
           /\ candidates' = {} /\ current' = {} /\ pc' = "idle" /\ call'.cursor = NoCursor
           /\ call' \in [request : Requests, size : 1..MaxPageSize,
                         cursor : Cursor \cup {NoCursor}, settled : BOOLEAN,
                         conflicts : SUBSET ReplayFacts]
<1>1. /\ LedgerTypeOK /\ IsFiniteSet(markers) /\ LedgerInv
      /\ UNCHANGED <<evidence, decisions, markers, doubtful, latest>>
      /\ pc' = "idle" /\ call' = NoCall /\ rows' = NoRows /\ read' = NoRows
      /\ current' = {} /\ candidates' = {}
  BY DEF ReplayInv, Shape, TypeOK, Finish, ledgerVars
<1>2. /\ NoRows \in [ReplayFacts -> Nat] /\ \A f \in ReplayFacts : NoRows[f] = 0
      /\ NoCall.cursor = NoCursor
  BY DEF NoRows, NoCall
<1>3. LedgerTypeOK' /\ LedgerInv' /\ IsFiniteSet(markers)'
  BY <1>1 DEF LedgerTypeOK, LedgerInv, Proof
<1>4. ReadInv'
  BY <1>1, <1>2 DEF ReadInv, Reading, LedgerTypeOK
<1>5. SettledInv' /\ ConflictInv'
  BY <1>1 DEF SettledInv, ConflictInv, Reading
<1> QED BY <1>1, <1>2, <1>3, <1>4, <1>5, Sentinels, FS_EmptySet

LEMMA RaiseKeeps ==
    ASSUME ReplayInv, Raise \/ RaiseUnavailable, UNCHANGED ledgerVars
    PROVE  ReplayInv'
<1>0. /\ Shape /\ TypeOK /\ ViewInv /\ WalkInv /\ Finish /\ view' = view
      /\ UNCHANGED <<evidence, decisions, markers, doubtful, latest>>
      /\ walk' \in {walk, [walk EXCEPT !.status = "failed"]}
  BY DEF ReplayInv, Shape, TypeOK, Raise, RaiseUnavailable, ledgerVars
<1>1. /\ walk' \in [status : {"none", "open", "done", "failed"},
                    request : Requests, cursor : Cursor \cup {NoCursor},
                    delivered : SUBSET ReplayFacts, repeated : BOOLEAN,
                    members : SUBSET ReplayFacts]
      /\ walk'.request = walk.request /\ walk'.cursor = walk.cursor
      /\ walk'.delivered = walk.delivered /\ walk'.repeated = walk.repeated
      /\ walk'.members = walk.members
      /\ walk'.status \in {walk.status, "failed"}
  BY <1>0 DEF Shape
<1>2. Shape'
  BY <1>0, <1>1, FinishReads DEF Shape, TypeOK
<1>3. ViewInv'
  BY <1>0 DEF ViewInv, ViewIsPast, SettledViewIsExact, ConflictFailsClosed, AsOf,
     AvailableBy, Settled
<1>4. WalkInv'
  BY <1>0, <1>1, FinishReads DEF WalkInv, WalkIsOneSnapshot
<1> QED BY <1>0, <1>2, <1>3, <1>4, FinishReads DEF ReplayInv

LEMMA QueryTruthKeeps ==
    ASSUME ReplayInv, QueryTruth
    PROVE  ReplayInv'
<1>0. /\ Shape /\ TypeOK /\ LedgerTypeOK /\ LedgerInv /\ ReadInv /\ ViewInv /\ WalkInv
      /\ IsFiniteSet(markers)
      /\ pc = "truth" /\ pc' = "row" /\ rows' = decisions
      /\ call' = [call EXCEPT !.settled = Settled(call.request), !.conflicts = Conflicts]
      /\ UNCHANGED <<evidence, decisions, markers, doubtful, latest, read, current, candidates, view, walk>>
  BY DEF ReplayInv, Shape, TypeOK, QueryTruth, ledgerVars
<1>1. /\ call' \in [request : Requests, size : 1..MaxPageSize,
                    cursor : Cursor \cup {NoCursor}, settled : BOOLEAN,
                    conflicts : SUBSET ReplayFacts]
      /\ call'.request = call.request /\ call'.cursor = call.cursor
      /\ call'.settled <=> Settled(call.request)
      /\ call'.conflicts = Conflicts
  <2>1. Settled(call.request) \in BOOLEAN /\ Conflicts \subseteq ReplayFacts
    BY DEF Settled, Conflicts
  <2> QED BY <1>0, <2>1 DEF TypeOK
<1>2. /\ read = NoRows /\ candidates = {} /\ current = {}
      /\ \A f \in ReplayFacts : NoRows[f] = 0 /\ decisions[f] \in Nat
  BY <1>0 DEF ReadInv, Reading, NoRows, LedgerTypeOK
<1>3. Shape' /\ LedgerInv'
  BY <1>0, <1>1 DEF Shape, TypeOK, LedgerTypeOK, LedgerInv, Proof
<1>4. ReadInv'
  BY <1>0, <1>2 DEF ReadInv, Reading
<1>5. SettledInv'
  <2>1. \A f \in ReplayFacts : AvailableBy("authority", f, call.request.cutoff) => decisions[f] > 0
    BY <1>0, AvailableIsProven
  <2> QED BY <1>0, <1>1, <1>2, <2>1 DEF SettledInv, Settled, AvailableBy
<1>6. ConflictInv'
  <2>1. \A f \in Conflicts :
            decisions[f] > 1 \/ (decisions[f] = 1 /\ \E kind \in Kinds : Twice(kind, f))
    BY DEF Conflicts, Twice, Kinds
  <2> QED BY <1>0, <1>1, <1>2, <2>1 DEF ConflictInv, Twice, MarkersOf
<1>7. ViewInv'
  BY <1>0 DEF ViewInv, ViewIsPast, SettledViewIsExact, ConflictFailsClosed, AsOf,
     AvailableBy, Settled
<1>8. WalkInv'
  BY <1>0, <1>1 DEF WalkInv, WalkIsOneSnapshot
<1> QED BY <1>3, <1>4, <1>5, <1>6, <1>7, <1>8 DEF ReplayInv

(* What a query that goes on leaves alone.                                 *)
LEMMA QueryFrame ==
    ASSUME ReplayInv, UNCHANGED <<ledgerVars, call, view, walk>>
    PROVE  /\ LedgerTypeOK' /\ IsFiniteSet(markers)' /\ LedgerInv' /\ ViewInv' /\ WalkInv'
           /\ \A r : Settled(r)' <=> Settled(r)
           /\ \A kind, f : Twice(kind, f)' <=> Twice(kind, f)
           /\ \A kind, f : Proof(kind, f)' <=> Proof(kind, f)
           /\ \A kind, f, at : /\ OnRecord(kind, f, at)' <=> OnRecord(kind, f, at)
                               /\ AvailableBy(kind, f, at)' <=> AvailableBy(kind, f, at)
BY DEF ReplayInv, Shape, TypeOK, ledgerVars, LedgerTypeOK, LedgerInv, ViewInv, ViewIsPast,
   SettledViewIsExact, ConflictFailsClosed, AsOf, AvailableBy, Settled, WalkInv,
   WalkIsOneSnapshot, Twice, MarkersOf, Proof, OnRecord

LEMMA QueryFactKeeps ==
    ASSUME ReplayInv, NEW f \in ReplayFacts, QueryFact(f)
    PROVE  ReplayInv'
<1>1. CASE Raise
  BY <1>1, RaiseKeeps DEF QueryFact
<1>2. CASE ~Raise
  <2> DEFINE new == [fact |-> f, evidence |-> NoTime, authority |-> NoTime]
  <2>1. new \in Candidate /\ new.fact = f /\ new.evidence = NoTime /\ new.authority = NoTime
    BY DEF Candidate
  <2>2. /\ Shape /\ TypeOK /\ LedgerTypeOK /\ ReadInv /\ SettledInv /\ ConflictInv
        /\ pc = "row" /\ read[f] < rows[f] /\ ~(read[f] > 0) /\ f \in evidence
        /\ pc' = "evidence" /\ read' = [read EXCEPT ![f] = @ + 1] /\ current' = {new}
        /\ UNCHANGED <<call, rows, candidates, view, walk, evidence, decisions, markers, doubtful, latest>>
        /\ UNCHANGED ledgerVars
    BY <1>2 DEF ReplayInv, Shape, TypeOK, QueryFact, Pending, Repeated, ledgerVars
  <2> HIDE DEF new
  <2>3. /\ rows \in [ReplayFacts -> Nat] /\ read \in [ReplayFacts -> Nat]
        /\ read[f] = 0 /\ read'[f] = 1 /\ rows[f] > 0 /\ decisions[f] > 0
        /\ \A g \in ReplayFacts \ {f} : read'[g] = read[g]
        /\ read' \in [ReplayFacts -> Nat]
    BY <2>2 DEF TypeOK, LedgerTypeOK, ReadInv
  <2>4. Shape'
    BY <2>1, <2>2, <2>3, QueryFrame DEF Shape, TypeOK
  <2>5. ReadInv'
    <3>1. \A kind \in Kinds : new[kind] = NoTime
      BY <2>1 DEF Kinds
    <3>2. Proof("evidence", f) /\ Proof("authority", f)
      BY <2>2, <2>3 DEF Proof
    <3>3. current = {}
      BY <2>2 DEF ReadInv
    <3>4. \A g \in ReplayFacts : read'[g] <= 1 /\ rows[g] <= decisions[g]
      BY <2>2, <2>3 DEF ReadInv
    <3>5. \A g \in ReplayFacts : read'[g] > 0 => \E c \in candidates \cup {new} : c.fact = g
      BY <2>1, <2>2, <2>3, <3>3 DEF ReadInv
    <3>6. \A c \in candidates \cup {new} :
              /\ Proof("evidence", c.fact) /\ Proof("authority", c.fact)
              /\ \A kind \in Kinds : c[kind] # NoTime => OnRecord(kind, c.fact, c[kind])
      BY <2>1, <2>2, <3>1, <3>2 DEF ReadInv
    <3> QED BY <2>1, <2>2, <3>4, <3>5, <3>6, QueryFrame DEF ReadInv, Reading
  <2>6. SettledInv' /\ ConflictInv'
    BY <2>2, QueryFrame DEF SettledInv, ConflictInv, Reading, Seen
  <2> QED BY <2>2, <2>4, <2>5, <2>6, QueryFrame DEF ReplayInv
<1> QED BY <1>1, <1>2

LEMMA QueryEvidenceKeeps ==
    ASSUME ReplayInv, QueryEvidence
    PROVE  ReplayInv'
<1>1. CASE Raise
  BY <1>1, RaiseKeeps DEF QueryEvidence
<1>2. CASE ~Raise
  <2>1. /\ Shape /\ TypeOK /\ LedgerTypeOK /\ ReadInv /\ SettledInv /\ ConflictInv
        /\ IsFiniteSet(markers) /\ pc = "evidence" /\ pc' = "authority"
        /\ UNCHANGED <<call, rows, read, candidates, view, walk, ledgerVars>>
        /\ UNCHANGED <<evidence, decisions, markers, doubtful, latest>>
    BY <1>2 DEF ReplayInv, Shape, TypeOK, QueryEvidence, ledgerVars
  <2>2. PICK c \in current : /\ ~Ambiguous("evidence", c)
                             /\ current' = {[c EXCEPT !.evidence = Instant("evidence", c)]}
    BY <1>2 DEF QueryEvidence
  <2> DEFINE at == Instant("evidence", c)
             new == [c EXCEPT !.evidence = at]
  <2>3. /\ at \in Nat \cup {NoTime}
        /\ at # NoTime => OnRecord("evidence", c.fact, at)
        /\ \A m \in markers : m.kind = "evidence" /\ m.fact = c.fact => at = m.at /\ at # NoTime
    BY <2>1, <2>2, InstantOfOne
  <2> HIDE DEF at
  <2>4. /\ c \in Candidate /\ new \in Candidate /\ new.fact = c.fact /\ new.evidence = at
        /\ new.authority = c.authority /\ current' = {new}
    BY <2>1, <2>2, <2>3 DEF TypeOK, Candidate, at
  <2> HIDE DEF new
  <2>5. current = {c}
    BY <2>1, <2>2 DEF ReadInv
  <2>6. Shape'
    BY <2>1, <2>4, QueryFrame DEF Shape, TypeOK
  <2>7. ReadInv'
    <3>1. c.authority = NoTime
      BY <2>1, <2>2 DEF ReadInv
    <3>2. \A kind \in Kinds : new[kind] # NoTime => OnRecord(kind, c.fact, new[kind])
      BY <2>3, <2>4, <3>1 DEF Kinds
    <3>3. \A g \in ReplayFacts : read[g] > 0 => \E d \in candidates \cup {new} : d.fact = g
      BY <2>1, <2>4, <2>5 DEF ReadInv
    <3>4. \A d \in candidates \cup {new} :
              /\ Proof("evidence", d.fact) /\ Proof("authority", d.fact)
              /\ \A kind \in Kinds : d[kind] # NoTime => OnRecord(kind, d.fact, d[kind])
      BY <2>1, <2>4, <2>5, <3>2 DEF ReadInv
    <3> QED BY <2>1, <2>4, <3>1, <3>3, <3>4, QueryFrame DEF ReadInv, Reading
  <2>8. SettledInv'
    <3>1. \A cutoff \in Nat : AvailableBy("evidence", c.fact, cutoff) => at # NoTime /\ at <= cutoff
      BY <2>3 DEF AvailableBy
    <3>2. call.request.cutoff \in Nat
      BY <2>1, RequestAssumption DEF TypeOK, AsOfRequest
    <3>3. Seen(new, "evidence", call.request.cutoff)
      BY <2>4, <3>1, <3>2 DEF Seen
    <3> QED BY <2>1, <2>4, <3>3, QueryFrame DEF SettledInv, Reading, Seen
  <2>9. ConflictInv'
    <3>1. ~Twice("evidence", c.fact)
      BY <2>2 DEF Ambiguous, Twice
    <3> QED BY <2>1, <2>4, <3>1, QueryFrame DEF ConflictInv, Reading, Kinds
  <2> QED BY <2>1, <2>6, <2>7, <2>8, <2>9, QueryFrame DEF ReplayInv
<1> QED BY <1>1, <1>2

LEMMA QueryAuthorityKeeps ==
    ASSUME ReplayInv, QueryAuthority
    PROVE  ReplayInv'
<1>1. CASE Raise
  BY <1>1, RaiseKeeps DEF QueryAuthority
<1>2. CASE ~Raise
  <2>1. /\ Shape /\ TypeOK /\ LedgerTypeOK /\ ReadInv /\ SettledInv /\ ConflictInv
        /\ IsFiniteSet(markers) /\ IsFiniteSet(candidates) /\ pc = "authority" /\ pc' = "row"
        /\ current' = {}
        /\ UNCHANGED <<call, rows, read, view, walk, evidence, decisions, markers, doubtful, latest>>
        /\ UNCHANGED ledgerVars
    BY <1>2 DEF ReplayInv, Shape, TypeOK, QueryAuthority, ledgerVars
  <2>2. PICK c \in current : /\ ~Ambiguous("authority", c)
                             /\ candidates' = candidates \cup
                                    {[c EXCEPT !.authority = Instant("authority", c)]}
    BY <1>2 DEF QueryAuthority
  <2> DEFINE at == Instant("authority", c)
             new == [c EXCEPT !.authority = at]
  <2>3. /\ at \in Nat \cup {NoTime}
        /\ at # NoTime => OnRecord("authority", c.fact, at)
        /\ \A m \in markers : m.kind = "authority" /\ m.fact = c.fact => at = m.at /\ at # NoTime
    BY <2>1, <2>2, InstantOfOne
  <2> HIDE DEF at
  <2>4. /\ c \in Candidate /\ new \in Candidate /\ new.fact = c.fact /\ new.authority = at
        /\ new.evidence = c.evidence /\ candidates' = candidates \cup {new}
    BY <2>1, <2>2, <2>3 DEF TypeOK, Candidate, at
  <2> HIDE DEF new
  <2>5. current = {c}
    BY <2>1, <2>2 DEF ReadInv
  <2>6. Shape'
    BY <2>1, <2>4, QueryFrame, FS_AddElement DEF Shape, TypeOK
  <2>7. ReadInv'
    <3>1. \A kind \in Kinds : new[kind] # NoTime => OnRecord(kind, c.fact, new[kind])
      <4>1. c["evidence"] # NoTime => OnRecord("evidence", c.fact, c["evidence"])
        BY <2>1, <2>2 DEF ReadInv, Kinds
      <4> QED BY <2>3, <2>4, <4>1 DEF Kinds
    <3>2. \A g \in ReplayFacts : read[g] > 0 => \E d \in candidates \cup {new} : d.fact = g
      BY <2>1, <2>4, <2>5 DEF ReadInv
    <3>3. \A d \in candidates \cup {new} :
              /\ Proof("evidence", d.fact) /\ Proof("authority", d.fact)
              /\ \A kind \in Kinds : d[kind] # NoTime => OnRecord(kind, d.fact, d[kind])
      BY <2>1, <2>4, <2>5, <3>1 DEF ReadInv
    <3> QED BY <2>1, <2>4, <3>2, <3>3, QueryFrame DEF ReadInv, Reading
  <2>8. SettledInv'
    <3>1. \A cutoff \in Nat : AvailableBy("authority", c.fact, cutoff) => at # NoTime /\ at <= cutoff
      BY <2>3 DEF AvailableBy
    <3>2. call.request.cutoff \in Nat
      BY <2>1, RequestAssumption DEF TypeOK, AsOfRequest
    <3>3. Seen(new, "authority", call.request.cutoff)
      BY <2>4, <3>1, <3>2 DEF Seen
    <3>4. call.settled => Seen(new, "evidence", call.request.cutoff)
      BY <2>1, <2>2, <2>4 DEF SettledInv, Reading, Seen
    <3> QED BY <2>1, <2>4, <3>3, <3>4, QueryFrame DEF SettledInv, Reading, Seen, Kinds
  <2>9. ConflictInv'
    <3>1. ~Twice("authority", c.fact)
      BY <2>2 DEF Ambiguous, Twice
    <3>2. \A f \in call.conflicts : f = c.fact => rows[f] > 1
      BY <2>1, <2>2, <3>1 DEF ConflictInv, Reading
    <3>3. \A f \in call.conflicts : (\E d \in candidates \cup {new} : d.fact = f) => rows[f] > 1
      BY <2>1, <2>4, <3>2 DEF ConflictInv, Reading
    <3> QED BY <2>1, <2>4, <3>3, QueryFrame DEF ConflictInv, Reading
  <2> QED BY <2>1, <2>6, <2>7, <2>8, <2>9, QueryFrame DEF ReplayInv
<1> QED BY <1>1, <1>2

LEMMA FailKeeps ==
    ASSUME ReplayInv, Fail PROVE ReplayInv'
BY RaiseKeeps DEF Fail

-----------------------------------------------------------------------------
(* The answer.  A candidate qualifies when both its instants are by the    *)
(* cutoff, and a page extends what was delivered to a longer beginning.    *)
LEMMA QualifiedByCutoff ==
    ASSUME NEW c \in Candidate, NEW r \in AsOfRequest
    PROVE  Exclusion(c, r) = {} <=>
               \A kind \in Kinds : c[kind] # NoTime /\ c[kind] <= r.cutoff
BY ReplayAssumption DEF Candidate, AsOfRequest, Exclusion, Late, Kinds

Ahead(D, M, r) == \A f \in M \ D, g \in D : Less(OrderingKey(g, r), OrderingKey(f, r))

LEMMA PageOfRest ==
    ASSUME NEW r \in AsOfRequest, NEW M, NEW D \in SUBSET M, \A f \in M : Keyed(f, r),
           Ahead(D, M, r), NEW S, IsFiniteSet(S), Facts(S) = M \ D, NEW size \in Nat \ {0}
    PROVE  /\ Facts(Page(S, r, size)) \subseteq M \ D
           /\ S = Page(S, r, size) => D \cup Facts(Page(S, r, size)) = M
           /\ S # Page(S, r, size) =>
                /\ \E h \in M : LastKey(Page(S, r, size), r) = OrderingKey(h, r)
                /\ \A f \in M : f \in D \cup Facts(Page(S, r, size)) <=>
                       ~Less(LastKey(Page(S, r, size), r), OrderingKey(f, r))
           /\ Ahead(D \cup Facts(Page(S, r, size)), M, r)
<1> DEFINE P == Page(S, r, size)
           last == LastKey(P, r)
           k(f) == OrderingKey(f, r)
<1>1. P \subseteq S /\ Facts(P) \subseteq M \ D /\ \A c \in S : c.fact \in M \ D
  BY DEF Page, Facts
<1>2. /\ \A f \in M : ~Less(k(f), k(f))
      /\ \A f, g, h \in M : Less(k(f), k(g)) /\ Less(k(g), k(h)) => Less(k(f), k(h))
      /\ \A f, g \in M : Less(k(f), k(g)) \/ Less(k(g), k(f)) \/ f = g
  BY KeysAreOrdered
<1>3. Comparable(S, r)
  BY <1>1 DEF Comparable
<1>4. S # {} => /\ \E c \in P : last = k(c.fact)
                /\ \A c \in S : c \in P <=> ~Less(last, k(c.fact))
  BY <1>3, PageIsBeginning
<1> HIDE DEF P, last, k
<1>5. S = P => D \cup Facts(P) = M
  OBVIOUS
<1>6. ASSUME S # {}
      PROVE  /\ \E h \in M : last = k(h)
             /\ \A f \in M : f \in D \cup Facts(P) <=> ~Less(last, k(f))
  <2>1. PICK c \in P : last = k(c.fact)
    BY <1>4, <1>6
  <2>2. c.fact \in M \ D
    BY <1>1, <2>1
  <2>3. ASSUME NEW f \in D PROVE ~Less(last, k(f))
    <3>1. Less(k(f), k(c.fact))
      BY <2>2 DEF Ahead, k
    <3> QED BY <1>2, <2>1, <2>2, <3>1
  <2>4. ASSUME NEW f \in M \ D PROVE f \in Facts(P) <=> ~Less(last, k(f))
    <3>1. PICK d \in S : d.fact = f
      BY DEF Facts
    <3> QED BY <1>1, <1>4, <1>6, <3>1 DEF Facts
  <2> QED BY <2>1, <2>2, <2>3, <2>4, <1>1
<1>7. ASSUME NEW f \in M \ (D \cup Facts(P)), NEW g \in D \cup Facts(P)
      PROVE  Less(k(g), k(f))
  <2>1. S # {}
    BY DEF Facts
  <2>2. PICK h \in M : last = k(h)
    BY <1>6, <2>1
  <2>3. g \in M /\ Less(last, k(f)) /\ ~Less(last, k(g))
    BY <1>1, <1>6, <2>1
  <2> QED BY <1>2, <2>2, <2>3
<1>8. Ahead(D \cup Facts(P), M, r)
  BY <1>7 DEF Ahead, k
<1>9. S # P => S # {}
  BY <1>1
<1>10. /\ Facts(P) \subseteq M \ D
       /\ S = P => D \cup Facts(P) = M
       /\ S # P => /\ \E h \in M : last = OrderingKey(h, r)
                   /\ \A f \in M : f \in D \cup Facts(P) <=> ~Less(last, OrderingKey(f, r))
       /\ Ahead(D \cup Facts(P), M, r)
  BY <1>1, <1>5, <1>6, <1>8, <1>9 DEF k
<1> QED BY <1>10 DEF P, last

LEMMA AnswerKeeps ==
    ASSUME ReplayInv, Answer
    PROVE  ReplayInv'
<1>0. PICK r : r = call.request
  OBVIOUS
<1> DEFINE selected == Selected(candidates, r)
           snapshot == Snapshot(selected, r)
           continued == ContinueAfter(selected, r, call.cursor)
           page == Page(continued, r, call.size)
           next == NextCursor(continued, page, r, snapshot)
           excluded == Excluded(candidates, r)
<1>1. CASE Raise \/ RaiseUnavailable
  BY <1>0, <1>1, RaiseKeeps DEF Answer
<1>2. CASE ~(Raise \/ RaiseUnavailable)
  <2>0. /\ Shape /\ TypeOK /\ LedgerTypeOK /\ LedgerInv /\ ReadInv /\ SettledInv
        /\ ConflictInv /\ ViewInv /\ WalkInv /\ IsFiniteSet(candidates)
    BY DEF ReplayInv, Shape, TypeOK
  <2>1. /\ pc = "row" /\ Pending = {} /\ UNCHANGED ledgerVars /\ Finish
        /\ ~UnsupportedEventTime(candidates, r)
        /\ call.cursor # NoCursor => call.cursor.request = r /\ call.cursor.snapshot = snapshot
        /\ Deliver(selected, page, next)
        /\ view' = [request |-> r, members |-> Facts(selected), exclusions |-> Facts(excluded),
                    conflicts |-> call.conflicts, settled |-> call.settled]
    BY <1>0, <1>2 DEF Answer, CursorMismatch, Drifted
  <2>2. /\ view'.request = r /\ view'.members = Facts(selected)
        /\ view'.exclusions = Facts(excluded)
        /\ view'.conflicts = call.conflicts /\ view'.settled = call.settled
    BY <2>1
  <2>3. /\ r \in Requests /\ r \in AsOfRequest /\ call.size \in Nat \ {0}
        /\ candidates \subseteq Candidate /\ selected \subseteq candidates
        /\ excluded \subseteq candidates /\ continued \subseteq selected
        /\ \A c \in candidates : c.fact \in ReplayFacts
        /\ \A c \in selected : InWindow(c.fact, r)
    BY <1>0, <2>0, RequestAssumption DEF TypeOK, Selected, Qualified, Excluded,
       ContinueAfter, Candidate
  <2>4. ASSUME NEW c \in candidates
        PROVE  /\ c \in selected <=> InScope(c.fact, r) /\ InWindow(c.fact, r) /\ Exclusion(c, r) = {}
               /\ c \in excluded <=> InScope(c.fact, r) /\ Exclusion(c, r) # {}
    BY DEF Selected, Qualified, Excluded
  <2> HIDE DEF selected, excluded
  <2>5. AsOf(r)' = AsOf(r) /\ (Settled(r)' <=> Settled(r))
    BY <2>1 DEF AsOf, AvailableBy, Settled, ledgerVars
  <2>6. Facts(selected) \subseteq AsOf(r)
    <3>1. ASSUME NEW c \in selected PROVE c.fact \in AsOf(r)
      <4>1. /\ Proof("evidence", c.fact) /\ Proof("authority", c.fact)
            /\ \A kind \in Kinds : c[kind] # NoTime /\ c[kind] <= r.cutoff
                                   /\ OnRecord(kind, c.fact, c[kind])
        BY <2>0, <2>3, <2>4, <3>1, QualifiedByCutoff DEF ReadInv
      <4>2. \A kind \in Kinds : AvailableBy(kind, c.fact, r.cutoff)
        BY <4>1 DEF OnRecord, AvailableBy
      <4>3. "evidence" \in Kinds /\ "authority" \in Kinds
        BY DEF Kinds
      <4> QED BY <2>3, <2>4, <4>1, <4>2, <4>3 DEF AsOf, Proof
    <3> QED BY <3>1 DEF Facts
  <2>7. ASSUME call.settled
        PROVE  Facts(selected) = AsOf(r) /\ Facts(excluded) \cap AsOf(r) = {}
    <3>1. ASSUME NEW c \in candidates, c.fact \in AsOf(r)
          PROVE  Exclusion(c, r) = {} /\ c \in selected /\ c \notin excluded
      <4>1. \A kind \in Kinds : Seen(c, kind, r.cutoff) /\ AvailableBy(kind, c.fact, r.cutoff)
        BY <1>0, <2>0, <2>1, <2>7, <3>1 DEF SettledInv, Reading, AsOf, Kinds
      <4>2. Exclusion(c, r) = {}
        BY <2>3, <4>1, QualifiedByCutoff DEF Seen
      <4> QED BY <2>4, <3>1, <4>2 DEF AsOf
    <3>2. ASSUME NEW f \in AsOf(r) PROVE \E c \in candidates : c.fact = f
      <4>1. f \in ReplayFacts /\ rows[f] > 0
        BY <1>0, <2>0, <2>1, <2>7 DEF SettledInv, Reading, AsOf
      <4>2. rows[f] \in Nat /\ read[f] \in Nat /\ ~(read[f] < rows[f])
        BY <2>0, <2>1, <4>1 DEF TypeOK, Pending
      <4> QED BY <2>0, <2>1, <4>1, <4>2 DEF ReadInv
    <3>3. AsOf(r) \subseteq Facts(selected) /\ Facts(excluded) \cap AsOf(r) = {}
      BY <2>3, <3>1, <3>2 DEF Facts
    <3> QED BY <2>6, <3>3
  <2>8. call.conflicts = {}
    <3> SUFFICES ASSUME NEW f \in call.conflicts PROVE FALSE
      OBVIOUS
    <3>1. /\ f \in ReplayFacts /\ rows[f] \in Nat /\ read[f] \in Nat
          /\ ~(read[f] < rows[f]) /\ read[f] <= 1
      BY <2>0, <2>1 DEF TypeOK, Pending, ReadInv
    <3>2. rows[f] > 0
      <4>1. rows[f] > 1 \/ rows[f] = 1
        BY <2>0, <2>1 DEF ConflictInv, Reading
      <4> QED BY <3>1, <4>1
    <3>3. \E c \in candidates : c.fact = f
      BY <2>0, <2>1, <3>1, <3>2 DEF ReadInv
    <3> QED BY <2>0, <2>1, <3>1, <3>3 DEF ConflictInv, Reading
  <2>9. ViewInv'
    BY <1>0, <2>0, <2>1, <2>2, <2>5, <2>6, <2>7, <2>8 DEF ViewInv, ViewIsPast, SettledViewIsExact,
       ConflictFailsClosed, SettledInv, Reading
  <2>10. \A c \in selected : Keyed(c.fact, r)
    BY <2>1, <2>3 DEF Keyed, UnsupportedEventTime, selected
  <2> DEFINE first == call.cursor = NoCursor
             delivered == IF first THEN {} ELSE walk.delivered
             members == Facts(selected)
  <2>11. /\ walk'.status = IF next = NoCursor THEN "done" ELSE "open"
         /\ walk'.request = r /\ walk'.cursor = next
         /\ walk'.delivered = delivered \cup Facts(page)
         /\ walk'.repeated = (~first /\ (walk.repeated \/ Facts(page) \cap walk.delivered # {}))
         /\ walk'.members = IF first THEN members ELSE walk.members
         /\ DOMAIN walk' = {"status", "request", "cursor", "delivered", "repeated", "members"}
         /\ walk' = [status |-> walk'.status, request |-> walk'.request, cursor |-> walk'.cursor,
                     delivered |-> walk'.delivered, repeated |-> walk'.repeated,
                     members |-> walk'.members]
    BY <1>0, <2>1 DEF Deliver
  <2>12. ASSUME ~first
         PROVE  /\ walk.request = r /\ walk.members = members
                /\ walk.cursor.last = call.cursor.last
                /\ \A f \in members : f \in walk.delivered <=>
                        ~Less(call.cursor.last, OrderingKey(f, r))
                /\ walk.delivered \subseteq members /\ Ahead(walk.delivered, members, r)
                /\ ~walk.repeated
    <3>1. /\ walk.cursor = call.cursor /\ walk.request = r
          /\ snapshot = [request |-> r, members |-> walk.members]
      BY <2>0, <2>1, <2>12 DEF WalkInv
    <3>2. snapshot.members = members
      BY DEF Snapshot, Facts
    <3>3. walk.members = members
      BY <3>1, <3>2
    <3> HIDE DEF members
    <3> QED BY <2>0, <2>12, <3>1, <3>3 DEF WalkInv, WalkIsOneSnapshot, Ahead
  <2>13. /\ walk'.members = members /\ delivered \subseteq members
         /\ Ahead(delivered, members, r)
         /\ Facts(continued) = members \ delivered
    <3>1. CASE first
      <4>1. continued = selected
        BY <3>1 DEF ContinueAfter
      <4> QED BY <2>11, <3>1, <4>1 DEF Ahead
    <3>2. CASE ~first
      <4>1. Facts(continued) = members \ walk.delivered
        BY <2>12, <3>2 DEF ContinueAfter, Facts
      <4> HIDE DEF members
      <4> QED BY <2>11, <2>12, <3>2, <4>1
    <3> QED BY <3>1, <3>2
  <2>14. IsFiniteSet(continued) /\ \A f \in members : Keyed(f, r)
    BY <2>0, <2>3, <2>10, FS_Subset DEF Facts
  <2> HIDE DEF continued, members, delivered, first
  <2>15. /\ Facts(page) \subseteq members \ delivered
         /\ continued = page => delivered \cup Facts(page) = members
         /\ continued # page =>
              /\ \E h \in members : LastKey(page, r) = OrderingKey(h, r)
              /\ \A f \in members : f \in delivered \cup Facts(page) <=>
                     ~Less(LastKey(page, r), OrderingKey(f, r))
         /\ Ahead(delivered \cup Facts(page), members, r)
    <3>1. /\ r \in AsOfRequest /\ delivered \in SUBSET members /\ call.size \in Nat \ {0}
          /\ \A f \in members : Keyed(f, r)
          /\ Ahead(delivered, members, r) /\ IsFiniteSet(continued)
          /\ Facts(continued) = members \ delivered
      BY <2>3, <2>13, <2>14
    <3> QED BY ONLY <3>1, PageOfRest
  <2> DEFINE last == LastKey(page, r)
  <2> HIDE DEF page
  <2>16. ASSUME continued # page
         PROVE  /\ next \in Cursor /\ next # NoCursor
                /\ next.request = r /\ next.snapshot = snapshot /\ next.last = last
    <3>1. next = [request |-> r, snapshot |-> snapshot, last |-> last]
      BY <2>16 DEF NextCursor
    <3>2. last \in Seq(Int)
      BY <2>3, <2>14, <2>15, <2>16, KeyType
    <3>3. snapshot \in [request : Requests, members : SUBSET ReplayFacts]
      BY <2>3 DEF Snapshot
    <3> HIDE DEF snapshot, last, next
    <3> QED BY <2>3, <3>1, <3>2, <3>3, RequestAssumption DEF Cursor
  <2>17. continued = page => next = NoCursor
    BY DEF NextCursor
  <2>18. snapshot = [request |-> r, members |-> members]
    BY DEF Snapshot, Facts, members
  <2> HIDE DEF snapshot, last, next
  <2>19. Facts(selected) \subseteq ReplayFacts /\ Facts(excluded) \subseteq ReplayFacts
    BY <2>3 DEF Facts
  <2>20. /\ walk' \in [status : {"none", "open", "done", "failed"},
                       request : Requests, cursor : Cursor \cup {NoCursor},
                       delivered : SUBSET ReplayFacts, repeated : BOOLEAN,
                       members : SUBSET ReplayFacts]
         /\ walk'.status = "open" => walk'.cursor # NoCursor
    <3>1. /\ walk'.status \in {"none", "open", "done", "failed"}
          /\ walk'.request \in Requests /\ walk'.cursor \in Cursor \cup {NoCursor}
          /\ walk'.repeated \in BOOLEAN
          /\ walk'.members \subseteq ReplayFacts /\ walk'.delivered \subseteq ReplayFacts
          /\ walk'.status = "open" => walk'.cursor # NoCursor
      BY <2>3, <2>11, <2>13, <2>15, <2>16, <2>17, <2>19 DEF members
    <3> QED BY <2>11, <3>1
  <2>21. Shape'
    BY <1>0, <2>0, <2>1, <2>2, <2>3, <2>19, <2>20, FinishReads DEF Shape, TypeOK
  <2>22. WalkInv'
    <3>1. call'.cursor = NoCursor
      BY <2>1, FinishReads
    <3>2. ~walk'.repeated
      BY <2>11, <2>12, <2>15 DEF delivered
    <3>3. /\ walk'.delivered \subseteq walk'.members
          /\ Ahead(walk'.delivered, walk'.members, walk'.request)
          /\ walk'.status = "done" => walk'.delivered = walk'.members
      BY <2>11, <2>13, <2>15, <2>16
    <3>4. walk'.status = "open" =>
            /\ walk'.cursor.request = walk'.request
            /\ walk'.cursor.snapshot = [request |-> walk'.request, members |-> walk'.members]
            /\ \E h \in walk'.members : walk'.cursor.last = OrderingKey(h, walk'.request)
            /\ \A f \in walk'.members : f \in walk'.delivered <=>
                   ~Less(walk'.cursor.last, OrderingKey(f, walk'.request))
      BY <2>11, <2>13, <2>15, <2>16, <2>17, <2>18 DEF last
    <3> QED BY <2>11, <2>13, <2>14, <3>1, <3>2, <3>3, <3>4 DEF WalkInv, WalkIsOneSnapshot, Ahead
  <2> QED BY <2>1, <2>9, <2>21, <2>22, FinishReads DEF ReplayInv
<1> QED BY <1>1, <1>2

-----------------------------------------------------------------------------
LEMMA ReplayInvInductive == ReplayInv /\ [Next]_vars => ReplayInv'
<1> SUFFICES ASSUME ReplayInv, [Next]_vars PROVE ReplayInv'
  OBVIOUS
<1>0. Shape /\ walk.request \in Requests
  BY DEF ReplayInv, Shape
<1>1. CASE Open
  BY <1>1, CallKeeps DEF Open
<1>2. CASE Resume \/ Mistake
  BY <1>0, <1>2, CallKeeps DEF Resume, Mistake, ResumeWith
<1>3. CASE Query
  BY <1>3, QueryTruthKeeps, QueryFactKeeps, QueryEvidenceKeeps, QueryAuthorityKeeps DEF Query
<1>4. CASE Fail
  BY <1>4, FailKeeps
<1>5. CASE Answer
  BY <1>5, AnswerKeeps
<1>6. CASE LedgerStep /\ UNCHANGED <<reader, view, walk>>
  BY <1>6, LedgerKeeps
<1>7. CASE UNCHANGED vars
  BY <1>7, LedgerKeeps DEF vars
<1> QED BY <1>1, <1>2, <1>3, <1>4, <1>5, <1>6, <1>7 DEF Next

LEMMA ReplayInvHolds == Spec => []ReplayInv
BY InitInv, ReplayInvInductive, PTL DEF Spec

(* A read, its view and a walk are well formed in every state.             *)
THEOREM TypeCorrect == Spec => []TypeOK
<1>1. ReplayInv => TypeOK
  BY DEF ReplayInv, Shape
<1> QED BY <1>1, ReplayInvHolds, PTL

(* read: nothing that comes after a view makes it a look ahead.            *)
THEOREM ViewsArePast == Spec => []ViewIsPast
<1>1. ReplayInv => ViewIsPast
  BY DEF ReplayInv, ViewInv
<1> QED BY <1>1, ReplayInvHolds, PTL

(* read: at a settled cutoff a view is all of the past, although none of   *)
(* its queries saw the tables at the same moment.                          *)
THEOREM SettledViewsAreExact == Spec => []SettledViewIsExact
<1>1. ReplayInv => SettledViewIsExact
  BY DEF ReplayInv, ViewInv
<1> QED BY <1>1, ReplayInvHolds, PTL

(* The pages of a walk are its first snapshot, each record once, in order. *)
THEOREM WalksAreOneSnapshot == Spec => []WalkIsOneSnapshot
<1>1. ReplayInv => WalkIsOneSnapshot
  BY DEF ReplayInv, WalkInv
<1> QED BY <1>1, ReplayInvHolds, PTL

(* A contradiction in the tables fails every read that begins after it.    *)
THEOREM ConflictsFailClosed == Spec => []ConflictFailsClosed
<1>1. ReplayInv => ConflictFailsClosed
  BY DEF ReplayInv, ViewInv
<1> QED BY <1>1, ReplayInvHolds, PTL
=============================================================================
