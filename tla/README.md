# LIVE15_QUANT_V2: specifications of the data plane

The repository verifies which prediction market it may listen to, records market
and reference messages as immutable evidence, decides what each piece of evidence
means, proves when evidence and decision became available, and replays the past
as of a cutoff. Everything of consequence happens between small Python classes
and servers that answer late, twice, or not at all: a QuestDB, a listing that
changes between two of its pages, an SDK whose registries others have filled in.
These TLA+ modules model that, are model-checked with TLC on small instances, and
are proved about with TLAPS for every value of their constants.

Paths below are relative to `src/src/live15_quant_v2/data/`.

## 1. Inventory

| Component | Code | State it keeps | Operations | Talks to |
|---|---|---|---|---|
| Market ingress boundary | `market_ingress/ingress_boundary/` | token registry of issued identities (weak) | `resolve`: window, discovery, verification; provenance check (a shadow comparison is observed, never used) | Kalshi gateway |
| Market stream | `market_ingress/market_stream/` | SDK subscriptions | `orderbook`, `ticker`, `trades`, `lifecycle` | ingress boundary, SDK |
| Reference stream | `market_ingress/reference_stream/` | the SDK's registries, which it completes | `cfbenchmarks`, `pyth_values` | SDK |
| Kalshi gateway | `market_ingress/kalshi_gateway/` | none | `discover_markets`, `fetch_market`, `subscription_access` | SDK |
| Capture boundary | `storage/capture_boundary/` | none | `capture_market`, `capture_reference` | ingress boundary, recorder |
| Durable persistence | `storage/durable_persistence/questdb_sf.py` | connection; the client's spool on disk and its ring of diagnostics | `persist`, `close` | store-and-forward client, Hot Store table |
| Hot Store | `storage/hot_store/questdb_adapter.py` | connection, `_schema_ready` | `append_batch`, `read_capture`, `read_range` | evidence table (DEDUP) |
| Data Truth | `data_truth/composition.py`, `event_facts.py`, `observation_facts.py` | none | `decide` | Hot Store (anchor evidence), history |
| Truth history | `data_truth/questdb_history.py` | connection, `_schema_ready` | `find_subject_decision`, `find_accepted_event`, `append` | decision table (append-only, no DEDUP) |
| Availability | `replay_as_of/availability.py`, `questdb_availability.py` | clock anchors, committed floor, last issued instant, two sets of doubts | `record_proven`, `find`, `append`, `read_committed_floor` | availability table (append-only, no DEDUP) |
| Recorder | `recorder_composition.py` | none | `record_market`, `record_reference`, `recover_fact` | all of the above, in order |
| Replay & As-Of | `replay_as_of/service.py`, `models.py`, `source.py` | none; the cursor carries a walk's state | `read` | replay source |
| Replay source | `replay_as_of/questdb_source.py` | connection, `_schema_ready` | `source_authorities`, `candidate_records` | the three tables, read only |

How they interact: an identity is issued for the one official market of an asset
and window; streams are opened and messages captured under it. `record_*` turns
a message into a `CaptureFact`, persists it through the store-and-forward client,
reads it back, and only then lets the availability writer mark the evidence, Data
Truth decide it, and the writer mark the decision. Replay reads the three tables
those steps fill, from another process, with no transaction around its queries
and with decoders of its own.

What is hard in it:

- an append may be *in doubt*: published, and never known to be written or not;
  it may become readable long after the call that made it has failed;
- acknowledgement, WAL commit and readability are three different moments;
- the acknowledgement watermark of the clients also passes frames the server
  rejected or dropped, and the diagnostic that tells may be lost or not be read;
- the decision and availability tables cannot replace or delete a row, so a
  second row of a key is a permanent inconsistency;
- doubts are remembered in memory, and processes restart;
- a Replay view is put together from many queries, and its pages from many reads,
  while the recorder goes on;
- a table is created, upgraded and checked by several processes, one statement at
  a time, and each then remembers that it was right;
- a market listing changes between the pages of one discovery;
- an identity is an ordinary object that can be copied, altered, or forgotten.

What makes each component correct:

- *Ingress boundary*: an identity is issued for the only market there is for its
  asset and window, and a refusal has a reason in the listing.
- *Market stream, capture boundary*: every subscription and every fact goes back
  to an issued identity, and names its market.
- *Reference stream*: registration with the SDK is all or nothing; each value of
  what is subscribed becomes a fact of the approved asset.
- *Table set-up*: what an adapter calls ready serves its statements, nobody
  changes a table that is final, and an old table is refused only for what a
  migration could not mend.
- *Hot Store*: a receipt means stored, a refused batch sends nothing, a capture
  is one row, and what was read can be read again.
- *Stored rows*: what is judged is replayed as the same or refused, decisions and
  markers are read alike, and what was written is read.
- *Data Truth*: one decision per subject and one accepted Trade per event; an
  answer, once given, is on record and never changes; comparisons are with the
  accepted Trade.
- *Availability*: one marker per key, never two answers for one key; new markers
  are later than all readable ones; what surfaces late was reported in doubt.
- *Persistence*: each status means what its name says, now and later.
- *Recorder*: nothing is marked or decided without proof, recovery completes what
  was interrupted, and only appending beside an append under way can spoil the
  record.
- *Replay*: no look ahead, exactness once the cutoff is settled, pages that add
  up to one snapshot, ambiguity fails closed.

`PROJECT.json` lists the hazards, each at its line with the properties that
cover it.

## 2. Modules

```
MarketIdentity ── MarketCapture ─┬─ MCMarketCapture       MarketCaptureProofs
                  SampleMarkets ─┘
ReferenceIngress ── MCReferenceIngress                    ReferenceIngressProofs

TableSetup ─┬─ TableReaders ─┬─ MCTables                  StorageProofs
StoredRows ─┘   SampleRows ──┘                            (of TableReaders and
HotStore ── MCHotStore                                     HotStore together)
DurablePersistence                                        DurablePersistenceProofs

TruthPolicy ──────────────┬── TruthAuthority      (abstract: one atomic decision)
   │                      │        ▲ refinement
   ├── QuestDBTable ── DataTruth ──┘   MCDataTruth   DataTruthProofs
   │        │                          MarkerLedger (abstract: write-once markers)
   │        │                               ▲ refinement
   │        └───────── AvailabilityLedger ──┘  MCAvailabilityLedger  AvailabilityProofs
   └── Recorder                             MCRecorder       RecorderProofs
ReplayPolicy ── ReplayLedger ── Replay      MCReplay         ReplayProofs
```

**MarketIdentity** is `MarketIdentityResolver.resolve`: `Resolve` takes the window,
`FetchPage` and `FetchFails` read the provider's listing page by page, `Verify`
is the verifier's ordered choice and the issue of an identity with its token and
weak registry entry. `DropIdentity` lets the last reference go. The listing is external and
changes at any time.

**MarketCapture** composes it with the two users of an identity: the four
subscriptions of `MarketStream` and `capture_market`, each behind the provenance
check, over messages of right and wrong types, and with holders who copy or
alter an identity or make one up.

**ReferenceIngress** is both subscriptions of `ReferenceStream`, the registration
of Pyth's message types with the SDK entry by entry (version, checks, then
changes), and `capture_reference` under the approved scope. Other code may change
the registries between two calls.

**TableSetup** is how the four adapters come to trust a table: metadata query by
metadata query, CREATE, the Hot Store's three-column upgrade, the checks that
follow, the cached `_schema_ready` and what `close` forgets. Hot Stores,
writers and Replay sources run side by side; a statement may fail, an
administrator may interfere.

**StoredRows** is the decoding of the three tables, by their own adapters and by
the Replay source, over the cells a driver may show (text, None, NaN, NaT,
timestamps in two shapes, a LONG as int, float or bool), with what the adapters
write. The Hot Store hands several columns on as they arrive (`HotFact`); what
counts is what the recorder's exact read-back then lets pass (`Judged`), with
Python's equality of numbers. **TableReaders** composes the two modules: once every
adapter has its database, the server shows any row of any table to both of its
readers.

**HotStore** is `append_batch`, row by row with its limit, the sender that may
flush early and resend, the acknowledgement, `read_capture` and `read_range`, on
a table with DEDUP keys.

**TruthPolicy** holds the V1 policy as pure operators: which message types are
observations, when a Trade is a usable event (`NotAcceptedReason`), the verdict
on a fact given the accepted Trade of its event (`Verdict`). A payload is a
record of what the policy tells apart: whether it parses, its type, its trade
identifier, its ticker, its terms.

**QuestDBTable** is external: an append-only WAL table as the adapters use it. A
frame is `inflight`, then in the `wal` or lost, then in `rows`. WAL
transactions are applied in any order, more than the server does.

**TruthAuthority** is what Data Truth promises: a write-once map from facts to
decisions, each the policy's verdict against the one accepted Trade.

**DataTruth** is `DataTruth.decide` with its history adapter, one action per
QuestDB call: `FindSubject` and `FindEvent` (the lookups and routing of
`_candidate`), `PublishOnce`, `Await`, `WaitWal` (`append`), `LookupAgain`
(`_append_and_verify`), `Crash`. Every step may fail as its `except` clauses
allow. `SettleFirst` chooses the caller: FALSE is what the code permits, TRUE
is what the documents ask of it.

**MarkerLedger** is what the availability writer and its table promise together:
a key gets one marker, for ever; no two markers bear one instant; a caller is
told the marker of its key.

**AvailabilityLedger** is `AvailabilityWriter` over `QuestDBAvailabilityStore`:
`Start` reads the floor, `Find`, `StoreFind`, `PublishOnce`, `Await`, `WaitWal`
and `Verify` are the calls of one `record_proven`. The wall and monotonic
clocks are one projected reading. `SettleFirst` chooses whether a process may
start while an earlier one's append is undecided.

**DurablePersistence** is `persist`, with the client's spool, watermark and ring
of diagnostics as externals. A fact is persisted once, because Capture Boundary
mints a new identity for each message and `recover_fact` does not persist.

**Recorder** is `RecorderComposition`. Its lower components appear as one step
each, with the results their own modules allow, but for `decide`, whose append
(`Decide`) and second lookup (`Reconcile`) are two. The caller is the one the code
allows: it recovers a fact again while an append about it is under way, and the
append is then made again, so that both tables may get two rows. The history
variable `hasty` says that this has happened. A process that restarts forgets its
doubts, and does not start over two markers of one key.

**ReplayPolicy** is the pure part of Replay: valid requests, exclusion at the
cutoff, window, order, snapshot, cursor and page. A page is a set (its order is
the ordering key's); an identity is the value it digests.

**ReplayLedger** is the three tables while the recorder fills them, again
reduced to what the modules above show, with a writer that restarts at any time:
it issues instants behind the floor it read and the last one it issued
(`latest`), not behind what is still in doubt, so that its markers may come
before a predecessor's. `Recorded` are facts recorded before
the first read, so that a walk of several pages fits in a small instance.

**Replay** is `read` as its separate queries (`QueryTruth`, then for each row
`QueryFact`, `QueryEvidence`, `QueryAuthority`, then `Answer`), with `Fail` for
SOURCE_UNAVAILABLE at any of them, and a client that walks the pages of a view
(`Open`, `Resume`) and makes mistakes (`Mistake`: a cursor with another
request). Such a client asks for something (`Requests` is not empty), and None is
no cursor: `RequestAssumption`. Rows come in any order, as the SQL asks for none. A read that raises
leaves no state. The client keeps a view until its next call and a walk until it
opens another.

## 3. Runs

| Run | Question | Instance |
|---|---|---|
| `MarketCapture` | Do issues and refusals reflect the listing, and does every subscription and fact go back to a verified market? | one resolver, 2 windows and a rival market, one change of the listing, 2 identity objects, one use |
| `ReferenceIngress` | Is registration all or nothing, and do subscribed values become facts of the right asset? | 2 assets of each source, registries in every mixture, 2 changes by others |
| `Tables` | Is what is called ready servable, is refusal earned, do readers agree? | 2 Hot Stores, a writer, a source; six initial evidence tables; one failure or administrator's change; rows with every form of cell in any two columns |
| `HotStore` | Does a receipt mean stored, a refusal nothing sent, a capture one row? | 2 stores, 3 facts of which two tie, a legacy row, 4 batches, limit 2, 2 calls, 1 resend |
| `HotStore_drop` | *(violation)* ... when the server drops a frame and continues? | one store, one call |
| `DurablePersistence` | Do the five statuses mean what they say? | 2 facts, one lost acknowledgement, one lost diagnostic |
| `DataTruth_settled` | Is the history consistent, does `decide` implement `TruthAuthority`? | six captures through every route of the policy, 3 frames, settling caller |
| `DataTruth_reappend` | *(violation)* Is there one row per subject for a caller that decides again while in doubt? | three captures of one event, one with other terms, 3 frames |
| `Availability_settled` | One marker per key, monotone instants, exact doubts? Is `MarkerLedger` implemented? | 2 keys, 2 sources, 3 frames, instants 0..2 |
| `Availability_reappend` | *(violation)* Is there one row per key after a restart? | 2 keys, 2 frames |
| `Recorder` | Does the record ever get ahead of its proof? What makes it contradictory? Does recovery complete it? | one Trade, 2 appends under way in each table, any restarts |
| `Replay` | Look-ahead, exactness, pages of one snapshot, ambiguity, end of walks | 3 facts (2 recorded), page size 1, an arrival and a strict event-time request, instants 0..5, one repeated decision, two markers in doubt |

### Bounds

Every bound is a conjunct of the action that counts; nothing else is cut.

- `MaxFrames` (appends): three frames are a first append, its re-append and a
  rival's.
- `MaxTime` (instants): in Availability three instants separate before, at and
  after a floor; in Replay the third capture's markers are at 4 and 5, at the
  cutoff and behind it.
- `MaxRepeats`, `MaxMarkers`: one subject with a second decision row, two
  undecided markers in all, which may be of one key: the second is what makes a
  contradiction, a third repeats it. `MaxPageSize` 1 makes a first, a middle and a last page of three
  records, which tie on receipt.
- `MaxLost`, `MaxDropped` in DurablePersistence: one lost acknowledgement makes
  one resend, one lost diagnostic one undetected rejection.
- `MaxCalls`, `MaxResends`, `MaxDropped` in HotStore: two calls overlap or follow
  one another; one frame delivered twice, after another call's frame, is what
  DEDUP has to undo. The passing run has a server that drops nothing, since the
  code relies on that; the other one drops one frame. `MaxBatchRows` is 2 where
  the code has 500: one batch of three is too large, one of two just fits.
- `MaxTroubles` (statements that fail, and administrative changes): a failure
  between two statements, or a change between check and use, is one trouble.
- `MaxObjects`, `MaxChanges`, `MaxUses` in MarketCapture: an identity and its
  copy; a market that appears, disappears or is replaced between two pages; one
  stream or one fact, as no use looks at another.
- `MaxChanges` in ReferenceIngress: two registrations by others, one to disturb and
  one to restore.
- `MaxUnderway` in Recorder: two appends under way in a table are an append and
  its repetition, the least that makes a contradiction; rows of equal content are
  told apart by a number up to the same bound. A second Trade of the event would
  meet the same repetition through `AcceptedRows`; the theorems speak of any facts.
- The sample rows of `Tables` take every form a cell may arrive in, in any one
  column and in any two; the theorems speak of all rows.

The theorems hold for all values of these bounds.

Five configurations say `CHECK_DEADLOCK FALSE`. In DurablePersistence every fact
is persisted once, so the system does stop; in MarketCapture, HotStore and
HotStore_drop callers stop at the bound on objects, uses or calls; in Recorder no process starts over
two markers of one key. Symmetry (of
Hot Stores, of keys) is used in runs without liveness only.

### Fairness

That a call of `decide` or `record_proven` ends is not claimed. Both adapters wait
for visibility with `SELECT wait_wal_table(...)`, which nothing under `src/`
bounds: whether it returns is QuestDB's. `DataTruth` and `AvailabilityLedger` have
no fairness; the wait may end either way or never, and nothing they state rests on
its end.

`DurablePersistence` assumes that a connected client keeps sending and that the
server finally answers and applies.

`Recorder` (`FairSpec`) assumes a caller that recovers each fact of `Recovered`
again and again, that no step of such a call fails for ever (each query, the
unbounded one included, is answered now and again), that the server does not lose
every append made for the fact, and that the process is restarted now and again:
the doubt about a marker that was lost is lifted by nothing else. No code of the
repository is that caller, and the run shows what one would achieve.
`RecoveryCompletes` exempts a fact whose record has become contradictory, which
nothing mends; `OnlyHasteContradicts` says what it takes to become so. Facts
outside `Recovered` need not be recovered.

`Replay` assumes a client that asks for its next page. `WalkEnds` is for sources
that do not fail for ever, and for walks whose past stays as it was: when a record
surfaces in the past of a walk, `service.py` refuses each of its further pages
with SOURCE_UNAVAILABLE, the code of a source that fails. The modelled client, like
a real one, cannot tell the two apart and goes on asking. The table set-up has no liveness property:
a table dropped under a cached `_schema_ready` is not noticed until the adapter
is closed, so that nothing must eventually be repaired.

### What the violations show

`DataTruth_reappend`: after an in-doubt append, `decide` called again finds no
row and appends another. Both may become readable, and from then on every
`decide` of the subject raises an invariant error and every Replay read fails
with AUTHORITY_CONFLICT. The implementation plan of Data Truth
(`docs/project-brain/data/data-truth/implementation-plan.md:137`) forbids it:
"remain in-doubt when absence cannot prove that an ambiguous append did not
commit".

`Availability_reappend`: the writer does remember its doubts, but in memory. A
process started after an ambiguous append marks the key again; once both rows
are readable, `read_committed_floor` raises in every later start. The plan of
Replay (`docs/project-brain/data/replay-as-of/implementation-plan.md:263`):
"Zero rows after ambiguous publication is not proof that no row was published.
It must not trigger a blind reappend."

`HotStore_drop`: `append_batch` receipts a batch when the completion watermark
has passed it, without asking for rejections as the other three writers do. The
port promises to "Persist one explicitly bounded batch or raise without a success
receipt" (`storage/hot_store/port.py:34`), and the project's own note says the
"watermark may advance for a drop-and-continue server rejection"
(`docs/project-brain/data/storage/durable-persistence.md:125`).

That late markers move the past of an as-of reader, on the other hand, is
accepted in the plan of Replay, and the model says how far. While no process starts
with an append undecided, only markers reported in doubt do
(`LateMarkersAreInDoubt`). In any case a view whose cutoff was settled when its
read began is exact and stays so (`SettledViewIsExact`). Settled means three
things: no marker at or before the cutoff is under way or in doubt, a readable
marker stands at or after it, and *the running writer is past it*. Without the
last, a writer that started behind a lower floor, its predecessor's markers still
in doubt, may issue an instant the others have left behind, and the past of a
cutoff that looked settled changes. Nothing in the repository computes that a
cutoff is settled: the property says when a view may be relied on, not that a
reader can know it.

A null `seq` is the one nullable column the Hot Store does not map. Where the
driver shows it as NaN, the read-back is unequal to the captured fact and the
recorder raises, whatever was stored; the Replay source maps it and would read the
fact. `WrittenIsRead` states this exception. Whether the driver does so is not
decided under `src/`.

## 4. Proofs

Each theorem is about the module's `Spec` (of HotStore, `HotSpec`: its names are
kept apart from the set-up's, so that one proof module can speak of both), for all values of its constants,
assuming only the assumptions the modules name (distinct capture identifiers,
special values outside the sets they stand beside, an approved scope that is a
bijection, and that a text column shows no NaT).

| Module | Theorem | Says | Inductive invariant |
|---|---|---|---|
| `DataTruthProofs` | `TypeCorrect` | `TypeOK` | `TypeInv`: `TypeOK` and `Provenance`, that every published row and every candidate is the policy's verdict on a submitted fact |
| | `AuthorityIsStable`, `AuthorityIsRecorded` | two answers for a fact agree; an answer is a readable row | `StableInv`: each answer was the only readable row of its subject when given, and rows are never removed |
| | `SettledSubjects`, `SettledEvents`, `SettledHistory` | under `SettleFirst`, one row per subject, one accepted row per event, no invariant error | `SettledInv`: from the call to the append nothing about the subject or its event is under way, and the append is entered with no published row of its subject and, if it accepts, no accepted row of its event |
| | `ComparisonsAreAnchored`, `ComparisonsAgree` | comparisons are with the accepted row, the same one for an event | `AnchorInv`: every comparison made, the pending candidate's included, names a readable accepted row of its event, and all of one event the same one |
| | `AuthorityIsImplemented` | under `SettleFirst`, `DataTruth` implements `TruthAuthority` | `TruthInv`: a frame under way is the verdict on its subject against the history *as it is readable now*, and no two frames of one event are under way together |
| `AvailabilityProofs` | `TypeCorrect` | `TypeOK` | `CallInv`: a call that has issued an instant holds a record of its key, about which the writer has no doubt |
| | `MarkersAreStable` | two answers of `record_proven` for a key agree, across restarts | `StableInv`: a running call is about one key, and every marker handed back is readable from then on |
| | `DoubtsEndWithTheirMarker` | a doubt ends with its marker readable, or with the process | `CallInv` |
| | `OneMarker`, `NewMarkersComeLast`, `OnlyDoubtsComeLate` | under `SettleFirst`, one marker per key; new ones are later than all readable ones; what surfaces late was in doubt | `LedgerInv`: every unsettled frame is a remembered doubt, the one the call waits for, or the last one published before a crash; no published instant is beyond `latest`; keys and instants are distinct |
| | `LedgerIsImplemented` | under `SettleFirst`, `AvailabilityLedger` implements `MarkerLedger` | `LedgerInv` |
| `DurablePersistenceProofs` | `TypeCorrect`, `AcknowledgedFactsAreWritten`, `RefusedFactsStayAbsent` | acknowledged means written; refused means nowhere, for ever | `StatusInv`: one frame per fact; while a call waits, its frame is in the spool or written, or its rejection is in the ring, or a diagnostic has been lost since it was published |
| `RecorderProofs` | `TypeCorrect`, `MarkersAreProven`, `RefusedFactsStayOut`, `ResultsAreOnRecord` | nothing is marked or decided without proof; a refused fact stays out; results are on record | `RecordInv`: a fact that is new or refused is nowhere; past the read-back the fact is stored, and whatever is decided is stored |
| | `ContradictionsNeedHaste` | unless something was appended beside an append under way about the same, the record has no contradiction | `CarefulInv`: without haste, rows readable or under way have different subjects, accepted ones different events, and markers different keys |
| `ReplayProofs` | `TypeCorrect`, `ViewsArePast`, `SettledViewsAreExact`, `WalksAreOneSnapshot`, `ConflictsFailClosed` | no look-ahead; exact views of settled cutoffs; pages of one snapshot; contradictions fail closed | `ReplayInv`, below |
| `StorageProofs` | `ReadersAlwaysAgree` | a fact that is judged is replayed as the same or refused, a regular row is read by both or neither; decisions and markers are read alike | none: a fact about the decoders |
| | `WrittenRowsAreRead` | what an adapter writes both readers read as written, a NaN `seq` excepted | none |
| | `TypeCorrect`, `ReadyTablesServe`, `RefusalsNeedMigrations`, `TrustedTablesAreFinal` | ready means servable; a refusal is earned; a table Replay trusts is final | `SetupInv`: what an adapter's earlier checks have found is still so, unless an administrator came |
| | `ReadersSetUp` | `ReaderSpec` implements the set-up's `Spec` | none |
| | `HotTypeCorrect`, `RefusedCallsSendNothing`, `CapturesStayUnique` | a refused call leaves no trace; a capture has one row | `HotInv`: whatever is buffered, sent or stored belongs to a call that was let through; one row per fact |
| | `ReceiptsMeanStored` | where the server drops nothing (`MaxDropped = 0`), a receipted fact is stored | `KeptInv`: each row a running call has given is in its buffer, in a frame of its own still on the way, which its watermark waits for, or stored |
| | `OnceReadStaysReadable` | a capture once read is read again, the same; a range that selected it selects it | `HotInv`: a row is replaced only by one of the same fact |
| `MarketCaptureProofs` | `IdentitiesAreOfTheOnlyMarket`, `RefusalsAreTrue` | issues and refusals say what was listed in the time of the call | `CallInv`: while a call fetches, what it found was listed in its time, and what stayed listed is found or on a page still to come |
| | `UsesAreVerified`, `FactsAreOfTheirMarket` | streams and facts go back to one verification; a fact is about its message's market | `ProvenanceInv`: the registry knows only objects made so far, and these bear names verified together |
| `ReferenceIngressProofs` | `TypeCorrect` | `TypeOK` | itself |
| | `RefusalIsClean`, `InstallCompletes` | a refusal leaves the registries as found; a success leaves all ours, overwriting nobody's | until the changes begin the registry is as found; those already come to are ours, or noted missing; the rest follow |
| | `SubscribedAreCaptured` | a subscribed value becomes a fact of its asset | from the two above and the bijection of the scope |

What needs no assumption on the caller or on restarts: `AuthorityIsStable`,
`MarkersAreStable`, `DoubtsEndWithTheirMarker`. An answer comes from a query that
found exactly one row, and the tables only grow. They are why no run asks again
what survives a caller that retries or a process that restarts.

What needs `SettleFirst` needs it: the two `reappend` runs are the
counterexamples without it. `OneRowPerSubject` alone is not inductive; it must
also say that no frame of the subject is under way between the lookup and the
append. The refinement needs more: a verdict is made against what `FindEvent`
read, and becomes readable much later, when the abstract decision is made. In
between no row of its event may become readable, and none does, since no
other frame of the event is under way. `OneMarkerPerKey` rests on the instants:
the last frame before a crash is recognised by its instant, and a process
starts behind all of them.

`StatusInv` has to count lost diagnostics. The watermark passes a rejected frame
too, so "complete" proves nothing by itself; it does together with an empty ring
and an unchanged count of what the ring dropped.

`ReplayInv` follows a read. `LedgerInv`: a marker, in doubt or not, is of something
readable. `ReadInv`: what the read holds was in the tables when it was read, and
the tables only grow. `SettledInv`: a read that began at a settled cutoff has
missed nothing of its past, which no writer adds to any more: every later floor is
at or after the cutoff, since a readable marker is. `ConflictInv`: a contradiction the read began with is
still ahead of it. `ViewInv` carries these to the view that was handed out.
`WalkInv`: the cursor of an open walk cuts its snapshot exactly behind what was
delivered, so that the next page continues it or raises the drift error. It rests
on lemmas about keys and pages: the order is strict and total, a page is the
beginning of what follows the cursor, and a snapshot that is unchanged is the
same set.

`SetupInv` holds because what another adapter does to a table that is present never
changes anything a check looks at from right to wrong (`StepsGrow`, `GrowthKeeps`):
it adds an absent column, and rightly.

Only model-checked, and why:

- all liveness (`PendingSettles`, `RecoveryCompletes`, `WalkEnds`): outside the prover's reach;
- the order of the rows `read_range` returns: a sorted sequence, whose existence
  takes induction over data. `OnceReadAlwaysRead` is checked of the sequence and
  proved (`OnceReadStaysReadable`) of the set of rows it is made from.

`ReceiptsMeanStored` says by its hypothesis what the run `HotStore_drop` shows: the
store does not poll the sender's rejections, so its receipt is worth what the
server's acknowledgement is. That two rows of one capture are the same row needs
what the capture boundary gives, an identifier per record
(`HotStoreAssumption`); deduplication by time alone would not do.

## 5. Not modelled

- The text of payloads, cursors and identities, and the conversion of timestamps;
  SHA-256 does not collide. INVALID_CURSOR, which changes nothing, is left out
  with it.
- That `wait_wal_table` returns (see Fairness).
- The ticker the resolver makes up and the shadow comparison with it: they are
  observed and decide nothing.
- Reference messages of unapproved identifiers are refused by the lookup that
  files the others; nothing more is stated of them.
- Several ordered writers of one decision or availability table: the documents
  allow one.
- `fetch_market` and `subscription_access` of the gateway hand the SDK's own
  objects through and keep nothing.
- An identity never expires in the code, so no property limits its use after its
  window has closed.
- The closed list of asset names: `StoredRows` tells canonical assets from
  others, elsewhere assets are members of a small set.

## 6. Plan

Done: every component of the inventory, the two refinements and their proofs, and
every safety property the runs check proved for all constants, but for the order of
a range the Hot Store returns.

Next: a composition: an abstract evidence store that DurablePersistence implements
and Recorder uses, and Recorder shown to implement the steps ReplayLedger lets the
recorder take.
