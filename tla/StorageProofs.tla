----------------------------- MODULE StorageProofs -----------------------------
(***************************************************************************)
(* The adapters of the three tables, and the Hot Store's batches.          *)
(*                                                                         *)
(* The two decoders of each table agree, for every row the driver may show *)
(* and not only for the sample TLC reads: they differ in what they take    *)
(* for a null and for a number, and what the recorder judges Replay still  *)
(* shows as that or refuses; RowsAssumption says only that a text is never *)
(* NaT.  The adapters may rely on the tables they have checked, for any    *)
(* number of adapters and troubles.  And what a store has received it      *)
(* keeps, and keeps once, for any number of stores, batches and resends.   *)
(***************************************************************************)
EXTENDS TableReaders, HotStore, FiniteSetTheorems, TLAPS

(* What a column of text shows, the two null sets see alike.               *)
LEMMA NullsOfText ==
    ASSUME NEW c, TextCell(c)
    PROVE  /\ c.is \in HistoryNulls <=> c.is \in SourceNulls
           /\ c.is \in StoreNulls <=> c.is \in SourceNulls
           /\ \A null : Value(c, HistoryNulls, null) = Value(c, SourceNulls, null)
           /\ \A null : Value(c, StoreNulls, null) = Value(c, SourceNulls, null)
BY DEF TextCell, HistoryNulls, StoreNulls, SourceNulls, Value

(* Both decoders see the nulls of a fact's mapped columns alike, and what  *)
(* they make of its numbers differs only in the null of seq.               *)
LEMMA FactDecoders ==
    ASSUME NEW r \in FactRows
    PROVE  FactReadersAgree(r)
<1> DEFINE f == FactInIntegers(r, SourceNulls, SourceNulls)
           g == FactInIntegers(r, HotNulls, {"none"})
<1>1. r.seq.is \notin {"nan", "nat"} => g = f
  BY DEF FactInIntegers, HotNulls, SourceNulls
<1>2. \A h \in HotFact(r) : /\ h.capture_id = r.capture_id /\ h.payload = r.payload
                            /\ h.sid = r.sid /\ h.seq = r.seq
  BY DEF HotFact, Fact
<1>3. Judged(r) \subseteq {g} /\ SourceFact(r) \subseteq {f}
  BY DEF Judged, SourceFact
<1>4. Judged(r) # {} <=> /\ HotFact(r) # {} /\ IsText(r.capture_id) /\ IsText(r.payload)
                         /\ Number(r.sid) /\ (Number(r.seq) \/ r.seq.is = "none")
  BY <1>2 DEF Judged
<1>5. Judged(r) # {} => r.seq.is \notin {"nan", "nat"}
  BY <1>4 DEF Number
<1>6. ASSUME Regular(r) PROVE SourceFact(r) = Judged(r)
  <2>1. /\ IsText(r.source_id) /\ IsText(r.message_type) /\ IsText(r.capture_id)
        /\ Number(r.sid) /\ (Number(r.seq) \/ r.seq.is = "none")
        /\ r.seq.is \in SourceNulls \cup {"int"}
        /\ r.received_timestamp.is \notin {"none", "nan"}
        /\ r.seq.is \notin {"nan", "nat"}
    BY <1>6 DEF Regular, Number, IsFull, IsText, HotNulls, SourceNulls
  <2>2. HotFact(r) # {} <=> CanonicalAsset(r.asset) /\ r.event_subtype.is \in HotNulls \cup {"text"}
    BY <1>6 DEF Regular, HotFact
  <2>3. SourceFact(r) # {} <=> /\ IsText(r.payload) /\ CanonicalAsset(r.asset)
                              /\ r.event_subtype.is \in SourceNulls \cup {"text"}
    BY <1>6, <2>1 DEF Regular, SourceFact
  <2>4. Judged(r) # {} <=> SourceFact(r) # {}
    BY <1>4, <2>1, <2>2, <2>3 DEF HotNulls, SourceNulls
  <2> QED BY <1>1, <1>3, <2>1, <2>4
<1> QED BY <1>1, <1>3, <1>5, <1>6 DEF FactReadersAgree

LEMMA DecisionDecoders ==
    ASSUME NEW r \in DecisionRows
    PROVE  HistoryDecision(r) = SourceDecision(r)
<1>1. TextCell(r.reason) /\ \A c \in EventColumns : TextCell(r.event[c])
  BY RowsAssumption
<1>2. Decodable(r, HistoryNulls) <=> Decodable(r, SourceNulls)
  BY <1>1, NullsOfText DEF Decodable
<1>3. Decision(r, HistoryNulls) = Decision(r, SourceNulls)
  BY <1>1, NullsOfText DEF Decision
<1> QED BY <1>2, <1>3 DEF HistoryDecision, SourceDecision

LEMMA MarkerDecoders ==
    ASSUME NEW r \in MarkerRows
    PROVE  SourceMarker(r) = {m \in StoreMarker(r) : Bound(r)}
<1>1. TextCell(r.policy_version)
  BY RowsAssumption
<1>2. ValidMarker(r, StoreNulls) <=> ValidMarker(r, SourceNulls)
  BY <1>1, NullsOfText DEF ValidMarker
<1>3. Marker(r, StoreNulls) = Marker(r, SourceNulls)
  BY <1>1, NullsOfText DEF Marker
<1> QED BY <1>2, <1>3 DEF StoreMarker, SourceMarker

-----------------------------------------------------------------------------
LEMMA WrittenFactIsRead ==
    ASSUME NEW r \in FactRows, WrittenFact(r)
    PROVE  /\ SourceFact(r) = {Written(r)}
           /\ Judged(r) = IF r.seq.is = "nan" THEN {} ELSE {Written(r)}
<1>1. TextCell(r.event_subtype)
  BY RowsAssumption
<1>2. SourceFact(r) = {FactInIntegers(r, SourceNulls, SourceNulls)}
  BY <1>1 DEF WrittenFact, SourceFact, TextCell, SourceNulls, IsFull, IsText
<1>3. FactInIntegers(r, SourceNulls, SourceNulls) = Written(r)
  BY DEF Written, FactInIntegers, WrittenFact, SourceNulls
<1>4. Judged(r) = IF r.seq.is = "nan" THEN {} ELSE {Written(r)}
  <2>1. CASE r.seq.is = "nan"
    BY <2>1 DEF Judged, HotFact, Fact, Number
  <2>2. CASE r.seq.is # "nan"
    BY <1>2, <1>3, <2>2, FactDecoders
       DEF FactReadersAgree, Regular, WrittenFact, HotNulls
  <2> QED BY <2>1, <2>2
<1> QED BY <1>2, <1>3, <1>4

LEMMA WrittenDecisionIsRead ==
    ASSUME NEW r \in DecisionRows, WrittenDecision(r)
    PROVE  HistoryDecision(r) # {} /\ HistoryDecision(r) = SourceDecision(r)
<1>1. Decodable(r, HistoryNulls)
  BY DEF WrittenDecision, Decodable, NullOr, HistoryNulls
<1> QED BY <1>1, DecisionDecoders DEF HistoryDecision

LEMMA WrittenMarkerIsRead ==
    ASSUME NEW r \in MarkerRows, WrittenMarker(r)
    PROVE  StoreMarker(r) # {} /\ StoreMarker(r) = SourceMarker(r)
<1>1. IsFull(r.identity) /\ Bound(r)
  BY RowsAssumption DEF WrittenMarker, IsFull, IsText, Bound
<1>2. ValidMarker(r, StoreNulls)
  BY <1>1 DEF WrittenMarker, ValidMarker, NullOr, StoreNulls
<1> QED BY <1>1, <1>2, MarkerDecoders DEF StoreMarker

-----------------------------------------------------------------------------
(* Only rows of the tables are ever shown.                                 *)
RowsAreShown ==
    /\ shown.facts \subseteq FactRows
    /\ shown.decisions \subseteq DecisionRows
    /\ shown.markers \subseteq MarkerRows

LEMMA RowsShown == ReaderSpec => []RowsAreShown
<1>1. ReaderInit => RowsAreShown
  BY DEF ReaderInit, NoRow, RowsAreShown
<1>2. RowsAreShown /\ [ReaderNext]_readerVars => RowsAreShown'
  BY DEF ReaderNext, ShowRow, NoRow, RowsAreShown, readerVars
<1> QED BY <1>1, <1>2, PTL DEF ReaderSpec

(* Replay shows the fact the recorder judged or refuses it, whatever the   *)
(* row holds in any column; the history and the source read every decision *)
(* alike, and a marker Replay trusts is the one the availability store     *)
(* would find.                                                             *)
THEOREM ReadersAlwaysAgree == ReaderSpec => []ReadersAgree
<1>1. RowsAreShown => ReadersAgree
  <2> SUFFICES ASSUME RowsAreShown PROVE ReadersAgree
    OBVIOUS
  <2>1. \A r \in shown.facts : FactReadersAgree(r)
    BY FactDecoders DEF RowsAreShown
  <2>2. \A r \in shown.decisions : DecisionReadersAgree(r)
    BY DecisionDecoders DEF DecisionReadersAgree, RowsAreShown
  <2>3. \A r \in shown.markers : MarkerReadersAgree(r)
    BY MarkerDecoders DEF MarkerReadersAgree, RowsAreShown
  <2> QED BY <2>1, <2>2, <2>3 DEF ReadersAgree
<1> QED BY <1>1, RowsShown, PTL

(* What the writers write is read, by both and as what was written; only a *)
(* fact whose null seq is shown as NaN is read by the source and never     *)
(* judged.                                                                 *)
THEOREM WrittenRowsAreRead == ReaderSpec => []WrittenIsRead
<1>1. RowsAreShown => WrittenIsRead
  BY WrittenFactIsRead, WrittenDecisionIsRead, WrittenMarkerIsRead
     DEF RowsAreShown, WrittenIsRead
<1> QED BY <1>1, RowsShown, PTL

-----------------------------------------------------------------------------
(* How an adapter comes to trust its table.  While nobody administers the  *)
(* table, other adapters only create it or add columns to it, and nothing  *)
(* a check has found right goes wrong again.                               *)
SettingUp == {"exists", "create", "physical", "keys", "columns", "add", "schema"}

Role(a) ==
    /\ pc[a] \in SettingUp => a \in HotStores \cup Writers
    /\ pc[a] \in {"columns", "add", "schema"} => a \in HotStores
    /\ pc[a] \in {"source tables", "source columns"} => a \in Sources
    /\ ready[a] => pc[a] = "idle"
    /\ ready[a] \/ pc[a] # "idle" => connected[a]
    /\ pc[a] # "idle" => answer[a] = "none"
    /\ pc[a] = "add" => left[a] \subseteq Addable

RolesInv == \A a \in Adapters : Role(a)

(* What a writer's checks have found, up to the step it is at.             *)
Checked(a) ==
    LET t == table[TableOf[a]]
    IN  /\ pc[a] \in {"physical", "keys", "columns", "add", "schema"} => t.present
        /\ pc[a] \in {"keys", "columns", "add", "schema"} => t.physical
        /\ pc[a] \in {"columns", "add", "schema"} => t.keys
        /\ pc[a] \in {"add", "schema"} =>
              t.required /\ \A c \in Addable : t.added[c] # "wrong"
        /\ pc[a] = "add" => \A c \in Addable \ left[a] : t.added[c] = "right"
        /\ pc[a] = "schema" => \A c \in Addable : t.added[c] = "right"

(* And what the Replay source's have, of the tables it has visited.        *)
SourceFound(a) == pc[a] = "source columns" =>
    /\ \A n \in Tables : table[n].present /\ table[n].physical
    /\ \A n \in Tables \ left[a] : ExactColumns(table[n])

(* A refusal is of a table that is there, for a reason that stays.         *)
Refuses(a) ==
    LET t == table[TableOf[a]]
    IN  /\ t.present
        /\ ~(CoreAccepted(t) /\ IF a \in HotStores THEN Upgradable(t) ELSE Complete(t))

(* All of this holds of an adapter until somebody administers its table.   *)
Trusted(a) == ~touched[a] =>
    /\ a \in HotStores \cup Writers => Checked(a)
    /\ a \in Sources => SourceFound(a)
    /\ ready[a] => Servable(a)
    /\ a \in HotStores \cup Writers /\ answer[a] = "refused" => Refuses(a)

SetupInv == TypeOK /\ RolesInv /\ \A a \in Adapters : Trusted(a)

(* What adapters do to a table, as against an administrator.               *)
Grown(n) == table[n].present =>
    /\ table'[n].present
    /\ table'[n].physical = table[n].physical /\ table'[n].keys = table[n].keys
    /\ table'[n].required = table[n].required /\ table'[n].extra = table[n].extra
    /\ \A c \in Addable : /\ table[n].added[c] # "absent" => table'[n].added[c] = table[n].added[c]
                          /\ table'[n].added[c] \in {table[n].added[c], "right"}
    /\ n # HotTable => table'[n] = table[n]

TablesGrow == table' \in [Tables -> Table] /\ \A n \in Tables : Grown(n)

LEMMA StepsGrow ==
    ASSUME TypeOK, RolesInv, NEW b \in Adapters, Step(b)
    PROVE  TablesGrow
<1> USE DEF TablesGrow
<1>0. table \in [Tables -> Table]
  BY DEF TypeOK
<1>1. CASE table' = table
  BY <1>0, <1>1 DEF Grown
<1>2. CASE CreateTable(b) /\ table' # table
  <2>1. b \in HotStores \cup Writers /\ TableOf[b] \in Tables /\ ~table[TableOf[b]].present
    BY <1>2, SetupAssumption DEF CreateTable, RolesInv, Role, SettingUp, Tables
  <2>2. table' = [table EXCEPT ![TableOf[b]] = Created]
    BY <1>2 DEF CreateTable
  <2>3. Created \in Table
    BY DEF Created, Table
  <2> QED BY <1>0, <2>1, <2>2, <2>3 DEF Grown
<1>3. CASE AddColumn(b) /\ table' # table
  <2>1. b \in HotStores /\ TableOf[b] = HotTable /\ HotTable \in Tables
    BY <1>3, SetupAssumption DEF AddColumn, RolesInv, Role, Tables
  <2>2. PICK c \in left[b] : table' = [table EXCEPT ![HotTable] = AddIfAbsent(@, c)]
    BY <1>3, <2>1 DEF AddColumn
  <2> DEFINE t == table[HotTable]
             u == AddIfAbsent(t, c)
  <2>3. t \in Table
    BY <1>0, <2>1
  <2>4. /\ u \in Table /\ u.present = t.present /\ u.physical = t.physical /\ u.keys = t.keys
        /\ u.required = t.required /\ u.extra = t.extra
        /\ \A d \in Addable : /\ t.added[d] # "absent" => u.added[d] = t.added[d]
                              /\ u.added[d] \in {t.added[d], "right"}
    BY <2>3 DEF AddIfAbsent, Table
  <2>5. table' = [table EXCEPT ![HotTable] = u]
    BY <2>2
  <2> HIDE DEF u
  <2> QED BY <1>0, <2>1, <2>4, <2>5 DEF Grown
<1> QED
  BY <1>1, <1>2, <1>3 DEF Step, AskExists, CheckPhysical, CheckKeys, CheckColumns,
     CheckSchema, CheckSourceTables, CheckSourceColumns, AddColumn, CreateTable

(* What is found right of a table stays right, what it refused stays wrong.*)
LEMMA GrowthKeeps ==
    ASSUME TypeOK, NEW n \in Tables, Grown(n), table' \in [Tables -> Table], table[n].present
    PROVE  /\ CoreAccepted(table[n]) <=> CoreAccepted(table'[n])
           /\ Complete(table[n]) => Complete(table'[n])
           /\ Upgradable(table[n]) <=> Upgradable(table'[n])
           /\ n # HotTable => (Complete(table[n]) <=> Complete(table'[n]))
           /\ ExactColumns(table[n]) => ExactColumns(table'[n])
<1>1. /\ \A c \in Addable : table[n].added[c] \in {"absent", "right", "wrong"}
      /\ \A c \in Addable : table'[n].added[c] \in {"absent", "right", "wrong"}
  BY DEF TypeOK, Table
<1> QED BY <1>1 DEF Grown, CoreAccepted, Complete, Upgradable, ExactColumns

LEMMA TheirTables ==
    \A a \in HotStores \cup Writers :
        /\ TableOf[a] \in Tables /\ a \notin Sources
        /\ a \in HotStores <=> TableOf[a] = HotTable
        /\ Mine(a) = {TableOf[a]}
BY SetupAssumption DEF Tables, Mine

(* An adapter keeps its findings through everybody else's statements.      *)
LEMMA OthersKeep ==
    ASSUME TypeOK, TablesGrow, NEW a \in Adapters, Trusted(a),
           pc'[a] = pc[a], left'[a] = left[a], answer'[a] = answer[a],
           ready'[a] => ready[a], touched'[a] = touched[a]
    PROVE  Trusted(a)'
<1> SUFFICES ASSUME ~touched[a]
             PROVE  /\ a \in HotStores \cup Writers => Checked(a)'
                    /\ a \in Sources => SourceFound(a)'
                    /\ ready[a] => Servable(a)'
                    /\ a \in HotStores \cup Writers /\ answer[a] = "refused" => Refuses(a)'
  BY DEF Trusted
<1>0. /\ table' \in [Tables -> Table] /\ \A n \in Tables : Grown(n)
      /\ \A n \in Tables : \A c \in Addable :
            /\ table[n].added[c] \in {"absent", "right", "wrong"}
            /\ table'[n].added[c] \in {"absent", "right", "wrong"}
  BY DEF TablesGrow, TypeOK, Table
<1>1. ASSUME a \in HotStores \cup Writers PROVE Checked(a)'
  <2>1. TableOf[a] \in Tables /\ Grown(TableOf[a]) /\ Checked(a)
    BY <1>0, <1>1, TheirTables DEF Trusted
  <2> QED BY <1>0, <2>1 DEF Checked, Grown
<1>2. ASSUME a \in Sources PROVE SourceFound(a)'
  <2>1. SourceFound(a)
    BY <1>2 DEF Trusted
  <2> QED BY <1>0, <2>1, GrowthKeeps DEF SourceFound, Grown
<1>3. ASSUME ready[a] PROVE Servable(a)'
  <2>1. Servable(a) /\ Mine(a) \subseteq Tables
    BY <1>3, TheirTables DEF Trusted, Mine, Adapters
  <2>2. ASSUME NEW n \in Mine(a)
        PROVE  CoreAccepted(table'[n]) /\ Complete(table'[n]) /\ (a \in Sources => ~table'[n].extra)
    BY <1>0, <2>1, GrowthKeeps DEF Servable, CoreAccepted, Grown
  <2> QED BY <2>2 DEF Servable
<1>4. ASSUME a \in HotStores \cup Writers, answer[a] = "refused" PROVE Refuses(a)'
  <2>1. TableOf[a] \in Tables /\ Grown(TableOf[a]) /\ Refuses(a)
    BY <1>0, <1>4, TheirTables DEF Trusted
  <2> QED BY <1>0, <1>4, <2>1, GrowthKeeps, TheirTables DEF Refuses, Grown
<1> QED BY <1>1, <1>2, <1>3, <1>4

-----------------------------------------------------------------------------
LEMMA InitSetup == Init => SetupInv
<1> SUFFICES ASSUME Init PROVE SetupInv
  OBVIOUS
<1>1. TypeOK
  BY SetupAssumption DEF Init, TypeOK, Steps
<1> QED
  BY <1>1 DEF Init, SetupInv, RolesInv, Role, SettingUp, Trusted, Checked, SourceFound

LEMMA StepTyped ==
    ASSUME SetupInv, NEW b \in Adapters, Step(b)
    PROVE  /\ TypeOK'
           /\ pc' = [pc EXCEPT ![b] = pc'[b]] /\ left' = [left EXCEPT ![b] = left'[b]]
           /\ answer' = [answer EXCEPT ![b] = answer'[b]]
           /\ ready' = [ready EXCEPT ![b] = ready'[b]]
           /\ UNCHANGED <<failures, changes, connected, touched>>
<1>0. TypeOK /\ TablesGrow
  BY StepsGrow DEF SetupInv
<1>1. /\ pc' = [pc EXCEPT ![b] = pc'[b]] /\ pc'[b] \in Steps
      /\ left' = [left EXCEPT ![b] = left'[b]] /\ left'[b] \subseteq Addable \cup Tables
      /\ answer' = [answer EXCEPT ![b] = answer'[b]]
      /\ answer'[b] \in {"none", "database", "unavailable", "refused"}
      /\ ready' = [ready EXCEPT ![b] = ready'[b]] /\ ready'[b] \in BOOLEAN
      /\ UNCHANGED <<failures, changes, connected, touched>>
  <2> USE <1>0 DEF TypeOK, Outside, Goto, Finish, Succeed, Check, Steps
  <2>1. CASE AskExists(b) \/ CreateTable(b)
    BY <2>1 DEF AskExists, CreateTable
  <2>2. CASE CheckPhysical(b) \/ CheckKeys(b)
    BY <2>2 DEF CheckPhysical, CheckKeys
  <2>3. CASE CheckColumns(b) \/ CheckSchema(b)
    BY <2>3 DEF CheckColumns, CheckSchema
  <2>4. CASE AddColumn(b)
    <3>1. left' = left \/ \E c \in left[b] : left' = [left EXCEPT ![b] = @ \ {c}]
      BY <2>4 DEF AddColumn
    <3>2. left' = [left EXCEPT ![b] = left'[b]] /\ left'[b] \subseteq Addable \cup Tables
      BY <1>0, <3>1 DEF TypeOK
    <3>3. \/ \E step \in {"add", "schema"} : Goto(b, step)
          \/ Finish(b, "unavailable")
      BY <2>4 DEF AddColumn
    <3> QED BY <2>4, <3>2, <3>3 DEF AddColumn
  <2>5. CASE CheckSourceTables(b)
    BY <2>5 DEF CheckSourceTables
  <2>6. CASE CheckSourceColumns(b)
    <3>1. left' = left \/ \E n \in left[b] : left' = [left EXCEPT ![b] = @ \ {n}]
      BY <2>6 DEF CheckSourceColumns
    <3>2. left' = [left EXCEPT ![b] = left'[b]] /\ left'[b] \subseteq Addable \cup Tables
      BY <1>0, <3>1 DEF TypeOK
    <3>3. Goto(b, "source columns") \/ Finish(b, "refused") \/ Succeed(b)
      BY <2>6 DEF CheckSourceColumns
    <3> QED BY <2>6, <3>2, <3>3 DEF CheckSourceColumns
  <2> QED BY <2>1, <2>2, <2>3, <2>4, <2>5, <2>6 DEF Step
<1>2. TypeOK'
  BY <1>0, <1>1 DEF TypeOK, TablesGrow
<1> QED BY <1>1, <1>2

(* How a step of a setup ends.                                             *)
Went(b, step) == pc'[b] = step /\ ~ready'[b] /\ answer'[b] = "none"
Refused(b) == pc'[b] = "idle" /\ ~ready'[b] /\ answer'[b] = "refused"
Failed(b) == pc'[b] = "idle" /\ ~ready'[b] /\ answer'[b] = "unavailable"
Trusts(b) == pc'[b] = "idle" /\ answer'[b] = "database"

(* The step an adapter takes itself: what it finds, it may rely on.        *)
LEMMA OwnStep ==
    ASSUME SetupInv, NEW b \in Adapters, Step(b)
    PROVE  Role(b)' /\ Trusted(b)'
<1>0. /\ TypeOK /\ TypeOK' /\ TablesGrow /\ Role(b) /\ Trusted(b)
      /\ pc[b] # "idle" /\ connected[b] /\ ~ready[b] /\ answer[b] = "none"
      /\ touched' = touched /\ connected' = connected
  <2>1. pc[b] # "idle"
    BY DEF Step, AskExists, CreateTable, CheckPhysical, CheckKeys, CheckColumns, AddColumn,
       CheckSchema, CheckSourceTables, CheckSourceColumns
  <2> QED BY <2>1, StepsGrow, StepTyped DEF SetupInv, RolesInv, Role
<1> USE DEF SettingUp, Role, Went, Refused, Failed, Trusts
<1>a. b \in Adapters /\ b \in DOMAIN pc /\ b \in DOMAIN ready /\ b \in DOMAIN answer
  BY <1>0 DEF TypeOK
<1> DEFINE t == table[TableOf[b]]
<1>1. CASE AskExists(b)
  <2>1. /\ b \in HotStores \cup Writers /\ pc[b] = "exists" /\ table' = table
        /\ (Went(b, "physical") /\ t.present) \/ Went(b, "create")
    BY <1>0, <1>a, <1>1 DEF AskExists, Goto
  <2> QED BY <1>0, <2>1, TheirTables DEF Trusted, Checked
<1>2. CASE CreateTable(b)
  <2>1. /\ b \in HotStores \cup Writers /\ pc[b] = "create"
        /\ Went(b, "physical") \/ Failed(b)
    BY <1>0, <1>a, <1>2 DEF CreateTable, Goto, Finish
  <2>2. table'[TableOf[b]].present
    BY <1>0, <1>2, <2>1, TheirTables DEF CreateTable, Created, TypeOK
  <2> QED BY <1>0, <2>1, <2>2, TheirTables DEF Trusted, Checked
<1>3. CASE CheckPhysical(b)
  <2>1. /\ b \in HotStores \cup Writers /\ pc[b] = "physical" /\ table' = table
        /\ \/ Went(b, "keys") /\ t.present /\ t.physical
           \/ Refused(b) /\ ~(t.present /\ t.physical)
    BY <1>0, <1>a, <1>3 DEF CheckPhysical, Check, Goto, Finish
  <2> QED BY <1>0, <2>1, TheirTables DEF Trusted, Checked, Refuses, CoreAccepted
<1>4. CASE CheckKeys(b)
  <2>1. /\ b \in HotStores \cup Writers /\ pc[b] = "keys" /\ table' = table
        /\ \/ Went(b, "columns") /\ b \in HotStores /\ t.present /\ t.keys
           \/ Refused(b) /\ b \in HotStores /\ ~(t.present /\ t.keys)
           \/ Trusts(b) /\ t.present /\ t.keys /\ Complete(t)
           \/ Refused(b) /\ b \notin HotStores /\ ~(t.present /\ t.keys /\ Complete(t))
    BY <1>0, <1>a, <1>4 DEF CheckKeys, Check, Goto, Finish, Succeed
  <2> QED BY <1>0, <2>1, TheirTables DEF Trusted, Checked, Refuses, CoreAccepted, Servable
<1>5. CASE CheckColumns(b)
  <2>1. /\ b \in HotStores /\ pc[b] = "columns" /\ table' = table /\ left'[b] = Addable
        /\ \/ Went(b, "add") /\ t.present /\ Upgradable(t)
           \/ Refused(b) /\ ~(t.present /\ Upgradable(t))
    BY <1>0, <1>a, <1>5 DEF CheckColumns, ColumnsAccepted, Check, Goto, Finish, TypeOK
  <2> QED BY <1>0, <2>1, TheirTables DEF Trusted, Checked, Refuses, Upgradable
<1>6. CASE AddColumn(b)
  <2>1. /\ b \in HotStores /\ pc[b] = "add" /\ TableOf[b] \in Tables /\ b \notin Sources
        /\ t \in Table /\ Grown(TableOf[b])
    BY <1>0, <1>6, TheirTables DEF AddColumn, TypeOK, TablesGrow
  <2>2. CASE left[b] = {}
    <3>1. Went(b, "schema") /\ table' = table
      BY <1>0, <1>a, <1>6, <2>2 DEF AddColumn, Goto
    <3> QED BY <1>0, <2>1, <2>2, <3>1 DEF Trusted, Checked
  <2>3. CASE left[b] # {}
    <3>1. PICK c \in left[b] :
              /\ left'[b] = left[b] \ {c}
              /\ \/ Failed(b)
                 \/ Went(b, "add") /\ table' = [table EXCEPT ![TableOf[b]] = AddIfAbsent(@, c)]
      BY <1>0, <1>a, <1>6, <2>3 DEF AddColumn, Goto, Finish, TypeOK
    <3>2. CASE Failed(b)
      BY <1>0, <2>1, <3>2 DEF Trusted, Checked
    <3>3. CASE Went(b, "add") /\ table' = [table EXCEPT ![TableOf[b]] = AddIfAbsent(@, c)]
      <4>1. table'[TableOf[b]] = AddIfAbsent(t, c)
        BY <1>0, <2>1, <3>3 DEF TypeOK
      <4>2. t.added[c] # "wrong" /\ c \in Addable => table'[TableOf[b]].added[c] = "right"
        BY <2>1, <4>1 DEF AddIfAbsent, Table
      <4>3. ~touched[b] => Checked(b)'
        BY <1>0, <2>1, <3>1, <3>3, <4>2 DEF Trusted, Checked, Grown
      <4> QED BY <1>0, <2>1, <3>1, <3>3, <4>3 DEF Trusted
    <3> QED BY <3>1, <3>2, <3>3
  <2> QED BY <2>2, <2>3
<1>7. CASE CheckSchema(b)
  <2>1. /\ b \in HotStores /\ pc[b] = "schema" /\ table' = table
        /\ \/ Trusts(b) /\ t.present /\ Complete(t)
           \/ Refused(b) /\ ~(t.present /\ Complete(t))
    BY <1>0, <1>a, <1>7 DEF CheckSchema, Finish, Succeed
  <2> QED BY <1>0, <2>1, TheirTables DEF Trusted, Checked, Refuses, Complete, CoreAccepted, Servable
<1>8. CASE CheckSourceTables(b)
  <2>1. /\ b \in Sources /\ pc[b] = "source tables" /\ table' = table /\ left'[b] = Tables
        /\ \/ Went(b, "source columns") /\ \A n \in Tables : table[n].present /\ table[n].physical
           \/ Refused(b)
    BY <1>0, <1>a, <1>8 DEF CheckSourceTables, Check, Goto, Finish, TypeOK
  <2> QED BY <1>0, <2>1, TheirTables DEF Trusted, SourceFound
<1>9. CASE CheckSourceColumns(b)
  <2>1. /\ b \in Sources /\ pc[b] = "source columns" /\ table' = table /\ Mine(b) = Tables
        /\ \/ Trusts(b) /\ left[b] = {}
           \/ Refused(b)
           \/ /\ Went(b, "source columns")
              /\ \E n \in left[b] : left'[b] = left[b] \ {n} /\ ExactColumns(table[n])
    BY <1>0, <1>a, <1>9 DEF CheckSourceColumns, Check, Goto, Finish, Succeed, TypeOK, Mine
  <2> QED BY <1>0, <2>1, TheirTables DEF Trusted, SourceFound, Servable, ExactColumns, CoreAccepted
<1> QED
  BY <1>1, <1>2, <1>3, <1>4, <1>5, <1>6, <1>7, <1>8, <1>9 DEF Step

LEMMA StepKeeps ==
    ASSUME SetupInv, NEW b \in Adapters, Step(b)
    PROVE  SetupInv'
<1>0. /\ TypeOK /\ TypeOK' /\ TablesGrow /\ RolesInv
      /\ pc' = [pc EXCEPT ![b] = pc'[b]] /\ left' = [left EXCEPT ![b] = left'[b]]
      /\ answer' = [answer EXCEPT ![b] = answer'[b]]
      /\ ready' = [ready EXCEPT ![b] = ready'[b]]
      /\ UNCHANGED <<failures, changes, connected, touched>>
  BY StepsGrow, StepTyped DEF SetupInv
<1>1. ASSUME NEW a \in Adapters \ {b}
      PROVE  /\ pc'[a] = pc[a] /\ left'[a] = left[a] /\ answer'[a] = answer[a]
             /\ ready'[a] = ready[a] /\ touched'[a] = touched[a] /\ connected'[a] = connected[a]
  BY <1>0 DEF TypeOK
<1>2. ASSUME NEW a \in Adapters \ {b} PROVE Role(a)' /\ Trusted(a)'
  <2>1. Trusted(a) /\ Role(a)
    BY DEF SetupInv, RolesInv
  <2>2. Trusted(a)'
    BY <1>0, <1>1, <2>1, OthersKeep
  <2> QED BY <1>1, <2>1, <2>2 DEF Role
<1>3. Role(b)' /\ Trusted(b)'
  BY OwnStep
<1> QED BY <1>0, <1>2, <1>3 DEF SetupInv, RolesInv

(* Calls that find the database ready or not at all, failures and close.   *)
LEMMA CallKeepsSetup ==
    ASSUME SetupInv, NEW b \in Adapters,
           Begin(b) \/ ConnectFails(b) \/ StatementFails(b) \/ Close(b)
    PROVE  SetupInv'
<1>0. /\ TypeOK /\ RolesInv /\ table' = table /\ left' = left /\ changes' = changes
      /\ Role(b) /\ Trusted(b) /\ Troubles \in Nat
  <2>1. TypeOK /\ RolesInv /\ Role(b) /\ Trusted(b) /\ Troubles \in Nat
    BY DEF SetupInv, RolesInv, TypeOK, Troubles
  <2>2. table' = table /\ left' = left /\ changes' = changes
    BY DEF Begin, ConnectFails, StatementFails, Close
  <2> QED BY <2>1, <2>2
<1>n. failures \in Nat /\ changes \in Nat /\ MaxTroubles \in Nat
  <2>1. MaxTroubles \in Nat
    BY SetupAssumption
  <2> QED BY <1>0, <2>1 DEF TypeOK
<1>1. /\ failures' \in 0..MaxTroubles
      /\ connected' \in [Adapters -> BOOLEAN] /\ ready' \in [Adapters -> BOOLEAN]
      /\ touched' \in [Adapters -> BOOLEAN] /\ pc' \in [Adapters -> Steps]
      /\ answer' \in [Adapters -> {"none", "database", "unavailable", "refused"}]
      /\ \A a \in Adapters \ {b} :
            /\ pc'[a] = pc[a] /\ answer'[a] = answer[a] /\ ready'[a] = ready[a]
            /\ touched'[a] = touched[a] /\ connected'[a] = connected[a]
      /\ Role(b)' /\ Trusted(b)'
  <2> USE <1>0, SetupAssumption DEF TypeOK, Role, Steps, SettingUp
  <2>1. CASE Begin(b)
    <3>1. ~ready[b] /\ pc[b] = "idle"
      BY <2>1 DEF Begin
    <3>2. /\ connected' = [connected EXCEPT ![b] = TRUE]
          /\ touched' = [touched EXCEPT ![b] = FALSE]
          /\ pc' = [pc EXCEPT ![b] = IF b \in Sources THEN "source tables" ELSE "exists"]
          /\ answer' = [answer EXCEPT ![b] = "none"]
          /\ ready' = ready /\ failures' = failures
      BY <2>1, <3>1 DEF Begin
    <3>3. b \in Sources \/ b \in HotStores \cup Writers
      BY DEF Adapters
    <3> QED BY <3>1, <3>2, <3>3, TheirTables DEF Trusted, Checked, SourceFound
  <2>2. CASE ConnectFails(b)
    <3>1. failures' = failures + 1 /\ failures + changes < MaxTroubles
      BY <2>2 DEF ConnectFails, Troubles
    <3>2. failures' \in 0..MaxTroubles
      BY ONLY <1>n, <3>1
    <3>3. /\ pc' = [pc EXCEPT ![b] = "idle"]
          /\ answer' = [answer EXCEPT ![b] = "unavailable"]
          /\ UNCHANGED <<table, connected, ready, touched>>
      BY <2>2 DEF ConnectFails, Finish
    <3>4. Trusted(b)'
      BY <3>3 DEF Trusted, Checked, SourceFound, Servable
    <3> QED BY <3>2, <3>3, <3>4, <2>2 DEF ConnectFails
  <2>3. CASE StatementFails(b)
    <3>1. failures' = failures + 1 /\ failures + changes < MaxTroubles
      BY <2>3 DEF StatementFails, Troubles
    <3>2. failures' \in 0..MaxTroubles
      BY ONLY <1>n, <3>1
    <3>3. /\ pc' = [pc EXCEPT ![b] = "idle"]
          /\ answer' = [answer EXCEPT ![b] = "unavailable"]
          /\ UNCHANGED <<table, connected, ready, touched>>
      BY <2>3 DEF StatementFails, Finish
    <3>4. Trusted(b)'
      BY <3>3 DEF Trusted, Checked, SourceFound, Servable
    <3> QED BY <3>2, <3>3, <3>4
  <2>4. CASE Close(b)
    BY <2>4 DEF Close, ForgetReadiness, Trusted, Checked, SourceFound, Refuses
  <2> QED BY <2>1, <2>2, <2>3, <2>4
<1>2. TypeOK'
  BY <1>0, <1>1 DEF TypeOK
<1>3. TablesGrow
  BY <1>0 DEF TablesGrow, Grown, TypeOK
<1>4. ASSUME NEW a \in Adapters \ {b} PROVE Role(a)' /\ Trusted(a)'
  <2>1. Trusted(a) /\ Role(a)
    BY DEF SetupInv, RolesInv
  <2>2. Trusted(a)'
    BY <1>0, <1>1, <1>3, <2>1, OthersKeep
  <2> QED BY <1>0, <1>1, <2>1, <2>2 DEF Role
<1> QED BY <1>1, <1>2, <1>4 DEF SetupInv, RolesInv

(* An administrator ends what the adapters of the table may rely on.       *)
LEMMA AdministerKeeps ==
    ASSUME SetupInv, Administer
    PROVE  SetupInv'
<1>0. TypeOK /\ RolesInv /\ \A a \in Adapters : Trusted(a)
  BY DEF SetupInv
<1>1. PICK n \in Tables : \E t \in InitialTables[n] :
          /\ Troubles < MaxTroubles /\ changes' = changes + 1
          /\ table' = [table EXCEPT ![n] = t]
          /\ touched' = [a \in Adapters |-> touched[a] \/ n \in Mine(a)]
          /\ UNCHANGED <<failures, connected, ready, pc, left, answer>>
  BY DEF Administer
<1>t. PICK t \in InitialTables[n] :
          /\ Troubles < MaxTroubles /\ changes' = changes + 1
          /\ table' = [table EXCEPT ![n] = t]
          /\ touched' = [a \in Adapters |-> touched[a] \/ n \in Mine(a)]
          /\ UNCHANGED <<failures, connected, ready, pc, left, answer>>
  BY <1>1
<1>2. TypeOK'
  <2>1. t \in Table
    BY SetupAssumption
  <2>2. \A a \in Adapters : (touched[a] \/ n \in Mine(a)) \in BOOLEAN
    BY <1>0 DEF TypeOK
  <2> QED BY <1>0, <1>t, <2>1, <2>2, SetupAssumption DEF TypeOK, Troubles
<1>3. ASSUME NEW a \in Adapters PROVE Role(a)' /\ Trusted(a)'
  <2>1. Role(a)'
    BY <1>0, <1>t DEF RolesInv, Role
  <2>2. CASE touched'[a]
    BY <2>1, <2>2 DEF Trusted
  <2>3. CASE ~touched'[a]
    <3>1. ~touched[a] /\ n \notin Mine(a)
      BY <1>t, <2>3
    <3>2. /\ \A m \in Mine(a) : table'[m] = table[m]
          /\ a \in Sources => Mine(a) = Tables
          /\ a \in HotStores \cup Writers => TableOf[a] \in Mine(a)
      BY <1>0, <1>t, <3>1, TheirTables DEF TypeOK, Mine, Adapters
    <3>3. a \in Sources \/ ready[a] => Servable(a)' = Servable(a)
      BY <3>2 DEF Servable
    <3>4. a \in HotStores \cup Writers =>
             Checked(a)' = Checked(a) /\ (answer[a] = "refused" => Refuses(a)' = Refuses(a))
      BY <1>t, <3>2 DEF Checked, Refuses
    <3>5. a \in Sources => SourceFound(a)' = SourceFound(a)
      BY <1>t, <3>2 DEF SourceFound
    <3> QED BY <1>0, <1>t, <2>1, <3>1, <3>3, <3>4, <3>5 DEF Trusted
  <2> QED BY <2>1, <2>2, <2>3
<1> QED BY <1>2, <1>3 DEF SetupInv, RolesInv

LEMMA SetupInvHolds == Spec => []SetupInv
<1>1. SetupInv /\ [Next]_vars => SetupInv'
  <2> SUFFICES ASSUME SetupInv, [Next]_vars PROVE SetupInv'
    OBVIOUS
  <2>1. CASE UNCHANGED vars
    <3>1. TypeOK' /\ RolesInv'
      BY <2>1 DEF vars, SetupInv, TypeOK, RolesInv, Role
    <3>2. ASSUME NEW a \in Adapters PROVE Trusted(a)'
      BY <2>1 DEF vars, SetupInv, Trusted, Checked, SourceFound, Servable, Refuses
    <3> QED BY <3>1, <3>2 DEF SetupInv
  <2> QED BY <2>1, StepKeeps, CallKeepsSetup, AdministerKeeps DEF Next
<1> QED BY <1>1, InitSetup, PTL DEF Spec

(* The metadata checks and their memory are well formed in every state.    *)
THEOREM TypeCorrect == Spec => []TypeOK
<1>1. SetupInv => TypeOK
  BY DEF SetupInv
<1> QED BY <1>1, SetupInvHolds, PTL

(* _database_for_use, _database_for_read: checks made one query at a time  *)
(* add up to a table every one of them would accept, and it stays one.     *)
THEOREM ReadyTablesServe == Spec => []ReadyIsServable
<1>1. SetupInv => ReadyIsServable
  BY DEF SetupInv, Trusted, ReadyIsServable
<1> QED BY <1>1, SetupInvHolds, PTL

(* A migration is demanded of a table that needs one, not of one another   *)
(* adapter is creating or upgrading.                                       *)
THEOREM RefusalsNeedMigrations == Spec => []RefusalNeedsMigration
<1>1. SetupInv => RefusalNeedsMigration
  <2> SUFFICES ASSUME SetupInv, NEW a \in HotStores \cup Writers,
                      answer[a] = "refused", ~touched[a]
               PROVE  ~Acceptable(a, TableOf[a])
    BY DEF RefusalNeedsMigration
  <2>1. Refuses(a)
    BY DEF SetupInv, Trusted, Adapters
  <2> QED BY <2>1, TheirTables DEF Refuses, Acceptable
<1> QED BY <1>1, SetupInvHolds, PTL

(* Once the Replay source trusts the tables, only an administrator changes *)
(* them: no Hot Store finds a column to add.                               *)
THEOREM TrustedTablesAreFinal == Spec => SourceTablesAreFinal
<1>1. SetupInv /\ [Next]_vars =>
        \A s \in Sources : ready[s] /\ ~touched[s] /\ changes' = changes => table' = table
  <2> SUFFICES ASSUME SetupInv, [Next]_vars, NEW s \in Sources,
                      ready[s], ~touched[s], changes' = changes
               PROVE  table' = table
    OBVIOUS
  <2>0. /\ TypeOK /\ RolesInv /\ changes \in Nat
        /\ \A n \in Tables : table[n].present /\ Complete(table[n])
    BY DEF SetupInv, Trusted, Adapters, Servable, Mine, CoreAccepted, TypeOK
  <2>1. ASSUME NEW b \in Adapters, Step(b) PROVE table' = table
    <3>1. CASE CreateTable(b)
      <4>1. TableOf[b] \in Tables
        BY <2>0, <3>1, TheirTables DEF CreateTable, RolesInv, Role, SettingUp
      <4> QED BY <2>0, <3>1, <4>1 DEF CreateTable
    <3>2. CASE AddColumn(b)
      <4>1. TableOf[b] \in Tables
        BY <2>0, <3>2, TheirTables DEF AddColumn, RolesInv, Role, SettingUp
      <4>2. ASSUME NEW c \in Addable
            PROVE  AddIfAbsent(table[TableOf[b]], c) = table[TableOf[b]]
        BY <2>0, <4>1 DEF Complete, AddIfAbsent
      <4>3. left[b] \subseteq Addable
        BY <2>0, <3>2 DEF AddColumn, RolesInv, Role
      <4>4. table' = table \/ \E c \in Addable :
               table' = [table EXCEPT ![TableOf[b]] = AddIfAbsent(table[TableOf[b]], c)]
        BY <2>0, <3>2, <4>1, <4>3 DEF AddColumn
      <4> QED BY <2>0, <4>1, <4>2, <4>4 DEF TypeOK
    <3> QED
      BY <2>1, <3>1, <3>2 DEF Step, AskExists, CheckPhysical, CheckKeys, CheckColumns,
         CheckSchema, CheckSourceTables, CheckSourceColumns
  <2>2. changes' # changes + 1
    BY <2>0
  <2> QED BY <2>1, <2>2 DEF Next, Begin, ConnectFails, StatementFails, Close, Administer, vars
<1> QED BY <1>1, SetupInvHolds, PTL DEF Spec, SourceTablesAreFinal

(* The adapters set up in the same way while rows are shown to them.       *)
THEOREM ReadersSetUp == ReaderSpec => Spec
<1>1. ReaderInit => Init
  BY DEF ReaderInit
<1>2. [ReaderNext]_readerVars => [Next]_vars
  BY DEF ReaderNext, ShowRow, readerVars
<1> QED BY <1>1, <1>2, PTL DEF ReaderSpec, Spec

-----------------------------------------------------------------------------
(* The Hot Store's batches.  What a running call has given to its sender   *)
(* is in the buffer, in a frame of its own that is on the way, or stored.  *)
Using == {"rows", "await"}

CallsInv == \A s \in Stores :
    /\ given[s] <= Len(batch[s]) /\ Len(batch[s]) <= MaxBatchRows
    /\ buffer[s] \subseteq ToSet(batch[s])
    /\ stage[s] \in Using => ToSet(batch[s]) \subseteq offered
    /\ stage[s] # "rows" => buffer[s] = {}
    /\ stage[s] \notin Using => given[s] = 0
    /\ stage[s] = "await" => given[s] = Len(batch[s])
    /\ fsn[s] <= frames

(* Nothing is on its way that no call was let through with.                *)
SentInv ==
    /\ \A w \in inflight : w.n <= frames /\ w.facts \subseteq offered
    /\ \A r \in wal : r.fact \in offered
    /\ \A r \in rows : r.fact \in offered \cup Legacy

OneRowInv == \A v, w \in rows : v.fact = w.fact => v = w

Stored(f) == \E r \in wal \cup rows : r.fact = f

OnItsWay(s, f) == \E w \in inflight :
    w.by = s /\ f \in w.facts /\ (stage[s] = "await" => w.n <= fsn[s])

Kept(s, f) == f \in buffer[s] \/ OnItsWay(s, f) \/ Stored(f)

(* Where the server drops nothing, nothing given is lost during the call.  *)
KeptInv ==
    /\ \A s \in Stores : stage[s] \in Using =>
          \A i \in 1..given[s] : Kept(s, batch[s][i])
    /\ ReceiptMeansStored

HotInv == HotTypeOK /\ CallsInv /\ SentInv /\ OneRowInv

(* Sets as the reads count them.                                           *)
LEMMA AtMostOne ==
    ASSUME NEW S, \A v, w \in S : v = w
    PROVE  ~(Cardinality(S) > 1)
<1>1. CASE S = {}
  BY <1>1, FS_EmptySet
<1>2. CASE S # {}
  <2>1. PICK v \in S : S = {v}
    BY <1>2
  <2>2. Cardinality({v}) = 1
    BY FS_Singleton, Zenon
  <2> QED BY <2>1, <2>2
<1> QED BY <1>1, <1>2

LEMMA InitHot == HotInit => HotInv /\ KeptInv
<1> SUFFICES ASSUME HotInit PROVE HotInv /\ KeptInv
  OBVIOUS
<1>1. HotTypeOK
  BY HotStoreAssumption DEF HotInit, HotTypeOK, Replies, Row
<1>2. CallsInv
  BY HotStoreAssumption DEF HotInit, CallsInv, Using
<1>3. SentInv /\ OneRowInv
  BY DEF HotInit, SentInv, OneRowInv
<1>4. KeptInv
  BY DEF HotInit, KeptInv, Using, ReceiptMeansStored
<1> QED BY <1>1, <1>2, <1>3, <1>4 DEF HotInv

(* The one frame a sender adds.                                            *)
LEMMA SendSends ==
    ASSUME HotTypeOK, NEW s \in Stores, NEW facts \in SUBSET Facts, Send(s, facts)
    PROVE  /\ inflight' \subseteq [n : Nat, by : Stores, facts : SUBSET Facts]
           /\ frames' = frames + 1 /\ frames' \in Nat /\ wal' = wal /\ rows' = rows
           /\ \E new \in inflight' : /\ new.n = frames + 1 /\ new.by = s /\ new.facts = facts
                                     /\ inflight' = inflight \cup {new}
<1> DEFINE new == [n |-> frames + 1, by |-> s, facts |-> facts]
<1>1. frames \in Nat
  BY DEF HotTypeOK
<1>2. new \in [n : Nat, by : Stores, facts : SUBSET Facts] /\ new.n = frames + 1 /\ new.by = s
      /\ new.facts = facts
  BY <1>1
<1>3. inflight' = inflight \cup {new} /\ frames' = frames + 1 /\ wal' = wal /\ rows' = rows
  BY DEF Send
<1> HIDE DEF new
<1> QED BY <1>1, <1>2, <1>3 DEF HotTypeOK

(* What the program does to the server: nothing, or it sends its buffer.   *)
LEMMA SendingKeeps ==
    ASSUME HotTypeOK, SentInv, NEW s \in Stores, buffer[s] \subseteq offered,
           UNCHANGED serverVars \/ Send(s, buffer[s]), offered \subseteq offered'
    PROVE  /\ inflight' \subseteq [n : Nat, by : Stores, facts : SUBSET Facts]
           /\ frames' \in Nat /\ frames <= frames' /\ wal' = wal /\ rows' = rows
           /\ inflight \subseteq inflight' /\ SentInv'
<1>0. frames \in Nat /\ buffer[s] \in SUBSET Facts
  BY DEF HotTypeOK
<1>1. CASE UNCHANGED serverVars
  BY <1>0, <1>1 DEF serverVars, HotTypeOK, SentInv
<1>2. CASE Send(s, buffer[s])
  <2>1. PICK new \in inflight' : /\ new.n = frames + 1 /\ new.facts = buffer[s]
                                 /\ inflight' = inflight \cup {new}
    BY <1>0, <1>2, SendSends
  <2>2. /\ inflight' \subseteq [n : Nat, by : Stores, facts : SUBSET Facts]
        /\ frames' = frames + 1 /\ frames' \in Nat /\ wal' = wal /\ rows' = rows
    BY <1>0, <1>2, SendSends
  <2>3. SentInv'
    <3>1. ASSUME NEW w \in inflight' PROVE w.n <= frames' /\ w.facts \subseteq offered'
      <4>1. CASE w \in inflight
        <5>1. w.n \in Nat /\ w.n <= frames /\ w.facts \subseteq offered
          BY <4>1 DEF HotTypeOK, SentInv
        <5> QED BY <1>0, <2>2, <5>1
      <4>2. CASE w = new
        BY <1>0, <2>1, <2>2, <4>2
      <4> QED BY <2>1, <4>1, <4>2
    <3> QED BY <2>2, <3>1 DEF SentInv
  <2> QED BY <1>0, <2>1, <2>2, <2>3
<1> QED BY <1>1, <1>2

(* The calls.                                                              *)
Program(s) ==
    \/ AppendBatch(s) \/ DatabaseForUse(s) \/ GiveRow(s) \/ AutoFlush(s)
    \/ Flush(s) \/ AwaitAck(s) \/ SenderFails(s)

LEMMA ProgramOnServer ==
    ASSUME HotInv, NEW s \in Stores, Program(s)
    PROVE  /\ UNCHANGED serverVars \/ Send(s, buffer[s])
           /\ buffer[s] \subseteq offered \/ UNCHANGED serverVars
           /\ offered \subseteq offered'
           /\ offered' \subseteq Facts
           /\ calls' \in 0..MaxCalls /\ resends' = resends /\ drops' = drops
<1>0. HotTypeOK /\ CallsInv /\ batch[s] \in Seq(Facts) /\ ToSet(batch[s]) \subseteq Facts
  BY DEF HotInv, HotTypeOK, ToSet
<1>1. UNCHANGED serverVars \/ Send(s, buffer[s])
  BY DEF Program, AppendBatch, RefuseTooLarge, Accept, DatabaseForUse, GiveRow, AutoFlush,
     Flush, AwaitAck, SenderFails
<1>2. buffer[s] \subseteq offered
  BY <1>0 DEF CallsInv, Using
<1>3. offered' = offered \/ offered' = offered \cup ToSet(batch[s])
  BY DEF Program, AppendBatch, RefuseTooLarge, Accept, DatabaseForUse, GiveRow, AutoFlush,
     Flush, AwaitAck, SenderFails
<1>4. (calls' = calls \/ (calls < MaxCalls /\ calls' = calls + 1)) /\ resends' = resends /\ drops' = drops
  BY DEF Program, AppendBatch, RefuseTooLarge, Accept, DatabaseForUse, GiveRow, AutoFlush,
     Flush, AwaitAck, SenderFails, countVars
<1>5. calls' \in 0..MaxCalls
  <2>1. MaxCalls \in Nat /\ calls \in 0..MaxCalls
    BY <1>0, HotStoreAssumption DEF HotTypeOK
  <2> QED BY <1>4, <2>1
<1> QED BY <1>0, <1>1, <1>2, <1>3, <1>4, <1>5 DEF HotTypeOK

LEMMA ProgramKeeps ==
    ASSUME HotInv, NEW s \in Stores, Program(s)
    PROVE  HotInv'
<1> USE DEF HotInv
<1>0. /\ HotTypeOK /\ CallsInv /\ SentInv /\ OneRowInv
      /\ frames \in Nat /\ MaxBatchRows \in Nat
      /\ batch[s] \in Seq(Facts) /\ buffer[s] \subseteq Facts /\ fsn[s] \in Nat
      /\ given[s] \in 0..MaxBatchRows /\ Len(batch[s]) \in Nat
  BY HotStoreAssumption DEF HotTypeOK
<1>1. /\ UNCHANGED serverVars \/ Send(s, buffer[s])
      /\ buffer[s] \subseteq offered \/ UNCHANGED serverVars
      /\ offered \subseteq offered' /\ offered' \subseteq Facts
      /\ calls' \in 0..MaxCalls /\ resends' = resends /\ drops' = drops
  BY ProgramOnServer
<1>2. buffer[s] \subseteq offered
  BY <1>0 DEF CallsInv, Using
<1>3. /\ inflight' \subseteq [n : Nat, by : Stores, facts : SUBSET Facts]
      /\ frames' \in Nat /\ frames <= frames' /\ wal' = wal /\ rows' = rows /\ SentInv'
  BY <1>0, <1>1, <1>2, SendingKeeps
<1>4. /\ \E v : stage' = [stage EXCEPT ![s] = v]
      /\ \E v : batch' = [batch EXCEPT ![s] = v]
      /\ \E v : given' = [given EXCEPT ![s] = v]
      /\ \E v : buffer' = [buffer EXCEPT ![s] = v]
      /\ \E v : fsn' = [fsn EXCEPT ![s] = v]
      /\ \E v : reply' = [reply EXCEPT ![s] = v]
  <2>1. \A g \in {stage, batch, given, buffer, fsn, reply} : g = [g EXCEPT ![s] = g[s]]
    BY <1>0 DEF HotTypeOK
  <2> QED
    BY <2>1 DEF Program, AppendBatch, RefuseTooLarge, Accept, DatabaseForUse, GiveRow, AutoFlush,
       Flush, AwaitAck, SenderFails, End, Enter, callVars
<1>5. /\ stage'[s] \in {"idle", "database", "rows", "await"}
      /\ batch'[s] \in Seq(Facts) /\ given'[s] \in 0..MaxBatchRows
      /\ buffer'[s] \subseteq Facts /\ fsn'[s] \in Nat /\ reply'[s] \in Replies
      /\ given'[s] <= Len(batch'[s]) /\ Len(batch'[s]) <= MaxBatchRows
      /\ buffer'[s] \subseteq ToSet(batch'[s])
      /\ stage'[s] \in Using => ToSet(batch'[s]) \subseteq offered'
      /\ stage'[s] # "rows" => buffer'[s] = {}
      /\ stage'[s] \notin Using => given'[s] = 0
      /\ stage'[s] = "await" => given'[s] = Len(batch'[s])
      /\ fsn'[s] <= frames'
      /\ receipted' \subseteq Facts
  <2> DEFINE Good ==
         /\ stage'[s] \in {"idle", "database", "rows", "await"}
         /\ batch'[s] \in Seq(Facts) /\ given'[s] \in 0..MaxBatchRows
         /\ buffer'[s] \subseteq Facts /\ fsn'[s] \in Nat /\ reply'[s] \in Replies
         /\ given'[s] <= Len(batch'[s]) /\ Len(batch'[s]) <= MaxBatchRows
         /\ buffer'[s] \subseteq ToSet(batch'[s])
         /\ stage'[s] \in Using => ToSet(batch'[s]) \subseteq offered'
         /\ stage'[s] # "rows" => buffer'[s] = {}
         /\ stage'[s] \notin Using => given'[s] = 0
         /\ stage'[s] = "await" => given'[s] = Len(batch'[s])
         /\ fsn'[s] <= frames'
         /\ receipted' \subseteq Facts
  <2>0. /\ s \in DOMAIN stage /\ s \in DOMAIN batch /\ s \in DOMAIN given
        /\ s \in DOMAIN buffer /\ s \in DOMAIN fsn /\ s \in DOMAIN reply
        /\ reply[s] \in Replies /\ receipted \subseteq Facts /\ fsn[s] <= frames
        /\ given[s] <= Len(batch[s]) /\ Len(batch[s]) <= MaxBatchRows
        /\ buffer[s] \subseteq ToSet(batch[s])
        /\ stage[s] \in Using => ToSet(batch[s]) \subseteq offered
        /\ stage[s] # "rows" => buffer[s] = {}
        /\ stage[s] \notin Using => given[s] = 0
        /\ fsn[s] <= frames'
        /\ ToSet(batch[s]) \subseteq Facts
    BY <1>0, <1>3 DEF HotTypeOK, CallsInv, ToSet
  <2> USE DEF Using
  <2>1. ASSUME NEW r \in Replies, End(s, r), receipted' \subseteq Facts PROVE Good
    BY <1>0, <1>3, <2>0, <2>1 DEF End, Enter
  <2>2. CASE AppendBatch(s)
    <3>1. PICK b \in Batches :
             /\ receipted' = receipted /\ stage[s] = "idle"
             /\ RefuseTooLarge(s, b) \/ End(s, "receipt") \/ Accept(s, b)
      BY <2>2 DEF AppendBatch
    <3>2. CASE Accept(s, b)
      <4>1. b \in Seq(Facts)
        BY HotStoreAssumption
      <4>2. /\ stage'[s] = "database" /\ batch'[s] = b /\ given'[s] = given[s] /\ Len(b) <= MaxBatchRows
            /\ buffer'[s] = buffer[s] /\ fsn'[s] = fsn[s] /\ reply'[s] = reply[s]
        BY <1>0, <2>0, <3>2 DEF Accept, Enter
      <4>3. buffer[s] = {} /\ given[s] = 0
        BY <2>0, <3>1 DEF Using
      <4> QED BY <1>0, <2>0, <3>1, <4>1, <4>2, <4>3
    <3> QED BY <2>0, <2>1, <3>1, <3>2 DEF RefuseTooLarge, Replies
  <2>3. CASE DatabaseForUse(s)
    BY <1>0, <2>0, <2>1, <2>3 DEF DatabaseForUse, Enter, callVars, Replies
  <2>4. CASE GiveRow(s)
    <3>1. batch[s][given[s] + 1] \in ToSet(batch[s])
      BY <1>0, <2>4 DEF GiveRow, ToSet
    <3>2. given[s] + 1 \in 0..MaxBatchRows /\ given[s] + 1 <= Len(batch[s])
      BY <1>0, <2>0, <2>4 DEF GiveRow
    <3> QED BY <1>0, <1>1, <2>0, <2>4, <3>1, <3>2 DEF GiveRow
  <2>5. CASE AutoFlush(s)
    BY <1>0, <1>1, <2>0, <2>5 DEF AutoFlush
  <2>6. CASE Flush(s)
    <3>1. CASE buffer[s] = {}
      BY <2>0, <2>1, <2>6, <3>1 DEF Flush, Replies
    <3>2. CASE buffer[s] # {}
      BY <1>0, <1>1, <2>0, <2>6, <3>2 DEF Flush, Enter, Send
    <3> QED BY <3>1, <3>2
  <2>7. CASE AwaitAck(s)
    BY <2>0, <2>1, <2>7 DEF AwaitAck, Outcome, Replies
  <2>8. CASE SenderFails(s)
    BY <2>0, <2>1, <2>8 DEF SenderFails, Replies
  <2> QED BY <2>2, <2>3, <2>4, <2>5, <2>6, <2>7, <2>8 DEF Program
<1>6. HotTypeOK'
  BY <1>0, <1>1, <1>3, <1>4, <1>5 DEF HotTypeOK
<1>7. CallsInv'
  <2>1. ASSUME NEW t \in Stores \ {s}
        PROVE  /\ stage'[t] = stage[t] /\ batch'[t] = batch[t] /\ given'[t] = given[t]
               /\ buffer'[t] = buffer[t] /\ fsn'[t] = fsn[t] /\ fsn[t] \in Nat
    BY <1>0, <1>4 DEF HotTypeOK
  <2>2. ASSUME NEW t \in Stores \ {s} PROVE fsn'[t] <= frames'
    BY <1>0, <1>3, <2>1 DEF CallsInv
  <2> QED BY <1>0, <1>1, <1>5, <2>1, <2>2 DEF CallsInv
<1>8. OneRowInv'
  BY <1>0, <1>3 DEF OneRowInv
<1> QED BY <1>3, <1>6, <1>7, <1>8

(* The server.  What is committed is the frame's facts.                    *)
LEMMA CommitWrites ==
    ASSUME HotTypeOK, NEW w \in inflight, Commit(w)
    PROVE  /\ wal' \subseteq Row /\ wal \subseteq wal'
           /\ \A r \in wal' : r \in wal \/ r.fact \in w.facts
           /\ \A f \in w.facts : \E r \in wal' : r.fact = f
<1> DEFINE row(f) == [n |-> w.n, fact |-> f]
<1>1. w.n \in Nat /\ w.facts \subseteq Facts /\ wal \subseteq Row
  BY DEF HotTypeOK
<1>2. ASSUME NEW f \in w.facts
      PROVE  row(f) \in Row /\ row(f).fact = f
  BY <1>1 DEF Row
<1>3. /\ wal \subseteq wal'
      /\ \A f \in w.facts : row(f) \in wal'
      /\ \A r \in wal' : r \in wal \/ \E f \in w.facts : r = row(f)
  BY DEF Commit
<1> HIDE DEF row
<1> QED BY <1>1, <1>2, <1>3

LEMMA UpsertReplaces ==
    ASSUME HotTypeOK, NEW r \in wal, rows' = Upsert(r)
    PROVE  /\ rows' \subseteq Row /\ r \in rows'
           /\ \A v \in rows' : v \in rows \/ v = r
           /\ \A v \in rows : v \in rows' \/ v.fact.capture_id = r.fact.capture_id
           /\ \A v \in rows' : v.fact = r.fact => v = r
BY DEF HotTypeOK, Upsert

(* The server's steps, as the invariants see them.                         *)
LEMMA ServerSteps ==
    ASSUME HotTypeOK, Server
    PROVE  /\ UNCHANGED <<stage, batch, given, buffer, reply, offered, receipted, calls>>
           /\ \/ \E w \in inflight :
                    /\ Commit(w) /\ rows' = rows /\ drops' = drops
                    /\ \/ inflight' = inflight \ {w} /\ UNCHANGED <<frames, fsn, resends>>
                       \/ DeliverAgain(w)
              \/ \E w \in inflight :
                    /\ inflight' = inflight \ {w} /\ UNCHANGED <<frames, fsn, resends, wal, rows>>
                    /\ \/ drops < MaxDropped /\ drops' = drops + 1
                       \/ stage[w.by] = "idle" /\ drops' = drops
              \/ \E r \in wal : /\ wal' = wal \ {r} /\ rows' = Upsert(r)
                                /\ UNCHANGED <<inflight, frames, fsn, resends, drops>>
BY DEF Server, DeliverAgain, Deliver, Drop, Lose, Apply, countVars

LEMMA ServerKeeps ==
    ASSUME HotInv, Server
    PROVE  HotInv'
<1>0. /\ HotTypeOK /\ CallsInv /\ SentInv /\ OneRowInv /\ frames \in Nat
      /\ {MaxResends, MaxDropped} \subseteq Nat
      /\ UNCHANGED <<stage, batch, given, buffer, reply, offered, receipted, calls>>
  BY HotStoreAssumption, ServerSteps DEF HotInv, HotTypeOK
<1>1. ASSUME inflight' \subseteq [n : Nat, by : Stores, facts : SUBSET Facts],
             \A w \in inflight' : w.n <= frames' /\ w.facts \subseteq offered,
             frames' \in Nat, frames <= frames', fsn' \in [Stores -> Nat],
             \A s \in Stores : fsn'[s] <= frames',
             wal' \subseteq Row, rows' \subseteq Row,
             \A r \in wal' : r.fact \in offered,
             \A r \in rows' : r.fact \in offered \cup Legacy,
             resends' \in 0..MaxResends, drops' \in 0..MaxDropped,
             OneRowInv'
      PROVE  HotInv'
  <2>1. HotTypeOK'
    BY <1>0, <1>1 DEF HotTypeOK
  <2>2. CallsInv'
    BY <1>0, <1>1 DEF CallsInv
  <2>3. SentInv'
    BY <1>0, <1>1 DEF SentInv
  <2> QED BY <1>1, <2>1, <2>2, <2>3 DEF HotInv
<1>2. ASSUME NEW w \in inflight, Commit(w), rows' = rows, drops' = drops,
             inflight' = inflight \ {w}, UNCHANGED <<frames, fsn, resends>>
      PROVE  HotInv'
  <2>1. /\ wal' \subseteq Row /\ \A r \in wal' : r.fact \in offered
    BY <1>0, <1>2, CommitWrites DEF SentInv
  <2>2. OneRowInv'
    BY <1>0, <1>2 DEF OneRowInv
  <2> QED BY <1>0, <1>1, <1>2, <2>1, <2>2 DEF HotTypeOK, SentInv, CallsInv
<1>3. ASSUME NEW w \in inflight, Commit(w), rows' = rows, drops' = drops, DeliverAgain(w)
      PROVE  HotInv'
  <2>1. /\ wal' \subseteq Row /\ \A r \in wal' : r.fact \in offered
    BY <1>0, <1>3, CommitWrites DEF SentInv
  <2>2. OneRowInv'
    BY <1>0, <1>3 DEF OneRowInv
  <2> DEFINE new == [w EXCEPT !.n = frames + 1]
  <2>9. PICK m \in Nat, p \in Stores, fs \in SUBSET Facts : w = [n |-> m, by |-> p, facts |-> fs]
    BY <1>0 DEF HotTypeOK
  <2>10. new = [n |-> frames + 1, by |-> p, facts |-> fs]
    BY <2>9
  <2>11. w.facts \subseteq offered /\ w.facts = fs
    BY <1>0, <2>9 DEF SentInv
  <2>3. /\ new \in [n : Nat, by : Stores, facts : SUBSET Facts] /\ new.n = frames + 1
        /\ new.by = w.by /\ new.facts = w.facts /\ w.facts \subseteq offered
    BY <1>0, <2>9, <2>10, <2>11
  <2>4. /\ inflight' = (inflight \ {w}) \cup {new} /\ frames' = frames + 1
        /\ fsn' = [fsn EXCEPT ![w.by] = IF @ = w.n THEN frames + 1 ELSE @]
        /\ resends < MaxResends /\ resends' = resends + 1
    BY <1>3 DEF DeliverAgain
  <2> HIDE DEF new
  <2>5. ASSUME NEW v \in inflight'
        PROVE  /\ v \in [n : Nat, by : Stores, facts : SUBSET Facts]
               /\ v.n <= frames' /\ v.facts \subseteq offered
    <3>1. CASE v = new
      BY <1>0, <2>3, <2>4, <3>1
    <3>2. CASE v \in inflight
      <4>1. v \in [n : Nat, by : Stores, facts : SUBSET Facts] /\ v.n <= frames /\ v.facts \subseteq offered
        BY <1>0, <3>2 DEF HotTypeOK, SentInv
      <4>2. v.n \in Nat
        BY <4>1
      <4> QED BY <1>0, <2>4, <4>1, <4>2
    <3> QED BY <2>4, <3>1, <3>2
  <2>6. fsn' \in [Stores -> Nat] /\ \A s \in Stores : fsn'[s] <= frames'
    <3>1. ASSUME NEW s \in Stores
          PROVE  /\ fsn'[s] = fsn[s] \/ fsn'[s] = frames + 1
                 /\ fsn[s] \in Nat /\ fsn[s] <= frames
      BY <1>0, <2>4 DEF HotTypeOK, CallsInv
    <3>2. fsn' = [s \in Stores |-> fsn'[s]]
      BY <1>0, <2>4 DEF HotTypeOK
    <3>3. ASSUME NEW s \in Stores PROVE fsn'[s] \in Nat /\ fsn'[s] <= frames'
      BY <1>0, <2>4, <3>1
    <3> QED BY <3>2, <3>3
  <2>7. resends' \in 0..MaxResends /\ frames' \in Nat /\ frames <= frames' /\ drops' \in 0..MaxDropped
    BY <1>0, <1>3, <2>4 DEF HotTypeOK
  <2>8. rows' \subseteq Row /\ \A r \in rows' : r.fact \in offered \cup Legacy
    BY <1>0, <1>3 DEF HotTypeOK, SentInv
  <2> QED BY <1>1, <2>1, <2>2, <2>5, <2>6, <2>7, <2>8
<1>4. ASSUME NEW w \in inflight, inflight' = inflight \ {w},
             UNCHANGED <<frames, fsn, resends, wal, rows>>,
             (drops < MaxDropped /\ drops' = drops + 1) \/ drops' = drops
      PROVE  HotInv'
  <2>1. drops' \in 0..MaxDropped
    BY <1>0, <1>4 DEF HotTypeOK
  <2>2. OneRowInv'
    BY <1>0, <1>4 DEF OneRowInv
  <2> QED BY <1>0, <1>1, <1>4, <2>1, <2>2 DEF HotTypeOK, SentInv, CallsInv
<1>5. ASSUME NEW r \in wal, wal' = wal \ {r}, rows' = Upsert(r),
             UNCHANGED <<inflight, frames, fsn, resends, drops>>
      PROVE  HotInv'
  <2>1. /\ rows' \subseteq Row /\ r \in rows' /\ \A v \in rows' : v \in rows \/ v = r
        /\ \A v \in rows' : v.fact = r.fact => v = r
    BY <1>0, <1>5, UpsertReplaces
  <2>2. OneRowInv'
    BY <1>0, <2>1 DEF OneRowInv
  <2>3. \A v \in rows' : v.fact \in offered \cup Legacy
    BY <1>0, <2>1 DEF SentInv
  <2> QED BY <1>0, <1>1, <1>5, <2>1, <2>2, <2>3 DEF HotTypeOK, SentInv, CallsInv
<1> QED BY <1>0, <1>2, <1>3, <1>4, <1>5, ServerSteps

LEMMA HotInvHolds == HotSpec => []HotInv
<1>1. HotInv /\ [HotNext]_hotVars => HotInv'
  <2> SUFFICES ASSUME HotInv, [HotNext]_hotVars PROVE HotInv'
    OBVIOUS
  <2>1. CASE UNCHANGED hotVars
    BY <2>1 DEF hotVars, callVars, serverVars, countVars, HotInv, HotTypeOK, CallsInv, SentInv,
       OneRowInv
  <2> QED BY <2>1, ProgramKeeps, ServerKeeps DEF HotNext, Program
<1> QED BY <1>1, InitHot, PTL DEF HotSpec

(* Every state of the Hot Stores and of their table is well formed.        *)
THEOREM HotTypeCorrect == HotSpec => []HotTypeOK
<1>1. HotInv => HotTypeOK
  BY DEF HotInv
<1> QED BY <1>1, HotInvHolds, PTL

(* append_batch: a call refused for its size, or that finds no database,   *)
(* sends nothing.                                                          *)
THEOREM RefusedCallsSendNothing == HotSpec => []RefusedCallSendsNothing
<1>1. HotInv => RefusedCallSendsNothing
  BY HotStoreAssumption DEF HotInv, SentInv, RefusedCallSendsNothing, Sent
<1> QED BY <1>1, HotInvHolds, PTL

(* read_capture: no capture is ever "not uniquely retrievable", whatever   *)
(* was rejected after it was sent, offered again or sent twice.            *)
THEOREM CapturesStayUnique == HotSpec => []OneRowPerCapture
<1>1. HotInv => OneRowPerCapture
  <2> SUFFICES ASSUME HotInv, NEW f \in Facts
               PROVE  ReadCapture(f.capture_id) # NoFact("not unique")
    BY DEF OneRowPerCapture
  <2> DEFINE found == {r \in rows : r.fact.capture_id = f.capture_id}
  <2>1. \A v, w \in found : v = w
    BY HotStoreAssumption DEF HotInv, HotTypeOK, Row, OneRowInv
  <2>2. ~(Cardinality(found) > 1)
    BY <2>1, AtMostOne
  <2> QED BY <2>2 DEF ReadCapture, NoFact, Found
<1> QED BY <1>1, HotInvHolds, PTL

-----------------------------------------------------------------------------
(* What is stored is never lost: a row leaves the WAL for the table, and   *)
(* the table only for a row of the same capture.                           *)
LEMMA ServerStores ==
    ASSUME HotInv, Server, NEW f, Stored(f)
    PROVE  Stored(f)'
<1>0. HotTypeOK
  BY DEF HotInv
<1>1. CASE \E w \in inflight : Commit(w) /\ rows' = rows
  BY <1>0, <1>1, CommitWrites DEF Stored
<1>2. CASE wal' = wal /\ rows' = rows
  BY <1>2 DEF Stored
<1>3. ASSUME NEW r \in wal, wal' = wal \ {r}, rows' = Upsert(r)
      PROVE  Stored(f)'
  <2>1. PICK v \in wal \cup rows : v.fact = f
    BY DEF Stored
  <2>2. /\ r \in rows'
        /\ v \in rows => v \in rows' \/ v.fact.capture_id = r.fact.capture_id
    BY <1>0, <1>3, UpsertReplaces
  <2>3. v.fact \in Facts \cup Legacy /\ r.fact \in Facts \cup Legacy
    BY <1>0, <2>1 DEF HotTypeOK, Row
  <2>4. v.fact.capture_id = r.fact.capture_id => r.fact = f
    BY <2>1, <2>3, HotStoreAssumption
  <2> QED BY <1>3, <2>1, <2>2, <2>4 DEF Stored
<1> QED BY <1>0, <1>1, <1>2, <1>3, ServerSteps

LEMMA ServerKeepsRows ==
    ASSUME HotInv, KeptInv, MaxDropped = 0, Server
    PROVE  KeptInv'
<1>0. /\ HotTypeOK /\ CallsInv /\ drops \in 0..MaxDropped
      /\ UNCHANGED <<stage, batch, given, buffer, receipted>>
  BY ServerSteps DEF HotInv, HotTypeOK
<1>1. ASSUME NEW s \in Stores, stage[s] \in Using, NEW f, OnItsWay(s, f)
      PROVE  OnItsWay(s, f)' \/ Stored(f)'
  <2>1. PICK v \in inflight :
           v.by = s /\ f \in v.facts /\ (stage[s] = "await" => v.n <= fsn[s])
    BY <1>1 DEF OnItsWay
  <2>2. v.n \in Nat /\ fsn[s] \in Nat /\ frames \in Nat /\ fsn[s] <= frames
    BY <1>0, <2>1 DEF HotTypeOK, CallsInv
  <2>3. ASSUME NEW w \in inflight, Commit(w) PROVE v = w => Stored(f)'
    BY <1>0, <2>1, <2>3, CommitWrites DEF Stored
  <2>4. ASSUME v \in inflight', fsn[s] <= fsn'[s], fsn'[s] \in Nat PROVE OnItsWay(s, f)'
    BY <1>0, <2>1, <2>2, <2>4 DEF OnItsWay
  <2>5. ASSUME NEW w \in inflight, Commit(w), inflight' = inflight \ {w}, fsn' = fsn
        PROVE  OnItsWay(s, f)' \/ Stored(f)'
    BY <2>2, <2>3, <2>4, <2>5
  <2>6. ASSUME NEW w \in inflight, Commit(w), DeliverAgain(w)
        PROVE  OnItsWay(s, f)' \/ Stored(f)'
    <3>1. fsn'[s] = fsn[s] \/ fsn'[s] = frames + 1
      BY <1>0, <2>6 DEF DeliverAgain, HotTypeOK
    <3>2. fsn[s] <= fsn'[s] /\ fsn'[s] \in Nat
      BY <2>2, <3>1
    <3>3. v \in inflight' \/ v = w
      BY <2>6 DEF DeliverAgain
    <3> QED BY <2>3, <2>4, <2>6, <3>2, <3>3
  <2>7. ASSUME NEW w \in inflight, inflight' = inflight \ {w}, fsn' = fsn,
               drops < MaxDropped \/ stage[w.by] = "idle"
        PROVE  OnItsWay(s, f)'
    <3>1. ~(drops < MaxDropped)
      BY <1>0
    <3>2. v # w
      BY <1>1, <2>1, <2>7, <3>1 DEF Using
    <3> QED BY <2>2, <2>4, <2>7, <3>2
  <2>8. inflight' = inflight /\ fsn' = fsn => OnItsWay(s, f)'
    BY <2>2, <2>4
  <2> QED BY <1>0, <2>5, <2>6, <2>7, <2>8, ServerSteps
<1>2. ASSUME NEW s \in Stores, stage[s] \in Using, NEW f, Kept(s, f)
      PROVE  Kept(s, f)'
  BY <1>0, <1>1, <1>2, ServerStores DEF Kept
<1>3. ReceiptMeansStored'
  BY <1>0, ServerStores DEF KeptInv, ReceiptMeansStored, Stored
<1> QED BY <1>0, <1>2, <1>3 DEF KeptInv

(* What a call gives is kept from its buffer to the frame that carries it. *)
LEMMA ProgramKeepsRows ==
    ASSUME HotInv, KeptInv, NEW s \in Stores, Program(s)
    PROVE  KeptInv'
<1>0. /\ HotTypeOK /\ CallsInv /\ SentInv /\ frames \in Nat
      /\ batch[s] \in Seq(Facts) /\ buffer[s] \in SUBSET Facts /\ given[s] \in Nat
      /\ s \in DOMAIN stage /\ s \in DOMAIN batch /\ s \in DOMAIN given
      /\ s \in DOMAIN buffer /\ s \in DOMAIN fsn
      /\ stage[s] # "rows" => buffer[s] = {}
      /\ stage[s] \notin Using => given[s] = 0
  BY DEF HotInv, HotTypeOK, CallsInv
<1>1. /\ UNCHANGED serverVars \/ Send(s, buffer[s])
      /\ wal' = wal /\ rows' = rows /\ inflight \subseteq inflight'
  BY <1>0, ProgramOnServer, SendSends DEF serverVars
<1>2. \A f : Stored(f) <=> Stored(f)'
  BY <1>1 DEF Stored
<1>3. ASSUME NEW t \in Stores \ {s}
      PROVE  /\ stage'[t] = stage[t] /\ batch'[t] = batch[t] /\ given'[t] = given[t]
             /\ buffer'[t] = buffer[t] /\ fsn'[t] = fsn[t]
  BY <1>0 DEF HotTypeOK, Program, AppendBatch, RefuseTooLarge, Accept, DatabaseForUse, GiveRow,
     AutoFlush, Flush, AwaitAck, SenderFails, End, Enter, callVars
<1> DEFINE OwnKept == stage[s] \in Using => \A i \in 1..given[s] : Kept(s, batch[s][i])
<1>4. ASSUME OwnKept', ReceiptMeansStored'
      PROVE  KeptInv'
  <2>1. ASSUME NEW t \in Stores \ {s}, NEW f, Kept(t, f) PROVE Kept(t, f)'
    BY <1>1, <1>2, <1>3, <2>1 DEF Kept, OnItsWay
  <2>2. ASSUME NEW t \in Stores \ {s}, stage'[t] \in Using, NEW i \in 1..given'[t]
        PROVE  Kept(t, batch[t][i])'
    BY <1>3, <2>1, <2>2 DEF KeptInv
  <2> QED BY <1>4, <2>2 DEF KeptInv
<1> SUFFICES OwnKept' /\ ReceiptMeansStored'
  BY <1>4
<1>5. ASSUME stage'[s] = "idle", receipted' = receipted PROVE OwnKept' /\ ReceiptMeansStored'
  BY <1>2, <1>5 DEF Using, KeptInv, ReceiptMeansStored, Stored
<1>6. ASSUME receipted' = receipted PROVE ReceiptMeansStored'
  BY <1>2, <1>6 DEF KeptInv, ReceiptMeansStored, Stored
<1>7. \A r : End(s, r) => stage'[s] = "idle"
  BY <1>0 DEF End, Enter
<1>8. CASE AppendBatch(s)
  <2>1. receipted' = receipted /\ stage'[s] \in {"idle", "database"}
    BY <1>0, <1>7, <1>8 DEF AppendBatch, RefuseTooLarge, Accept, Enter
  <2> QED BY <1>6, <2>1 DEF Using
<1>9. CASE DatabaseForUse(s)
  <2>1. receipted' = receipted /\ (stage'[s] = "idle" \/ given'[s] = 0)
    BY <1>0, <1>7, <1>9 DEF DatabaseForUse, callVars, Using
  <2> QED BY <1>5, <1>6, <2>1
<1>10. CASE GiveRow(s)
  <2>1. /\ given'[s] = given[s] + 1 /\ batch' = batch /\ stage' = stage /\ fsn' = fsn
        /\ buffer'[s] = buffer[s] \cup {batch[s][given[s] + 1]}
        /\ stage[s] \in Using /\ receipted' = receipted
    BY <1>0, <1>10 DEF GiveRow, Using
  <2>2. ASSUME NEW f, Kept(s, f) \/ f = batch[s][given[s] + 1] PROVE Kept(s, f)'
    BY <1>1, <1>2, <2>1, <2>2 DEF Kept, OnItsWay
  <2>4. \A i \in 1..given'[s] : i \in 1..given[s] \/ i = given[s] + 1
    BY <1>0, <2>1
  <2> QED BY <1>6, <2>1, <2>2, <2>4 DEF KeptInv
<1>11. ASSUME Send(s, buffer[s]), stage[s] = "rows", batch' = batch, given' = given,
              stage'[s] = "await" => fsn'[s] = frames + 1
       PROVE  OwnKept'
  <2>1. PICK new \in inflight' : new.n = frames + 1 /\ new.by = s /\ new.facts = buffer[s]
    BY <1>0, <1>11, SendSends
  <2>2. ASSUME NEW f \in buffer[s] PROVE OnItsWay(s, f)'
    BY <1>0, <1>11, <2>1 DEF OnItsWay
  <2>3. ASSUME NEW f, OnItsWay(s, f) PROVE OnItsWay(s, f)'
    <3>1. PICK v \in inflight : v.by = s /\ f \in v.facts
      BY <2>3 DEF OnItsWay
    <3>2. v.n \in Nat /\ v.n <= frames
      BY <1>0 DEF HotTypeOK, SentInv
    <3>3. v.n <= frames + 1
      BY <1>0, <3>2
    <3> QED BY <1>1, <1>11, <3>1, <3>3 DEF OnItsWay
  <2>4. ASSUME NEW f, Kept(s, f) PROVE Kept(s, f)'
    BY <1>2, <2>2, <2>3, <2>4 DEF Kept
  <2>5. ASSUME NEW i \in 1..given[s] PROVE Kept(s, batch[s][i])
    BY <1>11 DEF KeptInv, Using
  <2> QED BY <1>11, <2>4, <2>5
<1>12. CASE AutoFlush(s)
  <2>1. /\ Send(s, buffer[s]) /\ stage[s] = "rows" /\ batch' = batch /\ given' = given
        /\ stage' = stage /\ receipted' = receipted
    BY <1>12 DEF AutoFlush
  <2> QED BY <1>6, <1>11, <2>1
<1>13. CASE Flush(s)
  <2>1. receipted' = receipted
    BY <1>13 DEF Flush
  <2>2. CASE buffer[s] = {}
    BY <1>5, <1>7, <1>13, <2>1, <2>2 DEF Flush
  <2>3. CASE buffer[s] # {}
    <3>1. /\ Send(s, buffer[s]) /\ stage[s] = "rows" /\ batch' = batch /\ given' = given
          /\ fsn'[s] = frames + 1
      BY <1>0, <1>13, <2>3 DEF Flush
    <3> QED BY <1>6, <1>11, <2>1, <3>1
  <2> QED BY <2>2, <2>3
<1>14. CASE AwaitAck(s)
  <2>1. /\ stage[s] = "await" /\ stage'[s] = "idle"
        /\ \/ receipted' = receipted
           \/ Completed(s) /\ receipted' = receipted \cup ToSet(batch[s])
    BY <1>7, <1>14 DEF AwaitAck
  <2>2. given[s] = Len(batch[s]) /\ buffer[s] = {} /\ fsn[s] \in Nat
    BY <1>0, <2>1 DEF CallsInv, HotTypeOK
  <2>3. ASSUME Completed(s), NEW f \in ToSet(batch[s]) PROVE Stored(f)
    <3>1. PICK i \in 1..Len(batch[s]) : f = batch[s][i]
      BY <1>0 DEF ToSet
    <3>2. Kept(s, f)
      BY <2>1, <2>2, <3>1 DEF KeptInv, Using
    <3>3. ~OnItsWay(s, f)
      <4>1. \A w \in inflight : w.n \in Nat
        BY <1>0 DEF HotTypeOK
      <4> QED BY <2>1, <2>2, <2>3, <4>1 DEF OnItsWay, Completed
    <3> QED BY <2>2, <3>2, <3>3 DEF Kept
  <2>4. ReceiptMeansStored'
    BY <1>2, <2>1, <2>3 DEF KeptInv, ReceiptMeansStored, Stored
  <2> QED BY <2>1, <2>4 DEF Using
<1>15. CASE SenderFails(s)
  BY <1>5, <1>7, <1>15 DEF SenderFails
<1> QED BY <1>8, <1>9, <1>10, <1>12, <1>13, <1>14, <1>15 DEF Program

(* append_batch: "Persist one explicitly bounded batch or raise without a  *)
(* success receipt" (port.py:34).  A fact with a receipt is in the WAL or  *)
(* readable, however early its frames were flushed, resent or applied,     *)
(* unless the server itself drops a frame and continues.                   *)
THEOREM ReceiptsMeanStored ==
    ASSUME MaxDropped = 0
    PROVE  HotSpec => []ReceiptMeansStored
<1>1. HotInv /\ KeptInv /\ [HotNext]_hotVars => KeptInv'
  <2> SUFFICES ASSUME HotInv, KeptInv, [HotNext]_hotVars PROVE KeptInv'
    OBVIOUS
  <2>1. CASE UNCHANGED hotVars
    BY <2>1 DEF hotVars, callVars, serverVars, countVars, KeptInv, Kept, OnItsWay, Stored,
       ReceiptMeansStored
  <2> QED BY <2>1, ProgramKeepsRows, ServerKeepsRows DEF HotNext, Program
<1>2. KeptInv => ReceiptMeansStored
  BY DEF KeptInv
<1> QED BY <1>1, <1>2, InitHot, HotInvHolds, PTL DEF HotSpec

-----------------------------------------------------------------------------
(* The reads.  A capture is read exactly if it has a row.                  *)
ReadableInv == \A f \in Facts :
    ReadCapture(f.capture_id) = Found(f) <=> \E r \in rows : r.fact = f

LEMMA ReadsFindRows == HotInv => ReadableInv
<1> SUFFICES ASSUME HotInv, NEW f \in Facts
             PROVE  ReadCapture(f.capture_id) = Found(f) <=> \E r \in rows : r.fact = f
  BY DEF ReadableInv
<1> DEFINE found == {r \in rows : r.fact.capture_id = f.capture_id}
           read == CHOOSE r \in found : TRUE
<1>1. /\ \A r \in found : r.fact = f
      /\ \A v, w \in found : v = w
  BY HotStoreAssumption DEF HotInv, HotTypeOK, Row, OneRowInv
<1>2. ~(Cardinality(found) > 1)
  BY <1>1, AtMostOne
<1>3. Compatible(f) /\ Found(f) # NoFact("none")
  BY HotStoreAssumption DEF Compatible, Found, NoFact
<1>4. CASE found = {}
  BY <1>3, <1>4 DEF ReadCapture
<1>5. CASE found # {}
  <2>1. read \in found
    BY <1>5
  <2>2. ReadCapture(f.capture_id) = IF Compatible(read.fact) THEN Found(read.fact) ELSE NoFact("incompatible")
    BY <1>2, <1>5 DEF ReadCapture
  <2> HIDE DEF read
  <2>3. read.fact = f /\ read \in rows
    BY <1>1, <2>1
  <2> QED BY <1>3, <2>2, <2>3
<1> QED BY <1>4, <1>5

(* A row is only ever replaced by one of the same fact, and no row without *)
(* the metadata columns is ever added.                                     *)
RowsStay ==
    /\ \A v \in rows : \E r \in rows' : r.fact = v.fact
    /\ \A r \in rows' : r \in rows \/ r.fact \in Facts

LEMMA StepsKeepRows ==
    ASSUME HotInv, [HotNext]_hotVars
    PROVE  RowsStay
<1>0. HotTypeOK /\ SentInv
  BY DEF HotInv
<1>1. CASE rows' = rows
  BY <1>1 DEF RowsStay
<1>2. ASSUME NEW r \in wal, rows' = Upsert(r)
      PROVE  RowsStay
  <2>1. /\ r \in rows' /\ \A v \in rows' : v \in rows \/ v = r
        /\ \A v \in rows : v \in rows' \/ v.fact.capture_id = r.fact.capture_id
    BY <1>0, <1>2, UpsertReplaces
  <2>2. \A v \in rows : v.fact.capture_id = r.fact.capture_id => v.fact = r.fact
    BY <1>0, HotStoreAssumption DEF HotTypeOK, Row
  <2>3. r.fact \in Facts
    BY <1>0 DEF HotTypeOK, SentInv
  <2> QED BY <2>1, <2>2, <2>3 DEF RowsStay
<1>3. ASSUME NEW s \in Stores, Program(s)
      PROVE  rows' = rows
  BY <1>3, ProgramOnServer DEF serverVars, Send
<1>4. CASE UNCHANGED hotVars
  BY <1>1, <1>4 DEF hotVars, serverVars
<1> QED BY <1>0, <1>1, <1>2, <1>3, <1>4, ServerSteps DEF HotNext, Program

(* What OnceReadAlwaysRead says of a range, of the rows its query selects. *)
ReadsStay == \A f \in Facts : ReadCapture(f.capture_id) = Found(f) =>
    /\ ReadCapture(f.capture_id)' = Found(f)
    /\ \A q \in Ranges :
          ~RangeRaises(q) /\ (\E r \in Selected(q) : r.fact = f) =>
              ~RangeRaises(q)' /\ (\E r \in Selected(q) : r.fact = f)'

(* read_capture and read_range: a capture that could be read is read again *)
(* and is the same after any step; a range that could be read and selected *)
(* it can be read and selects it still.                                    *)
THEOREM OnceReadStaysReadable == HotSpec => [][ReadsStay]_hotVars
<1>1. HotInv /\ ReadableInv' /\ [HotNext]_hotVars => [ReadsStay]_hotVars
  <2> SUFFICES ASSUME HotInv, ReadableInv', [HotNext]_hotVars, NEW f \in Facts,
                      ReadCapture(f.capture_id) = Found(f)
               PROVE  /\ ReadCapture(f.capture_id)' = Found(f)
                      /\ \A q \in Ranges :
                            ~RangeRaises(q) /\ (\E r \in Selected(q) : r.fact = f) =>
                               ~RangeRaises(q)' /\ (\E r \in Selected(q) : r.fact = f)'
    BY DEF ReadsStay
  <2>1. RowsStay
    BY StepsKeepRows
  <2>2. \E r \in rows' : r.fact = f
    BY <2>1, ReadsFindRows DEF ReadableInv, RowsStay
  <2>3. ReadCapture(f.capture_id)' = Found(f)
    BY <2>2 DEF ReadableInv, Found
  <2>4. ASSUME NEW q \in Ranges, ~RangeRaises(q), \E r \in Selected(q) : r.fact = f
        PROVE  ~RangeRaises(q)' /\ (\E r \in Selected(q) : r.fact = f)'
    <3>1. ~RangeRaises(q)'
      BY <2>1, <2>4, HotStoreAssumption DEF RowsStay, RangeRaises, Selected, Compatible
    <3>2. (\E r \in Selected(q) : r.fact = f)'
      BY <2>2, <2>4 DEF Selected
    <3> QED BY <3>1, <3>2
  <2> QED BY <2>3, <2>4
<1> QED BY <1>1, HotInvHolds, ReadsFindRows, PTL DEF HotSpec
================================================================================
