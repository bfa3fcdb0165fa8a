------------------------------ MODULE TableSetup ------------------------------
(***************************************************************************)
(* How every QuestDB adapter comes to trust its table: _database_for_use   *)
(* of the Hot Store, of the TruthDecision history and of the availability  *)
(* store, and _database_for_read of the Replay source.  Each looks at the  *)
(* server's metadata one query at a time, creates a table that is not      *)
(* there (the Hot Store also adds three columns to an older one), and then *)
(* remembers _schema_ready until close().                                  *)
(*                                                                         *)
(* A table is what the checks tell apart: present; its physical            *)
(* configuration (WAL, DEDUP, partitioning, designated timestamp); its     *)
(* keys; its required columns; the columns the Hot Store may add; columns  *)
(* nobody asked for.  External: the server, which may fail any statement,  *)
(* and an administrator who alters or drops a table at any time.           *)
(***************************************************************************)
EXTENDS Naturals

CONSTANTS HotStores, Writers,  \* adapters: Hot Stores; histories and
                               \* availability stores
          Sources,             \* Replay sources
          TableOf,             \* the table of each Hot Store and writer
          HotTable,            \* the Hot Store's table
          Addable,             \* the approved compatibility columns
          InitialTables,       \* what each table may be at the start
          MaxTroubles          \* bound on statements that fail and on
                               \* administrative changes, together

Adapters == HotStores \cup Writers \cup Sources
Tables == {HotTable} \cup {TableOf[a] : a \in Writers}

Table == [present : BOOLEAN, physical : BOOLEAN, keys : BOOLEAN, required : BOOLEAN,
          added : [Addable -> {"absent", "right", "wrong"}], extra : BOOLEAN]

ASSUME SetupAssumption ==
    /\ MaxTroubles \in Nat
    /\ InitialTables \in [Tables -> SUBSET Table]
    /\ \A a \in HotStores : TableOf[a] = HotTable
    /\ \A a \in Writers : TableOf[a] # HotTable
    /\ HotStores \cap Writers = {}
    /\ (HotStores \cup Writers) \cap Sources = {}

VARIABLES table,         \* the server's tables
          failures, changes,
          connected, ready, pc,
          left,          \* the columns or tables still to be visited
          answer,        \* how the last call for the database ended
          touched        \* history: an administrator changed a table of the
                         \* adapter since it last began to connect or set up

vars == <<table, failures, changes, connected, ready, pc, left, answer, touched>>

Troubles == failures + changes

Mine(a) == IF a \in Sources THEN Tables ELSE {TableOf[a]}

-----------------------------------------------------------------------------
(* The adapters' own words for a table that will do.                       *)
CoreAccepted(t) == t.present /\ t.physical /\ t.keys
Complete(t) == t.required /\ \A c \in Addable : t.added[c] = "right"
Upgradable(t) == t.required /\ \A c \in Addable : t.added[c] # "wrong"
ExtraIgnored(t) == t.keys /\ Upgradable(t)                      \* mutant
ExactColumns(t) == t.keys /\ Complete(t) /\ ~t.extra

Servable(a) ==
    \A n \in Mine(a) :
        /\ CoreAccepted(table[n]) /\ Complete(table[n])
        /\ a \in Sources => ~table[n].extra

(* A table the adapter can serve from: as it is, or once its writer has    *)
(* created it, or once a Hot Store has upgraded it.                        *)
Acceptable(a, n) ==
    LET t == table[n]
    IN  \/ ~t.present
        \/ /\ CoreAccepted(t)
           /\ IF n = HotTable THEN Upgradable(t) ELSE Complete(t)
           /\ a \in Sources => ~t.extra

Created == [present |-> TRUE, physical |-> TRUE, keys |-> TRUE, required |-> TRUE,
            added |-> [c \in Addable |-> "right"], extra |-> FALSE]

-----------------------------------------------------------------------------
Steps == {"idle", "exists", "create", "physical", "keys", "columns", "add", "schema",
          "source tables", "source columns"}

TypeOK ==
    /\ table \in [Tables -> Table]
    /\ failures \in 0..MaxTroubles /\ changes \in 0..MaxTroubles
    /\ connected \in [Adapters -> BOOLEAN]
    /\ ready \in [Adapters -> BOOLEAN]
    /\ pc \in [Adapters -> Steps]
    /\ left \in [Adapters -> SUBSET (Addable \cup Tables)]
    /\ answer \in [Adapters -> {"none", "database", "unavailable", "refused"}]
    /\ touched \in [Adapters -> BOOLEAN]

Init ==
    /\ table \in [Tables -> Table]
    /\ \A n \in Tables : table[n] \in InitialTables[n]
    /\ failures = 0 /\ changes = 0
    /\ connected = [a \in Adapters |-> FALSE]
    /\ ready = [a \in Adapters |-> FALSE]
    /\ pc = [a \in Adapters |-> "idle"]
    /\ left = [a \in Adapters |-> {}]
    /\ answer = [a \in Adapters |-> "none"]
    /\ touched = [a \in Adapters |-> FALSE]

Goto(a, step) == pc' = [pc EXCEPT ![a] = step] /\ UNCHANGED <<ready, answer>>

Finish(a, result) ==
    /\ pc' = [pc EXCEPT ![a] = "idle"]
    /\ answer' = [answer EXCEPT ![a] = result]
    /\ UNCHANGED ready

Succeed(a) ==
    /\ pc' = [pc EXCEPT ![a] = "idle"]
    /\ ready' = [ready EXCEPT ![a] = TRUE]
    /\ answer' = [answer EXCEPT ![a] = "database"]

(* One check: go on, or demand a migration.                                *)
Check(a, passed, step) ==
    IF passed THEN Goto(a, step) ELSE Finish(a, "refused")

Outside == <<failures, changes, connected, touched>>

-----------------------------------------------------------------------------
(* A call connects if need be, and sets up only what is not ready.         *)
Begin(a) ==
    /\ pc[a] = "idle" /\ ~(connected[a] /\ ready[a])
    /\ connected' = [connected EXCEPT ![a] = TRUE]
    /\ touched' = [touched EXCEPT ![a] = FALSE]
    /\ IF ready[a] THEN Finish(a, "database")
       ELSE /\ pc' = [pc EXCEPT ![a] = IF a \in Sources THEN "source tables" ELSE "exists"]
            /\ answer' = [answer EXCEPT ![a] = "none"]
            /\ UNCHANGED ready
    /\ UNCHANGED <<table, failures, changes, left>>

ConnectFails(a) ==
    /\ pc[a] = "idle" /\ ~connected[a]
    /\ Troubles < MaxTroubles
    /\ failures' = failures + 1
    /\ Finish(a, "unavailable")
    /\ UNCHANGED <<table, changes, connected, left, touched>>

AskExists(a) ==
    /\ pc[a] = "exists"
    /\ Goto(a, IF table[TableOf[a]].present THEN "physical" ELSE "create")
    /\ UNCHANGED <<table, left, Outside>>

(* The Hot Store creates IF NOT EXISTS; the others' CREATE TABLE fails on  *)
(* a table somebody else has created since they looked.                    *)
CreateTable(a) ==
    /\ pc[a] = "create"
    /\ IF table[TableOf[a]].present
       THEN /\ IF a \in HotStores THEN Goto(a, "physical") ELSE Finish(a, "unavailable")
            /\ UNCHANGED table
       ELSE Goto(a, "physical") /\ table' = [table EXCEPT ![TableOf[a]] = Created]
    /\ UNCHANGED <<left, Outside>>

CheckPhysical(a) ==
    /\ pc[a] = "physical"
    /\ LET t == table[TableOf[a]]
       IN  Check(a, t.present /\ t.physical, "keys")
    /\ UNCHANGED <<table, left, Outside>>

(* The Hot Store's first look at the columns is about its keys; the other  *)
(* writers check all they need in one.                                     *)
CheckKeys(a) ==
    /\ pc[a] = "keys"
    /\ LET t == table[TableOf[a]]
       IN  IF a \in HotStores THEN Check(a, t.present /\ t.keys, "columns")
           ELSE IF t.present /\ t.keys /\ Complete(t) THEN Succeed(a)
           ELSE Finish(a, "refused")
    /\ UNCHANGED <<table, left, Outside>>

IncompleteRefused(t) == t.present /\ Complete(t)                \* mutant
ColumnsAccepted(t) == t.present /\ Upgradable(t)

CheckColumns(a) ==
    /\ pc[a] = "columns"
    /\ Check(a, ColumnsAccepted(table[TableOf[a]]), "add")
    /\ left' = [left EXCEPT ![a] = Addable]
    /\ UNCHANGED <<table, Outside>>

(* ALTER TABLE ADD COLUMN IF NOT EXISTS, one column per statement.         *)
AddIfAbsent(t, c) ==
    IF t.added[c] = "absent" THEN [t EXCEPT !.added[c] = "right"] ELSE t

AddColumn(a) ==
    /\ pc[a] = "add"
    /\ IF left[a] = {} THEN Goto(a, "schema") /\ UNCHANGED <<table, left>>
       ELSE \E c \in left[a] :
            /\ left' = [left EXCEPT ![a] = @ \ {c}]
            /\ IF table[TableOf[a]].present
               THEN /\ table' = [table EXCEPT ![TableOf[a]] = AddIfAbsent(@, c)]
                    /\ Goto(a, "add")
               ELSE UNCHANGED table /\ Finish(a, "unavailable")
    /\ UNCHANGED Outside

CheckSchema(a) ==
    /\ pc[a] = "schema"
    /\ LET t == table[TableOf[a]]
       IN  IF t.present /\ Complete(t) THEN Succeed(a) ELSE Finish(a, "refused")
    /\ UNCHANGED <<table, left, Outside>>

(* The Replay source sees all tables in one query, then each one's columns,*)
(* which must be exactly the expected ones.                                *)
CheckSourceTables(a) ==
    /\ pc[a] = "source tables"
    /\ Check(a, \A n \in Tables : table[n].present /\ table[n].physical, "source columns")
    /\ left' = [left EXCEPT ![a] = Tables]
    /\ UNCHANGED <<table, Outside>>

CheckSourceColumns(a) ==
    /\ pc[a] = "source columns"
    /\ IF left[a] = {} THEN Succeed(a) /\ UNCHANGED left
       ELSE \E n \in left[a] :
            /\ left' = [left EXCEPT ![a] = @ \ {n}]
            /\ Check(a, table[n].present /\ ExactColumns(table[n]), "source columns")
    /\ UNCHANGED <<table, Outside>>

(* Any statement may fail: nothing is remembered but the connection.       *)
StatementFails(a) ==
    /\ pc[a] # "idle"
    /\ Troubles < MaxTroubles
    /\ failures' = failures + 1
    /\ Finish(a, "unavailable")
    /\ UNCHANGED <<table, changes, connected, left, touched>>

Step(a) ==
    \/ AskExists(a) \/ CreateTable(a)
    \/ CheckPhysical(a) \/ CheckKeys(a)
    \/ CheckColumns(a) \/ AddColumn(a) \/ CheckSchema(a)
    \/ CheckSourceTables(a) \/ CheckSourceColumns(a)

ReadinessKept(a) == UNCHANGED ready                            \* mutant
ForgetReadiness(a) == ready' = [ready EXCEPT ![a] = FALSE]

Close(a) ==
    /\ pc[a] = "idle" /\ connected[a]
    /\ connected' = [connected EXCEPT ![a] = FALSE]
    /\ ForgetReadiness(a)
    /\ UNCHANGED <<table, failures, changes, pc, left, answer, touched>>

(* Somebody migrates, breaks or drops a table.                             *)
Administer == \E n \in Tables : \E t \in InitialTables[n] :
    /\ Troubles < MaxTroubles
    /\ table[n] # t
    /\ changes' = changes + 1
    /\ table' = [table EXCEPT ![n] = t]
    /\ touched' = [a \in Adapters |-> touched[a] \/ n \in Mine(a)]
    /\ UNCHANGED <<failures, connected, ready, pc, left, answer>>

Next ==
    \/ \E a \in Adapters :
          Begin(a) \/ ConnectFails(a) \/ Step(a) \/ StatementFails(a) \/ Close(a)
    \/ Administer

Spec == Init /\ [][Next]_vars

-----------------------------------------------------------------------------
(* What an adapter remembers as ready is servable, unless somebody changed *)
(* a table since the adapter connected: checks made one query at a time,   *)
(* between the statements of other adapters, never add up to a table none  *)
(* of them would accept (questdb_adapter.py:153-171).                      *)
ReadyIsServable ==
    \A a \in Adapters : ready[a] /\ ~touched[a] => Servable(a)

(* An adapter demands a migration only of a table that needs one: not of   *)
(* one that another adapter is creating or upgrading at the same time.     *)
RefusalNeedsMigration ==
    \A a \in HotStores \cup Writers :
        answer[a] = "refused" /\ ~touched[a] => ~Acceptable(a, TableOf[a])

(* The Replay source trusts only tables the writers no longer alter: once  *)
(* it is ready, no Hot Store finds a column to add (the source demands the *)
(* exact columns, questdb_source.py:231).                                  *)
SourceTablesAreFinal ==
    [][ \A s \in Sources :
          ready[s] /\ ~touched[s] /\ changes' = changes => table' = table ]_vars
=============================================================================
