----------------------------- MODULE Migrations -----------------------------
(***************************************************************************)
(* The schema of the MySQL database and its migrations                     *)
(* (common/mysql/migrations.go, migrations/).                              *)
(*                                                                         *)
(* A release is the sequence of checksums of the migrations it contains;   *)
(* a version is a place in it.  The statements of a migration are modelled *)
(* one by one, because each commits on its own; a probe of                 *)
(* information_schema and the DDL it guards are one step, since only the   *)
(* holder of the lock changes the schema.  Messages written by a binary    *)
(* older than the runner have no message_id.                               *)
(***************************************************************************)
EXTENDS Naturals, Sequences

CONSTANTS
  Procs,     \* processes: API servers and runs of cmd/migrate
  Nobody,    \* nobody holds the lock
  Releases,  \* the releases that may run
  MaxUnidentified  \* bound on the messages of a legacy binary without an id

\* Statements of the Up functions, in order.
Up == << <<"baseline">>,
         <<"column", "backfill", "duplicates", "unique", "notnull">>,
         <<"sessions_index">>,
         <<"operation_column", "operation_index">>,
         <<"scan_index">> >>

ASSUME MigrationAssumption ==
  /\ Nobody \notin Procs
  /\ \A r \in Releases : r \in Seq(Nat) /\ Len(r) \in 1..Len(Up)

VARIABLES
  lock,     \* holder of the advisory lock of GET_LOCK
  table,    \* the history table exists
  history,  \* recorded versions, with their checksums
  schema,   \* DDL statements that took effect
  unidentified  \* messages without a message_id

schemaVars == <<lock, table, history, schema, unidentified>>

SchemaInit ==
  /\ lock = Nobody /\ table = FALSE /\ history = <<>> /\ schema = {}
  /\ unidentified = 0

LegacyInsert ==
  /\ unidentified < MaxUnidentified /\ "notnull" \notin schema
  /\ unidentified' = unidentified + 1
  /\ UNCHANGED <<lock, table, history, schema>>

\* The duplicate query counts the rows without an id as one group.
Refuses(statement) ==
  \/ statement = "duplicates" /\ unidentified > 1
  \/ statement = "notnull" /\ unidentified > 0

Execute(statement) ==
  /\ ~Refuses(statement)
  /\ unidentified' = IF statement = "backfill" THEN 0 ELSE unidentified
  /\ schema' = IF statement \in {"backfill", "duplicates"} THEN schema ELSE schema \cup {statement}

\* verifyRecordedChecksums.
Matches(release) == \A v \in DOMAIN history : v \in DOMAIN release /\ history[v] = release[v]

Pending(release) == DOMAIN release \ DOMAIN history
First(versions) == CHOOSE v \in versions : \A w \in versions : v <= w

\* VerifyMigrations.
Verifies(release) == table /\ Matches(release) /\ Pending(release) = {}
=============================================================================
