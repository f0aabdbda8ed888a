------------------------------ MODULE Migrations ------------------------------
(***************************************************************************)
(* The life of server processes over one database: start-up with the      *)
(* migration runner (main.go, app.go, bootstrap.go, postgres.go), serving, *)
(* and shutdown.  A process that ends, by an error or by being killed, is  *)
(* started again by its supervisor (restart: unless-stopped in             *)
(* docker-compose.yml).  Processes may run different releases.             *)
(***************************************************************************)
EXTENDS Integers

CONSTANTS
  Instances,   \* server processes that share the database
  Files,       \* number of migrations of the latest release
  Version,     \* Version[i]: how many of them the binary of i embeds
  MaxFaults    \* bound: failures, kills and stops (and strayed packets)

ASSUME MigrationsAssumption ==
  /\ Files \in Nat
  /\ Version \in [Instances -> 0 .. Files]
  /\ MaxFaults \in Nat

VARIABLES
  recorded,    \* schema_migrations: the migrations whose name is in the table
  applied,     \* history: how often each migration's SQL has been committed
  proc,        \* what each process is doing, and the migration it is at
  faults       \* interruptions so far: failures, kills, stops

schemaVars == <<recorded, applied>>
processVars == <<proc, faults>>
migrationVars == <<recorded, applied, proc, faults>>

\* "create": the schema_migrations table; "check": is this migration in it;
\* "execute": its transaction; "load": NewService and its first refresh;
\* "drain": the HTTP server closes; "close": Service.Shutdown, then the pool.
Pcs == {"down", "create", "check", "execute", "load", "serve", "drain", "close"}

Down == [pc |-> "down", file |-> 1]

\* Past the migration runner.
Ready == {"load", "serve", "drain", "close"}

MigrationsInit ==
  /\ recorded = {}
  /\ applied = [f \in 1 .. Files |-> 0]
  /\ proc = [i \in Instances |-> Down]
  /\ faults = 0

\* Process i goes from one step to the next.
Goes(i, from, to) ==
  /\ proc[i].pc = from
  /\ proc' = [proc EXCEPT ![i].pc = to]
  /\ UNCHANGED faults

Boot(i) == Goes(i, "down", "create") /\ UNCHANGED schemaVars

\* CREATE TABLE IF NOT EXISTS schema_migrations.
CreateTable(i) == Goes(i, "create", "check") /\ UNCHANGED schemaVars

AllChecked(i) == proc[i].file > Version[i]

\* The migration is in the table: go on to the next.
Skip(i) ==
  /\ proc[i].pc = "check"
  /\ ~AllChecked(i)
  /\ proc[i].file \in recorded
  /\ proc' = [proc EXCEPT ![i].file = @ + 1]
  /\ UNCHANGED <<schemaVars, faults>>

BeginMigration(i) ==
  /\ ~AllChecked(i)
  /\ proc[i].file \notin recorded
  /\ Goes(i, "check", "execute")
  /\ UNCHANGED schemaVars

\* Mutant: the table has no primary key, so that two processes which found
\* the migration missing both run and record it.
CommitTwice(i) ==
  /\ proc[i].pc = "execute"
  /\ recorded' = recorded \cup {proc[i].file}
  /\ applied' = [applied EXCEPT ![proc[i].file] = @ + 1]
  /\ proc' = [proc EXCEPT ![i] = [pc |-> "check", file |-> @.file + 1]]
  /\ UNCHANGED faults

\* Mutant: the next migration is left out.
CommitSkips(i) ==
  /\ proc[i].pc = "execute"
  /\ proc[i].file \notin recorded
  /\ recorded' = recorded \cup {proc[i].file}
  /\ applied' = [applied EXCEPT ![proc[i].file] = @ + 1]
  /\ proc' = [proc EXCEPT ![i] = [pc |-> "check", file |-> @.file + 2]]
  /\ UNCHANGED faults

\* The migration's SQL and the INSERT of its name, in one transaction.  The
\* name is the primary key.
Commit(i) ==
  /\ proc[i].pc = "execute"
  /\ proc[i].file \notin recorded
  /\ recorded' = recorded \cup {proc[i].file}
  /\ applied' = [applied EXCEPT ![proc[i].file] = @ + 1]
  /\ proc' = [proc EXCEPT ![i] = [pc |-> "check", file |-> @.file + 1]]
  /\ UNCHANGED faults

\* Another process has committed it since the check: the INSERT fails, the
\* transaction is rolled back, Bootstrap returns the error and main panics.
LoseRace(i) ==
  /\ proc[i].pc = "execute"
  /\ proc[i].file \in recorded
  /\ proc' = [proc EXCEPT ![i] = Down]
  /\ UNCHANGED <<schemaVars, faults>>

\* Mutant: the server starts after the first check.
MigratedTooSoon(i) == Goes(i, "check", "load") /\ UNCHANGED schemaVars

Migrated(i) == AllChecked(i) /\ Goes(i, "check", "load") /\ UNCHANGED schemaVars

\* NewService returns, whatever has become of its refresh; the listeners and
\* the two loops start.
Serve(i) == Goes(i, "load", "serve") /\ UNCHANGED schemaVars

Interrupts == faults < MaxFaults /\ faults' = faults + 1

\* SIGTERM: the HTTP server shuts down first; RADIUS is still answered.
Signal(i) ==
  /\ proc[i].pc = "serve"
  /\ Interrupts
  /\ proc' = [proc EXCEPT ![i].pc = "drain"]
  /\ UNCHANGED schemaVars

\* e.Shutdown returns, after at most 15 seconds.
HTTPClosed(i) == Goes(i, "drain", "close") /\ UNCHANGED schemaVars

\* The deferred Shutdown and Close have run and main returns, without
\* waiting for the goroutines that write to the database.
Exit(i) ==
  /\ proc[i].pc = "close"
  /\ proc' = [proc EXCEPT ![i] = Down]
  /\ UNCHANGED <<schemaVars, faults>>

\* A database error during start-up, or a kill at any time.
Fault(i) ==
  /\ proc[i].pc # "down"
  /\ Interrupts
  /\ proc' = [proc EXCEPT ![i] = Down]
  /\ UNCHANGED schemaVars

\* The steps of start-up and shutdown that go on by themselves and concern
\* nothing but the process and the schema.
Progress(i) ==
  \/ Boot(i) \/ CreateTable(i) \/ Skip(i) \/ BeginMigration(i) \/ Commit(i)
  \/ Migrated(i) \/ HTTPClosed(i)

-----------------------------------------------------------------------------
(* Properties *)

MigrationsTypeOK ==
  /\ recorded \subseteq 1 .. Files
  /\ applied \in [1 .. Files -> Nat]
  /\ proc \in [Instances -> [pc: Pcs, file: 1 .. Files + 1]]
  /\ faults \in 0 .. MaxFaults

\* "A schema_migrations table records which migrations have already run so
\* each one is applied only once" (docs/adr/001-base-architecture.md:69-71),
\* with any number of processes starting together and dying in between: the
\* table and the schema agree, and nothing has been committed twice
\* (postgres.go:59-85).
AppliedOnce == \A f \in 1 .. Files : applied[f] = IF f \in recorded THEN 1 ELSE 0

\* A process past the migration runner finds all tables and columns of its
\* release, and no migration was ever applied without its predecessors
\* (postgres.go:57-86, bootstrap.go:28-31).
SchemaReady ==
  /\ \A f \in recorded : 1 .. f \subseteq recorded
  /\ \A i \in Instances : proc[i].pc \in Ready => 1 .. Version[i] \subseteq recorded

=============================================================================
