--------------------------- MODULE SchemaMigrations ---------------------------
(***************************************************************************)
(* How the PostgreSQL schema comes about (runPostgresqlSqlMigrations).  In  *)
(* compose.local.yml the API and the worker start at the same time, and the *)
(* first repository call of each migrates the database; in production the   *)
(* migration command does.  Each migration is a transaction that creates    *)
(* objects that may be there already and records itself in a ledger.  No    *)
(* lock is taken: the runs meet in PostgreSQL, where a transaction that     *)
(* creates what another has created waits for the other's end, and fails    *)
(* unless the other was rolled back.                                        *)
(***************************************************************************)
EXTENDS Naturals, FiniteSets

CONSTANTS
  Migrators,   \* the processes that migrate
  Commands,    \* those of them that are the migration command
  Known,       \* [Migrators -> Nat]: how many migrations the version of each has
  MaxStarts,   \* bound: how often processes are started
  MaxBreaks    \* bound: how often a query fails, or a connection is lost

ASSUME MigrationConstants ==
  /\ Commands \subseteq Migrators
  /\ Known \in [Migrators -> Nat]
  /\ {MaxStarts, MaxBreaks} \subseteq Nat

VARIABLES
  ledgerTable, \* whether omniwa_schema_migrations exists
  ledger,      \* the migrations it names
  created,     \* [migration |-> how many committed transactions created its objects]
  stage,       \* where each process is
  migration,   \* and in which migration
  missing,     \* whether what its statement is to create was missing when it began
  report,      \* what the last finished command said was pending and unknown
  excused,     \* history: runs that another run, or the database, got in the way of
  starts, breaks

migrationVars ==
  <<ledgerTable, ledger, created, stage, migration, missing, report, excused, starts, breaks>>

AllMigrations == UNION {1..Known[p] : p \in Migrators}
InTransaction == {"begun", "creating", "record", "commit"}

MigrationInit ==
  /\ ledgerTable = FALSE
  /\ ledger = {}
  /\ created = [m \in AllMigrations |-> 0]
  /\ stage = [p \in Migrators |-> "down"]
  /\ migration = [p \in Migrators |-> 0]
  /\ missing = [p \in Migrators |-> FALSE]
  /\ report = [pending |-> {}, unknown |-> {}]
  /\ excused = {}
  /\ starts = 0 /\ breaks = 0

Goes(p, to) == stage' = [stage EXCEPT ![p] = to]

\* Mutant: the barrier forgets that the run was rejected.
RejectForgotten(p) == Goes(p, "ready")

\* ROLLBACK, and the promise that all repositories of the process wait for is
\* rejected: so is every call from now on, until the process is started again.
Reject(p) == Goes(p, "failed")

StartMigrations(p) ==
  /\ stage[p] = "down" /\ starts < MaxStarts
  /\ starts' = starts + 1
  /\ Goes(p, "table")
  /\ missing' = [missing EXCEPT ![p] = ~ledgerTable]
  /\ excused' = excused \ {p}
  /\ UNCHANGED <<ledgerTable, ledger, created, migration, report, breaks>>

CreateLedgerTable(p) ==
  /\ stage[p] = "table"
  /\ \/ /\ ledgerTable' = TRUE
        /\ Goes(p, "check")
        /\ migration' = [migration EXCEPT ![p] = 1]
        /\ UNCHANGED excused
     \/ /\ missing[p] /\ ledgerTable
        /\ excused' = excused \cup {p}
        /\ Reject(p)
        /\ UNCHANGED <<ledgerTable, migration>>
  /\ UNCHANGED <<ledger, created, missing, report, starts, breaks>>

\* SELECT id FROM omniwa_schema_migrations, then BEGIN.
CheckMigration(p) ==
  /\ stage[p] = "check"
  /\ \/ migration[p] > Known[p] /\ Goes(p, "ready") /\ UNCHANGED migration
     \/ /\ migration[p] <= Known[p] /\ migration[p] \in ledger
        /\ migration' = [migration EXCEPT ![p] = @ + 1]
        /\ UNCHANGED stage
     \/ /\ migration[p] <= Known[p] /\ migration[p] \notin ledger
        /\ Goes(p, "begun") /\ UNCHANGED migration
  /\ UNCHANGED <<ledgerTable, ledger, created, missing, report, excused, starts, breaks>>

SendStatements(p) ==
  /\ stage[p] = "begun"
  /\ Goes(p, "creating")
  /\ missing' = [missing EXCEPT ![p] = created[migration[p]] = 0]
  /\ UNCHANGED <<ledgerTable, ledger, created, migration, report, excused, starts, breaks>>

Others(p, stages) ==
  {q \in Migrators \ {p} : stage[q] \in stages /\ migration[q] = migration[p]}

StatementsRun(p) ==
  /\ stage[p] = "creating"
  /\ \A q \in Others(p, {"record", "commit"}) : ~missing[q]
  /\ IF missing[p] /\ created[migration[p]] > 0 THEN Reject(p) ELSE Goes(p, "record")
  /\ UNCHANGED <<ledgerTable, ledger, created, migration, missing, report, excused, starts, breaks>>

\* INSERT INTO omniwa_schema_migrations; the id is its primary key.
RecordMigration(p) ==
  /\ stage[p] = "record"
  /\ Others(p, {"commit"}) = {}
  /\ IF migration[p] \in ledger THEN Reject(p) ELSE Goes(p, "commit")
  /\ UNCHANGED <<ledgerTable, ledger, created, migration, missing, report, excused, starts, breaks>>

CommitMigration(p) ==
  /\ stage[p] = "commit"
  /\ ledger' = ledger \cup {migration[p]}
  /\ created' = [created EXCEPT ![migration[p]] = IF missing[p] THEN @ + 1 ELSE @]
  /\ Goes(p, "check")
  /\ migration' = [migration EXCEPT ![p] = @ + 1]
  /\ excused' = excused \cup Others(p, InTransaction)
  /\ UNCHANGED <<ledgerTable, missing, report, starts, breaks>>

FindAppliedMigrations == IF ledgerTable THEN ledger ELSE {}

\* getPostgresqlSqlMigrationStatus; the command ends with it.
ReportStatus(p) ==
  /\ p \in Commands /\ stage[p] = "ready"
  /\ report' = [pending |-> (1..Known[p]) \ FindAppliedMigrations,
                unknown |-> FindAppliedMigrations \ (1..Known[p])]
  /\ Goes(p, "down")
  /\ UNCHANGED <<ledgerTable, ledger, created, migration, missing, excused, starts, breaks>>

DatabaseRefuses(p) ==
  /\ stage[p] \in InTransaction \cup {"table", "check"} /\ breaks < MaxBreaks
  /\ breaks' = breaks + 1
  /\ excused' = excused \cup {p}
  /\ Reject(p)
  /\ UNCHANGED <<ledgerTable, ledger, created, migration, missing, report, starts>>

\* The process is killed, or exits; PostgreSQL rolls back what it left open.
StopMigrator(p) ==
  /\ stage[p] # "down"
  /\ Goes(p, "down")
  /\ UNCHANGED <<ledgerTable, ledger, created, migration, missing, report, excused, starts, breaks>>

MigrationNext ==
  \E p \in Migrators :
    \/ StartMigrations(p) \/ CreateLedgerTable(p) \/ CheckMigration(p) \/ SendStatements(p)
    \/ StatementsRun(p) \/ RecordMigration(p) \/ CommitMigration(p) \/ ReportStatus(p)
    \/ DatabaseRefuses(p) \/ StopMigrator(p)

MigrationSpec == MigrationInit /\ [][MigrationNext]_migrationVars

-----------------------------------------------------------------------------
(* Properties.                                                             *)

\* Whoever migrates at the same time, and whoever is killed on the way: the
\* objects of a migration are there exactly when the ledger says so, made by one
\* transaction; migrations stand in their order; a process works only on a schema
\* that has all it knows, and is turned away only when another run or the
\* database got in its way; and a command that ends leaves nothing pending
\* (runPostgresqlSqlMigrations, createPostgresqlMigrationBarrier).
SchemaIsWhole ==
  /\ \A m \in AllMigrations : created[m] = IF m \in ledger THEN 1 ELSE 0
  /\ \A m \in ledger : 1..m \subseteq ledger
  /\ \A p \in Migrators :
        /\ stage[p] = "ready" => 1..Known[p] \subseteq ledger
        /\ stage[p] = "failed" => p \in excused
  /\ report.pending = {}
=============================================================================
