-------------------------- MODULE MCSharedEventLog --------------------------
(***************************************************************************)
(* What processes share without a lock, explored one at a time: the JSON    *)
(* event log, in a file to which the worker appends four domain events and  *)
(* the provider runtime a signal; and the PostgreSQL schema, which the API, *)
(* a worker of an older version and the migration command bring about.      *)
(***************************************************************************)
EXTENDS SharedEventLog, SchemaMigrations, TLC

CONSTANTS worker, provider, fact1, fact2, fact3, fact4, signal, api, olderWorker, command

Facts == {fact1, fact2, fact3, fact4}

MCAppends == (worker :> Facts) @@ (provider :> {signal})
MCKnown == (api :> 2) @@ (olderWorker :> 1) @@ (command :> 2)

Interchangeable ==
  {f @@ g : f \in Permutations(Inode), g \in Permutations(Facts)}

VARIABLE scene

MCInit ==
  /\ scene \in {"log", "schema"}
  /\ Init /\ MigrationInit

MCNext ==
  /\ UNCHANGED scene
  /\ \/ scene = "log" /\ Next /\ UNCHANGED migrationVars
     \/ scene = "schema" /\ MigrationNext /\ UNCHANGED vars

MCSpec == MCInit /\ [][MCNext]_<<scene, vars, migrationVars>>
=============================================================================
