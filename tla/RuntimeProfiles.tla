-------------------------- MODULE RuntimeProfiles --------------------------
(***************************************************************************)
(* How the five processes are composed from their environment (the          *)
(* runtime-composition.ts of the API, the worker, the provider runtime, the *)
(* webhook dispatcher and the background process): whether a process starts *)
(* at all, and where it keeps what it shares with the others.  The in-memory *)
(* and JSON profiles are for development; the production profile refuses to *)
(* start without the durable settings.                                      *)
(*                                                                         *)
(* An environment maps the names of the settings, without OMNIWA_, to their *)
(* trimmed values.  A place is where a process keeps something: in its own   *)
(* memory, in a file, or in a database.                                     *)
(***************************************************************************)
EXTENDS FiniteSets, Naturals

Unset == "unset"
Unsupported == "unsupported"     \* a value the process refuses to read

Given(env, name) == name \in DOMAIN env /\ env[name] \notin {Unset, ""}

(* env.A?.trim() ?? env.B?.trim(): a setting that is present but empty       *)
(* hides the one it falls back to.                                           *)
OrElse(env, name, fallback) == IF env[name] # Unset THEN env[name] ELSE env[fallback]

IsTrue(env, name) == env[name] \in {"1", "true", "yes"}

Place(kind, where) == [kind |-> kind, where |-> where]

Memory(process) == Place("memory", process)
File(path) == Place("file", path)
Database(url) == Place("database", url)

-----------------------------------------------------------------------------
(* The settings that several processes read in the same way.                 *)

Profile(value) ==
  CASE value \in {Unset, "", "local", "development"} -> "local"
    [] value \in {"production", "test"} -> value
    [] OTHER -> Unsupported

RepositoryProfile(value) ==
  CASE value \in {Unset, "", "in-memory"} -> "in-memory"
    [] value \in {"durable-json", "postgresql"} -> value
    [] OTHER -> Unsupported

QueueProfile(value) ==
  CASE value \in {Unset, "", "in-memory"} -> "in-memory"
    [] value \in {"durable", "durable-worker-job"} -> "durable-worker-job"
    [] OTHER -> Unsupported

(* Where the repositories are, given a profile and a state directory.        *)
Repositories(env, process, profile, directory) ==
  CASE profile = "in-memory" -> Memory(process)
    [] profile = "durable-json" -> File(directory)
    [] profile = "postgresql" -> Database(env["POSTGRES_DATABASE_URL"])

(* ... which must be given unless they are in memory.                        *)
RepositoriesExist(env, profile, directory) ==
  /\ profile = "durable-json" => directory \notin {Unset, ""}
  /\ profile = "postgresql" => Given(env, "POSTGRES_DATABASE_URL")

(* A durable queue is a table of the repositories.                           *)
Jobs(process, queue, repositories) ==
  IF queue = "durable-worker-job" THEN repositories ELSE Memory(process)

(* The text intents: in the file that is named, else beside the JSON         *)
(* repositories, else in memory.                                             *)
Intents(env, process, profile, directory) ==
  CASE Given(env, "OUTBOUND_MESSAGE_INTENT_STORE_PATH")
         -> File(env["OUTBOUND_MESSAGE_INTENT_STORE_PATH"])
    [] ~Given(env, "OUTBOUND_MESSAGE_INTENT_STORE_PATH") /\ profile = "durable-json"
         -> File(directory)
    [] OTHER -> Memory(process)

BridgeIsNamed(env) ==
  Given(env, "PROVIDER_COMMAND_BRIDGE_URL") /\ Given(env, "PROVIDER_COMMAND_BRIDGE_TOKEN")

-----------------------------------------------------------------------------
(* The API. *)

ApiProfile(env) == Profile(OrElse(env, "API_RUNTIME_PROFILE", "NODE_ENV"))

ApiEventBackend(env) ==
  LET value == env["EVENT_LOG_BACKEND"] IN
  CASE value \in {Unset, ""}
         -> IF Given(env, "EVENT_LOG_PATH") THEN "durable-json" ELSE "in-memory"
    [] value \in {"in-memory", "durable-json", "postgresql"} -> value
    [] OTHER -> Unsupported

KeySources(env) ==
  {name \in {"API_KEY", "API_KEY_HASH", "API_KEY_LIFECYCLE_STORE_PATH"} : Given(env, name)}

AuditSinks(env) ==
  {name \in {"API_SECURITY_AUDIT_LOG_PATH"} : Given(env, name)}
  \cup {name \in {"API_SECURITY_AUDIT_IN_MEMORY", "API_SECURITY_AUDIT_RECORDS"} : IsTrue(env, name)}

RateLimits == {"API_RATE_LIMIT_MAX_REQUESTS", "API_RATE_LIMIT_WINDOW_MS"}

(* All of the limiter's settings or none, and a Redis that is named.         *)
LimiterComposes(env) ==
  /\ env["API_RATE_LIMIT_BACKEND"] \in {Unset, "", "in-memory", "redis"}
  /\ \/ \A name \in RateLimits : Given(env, name)
     \/ /\ \A name \in RateLimits : ~Given(env, name)
        /\ ~Given(env, "API_RATE_LIMIT_BACKEND")
  /\ env["API_RATE_LIMIT_BACKEND"] = "redis" => Given(env, "API_RATE_LIMIT_REDIS_URL")

(* assertProductionPostgresqlDatabaseUrl: not local, not well known.         *)
ProductionDatabases == {"db", "otherdb"}

ApiIsForProduction(env) ==
  /\ env["API_REPOSITORY_PROFILE"] = "postgresql"
  /\ env["POSTGRES_DATABASE_URL"] \in ProductionDatabases
  /\ env["API_RATE_LIMIT_BACKEND"] = "redis"
  /\ AuditSinks(env) = {"API_SECURITY_AUDIT_RECORDS"}
  /\ IsTrue(env, "API_RESOURCE_OWNERSHIP_REPOSITORY")
  /\ QueueProfile(env["API_QUEUE_PROFILE"]) = "durable-worker-job"
  /\ ApiEventBackend(env) = "postgresql"
  /\ Given(env, "API_METRICS_JSONL_PATH")
  /\ Given(env, "OUTBOUND_MESSAGE_INTENT_STORE_PATH")

(* createApiRuntimeComposition does not throw.                               *)
ApiComposes(env) ==
  /\ Unsupported \notin {ApiProfile(env), RepositoryProfile(env["API_REPOSITORY_PROFILE"]),
                         QueueProfile(env["API_QUEUE_PROFILE"]), ApiEventBackend(env)}
  /\ Cardinality(KeySources(env)) =< 1
  /\ ApiProfile(env) # "test" => KeySources(env) # {}
  /\ Cardinality(AuditSinks(env)) =< 1
  /\ "API_SECURITY_AUDIT_RECORDS" \in AuditSinks(env)
       => RepositoryProfile(env["API_REPOSITORY_PROFILE"]) = "postgresql"
  /\ LimiterComposes(env)
  /\ ApiProfile(env) = "production" => ApiIsForProduction(env)
  /\ RepositoriesExist(env, RepositoryProfile(env["API_REPOSITORY_PROFILE"]),
                       env["API_REPOSITORY_STATE_DIR"])
  /\ ApiEventBackend(env) = "durable-json" => Given(env, "EVENT_LOG_PATH")
  /\ ApiEventBackend(env) = "postgresql" => Given(env, "POSTGRES_DATABASE_URL")

ApiPlaces(env) ==
  LET profile == RepositoryProfile(env["API_REPOSITORY_PROFILE"])
      rows == Repositories(env, "api", profile, env["API_REPOSITORY_STATE_DIR"])
  IN [profile |-> ApiProfile(env),
      rows    |-> rows,
      jobs    |-> Jobs("api", QueueProfile(env["API_QUEUE_PROFILE"]), rows),
      intents |-> Intents(env, "api", profile, env["API_REPOSITORY_STATE_DIR"]),
      events  |-> CASE ApiEventBackend(env) = "in-memory" -> Memory("api")
                    [] ApiEventBackend(env) = "durable-json" -> File(env["EVENT_LOG_PATH"])
                    [] ApiEventBackend(env) = "postgresql" -> Database(env["POSTGRES_DATABASE_URL"])]

-----------------------------------------------------------------------------
(* The worker. *)

WorkerProfile(env) == Profile(OrElse(env, "WORKER_RUNTIME_PROFILE", "NODE_ENV"))

WorkerRepositoryProfile(env) ==
  RepositoryProfile(OrElse(env, "WORKER_REPOSITORY_PROFILE", "API_REPOSITORY_PROFILE"))

WorkerDirectory(env) == OrElse(env, "WORKER_REPOSITORY_STATE_DIR", "API_REPOSITORY_STATE_DIR")

(* Where the worker sends a message to: a socket of its own, nowhere, or the *)
(* provider runtime.                                                         *)
WorkerProvider(env) ==
  LET value == env["WORKER_PROVIDER_MODE"] IN
  CASE value \in {Unset, "", "local-demo", "same-process-local-demo"} -> "own"
    [] value = "multi-process-unsupported" -> "none"
    [] value = "provider-runtime-bridge" -> IF BridgeIsNamed(env) THEN "bridge" ELSE "none"
    [] OTHER -> Unsupported

(* Mutant: a durable queue is not required.                                  *)
WorkerWithAnyQueue(env) ==
  /\ WorkerRepositoryProfile(env) = "postgresql"
  /\ WorkerProvider(env) = "bridge"
  /\ Given(env, "EVENT_LOG_PATH")
  /\ Given(env, "OUTBOUND_MESSAGE_INTENT_STORE_PATH")

WorkerIsForProduction(env) ==
  /\ WorkerRepositoryProfile(env) = "postgresql"
  /\ QueueProfile(env["WORKER_QUEUE_PROFILE"]) = "durable-worker-job"
  /\ WorkerProvider(env) = "bridge"
  /\ Given(env, "EVENT_LOG_PATH")
  /\ Given(env, "OUTBOUND_MESSAGE_INTENT_STORE_PATH")

WorkerComposes(env) ==
  /\ Unsupported \notin {WorkerProfile(env), WorkerRepositoryProfile(env),
                         WorkerProvider(env), QueueProfile(env["WORKER_QUEUE_PROFILE"])}
  /\ WorkerProfile(env) = "production" => WorkerIsForProduction(env)
  /\ RepositoriesExist(env, WorkerRepositoryProfile(env), WorkerDirectory(env))

WorkerPlaces(env) ==
  LET rows == Repositories(env, "worker", WorkerRepositoryProfile(env), WorkerDirectory(env))
  IN [profile  |-> WorkerProfile(env),
      rows     |-> rows,
      jobs     |-> Jobs("worker", QueueProfile(env["WORKER_QUEUE_PROFILE"]), rows),
      intents  |-> Intents(env, "worker", WorkerRepositoryProfile(env), WorkerDirectory(env)),
      events   |-> IF Given(env, "EVENT_LOG_PATH")
                   THEN File(env["EVENT_LOG_PATH"]) ELSE Memory("worker"),
      provider |-> WorkerProvider(env)]

-----------------------------------------------------------------------------
(* The provider runtime. *)

ProviderProfile(env) == Profile(OrElse(env, "PROVIDER_RUNTIME_PROFILE", "NODE_ENV"))

LiveMode(env) ==
  LET value == env["LIVE_DEMO_MODE"] IN
  CASE value \in {Unset, "", "0", "false", "disabled"} -> "disabled"
    [] value \in {"1", "true", "local", "local_live"} -> "local_live"
    [] OTHER -> Unsupported

OwnershipMode(env) ==
  LET value == env["PROVIDER_RUNTIME_OWNERSHIP_MODE"] IN
  CASE value \in {Unset, "", "durable", "durable-json"} -> "durable_json_local_lease"
    [] value = "in-memory" -> "single_instance_in_memory"
    [] value \in {"postgres", "postgresql"} -> "postgresql_lease"
    [] OTHER -> Unsupported

OwnershipDatabase(env) == OrElse(env, "PROVIDER_RUNTIME_OWNERSHIP_DATABASE_URL", "POSTGRES_DATABASE_URL")

ProviderIsForProduction(env) ==
  /\ LiveMode(env) = "disabled"
  /\ Given(env, "RUNTIME_STATE_DIR") \/ Given(env, "PROVIDER_RUNTIME_STATE_DIR")
  /\ Given(env, "BAILEYS_AUTH_STATE_ENCRYPTION_KEY")
  /\ OwnershipMode(env) = "postgresql_lease"
  /\ Given(env, "PROVIDER_RUNTIME_OWNERSHIP_DATABASE_URL") \/ Given(env, "POSTGRES_DATABASE_URL")
  /\ Given(env, "PROVIDER_RUNTIME_OWNER_REF")
  /\ Given(env, "OUTBOUND_MESSAGE_INTENT_STORE_PATH")
  /\ IsTrue(env, "PROVIDER_COMMAND_BRIDGE_HTTP")
  /\ Given(env, "PROVIDER_COMMAND_BRIDGE_TOKEN")

ProviderComposes(env) ==
  /\ Unsupported \notin {ProviderProfile(env), LiveMode(env), OwnershipMode(env)}
  /\ ProviderProfile(env) = "production" => ProviderIsForProduction(env)
  /\ OwnershipMode(env) = "postgresql_lease" => OwnershipDatabase(env) \notin {Unset, ""}

StateDirectory(env) ==
  CASE Given(env, "PROVIDER_RUNTIME_STATE_DIR") -> env["PROVIDER_RUNTIME_STATE_DIR"]
    [] ~Given(env, "PROVIDER_RUNTIME_STATE_DIR") /\ Given(env, "RUNTIME_STATE_DIR") -> env["RUNTIME_STATE_DIR"]
    [] OTHER -> ".omniwa-local/state"

ProviderPlaces(env) ==
  [profile |-> ProviderProfile(env),
   intents |-> IF Given(env, "OUTBOUND_MESSAGE_INTENT_STORE_PATH")
               THEN File(env["OUTBOUND_MESSAGE_INTENT_STORE_PATH"]) ELSE Memory("provider"),
   events  |-> File(IF Given(env, "EVENT_LOG_PATH") THEN env["EVENT_LOG_PATH"] ELSE StateDirectory(env)),
   leases  |-> CASE OwnershipMode(env) = "single_instance_in_memory" -> Memory("provider")
                 [] OwnershipMode(env) = "durable_json_local_lease" -> File(StateDirectory(env))
                 [] OwnershipMode(env) = "postgresql_lease" -> Database(OwnershipDatabase(env)),
   \* without a token the server of the bridge is not started
   bridge  |-> /\ IsTrue(env, "PROVIDER_COMMAND_BRIDGE_HTTP")
               /\ Given(env, "PROVIDER_COMMAND_BRIDGE_TOKEN")]

-----------------------------------------------------------------------------
(* The webhook dispatcher and the background process. *)

DispatcherProfile(env) == Profile(OrElse(env, "WEBHOOK_DISPATCHER_RUNTIME_PROFILE", "NODE_ENV"))

DispatcherRepositoryProfile(env) == RepositoryProfile(env["WEBHOOK_DISPATCHER_REPOSITORY_PROFILE"])

DispatcherDirectory(env) ==
  OrElse(env, "WEBHOOK_DISPATCHER_REPOSITORY_STATE_DIR", "API_REPOSITORY_STATE_DIR")

(* The signing secret is named by one setting and held by another.           *)
SecretIsNamed(env) == Given(env, "WEBHOOK_SIGNING_SECRET_NAME")

DispatcherIsForProduction(env) ==
  /\ DispatcherRepositoryProfile(env) = "postgresql"
  /\ QueueProfile(env["WEBHOOK_DISPATCHER_QUEUE_PROFILE"]) = "durable-worker-job"
  /\ env["WEBHOOK_DISPATCHER_HTTP_GATEWAY"] = "fetch"
  /\ SecretIsNamed(env) /\ Given(env, env["WEBHOOK_SIGNING_SECRET_NAME"])
  /\ Given(env, "WEBHOOK_DISPATCHER_METRICS_JSONL_PATH")
  /\ Given(env, "WEBHOOK_DISPATCHER_AUDIT_JSONL_PATH")
  /\ env["WEBHOOK_DISPATCHER_METRICS_JSONL_PATH"] # env["WEBHOOK_DISPATCHER_AUDIT_JSONL_PATH"]

DispatcherComposes(env) ==
  /\ Unsupported \notin {DispatcherProfile(env), DispatcherRepositoryProfile(env),
                         QueueProfile(env["WEBHOOK_DISPATCHER_QUEUE_PROFILE"])}
  /\ env["WEBHOOK_DISPATCHER_HTTP_GATEWAY"] \in {Unset, "", "disabled", "fetch"}
  /\ DispatcherProfile(env) = "production" => DispatcherIsForProduction(env)
  /\ RepositoriesExist(env, DispatcherRepositoryProfile(env), DispatcherDirectory(env))
  /\ env["WEBHOOK_DISPATCHER_HTTP_GATEWAY"] = "fetch" => SecretIsNamed(env)

DispatcherPlaces(env) ==
  LET rows == Repositories(env, "dispatcher", DispatcherRepositoryProfile(env), DispatcherDirectory(env))
  IN [profile |-> DispatcherProfile(env),
      rows    |-> rows,
      jobs    |-> Jobs("dispatcher", QueueProfile(env["WEBHOOK_DISPATCHER_QUEUE_PROFILE"]), rows)]

BackgroundProfile(env) == Profile(OrElse(env, "BACKGROUND_RUNTIME_PROFILE", "NODE_ENV"))

BackgroundBackend(env) ==
  RepositoryProfile(OrElse(env, "BACKGROUND_EVENT_LOG_BACKEND", "EVENT_LOG_BACKEND"))

BackgroundIsForProduction(env) ==
  /\ BackgroundBackend(env) = "postgresql"
  /\ Given(env, "EVENT_OUTBOX_PUBLISHER_JSONL_PATH")
  /\ Given(env, "EVENT_OUTBOX_METRICS_JSONL_PATH")
  /\ env["EVENT_OUTBOX_PUBLISHER_JSONL_PATH"] # env["EVENT_OUTBOX_METRICS_JSONL_PATH"]

BackgroundComposes(env) ==
  /\ Unsupported \notin {BackgroundProfile(env), BackgroundBackend(env)}
  /\ BackgroundProfile(env) = "production" => BackgroundIsForProduction(env)
  /\ RepositoriesExist(env, BackgroundBackend(env), env["EVENT_LOG_PATH"])

BackgroundPlaces(env) ==
  [profile |-> BackgroundProfile(env),
   events  |-> Repositories(env, "background", BackgroundBackend(env), env["EVENT_LOG_PATH"])]

-----------------------------------------------------------------------------
(* The processes that start in an environment, and what they then share.     *)

SetUp(env) ==
  LET api == ApiPlaces(env)
      worker == WorkerPlaces(env)
      provider == ProviderPlaces(env)
      dispatcher == DispatcherPlaces(env)
      background == BackgroundPlaces(env)
      composes == [api |-> ApiComposes(env), worker |-> WorkerComposes(env),
                   provider |-> ProviderComposes(env), dispatcher |-> DispatcherComposes(env),
                   background |-> BackgroundComposes(env)]
      profiles == [api |-> ApiProfile(env), worker |-> WorkerProfile(env),
                   provider |-> ProviderProfile(env), dispatcher |-> DispatcherProfile(env),
                   background |-> BackgroundProfile(env)]
      up == {p \in DOMAIN composes : composes[p]}
      Readers(place) == {p \in up \cap {"worker", "provider"} :
                           place = IF p = "worker" THEN worker.intents ELSE provider.intents}
  IN [production |-> {p \in up : profiles[p] = "production"},
      \* those that keep the text intents in the file of the API
      intents |-> IF "api" \in up /\ api.intents.kind = "file"
                  THEN {"api"} \cup Readers(api.intents) ELSE {},
      \* those that read the queue and the rows of the API
      jobs    |-> {p \in up \cap {"api", "worker", "dispatcher"} :
                     p = "api" \/ /\ "api" \in up
                                  /\ <<api.rows, api.jobs>> =
                                       IF p = "worker" THEN <<worker.rows, worker.jobs>>
                                       ELSE <<dispatcher.rows, dispatcher.jobs>>},
      \* those that have the event log of the API
      events  |-> {p \in up \cap {"api", "background"} :
                     p = "api" \/ ("api" \in up /\ api.events = background.events)},
      \* where a message of the worker goes
      provider |-> IF "worker" \notin up \/ worker.provider = "none" THEN "none"
                   ELSE IF worker.provider = "own" THEN "own"
                   ELSE IF "provider" \in up /\ provider.bridge THEN "bridge" ELSE "none",
      up |-> up]
=============================================================================
