------------------------- MODULE MCOutboundIntents -------------------------
(***************************************************************************)
(* What the processes of a deployment keep in files that each of them reads *)
(* when it starts, explored one at a time: the intents of two sends, the    *)
(* first with a retry, in the environment of compose.production.yml and in  *)
(* those that differ from it in two settings; and the credentials of two    *)
(* sessions, in a file that two provider runtimes were given.               *)
(***************************************************************************)
EXTENDS OutboundIntents, SessionCredentials, TLC

CONSTANTS send1, send2, retry1, intent1, intent2

MCOriginal == (send1 :> NoMessage) @@ (send2 :> NoMessage) @@ (retry1 :> send1)

MCIntentOf == (send1 :> intent1) @@ (send2 :> intent2) @@ (retry1 :> intent1)

Production ==
  [NODE_ENV |-> "production", API_RUNTIME_PROFILE |-> "production",
   WORKER_RUNTIME_PROFILE |-> "production", PROVIDER_RUNTIME_PROFILE |-> "production",
   WEBHOOK_DISPATCHER_RUNTIME_PROFILE |-> "production", BACKGROUND_RUNTIME_PROFILE |-> "production",
   API_REPOSITORY_PROFILE |-> "postgresql", WORKER_REPOSITORY_PROFILE |-> "postgresql",
   WEBHOOK_DISPATCHER_REPOSITORY_PROFILE |-> "postgresql",
   POSTGRES_DATABASE_URL |-> "db", API_KEY |-> Unset, API_KEY_HASH |-> "hash",
   API_KEY_LIFECYCLE_STORE_PATH |-> Unset, API_QUEUE_PROFILE |-> "durable-worker-job",
   WORKER_QUEUE_PROFILE |-> "durable-worker-job",
   WEBHOOK_DISPATCHER_QUEUE_PROFILE |-> "durable-worker-job",
   API_RATE_LIMIT_BACKEND |-> "redis", API_RATE_LIMIT_REDIS_URL |-> "redis",
   API_RATE_LIMIT_MAX_REQUESTS |-> "60", API_RATE_LIMIT_WINDOW_MS |-> "60000",
   API_SECURITY_AUDIT_RECORDS |-> "true", API_SECURITY_AUDIT_IN_MEMORY |-> Unset,
   API_SECURITY_AUDIT_LOG_PATH |-> Unset, API_RESOURCE_OWNERSHIP_REPOSITORY |-> "true",
   API_METRICS_JSONL_PATH |-> "api.jsonl", EVENT_LOG_BACKEND |-> "postgresql",
   EVENT_LOG_PATH |-> "events", OUTBOUND_MESSAGE_INTENT_STORE_PATH |-> "intents",
   PROVIDER_COMMAND_BRIDGE_URL |-> "provider", PROVIDER_COMMAND_BRIDGE_TOKEN |-> "token",
   WORKER_PROVIDER_MODE |-> "provider-runtime-bridge", LIVE_DEMO_MODE |-> "disabled",
   RUNTIME_STATE_DIR |-> "state", PROVIDER_RUNTIME_STATE_DIR |-> Unset,
   PROVIDER_RUNTIME_OWNER_REF |-> "primary", PROVIDER_RUNTIME_OWNERSHIP_MODE |-> "postgresql",
   PROVIDER_RUNTIME_OWNERSHIP_DATABASE_URL |-> "db", BAILEYS_AUTH_STATE_ENCRYPTION_KEY |-> "key",
   PROVIDER_COMMAND_BRIDGE_HTTP |-> "true", WEBHOOK_DISPATCHER_HTTP_GATEWAY |-> "fetch",
   WEBHOOK_SIGNING_SECRET_NAME |-> "WEBHOOK_SIGNING_SECRET", WEBHOOK_SIGNING_SECRET |-> "secret",
   WEBHOOK_DISPATCHER_METRICS_JSONL_PATH |-> "webhook.jsonl",
   WEBHOOK_DISPATCHER_AUDIT_JSONL_PATH |-> "audit.jsonl",
   BACKGROUND_EVENT_LOG_BACKEND |-> "postgresql",
   EVENT_OUTBOX_PUBLISHER_JSONL_PATH |-> "outbox.jsonl",
   EVENT_OUTBOX_METRICS_JSONL_PATH |-> "metrics.jsonl",
   API_REPOSITORY_STATE_DIR |-> "state", WORKER_REPOSITORY_STATE_DIR |-> Unset,
   WEBHOOK_DISPATCHER_REPOSITORY_STATE_DIR |-> Unset]

Settings == DOMAIN Production

(* What a setting may be changed to: nothing, the value that production      *)
(* refuses, or one nobody knows.                                             *)
Changes(name) ==
  {Unset, ""} \cup
       CASE name \in {"NODE_ENV", "API_RUNTIME_PROFILE", "WORKER_RUNTIME_PROFILE",
                      "PROVIDER_RUNTIME_PROFILE", "WEBHOOK_DISPATCHER_RUNTIME_PROFILE",
                      "BACKGROUND_RUNTIME_PROFILE"} -> {"local", "test", "mistyped"}
         [] name \in {"API_REPOSITORY_PROFILE", "WORKER_REPOSITORY_PROFILE", "EVENT_LOG_BACKEND",
                      "WEBHOOK_DISPATCHER_REPOSITORY_PROFILE", "BACKGROUND_EVENT_LOG_BACKEND"}
              -> {"durable-json", "in-memory", "mistyped"}
         [] name \in {"API_QUEUE_PROFILE", "WORKER_QUEUE_PROFILE", "API_RATE_LIMIT_BACKEND",
                      "WEBHOOK_DISPATCHER_QUEUE_PROFILE", "PROVIDER_RUNTIME_OWNERSHIP_MODE"}
              -> {"in-memory", "mistyped"}
         [] name \in {"POSTGRES_DATABASE_URL", "PROVIDER_RUNTIME_OWNERSHIP_DATABASE_URL"}
              -> {"otherdb", "localhost"}
         [] name = "WORKER_PROVIDER_MODE" -> {"local-demo", "multi-process-unsupported", "mistyped"}
         [] name = "LIVE_DEMO_MODE" -> {"local", "mistyped"}
         [] name \in {"API_SECURITY_AUDIT_IN_MEMORY"} -> {"true"}
         [] name = "WEBHOOK_DISPATCHER_HTTP_GATEWAY" -> {"disabled", "mistyped"}
         [] name = "WEBHOOK_DISPATCHER_AUDIT_JSONL_PATH" -> {"webhook.jsonl"}
         [] name = "EVENT_OUTBOX_METRICS_JSONL_PATH" -> {"outbox.jsonl"}
         [] OTHER -> {}

Changed(env) == UNION {{[env EXCEPT ![name] = value] : value \in Changes(name)} : name \in Settings}

\* In each scene only one of the two moves anything.
Interchangeable ==
  Permutations(Inode)
    \cup {f @@ g : f \in Permutations(Runtimes), g \in Permutations(Sessions)}

MCEnvironments == UNION {Changed(env) : env \in Changed(Production)}

VARIABLE scene

\* No move depends on the dispatcher and the background process: of the set-ups
\* that are one without them, one moves, and the others are looked at as they are.
SetUps == {SetUp(env) : env \in MCEnvironments}

Sharing(set) ==
  LET Movers == {"api", "worker", "provider"} IN
  [up |-> set.up \cap Movers, intents |-> set.intents, jobs |-> set.jobs \cap Movers,
   provider |-> set.provider, production |-> set.production \cap Movers]

Representatives ==
  {CHOOSE set \in SetUps : Sharing(set) = sharing : sharing \in {Sharing(set) : set \in SetUps}}

MCInit ==
  /\ Init /\ CredentialInit
  /\ scene \in {"places", "intents", "credentials"}
  /\ scene = "intents" => setUp \in Representatives
  /\ scene = "credentials" => setUp = SetUp(Production)

MCNext ==
  /\ UNCHANGED scene
  /\ \/ scene = "intents" /\ Next /\ UNCHANGED credentialVars
     \/ scene = "credentials" /\ CredentialNext /\ UNCHANGED vars

MCSpec == MCInit /\ [][MCNext]_<<scene, vars, credentialVars>>
=============================================================================
