----------------------- MODULE OutboundIntentsProofs -----------------------
(***************************************************************************)
(* Theorems about what the processes of a deployment read when they start: *)
(* their places, for every environment; the intents, for any messages,     *)
(* kills and refused writes; and the credentials, for any runtimes and     *)
(* sessions.                                                               *)
(***************************************************************************)
EXTENDS OutboundIntents, SessionCredentials, TLAPS

(***************************************************************************)
(* Part 1.  The environments.  What a process must be given to start in    *)
(* production decides where it keeps what it shares.                       *)
(***************************************************************************)

LEMMA ApiInProduction ==
  ASSUME NEW env, ApiComposes(env), ApiProfile(env) = "production"
  PROVE  /\ ApiPlaces(env).rows = Database(env["POSTGRES_DATABASE_URL"])
         /\ ApiPlaces(env).jobs = Database(env["POSTGRES_DATABASE_URL"])
         /\ ApiPlaces(env).events = Database(env["POSTGRES_DATABASE_URL"])
         /\ ApiPlaces(env).intents = File(env["OUTBOUND_MESSAGE_INTENT_STORE_PATH"])
<1>1. ApiIsForProduction(env)
  BY DEF ApiComposes
<1>2. RepositoryProfile(env["API_REPOSITORY_PROFILE"]) = "postgresql"
  BY <1>1 DEF ApiIsForProduction, RepositoryProfile, Unset
<1>3. Repositories(env, "api", "postgresql", env["API_REPOSITORY_STATE_DIR"])
        = Database(env["POSTGRES_DATABASE_URL"])
  BY DEF Repositories
<1>4. Intents(env, "api", "postgresql", env["API_REPOSITORY_STATE_DIR"])
        = File(env["OUTBOUND_MESSAGE_INTENT_STORE_PATH"])
  BY <1>1 DEF ApiIsForProduction, Intents
<1>5. QueueProfile(env["API_QUEUE_PROFILE"]) = "durable-worker-job" /\ ApiEventBackend(env) = "postgresql"
  BY <1>1 DEF ApiIsForProduction
<1> QED BY <1>2, <1>3, <1>4, <1>5 DEF ApiPlaces, Jobs

LEMMA WorkerInProduction ==
  ASSUME NEW env, WorkerComposes(env), WorkerProfile(env) = "production"
  PROVE  /\ WorkerPlaces(env).rows = Database(env["POSTGRES_DATABASE_URL"])
         /\ WorkerPlaces(env).jobs = Database(env["POSTGRES_DATABASE_URL"])
         /\ WorkerPlaces(env).intents = File(env["OUTBOUND_MESSAGE_INTENT_STORE_PATH"])
         /\ WorkerPlaces(env).provider = "bridge"
<1>1. WorkerIsForProduction(env)
  BY DEF WorkerComposes
<1>2. Repositories(env, "worker", "postgresql", WorkerDirectory(env))
        = Database(env["POSTGRES_DATABASE_URL"])
  BY DEF Repositories
<1>3. Intents(env, "worker", "postgresql", WorkerDirectory(env))
        = File(env["OUTBOUND_MESSAGE_INTENT_STORE_PATH"])
  BY <1>1 DEF WorkerIsForProduction, Intents
<1> QED BY <1>1, <1>2, <1>3 DEF WorkerIsForProduction, WorkerPlaces, Jobs

LEMMA ProviderInProduction ==
  ASSUME NEW env, ProviderComposes(env), ProviderProfile(env) = "production"
  PROVE  /\ ProviderPlaces(env).intents = File(env["OUTBOUND_MESSAGE_INTENT_STORE_PATH"])
         /\ ProviderPlaces(env).bridge
<1>1. ProviderIsForProduction(env)
  BY DEF ProviderComposes
<1> QED BY <1>1 DEF ProviderIsForProduction, ProviderPlaces

LEMMA DispatcherInProduction ==
  ASSUME NEW env, DispatcherComposes(env), DispatcherProfile(env) = "production"
  PROVE  /\ DispatcherPlaces(env).rows = Database(env["POSTGRES_DATABASE_URL"])
         /\ DispatcherPlaces(env).jobs = Database(env["POSTGRES_DATABASE_URL"])
<1>1. DispatcherIsForProduction(env)
  BY DEF DispatcherComposes
<1>2. Repositories(env, "dispatcher", "postgresql", DispatcherDirectory(env))
        = Database(env["POSTGRES_DATABASE_URL"])
  BY DEF Repositories
<1> QED BY <1>1, <1>2 DEF DispatcherIsForProduction, DispatcherPlaces, Jobs

LEMMA BackgroundInProduction ==
  ASSUME NEW env, BackgroundComposes(env), BackgroundProfile(env) = "production"
  PROVE  BackgroundPlaces(env).events = Database(env["POSTGRES_DATABASE_URL"])
<1>1. BackgroundIsForProduction(env)
  BY DEF BackgroundComposes
<1>2. Repositories(env, "background", "postgresql", env["EVENT_LOG_PATH"])
        = Database(env["POSTGRES_DATABASE_URL"])
  BY DEF Repositories
<1> QED BY <1>1, <1>2 DEF BackgroundIsForProduction, BackgroundPlaces

\* What SetUp makes of the processes that start in production.
LEMMA ProductionPlaces ==
  ASSUME NEW env, setUp = SetUp(env)
  PROVE  /\ ProductionShares
         /\ "api" \in setUp.production => "api" \in setUp.intents
<1> DEFINE Intended == File(env["OUTBOUND_MESSAGE_INTENT_STORE_PATH"])
           Rows == Database(env["POSTGRES_DATABASE_URL"])
<1>1. /\ "api" \in setUp.production => "api" \in setUp.up /\ ApiComposes(env) /\ ApiProfile(env) = "production"
      /\ "worker" \in setUp.production => "worker" \in setUp.up /\ WorkerComposes(env) /\ WorkerProfile(env) = "production"
      /\ "provider" \in setUp.production => "provider" \in setUp.up /\ ProviderComposes(env) /\ ProviderProfile(env) = "production"
      /\ "dispatcher" \in setUp.production => "dispatcher" \in setUp.up /\ DispatcherComposes(env) /\ DispatcherProfile(env) = "production"
      /\ "background" \in setUp.production => "background" \in setUp.up /\ BackgroundComposes(env) /\ BackgroundProfile(env) = "production"
  BY DEF SetUp
<1>2. Intended.kind = "file"
  BY DEF File, Place
<1>3. ASSUME "api" \in setUp.production
      PROVE  /\ "api" \in setUp.intents
             /\ "worker" \in setUp.production => "worker" \in setUp.intents /\ "worker" \in setUp.jobs
             /\ "provider" \in setUp.production => "provider" \in setUp.intents
             /\ "dispatcher" \in setUp.production => "dispatcher" \in setUp.jobs
             /\ "background" \in setUp.production => "background" \in setUp.events
  <2>1. /\ "api" \in setUp.up
        /\ ApiPlaces(env).rows = Rows /\ ApiPlaces(env).jobs = Rows
        /\ ApiPlaces(env).events = Rows /\ ApiPlaces(env).intents = Intended
    BY <1>1, <1>3, ApiInProduction
  <2>2. "api" \in setUp.intents
    BY <1>2, <2>1 DEF SetUp
  <2>3. ASSUME "worker" \in setUp.production
        PROVE  "worker" \in setUp.intents /\ "worker" \in setUp.jobs
    <3>1. /\ "worker" \in setUp.up /\ WorkerPlaces(env).rows = Rows
          /\ WorkerPlaces(env).jobs = Rows /\ WorkerPlaces(env).intents = Intended
      BY <1>1, <2>3, WorkerInProduction
    <3> QED BY <1>2, <2>1, <3>1 DEF SetUp
  <2>4. ASSUME "provider" \in setUp.production PROVE "provider" \in setUp.intents
    <3>1. "provider" \in setUp.up /\ ProviderPlaces(env).intents = Intended
      BY <1>1, <2>4, ProviderInProduction
    <3> QED BY <1>2, <2>1, <3>1 DEF SetUp
  <2>5. ASSUME "dispatcher" \in setUp.production PROVE "dispatcher" \in setUp.jobs
    <3>1. /\ "dispatcher" \in setUp.up /\ DispatcherPlaces(env).rows = Rows
          /\ DispatcherPlaces(env).jobs = Rows
      BY <1>1, <2>5, DispatcherInProduction
    <3> QED BY <2>1, <3>1 DEF SetUp
  <2>6. ASSUME "background" \in setUp.production PROVE "background" \in setUp.events
    <3>1. "background" \in setUp.up /\ BackgroundPlaces(env).events = Rows
      BY <1>1, <2>6, BackgroundInProduction
    <3> QED BY <2>1, <3>1 DEF SetUp
  <2> QED BY <2>2, <2>3, <2>4, <2>5, <2>6
<1>4. ASSUME {"worker", "provider"} \subseteq setUp.production PROVE setUp.provider = "bridge"
  <2>1. /\ "worker" \in setUp.up /\ WorkerPlaces(env).provider = "bridge"
        /\ "provider" \in setUp.up /\ ProviderPlaces(env).bridge
    BY <1>1, <1>4, WorkerInProduction, ProviderInProduction
  <2> QED BY <2>1 DEF SetUp
<1> QED BY <1>3, <1>4 DEF ProductionShares

LEMMA PlacesAreChosenOnce == Spec => [](\E env : setUp = SetUp(env))
<1>1. Init => \E env : setUp = SetUp(env)
  BY DEF Init
<1>2. [Next]_vars => UNCHANGED setUp
  BY DEF Next, vars, intentVars, Start, Stop, BeginWrite, Fill, WriteAnswered, WriteRejected,
         StoreIntent, SaveMessage, SaveRetry, BindIntent, Enqueue, VerifyIntent, SendItself,
         ResolveIntent, Look
<1>3. (\E env : setUp = SetUp(env)) /\ [Next]_vars => (\E env : setUp = SetUp(env))'
  BY <1>2
<1> QED BY <1>1, <1>3, PTL DEF Spec

(* In every environment, however many of its settings are not those of      *)
(* compose.production.yml: the processes that start in production agree on   *)
(* where rows, jobs, intents and events are                                  *)
(* (apps/worker/src/runtime-composition.ts:355-391 and its counterparts).    *)
THEOREM ProductionAgrees == Spec => []ProductionShares
<1>1. (\E env : setUp = SetUp(env)) => ProductionShares
  BY ProductionPlaces
<1> QED BY PlacesAreChosenOnce, <1>1, PTL

(***************************************************************************)
(* Part 2.  The credentials.                                               *)
(***************************************************************************)

Credentials == [pairing : Nat, revision : Nat]
Kept == Credentials \cup {NoCredentials}

CredentialTypes ==
  /\ file \in [Sessions -> Kept]
  /\ newest \in [Sessions -> Kept]
  /\ records \in [Runtimes -> [Sessions -> Kept]]
  /\ auth \in [Runtimes -> [Sessions -> Kept]]
  /\ former \in [Runtimes -> [Sessions -> Kept]]
  /\ socket \in [Runtimes -> [Sessions -> {"none", "loading", "open", "closed"}]]
  /\ running \subseteq Runtimes
  /\ updates \in Nat

(* An open socket has credentials; a runtime that is down has no socket, and *)
(* nothing of a former one to save.                                          *)
SocketsAreServed ==
  \A r \in Runtimes, s \in Sessions :
    /\ socket[r][s] = "open" => auth[r][s] \in Credentials
    /\ r \notin running => socket[r][s] = "none" /\ former[r][s] = NoCredentials

(* What a socket is about to work with is what was last saved.               *)
LoadedIsNewest ==
  \A s \in Sessions \ disturbed, r \in running :
    socket[r][s] = "loading" => auth[r][s] = newest[s]

CredentialInv == CredentialTypes /\ SocketsAreServed /\ LoadedIsNewest /\ CredentialsAreKept

LEMMA CredentialsInitially == CredentialInit => CredentialInv
  BY DEF CredentialInit, CredentialInv, CredentialTypes, Kept, SocketsAreServed, LoadedIsNewest,
         CredentialsAreKept

LEMMA UpdatedIsCredentials ==
  ASSUME NEW c \in Credentials, updates \in Nat
  PROVE  Updated(c) \in Credentials
  BY DEF Updated, Credentials

\* What a save or a clear leaves of the sessions that nothing has disturbed.
Persisted(r, s, c, late) ==
  /\ file' \in [Sessions -> Kept] /\ newest' \in [Sessions -> Kept]
  /\ records' \in [Runtimes -> [Sessions -> Kept]]
  /\ \A t \in Sessions \ disturbed' :
       /\ t \notin disturbed
       /\ newest'[t] = IF t = s THEN c ELSE newest[t]
       /\ t = s => ~late /\ running = {r}
       /\ file'[t] = newest'[t]
       /\ \A q \in running : records'[q][t] = newest'[t]

LEMMA PersistKeeps ==
  ASSUME CredentialInv, NEW r \in running, NEW s \in Sessions, NEW c \in Kept,
         NEW late \in BOOLEAN, Persist(r, s, c, late)
  PROVE  Persisted(r, s, c, late)
<1> DEFINE map == [records[r] EXCEPT ![s] = c]
<1>1. /\ records' = [records EXCEPT ![r] = map] /\ newest' = [newest EXCEPT ![s] = c]
      /\ \/ file' = map /\ disturbed' = disturbed \cup {t \in {s} : late \/ running # {r}}
         \/ file' = file /\ disturbed' = disturbed \cup {s}
  BY DEF Persist, DurableState
<1>2. CredentialTypes /\ r \in Runtimes /\ map \in [Sessions -> Kept]
  BY DEF CredentialInv, CredentialTypes
<1>3. \A t \in Sessions : map[t] = IF t = s THEN c ELSE records[r][t]
  BY <1>2 DEF CredentialTypes
<1>4. /\ file' \in [Sessions -> Kept] /\ newest' \in [Sessions -> Kept]
      /\ records' \in [Runtimes -> [Sessions -> Kept]]
  BY <1>1, <1>2 DEF CredentialTypes
<1> SUFFICES ASSUME NEW t \in Sessions \ disturbed'
             PROVE  /\ t \notin disturbed
                    /\ newest'[t] = IF t = s THEN c ELSE newest[t]
                    /\ t = s => ~late /\ running = {r}
                    /\ file'[t] = newest'[t]
                    /\ \A q \in running : records'[q][t] = newest'[t]
  BY <1>4 DEF Persisted
<1>5. t \notin disturbed /\ (t = s => ~late /\ running = {r} /\ file' = map)
  BY <1>1
<1>6. newest'[t] = IF t = s THEN c ELSE newest[t]
  BY <1>1, <1>2 DEF CredentialTypes
<1>7. file[t] = newest[t] /\ \A q \in running : records[q][t] = newest[t]
  BY <1>5 DEF CredentialInv, CredentialsAreKept
<1>8. file'[t] = newest'[t]
  BY <1>1, <1>3, <1>5, <1>6, <1>7
<1>9. \A q \in running : records'[q][t] = newest'[t]
  <2> SUFFICES ASSUME NEW q \in running PROVE records'[q][t] = newest'[t]
    OBVIOUS
  <2>1. records'[q] = IF q = r THEN map ELSE records[q]
    BY <1>1, <1>2 DEF CredentialTypes
  <2> QED BY <1>3, <1>5, <1>6, <1>7, <2>1
<1> QED BY <1>5, <1>6, <1>8, <1>9

LEMMA CredentialsKept == CredentialInv /\ [CredentialNext]_credentialVars => CredentialInv'
<1> SUFFICES ASSUME CredentialInv, [CredentialNext]_credentialVars PROVE CredentialInv'
  OBVIOUS
<1> USE DEF CredentialInv
<1>0. NoCredentials \notin Credentials /\ Fresh \in Credentials /\ Credentials \subseteq Kept
  BY NoCredentialsAreNone DEF Credentials, Fresh, Kept
<1>1. ASSUME NEW r \in Runtimes, ComposeStore(r) PROVE CredentialInv'
  <2> USE <1>1 DEF ComposeStore
  <2>1. CredentialTypes'
    BY DEF CredentialTypes
  <2>2. SocketsAreServed'
    BY DEF SocketsAreServed
  <2>3. \A s \in Sessions : socket[r][s] = "none"
    BY DEF SocketsAreServed
  <2>4. records'[r] = file /\ \A q \in running : records'[q] = records[q]
    BY DEF CredentialTypes
  <2>5. LoadedIsNewest' /\ CredentialsAreKept'
    BY <2>3, <2>4 DEF LoadedIsNewest, CredentialsAreKept
  <2> QED BY <2>1, <2>2, <2>5
<1>2. ASSUME NEW r \in Runtimes, EndRuntime(r) PROVE CredentialInv'
  <2> USE <1>2 DEF EndRuntime
  <2>1. CredentialTypes'
    BY DEF CredentialTypes, Kept
  <2>2. /\ \A s \in Sessions : socket'[r][s] = "none" /\ former'[r][s] = NoCredentials
        /\ \A q \in Runtimes : q # r =>
             /\ socket'[q] = socket[q] /\ auth'[q] = auth[q] /\ former'[q] = former[q]
             /\ records'[q] = records[q]
    BY DEF CredentialTypes
  <2>3. SocketsAreServed'
    BY <2>2 DEF SocketsAreServed
  <2>4. \A q \in running' : q \in running /\ q # r /\ q \in Runtimes
    BY DEF CredentialTypes
  <2>5. LoadedIsNewest' /\ CredentialsAreKept'
    BY <2>2, <2>4 DEF LoadedIsNewest, CredentialsAreKept
  <2> QED BY <2>1, <2>3, <2>5
<1>3. ASSUME NEW r \in Runtimes, NEW s \in Sessions, LoadAuthState(r, s) PROVE CredentialInv'
  <2> USE <1>3 DEF LoadAuthState
  <2>1. CredentialTypes'
    BY DEF CredentialTypes
  <2>2. \A q \in Runtimes, t \in Sessions :
          /\ socket'[q][t] = IF q = r /\ t = s THEN "loading" ELSE socket[q][t]
          /\ auth'[q][t] = IF q = r /\ t = s THEN records[r][s] ELSE auth[q][t]
    BY DEF CredentialTypes
  <2>3. SocketsAreServed'
    BY <2>2 DEF SocketsAreServed
  <2>4. LoadedIsNewest' /\ CredentialsAreKept'
    BY <2>2 DEF LoadedIsNewest, CredentialsAreKept, CredentialTypes
  <2> QED BY <2>1, <2>3, <2>4
<1>4. ASSUME NEW r \in Runtimes, NEW s \in Sessions, CreateSocket(r, s) PROVE CredentialInv'
  <2> USE <1>4 DEF CreateSocket
  <2>1. CredentialsFromSnapshot(auth[r][s]) \in Credentials
    BY <1>0 DEF CredentialsFromSnapshot, CredentialTypes, Kept
  <2>2. CredentialTypes'
    BY <1>0, <2>1 DEF CredentialTypes
  <2>3. \A q \in Runtimes, t \in Sessions :
          /\ socket'[q][t] = IF q = r /\ t = s THEN "open" ELSE socket[q][t]
          /\ auth'[q][t] = IF q = r /\ t = s THEN CredentialsFromSnapshot(auth[r][s]) ELSE auth[q][t]
    BY DEF CredentialTypes
  <2>4. SocketsAreServed'
    BY <2>1, <2>3 DEF SocketsAreServed
  <2>5. LoadedIsNewest' /\ CredentialsAreKept'
    BY <2>3 DEF LoadedIsNewest, CredentialsAreKept, CredentialTypes, CredentialsFromSnapshot
  <2> QED BY <2>2, <2>4, <2>5
<1>5. ASSUME NEW r \in Runtimes, NEW s \in Sessions, UpdateCredentials(r, s) PROVE CredentialInv'
  <2> DEFINE c == Updated(auth[r][s])
  <2> USE <1>5 DEF UpdateCredentials
  <2>1. c \in Credentials /\ r \in running
    BY UpdatedIsCredentials DEF SocketsAreServed, CredentialTypes
  <2>2. \A q \in Runtimes, t \in Sessions :
          auth'[q][t] = IF q = r /\ t = s THEN c ELSE auth[q][t]
    BY DEF CredentialTypes
  <2>3. Persisted(r, s, c, FALSE)
    <3>1. Persist(r, s, c, FALSE) /\ c \in Kept
      BY <1>0, <2>1, <2>2
    <3> QED BY <2>1, <3>1, PersistKeeps
  <2>10. auth' \in [Runtimes -> [Sessions -> Kept]]
    <3>1. auth' = [auth EXCEPT ![r][s] = c]
      OBVIOUS
    <3> HIDE DEF c
    <3> QED BY <1>0, <2>1, <3>1 DEF CredentialTypes
  <2> HIDE DEF c
  <2>4. CredentialTypes'
    BY <2>3, <2>10 DEF CredentialTypes, Persisted
  <2>5. SocketsAreServed'
    BY <2>1, <2>2 DEF SocketsAreServed
  <2>6. \A t \in Sessions \ disturbed' :
          /\ t \notin disturbed
          /\ newest'[t] = IF t = s THEN c ELSE newest[t]
          /\ t = s => running = {r}
          /\ file'[t] = newest'[t]
          /\ \A q \in running : records'[q][t] = newest'[t]
    BY <2>3 DEF Persisted
  <2>7. LoadedIsNewest'
    BY <2>2, <2>6 DEF LoadedIsNewest, CredentialTypes
  <2>8. CredentialsFromSnapshot(c) = c
    BY <1>0, <2>1 DEF CredentialsFromSnapshot
  <2>9. CredentialsAreKept'
    BY <2>2, <2>6, <2>8 DEF CredentialsAreKept, CredentialTypes
  <2> QED BY <2>4, <2>5, <2>7, <2>9
<1>6. ASSUME NEW r \in Runtimes, NEW s \in Sessions, LateUpdate(r, s) PROVE CredentialInv'
  <2> DEFINE c == Updated(former[r][s])
  <2> USE <1>6 DEF LateUpdate
  <2>1. c \in Credentials /\ r \in running
    BY UpdatedIsCredentials DEF SocketsAreServed, CredentialTypes, Kept
  <2>2. former'[r][s] = c
    BY DEF CredentialTypes
  <2>3. Persisted(r, s, c, TRUE)
    <3>1. Persist(r, s, c, TRUE) /\ c \in Kept
      BY <1>0, <2>1, <2>2
    <3> QED BY <2>1, <3>1, PersistKeeps
  <2>10. former' \in [Runtimes -> [Sessions -> Kept]]
    <3>1. former' = [former EXCEPT ![r][s] = c]
      OBVIOUS
    <3> HIDE DEF c
    <3> QED BY <1>0, <2>1, <3>1 DEF CredentialTypes
  <2> HIDE DEF c
  <2>4. CredentialTypes'
    BY <2>3, <2>10 DEF CredentialTypes, Persisted
  <2>5. SocketsAreServed'
    BY <2>1 DEF SocketsAreServed, CredentialTypes
  <2>6. \A t \in Sessions \ disturbed' :
          /\ t \notin disturbed /\ t # s
          /\ newest'[t] = newest[t]
          /\ file'[t] = newest'[t]
          /\ \A q \in running : records'[q][t] = newest'[t]
    BY <2>3 DEF Persisted
  <2>7. LoadedIsNewest' /\ CredentialsAreKept'
    BY <2>6 DEF LoadedIsNewest, CredentialsAreKept
  <2> QED BY <2>4, <2>5, <2>7
<1>7. ASSUME NEW r \in Runtimes, NEW s \in Sessions, LoggedOut(r, s) PROVE CredentialInv'
  <2> USE <1>7 DEF LoggedOut, Close
  <2>1. r \in running /\ Persisted(r, s, NoCredentials, FALSE)
    <3>1. r \in running /\ Persist(r, s, NoCredentials, FALSE) /\ NoCredentials \in Kept
      BY DEF SocketsAreServed, Kept
    <3> QED BY <3>1, PersistKeeps
  <2>2. \A q \in Runtimes, t \in Sessions :
          /\ socket'[q][t] = IF q = r /\ t = s THEN "closed" ELSE socket[q][t]
          /\ auth'[q][t] = IF q = r /\ t = s THEN NoCredentials ELSE auth[q][t]
          /\ former'[q][t] = IF q = r /\ t = s THEN auth[r][s] ELSE former[q][t]
    BY DEF CredentialTypes
  <2>3. CredentialTypes'
    BY <2>1 DEF CredentialTypes, Persisted, Kept
  <2>4. SocketsAreServed'
    BY <2>1, <2>2 DEF SocketsAreServed
  <2>5. \A t \in Sessions \ disturbed' :
          /\ t \notin disturbed
          /\ newest'[t] = IF t = s THEN NoCredentials ELSE newest[t]
          /\ t = s => running = {r}
          /\ file'[t] = newest'[t]
          /\ \A q \in running : records'[q][t] = newest'[t]
    BY <2>1 DEF Persisted
  <2>6. LoadedIsNewest' /\ CredentialsAreKept'
    BY <2>2, <2>5 DEF LoadedIsNewest, CredentialsAreKept, CredentialTypes
  <2> QED BY <2>3, <2>4, <2>6
<1>8. ASSUME NEW r \in Runtimes, NEW s \in Sessions, Disconnected(r, s) PROVE CredentialInv'
  <2> USE <1>8 DEF Disconnected, Close
  <2>1. \A q \in Runtimes, t \in Sessions :
          /\ socket'[q][t] = IF q = r /\ t = s THEN "closed" ELSE socket[q][t]
          /\ auth'[q][t] = IF q = r /\ t = s THEN NoCredentials ELSE auth[q][t]
          /\ former'[q][t] = IF q = r /\ t = s THEN auth[r][s] ELSE former[q][t]
    BY DEF CredentialTypes
  <2>2. CredentialTypes'
    BY DEF CredentialTypes, Kept
  <2>3. SocketsAreServed'
    BY <2>1 DEF SocketsAreServed
  <2>4. LoadedIsNewest' /\ CredentialsAreKept'
    BY <2>1 DEF LoadedIsNewest, CredentialsAreKept, CredentialTypes
  <2> QED BY <2>2, <2>3, <2>4
<1>9. ASSUME NEW r \in Runtimes, NEW s \in Sessions, StopClosed(r, s) PROVE CredentialInv'
  <2> USE <1>9 DEF StopClosed
  <2>1. \A q \in Runtimes, t \in Sessions :
          socket'[q][t] = IF q = r /\ t = s THEN "none" ELSE socket[q][t]
    BY DEF CredentialTypes
  <2>2. CredentialTypes'
    BY DEF CredentialTypes
  <2>3. SocketsAreServed' /\ LoadedIsNewest' /\ CredentialsAreKept'
    BY <2>1 DEF SocketsAreServed, LoadedIsNewest, CredentialsAreKept, CredentialTypes
  <2> QED BY <2>2, <2>3
<1>10. ASSUME NEW r \in Runtimes, NEW s \in Sessions, Unlink(r, s) PROVE CredentialInv'
  BY <1>10 DEF Unlink, CredentialTypes, SocketsAreServed, LoadedIsNewest, CredentialsAreKept
<1>11. CASE UNCHANGED credentialVars
  BY <1>11 DEF credentialVars, CredentialTypes, SocketsAreServed, LoadedIsNewest,
               CredentialsAreKept
<1> QED
  BY <1>1, <1>2, <1>3, <1>4, <1>5, <1>6, <1>7, <1>8, <1>9, <1>10, <1>11 DEF CredentialNext

(* For any number of runtimes and sessions, any restarts, updates, log-outs  *)
(* and refused writes: a session that nothing has disturbed is found again   *)
(* as it was last saved or cleared (baileys-auth-state-store.ts,             *)
(* baileys-socket-provider.ts:395-420).                                      *)
THEOREM CredentialsStay == CredentialSpec => []CredentialsAreKept
<1>1. CredentialInv => CredentialsAreKept
  BY DEF CredentialInv
<1> QED BY CredentialsInitially, CredentialsKept, <1>1, PTL DEF CredentialSpec

(***************************************************************************)
(* Part 3.  The intents.  When the API keeps them in a file it is the only *)
(* one to write it, so the file grows; a process that was started later    *)
(* than a message was queued has read its intent.                          *)
(***************************************************************************)

IsStore(intents) ==
  /\ DOMAIN intents \subseteq Intent
  /\ intents \in [DOMAIN intents -> SUBSET Message]

Includes(larger, smaller) ==
  \A i \in DOMAIN smaller : i \in DOMAIN larger /\ smaller[i] \subseteq larger[i]

IntentTypes ==
  /\ FileTypeOK
  /\ stage \in [Message -> Stages]
  /\ startedKnowing \in [Process -> SUBSET Message]

(* The API alone is ever in the middle of a write.                           *)
SoleWriter ==
  /\ \A p \in Process \ {"api"} : step[p] \in {"down", "idle"}
  /\ tmpAt # NoInode => tmpAt # fileAt
  /\ step["api"] = "fill" => /\ fd["api"] = tmpAt /\ tmpAt # NoInode
                             /\ content[tmpAt] = Torn
  /\ step["api"] = "rename" => tmpAt # NoInode /\ content[tmpAt] = memory["api"]
  /\ IsStore(FileState)
  /\ \A p \in Process : IsStore(memory[p])

MemoryHasFile == step["api"] # "down" => Includes(memory["api"], FileState)

(* A message that is bound, or further, is in the file; one that is being    *)
(* bound is in the memory of the API.                                        *)
BoundAreInFile ==
  \A m \in Message :
    stage[m] \in {"bound"} \cup Queued => IntentOf[m] \in FindByMessage(FileState, m)

BindingAreInMemory ==
  \A m \in Message :
    stage[m] = "binding" =>
      step["api"] # "down" /\ IntentOf[m] \in FindByMessage(memory["api"], m)

LaterReadersKnow ==
  \A p \in Process \ {"api"} : \A m \in startedKnowing[p] :
    step[p] = "idle" /\ {"api", p} \subseteq setUp.production => Has(memory[p], IntentOf[m])

FileOfIntents ==
  SoleWriter /\ MemoryHasFile /\ BoundAreInFile /\ BindingAreInMemory /\ LaterReadersKnow

PlacesAgree ==
  /\ "api" \in setUp.production => "api" \in setUp.intents
  /\ \A p \in {"worker", "provider"} :
       {"api", p} \subseteq setUp.production => p \in setUp.intents

IntentInv ==
  IntentTypes /\ PlacesAgree /\ ("api" \in setUp.intents => FileOfIntents)

LEMMA StoreIsWhole == \A intents : IsStore(intents) => intents # Torn
  BY IntentFile DEF IsStore

LEMMA EmptyIsStore == IsStore(EmptyState)
  BY IntentFile DEF IsStore, NoIntents

LEMMA IntentsInitially == Init => IntentInv
<1> SUFFICES ASSUME Init PROVE IntentInv
  OBVIOUS
<1>1. IntentTypes
  BY DEF Init, FileInit, IntentTypes, FileTypeOK, Steps, Stages
<1>2. PlacesAgree
  BY ProductionPlaces DEF Init, ProductionShares, PlacesAgree
<1>3. FileState = EmptyState
  BY DEF Init, FileInit, FileState
<1>4. SoleWriter
  BY <1>3, EmptyIsStore, IntentProcesses DEF Init, FileInit, SoleWriter
<1>5. MemoryHasFile /\ BoundAreInFile /\ BindingAreInMemory /\ LaterReadersKnow
  BY IntentProcesses DEF Init, FileInit, MemoryHasFile, BoundAreInFile, BindingAreInMemory,
                         LaterReadersKnow, Queued
<1> QED BY <1>1, <1>2, <1>4, <1>5 DEF IntentInv, FileOfIntents

LEMMA StoredIncludes ==
  ASSUME NEW intents, IsStore(intents), NEW i \in Intent
  PROVE  IsStore(Stored(intents, i)) /\ Includes(Stored(intents, i), intents)
  BY DEF IsStore, Stored, Includes, Has

LEMMA BoundIncludes ==
  ASSUME NEW intents, IsStore(intents), NEW i \in DOMAIN intents, NEW m \in Message
  PROVE  /\ IsStore(Bound(intents, i, m)) /\ Includes(Bound(intents, i, m), intents)
         /\ i \in FindByMessage(Bound(intents, i, m), m)
  BY DEF IsStore, Bound, Includes, FindByMessage

LEMMA IncludesFinds ==
  ASSUME NEW larger, NEW smaller, Includes(larger, smaller), NEW m, NEW i \in FindByMessage(smaller, m)
  PROVE  i \in FindByMessage(larger, m)
  BY DEF Includes, FindByMessage

\* A step that leaves the file and the processes alone, and binds nothing.
LEMMA StagesOnly ==
  ASSUME IntentInv, UNCHANGED <<fileVars, setUp, startedKnowing>>,
         stage' \in [Message -> Stages],
         \A m \in Message :
           /\ stage'[m] \in {"bound"} \cup Queued => stage[m] \in {"bound"} \cup Queued
           /\ stage'[m] = "binding" => stage[m] = "binding"
  PROVE  IntentInv'
<1>1. FileState' = FileState
  BY DEF FileState, fileVars
<1>2. IntentTypes' /\ PlacesAgree'
  BY DEF IntentInv, IntentTypes, FileTypeOK, fileVars, PlacesAgree
<1>3. ASSUME "api" \in setUp.intents PROVE FileOfIntents'
  <2>1. SoleWriter' /\ MemoryHasFile' /\ LaterReadersKnow'
    BY <1>1, <1>3 DEF IntentInv, FileOfIntents, fileVars, SoleWriter, MemoryHasFile, LaterReadersKnow
  <2>2. BoundAreInFile' /\ BindingAreInMemory'
    BY <1>1, <1>3 DEF IntentInv, FileOfIntents, fileVars, BoundAreInFile, BindingAreInMemory
  <2> QED BY <2>1, <2>2 DEF FileOfIntents
<1> QED BY <1>2, <1>3 DEF IntentInv

-----------------------------------------------------------------------------
(* One lemma per action. *)

LEMMA KeptByStart == ASSUME IntentInv, NEW p \in Process, Start(p) PROVE IntentInv'
<1> USE DEF IntentInv
<1>1. /\ step[p] = "down"
      /\ step' = [step EXCEPT ![p] = "idle"]
      /\ IF p \in setUp.intents THEN memory' = [memory EXCEPT ![p] = FileState]
                                ELSE memory' = memory
      /\ startedKnowing' = [startedKnowing EXCEPT ![p] = {m \in Message : stage[m] \in Queued}]
      /\ UNCHANGED <<content, fileAt, tmpAt, fd, overlapped, setUp, stage>>
  BY DEF Start, StartStore, StartInMemory
<1>2. FileState' = FileState
  BY <1>1 DEF FileState
<1>3. IntentTypes' /\ PlacesAgree'
  BY <1>1 DEF IntentTypes, FileTypeOK, Steps, PlacesAgree
<1>4. ASSUME "api" \in setUp.intents PROVE FileOfIntents'
  <2> USE <1>4 DEF FileOfIntents
  <2>1. \A q \in Process : /\ step'[q] = IF q = p THEN "idle" ELSE step[q]
                           /\ memory'[q] = IF q = p /\ p \in setUp.intents THEN FileState ELSE memory[q]
                           /\ startedKnowing'[q] = IF q = p THEN {m \in Message : stage[m] \in Queued}
                                                   ELSE startedKnowing[q]
    BY <1>1 DEF IntentTypes, FileTypeOK
  <2>2. SoleWriter'
    BY <1>1, <1>2, <2>1, IntentProcesses DEF SoleWriter
  <2>3. MemoryHasFile'
    <3>1. Includes(FileState, FileState)
      BY DEF Includes
    <3> QED BY <1>2, <2>1, <3>1, IntentProcesses DEF MemoryHasFile
  <2>4. BoundAreInFile'
    BY <1>1, <1>2 DEF BoundAreInFile
  <2>5. BindingAreInMemory'
    BY <1>1, <2>1, IntentProcesses DEF BindingAreInMemory
  <2>6. LaterReadersKnow'
    <3> SUFFICES ASSUME NEW q \in Process \ {"api"}, NEW m \in startedKnowing'[q],
                        step'[q] = "idle", {"api", q} \subseteq setUp.production
                 PROVE  Has(memory'[q], IntentOf[m])
      BY <1>1 DEF LaterReadersKnow
    <3>1. CASE q # p
      BY <2>1, <3>1 DEF LaterReadersKnow
    <3>2. CASE q = p
      <4>1. memory'[q] = FileState /\ m \in Message /\ stage[m] \in Queued
        BY <2>1, <3>2, IntentProcesses DEF PlacesAgree
      <4> QED BY <4>1 DEF BoundAreInFile, FindByMessage, Has
    <3> QED BY <3>1, <3>2
  <2> QED BY <2>2, <2>3, <2>4, <2>5, <2>6
<1> QED BY <1>1, <1>3, <1>4

LEMMA KeptByStop == ASSUME IntentInv, NEW p \in Process, Stop(p) PROVE IntentInv'
<1> USE DEF IntentInv
<1>1. /\ step' = [step EXCEPT ![p] = "down"]
      /\ memory' = [memory EXCEPT ![p] = EmptyState]
      /\ fd' = [fd EXCEPT ![p] = NoInode]
      /\ UNCHANGED <<content, fileAt, tmpAt, overlapped, setUp, startedKnowing>>
  BY DEF Stop, StopStore
<1>2. stage' \in [Message -> Stages]
  BY DEF Stop, IntentTypes, Stages
<1>3. \A m \in Message :
        /\ stage'[m] \in {"bound"} \cup Queued => stage[m] \in {"bound"} \cup Queued
        /\ stage'[m] = "binding" => stage[m] = "binding" /\ p # "api"
  BY DEF Stop, IntentTypes, InRequest, Queued
<1>4. FileState' = FileState
  BY <1>1 DEF FileState
<1>5. IntentTypes' /\ PlacesAgree'
  BY <1>1, <1>2 DEF IntentTypes, FileTypeOK, Steps, PlacesAgree
<1>6. ASSUME "api" \in setUp.intents PROVE FileOfIntents'
  <2> USE <1>6 DEF FileOfIntents
  <2>1. \A q \in Process : /\ step'[q] = IF q = p THEN "down" ELSE step[q]
                           /\ memory'[q] = IF q = p THEN EmptyState ELSE memory[q]
                           /\ fd'[q] = IF q = p THEN NoInode ELSE fd[q]
    BY <1>1 DEF IntentTypes, FileTypeOK
  <2>2. SoleWriter'
    BY <1>1, <1>4, <2>1, EmptyIsStore, IntentProcesses DEF SoleWriter
  <2>3. MemoryHasFile' /\ LaterReadersKnow'
    BY <1>1, <1>4, <2>1, IntentProcesses DEF MemoryHasFile, LaterReadersKnow
  <2>4. BoundAreInFile'
    BY <1>3, <1>4 DEF BoundAreInFile
  <2>5. BindingAreInMemory'
    BY <1>3, <2>1, IntentProcesses DEF BindingAreInMemory
  <2> QED BY <2>2, <2>3, <2>4, <2>5
<1> QED BY <1>1, <1>5, <1>6

\* StoreIntent and BindIntent: the API's state grows, and one message moves.
LEMMA KeptByPut ==
  ASSUME IntentInv, NEW intents, NEW m \in Message, NEW s \in {"storing", "binding"},
         Put(intents, m, s), UNCHANGED <<setUp, startedKnowing>>,
         IsStore(intents), Includes(intents, memory["api"]),
         s = "binding" => IntentOf[m] \in FindByMessage(intents, m)
  PROVE  IntentInv'
<1> USE DEF IntentInv
<1>1. /\ step["api"] = "idle"
      /\ memory' = [memory EXCEPT !["api"] = intents]
      /\ "api" \in setUp.intents => step' = [step EXCEPT !["api"] = "open"]
      /\ "api" \notin setUp.intents => step' = step
      /\ UNCHANGED <<content, fileAt, tmpAt, fd, overlapped>>
  BY DEF Put, ChangeState, ChangeInMemory
<1>2. \E t \in {"storing", "binding", "stored", "bound"} :
        /\ stage' = [stage EXCEPT ![m] = t]
        /\ "api" \in setUp.intents => t = s
  BY DEF Put, Move, Answer
<1>3. IntentTypes' /\ PlacesAgree'
  BY <1>1, <1>2, IntentProcesses DEF IntentTypes, FileTypeOK, Steps, Stages, InRequest, PlacesAgree
<1>4. FileState' = FileState
  BY <1>1 DEF FileState
<1>5. ASSUME "api" \in setUp.intents PROVE FileOfIntents'
  <2> USE <1>5 DEF FileOfIntents
  <2>1. \A q \in Process : /\ step'[q] = IF q = "api" THEN "open" ELSE step[q]
                           /\ memory'[q] = IF q = "api" THEN intents ELSE memory[q]
    BY <1>1 DEF IntentTypes, FileTypeOK
  <2>2. \A n \in Message : stage'[n] = IF n = m THEN s ELSE stage[n]
    BY <1>2 DEF IntentTypes
  <2>3. SoleWriter'
    BY <1>1, <1>4, <2>1, IntentProcesses DEF SoleWriter
  <2>4. MemoryHasFile'
    <3>1. Includes(memory["api"], FileState)
      BY <1>1 DEF MemoryHasFile
    <3>2. Includes(intents, FileState)
      BY <3>1 DEF Includes
    <3> QED BY <1>4, <2>1, <3>2, IntentProcesses DEF MemoryHasFile
  <2>5. BoundAreInFile'
    BY <1>4, <2>2 DEF BoundAreInFile, Queued
  <2>6. BindingAreInMemory'
    <3>1. \A n \in Message : IntentOf[n] \in FindByMessage(memory["api"], n)
                               => IntentOf[n] \in FindByMessage(intents, n)
      BY IncludesFinds
    <3> QED BY <2>1, <2>2, <3>1, IntentProcesses DEF BindingAreInMemory
  <2>7. LaterReadersKnow'
    BY <2>1 DEF LaterReadersKnow
  <2> QED BY <2>3, <2>4, <2>5, <2>6, <2>7
<1> QED BY <1>3, <1>5

\* BeginWrite, Fill and WriteRejected: the file is not touched.
LEMMA KeptBeforeRename ==
  ASSUME IntentInv, UNCHANGED <<fileAt, memory, setUp, startedKnowing>>, IntentTypes',
         NEW t \in {"idle", "fill", "rename"}, step["api"] # "down",
         step' = [step EXCEPT !["api"] = t],
         \A m \in Message :
           /\ stage'[m] \in {"bound"} \cup Queued => stage[m] \in {"bound"} \cup Queued
           /\ stage'[m] = "binding" => stage[m] = "binding",
         "api" \in setUp.intents =>
           /\ FileState' = FileState
           /\ tmpAt' # NoInode => tmpAt' # fileAt
           /\ t = "fill" => fd'["api"] = tmpAt' /\ tmpAt' # NoInode /\ content'[tmpAt'] = Torn
           /\ t = "rename" => tmpAt' # NoInode /\ content'[tmpAt'] = memory["api"]
  PROVE  IntentInv'
<1> USE DEF IntentInv
<1>1. PlacesAgree'
  BY DEF PlacesAgree
<1>2. ASSUME "api" \in setUp.intents PROVE FileOfIntents'
  <2> USE <1>2 DEF FileOfIntents
  <2>1. \A q \in Process : step'[q] = IF q = "api" THEN t ELSE step[q]
    BY DEF IntentTypes, FileTypeOK
  <2>2. SoleWriter'
    BY <2>1, IntentProcesses DEF SoleWriter
  <2>3. MemoryHasFile' /\ LaterReadersKnow'
    BY <2>1, IntentProcesses DEF MemoryHasFile, LaterReadersKnow
  <2>4. BoundAreInFile'
    BY DEF BoundAreInFile
  <2>5. BindingAreInMemory'
    BY <2>1, IntentProcesses DEF BindingAreInMemory
  <2> QED BY <2>2, <2>3, <2>4, <2>5
<1> QED BY <1>1, <1>2

LEMMA KeptByBeginWrite == ASSUME IntentInv, BeginWrite PROVE IntentInv'
<1>1. PICK i \in Inode :
        /\ IF tmpAt = NoInode THEN Unused(i) ELSE i = tmpAt
        /\ content' = [content EXCEPT ![i] = Torn]
        /\ tmpAt' = i
        /\ fd' = [fd EXCEPT !["api"] = i]
  BY DEF BeginWrite, OpenTemporary
<1>2. /\ step["api"] = "open"
      /\ step' = [step EXCEPT !["api"] = "fill"]
      /\ overlapped' = (overlapped \/ \E q \in Process \ {"api"} : Writing(q))
      /\ UNCHANGED <<fileAt, memory, setUp, stage, startedKnowing>>
  BY DEF BeginWrite, OpenTemporary, intentVars
<1>3. IntentTypes'
  BY <1>1, <1>2, IntentProcesses DEF IntentInv, IntentTypes, FileTypeOK, Steps
<1>4. ASSUME "api" \in setUp.intents
      PROVE  /\ FileState' = FileState /\ i # fileAt /\ i # NoInode
             /\ fd'["api"] = i /\ content'[i] = Torn
  <2>1. i # fileAt /\ i # NoInode
    BY <1>1, <1>4, NoInodeIsNone DEF Unused, IntentInv, FileOfIntents, SoleWriter
  <2> QED BY <1>1, <1>2, <2>1, IntentProcesses DEF IntentInv, IntentTypes, FileTypeOK, FileState
<1> QED BY <1>1, <1>2, <1>3, <1>4, KeptBeforeRename

LEMMA KeptByFill == ASSUME IntentInv, Fill PROVE IntentInv'
<1>1. PICK text \in Filled("api") : content' = [content EXCEPT ![fd["api"]] = text]
  BY DEF Fill, FillTemporary
<1>2. /\ step["api"] = "fill"
      /\ fd' = [fd EXCEPT !["api"] = NoInode]
      /\ step' = [step EXCEPT !["api"] = "rename"]
      /\ UNCHANGED <<fileAt, tmpAt, memory, overlapped, setUp, stage, startedKnowing>>
  BY DEF Fill, FillTemporary, intentVars
<1>3. IntentTypes'
  BY <1>1, <1>2, IntentProcesses DEF IntentInv, IntentTypes, FileTypeOK, Steps
<1>4. ASSUME "api" \in setUp.intents
      PROVE  /\ FileState' = FileState /\ tmpAt # fileAt /\ tmpAt # NoInode
             /\ content'[tmpAt] = memory["api"]
  <2>1. fd["api"] = tmpAt /\ tmpAt # NoInode /\ content[tmpAt] = Torn /\ tmpAt # fileAt
    BY <1>2, <1>4 DEF IntentInv, FileOfIntents, SoleWriter
  <2>2. text = memory["api"]
    BY <1>1, <2>1 DEF Filled
  <2> QED BY <1>1, <1>2, <2>1, <2>2 DEF IntentInv, IntentTypes, FileTypeOK, FileState
<1> QED BY <1>2, <1>3, <1>4, KeptBeforeRename

LEMMA KeptByWriteRejected == ASSUME IntentInv, WriteRejected PROVE IntentInv'
<1>1. /\ step["api"] \in {"open", "fill"}
      /\ step' = [step EXCEPT !["api"] = "idle"]
      /\ fd' = [fd EXCEPT !["api"] = NoInode]
      /\ \/ content' = content
         \/ step["api"] = "fill" /\ content' = [content EXCEPT ![fd["api"]] = Torn]
      /\ stage' = [m \in Message |-> Rejection(stage[m])]
      /\ UNCHANGED <<fileAt, tmpAt, memory, overlapped, setUp, startedKnowing>>
  BY DEF WriteRejected, WriteFails
<1>2. stage' \in [Message -> Stages]
  BY <1>1 DEF IntentInv, IntentTypes, Stages, Rejection
<1>3. \A m \in Message :
        /\ stage'[m] \in {"bound"} \cup Queued => stage[m] \in {"bound"} \cup Queued
        /\ stage'[m] = "binding" => stage[m] = "binding"
  BY <1>1 DEF Rejection, Queued
<1>4. IntentTypes'
  BY <1>1, <1>2, IntentProcesses DEF IntentInv, IntentTypes, FileTypeOK, Steps
<1>5. ASSUME "api" \in setUp.intents
      PROVE  FileState' = FileState /\ (tmpAt # NoInode => tmpAt # fileAt)
  <2>1. /\ step["api"] = "fill" => fd["api"] = tmpAt /\ tmpAt # NoInode
        /\ tmpAt # NoInode => tmpAt # fileAt
    BY <1>5 DEF IntentInv, FileOfIntents, SoleWriter
  <2> QED BY <1>1, <2>1 DEF IntentInv, IntentTypes, FileTypeOK, FileState
<1> QED BY <1>1, <1>3, <1>4, <1>5, KeptBeforeRename

LEMMA KeptByWriteAnswered == ASSUME IntentInv, WriteAnswered PROVE IntentInv'
<1> USE DEF IntentInv
<1>1. /\ step["api"] = "rename" /\ tmpAt # NoInode
      /\ fileAt' = tmpAt /\ tmpAt' = NoInode
      /\ step' = [step EXCEPT !["api"] = "idle"]
      /\ stage' = [m \in Message |-> Answer(stage[m])]
      /\ UNCHANGED <<content, memory, fd, overlapped, setUp, startedKnowing>>
  BY DEF WriteAnswered, RenameTemporary
<1>2. stage' \in [Message -> Stages]
  BY <1>1 DEF IntentTypes, Stages, InRequest, Answer
<1>3. \A m \in Message :
        /\ stage'[m] \in {"bound"} \cup Queued => stage[m] \in {"binding", "bound"} \cup Queued
        /\ stage'[m] # "binding"
  BY <1>1 DEF Answer, Queued
<1>4. IntentTypes' /\ PlacesAgree'
  BY <1>1, <1>2, IntentProcesses DEF IntentTypes, FileTypeOK, Steps, PlacesAgree
<1>5. ASSUME "api" \in setUp.intents PROVE FileOfIntents'
  <2> USE <1>5 DEF FileOfIntents
  <2>1. FileState' = memory["api"] /\ IsStore(memory["api"])
    BY <1>1, IntentProcesses DEF SoleWriter, FileState
  <2>2. \A q \in Process : step'[q] = IF q = "api" THEN "idle" ELSE step[q]
    BY <1>1 DEF IntentTypes, FileTypeOK
  <2>3. SoleWriter'
    BY <1>1, <2>1, <2>2, IntentProcesses DEF SoleWriter
  <2>4. MemoryHasFile'
    BY <1>1, <2>1 DEF MemoryHasFile, Includes
  <2>5. BoundAreInFile'
    <3>1. Includes(memory["api"], FileState)
      BY <1>1 DEF MemoryHasFile
    <3>2. \A m \in Message : IntentOf[m] \in FindByMessage(FileState, m)
                               => IntentOf[m] \in FindByMessage(memory["api"], m)
      BY <3>1, IncludesFinds
    <3> QED BY <1>3, <2>1, <3>2 DEF BoundAreInFile, BindingAreInMemory
  <2>6. BindingAreInMemory'
    BY <1>3 DEF BindingAreInMemory
  <2>7. LaterReadersKnow'
    BY <1>1, <2>2 DEF LaterReadersKnow
  <2> QED BY <2>3, <2>4, <2>5, <2>6, <2>7
<1> QED BY <1>1, <1>4, <1>5

\* A store in memory: nothing is promised, and the file stays as it is.
LEMMA KeptInMemory ==
  ASSUME IntentInv, "api" \notin setUp.intents, NEW intents, NEW m \in Message,
         NEW s \in {"storing", "binding"}, Put(intents, m, s),
         UNCHANGED <<setUp, startedKnowing>>
  PROVE  IntentInv'
<1>1. /\ memory' = [memory EXCEPT !["api"] = intents]
      /\ UNCHANGED <<content, fileAt, tmpAt, fd, step, overlapped>>
  BY DEF Put, ChangeInMemory
<1>2. \E t \in {"storing", "binding", "stored", "bound"} : stage' = [stage EXCEPT ![m] = t]
  BY DEF Put, Move, Answer
<1> QED
  BY <1>1, <1>2 DEF IntentInv, IntentTypes, FileTypeOK, Stages, InRequest, PlacesAgree

\* The steps that only move messages.
LEMMA KeptByMoves ==
  ASSUME IntentInv, NEW m \in Message,
         \/ SaveMessage(m)
         \/ SaveRetry(m)
         \/ Enqueue(m)
         \/ VerifyIntent(m)
         \/ SendItself(m)
         \/ ResolveIntent(m)
  PROVE  IntentInv'
<1>1. PICK t : /\ stage' = [stage EXCEPT ![m] = t]
               /\ UNCHANGED <<fileVars, setUp, startedKnowing>>
               /\ \/ t \in {"saved", "refused"}
                  \/ t \in Queued /\ stage[m] \in {"bound"} \cup Queued
  BY DEF SaveMessage, SaveRetry, Enqueue, VerifyIntent, SendItself, ResolveIntent, Look, Move, Queued
<1>2. t \in Stages /\ stage \in [Message -> Stages]
  BY <1>1 DEF Stages, InRequest, IntentInv, IntentTypes
<1>3. stage' \in [Message -> Stages] /\ \A n \in Message : stage'[n] = IF n = m THEN t ELSE stage[n]
  BY <1>1, <1>2
<1>4. t # "binding" /\ t # "bound" /\ "saved" \notin Queued /\ "refused" \notin Queued
  BY <1>1 DEF Queued
<1> QED BY <1>1, <1>3, <1>4, StagesOnly

LEMMA KeptByStoreIntent ==
  ASSUME IntentInv, NEW m \in Message, StoreIntent(m) PROVE IntentInv'
<1>1. CASE "api" \in setUp.intents
  <2>1. IsStore(memory["api"]) /\ IntentOf[m] \in Intent
    BY <1>1, IntentProcesses, IntentMessages DEF IntentInv, FileOfIntents, SoleWriter
  <2> QED BY <2>1, StoredIncludes, KeptByPut DEF StoreIntent
<1>2. CASE "api" \notin setUp.intents
  BY <1>2, KeptInMemory DEF StoreIntent
<1> QED BY <1>1, <1>2

LEMMA KeptByBindIntent ==
  ASSUME IntentInv, NEW m \in Message, BindIntent(m) PROVE IntentInv'
<1>1. CASE Has(memory["api"], IntentOf[m]) /\ "api" \in setUp.intents
  <2>1. IsStore(memory["api"]) /\ IntentOf[m] \in DOMAIN memory["api"]
    BY <1>1, IntentProcesses DEF IntentInv, FileOfIntents, SoleWriter, Has
  <2> QED BY <1>1, <2>1, BoundIncludes, KeptByPut DEF BindIntent
<1>2. CASE Has(memory["api"], IntentOf[m]) /\ "api" \notin setUp.intents
  BY <1>2, KeptInMemory DEF BindIntent
<1>3. CASE ~Has(memory["api"], IntentOf[m])
  <2>1. /\ UNCHANGED <<fileVars, setUp, startedKnowing>>
        /\ stage' = [stage EXCEPT ![m] = "failed"]
    BY <1>3 DEF BindIntent, Move
  <2>2. /\ stage' \in [Message -> Stages]
        /\ \A n \in Message : stage'[n] = IF n = m THEN "failed" ELSE stage[n]
    BY <2>1 DEF IntentInv, IntentTypes, Stages
  <2> QED BY <2>1, <2>2, StagesOnly DEF Queued
<1> QED BY <1>1, <1>2, <1>3

LEMMA IntentsKept == IntentInv /\ [Next]_vars => IntentInv'
<1> SUFFICES ASSUME IntentInv, [Next]_vars PROVE IntentInv'
  OBVIOUS
<1>1. ASSUME NEW p \in Process, Start(p) \/ Stop(p) PROVE IntentInv'
  BY <1>1, KeptByStart, KeptByStop
<1>2. ASSUME BeginWrite \/ Fill \/ WriteAnswered \/ WriteRejected PROVE IntentInv'
  BY <1>2, KeptByBeginWrite, KeptByFill, KeptByWriteAnswered, KeptByWriteRejected
<1>3. ASSUME NEW m \in Message, StoreIntent(m) \/ BindIntent(m) PROVE IntentInv'
  BY <1>3, KeptByStoreIntent, KeptByBindIntent
<1>4. CASE UNCHANGED vars
  BY <1>4, StagesOnly DEF vars, intentVars, IntentInv, IntentTypes
<1> QED BY <1>1, <1>2, <1>3, <1>4, KeptByMoves DEF Next

\* Where a lookup fails, the message was queued after the process started.
LEMMA LookupsFindWhatWasKnown ==
  ASSUME IntentInv, NEW q \in Process \ {"api"}, NEW n \in Message, NEW found, Look(q, n, found)
  PROVE  MissedOnlyByOlder
<1> SUFFICES ASSUME NEW p \in Process, NEW m \in Message,
                    [process |-> p, message |-> m] \in missed' \ missed,
                    m \in startedKnowing[p], {"api", p} \subseteq setUp.production
             PROVE  FALSE
  BY DEF MissedOnlyByOlder
<1>1. /\ step[q] = "idle" /\ ~Has(memory[q], IntentOf[n])
      /\ [process |-> p, message |-> m] = [process |-> q, message |-> n]
  BY DEF Look
<1>2. p = q /\ m = n
  BY <1>1
<1>3. LaterReadersKnow
  BY DEF IntentInv, PlacesAgree, FileOfIntents
<1> QED BY <1>1, <1>2, <1>3 DEF LaterReadersKnow

LEMMA MissesAreExcused == IntentInv /\ [Next]_vars => MissedOnlyByOlder
<1> SUFFICES ASSUME IntentInv, [Next]_vars PROVE MissedOnlyByOlder
  OBVIOUS
<1>1. ASSUME missed' = missed PROVE MissedOnlyByOlder
  BY <1>1 DEF MissedOnlyByOlder
<1>2. ASSUME NEW m \in Message, VerifyIntent(m) \/ ResolveIntent(m) PROVE MissedOnlyByOlder
  BY <1>2, LookupsFindWhatWasKnown, IntentProcesses DEF VerifyIntent, ResolveIntent
<1> QED
  BY <1>1, <1>2 DEF Next, vars, intentVars, Start, Stop, BeginWrite, Fill, WriteAnswered,
         WriteRejected, StoreIntent, SaveMessage, SaveRetry, BindIntent, Enqueue, SendItself

LEMMA InvHasQueued == IntentInv => QueuedIntentsAreKept
<1> SUFFICES ASSUME IntentInv, NEW m \in Message, stage[m] \in Queued, "api" \in setUp.intents
             PROVE  /\ Whole /\ IntentOf[m] \in FindByMessage(FileState, m)
                    /\ step["api"] = "idle" => IntentOf[m] \in FindByMessage(memory["api"], m)
  BY DEF QueuedIntentsAreKept
<1>1. IsStore(FileState) /\ MemoryHasFile /\ IntentOf[m] \in FindByMessage(FileState, m)
  BY DEF IntentInv, FileOfIntents, SoleWriter, BoundAreInFile
<1>2. Whole
  BY <1>1, StoreIsWhole DEF Whole
<1>3. step["api"] = "idle" => IntentOf[m] \in FindByMessage(memory["api"], m)
  BY <1>1, IncludesFinds DEF MemoryHasFile
<1> QED BY <1>1, <1>2, <1>3

(* In every environment, for any messages and retries, kills and refused     *)
(* writes: the intent of a queued message stays in the API's file, and in    *)
(* production only a process that started before the message was queued can   *)
(* miss it (outbound-message-intent-store.ts:92-120, 266-276).               *)
THEOREM IntentsStayFound == Spec => IntentsAreFound
<1>1. IntentInv' => QueuedIntentsAreKept'
  BY InvHasQueued, PTL
<1>2. IntentInv /\ IntentInv' /\ [Next]_vars => [QueuedIntentsAreKept' /\ MissedOnlyByOlder]_vars
  BY <1>1, MissesAreExcused
<1> QED BY IntentsInitially, IntentsKept, <1>2, PTL DEF Spec, IntentsAreFound
=============================================================================
