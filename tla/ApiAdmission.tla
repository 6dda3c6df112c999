---------------------------- MODULE ApiAdmission ----------------------------
(***************************************************************************)
(* Requests to the HTTP API: what each passes on its way to a handler, in  *)
(* the order of the code, and the API keys that are listed, provisioned,   *)
(* revoked and rotated by some of them.                                    *)
(*                                                                         *)
(* One action is what runs between two awaits.  Requests of one process    *)
(* overlap, a process may die, and every await is a place where another    *)
(* request comes in between: the limiter's counters are shared in Redis or *)
(* kept in each process, the keys in one file that is read anew for each   *)
(* request.  Only what refuses, records or decides is kept of a request.   *)
(***************************************************************************)
EXTENDS ApiCatalog, FiniteSets

CONSTANTS
  Requests,      \* HTTP requests
  Processes,     \* API processes
  Keys,          \* API key ids
  Secrets,       \* keys as clients present them (hashed at once)
  Instances,     \* instances that credentials may be bound to
  Refs,          \* ids that paths name
  Access,        \* the credential each key id stands for
  Workloads,     \* the requests of a behaviour, what the processes were composed with,
                 \* and the records the file of keys has at first
  Limit,         \* maxRequests in a window
  MaxWindow,     \* bound: windows of the limiter
  MaxFaults,     \* bound: crashes and failed calls in a behaviour
  NoKey, NoSecret, NoRef, NoInstance

Credential == [kind : CredentialKinds, scopes : SUBSET (DOMAIN NamesUnder \cup {"admin:*"}),
               bound : BOOLEAN, instances : SUBSET Instances]
Shape == [sent : BOOLEAN, proc : Processes, route : Routes, secret : Secrets \cup {NoSecret},
          valid : BOOLEAN,                       \* body and query pass validation
          keyed : BOOLEAN,                       \* it has an Idempotency-Key
          ref : Refs \cup {NoRef},               \* the id in its path
          prefixed : BOOLEAN,                    \* which begins with inst_
          owner : Instances \cup {NoInstance},   \* and belongs to this instance
          newKey : Keys \cup {NoKey}, newSecret : Secrets \cup {NoSecret}]
Deployment == [limiter : {"none", "memory", "redis"}, resolver : BOOLEAN,
               keys : BOOLEAN, stores : BOOLEAN]
KeyRecord == [status : {"absent", "active", "revoked"}, secret : Secrets \cup {NoSecret}]

ASSUME ApiIds ==
  /\ Keys \subseteq Refs /\ NoKey \notin Keys /\ NoSecret \notin Secrets
  /\ NoRef \notin Refs /\ NoInstance \notin Instances /\ "redis" \notin Processes
  /\ Access \in [Keys -> Credential]
  /\ \A w \in Workloads :
        /\ w.shape \in [Requests -> Shape] /\ w.deployment \in Deployment
        /\ w.keys \in [Keys -> KeyRecord] /\ \E k \in Keys : w.keys[k].status = "active"
        /\ \A r \in Requests :
             LET s == w.shape[r]
             IN /\ s.route.target # "none" => s.ref \in Refs
                /\ s.route.kind = "api_key_lifecycle" =>
                     /\ s.route.name \in {"revoke", "rotate"} => s.ref \in Keys
                     /\ s.route.name \in {"provision", "rotate"} =>
                          s.newKey \in Keys /\ s.newSecret \in Secrets
ASSUME ApiBounds == /\ Limit \in Nat \ {0} /\ MaxWindow \in Nat /\ MaxFaults \in Nat
                    /\ IsFiniteSet(Requests)

VARIABLES
  shape,       \* what each request is
  deployment,  \* what the processes were composed with
  pc,          \* where each request is
  cred,        \* the key it was authenticated by
  mark,        \* the window it computed before it asked for a token
  owned,       \* the instance it was found to be about
  loaded,      \* the secret of the record that a key call has read
  answer,      \* the status it was, or is to be, answered
  outcome,     \* what the handler said
  keys,        \* the file of API keys
  counts,      \* the limiter's buckets: window and count
  clock,       \* the current window
  up,          \* processes that run
  faults,      \* crashes and failed calls so far
  audited,     \* history: security events recorded for each request
  unrecorded,  \* history: requests with an event that could not be recorded
  spent,       \* history: the bucket and window each token was taken from
  forgotten,   \* history: buckets and windows of which counts were lost
  retired,     \* history: requests that saved a key as revoked
  registered   \* history: requests that saved a new key

composition == <<shape, deployment>>
request  == <<pc, cred, mark, owned, loaded, answer, outcome>>
limits   == <<counts, clock, spent, forgotten>>
records  == <<audited, unrecorded>>
registry == <<keys, retired, registered>>
vars == <<composition, request, limits, records, registry, up, faults>>

Steps == {"new", "owner", "bypass", "token", "intent", "dispatch", "handler", "replay",
          "audit", "key", "id", "secret", "retire", "save", "noted", "answered", "lost"}
Outcomes == {"none", "completed", "accepted", "rejected", "failed", "unavailable"}
Statuses == {0, 200, 201, 202, 400, 401, 403, 404, 409, 429, 500, 501, 503}
Events == {"authentication_denied", "authorization_denied", "rate_limit_denied",
           "admin_bypass", "admin_action"}
Stores == Processes \cup {"redis"}
Scopes == {"instance", "resource", "global"}
Classes == {"event_stream", "admin", "message_send", "read", "write"}
Buckets == Stores \X Keys \X Classes \X Scopes \X (Refs \cup Instances \cup {NoRef})
Windows == 0..MaxWindow
Counter == [window : Windows, count : 0..Limit]

TypeOK ==
  /\ shape \in [Requests -> Shape] /\ deployment \in Deployment
  /\ pc \in [Requests -> Steps]
  /\ cred \in [Requests -> Keys \cup {NoKey}]
  /\ mark \in [Requests -> Windows]
  /\ owned \in [Requests -> Instances \cup {NoInstance}]
  /\ loaded \in [Requests -> Secrets \cup {NoSecret}]
  /\ answer \in [Requests -> Statuses]
  /\ outcome \in [Requests -> Outcomes]
  /\ keys \in [Keys -> KeyRecord]
  /\ DOMAIN counts \subseteq Buckets /\ \A b \in DOMAIN counts : counts[b] \in Counter
  /\ clock \in Windows
  /\ up \in [Processes -> BOOLEAN]
  /\ faults \in 0..MaxFaults
  /\ audited \in [Requests -> SUBSET Events] /\ unrecorded \subseteq Requests
  /\ spent \in [Requests -> {<< >>} \cup (Buckets \X Windows)]
  /\ forgotten \subseteq Buckets \X Windows
  /\ retired \subseteq Requests /\ registered \subseteq Requests
  \* whoever is past the door has been let in by a key
  /\ \A r \in Requests :
        pc[r] \notin {"new", "audit", "answered", "lost"} => cred[r] \in Keys

Init ==
  /\ \E w \in Workloads :
        shape = w.shape /\ deployment = w.deployment /\ keys = w.keys
  /\ pc = [r \in Requests |-> "new"]
  /\ cred = [r \in Requests |-> NoKey]
  /\ mark = [r \in Requests |-> 0]
  /\ owned = [r \in Requests |-> NoInstance]
  /\ loaded = [r \in Requests |-> NoSecret]
  /\ answer = [r \in Requests |-> 0]
  /\ outcome = [r \in Requests |-> "none"]
  /\ counts = << >> /\ clock = 0
  /\ up = [p \in Processes |-> TRUE] /\ faults = 0
  /\ audited = [r \in Requests |-> {}] /\ unrecorded = {}
  /\ spent = [r \in Requests |-> << >>] /\ forgotten = {}
  /\ retired = {} /\ registered = {}

-----------------------------------------------------------------------------
(* Moves of a request.                                                     *)

Route(r) == shape[r].route
Holder(r) == Access[cred[r]]
IsAdmin(r) == "admin:*" \in Holder(r).scopes
At(r, step) == pc[r] = step /\ up[shape[r].proc]

Goto(r, step) == pc' = [pc EXCEPT ![r] = step] /\ UNCHANGED answer
Answer(r, code) == pc' = [pc EXCEPT ![r] = "answered"] /\ answer' = [answer EXCEPT ![r] = code]
\* A refusal is recorded before it is answered.
Refuse(r, code) == pc' = [pc EXCEPT ![r] = "audit"] /\ answer' = [answer EXCEPT ![r] = code]

\* The limiter's window is computed before its store is asked.
AskForToken(r) == Goto(r, "token") /\ mark' = [mark EXCEPT ![r] = clock]

-----------------------------------------------------------------------------
(* The way in: what a handler does before its first await.                 *)

Matching(secret) == {k \in Keys : keys[k].status = "active" /\ keys[k].secret = secret}

NoRoute(r) ==
  /\ At(r, "new") /\ Route(r) = NotFound /\ Answer(r, 404)
  /\ UNCHANGED <<composition, cred, mark, owned, loaded, outcome, limits, records,
                 registry, up, faults>>

Unauthenticated(r) ==
  /\ At(r, "new") /\ Route(r) # NotFound
  /\ Matching(shape[r].secret) = {}
  /\ Refuse(r, 401)
  /\ UNCHANGED <<composition, cred, mark, owned, loaded, outcome, limits, records,
                 registry, up, faults>>

Admit(r) ==
  /\ At(r, "new") /\ Route(r) # NotFound
  /\ \E k \in Matching(shape[r].secret) :
       /\ cred' = [cred EXCEPT ![r] = k]
       /\ \/ /\ \/ Route(r) = BadUrl
                \/ TakesInput(Route(r)) /\ ~shape[r].valid
             /\ Answer(r, 400) /\ UNCHANGED mark
          \/ Route(r).kind = "partial" /\ Answer(r, 501) /\ UNCHANGED mark
          \/ /\ TakesInput(Route(r)) => shape[r].valid
             /\ \/ Route(r).kind = "event_stream" /\ AskForToken(r)
                \/ /\ Route(r).kind = "api_key_lifecycle"
                   /\ IF "admin:*" \in Access[k].scopes
                      THEN AskForToken(r) ELSE Refuse(r, 403) /\ UNCHANGED mark
                \/ /\ Route(r) \in AdapterRoutes /\ Route(r).kind # "partial"
                   /\ Goto(r, "owner") /\ UNCHANGED mark
  /\ UNCHANGED <<composition, owned, loaded, outcome, limits, records, registry, up,
                 faults>>

-----------------------------------------------------------------------------
(* Whose resource it is: authorizeApiResourceOwnership.                    *)

IsBound(r) == Holder(r).bound /\ ~IsAdmin(r)

\* The instance that an id belongs to, as far as it can be told.
OwnerOf(r) ==
  IF shape[r].prefixed \/ Route(r).target \in OwnedTypes \ {"instance"}
  THEN shape[r].owner ELSE NoInstance

Resolve(r) ==
  /\ At(r, "owner")
  /\ \/ /\ Route(r).target = "none"
        /\ IF IsBound(r) /\ Route(r).name \in UnownedNames
           THEN Refuse(r, 403) /\ UNCHANGED mark ELSE AskForToken(r)
        /\ UNCHANGED owned
     \/ /\ Route(r).target # "none" /\ IsAdmin(r)
        /\ Goto(r, "bypass") /\ UNCHANGED <<mark, owned>>
     \/ /\ Route(r).target # "none" /\ ~IsAdmin(r)
        /\ ~IsBound(r) \/ (~shape[r].prefixed /\ ~deployment.resolver)
        /\ AskForToken(r) /\ UNCHANGED owned
     \/ /\ Route(r).target # "none" /\ IsBound(r)
        /\ shape[r].prefixed \/ deployment.resolver
        /\ IF OwnerOf(r) \in Holder(r).instances
           THEN AskForToken(r) /\ owned' = [owned EXCEPT ![r] = OwnerOf(r)]
           ELSE Refuse(r, 403) /\ UNCHANGED <<mark, owned>>
  /\ UNCHANGED <<composition, cred, loaded, outcome, limits, records, registry, up,
                 faults>>

\* A repository that fails leaves the owner unresolved.
ResolverFails(r) ==
  /\ At(r, "owner") /\ faults < MaxFaults /\ faults' = faults + 1
  /\ Route(r).target # "none" /\ IsBound(r) /\ ~shape[r].prefixed /\ deployment.resolver
  /\ Refuse(r, 403)
  /\ UNCHANGED <<composition, cred, mark, owned, loaded, outcome, limits, records,
                 registry, up>>

\* Security events are recorded if the sink takes them.
Record(r, event) ==
  \/ /\ audited' = [audited EXCEPT ![r] = @ \cup {event}]
     /\ UNCHANGED <<unrecorded, faults>>
  \/ /\ faults < MaxFaults /\ faults' = faults + 1
     /\ unrecorded' = unrecorded \cup {r} /\ UNCHANGED audited

RecordBypass(r) ==
  /\ At(r, "bypass") /\ Record(r, "admin_bypass") /\ AskForToken(r)
  /\ UNCHANGED <<composition, cred, owned, loaded, outcome, limits, registry, up>>

DenialEvent(code) == CASE code = 401 -> "authentication_denied"
                       [] code = 403 -> "authorization_denied"
                       [] code = 429 -> "rate_limit_denied"

\* Mutant: the answer is given without its record.
RecordDenialNever(r) ==
  /\ At(r, "audit")
  /\ pc' = [pc EXCEPT ![r] = "answered"]
  /\ UNCHANGED <<composition, cred, mark, owned, loaded, answer, outcome, limits, registry,
                 up, records, faults>>
RecordDenial(r) ==
  /\ At(r, "audit") /\ Record(r, DenialEvent(answer[r]))
  /\ pc' = [pc EXCEPT ![r] = "answered"]
  /\ UNCHANGED <<composition, cred, mark, owned, loaded, answer, outcome, limits, registry,
                 up>>

-----------------------------------------------------------------------------
(* The limiter: one bucket of tokens for each key, class of endpoint and   *)
(* scope, filled anew in every window.                                     *)

Bucket(r) ==
  LET store == IF deployment.limiter = "redis" THEN "redis" ELSE shape[r].proc
      class == EndpointClass(Route(r))
  IN CASE owned[r] # NoInstance -> <<store, cred[r], class, "instance", owned[r]>>
       [] owned[r] = NoInstance /\ Route(r).target # "none"
                                -> <<store, cred[r], class, "resource", shape[r].ref>>
       [] OTHER                 -> <<store, cred[r], class, "global", NoRef>>

\* In memory the window is computed and the token taken in one go.
Window(r) == IF deployment.limiter = "redis" THEN mark[r] ELSE clock

\* Mutant: what was counted is forgotten.
CountAnyWindow(b, w) == 0
Count(b, w) == IF b \in DOMAIN counts /\ counts[b].window = w THEN counts[b].count ELSE 0

SetCount(b, w, n) ==
  counts' = [c \in DOMAIN counts \cup {b} |->
               IF c = b THEN [window |-> w, count |-> n] ELSE counts[c]]

\* A token asked for in a window that has passed starts the bucket anew: what was
\* taken in that window and in those since is forgotten.
Forget(b, w) ==
  forgotten' = IF b \in DOMAIN counts /\ counts[b].window > w
               THEN forgotten \cup ({b} \X (w..counts[b].window)) ELSE forgotten

Proceed(r) ==
  \/ /\ Route(r).kind = "event_stream"
     /\ IF HasScope(Holder(r).scopes, "ListEvents") THEN Goto(r, "replay")
                                                    ELSE Refuse(r, 403)
  \/ /\ Route(r).kind = "api_key_lifecycle"
     /\ IF deployment.keys THEN Goto(r, "key") ELSE Answer(r, 501)
  \/ Route(r) \in AdapterRoutes /\ Goto(r, "intent")

TakeToken(r) ==
  /\ At(r, "token") /\ deployment.limiter # "none"
  /\ LET b == Bucket(r)  w == Window(r)  n == Count(b, w)
     IN /\ Forget(b, w)
        /\ \/ /\ n < Limit /\ SetCount(b, w, n + 1)
              /\ spent' = [spent EXCEPT ![r] = <<b, w>>] /\ Proceed(r)
           \/ n >= Limit /\ SetCount(b, w, n) /\ Refuse(r, 429) /\ UNCHANGED spent
  /\ UNCHANGED <<composition, cred, mark, owned, loaded, outcome, clock, records, registry,
                 up, faults>>

Unlimited(r) ==
  /\ At(r, "token") /\ deployment.limiter = "none" /\ Proceed(r)
  /\ UNCHANGED <<composition, cred, mark, owned, loaded, outcome, limits, records,
                 registry, up, faults>>

-----------------------------------------------------------------------------
(* Intents, the adapter's own checks, and the handler.                     *)

KeepsIntent(r) == Route(r).name \in GroupMutationCommands
                                   \cup {"SendTextMessage", "BulkRedriveWebhookDeliveries"}
MayMutateGroup(r) ==
  Route(r).name \in GroupMutationCommands =>
    Holder(r).scopes \cap {"admin:*", GroupScope(Route(r).name)} # {}

StoreIntent(r) ==
  /\ At(r, "intent")
  /\ \/ /\ \/ ~KeepsIntent(r)
           \/ Route(r).name = "SendTextMessage" /\ ~deployment.stores
        /\ Goto(r, "dispatch")
     \/ /\ KeepsIntent(r) /\ ~MayMutateGroup(r)
        /\ Answer(r, 403)
     \/ /\ KeepsIntent(r) /\ MayMutateGroup(r)
        /\ Route(r).name # "SendTextMessage" /\ ~deployment.stores
        /\ Answer(r, 503)
     \/ /\ KeepsIntent(r) /\ MayMutateGroup(r) /\ deployment.stores
        /\ Goto(r, "dispatch") \/ Answer(r, 400)
  /\ UNCHANGED <<composition, cred, mark, owned, loaded, outcome, limits, records,
                 registry, up, faults>>

StoreFails(r) ==
  /\ At(r, "intent") /\ faults < MaxFaults /\ faults' = faults + 1
  /\ KeepsIntent(r) /\ MayMutateGroup(r) /\ deployment.stores /\ Answer(r, 503)
  /\ UNCHANGED <<composition, cred, mark, owned, loaded, outcome, limits, records,
                 registry, up>>

IsOutside(r) == /\ Route(r).target = "instance" /\ shape[r].prefixed /\ Holder(r).bound
                /\ shape[r].owner \notin Holder(r).instances
IsPermitted(r) == /\ BoundaryAllows(Route(r))
                  /\ HasScope(Holder(r).scopes, Route(r).name)
                  /\ ~IsOutside(r)
LacksKey(r) == /\ Route(r).kind = "command" /\ Route(r).name \notin UnkeyedCommands
               /\ ~shape[r].keyed

Dispatch(r) ==
  /\ At(r, "dispatch")
  /\ LET known == Holder(r).kind \in KindsAllowedAt(Route(r).boundary)
     IN \/ ~known /\ Refuse(r, 401)
        \/ known /\ ~IsPermitted(r) /\ Refuse(r, 403)
        \/ known /\ IsPermitted(r) /\ LacksKey(r) /\ Answer(r, 400)
        \/ known /\ IsPermitted(r) /\ ~LacksKey(r) /\ Goto(r, "handler")
  /\ UNCHANGED <<composition, cred, mark, owned, loaded, outcome, limits, records,
                 registry, up, faults>>

StatusOf(r, o) ==
  CASE o = "accepted" \/ Route(r).name \in AsyncCommands -> 202
    [] o \in {"failed", "unavailable"} /\ Route(r).name \notin AsyncCommands -> 503
    [] OTHER -> 200

MayReturn(r) ==
  CASE ~IsHandled(Route(r)) -> {IF Route(r).kind = "command" THEN "failed"
                                                            ELSE "unavailable"}
    [] IsHandled(Route(r)) /\ Route(r).kind = "command"
                            -> {"completed", "accepted", "rejected", "failed"}
    [] OTHER                -> {"completed", "unavailable"}

HandlerReturns(r) ==
  /\ At(r, "handler")
  /\ \E o \in MayReturn(r) : /\ outcome' = [outcome EXCEPT ![r] = o]
                             /\ Answer(r, StatusOf(r, o))
  /\ UNCHANGED <<composition, cred, mark, owned, loaded, limits, records, registry, up,
                 faults>>

\* What a handler throws, the adapter answers for.
HandlerThrows(r) ==
  /\ At(r, "handler") /\ faults < MaxFaults /\ faults' = faults + 1
  /\ Answer(r, 500)
  /\ UNCHANGED <<composition, cred, mark, owned, loaded, outcome, limits, records,
                 registry, up>>

ReplayStream(r) ==
  /\ At(r, "replay") /\ Answer(r, 200)
  /\ UNCHANGED <<composition, cred, mark, owned, loaded, outcome, limits, records,
                 registry, up, faults>>

-----------------------------------------------------------------------------
(* API keys: ApiKeyLifecycleService, one access to the file at a time.     *)

Calls(r, action) == Route(r).kind = "api_key_lifecycle" /\ Route(r).name = action
FreeId(k) == keys[k].status = "absent"
FreeSecret(s) == \A k \in Keys : keys[k].status # "absent" => keys[k].secret # s

ListKeys(r) ==
  /\ At(r, "key") /\ Calls(r, "list") /\ Answer(r, 200)
  /\ UNCHANGED <<composition, cred, mark, owned, loaded, outcome, limits, records,
                 registry, up, faults>>

\* revoke and rotate read the record of the key first.
LoadKey(r) ==
  /\ At(r, "key") /\ (Calls(r, "revoke") \/ Calls(r, "rotate"))
  /\ LET record == keys[shape[r].ref]
     IN \/ record.status = "absent" /\ Answer(r, 404) /\ UNCHANGED loaded
        \/ /\ record.status = "revoked" /\ UNCHANGED loaded
           /\ IF Calls(r, "revoke") THEN Goto(r, "noted") ELSE Answer(r, 400)
        \/ /\ record.status = "active" /\ loaded' = [loaded EXCEPT ![r] = record.secret]
           /\ Goto(r, IF Calls(r, "revoke") THEN "retire" ELSE "id")
  /\ UNCHANGED <<composition, cred, mark, owned, outcome, limits, records, registry, up,
                 faults>>

\* assertKeyIdIsAvailable, of a new key or of a replacement
CheckId(r) ==
  /\ At(r, "id") \/ (At(r, "key") /\ Calls(r, "provision"))
  /\ IF FreeId(shape[r].newKey) THEN Goto(r, "secret") ELSE Answer(r, 409)
  /\ UNCHANGED <<composition, cred, mark, owned, loaded, outcome, limits, records,
                 registry, up, faults>>

CheckSecret(r) ==
  /\ At(r, "secret")
  /\ IF FreeSecret(shape[r].newSecret)
     THEN Goto(r, IF Calls(r, "rotate") THEN "retire" ELSE "save") ELSE Answer(r, 409)
  /\ UNCHANGED <<composition, cred, mark, owned, loaded, outcome, limits, records,
                 registry, up, faults>>

\* The record that was read is written back as revoked.
Retire(r) ==
  /\ At(r, "retire")
  /\ keys' = [keys EXCEPT ![shape[r].ref] = [status |-> "revoked", secret |-> loaded[r]]]
  /\ retired' = retired \cup {r}
  /\ Goto(r, IF Calls(r, "rotate") THEN "save" ELSE "noted")
  /\ UNCHANGED <<composition, cred, mark, owned, loaded, outcome, limits, records,
                 registered, up, faults>>

\* Mutant: the replacement is saved under the id of the key it replaces.
SaveKeyInPlace(r) ==
  /\ At(r, "save")
  /\ keys' = [keys EXCEPT ![IF Calls(r, "rotate") THEN shape[r].ref ELSE shape[r].newKey] =
                [status |-> "active", secret |-> shape[r].newSecret]]
  /\ registered' = registered \cup {r}
  /\ Goto(r, "noted")
  /\ UNCHANGED <<composition, cred, mark, owned, loaded, outcome, limits, records, retired,
                 up, faults>>
SaveKey(r) ==
  /\ At(r, "save")
  /\ keys' = [keys EXCEPT ![shape[r].newKey] =
                [status |-> "active", secret |-> shape[r].newSecret]]
  /\ registered' = registered \cup {r}
  /\ Goto(r, "noted")
  /\ UNCHANGED <<composition, cred, mark, owned, loaded, outcome, limits, records, retired,
                 up, faults>>

\* Whatever a write throws is answered as an invalid request.
SaveFails(r) ==
  /\ At(r, "retire") \/ At(r, "save")
  /\ faults < MaxFaults /\ faults' = faults + 1 /\ Answer(r, 400)
  /\ UNCHANGED <<composition, cred, mark, owned, loaded, outcome, limits, records,
                 registry, up>>

RecordAdminAction(r) ==
  /\ At(r, "noted") /\ Record(r, "admin_action")
  /\ Answer(r, IF Calls(r, "provision") THEN 201 ELSE 200)
  /\ UNCHANGED <<composition, cred, mark, owned, loaded, outcome, limits, registry, up>>

-----------------------------------------------------------------------------
(* Processes and time.                                                     *)

Die(p) ==
  /\ up' = [up EXCEPT ![p] = FALSE]
  /\ pc' = [r \in Requests |->
              IF shape[r].proc = p /\ pc[r] \notin {"new", "answered"}
              THEN "lost" ELSE pc[r]]
  \* counters kept in memory are gone
  /\ counts' = [b \in {c \in DOMAIN counts : c[1] # p} |-> counts[b]]
  /\ forgotten' = forgotten \cup
       {<<b, counts[b].window>> : b \in {c \in DOMAIN counts : c[1] = p}}
  /\ UNCHANGED <<composition, cred, mark, owned, loaded, answer, outcome, clock, spent,
                 records, registry>>

Crash(p) == up[p] /\ faults < MaxFaults /\ faults' = faults + 1 /\ Die(p)

\* Nothing catches what the limiter's store or the event source throws: the promise
\* of the request is rejected, and the process ends.
Rejected(r) ==
  /\ At(r, "replay") \/ (At(r, "token") /\ deployment.limiter = "redis")
  /\ faults < MaxFaults /\ faults' = faults + 1 /\ Die(shape[r].proc)

\* A process does not start without a key that could be used.
Restart(p) ==
  /\ ~up[p] /\ \E k \in Keys : keys[k].status = "active"
  /\ up' = [up EXCEPT ![p] = TRUE]
  /\ UNCHANGED <<composition, request, limits, records, registry, faults>>

NextWindow ==
  /\ deployment.limiter # "none" /\ clock < MaxWindow /\ clock' = clock + 1
  /\ UNCHANGED <<composition, request, counts, spent, forgotten, records, registry, up,
                 faults>>

-----------------------------------------------------------------------------
Enter(r) == shape[r].sent /\ (NoRoute(r) \/ Unauthenticated(r) \/ Admit(r))
Pass(r) == \/ Resolve(r) \/ RecordBypass(r) \/ RecordDenial(r) \/ TakeToken(r)
           \/ Unlimited(r) \/ StoreIntent(r) \/ Dispatch(r) \/ HandlerReturns(r)
           \/ ReplayStream(r)
KeyCall(r) == \/ ListKeys(r) \/ LoadKey(r) \/ CheckId(r) \/ CheckSecret(r) \/ Retire(r)
              \/ SaveKey(r) \/ RecordAdminAction(r)
CallFails(r) == \/ ResolverFails(r) \/ StoreFails(r) \/ HandlerThrows(r)
                \/ SaveFails(r) \/ Rejected(r)

Next == \/ \E r \in Requests : Enter(r) \/ Pass(r) \/ KeyCall(r) \/ CallFails(r)
        \/ \E p \in Processes : Crash(p) \/ Restart(p)
        \/ NextWindow

Spec == Init /\ [][Next]_vars

-----------------------------------------------------------------------------
(* Properties.                                                             *)

\* Who is refused for who they are or how much they ask is on record, unless the
\* record itself failed; so is every change of a key and every request that an
\* administrator's key makes past the ownership of a resource (http-server.ts:294,
\* 353, 398, 1712, 2584).  What the capability check of group mutations refuses
\* (1488) is not.
RefusedByCapability(r) ==
  cred[r] \in Keys /\ Route(r).name \in GroupMutationCommands /\ ~MayMutateGroup(r)
DenialsAudited ==
  \A r \in Requests :
    pc[r] = "answered" /\ r \notin unrecorded =>
      /\ answer[r] \in {401, 403, 429} /\ ~RefusedByCapability(r)
         => DenialEvent(answer[r]) \in audited[r]
      /\ r \in retired \cup registered /\ answer[r] # 400 => "admin_action" \in audited[r]
      /\ outcome[r] # "none" /\ IsAdmin(r) /\ Route(r).target # "none"
         => "admin_bypass" \in audited[r]

\* No bucket gives out more tokens in a window than its limit, whatever requests of
\* whatever processes ask for them, except in a window of which counts were lost: by
\* a process that kept them in memory, or to a request that computed its window
\* before the next one began (api-rate-limiter.ts:380, 540).
LimitPerWindow ==
  \A r \in Requests :
    spent[r] # << >> /\ spent[r] \notin forgotten =>
      Cardinality({q \in Requests : spent[q] = spent[r]}) <= Limit

\* A key that was revoked is never accepted again, unless two calls registered its id
\* at once: between the check of an id and the save of its record another call may
\* have saved and revoked it (api-key-lifecycle.ts:158-166).
Registering(k) == {r \in Requests : /\ Calls(r, "provision") \/ Calls(r, "rotate")
                                    /\ shape[r].newKey = k /\ pc[r] # "new"}
RevokedStaysRevoked ==
  [][\A k \in Keys : keys[k].status = "revoked" /\ keys'[k].status # "revoked"
       => Cardinality(Registering(k)) > 1]_vars

\* Someone can always use the API, unless a key was revoked on purpose, or a rotation
\* has saved the old key as revoked and not yet, or never, its replacement
\* (api-key-lifecycle.ts:260-261).
SomeKeyWorks ==
  \/ \E k \in Keys : keys[k].status = "active"
  \/ \E r \in retired : Calls(r, "revoke") \/ r \notin registered

\* Both: keys are taken away on purpose only, and for good.
KeysChangeOnPurpose == []SomeKeyWorks /\ RevokedStaysRevoked
=============================================================================
