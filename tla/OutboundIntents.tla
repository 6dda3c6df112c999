-------------------------- MODULE OutboundIntents --------------------------
(***************************************************************************)
(* The outbound message intents (outbound-message-intent-store.ts): what to *)
(* send to whom, kept out of the database in one JSON file.  The API stores *)
(* an intent for every send request, binds messages to it and retries from  *)
(* it; the worker verifies it before it calls the provider, and the         *)
(* provider runtime resolves it to send.  In production the three processes *)
(* are given the same file (compose.production.yml:30,74,131), only the API *)
(* writes it, and each knows of it what it read when it started; in another *)
(* environment each may have the intents in a place of its own.             *)
(*                                                                         *)
(* A message's stage is the step its request or its job has reached; what   *)
(* the queue and the message table do is in WorkerJobQueue and              *)
(* OutboundMessage and is here one step each.                               *)
(***************************************************************************)
EXTENDS DurableJsonFile, RuntimeProfiles, Naturals

CONSTANTS
  Environments,           \* the environments the processes may be started in
  Message,                \* the messages of sends and retries
  Original,               \* the message a retry repeats, NoMessage for a send
  Intent,                 \* outboundIntentRef
  IntentOf,               \* the intent of each message
  NoMessage,
  MaxStops, MaxFailures   \* bounds: kills, and writes the file system refuses

ASSUME IntentProcesses == Process = {"api", "worker", "provider"}
ASSUME IntentMessages ==
  /\ NoMessage \notin Message
  /\ Original \in [Message -> Message \cup {NoMessage}]
  /\ IntentOf \in [Message -> Intent]
  /\ \A m \in Message : Original[m] # NoMessage => IntentOf[m] = IntentOf[Original[m]]
ASSUME IntentBounds == {MaxStops, MaxFailures} \subseteq Nat

VARIABLES setUp,      \* what the processes share in their environment
          stage,      \* how far each message is
          startedKnowing, \* history: the messages queued before each process started
          missed,     \* history: lookups that did not find a queued message's intent
          budget      \* the stops and failures still allowed

intentVars == <<setUp, stage, startedKnowing, missed, budget>>
vars == <<fileVars, intentVars>>

(* The stages of a request, in which a killed API leaves it for good, ...    *)
InRequest == {"storing", "stored", "saved", "binding", "bound"}
(* ... and those of a message whose job is in the queue.                     *)
Queued == {"queued", "processing", "sent", "missing"}
Stages == {"new", "refused", "failed", "dropped"} \cup InRequest \cup Queued

-----------------------------------------------------------------------------
(* The store: for each intent the messages bound to it.  No intent expires:  *)
(* no caller gives expiresAtEpochMilliseconds.                               *)

NoIntents == [i \in {} |-> {}]

\* What the file holds are intents, or it is not JSON at all.
ASSUME IntentFile ==
  /\ EmptyState = NoIntents
  /\ \A known \in SUBSET Intent : Torn \notin [known -> SUBSET Message]

Has(intents, i) == i \in DOMAIN intents

(* storeTextIntent: an intent that is stored again keeps its bindings.       *)
Stored(intents, i) ==
  [j \in DOMAIN intents \cup {i} |-> IF Has(intents, j) THEN intents[j] ELSE {}]

(* bindMessageIntent *)
Bound(intents, i, m) == [intents EXCEPT ![i] = @ \cup {m}]

(* findTextIntentByMessage *)
FindByMessage(intents, m) == {i \in DOMAIN intents : m \in intents[i]}

-----------------------------------------------------------------------------

TypeOK ==
  /\ FileTypeOK
  /\ setUp.up \subseteq {"api", "worker", "provider", "dispatcher", "background"}
  /\ setUp.intents \subseteq setUp.up /\ setUp.jobs \subseteq setUp.up
  /\ stage \in [Message -> Stages]
  /\ startedKnowing \in [Process -> SUBSET Message]
  /\ missed \subseteq [process : Process, message : Message]
  /\ budget \in [stops : 0 .. MaxStops, failures : 0 .. MaxFailures]

Init ==
  /\ FileInit
  /\ \E env \in Environments : setUp = SetUp(env)
  /\ stage = [m \in Message |-> "new"]
  /\ startedKnowing = [p \in Process |-> {}]
  /\ missed = {}
  /\ budget = [stops |-> MaxStops, failures |-> MaxFailures]

Move(m, s) == stage' = [stage EXCEPT ![m] = s]

(* A store in memory starts empty, and so does one whose file no process     *)
(* writes.                                                                   *)
Start(p) ==
  /\ p \in setUp.up
  /\ IF p \in setUp.intents THEN StartStore(p) ELSE StartInMemory(p)
  /\ startedKnowing' = [startedKnowing EXCEPT ![p] = {m \in Message : stage[m] \in Queued}]
  /\ UNCHANGED <<setUp, stage, missed, budget>>

(* A killed API drops the requests it was serving; the jobs wait.            *)
Stop(p) ==
  /\ budget.stops > 0
  /\ StopStore(p)
  /\ budget' = [budget EXCEPT !.stops = @ - 1]
  /\ stage' = IF p = "api"
              THEN [m \in Message |-> IF stage[m] \in InRequest THEN "dropped" ELSE stage[m]]
              ELSE stage
  /\ UNCHANGED <<setUp, startedKnowing, missed>>

-----------------------------------------------------------------------------
(* The API.  Only one write is under way at a time, and its message is the   *)
(* one whose stage says so.                                                  *)

(* What follows a write of the API: stored and bound when it is complete;    *)
(* a store in memory is changed at once.                                     *)
Answer(s) ==
  CASE s = "storing" -> "stored"
    [] s = "binding" -> "bound"
    [] OTHER -> s

Put(intents, m, s) ==
  IF "api" \in setUp.intents
  THEN ChangeState("api", intents) /\ Move(m, s)
  ELSE ChangeInMemory("api", intents) /\ Move(m, Answer(s))

(* POST of a text: the intent is stored before the command is dispatched.    *)
StoreIntent(m) ==
  /\ stage[m] = "new" /\ Original[m] = NoMessage
  /\ Put(Stored(memory["api"], IntentOf[m]), m, "storing")
  /\ UNCHANGED <<setUp, startedKnowing, missed, budget>>

(* SendTextMessage resolves the intent and saves the message.                *)
SaveMessage(m) ==
  /\ stage[m] = "stored" /\ step["api"] = "idle"
  /\ Move(m, IF Has(memory["api"], IntentOf[m]) THEN "saved" ELSE "refused")
  /\ UNCHANGED <<fileVars, setUp, startedKnowing, missed, budget>>

(* RetryMessageSend finds the intent of the message that failed, and saves   *)
(* a message of its own.                                                     *)
SaveRetry(m) ==
  /\ stage[m] = "new" /\ Original[m] # NoMessage /\ step["api"] = "idle"
  /\ stage[Original[m]] = "missing"
  /\ Move(m, IF FindByMessage(memory["api"], Original[m]) # {} THEN "saved" ELSE "refused")
  /\ UNCHANGED <<fileVars, setUp, startedKnowing, missed, budget>>

BindIntent(m) ==
  /\ stage[m] = "saved" /\ step["api"] = "idle"
  /\ IF Has(memory["api"], IntentOf[m])
     THEN Put(Bound(memory["api"], IntentOf[m], m), m, "binding")
     ELSE UNCHANGED fileVars /\ Move(m, "failed")
  /\ UNCHANGED <<setUp, startedKnowing, missed, budget>>

BeginWrite == OpenTemporary("api") /\ UNCHANGED intentVars

Fill == FillTemporary("api") /\ UNCHANGED intentVars

(* When a write fails the request is refused, a message that exists failed.  *)
Rejection(s) ==
  CASE s = "storing" -> "refused"
    [] s = "binding" -> "failed"
    [] OTHER -> s

WriteAnswered ==
  /\ RenameTemporary("api")
  /\ stage' = [m \in Message |-> Answer(stage[m])]
  /\ UNCHANGED <<setUp, startedKnowing, missed, budget>>

WriteRejected ==
  /\ budget.failures > 0
  /\ WriteFails("api")
  /\ budget' = [budget EXCEPT !.failures = @ - 1]
  /\ stage' = [m \in Message |-> Rejection(stage[m])]
  /\ UNCHANGED <<setUp, startedKnowing, missed>>

(* The job is enqueued and the message saved as queued, or neither.          *)
Enqueue(m) ==
  /\ stage[m] = "bound" /\ step["api"] = "idle"
  /\ Move(m, "queued")
  /\ UNCHANGED <<fileVars, setUp, startedKnowing, missed, budget>>

-----------------------------------------------------------------------------
(* The worker and the provider runtime.  An intent that is not found is a    *)
(* rejection that is not retryable: the message fails.                       *)

Look(p, m, found) ==
  /\ step[p] = "idle"
  /\ IF Has(memory[p], IntentOf[m])
     THEN Move(m, found) /\ UNCHANGED missed
     ELSE /\ Move(m, "missing")
          /\ missed' = missed \cup {[process |-> p, message |-> m]}
  /\ UNCHANGED <<fileVars, setUp, startedKnowing, budget>>

(* ProcessOutboundMessageWork: verifyTextIntent.                             *)
VerifyIntent(m) ==
  /\ "worker" \in setUp.jobs
  /\ stage[m] = "queued"
  /\ Look("worker", m, "processing")

(* A worker of the local demonstration sends by itself, without the text; a  *)
(* worker without a provider fails each attempt, and the message waits.      *)
SendItself(m) ==
  /\ setUp.provider = "own"
  /\ stage[m] = "processing" /\ step["worker"] = "idle"
  /\ Move(m, "sent")
  /\ UNCHANGED <<fileVars, setUp, startedKnowing, missed, budget>>

(* OutboundMessageIntentBaileysResolver: resolveTextIntent.                  *)
ResolveIntent(m) ==
  /\ setUp.provider = "bridge"
  /\ stage[m] = "processing"
  /\ Look("provider", m, "sent")

Next ==
  \/ \E p \in Process : Start(p) \/ Stop(p)
  \/ BeginWrite \/ Fill \/ WriteAnswered \/ WriteRejected
  \/ \E m \in Message :
       \/ StoreIntent(m) \/ SaveMessage(m) \/ SaveRetry(m) \/ BindIntent(m)
       \/ Enqueue(m) \/ VerifyIntent(m) \/ SendItself(m) \/ ResolveIntent(m)

Spec == Init /\ [][Next]_vars

-----------------------------------------------------------------------------
(* Properties. *)

(* When the API keeps its intents in a file, the intent of a message whose   *)
(* job is queued is in it, bound to the message, and every API process that  *)
(* serves requests knows it, through every kill and failed write: a retry    *)
(* finds it (send-text-message.handler.ts:165-180).                          *)
QueuedIntentsAreKept ==
  \A m \in Message : stage[m] \in Queued /\ "api" \in setUp.intents =>
    /\ Whole /\ IntentOf[m] \in FindByMessage(FileState, m)
    /\ step["api"] = "idle" => IntentOf[m] \in FindByMessage(memory["api"], m)

(* In production only a process that was started before the message was      *)
(* queued misses its intent: restarting it is the cure (the constructor at   *)
(* outbound-message-intent-store.ts:266-276 reads the file, nothing else     *)
(* does).                                                                    *)
MissedOnlyByOlder ==
  \A p \in Process, m \in Message :
    [process |-> p, message |-> m] \in missed' \ missed
      => \/ m \notin startedKnowing[p]
         \/ ~({"api", p} \subseteq setUp.production)

(* Both, of every step (at first there is no queued message): an intent is    *)
(* there for whoever may need it.                                            *)
IntentsAreFound == [][QueuedIntentsAreKept' /\ MissedOnlyByOlder]_vars

(* Whatever one or two settings of the production environment are changed    *)
(* to, the processes that still start in the production profile agree where  *)
(* the intents, the jobs, the rows and the event log are, and the worker     *)
(* reaches the provider runtime: each checks only its own settings           *)
(* (apps/worker/src/runtime-composition.ts:355-391 and its counterparts).    *)
ProductionShares ==
  LET Started(processes) == setUp.production \cap processes IN
  /\ "api" \in setUp.production =>
       /\ Started({"worker", "provider"}) \subseteq setUp.intents
       /\ Started({"worker", "dispatcher"}) \subseteq setUp.jobs
       /\ Started({"background"}) \subseteq setUp.events
  /\ Started({"worker", "provider"}) = {"worker", "provider"} => setUp.provider = "bridge"
=============================================================================
