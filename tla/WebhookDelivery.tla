-------------------------- MODULE WebhookDelivery --------------------------
(***************************************************************************)
(* Webhook deliveries: the dispatchers that reserve a delivery's job, post *)
(* it to the receiver and write what came of it to two stores, and the     *)
(* commands that retry or redrive deliveries meanwhile.                    *)
(*                                                                         *)
(* The delivery (omniwa_webhook_deliveries) and its job (the worker-job    *)
(* queue) are written one after the other and have no transaction in       *)
(* common; a delivery is loaded, worked on and saved whole, whatever was   *)
(* saved meanwhile.  One action is one call that the code awaits.  A call  *)
(* of the queue is one action here: what interferes inside it is the       *)
(* matter of WorkerJobQueue.  The job of a delivery has the delivery's id. *)
(***************************************************************************)
EXTENDS Naturals, FiniteSets, Sequences

CONSTANTS
  Deliveries,     \* delivery ids
  Scheduled,      \* those that exist at first
  Keys,           \* idempotency keys of the commands' items
  Dispatchers,    \* webhook dispatcher processes
  Commands,       \* calls of the retry, redrive and bulk redrive handlers
  KindsOf,        \* the commands each call may be
  TargetsOf,      \* the deliveries each call names, in order
  KeyOf,          \* the key of each call's item
  RedriveOf,      \* the id `${delivery}:redrive:${key}`
  MaxAttempts,    \* retryPolicy.maxAttempts, of delivery and job alike
  MaxInterrupts,  \* bound: crashes and failed statements in a behaviour
  Timely,         \* whether a lease outlasts the work done under it
  NoDelivery, NoKey

Kinds == {"retry", "redrive", "bulk"}

ASSUME WebhookIds ==
  /\ NoDelivery \notin Deliveries /\ NoKey \notin Keys
  /\ KindsOf \in [Commands -> SUBSET Kinds]
  /\ TargetsOf \in [Commands -> [Kinds -> Seq(Deliveries) \ {<< >>}]]
  /\ KeyOf \in [Commands -> [Kinds -> [Deliveries -> Keys]]]
  /\ Scheduled \subseteq Deliveries
  /\ RedriveOf \in [Deliveries -> [Keys -> Deliveries \ Scheduled]]
ASSUME WebhookBounds == /\ MaxAttempts \in Nat \ {0} /\ MaxInterrupts \in Nat
                        /\ Timely \in BOOLEAN /\ IsFiniteSet(Dispatchers)

VARIABLES
  status, attempt,   \* the delivery aggregate in each row (attempt 0: undefined)
  deliveryKey,       \* column idempotency_key (UNIQUE)
  job, jobAttempt,   \* the worker job of each delivery
  jobKey,            \* its idempotency key
  pc,                \* next call of each dispatcher
  held, heldAttempt, \* its reservation
  copy,              \* the attempt of the aggregate it holds in memory
  result,            \* outcome of the WebhookDeliveryWorkResult
  kind,              \* the command of each call
  step, todo,        \* progress of each command and the items it has left
  chosen,            \* the delivery that the current item is queued for
  tally,             \* what became of the items so far
  interrupts,        \* crashes and failed statements so far
  enqueued,          \* history: how often a fresh job was saved
  posts,             \* history: requests made to the receiver
  raced              \* history: deliveries a command wrote over while in use

deliveries == <<status, attempt, deliveryKey>>
jobs       == <<job, jobAttempt, jobKey>>
crew       == <<pc, held, heldAttempt, copy, result>>
calls      == <<kind, step, todo, chosen, tally>>
history    == <<enqueued, posts, raced>>
vars == <<deliveries, jobs, crew, calls, interrupts, history>>

DeliveryStatuses == {"absent", "pending", "delivering", "retrying",
                     "delivered", "dead_letter"}
Decided  == {"delivered", "dead_letter"}
JobStates == {"absent", "queued", "reserved", "retrying", "completed", "dead"}
Settled  == {"completed", "dead"}
Outcomes == {"delivered", "retry", "dead_letter"}
DispatcherSteps == {"idle", "load", "start", "post", "persist", "settle"}
CommandSteps == {"intent", "load", "find", "save", "record", "enqueue",
                 "queued", "failed", "rejected", "lost"}

TypeOK ==
  /\ status  \in [Deliveries -> DeliveryStatuses]
  /\ attempt \in [Deliveries -> 0..MaxAttempts]
  /\ deliveryKey \in [Deliveries -> Keys \cup {NoKey}]
  /\ job        \in [Deliveries -> JobStates]
  /\ jobAttempt \in [Deliveries -> 0..MaxAttempts]
  /\ jobKey     \in [Deliveries -> Keys \cup {NoKey}]
  /\ pc   \in [Dispatchers -> DispatcherSteps]
  /\ held \in [Dispatchers -> Deliveries \cup {NoDelivery}]
  /\ heldAttempt \in [Dispatchers -> 0..MaxAttempts]
  /\ copy   \in [Dispatchers -> 0..MaxAttempts]
  /\ result \in [Dispatchers -> Outcomes]
  /\ kind   \in [Commands -> Kinds]
  /\ step   \in [Commands -> CommandSteps]
  /\ todo   \in [Commands -> Seq(Deliveries)]
  /\ chosen \in [Commands -> Deliveries \cup {NoDelivery}]
  /\ tally  \in [Commands -> SUBSET {"queued", "failed", "skipped"}]
  /\ interrupts \in 0..MaxInterrupts
  /\ enqueued \in [Deliveries -> Nat] /\ posts \in [Deliveries -> Nat]
  /\ raced \in SUBSET Deliveries
  \* a dispatcher at work holds a reservation, a command at work has an item
  /\ \A w \in Dispatchers : pc[w] # "idle" => /\ held[w] \in Deliveries
                                              /\ heldAttempt[w] > 0
  /\ \A c \in Commands :
        /\ step[c] \in {"load", "find", "save", "record", "enqueue"} => todo[c] # << >>
        /\ step[c] = "enqueue" => chosen[c] \in Deliveries

\* A delivery is scheduled, and its job queued, outside this code.
Init ==
  /\ status = [d \in Deliveries |-> IF d \in Scheduled THEN "pending" ELSE "absent"]
  /\ attempt = [d \in Deliveries |-> 0]
  /\ deliveryKey = [d \in Deliveries |-> NoKey]
  /\ job = [d \in Deliveries |-> IF d \in Scheduled THEN "queued" ELSE "absent"]
  /\ jobAttempt = [d \in Deliveries |-> 0] /\ jobKey = [d \in Deliveries |-> NoKey]
  /\ pc = [w \in Dispatchers |-> "idle"]
  /\ held = [w \in Dispatchers |-> NoDelivery]
  /\ heldAttempt = [w \in Dispatchers |-> 0] /\ copy = [w \in Dispatchers |-> 0]
  /\ result = [w \in Dispatchers |-> "retry"]
  /\ kind \in [Commands -> Kinds] /\ \A c \in Commands : kind[c] \in KindsOf[c]
  /\ step = [c \in Commands |-> IF kind[c] = "bulk" THEN "intent" ELSE "load"]
  /\ todo = [c \in Commands |-> TargetsOf[c][kind[c]]]
  /\ chosen = [c \in Commands |-> NoDelivery] /\ tally = [c \in Commands |-> {}]
  /\ interrupts = 0
  /\ enqueued = [d \in Deliveries |-> IF d \in Scheduled THEN 1 ELSE 0]
  /\ posts = [d \in Deliveries |-> 0] /\ raced = {}

-----------------------------------------------------------------------------
(* The queue, one call at a time.                                          *)

InHand(d) == \E w \in Dispatchers : pc[w] # "idle" /\ held[w] = d

SetJob(d, s, n) == job' = [job EXCEPT ![d] = s] /\ jobAttempt' = [jobAttempt EXCEPT ![d] = n]

\* Mutants: handing back costs no attempt; the last attempt is withheld.
HandBackUncounted(d, n) == SetJob(d, "retrying", n)
HandBackEarlyDeath(d, n) == IF n + 1 >= MaxAttempts THEN SetJob(d, "dead", n)
                                                    ELSE SetJob(d, "retrying", n + 1)

\* A job handed back after attempt n: it gets one more, or it is dead.
HandBack(d, n) == IF n + 1 > MaxAttempts THEN SetJob(d, "dead", n)
                                         ELSE SetJob(d, "retrying", n + 1)


\* A lease that ran out is found by the next reserve, or by the loop before it.
RecoverExpiredWorkerJobLeases(w, d) ==
  /\ pc[w] = "idle" /\ job[d] = "reserved"
  /\ Timely => ~InHand(d)
  /\ HandBack(d, jobAttempt[d])
  /\ UNCHANGED <<deliveries, jobKey, crew, calls, interrupts, history>>

\* Mutant: a job that was handed back is not looked for.
ReserveQueuedOnly(w, d) ==
  /\ pc[w] = "idle" /\ job[d] = "queued"
  /\ SetJob(d, "reserved", jobAttempt[d] + 1)
  /\ heldAttempt' = [heldAttempt EXCEPT ![w] = jobAttempt[d] + 1]
  /\ pc' = [pc EXCEPT ![w] = "load"] /\ held' = [held EXCEPT ![w] = d]
  /\ UNCHANGED <<deliveries, jobKey, copy, result, calls, interrupts, history>>

\* A retrying job is reserved some time after its delay.
Reserve(w, d) ==
  /\ pc[w] = "idle" /\ job[d] \in {"queued", "retrying"}
  /\ LET n == IF job[d] = "retrying" THEN jobAttempt[d] ELSE jobAttempt[d] + 1 IN
       /\ SetJob(d, "reserved", n)
       /\ heldAttempt' = [heldAttempt EXCEPT ![w] = n]
  /\ pc' = [pc EXCEPT ![w] = "load"] /\ held' = [held EXCEPT ![w] = d]
  /\ UNCHANGED <<deliveries, jobKey, copy, result, calls, interrupts, history>>

ActiveReservation(w) == /\ job[held[w]] = "reserved"
                        /\ jobAttempt[held[w]] = heldAttempt[w]

-----------------------------------------------------------------------------
(* A dispatcher: RepositoryWebhookDeliveryWorkHandler around the transport *)
(* handler, and WebhookDispatcherRuntime around both.                      *)

Goto(w, s) == pc' = [pc EXCEPT ![w] = s] /\ UNCHANGED <<held, heldAttempt>>

Returns(w, s, outcome) == /\ Goto(w, s)
                          /\ result' = [result EXCEPT ![w] = outcome]

LetGo(w) == /\ pc' = [pc EXCEPT ![w] = "idle"]
            /\ held' = [held EXCEPT ![w] = NoDelivery]
            /\ heldAttempt' = [heldAttempt EXCEPT ![w] = 0]
            /\ copy' = [copy EXCEPT ![w] = 0]
            /\ result' = [result EXCEPT ![w] = "retry"]

SetDelivery(d, s, n) == /\ status'  = [status EXCEPT ![d] = s]
                        /\ attempt' = [attempt EXCEPT ![d] = n]

\* Mutant: a delivery that was delivered is taken up again.
LoadAnew(w) ==
  /\ pc[w] = "load"
  /\ \/ /\ status[held[w]] \in {"absent", "dead_letter"}
        /\ Returns(w, "settle", "dead_letter") /\ UNCHANGED copy
     \/ /\ status[held[w]] \notin {"absent", "dead_letter"}
        /\ Goto(w, "start") /\ UNCHANGED result
        /\ copy' = [copy EXCEPT ![w] = heldAttempt[w]]
  /\ UNCHANGED <<deliveries, jobs, calls, interrupts, history>>

\* The delivery decides first: one that is decided is not posted again.  One
\* found delivering was left so, and keeps the attempt it was started with.
Load(w) ==
  /\ pc[w] = "load"
  /\ LET d == held[w] IN
       \/ /\ status[d] \in {"absent", "dead_letter"}
          /\ Returns(w, "settle", "dead_letter") /\ UNCHANGED copy
       \/ /\ status[d] = "delivered"
          /\ Returns(w, "settle", "delivered") /\ UNCHANGED copy
       \/ /\ status[d] \in {"pending", "retrying", "delivering"}
          /\ Goto(w, "start") /\ UNCHANGED result
          /\ copy' = [copy EXCEPT ![w] = IF status[d] = "delivering" THEN attempt[d]
                                         ELSE heldAttempt[w]]
  /\ UNCHANGED <<deliveries, jobs, calls, interrupts, history>>

Start(w) ==
  /\ pc[w] = "start" /\ Goto(w, "post")
  /\ SetDelivery(held[w], "delivering", copy[w])
  /\ UNCHANGED <<deliveryKey, jobs, copy, result, calls, interrupts, history>>

\* What the transport makes of an answer: 2xx; 408, 409, 425 and 429; 5xx; any
\* other status; none in time; no connection.
Verdict == [accepted |-> "delivered", busy |-> "retry", failing |-> "retry",
            refused |-> "dead_letter", timeout |-> "retry", unreachable |-> "retry"]

\* There is no active subscription, no signature, or no valid address to use.
Undeliverable(w) ==
  /\ pc[w] = "post" /\ Returns(w, "persist", "dead_letter")
  /\ UNCHANGED <<deliveries, jobs, copy, calls, interrupts, history>>

Post(w, answer) ==
  /\ pc[w] = "post" /\ Returns(w, "persist", Verdict[answer])
  /\ posts' = [posts EXCEPT ![held[w]] = @ + 1]
  /\ UNCHANGED <<deliveries, jobs, copy, calls, interrupts, enqueued, raced>>

\* The aggregate is saved as it was loaded, moved to its new status.
PersistWorkResult(w) ==
  /\ pc[w] = "persist"
  /\ \/ /\ result[w] \in Decided
        /\ SetDelivery(held[w], result[w], copy[w]) /\ Goto(w, "settle")
        /\ UNCHANGED result
     \/ /\ result[w] = "retry" /\ copy[w] + 1 > MaxAttempts
        /\ SetDelivery(held[w], "dead_letter", copy[w])
        /\ Returns(w, "settle", "dead_letter")
     \/ /\ result[w] = "retry" /\ copy[w] + 1 <= MaxAttempts
        /\ SetDelivery(held[w], "retrying", copy[w] + 1) /\ Goto(w, "settle")
        /\ UNCHANGED result
  /\ UNCHANGED <<deliveryKey, jobs, copy, calls, interrupts, history>>

\* acknowledge, releaseForRetry or moveToDeadLetter: a reservation that is no
\* longer the current one is refused, and the dispatcher leaves it at that.
ApplyWorkResult(w) ==
  /\ pc[w] = "settle" /\ LetGo(w)
  /\ LET d == held[w] IN
       \/ ~ActiveReservation(w) /\ UNCHANGED <<job, jobAttempt>>
       \/ /\ ActiveReservation(w)
          /\ CASE result[w] = "delivered"   -> SetJob(d, "completed", heldAttempt[w])
               [] result[w] = "dead_letter" -> SetJob(d, "dead", heldAttempt[w])
               [] result[w] = "retry"       -> HandBack(d, heldAttempt[w])
  /\ UNCHANGED <<deliveries, jobKey, calls, interrupts, history>>

DispatcherStep(w) ==
  \/ \E d \in Deliveries : RecoverExpiredWorkerJobLeases(w, d) \/ Reserve(w, d)
  \/ Load(w) \/ Start(w)
  \/ Undeliverable(w) \/ \E answer \in DOMAIN Verdict : Post(w, answer)
  \/ PersistWorkResult(w) \/ ApplyWorkResult(w)

-----------------------------------------------------------------------------
(* RetryWebhookDelivery, RedriveWebhookDelivery and the bulk redrive.      *)

Target(c)  == Head(todo[c])
ItemKey(c) == KeyOf[c][kind[c]][Target(c)]

Proceed(c, s) == step' = [step EXCEPT ![c] = s] /\ UNCHANGED <<kind, todo, tally>>

Outcome(results) == CASE "queued" \in results -> "queued"
                      [] "queued" \notin results /\ "failed" \in results -> "failed"
                      [] OTHER -> "rejected"

\* The item is done: go on to the next one, or answer the command.
Done(c, what) ==
  /\ UNCHANGED kind
  /\ todo' = [todo EXCEPT ![c] = Tail(@)]
  /\ tally' = [tally EXCEPT ![c] = @ \cup {what}]
  /\ step' = [step EXCEPT ![c] = IF Tail(todo[c]) # << >> THEN "load"
                                 ELSE Outcome(tally[c] \cup {what})]

\* A bulk command names an intent that the API stored; it may have expired.
ResolveIntent(c) ==
  /\ step[c] = "intent"
  /\ Proceed(c, "load") \/ Proceed(c, "failed")
  /\ UNCHANGED <<deliveries, jobs, crew, chosen, interrupts, history>>

IsDeliveryStateAllowed(c, d) ==
  IF kind[c] = "retry" THEN status[d] \in {"pending", "retrying"}
                         ELSE status[d] = "dead_letter"

LoadTarget(c) ==
  /\ step[c] = "load"
  /\ LET d == Target(c) IN
       \/ /\ status[d] = "absent" /\ UNCHANGED chosen
          /\ Done(c, IF kind[c] = "bulk" THEN "skipped" ELSE "failed")
       \/ /\ status[d] # "absent" /\ ~IsDeliveryStateAllowed(c, d) /\ UNCHANGED chosen
          /\ Done(c, "skipped")
       \/ /\ IsDeliveryStateAllowed(c, d)
          /\ chosen' = [chosen EXCEPT ![c] = d]
          /\ Proceed(c, IF kind[c] = "retry" THEN "enqueue" ELSE "find")
  /\ UNCHANGED <<deliveries, jobs, crew, interrupts, history>>

FindByIdempotencyKey(c) ==
  /\ step[c] = "find"
  /\ \/ \E d \in Deliveries : /\ deliveryKey[d] = ItemKey(c)
                              /\ chosen' = [chosen EXCEPT ![c] = d]
                              /\ Proceed(c, "enqueue")
     \/ /\ \A d \in Deliveries : deliveryKey[d] # ItemKey(c)
        /\ chosen' = [chosen EXCEPT ![c] = RedriveOf[Target(c)][ItemKey(c)]]
        /\ Proceed(c, "save")
  /\ UNCHANGED <<deliveries, jobs, crew, interrupts, history>>

\* An upsert: a repetition of the command saves the same id anew.
SaveRedrive(c) ==
  /\ step[c] = "save" /\ Proceed(c, "record")
  /\ SetDelivery(chosen[c], "pending", 0)
  /\ raced' = IF status[chosen[c]] = "absent" THEN raced ELSE raced \cup {chosen[c]}
  /\ UNCHANGED <<deliveryKey, jobs, crew, chosen, interrupts, enqueued, posts>>

\* The UNIQUE column refuses a key that another delivery has.
RecordIdempotencyKey(c) ==
  /\ step[c] = "record"
  /\ \/ /\ \A d \in Deliveries \ {chosen[c]} : deliveryKey[d] # ItemKey(c)
        /\ deliveryKey' = [deliveryKey EXCEPT ![chosen[c]] = ItemKey(c)]
        /\ Proceed(c, "enqueue")
     \/ /\ \E d \in Deliveries \ {chosen[c]} : deliveryKey[d] = ItemKey(c)
        /\ Proceed(c, "lost") /\ UNCHANGED deliveryKey
  /\ UNCHANGED <<status, attempt, jobs, crew, chosen, interrupts, history>>

\* The fresh job replaces whatever job the delivery has, held or not.
SaveFreshJob(d) ==
  /\ SetJob(d, "queued", 0)
  /\ enqueued' = [enqueued EXCEPT ![d] = @ + 1]
  /\ raced' = IF InHand(d) \/ status[d] \in Decided THEN raced \cup {d} ELSE raced

QueueWebhookDelivery(c) ==
  /\ step[c] = "enqueue" /\ Done(c, "queued")
  /\ LET d == chosen[c]
         k == ItemKey(c)
     IN \/ /\ \E e \in Deliveries : jobKey[e] = k
           /\ UNCHANGED <<jobs, enqueued, raced>>
        \/ /\ \A e \in Deliveries : jobKey[e] # k
           /\ SaveFreshJob(d) /\ jobKey' = [jobKey EXCEPT ![d] = k]
  /\ UNCHANGED <<deliveries, crew, chosen, interrupts, posts>>

CommandStep(c) == \/ ResolveIntent(c) \/ LoadTarget(c) \/ FindByIdempotencyKey(c)
                  \/ SaveRedrive(c) \/ RecordIdempotencyKey(c)
                  \/ QueueWebhookDelivery(c)

-----------------------------------------------------------------------------
(* Statements that fail, and processes that die.                           *)

Interrupted == interrupts < MaxInterrupts /\ interrupts' = interrupts + 1

\* A repository throws: the job is released with the default delay.
HandlerThrows(w) ==
  /\ pc[w] \in {"load", "start", "post", "persist"} /\ Interrupted
  /\ Returns(w, "settle", "retry")
  /\ UNCHANGED <<deliveries, jobs, copy, calls, history>>

\* The dispatcher dies, or the call that settles the job fails.
DispatcherInterrupted(w) ==
  /\ pc[w] # "idle" /\ Interrupted /\ LetGo(w)
  /\ UNCHANGED <<deliveries, jobs, calls, history>>

\* The job was saved, or not, and the call of enqueue failed.
EnqueueFails(c) ==
  /\ step[c] = "enqueue" /\ Interrupted /\ Done(c, "failed")
  /\ \/ UNCHANGED <<job, jobAttempt, enqueued, raced>>
     \/ SaveFreshJob(chosen[c])
  /\ UNCHANGED <<deliveries, jobKey, crew, chosen, posts>>

CommandInterrupted(c) ==
  /\ step[c] \in {"intent", "load", "find", "save", "record", "enqueue"}
  /\ Interrupted /\ Proceed(c, "lost")
  /\ UNCHANGED <<deliveries, jobs, crew, chosen, history>>

Next ==
  \/ \E w \in Dispatchers : DispatcherStep(w) \/ HandlerThrows(w)
                            \/ DispatcherInterrupted(w)
  \/ \E c \in Commands : CommandStep(c) \/ EnqueueFails(c) \/ CommandInterrupted(c)

Spec == Init /\ [][Next]_vars

(***************************************************************************)
(* The loops reschedule themselves and await every call; a request has a   *)
(* timeout.  Nothing is assumed of failures beyond the bound.              *)
(***************************************************************************)
Fairness == /\ \A w \in Dispatchers : WF_vars(DispatcherStep(w))
            /\ \A c \in Commands : WF_vars(CommandStep(c))
FairSpec == Spec /\ Fairness

-----------------------------------------------------------------------------
(* Properties.                                                             *)

\* INV-W-004: each fresh job, scheduled or queued by a command, buys at most
\* MaxAttempts requests, however dispatchers die, lose leases or overlap.
RetryBudget == \A d \in Deliveries : posts[d] <= MaxAttempts * enqueued[d]

\* The two stores agree at the end: a settled job has a decided delivery,
\* completed with delivered and dead with dead-lettered, unless a call failed
\* or a command wrote over a delivery or a job that was in use.
AtRest(d) == job[d] \in Settled /\ ~InHand(d)
SettledTogether ==
  \A d \in Deliveries :
     AtRest(d) /\ interrupts = 0 /\ d \notin raced
        => /\ job[d] = "completed" <=> status[d] = "delivered"
           /\ job[d] = "dead" <=> status[d] = "dead_letter"

\* A delivered delivery moves again only when a command raced with it, or a
\* lease lapsed under a dispatcher that had not finished.
DeliveredMovesOnlyRaced ==
  [][\A d \in Deliveries : status[d] = "delivered" /\ status'[d] # "delivered"
        => d \in raced' \/ ~Timely]_vars

\* Every job is settled for good in the end, and with it the delivery is
\* decided, unless a call failed or a command wrote over what was in use.
DeliveriesEnd ==
  \A d \in Deliveries :
     <>[](\/ job[d] = "absent"
          \/ /\ job[d] \in Settled
             /\ status[d] \in Decided \/ interrupts > 0 \/ d \in raced)
=============================================================================
