----------------------- MODULE WebhookDeliveryProofs -----------------------
(***************************************************************************)
(* Theorems about webhook deliveries, for every set of deliveries, keys    *)
(* and commands, every finite set of dispatchers, every retry budget and   *)
(* every number of failures, with and without lapsing leases.              *)
(***************************************************************************)
EXTENDS WebhookDelivery, FiniteSetTheorems, TLAPS

(***************************************************************************)
(* Part 1.  Types.                                                         *)
(***************************************************************************)

DeliveryTypes == /\ status  \in [Deliveries -> DeliveryStatuses]
                 /\ attempt \in [Deliveries -> 0..MaxAttempts]
                 /\ deliveryKey \in [Deliveries -> Keys \cup {NoKey}]
JobTypes == /\ job        \in [Deliveries -> JobStates]
            /\ jobAttempt \in [Deliveries -> 0..MaxAttempts]
            /\ jobKey     \in [Deliveries -> Keys \cup {NoKey}]
CrewTypes == /\ pc   \in [Dispatchers -> DispatcherSteps]
             /\ held \in [Dispatchers -> Deliveries \cup {NoDelivery}]
             /\ heldAttempt \in [Dispatchers -> 0..MaxAttempts]
             /\ copy   \in [Dispatchers -> 0..MaxAttempts]
             /\ result \in [Dispatchers -> Outcomes]
             /\ \A w \in Dispatchers : pc[w] # "idle" => /\ held[w] \in Deliveries
                                                         /\ heldAttempt[w] > 0
CallTypes == /\ kind   \in [Commands -> Kinds]
             /\ step   \in [Commands -> CommandSteps]
             /\ todo   \in [Commands -> Seq(Deliveries)]
             /\ chosen \in [Commands -> Deliveries \cup {NoDelivery}]
             /\ tally  \in [Commands -> SUBSET {"queued", "failed", "skipped"}]
             /\ \A c \in Commands :
                   /\ step[c] \in {"intent", "load", "find", "save", "record", "enqueue"}
                      => todo[c] # << >>
                   /\ step[c] \in {"save", "record", "enqueue"} => chosen[c] \in Deliveries
SideTypes == /\ interrupts \in 0..MaxInterrupts
             /\ enqueued \in [Deliveries -> Nat] /\ posts \in [Deliveries -> Nat]
             /\ raced \in SUBSET Deliveries

Types == DeliveryTypes /\ JobTypes /\ CrewTypes /\ CallTypes /\ SideTypes

\* A job that waits to be retried has been tried: its attempt is granted.
Granted == \A d \in Deliveries : job[d] \in {"retrying", "reserved"} => jobAttempt[d] > 0
\* A queued job has not.
Fresh == \A d \in Deliveries : job[d] = "queued" => jobAttempt[d] = 0

TypeInv == Types /\ Granted /\ Fresh

LEMMA InitTypes == Init => TypeInv
<1> SUFFICES ASSUME Init PROVE TypeInv
  OBVIOUS
<1>1. DeliveryTypes /\ JobTypes /\ Granted /\ Fresh
  BY WebhookBounds
  DEF Init, DeliveryTypes, JobTypes, Granted, Fresh, DeliveryStatuses, JobStates
<1>2. CrewTypes
  BY WebhookBounds DEF Init, CrewTypes, DispatcherSteps, Outcomes
<1>3. kind \in [Commands -> Kinds]
  BY DEF Init
<1>4. \A c \in Commands : todo[c] \in Seq(Deliveries) /\ todo[c] # << >>
  BY <1>3, WebhookIds DEF Init
<1>5. CallTypes
  <2>1. todo \in [Commands -> Seq(Deliveries)]
    BY <1>4 DEF Init
  <2>2. step \in [Commands -> CommandSteps] /\ \A c \in Commands : step[c] \in {"intent", "load"}
    BY DEF Init, CommandSteps
  <2> QED BY <1>3, <1>4, <2>1, <2>2 DEF Init, CallTypes
<1>6. SideTypes
  BY WebhookBounds DEF Init, SideTypes
<1> QED BY <1>1, <1>2, <1>5, <1>6 DEF TypeInv, Types

\* What is not touched keeps its type.
LEMMA KeptTypes ==
  /\ UNCHANGED deliveries /\ DeliveryTypes => DeliveryTypes'
  /\ UNCHANGED jobs /\ JobTypes /\ Granted /\ Fresh => (JobTypes /\ Granted /\ Fresh)'
  /\ UNCHANGED crew /\ CrewTypes => CrewTypes'
  /\ UNCHANGED calls /\ CallTypes => CallTypes'
  /\ UNCHANGED <<interrupts, history>> /\ SideTypes => SideTypes'
<1>1. UNCHANGED deliveries /\ DeliveryTypes => DeliveryTypes'
  BY DEF deliveries, DeliveryTypes
<1>2. UNCHANGED jobs /\ JobTypes /\ Granted /\ Fresh => (JobTypes /\ Granted /\ Fresh)'
  BY DEF jobs, JobTypes, Granted, Fresh
<1>3. UNCHANGED crew /\ CrewTypes => CrewTypes'
  BY DEF crew, CrewTypes
<1>4. UNCHANGED calls /\ CallTypes => CallTypes'
  BY DEF calls, CallTypes
<1>5. UNCHANGED <<interrupts, history>> /\ SideTypes => SideTypes'
  BY DEF history, SideTypes
<1> QED BY <1>1, <1>2, <1>3, <1>4, <1>5

\* The two ways a delivery row and a job row are written.
LEMMA SetDeliveryTypes ==
  ASSUME DeliveryTypes, NEW d \in Deliveries, NEW s \in DeliveryStatuses,
         NEW n \in 0..MaxAttempts, SetDelivery(d, s, n), UNCHANGED deliveryKey
  PROVE  DeliveryTypes'
  BY DEF DeliveryTypes, SetDelivery

LEMMA SetJobTypes ==
  ASSUME JobTypes, Granted, Fresh, NEW d \in Deliveries, NEW s \in JobStates,
         NEW n \in 0..MaxAttempts, SetJob(d, s, n), UNCHANGED jobKey,
         s \in {"retrying", "reserved"} => n > 0, s = "queued" => n = 0
  PROVE  (JobTypes /\ Granted /\ Fresh)'
  BY DEF JobTypes, SetJob, Granted, Fresh

LEMMA HandBackTypes ==
  ASSUME JobTypes, Granted, Fresh, NEW d \in Deliveries, NEW n \in 0..MaxAttempts, n > 0,
         HandBack(d, n), UNCHANGED jobKey
  PROVE  (JobTypes /\ Granted /\ Fresh)'
<1>1. CASE n + 1 > MaxAttempts
  BY <1>1, SetJobTypes, WebhookBounds DEF HandBack, JobStates
<1>2. CASE ~(n + 1 > MaxAttempts)
  BY <1>2, SetJobTypes, WebhookBounds DEF HandBack, JobStates
<1> QED BY <1>1, <1>2

\* The dispatchers' steps.
LEMMA ReserveTypes ==
  ASSUME TypeInv, NEW w \in Dispatchers, NEW d \in Deliveries, Reserve(w, d)
  PROVE  TypeInv'
<1> DEFINE n == IF job[d] = "retrying" THEN jobAttempt[d] ELSE jobAttempt[d] + 1
<1>1. n \in 0..MaxAttempts /\ n > 0
  BY WebhookBounds DEF Reserve, TypeInv, Types, JobTypes, Granted, Fresh, JobStates
<1>2. (JobTypes /\ Granted /\ Fresh)'
  BY <1>1, SetJobTypes DEF Reserve, TypeInv, Types, JobStates
<1>3. CrewTypes'
  BY <1>1 DEF Reserve, TypeInv, Types, CrewTypes, DispatcherSteps
<1> QED BY <1>2, <1>3, KeptTypes DEF Reserve, TypeInv, Types

LEMMA RecoverTypes ==
  ASSUME TypeInv, NEW w \in Dispatchers, NEW d \in Deliveries,
         RecoverExpiredWorkerJobLeases(w, d)
  PROVE  TypeInv'
<1>1. (JobTypes /\ Granted /\ Fresh)'
  BY HandBackTypes DEF RecoverExpiredWorkerJobLeases, TypeInv, Types, JobTypes, Granted
<1> QED BY <1>1, KeptTypes DEF RecoverExpiredWorkerJobLeases, TypeInv, Types

LEMMA LoadTypes == ASSUME TypeInv, NEW w \in Dispatchers, Load(w) PROVE TypeInv'
<1>1. CrewTypes'
  BY DEF Load, Returns, Goto, TypeInv, Types, CrewTypes, DeliveryTypes,
         DispatcherSteps, Outcomes
<1> QED BY <1>1, KeptTypes DEF Load, TypeInv, Types

LEMMA StartTypes == ASSUME TypeInv, NEW w \in Dispatchers, Start(w) PROVE TypeInv'
<1>1. CrewTypes'
  BY DEF Start, Goto, TypeInv, Types, CrewTypes, DispatcherSteps
<1>2. DeliveryTypes'
  BY SetDeliveryTypes DEF Start, TypeInv, Types, CrewTypes, DeliveryStatuses
<1> QED BY <1>1, <1>2, KeptTypes DEF Start, TypeInv, Types

LEMMA PostTypes ==
  ASSUME TypeInv, NEW w \in Dispatchers,
         Undeliverable(w) \/ \E answer \in DOMAIN Verdict : Post(w, answer)
  PROVE  TypeInv'
<1>1. CASE Undeliverable(w)
  <2>1. CrewTypes'
    BY <1>1 DEF Undeliverable, Returns, Goto, TypeInv, Types, CrewTypes, DispatcherSteps, Outcomes
  <2> QED BY <1>1, <2>1, KeptTypes DEF Undeliverable, TypeInv, Types
<1>2. ASSUME NEW answer \in DOMAIN Verdict, Post(w, answer) PROVE TypeInv'
  <2>1. Verdict[answer] \in Outcomes
    BY DEF Verdict, Outcomes
  <2>2. CrewTypes'
    BY <1>2, <2>1 DEF Post, Returns, Goto, TypeInv, Types, CrewTypes, DispatcherSteps
  <2>3. SideTypes'
    BY <1>2 DEF Post, TypeInv, Types, SideTypes, CrewTypes
  <2> QED BY <1>2, <2>2, <2>3, KeptTypes DEF Post, TypeInv, Types
<1> QED BY <1>1, <1>2

LEMMA PersistTypes == ASSUME TypeInv, NEW w \in Dispatchers, PersistWorkResult(w) PROVE TypeInv'
<1>1. CrewTypes'
  BY DEF PersistWorkResult, Returns, Goto, TypeInv, Types, CrewTypes, DispatcherSteps, Outcomes
<1>2. held[w] \in Deliveries /\ copy[w] \in 0..MaxAttempts
  BY DEF PersistWorkResult, TypeInv, Types, CrewTypes
<1>3. DeliveryTypes'
  <2>1. CASE result[w] \in Decided
    BY <2>1, <1>2, SetDeliveryTypes
    DEF PersistWorkResult, TypeInv, Types, DeliveryStatuses, Decided
  <2>2. CASE result[w] = "retry" /\ copy[w] + 1 > MaxAttempts
    BY <2>2, <1>2, SetDeliveryTypes
    DEF PersistWorkResult, TypeInv, Types, DeliveryStatuses, Decided
  <2>3. CASE result[w] = "retry" /\ copy[w] + 1 <= MaxAttempts
    <3>1. copy[w] + 1 \in 0..MaxAttempts
      BY <2>3, <1>2, WebhookBounds
    <3> QED BY <2>3, <1>2, <3>1, SetDeliveryTypes, WebhookBounds
            DEF PersistWorkResult, TypeInv, Types, DeliveryStatuses, Decided
  <2> QED BY <2>1, <2>2, <2>3 DEF PersistWorkResult
<1> QED BY <1>1, <1>3, KeptTypes DEF PersistWorkResult, TypeInv, Types

LEMMA LetGoTypes ==
  ASSUME CrewTypes, NEW w \in Dispatchers, LetGo(w) PROVE CrewTypes'
  BY WebhookBounds DEF LetGo, CrewTypes, DispatcherSteps, Outcomes

LEMMA ApplyTypes == ASSUME TypeInv, NEW w \in Dispatchers, ApplyWorkResult(w) PROVE TypeInv'
<1>1. CrewTypes'
  BY LetGoTypes DEF ApplyWorkResult, TypeInv, Types
<1>2. /\ held[w] \in Deliveries /\ heldAttempt[w] \in 0..MaxAttempts /\ heldAttempt[w] > 0
      /\ result[w] \in Outcomes
  BY DEF ApplyWorkResult, TypeInv, Types, CrewTypes
<1>3. (JobTypes /\ Granted /\ Fresh)'
  <2>1. CASE UNCHANGED <<job, jobAttempt>>
    BY <2>1, KeptTypes DEF ApplyWorkResult, TypeInv, Types, jobs
  <2>2. CASE result[w] = "delivered" /\ SetJob(held[w], "completed", heldAttempt[w])
    BY <2>2, <1>2, SetJobTypes DEF ApplyWorkResult, TypeInv, Types, JobStates
  <2>3. CASE result[w] = "dead_letter" /\ SetJob(held[w], "dead", heldAttempt[w])
    BY <2>3, <1>2, SetJobTypes DEF ApplyWorkResult, TypeInv, Types, JobStates
  <2>4. CASE result[w] = "retry" /\ HandBack(held[w], heldAttempt[w])
    BY <2>4, <1>2, HandBackTypes DEF ApplyWorkResult, TypeInv, Types
  <2> QED BY <1>2, <2>1, <2>2, <2>3, <2>4 DEF ApplyWorkResult, Outcomes
<1> QED BY <1>1, <1>3, KeptTypes DEF ApplyWorkResult, TypeInv, Types

\* The commands' steps.
LEMMA ProceedTypes ==
  ASSUME CallTypes, NEW c \in Commands, NEW s \in CommandSteps, Proceed(c, s),
         UNCHANGED chosen,
         s \in {"intent", "load", "find", "save", "record", "enqueue"} => todo[c] # << >>,
         s \in {"save", "record", "enqueue"} => chosen[c] \in Deliveries
  PROVE  CallTypes'
  BY DEF CallTypes, Proceed

LEMMA DoneTypes ==
  ASSUME CallTypes, NEW c \in Commands, NEW what \in {"queued", "failed", "skipped"},
         todo[c] # << >>, Done(c, what), UNCHANGED chosen
  PROVE  CallTypes'
<1>1. Tail(todo[c]) \in Seq(Deliveries)
  BY DEF CallTypes
<1>2. todo' \in [Commands -> Seq(Deliveries)] /\ tally' \in [Commands -> SUBSET {"queued", "failed", "skipped"}]
  BY <1>1 DEF CallTypes, Done
<1>3. Outcome(tally[c] \cup {what}) \in {"queued", "failed", "rejected"}
  BY DEF Outcome
<1>4. step' \in [Commands -> CommandSteps]
  BY <1>3 DEF CallTypes, Done, CommandSteps
<1>5. \A b \in Commands \ {c} : step'[b] = step[b] /\ todo'[b] = todo[b]
  BY DEF CallTypes, Done
<1>6. /\ todo'[c] = Tail(todo[c])
      /\ step'[c] \in {"queued", "failed", "rejected"} \/ (step'[c] = "load" /\ Tail(todo[c]) # << >>)
  BY <1>3 DEF CallTypes, Done
<1> QED BY ONLY CallTypes, <1>2, <1>4, <1>5, <1>6, UNCHANGED chosen, UNCHANGED kind, Done(c, what)
        DEF CallTypes, Done

LEMMA CommandTypes == ASSUME TypeInv, NEW c \in Commands, CommandStep(c) PROVE TypeInv'
<1> USE DEF TypeInv, Types
<1>1. CASE ResolveIntent(c)
  <2>1. CallTypes'
    BY <1>1, ProceedTypes DEF ResolveIntent, CallTypes, CommandSteps
  <2> QED BY <1>1, <2>1, KeptTypes DEF ResolveIntent
<1>2. CASE LoadTarget(c)
  <2>1. todo[c] # << >> /\ Target(c) \in Deliveries
    BY <1>2 DEF LoadTarget, CallTypes, Target
  <2>2. CallTypes'
    <3>1. CASE \E what \in {"queued", "failed", "skipped"} : Done(c, what) /\ UNCHANGED chosen
      BY <2>1, <3>1, DoneTypes
    <3>2. CASE /\ chosen' = [chosen EXCEPT ![c] = Target(c)]
               /\ Proceed(c, IF kind[c] = "retry" THEN "enqueue" ELSE "find")
      BY <2>1, <3>2 DEF Proceed, CallTypes, CommandSteps
    <3> QED BY <1>2, <3>1, <3>2 DEF LoadTarget
  <2> QED BY <1>2, <2>2, KeptTypes DEF LoadTarget
<1>3. CASE FindByIdempotencyKey(c)
  <2>1. todo[c] # << >> /\ Target(c) \in Deliveries
    BY <1>3 DEF FindByIdempotencyKey, CallTypes, Target
  <2>2. ItemKey(c) \in Keys
    BY <2>1, WebhookIds DEF CallTypes, ItemKey
  <2>3. RedriveOf[Target(c)][ItemKey(c)] \in Deliveries
    BY <2>1, <2>2, WebhookIds
  <2>4. \E d \in Deliveries, s \in {"enqueue", "save"} :
           chosen' = [chosen EXCEPT ![c] = d] /\ Proceed(c, s)
    BY <1>3, <2>3 DEF FindByIdempotencyKey
  <2>5. CallTypes'
    BY <2>1, <2>4 DEF Proceed, CallTypes, CommandSteps
  <2> QED BY <1>3, <2>5, KeptTypes DEF FindByIdempotencyKey
<1>4. CASE SaveRedrive(c)
  <2>1. chosen[c] \in Deliveries /\ todo[c] # << >>
    BY <1>4 DEF SaveRedrive, CallTypes
  <2>2. CallTypes'
    BY <1>4, <2>1, ProceedTypes DEF SaveRedrive, CommandSteps
  <2>3. DeliveryTypes'
    BY <1>4, <2>1, SetDeliveryTypes, WebhookBounds DEF SaveRedrive, DeliveryStatuses
  <2>4. SideTypes'
    BY <1>4, <2>1 DEF SaveRedrive, SideTypes
  <2> QED BY <1>4, <2>2, <2>3, <2>4, KeptTypes DEF SaveRedrive
<1>5. CASE RecordIdempotencyKey(c)
  <2>1. chosen[c] \in Deliveries /\ todo[c] # << >> /\ Target(c) \in Deliveries
    BY <1>5 DEF RecordIdempotencyKey, CallTypes, Target
  <2>2. ItemKey(c) \in Keys
    BY <2>1, WebhookIds DEF CallTypes, ItemKey
  <2>3. CallTypes'
    BY <1>5, <2>1, ProceedTypes DEF RecordIdempotencyKey, CommandSteps
  <2>4. DeliveryTypes'
    BY <1>5, <2>1, <2>2 DEF RecordIdempotencyKey, DeliveryTypes
  <2> QED BY <1>5, <2>3, <2>4, KeptTypes DEF RecordIdempotencyKey
<1>6. CASE QueueWebhookDelivery(c)
  <2>1. chosen[c] \in Deliveries /\ todo[c] # << >> /\ Target(c) \in Deliveries
    BY <1>6 DEF QueueWebhookDelivery, CallTypes, Target
  <2>2. ItemKey(c) \in Keys
    BY <2>1, WebhookIds DEF CallTypes, ItemKey
  <2>3. CallTypes'
    BY <1>6, <2>1, DoneTypes DEF QueueWebhookDelivery
  <2>4. (JobTypes /\ Granted /\ Fresh)' /\ SideTypes'
    <3>1. CASE UNCHANGED <<jobs, enqueued, raced>>
      BY <1>6, <3>1, KeptTypes DEF QueueWebhookDelivery, SideTypes
    <3>2. CASE SaveFreshJob(chosen[c]) /\ jobKey' = [jobKey EXCEPT ![chosen[c]] = ItemKey(c)]
      <4>1. JobTypes'
        BY <2>1, <2>2, <3>2, WebhookBounds DEF SaveFreshJob, SetJob, JobTypes, JobStates
      <4>2. (Granted /\ Fresh)'
        BY <2>1, <3>2 DEF SaveFreshJob, SetJob, JobTypes, Granted, Fresh
      <4>3. SideTypes'
        BY <1>6, <2>1, <3>2 DEF QueueWebhookDelivery, SaveFreshJob, SideTypes
      <4> QED BY <4>1, <4>2, <4>3
    <3> QED BY <1>6, <3>1, <3>2 DEF QueueWebhookDelivery
  <2> QED BY <1>6, <2>3, <2>4, KeptTypes DEF QueueWebhookDelivery
<1> QED BY <1>1, <1>2, <1>3, <1>4, <1>5, <1>6 DEF CommandStep

\* Failures.
LEMMA InterruptedTypes ==
  ASSUME SideTypes, Interrupted, UNCHANGED history PROVE SideTypes'
  BY WebhookBounds DEF SideTypes, Interrupted, history

LEMMA FailureTypes ==
  ASSUME TypeInv,
         \/ \E w \in Dispatchers : HandlerThrows(w) \/ DispatcherInterrupted(w)
         \/ \E c \in Commands : EnqueueFails(c) \/ CommandInterrupted(c)
  PROVE  TypeInv'
<1> USE DEF TypeInv, Types
<1>1. ASSUME NEW w \in Dispatchers, HandlerThrows(w) PROVE TypeInv'
  <2>1. CrewTypes'
    BY <1>1 DEF HandlerThrows, Returns, Goto, CrewTypes, DispatcherSteps, Outcomes
  <2> QED BY <1>1, <2>1, KeptTypes, InterruptedTypes DEF HandlerThrows
<1>2. ASSUME NEW w \in Dispatchers, DispatcherInterrupted(w) PROVE TypeInv'
  <2>1. CrewTypes'
    BY <1>2, LetGoTypes DEF DispatcherInterrupted
  <2> QED BY <1>2, <2>1, KeptTypes, InterruptedTypes DEF DispatcherInterrupted
<1>3. ASSUME NEW c \in Commands, EnqueueFails(c) PROVE TypeInv'
  <2>1. chosen[c] \in Deliveries /\ todo[c] # << >>
    BY <1>3 DEF EnqueueFails, CallTypes
  <2>2. CallTypes'
    BY <1>3, <2>1, DoneTypes DEF EnqueueFails
  <2>3. (JobTypes /\ Granted /\ Fresh)' /\ SideTypes'
    <3>1. CASE UNCHANGED <<job, jobAttempt, enqueued, raced>>
      <4>1. UNCHANGED jobs
        BY <1>3, <3>1 DEF EnqueueFails, jobs
      <4>2. SideTypes'
        BY <1>3, <3>1, WebhookBounds DEF EnqueueFails, Interrupted, SideTypes
      <4> QED BY <4>1, <4>2, KeptTypes
    <3>2. CASE SaveFreshJob(chosen[c])
      <4>1. JobTypes'
        BY <1>3, <2>1, <3>2, WebhookBounds DEF EnqueueFails, SaveFreshJob, SetJob, JobTypes, JobStates
      <4>2. (Granted /\ Fresh)'
        BY <2>1, <3>2 DEF SaveFreshJob, SetJob, JobTypes, Granted, Fresh
      <4>3. SideTypes'
        BY <1>3, <2>1, <3>2, WebhookBounds DEF EnqueueFails, Interrupted, SaveFreshJob, SideTypes
      <4> QED BY <4>1, <4>2, <4>3
    <3> QED BY <1>3, <3>1, <3>2 DEF EnqueueFails
  <2> QED BY <1>3, <2>2, <2>3, KeptTypes DEF EnqueueFails
<1>4. ASSUME NEW c \in Commands, CommandInterrupted(c) PROVE TypeInv'
  <2>1. CallTypes'
    BY <1>4, ProceedTypes DEF CommandInterrupted, CommandSteps
  <2> QED BY <1>4, <2>1, KeptTypes, InterruptedTypes DEF CommandInterrupted
<1> QED BY <1>1, <1>2, <1>3, <1>4

LEMMA StepTypes == TypeInv /\ [Next]_vars => TypeInv'
<1> SUFFICES ASSUME TypeInv, [Next]_vars PROVE TypeInv'
  OBVIOUS
<1>1. ASSUME NEW w \in Dispatchers, DispatcherStep(w) PROVE TypeInv'
  BY <1>1, RecoverTypes, ReserveTypes, LoadTypes, StartTypes, PostTypes, PersistTypes,
     ApplyTypes DEF DispatcherStep
<1>2. CASE UNCHANGED vars
  BY <1>2, KeptTypes DEF vars, TypeInv, Types
<1> QED BY <1>1, <1>2, CommandTypes, FailureTypes DEF Next

LEMMA TypesInvariant == Spec => []TypeInv
<1>1. TypeInv /\ [Next]_vars => TypeInv'
  BY StepTypes
<1> QED BY InitTypes, <1>1, PTL DEF Spec

\* The variables of the deliveries, their jobs, the dispatchers and the calls
\* keep their types, and nobody works without a reservation or an item.
THEOREM TypeCorrect == Spec => []TypeOK
<1>1. TypeInv => TypeOK
  BY DEF TypeInv, Types, DeliveryTypes, JobTypes, CrewTypes, CallTypes, SideTypes, TypeOK
<1> QED BY TypesInvariant, <1>1, PTL

(***************************************************************************)
(* Part 2.  The retry budget.  What a job may still cost is the attempts   *)
(* it has left and the dispatchers that have been granted one and have not *)
(* posted yet; both only turn into requests.                               *)
(***************************************************************************)

Working(d) == {w \in Dispatchers : held[w] = d /\ pc[w] \in {"load", "start", "post"}}

Left(d) == CASE job[d] = "queued"   -> MaxAttempts
             [] job[d] = "reserved" -> MaxAttempts - jobAttempt[d]
             [] job[d] = "retrying" -> MaxAttempts - jobAttempt[d] + 1
             [] job[d] \in {"absent", "completed", "dead"} -> 0

Covered(d) == posts[d] + Cardinality(Working(d)) + Left(d) <= MaxAttempts * enqueued[d]
Budget == \A d \in Deliveries : Covered(d)

LEMMA LeftTypes == ASSUME TypeInv, NEW d \in Deliveries PROVE Left(d) \in 0..MaxAttempts
  BY WebhookBounds DEF TypeInv, Types, JobTypes, Granted, JobStates, Left

LEMMA NextLeftTypes == ASSUME TypeInv', NEW d \in Deliveries PROVE Left(d)' \in 0..MaxAttempts
  BY WebhookBounds DEF TypeInv, Types, JobTypes, Granted, JobStates, Left

LEMMA WorkingFinite ==
  ASSUME NEW d PROVE /\ IsFiniteSet(Working(d)) /\ Cardinality(Working(d)) \in Nat
                     /\ IsFiniteSet(Working(d)') /\ Cardinality(Working(d)') \in Nat
<1>1. Working(d) \subseteq Dispatchers /\ Working(d)' \subseteq Dispatchers
  BY DEF Working
<1>2. IsFiniteSet(Working(d)) /\ IsFiniteSet(Working(d)')
  BY <1>1, WebhookBounds, FS_Subset
<1> QED BY <1>2, FS_CardinalityType

LEMMA InitBudget == Init => Budget
<1> SUFFICES ASSUME Init, NEW d \in Deliveries PROVE Covered(d)
  BY DEF Budget
<1>1. Working(d) = {}
  BY DEF Init, Working
<1>2. Cardinality(Working(d)) = 0
  BY <1>1, FS_EmptySet
<1>3. posts[d] = 0 /\ enqueued[d] = (IF d \in Scheduled THEN 1 ELSE 0)
  BY DEF Init
<1>4. Left(d) = IF d \in Scheduled THEN MaxAttempts ELSE 0
  BY DEF Init, Left
<1> QED BY <1>2, <1>3, <1>4, WebhookBounds DEF Covered

\* A step that grants nothing and posts nothing is covered as before.
LEMMA Unspent ==
  ASSUME TypeInv, Budget, NEW d \in Deliveries, UNCHANGED <<posts, enqueued>>,
         Working(d)' \subseteq Working(d), TypeInv', Left(d)' <= Left(d)
  PROVE  Covered(d)'
<1>1. Cardinality(Working(d)') <= Cardinality(Working(d))
  BY WorkingFinite, FS_Subset
<1>2. Left(d) \in Nat /\ Left(d)' \in Nat /\ posts[d] \in Nat /\ enqueued[d] \in Nat
  BY LeftTypes, NextLeftTypes, WebhookBounds DEF TypeInv, Types, SideTypes
<1>3. Covered(d) /\ posts'[d] = posts[d] /\ enqueued'[d] = enqueued[d]
  BY DEF Budget
<1>4. MaxAttempts * enqueued[d] \in Nat
  BY <1>2, WebhookBounds
<1> DEFINE total == MaxAttempts * enqueued[d]
<1>5. posts[d] + Cardinality(Working(d)') + Left(d)' <= total
  <2> HIDE DEF total
  <2>1. posts[d] + Cardinality(Working(d)) + Left(d) <= total /\ total \in Nat
    BY <1>3, <1>4 DEF Covered, total
  <2> QED BY <1>1, <1>2, <2>1, WorkingFinite
<1> QED BY <1>3, <1>5 DEF Covered

\* Nothing that the budget speaks of changes.
LEMMA Untouched ==
  ASSUME TypeInv, TypeInv', Budget, UNCHANGED <<posts, enqueued, job, jobAttempt>>,
         \A d \in Deliveries : Working(d)' \subseteq Working(d)
  PROVE  Budget'
<1> SUFFICES ASSUME NEW d \in Deliveries PROVE Covered(d)'
  BY DEF Budget
<1>1. Left(d)' = Left(d)
  BY DEF Left
<1>2. Left(d)' <= Left(d)
  BY <1>1, LeftTypes, WebhookBounds
<1> QED BY <1>2, Unspent

LEMMA ReserveBudget ==
  ASSUME TypeInv, TypeInv', Budget, NEW w \in Dispatchers, NEW e \in Deliveries, Reserve(w, e)
  PROVE  Budget'
<1> SUFFICES ASSUME NEW d \in Deliveries PROVE Covered(d)'
  BY DEF Budget
<1>1. UNCHANGED <<posts, enqueued>>
  BY DEF Reserve, history
<1>2. CASE d # e
  <2>1. Working(d)' \subseteq Working(d)
    BY <1>2 DEF Reserve, Working, TypeInv, Types, CrewTypes
  <2>2. Left(d)' = Left(d)
    BY <1>2 DEF Reserve, SetJob, Left, TypeInv, Types, JobTypes
  <2>3. Left(d)' <= Left(d)
    BY <2>2, LeftTypes, WebhookBounds
  <2> QED BY <1>1, <2>1, <2>3, Unspent
<1>3. CASE d = e
  <2>1. Working(d)' = Working(d) \cup {w} /\ w \notin Working(d)
    BY <1>3 DEF Reserve, Working, TypeInv, Types, CrewTypes
  <2>2. Cardinality(Working(d)') = Cardinality(Working(d)) + 1
    BY <2>1, WorkingFinite, FS_AddElement
  <2>3. Left(d)' = Left(d) - 1
    BY <1>3, WebhookBounds
    DEF Reserve, SetJob, Left, TypeInv, Types, JobTypes, Granted, Fresh, JobStates
  <2>4. posts'[d] = posts[d] /\ enqueued'[d] = enqueued[d] /\ posts[d] \in Nat
    BY <1>1 DEF TypeInv, Types, SideTypes
  <2> DEFINE total == MaxAttempts * enqueued[d]
  <2>5. posts[d] + Cardinality(Working(d)) + Left(d) <= total /\ total \in Nat
    BY WebhookBounds DEF Budget, Covered, TypeInv, Types, SideTypes
  <2>6. posts[d] + Cardinality(Working(d)') + Left(d)' <= total
    <3> HIDE DEF total
    <3> QED BY <2>2, <2>3, <2>4, <2>5, WorkingFinite, LeftTypes, WebhookBounds
  <2> QED BY <2>4, <2>6 DEF Covered
<1> QED BY <1>2, <1>3

LEMMA PostBudget ==
  ASSUME TypeInv, TypeInv', Budget, NEW w \in Dispatchers, NEW answer, Post(w, answer)
  PROVE  Budget'
<1> SUFFICES ASSUME NEW d \in Deliveries PROVE Covered(d)'
  BY DEF Budget
<1>1. UNCHANGED <<enqueued, job, jobAttempt>>
  BY DEF Post, jobs
<1>2. Left(d)' = Left(d)
  BY <1>1 DEF Left
<1>3. CASE d # held[w]
  <2>1. Working(d)' \subseteq Working(d)
    BY <1>3 DEF Post, Returns, Goto, Working, TypeInv, Types, CrewTypes
  <2>2. posts'[d] = posts[d]
    BY <1>3 DEF Post, TypeInv, Types, SideTypes
  <2>3. Cardinality(Working(d)') <= Cardinality(Working(d))
    BY <2>1, WorkingFinite, FS_Subset
  <2> DEFINE total == MaxAttempts * enqueued[d]
  <2>4. posts[d] + Cardinality(Working(d)) + Left(d) <= total /\ total \in Nat /\ posts[d] \in Nat
    BY WebhookBounds DEF Budget, Covered, TypeInv, Types, SideTypes
  <2>5. posts[d] + Cardinality(Working(d)') + Left(d) <= total
    <3> HIDE DEF total
    <3> QED BY <2>3, <2>4, WorkingFinite, LeftTypes, WebhookBounds
  <2> QED BY <1>1, <1>2, <2>2, <2>5 DEF Covered
<1>4. CASE d = held[w]
  <2>1. Working(d)' = Working(d) \ {w} /\ w \in Working(d)
    BY <1>4 DEF Post, Returns, Goto, Working, TypeInv, Types, CrewTypes
  <2>2. Cardinality(Working(d)') = Cardinality(Working(d)) - 1
    BY <2>1, WorkingFinite, FS_RemoveElement
  <2>3. posts'[d] = posts[d] + 1 /\ posts[d] \in Nat
    BY <1>4 DEF Post, TypeInv, Types, SideTypes
  <2> DEFINE total == MaxAttempts * enqueued[d]
  <2>4. posts[d] + Cardinality(Working(d)) + Left(d) <= total /\ total \in Nat
    BY WebhookBounds DEF Budget, Covered, TypeInv, Types, SideTypes
  <2>5. posts'[d] + Cardinality(Working(d)') + Left(d) <= total
    <3> HIDE DEF total
    <3> QED BY <2>2, <2>3, <2>4, WorkingFinite, LeftTypes, WebhookBounds
  <2> QED BY <1>1, <1>2, <2>5 DEF Covered
<1> QED BY <1>3, <1>4

\* Handing a job back costs the attempt it was reserved for.
LEMMA HandBackLeft ==
  ASSUME TypeInv, NEW d \in Deliveries, NEW e \in Deliveries, job[e] = "reserved",
         \/ HandBack(e, jobAttempt[e])
         \/ \E s \in {"completed", "dead"} : SetJob(e, s, jobAttempt[e])
  PROVE  Left(d)' <= Left(d)
<1>1. CASE d # e
  <2>1. job'[d] = job[d] /\ jobAttempt'[d] = jobAttempt[d]
    BY <1>1 DEF HandBack, SetJob, TypeInv, Types, JobTypes
  <2>2. Left(d)' = Left(d)
    BY <2>1 DEF Left
  <2> QED BY <2>2, LeftTypes, WebhookBounds
<1>2. CASE d = e
  <2>1. \/ job'[d] \in {"completed", "dead"}
        \/ job'[d] = "retrying" /\ jobAttempt'[d] = jobAttempt[d] + 1
    BY <1>2 DEF HandBack, SetJob, TypeInv, Types, JobTypes
  <2>2. jobAttempt[d] \in 0..MaxAttempts
    BY DEF TypeInv, Types, JobTypes
  <2> QED BY <1>2, <2>1, <2>2, WebhookBounds DEF Left
<1> QED BY <1>1, <1>2

LEMMA SettleBudget ==
  ASSUME TypeInv, TypeInv', Budget, NEW w \in Dispatchers,
         \/ \E d \in Deliveries : RecoverExpiredWorkerJobLeases(w, d)
         \/ ApplyWorkResult(w)
  PROVE  Budget'
<1> SUFFICES ASSUME NEW d \in Deliveries PROVE Covered(d)'
  BY DEF Budget
<1>1. CASE \E e \in Deliveries : RecoverExpiredWorkerJobLeases(w, e)
  <2>1. PICK e \in Deliveries : RecoverExpiredWorkerJobLeases(w, e)
    BY <1>1
  <2>2. Left(d)' <= Left(d)
    BY <2>1, HandBackLeft DEF RecoverExpiredWorkerJobLeases
  <2>3. UNCHANGED <<posts, enqueued, pc, held>>
    BY <2>1 DEF RecoverExpiredWorkerJobLeases, history, crew
  <2>4. Working(d)' \subseteq Working(d)
    BY <2>3 DEF Working
  <2> QED BY <2>2, <2>3, <2>4, Unspent
<1>2. CASE ApplyWorkResult(w)
  <2>1. held[w] \in Deliveries /\ result[w] \in Outcomes
    BY <1>2 DEF ApplyWorkResult, TypeInv, Types, CrewTypes
  <2>2. Left(d)' <= Left(d)
    <3>1. CASE UNCHANGED <<job, jobAttempt>>
      <4>1. Left(d)' = Left(d)
        BY <3>1 DEF Left
      <4> QED BY <4>1, LeftTypes, WebhookBounds
    <3>2. CASE /\ ActiveReservation(w)
               /\ \/ HandBack(held[w], heldAttempt[w])
                  \/ \E s \in {"completed", "dead"} : SetJob(held[w], s, heldAttempt[w])
      <4>1. job[held[w]] = "reserved" /\ heldAttempt[w] = jobAttempt[held[w]]
        BY <3>2 DEF ActiveReservation
      <4> QED BY <2>1, <3>2, <4>1, HandBackLeft
    <3> QED BY <1>2, <2>1, <3>1, <3>2 DEF ApplyWorkResult, Outcomes
  <2>3. UNCHANGED <<posts, enqueued>>
    BY <1>2 DEF ApplyWorkResult, history
  <2>4. Working(d)' \subseteq Working(d)
    BY <1>2 DEF ApplyWorkResult, LetGo, Working, TypeInv, Types, CrewTypes
  <2> QED BY <2>2, <2>3, <2>4, Unspent
<1> QED BY <1>1, <1>2

\* The other steps of a dispatcher, and its failures: work in hand only ends.
LEMMA WorkBudget ==
  ASSUME TypeInv, TypeInv', Budget, NEW w \in Dispatchers,
         \/ Load(w) \/ Start(w) \/ Undeliverable(w) \/ PersistWorkResult(w)
         \/ HandlerThrows(w) \/ DispatcherInterrupted(w)
  PROVE  Budget'
<1>1. UNCHANGED <<posts, enqueued, job, jobAttempt>>
  BY DEF Load, Start, Undeliverable, PersistWorkResult, HandlerThrows, DispatcherInterrupted,
         jobs, history
<1>2. \A d \in Deliveries : Working(d)' \subseteq Working(d)
  <2> USE DEF Working, TypeInv, Types, CrewTypes, Returns, Goto, LetGo
  <2>1. CASE Load(w)
    BY <2>1 DEF Load
  <2>2. CASE Start(w)
    BY <2>2 DEF Start
  <2>3. CASE Undeliverable(w)
    BY <2>3 DEF Undeliverable
  <2>4. CASE PersistWorkResult(w)
    BY <2>4 DEF PersistWorkResult
  <2>5. CASE HandlerThrows(w)
    BY <2>5 DEF HandlerThrows
  <2>6. CASE DispatcherInterrupted(w)
    BY <2>6 DEF DispatcherInterrupted
  <2> QED BY <2>1, <2>2, <2>3, <2>4, <2>5, <2>6
<1> QED BY <1>1, <1>2, Untouched

\* A fresh job brings MaxAttempts attempts and is counted.
LEMMA FreshBudget ==
  ASSUME TypeInv, TypeInv', Budget, NEW e \in Deliveries, SaveFreshJob(e),
         UNCHANGED <<posts, pc, held>>
  PROVE  Budget'
<1> SUFFICES ASSUME NEW d \in Deliveries PROVE Covered(d)'
  BY DEF Budget
<1>1. Working(d)' = Working(d)
  BY DEF Working
<1>2. Left(d) \in Nat /\ Left(d)' \in Nat /\ posts[d] \in Nat /\ enqueued[d] \in Nat
      /\ posts'[d] = posts[d]
  BY LeftTypes, NextLeftTypes, WebhookBounds DEF TypeInv, Types, SideTypes
<1>3. Covered(d)
  BY DEF Budget
<1>4. CASE d # e
  <2>1. job'[d] = job[d] /\ jobAttempt'[d] = jobAttempt[d] /\ enqueued'[d] = enqueued[d]
    BY <1>4 DEF SaveFreshJob, SetJob, TypeInv, Types, JobTypes, SideTypes
  <2>2. Left(d)' = Left(d)
    BY <2>1 DEF Left
  <2>3. Cardinality(Working(d)') = Cardinality(Working(d))
    BY <1>1
  <2> QED BY <1>2, <1>3, <2>1, <2>2, <2>3 DEF Covered
<1>5. CASE d = e
  <2>1. job'[d] = "queued" /\ enqueued'[d] = enqueued[d] + 1
    BY <1>5 DEF SaveFreshJob, SetJob, TypeInv, Types, JobTypes, SideTypes
  <2>2. Left(d)' = MaxAttempts
    BY <2>1 DEF Left
  <2>3. MaxAttempts * (enqueued[d] + 1) = MaxAttempts * enqueued[d] + MaxAttempts
    BY <1>2, WebhookBounds
  <2> DEFINE total == MaxAttempts * enqueued[d]
  <2>4. posts[d] + Cardinality(Working(d)) + Left(d) <= total /\ total \in Nat
    BY <1>2, <1>3, WebhookBounds DEF Covered
  <2>5. posts[d] + Cardinality(Working(d)) + MaxAttempts <= total + MaxAttempts
    <3> HIDE DEF total
    <3> QED BY <1>2, <2>4, WorkingFinite, WebhookBounds
  <2>6. Cardinality(Working(d)') = Cardinality(Working(d))
    BY <1>1
  <2> QED BY <1>2, <2>1, <2>2, <2>3, <2>5, <2>6 DEF Covered
<1> QED BY <1>4, <1>5

LEMMA CommandBudget ==
  ASSUME TypeInv, TypeInv', Budget, NEW c \in Commands,
         CommandStep(c) \/ EnqueueFails(c) \/ CommandInterrupted(c)
  PROVE  Budget'
<1>1. UNCHANGED <<posts, pc, held>>
  BY DEF CommandStep, ResolveIntent, LoadTarget, FindByIdempotencyKey, SaveRedrive,
         RecordIdempotencyKey, QueueWebhookDelivery, EnqueueFails, CommandInterrupted,
         crew, history
<1>2. CASE UNCHANGED <<job, jobAttempt, enqueued>>
  <2>1. \A d \in Deliveries : Working(d)' \subseteq Working(d)
    BY <1>1 DEF Working
  <2> QED BY <1>1, <1>2, <2>1, Untouched
<1>3. CASE SaveFreshJob(chosen[c]) /\ chosen[c] \in Deliveries
  BY <1>1, <1>3, FreshBudget
<1>4. \/ UNCHANGED <<job, jobAttempt, enqueued>>
      \/ SaveFreshJob(chosen[c]) /\ chosen[c] \in Deliveries
  BY DEF CommandStep, ResolveIntent, LoadTarget, FindByIdempotencyKey, SaveRedrive,
         RecordIdempotencyKey, QueueWebhookDelivery, EnqueueFails, CommandInterrupted,
         jobs, history, TypeInv, Types, CallTypes
<1> QED BY <1>2, <1>3, <1>4

LEMMA StepBudget ==
  ASSUME TypeInv, TypeInv', Budget, [Next]_vars PROVE Budget'
<1>1. ASSUME NEW w \in Dispatchers, DispatcherStep(w) PROVE Budget'
  BY <1>1, SettleBudget, ReserveBudget, WorkBudget, PostBudget DEF DispatcherStep
<1>2. ASSUME NEW w \in Dispatchers, HandlerThrows(w) \/ DispatcherInterrupted(w) PROVE Budget'
  BY <1>2, WorkBudget
<1>3. CASE UNCHANGED vars
  <2>1. UNCHANGED <<posts, enqueued, job, jobAttempt, pc, held>>
    BY <1>3 DEF vars, jobs, crew, history
  <2>2. \A d \in Deliveries : Working(d)' \subseteq Working(d)
    BY <2>1 DEF Working
  <2> QED BY <2>1, <2>2, Untouched
<1> QED BY <1>1, <1>2, <1>3, CommandBudget DEF Next

\* INV-W-004: whatever dies, lapses or overlaps, each fresh job of a delivery
\* buys at most MaxAttempts requests to its receiver.
THEOREM BudgetHolds == Spec => []RetryBudget
<1>1. TypeInv /\ Budget => RetryBudget
  <2> SUFFICES ASSUME TypeInv, Budget, NEW d \in Deliveries
               PROVE  posts[d] <= MaxAttempts * enqueued[d]
    BY DEF RetryBudget
  <2> DEFINE total == MaxAttempts * enqueued[d]
  <2>1. posts[d] + Cardinality(Working(d)) + Left(d) <= total /\ total \in Nat /\ posts[d] \in Nat
    BY WebhookBounds DEF Budget, Covered, TypeInv, Types, SideTypes
  <2>2. posts[d] <= total
    <3> HIDE DEF total
    <3> QED BY <2>1, WorkingFinite, LeftTypes, WebhookBounds
  <2> QED BY <2>2
<1>2. Budget /\ TypeInv /\ TypeInv' /\ [Next]_vars => Budget'
  BY StepBudget
<1> QED BY InitBudget, TypesInvariant, <1>1, <1>2, PTL DEF Spec

(***************************************************************************)
(* Part 3.  One dispatcher at a time.  While leases outlast the work, a    *)
(* delivery that no command wrote over while in use is in the hands of one *)
(* dispatcher at most, the one that the job's reservation names.           *)
(***************************************************************************)

InUse(w, d) == pc[w] # "idle" /\ held[w] = d

Sole(d) ==
  /\ \A w \in Dispatchers :
       InUse(w, d) => /\ ActiveReservation(w)
                      /\ pc[w] \in {"start", "post", "persist"} => status[d] # "delivered"
  /\ \A v, w \in Dispatchers : InUse(v, d) /\ InUse(w, d) => v = w

OneAtATime == \A d \in Deliveries \ raced : Sole(d)

LEMMA InitOneAtATime == Init => OneAtATime
  BY DEF Init, OneAtATime, Sole, InUse

\* Who is raced stays so.
LEMMA RacedGrows == TypeInv /\ [Next]_vars => raced \subseteq raced'
<1> SUFFICES ASSUME TypeInv, [Next]_vars PROVE raced \subseteq raced'
  OBVIOUS
<1>1. ASSUME NEW w \in Dispatchers, DispatcherStep(w) PROVE raced' = raced
  BY <1>1 DEF DispatcherStep, RecoverExpiredWorkerJobLeases, Reserve, Load, Start, Undeliverable,
              Post, PersistWorkResult, ApplyWorkResult, history
<1>2. ASSUME NEW w \in Dispatchers, HandlerThrows(w) \/ DispatcherInterrupted(w)
      PROVE  raced' = raced
  BY <1>2 DEF HandlerThrows, DispatcherInterrupted, history
<1>3. ASSUME NEW c \in Commands, CommandStep(c) PROVE raced \subseteq raced'
  BY <1>3 DEF CommandStep, ResolveIntent, LoadTarget, FindByIdempotencyKey, SaveRedrive,
              RecordIdempotencyKey, QueueWebhookDelivery, SaveFreshJob, history
<1>4. ASSUME NEW c \in Commands, EnqueueFails(c) \/ CommandInterrupted(c)
      PROVE  raced \subseteq raced'
  BY <1>4 DEF EnqueueFails, CommandInterrupted, SaveFreshJob, history
<1>5. CASE UNCHANGED vars
  BY <1>5 DEF vars, history
<1> QED BY <1>1, <1>2, <1>3, <1>4, <1>5 DEF Next

\* A step of a dispatcher that leaves the jobs alone and stays with its delivery,
\* or lets go of it.
LEMMA StaysSole ==
  ASSUME TypeInv, NEW d \in Deliveries, Sole(d), NEW w \in Dispatchers,
         UNCHANGED <<job, jobAttempt>>, pc[w] # "idle", Goto(w, pc'[w]) \/ LetGo(w),
         status'[d] = status[d]
           \/ (InUse(w, d) /\ (status'[d] = "delivered" => pc'[w] \in {"settle", "idle"})),
         InUse(w, d) /\ pc'[w] \in {"start", "post", "persist"} => status'[d] # "delivered"
  PROVE  Sole(d)'
<1>1. \A v \in Dispatchers \ {w} :
         pc'[v] = pc[v] /\ held'[v] = held[v] /\ heldAttempt'[v] = heldAttempt[v]
  BY DEF Goto, LetGo, TypeInv, Types, CrewTypes
<1>2. InUse(w, d)' => InUse(w, d) /\ heldAttempt'[w] = heldAttempt[w] /\ held'[w] = held[w]
  BY DEF Goto, LetGo, InUse, TypeInv, Types, CrewTypes
<1>5. ASSUME NEW v \in Dispatchers, InUse(v, d)' PROVE InUse(v, d)
  BY <1>1, <1>2, <1>5 DEF InUse
<1>3. ASSUME NEW v \in Dispatchers, NEW u \in Dispatchers, InUse(v, d)', InUse(u, d)'
      PROVE  v = u
  BY <1>5, <1>3 DEF Sole
<1>4. ASSUME NEW v \in Dispatchers, InUse(v, d)'
      PROVE  /\ ActiveReservation(v)'
             /\ pc'[v] \in {"start", "post", "persist"} => status'[d] # "delivered"
  <2>1. InUse(v, d) /\ ActiveReservation(v)
    BY <1>5, <1>4 DEF Sole
  <2>2. ActiveReservation(v)'
    BY <1>1, <1>2, <1>4, <2>1 DEF ActiveReservation
  <2>3. CASE v = w
    BY <2>1, <2>2, <2>3
  <2>4. CASE v # w
    <3>1. status'[d] = status[d]
      BY <2>1, <2>4 DEF Sole
    <3> QED BY <1>1, <2>1, <2>2, <2>4, <3>1 DEF Sole
  <2> QED BY <2>3, <2>4
<1> QED BY <1>3, <1>4 DEF Sole

\* What touches neither the delivery, its job nor the dispatchers.
LEMMA SoleUntouched ==
  ASSUME NEW d \in Deliveries, Sole(d), UNCHANGED crew,
         job'[d] = job[d], jobAttempt'[d] = jobAttempt[d],
         status'[d] = status[d] \/ ~InHand(d) \/ status'[d] # "delivered"
  PROVE  Sole(d)'
  BY DEF Sole, InUse, InHand, ActiveReservation, crew

LEMMA DispatcherSole ==
  ASSUME Timely, TypeInv, NEW d \in Deliveries, Sole(d), NEW w \in Dispatchers,
         DispatcherStep(w) \/ HandlerThrows(w) \/ DispatcherInterrupted(w)
  PROVE  Sole(d)'
<1> USE DEF TypeInv, Types
<1>1. ASSUME NEW e \in Deliveries, RecoverExpiredWorkerJobLeases(w, e) PROVE Sole(d)'
  <2>1. CASE e = d
    <3>1. ~InHand(d) /\ UNCHANGED crew
      BY <1>1, <2>1 DEF RecoverExpiredWorkerJobLeases
    <3> QED BY <3>1 DEF InHand, Sole, InUse, crew
  <2>2. CASE e # d
    <3>1. job'[d] = job[d] /\ jobAttempt'[d] = jobAttempt[d]
      BY <1>1, <2>2 DEF RecoverExpiredWorkerJobLeases, HandBack, SetJob, JobTypes
    <3> QED BY <1>1, <3>1, SoleUntouched DEF RecoverExpiredWorkerJobLeases, deliveries
  <2> QED BY <2>1, <2>2
<1>2. ASSUME NEW e \in Deliveries, Reserve(w, e) PROVE Sole(d)'
  <2>1. /\ \A v \in Dispatchers \ {w} :
             pc'[v] = pc[v] /\ held'[v] = held[v] /\ heldAttempt'[v] = heldAttempt[v]
        /\ pc'[w] = "load" /\ held'[w] = e /\ status' = status
    BY <1>2 DEF Reserve, CrewTypes, deliveries
  <2>2. CASE e = d
    <3>1. \A v \in Dispatchers : ~InUse(v, d)
      BY <1>2, <2>2 DEF Sole, Reserve, ActiveReservation, InUse
    <3>2. job'[d] = "reserved" /\ jobAttempt'[d] = heldAttempt'[w]
      BY <1>2, <2>2 DEF Reserve, SetJob, JobTypes, CrewTypes
    <3> QED BY <2>1, <2>2, <3>1, <3>2 DEF Sole, InUse, ActiveReservation
  <2>3. CASE e # d
    <3>1. job'[d] = job[d] /\ jobAttempt'[d] = jobAttempt[d]
      BY <1>2, <2>3 DEF Reserve, SetJob, JobTypes
    <3> QED BY <2>1, <2>3, <3>1 DEF Sole, InUse, ActiveReservation
  <2> QED BY <2>2, <2>3
<1>3. CASE Load(w)
  <2>1. UNCHANGED <<job, jobAttempt, status>> /\ Goto(w, pc'[w]) /\ pc[w] # "idle"
    BY <1>3 DEF Load, Returns, Goto, CrewTypes, jobs, deliveries
  <2>2. InUse(w, d) /\ pc'[w] \in {"start", "post", "persist"} => status[d] # "delivered"
    BY <1>3 DEF Load, Returns, Goto, CrewTypes, InUse
  <2> QED BY <2>1, <2>2, StaysSole
<1>4. CASE Start(w)
  <2>1. UNCHANGED <<job, jobAttempt>> /\ Goto(w, pc'[w]) /\ pc[w] # "idle"
    BY <1>4 DEF Start, Goto, CrewTypes, jobs
  <2>2. status'[d] = IF d = held[w] THEN "delivering" ELSE status[d]
    BY <1>4 DEF Start, SetDelivery, DeliveryTypes
  <2> QED BY <1>4, <2>1, <2>2, StaysSole DEF Start, InUse
<1>5. CASE Undeliverable(w) \/ \E answer \in DOMAIN Verdict : Post(w, answer)
  <2>1. UNCHANGED <<job, jobAttempt, status>> /\ Goto(w, pc'[w]) /\ pc[w] = "post"
    BY <1>5 DEF Undeliverable, Post, Returns, Goto, CrewTypes, jobs, deliveries
  <2>2. InUse(w, d) => status[d] # "delivered"
    BY <2>1 DEF Sole
  <2> QED BY <2>1, <2>2, StaysSole
<1>6. CASE PersistWorkResult(w)
  <2>1. UNCHANGED <<job, jobAttempt>> /\ Goto(w, pc'[w]) /\ pc'[w] = "settle" /\ pc[w] # "idle"
    BY <1>6 DEF PersistWorkResult, Returns, Goto, CrewTypes, jobs
  <2>2. status'[d] = status[d] \/ InUse(w, d)
    BY <1>6 DEF PersistWorkResult, SetDelivery, DeliveryTypes, InUse
  <2> QED BY <2>1, <2>2, StaysSole
<1>7. CASE ApplyWorkResult(w)
  <2>1. /\ \A v \in Dispatchers \ {w} :
             pc'[v] = pc[v] /\ held'[v] = held[v] /\ heldAttempt'[v] = heldAttempt[v]
        /\ pc'[w] = "idle" /\ status' = status
    BY <1>7 DEF ApplyWorkResult, LetGo, CrewTypes, deliveries
  <2>2. held[w] \in Deliveries /\ result[w] \in Outcomes
    BY <1>7 DEF ApplyWorkResult, CrewTypes
  <2>3. held[w] # d => job'[d] = job[d] /\ jobAttempt'[d] = jobAttempt[d]
    BY <1>7, <2>2 DEF ApplyWorkResult, HandBack, SetJob, JobTypes, Outcomes
  <2>4. CASE held[w] = d
    <3>1. \A v \in Dispatchers : InUse(v, d) => v = w
      BY <1>7, <2>4 DEF Sole, InUse, ApplyWorkResult
    <3> QED BY <2>1, <3>1 DEF Sole, InUse
  <2>5. CASE held[w] # d
    BY <2>1, <2>3, <2>5 DEF Sole, InUse, ActiveReservation
  <2> QED BY <2>4, <2>5
<1>8. CASE HandlerThrows(w)
  <2>1. UNCHANGED <<job, jobAttempt, status>> /\ Goto(w, pc'[w]) /\ pc'[w] = "settle" /\ pc[w] # "idle"
    BY <1>8 DEF HandlerThrows, Returns, Goto, CrewTypes, jobs, deliveries
  <2> QED BY <2>1, StaysSole
<1>9. CASE DispatcherInterrupted(w)
  <2>1. UNCHANGED <<job, jobAttempt, status>> /\ LetGo(w) /\ pc'[w] = "idle" /\ pc[w] # "idle"
    BY <1>9 DEF DispatcherInterrupted, LetGo, CrewTypes, jobs, deliveries
  <2> QED BY <2>1, StaysSole
<1> QED BY <1>1, <1>2, <1>3, <1>4, <1>5, <1>6, <1>7, <1>8, <1>9 DEF DispatcherStep

\* A command that touches a delivery or a job in use marks it.
LEMMA CommandSole ==
  ASSUME TypeInv, NEW d \in Deliveries \ raced', Sole(d), NEW c \in Commands,
         CommandStep(c) \/ EnqueueFails(c) \/ CommandInterrupted(c)
  PROVE  Sole(d)'
<1> USE DEF TypeInv, Types
<1>1. UNCHANGED crew
  BY DEF CommandStep, ResolveIntent, LoadTarget, FindByIdempotencyKey, SaveRedrive,
         RecordIdempotencyKey, QueueWebhookDelivery, EnqueueFails, CommandInterrupted
<1>2. CASE SaveRedrive(c)
  <2>1. chosen[c] \in Deliveries /\ UNCHANGED jobs
    BY <1>2 DEF SaveRedrive, CallTypes
  <2>2. status'[d] = IF d = chosen[c] THEN "pending" ELSE status[d]
    BY <1>2, <2>1 DEF SaveRedrive, SetDelivery, DeliveryTypes
  <2> QED BY <1>1, <2>1, <2>2, SoleUntouched DEF jobs
<1>3. CASE SaveFreshJob(chosen[c]) /\ chosen[c] \in Deliveries /\ UNCHANGED status
  <2>1. CASE d = chosen[c]
    <3>1. ~InHand(d)
      BY <1>3, <2>1 DEF SaveFreshJob
    <3> QED BY <1>1, <3>1 DEF InHand, Sole, InUse, crew
  <2>2. CASE d # chosen[c]
    <3>1. job'[d] = job[d] /\ jobAttempt'[d] = jobAttempt[d]
      BY <1>3, <2>2 DEF SaveFreshJob, SetJob, JobTypes
    <3> QED BY <1>1, <1>3, <3>1, SoleUntouched
  <2> QED BY <2>1, <2>2
<1>4. CASE UNCHANGED <<status, job, jobAttempt>>
  BY <1>1, <1>4, SoleUntouched
<1> QED BY <1>2, <1>3, <1>4
        DEF CommandStep, ResolveIntent, LoadTarget, FindByIdempotencyKey, RecordIdempotencyKey,
            QueueWebhookDelivery, EnqueueFails, CommandInterrupted, deliveries, jobs, CallTypes

LEMMA StepOneAtATime ==
  ASSUME Timely, TypeInv, OneAtATime, [Next]_vars PROVE OneAtATime'
<1> SUFFICES ASSUME NEW d \in Deliveries \ raced' PROVE Sole(d)'
  BY DEF OneAtATime
<1>1. Sole(d)
  BY RacedGrows DEF OneAtATime
<1>2. CASE UNCHANGED vars
  BY <1>1, <1>2, SoleUntouched DEF vars, deliveries, jobs
<1> QED BY <1>1, <1>2, DispatcherSole, CommandSole DEF Next

LEMMA OneAtATimeHolds == ASSUME Timely PROVE Spec => []OneAtATime
<1>1. TypeInv /\ OneAtATime /\ [Next]_vars => OneAtATime'
  BY StepOneAtATime
<1> QED BY InitOneAtATime, TypesInvariant, <1>1, PTL DEF Spec

\* INV-W-003, as far as it goes: a delivered delivery moves again only when a
\* command raced with it, or a lease lapsed under a dispatcher at work.
LEMMA DeliveredStays ==
  ASSUME Timely, TypeInv, OneAtATime, [Next]_vars, NEW d \in Deliveries \ raced',
         status[d] = "delivered"
  PROVE  status'[d] = "delivered"
<1> USE DEF TypeInv, Types
<1>1. Sole(d)
  BY RacedGrows DEF OneAtATime
<1>2. ASSUME NEW w \in Dispatchers, DispatcherStep(w) \/ HandlerThrows(w) \/ DispatcherInterrupted(w)
      PROVE  status'[d] = "delivered"
  <2>1. CASE Start(w)
    <3>1. held[w] # d
      BY <1>1, <2>1 DEF Sole, InUse, Start
    <3> QED BY <2>1, <3>1 DEF Start, SetDelivery, DeliveryTypes
  <2>2. CASE PersistWorkResult(w)
    <3>1. held[w] # d
      BY <1>1, <2>2 DEF Sole, InUse, PersistWorkResult
    <3> QED BY <2>2, <3>1 DEF PersistWorkResult, SetDelivery, DeliveryTypes
  <2>3. CASE UNCHANGED status
    BY <2>3
  <2> QED BY <1>2, <2>1, <2>2, <2>3
          DEF DispatcherStep, RecoverExpiredWorkerJobLeases, Reserve, Load, Undeliverable, Post,
              ApplyWorkResult, HandlerThrows, DispatcherInterrupted, deliveries
<1>3. ASSUME NEW c \in Commands, CommandStep(c) \/ EnqueueFails(c) \/ CommandInterrupted(c)
      PROVE  status'[d] = "delivered"
  <2>1. CASE SaveRedrive(c)
    BY <2>1 DEF SaveRedrive, SetDelivery, DeliveryTypes, CallTypes
  <2>2. CASE UNCHANGED status
    BY <2>2
  <2> QED BY <1>3, <2>1, <2>2
          DEF CommandStep, ResolveIntent, LoadTarget, FindByIdempotencyKey, RecordIdempotencyKey,
              QueueWebhookDelivery, EnqueueFails, CommandInterrupted, deliveries
<1>4. CASE UNCHANGED vars
  BY <1>4 DEF vars, deliveries
<1> QED BY <1>2, <1>3, <1>4 DEF Next

THEOREM DeliveredIsDelivered == Spec => DeliveredMovesOnlyRaced
<1> DEFINE Stays == \A d \in Deliveries :
                      status[d] = "delivered" /\ status'[d] # "delivered" => d \in raced' \/ ~Timely
<1>1. CASE Timely
  <2>1. TypeInv /\ OneAtATime /\ [Next]_vars => [Stays]_vars
    BY <1>1, DeliveredStays
  <2> QED BY <1>1, <2>1, TypesInvariant, OneAtATimeHolds, PTL DEF Spec, DeliveredMovesOnlyRaced
<1>2. CASE ~Timely
  <2>1. [Next]_vars => [Stays]_vars
    BY <1>2
  <2> QED BY <2>1, PTL DEF Spec, DeliveredMovesOnlyRaced
<1> QED BY <1>1, <1>2, WebhookBounds

(***************************************************************************)
(* Part 4.  The two stores agree at the end.  As long as no call has       *)
(* failed, where a delivery that was not raced stands follows from where   *)
(* its job stands and from the step of the one dispatcher that has it.     *)
(***************************************************************************)

\* A delivery that a command has chosen, or that has a key, has been saved.
KeyedExists ==
  /\ \A d \in Deliveries : deliveryKey[d] # NoKey => status[d] # "absent"
  /\ \A c \in Commands : step[c] \in {"record", "enqueue"} => status[chosen[c]] # "absent"

InStep(w, d) ==
  /\ pc[w] \in {"load", "start"} => status[d] \in {"pending", "retrying"}
  /\ pc[w] \in {"start", "post", "persist"} => copy[w] = heldAttempt[w]
  /\ pc[w] \in {"post", "persist"} => status[d] = "delivering"
  /\ pc[w] = "settle" =>
       \/ result[w] \in Decided /\ status[d] = result[w]
       \/ result[w] = "retry" /\ status[d] = "retrying" /\ heldAttempt[w] + 1 <= MaxAttempts

JobTells(d) ==
  /\ job[d] = "reserved" => InHand(d)
  /\ job[d] \in {"queued", "retrying"} => status[d] \in {"pending", "retrying"}
  /\ job[d] = "absent" => status[d] \in {"absent", "pending"}
  /\ job[d] = "completed" => status[d] = "delivered"
  /\ job[d] = "dead" => status[d] = "dead_letter"

Agreed(d) == JobTells(d) /\ \A w \in Dispatchers : InUse(w, d) => InStep(w, d)

Agreement == interrupts = 0 => \A d \in Deliveries \ raced : Agreed(d)

LEMMA InitAgreement == Init => KeyedExists /\ Agreement
  BY DEF Init, KeyedExists, Agreement, Agreed, JobTells, InUse

\* A row that was saved is never deleted.
LEMMA RowsStay ==
  ASSUME TypeInv, KeyedExists, [Next]_vars, NEW d \in Deliveries, status[d] # "absent"
  PROVE  status'[d] # "absent"
<1> USE DEF TypeInv, Types
<1>1. ASSUME NEW w \in Dispatchers, DispatcherStep(w) \/ HandlerThrows(w) \/ DispatcherInterrupted(w)
      PROVE  status'[d] # "absent"
  <2>1. CASE Start(w)
    BY <2>1 DEF Start, SetDelivery, DeliveryTypes
  <2>2. CASE PersistWorkResult(w)
    BY <2>2 DEF PersistWorkResult, SetDelivery, DeliveryTypes, Decided
  <2> QED BY <1>1, <2>1, <2>2
          DEF DispatcherStep, RecoverExpiredWorkerJobLeases, Reserve, Load, Undeliverable, Post,
              ApplyWorkResult, HandlerThrows, DispatcherInterrupted, deliveries
<1>2. ASSUME NEW c \in Commands, CommandStep(c) \/ EnqueueFails(c) \/ CommandInterrupted(c)
      PROVE  status'[d] # "absent"
  BY <1>2 DEF SaveRedrive, SetDelivery, DeliveryTypes, CallTypes,
              CommandStep, ResolveIntent, LoadTarget, FindByIdempotencyKey, RecordIdempotencyKey,
              QueueWebhookDelivery, EnqueueFails, CommandInterrupted, deliveries
<1>3. CASE UNCHANGED vars
  BY <1>3 DEF vars, deliveries
<1> QED BY <1>1, <1>2, <1>3 DEF Next

\* The commands: only one that saves the redrive records its key, and only a
\* delivery that exists is queued.
LEMMA StepKeyedExists ==
  ASSUME TypeInv, TypeInv', KeyedExists, [Next]_vars PROVE KeyedExists'
<1> USE DEF TypeInv, Types
<1>1. CASE UNCHANGED <<deliveryKey, step, chosen>>
  BY <1>1, RowsStay DEF KeyedExists, CallTypes
<1>2. ASSUME NEW c \in Commands, CommandStep(c) \/ EnqueueFails(c) \/ CommandInterrupted(c)
      PROVE  KeyedExists'
  <2>1. \A d \in Deliveries : deliveryKey'[d] # NoKey => status'[d] # "absent"
    <3>1. CASE RecordIdempotencyKey(c)
      <4>1. \A d \in Deliveries : deliveryKey'[d] = deliveryKey[d] \/ d = chosen[c]
        BY <3>1 DEF RecordIdempotencyKey, DeliveryTypes
      <4>2. status[chosen[c]] # "absent" /\ chosen[c] \in Deliveries
        BY <3>1 DEF RecordIdempotencyKey, KeyedExists, CallTypes
      <4> QED BY <4>1, <4>2, RowsStay DEF KeyedExists
    <3>2. CASE UNCHANGED deliveryKey
      BY <3>2, RowsStay DEF KeyedExists
    <3> QED BY <1>2, <3>1, <3>2
            DEF CommandStep, ResolveIntent, LoadTarget, FindByIdempotencyKey, SaveRedrive,
                QueueWebhookDelivery, EnqueueFails, CommandInterrupted, deliveries
  <2>2. ASSUME NEW b \in Commands \ {c}, step'[b] \in {"record", "enqueue"}
        PROVE  status'[chosen'[b]] # "absent"
    <3>1. step'[b] = step[b] /\ chosen'[b] = chosen[b]
      BY <1>2, <2>2 DEF CommandStep, ResolveIntent, LoadTarget, FindByIdempotencyKey, SaveRedrive,
         RecordIdempotencyKey, QueueWebhookDelivery, EnqueueFails, CommandInterrupted,
         Proceed, Done, CallTypes
    <3> QED BY <2>2, <3>1, RowsStay DEF KeyedExists, CallTypes
  <2>3. ASSUME step'[c] \in {"record", "enqueue"} PROVE status'[chosen'[c]] # "absent"
    <3>0. \A what : Done(c, what) => step'[c] \notin {"record", "enqueue"}
      BY DEF Done, Outcome, CallTypes
    <3>1. CASE LoadTarget(c)
      <4>1. chosen'[c] = Target(c) /\ IsDeliveryStateAllowed(c, Target(c)) /\ Target(c) \in Deliveries
        BY <2>3, <3>0, <3>1 DEF LoadTarget, CallTypes, Target
      <4> QED BY <4>1, RowsStay DEF IsDeliveryStateAllowed
    <3>2. CASE FindByIdempotencyKey(c)
      <4>1. ItemKey(c) \in Keys /\ ItemKey(c) # NoKey
        <5>1. Target(c) \in Deliveries
          BY <3>2 DEF FindByIdempotencyKey, CallTypes, Target
        <5> QED BY <5>1, WebhookIds DEF CallTypes, ItemKey
      <4>2. \E d \in Deliveries : deliveryKey[d] = ItemKey(c) /\ chosen' = [chosen EXCEPT ![c] = d]
        BY <2>3, <3>2 DEF FindByIdempotencyKey, Proceed, CallTypes
      <4> QED BY <4>1, <4>2, RowsStay DEF KeyedExists, CallTypes
    <3>3. CASE SaveRedrive(c)
      BY <3>3 DEF SaveRedrive, SetDelivery, DeliveryTypes, CallTypes
    <3>4. CASE RecordIdempotencyKey(c)
      BY <3>4, RowsStay DEF RecordIdempotencyKey, KeyedExists, CallTypes
    <3> QED BY <1>2, <2>3, <3>0, <3>1, <3>2, <3>3, <3>4
            DEF CommandStep, ResolveIntent, QueueWebhookDelivery, EnqueueFails, CommandInterrupted,
                Proceed, CallTypes
  <2> QED BY <2>1, <2>2, <2>3 DEF KeyedExists
<1>3. ASSUME NEW w \in Dispatchers, DispatcherStep(w) \/ HandlerThrows(w) \/ DispatcherInterrupted(w)
      PROVE  UNCHANGED <<deliveryKey, step, chosen>>
  BY <1>3 DEF DispatcherStep, RecoverExpiredWorkerJobLeases, Reserve, Load, Start, Undeliverable,
              Post, PersistWorkResult, ApplyWorkResult, HandlerThrows, DispatcherInterrupted,
              deliveries, calls
<1>4. CASE UNCHANGED vars
  BY <1>1, <1>4 DEF vars, deliveries, calls
<1> QED BY <1>1, <1>2, <1>3, <1>4 DEF Next

\* A step of a dispatcher that has another delivery, before and after.
LEMMA OfAnother ==
  ASSUME NEW d \in Deliveries, Agreed(d), NEW w \in Dispatchers, ~InUse(w, d), ~InUse(w, d)',
         status'[d] = status[d], job'[d] = job[d],
         \A v \in Dispatchers \ {w} :
            /\ pc'[v] = pc[v] /\ held'[v] = held[v] /\ heldAttempt'[v] = heldAttempt[v]
            /\ copy'[v] = copy[v] /\ result'[v] = result[v]
  PROVE  Agreed(d)'
<1>1. \A v \in Dispatchers : InUse(v, d)' => v # w /\ InUse(v, d) /\ InStep(v, d)
  BY DEF InUse, Agreed
<1>2. \A v \in Dispatchers : InUse(v, d)' => InStep(v, d)'
  BY <1>1 DEF InStep
<1>3. InHand(d)' <=> InHand(d)
  BY DEF InHand, InUse
<1> QED BY <1>2, <1>3 DEF Agreed, JobTells

\* A step of the one dispatcher that has the delivery, up to its settlement.
LEMMA OfItsOwn ==
  ASSUME NEW d \in Deliveries, Sole(d), Agreed(d), NEW w \in Dispatchers, InUse(w, d), InUse(w, d)',
         InStep(w, d)', job'[d] = job[d], job[d] = "reserved",
         \A v \in Dispatchers \ {w} : pc'[v] = pc[v] /\ held'[v] = held[v]
  PROVE  Agreed(d)'
<1>1. \A v \in Dispatchers : InUse(v, d)' => v = w
  BY DEF InUse, Sole
<1>2. InHand(d)'
  BY DEF InHand, InUse
<1> QED BY <1>1, <1>2 DEF Agreed, JobTells

LEMMA DispatcherAgrees ==
  ASSUME Timely, TypeInv, NEW d \in Deliveries, Sole(d), Agreed(d), NEW w \in Dispatchers,
         DispatcherStep(w)
  PROVE  Agreed(d)'
<1> USE DEF TypeInv, Types
<1>0. InUse(w, d) => /\ job[d] = "reserved" /\ jobAttempt[d] = heldAttempt[w] /\ held[w] = d
                     /\ InStep(w, d)
  BY DEF Sole, Agreed, ActiveReservation, InUse
<1>1. ASSUME NEW e \in Deliveries, RecoverExpiredWorkerJobLeases(w, e) PROVE Agreed(d)'
  <2>1. e # d
    BY <1>1 DEF RecoverExpiredWorkerJobLeases, Agreed, JobTells
  <2>2. job'[d] = job[d] /\ UNCHANGED <<status, crew>>
    BY <1>1, <2>1 DEF RecoverExpiredWorkerJobLeases, HandBack, SetJob, JobTypes, deliveries
  <2>3. ~InUse(w, d) /\ ~InUse(w, d)'
    BY <1>1, <2>2 DEF RecoverExpiredWorkerJobLeases, InUse, crew
  <2> QED BY <2>2, <2>3, OfAnother DEF crew
<1>2. ASSUME NEW e \in Deliveries, Reserve(w, e) PROVE Agreed(d)'
  <2>1. /\ \A v \in Dispatchers \ {w} :
             pc'[v] = pc[v] /\ held'[v] = held[v] /\ heldAttempt'[v] = heldAttempt[v]
        /\ pc'[w] = "load" /\ held'[w] = e /\ UNCHANGED <<status, copy, result>> /\ pc[w] = "idle"
    BY <1>2 DEF Reserve, CrewTypes, deliveries
  <2>2. CASE e = d
    <3>1. job'[d] = "reserved" /\ status[d] \in {"pending", "retrying"}
      BY <1>2, <2>2 DEF Reserve, SetJob, JobTypes, Agreed, JobTells
    <3>2. \A v \in Dispatchers : ~InUse(v, d)
      BY <1>2, <2>2 DEF Sole, Reserve, ActiveReservation, InUse
    <3>3. \A v \in Dispatchers : InUse(v, d)' => v = w
      BY <2>1, <3>2 DEF InUse
    <3>4. InHand(d)'
      BY <2>1, <2>2 DEF InHand
    <3> QED BY <2>1, <3>1, <3>3, <3>4 DEF Agreed, JobTells, InStep
  <2>3. CASE e # d
    <3>1. job'[d] = job[d]
      BY <1>2, <2>3 DEF Reserve, SetJob, JobTypes
    <3> QED BY <2>1, <2>3, <3>1, OfAnother DEF InUse
  <2> QED BY <2>2, <2>3
<1>3. CASE Load(w) \/ Start(w) \/ Undeliverable(w) \/ (\E answer \in DOMAIN Verdict : Post(w, answer))
             \/ PersistWorkResult(w)
  <2>1. /\ UNCHANGED <<job, jobAttempt, held, heldAttempt>> /\ pc[w] # "idle" /\ pc'[w] # "idle"
        /\ \A v \in Dispatchers \ {w} : pc'[v] = pc[v] /\ copy'[v] = copy[v] /\ result'[v] = result[v]
    BY <1>3 DEF Load, Start, Undeliverable, Post, PersistWorkResult, Returns, Goto, jobs, CrewTypes
  <2>2. held[w] # d => status'[d] = status[d]
    BY <1>3 DEF Load, Start, Undeliverable, Post, PersistWorkResult, SetDelivery, DeliveryTypes,
                deliveries
  <2>3. CASE held[w] # d
    BY <2>1, <2>2, <2>3, OfAnother DEF InUse
  <2>4. CASE held[w] = d
    <3>1. InUse(w, d) /\ InUse(w, d)'
      BY <2>1, <2>4 DEF InUse
    <3>2. InStep(w, d)'
      <4>1. CASE Load(w)
        <5>1. pc[w] = "load" /\ status[d] \in {"pending", "retrying"} /\ status' = status
          BY <1>0, <3>1, <4>1 DEF Load, InStep, deliveries
        <5>2. pc'[w] = "start" /\ copy'[w] = heldAttempt[w]
          BY <2>4, <4>1, <5>1 DEF Load, Goto, CrewTypes
        <5> QED BY <2>1, <5>1, <5>2 DEF InStep
      <4>2. CASE Start(w)
        <5>1. pc'[w] = "post" /\ status'[d] = "delivering" /\ copy' = copy /\ copy[w] = heldAttempt[w]
          BY <1>0, <2>4, <3>1, <4>2 DEF Start, Goto, SetDelivery, CrewTypes, DeliveryTypes, InStep
        <5> QED BY <2>1, <5>1 DEF InStep
      <4>3. CASE Undeliverable(w) \/ \E answer \in DOMAIN Verdict : Post(w, answer)
        <5>1. pc'[w] = "persist" /\ status'[d] = "delivering" /\ copy' = copy
              /\ copy[w] = heldAttempt[w]
          BY <1>0, <3>1, <4>3
          DEF Undeliverable, Post, Returns, Goto, CrewTypes, InStep, deliveries
        <5> QED BY <2>1, <5>1 DEF InStep
      <4>4. CASE PersistWorkResult(w)
        <5>1. pc'[w] = "settle" /\ copy[w] = heldAttempt[w] /\ result[w] \in Outcomes
          BY <1>0, <3>1, <4>4 DEF PersistWorkResult, Returns, Goto, CrewTypes, InStep
        <5>2. \/ result'[w] \in Decided /\ status'[d] = result'[w]
              \/ result'[w] = "retry" /\ status'[d] = "retrying" /\ heldAttempt[w] + 1 <= MaxAttempts
          BY <2>4, <4>4, <5>1
          DEF PersistWorkResult, Returns, Goto, SetDelivery, CrewTypes, DeliveryTypes, Decided
        <5> QED BY <2>1, <5>1, <5>2 DEF InStep
      <4> QED BY <1>3, <4>1, <4>2, <4>3, <4>4
    <3> QED BY <1>0, <2>1, <3>1, <3>2, OfItsOwn
  <2> QED BY <2>3, <2>4
<1>4. CASE ApplyWorkResult(w)
  <2>1. /\ \A v \in Dispatchers \ {w} :
             /\ pc'[v] = pc[v] /\ held'[v] = held[v] /\ heldAttempt'[v] = heldAttempt[v]
             /\ copy'[v] = copy[v] /\ result'[v] = result[v]
        /\ pc'[w] = "idle" /\ status' = status /\ pc[w] = "settle"
    BY <1>4 DEF ApplyWorkResult, LetGo, CrewTypes, deliveries
  <2>2. held[w] \in Deliveries /\ result[w] \in Outcomes
    BY <1>4 DEF ApplyWorkResult, CrewTypes
  <2>3. CASE held[w] # d
    <3>1. job'[d] = job[d]
      BY <1>4, <2>2, <2>3 DEF ApplyWorkResult, HandBack, SetJob, JobTypes, Outcomes
    <3> QED BY <2>1, <2>3, <3>1, OfAnother DEF InUse
  <2>4. CASE held[w] = d
    <3>1. InUse(w, d) /\ ActiveReservation(w)
      BY <2>1, <2>4 DEF InUse, Sole
    <3>2. \A v \in Dispatchers : ~InUse(v, d)'
      BY <2>1, <3>1 DEF Sole, InUse
    <3>3. \/ result[w] \in Decided /\ status[d] = result[w]
          \/ result[w] = "retry" /\ status[d] = "retrying" /\ heldAttempt[w] + 1 <= MaxAttempts
      BY <1>0, <2>1, <3>1 DEF InStep
    <3>4. \/ job'[d] = "completed" /\ status[d] = "delivered"
          \/ job'[d] = "dead" /\ status[d] = "dead_letter"
          \/ job'[d] = "retrying" /\ status[d] = "retrying"
      <4>1. CASE result[w] = "delivered"
        BY <1>4, <2>4, <3>1, <3>3, <4>1 DEF ApplyWorkResult, SetJob, JobTypes
      <4>2. CASE result[w] = "dead_letter"
        BY <1>4, <2>4, <3>1, <3>3, <4>2 DEF ApplyWorkResult, SetJob, JobTypes
      <4>3. CASE result[w] = "retry"
        <5>1. heldAttempt[w] + 1 <= MaxAttempts /\ status[d] = "retrying"
          BY <3>3, <4>3 DEF Decided
        <5>2. ~(heldAttempt[w] + 1 > MaxAttempts)
          BY <5>1, WebhookBounds DEF CrewTypes
        <5>3. HandBack(d, heldAttempt[w])
          BY <1>4, <2>4, <3>1, <4>3 DEF ApplyWorkResult
        <5> QED BY <5>1, <5>2, <5>3 DEF HandBack, SetJob, JobTypes
      <4> QED BY <2>2, <4>1, <4>2, <4>3 DEF Outcomes
    <3> QED BY <2>1, <3>2, <3>4 DEF Agreed, JobTells
  <2> QED BY <2>3, <2>4
<1> QED BY <1>1, <1>2, <1>3, <1>4 DEF DispatcherStep

\* A command saves a redrive that was not there, or queues a delivery that is
\* neither decided nor in use; any other that it writes over is raced.
LEMMA CommandAgrees ==
  ASSUME TypeInv, KeyedExists, NEW d \in Deliveries \ raced', Agreed(d), NEW c \in Commands,
         CommandStep(c)
  PROVE  Agreed(d)'
<1> USE DEF TypeInv, Types
<1>1. UNCHANGED crew
  BY DEF CommandStep, ResolveIntent, LoadTarget, FindByIdempotencyKey, SaveRedrive,
         RecordIdempotencyKey, QueueWebhookDelivery
<1>2. InHand(d)' <=> InHand(d)
  BY <1>1 DEF InHand, crew
<1>3. ASSUME status'[d] = status[d], JobTells(d)' PROVE Agreed(d)'
  BY <1>1, <1>3 DEF Agreed, InUse, InStep, crew
<1>4. CASE SaveRedrive(c) /\ chosen[c] = d
  <2>1. status[d] = "absent" /\ status'[d] = "pending" /\ job'[d] = job[d]
    BY <1>4 DEF SaveRedrive, SetDelivery, DeliveryTypes, jobs
  <2>2. \A w \in Dispatchers : ~(InUse(w, d) /\ status[d] \in {"pending", "retrying", "delivering"})
    BY <2>1
  <2>3. job[d] = "absent"
    BY <2>1 DEF Agreed, JobTells, InHand, InUse, InStep, CrewTypes, JobTypes, JobStates,
                DispatcherSteps, Decided
  <2>4. \A w \in Dispatchers : ~InUse(w, d)
    BY <2>1 DEF Agreed, InUse, InStep, CrewTypes, DispatcherSteps, Decided
  <2> QED BY <1>1, <2>1, <2>3, <2>4 DEF Agreed, JobTells, InUse, crew
<1>5. CASE SaveFreshJob(chosen[c]) /\ chosen[c] = d /\ step[c] = "enqueue" /\ status' = status
  <2>1. job'[d] = "queued" /\ ~InHand(d) /\ status[d] \notin Decided /\ status[d] # "absent"
    BY <1>5 DEF SaveFreshJob, SetJob, JobTypes, KeyedExists
  <2>2. status[d] \in {"pending", "retrying"}
    BY <2>1 DEF Agreed, JobTells, JobTypes, JobStates, Decided
  <2> QED BY <1>3, <1>5, <2>1, <2>2 DEF JobTells
<1>6. CASE status'[d] = status[d] /\ job'[d] = job[d]
  BY <1>2, <1>3, <1>6 DEF Agreed, JobTells
<1>7. \/ SaveRedrive(c) /\ chosen[c] = d
      \/ SaveFreshJob(chosen[c]) /\ chosen[c] = d /\ step[c] = "enqueue" /\ status' = status
      \/ status'[d] = status[d] /\ job'[d] = job[d]
  <2>1. CASE SaveRedrive(c) /\ chosen[c] # d
    BY <2>1 DEF SaveRedrive, SetDelivery, DeliveryTypes, CallTypes, jobs
  <2>2. CASE QueueWebhookDelivery(c) /\ chosen[c] # d
    BY <2>2 DEF QueueWebhookDelivery, SaveFreshJob, SetJob, JobTypes, CallTypes, deliveries, jobs
  <2>3. CASE QueueWebhookDelivery(c) /\ chosen[c] = d
    BY <2>3 DEF QueueWebhookDelivery, deliveries, jobs
  <2> QED BY <2>1, <2>2, <2>3
          DEF CommandStep, ResolveIntent, LoadTarget, FindByIdempotencyKey, RecordIdempotencyKey,
              deliveries, jobs
<1> QED BY <1>4, <1>5, <1>6, <1>7

LEMMA StepAgreement ==
  ASSUME Timely, TypeInv, OneAtATime, KeyedExists, Agreement, [Next]_vars PROVE Agreement'
<1> SUFFICES ASSUME interrupts' = 0, NEW d \in Deliveries \ raced' PROVE Agreed(d)'
  BY DEF Agreement
<1>1. interrupts = 0 /\ interrupts \in Nat /\ ~Interrupted
  <2>1. interrupts \in Nat /\ ~Interrupted
    BY WebhookBounds DEF Interrupted, TypeInv, Types, SideTypes
  <2>2. interrupts' = interrupts \/ Interrupted
    BY DEF Next, vars, DispatcherStep, RecoverExpiredWorkerJobLeases, Reserve, Load, Start,
           Undeliverable, Post, PersistWorkResult, ApplyWorkResult, HandlerThrows,
           DispatcherInterrupted, CommandStep, ResolveIntent, LoadTarget, FindByIdempotencyKey,
           SaveRedrive, RecordIdempotencyKey, QueueWebhookDelivery, EnqueueFails, CommandInterrupted
  <2> QED BY <2>1, <2>2
<1>2. Sole(d) /\ Agreed(d)
  BY <1>1, RacedGrows DEF OneAtATime, Agreement
<1>3. \/ \E w \in Dispatchers : DispatcherStep(w)
      \/ \E c \in Commands : CommandStep(c)
      \/ UNCHANGED vars
  BY <1>1 DEF Next, HandlerThrows, DispatcherInterrupted, EnqueueFails, CommandInterrupted
<1>4. CASE UNCHANGED vars
  <2>1. InHand(d)' <=> InHand(d)
    BY <1>4 DEF InHand, vars, crew
  <2> QED BY <1>2, <1>4, <2>1 DEF vars, deliveries, jobs, crew, Agreed, JobTells, InUse, InStep
<1> QED BY <1>2, <1>3, <1>4, DispatcherAgrees, CommandAgrees

\* A job that is settled for good has a delivery decided alike, whichever the
\* order of the two saves, unless a call failed or a command wrote over what was
\* in use (RepositoryWebhookDeliveryWorkHandler and the queue, the redrives).
THEOREM StoresAgree == ASSUME Timely PROVE Spec => []SettledTogether
<1>1. TypeInv /\ TypeInv' /\ OneAtATime /\ KeyedExists /\ Agreement /\ [Next]_vars
         => (KeyedExists /\ Agreement)'
  BY StepKeyedExists, StepAgreement
<1>2. TypeInv /\ Agreement => SettledTogether
  BY DEF Agreement, Agreed, JobTells, SettledTogether, AtRest, Settled, TypeInv, Types,
         DeliveryTypes
<1> QED BY InitAgreement, TypesInvariant, OneAtATimeHolds, <1>1, <1>2, PTL DEF Spec
=============================================================================
