# OmniWA: formal specification

OmniWA is a WhatsApp API platform: an HTTP API accepts commands, application
handlers turn them into aggregates, durable jobs and domain events, worker
processes carry the jobs out through a provider (Baileys) runtime that owns the
WhatsApp sockets, and further processes publish events and deliver webhooks. Everything is shared through PostgreSQL (or, in small
deployments, JSON files), and almost nothing is done inside one transaction:
the system's correctness rests on the order of separate statements, on leases,
on idempotency keys and on retries. That is what this directory specifies in
TLA+, checks with TLC on small instances and, where marked, proves with TLAPS
for every instance.

- `X.tla` models a component, `MCX.tla` gives it small instances, each `.cfg` is
  one run of `PROJECT.json`, and `XProofs.tla` holds theorems. Four of the MC modules
  hold more than one component: a variable `scene`, fixed by the initial state, says
  which of them moves, the others stay where they began. The states of the scenes
  add up, they do not multiply.
- `PROJECT.json` lists components, runs, the mutants that show each property can
  fail, the source lines each definition stands for, the disagreements found
  between code and documents, the hazards, and the theorems.

To repeat a run: `tlc -workers 2 -config queue_timely.cfg MCWorkerJobQueue`; to
check the proofs: `tlapm WorkerJobQueueProofs.tla`.

## Inventory

| part (source) | state | operations | what is hard | what makes it correct |
|---|---|---|---|---|
| durable queue (`infrastructure-queue/durable-worker-job-queue-provider.ts`, `infrastructure-persistence/postgresql-repositories.ts`) | a row per job: status, attempt, visibility time, key | enqueue, reserve, acknowledge, releaseForRetry, moveToDeadLetter, recover | each operation is several statements; leases are not renewed; stale writes | one worker per job, bounded runs, final outcomes, nothing lost |
| in-memory queue (`in-memory-queue-provider.ts`) | a map of entries beside the rows | the same port | refused writes, restarts | one job per key, no run beyond the policy, an end is final |
| worker runtime (`apps/worker`) | the job in hand | run once, settle | crash between effect and record | at-least-once, no repeat without a crash |
| send pipeline (`application/services/handlers`: send, retry, cancel, process) | message, intent, job | accept, queue, claim, send, mark | job visible before the message is queued; crash after the provider accepted; cancellation racing the worker | the message's status tells the truth about the provider call; at most one send where possible; idempotent replies |
| outbound intents (`outbound-message-intent-store.ts`) | reference to sealed payload, bound message | store, bind, verify, resolve | expiry, double binding | an intent serves one message |
| guardrail, session resolver (`minimal-message-guardrail.ts`, `active-session-resolver.ts`) | decisions | decide, accept | decision stale when used | no send against a decision |
| event log and outbox (`postgresql-event-log-store.ts`, `event-outbox-consumer.ts`, `apps/background`; a JSON file in worker and provider runtime: `event-log-store.ts`) | log with sequence, outbox rows | append, replay, publish, mark | commit order against sequence order; failing head; two consumers | no event lost, readers miss nothing |
| realtime stream (`realtime-event-stream.ts`) | client cursor | replay, resume | replay and cursor lookup are two reads | no gap after a resume |
| provider ownership (`provider-runtime-ownership-guard.ts`, `provider-runtime-supervisor.ts`) | lease per session, sockets | acquire, renew, release, start, stop, tick | lease lost while the socket is open; overlapping ticks | one runtime drives a session |
| command receiver and bridge (`provider-command-receiver.ts`, `infrastructure-provider-bridge`) | pending command | connect, disconnect, pair, send | answer lost after the effect; two ways to the socket; owner elsewhere | an answer is what happened |
| Baileys socket provider (`infrastructure-provider-baileys`) | sockets, signals, credentials | start, close, drain, connection updates | callbacks of an old socket; credential save racing a clear | signals belong to the current socket; a restart finds what was saved |
| signal ingress (`provider-signal-ingress.ts`) | deterministic event ids | ingest | ids repeat over a session's life | each occurrence is recorded once |
| webhook delivery (`infrastructure-webhook`, `apps/webhook-dispatcher`, `retry-webhook-delivery.handler.ts`) | delivery, job | dispatch, retry, dead-letter, redrive | delivery and queue attempts diverge; job id reused | delivered is final; every failure ends in retry or dead letter |
| domain library (`packages/domain`) | 18 kinds of immutable aggregate, each with status, optional data and events | factories, transitions, policies | transition tables, event contracts and policies are written apart from each other | histories the contracts allow, or the order kept instead; data that fits the status; policies that agree with it, or the cases that do not |
| rows (`postgresql-repositories.ts`, in-memory and JSON repositories) | a row per aggregate, side columns beside it | save, load, find, record beside | three implementations of the same finders; a side value written between the read and the write of a save | a load gives what was saved; finders agree |
| group mutation (`group-mutation.handler.ts`, `domain/group`) | group aggregate with action log, intents | mutate | crash between save and publish; lost update; members named by their place | a change is done as told, once, to the member meant |
| instance commands (`application-dispatcher.ts`) | instance, its sessions, its jobs | create, destroy | five awaits of clean-up, a repetition, a worker in the middle | destroyed means cleaned up |
| queries (`application-dispatcher.ts`, `http-server.ts`) | none | read, filter, sort, page | parallel reads, offsets into a moving list | a walk of the pages slips once per change |
| schema (`postgresql-repositories.ts`, `postgresql-migration-cli.ts`) | tables, ledger of migrations | migrate, status | two processes migrate at once, killed on the way | the ledger and the tables agree; nobody works on half a schema |
| API keys (`api-key-lifecycle.ts`) | key records in a file | provision, rotate, revoke | read-modify-write of a file; crash inside rotate | a revoked key never works; a rotation leaves one active key |
| rate limiter (`api-rate-limiter.ts`) | counter per window | consume | lagging clock resets a newer window | limit per window |
| scheduler (`scheduler-runtime.ts`) | checkpoint per task, in memory | tick | restart and refused enqueue before the checkpoint | one job per window |
| read projections (`read-projection-store.ts`, `apps/projection-builder`) | projections with a cursor | rebuild, apply | replay, out-of-order versions | projections follow the log |
| backup, recovery validation, health, metrics, SDKs, docs tooling | none of their own, or derived | reports, probes | - | - |

Calls go API -> dispatcher -> handler -> repository/queue/event log; queue ->
worker -> dispatcher -> handler -> bridge -> provider runtime -> socket; socket
-> signals -> ingress -> event log -> outbox -> telemetry, streams.
Processes share PostgreSQL rows, and a volume with the JSON event log and the message
intents.

## Modules, and their order

Each was modelled because the ones before it stand on it, or because a hazard of
`PROJECT.json` had no property yet.

1. `JobLedger`, `WorkerJobQueue`, `WorkerJobQueueProofs`: the queue, on which
   everything asynchronous stands; its contract as an abstract module.
2. `OutboundMessage`, `OutboundMessageProofs`: the handlers of the send pipeline
   over a queue that does what `JobLedger` promises, and no more.
3. `ProviderOwnership`, `ProviderOwnershipProofs`: the lease guard, the supervisor of
   each runtime and its sockets; `ProviderCommands`: the bridge by which the others
   reach it; `SessionCredentials`: what a restarted runtime finds.
4. `EventOutbox`, `DomainProofs`: log append, outbox publication, replay; the proofs are
   about the aggregates of 9 too, whose events these are.
5. `WebhookDelivery`, `WebhookDeliveryProofs`: dispatcher, repository and redrive,
   whose attempts and job ids have to agree with the queue's.
6. `ApiCatalog`, `ApiAdmission`, `ApiAdmissionProofs`: every route with its checks,
   the limiter and the keys; the proofs are about the bridge too, the system's other door,
   and about the pages of 9.
7. `DurableJsonFile`, `SharedEventLog`: the JSON log in one file of several processes;
   `SchemaMigrations`: the tables the rest assumes; `SharedStateProofs` about all three
   and about the groups, the instances and the in-memory queue of 9.
8. `RuntimeProfiles`, `OutboundIntents`, `OutboundIntentsProofs`: which process keeps what
   where, and the intents and credentials that have to be found again.
9. `DomainEvents`, `DomainAggregates`, `DomainPolicies`, `DomainLibrary`,
   `AggregateRows`: the library and its rows; over it `GroupMutations`,
   `InstanceCommands`, `PublicQueries` and `InMemoryQueue`.

One abstract specification is stated and implemented: the ledger of jobs. What is left
is under "Not modelled".

## The durable queue: `WorkerJobQueue`

**Correspondence.** `status`, `attempt`, `visible`, `key` are the columns of
`omniwa_worker_jobs` (status and attempt are also inside the aggregate JSON, which
every save rewrites whole). `call[r]` is how far an `enqueue` call has come; a call
is `Lookup`, `EnqueueSave`, `EnqueueVisibility`, `RecordKey`, four statements.
`pc[w]`, `held[w]`, `heldAttempt[w]` are a worker process and its reservation.
`RecoverExpired` and `ReserveNext` are the two transactions of `reserve`;
`SettleLoad`, `SettleSave`, `ReleaseVisibility`, `ClearVisibility` are the
statements of `acknowledge`, `releaseForRetry` and `moveToDeadLetter`, which check
the reservation at the load and write unconditionally. `WorkerInterrupted` and
`CallInterrupted` are a crash, or a statement that fails: `capturePortFailure`
turns the exception into an error result and the loop moves on.

**Abstractions.** Times are "null", "later", "due": all the code does with them is
compare with now. One work type. `SKIP LOCKED` is an ordering: a locked row is
being changed by another statement, which is taken to come first. The lowest
unlocked id is any candidate. Status "running" is never stored by this provider.

**Timing.** `Timely` says which of three races the deployment wins: "lease"
(settled within the 30 s lease), "retry" (delay longer than one statement),
"enqueue" (no reservation between two statements of `enqueue`). The code enforces
none of them, so every run and theorem says which it assumes.

**Runs.** `queue_timely` (two calls of one key, two workers, two attempts, one
interruption, all races won): one holder per job, accepted calls agree, no repeated
success without an interruption, and refinement of `JobLedger` (bounded runs, final
outcomes). `queue_untimely` (no assumption; three attempts, two workers, one
interruption, fair processes): types and budget, settlement only for a reason, fewer
than 2^MaxAttempts runs, and every inserted job settled for good. Two workers
and one job suffice for every race between a stale and a current holder; the third
attempt shows the doubling of runs. `queue_enqueue` is a counterexample without any
crash and with a handler quicker than its lease: enqueue's own second statement ends
the lease of a worker that was quick to reserve.

**Further disagreements with `docs/`, not run.** A handler slower than its lease is joined by
a second worker (`STATE_MACHINES.md:197`). A release saved after the job was taken over
and died makes a dead job retrying (`STATE_MACHINES.md:199`). A call refused by the UNIQUE
key leaves a job that runs (`IDEMPOTENCY_STRATEGY.md:44`). Each is a behaviour of the
specification with the corresponding race not in `Timely`.

**Fairness.** The worker loop reschedules itself and awaits each tick, an HTTP
request runs to its end, the clock moves; handlers return because provider and
HTTP calls have timeouts. A crash is never assumed to happen, nor not to.

**Proofs** (`WorkerJobQueueProofs`). Part 1, for any timing and any sharing of job
ids: `TypeCorrect` and `SettledOnlyForAReason`, from `Inv`, which adds that an
attempt number never exceeds the runs that justify it and that a pending
settlement has its verdict. Part 2, for distinct job ids: `AcceptedOnce`, from the
uniqueness of the key column. Part 3, with all races won: `ExclusiveWork`,
`NoIdleRerun` and `QueueImplementsLedger`, from `TimelyInv`: the row of a held job
is exactly as its holder left it, which is why an unconditional write is safe then
and only then. Part 4, with none of them won, for distinct job ids: `RunsStayBounded`. A run of the n-th
attempt may be followed by two of the next, one its stale release brings about and one its lease's
end does, so that `Follow(n)` = 1 + 2 * `Follow(n + 1)` runs may come of it. The sum over the
workers that still hold the job is kept without induction: each run takes one of the places
1..`Follow(1)`, and the row and every holder keep a stretch of places to themselves, as long as the
runs that may come of them (`Share`); a reservation takes the first place of the row's stretch and
halves the rest, a release hands the worker's stretch to the row, anything else only shortens one.
That powers double comes from the number of subsets of a set (`Doubles`). `WorkSettles` is
model-checked only (liveness).

## The send pipeline: `OutboundMessage`

**Correspondence.** `status[c]` and `mkey[c]` are the row of the message that command
`c` creates in `omniwa_messages`; `job[c]`, `runs[c]`, `jkey[c]` its row in the queue, as
`JobLedger` sees it. `cpc[c]` is the step of `SendTextMessageHandler` or
`RetryMessageSendHandler` (one module for both: they differ in what they check first
and in how they answer for a known key), `wpc[c]` the step of
`ProcessOutboundMessageWorkHandler` for the job, `seen[c]` the status it loaded,
`xpc[x]` the step of `CancelMessageHandler`. `sends[c]` counts how often the provider took
the message, `doubts[c]` the calls whose answer was lost or uncertain. "refused" is
a failed message without guardrail decision (which cannot be retried).

**What a step is.** One await. A save rewrites the whole row from the aggregate in the
handler's hand; nothing compares it with the row. The three ways a run can end
(`complete`, `handback`, `giveup`) are `dispatchWorkerCommand`'s mapping of outcomes.
`Announce` may end in `giveup` because the event log (in a worker, the JSON file)
labels every failure `unsafe_payload`, a failed write included, which is not retryable.

**What is assumed of the queue.** Exactly `JobLedger`: at most `MaxAttempts` runs, one at
a time, a cut-off run is handed out again while attempts are left. That the queue
gives this is `QueueImplementsLedger`, and needs the three races of the queue won;
without them every property about duplicates falls with `NotRunningInTwoWorkers`.

**Abstractions.** Session, intent and guardrail are asked and may say no at any time.
Media sends follow the same handler shape and are the same commands here. A
cancellation is made once; repeating it with its own key only reads. "evaluated"
is never stored, "delivered" and "read" are written by nobody yet.

**Runs.** `message_safety`: a send, the client's repetition of it with the same key, and
a cancellation, with interruptions: the smallest instance in which a key is shared and
taken away. `message_nocancel`: a send, its repetition and a retry of its message,
no cancellation: here answers have jobs behind them, retries do not race, and, with fair
handlers, queued messages are decided.

**Seen while modelling, not run.** A run that finds the message still "created" hands the
job back at the cost of an attempt. So two quick runs while the request is slow use up a
budget of two: the job is dead, the message is saved as queued afterwards and stays so,
without any crash. `QueuedIsDecided` allows for it: a queued message is decided or its
job is out of attempts. With a cancellation a stale save undoes it, and a cancellation may be saved over a sent
message (`docs/architecture/RUNTIME_LIFECYCLE.md:155` calls both terminal; not run);
`QueuedWorkIsVisible` fails too: the key column is overwritten, and a
repeated send is answered "queued" for a job that was never inserted. Two attempts are enough where the question is "again or not", three where
a path must use one up first. Deadlock is not checked: a finite set of commands comes
to an end.

**Duplicates.** `docs/architecture/ASYNC_PROCESSING.md` asks that duplicate provider sends
be prevented. The code cannot: a bridge timeout is retried without asking what became
of the call. `DuplicateNeedsDoubt` is what it does promise.

**Proofs** (`OutboundMessageProofs`), for any commands, retries, shared keys and
cancellations: the five properties of `message_safety`, from one inductive invariant.
Its parts: until a command publishes, no run of its job gets past the load
(`PendingIsQuiet`); from the claim on the row says processing or cancelled
(`ClaimShows`); a send that left no doubt is being recorded, or is recorded in a
status the load does not dispatch (`TakenIsRecorded`), which is what excludes
duplicates; a refused command leaves nothing dispatchable (`RefusedIsOver`); a
dispatched job holds its command's key and keys are unique (`JobHoldsKey`). The only
assumptions are on identities (`PipelineIds`) and that the budget is positive.

`RetryIsAlone` adds `RetriedIsOver`: a message that failed has a finished command and no run
beyond giving up, and stays so whatever cancellations do to its row; an admitted retry has such
an original. `AbsentIsUntouched` is needed because a cancellation saved over a row that does not
exist would make a retry of it. `QueuedHasWork` assumes that nothing is cancelled, as its property must.
Its invariant, `VisibleInv`, shows on the way that `enqueue` never meets a known key then: the
message row's unique key has stopped the second command before (`QueueKnowsNoKey`).
`QueuedIsDecided` is liveness and model-checked only.

## Provider ownership: `ProviderOwnership`

**Correspondence.** One session. `owner` and `expired` are its row in the lease table and
whether `expires_at` has passed; `record[r]` and `state` are the supervisor's map in
runtime `r` and the records in it (a call keeps the record it loaded, so records are named
after the start that made them and outlive their place in the map); `mapped`, `open`,
`queue` are the socket provider's map, its live sockets and its undrained signals;
`clearing` holds the logged-out sockets whose signal waits for their credentials to be
cleared. `pc[c]` is the await a start, a stop or a tick is at, `ref` and `sock` what it
holds across that await, `batch` the signals a tick drained and has yet to ingest.

**What a step is.** From one await to the next. A lease query is two steps, its
execution in the database and its answer, so that any call may run in between.
Supervisor states are grouped by what the code decides from them: holding
(`shouldHoldOwnership`), down, destroyed. A signal is named after the group it leads to.

**Slips.** Nothing in the code ties an open socket to the lease: the lease is asked for
before a socket is made and given back after it was closed, and ticks renew it in between.
`slip` records the first event after which this order no longer helps; the module lists
the seven kinds with what they are in the code. `LeaseCoversSocket` and
`SocketsAreReachable` hold until the first slip, and each kind is needed: with any one of
the seven left out of `Slips`' marking, TLC finds `LeaseCoversSocket` violated. Every other interleaving, with crashes,
expiries and logouts, is covered.

**Runs.** `ownership`: two runtimes; one starts, stops and starts again, with its drain
loop, the other starts too. Two starts of one runtime are needed for a record and a
socket that have been replaced, two runtimes for a lease to be taken over. `MaxSignals` = 1
lets a start's signal meet a full queue; the safety properties were also checked with 2.
`MaxFaults` = 1: the properties speak of the time before the first slip, and crashes are
faults too. `LostLeaseNoticed` assumes that ticks are fair: the interval keeps firing
and queries are answered (one that throws is an unhandled rejection of the tick, and
ends the process: `Crash`). Starts, stops,
sockets and expiry need no fairness. Deadlock is not checked, since runtimes may be
shut down.

**Disagreements found while modelling, without a run.**

- A session whose lease was lost is drained without the lease from the second tick on
  (`provider-runtime-supervisor.ts:274`).
- A session whose start failed cannot be started again in the same process: the receiver's
  comment takes the rejection for a sign of ownership, while nobody owns the session.
- `docs/architecture/LIFECYCLE_GUARDRAILS.md:19` (LG-005) allows one attached
  runtime per session. Each slip can break this. An unsupported inbound message is reported as
  a failure signal, which takes a connected session down: its lease is no longer renewed
  although the socket lives.
- A failed close, and a shutdown, give the lease back while the socket stays open.
- A reconnecting session holds its lease for good: nothing reconnects it.
- Stopping a destroyed or logged-out session leaves it down, and so not startable.
- A stop racing a tick: the tick's renewal takes the released lease again, or its
  signals revive the destroyed record.

**Proofs** (`ProviderOwnershipProofs`), for any number of runtimes, starts, stops and
ticks: type correctness, `SocketsAreHeld`, which is `LeaseCoversSocket` and
`SocketsAreReachable` (a theorem each, and one for both), and `AttachedOnce` (one
runtime, one socket; `OneRuntime`), which follows from them. `Inv` is `Types /\ (slip = None => Safe)`; `Safe`
says, for each runtime, that a start at work after the grant, a holding record with
its tick, and an open socket all imply the lease (`SocketSafe`, `RecordSafe`), and what
each stop and each tick may rely on. Each step concerns one runtime, so the proof has a
lemma per kind of step for that runtime, and frame lemmas that hold the other runtimes still.
Assumed are only the identities (`OwnershipIds`, `OwnershipBounds`). Liveness stays
with TLC.

## Event log, outbox and stream: `EventOutbox`

**Correspondence.** `nextSeq`, `seqOf` and `outbox` are the PostgreSQL tables: the
bigserial, the log rows by their number, and the status of the outbox rows. A call `a` is
one run of `publishNewEvents` with the events `Plan[a]`; `answers[a]` are the cursors it
was given so far, so that `Turn(a)` is the event it is at. `batch[c]`, `hand[c]`,
`cpc[c]` are one `drainPending`; `cursor[r]` and `seen[r]` a client of the stream.
`overtaken`, `pubs` and `unmarked` are history.

**What a step is.** One statement of the append's transaction. `INSERT ... ON CONFLICT
DO NOTHING` is two: it draws its number first, then waits for a transaction that holds
the same id. The number is not given back, by a conflict or a rollback. A failure may
come at any statement, and at the commit with or without its effect. In a drain, a step is
one await.

**Plans.** Event ids are made of the command's reference, the aggregate, and the
event's index and name. A repetition of a call has the same plan, or, when the aggregate
had grown in between, one that agrees with it on what they share: that is `PlansAgree`.
`Rank` is the order by `created_at` and `outbox_id`; it is arbitrary, because processes
have clocks of their own and ids of one millisecond sort by name.

**Properties.** `AppendsStand` is `AnswersStand` and `LoggedInOrder`: appends are idempotent by
id, and a plan that is appended twice at once, with failures, is still logged in its order.
`RepublishedForAReason`: at least once, and every further publication has a mark that did
not get through. `MissedOnlyOvertaken`: rows may become visible out of the order of their
numbers, and a client that has passed such a number never receives the event; nothing
else is withheld. `PublishedEventually`: a refused record is passed over.

**Bounds.** The run `event_outbox` has a command that is called twice with two events,
another command with one event that ranks first and is refused by the publisher, a
consumer, a client with pages of one event, two failures or crashes. Two consumers with
one failure were checked for safety as well (4.1 million states, outside the listed runs).
The batch is two, the hundred of the code: with as many refused records as a batch holds,
the rest is never looked at, which the hazards name. Deadlock is not checked: the
system stops when all is appended, published and read.

**Fairness.** Weak, for each consumer's drain: the loop's timer keeps firing, its ticks
do not overlap, and queries are answered. Calls and clients need none.

**Disagreements found while modelling, without a run.** `EVENT_CONSISTENCY.md:84-94` (in `docs/domain`)
orders events per aggregate; the log keeps that order and the outbox does not: records
are taken by `created_at`, and one whose publication fails is passed over by later ones of
the same aggregate. A plan whose append fails half way is never completed, unless the
command is repeated and its handler publishes again.

**Proofs** (Part 1 of `DomainProofs`), for any number of calls, events, consumers, clients and
failures: type correctness and the three safety properties. `Inv` adds to them that the
numbers of running transactions are distinct, unused and below `nextSeq`, and that one
transaction holds an id (`NumbersOK`); that a call's number is above those of the events it
was answered for (`PlanBehind`), from which the order of the log follows with `PlansAgree`;
that a consumer owes a record a mark only while it holds it (`Settled`); and that a cursor
is the number of a committed row, so that a number committed below it was overtaken.
Assumed are `OutboxConstants` and `PlansAgree`. Liveness stays with TLC.

## Webhook delivery: `WebhookDelivery`

**Correspondence.** `status[d]`, `attempt[d]`, `deliveryKey[d]` are the row of
`omniwa_webhook_deliveries`; `job[d]`, `jobAttempt[d]`, `jobKey[d]` that of its job, which
has the delivery's id. `pc[w]`, `held[w]`, `copy[w]`, `result[w]` are one
`dispatchNextUnrecorded` of a dispatcher with the reservation and the aggregate it has
in memory; `step[c]`, `todo[c]`, `chosen[c]`, `tally[c]` one call of the retry, redrive or bulk
redrive handler with its items. `enqueued`, `posts` and `raced` are history.

**What a step is.** One await: load, save as delivering, HTTP call, save of the outcome,
settlement of the job. Both stores are written whole from memory, one after the other.
A queue call is one action: what interferes within it is the matter of `WorkerJobQueue`.

**Abstractions.** Signing and the URL do not change what is decided, so `Post` chooses the
classified outcome (`Verdict`). The command's authorisation has been decided by the API. An
intent may have expired or be missing whenever it is asked for. Bulk selection has
been made: a command carries its targets.

**Runs.** `webhook`: one delivery that was scheduled, its redrive, two dispatchers, a retry
or bulk redrive and another bulk redrive of it, two attempts, one crash or failed statement,
leases that outlast the work. Two commands are needed for a repetition by key and for a
command that overtakes another; two attempts for "again" and "no more". INV-W-003
(`docs/domain/DOMAIN_INVARIANTS.md:75`) calls a delivered delivery terminal; it is not when a
command that decided on the status it read enqueues a fresh job meanwhile.
`DeliveredMovesOnlyRaced` is what does hold.

**Fairness.** Weak, for each dispatcher's next step and for each command's: the loop
reschedules itself after each run, HTTP calls are bounded by the gateway's timeout, and a
request that was accepted by the API runs on unless its process dies.

**Proofs** (`WebhookDeliveryProofs`), for any number of deliveries, dispatchers and commands,
timely or not: `TypeCorrect`, and `BudgetHolds`: at most `MaxAttempts` requests for each fresh
job. The strengthening counts, for each delivery, the dispatchers that may still post; such
a dispatcher holds the job reserved, or the job's attempt has moved on past its own, so
requests made and requests that may still come stay below the attempts consumed. It
needs finitely many dispatchers, hence the cardinality lemmas. Assumed are
`WebhookIds` and `WebhookBounds`.

`DeliveredIsDelivered` adds `OneAtATime`: as long as no command raced with a delivery, at most
one dispatcher has it in use, that one holds the job's reservation, and between its load and its
save the row does not say delivered. `StoresAgree` is proved for timely dispatchers only, because
the code gives no more: one whose lease lapsed saves its outcome over whatever its successor
wrote. Its invariant `Agreement` says what the row is while its dispatcher stands at each step,
and what it is when the job is in nobody's hand; `KeyedExists` keeps a fresh job from a row that
was never saved. Liveness is model-checked only.

## The HTTP API: `ApiCatalog`, `ApiAdmission`

**Correspondence.** `ApiCatalog` is data: the routes of `matchRoute`, the catalogues of
commands and queries, the tables of boundaries and scopes, the dispatcher's
registrations. `ApiAdmission` takes requests through them: `pc[r]` is where `handleApiHttpRequestInternal`,
`handleApiEventStreamRequest` or `handleApiKeyLifecycleRoute` waits; `cred`, `owned`, `mark` and `loaded` are
its locals; `keys` is the file of the key store, `counts` the limiter's counters, in Redis or in
each process. `audited`, `unrecorded`, `spent`, `forgotten`, `retired` and `registered` are history.

**What a step is.** What runs between two awaits. Authentication reads the key file at each
request (runtime-composition.ts:576), so a request that has passed the door is worked on
though its key is revoked meanwhile. `rotate` and `revoke` are one step per access of the file;
the file itself is read and written in one go by the one API process that has it.

**Abstractions.** A path is the kind of resource it names; `Variants` in the MC module gives each
route a body that fails validation, no idempotency key, a resource of another
instance, an id of the wrong form. A handler may return any outcome that its kind allows:
what it does is the matter of the other modules. A security sink is configured, as production
composition demands (runtime-composition.ts:944).

**Run.** `api` unites three sets of workloads with those of the bridge (next section). One request on each of the routes, by an
administrator, a key bound to one instance, a monitoring key and nobody, in a full deployment and in
a bare one. Three requests on one bucket with a limit of one, which is enough for two that race and
one that is late; two windows, in memory (where a crash loses the counters) and in Redis (where a late
request starts the bucket anew). Three calls that rotate, revoke or provision, about the only key
that works, with one failed write or crash. One fault, two processes.

**What it shows.** `DenialsAudited` has one exception, in the property: a group mutation refused for its
capability (http-server.ts:1488) is answered 403 without a record, although
docs/platform-evolution/PR-07_AUTHORIZATION_AND_RATE_LIMITS.md:25 has the boundary record
authorization denials. `LimitPerWindow` and `KeysChangeOnPurpose` (some key works, and a revoked
key stays revoked) name the races that break them. The
answer to an asynchronous command is 202 even when its handler rejected it (`StatusOf`), where
docs/api/ASYNC_OPERATION_MODEL.md:141 has an error response.

**Requests that get no answer.** No liveness is claimed for requests: what the limiter's store or the event source throws is caught by nobody and ends the
process (`Rejected`), which is why a request may also be lost.

**Proofs** (`ApiAdmissionProofs`), for every finite set of requests and any processes, keys,
workloads, limits and faults: `TypeCorrect`; `KeyRemains` and `RevocationHolds`, together
`KeysKept`, whose
strengthening says that the id a registration is about to save was free, or that another
registration of the same id is under way; and `LimitKept`: for each bucket and window the
tokens taken are at most what the store still counts for it (`Given`), which is the count
in the store's own window, the limit for an earlier one and none for a later one.
The steps that could break this, a late request and a process that dies with its counters,
are those that add to `forgotten`. Assumed are `ApiIds` and `ApiBounds`.
`RefusalsOnRecord`: its invariant `Noted` adds to `DenialsAudited` that a request which an
administrator makes past the ownership of a resource has its record from the moment it may ask
for a token (`PastOwner`), not only when it has a result; that a saved key still owes its record
while the call is not over comes from the invariant of the keys.

## The bridge to the provider runtime: `ProviderCommands`

**Correspondence.** `waiting` and `told` are the callers of
`FetchProviderCommandTransport.execute`, who wait five seconds; `handler[c]` is the await at which
the server's handler of command `c` is, and it goes on when its caller has given up. `record`
and `state` are the supervisor's session, `socket` the socket provider's, `acquired` the older
`ProviderRuntime`'s ownership, which has no other owner than this process. `had` and `did` are
history: whether there was a socket while a command was handled, and what the command did at
WhatsApp's. A result keeps the category and the retry flag, by which callers decide; statuses and bodies
are translated both ways (`StatusForFailure`, `Read`).

**What a step is.** What runs between two awaits of the receiver, the supervisor or the adapter. The lease
is asked in one step; `ProviderOwnership` has its queries, the second runtime and the signals. The `signals`
and instance states of `ProviderRuntime` feed a snapshot for display and are left out.

**Run.** `api`, scene "bridge": a connect, then two commands of any usual kind, or a disconnect and one
of any kind (without a session, with a wrong token, path or body, a pairing, a summary); one tick, one crash
or lost lease. `BridgeIsTrue` has two parts. `AnswersTellTheTruth`: "connecting" or "connected" is said only if
there was a socket, "disconnected" only by the command that logged it out, "accepted" only by the one that sent,
and a refusal that is final did nothing. `SocketsAreOnRecord`: a socket that can be found has a supervisor's record.
**Proof** (`ApiAdmissionProofs`, part 5), for any commands, error codes, ticks and losses: `BridgeHolds`. The
inductive invariant adds what a handler has behind it at each of its awaits (nothing done, until it calls
WhatsApp; logged out, before it releases; a record, while it starts) and that a final refusal is given only by
a handler that is through, of a command that did nothing. The statuses of HTTP never change an answer (`ReadBack`).

**Seen while modelling, not run.**

- Since sockets are always on record, the way round the supervisor never logs one out: a disconnect
  that takes it always answers "rejected", although the receiver's comment speaks of idempotent
  disconnects.
- A connect repeated while the first has no socket yet, or while another runtime owns the session (both are
  "already active" to the supervisor), is refused for good, although the comment in the
  receiver wants repeated connects to "stay idempotent"; so is a send during a start or after a
  restart of the runtime.
- A disconnect of a destroyed session fails as "retryable" each time, and leaves the session down.
- `commandId` is read by nobody; docs/adr/ADR-0010-provider-runtime-worker-bridge.md:124 asks that bridge retries be
  idempotent.
- An error with status 428, which is Baileys' "connection closed", is "unknown" and not retryable.
- Pairing by QR answers ok though there is no session. A query of the lease that throws is an unhandled rejection,
  and ends the process (`CrashRuntime`).
- Only disconnects (destroying an instance) and sends (the worker) are called by code of this repository.

## JSON files: `DurableJsonFile`, `SharedEventLog`

**Correspondence.** Every durable JSON store is one file that is replaced as a whole:
`OpenTemporary`, `FillTemporary`, `RenameTemporary` are the steps of
`DurableJsonStateStore.write` (`writeFileSync` truncates, then fills). `content` is kept per
inode, `fileAt` and `tmpAt` are what the two names lead to, `memory[p]` is the store's state
in process `p`, read once in the constructor. `SharedEventLog` puts the JSON event log on
it: `Appended` is `appendEvent`'s new state, `request[p]` the id being appended,
`answered` what callers were told. An append is synchronous, so a process is in
one write at a time; two processes interleave, and a kill or a refused write may come
between any two steps. A loss of power is left out: nothing is ever synced.

**Run.** `shared_state`, scene "log": the worker appends four domain events and the provider runtime a
signal, to the file `compose.production.yml:73,130` gives both. One kill and one failed
write let each step be cut off; retention of two under four events lets one expire.
`WholeUnlessOverlapped` needs no assumption. `RecordedForGood` has three parts: `RecordedOnce`
needs none either; `AnsweredAreKept` and `CursorsKeepTheirEvent` hold for a process as long as no other has written: with two
writers each write drops the other's events and both give out the same cursors, which
is what the deployment does (`compose.production.yml:73,130`). The other exception is an
event whose write failed: it stays in memory, so its repetition is answered as
recorded.

**Proof** (`SharedStateProofs`): `FileIsWhole`, for any number of processes, inodes and
states, of the file under any store. Its invariant ties each open descriptor to the
temporary name: with one writer between open and rename, what is renamed is what that
writer filled. `LogIsAStore`: every step of the log is one that a store may take, so this holds
of the log's file. `LogIsForGood` states `RecordedForGood` for any appends, retention,
kills and refused writes. Its invariant has two halves. `GoodLog`: whatever file or memory a log
is in, appends made it from the empty one (the n-th entry of the outbox has cursor n, ids
differ, and the retained events are the outbox's tail), so two states of one writer can be compared entry by
entry. `LoneWriterKeeps`: the memory of a process that wrote alone begins with what is in the
file, and all it has beyond that is the event it is writing or one whose write failed.
They assume that a torn file does not parse as a log (`LogFile`).

## The schema: `SchemaMigrations`

**Correspondence.** `runPostgresqlSqlMigrations` statement by statement, once in each process
that migrates: the ledger table, the applied ids, then for each pending migration BEGIN, its
statements, the insert into the ledger, COMMIT. The database is its committed objects and,
for each open transaction, what it has created. PostgreSQL is modelled from what the
code relies on: whoever creates what an open transaction has created waits for its end, and
fails if it commits; `IF NOT EXISTS` looks at what is committed. The migration command and the barrier in
front of each repository call (`createPostgresqlMigrationBarrier`) are its callers.

**Run.** `shared_state`, scene "schema": the API, a worker of an older version that
knows one migration of the two, and the command; four starts, kills at any time, one refusal. `compose.local.yml:17,57` lets API and worker
migrate at the same time, without a lock; production sets OMNIWA_POSTGRES_AUTO_MIGRATE to "false"
(`compose.production.yml:12,72,107,161`) and runs the command. `SchemaIsWhole` holds for both.

**Seen while modelling, not run.** The barrier keeps its promise, a rejected one too
(`postgresql-repositories.ts:1718`): a process whose first migration lost against another
refuses every repository call until it is started again. The ownership guard keeps one of its
own (`provider-runtime-ownership-guard.ts:280`). Nothing stops a process that does not migrate from serving an older
schema.

**Proof** (`SharedStateProofs`): `SchemaStaysWhole`, for any number of processes of any versions
and any number of kills and failed queries. What makes `SchemaIsWhole` inductive is `AloneAtCommit`:
one transaction at most is past the insert of an id, it found the objects missing, and every other
transaction at that migration is marked as beaten by the commit itself; `InOrder` says that a
process reaches a migration only over recorded ones, so the ledger has no gap.

## Environments and intents: `RuntimeProfiles`, `OutboundIntents`

**Correspondence.** `RuntimeProfiles` has no state: it translates the five
`runtime-composition.ts`: which values of a setting are read how, which combinations are
refused, what the production profile requires, and where the process keeps rows, jobs,
intents and events. `SetUp` compares the places of the processes of one environment.
`OutboundIntents` runs the intent store in such an environment: the API stores, binds
and retries; the worker verifies; the provider runtime resolves. `stage[m]` is how far a
message's request or job is; everything else about it is in `OutboundMessage`.

**Run.** `intents`, scene "intents": two sends and a retry of the first, one kill and one failed write, in
the environment of `compose.production.yml` and in all 11 000 that differ from it in at
most two settings (they collapse into 75 set-ups; of those that differ only in the dispatcher and the background process,
which no action reads, one is run and all are looked at). `ProductionShares` is the point of the
production profile: every process checks only its own settings, and those that start must
agree. It assumes that one environment is given to all; containers that are given
different values of one setting cannot detect it. `IntentsAreFound` has two parts: the intents of queued messages survive kills and
failed writes, and only a reader that is older than an intent misses it, which is what is left of sharing: the worker and the
provider runtime read the file when they start and never again, so an intent stored
later is unknown to them and its message fails for good, although the worker's
composition asks for a "shared intent store" (`apps/worker/src/runtime-composition.ts:383`).

**Proof** (`OutboundIntentsProofs`): `ProductionAgrees` states `ProductionShares` for every
environment, however many settings differ: the run's bound of two settings is not needed. It
follows from what each composition asserts, process by process, and from the places it then
computes. `IntentsStayFound` states `IntentsAreFound` for any
environments, messages and bounds. Its invariant says that only the API is ever
in the middle of a write (`SoleWriter`), that its memory has what the file has, that a message being
bound is in that memory, and that a reader which started later has the intents of the
messages queued before (`LaterReadersKnow`, which needs `ProductionAgrees`: it is because the places agree that
it read the API's file). It assumes that a torn file does not parse as intents
(`IntentFile`).

**Seen while modelling, not run.** The worker and the provider runtime always log events
to a JSON file, the API and the background process to PostgreSQL: events of the worker reach no
outbox consumer. With JSON repositories and no intent path the provider runtime alone keeps
its intents in memory. A setting that is present but empty hides the one it falls
back to (`?.trim() ??`).

## Credentials: `SessionCredentials`

**Correspondence.** `baileys-auth-state-store.ts` and the sockets that use it: the file of a
session's credentials as a runtime read it when it was composed, the copy of each socket, the
listeners that stay on a socket after its end. A save writes a socket's whole copy, a clear removes
it. Encoding, checksum and encryption are left out, and a write is one step (`DurableJsonFile` has
its three).

**Run.** `intents`, scene "credentials": two sessions, runtimes that overlap during a restart, WhatsApp's
updates and its end of a pairing, a write that is refused. `CredentialsAreKept` names what
breaks it, each of which the code allows: two runtimes on one file lose each
other's updates, since neither reads it again; a socket that was closed or logged out
still saves a late update, which brings cleared credentials back
(`baileys-socket-provider.ts:412`); and a refused write remains in memory only.

**Proof** (`OutboundIntentsProofs`): `CredentialsStay`, for any number of runtimes, sessions and
bounds. What makes `CredentialsAreKept` inductive: a runtime that is down has no socket and nothing
left to save, and a socket between loading and opening still holds what was last saved
(`LoadedIsNewest`). It needs that credentials are never null (`NoCredentialsAreNone`).

## The domain library and its users

**The library** (`DomainEvents`, `DomainAggregates`, `DomainPolicies`, `DomainLibrary`). Aggregates are immutable
values, and a function of the library is an operator from one to the next, or to `Throws`. Optional fields and flags are the
set `has`; texts, display names, hashes of ids and the actors of group actions are left out. `DomainLibrary` is one
aggregate of any of the 18 kinds in the hands of a program that calls whatever does not throw, in any order.
`LibraryIsConsistent` relates what the source keeps in three places: the transition tables, the event contracts, and
the specifications and policies; what disagrees is named in the property and listed here.

*Out of order.* `EventsInContractOrder` reads the ordering requirements of `event-contract.ts` against what an aggregate has
behind it (`Required`); what they say of others (a caller, a clock, another aggregate: `OfOthers`, such as `after_guardrail_passed`,
where the library asks for an id and not for a decision) it cannot say. Twenty events are let out of the order
docs/domain/EVENT_CONTRACTS.md gives them. Fourteen keep another one, which the property states in its place (`Instead`):

| Event | The document | The code | What holds instead |
| --- | --- | --- | --- |
| `SessionPairingStarted` (:36), `SessionPending` (:37) | "Before Pending/Activated.", "Before Active/Expired/Revoked." | an expired session is paired anew | none after `SessionRevoked` |
| `MessageRejected` (:46) | "Before queued state." | also from queued, processing and sent | none after it was delivered, read or cancelled |
| `MediaFailed` (:58) | "Can occur after accepted/processing." | also from received and processed | none after `MediaAttached` |
| `WebhookSubscriptionValidated` (:63) | "Before activation or delivery." | an invalid subscription, active before, is validated again | after an activation only if invalidated |
| `WebhookDeliveryFailed` (:72) | "After delivering/retrying." | also from pending | none after a success |
| `WebhookDeliveryDeadLettered` (:73) | "After retry exhaustion or non-retryable condition." | also from pending, at any attempt | none after a success or a failure |
| `GuardrailPassed`, `GuardrailBlocked`, `GuardrailThrottled`, `GuardrailActionRequired` (:76-79) | "After evaluated." | also from requested; the worker does so (`send-text-message.handler.ts:309`) | one outcome excludes the others |
| `WorkerJobRetryScheduled` (:89) | "After failed attempt." | also from queued and reserved, and again from retrying | none after completion or death |
| `WorkerJobDead` (:90) | "After retry exhaustion/non-retryable failure." | from any status but completed, at any attempt | none after completion |
| `ConfigurationRejected` (:106) | "After validation." | from proposed, and from validated | none after `ConfigurationActivated` |

Six keep none (`AtAnyTime`): `MediaCleaned` (:60 "After processing or expiry.": from every status), `WorkerJobRecoveryRequired` (:91 "After
dead or unsafe state.": `requireWorkerJobRecovery` asks for no status), `AccessDecisionExpired` (:96 "After grant/deny scope ends.":
also from requested), `AuditRedactionApplied` (:99 "Before recorded where applicable.": also after), `HealthDegraded` (:102 "After
healthy/unknown or worsening state.") and `HealthRecovered` (:103 "After degraded/unavailable/action-required."): `classifyHealth`
takes any category from any other. All other events keep the order of their contracts, as far as it speaks of
the aggregate itself.

*Policies.* `PoliciesAgree` says that what a specification, policy or service allows, the aggregate's function then does. Five do not
agree with the tables, and the formula names each: `canRetryWebhookDelivery` (`domain-specifications.ts:285`) allows a retry of a pending delivery,
which `retryWebhookDelivery` refuses (for every other status the two agree both ways); `canReconnectInstance` (`:224`) allows a
reconnect of an instance that is connected or shows its code, which the table refuses; `decideInstanceReadiness` recommends a status that
only an instance that is connecting, qr_pending, connected or disconnected is sure to take; and `evaluateMessageStatusPolicy` and
`classifyMessageDeliveryStatus` accept a status without looking at the message, which takes it for certain only while it is processing.

A call that repeats the status appends its event again. `ProviderCapabilityChanged`, `ProviderFailureClassified`, `MediaExpired`,
`UnsupportedMessageReceived` and `SecretAccessRequested` are emitted by nothing. Of the factories and policies, production
calls `createGuardrailDecisionAggregate`, `createAccessDecisionAggregate`, `createAuditRecordAggregate`,
`isGuardrailDecisionPassing`, `evaluateAuditRedactionPolicy` and `evaluatePrivilegedActionPolicy`; the rest is for callers to come.

**Rows** (`AggregateRows`). The row a save leaves in PostgreSQL, the columns of the migrations, what a load decodes,
and which finders return it, in the three repositories. `RowsAgree`: a load gives back what was saved, no column
that refuses NULL gets one, and the finders agree, also when a side value (an idempotency key, the signals of a
subscription, ...) is recorded while a save is under way. PostgreSQL has repositories for 14 of the 18 kinds (none for provider
profiles, access decisions, configuration snapshots and telemetry signals). Its one exception, an attempt beyond the policy,
cannot arise in production, where `createAttemptNumber` refuses it first. A side value recorded before the
first save is lost in PostgreSQL and kept by the others.

`LibraryIsTrue` and `RowsAreTrue` (Part 2 of `DomainProofs`) prove both of `LibrarySpec`, for any calls in any order, any attempts,
members and labels. None of the three promises is inductive: a delivery may not be `delivered` without
`WebhookDeliveryStarted` in its history, and that follows from what was so in the status before. `GoodAggregate` says, kind by
kind, which events lie behind each status, which data comes with it, and what its last event was preceded by
(`GoodInstance`, ..., `GoodProviderProfile`); `AggregateIsGood` proves it inductive. What a call does is proved once for all kinds
(`TransitionMoves`, `AddingBecomes`, from `transitionStatus`); a kind's lemma (`InstanceKeeps`, ...) then goes through its calls with its
table, and `...Made` through its factories. Members and labels stay listed once by the places they keep
(`RemoveAtPlaces`, `RoleReplaced`). From the invariant follow the order of the events (`...InOrder`, one per kind; `RequiredIs` and `InsteadIs` look up what is required), the data (`GoodData`) and
the policies (`GoodPolicies`), for which `TransitionAllows` says exactly when a call throws. For the rows, `RowsFit` goes through the
columns of each table, `RowIsFound` and `JsonIsFound` through the finders, and `SideIsKept` is the race of a save with a
side value. Assumed are a positive number of attempts (`DomainBounds`) and that SQL's NULL is none of the values a column
holds (`NullIsNoValue`): in the model both are values of one domain. The proof found one place where the
model said less than the code: without a side value `JsonIndex` was left to arms of a `CASE` that overlapped, where the stores
index nothing. `removeChatLabel` filters; the model takes out one place, which is the same because a label is listed once.

**Groups** (`GroupMutations`). Three requests, two of one idempotency key, that list, store, load, mutate, save and
publish. `GroupsChangeAsTold`: who is told "accepted" or "completed" has the action on the group, once, and published, unless
another save from an older copy overtook it or a repetition found it unpublished; and members, which clients name by their place in
a list, are who the client meant unless the list changed in between. The intent a handler reads is the one its own
request stored, so that it is never missing; production keeps these intents in the API's memory.

`GroupsAreAsTold` (Part 4 of `SharedStateProofs`) proves it of `GroupSpec`, for any requests, keys, members and
newcomers: the run's scene is this specification with three requests. The invariant says of the saved group and of
every handler's copy how many saves it *includes*: of those, each is in its actions or was undone by a later
save from an older copy (`Includes`), and each request whose list is no newer finds at its place whom its client
saw, unless one of the saves since removed a member or undid another (`Seen`). A copy that nothing has been saved
after differs from the saved group by its own change alone (`CopyFresh`), which keeps every place unless it removes
a member (`MutationKeepsPlaces`, from the aggregate's operators); a copy that something has been saved after undoes
it, and says so when it is saved. What is past stays (`PastMoved`, `PastSaved`): a request that has saved loads and asks no more. The
proof assumes that statuses and members to begin with are ones the aggregate knows (`GroupSeed`).

**Instances** (`InstanceCommands`). Two destroy commands, a worker and its jobs, two sessions.
`DestroyedIsCleaned` names three things the code allows: a second destroy sees the sessions
the first has revoked, and skips their sockets; a worker's settling save revives a job that was buried; and
the four parallel listings may miss a job that moves between them. A destroy that is cut off is not taken up: its
repetition is answered "accepted" at once, though docs/application/COMPENSATION_STRATEGIES.md:49 has "Retry
cleanup." No command connects an instance or makes sessions or groups, so the scenes start from what the local
worker's seeds make.

`DestroyCleansUp` (Part 5 of `SharedStateProofs`) proves it of `InstanceSpec`, for any destroy commands, jobs and
sessions. The invariant says of each command, phase by phase, what of its cleanup is done or still on its list
(`Destroyer`): a job nobody has moved and that is not buried is in a listing already read, in the status of one still to
be read, or among those to bury; a session that is no longer as it was put there has its socket closed or is owed by a
command (`Sockets`), which found it before it was revoked. It stays true under the others because sessions only move
to clean ones, and a job that a worker moves is counted as moved. The proof assumes that the seeds' statuses are ones the aggregate knows, that
the instance's own jobs are not another's, and that the model's "nothing" is not a row (`InstanceSeed`).

**Queries** (`PublicQueries`). The table of queries says what each reads, which statuses it leaves out and which
statuses answer it; a client pages through chats while rows move. `WalkSlipsOncePerChange` bounds what offset cursors
and parallel reads cost; docs/api/PAGINATION_MODEL.md:34 is the text behind it. An answer is a set of
entries (a row, the status it was read with, and the SELECT that read it), and an entry's place in the page is the number of those
before it in the order of the sort. Seen on the way: sorting by a field no item
has leaves the order; the filter `labelId` on chats leaves nothing; the list of events shows the first 1000 retained; a query whose
repository is not configured is answered 503 with an empty page; a handler that rejects is caught by nobody, since
`executeCommand` and `executeQuery` return its promise from within `try` without awaiting it
(`application-dispatcher.ts:188`). Walks through search results, health and events are not modelled.

`WalkIsTrue` (`ApiAdmissionProofs`, part 6) proves it of `QuerySpec`, for any number of rows and changes, any page sizes, sorts and
filters, and any order of a page's reads. What a client has and has not received does not follow from its offset once rows have
moved, so that the property is not inductive. `WalkInv` says that a cut runs through the order of every entry the query could
answer (`OnTrack`): of the rows that never moved, those missed lie before it and those received once lie before it too, but for
those that would be received again; and the offset differs from the number of entries before the cut by no more than the changes
that are not yet counted as missed or received again (`Slips`). A change of a row takes one entry out of what has been read or out of what will
be read, never of both, and puts one in likewise (`ChangeStep`); a SELECT changes nothing that was seen (`SelectStep`); a page
moves the cut to its last entry and misses or repeats as many as the offset was off (`PageSlips`, `PageStep`). Assumed is
`QuerySeed`: finitely many rows with a chat's statuses, walks through the two lists of chats, and page sizes that are numbers.

**In-memory queue and scheduler** (`InMemoryQueue`). The queue is the default outside production; in the local live mode
(`apps/provider-runtime/src/local-live-outbound-worker.ts`) one process is API and worker, over the JSON repositories. Their
writes are synchronous, so that no call of the queue begins within another; but a refused write leaves the memory ahead of the
file, and the process may be killed after any write. A step is therefore what a call does up to the end of its next write:
`enqueue` writes the row (`EnqueueNew`) and then the key (`RecordsKey`), a round of the loop recovers one expired
reservation after the other, adds the missing entries, reserves, and settles. A restart makes the entries anew of the rows.
`QueueKeepsItsWord`: one job per key, accepted jobs stay in the
file, no job is run more often than its policy allows, an acknowledged end is final, and a job that is not at its end has an entry the loop can reserve or recover, or
gets one in its next round, with no entry before it that `reserve` always throws on (`IsServed`), unless a restart met it, or the job of such an entry, at a bad moment. It
names what the code allows: the row of a call that was *refused* stays in memory and is run all the same, beside that of
the repeated call, and so does the row of a call that was killed before it wrote its key (`doubtful`); a row that was reserved at
a restart has no entry until its key is asked for again, and a
row that awaited its last attempt gets an entry whose next attempt is one too many: each `reserve`
finds it first and throws, so that nothing queued after it is run (`in-memory-queue-provider.ts:301`, `:159-163`; both `cutOff`, and what waits behind is
held up: `HoldsUp`). The scheduler
is a client whose key is the window of its definition; its checkpoint is lost at a restart, and the key keeps the window's work single.

`QueueIsTrue` (Part 6 of `SharedStateProofs`) proves it of `InMemorySpec`, for any keys, windows, jobs, attempts, refusals and
restarts. The promises are not inductive: a row in memory, its row in the file and its entry may each be ahead of the
others. `QueueInv` says how far. A key leads, in memory, in the file and in the provider's Map, to a job made for it whose row
is in the file (`KeysLead`; of the call between its writes `AskingIsNew`), so that no second job is made for a key that
nothing cut short. Of each job (`JobKept`): what is in the file is also in memory, its runs are within the attempts of its entry
and of both rows, since the attempt is written before the handler is called; an entry that says the job has ended agrees with the
row; an acknowledged end is in both rows; and what no restart cut off is `Servable`: its row without an entry is one the next
round finds, and its entry's next attempt is within the policy, so that `Reserving` does not throw (`ReservedRow`, from the tables of
the library), nor does `Recovering` of a reservation (`RecoveredRow`); so an entry that holds others up is that of a job cut off. A failed settlement is the hard case: the row in memory has moved on and is written by whichever call writes next.

**Run.** `domain`: the five as scenes. Two jobs, one refused write and one restart of the queue; two jids, two labels and two attempts are what the library's rules tell apart; the bounds of the
others are above.

## Proved, and only checked

Nothing is assumed in a proof but the named ASSUMEs on constants. Out of the prover's reach
and so with TLC: `WorkSettles`, `QueuedIsDecided`, `LostLeaseNoticed`, `PublishedEventually`,
`DeliveriesEnd` (liveness), and what recursion computes. No safety invariant that a run
checks is without a theorem.

## Not modelled

- **Projection builder, read projections.** No process of
  `deploy/docker/compose.production.yml` starts them (its services are api, worker, webhook-dispatcher,
  provider-runtime, background, PostgreSQL and Redis), and no composition in `src/apps` uses them. The scheduler is composed by none either; it is
  modelled as a client of the in-memory queue.
- **Sending of groups and media** through the socket provider: no command leads there; media sends share the text send's path.
- **Background reports, recovery and backup drills, health, metrics, observability**: they read other components'
  state and decide nothing.
- **Configuration objects, secrets, object storage, signing, encryption**: read-only, or one external call whose
  outcome the callers' models choose freely.
- **Signals that were drained but not ingested** are lost (hazard in `PROJECT.json`): no property can hold of them.
- **SDKs, release and documentation tooling, specs**: outside the running system.
