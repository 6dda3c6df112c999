--------------------------- MODULE WorkerJobQueue ---------------------------
(***************************************************************************)
(* The durable worker-job queue: DurableWorkerJobQueueProvider over the    *)
(* PostgreSQL table omniwa_worker_jobs, the callers that enqueue work, and *)
(* the worker processes that reserve, run and settle it.                   *)
(*                                                                         *)
(* One action is one SQL statement or one transaction, with the code that  *)
(* runs up to the next await.  A worker process runs one job at a time     *)
(* (the loop waits for the tick in flight), so each worker is a program    *)
(* counter, the reservation it holds and nothing else.                     *)
(*                                                                         *)
(* Time is abstracted to what the comparisons "visible_at <= now" see: a   *)
(* row's queue_visible_at_epoch_ms is NULL (read as 0), "later" (in the    *)
(* future) or "due"; LeaseElapses is the clock passing it.                 *)
(***************************************************************************)
EXTENDS Naturals, FiniteSets

CONSTANTS
  Jobs,           \* job ids
  Keys,           \* idempotency keys
  Requests,       \* calls of enqueue
  JobOf,          \* the job id each call supplies
  KeyOf,          \* the idempotency key each call supplies
  Workers,        \* worker processes
  MaxAttempts,    \* retryPolicy.maxAttempts
  MaxInterrupts,  \* bound: crashes and failed statements in a behaviour
  Timely,         \* the timing assumptions the deployment meets, see below
  NoJob, NoKey    \* null values

(***************************************************************************)
(* The code takes no lock that outlives a statement and never renews a     *)
(* lease; it relies on three races being won.  Timely says which are.      *)
(*   "lease":   a worker settles its job before the 30 s lease runs out;   *)
(*   "retry":   the retry delay outlasts the statement that follows it;    *)
(*   "enqueue": no worker reserves a job between the two statements of     *)
(*              enqueue that insert it and write its visibility.           *)
(***************************************************************************)
Races == {"lease", "retry", "enqueue"}

ASSUME QueueIds == /\ JobOf \in [Requests -> Jobs] /\ KeyOf \in [Requests -> Keys]
                   /\ NoJob \notin Jobs /\ NoKey \notin Keys
ASSUME QueueBounds == /\ MaxAttempts \in Nat \ {0} /\ MaxInterrupts \in Nat
                      /\ Timely \subseteq Races

VARIABLES
  status, attempt,  \* the aggregate stored in each row ("absent": no row)
  visible,          \* column queue_visible_at_epoch_ms
  key,              \* column idempotency_key (UNIQUE)
  call,             \* progress of each enqueue call
  receipt,          \* the job id an enqueue call answered with
  pc,               \* next statement of each worker
  held, heldAttempt,\* the reservation each worker works for
  interrupts,       \* crashes and failed statements so far
  executions,       \* history: how often a handler was given the job
  verdicts          \* history: what handlers said of the job

rows    == <<status, attempt, visible, key>>
callers == <<call, receipt>>
crew    == <<pc, held, heldAttempt>>
history == <<executions, verdicts>>
vars    == <<rows, callers, crew, interrupts, history>>

Statuses == {"absent", "queued", "reserved", "retrying", "completed", "dead"}
Terminal == {"completed", "dead"}
CallSteps == {"lookup", "save", "visibility", "key",
              "accepted", "duplicate", "rejected", "lost"}
WorkerSteps == {"idle", "reserve", "handling",
                "ackLoad", "ackSave", "ackClear",
                "releaseLoad", "releaseVisibility", "releaseSave",
                "deadLoad", "deadSave", "deadClear"}
Verdicts == {"completed", "retry", "dead"}

TypeOK ==
  /\ status   \in [Jobs -> Statuses]
  /\ attempt  \in [Jobs -> 0..MaxAttempts]
  /\ visible  \in [Jobs -> {"null", "later", "due"}]
  /\ key      \in [Jobs -> Keys \cup {NoKey}]
  /\ call     \in [Requests -> CallSteps]
  /\ receipt  \in [Requests -> Jobs \cup {NoJob}]
  /\ pc       \in [Workers -> WorkerSteps]
  /\ held     \in [Workers -> Jobs \cup {NoJob}]
  /\ heldAttempt \in [Workers -> 0..MaxAttempts]
  /\ interrupts  \in 0..MaxInterrupts
  /\ executions  \in [Jobs -> Nat]
  /\ verdicts    \in [Jobs -> SUBSET Verdicts]
  \* a worker past the reservation holds a job, at an attempt that was granted
  /\ \A w \in Workers : /\ held[w] = NoJob <=> pc[w] \in {"idle", "reserve"}
                        /\ held[w] # NoJob => heldAttempt[w] > 0

Init ==
  /\ status  = [j \in Jobs |-> "absent"] /\ attempt = [j \in Jobs |-> 0]
  /\ visible = [j \in Jobs |-> "null"]   /\ key = [j \in Jobs |-> NoKey]
  /\ call    = [r \in Requests |-> "lookup"]
  /\ receipt = [r \in Requests |-> NoJob]
  /\ pc = [w \in Workers |-> "idle"] /\ held = [w \in Workers |-> NoJob]
  /\ heldAttempt = [w \in Workers |-> 0]
  /\ interrupts = 0
  /\ executions = [j \in Jobs |-> 0] /\ verdicts = [j \in Jobs |-> {}]

-----------------------------------------------------------------------------
(* enqueue: four statements, no transaction around them.                   *)

\* The caller's answer: it is done, and it names job j.
Answer(r, outcome, j) == /\ call' = [call EXCEPT ![r] = outcome]
                         /\ receipt' = [receipt EXCEPT ![r] = j]

Proceed(r, step) == call' = [call EXCEPT ![r] = step] /\ UNCHANGED receipt

Lookup(r) ==
  /\ call[r] = "lookup"
  /\ \/ \E j \in Jobs : key[j] = KeyOf[r] /\ Answer(r, "duplicate", j)
     \/ (\A j \in Jobs : key[j] # KeyOf[r]) /\ Proceed(r, "save")
  /\ UNCHANGED <<rows, crew, interrupts, history>>

\* An upsert of a fresh aggregate: it leaves visibility and key columns alone.
EnqueueSave(r) ==
  /\ call[r] = "save"
  /\ Proceed(r, "visibility")
  /\ status'  = [status EXCEPT ![JobOf[r]] = "queued"]
  /\ attempt' = [attempt EXCEPT ![JobOf[r]] = 0]
  /\ UNCHANGED <<visible, key, crew, interrupts, history>>

EnqueueVisibility(r) ==
  /\ call[r] = "visibility"
  /\ Proceed(r, "key")
  /\ visible' = [visible EXCEPT ![JobOf[r]] = "due"]
  /\ UNCHANGED <<status, attempt, key, crew, interrupts, history>>

\* Mutant: the column has no UNIQUE index.
RecordKeyNotUnique(r) ==
  /\ call[r] = "key" /\ Answer(r, "accepted", JobOf[r])
  /\ key' = [key EXCEPT ![JobOf[r]] = KeyOf[r]]
  /\ UNCHANGED <<status, attempt, visible, crew, interrupts, history>>

\* The UNIQUE index makes the statement fail when another row has the key;
\* the job inserted by this call stays in the table all the same.
RecordKey(r) ==
  /\ call[r] = "key"
  /\ \/ /\ \E j \in Jobs \ {JobOf[r]} : key[j] = KeyOf[r]
        /\ Proceed(r, "rejected") /\ UNCHANGED key
     \/ /\ \A j \in Jobs \ {JobOf[r]} : key[j] # KeyOf[r]
        /\ Answer(r, "accepted", JobOf[r])
        /\ key' = [key EXCEPT ![JobOf[r]] = KeyOf[r]]
  /\ UNCHANGED <<status, attempt, visible, crew, interrupts, history>>

EnqueueStep(r) == \/ Lookup(r) \/ EnqueueSave(r)
                  \/ EnqueueVisibility(r) \/ RecordKey(r)

-----------------------------------------------------------------------------
(* The two transactions of reserve.                                        *)

Elapsed(j) == visible[j] \in {"null", "due"}

Goto(w, step) == pc' = [pc EXCEPT ![w] = step] /\ UNCHANGED <<held, heldAttempt>>

LetGo(w) == /\ pc' = [pc EXCEPT ![w] = "idle"]
            /\ held' = [held EXCEPT ![w] = NoJob]
            /\ heldAttempt' = [heldAttempt EXCEPT ![w] = 0]

\* Mutant: a job on its last attempt is left to the worker that holds it.
ExpiredButLast ==
  {j \in Jobs : status[j] = "reserved" /\ Elapsed(j) /\ attempt[j] < MaxAttempts}

Expired == {j \in Jobs : status[j] = "reserved" /\ Elapsed(j)}

\* What recovering the expired rows does: back those with attempts left, and
\* count the attempt n more; the others are dead.
Recover(back, n) ==
  /\ status'  = [j \in Jobs |-> IF j \in back THEN "retrying"
                                ELSE IF j \in Expired THEN "dead" ELSE status[j]]
  /\ attempt' = [j \in Jobs |-> IF j \in back THEN attempt[j] + n ELSE attempt[j]]
  /\ visible' = [j \in Jobs |-> IF j \in back THEN "due"
                                ELSE IF j \in Expired THEN "null" ELSE visible[j]]

\* Mutants: the budget's last attempt is withheld; the attempt is not counted.
RecoverExpiredEarlyDeath(w) ==
  /\ pc[w] \in {"idle", "reserve"} /\ Goto(w, "reserve")
  /\ Recover({j \in Expired : attempt[j] + 1 < MaxAttempts}, 1)
  /\ UNCHANGED <<key, callers, interrupts, history>>
RecoverExpiredUncounted(w) ==
  /\ pc[w] \in {"idle", "reserve"} /\ Goto(w, "reserve")
  /\ Recover({j \in Expired : attempt[j] < MaxAttempts}, 0)
  /\ UNCHANGED <<key, callers, interrupts, history>>

\* One transaction over every expired row.  A row that SKIP LOCKED leaves out
\* is one another statement is changing, which is the order "that one first".
RecoverExpired(w) ==
  /\ pc[w] \in {"idle", "reserve"} /\ Goto(w, "reserve")
  /\ Recover({j \in Expired : attempt[j] < MaxAttempts}, 1)
  /\ UNCHANGED <<key, callers, interrupts, history>>

Overtakes(j) == \E r \in Requests : JobOf[r] = j /\ call[r] = "visibility"

Reservable(j) == /\ \/ status[j] = "queued"
                    \/ status[j] = "retrying" /\ Elapsed(j)
                 /\ "enqueue" \in Timely => ~Overtakes(j)

\* The attempt a reservation is granted: a retrying job already counts it.
NextReservationAttempt(j) == IF status[j] = "retrying" THEN attempt[j]
                             ELSE attempt[j] + 1

\* Mutant: the reservation does not write the lease.
ReserveNextNoLease(w, j) ==
  /\ pc[w] = "reserve" /\ Reservable(j)
  /\ attempt' = [attempt EXCEPT ![j] = NextReservationAttempt(j)]
  /\ heldAttempt' = [heldAttempt EXCEPT ![w] = NextReservationAttempt(j)]
  /\ status' = [status EXCEPT ![j] = "reserved"]
  /\ pc' = [pc EXCEPT ![w] = "handling"] /\ held' = [held EXCEPT ![w] = j]
  /\ executions' = [executions EXCEPT ![j] = @ + 1]
  /\ UNCHANGED <<visible, key, callers, interrupts, verdicts>>

\* The lowest id that no other transaction has locked: any candidate.
ReserveNext(w, j) ==
  /\ pc[w] = "reserve" /\ Reservable(j)
  /\ LET n == NextReservationAttempt(j) IN
       /\ attempt' = [attempt EXCEPT ![j] = n]
       /\ heldAttempt' = [heldAttempt EXCEPT ![w] = n]
  /\ status'  = [status EXCEPT ![j] = "reserved"]
  /\ visible' = [visible EXCEPT ![j] = "later"]
  /\ pc' = [pc EXCEPT ![w] = "handling"]
  /\ held' = [held EXCEPT ![w] = j]
  /\ executions' = [executions EXCEPT ![j] = @ + 1]
  /\ UNCHANGED <<key, callers, interrupts, verdicts>>

ReserveNone(w) ==
  /\ pc[w] = "reserve" /\ \A j \in Jobs : ~Reservable(j)
  /\ Goto(w, "idle")
  /\ UNCHANGED <<rows, callers, interrupts, history>>

-----------------------------------------------------------------------------
(* The handler's verdict and the three ways to settle a reservation.  Each *)
(* loads the row, checks that the reservation is still the current one,    *)
(* and then writes without checking again.                                 *)

\* Mutant: a success is settled as if it were to be retried.
SettleStepMisrouted ==
  [completed |-> "releaseLoad", retry |-> "releaseLoad", dead |-> "deadLoad"]

SettleStep == [completed |-> "ackLoad", retry |-> "releaseLoad", dead |-> "deadLoad"]

HandlerReturns(w, verdict) ==
  /\ pc[w] = "handling"
  /\ Goto(w, SettleStep[verdict])
  /\ verdicts' = [verdicts EXCEPT ![held[w]] = @ \cup {verdict}]
  /\ UNCHANGED <<rows, callers, interrupts, executions>>

ActiveReservation(w) == /\ status[held[w]] = "reserved"
                        /\ attempt[held[w]] = heldAttempt[w]

BudgetLeft(w) == heldAttempt[w] + 1 <= MaxAttempts

\* The load of each settling call: go on, or report a stale reservation.
LoadThen(w, step) == IF ActiveReservation(w) THEN Goto(w, step) ELSE LetGo(w)

SettleLoad(w) ==
  /\ \/ pc[w] = "ackLoad" /\ LoadThen(w, "ackSave")
     \/ pc[w] = "deadLoad" /\ LoadThen(w, "deadSave")
     \/ /\ pc[w] = "releaseLoad"
        /\ LoadThen(w, IF BudgetLeft(w) THEN "releaseVisibility" ELSE "deadSave")
  /\ UNCHANGED <<rows, callers, interrupts, history>>

\* Mutant: the aggregate is saved with the attempt it was loaded with.
SaveHeldSameAttempt(w, s, n) == /\ status'  = [status EXCEPT ![held[w]] = s]
                                /\ attempt' = [attempt EXCEPT ![held[w]] = heldAttempt[w]]

\* An upsert of the aggregate as it was loaded, moved to status s.
SaveHeld(w, s, n) == /\ status'  = [status EXCEPT ![held[w]] = s]
                     /\ attempt' = [attempt EXCEPT ![held[w]] = n]

AckSave(w) == /\ pc[w] = "ackSave" /\ Goto(w, "ackClear")
              /\ SaveHeld(w, "completed", heldAttempt[w])
DeadSave(w) == /\ pc[w] = "deadSave" /\ Goto(w, "deadClear")
               /\ SaveHeld(w, "dead", heldAttempt[w])
ReleaseSave(w) == /\ pc[w] = "releaseSave" /\ LetGo(w)
                  /\ SaveHeld(w, "retrying", heldAttempt[w] + 1)

SettleSave(w) ==
  /\ AckSave(w) \/ DeadSave(w) \/ ReleaseSave(w)
  /\ UNCHANGED <<visible, key, callers, interrupts, history>>

\* releaseForRetry writes the delay before it writes the status.
ReleaseVisibility(w) ==
  /\ pc[w] = "releaseVisibility" /\ Goto(w, "releaseSave")
  /\ \E v \in IF "retry" \in Timely THEN {"later"} ELSE {"later", "due"} :
        visible' = [visible EXCEPT ![held[w]] = v]
  /\ UNCHANGED <<status, attempt, key, callers, interrupts, history>>

ClearVisibility(w) ==
  /\ pc[w] \in {"ackClear", "deadClear"} /\ LetGo(w)
  /\ visible' = [visible EXCEPT ![held[w]] = "null"]
  /\ UNCHANGED <<status, attempt, key, callers, interrupts, history>>

WorkerStep(w) == \/ RecoverExpired(w) \/ ReserveNone(w)
                 \/ \E j \in Jobs : ReserveNext(w, j)
                 \/ \E verdict \in Verdicts : HandlerReturns(w, verdict)
                 \/ SettleLoad(w) \/ SettleSave(w)
                 \/ ReleaseVisibility(w) \/ ClearVisibility(w)

-----------------------------------------------------------------------------
(* The environment: the clock, and crashes or statements that fail.        *)

LeaseElapses(j) ==
  /\ visible[j] = "later"
  /\ "lease" \in Timely => \A w \in Workers : held[w] # j
  /\ visible' = [visible EXCEPT ![j] = "due"]
  /\ UNCHANGED <<status, attempt, key, callers, crew, interrupts, history>>

Interrupted == interrupts < MaxInterrupts /\ interrupts' = interrupts + 1

\* The process restarts, or the provider reports the failure and the loop
\* goes on: either way the reservation is forgotten and its row left as is.
WorkerInterrupted(w) ==
  /\ pc[w] # "idle" /\ Interrupted /\ LetGo(w)
  /\ UNCHANGED <<rows, callers, history>>

CallInterrupted(r) ==
  /\ call[r] \in {"save", "visibility", "key"} /\ Interrupted
  /\ Proceed(r, "lost")
  /\ UNCHANGED <<rows, crew, history>>

Next == \/ \E r \in Requests : EnqueueStep(r) \/ CallInterrupted(r)
        \/ \E w \in Workers : WorkerStep(w) \/ WorkerInterrupted(w)
        \/ \E j \in Jobs : LeaseElapses(j)

Spec == Init /\ [][Next]_vars

(***************************************************************************)
(* The loops reschedule themselves and await every call, and the clock     *)
(* moves: every process that can take a step takes one.  A handler returns *)
(* (provider and HTTP calls have timeouts).  Nothing is assumed of crashes *)
(* beyond the bound on their number.                                       *)
(***************************************************************************)
Fairness == /\ \A r \in Requests : WF_vars(EnqueueStep(r))
            /\ \A w \in Workers : WF_vars(WorkerStep(w))
            /\ \A j \in Jobs : WF_vars(LeaseElapses(j))

FairSpec == Spec /\ Fairness

-----------------------------------------------------------------------------
(* Properties that hold whatever the timing.                               *)

\* Enqueue calls that were answered "accepted" for one idempotency key name one
\* job, although the look-up and the recording of the key are far apart: the
\* UNIQUE index is what decides.
AcceptedCallsAgree ==
  \A r, s \in Requests :
     /\ call[r] = "accepted" /\ call[s] = "accepted" /\ KeyOf[r] = KeyOf[s]
     => receipt[r] = receipt[s]

\* A row says "completed" only if some handler said so, and "dead" only if a
\* handler said so or the job was handed out as often as its budget allows:
\* stale writes and lease recovery never settle a job nobody decided on.
SettledForAReason ==
  \A j \in Jobs :
     /\ status[j] = "completed" => "completed" \in verdicts[j]
     /\ status[j] = "dead" => \/ "dead" \in verdicts[j]
                              \/ executions[j] >= MaxAttempts

\* Stale releases multiply runs, but each run leads to at most two at the next
\* attempt (its own release and its lease's expiry): 2^MaxAttempts - 1 in all.
RunsAmplifiedAtMost == \A j \in Jobs : executions[j] < 2 ^ MaxAttempts

\* Every job that was inserted is settled for good in the end, through crashes,
\* lost leases and stale writes: accepted work does not disappear.
WorkSettles == \A j \in Jobs : <>[](status[j] \in Terminal \cup {"absent"})

-----------------------------------------------------------------------------
(* Properties that hold when the three races are won (Timely = Races).     *)

\* No two workers work for one job, whether in the handler or settling it.
OneHolder == \A w, v \in Workers : held[w] = held[v] /\ held[w] # NoJob => w = v

\* A job whose handler reported success is run again only after a crash or a
\* failed statement (at-least-once delivery, with the least it must allow).
RerunOnlyAfterInterrupt ==
  [][\A j \in Jobs : executions'[j] > executions[j] /\ interrupts = 0
                        => "completed" \notin verdicts[j]]_vars

\* The queue implements the ledger: bounded runs, final outcomes.
LedgerState(s) == CASE s \in {"queued", "retrying"} -> "ready"
                    [] s = "reserved" -> "running"
                    [] OTHER -> s

Ledger == INSTANCE JobLedger WITH state <- [j \in Jobs |-> LedgerState(status[j])],
                                  runs  <- executions

ImplementsLedger == Ledger!Spec

-----------------------------------------------------------------------------
(* What the documents say of the queue; it does not hold without "enqueue" *)
(* or without "lease".                                                     *)

\* docs/architecture/STATE_MACHINES.md: "A job must not be Running in two
\* workers simultaneously."
NotRunningInTwoWorkers ==
  \A w, v \in Workers :
     pc[w] = "handling" /\ pc[v] = "handling" /\ held[w] = held[v] => w = v
=============================================================================
