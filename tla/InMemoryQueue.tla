---------------------------- MODULE InMemoryQueue ----------------------------
(***************************************************************************)
(* InMemoryQueueProvider (in-memory-queue-provider.ts), as the local live   *)
(* mode of the provider runtime composes it (local-live-outbound-worker.ts): *)
(* one process, whose API and worker loop share the queue, over the JSON    *)
(* repository of worker jobs.  The scheduler, which its tests put before    *)
(* such a queue, asks it like any other client.  The entries of the queue   *)
(* live in memory, the jobs in the file: after a restart the entries are    *)
(* made anew of the jobs.                                                  *)
(*                                                                         *)
(* The repository writes its whole file synchronously, so that a call of    *)
(* the queue runs from its start to its end with no other in between.  A    *)
(* step is what a call does up to the end of its next write: within a call  *)
(* no other call begins and no time passes, but the process may be killed.  *)
(* A write the file system refuses throws after the memory was changed.     *)
(* One type of work is modelled; the loop goes through the types one by one. *)
(***************************************************************************)
EXTENDS DomainAggregates

CONSTANTS
  RequestKeys,  \* idempotency keys of the API's requests
  WindowKeys,   \* the keys the scheduler makes of its definition and a window, in order
  MaxJobs,      \* bound: jobs that are ever made
  MaxRefusals,  \* bound: writes that are refused
  MaxRestarts   \* bound: restarts of the process

QueueKeys == RequestKeys \cup ToSet(WindowKeys)
QueueJobs == 1..MaxJobs
NoneMade == 0

ASSUME QueueBounds ==
  /\ {MaxJobs, MaxRefusals, MaxRestarts} \subseteq Nat
  /\ Null \notin QueueKeys
  /\ WindowKeys \in Seq(ToSet(WindowKeys)) /\ WindowKeys # << >>

VARIABLES
  jobRows, jobKeys,     \* the repository: the row of each job, the job of each key
  savedRows, savedKeys, \* and what its file holds
  entries,     \* the provider's Map of entries
  known,       \* its Map of the jobs of keys
  asking,      \* the enqueue that is between its two writes
  loop,        \* the worker's loop
  hand,        \* the reservation under the loop's handler
  window,      \* the scheduler's clock, in windows
  checkpoint,  \* the window it last dispatched
  keyOf,       \* history: the key of each job that was ever made
  accepted,    \* history: keys whose client was told that the job is queued
  ended,       \* history: jobs whose completion or death was acknowledged
  runs,        \* history: how often a handler was given each job
  doubtful,    \* history: keys of calls that a refused write or a restart cut short
  cutOff,      \* history: jobs a restart met reserved, or before a last attempt
  refusals, restarts

repositoryVars == <<jobRows, jobKeys, savedRows, savedKeys, refusals>>
clientVars == <<known, asking, window, checkpoint, keyOf, accepted, doubtful, cutOff, restarts>>
loopVars == <<loop, hand, ended, runs>>
inMemoryVars == <<repositoryVars, entries, clientVars, loopVars>>

NoRow == Throws
NoEntry == [state |-> "none", due |-> FALSE, attempt |-> 0, ref |-> 0, place |-> 0]
NoCall == [key |-> Null, by |-> "none"]
NoReservation == [job |-> NoneMade, attempt |-> 0]
NoRows == [j \in QueueJobs |-> NoRow]
NoKeys == [k \in QueueKeys |-> NoneMade]
NoEntries == [j \in QueueJobs |-> NoEntry]

InMemoryInit ==
  /\ jobRows = NoRows /\ savedRows = NoRows
  /\ jobKeys = NoKeys /\ savedKeys = NoKeys /\ known = NoKeys
  /\ entries = NoEntries
  /\ asking = NoCall
  /\ loop = "rest" /\ hand = NoReservation
  /\ window = 1 /\ checkpoint = 0
  /\ keyOf = << >>
  /\ accepted = {} /\ ended = {} /\ doubtful = {} /\ cutOff = {}
  /\ runs = [j \in QueueJobs |-> 0]
  /\ refusals = 0 /\ restarts = 0

\* The loop is in no call: it rests, is between two calls, or waits for its handler.
LoopIsIdle == loop \in {"rest", "reserve", "handle"}
NoCallIsOpen == asking = NoCall /\ LoopIsIdle

-----------------------------------------------------------------------------
(* The repository.                                                         *)

\* The state in memory, and what becomes of the file: "done" unless it is refused.
Persist(rows, keys, done) ==
  /\ jobRows' = rows /\ jobKeys' = keys
  /\ savedRows' = IF done THEN rows ELSE savedRows
  /\ savedKeys' = IF done THEN keys ELSE savedKeys
  /\ refusals' = IF done THEN refusals ELSE refusals + 1
  /\ refusals' <= MaxRefusals

\* A change of the job that throws is not saved, and the call that wanted it fails.
SaveRow(j, job, done) ==
  IF job = Throws THEN ~done /\ UNCHANGED repositoryVars
  ELSE Persist([jobRows EXCEPT ![j] = job], jobKeys, done)

RecordKey(k, j, done) == Persist(jobRows, [jobKeys EXCEPT ![k] = j], done)

-----------------------------------------------------------------------------
(* The entries: a Map, whose order of insertion is their place in it.      *)

HasEntry(j) == entries[j].state # "none"
Length == Cardinality({j \in QueueJobs : HasEntry(j)})
First(jobs) == {j \in jobs : \A i \in jobs : entries[j].place <= entries[i].place}

StateOf(job) ==
  CASE job.status \in {"queued", "retrying"}  -> "available"
    [] job.status \in {"reserved", "running"} -> "reserved"
    [] OTHER                                  -> job.status

\* An entry made of a row is visible at once; the reservation it may have had
\* went with the process that made it.
EntryOf(job, place) ==
  [state |-> StateOf(job), due |-> TRUE, attempt |-> job.attempt, ref |-> 0, place |-> place]

Expired == {j \in QueueJobs : entries[j].state = "reserved" /\ entries[j].due}
Reservable == {j \in QueueJobs : entries[j].state = "available" /\ entries[j].due}

\* createAttemptNumber refuses what is beyond the job's retry policy.
Reserving(job, attempt) ==
  IF attempt > MaxAttempts THEN Throws ELSE ReserveWorkerJob(job, attempt)

Recovering(job, attempt) ==
  IF attempt > MaxAttempts THEN MarkWorkerJobDead(job) ELSE RetryWorkerJob(job, attempt)

Completing(job) ==
  CompleteWorkerJob(IF job.status = "running" THEN job ELSE StartWorkerJob(job))

-----------------------------------------------------------------------------
(* Clients: enqueue.                                                       *)

\* The job of a key is looked for by the repository, then in what the provider
\* remembers.
FindExistingJob(k) == IF jobKeys[k] # NoneMade THEN jobKeys[k] ELSE known[k]

\* The client gets its receipt; the scheduler notes the window it dispatched.
Answers(call) ==
  /\ accepted' = accepted \cup {call.key}
  /\ checkpoint' = IF call.by = "scheduler" THEN window ELSE checkpoint

\* A row that has no entry gets one.
EnqueueAgain(call) ==
  LET j == FindExistingJob(call.key) IN
  /\ j # NoneMade
  /\ known' = [known EXCEPT ![call.key] = j]
  /\ entries' = IF HasEntry(j) THEN entries
                ELSE [entries EXCEPT ![j] = EntryOf(jobRows[j], Length + 1)]
  /\ Answers(call)
  /\ UNCHANGED <<repositoryVars, asking, keyOf, doubtful>>

\* The row of a new job is saved, unless the file system refuses.
EnqueueNew(call) ==
  LET j == Len(keyOf) + 1 IN
  /\ FindExistingJob(call.key) = NoneMade
  /\ j \in QueueJobs
  /\ keyOf' = Append(keyOf, call.key)
  /\ \E done \in BOOLEAN :
       /\ SaveRow(j, QueueWorkerJob, done)
       /\ asking' = IF done THEN call ELSE NoCall
       /\ doubtful' = IF done THEN doubtful ELSE doubtful \cup {call.key}
  /\ UNCHANGED <<entries, known, accepted, checkpoint>>

Enqueue(call) ==
  /\ NoCallIsOpen
  /\ EnqueueAgain(call) \/ EnqueueNew(call)
  /\ UNCHANGED <<window, cutOff, restarts, loopVars>>

Request(k) == Enqueue([key |-> k, by |-> "client"])

\* The scheduler dispatches a window unless it was the last one it dispatched.
Tick ==
  /\ checkpoint # window
  /\ Enqueue([key |-> WindowKeys[window], by |-> "scheduler"])

Enters(j) ==
  /\ known' = [known EXCEPT ![asking.key] = j]
  /\ entries' = [entries EXCEPT ![j] = EntryOf(QueueWorkerJob, Length + 1)]

\* Mutant: the key is not written.
RecordsNothing ==
  LET j == Len(keyOf) IN
  /\ asking # NoCall
  /\ Enters(j) /\ Answers(asking)
  /\ asking' = NoCall
  /\ UNCHANGED <<repositoryVars, doubtful, window, keyOf, cutOff, restarts, loopVars>>

\* The second write of an enqueue; what follows it, unless it was refused.
RecordsKey ==
  LET j == Len(keyOf) IN
  /\ asking # NoCall
  /\ \E done \in BOOLEAN :
       /\ RecordKey(asking.key, j, done)
       /\ IF done THEN Enters(j) /\ Answers(asking) /\ UNCHANGED doubtful
          ELSE /\ doubtful' = doubtful \cup {asking.key}
               /\ UNCHANGED <<known, entries, accepted, checkpoint>>
  /\ asking' = NoCall
  /\ UNCHANGED <<window, keyOf, cutOff, restarts, loopVars>>

-----------------------------------------------------------------------------
(* The worker's loop: recoverVisibleJobs, reserve, and a settlement.       *)

RecoverReservation(j, done) ==
  LET entry == entries[j]
      job == jobRows[j]
      Frees(state) ==
        entries' = IF done
                   THEN [entries EXCEPT ![j] = [@ EXCEPT !.state = state, !.due = TRUE,
                                                         !.ref = 0]]
                   ELSE entries
  IN  IF job.status \in {"completed", "dead"}
      THEN done /\ Frees(job.status) /\ UNCHANGED repositoryVars
      ELSE /\ SaveRow(j, Recovering(job, entry.attempt + 1), done)
           /\ Frees(IF entry.attempt + 1 > MaxAttempts THEN "dead" ELSE "available")

\* Both recoverVisibleJobs and reserve begin with the reservations that have
\* expired, in the order of the Map; the first that fails ends the call.
RecoverExpiredReservations ==
  /\ asking = NoCall /\ loop # "handle"
  /\ \E j \in First(Expired), done \in BOOLEAN :
       /\ RecoverReservation(j, done)
       /\ loop' = IF ~done THEN "rest"
                  ELSE IF loop \in {"rest", "recovering"} THEN "recovering" ELSE "reserving"
  /\ UNCHANGED <<hand, ended, runs, clientVars>>

\* The rows without an entry get one: those queued, then those to be retried.
Missing(status) == {j \in QueueJobs : jobRows[j].status = status /\ ~HasEntry(j)}

PlaceOf(j) ==
  LET Upto(jobs) == {i \in jobs : i <= j} IN
  Length + IF jobRows[j].status = "queued" THEN Cardinality(Upto(Missing("queued")))
           ELSE Cardinality(Missing("queued")) + Cardinality(Upto(Missing("retrying")))

RecoverVisibleJobs ==
  /\ asking = NoCall /\ loop \in {"rest", "recovering"} /\ Expired = {}
  /\ entries' = [j \in QueueJobs |-> IF j \in Missing("queued") \cup Missing("retrying")
                                     THEN EntryOf(jobRows[j], PlaceOf(j)) ELSE entries[j]]
  /\ loop' = "reserve"
  /\ UNCHANGED <<hand, ended, runs, clientVars, repositoryVars>>

AtReserve == asking = NoCall /\ loop \in {"reserve", "reserving"} /\ Expired = {}

Reserve(j, done) ==
  LET attempt == entries[j].attempt + 1 IN
  /\ SaveRow(j, Reserving(jobRows[j], attempt), done)
  /\ IF done
     THEN /\ entries' = [entries EXCEPT ![j] = [@ EXCEPT !.attempt = attempt, !.due = FALSE,
                                                         !.state = "reserved", !.ref = attempt]]
          /\ hand' = [job |-> j, attempt |-> attempt]
          /\ runs' = [runs EXCEPT ![j] = @ + 1]
          /\ loop' = "handle"
     ELSE loop' = "rest" /\ UNCHANGED <<entries, hand, runs>>

LoopReserves ==
  /\ AtReserve
  /\ \E j \in First(Reservable), done \in BOOLEAN : Reserve(j, done)
  /\ UNCHANGED <<ended, clientVars>>

LoopFindsNone ==
  /\ AtReserve /\ Reservable = {}
  /\ loop' = "rest"
  /\ UNCHANGED <<entries, hand, ended, runs, clientVars, repositoryVars>>

\* A settlement of a reservation that is still the entry's.
Holds(held) ==
  LET entry == entries[held.job] IN
  /\ entry.state = "reserved"
  /\ entry.ref = held.attempt /\ entry.attempt = held.attempt

SettledEntry(entry, state) ==
  [entry EXCEPT !.state = state, !.due = (state # "available"),
                !.ref = IF state = "available" THEN 0 ELSE @]

Settle(held, job, state, done) ==
  /\ SaveRow(held.job, job, done)
  /\ entries' = IF done THEN [entries EXCEPT ![held.job] = SettledEntry(@, state)] ELSE entries
  /\ ended' = IF done /\ state # "available" THEN ended \cup {held.job} ELSE ended

Settled(held, verdict, done) ==
  LET job == jobRows[held.job] IN
  IF ~Holds(held) THEN ~done /\ UNCHANGED <<repositoryVars, entries, ended>>
  ELSE \/ verdict = "completed" /\ Settle(held, Completing(job), "completed", done)
       \/ verdict = "dead" /\ Settle(held, MarkWorkerJobDead(job), "dead", done)
       \/ verdict = "retry"
          /\ Settle(held, RetryWorkerJob(job, held.attempt + 1), "available", done)

HandlerEnds(verdict) ==
  /\ asking = NoCall /\ loop = "handle"
  /\ \E done \in BOOLEAN : Settled(hand, verdict, done)
  /\ loop' = "rest"
  /\ hand' = NoReservation
  /\ UNCHANGED <<runs, clientVars>>

-----------------------------------------------------------------------------
(* Time, and the process.                                                  *)

\* The visibility timeout of a reservation, or the delay of a retry, is over.
BecomesDue(j) ==
  /\ NoCallIsOpen
  /\ HasEntry(j) /\ ~entries[j].due
  /\ entries' = [entries EXCEPT ![j].due = TRUE]
  /\ UNCHANGED <<repositoryVars, clientVars, loopVars>>

WindowPasses ==
  /\ NoCallIsOpen
  /\ window < Len(WindowKeys)
  /\ window' = window + 1
  /\ UNCHANGED <<repositoryVars, entries, loopVars, known, asking, checkpoint, keyOf, accepted,
                 doubtful, cutOff, restarts>>

\* A row that is reserved has no entry after a restart, until its key is asked
\* for again; one that awaits its last attempt has an entry that none can reserve.
IsCutOff(job) ==
  \/ job.status \in {"reserved", "running"}
  \/ job.status = "retrying" /\ job.attempt = MaxAttempts

\* The process reads its file.
Restart ==
  /\ restarts < MaxRestarts
  /\ restarts' = restarts + 1
  /\ jobRows' = savedRows /\ jobKeys' = savedKeys
  /\ entries' = NoEntries /\ known' = NoKeys
  /\ asking' = NoCall
  /\ loop' = "rest" /\ hand' = NoReservation
  /\ checkpoint' = 0
  /\ doubtful' = doubtful \cup ({asking.key} \ {Null})
  /\ cutOff' = cutOff \cup {j \in QueueJobs : IsCutOff(savedRows[j])}
  /\ UNCHANGED <<savedRows, savedKeys, window, keyOf, accepted, ended, runs, refusals>>

InMemoryNext ==
  \/ \E k \in RequestKeys : Request(k)
  \/ Tick \/ RecordsKey
  \/ RecoverExpiredReservations \/ RecoverVisibleJobs
  \/ LoopReserves \/ LoopFindsNone
  \/ \E verdict \in {"completed", "retry", "dead"} : HandlerEnds(verdict)
  \/ \E j \in QueueJobs : BecomesDue(j)
  \/ WindowPasses \/ Restart

InMemorySpec == InMemoryInit /\ [][InMemoryNext]_inMemoryVars

-----------------------------------------------------------------------------
(* What a client may rely on.                                              *)

\* A key has one job, unless one of its calls was cut short between its writes:
\* the row of that call stays, and is run like any other.
OneJobPerKey ==
  \A i, j \in DOMAIN keyOf : i # j /\ keyOf[i] = keyOf[j] => keyOf[i] \in doubtful

\* The job of an accepted key is in the file from then on.
AcceptedIsKept ==
  \A k \in accepted : \E j \in DOMAIN keyOf : keyOf[j] = k /\ savedRows[j] # NoRow

\* No job is run more often than its retry policy allows, whatever is refused or
\* restarted: an attempt is in the file before its handler is called.
RunsWithinBudget == \A j \in QueueJobs : runs[j] <= MaxAttempts

\* A job whose end was acknowledged is never handled again.
EndedForGood ==
  \A j \in ended : savedRows[j].status \in {"completed", "dead"} /\ hand.job # j

\* An entry that every reserve throws on, and one that is before another in the
\* order of the Map, or will be once the other is made.
IsStuck(i) ==
  entries[i].state = "available" /\ Reserving(jobRows[i], entries[i].attempt + 1) = Throws

HoldsUp(i, j) ==
  IsStuck(i) /\ i # j /\ (HasEntry(j) => entries[i].place < entries[j].place)

\* A job has an entry the loop can reserve or recover, or gets one in the loop's
\* next round, or is at its end.
HasItsEntry(j) ==
  LET job == jobRows[j]
      entry == entries[j] IN
  CASE entry.state = "none"      -> job.status \in {"queued", "retrying", "completed", "dead"}
    [] entry.state = "available" -> ~IsStuck(j)
    [] entry.state = "reserved"  -> \/ job.status \in {"completed", "dead"}
                                    \/ Recovering(job, entry.attempt + 1) # Throws
    [] OTHER                     -> job.status = entry.state

\* The loop will come to a job that is not at its end: reserve asks for the first
\* entry that is visible, so that none before the job's may throw.
IsServed(j) ==
  /\ HasItsEntry(j)
  /\ jobRows[j].status \in {"completed", "dead"} \/ ~\E i \in QueueJobs : HoldsUp(i, j)

\* No job is left waiting but for a restart that met it at a bad moment, or that
\* met so a job whose entry is before it.
UnservedForAReason ==
  \A j \in QueueJobs :
    jobRows[j] # NoRow /\ ~IsServed(j) => j \in cutOff \/ \E i \in cutOff : HoldsUp(i, j)

\* What the queue promises its clients (enqueue, reserve and the settlements of
\* in-memory-queue-provider.ts), whatever is refused and whenever it restarts.
QueueKeepsItsWord ==
  /\ OneJobPerKey /\ AcceptedIsKept
  /\ RunsWithinBudget /\ EndedForGood
  /\ UnservedForAReason
=============================================================================
