------------------------ MODULE WorkerJobQueueProofs ------------------------
(***************************************************************************)
(* Theorems about the durable worker-job queue, for every set of jobs,     *)
(* keys, calls and workers and every retry budget.                         *)
(***************************************************************************)
EXTENDS WorkerJobQueue, FiniteSetTheorems, TLAPS

(***************************************************************************)
(* Part 1.  Whatever the timing.                                           *)
(***************************************************************************)

\* What the attempt number of a row and of a reservation can be.
Granted ==
  /\ \A j \in Jobs : /\ status[j] \in {"absent", "queued"} => attempt[j] = 0
                     /\ status[j] \notin {"absent", "queued"} => attempt[j] > 0
  /\ \A w \in Workers :
        pc[w] \in {"releaseVisibility", "releaseSave"} => heldAttempt[w] < MaxAttempts

\* Every attempt that was granted was run, and every settling step has a cause.
Caused ==
  /\ \A j \in Jobs : /\ status[j] = "retrying" => attempt[j] <= executions[j] + 1
                     /\ status[j] # "retrying" => attempt[j] <= executions[j]
  /\ \A w \in Workers : held[w] # NoJob => heldAttempt[w] <= executions[held[w]]
  /\ \A w \in Workers : /\ pc[w] \in {"ackLoad", "ackSave"} => "completed" \in verdicts[held[w]]
                        /\ pc[w] = "deadLoad" => "dead" \in verdicts[held[w]]
                        /\ pc[w] = "deadSave" => \/ "dead" \in verdicts[held[w]]
                                                 \/ heldAttempt[w] = MaxAttempts

Inv == TypeOK /\ Granted /\ Caused /\ SettledForAReason

LEMMA InitInv == Init => Inv
  BY QueueIds, QueueBounds, SMTT(30)
  DEF Init, Inv, TypeOK, Granted, Caused, SettledForAReason, Statuses, CallSteps, WorkerSteps

\* The calls never touch a worker, nor lower what was counted or said.
LEMMA EnqueueInv == ASSUME Inv, NEW r \in Requests, EnqueueStep(r) PROVE Inv'
<1> USE QueueIds, QueueBounds
       DEF Inv, TypeOK, Granted, Caused, SettledForAReason, Statuses, CallSteps,
           rows, callers, crew, history, Answer, Proceed
<1>1. CASE Lookup(r)
  BY <1>1 DEF Lookup
<1>2. CASE EnqueueSave(r)
  BY <1>2 DEF EnqueueSave
<1>3. CASE EnqueueVisibility(r)
  BY <1>3 DEF EnqueueVisibility
<1>4. CASE RecordKey(r)
  BY <1>4 DEF RecordKey
<1> QED BY <1>1, <1>2, <1>3, <1>4 DEF EnqueueStep

LEMMA ReserveInv ==
  ASSUME Inv, NEW w \in Workers, NEW j \in Jobs, ReserveNext(w, j) PROVE Inv'
  BY QueueIds, QueueBounds, SMTT(60)
  DEF Inv, TypeOK, Granted, Caused, SettledForAReason, Statuses, WorkerSteps, Verdicts,
      callers, ReserveNext, Reservable, NextReservationAttempt

LEMMA RecoverInv == ASSUME Inv, NEW w \in Workers, RecoverExpired(w) PROVE Inv'
  BY QueueIds, QueueBounds, SMTT(60)
  DEF Inv, TypeOK, Granted, Caused, SettledForAReason, Statuses, WorkerSteps,
      callers, history, RecoverExpired, Recover, Expired, Elapsed, Goto

LEMMA SettleInv ==
  ASSUME Inv, NEW w \in Workers,
         \/ ReserveNone(w) \/ SettleLoad(w) \/ SettleSave(w)
         \/ ReleaseVisibility(w) \/ ClearVisibility(w)
         \/ \E verdict \in Verdicts : HandlerReturns(w, verdict)
  PROVE  Inv'
<1> USE QueueIds, QueueBounds
       DEF Inv, TypeOK, Granted, Caused, SettledForAReason, Statuses, WorkerSteps,
           rows, callers, history, Goto, LetGo
<1>1. CASE ReserveNone(w)
  BY <1>1 DEF ReserveNone
<1>2. CASE SettleLoad(w)
  BY <1>2, SMTT(60) DEF SettleLoad, LoadThen, ActiveReservation, BudgetLeft
<1>3. CASE SettleSave(w)
  <2>1. CASE AckSave(w)
    BY <1>3, <2>1 DEF SettleSave, AckSave, SaveHeld
  <2>2. CASE DeadSave(w)
    BY <1>3, <2>2 DEF SettleSave, DeadSave, SaveHeld
  <2>3. CASE ReleaseSave(w)
    BY <1>3, <2>3 DEF SettleSave, ReleaseSave, SaveHeld
  <2> QED BY <1>3, <2>1, <2>2, <2>3 DEF SettleSave
<1>4. CASE ReleaseVisibility(w)
  BY <1>4 DEF ReleaseVisibility
<1>5. CASE ClearVisibility(w)
  BY <1>5 DEF ClearVisibility
<1>6. ASSUME NEW verdict \in Verdicts, HandlerReturns(w, verdict) PROVE Inv'
  BY <1>6, SMTT(60) DEF HandlerReturns, SettleStep, Verdicts
<1> QED BY <1>1, <1>2, <1>3, <1>4, <1>5, <1>6

LEMMA EnvironmentInv ==
  ASSUME Inv,
         \/ \E j \in Jobs : LeaseElapses(j)
         \/ \E w \in Workers : WorkerInterrupted(w)
         \/ \E r \in Requests : CallInterrupted(r)
         \/ UNCHANGED vars
  PROVE  Inv'
<1> USE QueueIds, QueueBounds
       DEF Inv, TypeOK, Granted, Caused, SettledForAReason, Statuses, WorkerSteps, CallSteps,
           rows, callers, crew, history, Interrupted, LetGo, Proceed
<1>1. ASSUME NEW j \in Jobs, LeaseElapses(j) PROVE Inv'
  BY <1>1 DEF LeaseElapses
<1>2. ASSUME NEW w \in Workers, WorkerInterrupted(w) PROVE Inv'
  BY <1>2 DEF WorkerInterrupted
<1>3. ASSUME NEW r \in Requests, CallInterrupted(r) PROVE Inv'
  BY <1>3 DEF CallInterrupted
<1>4. CASE UNCHANGED vars
  BY <1>4 DEF vars
<1> QED BY <1>1, <1>2, <1>3, <1>4

LEMMA NextInv == Inv /\ [Next]_vars => Inv'
  BY EnqueueInv, ReserveInv, RecoverInv, SettleInv, EnvironmentInv DEF Next, WorkerStep

THEOREM Invariance == Spec => []Inv
<1>1. Init => Inv                        BY InitInv
<1>2. Inv /\ [Next]_vars => Inv'         BY NextInv
<1> QED BY <1>1, <1>2, PTL DEF Spec

\* Every variable keeps its type; in particular no attempt number exceeds the
\* retry budget, so createAttemptNumber never throws on the queue's path.
THEOREM TypeCorrect == Spec => []TypeOK
  BY Invariance, PTL DEF Inv

\* No row is settled without a handler's verdict or a spent budget, whatever
\* leases, stale saves, repeated enqueues and crashes do.
THEOREM SettledOnlyForAReason == Spec => []SettledForAReason
  BY Invariance, PTL DEF Inv

-----------------------------------------------------------------------------
(***************************************************************************)
(* Part 2.  When every call draws its own job id, as the handlers that     *)
(* name jobs by a fresh UUID do.                                           *)
(***************************************************************************)
DistinctJobs == \A r, s \in Requests : JobOf[r] = JobOf[s] => r = s

\* The key column is unique, and an accepted call's key is in its own row.
KeysInv ==
  /\ \A i, j \in Jobs : key[i] = key[j] /\ key[i] # NoKey => i = j
  /\ \A r \in Requests : call[r] = "accepted" =>
        receipt[r] = JobOf[r] /\ key[JobOf[r]] = KeyOf[r]

LEMMA NextKeys == ASSUME DistinctJobs, Inv, KeysInv, [Next]_vars PROVE KeysInv'
<1> USE QueueIds DEF KeysInv, Inv, TypeOK, rows, callers, Answer, Proceed
<1>1. ASSUME NEW r \in Requests, RecordKey(r) PROVE KeysInv'
  BY <1>1, DistinctJobs DEF RecordKey, DistinctJobs
<1>2. ASSUME NEW r \in Requests,
             Lookup(r) \/ EnqueueSave(r) \/ EnqueueVisibility(r) \/ CallInterrupted(r)
      PROVE  KeysInv'
  BY <1>2 DEF Lookup, EnqueueSave, EnqueueVisibility, CallInterrupted
<1>3. ASSUME UNCHANGED <<key, callers>> PROVE KeysInv'
  BY <1>3
<1>4. ASSUME NEW w \in Workers, WorkerStep(w) \/ WorkerInterrupted(w)
      PROVE  UNCHANGED <<key, callers>>
  BY <1>4 DEF WorkerStep, WorkerInterrupted, RecoverExpired, Recover, ReserveNone, ReserveNext,
              HandlerReturns, SettleLoad, SettleSave, AckSave, DeadSave,
              ReleaseSave, ReleaseVisibility, ClearVisibility
<1>5. ASSUME NEW j \in Jobs, LeaseElapses(j) PROVE UNCHANGED <<key, callers>>
  BY <1>5 DEF LeaseElapses
<1> QED BY <1>1, <1>2, <1>3, <1>4, <1>5 DEF Next, EnqueueStep, vars

\* Two accepted enqueue calls with one idempotency key answer with one job,
\* however their look-ups and recordings interleave and whoever crashes.
THEOREM AcceptedOnce == ASSUME DistinctJobs PROVE Spec => []AcceptedCallsAgree
<1>1. Init => KeysInv
  BY QueueIds DEF Init, KeysInv
<1>2. Inv /\ KeysInv /\ [Next]_vars => KeysInv'
  BY NextKeys, DistinctJobs
<1>3. KeysInv => AcceptedCallsAgree
  BY QueueIds DEF KeysInv, AcceptedCallsAgree
<1> QED BY <1>1, <1>2, <1>3, Invariance, PTL DEF Spec

-----------------------------------------------------------------------------
(***************************************************************************)
(* Part 3.  When, besides, the three races of the code are won.  A worker  *)
(* then owns the row it works for: nobody else can have changed it.        *)
(***************************************************************************)
AllTimely == DistinctJobs /\ Timely = Races

\* The row of a held job is as the holder left it.
OwnsRow(w) ==
  /\ pc[w] \notin {"ackClear", "deadClear"} =>
        /\ status[held[w]] = "reserved" /\ attempt[held[w]] = heldAttempt[w]
        /\ visible[held[w]] = "later"
  /\ pc[w] = "ackClear" => status[held[w]] = "completed"
  /\ pc[w] = "deadClear" => status[held[w]] = "dead"

HoldersOwn == /\ OneHolder
              /\ \A w \in Workers : held[w] # NoJob => OwnsRow(w)

CallersPrecede ==
  \A r \in Requests :
     /\ call[r] \in {"lookup", "save", "duplicate"} => status[JobOf[r]] = "absent"
     /\ call[r] = "visibility" => status[JobOf[r]] = "queued"

\* The attempt number counts the runs exactly.
RunsCounted ==
  \A j \in Jobs :
     /\ executions[j] <= MaxAttempts
     /\ status[j] \in {"absent", "queued"} => executions[j] = 0
     /\ status[j] = "retrying" => executions[j] + 1 = attempt[j]
     /\ status[j] = "reserved" => executions[j] = attempt[j]

\* A reported success that no crash interrupted is recorded, or about to be.
SuccessKept ==
  interrupts = 0 =>
    \A j \in Jobs : "completed" \in verdicts[j] =>
       \/ status[j] = "completed"
       \/ \E w \in Workers : held[w] = j /\ pc[w] \in {"ackLoad", "ackSave"}

TimelyInv == HoldersOwn /\ CallersPrecede /\ RunsCounted /\ SuccessKept

LEMMA InitTimely == Init => TimelyInv
  BY QueueIds, QueueBounds
  DEF Init, TimelyInv, HoldersOwn, OneHolder, OwnsRow, CallersPrecede, RunsCounted, SuccessKept

LEMMA EnqueueTimely ==
  ASSUME AllTimely, Inv, TimelyInv, NEW r \in Requests, EnqueueStep(r) PROVE TimelyInv'
<1> USE AllTimely, QueueIds
       DEF AllTimely, DistinctJobs, Inv, TypeOK, TimelyInv, HoldersOwn, OneHolder, OwnsRow,
           CallersPrecede, RunsCounted, SuccessKept, rows, crew, history, Answer, Proceed
<1>1. CASE Lookup(r)
  BY <1>1 DEF Lookup
<1>2. CASE EnqueueSave(r)
  BY <1>2, SMTT(30) DEF EnqueueSave
<1>3. CASE EnqueueVisibility(r)
  BY <1>3, SMTT(30) DEF EnqueueVisibility
<1>4. CASE RecordKey(r)
  BY <1>4 DEF RecordKey
<1> QED BY <1>1, <1>2, <1>3, <1>4 DEF EnqueueStep

LEMMA ReserveTimely ==
  ASSUME AllTimely, Inv, TimelyInv, NEW w \in Workers, NEW j \in Jobs, ReserveNext(w, j)
  PROVE  TimelyInv'
<1> USE AllTimely, QueueIds, QueueBounds
       DEF AllTimely, Races, Inv, TypeOK, Granted, TimelyInv, Reservable,
           NextReservationAttempt, ReserveNext, callers
<1>1. \A v \in Workers : held[v] # j
  BY DEF HoldersOwn, OwnsRow
<1>2. HoldersOwn'
  BY <1>1 DEF HoldersOwn, OneHolder, OwnsRow, WorkerSteps
<1>3. CallersPrecede'
  BY DEF CallersPrecede, Overtakes
<1>4. RunsCounted'
  BY DEF RunsCounted
<1>5. SuccessKept'
  BY <1>1 DEF SuccessKept
<1> QED BY <1>2, <1>3, <1>4, <1>5

LEMMA RecoverTimely ==
  ASSUME AllTimely, Inv, TimelyInv, NEW w \in Workers, RecoverExpired(w) PROVE TimelyInv'
<1> USE QueueIds, QueueBounds
       DEF Inv, TypeOK, Granted, TimelyInv, RecoverExpired, Recover, Goto, callers, history
<1>1. \A v \in Workers : held[v] \notin Expired
  BY DEF HoldersOwn, OwnsRow, Expired, Elapsed, WorkerSteps
<1>2. HoldersOwn'
  BY <1>1 DEF HoldersOwn, OneHolder, OwnsRow
<1>3. CallersPrecede'
  BY DEF CallersPrecede, Expired
<1>4. RunsCounted'
  BY DEF RunsCounted, Expired
<1>5. SuccessKept'
  BY <1>1 DEF SuccessKept, Expired
<1> QED BY <1>2, <1>3, <1>4, <1>5

LEMMA SettleTimely ==
  ASSUME AllTimely, Inv, TimelyInv, NEW w \in Workers,
         \/ ReserveNone(w) \/ SettleLoad(w) \/ SettleSave(w)
         \/ ReleaseVisibility(w) \/ ClearVisibility(w)
         \/ \E verdict \in Verdicts : HandlerReturns(w, verdict)
  PROVE  TimelyInv'
<1> USE AllTimely, QueueIds, QueueBounds
       DEF AllTimely, Races, Inv, TypeOK, Granted, TimelyInv, HoldersOwn, OneHolder, OwnsRow,
           CallersPrecede, RunsCounted, SuccessKept, WorkerSteps, rows, callers, history,
           Goto, LetGo
<1>1. CASE ReserveNone(w)
  BY <1>1 DEF ReserveNone
<1>2. CASE SettleLoad(w)
  BY <1>2, SMTT(60) DEF SettleLoad, LoadThen, ActiveReservation, BudgetLeft
<1>3. CASE SettleSave(w)
  <2>1. CASE AckSave(w)
    BY <1>3, <2>1 DEF SettleSave, AckSave, SaveHeld
  <2>2. CASE DeadSave(w)
    BY <1>3, <2>2 DEF SettleSave, DeadSave, SaveHeld
  <2>3. CASE ReleaseSave(w)
    BY <1>3, <2>3, SMTT(30) DEF SettleSave, ReleaseSave, SaveHeld
  <2> QED BY <1>3, <2>1, <2>2, <2>3 DEF SettleSave
<1>4. CASE ReleaseVisibility(w)
  BY <1>4, SMTT(30) DEF ReleaseVisibility
<1>5. CASE ClearVisibility(w)
  BY <1>5, SMTT(30) DEF ClearVisibility
<1>6. ASSUME NEW verdict \in Verdicts, HandlerReturns(w, verdict) PROVE TimelyInv'
  BY <1>6, SMTT(60) DEF HandlerReturns, SettleStep, Verdicts
<1> QED BY <1>1, <1>2, <1>3, <1>4, <1>5, <1>6

LEMMA EnvironmentTimely ==
  ASSUME AllTimely, Inv, TimelyInv,
         \/ \E j \in Jobs : LeaseElapses(j)
         \/ \E w \in Workers : WorkerInterrupted(w)
         \/ \E r \in Requests : CallInterrupted(r)
         \/ UNCHANGED vars
  PROVE  TimelyInv'
<1> USE AllTimely, QueueIds, QueueBounds
       DEF AllTimely, Races, Inv, TypeOK, TimelyInv, HoldersOwn, OneHolder, OwnsRow,
           CallersPrecede, RunsCounted, SuccessKept, WorkerSteps, rows, callers, crew,
           history, Interrupted, LetGo, Proceed
<1>1. ASSUME NEW j \in Jobs, LeaseElapses(j) PROVE TimelyInv'
  BY <1>1, SMTT(30) DEF LeaseElapses
<1>2. ASSUME NEW w \in Workers, WorkerInterrupted(w) PROVE TimelyInv'
  BY <1>2, SMTT(30) DEF WorkerInterrupted
<1>3. ASSUME NEW r \in Requests, CallInterrupted(r) PROVE TimelyInv'
  BY <1>3, SMTT(30) DEF CallInterrupted
<1>4. CASE UNCHANGED vars
  BY <1>4 DEF vars
<1> QED BY <1>1, <1>2, <1>3, <1>4

LEMMA TimelyInvariance == ASSUME AllTimely PROVE Spec => [](Inv /\ TimelyInv)
<1>1. Inv /\ TimelyInv /\ [Next]_vars => TimelyInv'
  BY AllTimely, EnqueueTimely, ReserveTimely, RecoverTimely, SettleTimely, EnvironmentTimely
  DEF Next, WorkerStep
<1> QED BY <1>1, InitTimely, Invariance, PTL DEF Spec

\* No two workers ever work for one job at the same time.
THEOREM ExclusiveWork == ASSUME AllTimely PROVE Spec => []OneHolder
  BY TimelyInvariance, PTL DEF TimelyInv, HoldersOwn

\* Nobody is given a job whose handler has reported success, unless a crash or
\* a failed statement came between the report and the record of it.
THEOREM NoIdleRerun == ASSUME AllTimely PROVE Spec => RerunOnlyAfterInterrupt
<1>1. ASSUME Inv, TimelyInv, [Next]_vars, NEW j \in Jobs,
             executions'[j] > executions[j], interrupts = 0
      PROVE  "completed" \notin verdicts[j]
  <2>1. PICK w \in Workers : ReserveNext(w, j)
    BY <1>1 DEF Next, vars, Inv, TypeOK, WorkerStep, EnqueueStep, Lookup, EnqueueSave,
       EnqueueVisibility, RecordKey, CallInterrupted, WorkerInterrupted, RecoverExpired,
       Recover, ReserveNone, ReserveNext, HandlerReturns, SettleLoad, SettleSave, AckSave, DeadSave,
              ReleaseSave, ReleaseVisibility,
       ClearVisibility, LeaseElapses, history
  <2> QED
    BY <1>1, <2>1, QueueIds
    DEF ReserveNext, Reservable, TimelyInv, SuccessKept, HoldersOwn, OwnsRow
<1>2. Inv /\ TimelyInv /\ [Next]_vars =>
        [\A j \in Jobs : executions'[j] > executions[j] /\ interrupts = 0
                            => "completed" \notin verdicts[j]]_vars
  BY <1>1
<1> QED BY <1>2, TimelyInvariance, PTL DEF Spec, RerunOnlyAfterInterrupt

\* The queue implements the ledger: at most MaxAttempts runs of a job, one at a
\* time, and outcomes that are final.
THEOREM QueueImplementsLedger == ASSUME AllTimely PROVE Spec => ImplementsLedger
<1>1. Init => Ledger!Init
  BY DEF Init, Ledger!Init, LedgerState
<1>2. ASSUME Inv, TimelyInv, [Next]_vars PROVE [Ledger!Next]_(Ledger!ledger)
  <2> USE <1>2, AllTimely, QueueIds, QueueBounds
      DEF AllTimely, Inv, TypeOK, Statuses, LedgerState, TimelyInv, HoldersOwn, OwnsRow,
          CallersPrecede, RunsCounted, WorkerSteps, callers, rows, crew, history,
          Ledger!Next, Ledger!Accept, Ledger!Start, Ledger!HandBack, Ledger!Complete,
          Ledger!GiveUp, Ledger!Rest, Ledger!Move
  <2>1. ASSUME UNCHANGED <<status, executions>> PROVE Ledger!Next
    BY <2>1
  <2>2. ASSUME NEW r \in Requests, EnqueueSave(r) PROVE Ledger!Next
    BY <2>2 DEF EnqueueSave
  <2>3. ASSUME NEW w \in Workers, RecoverExpired(w) PROVE Ledger!Next
    BY <2>3 DEF RecoverExpired, Recover, Expired
  <2>4. ASSUME NEW w \in Workers, NEW i \in Jobs, ReserveNext(w, i) PROVE Ledger!Next
    BY <2>4 DEF ReserveNext, Reservable, Granted
  <2>5. ASSUME NEW w \in Workers, SettleSave(w) PROVE Ledger!Next
    BY <2>5, SMTT(60) DEF SettleSave, AckSave, DeadSave, ReleaseSave, SaveHeld, Granted
  <2>6. ASSUME NEW r \in Requests,
               \/ Lookup(r) \/ EnqueueVisibility(r) \/ RecordKey(r) \/ CallInterrupted(r)
        PROVE  UNCHANGED <<status, executions>>
    BY <2>6 DEF Lookup, EnqueueVisibility, RecordKey, CallInterrupted
  <2>7. ASSUME NEW w \in Workers,
               \/ ReserveNone(w) \/ SettleLoad(w) \/ ReleaseVisibility(w)
               \/ ClearVisibility(w) \/ WorkerInterrupted(w)
               \/ \E verdict \in Verdicts : HandlerReturns(w, verdict)
        PROVE  UNCHANGED <<status, executions>>
    BY <2>7 DEF ReserveNone, SettleLoad, ReleaseVisibility, ClearVisibility,
                WorkerInterrupted, HandlerReturns
  <2>8. ASSUME NEW j \in Jobs, LeaseElapses(j) PROVE UNCHANGED <<status, executions>>
    BY <2>8 DEF LeaseElapses
  <2> QED
    BY <1>2, <2>1, <2>2, <2>3, <2>4, <2>5, <2>6, <2>7, <2>8
    DEF Next, vars, EnqueueStep, WorkerStep
<1> QED BY <1>1, <1>2, TimelyInvariance, PTL DEF Spec, ImplementsLedger, Ledger!Spec

-----------------------------------------------------------------------------
(***************************************************************************)
(* Part 4.  How often a job is run when none of the races is won.          *)
(***************************************************************************)

LEMMA Doubles == \A n \in Nat : 2 ^ n \in Nat \ {0} /\ 2 ^ (n + 1) = 2 * 2 ^ n
<1> SUFFICES ASSUME NEW n \in Nat
             PROVE  2 ^ n \in Nat \ {0} /\ 2 ^ (n + 1) = 2 * 2 ^ n
  OBVIOUS
<1> DEFINE old == SUBSET (1..n)
           new == {s \cup {n + 1} : s \in old}
<1>1. /\ IsFiniteSet(old) /\ Cardinality(old) = 2 ^ n
      /\ IsFiniteSet(SUBSET (1..(n + 1))) /\ Cardinality(SUBSET (1..(n + 1))) = 2 ^ (n + 1)
  <2>1. /\ IsFiniteSet(1..n) /\ Cardinality(1..n) = n
        /\ IsFiniteSet(1..(n + 1)) /\ Cardinality(1..(n + 1)) = n + 1
    BY FS_Interval
  <2> QED BY <2>1, FS_SUBSET
<1>2. SUBSET (1..(n + 1)) = old \cup new
  <2>1. 1..(n + 1) = (1..n) \cup {n + 1}
    OBVIOUS
  <2>2. ASSUME NEW s \in SUBSET (1..(n + 1)) PROVE s \in old \cup new
    <3>1. CASE n + 1 \in s
      <4>1. s \ {n + 1} \in old /\ s = (s \ {n + 1}) \cup {n + 1}
        BY <2>1, <3>1
      <4> QED BY <4>1
    <3>2. CASE n + 1 \notin s
      BY <2>1, <3>2
    <3> QED BY <3>1, <3>2
  <2>3. old \cup new \subseteq SUBSET (1..(n + 1))
    BY <2>1
  <2> QED BY <2>2, <2>3
<1>3. old \cap new = {}
  OBVIOUS
<1>4. IsFiniteSet(new) /\ Cardinality(new) = Cardinality(old)
  <2> DEFINE add == [s \in old |-> s \cup {n + 1}]
  <2>1. add \in Bijection(old, new)
    <3>1. ASSUME NEW s \in old, NEW t \in old, add[s] = add[t] PROVE s = t
      <4>1. n + 1 \notin s /\ n + 1 \notin t
        OBVIOUS
      <4>2. s \cup {n + 1} = t \cup {n + 1}
        BY <3>1
      <4> QED BY <4>1, <4>2
    <3>2. add \in [old -> new] /\ \A t \in new : \E s \in old : add[s] = t
      OBVIOUS
    <3> HIDE DEF add, old, new
    <3> QED BY <3>1, <3>2 DEF Bijection, Injection, Surjection, IsInjective
  <2> HIDE DEF add, old, new
  <2> QED BY <1>1, <2>1, FS_Bijection DEF ExistsBijection
<1>5. Cardinality(old \cup new) = Cardinality(old) + Cardinality(new) - Cardinality(old \cap new)
  BY <1>1, <1>4, FS_Union
<1>6. Cardinality(old) \in Nat \ {0}
  <2>1. old # {}
    OBVIOUS
  <2> QED BY <1>1, <2>1, FS_CardinalityType, FS_EmptySet
<1>7. Cardinality(old \cap new) = 0
  BY <1>3, FS_EmptySet
<1>8. Cardinality(SUBSET (1..(n + 1))) = Cardinality(old) + Cardinality(old)
  <2> HIDE DEF old, new
  <2>1. Cardinality(SUBSET (1..(n + 1))) = Cardinality(old \cup new)
    BY <1>2
  <2>2. Cardinality(old \cup new) = Cardinality(old) + Cardinality(old) - 0
    BY <1>4, <1>5, <1>7
  <2> QED BY <2>1, <2>2, <1>6
<1> HIDE DEF old, new
<1> QED BY <1>1, <1>6, <1>8

\* The runs that may come of a job whose next attempt is the n-th.
Follow(n) == 2 ^ ((MaxAttempts + 1) - n) - 1

LEMMA FollowIs ==
  /\ \A n \in 1..(MaxAttempts + 1) : Follow(n) \in Nat
  /\ \A n \in 1..MaxAttempts : Follow(n) = 1 + 2 * Follow(n + 1)
  /\ Follow(1) = 2 ^ MaxAttempts - 1
<1>1. ASSUME NEW n \in 1..(MaxAttempts + 1) PROVE Follow(n) \in Nat
  <2>1. (MaxAttempts + 1) - n \in Nat
    BY QueueBounds
  <2>2. 2 ^ ((MaxAttempts + 1) - n) \in Nat \ {0}
    BY <2>1, Doubles
  <2> QED BY <2>2 DEF Follow
<1>2. ASSUME NEW n \in 1..MaxAttempts PROVE Follow(n) = 1 + 2 * Follow(n + 1)
  <2> DEFINE m == (MaxAttempts + 1) - (n + 1)
  <2>1. m \in Nat /\ (MaxAttempts + 1) - n = m + 1
    BY QueueBounds
  <2>2. 2 ^ m \in Nat \ {0} /\ 2 ^ (m + 1) = 2 * 2 ^ m
    BY <2>1, Doubles
  <2>3. Follow(n) = 2 ^ (m + 1) - 1 /\ Follow(n + 1) = 2 ^ m - 1
    BY <2>1 DEF Follow
  <2> HIDE DEF m
  <2> QED BY <2>2, <2>3
<1>3. Follow(1) = 2 ^ MaxAttempts - 1
  <2>1. (MaxAttempts + 1) - 1 = MaxAttempts
    BY QueueBounds
  <2> QED BY <2>1 DEF Follow
<1> QED BY <1>1, <1>2, <1>3

(* Every run of a job takes one place of 1..Follow(1), no two the same.  The row *)
(* and each worker that holds the job keep a part of the places to themselves:   *)
(* room for the runs that may yet come of them.                                  *)
RowLeft(j) == IF status[j] \in {"absent", "queued"} THEN Follow(1)
              ELSE IF status[j] = "retrying" THEN Follow(attempt[j])
              ELSE IF status[j] = "reserved" THEN Follow(attempt[j] + 1) ELSE 0
HolderLeft(w) == Follow(heldAttempt[w] + 1)
Part(lo, n) == (lo + 1)..(lo + n)

Share(j, used, row, at) ==
  /\ used \subseteq 1..Follow(1) /\ Cardinality(used) = executions[j]
  /\ Part(row, RowLeft(j)) \subseteq (1..Follow(1)) \ used
  /\ \A w \in Workers :
       held[w] = j => /\ Part(at[w], HolderLeft(w)) \subseteq (1..Follow(1)) \ used
                      /\ Part(at[w], HolderLeft(w)) \cap Part(row, RowLeft(j)) = {}
  /\ \A v, w \in Workers :
       held[v] = j /\ held[w] = j /\ v # w =>
         Part(at[v], HolderLeft(v)) \cap Part(at[w], HolderLeft(w)) = {}

Shared(j) ==
  \E used \in SUBSET Nat, row \in Nat, at \in [Workers -> Nat] : Share(j, used, row, at)

InsertedOnce ==
  /\ \A r \in Requests : call[r] \in {"lookup", "save"} => status[JobOf[r]] = "absent"
  /\ \A w \in Workers : held[w] # NoJob => status[held[w]] # "absent"

AmplifiedInv == InsertedOnce /\ \A j \in Jobs : Shared(j)

Counted ==
  /\ \A j \in Jobs : RowLeft(j) \in Nat
  /\ \A w \in Workers : held[w] # NoJob => HolderLeft(w) \in Nat

LEMMA LeftIs == Inv => Counted
<1> SUFFICES ASSUME Inv PROVE Counted
  OBVIOUS
<1> USE QueueBounds DEF Inv, TypeOK, Granted
<1>1. ASSUME NEW j \in Jobs PROVE RowLeft(j) \in Nat
  <2>1. 1 \in 1..(MaxAttempts + 1)
    OBVIOUS
  <2>2. status[j] = "retrying" => attempt[j] \in 1..(MaxAttempts + 1)
    OBVIOUS
  <2>3. status[j] = "reserved" => attempt[j] + 1 \in 1..(MaxAttempts + 1)
    OBVIOUS
  <2> QED BY <2>1, <2>2, <2>3, FollowIs DEF RowLeft
<1>2. ASSUME NEW w \in Workers, held[w] # NoJob PROVE HolderLeft(w) \in Nat
  <2>1. heldAttempt[w] + 1 \in 1..(MaxAttempts + 1)
    BY <1>2
  <2> QED BY <2>1, FollowIs DEF HolderLeft
<1> QED BY <1>1, <1>2 DEF Counted

LEMMA LeftStays == Inv' => Counted'
  BY LeftIs, PTL

\* A part of fewer places, from the same one on.
LEMMA SmallerPart ==
  ASSUME NEW lo \in Nat, NEW m \in Nat, NEW n \in Nat, m <= n
  PROVE  Part(lo, m) \subseteq Part(lo, n)
BY DEF Part

\* A step that runs no job and gives nobody more to come.
LEMMA SharedShrinks ==
  ASSUME Inv, Inv', NEW j \in Jobs, Shared(j),
         executions'[j] = executions[j], RowLeft(j)' <= RowLeft(j),
         \A w \in Workers : held'[w] = j => held[w] = j /\ heldAttempt'[w] = heldAttempt[w]
  PROVE  Shared(j)'
<1>1. PICK used \in SUBSET Nat, row \in Nat, at \in [Workers -> Nat] : Share(j, used, row, at)
  BY DEF Shared
<1>2. RowLeft(j) \in Nat /\ RowLeft(j)' \in Nat
  BY LeftIs, LeftStays DEF Counted
<1>3. Part(row, RowLeft(j)') \subseteq Part(row, RowLeft(j))
  BY <1>2, SmallerPart
<1>4. \A w \in Workers : held'[w] = j => held[w] = j /\ HolderLeft(w)' = HolderLeft(w)
  BY DEF HolderLeft
<1>5. Share(j, used, row, at)'
  <2> HIDE DEF Share
  <2> DEFINE left == RowLeft(j)
             now == RowLeft(j)'
  <2>1. Part(row, RowLeft(j))' = Part(row, RowLeft(j)')
    BY DEF Part
  <2>2. \A w \in Workers : held'[w] = j => Part(at[w], HolderLeft(w))' = Part(at[w], HolderLeft(w))
    BY <1>4 DEF Part
  <2> QED BY <1>1, <1>3, <1>4, <2>1, <2>2 DEF Share, Follow
<1> QED BY <1>5 DEF Shared

\* The run takes the first of the row's places; what is left is halved.
LEMMA PartSplits ==
  ASSUME NEW lo \in Nat, NEW n \in Nat
  PROVE  /\ Part(lo, 1 + 2 * n) = {lo + 1} \cup Part(lo + 1, n) \cup Part(lo + 1 + n, n)
         /\ lo + 1 \notin Part(lo + 1, n) \cup Part(lo + 1 + n, n)
         /\ Part(lo + 1, n) \cap Part(lo + 1 + n, n) = {}
BY DEF Part

LEMMA ReserveShares ==
  ASSUME Inv, NEW w \in Workers, NEW j \in Jobs, ReserveNext(w, j), Shared(j)
  PROVE  Shared(j)'
<1> DEFINE n == NextReservationAttempt(j)
<1>1. PICK used \in SUBSET Nat, row \in Nat, at \in [Workers -> Nat] : Share(j, used, row, at)
  BY DEF Shared
<1>2. n \in 1..MaxAttempts
  BY QueueBounds DEF Inv, TypeOK, Granted, ReserveNext, Reservable, NextReservationAttempt
<1>3. /\ RowLeft(j) = Follow(n) /\ RowLeft(j)' = Follow(n + 1)
      /\ HolderLeft(w)' = Follow(n + 1)
  BY QueueBounds
  DEF Inv, TypeOK, Granted, ReserveNext, Reservable, NextReservationAttempt, RowLeft,
      HolderLeft, Follow
<1>4. PICK half \in Nat : half = Follow(n + 1) /\ Follow(n) = 1 + 2 * half
  <2>1. n + 1 \in 1..(MaxAttempts + 1)
    BY <1>2, QueueBounds
  <2> HIDE DEF n
  <2> QED BY <1>2, <2>1, FollowIs
<1>5. /\ held[w] = NoJob /\ held' = [held EXCEPT ![w] = j] /\ held[w] # j
      /\ \A v \in Workers \ {w} : HolderLeft(v)' = HolderLeft(v)
      /\ executions' = [executions EXCEPT ![j] = @ + 1]
      /\ executions[j] \in Nat /\ executions'[j] = executions[j] + 1
      /\ DOMAIN held = Workers
  BY QueueIds DEF Inv, TypeOK, ReserveNext, HolderLeft, Follow
<1> HIDE DEF n
<1> DEFINE taken == used \cup {row + 1}
           places == [at EXCEPT ![w] = row + 1 + half]
<1>6. /\ Part(row, RowLeft(j)) = {row + 1} \cup Part(row + 1, half) \cup Part(row + 1 + half, half)
      /\ row + 1 \notin Part(row + 1, half) \cup Part(row + 1 + half, half)
      /\ Part(row + 1, half) \cap Part(row + 1 + half, half) = {}
  <2>1. RowLeft(j) = 1 + 2 * half
    BY <1>3, <1>4
  <2> QED BY <2>1, PartSplits
<1>7. row + 1 \in (1..Follow(1)) \ used
  BY <1>1, <1>6 DEF Share
<1>8. Cardinality(taken) = executions[j] + 1
  <2>1. Follow(1) \in Nat
    BY FollowIs, QueueBounds
  <2>2. IsFiniteSet(1..Follow(1))
    BY <2>1, FS_Interval
  <2>3. IsFiniteSet(used) /\ Cardinality(used) = executions[j]
    BY <1>1, <2>2, FS_Subset DEF Share
  <2> QED BY <1>7, <2>3, FS_AddElement
<1>9. /\ (Part(row + 1, RowLeft(j)) = Part(row + 1, half))'
      /\ (Part(places[w], HolderLeft(w)) = Part(row + 1 + half, half))'
  BY <1>3, <1>4
<1>10. \A v \in Workers \ {w} : (Part(places[v], HolderLeft(v)))' = Part(at[v], HolderLeft(v))
  BY <1>5 DEF Part
<1>11. Share(j, taken, row + 1, places)'
  <2>1. PICK whole, first, second, old :
          /\ whole = Part(row, RowLeft(j))
          /\ first = Part(row + 1, half) /\ second = Part(row + 1 + half, half)
          /\ old = [v \in Workers |-> Part(at[v], HolderLeft(v))]
    OBVIOUS
  <2>2. PICK now : now = [v \in Workers |-> Part(places[v], HolderLeft(v)')]
    OBVIOUS
  <2>3. /\ whole = {row + 1} \cup first \cup second /\ row + 1 \notin first \cup second
        /\ first \cap second = {}
    BY <1>6, <2>1
  <2>4. /\ used \subseteq 1..Follow(1) /\ whole \subseteq (1..Follow(1)) \ used
        /\ \A v \in Workers : held[v] = j => /\ old[v] \subseteq (1..Follow(1)) \ used
                                             /\ old[v] \cap whole = {}
        /\ \A u, v \in Workers : held[u] = j /\ held[v] = j /\ u # v => old[u] \cap old[v] = {}
    BY <1>1, <2>1 DEF Share
  <2>5. /\ now[w] = second
        /\ \A v \in Workers \ {w} : now[v] = old[v]
    BY <1>9, <1>10, <2>1, <2>2
  <2>6. \A v \in Workers : held'[v] = j => v = w \/ held[v] = j
    BY <1>5
  <2>7. /\ taken \subseteq 1..Follow(1) /\ Cardinality(taken) = executions'[j]
        /\ first \subseteq (1..Follow(1)) \ taken
    BY <1>5, <1>7, <1>8, <2>3, <2>4
  <2>8. \A v \in Workers : held'[v] = j => /\ now[v] \subseteq (1..Follow(1)) \ taken
                                           /\ now[v] \cap first = {}
    BY <2>3, <2>4, <2>5, <2>6
  <2>9. \A u, v \in Workers : held'[u] = j /\ held'[v] = j /\ u # v => now[u] \cap now[v] = {}
    BY <2>3, <2>4, <2>5, <2>6
  <2>10. /\ Part(row + 1, RowLeft(j))' = first
         /\ \A v \in Workers : Part(places[v], HolderLeft(v))' = now[v]
    BY <1>9, <2>1, <2>2 DEF Part
  <2> HIDE DEF taken, places
  <2> QED BY <2>7, <2>8, <2>9, <2>10 DEF Share, Follow
<1>12. taken \in SUBSET Nat /\ places \in [Workers -> Nat] /\ row + 1 \in Nat
  OBVIOUS
<1> HIDE DEF taken, places
<1> QED BY <1>11, <1>12 DEF Shared

\* The released worker's part is the row's from now on.
LEMMA ReleaseShares ==
  ASSUME Inv, NEW w \in Workers, NEW j \in Jobs, SettleSave(w), ReleaseSave(w), held[w] = j,
         Shared(j)
  PROVE  Shared(j)'
<1>1. PICK used \in SUBSET Nat, row \in Nat, at \in [Workers -> Nat] : Share(j, used, row, at)
  BY DEF Shared
<1>2. /\ RowLeft(j)' = HolderLeft(w) /\ executions'[j] = executions[j]
      /\ \A v \in Workers : held'[v] = j => /\ v # w /\ held[v] = j
                                            /\ HolderLeft(v)' = HolderLeft(v)
  BY QueueIds DEF Inv, TypeOK, SettleSave, ReleaseSave, SaveHeld, LetGo, history, RowLeft,
                  HolderLeft, Follow
<1>3. Share(j, used, at[w], at)'
  <2>1. \A v \in Workers : held'[v] = j => Part(at[v], HolderLeft(v))' = Part(at[v], HolderLeft(v))
    BY <1>2 DEF Part
  <2>2. Part(at[w], RowLeft(j))' = Part(at[w], HolderLeft(w))
    BY <1>2 DEF Part
  <2> QED BY <1>1, <1>2, <2>1, <2>2 DEF Share, Follow
<1>4. at[w] \in Nat
  OBVIOUS
<1> QED BY <1>3, <1>4 DEF Shared

\* A step that leaves a job's row and attempt alone, and gives it to nobody.
LEMMA RowRests ==
  ASSUME Inv, Inv', NEW j \in Jobs, Shared(j), executions'[j] = executions[j],
         status'[j] = status[j], attempt'[j] = attempt[j],
         \A w \in Workers : held'[w] = j => held[w] = j /\ heldAttempt'[w] = heldAttempt[w]
  PROVE  Shared(j)'
<1>1. RowLeft(j)' = RowLeft(j) /\ RowLeft(j) \in Nat
  BY LeftIs DEF Counted, RowLeft, Follow
<1> QED BY <1>1, SharedShrinks

LEMMA EnqueueShares ==
  ASSUME Inv, Inv', InsertedOnce, NEW r \in Requests, EnqueueStep(r) \/ CallInterrupted(r),
         NEW j \in Jobs, Shared(j)
  PROVE  Shared(j)'
<1> USE DEF rows, crew, history
<1>1. CASE EnqueueSave(r)
  <2>1. RowLeft(j)' = RowLeft(j) /\ RowLeft(j) \in Nat
    BY <1>1, LeftIs, QueueIds
    DEF Inv, TypeOK, Granted, InsertedOnce, EnqueueSave, Counted, RowLeft, Follow
  <2> QED BY <1>1, <2>1, SharedShrinks DEF EnqueueSave
<1>2. CASE Lookup(r) \/ EnqueueVisibility(r) \/ RecordKey(r) \/ CallInterrupted(r)
  BY <1>2, RowRests DEF Lookup, EnqueueVisibility, RecordKey, CallInterrupted
<1> QED BY <1>1, <1>2 DEF EnqueueStep

LEMMA RecoverShares ==
  ASSUME Inv, Inv', NEW w \in Workers, RecoverExpired(w), NEW j \in Jobs, Shared(j)
  PROVE  Shared(j)'
<1>1. /\ executions'[j] = executions[j]
      /\ held' = held /\ heldAttempt' = heldAttempt
  BY DEF RecoverExpired, Goto, history
<1>2. \/ status'[j] = status[j] /\ attempt'[j] = attempt[j]
      \/ status[j] = "reserved" /\ status'[j] = "retrying" /\ attempt'[j] = attempt[j] + 1
      \/ status'[j] = "dead"
  BY DEF RecoverExpired, Recover, Expired
<1>3. RowLeft(j)' = RowLeft(j) \/ RowLeft(j)' = 0
  BY <1>2 DEF RowLeft, Follow
<1>4. RowLeft(j) \in Nat
  BY LeftIs DEF Counted
<1> QED BY <1>1, <1>3, <1>4, SharedShrinks

LEMMA SettleShares ==
  ASSUME Inv, Inv', NEW w \in Workers, SettleSave(w), NEW j \in Jobs, Shared(j)
  PROVE  Shared(j)'
<1>1. CASE held[w] = j /\ ReleaseSave(w)
  BY <1>1, ReleaseShares
<1>2. CASE held[w] = j /\ (AckSave(w) \/ DeadSave(w))
  <2>1. /\ RowLeft(j)' = 0 /\ executions'[j] = executions[j]
        /\ held' = held /\ heldAttempt' = heldAttempt
    BY <1>2 DEF Inv, TypeOK, SettleSave, AckSave, DeadSave, SaveHeld, Goto, history, RowLeft
  <2>2. RowLeft(j) \in Nat
    BY LeftIs DEF Counted
  <2> QED BY <2>1, <2>2, SharedShrinks
<1>3. CASE held[w] # j
  <2>1. /\ executions'[j] = executions[j] /\ status'[j] = status[j] /\ attempt'[j] = attempt[j]
        /\ \A v \in Workers : held'[v] = j => held[v] = j /\ heldAttempt'[v] = heldAttempt[v]
    BY <1>3, QueueIds
    DEF Inv, TypeOK, SettleSave, AckSave, DeadSave, ReleaseSave, SaveHeld, Goto, LetGo, history
  <2> QED BY <2>1, RowRests
<1> QED BY <1>1, <1>2, <1>3 DEF SettleSave

LEMMA RestShares ==
  ASSUME Inv, Inv', NEW j \in Jobs, Shared(j),
         \/ \E w \in Workers : \/ ReserveNone(w) \/ SettleLoad(w) \/ ReleaseVisibility(w)
                               \/ ClearVisibility(w) \/ WorkerInterrupted(w)
                               \/ \E verdict \in Verdicts : HandlerReturns(w, verdict)
         \/ \E i \in Jobs : LeaseElapses(i)
         \/ UNCHANGED vars
  PROVE  Shared(j)'
<1>1. /\ executions'[j] = executions[j] /\ status'[j] = status[j] /\ attempt'[j] = attempt[j]
      /\ \A v \in Workers : held'[v] = j => held[v] = j /\ heldAttempt'[v] = heldAttempt[v]
  BY QueueIds
  DEF Inv, TypeOK, vars, rows, crew, history, ReserveNone, SettleLoad, LoadThen,
      ReleaseVisibility, ClearVisibility, WorkerInterrupted, HandlerReturns, LeaseElapses,
      Goto, LetGo
<1> QED BY <1>1, RowRests

LEMMA NextShares ==
  ASSUME Inv, Inv', InsertedOnce, [Next]_vars, NEW j \in Jobs, Shared(j) PROVE Shared(j)'
<1>1. ASSUME NEW w \in Workers, NEW i \in Jobs, ReserveNext(w, i), i # j PROVE Shared(j)'
  <2>1. /\ executions'[j] = executions[j] /\ status'[j] = status[j] /\ attempt'[j] = attempt[j]
        /\ \A v \in Workers : held'[v] = j => held[v] = j /\ heldAttempt'[v] = heldAttempt[v]
    BY <1>1 DEF Inv, TypeOK, ReserveNext
  <2> QED BY <2>1, RowRests
<1> QED
  BY <1>1, ReserveShares, EnqueueShares, RecoverShares, SettleShares, RestShares
  DEF Next, WorkerStep

LEMMA InsertsOnce ==
  ASSUME DistinctJobs, Inv, InsertedOnce, [Next]_vars PROVE InsertedOnce'
<1> USE QueueIds DEF Inv, TypeOK, InsertedOnce, rows, callers, crew, history, Goto, LetGo, Proceed,
                     Answer
<1>1. ASSUME NEW r \in Requests, EnqueueStep(r) \/ CallInterrupted(r) PROVE InsertedOnce'
  BY <1>1, DistinctJobs
  DEF DistinctJobs, EnqueueStep, Lookup, EnqueueSave, EnqueueVisibility, RecordKey,
      CallInterrupted
<1>2. ASSUME NEW w \in Workers, NEW j \in Jobs, ReserveNext(w, j) PROVE InsertedOnce'
  BY <1>2 DEF ReserveNext, Reservable
<1>3. ASSUME NEW w \in Workers, RecoverExpired(w) PROVE InsertedOnce'
  BY <1>3 DEF RecoverExpired, Recover, Expired
<1>4. ASSUME NEW w \in Workers, SettleSave(w) PROVE InsertedOnce'
  BY <1>4, SMTT(30) DEF SettleSave, AckSave, DeadSave, ReleaseSave, SaveHeld
<1>5. ASSUME NEW w \in Workers,
             \/ ReserveNone(w) \/ SettleLoad(w) \/ ReleaseVisibility(w)
             \/ ClearVisibility(w) \/ WorkerInterrupted(w)
             \/ \E verdict \in Verdicts : HandlerReturns(w, verdict)
      PROVE  InsertedOnce'
  BY <1>5, SMTT(30)
  DEF ReserveNone, SettleLoad, LoadThen, ReleaseVisibility, ClearVisibility,
      WorkerInterrupted, HandlerReturns
<1>6. ASSUME NEW j \in Jobs, LeaseElapses(j) PROVE InsertedOnce'
  BY <1>6 DEF LeaseElapses
<1>7. CASE UNCHANGED vars
  BY <1>7 DEF vars
<1> QED BY <1>1, <1>2, <1>3, <1>4, <1>5, <1>6, <1>7 DEF Next, WorkerStep

LEMMA InitShares == Init => AmplifiedInv
<1> SUFFICES ASSUME Init PROVE AmplifiedInv
  OBVIOUS
<1>1. InsertedOnce
  BY QueueIds DEF Init, InsertedOnce
<1>2. ASSUME NEW j \in Jobs PROVE Shared(j)
  <2> DEFINE at == [w \in Workers |-> 0]
  <2>1. Follow(1) \in Nat
    BY FollowIs, QueueBounds
  <2>2. RowLeft(j) = Follow(1) /\ executions[j] = 0 /\ \A w \in Workers : held[w] # j
    BY <1>2, QueueIds DEF Init, RowLeft
  <2>3. Part(0, RowLeft(j)) = 1..Follow(1)
    BY <2>1, <2>2 DEF Part
  <2>4. Cardinality({}) = 0
    BY FS_EmptySet
  <2>5. Share(j, {}, 0, at)
    <3> HIDE DEF at
    <3> QED BY <2>2, <2>3, <2>4 DEF Share
  <2>6. at \in [Workers -> Nat]
    OBVIOUS
  <2> HIDE DEF at
  <2> QED BY <2>5, <2>6 DEF Shared
<1> QED BY <1>1, <1>2 DEF AmplifiedInv

\* However leases run out under a worker, visibilities overtake and stale releases are
\* saved, over any number of workers and crashes: no job is run as often as 2 ^ MaxAttempts
\* times, as long as every call draws its own job id (reserve, releaseForRetry).
THEOREM RunsStayBounded == ASSUME DistinctJobs PROVE Spec => []RunsAmplifiedAtMost
<1>1. ASSUME Inv, Inv', AmplifiedInv, [Next]_vars PROVE AmplifiedInv'
  BY <1>1, DistinctJobs, InsertsOnce, NextShares DEF AmplifiedInv
<1>2. Inv /\ Inv' /\ AmplifiedInv /\ [Next]_vars => AmplifiedInv'
  BY <1>1
<1>3. AmplifiedInv => RunsAmplifiedAtMost
  <2> SUFFICES ASSUME AmplifiedInv, NEW j \in Jobs PROVE executions[j] < 2 ^ MaxAttempts
    BY DEF RunsAmplifiedAtMost
  <2>1. PICK used \in SUBSET Nat : used \subseteq 1..Follow(1) /\ Cardinality(used) = executions[j]
    BY DEF AmplifiedInv, Shared, Share
  <2>2. Follow(1) \in Nat /\ Follow(1) = 2 ^ MaxAttempts - 1 /\ 2 ^ MaxAttempts \in Nat
    <3>1. 1 \in 1..(MaxAttempts + 1) /\ MaxAttempts \in Nat
      BY QueueBounds
    <3> QED BY <3>1, FollowIs, Doubles
  <2>3. IsFiniteSet(1..Follow(1)) /\ Cardinality(1..Follow(1)) = Follow(1)
    <3>1. PICK top \in Nat : top = Follow(1)
      BY <2>2
    <3>2. IsFiniteSet(1..top) /\ Cardinality(1..top) = top
      BY FS_Interval
    <3> QED BY <3>1, <3>2
  <2>4. IsFiniteSet(used) /\ Cardinality(used) <= Follow(1)
    BY <2>1, <2>3, FS_Subset
  <2>5. Cardinality(used) \in Nat
    BY <2>4, FS_CardinalityType
  <2> QED BY <2>1, <2>2, <2>4, <2>5
<1> QED BY <1>2, <1>3, InitShares, Invariance, PTL DEF Spec
=============================================================================
