----------------------- MODULE OutboundMessageProofs -----------------------
(***************************************************************************)
(* Theorems about the send pipeline, for every set of commands, retries,   *)
(* keys and cancellations and every retry budget.                          *)
(***************************************************************************)
EXTENDS OutboundMessage, TLAPS

\* The command has not yet made its message one that a worker dispatches.
Pending(c) == cpc[c] \notin {"publish", "done"}

Passive == {"idle", "handback", "giveup"}

\* Until then the message is not queued and no run of its job gets anywhere.
PendingIsQuiet ==
  \A c \in Commands :
     Pending(c) => /\ status[c] \in {"absent", "created", "cancelled"}
                   /\ wpc[c] \in Passive /\ sends[c] = 0 /\ doubts[c] = 0

\* From the claim on the row says processing, unless it was cancelled.
ClaimShows ==
  \A c \in Commands :
     \/ wpc[c] \in {"announce", "call", "record"}
     \/ wpc[c] = "check" /\ seen[c] = "processing"
     => status[c] \in {"processing", "cancelled"}

\* What the provider took without leaving a doubt is being recorded, or was and
\* keeps the job from being dispatched again.
Taken(c) ==
  /\ wpc[c] = "record" \/ status[c] = "sent" => sends[c] > 0
  /\ sends[c] > doubts[c] =>
       /\ sends[c] = doubts[c] + 1
       /\ \/ wpc[c] = "record"
          \/ status[c] \in {"sent", "cancelled"} /\ wpc[c] \in {"idle", "complete", "giveup"}

TakenIsRecorded == \A c \in Commands : Taken(c)

Refused(c) == reply[c].outcome \in {"failed", "rejected"} /\ reply[c].ref \in {c, NoMessage}

\* A refused command is over and leaves nothing that a worker dispatches.
RefusedIsOver ==
  \A c \in Commands :
     Refused(c) => /\ cpc[c] = "done" /\ wpc[c] \in Passive /\ sends[c] = 0
                   /\ status[c] \in {"absent", "created", "refused", "cancelled"}

\* A job that is dispatched holds its command's key, and no other job does.
JobHoldsKey ==
  /\ \A c \in Commands :
        /\ cpc[c] \in {"lookup", "save", "key", "bind", "enqueue", "insert"}
              => job[c] = "absent"
        /\ /\ job[c] # "absent"
           /\ \/ cpc[c] \in {"queue", "publish"} \/ sends[c] > 0
              \/ status[c] \in {"queued", "processing", "sent", "failed"}
              \/ wpc[c] \notin Passive
           => jkey[c] = KeyOf[c]
        /\ sends[c] > 0 => job[c] # "absent"
  /\ \A c, d \in Commands : jkey[c] = jkey[d] /\ jkey[c] # NoKey => c = d

Inv == /\ TypeOK /\ PendingIsQuiet /\ ClaimShows /\ TakenIsRecorded
       /\ RefusedIsOver /\ JobHoldsKey

LEMMA InitInv == Init => Inv
  BY PipelineIds, PipelineBounds, SMTT(30)
  DEF Init, Inv, TypeOK, PendingIsQuiet, Pending, ClaimShows, TakenIsRecorded,
      Taken, RefusedIsOver, Refused, JobHoldsKey, Passive, Statuses, Outcomes, CommandSteps, RunSteps

\* Types alone, where the other invariants would only be in the provers' way.
LEMMA CommandTypes ==
  ASSUME TypeOK, NEW c \in Commands, Admit(c) \/ RecordMessageKey(c) \/ EnqueueKey(c)
  PROVE  TypeOK'
<1> USE PipelineIds
       DEF TypeOK, messages, queue, work, cancels, history, Step, Answer, Outcomes, CommandSteps
<1>1. CASE Admit(c)
  <2>1. CASE AdmitExisting(c)
    BY <1>1, <2>1 DEF Admit, AdmitExisting, ExistingOutcome
  <2>2. CASE Step(c, "save") \/ Answer(c, "rejected", NoMessage)
    BY <1>1, <2>2 DEF Admit
  <2> QED BY <1>1, <2>1, <2>2 DEF Admit
<1>2. CASE RecordMessageKey(c)
  <2>1. mkey' \in [Commands -> Keys \cup Cancels \cup {NoKey}]
    BY <1>2 DEF RecordMessageKey
  <2>2. cpc' \in [Commands -> CommandSteps]
    BY <1>2 DEF RecordMessageKey
  <2>3. reply' \in [Commands -> [outcome : Outcomes, ref : Commands \cup {NoMessage}]]
    <3>1. reply' = reply \/ Answer(c, "failed", NoMessage)
      BY <1>2 DEF RecordMessageKey
    <3>2. [outcome |-> "failed", ref |-> NoMessage]
             \in [outcome : Outcomes, ref : Commands \cup {NoMessage}]
      OBVIOUS
    <3> QED BY ONLY TypeOK, <3>1, <3>2 DEF TypeOK, Answer
  <2> QED BY ONLY TypeOK, <1>2, <2>1, <2>2, <2>3
          DEF TypeOK, RecordMessageKey, queue, work, cancels, history
<1>3. CASE EnqueueKey(c)
  <2>1. jkey' \in [Commands -> Keys \cup {NoKey}]
    BY <1>3 DEF EnqueueKey
  <2> QED BY <1>3, <2>1 DEF EnqueueKey
<1> QED BY <1>1, <1>2, <1>3

LEMMA RunTypes ==
  ASSUME TypeOK, NEW c \in Commands, Call(c) \/ RunInterrupted(c) PROVE TypeOK'
<1> USE PipelineBounds DEF TypeOK, messages, queue, api, cancels, history, Run, RunSteps
<1>1. CASE Call(c)
  <2>1. sends' \in [Commands -> Nat] /\ doubts' \in [Commands -> Nat]
    BY <1>1 DEF Call, Effect, InDoubt
  <2>2. \E s \in {"record", "fail", "handback"} : Run(c, s)
    BY <1>1 DEF Call
  <2> QED BY ONLY TypeOK, <1>1, <2>1, <2>2
          DEF TypeOK, Call, messages, queue, api, cancels, Run, RunSteps
<1>2. CASE RunInterrupted(c)
  <2>1. sends' \in [Commands -> Nat] /\ doubts' \in [Commands -> Nat]
    BY <1>2, SMTT(30) DEF RunInterrupted, Effect, InDoubt
  <2>2. interrupts' \in 0..MaxInterrupts
    BY <1>2 DEF RunInterrupted, Interrupted
  <2>3. HandedBack(c) \in {"ready", "dead"}
    BY DEF HandedBack
  <2> QED BY ONLY TypeOK, <1>2, <2>1, <2>2, <2>3
          DEF TypeOK, RunInterrupted, messages, api, cancels, Run, RunSteps
<1> QED BY <1>1, <1>2

LEMMA CancelTypes ==
  ASSUME TypeOK, NEW x \in Cancels, CancelLoad(x) \/ CancelKey(x) PROVE TypeOK'
<1> USE PipelineIds
       DEF TypeOK, messages, queue, api, work, history, CancelGoto, CancelAnswer
<1>1. CASE CancelLoad(x)
  BY <1>1, ZenonT(60) DEF CancelLoad
<1>2. CASE CancelKey(x)
  <2>1. mkey' \in [Commands -> Keys \cup Cancels \cup {NoKey}]
    BY <1>2 DEF CancelKey
  <2> QED BY ONLY TypeOK, <1>2, <2>1
          DEF TypeOK, CancelKey, CancelGoto, CancelAnswer, queue, api, work, history
<1> QED BY <1>1, <1>2

LEMMA CommandInv ==
  ASSUME Inv, NEW c \in Commands, CommandStep(c) \/ CommandLost(c) PROVE Inv'
<1> USE PipelineIds, PipelineBounds
       DEF Inv, TypeOK, PendingIsQuiet, Pending, ClaimShows, TakenIsRecorded, Taken, RefusedIsOver,
           Refused, JobHoldsKey, Passive, Statuses, Outcomes, CommandSteps, RunSteps,
           messages, queue, work, cancels, history, Step, Answer, Save, Interrupted
<1>1. CASE Admit(c)
  <2>1. TypeOK'
    BY ONLY TypeOK, <1>1, CommandTypes
  <2>2. PendingIsQuiet' /\ ClaimShows'
    BY <1>1, SMTT(60) DEF Admit, AdmitExisting, ExistingOutcome, MayRepeat
  <2>3. TakenIsRecorded'
    BY <1>1, SMTT(60) DEF Admit, AdmitExisting, ExistingOutcome, MayRepeat
  <2>4. RefusedIsOver'
    BY <1>1, SMTT(60) DEF Admit, AdmitExisting, ExistingOutcome, MayRepeat
  <2>5. JobHoldsKey'
    BY <1>1, SMTT(60) DEF Admit, AdmitExisting, ExistingOutcome, MayRepeat
  <2> QED BY <2>1, <2>2, <2>3, <2>4, <2>5
<1>2. CASE SaveCreated(c)
  BY <1>2, SMTT(60) DEF SaveCreated
<1>3. CASE RecordMessageKey(c)
  <2>1. TypeOK'
    BY ONLY TypeOK, <1>3, CommandTypes
  <2>2. PendingIsQuiet' /\ ClaimShows'
    <3>1. \A d \in Commands : Pending(d)' => Pending(d)
      BY <1>3 DEF RecordMessageKey
    <3> QED BY ONLY PendingIsQuiet, ClaimShows, <1>3, <3>1
            DEF PendingIsQuiet, ClaimShows, RecordMessageKey, work, history
  <2>3. TakenIsRecorded'
    BY <1>3, SMTT(60) DEF RecordMessageKey
  <2>4. RefusedIsOver'
    BY <1>3, SMTT(60) DEF RecordMessageKey
  <2>5. JobHoldsKey'
    BY <1>3, SMTT(60) DEF RecordMessageKey
  <2> QED BY <2>1, <2>2, <2>3, <2>4, <2>5
<1>4. CASE BindIntent(c)
  BY <1>4, SMTT(60) DEF BindIntent
<1>5. CASE EnqueueLookup(c)
  BY <1>5, SMTT(60) DEF EnqueueLookup
<1>6. CASE EnqueueInsert(c)
  BY <1>6, SMTT(60) DEF EnqueueInsert
<1>7. CASE EnqueueKey(c)
  <2>1. TypeOK'
    BY ONLY TypeOK, <1>7, CommandTypes
  <2>2. PendingIsQuiet' /\ ClaimShows'
    <3>1. \A d \in Commands : Pending(d)' => Pending(d)
      BY <1>7 DEF EnqueueKey
    <3> QED BY ONLY PendingIsQuiet, ClaimShows, <1>7, <3>1
            DEF PendingIsQuiet, ClaimShows, EnqueueKey, messages, work, history
  <2>3. TakenIsRecorded'
    BY <1>7, SMTT(60) DEF EnqueueKey
  <2>4. RefusedIsOver'
    BY <1>7, SMTT(60) DEF EnqueueKey
  <2>5. JobHoldsKey'
    BY <1>7, SMTT(60) DEF EnqueueKey
  <2> QED BY <2>1, <2>2, <2>3, <2>4, <2>5
<1>8. CASE FailCommand(c)
  <2>1. CASE Save(c, "refused") /\ UNCHANGED interrupts
    BY <1>8, <2>1 DEF FailCommand
  <2>2. CASE Interrupted /\ UNCHANGED status
    BY <1>8, <2>2 DEF FailCommand
  <2> QED BY <1>8, <2>1, <2>2 DEF FailCommand
<1>9. CASE SaveQueued(c)
  BY <1>9, SMTT(60) DEF SaveQueued
<1>10. CASE PublishAccepted(c)
  BY <1>10, SMTT(60) DEF PublishAccepted
<1>11. CASE CommandLost(c)
  BY <1>11, SMTT(60) DEF CommandLost
<1> QED BY <1>1, <1>2, <1>3, <1>4, <1>5, <1>6, <1>7, <1>8, <1>9, <1>10, <1>11 DEF CommandStep

LEMMA RunInv ==
  ASSUME Inv, NEW c \in Commands, RunStep(c) \/ RunInterrupted(c) PROVE Inv'
<1> USE PipelineIds, PipelineBounds
       DEF Inv, TypeOK, PendingIsQuiet, Pending, ClaimShows, TakenIsRecorded, Taken, RefusedIsOver,
           Refused, JobHoldsKey, Passive, Statuses, Outcomes, CommandSteps, RunSteps,
           messages, api, cancels, queue, history, Run, Save, Interrupted
<1>1. CASE Reserve(c)
  BY <1>1, SMTT(60) DEF Reserve, AfterLoad
<1>2. CASE Check(c)
  BY <1>2, SMTT(60) DEF Check
<1>3. CASE Claim(c)
  BY <1>3, SMTT(60) DEF Claim
<1>4. CASE Announce(c)
  BY <1>4, SMTT(60) DEF Announce
<1>5. CASE Call(c)
  <2>1. TypeOK'
    BY ONLY TypeOK, <1>5, RunTypes
  <2>2. PendingIsQuiet' /\ ClaimShows'
    BY <1>5, SMTT(60) DEF Call, Effect, InDoubt
  <2>3. TakenIsRecorded'
    <3>1. sends[c] <= doubts[c]
      BY <1>5 DEF Call
    <3>2. CASE Run(c, "record") /\ Effect(c, 1) /\ UNCHANGED <<doubts, status>>
      <4>1. sends'[c] = sends[c] + 1 /\ wpc'[c] = "record" /\ doubts' = doubts
        BY <3>2 DEF Effect
      <4>2. \A d \in Commands \ {c} : sends'[d] = sends[d] /\ wpc'[d] = wpc[d]
        BY <3>2 DEF Effect
      <4>3. sends[c] \in Nat /\ doubts[c] \in Nat /\ status' = status
        BY <3>2
      <4>4. Taken(c)'
        BY ONLY <3>1, <4>1, <4>3 DEF Taken
      <4>5. ASSUME NEW d \in Commands \ {c} PROVE Taken(d)'
        BY ONLY TakenIsRecorded, <4>1, <4>2, <4>3, <4>5 DEF Taken, TakenIsRecorded
      <4> QED BY <4>4, <4>5
    <3>3. CASE Run(c, "fail") /\ UNCHANGED <<sends, doubts, status>>
      BY <3>1, <3>3, <1>5 DEF Call
    <3>4. ASSUME NEW effect \in {0, 1}, NEW s \in {"handback", "fail"},
                 Run(c, s), Effect(c, effect), InDoubt(c), UNCHANGED status
          PROVE  TakenIsRecorded'
      BY <3>1, <3>4, <1>5, SMTT(60) DEF Call, Effect, InDoubt
    <3> QED BY <1>5, <3>2, <3>3, <3>4 DEF Call
  <2>4. RefusedIsOver'
    BY <1>5, SMTT(60) DEF Call, Effect, InDoubt
  <2>5. JobHoldsKey'
    BY <1>5, SMTT(60) DEF Call, Effect, InDoubt
  <2> QED BY <2>1, <2>2, <2>3, <2>4, <2>5
<1>6. CASE Record(c)
  BY <1>6, SMTT(60) DEF Record
<1>7. CASE Fail(c)
  <2>2. CASE Save(c, "failed") /\ UNCHANGED interrupts
    <3>0. TypeOK'
      BY ONLY TypeOK, <1>7, <2>2
         DEF TypeOK, Fail, Run, Save, RunSteps, Statuses, queue, api, cancels, history
    <3>1. PendingIsQuiet' /\ ClaimShows'
      <4>1. /\ \A d \in Commands \ {c} : status'[d] = status[d] /\ wpc'[d] = wpc[d]
            /\ wpc'[c] = "giveup" /\ UNCHANGED <<api, queue, history>> /\ UNCHANGED seen
        BY <1>7, <2>2 DEF Fail
      <4>2. ~Pending(c)' /\ \A d \in Commands \ {c} : Pending(d)' => Pending(d)
        BY <1>7, <2>2, <4>1 DEF Fail
      <4> QED BY ONLY PendingIsQuiet, ClaimShows, <4>1, <4>2
              DEF PendingIsQuiet, ClaimShows, api, queue, history
    <3>2. TakenIsRecorded'
      BY <1>7, <2>2 DEF Fail
    <3>3. RefusedIsOver'
      BY <1>7, <2>2 DEF Fail
    <3>4. JobHoldsKey'
      BY <1>7, <2>2 DEF Fail
    <3> QED BY <3>0, <3>1, <3>2, <3>3, <3>4
  <2>3. CASE Interrupted /\ UNCHANGED status
    BY <1>7, <2>3 DEF Fail
  <2> QED BY <1>7, <2>2, <2>3 DEF Fail
<1>8. CASE Settle(c)
  BY <1>8, SMTT(60) DEF Settle, HandedBack
<1>9. CASE RunInterrupted(c)
  <2>1. TypeOK'
    BY ONLY TypeOK, <1>9, RunTypes
  <2>2. PendingIsQuiet' /\ ClaimShows'
    BY <1>9, SMTT(60) DEF RunInterrupted, HandedBack, Effect, InDoubt
  <2>3. TakenIsRecorded'
    BY <1>9, SMTT(60) DEF RunInterrupted, HandedBack, Effect, InDoubt
  <2>4. RefusedIsOver'
    BY <1>9, SMTT(60) DEF RunInterrupted, HandedBack, Effect, InDoubt
  <2>5. JobHoldsKey'
    BY <1>9, SMTT(60) DEF RunInterrupted, HandedBack, Effect, InDoubt
  <2> QED BY <2>1, <2>2, <2>3, <2>4, <2>5
<1> QED BY <1>1, <1>2, <1>3, <1>4, <1>5, <1>6, <1>7, <1>8, <1>9 DEF RunStep

LEMMA CancelInv ==
  ASSUME Inv, NEW x \in Cancels, CancelStep(x) \/ CancelLost(x) PROVE Inv'
<1> USE PipelineIds, PipelineBounds
       DEF Inv, TypeOK, PendingIsQuiet, Pending, ClaimShows, TakenIsRecorded, Taken, RefusedIsOver,
           Refused, JobHoldsKey, Passive, Statuses, Outcomes, CommandSteps, RunSteps,
           messages, queue, api, work, history, Save, Interrupted, CancelGoto, CancelAnswer
<1>1. CASE CancelLoad(x)
  <2>1. TypeOK'
    BY ONLY TypeOK, <1>1, CancelTypes
  <2>2. PendingIsQuiet' /\ ClaimShows'
    BY <1>1, SMTT(60) DEF CancelLoad, Cancellable
  <2>3. TakenIsRecorded'
    BY <1>1, SMTT(60) DEF CancelLoad, Cancellable
  <2>4. RefusedIsOver'
    BY <1>1, SMTT(60) DEF CancelLoad, Cancellable
  <2>5. JobHoldsKey'
    BY <1>1, SMTT(60) DEF CancelLoad, Cancellable
  <2> QED BY <2>1, <2>2, <2>3, <2>4, <2>5
<1>2. CASE CancelSave(x)
  BY <1>2, SMTT(60) DEF CancelSave
<1>3. CASE CancelKey(x)
  <2>1. TypeOK'
    BY ONLY TypeOK, <1>3, CancelTypes
  <2>2. PendingIsQuiet' /\ ClaimShows'
    BY <1>3, SMTT(60) DEF CancelKey
  <2>3. TakenIsRecorded'
    BY <1>3, SMTT(60) DEF CancelKey
  <2>4. RefusedIsOver'
    BY <1>3, SMTT(60) DEF CancelKey
  <2>5. JobHoldsKey'
    BY <1>3, SMTT(60) DEF CancelKey
  <2> QED BY <2>1, <2>2, <2>3, <2>4, <2>5
<1>4. CASE CancelPublish(x)
  BY <1>4, SMTT(60) DEF CancelPublish
<1>5. CASE CancelLost(x)
  BY <1>5, SMTT(60) DEF CancelLost
<1> QED BY <1>1, <1>2, <1>3, <1>4, <1>5 DEF CancelStep

LEMMA StutterInv == Inv /\ UNCHANGED vars => Inv'
  BY DEF Inv, TypeOK, PendingIsQuiet, Pending, ClaimShows, TakenIsRecorded, Taken,
         RefusedIsOver, Refused, JobHoldsKey, vars, messages, queue, api, work, cancels, history

LEMMA NextInv == Inv /\ [Next]_vars => Inv'
  BY CommandInv, RunInv, CancelInv, StutterInv DEF Next

THEOREM Invariance == Spec => []Inv
<1>1. Init => Inv                        BY InitInv
<1>2. Inv /\ [Next]_vars => Inv'         BY NextInv
<1> QED BY <1>1, <1>2, PTL DEF Spec

\* Every variable keeps its type, and a job is running exactly while a worker
\* has it in hand, through crashes and any interleaving of the handlers.
THEOREM TypeCorrect == Spec => []TypeOK
<1>1. Inv => TypeOK                      BY DEF Inv
<1> QED BY <1>1, Invariance, PTL

\* What the row says of the provider is true (the worker's order of claim, call
\* and record, against saves by the API and by cancellations).
THEOREM TruthfulStatus == Spec => []StatusTellsTheTruth
<1>1. Inv => StatusTellsTheTruth
  BY DEF Inv, TypeOK, ClaimShows, TakenIsRecorded, Taken, StatusTellsTheTruth
<1> QED BY <1>1, Invariance, PTL

\* A second send needs a first whose answer was lost or uncertain (the guard on
\* "sent" at the load, and the queue's one run at a time).
THEOREM NoIdleDuplicate == Spec => []DuplicateNeedsDoubt
<1>1. Inv => DuplicateNeedsDoubt
  BY DEF Inv, TypeOK, TakenIsRecorded, Taken, DuplicateNeedsDoubt
<1> QED BY <1>1, Invariance, PTL

\* A command answered with its own failure never sends (the job it may have left
\* in the queue finds a message that is not to be dispatched).
THEOREM RefusalIsFinal == Spec => []RefusedNeverSent
<1>1. Inv => RefusedNeverSent
  BY DEF Inv, RefusedIsOver, Refused, RefusedNeverSent
<1> QED BY <1>1, Invariance, PTL

\* One key, one message sent (the queue's UNIQUE key, when a cancellation took
\* the message row's key away).
THEOREM OneKeyOneSend == Spec => []OneMessageSentPerKey
<1>1. Inv => OneMessageSentPerKey
  BY PipelineIds DEF Inv, JobHoldsKey, OneMessageSentPerKey
<1> QED BY <1>1, Invariance, PTL
(***************************************************************************)
(* A retry and its original.  A message that failed is over: no run of its *)
(* job will call the provider again, and no command touches it but a       *)
(* cancellation.                                                           *)
(***************************************************************************)

\* A row that was never saved has no job, and no cancellation has found it.
AbsentIsUntouched ==
  \A c \in Commands :
     status[c] = "absent" =>
       /\ cpc[c] \in {"lookup", "save", "done"} /\ job[c] = "absent"
       /\ \A x \in Cancels : Target[x] = c => xpc[x] = "load"

Over(c) == /\ ~Pending(c) /\ status[c] \in {"failed", "cancelled"}
           /\ wpc[c] \in {"idle", "giveup"}

\* The retry has been admitted (MayRepeat): its original had failed by then.
Repeats(c) == /\ Original[c] # NoMessage
              /\ cpc[c] \notin {"lookup", "done"} \/ status[c] # "absent"

RetriedIsOver ==
  /\ \A c \in Commands : status[c] = "failed" => Over(c)
  /\ \A c \in Commands : Repeats(c) => Over(Original[c])

RetryInv == AbsentIsUntouched /\ RetriedIsOver

LEMMA InitRetryInv == Init => RetryInv
  BY PipelineIds DEF Init, RetryInv, AbsentIsUntouched, RetriedIsOver, Over, Repeats, Pending

LEMMA AbsentStep ==
  ASSUME Inv, AbsentIsUntouched, [Next]_vars PROVE AbsentIsUntouched'
<1> USE PipelineIds DEF Inv, TypeOK, AbsentIsUntouched, CommandSteps, RunSteps
<1>1. ASSUME NEW c \in Commands, CommandStep(c) \/ CommandLost(c) PROVE AbsentIsUntouched'
  <2>1. /\ \A d \in Commands \ {c} :
             status'[d] = status[d] /\ cpc'[d] = cpc[d] /\ job'[d] = job[d]
        /\ status'[c] # "absent" \/ status'[c] = status[c]
        /\ UNCHANGED cancels
    BY <1>1, SMTT(60)
       DEF CommandStep, CommandLost, Admit, AdmitExisting, SaveCreated, RecordMessageKey, BindIntent,
           EnqueueLookup, EnqueueInsert, EnqueueKey, FailCommand, SaveQueued, PublishAccepted,
           Step, Answer, Save, messages, queue, cancels
  <2>2. status'[c] = "absent" => cpc'[c] \in {"lookup", "save", "done"} /\ job'[c] = "absent"
    BY <1>1, SMTT(60)
       DEF CommandStep, CommandLost, Admit, AdmitExisting, SaveCreated, RecordMessageKey, BindIntent,
           EnqueueLookup, EnqueueInsert, EnqueueKey, FailCommand, SaveQueued, PublishAccepted,
           Step, Answer, Save, messages, queue, cancels
  <2> QED BY <2>1, <2>2 DEF cancels
<1>2. ASSUME NEW c \in Commands, RunStep(c) \/ RunInterrupted(c) PROVE AbsentIsUntouched'
  <2>1. status[c] = "absent" => wpc[c] = "idle" /\ job[c] # "ready"
    OBVIOUS
  <2>2. /\ \A d \in Commands \ {c} : status'[d] = status[d] /\ job'[d] = job[d]
        /\ status'[c] # "absent"
        /\ UNCHANGED <<api, cancels>>
    BY <1>2, <2>1, SMTT(60)
       DEF RunStep, RunInterrupted, Reserve, Check, Claim, Announce, Call, Record, Fail, Settle,
           Run, Save, messages, queue
  <2> QED BY <2>2 DEF api, cancels
<1>3. ASSUME NEW x \in Cancels, CancelStep(x) \/ CancelLost(x) PROVE AbsentIsUntouched'
  BY <1>3, SMTT(60)
     DEF CancelStep, CancelLost, CancelLoad, CancelSave, CancelKey, CancelPublish,
         CancelGoto, CancelAnswer, Save, messages, queue, api
<1>4. CASE UNCHANGED vars
  BY <1>4 DEF vars, messages, queue, api, cancels
<1> QED BY <1>1, <1>2, <1>3, <1>4 DEF Next

\* A cancellation that found its message will not have found an absent one.
LEMMA CancelFound ==
  ASSUME AbsentIsUntouched, Inv, NEW x \in Cancels, xpc[x] # "load"
  PROVE  status[Target[x]] # "absent"
  BY PipelineIds DEF AbsentIsUntouched

\* Over is for good.
LEMMA OverStays ==
  ASSUME Inv, [Next]_vars, NEW d \in Commands, Over(d) PROVE Over(d)'
<1> USE PipelineIds DEF Inv, TypeOK, Over, Pending, CommandSteps, RunSteps
<1>1. ASSUME NEW c \in Commands, CommandStep(c) \/ CommandLost(c) PROVE Over(d)'
  <2>1. CASE c = d
    BY <1>1, <2>1, SMTT(60)
       DEF CommandStep, CommandLost, Admit, AdmitExisting, SaveCreated, RecordMessageKey, BindIntent,
           EnqueueLookup, EnqueueInsert, EnqueueKey, FailCommand, SaveQueued, PublishAccepted,
           Step, Answer, Save, messages, work
  <2>2. CASE c # d
    BY <1>1, <2>2, SMTT(60)
       DEF CommandStep, CommandLost, Admit, AdmitExisting, SaveCreated, RecordMessageKey, BindIntent,
           EnqueueLookup, EnqueueInsert, EnqueueKey, FailCommand, SaveQueued, PublishAccepted,
           Step, Answer, Save, messages, work
  <2> QED BY <2>1, <2>2
<1>2. ASSUME NEW c \in Commands, RunStep(c) \/ RunInterrupted(c) PROVE Over(d)'
  <2>1. CASE c = d
    <3>1. Reserve(c) => wpc'[c] = "giveup"
      BY <2>1 DEF Reserve, AfterLoad
    <3> QED
      BY <1>2, <2>1, <3>1, SMTT(60)
         DEF RunStep, RunInterrupted, Reserve, Check, Claim, Announce, Call, Record, Fail, Settle,
             Run, messages, api
  <2>2. CASE c # d
    BY <1>2, <2>2, SMTT(60)
       DEF RunStep, RunInterrupted, Reserve, Check, Claim, Announce, Call, Record, Fail, Settle,
           Run, Save, messages, api
  <2> QED BY <2>1, <2>2
<1>3. ASSUME NEW x \in Cancels, CancelStep(x) \/ CancelLost(x) PROVE Over(d)'
  BY <1>3, SMTT(60)
     DEF CancelStep, CancelLost, CancelLoad, CancelSave, CancelKey, CancelPublish,
         Save, messages, work, api
<1>4. CASE UNCHANGED vars
  BY <1>4 DEF vars, messages, work, api
<1> QED BY <1>1, <1>2, <1>3, <1>4 DEF Next

\* What becomes failed is over: the run that failed it has given up.
LEMMA FailedIsOver ==
  ASSUME Inv, RetriedIsOver, [Next]_vars, NEW d \in Commands, status'[d] = "failed"
  PROVE  Over(d)'
<1> USE PipelineIds DEF Inv, TypeOK, CommandSteps, RunSteps
<1>1. CASE status[d] = "failed"
  BY <1>1, OverStays DEF RetriedIsOver
<1>2. CASE status[d] # "failed"
  <2>1. ASSUME NEW c \in Commands, CommandStep(c) \/ CommandLost(c) PROVE FALSE
    BY <1>2, <2>1, SMTT(60)
       DEF CommandStep, CommandLost, Admit, AdmitExisting, SaveCreated, RecordMessageKey, BindIntent,
           EnqueueLookup, EnqueueInsert, EnqueueKey, FailCommand, SaveQueued, PublishAccepted,
           Save, messages
  <2>2. ASSUME NEW c \in Commands, RunStep(c) \/ RunInterrupted(c) PROVE Fail(d)
    BY <1>2, <2>2, SMTT(60)
       DEF RunStep, RunInterrupted, Reserve, Check, Claim, Announce, Call, Record, Fail, Settle,
           Save, messages
  <2>3. ASSUME NEW x \in Cancels, CancelStep(x) \/ CancelLost(x) PROVE FALSE
    BY <1>2, <2>3, SMTT(60)
       DEF CancelStep, CancelLost, CancelLoad, CancelSave, CancelKey, CancelPublish, Save, messages
  <2>4. Fail(d) => Over(d)'
    BY DEF Fail, Run, api, Over, Pending, PendingIsQuiet, Passive
  <2> QED BY <1>2, <2>1, <2>2, <2>3, <2>4 DEF Next, vars, messages
<1> QED BY <1>1, <1>2

\* A retry that is under way was so before, or was admitted because its original
\* had failed.
LEMMA AdmittedOfFailed ==
  ASSUME Inv, RetryInv, [Next]_vars, NEW c \in Commands, Repeats(c)'
  PROVE  Over(Original[c])
<1> USE PipelineIds DEF Inv, TypeOK, CommandSteps, RunSteps, RetryInv
<1> SUFFICES ASSUME ~Repeats(c) PROVE Over(Original[c])
  BY DEF RetriedIsOver
<1>1. cpc[c] \in {"lookup", "done"} /\ status[c] = "absent" /\ Original[c] \in Commands
  BY DEF Repeats
<1>2. ASSUME NEW d \in Commands, CommandStep(d) \/ CommandLost(d) PROVE Over(Original[c])
  <2>1. c = d /\ cpc[c] = "lookup" /\ Admit(c)
    BY <1>1, <1>2, SMTT(60)
       DEF Repeats, CommandStep, CommandLost, Admit, AdmitExisting, SaveCreated, RecordMessageKey,
           BindIntent, EnqueueLookup, EnqueueInsert, EnqueueKey, FailCommand, SaveQueued,
           PublishAccepted, Step, Answer, Save, messages
  <2>2. MayRepeat(c)
    BY <1>1, <2>1 DEF Repeats, Admit, AdmitExisting, Answer, messages
  <2> QED BY <1>1, <2>2 DEF MayRepeat, RetriedIsOver
<1>3. ASSUME NEW d \in Commands, RunStep(d) \/ RunInterrupted(d) PROVE FALSE
  <2>1. cpc' = cpc /\ (c # d => status'[c] = status[c])
    BY <1>3, SMTT(60)
       DEF RunStep, RunInterrupted, Reserve, Check, Claim, Announce, Call, Record, Fail, Settle,
           Save, messages, api
  <2>2. c = d /\ job[c] = "absent"
    BY <1>1, <2>1 DEF Repeats, AbsentIsUntouched
  <2>3. status'[c] = status[c]
    BY <1>3, <2>2, SMTT(60)
       DEF RunStep, RunInterrupted, Reserve, Check, Claim, Announce, Call, Record, Fail, Settle
  <2> QED BY <1>1, <2>1, <2>3 DEF Repeats
<1>4. ASSUME NEW x \in Cancels, CancelStep(x) \/ CancelLost(x) PROVE FALSE
  <2>1. xpc[x] # "load" => Target[x] # c
    BY <1>1, CancelFound
  <2> QED
    BY <1>1, <1>4, <2>1, SMTT(60)
       DEF Repeats, CancelStep, CancelLost, CancelLoad, CancelSave, CancelKey, CancelPublish,
           Save, messages, api
<1>5. CASE UNCHANGED vars
  BY <1>1, <1>5 DEF Repeats, vars, messages, api
<1> QED BY <1>2, <1>3, <1>4, <1>5 DEF Next

LEMMA RetryStep == Inv /\ RetryInv /\ [Next]_vars => RetryInv'
<1> SUFFICES ASSUME Inv, RetryInv, [Next]_vars PROVE RetryInv'
  OBVIOUS
<1>1. AbsentIsUntouched'
  BY AbsentStep DEF RetryInv
<1>2. ASSUME NEW c \in Commands, status'[c] = "failed" PROVE Over(c)'
  BY <1>2, FailedIsOver DEF RetryInv
<1>3. ASSUME NEW c \in Commands, Repeats(c)' PROVE Over(Original[c])'
  <2>1. Original[c] \in Commands
    BY <1>3, PipelineIds DEF Repeats
  <2>2. Over(Original[c])
    BY <1>3, AdmittedOfFailed
  <2> QED BY <2>1, <2>2, OverStays
<1> QED BY <1>1, <1>2, <1>3 DEF RetryInv, RetriedIsOver

\* Only a run that stands at the call reaches the provider.
LEMMA OverIsSilent ==
  ASSUME Inv, [Next]_vars, NEW d \in Commands, Over(d) PROVE sends'[d] = sends[d]
<1> USE DEF Inv, TypeOK, Over
<1>1. ASSUME NEW c \in Commands, RunStep(c) \/ RunInterrupted(c) PROVE sends'[d] = sends[d]
  <2>1. CASE Call(c)
    BY <2>1 DEF Call, Effect, history
  <2>2. CASE RunInterrupted(c)
    BY <2>2 DEF RunInterrupted, Effect, history
  <2> QED
    BY <1>1, <2>1, <2>2
       DEF RunStep, Reserve, Check, Claim, Announce, Record, Fail, Settle, history
<1>2. ASSUME NEW c \in Commands, CommandStep(c) \/ CommandLost(c) PROVE sends' = sends
  BY <1>2 DEF CommandStep, CommandLost, Admit, SaveCreated, RecordMessageKey, BindIntent,
              EnqueueLookup, EnqueueInsert, EnqueueKey, FailCommand, SaveQueued, PublishAccepted,
              history
<1>3. ASSUME NEW x \in Cancels, CancelStep(x) \/ CancelLost(x) PROVE sends' = sends
  BY <1>3 DEF CancelStep, CancelLost, CancelLoad, CancelSave, CancelKey, CancelPublish, history
<1> QED BY <1>1, <1>2, <1>3 DEF Next, vars, history

\* A retry and its original are never in the pipeline together (MayRepeat reads
\* the status once, and nothing brings the original back).
THEOREM RetryIsAlone == Spec => RetryRacesNothing
<1> DEFINE Alone ==
      \A c \in Commands :
         Original[c] # NoMessage /\ (cpc[c] \notin {"lookup", "done"} \/ status[c] # "absent")
            => sends'[Original[c]] = sends[Original[c]]
<1>1. Spec => []RetryInv
  BY InitRetryInv, RetryStep, Invariance, PTL DEF Spec
<1>2. Inv /\ RetryInv /\ [Next]_vars => [Alone]_vars
  <2> SUFFICES ASSUME Inv, RetryInv, [Next]_vars, NEW c \in Commands, Repeats(c)
               PROVE  sends'[Original[c]] = sends[Original[c]]
    BY DEF Repeats
  <2>1. Original[c] \in Commands /\ Over(Original[c])
    BY PipelineIds DEF Repeats, RetryInv, RetriedIsOver
  <2> QED BY <2>1, OverIsSilent
<1> QED BY <1>1, <1>2, Invariance, PTL DEF Spec, RetryRacesNothing

(***************************************************************************)
(* What a queued answer promises.  As long as nobody cancels, the row and  *)
(* the job of a command have its key or none, so the queue knows the key   *)
(* of no command that is still enqueueing: it always inserts.              *)
(***************************************************************************)

KeysAgree(c) ==
  /\ mkey[c] \in {NoKey, KeyOf[c]}
  /\ jkey[c] # NoKey => jkey[c] = KeyOf[c] /\ mkey[c] = KeyOf[c]
  /\ cpc[c] \in {"bind", "enqueue", "insert", "jobkey", "queue", "publish"} => mkey[c] = KeyOf[c]
  /\ cpc[c] \in {"lookup", "save", "key", "bind", "enqueue", "insert", "jobkey"} => jkey[c] = NoKey

\* Who got past the insert, and who is queued or more, has its job.
HasJob(c) ==
  \/ cpc[c] \in {"jobkey", "queue", "publish"}
  \/ status[c] \in {"queued", "processing", "sent", "failed"}
  => job[c] # "absent"

Promised(c) == reply[c].outcome = "queued" => /\ reply[c].ref \in Commands
                                              /\ job[reply[c].ref] # "absent"

RowKeysUnique == \A c, d \in Commands : mkey[c] = mkey[d] /\ mkey[c] # NoKey => c = d

VisibleInv == /\ RowKeysUnique
              /\ \A c \in Commands : KeysAgree(c) /\ HasJob(c) /\ Promised(c)

LEMMA InitVisible == Init => VisibleInv
  BY DEF Init, VisibleInv, RowKeysUnique, KeysAgree, HasJob, Promised

\* A job that is in the table stays there.
LEMMA JobsStay ==
  ASSUME TypeOK, [Next]_vars, NEW d \in Commands, job[d] # "absent" PROVE job'[d] # "absent"
<1> USE DEF TypeOK
<1>1. ASSUME NEW c \in Commands, CommandStep(c) \/ CommandLost(c) PROVE job'[d] # "absent"
  BY <1>1 DEF CommandStep, CommandLost, Admit, SaveCreated, RecordMessageKey, BindIntent,
              EnqueueLookup, EnqueueInsert, EnqueueKey, FailCommand, SaveQueued, PublishAccepted,
              queue
<1>2. ASSUME NEW c \in Commands, RunStep(c) \/ RunInterrupted(c) PROVE job'[d] # "absent"
  BY <1>2 DEF RunStep, RunInterrupted, Reserve, Check, Claim, Announce, Call, Record, Fail,
              Settle, HandedBack, queue
<1>3. ASSUME NEW x \in Cancels, CancelStep(x) \/ CancelLost(x) PROVE job' = job
  BY <1>3 DEF CancelStep, CancelLost, CancelLoad, CancelSave, CancelKey, CancelPublish, queue
<1> QED BY <1>1, <1>2, <1>3 DEF Next, vars, queue

\* The command that asks the queue finds no job of its key there.
LEMMA QueueKnowsNoKey ==
  ASSUME VisibleInv, NEW c \in Commands, cpc[c] = "enqueue", NEW d \in Commands
  PROVE  jkey[d] # KeyOf[c]
<1>1. KeyOf[c] # NoKey
  BY PipelineIds
<1> QED BY <1>1 DEF VisibleInv, RowKeysUnique, KeysAgree

LEMMA CommandVisible ==
  ASSUME Inv, VisibleInv, [Next]_vars,
         NEW c \in Commands, CommandStep(c) \/ CommandLost(c)
  PROVE  VisibleInv'
<1> USE PipelineIds DEF Inv, TypeOK, CommandSteps
<1>1. ASSUME NEW d \in Commands \ {c} PROVE (KeysAgree(d) /\ HasJob(d) /\ Promised(d))'
  <2>1. /\ mkey'[d] = mkey[d] /\ jkey'[d] = jkey[d] /\ cpc'[d] = cpc[d]
        /\ status'[d] = status[d] /\ reply'[d] = reply[d]
    BY <1>1, SMTT(60)
       DEF CommandStep, CommandLost, Admit, AdmitExisting, SaveCreated, RecordMessageKey, BindIntent,
           EnqueueLookup, EnqueueInsert, EnqueueKey, FailCommand, SaveQueued, PublishAccepted,
           Step, Answer, Save, messages, queue
  <2> QED BY <2>1, JobsStay DEF VisibleInv, KeysAgree, HasJob, Promised
<1>2. KeysAgree(c)' /\ RowKeysUnique'
  <2>1. CASE RecordMessageKey(c)
    BY <2>1, SMTT(60) DEF VisibleInv, KeysAgree, RowKeysUnique, RecordMessageKey, Step, Answer, queue
  <2>2. CASE EnqueueKey(c)
    BY <2>2, SMTT(60) DEF VisibleInv, KeysAgree, RowKeysUnique, EnqueueKey, Step, messages
  <2>3. CASE ~RecordMessageKey(c) /\ ~EnqueueKey(c)
    <3>1. \/ cpc'[c] = cpc[c] \/ cpc'[c] \in {"done", "fail"}
          \/ cpc[c] = "lookup" /\ cpc'[c] = "save"
          \/ cpc[c] = "save" /\ cpc'[c] = "key"
          \/ cpc[c] = "bind" /\ cpc'[c] = "enqueue"
          \/ cpc[c] = "enqueue" /\ cpc'[c] = "insert"
          \/ cpc[c] = "insert" /\ cpc'[c] = "jobkey"
          \/ cpc[c] = "queue" /\ cpc'[c] = "publish"
      <4>1. CASE EnqueueLookup(c)
        BY <4>1, QueueKnowsNoKey DEF EnqueueLookup, Step
      <4>2. CASE ~EnqueueLookup(c)
        BY <2>3, <4>2, SMTT(60)
           DEF CommandStep, CommandLost, Admit, AdmitExisting, SaveCreated, BindIntent,
               EnqueueInsert, FailCommand, SaveQueued, PublishAccepted, Step, Answer
      <4> QED BY <4>1, <4>2
    <3>2. UNCHANGED <<mkey, jkey>>
      BY <2>3
         DEF CommandStep, CommandLost, Admit, SaveCreated, BindIntent, EnqueueLookup, EnqueueInsert,
             FailCommand, SaveQueued, PublishAccepted, messages, queue
    <3> QED BY <3>1, <3>2 DEF VisibleInv, KeysAgree, RowKeysUnique
  <2> QED BY <2>1, <2>2, <2>3
<1>3. HasJob(c)'
  <2>1. CASE EnqueueInsert(c)
    BY <2>1 DEF EnqueueInsert, HasJob
  <2>2. CASE ~EnqueueInsert(c)
    <3>1. /\ \/ cpc'[c] \notin {"jobkey", "queue", "publish"}
             \/ cpc[c] \in {"jobkey", "queue", "publish"}
          /\ \/ status'[c] \notin {"queued", "processing", "sent", "failed"}
             \/ status'[c] = status[c] \/ cpc[c] = "queue"
      BY <2>2, QueueKnowsNoKey, SMTT(60)
         DEF CommandStep, CommandLost, Admit, AdmitExisting, SaveCreated, RecordMessageKey,
             BindIntent, EnqueueLookup, EnqueueKey, FailCommand, SaveQueued,
             PublishAccepted, Step, Answer, Save, messages
    <3> QED BY <3>1, JobsStay DEF VisibleInv, HasJob
  <2> QED BY <2>1, <2>2
<1>4. Promised(c)'
  <2>1. CASE \E d \in Commands : Answer(c, ExistingOutcome(c, status[d]), d)
    <3>1. PICK d \in Commands : Answer(c, ExistingOutcome(c, status[d]), d)
      BY <2>1
    <3>2. ExistingOutcome(c, status[d]) = "queued" => status[d] \in {"queued", "processing", "sent"}
      BY SMTT(60) DEF ExistingOutcome, Statuses
    <3> QED BY <3>1, <3>2, JobsStay DEF VisibleInv, HasJob, Promised, Answer
  <2>2. CASE PublishAccepted(c)
    <3>1. job[c] # "absent"
      BY <2>2 DEF PublishAccepted, VisibleInv, HasJob
    <3> QED BY <2>2, <3>1, JobsStay DEF PublishAccepted, Answer, Promised
  <2>3. CASE reply'[c] = reply[c] \/ reply'[c].outcome # "queued"
    BY <2>3, JobsStay DEF VisibleInv, Promised
  <2> QED
    BY <2>1, <2>2, <2>3, SMTT(60)
       DEF CommandStep, CommandLost, Admit, AdmitExisting, SaveCreated, RecordMessageKey, BindIntent,
           EnqueueLookup, EnqueueInsert, EnqueueKey, FailCommand, SaveQueued, Step, Answer
<1> QED BY <1>1, <1>2, <1>3, <1>4 DEF VisibleInv

LEMMA RunVisible ==
  ASSUME Inv, VisibleInv, [Next]_vars,
         NEW c \in Commands, RunStep(c) \/ RunInterrupted(c)
  PROVE  VisibleInv'
<1> USE DEF Inv, TypeOK
<1>1. UNCHANGED <<mkey, jkey, cpc, reply>>
  BY DEF RunStep, RunInterrupted, Reserve, Check, Claim, Announce, Call, Record, Fail, Settle,
             messages, queue, api
<1>2. job[c] # "absent"
  BY DEF RunStep, RunInterrupted, Reserve, Check, Claim, Announce, Call, Record, Fail, Settle
<1>3. \A d \in Commands \ {c} : status'[d] = status[d]
  BY DEF RunStep, RunInterrupted, Reserve, Check, Claim, Announce, Call, Record, Fail, Settle,
         Save, messages
<1>4. ASSUME NEW d \in Commands PROVE (KeysAgree(d) /\ HasJob(d) /\ Promised(d))'
  BY <1>1, <1>2, <1>3, <1>4, JobsStay DEF VisibleInv, KeysAgree, HasJob, Promised
<1> QED BY <1>1, <1>4 DEF VisibleInv, RowKeysUnique

LEMMA VisibleStep ==
  ASSUME Cancels = {}, Inv, VisibleInv, [Next]_vars PROVE VisibleInv'
<1>1. CASE UNCHANGED vars
  BY <1>1 DEF VisibleInv, RowKeysUnique, KeysAgree, HasJob, Promised, vars, messages, queue, api
<1> QED BY <1>1, CommandVisible, RunVisible DEF Next

\* Where no message is cancelled, a command that answers "queued" has a job in
\* the queue, its own or that of the command whose key it repeats.
THEOREM QueuedHasWork == ASSUME Cancels = {} PROVE Spec => []QueuedWorkIsVisible
<1>1. Inv /\ VisibleInv /\ [Next]_vars => VisibleInv'
  BY VisibleStep
<1>2. VisibleInv => QueuedWorkIsVisible
  BY DEF VisibleInv, Promised, QueuedWorkIsVisible
<1> QED BY InitVisible, Invariance, <1>1, <1>2, PTL DEF Spec
=============================================================================
