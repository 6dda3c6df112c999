-------------------------- MODULE OutboundMessage --------------------------
(***************************************************************************)
(* The outbound send pipeline: SendTextMessage and RetryMessageSend create *)
(* a message and a job, ProcessOutboundMessageWork runs the job and calls  *)
(* the provider, CancelMessage stops a message.                            *)
(*                                                                         *)
(* Each action is one await.  Every save rewrites the whole row from the   *)
(* aggregate the handler has in its hand, whatever the row says by then.   *)
(* The queue is taken to do what JobLedger promises, and no more: a job is *)
(* run at most MaxAttempts times, by one worker at a time, and a run that  *)
(* a crash cut short is handed out again.                                  *)
(*                                                                         *)
(* A command that creates a message names it: message c, job c and intent  *)
(* c are those that command c drew or was given.                           *)
(***************************************************************************)
EXTENDS Naturals, FiniteSets

CONSTANTS
  Commands,       \* SendTextMessage and RetryMessageSend commands
  Original,       \* the message a retry repeats, NoMessage for a send
  Keys, KeyOf,    \* idempotency keys of the commands
  Cancels,        \* CancelMessage commands, each with a key of its own
  Target,         \* the message each cancels
  MaxAttempts,    \* retryPolicy.maxAttempts (3 in the code)
  MaxInterrupts,  \* bound: crashes and failed saves in a behaviour
  NoMessage, NoKey

ASSUME PipelineIds ==
  /\ Original \in [Commands -> Commands \cup {NoMessage}]
  /\ KeyOf \in [Commands -> Keys] /\ Target \in [Cancels -> Commands]
  /\ NoMessage \notin Commands
  /\ NoKey \notin Keys /\ NoKey \notin Cancels /\ Keys \cap Cancels = {}
ASSUME PipelineBounds == MaxAttempts \in Nat \ {0} /\ MaxInterrupts \in Nat

VARIABLES
  status, mkey,   \* each message row: lifecycle status, idempotency_key column
  job, runs,      \* each job, as JobLedger sees it
  jkey,           \* idempotency_key column of each job row
  cpc, reply,     \* each creating command: next step, and its answer
  wpc, seen,      \* the run of each job: next step, and the message it loaded
  xpc, xreply,    \* each cancellation: next step, and its answer
  sends,          \* history: how often the provider took the message
  doubts,         \* history: provider calls whose result was lost or ambiguous
  interrupts      \* crashes and failed saves so far

messages == <<status, mkey>>
queue    == <<job, runs, jkey>>
api      == <<cpc, reply>>
work     == <<wpc, seen>>
cancels  == <<xpc, xreply>>
history  == <<sends, doubts>>
vars     == <<messages, queue, api, work, cancels, history, interrupts>>

\* "refused" is failed without a guardrail decision, as the API's own failure
\* path saves it; "evaluated" is never saved, "delivered" and "read" by nobody.
Statuses == {"absent", "created", "queued", "processing", "sent",
             "failed", "refused", "cancelled"}
Outcomes == {"none", "queued", "completed", "waiting", "failed", "rejected",
             "unpublished", "lost"}
CommandSteps == {"lookup", "save", "key", "bind", "enqueue", "insert", "jobkey",
                 "fail", "queue", "publish", "done"}
RunSteps == {"idle", "check", "claim", "announce", "call", "record", "fail",
             "complete", "handback", "giveup"}

TypeOK ==
  /\ status \in [Commands -> Statuses] /\ seen \in [Commands -> Statuses]
  /\ mkey \in [Commands -> Keys \cup Cancels \cup {NoKey}]
  /\ job  \in [Commands -> {"absent", "ready", "running", "completed", "dead"}]
  /\ runs \in [Commands -> 0..MaxAttempts]
  /\ jkey \in [Commands -> Keys \cup {NoKey}]
  /\ cpc  \in [Commands -> CommandSteps] /\ wpc \in [Commands -> RunSteps]
  /\ reply \in [Commands -> [outcome : Outcomes, ref : Commands \cup {NoMessage}]]
  /\ xpc \in [Cancels -> {"load", "save", "key", "rekey", "publish", "done"}]
  /\ xreply \in [Cancels -> {"none", "accepted", "rejected", "failed"}]
  /\ sends \in [Commands -> Nat] /\ doubts \in [Commands -> Nat]
  /\ interrupts \in 0..MaxInterrupts
  \* a job is in one worker's hands exactly while it runs
  /\ \A c \in Commands : job[c] = "running" <=> wpc[c] # "idle"

Init ==
  /\ status = [c \in Commands |-> "absent"] /\ mkey = [c \in Commands |-> NoKey]
  /\ job = [c \in Commands |-> "absent"] /\ runs = [c \in Commands |-> 0]
  /\ jkey = [c \in Commands |-> NoKey]
  /\ cpc = [c \in Commands |-> "lookup"]
  /\ reply = [c \in Commands |-> [outcome |-> "none", ref |-> NoMessage]]
  /\ wpc = [c \in Commands |-> "idle"] /\ seen = [c \in Commands |-> "absent"]
  /\ xpc = [x \in Cancels |-> "load"] /\ xreply = [x \in Cancels |-> "none"]
  /\ sends = [c \in Commands |-> 0] /\ doubts = [c \in Commands |-> 0]
  /\ interrupts = 0

Save(c, s) == status' = [status EXCEPT ![c] = s]

Interrupted == interrupts < MaxInterrupts /\ interrupts' = interrupts + 1

-----------------------------------------------------------------------------
(* SendTextMessage and RetryMessageSend.                                   *)

Step(c, s) == cpc' = [cpc EXCEPT ![c] = s] /\ UNCHANGED reply

Answer(c, outcome, ref) ==
  /\ cpc' = [cpc EXCEPT ![c] = "done"]
  /\ reply' = [reply EXCEPT ![c] = [outcome |-> outcome, ref |-> ref]]

\* outcomeForExistingMessage, outcomeForExistingRetryMessage
ExistingOutcome(c, s) ==
  CASE s = "created" -> "waiting"
    [] s \in {"queued", "processing"} -> "queued"
    [] s = "sent" -> IF Original[c] = NoMessage THEN "queued" ELSE "completed"
    [] OTHER -> "failed"

\* The commands that outcomes are given to without creating a message: the key
\* is known, or session, intent or guardrail say no.
AdmitExisting(c) ==
  \E d \in Commands : mkey[d] = KeyOf[c] /\ Answer(c, ExistingOutcome(c, status[d]), d)

\* Mutant: any message that is not sent yet may be retried.
MayRepeatUnsent(c) ==
  Original[c] # NoMessage => status[Original[c]] \in {"failed", "queued", "processing"}

\* A retry repeats a message that failed after its guardrail decision.
MayRepeat(c) == Original[c] # NoMessage => status[Original[c]] = "failed"

Admit(c) ==
  /\ cpc[c] = "lookup"
  /\ \/ AdmitExisting(c)
     \/ /\ \A d \in Commands : mkey[d] # KeyOf[c]
        /\ \/ MayRepeat(c) /\ Step(c, "save")
           \/ Answer(c, "rejected", NoMessage)
  /\ UNCHANGED <<messages, queue, work, cancels, history, interrupts>>

SaveCreated(c) ==
  /\ cpc[c] = "save" /\ Save(c, "created") /\ Step(c, "key")
  /\ UNCHANGED <<mkey, queue, work, cancels, history, interrupts>>

\* Mutant: the column has no UNIQUE index.
RecordMessageKeyNotUnique(c) ==
  /\ cpc[c] = "key" /\ Step(c, "bind") /\ mkey' = [mkey EXCEPT ![c] = KeyOf[c]]
  /\ UNCHANGED <<status, queue, work, cancels, history, interrupts>>

\* The UNIQUE index refuses a second row with the key.
RecordMessageKey(c) ==
  /\ cpc[c] = "key"
  /\ \/ /\ \E d \in Commands \ {c} : mkey[d] = KeyOf[c]
        /\ Answer(c, "failed", NoMessage) /\ UNCHANGED mkey
     \/ /\ \A d \in Commands \ {c} : mkey[d] # KeyOf[c]
        /\ Step(c, "bind") /\ mkey' = [mkey EXCEPT ![c] = KeyOf[c]]
  /\ UNCHANGED <<status, queue, work, cancels, history, interrupts>>

\* Binding fails when this process's intent store does not hold the intent.
BindIntent(c) ==
  /\ cpc[c] = "bind" /\ \E s \in {"enqueue", "fail"} : Step(c, s)
  /\ UNCHANGED <<messages, queue, work, cancels, history, interrupts>>

\* The queue answers with the existing job when it knows the key.
EnqueueLookup(c) ==
  /\ cpc[c] = "enqueue"
  /\ Step(c, IF \E d \in Commands : jkey[d] = KeyOf[c] THEN "queue" ELSE "insert")
  /\ UNCHANGED <<messages, queue, work, cancels, history, interrupts>>

EnqueueInsert(c) ==
  /\ cpc[c] = "insert" /\ Step(c, "jobkey")
  /\ job' = [job EXCEPT ![c] = "ready"]
  /\ UNCHANGED <<messages, runs, jkey, work, cancels, history, interrupts>>

\* Mutant: the queue's column has no UNIQUE index either.
EnqueueKeyNotUnique(c) ==
  /\ cpc[c] = "jobkey" /\ Step(c, "queue") /\ jkey' = [jkey EXCEPT ![c] = KeyOf[c]]
  /\ UNCHANGED <<messages, job, runs, work, cancels, history, interrupts>>

\* A second job with the key is refused, after it was inserted.
EnqueueKey(c) ==
  /\ cpc[c] = "jobkey"
  /\ \/ /\ \E d \in Commands \ {c} : jkey[d] = KeyOf[c]
        /\ Step(c, "fail") /\ UNCHANGED jkey
     \/ /\ \A d \in Commands \ {c} : jkey[d] # KeyOf[c]
        /\ Step(c, "queue") /\ jkey' = [jkey EXCEPT ![c] = KeyOf[c]]
  /\ UNCHANGED <<messages, job, runs, work, cancels, history, interrupts>>

\* Mutant: the failure is answered, and the return forgotten.
FailCommandGoesOn(c) ==
  /\ cpc[c] = "fail" /\ cpc' = [cpc EXCEPT ![c] = "queue"]
  /\ reply' = [reply EXCEPT ![c] = [outcome |-> "failed", ref |-> c]]
  /\ UNCHANGED <<messages, queue, work, cancels, history, interrupts>>

\* saveFailedMessage, whose own failure is swallowed, and the answer.
FailCommand(c) ==
  /\ cpc[c] = "fail" /\ Answer(c, "failed", c)
  /\ \/ Save(c, "refused") /\ UNCHANGED interrupts
     \/ Interrupted /\ UNCHANGED status
  /\ UNCHANGED <<mkey, queue, work, cancels, history>>

SaveQueued(c) ==
  /\ cpc[c] = "queue" /\ Save(c, "queued") /\ Step(c, "publish")
  /\ UNCHANGED <<mkey, queue, work, cancels, history, interrupts>>

PublishAccepted(c) ==
  /\ cpc[c] = "publish"
  /\ \E outcome \in {"queued", "unpublished"} : Answer(c, outcome, c)
  /\ UNCHANGED <<messages, queue, work, cancels, history, interrupts>>

\* The API process stops, or a save fails and the client is told to try again.
CommandLost(c) ==
  /\ cpc[c] \notin {"lookup", "done"} /\ Interrupted
  /\ Answer(c, "lost", c)
  /\ UNCHANGED <<messages, queue, work, cancels, history>>

CommandStep(c) ==
  \/ Admit(c) \/ SaveCreated(c) \/ RecordMessageKey(c) \/ BindIntent(c)
  \/ EnqueueLookup(c) \/ EnqueueInsert(c) \/ EnqueueKey(c)
  \/ FailCommand(c) \/ SaveQueued(c) \/ PublishAccepted(c)

-----------------------------------------------------------------------------
(* ProcessOutboundMessageWork, run for job c.                              *)

Run(c, s) == wpc' = [wpc EXCEPT ![c] = s] /\ UNCHANGED seen

\* Mutants: a sent message is sent again; the job of one not yet queued is
\* acknowledged.
AfterLoadRepeats(s) ==
  CASE s \in {"sent", "queued", "processing"} -> "check"
    [] s = "created" -> "handback" [] OTHER -> "giveup"
AfterLoadDone(s) ==
  CASE s \in {"sent", "created"} -> "complete"
    [] s \in {"queued", "processing"} -> "check" [] OTHER -> "giveup"

\* What the handler does with the message it loads.
AfterLoad(s) ==
  CASE s = "sent" -> "complete"
    [] s \in {"queued", "processing"} -> "check"
    [] s = "created" -> "handback"
    [] OTHER -> "giveup"

\* A worker is handed the job and loads its message.
Reserve(c) ==
  /\ job[c] = "ready" /\ runs[c] < MaxAttempts
  /\ job' = [job EXCEPT ![c] = "running"] /\ runs' = [runs EXCEPT ![c] = @ + 1]
  /\ seen' = [seen EXCEPT ![c] = status[c]]
  /\ wpc' = [wpc EXCEPT ![c] = AfterLoad(status[c])]
  /\ UNCHANGED <<messages, jkey, api, cancels, history, interrupts>>

\* Session and intent are asked; a failure is retryable or it is not.
Check(c) ==
  /\ wpc[c] = "check"
  /\ \E s \in {IF seen[c] = "processing" THEN "call" ELSE "claim", "handback", "fail"} :
        Run(c, s)
  /\ UNCHANGED <<messages, queue, api, cancels, history, interrupts>>

\* ensureProcessing saves, whatever has become of the message since the load.
Claim(c) ==
  /\ wpc[c] = "claim" /\ Save(c, "processing") /\ Run(c, "announce")
  /\ UNCHANGED <<mkey, queue, api, cancels, history, interrupts>>

\* The event log reports every failure as one that is not to be retried.
Announce(c) ==
  /\ wpc[c] = "announce" /\ \E s \in {"call", "giveup"} : Run(c, s)
  /\ UNCHANGED <<messages, queue, api, cancels, history, interrupts>>

\* The provider took the message (effect = 1) or not; and its answer was lost or
\* says nothing certain.
Effect(c, effect) == sends' = [sends EXCEPT ![c] = @ + effect]
InDoubt(c) == doubts' = [doubts EXCEPT ![c] = @ + 1]

\* Mutant: an answer that is neither "accepted" nor "rejected" counts as sent.
CallUnknownIsSent(c) ==
  /\ wpc[c] = "call"
  /\ \E effect \in {0, 1}, s \in {"record", "handback"} :
        Run(c, s) /\ Effect(c, effect) /\ InDoubt(c)
  /\ UNCHANGED <<messages, queue, api, cancels, interrupts>>

Call(c) ==
  /\ wpc[c] = "call"
  /\ \/ Run(c, "record") /\ Effect(c, 1) /\ UNCHANGED doubts
     \/ Run(c, "fail") /\ UNCHANGED history
     \/ \E effect \in {0, 1}, s \in {"handback", "fail"} :
           Run(c, s) /\ Effect(c, effect) /\ InDoubt(c)
  /\ UNCHANGED <<messages, queue, api, cancels, interrupts>>

\* The result of publishing the event is not looked at.
Record(c) ==
  /\ wpc[c] = "record" /\ Save(c, "sent") /\ Run(c, "complete")
  /\ UNCHANGED <<mkey, queue, api, cancels, history, interrupts>>

\* saveFailedMessage, whose own failure is swallowed.
Fail(c) ==
  /\ wpc[c] = "fail" /\ Run(c, "giveup")
  /\ \/ Save(c, "failed") /\ UNCHANGED interrupts
     \/ Interrupted /\ UNCHANGED status
  /\ UNCHANGED <<mkey, queue, api, cancels, history>>

\* Where the queue puts a job that is handed back.
HandedBack(c) == IF runs[c] < MaxAttempts THEN "ready" ELSE "dead"

Settle(c) ==
  /\ \/ wpc[c] = "complete" /\ job' = [job EXCEPT ![c] = "completed"]
     \/ wpc[c] = "handback" /\ job' = [job EXCEPT ![c] = HandedBack(c)]
     \/ wpc[c] = "giveup"   /\ job' = [job EXCEPT ![c] = "dead"]
  /\ Run(c, "idle")
  /\ UNCHANGED <<messages, runs, jkey, api, cancels, history, interrupts>>

\* The worker stops, or a statement of the handler fails: the queue hands the
\* job back.  A call under way may still reach the provider.
RunInterrupted(c) ==
  /\ wpc[c] # "idle" /\ Interrupted
  /\ job' = [job EXCEPT ![c] = HandedBack(c)] /\ Run(c, "idle")
  /\ CASE wpc[c] = "call" -> InDoubt(c) /\ \E effect \in {0, 1} : Effect(c, effect)
       [] wpc[c] = "record" -> InDoubt(c) /\ UNCHANGED sends
       [] OTHER -> UNCHANGED history
  /\ UNCHANGED <<messages, runs, jkey, api, cancels>>

RunStep(c) == \/ Reserve(c) \/ Check(c) \/ Claim(c) \/ Announce(c) \/ Call(c)
              \/ Record(c) \/ Fail(c) \/ Settle(c)

-----------------------------------------------------------------------------
(* CancelMessage.                                                          *)

CancelGoto(x, s) == xpc' = [xpc EXCEPT ![x] = s] /\ UNCHANGED xreply

CancelAnswer(x, outcome) == /\ xpc' = [xpc EXCEPT ![x] = "done"]
                            /\ xreply' = [xreply EXCEPT ![x] = outcome]

Cancellable(s) == s \in {"created", "queued", "processing"}

\* The command's own key is new, and the message one that exists: it is loaded.
CancelLoad(x) ==
  /\ xpc[x] = "load" /\ status[Target[x]] # "absent"
  /\ LET s == status[Target[x]] IN
       CASE s = "cancelled" -> CancelGoto(x, "rekey")
         [] Cancellable(s)  -> CancelGoto(x, "save")
         [] OTHER           -> CancelAnswer(x, "rejected")
  /\ UNCHANGED <<messages, queue, api, work, history, interrupts>>

CancelSave(x) ==
  /\ xpc[x] = "save" /\ Save(Target[x], "cancelled") /\ CancelGoto(x, "key")
  /\ UNCHANGED <<mkey, queue, api, work, history, interrupts>>

\* The row has one key column: the cancellation's key replaces the send's.
CancelKey(x) ==
  /\ \/ xpc[x] = "key" /\ CancelGoto(x, "publish")
     \/ xpc[x] = "rekey" /\ CancelAnswer(x, "accepted")
  /\ mkey' = [mkey EXCEPT ![Target[x]] = x]
  /\ UNCHANGED <<status, queue, api, work, history, interrupts>>

CancelPublish(x) ==
  /\ xpc[x] = "publish" /\ \E outcome \in {"accepted", "failed"} : CancelAnswer(x, outcome)
  /\ UNCHANGED <<messages, queue, api, work, history, interrupts>>

CancelLost(x) ==
  /\ xpc[x] \in {"save", "key", "rekey"} /\ Interrupted /\ CancelAnswer(x, "failed")
  /\ UNCHANGED <<messages, queue, api, work, history>>

CancelStep(x) == CancelLoad(x) \/ CancelSave(x) \/ CancelKey(x) \/ CancelPublish(x)

-----------------------------------------------------------------------------
Next == \/ \E c \in Commands : \/ CommandStep(c) \/ CommandLost(c)
                               \/ RunStep(c) \/ RunInterrupted(c)
        \/ \E x \in Cancels : CancelStep(x) \/ CancelLost(x)

Spec == Init /\ [][Next]_vars

(***************************************************************************)
(* Handlers run to their end, and the queue hands out every job that is    *)
(* ready (WorkerJobQueue!WorkSettles).                                     *)
(***************************************************************************)
Fairness == /\ \A c \in Commands : WF_vars(CommandStep(c)) /\ WF_vars(RunStep(c))
            /\ \A x \in Cancels : WF_vars(CancelStep(x))

FairSpec == Spec /\ Fairness

-----------------------------------------------------------------------------
(* Properties.                                                             *)

\* The status tells the truth about the provider: "sent" only of a message it
\* took, and a message that never met a lost or uncertain answer and stands as
\* created, queued or failed is one it never took (so it may be repeated).
StatusTellsTheTruth ==
  \A c \in Commands :
     /\ status[c] = "sent" => sends[c] > 0
     /\ status[c] \in {"created", "queued", "failed", "refused"} /\ doubts[c] = 0
           => sends[c] = 0

\* The provider takes a message again only after a call whose answer was lost or
\* uncertain: runs, crashes and cancellations add no duplicates of their own.
DuplicateNeedsDoubt == \A c \in Commands : sends[c] <= 1 + doubts[c]

\* A command that was answered with a failure of its own never sends, although
\* its job may already be in the queue when it fails.
RefusedNeverSent ==
  \A c \in Commands :
     reply[c].outcome \in {"failed", "rejected"} /\ reply[c].ref \in {c, NoMessage}
        => sends[c] = 0

\* Commands with one idempotency key send one message between them, even when a
\* cancellation takes the key off the message's row.
OneMessageSentPerKey ==
  \A c, d \in Commands :
     KeyOf[c] = KeyOf[d] /\ sends[c] > 0 /\ sends[d] > 0 => c = d

\* Once a retry is under way its original is never handed to the provider again:
\* the two are never in the pipeline together.
RetryRacesNothing ==
  [][\A c \in Commands :
        Original[c] # NoMessage /\ (cpc[c] \notin {"lookup", "done"} \/ status[c] # "absent")
           => sends'[Original[c]] = sends[Original[c]]]_vars

\* A message that was queued is decided, or its job is given up.
QueuedIsDecided ==
  \A c \in Commands :
     status[c] = "queued" ~> \/ status[c] \in {"sent", "failed", "cancelled"}
                             \/ job[c] = "dead"

\* docs/application/WORKFLOW_CATALOG.md, SendTextMessage: "Message is accepted
\* with durable state and outbound work is visible."  It holds without
\* cancellations, and not with them.
QueuedWorkIsVisible ==
  \A c \in Commands : reply[c].outcome = "queued" => job[reply[c].ref] # "absent"
=============================================================================
