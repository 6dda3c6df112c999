---------------------------- MODULE EventOutbox ----------------------------
(***************************************************************************)
(* The PostgreSQL event log with its outbox, the domain event publisher    *)
(* that appends to it, the background consumers that drain the outbox, and *)
(* the clients that replay the log by cursor over the event stream.        *)
(*                                                                         *)
(* A call appends a plan of events one after the other.  Event ids are     *)
(* derived from the command, so that a repeated call has the same plan.    *)
(* An append is a transaction; its statements are the steps of a call.     *)
(***************************************************************************)
EXTENDS Naturals, Sequences, FiniteSets

CONSTANTS
  Events,         \* event ids
  Calls, Plan,    \* calls of publishNewEvents, the events each is to append
  Rank,           \* the order of events by created_at, then by outbox_id
  Consumers,      \* background processes that drain the outbox
  BatchSize,      \* how many pending records a drain takes on
  Refused,        \* events the publisher never accepts
  Readers, Limit, \* clients of the stream, and the length of a replay
  MaxFaults       \* bound: failures and crashes in a behaviour

None == "none"  \* a consumer that has no record in hand

ASSUME OutboxConstants ==
  /\ Plan \in [Calls -> Seq(Events)] /\ Rank \in [Events -> Nat]
  /\ \A e, f \in Events : Rank[e] = Rank[f] => e = f
  /\ Refused \subseteq Events /\ None \notin Events
  /\ BatchSize \in Nat \ {0} /\ Limit \in Nat \ {0} /\ MaxFaults \in Nat

\* An id names the command, the aggregate, and the event's index and name in it:
\* calls that share an event repeat one command, and agree on what came before.
ASSUME PlansAgree ==
  \A a, b \in Calls : \A i \in DOMAIN Plan[a], j \in DOMAIN Plan[b] :
    Plan[a][i] = Plan[b][j] =>
      i = j /\ \A k \in 1..i : Plan[a][k] = Plan[b][k]

VARIABLES
  nextSeq,   \* the bigserial's next value; a rollback does not return one
  seqOf,     \* committed rows of the log: an event's sequence number, or 0
  outbox,    \* the status of its outbox row
  overtaken, \* history: events committed after one with a later number
  pc, num,   \* each call's step, and the sequence number its transaction took
  answers,   \* the cursors its appends were answered with, in plan order
  batch,     \* the records a drain has listed and not come to
  hand,      \* the record it is publishing or marking
  cpc,       \* the step of each consumer
  pubs,      \* history: how often a consumer published an event
  unmarked,  \* history: how often its mark did not get through after that
  cursor,    \* the cursor of each client
  seen,      \* the events it has received
  faults

log     == <<nextSeq, seqOf, outbox, overtaken>>
calls   == <<pc, num, answers>>
drains  == <<batch, hand, cpc, pubs, unmarked>>
readers == <<cursor, seen>>
vars    == <<log, calls, drains, readers, faults>>

CallSteps == {"next", "inserting", "holding", "failed"}

Logged == {e \in Events : seqOf[e] # 0}
\* The event a call is about to append; it is finished after the last.
Turn(a)     == Plan[a][Len(answers[a]) + 1]
Finished(a) == Len(answers[a]) = Len(Plan[a])

TypeOK ==
  /\ nextSeq \in Nat \ {0}
  /\ seqOf \in [Events -> Nat] /\ \A e \in Events : seqOf[e] < nextSeq
  /\ outbox \in [Events -> {"none", "pending", "published"}]
  /\ \A e \in Events : outbox[e] = "none" <=> seqOf[e] = 0
  /\ overtaken \subseteq Logged
  /\ pc \in [Calls -> CallSteps] /\ num \in [Calls -> Nat]
  /\ answers \in [Calls -> Seq(Nat)]
  /\ \A a \in Calls : /\ Len(answers[a]) <= Len(Plan[a])
                      /\ pc[a] \in {"inserting", "holding"} => ~Finished(a)
  /\ batch \in [Consumers -> SUBSET Logged]
  /\ hand \in [Consumers -> Logged \cup {None}]
  /\ cpc \in [Consumers -> {"idle", "publishing", "marking"}]
  /\ \A c \in Consumers : cpc[c] = "marking" <=> hand[c] # None
  /\ pubs \in [Consumers -> [Events -> Nat]] /\ unmarked \in [Consumers -> [Events -> Nat]]
  /\ cursor \in [Readers -> Nat] /\ seen \in [Readers -> SUBSET Logged]
  /\ faults \in 0..MaxFaults

Init ==
  /\ nextSeq = 1 /\ seqOf = [e \in Events |-> 0]
  /\ outbox = [e \in Events |-> "none"] /\ overtaken = {}
  /\ pc = [a \in Calls |-> "next"] /\ num = [a \in Calls |-> 0]
  /\ answers = [a \in Calls |-> << >>]
  /\ batch = [c \in Consumers |-> {}] /\ hand = [c \in Consumers |-> None]
  /\ cpc = [c \in Consumers |-> "idle"]
  /\ pubs = [c \in Consumers |-> [e \in Events |-> 0]]
  /\ unmarked = [c \in Consumers |-> [e \in Events |-> 0]]
  /\ cursor = [r \in Readers |-> 0] /\ seen = [r \in Readers |-> {}]
  /\ faults = 0

GoTo(a, step) == pc' = [pc EXCEPT ![a] = step]
Leave(a, step) == GoTo(a, step) /\ num' = [num EXCEPT ![a] = 0]
Fault == faults < MaxFaults /\ faults' = faults + 1

-----------------------------------------------------------------------------
(* publishNewEvents and appendEvent.                                       *)

\* BEGIN; INSERT ... ON CONFLICT (id) DO NOTHING takes its number first, then
\* waits for a transaction that is inserting the same id.
Insert(a) ==
  /\ pc[a] = "next" /\ ~Finished(a)
  /\ num' = [num EXCEPT ![a] = nextSeq] /\ nextSeq' = nextSeq + 1
  /\ GoTo(a, "inserting")
  /\ UNCHANGED <<seqOf, outbox, overtaken, answers, drains, readers, faults>>

Held(e) == \E a \in Calls : pc[a] = "holding" /\ Turn(a) = e

Inserted(a) ==
  /\ pc[a] = "inserting" /\ seqOf[Turn(a)] = 0 /\ ~Held(Turn(a))
  /\ GoTo(a, "holding")
  /\ UNCHANGED <<log, num, answers, drains, readers, faults>>

\* The event's row and its outbox row appear together.
Committed(a) == LET e == Turn(a) IN
  /\ seqOf'  = [seqOf  EXCEPT ![e] = num[a]]
  /\ outbox' = [outbox EXCEPT ![e] = "pending"]
  /\ overtaken' = IF \E f \in Events : seqOf[f] > num[a]
                  THEN overtaken \cup {e} ELSE overtaken
  /\ UNCHANGED nextSeq

Answered(a, n) == answers' = [answers EXCEPT ![a] = Append(@, n)]

Commit(a) ==
  /\ pc[a] = "holding" /\ Committed(a)
  /\ Answered(a, num[a]) /\ Leave(a, "next")
  /\ UNCHANGED <<drains, readers, faults>>

\* The id is taken: the row is looked up, and the append answered with it.
AnswerExisting(a) ==
  /\ pc[a] = "inserting" /\ seqOf[Turn(a)] # 0
  /\ Answered(a, seqOf[Turn(a)]) /\ Leave(a, "next")
  /\ UNCHANGED <<log, drains, readers, faults>>

\* Any failure rolls back, or loses the answer of the commit.  It is reported
\* to the caller, and the plan's later events are not appended.
\* Mutant: the next event is appended all the same.
FailsOnward(a) ==
  /\ pc[a] # "failed" /\ ~Finished(a) /\ Fault
  /\ Answered(a, 0) /\ Leave(a, "next")
  /\ UNCHANGED <<log, drains, readers>>
Fails(a) ==
  /\ pc[a] # "failed" /\ ~Finished(a) /\ Fault
  /\ \/ UNCHANGED log
     \/ pc[a] = "holding" /\ Committed(a)
  /\ Leave(a, "failed")
  /\ UNCHANGED <<answers, drains, readers>>

CallStep(a) == \/ Insert(a) \/ Inserted(a) \/ Commit(a)
               \/ AnswerExisting(a) \/ Fails(a)

-----------------------------------------------------------------------------
(* EventOutboxConsumer.drainPending, which ticks do not overlap in a       *)
(* process, nor with its stop.                                             *)

Pending == {e \in Events : outbox[e] = "pending"}

\* The first b of a set of records.
First(b, S) == {e \in S : Cardinality({f \in S : Rank[f] < Rank[e]}) < b}

\* Mutant: listOutbox without a status.
ListAll(c) ==
  /\ cpc[c] = "idle" /\ Logged # {}
  /\ batch' = [batch EXCEPT ![c] = First(BatchSize, Logged)]
  /\ cpc' = [cpc EXCEPT ![c] = "publishing"]
  /\ UNCHANGED <<log, calls, hand, pubs, unmarked, readers, faults>>
ListPending(c) ==
  /\ cpc[c] = "idle" /\ Pending # {}
  /\ batch' = [batch EXCEPT ![c] = First(BatchSize, Pending)]
  /\ cpc' = [cpc EXCEPT ![c] = "publishing"]
  /\ UNCHANGED <<log, calls, hand, pubs, unmarked, readers, faults>>

\* The loop goes on to the next record of the batch, or the drain ends.
Foremost(c, e) == e \in batch[c] /\ \A f \in batch[c] : Rank[e] <= Rank[f]
Advance(c, e) == /\ batch' = [batch EXCEPT ![c] = @ \ {e}]
                 /\ cpc' = [cpc EXCEPT ![c] =
                              IF batch[c] \subseteq {e} THEN "idle" ELSE "publishing"]

Publish(c) == \E e \in batch[c] :
  /\ cpc[c] = "publishing" /\ Foremost(c, e) /\ e \notin Refused
  /\ pubs' = [pubs EXCEPT ![c][e] = @ + 1]
  /\ hand' = [hand EXCEPT ![c] = e]
  /\ cpc' = [cpc EXCEPT ![c] = "marking"]
  /\ UNCHANGED <<log, calls, batch, unmarked, readers, faults>>

\* The record stays pending, the batch goes on.
\* Mutant: the drain stops at the first failure.
StopsAtRefusal(c) == \E e \in batch[c] :
  /\ cpc[c] = "publishing" /\ Foremost(c, e)
  /\ \/ e \in Refused /\ UNCHANGED faults
     \/ Fault
  /\ batch' = [batch EXCEPT ![c] = {}]
  /\ cpc' = [cpc EXCEPT ![c] = "idle"]
  /\ UNCHANGED <<log, calls, hand, pubs, unmarked, readers>>
PublishFails(c) == \E e \in batch[c] :
  /\ cpc[c] = "publishing" /\ Foremost(c, e)
  /\ \/ e \in Refused /\ UNCHANGED faults
     \/ Fault
  /\ Advance(c, e)
  /\ UNCHANGED <<log, calls, hand, pubs, unmarked, readers>>

\* UPDATE ... WHERE event_id = ?, whatever the row's status is by now.
MarkOutboxPublished(c) ==
  /\ cpc[c] = "marking"
  /\ outbox' = [outbox EXCEPT ![hand[c]] = "published"]
  /\ hand' = [hand EXCEPT ![c] = None]
  /\ Advance(c, hand[c])
  /\ UNCHANGED <<nextSeq, seqOf, overtaken, calls, pubs, unmarked, readers, faults>>

MarkFails(c) ==
  /\ cpc[c] = "marking" /\ Fault
  /\ unmarked' = [unmarked EXCEPT ![c][hand[c]] = @ + 1]
  /\ hand' = [hand EXCEPT ![c] = None]
  /\ Advance(c, hand[c])
  /\ UNCHANGED <<log, calls, pubs, readers>>

\* The process dies, in the middle of a drain.
Crash(c) ==
  /\ cpc[c] # "idle" /\ Fault
  /\ unmarked' = IF hand[c] = None THEN unmarked
                 ELSE [unmarked EXCEPT ![c][hand[c]] = @ + 1]
  /\ batch' = [batch EXCEPT ![c] = {}] /\ hand' = [hand EXCEPT ![c] = None]
  /\ cpc' = [cpc EXCEPT ![c] = "idle"]
  /\ UNCHANGED <<log, calls, pubs, readers>>

Drain(c) == ListPending(c) \/ Publish(c) \/ PublishFails(c) \/ MarkOutboxPublished(c)
ConsumerStep(c) == Drain(c) \/ MarkFails(c) \/ Crash(c)

-----------------------------------------------------------------------------
(* The event stream: replayEvents after the client's cursor, which becomes *)
(* that of the last event it was sent.                                     *)

Fresh(r)   == {e \in Logged : seqOf[e] > cursor[r]}
UpTo(S, e) == {f \in S : seqOf[f] <= seqOf[e]}

\* Mutant: the cursor becomes the log's latest.
ReplayToLatest(r) == \E e \in Fresh(r), g \in Logged : LET page == UpTo(Fresh(r), e) IN
  /\ \/ Cardinality(page) = Limit
     \/ page = Fresh(r) /\ Cardinality(page) < Limit
  /\ \A f \in Logged : seqOf[f] <= seqOf[g]
  /\ cursor' = [cursor EXCEPT ![r] = seqOf[g]]
  /\ seen' = [seen EXCEPT ![r] = @ \cup page]
  /\ UNCHANGED <<log, calls, drains, faults>>
Replay(r) == \E e \in Fresh(r) : LET page == UpTo(Fresh(r), e) IN
  /\ \/ Cardinality(page) = Limit
     \/ page = Fresh(r) /\ Cardinality(page) < Limit
  /\ cursor' = [cursor EXCEPT ![r] = seqOf[e]]
  /\ seen' = [seen EXCEPT ![r] = @ \cup page]
  /\ UNCHANGED <<log, calls, drains, faults>>

Next == \/ \E a \in Calls : CallStep(a)
        \/ \E c \in Consumers : ConsumerStep(c)
        \/ \E r \in Readers : Replay(r)

Spec == Init /\ [][Next]_vars
\* The loop of each background process keeps ticking, and is answered.
FairSpec == Spec /\ \A c \in Consumers : WF_vars(Drain(c))

-----------------------------------------------------------------------------
(* Properties.                                                             *)

(* An append that was answered ok is in the log under the very cursor of   *)
(* the answer, for good: a repeated call is told what the first was.       *)
AnswersStand ==
  \A a \in Calls : \A i \in DOMAIN answers[a] :
    answers[a][i] = seqOf[Plan[a][i]] /\ answers[a][i] # 0

(* The log has a plan's events in the plan's order, without gaps, however  *)
(* many calls share the plan, overlap and fail.                            *)
LoggedInOrder ==
  \A a \in Calls : \A i, j \in DOMAIN Plan[a] :
    i < j /\ seqOf[Plan[a][j]] # 0 =>
      seqOf[Plan[a][i]] # 0 /\ seqOf[Plan[a][i]] < seqOf[Plan[a][j]]

\* Both: an append stands, whatever overlaps, fails and is repeated.
AppendsStand == AnswersStand /\ LoggedInOrder

(* A consumer publishes an event once, and once more for every time its    *)
(* mark did not get through; what is marked was published.                 *)
RepublishedForAReason ==
  /\ \A c \in Consumers, e \in Events : pubs[c][e] <= unmarked[c][e] + 1
  /\ \A e \in Events : outbox[e] = "published" => \E c \in Consumers : pubs[c][e] > 0

(* A client that follows its cursor misses only events that were committed *)
(* after one with a later number.                                          *)
MissedOnlyOvertaken ==
  \A r \in Readers, e \in Logged :
    seqOf[e] <= cursor[r] => e \in seen[r] \/ e \in overtaken

(* Every pending event the publisher accepts is published in the end, as   *)
(* long as fewer are refused than fit into a batch.                        *)
PublishedEventually ==
  \A e \in Events \ Refused : (outbox[e] = "pending") ~> (outbox[e] = "published")
=============================================================================
