---------------------------- MODULE DomainProofs ----------------------------
(***************************************************************************)
(* Theorems about the domain's events and the aggregates that emit them.   *)
(*                                                                         *)
(* Part 1. EventOutbox, for any number of calls, events, consumers and     *)
(* clients, any plans that agree, and any number of failures.              *)
(*                                                                         *)
(* Part 2. DomainLibrary and AggregateRows, for any calls in any order,    *)
(* any number of attempts, any members, roles and labels.                  *)
(***************************************************************************)
EXTENDS EventOutbox, DomainLibrary, SequenceTheorems, TLAPS

-----------------------------------------------------------------------------
(***************************************************************************)
(* Part 1. The event log and its outbox                                    *)
(***************************************************************************)


AtWork(a) == pc[a] \in {"inserting", "holding"}

\* What a transaction took is its own, and is used up by nobody else.
NumbersOK ==
  /\ \A a \in Calls : AtWork(a) => num[a] # 0 /\ num[a] < nextSeq
  /\ \A a, b \in Calls : AtWork(a) /\ AtWork(b) /\ num[a] = num[b] => a = b
  /\ \A a \in Calls, e \in Events : AtWork(a) => seqOf[e] # num[a]
  /\ \A a \in Calls : pc[a] = "holding" => seqOf[Turn(a)] = 0
  /\ \A a, b \in Calls : pc[a] = "holding" /\ pc[b] = "holding" /\ Turn(a) = Turn(b) => a = b

\* A call takes a number for an event after the ones before it were committed.
PlanBehind ==
  \A a \in Calls : AtWork(a) =>
    \A i \in DOMAIN answers[a] : seqOf[Plan[a][i]] < num[a]

CallInv == NumbersOK /\ AnswersStand /\ PlanBehind /\ LoggedInOrder

\* Unless a record is marked or in its hand, a consumer owes it no mark.
Settled(c, e) == pubs[c][e] <= unmarked[c][e]
DrainInv ==
  /\ RepublishedForAReason
  /\ \A c \in Consumers, e \in Events : hand[c] = e => pubs[c][e] > 0
  /\ \A c \in Consumers, e \in Events :
       hand[c] # e /\ (outbox[e] # "published" \/ e \in batch[c]) => Settled(c, e)

\* A cursor is one the client was sent.
ReadInv ==
  /\ MissedOnlyOvertaken
  /\ \A r \in Readers : cursor[r] # 0 => \E e \in Events : seqOf[e] = cursor[r]

Inv == TypeOK /\ CallInv /\ DrainInv /\ ReadInv

-----------------------------------------------------------------------------
(* Facts about plans and answers.                                          *)

LEMMA TurnOK ==
  ASSUME TypeOK, NEW a \in Calls, ~Finished(a)
  PROVE  /\ Len(answers[a]) \in Nat /\ Len(answers[a]) + 1 \in DOMAIN Plan[a]
         /\ Turn(a) \in Events
<1>1. Plan[a] \in Seq(Events) /\ answers[a] \in Seq(Nat)
  BY OutboxConstants DEF TypeOK
<1>2. Len(answers[a]) <= Len(Plan[a]) /\ Len(answers[a]) # Len(Plan[a])
  BY DEF TypeOK, Finished
<1> QED BY <1>1, <1>2 DEF Turn

LEMMA PlanMember ==
  ASSUME TypeOK, NEW a \in Calls, NEW i \in DOMAIN answers[a]
  PROVE  i \in DOMAIN Plan[a] /\ Plan[a][i] \in Events
<1>1. Plan[a] \in Seq(Events) /\ answers[a] \in Seq(Nat) /\ Len(answers[a]) <= Len(Plan[a])
  BY OutboxConstants DEF TypeOK
<1> QED BY <1>1

LEMMA Longer ==
  ASSUME NEW s \in Seq(Nat), NEW n \in Nat
  PROVE  /\ Append(s, n) \in Seq(Nat) /\ Len(Append(s, n)) = Len(s) + 1
         /\ DOMAIN Append(s, n) = DOMAIN s \cup {Len(s) + 1}
         /\ \A i \in DOMAIN s : Append(s, n)[i] = s[i]
         /\ Append(s, n)[Len(s) + 1] = n
  OBVIOUS

LEMMA InitInv == Init => Inv
<1> SUFFICES ASSUME Init PROVE Inv
  OBVIOUS
<1>1. TypeOK
  <2>1. \A a \in Calls : Plan[a] \in Seq(Events) /\ answers[a] = << >>
    BY OutboxConstants DEF Init
  <2>2. answers \in [Calls -> Seq(Nat)] /\ \A a \in Calls : Len(answers[a]) <= Len(Plan[a])
    BY <2>1 DEF Init
  <2>3. /\ batch \in [Consumers -> SUBSET Logged] /\ seen \in [Readers -> SUBSET Logged]
        /\ hand \in [Consumers -> Logged \cup {None}]
    BY DEF Init
  <2> QED BY <2>2, <2>3, OutboxConstants DEF Init, TypeOK, Logged, CallSteps
<1>2. CallInv
  <2>1. \A a \in Calls : answers[a] = << >> /\ Plan[a] \in Seq(Events) /\ pc[a] = "next"
    BY OutboxConstants DEF Init
  <2>2. \A a \in Calls : DOMAIN answers[a] = {} /\ \A i \in DOMAIN Plan[a] : Plan[a][i] \in Events
    BY <2>1
  <2>3. NumbersOK /\ PlanBehind
    BY <2>1 DEF NumbersOK, PlanBehind, AtWork
  <2>4. AnswersStand
    BY <2>2 DEF AnswersStand
  <2>5. LoggedInOrder
    BY <2>2 DEF Init, LoggedInOrder
  <2> QED BY <2>3, <2>4, <2>5 DEF CallInv
<1>3. DrainInv
  <2>1. \A c \in Consumers, e \in Events : /\ pubs[c][e] = 0 /\ unmarked[c][e] = 0
                                          /\ hand[c] # e
    BY OutboxConstants DEF Init
  <2>2. \A c \in Consumers, e \in Events : Settled(c, e) /\ pubs[c][e] <= unmarked[c][e] + 1
    BY <2>1 DEF Settled
  <2>3. \A e \in Events : outbox[e] # "published"
    BY DEF Init
  <2> QED BY ONLY <2>1, <2>2, <2>3 DEF DrainInv, RepublishedForAReason
<1>4. ReadInv
  BY DEF Init, ReadInv, MissedOnlyOvertaken, Logged
<1> QED BY <1>1, <1>2, <1>3, <1>4 DEF Inv

-----------------------------------------------------------------------------
(* Calls.                                                                  *)

LEMMA InsertKeeps == ASSUME TypeOK, CallInv, NEW a \in Calls, Insert(a) PROVE TypeOK' /\ CallInv'
<1> USE DEF Insert, GoTo
<1>1. /\ \A b \in Calls \ {a} : pc'[b] = pc[b] /\ num'[b] = num[b]
      /\ pc'[a] = "inserting" /\ num'[a] = nextSeq /\ nextSeq \in Nat /\ nextSeq # 0
  BY DEF TypeOK
<1>2. TypeOK'
  BY <1>1, OutboxConstants DEF TypeOK, CallSteps, Logged, Finished, log, drains, readers
<1>3. \A b \in Calls : Turn(b)' = Turn(b)
  BY DEF Turn
<1>4. NumbersOK'
  BY <1>1, <1>3 DEF CallInv, NumbersOK, AtWork, TypeOK
<1>5. AnswersStand' /\ LoggedInOrder'
  BY DEF CallInv, AnswersStand, LoggedInOrder
<1>6. PlanBehind'
  <2>1. ASSUME NEW i \in DOMAIN answers[a] PROVE seqOf[Plan[a][i]] < nextSeq
    <3>1. Plan[a][i] \in Events
      BY PlanMember
    <3> QED BY <3>1 DEF TypeOK
  <2> QED BY <1>1, <2>1 DEF CallInv, PlanBehind, AtWork
<1> QED BY <1>2, <1>4, <1>5, <1>6 DEF CallInv

LEMMA InsertedKeeps ==
  ASSUME TypeOK, CallInv, NEW a \in Calls, Inserted(a) PROVE TypeOK' /\ CallInv'
<1> USE DEF Inserted, GoTo
<1>1. /\ \A b \in Calls \ {a} : pc'[b] = pc[b]
      /\ pc[a] = "inserting" /\ pc'[a] = "holding" /\ UNCHANGED <<num, nextSeq, seqOf, answers>>
  BY DEF TypeOK, log
<1>2. TypeOK'
  BY <1>1, OutboxConstants DEF TypeOK, CallSteps, Logged, Finished, log, drains, readers
<1>3. \A b \in Calls : Turn(b)' = Turn(b)
  BY <1>1 DEF Turn
<1>4. \A b \in Calls \ {a} : pc[b] = "holding" => Turn(b) # Turn(a)
  BY DEF Held
<1>5. NumbersOK'
  BY <1>1, <1>3, <1>4 DEF CallInv, NumbersOK, AtWork, TypeOK
<1>6. AnswersStand' /\ LoggedInOrder' /\ PlanBehind'
  BY <1>1 DEF CallInv, AnswersStand, LoggedInOrder, PlanBehind, AtWork
<1> QED BY <1>2, <1>5, <1>6 DEF CallInv

(***************************************************************************)
(* What a commit does to the log, whether or not it is answered.           *)
(***************************************************************************)
Written(a) == /\ pc[a] = "holding" /\ Committed(a)
              /\ pc'[a] \notin {"inserting", "holding"}
              /\ \A b \in Calls \ {a} : pc'[b] = pc[b] /\ num'[b] = num[b] /\ answers'[b] = answers[b]

LEMMA CommittedRow ==
  ASSUME TypeOK, NEW a \in Calls, pc[a] = "holding", Committed(a)
  PROVE  /\ Turn(a) \in Events /\ num[a] \in Nat /\ seqOf'[Turn(a)] = num[a]
         /\ outbox'[Turn(a)] = "pending"
         /\ \A e \in Events \ {Turn(a)} : seqOf'[e] = seqOf[e] /\ outbox'[e] = outbox[e]
         /\ seqOf' \in [Events -> Nat] /\ nextSeq' = nextSeq
         /\ outbox' \in [Events -> {"none", "pending", "published"}]
<1>1. Turn(a) \in Events
  BY TurnOK DEF TypeOK
<1> QED BY <1>1 DEF Committed, TypeOK

LEMMA WrittenOrder ==
  ASSUME TypeOK, CallInv, NEW a \in Calls, Written(a) PROVE LoggedInOrder'
<1> DEFINE e == Turn(a)
           n == Len(answers[a]) + 1
<1>1. /\ e \in Events /\ num[a] \in Nat /\ seqOf[e] = 0 /\ seqOf'[e] = num[a] /\ num[a] # 0
      /\ \A f \in Events \ {e} : seqOf'[f] = seqOf[f]
  BY CommittedRow DEF Written, CallInv, NumbersOK, AtWork
<1>2. n \in DOMAIN Plan[a] /\ e = Plan[a][n]
  BY TurnOK DEF Written, TypeOK, Turn
<1>3. \A k \in 1..n : k # n => /\ k \in DOMAIN answers[a]
                               /\ seqOf[Plan[a][k]] # 0 /\ seqOf[Plan[a][k]] < num[a]
  <2> SUFFICES ASSUME NEW k \in 1..n, k # n
               PROVE  /\ k \in DOMAIN answers[a]
                      /\ seqOf[Plan[a][k]] # 0 /\ seqOf[Plan[a][k]] < num[a]
    OBVIOUS
  <2>1. k \in DOMAIN answers[a]
    BY DEF TypeOK
  <2> QED BY <2>1 DEF CallInv, AnswersStand, PlanBehind, AtWork, Written
<1> SUFFICES ASSUME NEW b \in Calls, NEW i \in DOMAIN Plan[b], NEW j \in DOMAIN Plan[b],
                    i < j, seqOf'[Plan[b][j]] # 0
             PROVE  seqOf'[Plan[b][i]] # 0 /\ seqOf'[Plan[b][i]] < seqOf'[Plan[b][j]]
  BY DEF LoggedInOrder
<1>4. Plan[b] \in Seq(Events) /\ Plan[b][i] \in Events /\ Plan[b][j] \in Events
      /\ i \in Nat /\ j \in Nat /\ i >= 1
  BY OutboxConstants
<1>5. CASE Plan[b][j] = e
  <2>1. j = n /\ \A k \in 1..j : Plan[b][k] = Plan[a][k]
    BY <1>2, <1>5, PlansAgree
  <2>2. Plan[b][i] = Plan[a][i] /\ i \in 1..n /\ i # n
    BY <2>1, <1>4
  <2>3. seqOf[Plan[b][i]] # 0 /\ seqOf[Plan[b][i]] < num[a]
    BY <2>2, <1>3
  <2> QED BY <2>3, <1>1, <1>4, <1>5
<1>6. CASE Plan[b][j] # e
  <2>1. seqOf[Plan[b][j]] # 0 /\ seqOf'[Plan[b][j]] = seqOf[Plan[b][j]]
    BY <1>6, <1>1, <1>4
  <2>2. seqOf[Plan[b][i]] # 0 /\ seqOf[Plan[b][i]] < seqOf[Plan[b][j]]
    BY <2>1 DEF CallInv, LoggedInOrder
  <2> QED BY <2>1, <2>2, <1>1, <1>4
<1> QED BY <1>5, <1>6

LEMMA WrittenNumbers ==
  ASSUME TypeOK, CallInv, NEW a \in Calls, Written(a) PROVE NumbersOK'
<1>1. /\ Turn(a) \in Events /\ seqOf'[Turn(a)] = num[a] /\ nextSeq' = nextSeq
      /\ \A e \in Events \ {Turn(a)} : seqOf'[e] = seqOf[e]
  BY CommittedRow DEF Written
<1>2. \A b \in Calls : AtWork(b)' => b # a /\ AtWork(b) /\ num'[b] = num[b] /\ pc'[b] = pc[b]
                                    /\ Turn(b)' = Turn(b)
  BY DEF Written, AtWork, Turn
<1>3. AtWork(a)
  BY DEF Written, AtWork
<1>4. \A b \in Calls : AtWork(b)' => num[b] # num[a]
  BY <1>2, <1>3 DEF CallInv, NumbersOK
<1>5. \A b \in Calls : pc'[b] = "holding" => Turn(b) # Turn(a) /\ AtWork(b)' /\ Turn(b) \in Events
  <2> SUFFICES ASSUME NEW b \in Calls, pc'[b] = "holding"
               PROVE  Turn(b) # Turn(a) /\ AtWork(b)' /\ Turn(b) \in Events
    OBVIOUS
  <2>1. AtWork(b)' /\ b # a /\ pc[b] = "holding"
    BY <1>2 DEF AtWork
  <2> QED BY <2>1, TurnOK DEF CallInv, NumbersOK, TypeOK, Written
<1>6. \A b \in Calls : AtWork(b)' => num'[b] # 0 /\ num'[b] < nextSeq'
  BY <1>1, <1>2 DEF CallInv, NumbersOK
<1>7. \A b, c \in Calls : AtWork(b)' /\ AtWork(c)' /\ num'[b] = num'[c] => b = c
  BY <1>2 DEF CallInv, NumbersOK
<1>8. \A b \in Calls, e \in Events : AtWork(b)' => seqOf'[e] # num'[b]
  BY <1>1, <1>2, <1>4 DEF CallInv, NumbersOK
<1>9. \A b \in Calls : pc'[b] = "holding" => seqOf'[Turn(b)'] = 0
  BY <1>1, <1>2, <1>5 DEF CallInv, NumbersOK
<1>10. \A b, c \in Calls : pc'[b] = "holding" /\ pc'[c] = "holding" /\ Turn(b)' = Turn(c)' => b = c
  BY <1>2, <1>5 DEF CallInv, NumbersOK
<1> QED BY <1>6, <1>7, <1>8, <1>9, <1>10 DEF NumbersOK

\* A row that is committed keeps the rest of the state in shape.
LEMMA CommitTypes ==
  ASSUME TypeOK, NEW a \in Calls, pc[a] = "holding", Committed(a), num[a] # 0, num[a] < nextSeq
  PROVE  /\ nextSeq' \in Nat \ {0} /\ \A e \in Events : seqOf'[e] < nextSeq'
         /\ \A e \in Events : outbox'[e] = "none" <=> seqOf'[e] = 0
         /\ Logged \subseteq Logged' /\ overtaken' \subseteq Logged'
<1>1. Turn(a) \in Events /\ Turn(a) \in Logged'
  BY CommittedRow DEF Logged
<1>2. Logged \subseteq Logged'
  BY <1>1, CommittedRow DEF Logged
<1>3. overtaken' \subseteq overtaken \cup {Turn(a)}
  BY DEF Committed
<1>4. overtaken' \subseteq Logged'
  BY <1>1, <1>2, <1>3 DEF TypeOK
<1>5. \A e \in Events : seqOf'[e] < nextSeq'
  <2>1. /\ seqOf'[Turn(a)] = num[a] /\ nextSeq' = nextSeq
        /\ \A e \in Events \ {Turn(a)} : seqOf'[e] = seqOf[e]
    BY CommittedRow
  <2>2. \A e \in Events : seqOf[e] < nextSeq
    BY DEF TypeOK
  <2> QED BY ONLY <1>1, <2>1, <2>2, num[a] < nextSeq
<1>6. \A e \in Events : outbox'[e] = "none" <=> seqOf'[e] = 0
  <2>1. outbox'[Turn(a)] # "none" /\ seqOf'[Turn(a)] # 0
    BY CommittedRow
  <2>2. \A e \in Events \ {Turn(a)} : outbox'[e] = outbox[e] /\ seqOf'[e] = seqOf[e]
    BY CommittedRow
  <2>3. \A e \in Events : outbox[e] = "none" <=> seqOf[e] = 0
    BY DEF TypeOK
  <2> QED BY ONLY <1>1, <2>1, <2>2, <2>3
<1>7. nextSeq' \in Nat \ {0}
  BY CommittedRow DEF TypeOK
<1> QED BY <1>2, <1>4, <1>5, <1>6, <1>7

\* The types of the state that belongs to consumers and clients.
SideTypes ==
  /\ batch \in [Consumers -> SUBSET Logged]
  /\ hand \in [Consumers -> Logged \cup {None}]
  /\ cpc \in [Consumers -> {"idle", "publishing", "marking"}]
  /\ \A c \in Consumers : cpc[c] = "marking" <=> hand[c] # None
  /\ pubs \in [Consumers -> [Events -> Nat]] /\ unmarked \in [Consumers -> [Events -> Nat]]
  /\ cursor \in [Readers -> Nat] /\ seen \in [Readers -> SUBSET Logged]

LEMMA SideKept ==
  ASSUME TypeOK, UNCHANGED <<drains, readers>>, Logged \subseteq Logged'
  PROVE  SideTypes'
BY DEF TypeOK, SideTypes, drains, readers

\* An answered event keeps the number it has.
LEMMA WrittenElsewhere ==
  ASSUME TypeOK, CallInv, NEW a \in Calls, Written(a),
         NEW b \in Calls, NEW i \in DOMAIN answers[b]
  PROVE  Plan[b][i] \in Events /\ seqOf'[Plan[b][i]] = seqOf[Plan[b][i]]
<1>1. Plan[b][i] \in Events
  BY PlanMember
<1>2. seqOf[Plan[b][i]] # 0
  BY DEF CallInv, AnswersStand
<1>3. seqOf[Turn(a)] = 0
  BY DEF CallInv, NumbersOK, Written
<1> QED BY <1>1, <1>2, <1>3, CommittedRow DEF Written

LEMMA WrittenBehind ==
  ASSUME TypeOK, CallInv, NEW a \in Calls, Written(a) PROVE PlanBehind'
<1> SUFFICES ASSUME NEW b \in Calls, AtWork(b)', NEW i \in DOMAIN answers'[b]
             PROVE  seqOf'[Plan[b][i]] < num'[b]
  BY DEF PlanBehind
<1>1. b # a /\ AtWork(b) /\ num'[b] = num[b] /\ answers'[b] = answers[b]
  BY DEF Written, AtWork
<1> QED BY <1>1, WrittenElsewhere DEF CallInv, PlanBehind

LEMMA CommitKeeps == ASSUME TypeOK, CallInv, NEW a \in Calls, Commit(a) PROVE TypeOK' /\ CallInv'
<1>1. /\ pc[a] = "holding" /\ pc' = [pc EXCEPT ![a] = "next"] /\ num' = [num EXCEPT ![a] = 0]
      /\ answers' = [answers EXCEPT ![a] = Append(answers[a], num[a])]
      /\ UNCHANGED <<drains, readers, faults>>
  BY DEF Commit, Answered, Leave, GoTo
<1>2. /\ pc' \in [Calls -> CallSteps] /\ num' \in [Calls -> Nat] /\ pc'[a] = "next"
      /\ \A b \in Calls \ {a} : pc'[b] = pc[b] /\ num'[b] = num[b] /\ answers'[b] = answers[b]
      /\ answers'[a] = Append(answers[a], num[a]) /\ DOMAIN answers' = Calls
      /\ answers[a] \in Seq(Nat) /\ num[a] \in Nat
  BY <1>1 DEF TypeOK, CallSteps
<1>3. Written(a)
  BY <1>1, <1>2 DEF Written, Commit
<1>4. num[a] # 0 /\ num[a] < nextSeq /\ ~Finished(a)
  BY <1>1 DEF CallInv, NumbersOK, AtWork, TypeOK
<1>5. TypeOK'
  <2>1. ~Finished(a) /\ Len(answers[a]) < Len(Plan[a])
    BY <1>4, OutboxConstants DEF TypeOK, Finished
  <2>2. /\ answers' \in [Calls -> Seq(Nat)] /\ Len(answers'[a]) <= Len(Plan[a])
    BY <1>1, <1>2, <2>1, Longer, OutboxConstants DEF TypeOK
  <2>3. \A b \in Calls : /\ Len(answers'[b]) <= Len(Plan[b])
                          /\ pc'[b] \in {"inserting", "holding"} => ~Finished(b)'
    BY <1>2, <2>2 DEF TypeOK, Finished
  <2>4. /\ Committed(a) /\ SideTypes' /\ faults' = faults
    BY <1>1, <1>4, CommitTypes, SideKept DEF Commit
  <2>5. /\ seqOf' \in [Events -> Nat] /\ outbox' \in [Events -> {"none", "pending", "published"}]
        /\ nextSeq' \in Nat \ {0} /\ \A e \in Events : seqOf'[e] < nextSeq'
        /\ \A e \in Events : outbox'[e] = "none" <=> seqOf'[e] = 0
        /\ overtaken' \subseteq Logged'
    BY <1>1, <1>4, <2>4, CommittedRow, CommitTypes
  <2> QED BY <1>2, <2>2, <2>3, <2>4, <2>5 DEF TypeOK, SideTypes
<1>6. AnswersStand'
  <2> SUFFICES ASSUME NEW b \in Calls, NEW i \in DOMAIN answers'[b]
               PROVE  answers'[b][i] = seqOf'[Plan[b][i]] /\ answers'[b][i] # 0
    BY DEF AnswersStand
  <2>1. CASE b # a
    BY <2>1, <1>2, <1>3, WrittenElsewhere DEF CallInv, AnswersStand
  <2>2. CASE b = a /\ i \in DOMAIN answers[a]
    BY <2>2, <1>2, <1>3, WrittenElsewhere, Longer DEF CallInv, AnswersStand
  <2>3. CASE b = a /\ i = Len(answers[a]) + 1
    BY <2>3, <1>2, <1>3, <1>4, CommittedRow, Longer DEF Written, Turn
  <2> QED BY <2>1, <2>2, <2>3, <1>2, Longer
<1> QED BY <1>3, <1>5, <1>6, WrittenOrder, WrittenNumbers, WrittenBehind DEF CallInv

(***************************************************************************)
(* A call that leaves its append with the log as it is.                    *)
(***************************************************************************)
Left(a) == /\ pc'[a] \notin {"inserting", "holding"} /\ UNCHANGED log
           /\ \A b \in Calls \ {a} : pc'[b] = pc[b] /\ num'[b] = num[b] /\ answers'[b] = answers[b]

LEMMA LeftKeeps ==
  ASSUME TypeOK, CallInv, NEW a \in Calls, Left(a)
  PROVE  NumbersOK' /\ PlanBehind' /\ LoggedInOrder'
<1>1. UNCHANGED <<nextSeq, seqOf>>
  BY DEF Left, log
<1>2. \A b \in Calls : AtWork(b)' => /\ AtWork(b) /\ num'[b] = num[b] /\ pc'[b] = pc[b]
                                    /\ answers'[b] = answers[b] /\ Turn(b)' = Turn(b)
  BY DEF Left, AtWork, Turn
<1>3. \A b \in Calls : pc'[b] = "holding" => AtWork(b)'
  BY DEF AtWork
<1>4. NumbersOK'
  BY <1>1, <1>2, <1>3 DEF CallInv, NumbersOK
<1>5. PlanBehind'
  BY <1>1, <1>2 DEF CallInv, PlanBehind
<1>6. LoggedInOrder'
  BY <1>1 DEF CallInv, LoggedInOrder
<1> QED BY <1>4, <1>5, <1>6

LEMMA AnswerExistingKeeps ==
  ASSUME TypeOK, CallInv, NEW a \in Calls, AnswerExisting(a) PROVE TypeOK' /\ CallInv'
<1> DEFINE n == seqOf[Turn(a)]
<1>1. /\ pc[a] = "inserting" /\ pc' = [pc EXCEPT ![a] = "next"] /\ num' = [num EXCEPT ![a] = 0]
      /\ answers' = [answers EXCEPT ![a] = Append(answers[a], n)] /\ n # 0
      /\ UNCHANGED <<log, drains, readers, faults>>
  BY DEF AnswerExisting, Answered, Leave, GoTo
<1>2. ~Finished(a) /\ Turn(a) \in Events /\ n \in Nat
  BY <1>1, TurnOK DEF TypeOK
<1>3. /\ pc' \in [Calls -> CallSteps] /\ num' \in [Calls -> Nat] /\ pc'[a] = "next"
      /\ \A b \in Calls \ {a} : pc'[b] = pc[b] /\ num'[b] = num[b] /\ answers'[b] = answers[b]
      /\ answers'[a] = Append(answers[a], n) /\ DOMAIN answers' = Calls
      /\ answers[a] \in Seq(Nat)
  BY <1>1 DEF TypeOK, CallSteps
<1>4. Left(a) /\ UNCHANGED seqOf
  BY <1>1, <1>3 DEF Left, log
<1>5. TypeOK'
  <2>1. Len(answers[a]) < Len(Plan[a])
    BY <1>2, OutboxConstants DEF TypeOK, Finished
  <2>2. answers' \in [Calls -> Seq(Nat)] /\ Len(answers'[a]) <= Len(Plan[a])
    BY <1>1, <1>2, <1>3, <2>1, Longer, OutboxConstants DEF TypeOK
  <2>3. \A b \in Calls : /\ Len(answers'[b]) <= Len(Plan[b])
                          /\ pc'[b] \in {"inserting", "holding"} => ~Finished(b)'
    BY <1>3, <2>2 DEF TypeOK, Finished
  <2>4. SideTypes'
    BY <1>1, SideKept DEF Logged, log
  <2> QED BY <1>1, <1>3, <2>2, <2>3, <2>4 DEF TypeOK, SideTypes, log, Logged
<1>6. AnswersStand'
  <2> SUFFICES ASSUME NEW b \in Calls, NEW i \in DOMAIN answers'[b]
               PROVE  answers'[b][i] = seqOf[Plan[b][i]] /\ answers'[b][i] # 0
    BY <1>4 DEF AnswersStand
  <2>1. CASE b # a
    BY <2>1, <1>3 DEF CallInv, AnswersStand
  <2>2. CASE b = a /\ i \in DOMAIN answers[a]
    BY <2>2, <1>2, <1>3, Longer DEF CallInv, AnswersStand
  <2>3. CASE b = a /\ i = Len(answers[a]) + 1
    BY <2>3, <1>1, <1>2, <1>3, Longer DEF Turn
  <2> QED BY <2>1, <2>2, <2>3, <1>2, <1>3, Longer
<1> QED BY <1>4, <1>5, <1>6, LeftKeeps DEF CallInv

LEMMA FailsKeeps ==
  ASSUME TypeOK, CallInv, NEW a \in Calls, Fails(a) PROVE TypeOK' /\ CallInv'
<1>1. /\ pc' = [pc EXCEPT ![a] = "failed"] /\ num' = [num EXCEPT ![a] = 0]
      /\ UNCHANGED <<answers, drains, readers>> /\ faults' \in 0..MaxFaults
  BY OutboxConstants DEF Fails, Fault, Leave, GoTo, TypeOK
<1>2. /\ pc' \in [Calls -> CallSteps] /\ num' \in [Calls -> Nat] /\ pc'[a] = "failed"
      /\ \A b \in Calls \ {a} : pc'[b] = pc[b] /\ num'[b] = num[b] /\ answers'[b] = answers[b]
  BY <1>1 DEF TypeOK, CallSteps
<1>3. \A b \in Calls : pc'[b] \in {"inserting", "holding"} => ~Finished(b)'
  BY <1>1, <1>2 DEF TypeOK, Finished
<1>4. CASE UNCHANGED log
  <2>1. Left(a)
    BY <1>4, <1>2 DEF Left
  <2>2. SideTypes'
    BY <1>1, <1>4, SideKept DEF Logged, log
  <2>3. TypeOK'
    BY <1>1, <1>2, <1>3, <1>4, <2>2 DEF TypeOK, SideTypes, log, Logged
  <2>4. AnswersStand'
    BY <1>1, <1>4 DEF CallInv, AnswersStand, log
  <2> QED BY <2>1, <2>3, <2>4, LeftKeeps DEF CallInv
<1>5. CASE pc[a] = "holding" /\ Committed(a)
  <2>1. Written(a) /\ num[a] # 0 /\ num[a] < nextSeq
    BY <1>2, <1>5 DEF Written, CallInv, NumbersOK, AtWork
  <2>2. /\ seqOf' \in [Events -> Nat] /\ outbox' \in [Events -> {"none", "pending", "published"}]
        /\ nextSeq' \in Nat \ {0} /\ \A e \in Events : seqOf'[e] < nextSeq'
        /\ \A e \in Events : outbox'[e] = "none" <=> seqOf'[e] = 0
        /\ overtaken' \subseteq Logged' /\ SideTypes'
    BY <1>1, <1>5, <2>1, CommittedRow, CommitTypes, SideKept
  <2>3. TypeOK'
    BY <1>1, <1>2, <1>3, <2>2 DEF TypeOK, SideTypes
  <2>4. AnswersStand'
    BY <1>1, <2>1, WrittenElsewhere DEF CallInv, AnswersStand
  <2> QED BY <2>1, <2>3, <2>4, WrittenOrder, WrittenNumbers, WrittenBehind DEF CallInv
<1> QED BY <1>4, <1>5 DEF Fails

\* Consumers and clients change nothing of what the calls' invariant is about.
LEMMA CallsUntouched ==
  ASSUME CallInv, UNCHANGED calls, UNCHANGED <<nextSeq, seqOf>> PROVE CallInv'
BY DEF CallInv, NumbersOK, AnswersStand, PlanBehind, LoggedInOrder, AtWork, Turn, calls

-----------------------------------------------------------------------------
(* What a call does to consumers and clients.                              *)

LEMMA CallEffect ==
  ASSUME NEW a \in Calls, CallStep(a)
  PROVE  /\ UNCHANGED drains /\ UNCHANGED readers
         /\ UNCHANGED <<seqOf, outbox, overtaken>> \/ (pc[a] = "holding" /\ Committed(a))
<1>1. CASE Insert(a) \/ Inserted(a) \/ AnswerExisting(a)
  BY <1>1 DEF Insert, Inserted, AnswerExisting, log
<1>2. CASE Commit(a) \/ Fails(a)
  BY <1>2 DEF Commit, Fails, log
<1> QED BY <1>1, <1>2 DEF CallStep

LEMMA CallDrainInv ==
  ASSUME TypeOK, CallInv, DrainInv, NEW a \in Calls, CallStep(a) PROVE DrainInv'
<1>1. UNCHANGED <<batch, hand, cpc, pubs, unmarked>>
  BY CallEffect DEF drains
<1>2. \A e \in Events : outbox'[e] = "published" <=> outbox[e] = "published"
  <2>1. CASE UNCHANGED <<seqOf, outbox, overtaken>>
    BY <2>1
  <2>2. CASE pc[a] = "holding" /\ Committed(a)
    <3>1. /\ Turn(a) \in Events /\ outbox'[Turn(a)] = "pending"
          /\ \A e \in Events \ {Turn(a)} : outbox'[e] = outbox[e]
      BY <2>2, CommittedRow
    <3>2. outbox[Turn(a)] = "none"
      BY <2>2, <3>1 DEF CallInv, NumbersOK, TypeOK
    <3> QED BY ONLY <3>1, <3>2
  <2> QED BY <2>1, <2>2, CallEffect
<1> QED BY <1>1, <1>2 DEF DrainInv, RepublishedForAReason, Settled

LEMMA CallReadInv ==
  ASSUME TypeOK, CallInv, ReadInv, NEW a \in Calls, CallStep(a) PROVE ReadInv'
<1>1. UNCHANGED <<cursor, seen>>
  BY CallEffect DEF readers
<1>2. CASE UNCHANGED <<seqOf, outbox, overtaken>>
  BY <1>1, <1>2 DEF ReadInv, MissedOnlyOvertaken, Logged
<1>3. CASE pc[a] = "holding" /\ Committed(a)
  <2>1. /\ Turn(a) \in Events /\ seqOf'[Turn(a)] = num[a] /\ num[a] \in Nat /\ num[a] # 0
        /\ \A e \in Events \ {Turn(a)} : seqOf'[e] = seqOf[e]
        /\ \A e \in Events : seqOf[e] # num[a] /\ seqOf[e] \in Nat
        /\ seqOf[Turn(a)] = 0
    BY <1>3, CommittedRow DEF CallInv, NumbersOK, AtWork, TypeOK
  <2>2. /\ overtaken \subseteq overtaken'
        /\ (\E f \in Events : seqOf[f] > num[a]) => Turn(a) \in overtaken'
    BY <1>3 DEF Committed
  <2>3. ASSUME NEW r \in Readers, cursor[r] # 0
        PROVE  \E f \in Events : seqOf[f] = cursor[r] /\ seqOf'[f] = cursor[r]
    BY <2>1, <2>3 DEF ReadInv
  <2>4. ASSUME NEW r \in Readers, NEW e \in Logged', seqOf'[e] <= cursor[r]
        PROVE  e \in seen[r] \/ e \in overtaken'
    <3>1. e \in Events /\ seqOf'[e] # 0 /\ cursor[r] \in Nat
      BY <2>4 DEF Logged, TypeOK
    <3>2. CASE e = Turn(a)
      <4>1. cursor[r] # 0 /\ num[a] <= cursor[r]
        BY <2>1, <2>4, <3>1, <3>2
      <4>2. PICK f \in Events : seqOf[f] = cursor[r]
        BY <4>1, <2>3
      <4>3. seqOf[f] > num[a]
        BY <4>1, <4>2, <2>1
      <4> QED BY <4>3, <3>2, <2>2
    <3>3. CASE e # Turn(a)
      <4>1. e \in Logged /\ seqOf[e] <= cursor[r]
        BY <2>1, <2>4, <3>1, <3>3 DEF Logged
      <4> QED BY <4>1, <2>2 DEF ReadInv, MissedOnlyOvertaken
    <3> QED BY <3>2, <3>3
  <2> QED BY <1>1, <2>3, <2>4 DEF ReadInv, MissedOnlyOvertaken
<1> QED BY <1>2, <1>3, CallEffect

LEMMA CallKeeps ==
  ASSUME Inv, NEW a \in Calls, CallStep(a) PROVE Inv'
<1>1. TypeOK' /\ CallInv'
  BY InsertKeeps, InsertedKeeps, CommitKeeps, AnswerExistingKeeps, FailsKeeps DEF CallStep, Inv
<1> QED BY <1>1, CallDrainInv, CallReadInv DEF Inv

-----------------------------------------------------------------------------
(* Consumers.                                                              *)

\* A consumer's step that leaves the log as it is.
LEMMA ConsumerTypes ==
  ASSUME TypeOK, UNCHANGED <<log, calls>>, SideTypes', faults' \in 0..MaxFaults
  PROVE  TypeOK'
BY DEF TypeOK, SideTypes, log, calls, Logged, Finished

LEMMA ListPendingKeeps ==
  ASSUME TypeOK, DrainInv, NEW c \in Consumers, ListPending(c) PROVE TypeOK' /\ DrainInv'
<1> USE DEF ListPending
<1>1. /\ hand[c] = None /\ \A d \in Consumers \ {c} : batch'[d] = batch[d] /\ cpc'[d] = cpc[d]
      /\ batch'[c] \subseteq Pending /\ cpc'[c] = "publishing"
      /\ UNCHANGED <<hand, pubs, unmarked, log, calls, readers, faults>>
  BY DEF TypeOK, First
<1>2. Pending \subseteq Logged /\ \A e \in Pending : outbox[e] # "published"
  BY DEF Pending, Logged, TypeOK
<1>3. SideTypes'
  <2>1. batch' \in [Consumers -> SUBSET Logged] /\ cpc' \in [Consumers -> {"idle", "publishing", "marking"}]
    BY <1>1, <1>2 DEF TypeOK
  <2>2. \A d \in Consumers : cpc'[d] = "marking" <=> hand[d] # None
    BY <1>1 DEF TypeOK
  <2> QED BY <1>1, <2>1, <2>2 DEF TypeOK, SideTypes, log, readers, Logged
<1>4. TypeOK'
  BY <1>1, <1>3, ConsumerTypes DEF TypeOK
<1>5. DrainInv'
  <2>1. \A d \in Consumers, e \in Events :
          outbox[e] # "published" \/ e \in batch'[d] => outbox[e] # "published" \/ e \in batch[d]
    BY <1>1, <1>2
  <2> QED BY <1>1, <2>1 DEF DrainInv, RepublishedForAReason, Settled, log
<1> QED BY <1>4, <1>5

LEMMA PublishKeeps ==
  ASSUME TypeOK, DrainInv, NEW c \in Consumers, Publish(c) PROVE TypeOK' /\ DrainInv'
<1>1. PICK e \in batch[c] : /\ cpc[c] = "publishing"
                            /\ pubs' = [pubs EXCEPT ![c][e] = @ + 1]
                            /\ hand' = [hand EXCEPT ![c] = e]
                            /\ cpc' = [cpc EXCEPT ![c] = "marking"]
                            /\ UNCHANGED <<log, calls, batch, unmarked, readers, faults>>
  BY DEF Publish
<1>2. /\ e \in Logged /\ e \in Events /\ e # None /\ hand[c] = None /\ Settled(c, e)
      /\ pubs[c] \in [Events -> Nat] /\ unmarked[c] \in [Events -> Nat]
  BY <1>1, OutboxConstants DEF TypeOK, DrainInv, Logged
<1>3. /\ hand'[c] = e /\ cpc'[c] = "marking" /\ pubs'[c][e] = pubs[c][e] + 1
      /\ \A d \in Consumers \ {c} : hand'[d] = hand[d] /\ cpc'[d] = cpc[d] /\ pubs'[d] = pubs[d]
      /\ \A f \in Events \ {e} : pubs'[c][f] = pubs[c][f]
      /\ pubs' \in [Consumers -> [Events -> Nat]]
  BY <1>1, <1>2 DEF TypeOK
<1>4. TypeOK'
  <2>1. /\ hand' \in [Consumers -> Logged \cup {None}]
        /\ cpc' \in [Consumers -> {"idle", "publishing", "marking"}]
    BY <1>1, <1>2 DEF TypeOK
  <2>2. \A d \in Consumers : cpc'[d] = "marking" <=> hand'[d] # None
    BY <1>2, <1>3 DEF TypeOK
  <2>3. SideTypes'
    BY <1>1, <1>3, <2>1, <2>2 DEF TypeOK, SideTypes, log, readers, Logged
  <2> QED BY <1>1, <2>3, ConsumerTypes DEF TypeOK
<1>5. DrainInv'
  <2>1. pubs'[c][e] > 0 /\ pubs'[c][e] <= unmarked[c][e] + 1
    BY <1>2, <1>3 DEF Settled
  <2>2. \A d \in Consumers, f \in Events :
          d # c \/ f # e => pubs'[d][f] = pubs[d][f] /\ (hand'[d] = f => hand[d] = f)
    <3> SUFFICES ASSUME NEW d \in Consumers, NEW f \in Events, d # c \/ f # e
                 PROVE  pubs'[d][f] = pubs[d][f] /\ (hand'[d] = f => hand[d] = f)
      OBVIOUS
    <3>1. CASE d \in Consumers \ {c}
      BY <3>1, <1>3
    <3>2. CASE d = c /\ f \in Events \ {e}
      BY <3>2, <1>3
    <3> QED BY <3>1, <3>2
  <2>3. ASSUME NEW d \in Consumers, NEW f \in Events, hand'[d] # f,
               outbox'[f] # "published" \/ f \in batch'[d]
        PROVE  Settled(d, f)'
    <3>1. d # c \/ f # e
      BY <1>3, <2>3
    <3>2. hand[d] # f
      BY <1>2, <1>3, <2>3, OutboxConstants
    <3>3. Settled(d, f)
      BY <1>1, <2>3, <3>2 DEF DrainInv, log
    <3> QED BY <1>1, <2>2, <3>1, <3>3 DEF Settled
  <2>4. \A d \in Consumers, f \in Events : hand'[d] = f => pubs'[d][f] > 0
    BY <2>1, <2>2 DEF DrainInv
  <2>5. \A d \in Consumers, f \in Events : pubs'[d][f] <= unmarked'[d][f] + 1
    BY <1>1, <2>1, <2>2 DEF DrainInv, RepublishedForAReason
  <2>6. \A f \in Events : outbox'[f] = "published" => \E d \in Consumers : pubs'[d][f] > 0
    <3> SUFFICES ASSUME NEW f \in Events, outbox'[f] = "published"
                 PROVE  \E d \in Consumers : pubs'[d][f] > 0
      OBVIOUS
    <3>1. PICK d \in Consumers : pubs[d][f] > 0
      BY <1>1 DEF DrainInv, RepublishedForAReason, log
    <3> QED BY <2>1, <2>2, <3>1
  <2> QED BY <2>3, <2>4, <2>5, <2>6 DEF DrainInv, RepublishedForAReason
<1> QED BY <1>4, <1>5

LEMMA PublishFailsKeeps ==
  ASSUME TypeOK, DrainInv, NEW c \in Consumers, PublishFails(c) PROVE TypeOK' /\ DrainInv'
<1>1. PICK e \in batch[c] : cpc[c] = "publishing" /\ Advance(c, e)
  BY DEF PublishFails
<1>2. UNCHANGED <<log, calls, hand, pubs, unmarked, readers>> /\ faults' \in 0..MaxFaults
  BY OutboxConstants DEF PublishFails, Fault, TypeOK
<1>3. /\ \A d \in Consumers : batch'[d] \subseteq batch[d]
      /\ \A d \in Consumers \ {c} : cpc'[d] = cpc[d]
      /\ cpc'[c] \in {"idle", "publishing"} /\ hand[c] = None
      /\ DOMAIN batch' = Consumers /\ cpc' \in [Consumers -> {"idle", "publishing", "marking"}]
  BY <1>1 DEF Advance, TypeOK
<1>4. TypeOK'
  <2>1. \A d \in Consumers : cpc'[d] = "marking" <=> hand[d] # None
    BY <1>3 DEF TypeOK
  <2>2. batch' \in [Consumers -> SUBSET Logged]
    BY <1>1, <1>3 DEF TypeOK, Advance
  <2>3. SideTypes'
    BY <1>2, <1>3, <2>1, <2>2 DEF TypeOK, SideTypes, log, readers, Logged
  <2> QED BY <1>2, <2>3, ConsumerTypes
<1>5. DrainInv'
  BY <1>2, <1>3 DEF DrainInv, RepublishedForAReason, Settled, log
<1> QED BY <1>4, <1>5

LEMMA MarkOutboxPublishedKeeps ==
  ASSUME TypeOK, DrainInv, NEW c \in Consumers, MarkOutboxPublished(c)
  PROVE  TypeOK' /\ DrainInv' /\ UNCHANGED <<nextSeq, seqOf, overtaken, calls, readers>>
<1> DEFINE e == hand[c]
<1>1. /\ cpc[c] = "marking" /\ outbox' = [outbox EXCEPT ![e] = "published"]
      /\ hand' = [hand EXCEPT ![c] = None] /\ Advance(c, e)
      /\ UNCHANGED <<nextSeq, seqOf, overtaken, calls, pubs, unmarked, readers, faults>>
  BY DEF MarkOutboxPublished
<1>2. e \in Logged /\ e \in Events /\ seqOf[e] # 0
  BY <1>1 DEF TypeOK, Logged
<1>3. /\ hand'[c] = None /\ cpc'[c] \in {"idle", "publishing"} /\ e \notin batch'[c]
      /\ \A d \in Consumers \ {c} : hand'[d] = hand[d] /\ cpc'[d] = cpc[d]
      /\ \A d \in Consumers : batch'[d] \subseteq batch[d]
      /\ batch' \in [Consumers -> SUBSET Logged]
      /\ hand' \in [Consumers -> Logged \cup {None}]
      /\ cpc' \in [Consumers -> {"idle", "publishing", "marking"}]
  BY <1>1 DEF Advance, TypeOK
<1>4. /\ outbox'[e] = "published" /\ \A f \in Events \ {e} : outbox'[f] = outbox[f]
      /\ outbox' \in [Events -> {"none", "pending", "published"}]
  BY <1>1, <1>2 DEF TypeOK
<1>5. TypeOK'
  <2>1. \A d \in Consumers : cpc'[d] = "marking" <=> hand'[d] # None
    BY <1>3 DEF TypeOK
  <2>2. \A f \in Events : outbox'[f] = "none" <=> seqOf[f] = 0
    BY <1>2, <1>4 DEF TypeOK
  <2> QED BY <1>1, <1>3, <1>4, <2>1, <2>2 DEF TypeOK, calls, readers, Logged, Finished
<1>6. DrainInv'
  <2>1. pubs[c][e] > 0
    BY <1>2 DEF DrainInv
  <2>2. \A f \in Events : outbox'[f] = "published" => \E d \in Consumers : pubs[d][f] > 0
    BY <1>4, <2>1 DEF DrainInv, RepublishedForAReason
  <2>3. \A d \in Consumers, f \in Events : hand'[d] = f => pubs[d][f] > 0
    BY <1>3, OutboxConstants DEF DrainInv
  <2>4. ASSUME NEW d \in Consumers, NEW f \in Events, hand'[d] # f,
               outbox'[f] # "published" \/ f \in batch'[d]
        PROVE  Settled(d, f)
    <3>1. hand[d] # f
      BY <1>3, <1>4, <2>4
    <3>2. outbox[f] # "published" \/ f \in batch[d]
      BY <1>3, <1>4, <2>4
    <3> QED BY <3>1, <3>2 DEF DrainInv
  <2>5. \A d \in Consumers, f \in Events : pubs[d][f] <= unmarked[d][f] + 1
    BY DEF DrainInv, RepublishedForAReason
  <2>6. UNCHANGED <<pubs, unmarked>>
    BY <1>1
  <2> QED BY <2>2, <2>3, <2>4, <2>5, <2>6 DEF DrainInv, RepublishedForAReason, Settled
<1> QED BY <1>1, <1>5, <1>6

\* A consumer that lets go of the record in its hand, marked by nobody.
LetGo(c) == /\ hand' = [hand EXCEPT ![c] = None]
            /\ unmarked' = IF hand[c] = None THEN unmarked
                           ELSE [unmarked EXCEPT ![c][hand[c]] = @ + 1]
            /\ batch'[c] \subseteq batch[c] /\ cpc'[c] \in {"idle", "publishing"}
            /\ batch' = [batch EXCEPT ![c] = batch'[c]] /\ cpc' = [cpc EXCEPT ![c] = cpc'[c]]
            /\ UNCHANGED <<log, calls, pubs, readers>> /\ faults' \in 0..MaxFaults

LEMMA LetGoKeeps ==
  ASSUME TypeOK, DrainInv, NEW c \in Consumers, LetGo(c) PROVE TypeOK' /\ DrainInv'
<1>1. /\ hand'[c] = None /\ \A d \in Consumers \ {c} : hand'[d] = hand[d] /\ cpc'[d] = cpc[d]
      /\ \A d \in Consumers : batch'[d] \subseteq batch[d]
      /\ cpc'[c] \in {"idle", "publishing"}
  BY DEF LetGo, TypeOK
<1>2. /\ batch' \in [Consumers -> SUBSET Logged]
      /\ hand' \in [Consumers -> Logged \cup {None}]
      /\ cpc' \in [Consumers -> {"idle", "publishing", "marking"}]
      /\ unmarked' \in [Consumers -> [Events -> Nat]]
  <2>1. hand[c] # None => hand[c] \in Events
    BY DEF TypeOK, Logged
  <2>2. batch'[c] \in SUBSET Logged
    BY DEF LetGo, TypeOK
  <2>3. batch' \in [Consumers -> SUBSET Logged]
    BY <2>2 DEF LetGo, TypeOK
  <2>4. hand' \in [Consumers -> Logged \cup {None}]
    BY DEF LetGo, TypeOK
  <2>5. cpc' \in [Consumers -> {"idle", "publishing", "marking"}]
    BY DEF LetGo, TypeOK
  <2>6. unmarked' \in [Consumers -> [Events -> Nat]]
    BY <2>1 DEF LetGo, TypeOK
  <2> QED BY <2>3, <2>4, <2>5, <2>6
<1>3. /\ \A d \in Consumers, f \in Events : unmarked'[d][f] >= unmarked[d][f]
      /\ \A f \in Events : hand[c] = f => unmarked'[c][f] = unmarked[c][f] + 1
  BY OutboxConstants DEF LetGo, TypeOK
<1>4. UNCHANGED <<seqOf, outbox, pubs>>
  BY DEF LetGo, log
<1>5. TypeOK'
  <2>1. \A d \in Consumers : cpc'[d] = "marking" <=> hand'[d] # None
    BY <1>1 DEF TypeOK
  <2>2. SideTypes'
    BY <1>2, <1>4, <2>1 DEF LetGo, TypeOK, SideTypes, readers, Logged
  <2> QED BY <2>2, ConsumerTypes DEF LetGo
<1>6. DrainInv'
  <2>1. \A d \in Consumers, f \in Events : /\ pubs[d][f] \in Nat /\ unmarked[d][f] \in Nat
                                          /\ unmarked'[d][f] \in Nat
    BY <1>2 DEF TypeOK
  <2>2. \A d \in Consumers, f \in Events : pubs[d][f] <= unmarked'[d][f] + 1
    BY <1>3, <2>1 DEF DrainInv, RepublishedForAReason
  <2>3. \A d \in Consumers, f \in Events : hand'[d] = f => pubs[d][f] > 0
    BY <1>1, OutboxConstants DEF DrainInv
  <2>4. ASSUME NEW d \in Consumers, NEW f \in Events,
               outbox[f] # "published" \/ f \in batch'[d], hand'[d] # f
        PROVE  pubs[d][f] <= unmarked'[d][f]
    <3>1. CASE hand[d] # f
      <4>1. pubs[d][f] <= unmarked[d][f]
        BY <1>1, <2>4, <3>1 DEF DrainInv, Settled
      <4> QED BY <4>1, <1>3, <2>1
    <3>2. CASE hand[d] = f
      <4>1. d = c
        BY <1>1, <2>4, <3>2
      <4>2. unmarked'[c][f] = unmarked[c][f] + 1 /\ pubs[c][f] <= unmarked[c][f] + 1
        BY <4>1, <1>3, <3>2 DEF DrainInv, RepublishedForAReason
      <4> QED BY <4>1, <4>2
    <3> QED BY <3>1, <3>2
  <2> QED BY <1>4, <2>2, <2>3, <2>4 DEF DrainInv, RepublishedForAReason, Settled
<1> QED BY <1>5, <1>6

LEMMA ConsumerKeeps ==
  ASSUME Inv, NEW c \in Consumers, ConsumerStep(c) PROVE Inv'
<1>1. TypeOK /\ DrainInv
  BY DEF Inv
<1>2. ASSUME MarkFails(c) \/ Crash(c) PROVE LetGo(c)
  <2>1. UNCHANGED <<log, calls, pubs, readers>> /\ faults' \in 0..MaxFaults
    BY <1>1, <1>2, OutboxConstants DEF MarkFails, Crash, Fault, TypeOK
  <2>2. CASE MarkFails(c)
    <3>1. /\ batch' = [batch EXCEPT ![c] = @ \ {hand[c]}] /\ hand[c] # None
          /\ cpc' = [cpc EXCEPT ![c] = IF batch[c] \subseteq {hand[c]} THEN "idle" ELSE "publishing"]
      BY <2>2, <1>1 DEF MarkFails, Advance, TypeOK
    <3> QED BY <3>1, <2>1, <2>2, <1>1 DEF MarkFails, LetGo, TypeOK
  <2>3. CASE Crash(c)
    BY <2>1, <2>3, <1>1 DEF Crash, LetGo, TypeOK
  <2> QED BY <1>2, <2>2, <2>3
<1>3. TypeOK' /\ DrainInv'
  BY <1>1, <1>2, ListPendingKeeps, PublishKeeps, PublishFailsKeeps, MarkOutboxPublishedKeeps,
     LetGoKeeps DEF ConsumerStep, Drain
<1>4. UNCHANGED <<nextSeq, seqOf, overtaken, calls, readers>>
  <2>1. CASE MarkOutboxPublished(c)
    BY <2>1 DEF MarkOutboxPublished
  <2>2. CASE ListPending(c) \/ Publish(c) \/ PublishFails(c) \/ MarkFails(c) \/ Crash(c)
    BY <2>2 DEF ListPending, Publish, PublishFails, MarkFails, Crash, log
  <2> QED BY <2>1, <2>2 DEF ConsumerStep, Drain
<1>5. CallInv'
  BY <1>4, CallsUntouched DEF Inv
<1>6. ReadInv'
  BY <1>4 DEF Inv, ReadInv, MissedOnlyOvertaken, Logged, readers
<1> QED BY <1>3, <1>5, <1>6 DEF Inv

-----------------------------------------------------------------------------
(* Clients.                                                                *)

LEMMA ReplayKeeps ==
  ASSUME Inv, NEW r \in Readers, Replay(r) PROVE Inv'
<1>1. PICK e \in Fresh(r) : /\ cursor' = [cursor EXCEPT ![r] = seqOf[e]]
                            /\ seen' = [seen EXCEPT ![r] = @ \cup UpTo(Fresh(r), e)]
                            /\ UNCHANGED <<log, calls, drains, faults>>
  BY DEF Replay
<1>2. /\ TypeOK /\ e \in Logged /\ e \in Events /\ seqOf[e] \in Nat
      /\ Fresh(r) \subseteq Logged /\ UpTo(Fresh(r), e) \subseteq Logged
  BY DEF Inv, TypeOK, Fresh, UpTo, Logged
<1>3. UNCHANGED <<nextSeq, seqOf, outbox, overtaken, batch, hand, cpc, pubs, unmarked, calls>>
  BY <1>1 DEF log, drains
<1>4. /\ cursor' \in [Readers -> Nat] /\ seen' \in [Readers -> SUBSET Logged]
      /\ cursor'[r] = seqOf[e] /\ seen'[r] = seen[r] \cup UpTo(Fresh(r), e)
      /\ \A q \in Readers \ {r} : cursor'[q] = cursor[q] /\ seen'[q] = seen[q]
  BY <1>1, <1>2 DEF TypeOK
<1>5. TypeOK'
  <2>1. SideTypes'
    BY <1>2, <1>3, <1>4 DEF TypeOK, SideTypes, Logged
  <2> QED BY <2>1, <1>1, <1>2, ConsumerTypes DEF TypeOK
<1>6. CallInv' /\ DrainInv'
  BY <1>3, CallsUntouched DEF Inv, DrainInv, RepublishedForAReason, Settled
<1>7. ASSUME NEW q \in Readers, NEW f \in Logged, seqOf[f] <= cursor'[q]
      PROVE  f \in seen'[q] \/ f \in overtaken
  <2>1. CASE q # r
    BY <2>1, <1>4, <1>7 DEF Inv, ReadInv, MissedOnlyOvertaken
  <2>2. CASE q = r /\ seqOf[f] <= cursor[r]
    BY <2>2, <1>4 DEF Inv, ReadInv, MissedOnlyOvertaken
  <2>3. CASE q = r /\ seqOf[f] > cursor[r]
    BY <2>3, <1>4, <1>7 DEF Fresh, UpTo
  <2>4. seqOf[f] \in Nat /\ cursor[r] \in Nat
    BY <1>2 DEF TypeOK, Logged
  <2> QED BY <2>1, <2>2, <2>3, <2>4
<1>8. ASSUME NEW q \in Readers, cursor'[q] # 0
      PROVE  \E f \in Events : seqOf[f] = cursor'[q]
  BY <1>2, <1>4, <1>8 DEF Inv, ReadInv
<1>9. ReadInv'
  BY <1>3, <1>7, <1>8 DEF ReadInv, MissedOnlyOvertaken, Logged
<1> QED BY <1>5, <1>6, <1>9 DEF Inv

-----------------------------------------------------------------------------
(* Theorems.                                                               *)

LEMMA Inductive == Inv /\ [Next]_vars => Inv'
<1> SUFFICES ASSUME Inv, [Next]_vars PROVE Inv'
  OBVIOUS
<1>1. CASE Next
  BY <1>1, CallKeeps, ConsumerKeeps, ReplayKeeps DEF Next
<1>2. CASE UNCHANGED vars
  <2>1. TypeOK'
    BY <1>2 DEF Inv, TypeOK, vars, log, calls, drains, readers, Logged, Finished
  <2>2. CallInv'
    BY <1>2, CallsUntouched DEF Inv, vars, log
  <2>3. DrainInv' /\ ReadInv'
    BY <1>2 DEF Inv, DrainInv, RepublishedForAReason, Settled, ReadInv, MissedOnlyOvertaken,
                vars, log, drains, readers, Logged
  <2> QED BY <2>1, <2>2, <2>3 DEF Inv
<1> QED BY <1>1, <1>2

\* The invariant the theorems below are read off from.
THEOREM Invariance == Spec => []Inv
<1> QED BY InitInv, Inductive, PTL DEF Spec

\* The state of the log, its calls, consumers and clients keeps its shape: an
\* event has an outbox row exactly when it has a log row.
THEOREM TypeCorrect == Spec => []TypeOK
BY Invariance, PTL DEF Inv

\* appendEvent never answers with a cursor other than the event's, and
\* publishNewEvents logs a prefix of its plan by rising cursors, although calls
\* that share it overlap, fail, are repeated and commit in any order.
THEOREM AppendsHold == Spec => []AppendsStand
BY Invariance, PTL DEF Inv, CallInv, AppendsStand

\* drainPending publishes at most once per consumer beyond the marks that failed
\* or were cut off, and never marks what nobody published.
THEOREM PublishedForAReason == Spec => []RepublishedForAReason
BY Invariance, PTL DEF Inv, DrainInv

\* replayEvents withholds from a client that follows its cursor only the events
\* that were committed out of the order of their numbers.
THEOREM MissesOnlyOvertaken == Spec => []MissedOnlyOvertaken
BY Invariance, PTL DEF Inv, ReadInv

-----------------------------------------------------------------------------
(***************************************************************************)
(* Part 2. The aggregates, their contracts, policies and rows              *)
(*                                                                         *)
(* What the transition tables and the calls make of an aggregate, kind by  *)
(* kind: which events lie behind each status, which data comes with it,    *)
(* and after what its last event was.                                      *)
(***************************************************************************)
\* An aggregate: a record of the eight fields New gives one, and not Throws.
IsAgg(a) ==
  /\ a = [kind |-> a.kind, status |-> a.status, has |-> a.has, items |-> a.items,
          attempt |-> a.attempt, events |-> a.events, news |-> a.news, was |-> a.was]
  /\ a.kind # "none"

\* What has happened to an aggregate, its last event included.
Happening(a) == a.events \cup {a.news}

\* It has nothing of what only some kinds have.
Bare(a) == a.items = << >> /\ a.attempt = 0

GoodInstance(a) ==
  /\ IsAgg(a) /\ a.kind = "Instance"
  /\ Bare(a)
  /\ a.status \in DOMAIN InstanceTransitions
  /\ Happening(a) \subseteq DOMAIN InstanceContracts
  /\ a.has \subseteq {"currentSessionId", "actionRequiredReason"}
  /\ "InstanceCreated" \in Happening(a)
  /\ a.status \notin {"created", "connecting", "destroyed"} => "connecting" \in a.was
  /\ "InstanceDestroyed" \in Happening(a) => a.status = "destroyed"
  /\ a.status = "connected" => a.has = {"currentSessionId"}
  /\ a.status \in {"disconnected", "logged_out", "destroyed"} => "currentSessionId" \notin a.has
  /\ a.status \in {"logged_out", "action_required"} => "actionRequiredReason" \in a.has
  /\ a.news = "InstanceCreated" => a.events = {}
  /\ a.news \in {"InstanceQrRequired", "InstanceConnected", "InstanceDisconnected",
                 "InstanceLoggedOut"} => "connecting" \in a.was
  /\ a.news = "InstanceConnected" => "InstanceCreated" \in a.events
  /\ "InstanceDestroyed" \in a.events => a.news = "InstanceDestroyed"

GoodSession(a) ==
  LET paired == {"SessionPairingStarted", "SessionPending"} IN
  /\ IsAgg(a) /\ a.kind = "Session"
  /\ Bare(a)
  /\ a.status \in DOMAIN SessionTransitions
  /\ Happening(a) \subseteq DOMAIN SessionContracts \cup {NoEvent}
  /\ a.has \subseteq {"requiresRecovery", "retentionPolicy"}
  /\ a.status \in {"pending", "active", "expired", "revoked"} => paired \cap Happening(a) # {}
  /\ a.status \in {"expired", "revoked"} => "requiresRecovery" \in a.has
  /\ a.news \in {"SessionActivated", "SessionExpired", "SessionRevoked"}
        => paired \cap a.events # {}
  /\ "SessionRevoked" \in Happening(a) => a.status \in {"revoked", "cleanup"}
  /\ a.news \in paired => "SessionRevoked" \notin a.events

GoodMessage(a) ==
  LET dispatched == {"processing", "sent", "delivered", "read"} IN
  /\ IsAgg(a) /\ a.kind = "Message"
  /\ Bare(a)
  /\ a.status \in DOMAIN MessageTransitions
  /\ Happening(a) \subseteq DOMAIN MessageContracts \cup {NoEvent}
  /\ a.has \subseteq {"outbound", "inbound", "guardrailDecisionId", "failureCategory"}
  /\ a.status \in {"evaluated", "queued"} \cup dispatched
        => /\ "MessageAccepted" \in Happening(a)
           /\ {"outbound", "guardrailDecisionId"} \subseteq a.has
  /\ a.status \in {"queued"} \cup dispatched => "MessageQueued" \in Happening(a)
  /\ a.status \in dispatched => "MessageProcessingStarted" \in Happening(a)
  /\ a.status = "failed" => "failureCategory" \in a.has
  /\ {"MessageDelivered", "MessageRead"} \cap Happening(a) # {}
        => a.status \in {"delivered", "read"}
  /\ a.news = "MessageQueued" => "MessageAccepted" \in a.events
  /\ a.news = "MessageProcessingStarted" => "MessageQueued" \in a.events
  /\ a.news \in {"MessageDispatched", "MessageDelivered", "MessageRead"}
        => "MessageProcessingStarted" \in a.events
  /\ "MessageRead" \in Happening(a) => a.status = "read"
  /\ "MessageCancelled" \in Happening(a) => a.status = "cancelled"
  /\ a.news \in {"MessageRejected", "MessageFailed"} => a.status = "failed"
  /\ a.status = "read" => a.news = "MessageRead"
  /\ a.status = "cancelled" => a.news = "MessageCancelled"

GoodMediaAsset(a) ==
  /\ IsAgg(a) /\ a.kind = "MediaAsset"
  /\ Bare(a)
  /\ a.status \in DOMAIN MediaAssetTransitions
  /\ Happening(a) \subseteq DOMAIN MediaAssetContracts \cup {NoEvent}
  /\ a.status \in {"accepted", "processing", "processed", "attached"}
        => "MediaAccepted" \in Happening(a)
  /\ a.status \in {"processing", "processed", "attached"}
        => "MediaProcessingStarted" \in Happening(a)
  /\ a.status \in {"processed", "attached"} => "MediaProcessed" \in Happening(a)
  /\ a.status = "attached" => "messageId" \in a.has
  /\ a.news = "MediaProcessingStarted" => "MediaAccepted" \in a.events
  /\ a.news = "MediaProcessed" => "MediaProcessingStarted" \in a.events
  /\ a.news = "MediaAttached" => "MediaProcessed" \in a.events
  /\ "MediaAttached" \in Happening(a) => a.status \in {"attached", "cleaned"}
  /\ "MediaCleaned" \in Happening(a) => a.status = "cleaned"
  /\ a.status = "cleaned" => a.news = "MediaCleaned"
  /\ a.news = "MediaFailed" => a.status = "failed"

GoodGroup(a) ==
  /\ IsAgg(a) /\ a.kind = "Group"
  /\ a.attempt = 0
  /\ a.items \in Seq([jid : Jids, role : Roles])
  /\ Unique(a.items, JidOf)
  /\ a.status \in DOMAIN GroupTransitions
  /\ Happening(a) \subseteq DOMAIN GroupContracts
  /\ "GroupDiscovered" \in Happening(a)
  /\ a.news = "GroupDiscovered" => a.events = {}
  /\ a.news = "GroupStatusUpdated" => "GroupDiscovered" \in a.events
  /\ a.news \notin {"GroupDiscovered", "GroupStatusUpdated"} => a.status = "active"

Eventless(a) == a.attempt = 0 /\ a.events = {} /\ a.news = NoEvent

GoodChat(a) ==
  /\ IsAgg(a) /\ a.kind = "Chat"
  /\ Eventless(a)
  /\ a.items \in Seq(LabelIds)
  /\ Unique(a.items, Itself)
  /\ a.status \in ChatStatuses

GoodContact(a) ==
  /\ IsAgg(a) /\ a.kind = "Contact"
  /\ Eventless(a)
  /\ a.status \in {"discovered"} \cup ContactChanges
GoodLabel(a) ==
  /\ IsAgg(a) /\ a.kind = "Label"
  /\ Eventless(a)
  /\ a.status \in {"active"} \cup LabelChanges

GoodWebhookSubscription(a) ==
  /\ IsAgg(a) /\ a.kind = "WebhookSubscription"
  /\ Bare(a)
  /\ a.status \in DOMAIN WebhookSubscriptionTransitions
  /\ Happening(a) \subseteq DOMAIN WebhookSubscriptionContracts
  /\ a.has = {}
  /\ a.status \in {"validated", "active", "suspended"}
        => "WebhookSubscriptionValidated" \in Happening(a)
  /\ a.status \in {"active", "suspended"} => "WebhookSubscriptionActivated" \in Happening(a)
  /\ a.status = "invalid" => "WebhookSubscriptionInvalidated" \in Happening(a)
  /\ "WebhookSubscriptionRetired" \in Happening(a) => a.status = "retired"
  /\ a.news = "WebhookSubscriptionProposed" => a.events = {}
  /\ a.news = "WebhookSubscriptionActivated" => "WebhookSubscriptionValidated" \in a.events
  /\ a.news = "WebhookSubscriptionSuspended" => "WebhookSubscriptionActivated" \in a.events
  /\ "WebhookSubscriptionRetired" \in a.events => a.news = "WebhookSubscriptionRetired"
  /\ "WebhookSubscriptionActivated" \in Happening(a)
        => \/ a.status \in {"active", "suspended", "invalid", "retired"}
           \/ "WebhookSubscriptionInvalidated" \in Happening(a)
  /\ a.news = "WebhookSubscriptionValidated" => a.status = "validated"
  /\ a.news = "WebhookSubscriptionInvalidated" => a.status = "invalid"

GoodWebhookDelivery(a) ==
  /\ IsAgg(a) /\ a.kind = "WebhookDelivery"
  /\ a.items = << >>
  /\ a.attempt \in Nat
  /\ a.status \in DOMAIN WebhookDeliveryTransitions
  /\ Happening(a) \subseteq DOMAIN WebhookDeliveryContracts
  /\ a.has \subseteq {"failureCategory", "deadLetterReason"}
  /\ "WebhookDeliveryScheduled" \in Happening(a)
  /\ a.status \in {"delivering", "delivered", "retrying"}
        => "WebhookDeliveryStarted" \in Happening(a) /\ a.attempt > 0
  /\ a.status = "retrying" => a.attempt <= MaxAttempts
  /\ a.status = "dead_letter" => {"deadLetterReason", "failureCategory"} \subseteq a.has
  /\ "WebhookDeliverySucceeded" \in Happening(a) => a.status = "delivered"
  /\ "WebhookDeliveryFailed" \in Happening(a) => a.status = "failed"
  /\ "WebhookDeliveryDeadLettered" \in Happening(a) => a.status = "dead_letter"
  /\ a.news = "WebhookDeliveryStarted" => "WebhookDeliveryScheduled" \in a.events
  /\ a.news = "WebhookDeliverySucceeded" => "WebhookDeliveryStarted" \in a.events
  /\ a.news = "WebhookDeliveryRetryScheduled" => "WebhookDeliveryStarted" \in a.events
  /\ "WebhookDeliveryCancelled" \in Happening(a) => a.status = "cancelled"
  /\ "WebhookDeliverySucceeded" \in a.events => a.news = "WebhookDeliverySucceeded"
  /\ "WebhookDeliveryDeadLettered" \in a.events => a.news = "WebhookDeliveryDeadLettered"
  /\ a.status = "failed" => a.news = "WebhookDeliveryFailed"
  /\ a.status = "cancelled" => a.news = "WebhookDeliveryCancelled"

GoodWorkerJob(a) ==
  /\ IsAgg(a) /\ a.kind = "WorkerJob"
  /\ a.items = << >>
  /\ a.attempt \in Nat
  /\ a.status \in DOMAIN WorkerJobTransitions
  /\ Happening(a) \subseteq DOMAIN WorkerJobContracts
  /\ a.has \subseteq {"failureCategory", "deadLetterReason", "recoveryActionRequired"}
  /\ "WorkerJobQueued" \in Happening(a)
  /\ a.status \in {"reserved", "running", "completed"} => "WorkerJobReserved" \in Happening(a)
  /\ a.status \in {"running", "completed"} => "WorkerJobStarted" \in Happening(a)
  /\ a.status \in {"reserved", "running", "completed", "retrying"} => a.attempt > 0
  /\ a.status = "retrying" => a.attempt <= MaxAttempts
  /\ a.status = "dead" => {"deadLetterReason", "failureCategory"} \subseteq a.has
  /\ "WorkerJobCompleted" \in Happening(a) => a.status = "completed"
  /\ a.news = "WorkerJobQueued" => a.events = {}
  /\ a.news = "WorkerJobReserved" => "WorkerJobQueued" \in a.events
  /\ a.news = "WorkerJobStarted" => "WorkerJobReserved" \in a.events
  /\ a.news = "WorkerJobCompleted" => "WorkerJobStarted" \in a.events
  /\ "WorkerJobCompleted" \in a.events
        => a.news \in {"WorkerJobCompleted", "WorkerJobRecoveryRequired"}
  /\ "WorkerJobDead" \in Happening(a) => a.status = "dead"
  /\ "WorkerJobDead" \in a.events
        => a.news \in {"WorkerJobDead", "WorkerJobRecoveryRequired"}
  /\ a.news = "WorkerJobRetryScheduled" => a.status = "retrying"

GoodGuardrailDecision(a) ==
  LET outcomes == {"GuardrailPassed", "GuardrailBlocked", "GuardrailThrottled",
                   "GuardrailActionRequired"} IN
  /\ IsAgg(a) /\ a.kind = "GuardrailDecision"
  /\ Bare(a)
  /\ a.status \in {"requested", "evaluated", "passed", "blocked", "throttled",
                   "action_required"}
  /\ Happening(a) \subseteq DOMAIN GuardrailDecisionContracts \cup {NoEvent}
  /\ a.has \subseteq GuardrailOutcomes
  /\ a.status \in {"requested", "evaluated"}
        => a.has = {} /\ \A e \in outcomes : e \notin Happening(a)
  /\ a.status = "passed" <=> "allow" \in a.has
  /\ "GuardrailPassed" \in Happening(a) => a.status = "passed"
  /\ "GuardrailBlocked" \in Happening(a) => a.status = "blocked"
  /\ "GuardrailThrottled" \in Happening(a) => a.status = "throttled"
  /\ "GuardrailActionRequired" \in Happening(a) => a.status = "action_required"
  /\ a.news = "GuardrailEvaluated" => \A e \in outcomes : e \notin a.events

GoodAccessDecision(a) ==
  /\ IsAgg(a) /\ a.kind = "AccessDecision"
  /\ Bare(a)
  /\ a.status \in DOMAIN AccessDecisionTransitions
  /\ Happening(a) \subseteq DOMAIN AccessDecisionContracts \cup {NoEvent}
  /\ a.status \in {"requested", "granted"}
        => /\ "denied" \notin a.has
           /\ "AccessDenied" \notin Happening(a)
           /\ "AccessDecisionExpired" \notin Happening(a)
  /\ a.status \in {"requested", "denied"} => "granted" \notin a.has
  /\ a.status = "granted" => "AccessGranted" \in Happening(a)
  /\ "granted" \notin a.has \/ "denied" \notin a.has
  /\ "auditEligible" \in a.has => "PrivilegedActionMarked" \in Happening(a)

GoodAuditRecord(a) ==
  /\ IsAgg(a) /\ a.kind = "AuditRecord"
  /\ Bare(a)
  /\ a.status \in DOMAIN AuditRecordTransitions
  /\ Happening(a) \subseteq DOMAIN AuditRecordContracts
  /\ "AuditRecordRequested" \in Happening(a)
  /\ a.status \in {"recorded", "retained"} => "evidenceSummaryCode" \in a.has
  /\ a.news = "AuditRecorded" => "AuditRecordRequested" \in a.events

GoodTelemetrySignal(a) ==
  /\ IsAgg(a) /\ a.kind = "TelemetrySignal"
  /\ Bare(a)
  /\ a.status \in DOMAIN TelemetrySignalTransitions
  /\ Happening(a) \subseteq DOMAIN TelemetrySignalContracts
  /\ "TelemetryCaptured" \in Happening(a)
  /\ a.status # "captured" => "redacted" \in a.has
  /\ a.status \in {"sanitized", "projected"} => "TelemetrySanitized" \in Happening(a)
  /\ "TelemetryProjected" \in Happening(a) => a.status = "projected"
  /\ a.news = "TelemetryCaptured" => a.events = {}
  /\ a.news \in {"TelemetrySanitized", "TelemetryDropped"} => "TelemetryCaptured" \in a.events
  /\ a.news = "TelemetryProjected" => "TelemetrySanitized" \in a.events
  /\ "TelemetryProjected" \in a.events => a.news = "TelemetryProjected"
  /\ "TelemetryDropped" \in Happening(a) => a.status = "dropped"
  /\ a.status = "dropped" => a.news = "TelemetryDropped"

GoodHealthStatus(a) ==
  /\ IsAgg(a) /\ a.kind = "HealthStatus"
  /\ Bare(a)
  /\ a.status \in {"unknown", "healthy", "degraded", "unavailable", "action_required",
                   "recovered"}
  /\ Happening(a) \subseteq DOMAIN HealthStatusContracts \cup {NoEvent}

GoodConfigurationSnapshot(a) ==
  /\ IsAgg(a) /\ a.kind = "ConfigurationSnapshot"
  /\ Bare(a)
  /\ a.status \in DOMAIN ConfigurationSnapshotTransitions
  /\ Happening(a) \subseteq DOMAIN ConfigurationSnapshotContracts \cup {NoEvent}
  /\ a.status \in {"validated", "active", "superseded"}
        => "valid" \in a.has /\ "ConfigurationValidated" \in Happening(a)
  /\ a.status = "rejected" => "auditEligible" \in a.has
  /\ a.status \in {"active", "superseded"} => "ConfigurationActivated" \in Happening(a)
  /\ "ConfigurationActivated" \in Happening(a) => a.status \in {"active", "superseded"}
  /\ a.news = "ConfigurationValidated" => "ConfigurationActivated" \notin a.events
  /\ a.news = "ConfigurationActivated" => "ConfigurationValidated" \in a.events
  /\ a.news = "ConfigurationSuperseded" => "ConfigurationActivated" \in a.events
  /\ "valid" \notin a.has \/ "guardrail_bypass_rejected" \notin a.has
  /\ "ConfigurationValidated" \in Happening(a) => "valid" \in a.has
  /\ a.news = "ConfigurationRejected" => a.status = "rejected"
  /\ a.news = "ConfigurationGuardrailBypassRejected" => "guardrail_bypass_rejected" \in a.has

GoodProviderProfile(a) ==
  /\ IsAgg(a) /\ a.kind = "ProviderProfile"
  /\ Bare(a)
  /\ a.status \in DOMAIN ProviderProfileTransitions
  /\ Happening(a) \subseteq DOMAIN ProviderProfileContracts \cup {NoEvent}
  /\ "text" \in a.has => "ProviderProfileSupported" \in Happening(a)
  /\ "ProviderProfileUnsupported" \in Happening(a) => a.status \in {"unsupported", "retired"}
  /\ a.news = "ProviderProfileDegraded" => "ProviderProfileUnsupported" \notin a.events

\* Every aggregate, by its kind.
GoodAggregate(a) ==
  \/ GoodInstance(a)
  \/ GoodSession(a)
  \/ GoodMessage(a)
  \/ GoodMediaAsset(a)
  \/ GoodGroup(a)
  \/ GoodChat(a)
  \/ GoodContact(a)
  \/ GoodLabel(a)
  \/ GoodWebhookSubscription(a)
  \/ GoodWebhookDelivery(a)
  \/ GoodWorkerJob(a)
  \/ GoodGuardrailDecision(a)
  \/ GoodAccessDecision(a)
  \/ GoodAuditRecord(a)
  \/ GoodTelemetrySignal(a)
  \/ GoodHealthStatus(a)
  \/ GoodConfigurationSnapshot(a)
  \/ GoodProviderProfile(a)

-----------------------------------------------------------------------------
(***************************************************************************)
(* What one call does, whatever the kind.                                  *)
(***************************************************************************)
\* What is left of an aggregate's past, and added to it, by a call.
Becomes(a, b, status, has, event) ==
  /\ IsAgg(b)
  /\ b.kind = a.kind
  /\ b.status = status
  /\ b.has = has
  /\ event = NoEvent => b.events = a.events /\ b.news = a.news
  /\ event # NoEvent => b.events = a.events \cup ({a.news} \ {NoEvent}) /\ b.news = event

Same(a, b) == b.items = a.items /\ b.attempt = a.attempt

\* An aggregate is not a refusal.
LEMMA AggIsNoThrow ==
  ASSUME NEW a, IsAgg(a)
  PROVE  a # Throws
BY DEF IsAgg, Throws, New

\* An event told is the news, and what was news is history.
LEMMA EmitBecomes ==
  ASSUME NEW a, IsAgg(a), NEW event, event # NoEvent
  PROVE  LET b == Emit(a, event) IN
         Becomes(a, b, a.status, a.has, event) /\ Same(a, b) /\ b.was = a.was
<1> DEFINE b == Emit(a, event)
<1>1. b = [kind |-> a.kind, status |-> a.status, has |-> a.has, items |-> a.items,
           attempt |-> a.attempt, events |-> a.events \cup ({a.news} \ {NoEvent}),
           news |-> event, was |-> a.was]
  <2> DEFINE c == [a EXCEPT !.events = a.events \cup ({a.news} \ {NoEvent})]
  <2>1. c = [kind |-> a.kind, status |-> a.status, has |-> a.has, items |-> a.items,
             attempt |-> a.attempt, events |-> a.events \cup ({a.news} \ {NoEvent}),
             news |-> a.news, was |-> a.was]
    BY DEF IsAgg
  <2>2. b = [c EXCEPT !.news = event]
    BY DEF Emit
  <2> HIDE DEF b, c
  <2> QED BY <2>1, <2>2
<1> HIDE DEF b
<1>2. IsAgg(b)
  BY <1>1 DEF IsAgg
<1> QED BY <1>1, <1>2 DEF Becomes, Same, b

\* A call may have nothing to tell.
LEMMA NotingBecomes ==
  ASSUME NEW a, IsAgg(a), NEW event
  PROVE  LET b == Noting(a, event) IN
         Becomes(a, b, a.status, a.has, event) /\ Same(a, b) /\ b.was = a.was
BY EmitBecomes DEF Noting, Becomes, Same

\* Another status, and what was one is kept.
LEMMA Restated ==
  ASSUME NEW a, IsAgg(a), NEW status, NEW has
  PROVE  LET d == [a EXCEPT !.status = status, !.was = a.was \cup {a.status}, !.has = has] IN
         /\ IsAgg(d) /\ d.kind = a.kind /\ d.status = status /\ d.has = has
         /\ d.events = a.events /\ d.news = a.news /\ d.was = a.was \cup {a.status}
         /\ Same(a, d)
<1> DEFINE d1 == [a EXCEPT !.status = status]
           d2 == [d1 EXCEPT !.was = a.was \cup {a.status}]
           d  == [a EXCEPT !.status = status, !.was = a.was \cup {a.status}, !.has = has]
<1>1. d1 = [kind |-> a.kind, status |-> status, has |-> a.has, items |-> a.items,
            attempt |-> a.attempt, events |-> a.events, news |-> a.news, was |-> a.was]
  BY DEF IsAgg
<1>2. d = [d2 EXCEPT !.has = has]
  OBVIOUS
<1> HIDE DEF d, d1
<1>3. d2 = [kind |-> a.kind, status |-> status, has |-> a.has, items |-> a.items,
            attempt |-> a.attempt, events |-> a.events, news |-> a.news,
            was |-> a.was \cup {a.status}]
  BY <1>1
<1> HIDE DEF d2
<1>4. d = [kind |-> a.kind, status |-> status, has |-> has, items |-> a.items,
           attempt |-> a.attempt, events |-> a.events, news |-> a.news,
           was |-> a.was \cup {a.status}]
  BY <1>2, <1>3
<1>5. IsAgg(d)
  BY <1>4 DEF IsAgg
<1> QED BY <1>4, <1>5 DEF Same, d

\* transitionStatus moves an aggregate where its table lets it, or throws.
LEMMA TransitionBecomes ==
  ASSUME NEW a, IsAgg(a), NEW next, NEW table, NEW event, NEW sets, NEW clears
  PROVE  LET b == Transition(a, next, table, event, sets, clears) IN
         /\ b # Throws => next = a.status \/ next \in table[a.status]
         /\ next = a.status \/ next \in table[a.status] => b # Throws
         /\ b # Throws => /\ Becomes(a, b, next, (a.has \ clears) \cup sets, event)
                          /\ Same(a, b)
                          /\ b.was = a.was \cup {a.status}
<1> DEFINE has == (a.has \ clears) \cup sets
           d == [a EXCEPT !.status = next, !.was = a.was \cup {a.status}, !.has = has]
           c == Noting(d, event)
           b == Transition(a, next, table, event, sets, clears)
           allowed == next = a.status \/ next \in table[a.status]
<1>1. b = IF allowed THEN c ELSE Throws
  BY DEF Transition
<1> HIDE DEF has
<1>2. /\ IsAgg(d) /\ d.kind = a.kind /\ d.status = next /\ d.has = has
      /\ d.events = a.events /\ d.news = a.news /\ d.was = a.was \cup {a.status}
      /\ Same(a, d)
  BY Restated
<1> HIDE DEF d
<1>3. Becomes(d, c, d.status, d.has, event) /\ Same(d, c) /\ c.was = d.was
  BY <1>2, NotingBecomes
<1> HIDE DEF c
<1>4. c # Throws
  BY <1>3, AggIsNoThrow DEF Becomes
<1>5. Becomes(a, c, next, has, event) /\ Same(a, c) /\ c.was = a.was \cup {a.status}
  BY <1>2, <1>3 DEF Becomes, Same
<1> HIDE DEF allowed, b
<1>6. (b # Throws <=> allowed) /\ (b # Throws => b = c)
  BY <1>1, <1>4
<1> QED BY <1>5, <1>6 DEF b, allowed, has

\* A call that moves an aggregate to another status.
Moved(a, b, next, table, has, event) ==
  /\ next = a.status \/ next \in table[a.status]
  /\ Becomes(a, b, next, has, event)
  /\ Same(a, b)
  /\ b.was = a.was \cup {a.status}

\* What did not throw has moved.
LEMMA TransitionMoves ==
  ASSUME NEW a, IsAgg(a), NEW next, NEW table, NEW event, NEW sets, NEW clears,
         Transition(a, next, table, event, sets, clears) # Throws
  PROVE  Moved(a, Transition(a, next, table, event, sets, clears), next, table,
               (a.has \ clears) \cup sets, event)
BY TransitionBecomes DEF Moved

\* It throws just where the table has no such move.
LEMMA TransitionAllows ==
  ASSUME NEW a, IsAgg(a), NEW next, NEW table, NEW event, NEW sets, NEW clears
  PROVE  Transition(a, next, table, event, sets, clears) # Throws
            <=> next = a.status \/ next \in table[a.status]
<1>1. ASSUME Transition(a, next, table, event, sets, clears) # Throws
      PROVE  next = a.status \/ next \in table[a.status]
  <2>1. Moved(a, Transition(a, next, table, event, sets, clears), next, table,
              (a.has \ clears) \cup sets, event)
    BY <1>1, TransitionMoves
  <2> QED BY <2>1 DEF Moved
<1>2. ASSUME next = a.status \/ next \in table[a.status]
      PROVE  Transition(a, next, table, event, sets, clears) # Throws
  BY <1>2, TransitionBecomes
<1> QED BY <1>1, <1>2

\* A call that only adds to what the aggregate has, and says so.
LEMMA AddingBecomes ==
  ASSUME NEW a, IsAgg(a), NEW has, NEW event, event # NoEvent
  PROVE  LET b == Emit([a EXCEPT !.has = has], event) IN
         b # Throws /\ Becomes(a, b, a.status, has, event) /\ Same(a, b)
<1> DEFINE d == [a EXCEPT !.has = has]
           b == Emit(d, event)
<1>1. d = [kind |-> a.kind, status |-> a.status, has |-> has, items |-> a.items,
           attempt |-> a.attempt, events |-> a.events, news |-> a.news, was |-> a.was]
  BY DEF IsAgg
<1> HIDE DEF d
<1>2. IsAgg(d)
  BY <1>1 DEF IsAgg
<1>3. Becomes(d, b, d.status, d.has, event) /\ Same(d, b)
  BY <1>2, EmitBecomes
<1> HIDE DEF b
<1>4. b # Throws
  BY <1>3, AggIsNoThrow DEF Becomes
<1>5. Becomes(a, b, a.status, has, event) /\ Same(a, b)
  BY <1>1, <1>3 DEF Becomes, Same
<1> QED BY <1>4, <1>5 DEF b, d

\* Only the attempt is another.
LEMMA AttemptedBecomes ==
  ASSUME NEW a, IsAgg(a), NEW n
  PROVE  LET b == Attempted(a, n) IN
         /\ IsAgg(b) /\ b.kind = a.kind /\ b.status = a.status /\ b.has = a.has
         /\ b.items = a.items /\ b.attempt = n
         /\ b.events = a.events /\ b.news = a.news
<1> DEFINE b == Attempted(a, n)
<1>1. b = [kind |-> a.kind, status |-> a.status, has |-> a.has, items |-> a.items,
           attempt |-> n, events |-> a.events, news |-> a.news, was |-> a.was]
  BY AggIsNoThrow DEF Attempted, IsAgg
<1> HIDE DEF b
<1>2. IsAgg(b)
  BY <1>1 DEF IsAgg
<1> QED BY <1>1, <1>2 DEF b

-----------------------------------------------------------------------------
(***************************************************************************)
(* Groups: a change of the members' list keeps it one of its members.      *)
(***************************************************************************)
\* Without one place of a list, what came after it moves down by one.
LEMMA RemoveAtPlaces ==
  ASSUME NEW S, NEW s \in Seq(S), NEW at \in DOMAIN s
  PROVE  LET t == RemoveAt(s, at) IN
         /\ t \in Seq(S)
         /\ \A k \in DOMAIN t : \E i \in DOMAIN s : t[k] = s[i] /\ i = IF k < at THEN k ELSE k + 1
<1> DEFINE u == SubSeq(s, 1, at - 1)
           v == SubSeq(s, at + 1, Len(s))
           t == u \o v
<1>1. at \in 1..Len(s) /\ Len(s) \in Nat
  OBVIOUS
<1>2. /\ u \in Seq(S) /\ Len(u) = at - 1
      /\ \A k \in 1..(at - 1) : u[k] = s[k]
  BY <1>1
<1>3. /\ v \in Seq(S) /\ Len(v) = Len(s) - at
      /\ \A k \in 1..(Len(s) - at) : v[k] = s[at + k]
  BY <1>1
<1> HIDE DEF u, v
<1>4. /\ t \in Seq(S) /\ Len(t) = Len(s) - 1
      /\ \A k \in 1..Len(t) : t[k] = IF k <= Len(u) THEN u[k] ELSE v[k - Len(u)]
  <2>1. /\ t \in Seq(S)
        /\ Len(t) = Len(u) + Len(v)
        /\ \A k \in 1..(Len(u) + Len(v)) : t[k] = IF k <= Len(u) THEN u[k] ELSE v[k - Len(u)]
    BY <1>2, <1>3, ConcatProperties
  <2>2. Len(u) + Len(v) = Len(s) - 1
    BY <1>1, <1>2, <1>3
  <2> QED BY <2>1, <2>2
<1> HIDE DEF t
<1>5. ASSUME NEW k \in DOMAIN t
      PROVE  \E i \in DOMAIN s : t[k] = s[i] /\ i = IF k < at THEN k ELSE k + 1
  <2>1. k \in 1..Len(t)
    BY <1>4
  <2>2. CASE k < at
    BY <1>1, <1>2, <1>4, <2>1, <2>2
  <2>3. CASE ~(k < at)
    <3>1. k - Len(u) \in 1..(Len(s) - at) /\ at + (k - Len(u)) = k + 1 /\ k + 1 \in 1..Len(s)
      BY <1>1, <1>2, <1>4, <2>1, <2>3
    <3>2. t[k] = s[k + 1]
      <4>1. ~(k <= Len(u))
        BY <1>1, <1>2, <1>4, <2>1, <2>3
      <4>2. t[k] = v[k - Len(u)]
        BY <1>4, <2>1, <4>1
      <4>3. v[k - Len(u)] = s[at + (k - Len(u))]
        BY <1>3, <3>1
      <4> QED BY <3>1, <4>2, <4>3
    <3> QED BY <2>3, <3>1, <3>2
  <2> QED BY <2>2, <2>3
<1>6. t = RemoveAt(s, at)
  BY DEF RemoveAt, t, u, v
<1> HIDE DEF u, v
<1> QED BY <1>4, <1>5, <1>6

\* A group with another list of members, and the news of it.
LEMMA PatchBecomes ==
  ASSUME NEW a, IsAgg(a), NEW items, NEW event, event # NoEvent
  PROVE  LET b == PatchGroup(a, items, event) IN
         /\ b # Throws
         /\ Becomes(a, b, a.status, a.has, event) /\ b.items = items /\ b.attempt = a.attempt
<1> DEFINE d == [a EXCEPT !.items = items]
           b == PatchGroup(a, items, event)
<1>1. d = [kind |-> a.kind, status |-> a.status, has |-> a.has, items |-> items,
           attempt |-> a.attempt, events |-> a.events, news |-> a.news, was |-> a.was]
  BY DEF IsAgg
<1>2. b = Emit(d, event)
  BY DEF PatchGroup
<1> HIDE DEF d, b
<1>3. IsAgg(d)
  BY <1>1 DEF IsAgg
<1>4. Becomes(d, b, d.status, d.has, event) /\ Same(d, b)
  BY <1>2, <1>3, EmitBecomes
<1>5. b # Throws
  BY <1>4, AggIsNoThrow DEF Becomes
<1>6. Becomes(a, b, a.status, a.has, event) /\ b.items = items /\ b.attempt = a.attempt
  BY <1>1, <1>4 DEF Becomes, Same
<1> QED BY <1>5, <1>6 DEF b

GroupMembers == [jid : Jids, role : Roles]

\* A change of an active group, whatever it is, leaves a group if its list is one.
LEMMA PatchedGroup ==
  ASSUME NEW a, GoodGroup(a), a.status = "active",
         NEW b, NEW has, NEW event, Becomes(a, b, a.status, has, event), b.attempt = a.attempt,
         event \in {"GroupMetadataUpdated", "GroupMemberAdded", "GroupMemberRemoved",
                    "GroupMemberRoleChanged", "GroupInviteLinkUpdated",
                        "GroupLocalStateUpdated"},
         b.items \in Seq(GroupMembers), Unique(b.items, JidOf)
  PROVE  GoodGroup(b)
BY DEF GoodGroup, GroupMembers, Becomes, Happening, GroupContracts, GroupTransitions, NoEvent

\* A member that was not in the list is in it once.
LEMMA MemberAdded ==
  ASSUME NEW a, GoodGroup(a), NEW j \in Jids, NEW r \in Roles,
         AddGroupMember(a, j, r) # Throws
  PROVE  GoodGroup(AddGroupMember(a, j, r))
<1> DEFINE items == Append(a.items, [jid |-> j, role |-> r])
           b == AddGroupMember(a, j, r)
<1>1. IsAgg(a) /\ a.items \in Seq(GroupMembers) /\ Unique(a.items, JidOf)
  BY DEF GoodGroup, GroupMembers
<1>2. a.status = "active" /\ ~IsMember(a, j) /\ b = PatchGroup(a, items, "GroupMemberAdded")
  BY DEF AddGroupMember
<1>3. items \in Seq(GroupMembers)
  BY <1>1 DEF GroupMembers
<1>4. Unique(items, JidOf)
  BY <1>1, <1>2 DEF Unique, JidOf, IsMember, ToSet
<1> HIDE DEF items, b
<1>5. /\ Becomes(a, b, a.status, a.has, "GroupMemberAdded")
      /\ b.items = items /\ b.attempt = a.attempt
  BY <1>1, <1>2, PatchBecomes DEF NoEvent
<1>6. GoodGroup(b)
  BY <1>2, <1>3, <1>4, <1>5, PatchedGroup
<1> QED BY <1>6 DEF b

\* Without a member, the others are there once.
LEMMA MemberRemoved ==
  ASSUME NEW a, GoodGroup(a), NEW j \in Jids, RemoveGroupMember(a, j) # Throws
  PROVE  GoodGroup(RemoveGroupMember(a, j))
<1> DEFINE at == CHOOSE i \in DOMAIN a.items : a.items[i].jid = j
           items == RemoveAt(a.items, at)
           b == RemoveGroupMember(a, j)
<1>1. IsAgg(a) /\ a.items \in Seq(GroupMembers) /\ Unique(a.items, JidOf)
  BY DEF GoodGroup, GroupMembers
<1>2. MemberMay(a, j) /\ b = PatchGroup(a, items, "GroupMemberRemoved")
  BY DEF RemoveGroupMember
<1>3. at \in DOMAIN a.items
  BY <1>2 DEF MemberMay, IsMember, ToSet
<1> HIDE DEF at
<1>4. /\ items \in Seq(GroupMembers)
      /\ \A k \in DOMAIN items : \E i \in DOMAIN a.items :
            items[k] = a.items[i] /\ i = IF k < at THEN k ELSE k + 1
  BY <1>1, <1>3, RemoveAtPlaces
<1> HIDE DEF items, b
<1>5. Unique(items, JidOf)
  <2> SUFFICES ASSUME NEW k \in DOMAIN items, NEW l \in DOMAIN items,
      items[k].jid = items[l].jid
               PROVE  k = l
    BY DEF Unique, JidOf
  <2>1. at \in Int /\ k \in Int /\ l \in Int
    BY <1>1, <1>3, <1>4
  <2>2. PICK i \in DOMAIN a.items : items[k] = a.items[i] /\ i = IF k < at THEN k ELSE k + 1
    BY <1>4
  <2>3. PICK m \in DOMAIN a.items : items[l] = a.items[m] /\ m = IF l < at THEN l ELSE l + 1
    BY <1>4
  <2>4. i = m
    BY <1>1, <2>2, <2>3 DEF Unique, JidOf
  <2> QED BY <2>1, <2>2, <2>3, <2>4
<1>6. /\ Becomes(a, b, a.status, a.has, "GroupMemberRemoved")
      /\ b.items = items /\ b.attempt = a.attempt
  BY <1>1, <1>2, PatchBecomes DEF NoEvent
<1>7. GoodGroup(b)
  BY <1>2, <1>4, <1>5, <1>6, PatchedGroup DEF MemberMay
<1> QED BY <1>7 DEF b

\* A member with another role is the same member.
LEMMA RoleReplaced ==
  ASSUME NEW a, GoodGroup(a), a.status = "active", NEW j \in Jids, NEW r \in Roles
  PROVE  GoodGroup(ReplaceMemberRole(a, j, r))
<1> DEFINE Changed(m) == IF m.jid = j THEN [m EXCEPT !.role = r] ELSE m
           items == [i \in DOMAIN a.items |-> Changed(a.items[i])]
           b == ReplaceMemberRole(a, j, r)
<1>1. IsAgg(a) /\ a.items \in Seq(GroupMembers) /\ Unique(a.items, JidOf)
  BY DEF GoodGroup, GroupMembers
<1>2. b = PatchGroup(a, items, "GroupMemberRoleChanged")
  BY DEF ReplaceMemberRole
<1>3. ASSUME NEW m \in GroupMembers
      PROVE  Changed(m) \in GroupMembers /\ Changed(m).jid = m.jid
  BY <1>3 DEF GroupMembers
<1> HIDE DEF Changed
<1>4. a.items \in [1..Len(a.items) -> GroupMembers] /\ Len(a.items) \in Nat
  BY <1>1
<1>5. items \in [1..Len(a.items) -> GroupMembers]
  BY <1>3, <1>4
<1>6. items \in Seq(GroupMembers)
  BY <1>4, <1>5
<1>7. \A i \in DOMAIN items : i \in DOMAIN a.items /\ items[i].jid = a.items[i].jid
  BY <1>3, <1>4
<1> HIDE DEF items, b
<1>8. Unique(items, JidOf)
  BY <1>1, <1>7 DEF Unique, JidOf
<1>9. /\ Becomes(a, b, a.status, a.has, "GroupMemberRoleChanged")
      /\ b.items = items /\ b.attempt = a.attempt
  BY <1>1, <1>2, PatchBecomes DEF NoEvent
<1>10. GoodGroup(b)
  BY <1>6, <1>8, <1>9, PatchedGroup
<1> QED BY <1>10 DEF b

GroupCalls(a) ==
  {ActivateGroup(a), MarkGroupLeft(a), DeleteGroup(a), UpdateGroupMetadata(a),
   SetGroupInviteLink(a)}
    \cup {AddGroupMember(a, j, r) : j \in Jids, r \in Roles}
    \cup {RemoveGroupMember(a, j) : j \in Jids}
    \cup {PromoteGroupMember(a, j) : j \in Jids}
    \cup {DemoteGroupMember(a, j) : j \in Jids}
    \cup {PatchLocalState(a, flag, on) : flag \in {"muted", "archived", "pinned"},
                                                   on \in BOOLEAN}

\* Whatever a group is asked, it stays a good one, or the call is refused.
LEMMA GroupKeeps ==
  ASSUME NEW a, GoodGroup(a), NEW b \in GroupCalls(a), b # Throws
  PROVE  GoodGroup(b)
<1>0. IsAgg(a) /\ a.items \in Seq(GroupMembers) /\ Unique(a.items, JidOf)
  BY DEF GoodGroup, GroupMembers
<1>1. CASE b \in {ActivateGroup(a), MarkGroupLeft(a), DeleteGroup(a)}
  <2>1. PICK next \in {"active", "left", "deleted"} : b = TransitionGroup(a, next)
    BY <1>1 DEF ActivateGroup, MarkGroupLeft, DeleteGroup
  <2>2. Moved(a, b, next, GroupTransitions, (a.has \ {}) \cup {}, "GroupStatusUpdated")
    BY <1>0, <2>1, TransitionMoves DEF TransitionGroup
  <2> QED BY <2>1, <2>2 DEF Moved, Becomes, Same, GoodGroup, Happening, GroupTransitions,
                            GroupContracts, NoEvent
<1>2. CASE b = UpdateGroupMetadata(a)
  <2>1. a.status = "active" /\ b = PatchGroup(a, a.items, "GroupMetadataUpdated")
    BY <1>2 DEF UpdateGroupMetadata
  <2>2. /\ Becomes(a, b, a.status, a.has, "GroupMetadataUpdated")
        /\ b.items = a.items /\ b.attempt = a.attempt
    BY <1>0, <2>1, PatchBecomes DEF NoEvent
  <2> QED BY <1>0, <2>1, <2>2, PatchedGroup
<1>3. CASE b = SetGroupInviteLink(a)
  <2>1. /\ a.status = "active"
        /\ Becomes(a, b, a.status, a.has \cup {"inviteLink"}, "GroupInviteLinkUpdated")
        /\ Same(a, b)
    BY <1>0, <1>3, AddingBecomes DEF SetGroupInviteLink, NoEvent
  <2> QED BY <1>0, <2>1, PatchedGroup DEF Same
<1>4. ASSUME NEW j \in Jids, NEW r \in Roles, b = AddGroupMember(a, j, r)
      PROVE  GoodGroup(b)
  BY <1>4, MemberAdded
<1>5. ASSUME NEW j \in Jids, b = RemoveGroupMember(a, j)
      PROVE  GoodGroup(b)
  BY <1>5, MemberRemoved
<1>6. ASSUME NEW j \in Jids, b \in {PromoteGroupMember(a, j), DemoteGroupMember(a, j)}
      PROVE  GoodGroup(b)
  <2>1. a.status = "active" /\ \E r \in Roles : b = ReplaceMemberRole(a, j, r)
    BY <1>6 DEF PromoteGroupMember, DemoteGroupMember, MemberMay, Roles
  <2> QED BY <2>1, RoleReplaced
<1>7. ASSUME NEW flag, NEW on, b = PatchLocalState(a, flag, on)
      PROVE  GoodGroup(b)
  <2>1. /\ a.status = "active"
        /\ b = Emit([a EXCEPT !.has = IF on THEN a.has \cup {flag} ELSE a.has \ {flag}],
                    "GroupLocalStateUpdated")
    BY <1>7 DEF PatchLocalState
  <2> DEFINE has == IF on THEN a.has \cup {flag} ELSE a.has \ {flag}
  <2>2. Becomes(a, b, a.status, has, "GroupLocalStateUpdated") /\ Same(a, b)
    BY <1>0, <2>1, AddingBecomes DEF NoEvent
  <2> HIDE DEF has
  <2> QED BY <1>0, <2>1, <2>2, PatchedGroup DEF Same
<1> QED BY <1>1, <1>2, <1>3, <1>4, <1>5, <1>6, <1>7 DEF GroupCalls

-----------------------------------------------------------------------------
(***************************************************************************)
(* Chats, contacts and labels: they emit nothing.                          *)
(***************************************************************************)
\* Chats, contacts and labels: only what a call names changes.
LEMMA PlainBecomes ==
  ASSUME NEW a, IsAgg(a), NEW x
  PROVE  /\ LET b == [a EXCEPT !.status = x] IN
            /\ Becomes(a, b, x, a.has, NoEvent) /\ Same(a, b)
         /\ LET b == [a EXCEPT !.has = x] IN
            /\ Becomes(a, b, a.status, x, NoEvent) /\ Same(a, b)
         /\ LET b == [a EXCEPT !.items = x] IN
            /\ Becomes(a, b, a.status, a.has, NoEvent) /\ b.items = x /\ b.attempt = a.attempt
<1>1. LET b == [a EXCEPT !.status = x] IN Becomes(a, b, x, a.has, NoEvent) /\ Same(a, b)
  <2> DEFINE b == [a EXCEPT !.status = x]
  <2>1. b = [kind |-> a.kind, status |-> x, has |-> a.has, items |-> a.items,
             attempt |-> a.attempt, events |-> a.events, news |-> a.news, was |-> a.was]
    BY DEF IsAgg
  <2> HIDE DEF b
  <2>2. IsAgg(b)
    BY <2>1 DEF IsAgg
  <2> QED BY <2>1, <2>2 DEF Becomes, Same, b
<1>2. LET b == [a EXCEPT !.has = x] IN Becomes(a, b, a.status, x, NoEvent) /\ Same(a, b)
  <2> DEFINE b == [a EXCEPT !.has = x]
  <2>1. b = [kind |-> a.kind, status |-> a.status, has |-> x, items |-> a.items,
             attempt |-> a.attempt, events |-> a.events, news |-> a.news, was |-> a.was]
    BY DEF IsAgg
  <2> HIDE DEF b
  <2>2. IsAgg(b)
    BY <2>1 DEF IsAgg
  <2> QED BY <2>1, <2>2 DEF Becomes, Same, b
<1>3. LET b == [a EXCEPT !.items = x] IN
      Becomes(a, b, a.status, a.has, NoEvent) /\ b.items = x /\ b.attempt = a.attempt
  <2> DEFINE b == [a EXCEPT !.items = x]
  <2>1. b = [kind |-> a.kind, status |-> a.status, has |-> a.has, items |-> x,
             attempt |-> a.attempt, events |-> a.events, news |-> a.news, was |-> a.was]
    BY DEF IsAgg
  <2> HIDE DEF b
  <2>2. IsAgg(b)
    BY <2>1 DEF IsAgg
  <2> QED BY <2>1, <2>2 DEF Becomes, b
<1> QED BY <1>1, <1>2, <1>3

\* A flag is set or cleared.
LEMMA FlagBecomes ==
  ASSUME NEW a, IsAgg(a), NEW flag, NEW on
  PROVE  LET b == Flag(a, flag, on) IN
         /\ Becomes(a, b, a.status, IF on THEN a.has \cup {flag} ELSE a.has \ {flag}, NoEvent)
         /\ Same(a, b)
<1> DEFINE has == IF on THEN a.has \cup {flag} ELSE a.has \ {flag}
           b == [a EXCEPT !.has = has]
<1>1. b = Flag(a, flag, on)
  BY DEF Flag
<1> HIDE DEF has
<1>2. Becomes(a, b, a.status, has, NoEvent) /\ Same(a, b)
  BY PlainBecomes
<1> HIDE DEF b
<1> QED BY <1>1, <1>2 DEF has

\* Another list of labels, none of them twice.
LEMMA Relabelled ==
  ASSUME NEW a, GoodChat(a), NEW b, Becomes(a, b, a.status, a.has, NoEvent),
         b.attempt = a.attempt, b.items \in Seq(LabelIds), Unique(b.items, Itself)
  PROVE  GoodChat(b)
BY DEF GoodChat, Becomes, Eventless

\* A label is assigned once.
LEMMA LabelAssigned ==
  ASSUME NEW a, GoodChat(a), NEW l \in LabelIds, AssignChatLabel(a, l) # Throws
  PROVE  GoodChat(AssignChatLabel(a, l))
<1> DEFINE items == Append(a.items, l)
           b == [a EXCEPT !.items = items]
<1>1. IsAgg(a) /\ a.items \in Seq(LabelIds) /\ Unique(a.items, Itself)
  BY DEF GoodChat
<1>2. l \notin ToSet(a.items) /\ b = AssignChatLabel(a, l)
  BY DEF AssignChatLabel
<1>3. items \in Seq(LabelIds) /\ Unique(items, Itself)
  BY <1>1, <1>2 DEF Unique, Itself, ToSet
<1> HIDE DEF items
<1>4. Becomes(a, b, a.status, a.has, NoEvent) /\ b.items = items /\ b.attempt = a.attempt
  BY <1>1, PlainBecomes
<1> HIDE DEF b
<1>5. GoodChat(b)
  BY <1>3, <1>4, Relabelled
<1> QED BY <1>2, <1>5

\* A label removed leaves the others as they were.
LEMMA LabelRemoved ==
  ASSUME NEW a, GoodChat(a), NEW l \in LabelIds
  PROVE  GoodChat(RemoveChatLabel(a, l))
<1>1. CASE l \notin ToSet(a.items)
  BY <1>1 DEF RemoveChatLabel
<1>2. CASE l \in ToSet(a.items)
  <2> DEFINE at == CHOOSE i \in DOMAIN a.items : a.items[i] = l
             items == RemoveAt(a.items, at)
             b == [a EXCEPT !.items = items]
  <2>1. IsAgg(a) /\ a.items \in Seq(LabelIds) /\ Unique(a.items, Itself)
    BY DEF GoodChat
  <2>2. b = RemoveChatLabel(a, l)
    BY <1>2 DEF RemoveChatLabel
  <2>3. at \in DOMAIN a.items
    BY <1>2 DEF ToSet
  <2> HIDE DEF at
  <2>4. /\ items \in Seq(LabelIds)
        /\ \A k \in DOMAIN items : \E i \in DOMAIN a.items :
              items[k] = a.items[i] /\ i = IF k < at THEN k ELSE k + 1
    BY <2>1, <2>3, RemoveAtPlaces
  <2> HIDE DEF items
  <2>5. Unique(items, Itself)
    <3> SUFFICES ASSUME NEW k \in DOMAIN items, NEW m \in DOMAIN items, items[k] = items[m]
                 PROVE  k = m
      BY DEF Unique, Itself
    <3>1. at \in Int /\ k \in Int /\ m \in Int
      BY <2>1, <2>3, <2>4
    <3>2. PICK i \in DOMAIN a.items : items[k] = a.items[i] /\ i = IF k < at THEN k ELSE k + 1
      BY <2>4
    <3>3. PICK j \in DOMAIN a.items : items[m] = a.items[j] /\ j = IF m < at THEN m ELSE m + 1
      BY <2>4
    <3>4. i = j
      BY <2>1, <3>2, <3>3 DEF Unique, Itself
    <3> QED BY <3>1, <3>2, <3>3, <3>4
  <2>6. Becomes(a, b, a.status, a.has, NoEvent) /\ b.items = items /\ b.attempt = a.attempt
    BY <2>1, PlainBecomes
  <2> HIDE DEF b
  <2>7. GoodChat(b)
    BY <2>4, <2>5, <2>6, Relabelled
  <2> QED BY <2>2, <2>7
<1> QED BY <1>1, <1>2

ChatCalls(a) ==
  {SetStatus(a, s) : s \in ChatStatuses}
    \cup {Flag(a, flag, on) : flag \in {"unread", "muted", "pinned"}, on \in BOOLEAN}
    \cup {AssignChatLabel(a, l) : l \in LabelIds}
    \cup {RemoveChatLabel(a, l) : l \in LabelIds}

\* Whatever a chat is asked, it stays a good one, or the call is refused.
LEMMA ChatKeeps ==
  ASSUME NEW a, GoodChat(a), NEW b \in ChatCalls(a), b # Throws
  PROVE  GoodChat(b)
<1>0. IsAgg(a)
  BY DEF GoodChat
<1>1. ASSUME NEW s \in ChatStatuses, b = SetStatus(a, s)
      PROVE  GoodChat(b)
  <2>1. Becomes(a, b, s, a.has, NoEvent) /\ Same(a, b)
    BY <1>0, <1>1, PlainBecomes DEF SetStatus
  <2> QED BY <1>1, <2>1 DEF GoodChat, Becomes, Same, Eventless
<1>2. ASSUME NEW flag, NEW on, b = Flag(a, flag, on)
      PROVE  GoodChat(b)
  <2>1. PICK has : Becomes(a, b, a.status, has, NoEvent) /\ Same(a, b)
    BY <1>0, <1>2, FlagBecomes
  <2> QED BY <2>1 DEF GoodChat, Becomes, Same, Eventless
<1>3. ASSUME NEW l \in LabelIds, b \in {AssignChatLabel(a, l), RemoveChatLabel(a, l)}
      PROVE  GoodChat(b)
  BY <1>3, LabelAssigned, LabelRemoved
<1> QED BY <1>1, <1>2, <1>3 DEF ChatCalls

ContactCalls(a) ==
  {SetStatus(a, s) : s \in ContactChanges}
    \cup {Flag(a, flag, on) : flag \in {"displayName", "phoneNumber"}, on \in BOOLEAN}

\* Whatever a contact is asked, it stays a good one, or the call is refused.
LEMMA ContactKeeps ==
  ASSUME NEW a, GoodContact(a), NEW b \in ContactCalls(a)
  PROVE  GoodContact(b)
<1>0. IsAgg(a)
  BY DEF GoodContact
<1>1. ASSUME NEW s \in ContactChanges, b = SetStatus(a, s)
      PROVE  GoodContact(b)
  <2>1. Becomes(a, b, s, a.has, NoEvent) /\ Same(a, b)
    BY <1>0, <1>1, PlainBecomes DEF SetStatus
  <2> QED BY <1>1, <2>1 DEF GoodContact, Becomes, Same, Eventless
<1>2. ASSUME NEW flag, NEW on, b = Flag(a, flag, on)
      PROVE  GoodContact(b)
  <2>1. PICK has : Becomes(a, b, a.status, has, NoEvent) /\ Same(a, b)
    BY <1>0, <1>2, FlagBecomes
  <2> QED BY <2>1 DEF GoodContact, Becomes, Same, Eventless
<1> QED BY <1>1, <1>2 DEF ContactCalls

\* Whatever a label is asked, it stays a good one, or the call is refused.
LEMMA LabelKeeps ==
  ASSUME NEW a, GoodLabel(a), NEW s \in LabelChanges
  PROVE  GoodLabel(SetStatus(a, s))
<1> DEFINE b == SetStatus(a, s)
<1>0. IsAgg(a)
  BY DEF GoodLabel
<1>1. Becomes(a, b, s, a.has, NoEvent) /\ Same(a, b)
  BY <1>0, PlainBecomes DEF SetStatus
<1> HIDE DEF b
<1>2. GoodLabel(b)
  BY <1>1 DEF GoodLabel, Becomes, Same, Eventless
<1> QED BY <1>2 DEF b

-----------------------------------------------------------------------------
(***************************************************************************)
(* The kinds with a transition table: every call keeps a good one good.    *)
(***************************************************************************)
InstanceCalls(a) ==
  {MarkInstanceConnecting(a), MarkInstanceQrPending(a), MarkInstanceConnected(a),
   MarkInstanceDisconnected(a), MarkInstanceLoggedOut(a), RequireInstanceAction(a),
   DestroyInstance(a)}

\* Whatever an instance is asked, it stays a good one, or the call is refused.
LEMMA InstanceKeeps ==
  ASSUME NEW a, GoodInstance(a), NEW b \in InstanceCalls(a), b # Throws
  PROVE  GoodInstance(b)
<1>0. IsAgg(a)
  BY DEF GoodInstance
<1>1. PICK next, event, sets, clears :
        /\ b = TransitionInstance(a, next, event, sets, clears)
        /\ <<next, event, sets, clears>> \in
             {<<"connecting", NoEvent, {}, {}>>,
              <<"qr_pending", "InstanceQrRequired", {}, {}>>,
              <<"connected", "InstanceConnected", {"currentSessionId"}, {"actionRequiredReason"}>>,
              <<"disconnected", "InstanceDisconnected", {}, {"currentSessionId"}>>,
              <<"logged_out", "InstanceLoggedOut", {"actionRequiredReason"}, {"currentSessionId"}>>,
              <<"action_required", "InstanceActionRequired", {"actionRequiredReason"}, {}>>,
              <<"destroyed", "InstanceDestroyed", {}, {"currentSessionId"}>>}
  BY DEF InstanceCalls, MarkInstanceConnecting, MarkInstanceQrPending, MarkInstanceConnected,
         MarkInstanceDisconnected, MarkInstanceLoggedOut, RequireInstanceAction,
         DestroyInstance
<1>2. Moved(a, b, next, InstanceTransitions, (a.has \ clears) \cup sets, event)
  BY <1>0, <1>1, TransitionMoves DEF TransitionInstance
<1> QED
  BY <1>1, <1>2 DEF Moved, Becomes, Same, Bare, GoodInstance, Happening, InstanceTransitions,
             InstanceContracts, NoEvent

SessionCalls(a) ==
  {StartSessionPairing(a), MarkSessionPending(a), ActivateSession(a), ExpireSession(a),
   RevokeSession(a), RequireSessionRecovery(a)}
    \cup {CleanupSession(a, p) : p \in {{}, {"retentionPolicy"}}}

\* Whatever a session is asked, it stays a good one, or the call is refused.
LEMMA SessionKeeps ==
  ASSUME NEW a, GoodSession(a), NEW b \in SessionCalls(a), b # Throws
  PROVE  GoodSession(b)
<1>0. IsAgg(a)
  BY DEF GoodSession
<1>1. CASE b = RequireSessionRecovery(a)
  <2>1. Becomes(a, b, a.status, a.has \cup {"requiresRecovery"},
                                            "SessionRecoveryRequired") /\ Same(a, b)
    BY <1>0, <1>1, AddingBecomes DEF RequireSessionRecovery, NoEvent
  <2> QED
    BY <2>1
       DEF Becomes, Same, Bare, GoodSession, Happening, SessionTransitions, SessionContracts,
             NoEvent
<1>2. CASE b # RequireSessionRecovery(a)
  <2>1. PICK next, event, sets, clears :
          /\ b = TransitionSession(a, next, event, sets, clears)
          /\ <<next, event, sets, clears>> \in
               {<<"pending", "SessionPairingStarted", {}, {"requiresRecovery"}>>,
                <<"pending", "SessionPending", {}, {}>>,
                <<"active", "SessionActivated", {}, {"requiresRecovery"}>>,
                <<"expired", "SessionExpired", {"requiresRecovery"}, {}>>,
                <<"revoked", "SessionRevoked", {"requiresRecovery"}, {}>>,
                <<"cleanup", "SessionCleaned", {}, {"retentionPolicy"}>>,
                <<"cleanup", "SessionCleaned", {"retentionPolicy"}, {"retentionPolicy"}>>}
    BY <1>2
       DEF SessionCalls, StartSessionPairing, MarkSessionPending, ActivateSession,
           ExpireSession,
           RevokeSession, CleanupSession
  <2>2. Moved(a, b, next, SessionTransitions, (a.has \ clears) \cup sets, event)
    BY <1>0, <2>1, TransitionMoves DEF TransitionSession
  <2>3. /\ IsAgg(b) /\ b.kind = a.kind /\ Same(a, b)
        /\ b.status = next /\ b.has = (a.has \ clears) \cup sets
        /\ b.events = a.events \cup ({a.news} \ {NoEvent}) /\ b.news = event
        /\ next = a.status \/ next \in SessionTransitions[a.status]
    BY <2>1, <2>2 DEF Moved, Becomes, NoEvent
  <2>4. /\ b.status \in DOMAIN SessionTransitions
        /\ Happening(b) \subseteq DOMAIN SessionContracts \cup {NoEvent}
        /\ b.has \subseteq {"requiresRecovery", "retentionPolicy"}
    BY <2>1, <2>3 DEF GoodSession, Happening, SessionTransitions, SessionContracts
  <2>5. CASE next = "pending"
    <3>1. event \in {"SessionPairingStarted", "SessionPending"}
      BY <2>1, <2>3, <2>5
    <3>2. a.status \in {"empty", "expired", "pending"}
      BY <2>3, <2>5 DEF GoodSession, SessionTransitions
    <3> QED BY <2>3, <2>4, <2>5, <3>1, <3>2 DEF Same, Bare, GoodSession, Happening, NoEvent
  <2>6. CASE next = "active"
    <3>1. event = "SessionActivated"
      BY <2>1, <2>3, <2>6
    <3>2. a.status \in {"pending", "active"}
      BY <2>3, <2>6 DEF GoodSession, SessionTransitions
    <3> QED BY <2>3, <2>4, <2>6, <3>1, <3>2 DEF Same, Bare, GoodSession, Happening, NoEvent
  <2>7. CASE next = "expired"
    <3>1. event = "SessionExpired" /\ "requiresRecovery" \in b.has
      BY <2>1, <2>3, <2>7
    <3>2. a.status \in {"pending", "active", "expired"}
      BY <2>3, <2>7 DEF GoodSession, SessionTransitions
    <3> QED BY <2>3, <2>4, <2>7, <3>1, <3>2 DEF Same, Bare, GoodSession, Happening, NoEvent
  <2>8. CASE next = "revoked"
    <3>1. event = "SessionRevoked" /\ "requiresRecovery" \in b.has
      BY <2>1, <2>3, <2>8
    <3>2. a.status \in {"pending", "active", "expired", "revoked"}
      BY <2>3, <2>8 DEF GoodSession, SessionTransitions
    <3> QED BY <2>3, <2>4, <2>8, <3>1, <3>2 DEF Same, Bare, GoodSession, Happening, NoEvent
  <2>9. CASE next = "cleanup"
    <3>1. event = "SessionCleaned"
      BY <2>1, <2>3, <2>9
    <3> QED BY <2>3, <2>4, <2>9, <3>1 DEF Same, Bare, GoodSession, Happening, NoEvent
  <2> QED BY <2>1, <2>5, <2>6, <2>7, <2>8, <2>9
<1> QED BY <1>1, <1>2

MessageCalls(a) ==
  {AcceptMessage(a), RejectMessage(a), QueueMessage(a), MarkMessageProcessing(a),
   MarkMessageSent(a), MarkMessageDelivered(a), MarkMessageRead(a), FailMessage(a),
   CancelMessage(a)}

\* Whatever a message is asked, it stays a good one, or the call is refused.
LEMMA MessageKeeps ==
  ASSUME NEW a, GoodMessage(a), NEW b \in MessageCalls(a), b # Throws
  PROVE  GoodMessage(b)
<1>0. IsAgg(a)
  BY DEF GoodMessage
<1>1. PICK next, event, sets :
        /\ b = TransitionMessage(a, next, event, sets)
        /\ next = "evaluated" => "outbound" \in a.has
        /\ <<next, event, sets>> \in
             {<<"evaluated", "MessageAccepted", {"guardrailDecisionId"}>>,
              <<"failed", "MessageRejected", {"failureCategory"}>>,
              <<"queued", "MessageQueued", {}>>,
              <<"processing", "MessageProcessingStarted", {}>>,
              <<"sent", "MessageDispatched", {}>>,
              <<"delivered", "MessageDelivered", {}>>,
              <<"read", "MessageRead", {}>>,
              <<"failed", "MessageFailed", {"failureCategory"}>>,
              <<"cancelled", "MessageCancelled", {}>>}
  BY DEF MessageCalls, AcceptMessage, RejectMessage, QueueMessage, MarkMessageProcessing,
         MarkMessageSent, MarkMessageDelivered, MarkMessageRead, FailMessage, CancelMessage
<1>2. Moved(a, b, next, MessageTransitions, (a.has \ {}) \cup sets, event)
  BY <1>0, <1>1, TransitionMoves DEF TransitionMessage
<1> QED
  BY <1>1, <1>2 DEF Moved, Becomes, Same, Bare, GoodMessage, Happening, MessageTransitions,
             MessageContracts, NoEvent

MediaAssetCalls(a) ==
  {AcceptMediaAsset(a), MarkMediaProcessing(a), MarkMediaProcessed(a), AttachMediaAsset(a),
   FailMediaAsset(a), CleanMediaAsset(a), RequestDiagnosticCapture(a)}

\* Whatever a media asset is asked, it stays a good one, or the call is refused.
LEMMA MediaAssetKeeps ==
  ASSUME NEW a, GoodMediaAsset(a), NEW b \in MediaAssetCalls(a), b # Throws
  PROVE  GoodMediaAsset(b)
<1>0. IsAgg(a)
  BY DEF GoodMediaAsset
<1>1. CASE b = RequestDiagnosticCapture(a)
  <2>1. Becomes(a, b, a.status, a.has \cup {"diagnosticCapture"},
                                            "DiagnosticCaptureRequested") /\ Same(a, b)
    BY <1>0, <1>1, AddingBecomes DEF RequestDiagnosticCapture, NoEvent
  <2>2. a.status # "cleaned"
    BY <1>1 DEF RequestDiagnosticCapture
  <2> QED BY <2>1, <2>2 DEF Becomes, Same, Bare, GoodMediaAsset, Happening, MediaAssetTransitions,
             MediaAssetContracts, NoEvent
<1>2. CASE b # RequestDiagnosticCapture(a)
  <2>1. PICK next, event, sets :
          /\ b = TransitionMediaAsset(a, next, event, sets)
          /\ <<next, event, sets>> \in
               {<<"accepted", "MediaAccepted", {}>>,
                <<"processing", "MediaProcessingStarted", {}>>,
                <<"processed", "MediaProcessed", {}>>,
                <<"attached", "MediaAttached", {"messageId"}>>,
                <<"failed", "MediaFailed", {"failureCategory"}>>,
                <<"cleaned", "MediaCleaned", {}>>}
    BY <1>2 DEF MediaAssetCalls, AcceptMediaAsset, MarkMediaProcessing, MarkMediaProcessed,
           AttachMediaAsset, FailMediaAsset, CleanMediaAsset
  <2>2. Moved(a, b, next, MediaAssetTransitions, (a.has \ {}) \cup sets, event)
    BY <1>0, <2>1, TransitionMoves DEF TransitionMediaAsset
  <2> QED
    BY <2>1, <2>2
       DEF Moved, Becomes, Same, Bare, GoodMediaAsset, Happening, MediaAssetTransitions,
               MediaAssetContracts, NoEvent
<1> QED BY <1>1, <1>2

WebhookSubscriptionCalls(a) ==
  {ValidateWebhookSubscription(a), ActivateWebhookSubscription(a),
   SuspendWebhookSubscription(a), InvalidateWebhookSubscription(a),
   RetireWebhookSubscription(a)}

\* Whatever a webhook subscription is asked, it stays a good one, or the call is refused.
LEMMA WebhookSubscriptionKeeps ==
  ASSUME NEW a, GoodWebhookSubscription(a), NEW b \in WebhookSubscriptionCalls(a), b # Throws
  PROVE  GoodWebhookSubscription(b)
<1>0. IsAgg(a)
  BY DEF GoodWebhookSubscription
<1>1. PICK next, event :
        /\ b = TransitionWebhookSubscription(a, next, event)
        /\ <<next, event>> \in
             {<<"validated", "WebhookSubscriptionValidated">>,
              <<"active", "WebhookSubscriptionActivated">>,
              <<"suspended", "WebhookSubscriptionSuspended">>,
              <<"invalid", "WebhookSubscriptionInvalidated">>,
              <<"retired", "WebhookSubscriptionRetired">>}
  BY DEF WebhookSubscriptionCalls, ValidateWebhookSubscription, ActivateWebhookSubscription,
         SuspendWebhookSubscription, InvalidateWebhookSubscription, RetireWebhookSubscription
<1>2. Moved(a, b, next, WebhookSubscriptionTransitions, (a.has \ {}) \cup {}, event)
  BY <1>0, <1>1, TransitionMoves DEF TransitionWebhookSubscription
<1>3. /\ IsAgg(b) /\ b.kind = a.kind /\ Same(a, b) /\ b.status = next /\ b.has = a.has
      /\ b.events = a.events \cup ({a.news} \ {NoEvent}) /\ b.news = event
      /\ next = a.status \/ next \in WebhookSubscriptionTransitions[a.status]
  BY <1>1, <1>2 DEF Moved, Becomes, NoEvent
<1>4. /\ b.status \in DOMAIN WebhookSubscriptionTransitions
      /\ Happening(b) \subseteq DOMAIN WebhookSubscriptionContracts
  BY <1>1, <1>3 DEF GoodWebhookSubscription, Happening, WebhookSubscriptionTransitions,
                    WebhookSubscriptionContracts, NoEvent
<1>5. CASE next = "validated"
  <2>1. event = "WebhookSubscriptionValidated"
    BY <1>1, <1>5
  <2>2. a.status \in {"proposed", "validated", "invalid"}
    BY <1>3, <1>5 DEF GoodWebhookSubscription, WebhookSubscriptionTransitions
  <2> QED BY <1>3, <1>4, <1>5, <2>1, <2>2
          DEF Same, Bare, GoodWebhookSubscription, Happening, NoEvent
<1>6. CASE next = "active"
  <2>1. event = "WebhookSubscriptionActivated"
    BY <1>1, <1>6
  <2>2. a.status \in {"validated", "active", "suspended"}
    BY <1>3, <1>6 DEF GoodWebhookSubscription, WebhookSubscriptionTransitions
  <2> QED BY <1>3, <1>4, <1>6, <2>1, <2>2
          DEF Same, Bare, GoodWebhookSubscription, Happening, NoEvent
<1>7. CASE next = "suspended"
  <2>1. event = "WebhookSubscriptionSuspended"
    BY <1>1, <1>7
  <2>2. a.status \in {"active", "suspended"}
    BY <1>3, <1>7 DEF GoodWebhookSubscription, WebhookSubscriptionTransitions
  <2> QED BY <1>3, <1>4, <1>7, <2>1, <2>2
          DEF Same, Bare, GoodWebhookSubscription, Happening, NoEvent
<1>8. CASE next = "invalid"
  <2>1. event = "WebhookSubscriptionInvalidated"
    BY <1>1, <1>8
  <2>2. a.status \in {"proposed", "validated", "active", "suspended", "invalid"}
    BY <1>3, <1>8 DEF GoodWebhookSubscription, WebhookSubscriptionTransitions
  <2>3. "WebhookSubscriptionRetired" \notin Happening(b)
    BY <1>3, <2>1, <2>2 DEF GoodWebhookSubscription, Happening
  <2>4. "WebhookSubscriptionRetired" \notin b.events
    BY <2>3 DEF Happening
  <2>5. "WebhookSubscriptionInvalidated" \in Happening(b)
    BY <1>3, <2>1 DEF Happening
  <2> QED BY <1>3, <1>4, <1>8, <2>1, <2>3, <2>4, <2>5 DEF Same, Bare, GoodWebhookSubscription
<1>9. CASE next = "retired"
  <2>1. event = "WebhookSubscriptionRetired"
    BY <1>1, <1>9
  <2> QED BY <1>3, <1>4, <1>9, <2>1
          DEF Same, Bare, GoodWebhookSubscription, Happening, NoEvent
<1> QED BY <1>1, <1>5, <1>6, <1>7, <1>8, <1>9

GuardrailDecisionCalls(a) ==
  {EvaluateGuardrailDecision(a), PassGuardrailDecision(a), BlockGuardrailDecision(a),
   ThrottleGuardrailDecision(a), RequireGuardrailAction(a)}

\* Whatever a guardrail decision is asked, it stays a good one, or the call is refused.
LEMMA GuardrailDecisionKeeps ==
  ASSUME NEW a, GoodGuardrailDecision(a), NEW b \in GuardrailDecisionCalls(a), b # Throws
  PROVE  GoodGuardrailDecision(b)
<1>0. IsAgg(a)
  BY DEF GoodGuardrailDecision
<1>1. PICK next, event, sets, clears :
        /\ b = Transition(a, next, GuardrailDecisionTransitions, event, sets, clears)
        /\ <<next, event, sets, clears>> \in
             {<<"evaluated", "GuardrailEvaluated", {}, {}>>,
              <<"passed", "GuardrailPassed", {"allow"}, GuardrailOutcomes>>,
              <<"blocked", "GuardrailBlocked", {"block"}, GuardrailOutcomes>>,
              <<"throttled", "GuardrailThrottled", {"throttle"}, GuardrailOutcomes>>,
              <<"action_required", "GuardrailActionRequired", {"action_required"},
                                                               GuardrailOutcomes>>}
  BY DEF GuardrailDecisionCalls, EvaluateGuardrailDecision, PassGuardrailDecision,
         BlockGuardrailDecision, ThrottleGuardrailDecision, RequireGuardrailAction,
         TransitionGuardrailDecision
<1>2. Moved(a, b, next, GuardrailDecisionTransitions, (a.has \ clears) \cup sets, event)
  BY <1>0, <1>1, TransitionMoves
<1> QED BY <1>1, <1>2 DEF Moved, Becomes, Same, Bare, GoodGuardrailDecision, Happening,
             GuardrailDecisionTransitions, GuardrailDecisionContracts, NoEvent,
             GuardrailOutcomes

AccessDecisionCalls(a) ==
  {GrantAccessDecision(a), DenyAccessDecision(a), ExpireAccessDecision(a),
   MarkPrivilegedAction(a)}

\* Whatever an access decision is asked, it stays a good one, or the call is refused.
LEMMA AccessDecisionKeeps ==
  ASSUME NEW a, GoodAccessDecision(a), NEW b \in AccessDecisionCalls(a), b # Throws
  PROVE  GoodAccessDecision(b)
<1>0. IsAgg(a)
  BY DEF GoodAccessDecision
<1>1. CASE b = MarkPrivilegedAction(a)
  <2>1. Becomes(a, b, a.status, a.has \cup {"privileged", "auditEligible"},
                                            "PrivilegedActionMarked") /\ Same(a, b)
    BY <1>0, <1>1, AddingBecomes DEF MarkPrivilegedAction, NoEvent
  <2> QED
    BY <2>1 DEF Becomes, Same, Bare, GoodAccessDecision, Happening, AccessDecisionTransitions,
             AccessDecisionContracts, NoEvent
<1>2. CASE b # MarkPrivilegedAction(a)
  <2>1. PICK next, event, sets :
          /\ b = TransitionAccessDecision(a, next, event, sets)
          /\ <<next, event, sets>> \in
               {<<"granted", "AccessGranted", {"granted"}>>,
                <<"denied", "AccessDenied", {"denied"}>>,
                <<"expired", "AccessDecisionExpired", {}>>}
    BY <1>2
       DEF AccessDecisionCalls, GrantAccessDecision, DenyAccessDecision, ExpireAccessDecision
  <2>2. Moved(a, b, next, AccessDecisionTransitions, (a.has \ {}) \cup sets, event)
    BY <1>0, <2>1, TransitionMoves DEF TransitionAccessDecision
  <2> QED BY <2>1, <2>2 DEF Moved, Becomes, Same, Bare, GoodAccessDecision, Happening,
               AccessDecisionTransitions, AccessDecisionContracts, NoEvent
<1> QED BY <1>1, <1>2

AuditRecordCalls(a) ==
  {RecordAuditEvidence(a), RetainAuditRecord(a), ExpireAuditRetention(a),
   ApplyAuditRedaction(a)}

\* Whatever an audit record is asked, it stays a good one, or the call is refused.
LEMMA AuditRecordKeeps ==
  ASSUME NEW a, GoodAuditRecord(a), NEW b \in AuditRecordCalls(a), b # Throws
  PROVE  GoodAuditRecord(b)
<1>0. IsAgg(a)
  BY DEF GoodAuditRecord
<1>1. CASE b = ApplyAuditRedaction(a)
  <2>1. Becomes(a, b, a.status, a.has \cup {"redacted"}, "AuditRedactionApplied") /\ Same(a, b)
    BY <1>0, <1>1, AddingBecomes DEF ApplyAuditRedaction, NoEvent
  <2> QED BY <2>1 DEF Becomes, Same, Bare, GoodAuditRecord, Happening, AuditRecordTransitions,
             AuditRecordContracts, NoEvent
<1>2. CASE b # ApplyAuditRedaction(a)
  <2>1. PICK next, event, sets :
          /\ b = TransitionAuditRecord(a, next, event, sets)
          /\ <<next, event, sets>> \in
               {<<"recorded", "AuditRecorded", {"evidenceSummaryCode"}>>,
                <<"retained", NoEvent, {}>>,
                <<"retention_expired", "AuditRetentionExpired", {}>>}
    BY <1>2 DEF AuditRecordCalls, RecordAuditEvidence, RetainAuditRecord, ExpireAuditRetention
  <2>2. Moved(a, b, next, AuditRecordTransitions, (a.has \ {}) \cup sets, event)
    BY <1>0, <2>1, TransitionMoves DEF TransitionAuditRecord
  <2>3. CASE event = NoEvent
    <3>1. next = "retained" /\ sets = {}
      BY <2>1, <2>3 DEF NoEvent
    <3>2. /\ IsAgg(b) /\ b.kind = a.kind /\ b.status = "retained" /\ b.has = a.has
          /\ b.events = a.events /\ b.news = a.news
          /\ b.items = a.items /\ b.attempt = a.attempt
          /\ a.status = "retained" \/ a.status = "recorded"
      BY <2>2, <2>3, <3>1
         DEF Moved, Becomes, Same, GoodAuditRecord, AuditRecordTransitions
    <3> QED BY <3>2 DEF Bare, GoodAuditRecord, Happening, AuditRecordTransitions
  <2>4. CASE event # NoEvent
    BY <2>1, <2>2, <2>4
       DEF Moved, Becomes, Same, Bare, GoodAuditRecord, Happening, AuditRecordTransitions,
           AuditRecordContracts, NoEvent
  <2> QED BY <2>3, <2>4
<1> QED BY <1>1, <1>2

TelemetrySignalCalls(a) ==
  {SanitizeTelemetrySignal(a), ProjectTelemetrySignal(a), DropTelemetrySignal(a)}

\* Whatever a telemetry signal is asked, it stays a good one, or the call is refused.
LEMMA TelemetrySignalKeeps ==
  ASSUME NEW a, GoodTelemetrySignal(a), NEW b \in TelemetrySignalCalls(a), b # Throws
  PROVE  GoodTelemetrySignal(b)
<1>0. IsAgg(a)
  BY DEF GoodTelemetrySignal
<1>1. PICK next, event, sets :
        /\ b = TransitionTelemetrySignal(a, next, event, sets)
        /\ <<next, event, sets>> \in
             {<<"sanitized", "TelemetrySanitized", {"redacted"}>>,
              <<"projected", "TelemetryProjected", {}>>,
              <<"dropped", "TelemetryDropped", {"redacted"}>>}
  BY DEF TelemetrySignalCalls, SanitizeTelemetrySignal, ProjectTelemetrySignal,
         DropTelemetrySignal
<1>2. Moved(a, b, next, TelemetrySignalTransitions, (a.has \ {}) \cup sets, event)
  BY <1>0, <1>1, TransitionMoves DEF TransitionTelemetrySignal
<1> QED BY <1>1, <1>2 DEF Moved, Becomes, Same, Bare, GoodTelemetrySignal, Happening,
             TelemetrySignalTransitions, TelemetrySignalContracts, NoEvent

ConfigurationSnapshotCalls(a) ==
  {ValidateConfigurationSnapshot(a), RejectConfigurationSnapshot(a),
   RejectGuardrailBypassConfiguration(a), ActivateConfigurationSnapshot(a),
   SupersedeConfigurationSnapshot(a)}

\* Whatever a configuration snapshot is asked, it stays a good one, or the call is refused.
LEMMA ConfigurationSnapshotKeeps ==
  ASSUME NEW a, GoodConfigurationSnapshot(a), NEW b \in ConfigurationSnapshotCalls(a),
      b # Throws
  PROVE  GoodConfigurationSnapshot(b)
<1>0. IsAgg(a)
  BY DEF GoodConfigurationSnapshot
<1>1. PICK next, event, sets :
        /\ b = TransitionConfigurationSnapshot(a, next, event, sets)
        /\ next = "validated" => "valid" \in a.has
        /\ event = "ConfigurationGuardrailBypassRejected"
              => "guardrail_bypass_rejected" \in a.has
        /\ <<next, event, sets>> \in
             {<<"validated", "ConfigurationValidated", {}>>,
              <<"rejected", "ConfigurationRejected", {"auditEligible"}>>,
              <<"rejected", "ConfigurationGuardrailBypassRejected", {"auditEligible"}>>,
              <<"active", "ConfigurationActivated", {}>>,
              <<"superseded", "ConfigurationSuperseded", {}>>}
  BY DEF ConfigurationSnapshotCalls, ValidateConfigurationSnapshot,
         RejectConfigurationSnapshot, RejectGuardrailBypassConfiguration,
         ActivateConfigurationSnapshot, SupersedeConfigurationSnapshot
<1>2. Moved(a, b, next, ConfigurationSnapshotTransitions, (a.has \ {}) \cup sets, event)
  BY <1>0, <1>1, TransitionMoves DEF TransitionConfigurationSnapshot
<1> QED BY <1>1, <1>2 DEF Moved, Becomes, Same, Bare, GoodConfigurationSnapshot, Happening,
             ConfigurationSnapshotTransitions, ConfigurationSnapshotContracts, NoEvent

ProviderProfileCalls(a) ==
  {MarkProviderDegraded(a), MarkProviderUnsupported(a), RetireProviderProfile(a)}
    \cup {MarkProviderSupported(a, c) : c \in SUBSET Capabilities}

\* Whatever a provider profile is asked, it stays a good one, or the call is refused.
LEMMA ProviderProfileKeeps ==
  ASSUME NEW a, GoodProviderProfile(a), NEW b \in ProviderProfileCalls(a), b # Throws
  PROVE  GoodProviderProfile(b)
<1>0. IsAgg(a)
  BY DEF GoodProviderProfile
<1>1. PICK next, event, sets, clears :
        /\ b = TransitionProviderProfile(a, next, event, sets, clears)
        /\ sets \subseteq Capabilities \cup {"failureCategory"}
        /\ <<next, event, sets, clears>> \in
             {<<"supported", "ProviderProfileSupported", sets, Capabilities>>,
              <<"degraded", "ProviderProfileDegraded", {"failureCategory"}, {}>>,
              <<"unsupported", "ProviderProfileUnsupported", {"failureCategory"}, {}>>,
              <<"retired", NoEvent, {}, {}>>}
  BY DEF ProviderProfileCalls, MarkProviderDegraded, MarkProviderUnsupported,
         RetireProviderProfile, MarkProviderSupported
<1>2. Moved(a, b, next, ProviderProfileTransitions, (a.has \ clears) \cup sets, event)
  BY <1>0, <1>1, TransitionMoves DEF TransitionProviderProfile
<1> QED BY <1>1, <1>2 DEF Moved, Becomes, Same, Bare, GoodProviderProfile, Happening,
             ProviderProfileTransitions, ProviderProfileContracts, NoEvent, Capabilities

WebhookDeliveryCalls(a) ==
  {SucceedWebhookDelivery(a), FailWebhookDelivery(a), DeadLetterWebhookDelivery(a),
   CancelWebhookDelivery(a)}
    \cup {StartWebhookDelivery(a, n) : n \in Attempts}
    \cup {RetryWebhookDelivery(a, n) : n \in Attempts}

\* Whatever a webhook delivery is asked, it stays a good one, or the call is refused.
LEMMA WebhookDeliveryKeeps ==
  ASSUME NEW a, GoodWebhookDelivery(a), NEW b \in WebhookDeliveryCalls(a), b # Throws
  PROVE  GoodWebhookDelivery(b)
<1>0. IsAgg(a)
  BY DEF GoodWebhookDelivery
<1>1. PICK next, event, sets, c, n :
        /\ c = TransitionWebhookDelivery(a, next, event, sets)
        /\ c # Throws
        /\ \/ b = c /\ n = 0 /\ next \notin {"delivering", "retrying"}
           \/ b = Attempted(c, n) /\ n \in Attempts
        /\ next = "retrying" => n <= MaxAttempts
        /\ <<next, event, sets>> \in
             {<<"delivering", "WebhookDeliveryStarted", {}>>,
              <<"delivered", "WebhookDeliverySucceeded", {}>>,
              <<"retrying", "WebhookDeliveryRetryScheduled", {"failureCategory"}>>,
              <<"failed", "WebhookDeliveryFailed", {"failureCategory"}>>,
              <<"dead_letter", "WebhookDeliveryDeadLettered",
                {"deadLetterReason", "failureCategory"}>>,
              <<"cancelled", "WebhookDeliveryCancelled", {}>>}
  <2>1. CASE \E n \in Attempts : b = StartWebhookDelivery(a, n)
    <3>1. PICK n \in Attempts : b = StartWebhookDelivery(a, n)
      BY <2>1
    <3>2. TransitionWebhookDelivery(a, "delivering", "WebhookDeliveryStarted", {}) # Throws
      BY <3>1 DEF StartWebhookDelivery, Attempted
    <3> QED BY <3>1, <3>2 DEF StartWebhookDelivery
  <2>2. CASE \E n \in Attempts : b = RetryWebhookDelivery(a, n)
    <3>1. PICK n \in Attempts : b = RetryWebhookDelivery(a, n)
      BY <2>2
    <3>2. TransitionWebhookDelivery(a, "retrying", "WebhookDeliveryRetryScheduled",
                                    {"failureCategory"}) # Throws
      BY <3>1 DEF RetryWebhookDelivery, Attempted
    <3>3. n <= MaxAttempts
      BY <3>1, DomainBounds DEF RetryWebhookDelivery, Attempts
    <3>4. b = Attempted(TransitionWebhookDelivery(a, "retrying",
        "WebhookDeliveryRetryScheduled",
                                                  {"failureCategory"}), n)
      BY <3>1 DEF RetryWebhookDelivery
    <3> QED BY <3>2, <3>3, <3>4
  <2>3. CASE b \in {SucceedWebhookDelivery(a), FailWebhookDelivery(a),
                    DeadLetterWebhookDelivery(a), CancelWebhookDelivery(a)}
    BY <2>3 DEF SucceedWebhookDelivery, FailWebhookDelivery, DeadLetterWebhookDelivery,
                CancelWebhookDelivery
  <2> QED BY <2>1, <2>2, <2>3 DEF WebhookDeliveryCalls
<1>2. Moved(a, c, next, WebhookDeliveryTransitions, (a.has \ {}) \cup sets, event)
  BY <1>0, <1>1, TransitionMoves DEF TransitionWebhookDelivery
<1>3. /\ IsAgg(b) /\ b.kind = c.kind /\ b.status = c.status /\ b.has = c.has
      /\ b.items = c.items /\ b.events = c.events /\ b.news = c.news
      /\ next \in {"delivering", "retrying"} => b.attempt = n /\ n \in Attempts
      /\ b.attempt = n \/ b.attempt = c.attempt
  BY <1>1, <1>2, AttemptedBecomes DEF Moved, Becomes
<1> QED BY <1>1, <1>2, <1>3, DomainBounds
        DEF Moved, Becomes, Same, GoodWebhookDelivery, Happening, WebhookDeliveryTransitions,
            WebhookDeliveryContracts, NoEvent, Attempts

WorkerJobCalls(a) ==
  {StartWorkerJob(a), CompleteWorkerJob(a), MarkWorkerJobDead(a), RequireWorkerJobRecovery(a)}
    \cup {ReserveWorkerJob(a, n) : n \in Attempts}
    \cup {RetryWorkerJob(a, n) : n \in Attempts}

\* Whatever a worker job is asked, it stays a good one, or the call is refused.
LEMMA WorkerJobKeeps ==
  ASSUME NEW a, GoodWorkerJob(a), NEW b \in WorkerJobCalls(a), b # Throws
  PROVE  GoodWorkerJob(b)
<1>0. IsAgg(a)
  BY DEF GoodWorkerJob
<1>1. CASE b = RequireWorkerJobRecovery(a)
  <2>1. /\ Becomes(a, b, a.status, a.has \cup {"recoveryActionRequired"},
                                               "WorkerJobRecoveryRequired")
        /\ Same(a, b)
    BY <1>0, <1>1, AddingBecomes DEF RequireWorkerJobRecovery, NoEvent
  <2> QED BY <2>1 DEF Becomes, Same, GoodWorkerJob, Happening, WorkerJobTransitions,
                     WorkerJobContracts, NoEvent
<1>2. CASE b # RequireWorkerJobRecovery(a)
  <2>1. PICK next, event, sets, c, n :
          /\ c = TransitionWorkerJob(a, next, event, sets)
          /\ c # Throws
          /\ \/ b = c /\ n = 0 /\ next \notin {"reserved", "retrying"}
             \/ b = Attempted(c, n) /\ n \in Attempts
          /\ next = "retrying" => n <= MaxAttempts
          /\ <<next, event, sets>> \in
               {<<"reserved", "WorkerJobReserved", {}>>,
                <<"running", "WorkerJobStarted", {}>>,
                <<"completed", "WorkerJobCompleted", {}>>,
                <<"retrying", "WorkerJobRetryScheduled", {"failureCategory"}>>,
                <<"dead", "WorkerJobDead", {"deadLetterReason", "failureCategory"}>>}
    <3>1. CASE \E n \in Attempts : b = ReserveWorkerJob(a, n)
      <4>1. PICK n \in Attempts : b = ReserveWorkerJob(a, n)
        BY <3>1
      <4>2. TransitionWorkerJob(a, "reserved", "WorkerJobReserved", {}) # Throws
        BY <4>1 DEF ReserveWorkerJob, Attempted
      <4> QED BY <4>1, <4>2 DEF ReserveWorkerJob
    <3>2. CASE \E n \in Attempts : b = RetryWorkerJob(a, n)
      <4>1. PICK n \in Attempts : b = RetryWorkerJob(a, n)
        BY <3>2
      <4>2. TransitionWorkerJob(a, "retrying", "WorkerJobRetryScheduled",
                                {"failureCategory"}) # Throws
        BY <4>1 DEF RetryWorkerJob, Attempted
      <4>3. n <= MaxAttempts
        BY <4>1, DomainBounds DEF RetryWorkerJob, Attempts
      <4>4. b = Attempted(TransitionWorkerJob(a, "retrying", "WorkerJobRetryScheduled",
                                              {"failureCategory"}), n)
        BY <4>1 DEF RetryWorkerJob
      <4> QED BY <4>2, <4>3, <4>4
    <3>3. CASE b \in {StartWorkerJob(a), CompleteWorkerJob(a), MarkWorkerJobDead(a)}
      BY <3>3 DEF StartWorkerJob, CompleteWorkerJob, MarkWorkerJobDead
    <3> QED BY <1>2, <3>1, <3>2, <3>3 DEF WorkerJobCalls
  <2>2. Moved(a, c, next, WorkerJobTransitions, (a.has \ {}) \cup sets, event)
    BY <1>0, <2>1, TransitionMoves DEF TransitionWorkerJob
  <2>3. /\ IsAgg(b) /\ b.kind = c.kind /\ b.status = c.status /\ b.has = c.has
        /\ b.items = c.items /\ b.events = c.events /\ b.news = c.news
        /\ next \in {"reserved", "retrying"} => b.attempt = n /\ n \in Attempts
        /\ b.attempt = n \/ b.attempt = c.attempt
    BY <2>1, <2>2, AttemptedBecomes DEF Moved, Becomes
  <2>4. /\ b.kind = a.kind /\ b.status = next /\ b.has = a.has \cup sets /\ b.items = a.items
        /\ b.events = a.events \cup ({a.news} \ {NoEvent}) /\ b.news = event
        /\ b.attempt \in Attempts \/ b.attempt = a.attempt
        /\ next = a.status \/ next \in WorkerJobTransitions[a.status]
    BY <2>1, <2>2, <2>3 DEF Moved, Becomes, Same, NoEvent
  <2>5. \A m \in Attempts : m \in Nat /\ m > 0
    BY DomainBounds DEF Attempts
  <2>6. /\ b.status \in DOMAIN WorkerJobTransitions
        /\ Happening(b) \subseteq DOMAIN WorkerJobContracts
        /\ b.has \subseteq {"failureCategory", "deadLetterReason", "recoveryActionRequired"}
        /\ b.attempt \in Nat
    BY <2>1, <2>4, <2>5
       DEF GoodWorkerJob, Happening, WorkerJobTransitions, WorkerJobContracts, NoEvent
  <2>7. CASE next = "reserved"
    <3>1. event = "WorkerJobReserved" /\ b.attempt > 0
      BY <2>1, <2>3, <2>4, <2>7, DomainBounds DEF Attempts
    <3>2. a.status \in {"queued", "retrying", "reserved"}
      BY <2>4, <2>7 DEF GoodWorkerJob, WorkerJobTransitions
    <3> QED BY <2>3, <2>4, <2>6, <2>7, <3>1, <3>2 DEF GoodWorkerJob, Happening, NoEvent
  <2>8. CASE next = "running"
    <3>1. event = "WorkerJobStarted"
      BY <2>1, <2>3, <2>4, <2>8
    <3>2. a.status \in {"reserved", "running"}
      BY <2>4, <2>8 DEF GoodWorkerJob, WorkerJobTransitions
    <3>3. b.attempt > 0
      BY <2>4, <2>5, <3>2 DEF GoodWorkerJob
    <3> QED BY <2>3, <2>4, <2>6, <2>8, <3>1, <3>2, <3>3 DEF GoodWorkerJob, Happening, NoEvent
  <2>9. CASE next = "completed"
    <3>1. event = "WorkerJobCompleted"
      BY <2>1, <2>3, <2>4, <2>9
    <3>2. a.status \in {"running", "completed"}
      BY <2>4, <2>9 DEF GoodWorkerJob, WorkerJobTransitions
    <3>3. b.attempt > 0
      BY <2>4, <2>5, <3>2 DEF GoodWorkerJob
    <3> QED BY <2>3, <2>4, <2>6, <2>9, <3>1, <3>2, <3>3 DEF GoodWorkerJob, Happening, NoEvent
  <2>10. CASE next = "retrying"
    <3>1. event = "WorkerJobRetryScheduled" /\ b.attempt > 0 /\ b.attempt <= MaxAttempts
      BY <2>1, <2>3, <2>4, <2>10, DomainBounds DEF Attempts
    <3>2. a.status \in {"queued", "reserved", "running", "retrying"}
      BY <2>4, <2>10 DEF GoodWorkerJob, WorkerJobTransitions
    <3> QED BY <2>3, <2>4, <2>6, <2>10, <3>1, <3>2 DEF GoodWorkerJob, Happening, NoEvent
  <2>11. CASE next = "dead"
    <3>1. event = "WorkerJobDead" /\ {"deadLetterReason", "failureCategory"} \subseteq b.has
      BY <2>1, <2>3, <2>4, <2>11
    <3>2. a.status \in {"queued", "reserved", "running", "retrying", "dead"}
      BY <2>4, <2>11 DEF GoodWorkerJob, WorkerJobTransitions
    <3> QED BY <2>3, <2>4, <2>6, <2>11, <3>1, <3>2 DEF GoodWorkerJob, Happening, NoEvent
  <2> QED BY <2>1, <2>7, <2>8, <2>9, <2>10, <2>11
<1> QED BY <1>1, <1>2

\* A health status is classified as any category, whatever it was.
LEMMA ClassifyBecomes ==
  ASSUME NEW a, IsAgg(a), NEW category, NEW event, event # NoEvent, NEW cause
  PROVE  LET b == ClassifyHealth(a, category, event, cause) IN
         Becomes(a, b, category, a.has \cup cause, event) /\ Same(a, b)
<1> DEFINE has == a.has \cup cause
           d == [a EXCEPT !.status = category, !.was = a.was \cup {a.status}, !.has = has]
           b == ClassifyHealth(a, category, event, cause)
<1>1. b = Emit(d, event)
  BY DEF ClassifyHealth
<1> HIDE DEF has
<1>2. /\ IsAgg(d) /\ d.kind = a.kind /\ d.status = category /\ d.has = has
      /\ d.events = a.events /\ d.news = a.news /\ d.was = a.was \cup {a.status}
      /\ Same(a, d)
  BY Restated
<1> HIDE DEF d, b
<1>3. Becomes(d, b, d.status, d.has, event) /\ Same(d, b)
  BY <1>1, <1>2, EmitBecomes
<1>4. Becomes(a, b, category, has, event) /\ Same(a, b)
  BY <1>2, <1>3 DEF Becomes, Same
<1> QED BY <1>4 DEF b, has

HealthStatusCalls(a) ==
  {ClassifyHealthy(a), ClassifyDegraded(a), ClassifyUnavailable(a),
   MarkHealthActionRequired(a), MarkHealthRecovered(a)}

\* Whatever a health status is asked, it stays a good one, or the call is refused.
LEMMA HealthStatusKeeps ==
  ASSUME NEW a, GoodHealthStatus(a), NEW b \in HealthStatusCalls(a)
  PROVE  GoodHealthStatus(b)
<1>1. IsAgg(a)
  BY DEF GoodHealthStatus
<1>2. PICK category, event, cause :
        /\ b = ClassifyHealth(a, category, event, cause)
        /\ <<category, event>> \in
             {<<"healthy", "HealthStatusChanged">>, <<"degraded", "HealthDegraded">>,
              <<"unavailable", "HealthDegraded">>, <<"action_required",
                  "HealthActionRequired">>,
              <<"recovered", "HealthRecovered">>}
  BY DEF HealthStatusCalls, ClassifyHealthy, ClassifyDegraded, ClassifyUnavailable,
         MarkHealthActionRequired, MarkHealthRecovered
<1>3. event # NoEvent
  BY <1>2 DEF NoEvent
<1>4. Becomes(a, b, category, a.has \cup cause, event) /\ Same(a, b)
  BY <1>1, <1>2, <1>3, ClassifyBecomes
<1> QED BY <1>2, <1>3, <1>4 DEF Becomes, Same, Bare, GoodHealthStatus, Happening,
                                HealthStatusContracts, NoEvent

-----------------------------------------------------------------------------
(***************************************************************************)
(* What the factories make is good.                                        *)
(***************************************************************************)
\* An aggregate just made, and told of no more than its making.
JustMade(a, kind, status, has, event) ==
  /\ IsAgg(a) /\ a.kind = kind /\ a.status = status /\ a.has = has /\ a.items = << >>
  /\ a.attempt = 0 /\ a.events = {} /\ a.news = event /\ a.was = {}

\* A record of nothing but its status and data.
LEMMA NewIsJustMade ==
  ASSUME NEW kind, kind # "none", NEW status, NEW has
  PROVE  JustMade(New(kind, status, has), kind, status, has, NoEvent)
BY DEF New, IsAgg, JustMade

\* The same, with the event that tells of it.
LEMMA ToldIsJustMade ==
  ASSUME NEW kind, kind # "none", NEW status, NEW has, NEW event, event # NoEvent
  PROVE  JustMade(Emit(New(kind, status, has), event), kind, status, has, event)
<1> DEFINE a == New(kind, status, has)
           b == Emit(a, event)
<1>1. JustMade(a, kind, status, has, NoEvent)
  BY NewIsJustMade
<1> HIDE DEF a
<1>2. Becomes(a, b, a.status, a.has, event) /\ Same(a, b) /\ b.was = a.was
  BY <1>1, EmitBecomes DEF JustMade
<1> HIDE DEF b
<1>3. JustMade(b, kind, status, has, event)
  BY <1>1, <1>2 DEF Becomes, Same, JustMade
<1> QED BY <1>3 DEF a, b

\* What makes an instance makes a good one.
LEMMA InstanceMade == GoodInstance(CreateInstance)
<1>1. JustMade(CreateInstance, "Instance", "created", {}, "InstanceCreated")
  BY ToldIsJustMade DEF CreateInstance, NoEvent
<1> QED
  BY <1>1 DEF JustMade, GoodInstance, Bare, Happening, InstanceTransitions, InstanceContracts

\* What makes a session makes a good one.
LEMMA SessionMade ==
  ASSUME NEW pairing \in BOOLEAN
  PROVE  GoodSession(CreateSessionAggregate(pairing))
<1> DEFINE a == CreateSession
           b == StartSessionPairing(a)
<1>1. JustMade(a, "Session", "empty", {}, NoEvent)
  BY NewIsJustMade DEF CreateSession
<1> HIDE DEF a
<1>2. GoodSession(a)
  BY <1>1 DEF JustMade, GoodSession, Bare, Happening, SessionTransitions, NoEvent
<1>3. b # Throws
  BY <1>1, TransitionAllows
     DEF JustMade, StartSessionPairing, TransitionSession, SessionTransitions
<1>4. GoodSession(b)
  BY <1>2, <1>3, SessionKeeps DEF SessionCalls
<1> QED BY <1>2, <1>4 DEF CreateSessionAggregate, a

\* What makes a message makes a good one.
LEMMA MessageMade ==
  /\ GoodMessage(CreateInboundMessage)
  /\ \A decided \in BOOLEAN : GoodMessage(CreateOutboundMessageAggregate(decided))
<1> DEFINE a == CreateOutboundMessageIntent
           b == AcceptMessage(a)
<1>1. JustMade(a, "Message", "created", {"outbound"}, NoEvent)
  BY NewIsJustMade DEF CreateOutboundMessageIntent
<1> HIDE DEF a
<1>2. GoodMessage(a)
  BY <1>1 DEF JustMade, GoodMessage, Bare, Happening, MessageTransitions, NoEvent
<1>3. b # Throws
  BY <1>1, TransitionAllows DEF JustMade, AcceptMessage, TransitionMessage, MessageTransitions
<1>4. GoodMessage(b)
  BY <1>2, <1>3, MessageKeeps DEF MessageCalls
<1>5. GoodMessage(CreateInboundMessage)
  <2>1. JustMade(CreateInboundMessage, "Message", "created", {"inbound"},
                                                              "InboundMessageReceived")
    BY ToldIsJustMade DEF CreateInboundMessage, NoEvent
  <2> QED
    BY <2>1 DEF JustMade, GoodMessage, Bare, Happening, MessageTransitions, MessageContracts
<1> QED BY <1>2, <1>4, <1>5 DEF CreateOutboundMessageAggregate, a

\* What makes a media asset makes a good one.
LEMMA MediaAssetMade ==
  ASSUME NEW accept \in BOOLEAN, NEW capture \in BOOLEAN
  PROVE  GoodMediaAsset(CreateMediaAssetAggregate(accept, capture))
<1> DEFINE a == CreateMediaAsset
           b == IF accept THEN AcceptMediaAsset(a) ELSE a
           c == RequestDiagnosticCapture(b)
<1>1. JustMade(a, "MediaAsset", "received", {}, NoEvent)
  BY NewIsJustMade DEF CreateMediaAsset
<1> HIDE DEF a
<1>2. GoodMediaAsset(a) /\ a.status # "cleaned"
  BY <1>1 DEF JustMade, GoodMediaAsset, Bare, Happening, MediaAssetTransitions, NoEvent
<1>3. GoodMediaAsset(b) /\ b.status # "cleaned"
  <2>1. AcceptMediaAsset(a) # Throws
    BY <1>1, TransitionAllows
       DEF JustMade, AcceptMediaAsset, TransitionMediaAsset, MediaAssetTransitions
  <2>2. GoodMediaAsset(AcceptMediaAsset(a))
    BY <1>2, <2>1, MediaAssetKeeps DEF MediaAssetCalls
  <2>3. Moved(a, AcceptMediaAsset(a), "accepted", MediaAssetTransitions, (a.has \ {}) \cup {},
              "MediaAccepted")
    BY <1>1, <2>1, TransitionMoves DEF JustMade, AcceptMediaAsset, TransitionMediaAsset
  <2>4. AcceptMediaAsset(a).status = "accepted"
    BY <2>3 DEF Moved, Becomes
  <2> QED BY <1>2, <2>2, <2>4
<1> HIDE DEF b
<1>4. c # Throws
  BY <1>3, AddingBecomes DEF RequestDiagnosticCapture, GoodMediaAsset, NoEvent
<1>5. GoodMediaAsset(c)
  BY <1>3, <1>4, MediaAssetKeeps DEF MediaAssetCalls
<1> QED BY <1>3, <1>5 DEF CreateMediaAssetAggregate, a, b

\* What makes a group makes a good one.
LEMMA GroupMade ==
  ASSUME NEW members \in MemberLists
  PROVE  GoodGroup(CreateGroup(members))
<1> DEFINE a == New("Group", "discovered", {})
           d == [a EXCEPT !.items = members]
           b == Emit(d, "GroupDiscovered")
<1>1. members \in Seq(GroupMembers) /\ Unique(members, JidOf)
  <2>1. CASE members = << >>
    BY <2>1 DEF Unique
  <2>2. CASE members # << >>
    <3>1. PICK j \in Jids, r \in Roles : members = <<[jid |-> j, role |-> r]>>
      BY <2>2 DEF MemberLists
    <3> DEFINE m == [jid |-> j, role |-> r]
    <3>2. m \in GroupMembers
      BY DEF GroupMembers
    <3> HIDE DEF m
    <3>3. <<m>> \in Seq(GroupMembers) /\ Unique(<<m>>, JidOf)
      BY <3>2 DEF Unique
    <3> QED BY <3>1, <3>3 DEF m
  <2> QED BY <2>1, <2>2
<1>2. JustMade(a, "Group", "discovered", {}, NoEvent)
  BY NewIsJustMade
<1> HIDE DEF a
<1>3. /\ Becomes(a, d, a.status, a.has, NoEvent)
      /\ d.items = members /\ d.attempt = a.attempt
  BY <1>2, PlainBecomes DEF JustMade
<1> HIDE DEF d
<1>4. Becomes(d, b, d.status, d.has, "GroupDiscovered") /\ Same(d, b)
  BY <1>3, EmitBecomes DEF Becomes, NoEvent
<1> HIDE DEF b
<1>5. GoodGroup(b)
  BY <1>1, <1>2, <1>3, <1>4 DEF JustMade, Becomes, Same, GoodGroup, GroupMembers, Happening,
                                GroupTransitions, GroupContracts, NoEvent
<1> QED BY <1>1, <1>5 DEF CreateGroup, a, d, b

\* Chats, contacts and labels are made good.
LEMMA PlainMade ==
  /\ \A labels \in {<< >>} \cup {<<l>> : l \in LabelIds} : GoodChat(CreateChat(labels))
  /\ \A profile : GoodContact(CreateContact(profile))
  /\ \A color : GoodLabel(CreateLabel(color))
<1>1. ASSUME NEW labels \in {<< >>} \cup {<<l>> : l \in LabelIds}
      PROVE  GoodChat(CreateChat(labels))
  <2> DEFINE a == New("Chat", "open", {})
             b == [a EXCEPT !.items = labels]
  <2>1. labels \in Seq(LabelIds) /\ Unique(labels, Itself)
    <3>1. CASE labels = << >>
      BY <3>1 DEF Unique
    <3>2. CASE labels # << >>
      <4>1. PICK l \in LabelIds : labels = <<l>>
        BY <3>2
      <4> QED BY <4>1 DEF Unique
    <3> QED BY <3>1, <3>2
  <2>2. JustMade(a, "Chat", "open", {}, NoEvent)
    BY NewIsJustMade
  <2> HIDE DEF a
  <2>3. Becomes(a, b, a.status, a.has, NoEvent) /\ b.items = labels /\ b.attempt = a.attempt
    BY <2>2, PlainBecomes DEF JustMade
  <2> HIDE DEF b
  <2>4. GoodChat(b)
    BY <2>1, <2>2, <2>3 DEF JustMade, Becomes, GoodChat, Eventless, ChatStatuses
  <2> QED BY <2>1, <2>4 DEF CreateChat, a, b
<1>2. ASSUME NEW profile
      PROVE  GoodContact(CreateContact(profile))
  <2>1. JustMade(CreateContact(profile), "Contact", "discovered", profile, NoEvent)
    BY NewIsJustMade DEF CreateContact
  <2> QED BY <2>1 DEF JustMade, GoodContact, Eventless
<1>3. ASSUME NEW color
      PROVE  GoodLabel(CreateLabel(color))
  <2>1. JustMade(CreateLabel(color), "Label", "active", color, NoEvent)
    BY NewIsJustMade DEF CreateLabel
  <2> QED BY <2>1 DEF JustMade, GoodLabel, Eventless
<1> QED BY <1>1, <1>2, <1>3

\* Webhook subscriptions and deliveries are made good.
LEMMA DeliveryMade ==
  GoodWebhookSubscription(CreateWebhookSubscription) /\ GoodWebhookDelivery(ScheduleWebhookDelivery)
<1>1. JustMade(CreateWebhookSubscription, "WebhookSubscription", "proposed", {},
            "WebhookSubscriptionProposed")
  BY ToldIsJustMade DEF CreateWebhookSubscription, NoEvent
<1>2. JustMade(ScheduleWebhookDelivery, "WebhookDelivery", "pending", {},
                                                                       "WebhookDeliveryScheduled")
  BY ToldIsJustMade DEF ScheduleWebhookDelivery, NoEvent
<1>3. GoodWebhookSubscription(CreateWebhookSubscription)
  BY <1>1
     DEF JustMade, GoodWebhookSubscription, Bare, Happening, WebhookSubscriptionTransitions,
              WebhookSubscriptionContracts
<1>4. GoodWebhookDelivery(ScheduleWebhookDelivery)
  BY <1>2 DEF JustMade, GoodWebhookDelivery, Happening, WebhookDeliveryTransitions,
              WebhookDeliveryContracts
<1> QED BY <1>3, <1>4

\* What makes a worker job makes a good one.
LEMMA WorkerJobMade == GoodWorkerJob(QueueWorkerJob)
<1>1. JustMade(QueueWorkerJob, "WorkerJob", "queued", {}, "WorkerJobQueued")
  BY ToldIsJustMade DEF QueueWorkerJob, NoEvent
<1> QED BY <1>1 DEF JustMade, GoodWorkerJob, Happening, WorkerJobTransitions, WorkerJobContracts

\* What makes a guardrail decision makes a good one.
LEMMA GuardrailDecisionMade ==
  /\ GoodGuardrailDecision(RequestGuardrailDecision)
  /\ \A o \in GuardrailOutcomes : GoodGuardrailDecision(CreateGuardrailDecisionAggregate(o))
<1> DEFINE a == RequestGuardrailDecision
           Outcomes == {PassGuardrailDecision(a), BlockGuardrailDecision(a),
                        ThrottleGuardrailDecision(a), RequireGuardrailAction(a)}
<1>1. JustMade(a, "GuardrailDecision", "requested", {}, NoEvent)
  BY NewIsJustMade DEF RequestGuardrailDecision
<1> HIDE DEF a
<1>2. GoodGuardrailDecision(a)
  BY <1>1 DEF JustMade, GoodGuardrailDecision, Bare, Happening, NoEvent
<1>3. ASSUME NEW b \in Outcomes
      PROVE  GoodGuardrailDecision(b)
  <2>1. PICK next, event, sets, clears :
               /\ next \in {"passed", "blocked", "throttled", "action_required"}
               /\ b = Transition(a, next, GuardrailDecisionTransitions, event, sets, clears)
    BY DEF PassGuardrailDecision, BlockGuardrailDecision, ThrottleGuardrailDecision,
           RequireGuardrailAction, TransitionGuardrailDecision
  <2>2. b # Throws
    BY <1>1, <2>1, TransitionAllows DEF JustMade, GuardrailDecisionTransitions
  <2> QED BY <1>2, <2>2, GuardrailDecisionKeeps DEF GuardrailDecisionCalls
<1>4. \A o \in GuardrailOutcomes : CreateGuardrailDecisionAggregate(o) \in Outcomes
  BY DEF GuardrailOutcomes, CreateGuardrailDecisionAggregate, a
<1> QED BY <1>2, <1>3, <1>4 DEF a

\* What makes a provider profile makes a good one.
LEMMA ProviderProfileMade ==
  ASSUME NEW s \in {"candidate", "supported", "degraded", "unsupported"},
         NEW c \in SUBSET Capabilities
  PROVE  GoodProviderProfile(CreateProviderProfileAggregate(s, c))
<1> DEFINE a == CreateProviderProfile
           Profiles == {MarkProviderSupported(a, c), MarkProviderDegraded(a),
                        MarkProviderUnsupported(a)}
<1>1. JustMade(a, "ProviderProfile", "candidate", {}, NoEvent)
  BY NewIsJustMade DEF CreateProviderProfile
<1> HIDE DEF a
<1>2. GoodProviderProfile(a)
  BY <1>1
     DEF JustMade, GoodProviderProfile, Bare, Happening, ProviderProfileTransitions, NoEvent
<1>3. ASSUME NEW b \in Profiles
      PROVE  GoodProviderProfile(b)
  <2>1. PICK next, event, sets, clears :
               /\ next \in {"supported", "degraded", "unsupported"}
               /\ b = Transition(a, next, ProviderProfileTransitions, event, sets, clears)
    BY DEF MarkProviderSupported, MarkProviderDegraded, MarkProviderUnsupported,
           TransitionProviderProfile
  <2>2. b # Throws
    BY <1>1, <2>1, TransitionAllows DEF JustMade, ProviderProfileTransitions
  <2> QED BY <1>2, <2>2, ProviderProfileKeeps DEF ProviderProfileCalls
<1>4. CreateProviderProfileAggregate(s, c) \in Profiles \cup {a}
  BY DEF CreateProviderProfileAggregate, a
<1> QED BY <1>2, <1>3, <1>4

\* What makes an access decision makes a good one.
LEMMA AccessDecisionMade ==
  /\ GoodAccessDecision(RequestAccessDecision)
  /\ \A o \in {"granted", "denied"}, privileged \in BOOLEAN :
        GoodAccessDecision(CreateAccessDecisionAggregate(o, privileged))
<1> DEFINE a == RequestAccessDecision
           m == MarkPrivilegedAction(a)
<1>1. JustMade(a, "AccessDecision", "requested", {}, NoEvent)
  BY NewIsJustMade DEF RequestAccessDecision
<1> HIDE DEF a
<1>2. GoodAccessDecision(a) /\ a.status = "requested"
  BY <1>1 DEF JustMade, GoodAccessDecision, Bare, Happening, AccessDecisionTransitions, NoEvent
<1>3. GoodAccessDecision(m) /\ m.status = "requested"
  <2>1. m # Throws /\ Becomes(a, m, a.status, a.has \cup {"privileged", "auditEligible"},
                              "PrivilegedActionMarked")
    BY <1>1, AddingBecomes DEF JustMade, MarkPrivilegedAction, NoEvent
  <2>2. GoodAccessDecision(m)
    BY <1>2, <2>1, AccessDecisionKeeps DEF AccessDecisionCalls
  <2> QED BY <1>2, <2>1, <2>2 DEF Becomes
<1> HIDE DEF m
<1>4. ASSUME NEW asked \in {a, m}, NEW b \in {GrantAccessDecision(asked),
                                              DenyAccessDecision(asked)}
      PROVE  GoodAccessDecision(b)
  <2>1. PICK next, event, sets :
               /\ next \in {"granted", "denied"}
               /\ b = Transition(asked, next, AccessDecisionTransitions, event, sets, {})
    BY DEF GrantAccessDecision, DenyAccessDecision, TransitionAccessDecision
  <2>2. IsAgg(asked) /\ asked.status = "requested"
    BY <1>2, <1>3 DEF GoodAccessDecision
  <2>3. b # Throws
    BY <2>1, <2>2, TransitionAllows DEF AccessDecisionTransitions
  <2> QED BY <1>2, <1>3, <2>3, AccessDecisionKeeps DEF AccessDecisionCalls
<1> QED BY <1>2, <1>4 DEF CreateAccessDecisionAggregate, a, m

\* What makes an audit record makes a good one.
LEMMA AuditRecordMade ==
  /\ GoodAuditRecord(RequestAuditRecord)
  /\ \A redacted \in BOOLEAN : GoodAuditRecord(CreateAuditRecordAggregate(redacted))
<1> DEFINE a == RequestAuditRecord
           m == ApplyAuditRedaction(a)
<1>1. JustMade(a, "AuditRecord", "requested", {}, "AuditRecordRequested")
  BY ToldIsJustMade DEF RequestAuditRecord, NoEvent
<1> HIDE DEF a
<1>2. GoodAuditRecord(a) /\ a.status = "requested"
  BY <1>1
     DEF JustMade, GoodAuditRecord, Bare, Happening, AuditRecordTransitions,
         AuditRecordContracts
<1>3. GoodAuditRecord(m) /\ m.status = "requested"
  <2>1. m # Throws /\ Becomes(a, m, a.status, a.has \cup {"redacted"}, "AuditRedactionApplied")
    BY <1>1, AddingBecomes DEF JustMade, ApplyAuditRedaction, NoEvent
  <2>2. GoodAuditRecord(m)
    BY <1>2, <2>1, AuditRecordKeeps DEF AuditRecordCalls
  <2> QED BY <1>2, <2>1, <2>2 DEF Becomes
<1> HIDE DEF m
<1>4. ASSUME NEW asked \in {a, m}
      PROVE  GoodAuditRecord(RecordAuditEvidence(asked))
  <2>1. IsAgg(asked) /\ asked.status = "requested"
    BY <1>2, <1>3 DEF GoodAuditRecord
  <2>2. RecordAuditEvidence(asked) # Throws
    BY <2>1, TransitionAllows
       DEF RecordAuditEvidence, TransitionAuditRecord, AuditRecordTransitions
  <2> QED BY <1>2, <1>3, <2>2, AuditRecordKeeps DEF AuditRecordCalls
<1> QED BY <1>2, <1>4 DEF CreateAuditRecordAggregate, a, m

\* What makes a health status makes a good one.
LEMMA HealthStatusMade ==
  ASSUME NEW c \in {"healthy", "degraded", "unavailable", "action_required", "recovered",
                    "unknown"}
  PROVE  GoodHealthStatus(CreateHealthStatusAggregate(c))
<1> DEFINE a == CreateHealthStatus
<1>1. JustMade(a, "HealthStatus", "unknown", {}, NoEvent)
  BY NewIsJustMade DEF CreateHealthStatus
<1> HIDE DEF a
<1>2. GoodHealthStatus(a)
  BY <1>1 DEF JustMade, GoodHealthStatus, Bare, Happening, NoEvent
<1>3. CreateHealthStatusAggregate(c) \in HealthStatusCalls(a) \cup {a}
  BY DEF CreateHealthStatusAggregate, HealthStatusCalls, a
<1> QED BY <1>2, <1>3, HealthStatusKeeps

\* What makes a configuration snapshot makes a good one.
LEMMA ConfigurationSnapshotMade ==
  ASSUME NEW s \in Safeties
  PROVE  /\ GoodConfigurationSnapshot(ProposeConfigurationSnapshot(s))
         /\ GoodConfigurationSnapshot(CreateConfigurationSnapshotAggregate(s))
<1> DEFINE a == ProposeConfigurationSnapshot(s)
           b == CreateConfigurationSnapshotAggregate(s)
<1>1. JustMade(a, "ConfigurationSnapshot", "proposed", {s}, NoEvent)
  BY NewIsJustMade DEF ProposeConfigurationSnapshot
<1> HIDE DEF a
<1>2. GoodConfigurationSnapshot(a)
  BY <1>1 DEF JustMade, GoodConfigurationSnapshot, Bare, Happening,
              ConfigurationSnapshotTransitions, NoEvent
<1>3. b \in ConfigurationSnapshotCalls(a)
  BY DEF CreateConfigurationSnapshotAggregate, ConfigurationSnapshotCalls, Safeties, a
<1>4. PICK next, event, sets :
             /\ next \in {"validated", "rejected"}
             /\ b = Transition(a, next, ConfigurationSnapshotTransitions, event, sets, {})
  BY <1>1 DEF JustMade, CreateConfigurationSnapshotAggregate, ValidateConfigurationSnapshot,
         RejectConfigurationSnapshot, RejectGuardrailBypassConfiguration,
         TransitionConfigurationSnapshot, Safeties, a
<1>5. b # Throws
  BY <1>1, <1>4, TransitionAllows DEF JustMade, ConfigurationSnapshotTransitions
<1>6. GoodConfigurationSnapshot(b)
  BY <1>2, <1>3, <1>5, ConfigurationSnapshotKeeps
<1> QED BY <1>2, <1>6 DEF a

\* What makes a telemetry signal makes a good one.
LEMMA TelemetrySignalMade ==
  /\ GoodTelemetrySignal(CaptureTelemetrySignal)
  /\ \A safe \in BOOLEAN : GoodTelemetrySignal(CreateTelemetrySignalAggregate(safe))
<1> DEFINE a == CaptureTelemetrySignal
<1>1. JustMade(a, "TelemetrySignal", "captured", {}, "TelemetryCaptured")
  BY ToldIsJustMade DEF CaptureTelemetrySignal, NoEvent
<1> HIDE DEF a
<1>2. GoodTelemetrySignal(a)
  BY <1>1 DEF JustMade, GoodTelemetrySignal, Bare, Happening, TelemetrySignalTransitions,
              TelemetrySignalContracts
<1>3. ASSUME NEW b \in {SanitizeTelemetrySignal(a), DropTelemetrySignal(a)}
      PROVE  GoodTelemetrySignal(b)
  <2>1. PICK next, event, sets :
               /\ next \in {"sanitized", "dropped"}
               /\ b = Transition(a, next, TelemetrySignalTransitions, event, sets, {})
    BY DEF SanitizeTelemetrySignal, DropTelemetrySignal, TransitionTelemetrySignal
  <2>2. b # Throws
    BY <1>1, <2>1, TransitionAllows DEF JustMade, TelemetrySignalTransitions
  <2> QED BY <1>2, <2>2, TelemetrySignalKeeps DEF TelemetrySignalCalls
<1> QED BY <1>2, <1>3 DEF CreateTelemetrySignalAggregate, a

\* Every aggregate starts good.
LEMMA MadeIsGood ==
  ASSUME NEW a \in Made
  PROVE  GoodAggregate(a)
<1>1. ASSUME a \in {CreateInstance, CreateInboundMessage, CreateWebhookSubscription,
                    ScheduleWebhookDelivery, QueueWorkerJob, RequestGuardrailDecision,
                    RequestAccessDecision, RequestAuditRecord, CaptureTelemetrySignal}
      PROVE  GoodAggregate(a)
  BY <1>1, InstanceMade, MessageMade, DeliveryMade, WorkerJobMade, GuardrailDecisionMade,
     AccessDecisionMade, AuditRecordMade, TelemetrySignalMade DEF GoodAggregate
<1>2. ASSUME a \in {CreateSessionAggregate(b) : b \in BOOLEAN}
      PROVE  GoodSession(a)
  BY <1>2, SessionMade
<1>3. ASSUME a \in {CreateOutboundMessageAggregate(b) : b \in BOOLEAN}
      PROVE  GoodMessage(a)
  BY <1>3, MessageMade
<1>4. ASSUME a \in {CreateMediaAssetAggregate(b, c) : b, c \in BOOLEAN}
      PROVE  GoodMediaAsset(a)
  BY <1>4, MediaAssetMade
<1>5. ASSUME a \in {CreateGroup(members) : members \in MemberLists}
      PROVE  GoodGroup(a)
  BY <1>5, GroupMade
<1>6. ASSUME a \in {CreateChat(labels) : labels \in {<< >>} \cup {<<l>> : l \in LabelIds}}
      PROVE  GoodChat(a)
  BY <1>6, PlainMade
<1>7. ASSUME a \in {CreateContact(p) : p \in SUBSET {"displayName", "phoneNumber"}}
      PROVE  GoodContact(a)
  BY <1>7, PlainMade
<1>8. ASSUME a \in {CreateLabel(c) : c \in {{}, {"colorCode"}}}
      PROVE  GoodLabel(a)
  BY <1>8, PlainMade
<1>9. ASSUME a \in {CreateGuardrailDecisionAggregate(o) : o \in GuardrailOutcomes}
      PROVE  GoodGuardrailDecision(a)
  BY <1>9, GuardrailDecisionMade
<1>10. ASSUME a \in {CreateProviderProfileAggregate(s, c) :
                       s \in {"candidate", "supported", "degraded", "unsupported"},
                       c \in SUBSET Capabilities}
       PROVE  GoodProviderProfile(a)
  BY <1>10, ProviderProfileMade
<1>11. ASSUME a \in {CreateAccessDecisionAggregate(o, b) : o \in {"granted", "denied"},
                                                                  b \in BOOLEAN}
       PROVE  GoodAccessDecision(a)
  BY <1>11, AccessDecisionMade
<1>12. ASSUME a \in {CreateAuditRecordAggregate(b) : b \in BOOLEAN}
       PROVE  GoodAuditRecord(a)
  BY <1>12, AuditRecordMade
<1>13. ASSUME a \in {CreateHealthStatusAggregate(c) :
                       c \in {"healthy", "degraded", "unavailable", "action_required",
                              "recovered", "unknown"}}
       PROVE  GoodHealthStatus(a)
  BY <1>13, HealthStatusMade
<1>14. ASSUME a \in {CreateConfigurationSnapshotAggregate(s) : s \in Safeties}
                      \cup {ProposeConfigurationSnapshot(s) : s \in Safeties}
       PROVE  GoodConfigurationSnapshot(a)
  BY <1>14, ConfigurationSnapshotMade
<1>15. ASSUME a \in {CreateTelemetrySignalAggregate(b) : b \in BOOLEAN}
       PROVE  GoodTelemetrySignal(a)
  BY <1>15, TelemetrySignalMade
<1>16. \/ a \in {CreateInstance, CreateInboundMessage, CreateWebhookSubscription,
                 ScheduleWebhookDelivery, QueueWorkerJob, RequestGuardrailDecision,
                 RequestAccessDecision, RequestAuditRecord, CaptureTelemetrySignal}
       \/ a \in {CreateSessionAggregate(b) : b \in BOOLEAN}
       \/ a \in {CreateOutboundMessageAggregate(b) : b \in BOOLEAN}
       \/ a \in {CreateMediaAssetAggregate(b, c) : b, c \in BOOLEAN}
       \/ a \in {CreateGroup(members) : members \in MemberLists}
       \/ a \in {CreateChat(labels) : labels \in {<< >>} \cup {<<l>> : l \in LabelIds}}
       \/ a \in {CreateContact(p) : p \in SUBSET {"displayName", "phoneNumber"}}
       \/ a \in {CreateLabel(c) : c \in {{}, {"colorCode"}}}
       \/ a \in {CreateGuardrailDecisionAggregate(o) : o \in GuardrailOutcomes}
       \/ a \in {CreateProviderProfileAggregate(s, c) :
                   s \in {"candidate", "supported", "degraded", "unsupported"},
                   c \in SUBSET Capabilities}
       \/ a \in {CreateAccessDecisionAggregate(o, b) : o \in {"granted", "denied"},
                                                              b \in BOOLEAN}
       \/ a \in {CreateAuditRecordAggregate(b) : b \in BOOLEAN}
       \/ a \in {CreateHealthStatusAggregate(c) :
                   c \in {"healthy", "degraded", "unavailable", "action_required",
                          "recovered", "unknown"}}
       \/ a \in {CreateConfigurationSnapshotAggregate(s) : s \in Safeties}
                  \cup {ProposeConfigurationSnapshot(s) : s \in Safeties}
       \/ a \in {CreateTelemetrySignalAggregate(b) : b \in BOOLEAN}
  BY SMT DEF Made
<1> QED
  BY <1>1, <1>2, <1>3, <1>4, <1>5, <1>6, <1>7, <1>8, <1>9, <1>10, <1>11, <1>12, <1>13, <1>14,
     <1>15, <1>16 DEF GoodAggregate

-----------------------------------------------------------------------------
(***************************************************************************)
(* The invariant.                                                          *)
(***************************************************************************)
\* The kinds are told apart by the field kind.
LEMMA OfKind ==
  ASSUME NEW a, GoodAggregate(a)
  PROVE  /\ a.kind = "Instance" => GoodInstance(a)
         /\ a.kind = "Session" => GoodSession(a)
         /\ a.kind = "Message" => GoodMessage(a)
         /\ a.kind = "MediaAsset" => GoodMediaAsset(a)
         /\ a.kind = "Group" => GoodGroup(a)
         /\ a.kind = "Chat" => GoodChat(a)
         /\ a.kind = "Contact" => GoodContact(a)
         /\ a.kind = "Label" => GoodLabel(a)
         /\ a.kind = "WebhookSubscription" => GoodWebhookSubscription(a)
         /\ a.kind = "WebhookDelivery" => GoodWebhookDelivery(a)
         /\ a.kind = "WorkerJob" => GoodWorkerJob(a)
         /\ a.kind = "GuardrailDecision" => GoodGuardrailDecision(a)
         /\ a.kind = "AccessDecision" => GoodAccessDecision(a)
         /\ a.kind = "AuditRecord" => GoodAuditRecord(a)
         /\ a.kind = "TelemetrySignal" => GoodTelemetrySignal(a)
         /\ a.kind = "HealthStatus" => GoodHealthStatus(a)
         /\ a.kind = "ConfigurationSnapshot" => GoodConfigurationSnapshot(a)
         /\ a.kind = "ProviderProfile" => GoodProviderProfile(a)
<1>1. GoodInstance(a) => a.kind = "Instance"
  BY DEF GoodInstance
<1>2. GoodSession(a) => a.kind = "Session"
  BY DEF GoodSession
<1>3. GoodMessage(a) => a.kind = "Message"
  BY DEF GoodMessage
<1>4. GoodMediaAsset(a) => a.kind = "MediaAsset"
  BY DEF GoodMediaAsset
<1>5. GoodGroup(a) => a.kind = "Group"
  BY DEF GoodGroup
<1>6. GoodChat(a) => a.kind = "Chat"
  BY DEF GoodChat
<1>7. GoodContact(a) => a.kind = "Contact"
  BY DEF GoodContact
<1>8. GoodLabel(a) => a.kind = "Label"
  BY DEF GoodLabel
<1>9. GoodWebhookSubscription(a) => a.kind = "WebhookSubscription"
  BY DEF GoodWebhookSubscription
<1>10. GoodWebhookDelivery(a) => a.kind = "WebhookDelivery"
  BY DEF GoodWebhookDelivery
<1>11. GoodWorkerJob(a) => a.kind = "WorkerJob"
  BY DEF GoodWorkerJob
<1>12. GoodGuardrailDecision(a) => a.kind = "GuardrailDecision"
  BY DEF GoodGuardrailDecision
<1>13. GoodAccessDecision(a) => a.kind = "AccessDecision"
  BY DEF GoodAccessDecision
<1>14. GoodAuditRecord(a) => a.kind = "AuditRecord"
  BY DEF GoodAuditRecord
<1>15. GoodTelemetrySignal(a) => a.kind = "TelemetrySignal"
  BY DEF GoodTelemetrySignal
<1>16. GoodHealthStatus(a) => a.kind = "HealthStatus"
  BY DEF GoodHealthStatus
<1>17. GoodConfigurationSnapshot(a) => a.kind = "ConfigurationSnapshot"
  BY DEF GoodConfigurationSnapshot
<1>18. GoodProviderProfile(a) => a.kind = "ProviderProfile"
  BY DEF GoodProviderProfile
<1> QED
  BY <1>1, <1>2, <1>3, <1>4, <1>5, <1>6, <1>7, <1>8, <1>9, <1>10, <1>11, <1>12, <1>13, <1>14,
     <1>15, <1>16, <1>17, <1>18
     DEF GoodAggregate

\* A call leaves a good aggregate good.
LEMMA AggregateKeeps ==
  ASSUME GoodAggregate(agg), LibraryNext
  PROVE  GoodAggregate(agg)'
<1>1. ASSUME InstanceCall
      PROVE  GoodInstance(agg')
  <2>1. agg' \in InstanceCalls(agg) /\ agg' # Throws
    BY <1>1 DEF InstanceCall, Call, InstanceCalls
  <2>2. GoodInstance(agg)
    BY <1>1, OfKind DEF InstanceCall, Is
  <2> QED BY <2>1, <2>2, InstanceKeeps
<1>2. ASSUME SessionCall
      PROVE  GoodSession(agg')
  <2>1. agg' \in SessionCalls(agg) /\ agg' # Throws
    BY <1>2 DEF SessionCall, Call, SessionCalls
  <2>2. GoodSession(agg)
    BY <1>2, OfKind DEF SessionCall, Is
  <2> QED BY <2>1, <2>2, SessionKeeps
<1>3. ASSUME MessageCall
      PROVE  GoodMessage(agg')
  <2>1. agg' \in MessageCalls(agg) /\ agg' # Throws
    BY <1>3 DEF MessageCall, Call, MessageCalls
  <2>2. GoodMessage(agg)
    BY <1>3, OfKind DEF MessageCall, Is
  <2> QED BY <2>1, <2>2, MessageKeeps
<1>4. ASSUME MediaAssetCall
      PROVE  GoodMediaAsset(agg')
  <2>1. agg' \in MediaAssetCalls(agg) /\ agg' # Throws
    BY <1>4 DEF MediaAssetCall, Call, MediaAssetCalls
  <2>2. GoodMediaAsset(agg)
    BY <1>4, OfKind DEF MediaAssetCall, Is
  <2> QED BY <2>1, <2>2, MediaAssetKeeps
<1>5. ASSUME GroupCall
      PROVE  GoodGroup(agg')
  <2>1. agg' \in GroupCalls(agg) /\ agg' # Throws
    BY <1>5 DEF GroupCall, Call, GroupCalls
  <2>2. GoodGroup(agg)
    BY <1>5, OfKind DEF GroupCall, Is
  <2> QED BY <2>1, <2>2, GroupKeeps
<1>6. ASSUME WebhookSubscriptionCall
      PROVE  GoodWebhookSubscription(agg')
  <2>1. agg' \in WebhookSubscriptionCalls(agg) /\ agg' # Throws
    BY <1>6 DEF WebhookSubscriptionCall, Call, WebhookSubscriptionCalls
  <2>2. GoodWebhookSubscription(agg)
    BY <1>6, OfKind DEF WebhookSubscriptionCall, Is
  <2> QED BY <2>1, <2>2, WebhookSubscriptionKeeps
<1>7. ASSUME WebhookDeliveryCall
      PROVE  GoodWebhookDelivery(agg')
  <2>1. agg' \in WebhookDeliveryCalls(agg) /\ agg' # Throws
    BY <1>7 DEF WebhookDeliveryCall, Call, WebhookDeliveryCalls
  <2>2. GoodWebhookDelivery(agg)
    BY <1>7, OfKind DEF WebhookDeliveryCall, Is
  <2> QED BY <2>1, <2>2, WebhookDeliveryKeeps
<1>8. ASSUME WorkerJobCall
      PROVE  GoodWorkerJob(agg')
  <2>1. agg' \in WorkerJobCalls(agg) /\ agg' # Throws
    BY <1>8 DEF WorkerJobCall, Call, WorkerJobCalls
  <2>2. GoodWorkerJob(agg)
    BY <1>8, OfKind DEF WorkerJobCall, Is
  <2> QED BY <2>1, <2>2, WorkerJobKeeps
<1>9. ASSUME GuardrailDecisionCall
      PROVE  GoodGuardrailDecision(agg')
  <2>1. agg' \in GuardrailDecisionCalls(agg) /\ agg' # Throws
    BY <1>9 DEF GuardrailDecisionCall, Call, GuardrailDecisionCalls
  <2>2. GoodGuardrailDecision(agg)
    BY <1>9, OfKind DEF GuardrailDecisionCall, Is
  <2> QED BY <2>1, <2>2, GuardrailDecisionKeeps
<1>10. ASSUME AccessDecisionCall
      PROVE  GoodAccessDecision(agg')
  <2>1. agg' \in AccessDecisionCalls(agg) /\ agg' # Throws
    BY <1>10 DEF AccessDecisionCall, Call, AccessDecisionCalls
  <2>2. GoodAccessDecision(agg)
    BY <1>10, OfKind DEF AccessDecisionCall, Is
  <2> QED BY <2>1, <2>2, AccessDecisionKeeps
<1>11. ASSUME AuditRecordCall
      PROVE  GoodAuditRecord(agg')
  <2>1. agg' \in AuditRecordCalls(agg) /\ agg' # Throws
    BY <1>11 DEF AuditRecordCall, Call, AuditRecordCalls
  <2>2. GoodAuditRecord(agg)
    BY <1>11, OfKind DEF AuditRecordCall, Is
  <2> QED BY <2>1, <2>2, AuditRecordKeeps
<1>12. ASSUME TelemetrySignalCall
      PROVE  GoodTelemetrySignal(agg')
  <2>1. agg' \in TelemetrySignalCalls(agg) /\ agg' # Throws
    BY <1>12 DEF TelemetrySignalCall, Call, TelemetrySignalCalls
  <2>2. GoodTelemetrySignal(agg)
    BY <1>12, OfKind DEF TelemetrySignalCall, Is
  <2> QED BY <2>1, <2>2, TelemetrySignalKeeps
<1>13. ASSUME HealthStatusCall
      PROVE  GoodHealthStatus(agg')
  <2>1. agg' \in HealthStatusCalls(agg) /\ agg' # Throws
    BY <1>13 DEF HealthStatusCall, Call, HealthStatusCalls
  <2>2. GoodHealthStatus(agg)
    BY <1>13, OfKind DEF HealthStatusCall, Is
  <2> QED BY <2>1, <2>2, HealthStatusKeeps
<1>14. ASSUME ConfigurationSnapshotCall
      PROVE  GoodConfigurationSnapshot(agg')
  <2>1. agg' \in ConfigurationSnapshotCalls(agg) /\ agg' # Throws
    BY <1>14 DEF ConfigurationSnapshotCall, Call, ConfigurationSnapshotCalls
  <2>2. GoodConfigurationSnapshot(agg)
    BY <1>14, OfKind DEF ConfigurationSnapshotCall, Is
  <2> QED BY <2>1, <2>2, ConfigurationSnapshotKeeps
<1>15. ASSUME ProviderProfileCall
      PROVE  GoodProviderProfile(agg')
  <2>1. agg' \in ProviderProfileCalls(agg) /\ agg' # Throws
    BY <1>15 DEF ProviderProfileCall, Call, ProviderProfileCalls
  <2>2. GoodProviderProfile(agg)
    BY <1>15, OfKind DEF ProviderProfileCall, Is
  <2> QED BY <2>1, <2>2, ProviderProfileKeeps
<1>16. ASSUME PlainCall
       PROVE  GoodChat(agg') \/ GoodContact(agg') \/ GoodLabel(agg')
  <2>1. CASE Is("Chat")
    <3>1. agg' \in ChatCalls(agg) /\ agg' # Throws
      BY <1>16, <2>1 DEF PlainCall, Is, Call, ChatCalls
    <3> QED BY <2>1, <3>1, OfKind, ChatKeeps DEF Is
  <2>2. CASE Is("Contact")
    <3>1. agg' \in ContactCalls(agg)
      BY <1>16, <2>2 DEF PlainCall, Is, Call, ContactCalls
    <3> QED BY <2>2, <3>1, OfKind, ContactKeeps DEF Is
  <2>3. CASE Is("Label")
    <3>1. PICK s \in LabelChanges : agg' = SetStatus(agg, s)
      BY <1>16, <2>3 DEF PlainCall, Is, Call
    <3> QED BY <2>3, <3>1, OfKind, LabelKeeps DEF Is
  <2> QED BY <1>16, <2>1, <2>2, <2>3 DEF PlainCall
<1> QED
  BY <1>1, <1>2, <1>3, <1>4, <1>5, <1>6, <1>7, <1>8, <1>9, <1>10, <1>11, <1>12, <1>13, <1>14,
     <1>15, <1>16
     DEF LibraryNext, GoodAggregate

\* Whatever a program calls, and in whatever order, an aggregate stays good
\* (transitionStatus with the transition tables of the eighteen kinds).
THEOREM AggregateIsGood == LibrarySpec => []GoodAggregate(agg)
<1>1. LibraryInit => GoodAggregate(agg)
  BY MadeIsGood DEF LibraryInit
<1>2. GoodAggregate(agg) /\ [LibraryNext]_agg => GoodAggregate(agg)'
  <2>1. CASE LibraryNext
    BY <2>1, AggregateKeeps
  <2>2. CASE UNCHANGED agg
    <3>1. agg' = agg
      BY <2>2
    <3> QED BY <3>1
  <2> QED BY <2>1, <2>2
<1> QED BY <1>1, <1>2, PTL DEF LibrarySpec

-----------------------------------------------------------------------------
(***************************************************************************)
(* The order the contracts require of events.                              *)
(***************************************************************************)
\* What each order requires, one by one.
LEMMA RequiredIs ==
  /\ Required["first_for_aggregate"] <=> Before = {}
  /\ Required["first_for_group"] <=> Before = {}
  /\ Required["first_for_job"] <=> Before = {}
  /\ Required["after_connect_intent"] <=> "connecting" \in agg.was
  /\ Required["after_created_not_destroyed"] <=>
        (SomeBefore({"InstanceCreated"}) /\ NoneBefore({"InstanceDestroyed"}))
  /\ Required["after_connected_or_connecting"] <=> "connecting" \in agg.was
  /\ Required["after_active_or_connecting"] <=> "connecting" \in agg.was
  /\ Required["non_destroyed_only"] <=> NoneBefore({"InstanceDestroyed"})
  /\ Required["after_pending_or_restore"] <=>
        SomeBefore({"SessionPairingStarted", "SessionPending"})
  /\ Required["after_pending_or_active"] <=>
        SomeBefore({"SessionPairingStarted", "SessionPending"})
  /\ Required["after_message_accepted"] <=> SomeBefore({"MessageAccepted"})
  /\ Required["after_processing_started"] <=>
        SomeBefore({"MessageProcessingStarted", "MediaProcessingStarted"})
  /\ Required["after_dispatched_or_direct_delivery"] <=>
        SomeBefore({"MessageProcessingStarted"})
  /\ Required["after_delivered_or_direct_read"] <=> SomeBefore({"MessageProcessingStarted"})
  /\ Required["after_lifecycle_failure"] <=> NoneBefore({"MessageRead", "MessageCancelled"})
  /\ Required["before_terminal_delivery"] <=>
        NoneBefore({"MessageDelivered", "MessageRead", "WebhookDeliverySucceeded",
              "WebhookDeliveryFailed", "WebhookDeliveryDeadLettered"})
  /\ Required["after_media_accepted"] <=> SomeBefore({"MediaAccepted"})
  /\ Required["after_media_processed"] <=> SomeBefore({"MediaProcessed"})
  /\ Required["after_group_discovered"] <=> SomeBefore({"GroupDiscovered"})
  /\ Required["active_group_only"] <=> agg.status = "active"
  /\ Required["before_validation"] <=> NoneBefore({"WebhookSubscriptionValidated"})
  /\ Required["after_validation"] <=> SomeBefore({"WebhookSubscriptionValidated"})
  /\ Required["after_active"] <=> SomeBefore({"WebhookSubscriptionActivated"})
  /\ Required["any_configured_state"] <=> NoneBefore({"WebhookSubscriptionRetired"})
  /\ Required["after_scheduled"] <=> SomeBefore({"WebhookDeliveryScheduled"})
  /\ Required["after_failed_attempt"] <=> SomeBefore({"WebhookDeliveryStarted"})
  /\ Required["terminal_after_started"] <=> SomeBefore({"WebhookDeliveryStarted"})
  /\ Required["before_outcome"] <=>
        NoneBefore({"GuardrailPassed", "GuardrailBlocked", "GuardrailThrottled",
              "GuardrailActionRequired"})
  /\ Required["after_queued"] <=> SomeBefore({"MessageQueued", "WorkerJobQueued"})
  /\ Required["after_reserved"] <=> SomeBefore({"WorkerJobReserved"})
  /\ Required["after_started"] <=> SomeBefore({"WorkerJobStarted"})
  /\ Required["after_supported_or_candidate"] <=> NoneBefore({"ProviderProfileUnsupported"})
  /\ Required["after_request"] <=> SomeBefore({"AuditRecordRequested"})
  /\ Required["before_activation"] <=> NoneBefore({"ConfigurationActivated"})
  /\ Required["after_validated"] <=> SomeBefore({"ConfigurationValidated"})
  /\ Required["during_validation"] <=> NoneBefore({"ConfigurationValidated"})
  /\ Required["after_new_activation"] <=> SomeBefore({"ConfigurationActivated"})
  /\ Required["before_sanitization"] <=> NoneBefore({"TelemetrySanitized"})
  /\ Required["after_captured"] <=> SomeBefore({"TelemetryCaptured"})
  /\ Required["after_captured_or_classified"] <=> SomeBefore({"TelemetryCaptured"})
  /\ Required["after_sanitized"] <=> SomeBefore({"TelemetrySanitized"})
BY Zenon DEF Required

\* The orders that events let out of the order of their contracts keep, one by one.
LEMMA InsteadIs ==
  /\ DOMAIN Instead =
        {"SessionPairingStarted", "SessionPending", "MessageRejected", "MediaFailed",
         "WebhookSubscriptionValidated", "WebhookDeliveryFailed",
         "WebhookDeliveryDeadLettered", "GuardrailPassed", "GuardrailBlocked",
         "GuardrailThrottled", "GuardrailActionRequired", "WorkerJobRetryScheduled",
         "WorkerJobDead", "ConfigurationRejected"}
  /\ Instead["SessionPairingStarted"] <=> NoneBefore({"SessionRevoked"})
  /\ Instead["SessionPending"] <=> NoneBefore({"SessionRevoked"})
  /\ Instead["MessageRejected"] <=>
        NoneBefore({"MessageDelivered", "MessageRead", "MessageCancelled"})
  /\ Instead["MediaFailed"] <=> NoneBefore({"MediaAttached"})
  /\ Instead["WebhookSubscriptionValidated"] <=>
        (SomeBefore({"WebhookSubscriptionActivated"}) =>
              SomeBefore({"WebhookSubscriptionInvalidated"}))
  /\ Instead["WebhookDeliveryFailed"] <=> NoneBefore({"WebhookDeliverySucceeded"})
  /\ Instead["WebhookDeliveryDeadLettered"] <=>
        NoneBefore({"WebhookDeliverySucceeded", "WebhookDeliveryFailed"})
  /\ Instead["GuardrailPassed"] <=>
        NoneBefore({"GuardrailBlocked", "GuardrailThrottled", "GuardrailActionRequired"})
  /\ Instead["GuardrailBlocked"] <=>
        NoneBefore({"GuardrailPassed", "GuardrailThrottled", "GuardrailActionRequired"})
  /\ Instead["GuardrailThrottled"] <=>
        NoneBefore({"GuardrailPassed", "GuardrailBlocked", "GuardrailActionRequired"})
  /\ Instead["GuardrailActionRequired"] <=>
        NoneBefore({"GuardrailPassed", "GuardrailBlocked", "GuardrailThrottled"})
  /\ Instead["WorkerJobRetryScheduled"] <=> NoneBefore({"WorkerJobCompleted", "WorkerJobDead"})
  /\ Instead["WorkerJobDead"] <=> NoneBefore({"WorkerJobCompleted"})
  /\ Instead["ConfigurationRejected"] <=> NoneBefore({"ConfigurationActivated"})
<1> DEFINE Outcomes == {"GuardrailPassed", "GuardrailBlocked", "GuardrailThrottled",
                        "GuardrailActionRequired"}
<1>1. DOMAIN Instead =
        {"SessionPairingStarted", "SessionPending", "MessageRejected", "MediaFailed",
         "WebhookSubscriptionValidated", "WebhookDeliveryFailed",
         "WebhookDeliveryDeadLettered", "GuardrailPassed", "GuardrailBlocked",
         "GuardrailThrottled", "GuardrailActionRequired", "WorkerJobRetryScheduled",
         "WorkerJobDead", "ConfigurationRejected"}
  BY SMT DEF Instead
<1>2. /\ Outcomes \ {"GuardrailPassed"}
           = {"GuardrailBlocked", "GuardrailThrottled", "GuardrailActionRequired"}
      /\ Outcomes \ {"GuardrailBlocked"}
           = {"GuardrailPassed", "GuardrailThrottled", "GuardrailActionRequired"}
      /\ Outcomes \ {"GuardrailThrottled"}
           = {"GuardrailPassed", "GuardrailBlocked", "GuardrailActionRequired"}
      /\ Outcomes \ {"GuardrailActionRequired"}
           = {"GuardrailPassed", "GuardrailBlocked", "GuardrailThrottled"}
  OBVIOUS
<1> QED BY <1>1, <1>2, Zenon DEF Instead

\* The three ways to be in order.
LEMMA KeptIsInOrder ==
  ASSUME NEW event, NEW order,
         \/ order \in OfOthers \cup OfTheLast
         \/ event \in AtAnyTime
         \/ event \in DOMAIN Instead /\ Instead[event]
         \/ event \notin DOMAIN Instead /\ Required[order]
  PROVE  InOrder(event, order)
BY Zenon DEF InOrder

\* What happened to an instance happened in the order its contracts require.
LEMMA InstanceInOrder ==
  ASSUME GoodInstance(agg), agg.news # NoEvent
  PROVE  EventsInContractOrder
<1>1. Contracts[agg.kind] = InstanceContracts
  BY DEF GoodInstance, Contracts
<1>2. agg.news \in DOMAIN InstanceContracts
  BY DEF GoodInstance, Happening, NoEvent
<1>3. InOrder(agg.news, InstanceContracts[agg.news])
  BY <1>2, KeptIsInOrder, RequiredIs, InsteadIs
     DEF GoodInstance, InstanceContracts, Happening, Before, SomeBefore, NoneBefore, Is, NoEvent,
         OfOthers, OfTheLast, AtAnyTime
<1>4. ASSUME NEW e \in FinalEvents, e \in Before
      PROVE  agg.news \in {e, "WorkerJobRecoveryRequired"}
  BY <1>4 DEF GoodInstance, InstanceContracts, Happening, Before, FinalEvents, NoEvent
<1> QED BY <1>1, <1>2, <1>3, <1>4 DEF EventsInContractOrder

\* What happened to a session happened in the order its contracts require.
LEMMA SessionInOrder ==
  ASSUME GoodSession(agg), agg.news # NoEvent
  PROVE  EventsInContractOrder
<1>1. Contracts[agg.kind] = SessionContracts
  BY DEF GoodSession, Contracts
<1>2. agg.news \in DOMAIN SessionContracts
  BY DEF GoodSession, Happening, NoEvent
<1>3. InOrder(agg.news, SessionContracts[agg.news])
  BY <1>2, KeptIsInOrder, RequiredIs, InsteadIs
     DEF GoodSession, SessionContracts, Happening, Before, SomeBefore, NoneBefore, Is, NoEvent,
         OfOthers, OfTheLast, AtAnyTime
<1>4. ASSUME NEW e \in FinalEvents, e \in Before
      PROVE  agg.news \in {e, "WorkerJobRecoveryRequired"}
  BY <1>4 DEF GoodSession, SessionContracts, Happening, Before, FinalEvents, NoEvent
<1> QED BY <1>1, <1>2, <1>3, <1>4 DEF EventsInContractOrder

\* What happened to a message happened in the order its contracts require.
LEMMA MessageInOrder ==
  ASSUME GoodMessage(agg), agg.news # NoEvent
  PROVE  EventsInContractOrder
<1>1. Contracts[agg.kind] = MessageContracts
  BY DEF GoodMessage, Contracts
<1>2. agg.news \in DOMAIN MessageContracts
  BY DEF GoodMessage, Happening, NoEvent
<1>3. InOrder(agg.news, MessageContracts[agg.news])
  BY <1>2, KeptIsInOrder, RequiredIs, InsteadIs
     DEF GoodMessage, MessageContracts, Happening, Before, SomeBefore, NoneBefore, Is, NoEvent,
         OfOthers, OfTheLast, AtAnyTime
<1>4. ASSUME NEW e \in FinalEvents, e \in Before
      PROVE  agg.news \in {e, "WorkerJobRecoveryRequired"}
  BY <1>4 DEF GoodMessage, MessageContracts, Happening, Before, FinalEvents, NoEvent
<1> QED BY <1>1, <1>2, <1>3, <1>4 DEF EventsInContractOrder

\* What happened to a media asset happened in the order its contracts require.
LEMMA MediaAssetInOrder ==
  ASSUME GoodMediaAsset(agg), agg.news # NoEvent
  PROVE  EventsInContractOrder
<1>1. Contracts[agg.kind] = MediaAssetContracts
  BY DEF GoodMediaAsset, Contracts
<1>2. agg.news \in DOMAIN MediaAssetContracts
  BY DEF GoodMediaAsset, Happening, NoEvent
<1>3. InOrder(agg.news, MediaAssetContracts[agg.news])
  BY <1>2, KeptIsInOrder, RequiredIs, InsteadIs
     DEF GoodMediaAsset, MediaAssetContracts, Happening, Before, SomeBefore, NoneBefore, Is,
         NoEvent,
         OfOthers, OfTheLast, AtAnyTime
<1>4. ASSUME NEW e \in FinalEvents, e \in Before
      PROVE  agg.news \in {e, "WorkerJobRecoveryRequired"}
  BY <1>4 DEF GoodMediaAsset, MediaAssetContracts, Happening, Before, FinalEvents, NoEvent
<1> QED BY <1>1, <1>2, <1>3, <1>4 DEF EventsInContractOrder

\* What happened to a group happened in the order its contracts require.
LEMMA GroupInOrder ==
  ASSUME GoodGroup(agg), agg.news # NoEvent
  PROVE  EventsInContractOrder
<1>1. Contracts[agg.kind] = GroupContracts
  BY DEF GoodGroup, Contracts
<1>2. agg.news \in DOMAIN GroupContracts
  BY DEF GoodGroup, Happening, NoEvent
<1>3. InOrder(agg.news, GroupContracts[agg.news])
  BY <1>2, KeptIsInOrder, RequiredIs, InsteadIs
     DEF GoodGroup, GroupContracts, Happening, Before, SomeBefore, NoneBefore, Is, NoEvent,
         OfOthers, OfTheLast, AtAnyTime
<1>4. ASSUME NEW e \in FinalEvents, e \in Before
      PROVE  agg.news \in {e, "WorkerJobRecoveryRequired"}
  BY <1>4 DEF GoodGroup, GroupContracts, Happening, Before, FinalEvents, NoEvent
<1> QED BY <1>1, <1>2, <1>3, <1>4 DEF EventsInContractOrder

\* What happened to a webhook subscription happened in the order its contracts require.
LEMMA WebhookSubscriptionInOrder ==
  ASSUME GoodWebhookSubscription(agg), agg.news # NoEvent
  PROVE  EventsInContractOrder
<1>1. Contracts[agg.kind] = WebhookSubscriptionContracts
  BY DEF GoodWebhookSubscription, Contracts
<1>2. agg.news \in DOMAIN WebhookSubscriptionContracts
  BY DEF GoodWebhookSubscription, Happening, NoEvent
<1>3. InOrder(agg.news, WebhookSubscriptionContracts[agg.news])
  BY <1>2, KeptIsInOrder, RequiredIs, InsteadIs
     DEF GoodWebhookSubscription, WebhookSubscriptionContracts, Happening, Before, SomeBefore,
         NoneBefore, Is, NoEvent,
         OfOthers, OfTheLast, AtAnyTime
<1>4. ASSUME NEW e \in FinalEvents, e \in Before
      PROVE  agg.news \in {e, "WorkerJobRecoveryRequired"}
  BY <1>4
     DEF GoodWebhookSubscription, WebhookSubscriptionContracts, Happening, Before,
         FinalEvents, NoEvent
<1> QED BY <1>1, <1>2, <1>3, <1>4 DEF EventsInContractOrder

\* What happened to a webhook delivery happened in the order its contracts require.
LEMMA WebhookDeliveryInOrder ==
  ASSUME GoodWebhookDelivery(agg), agg.news # NoEvent
  PROVE  EventsInContractOrder
<1>1. Contracts[agg.kind] = WebhookDeliveryContracts
  BY DEF GoodWebhookDelivery, Contracts
<1>2. agg.news \in DOMAIN WebhookDeliveryContracts
  BY DEF GoodWebhookDelivery, Happening, NoEvent
<1>3. InOrder(agg.news, WebhookDeliveryContracts[agg.news])
  BY <1>2, KeptIsInOrder, RequiredIs, InsteadIs
     DEF GoodWebhookDelivery, WebhookDeliveryContracts, Happening, Before, SomeBefore,
         NoneBefore, Is, NoEvent,
         OfOthers, OfTheLast, AtAnyTime
<1>4. ASSUME NEW e \in FinalEvents, e \in Before
      PROVE  agg.news \in {e, "WorkerJobRecoveryRequired"}
  BY <1>4
     DEF GoodWebhookDelivery, WebhookDeliveryContracts, Happening, Before, FinalEvents, NoEvent
<1> QED BY <1>1, <1>2, <1>3, <1>4 DEF EventsInContractOrder

\* What happened to a worker job happened in the order its contracts require.
LEMMA WorkerJobInOrder ==
  ASSUME GoodWorkerJob(agg), agg.news # NoEvent
  PROVE  EventsInContractOrder
<1>1. Contracts[agg.kind] = WorkerJobContracts
  BY DEF GoodWorkerJob, Contracts
<1>2. agg.news \in DOMAIN WorkerJobContracts
  BY DEF GoodWorkerJob, Happening, NoEvent
<1>3. InOrder(agg.news, WorkerJobContracts[agg.news])
  BY <1>2, KeptIsInOrder, RequiredIs, InsteadIs
     DEF GoodWorkerJob, WorkerJobContracts, Happening, Before, SomeBefore, NoneBefore, Is,
         NoEvent,
         OfOthers, OfTheLast, AtAnyTime
<1>4. ASSUME NEW e \in FinalEvents, e \in Before
      PROVE  agg.news \in {e, "WorkerJobRecoveryRequired"}
  BY <1>4 DEF GoodWorkerJob, WorkerJobContracts, Happening, Before, FinalEvents, NoEvent
<1> QED BY <1>1, <1>2, <1>3, <1>4 DEF EventsInContractOrder

\* What happened to a guardrail decision happened in the order its contracts require.
LEMMA GuardrailDecisionInOrder ==
  ASSUME GoodGuardrailDecision(agg), agg.news # NoEvent
  PROVE  EventsInContractOrder
<1>1. Contracts[agg.kind] = GuardrailDecisionContracts
  BY DEF GoodGuardrailDecision, Contracts
<1>2. agg.news \in DOMAIN GuardrailDecisionContracts
  BY DEF GoodGuardrailDecision, Happening, NoEvent
<1>3. InOrder(agg.news, GuardrailDecisionContracts[agg.news])
  BY <1>2, KeptIsInOrder, RequiredIs, InsteadIs
     DEF GoodGuardrailDecision, GuardrailDecisionContracts, Happening, Before, SomeBefore,
         NoneBefore, Is, NoEvent,
         OfOthers, OfTheLast, AtAnyTime
<1>4. ASSUME NEW e \in FinalEvents, e \in Before
      PROVE  agg.news \in {e, "WorkerJobRecoveryRequired"}
  BY <1>4
     DEF GoodGuardrailDecision, GuardrailDecisionContracts, Happening, Before, FinalEvents,
         NoEvent
<1> QED BY <1>1, <1>2, <1>3, <1>4 DEF EventsInContractOrder

\* What happened to an access decision happened in the order its contracts require.
LEMMA AccessDecisionInOrder ==
  ASSUME GoodAccessDecision(agg), agg.news # NoEvent
  PROVE  EventsInContractOrder
<1>1. Contracts[agg.kind] = AccessDecisionContracts
  BY DEF GoodAccessDecision, Contracts
<1>2. agg.news \in DOMAIN AccessDecisionContracts
  BY DEF GoodAccessDecision, Happening, NoEvent
<1>3. InOrder(agg.news, AccessDecisionContracts[agg.news])
  BY <1>2, KeptIsInOrder, RequiredIs, InsteadIs
     DEF GoodAccessDecision, AccessDecisionContracts, Happening, Before, SomeBefore,
         NoneBefore, Is, NoEvent,
         OfOthers, OfTheLast, AtAnyTime
<1>4. ASSUME NEW e \in FinalEvents, e \in Before
      PROVE  agg.news \in {e, "WorkerJobRecoveryRequired"}
  BY <1>4
     DEF GoodAccessDecision, AccessDecisionContracts, Happening, Before, FinalEvents, NoEvent
<1> QED BY <1>1, <1>2, <1>3, <1>4 DEF EventsInContractOrder

\* What happened to an audit record happened in the order its contracts require.
LEMMA AuditRecordInOrder ==
  ASSUME GoodAuditRecord(agg), agg.news # NoEvent
  PROVE  EventsInContractOrder
<1>1. Contracts[agg.kind] = AuditRecordContracts
  BY DEF GoodAuditRecord, Contracts
<1>2. agg.news \in DOMAIN AuditRecordContracts
  BY DEF GoodAuditRecord, Happening, NoEvent
<1>3. InOrder(agg.news, AuditRecordContracts[agg.news])
  BY <1>2, KeptIsInOrder, RequiredIs, InsteadIs
     DEF GoodAuditRecord, AuditRecordContracts, Happening, Before, SomeBefore, NoneBefore, Is,
         NoEvent,
         OfOthers, OfTheLast, AtAnyTime
<1>4. ASSUME NEW e \in FinalEvents, e \in Before
      PROVE  agg.news \in {e, "WorkerJobRecoveryRequired"}
  BY <1>4 DEF GoodAuditRecord, AuditRecordContracts, Happening, Before, FinalEvents, NoEvent
<1> QED BY <1>1, <1>2, <1>3, <1>4 DEF EventsInContractOrder

\* What happened to a telemetry signal happened in the order its contracts require.
LEMMA TelemetrySignalInOrder ==
  ASSUME GoodTelemetrySignal(agg), agg.news # NoEvent
  PROVE  EventsInContractOrder
<1>1. Contracts[agg.kind] = TelemetrySignalContracts
  BY DEF GoodTelemetrySignal, Contracts
<1>2. agg.news \in DOMAIN TelemetrySignalContracts
  BY DEF GoodTelemetrySignal, Happening, NoEvent
<1>3. InOrder(agg.news, TelemetrySignalContracts[agg.news])
  BY <1>2, KeptIsInOrder, RequiredIs, InsteadIs
     DEF GoodTelemetrySignal, TelemetrySignalContracts, Happening, Before, SomeBefore,
         NoneBefore, Is, NoEvent,
         OfOthers, OfTheLast, AtAnyTime
<1>4. ASSUME NEW e \in FinalEvents, e \in Before
      PROVE  agg.news \in {e, "WorkerJobRecoveryRequired"}
  BY <1>4
     DEF GoodTelemetrySignal, TelemetrySignalContracts, Happening, Before, FinalEvents, NoEvent
<1> QED BY <1>1, <1>2, <1>3, <1>4 DEF EventsInContractOrder

\* What happened to a health status happened in the order its contracts require.
LEMMA HealthStatusInOrder ==
  ASSUME GoodHealthStatus(agg), agg.news # NoEvent
  PROVE  EventsInContractOrder
<1>1. Contracts[agg.kind] = HealthStatusContracts
  BY DEF GoodHealthStatus, Contracts
<1>2. agg.news \in DOMAIN HealthStatusContracts
  BY DEF GoodHealthStatus, Happening, NoEvent
<1>3. InOrder(agg.news, HealthStatusContracts[agg.news])
  BY <1>2, KeptIsInOrder, RequiredIs, InsteadIs
     DEF GoodHealthStatus, HealthStatusContracts, Happening, Before, SomeBefore, NoneBefore,
         Is, NoEvent,
         OfOthers, OfTheLast, AtAnyTime
<1>4. ASSUME NEW e \in FinalEvents, e \in Before
      PROVE  agg.news \in {e, "WorkerJobRecoveryRequired"}
  BY <1>4 DEF GoodHealthStatus, HealthStatusContracts, Happening, Before, FinalEvents, NoEvent
<1> QED BY <1>1, <1>2, <1>3, <1>4 DEF EventsInContractOrder

\* What happened to a configuration snapshot happened in the order its contracts require.
LEMMA ConfigurationSnapshotInOrder ==
  ASSUME GoodConfigurationSnapshot(agg), agg.news # NoEvent
  PROVE  EventsInContractOrder
<1>1. Contracts[agg.kind] = ConfigurationSnapshotContracts
  BY DEF GoodConfigurationSnapshot, Contracts
<1>2. agg.news \in DOMAIN ConfigurationSnapshotContracts
  BY DEF GoodConfigurationSnapshot, Happening, NoEvent
<1>3. InOrder(agg.news, ConfigurationSnapshotContracts[agg.news])
  BY <1>2, KeptIsInOrder, RequiredIs, InsteadIs
     DEF GoodConfigurationSnapshot, ConfigurationSnapshotContracts, Happening, Before,
         SomeBefore, NoneBefore, Is, NoEvent,
         OfOthers, OfTheLast, AtAnyTime
<1>4. ASSUME NEW e \in FinalEvents, e \in Before
      PROVE  agg.news \in {e, "WorkerJobRecoveryRequired"}
  BY <1>4
     DEF GoodConfigurationSnapshot, ConfigurationSnapshotContracts, Happening, Before,
         FinalEvents, NoEvent
<1> QED BY <1>1, <1>2, <1>3, <1>4 DEF EventsInContractOrder

\* What happened to a provider profile happened in the order its contracts require.
LEMMA ProviderProfileInOrder ==
  ASSUME GoodProviderProfile(agg), agg.news # NoEvent
  PROVE  EventsInContractOrder
<1>1. Contracts[agg.kind] = ProviderProfileContracts
  BY DEF GoodProviderProfile, Contracts
<1>2. agg.news \in DOMAIN ProviderProfileContracts
  BY DEF GoodProviderProfile, Happening, NoEvent
<1>3. InOrder(agg.news, ProviderProfileContracts[agg.news])
  BY <1>2, KeptIsInOrder, RequiredIs, InsteadIs
     DEF GoodProviderProfile, ProviderProfileContracts, Happening, Before, SomeBefore,
         NoneBefore, Is, NoEvent,
         OfOthers, OfTheLast, AtAnyTime
<1>4. ASSUME NEW e \in FinalEvents, e \in Before
      PROVE  agg.news \in {e, "WorkerJobRecoveryRequired"}
  BY <1>4
     DEF GoodProviderProfile, ProviderProfileContracts, Happening, Before, FinalEvents, NoEvent
<1> QED BY <1>1, <1>2, <1>3, <1>4 DEF EventsInContractOrder

-----------------------------------------------------------------------------
(***************************************************************************)
(* Data and policies.                                                      *)
(***************************************************************************)
\* The history of a good aggregate is in order.
LEMMA GoodInOrder ==
  ASSUME GoodAggregate(agg)
  PROVE  EventsInContractOrder
<1>1. CASE agg.news = NoEvent
  BY <1>1 DEF EventsInContractOrder
<1>2. CASE agg.news # NoEvent
  <2>1. ~GoodChat(agg) /\ ~GoodContact(agg) /\ ~GoodLabel(agg)
    BY <1>2 DEF GoodChat, GoodContact, GoodLabel, Eventless
  <2> QED
    BY <1>2, <2>1, InstanceInOrder, SessionInOrder, MessageInOrder, MediaAssetInOrder,
       GroupInOrder, WebhookSubscriptionInOrder, WebhookDeliveryInOrder, WorkerJobInOrder,
           GuardrailDecisionInOrder, AccessDecisionInOrder, AuditRecordInOrder,
               TelemetrySignalInOrder, HealthStatusInOrder, ConfigurationSnapshotInOrder,
                   ProviderProfileInOrder
       DEF GoodAggregate
<1> QED BY <1>1, <1>2

\* Its data is what its status speaks of.
LEMMA GoodData ==
  ASSUME GoodAggregate(agg)
  PROVE  DataFollowsStatus
<1>1. ASSUME GoodInstance(agg)
      PROVE  DataFollowsStatus
  BY <1>1 DEF GoodInstance, DataFollowsStatus, Is
<1>2. ASSUME GoodSession(agg)
      PROVE  DataFollowsStatus
  BY <1>2 DEF GoodSession, DataFollowsStatus, Is
<1>3. ASSUME GoodMessage(agg)
      PROVE  DataFollowsStatus
  BY <1>3 DEF GoodMessage, DataFollowsStatus, Is
<1>4. ASSUME GoodMediaAsset(agg)
      PROVE  DataFollowsStatus
  BY <1>4 DEF GoodMediaAsset, DataFollowsStatus, Is
<1>5. ASSUME GoodGroup(agg)
      PROVE  DataFollowsStatus
  BY <1>5 DEF GoodGroup, DataFollowsStatus, Is
<1>6. ASSUME GoodChat(agg)
      PROVE  DataFollowsStatus
  BY <1>6 DEF GoodChat, DataFollowsStatus, Is
<1>7. ASSUME GoodContact(agg)
      PROVE  DataFollowsStatus
  BY <1>7 DEF GoodContact, DataFollowsStatus, Is
<1>8. ASSUME GoodLabel(agg)
      PROVE  DataFollowsStatus
  BY <1>8 DEF GoodLabel, DataFollowsStatus, Is
<1>9. ASSUME GoodWebhookSubscription(agg)
      PROVE  DataFollowsStatus
  BY <1>9 DEF GoodWebhookSubscription, DataFollowsStatus, Is
<1>10. ASSUME GoodWebhookDelivery(agg)
      PROVE  DataFollowsStatus
  BY <1>10 DEF GoodWebhookDelivery, DataFollowsStatus, Is
<1>11. ASSUME GoodWorkerJob(agg)
      PROVE  DataFollowsStatus
  BY <1>11 DEF GoodWorkerJob, DataFollowsStatus, Is
<1>12. ASSUME GoodGuardrailDecision(agg)
      PROVE  DataFollowsStatus
  BY <1>12 DEF GoodGuardrailDecision, DataFollowsStatus, Is
<1>13. ASSUME GoodAccessDecision(agg)
      PROVE  DataFollowsStatus
  BY <1>13 DEF GoodAccessDecision, DataFollowsStatus, Is
<1>14. ASSUME GoodAuditRecord(agg)
      PROVE  DataFollowsStatus
  BY <1>14 DEF GoodAuditRecord, DataFollowsStatus, Is
<1>15. ASSUME GoodTelemetrySignal(agg)
      PROVE  DataFollowsStatus
  BY <1>15 DEF GoodTelemetrySignal, DataFollowsStatus, Is
<1>16. ASSUME GoodHealthStatus(agg)
      PROVE  DataFollowsStatus
  BY <1>16 DEF GoodHealthStatus, DataFollowsStatus, Is
<1>17. ASSUME GoodConfigurationSnapshot(agg)
      PROVE  DataFollowsStatus
  BY <1>17 DEF GoodConfigurationSnapshot, DataFollowsStatus, Is
<1>18. ASSUME GoodProviderProfile(agg)
      PROVE  DataFollowsStatus
  BY <1>18 DEF GoodProviderProfile, DataFollowsStatus, Is
<1> QED
  BY <1>1, <1>2, <1>3, <1>4, <1>5, <1>6, <1>7, <1>8, <1>9, <1>10, <1>11, <1>12, <1>13, <1>14,
     <1>15, <1>16, <1>17, <1>18
     DEF GoodAggregate

\* What a decision that allows and a profile of texts let a session do.
LEMMA SendingIs ==
  ASSUME NEW s
  PROVE  Sending(s) <=> IsSessionUsable(s)
<1> DEFINE d == CreateGuardrailDecisionAggregate("allow")
           p == CreateProviderProfileAggregate("supported", {"text"})
<1>1. d.status = "passed" /\ "allow" \in d.has
  <2> DEFINE a == RequestGuardrailDecision
  <2>1. JustMade(a, "GuardrailDecision", "requested", {}, NoEvent)
    BY NewIsJustMade DEF RequestGuardrailDecision
  <2>2. d = PassGuardrailDecision(a)
    BY DEF CreateGuardrailDecisionAggregate
  <2> HIDE DEF a, d
  <2>3. d # Throws
    BY <2>1, <2>2, TransitionAllows
       DEF JustMade, PassGuardrailDecision, TransitionGuardrailDecision,
           GuardrailDecisionTransitions
  <2>4. Moved(a, d, "passed", GuardrailDecisionTransitions,
              (a.has \ (IF {"allow"} = {} THEN {} ELSE GuardrailOutcomes)) \cup {"allow"},
              "GuardrailPassed")
    BY <2>1, <2>2, <2>3, TransitionMoves
       DEF JustMade, PassGuardrailDecision, TransitionGuardrailDecision
  <2> QED BY <2>4 DEF Moved, Becomes
<1>2. p.status = "supported" /\ "text" \in p.has
  <2> DEFINE a == CreateProviderProfile
  <2>1. JustMade(a, "ProviderProfile", "candidate", {}, NoEvent)
    BY NewIsJustMade DEF CreateProviderProfile
  <2>2. p = MarkProviderSupported(a, {"text"})
    BY DEF CreateProviderProfileAggregate
  <2> HIDE DEF a, p
  <2>3. p # Throws
    BY <2>1, <2>2, TransitionAllows
       DEF JustMade, MarkProviderSupported, TransitionProviderProfile,
           ProviderProfileTransitions
  <2>4. Moved(a, p, "supported", ProviderProfileTransitions, (a.has \ Capabilities) \cup {"text"},
              "ProviderProfileSupported")
    BY <2>1, <2>2, <2>3, TransitionMoves
       DEF JustMade, MarkProviderSupported, TransitionProviderProfile
  <2> QED BY <2>4 DEF Moved, Becomes
<1> HIDE DEF d, p
<1> DEFINE in == [type |-> "text", scope |-> "single_message", session |-> s, decision |-> d,
                  profile |-> p, media |-> Throws, sameCategory |-> FALSE]
<1>3. Sending(s) <=> EvaluateMessageSendingPolicy(in) = "allow"
  BY DEF Sending, d, p
<1>4. /\ in.type = "text" /\ in.scope = "single_message" /\ in.session = s /\ in.decision = d
      /\ in.profile = p
  OBVIOUS
<1> HIDE DEF in
<1>5. CanSendMessage(in) <=> IsSessionUsable(s)
  BY <1>1, <1>2, <1>4 DEF CanSendMessage, IsMessageTypeSupported, IsGuardrailDecisionPassing,
                          IsProviderCapabilitySupported, IsMediaReadyForMessage
<1> QED BY <1>3, <1>5 DEF EvaluateMessageSendingPolicy, Decide

\* A live instance takes the status that is recommended for it, and one that may
\* reconnect connects, unless it is connected or on its way.
LEMMA InstanceAgrees ==
  ASSUME GoodInstance(agg)
  PROVE  InstancePolicies
<1>1. IsAgg(agg)
  BY DEF GoodInstance
<1>2. ASSUME agg.status \in {"connecting", "qr_pending", "connected", "disconnected"}
      PROVE  /\ MarkInstanceConnected(agg) # Throws
             /\ MarkInstanceDisconnected(agg) # Throws
             /\ MarkInstanceLoggedOut(agg) # Throws
             /\ RequireInstanceAction(agg) # Throws
  BY <1>1, <1>2, TransitionAllows
     DEF MarkInstanceConnected, MarkInstanceDisconnected, MarkInstanceLoggedOut,
         RequireInstanceAction, TransitionInstance, InstanceTransitions
<1>3. ASSUME NEW session, NEW ready \in BOOLEAN, NEW loggedOut \in BOOLEAN,
             NEW actionRequired \in BOOLEAN
      PROVE  DecideInstanceReadiness(agg, session, ready, loggedOut, actionRequired).recommended
               \in {"connected", "disconnected", "logged_out", "action_required"}
  BY DEF DecideInstanceReadiness
<1>4. ASSUME CanReconnectInstance(agg, TRUE, FALSE),
             agg.status \notin {"qr_pending", "connected"}
      PROVE  MarkInstanceConnecting(agg) # Throws
  <2>1. agg.status \in {"created", "connecting", "disconnected", "action_required"}
    BY <1>4 DEF CanReconnectInstance, GoodInstance, InstanceTransitions
  <2> QED BY <1>1, <2>1, TransitionAllows
          DEF MarkInstanceConnecting, TransitionInstance, InstanceTransitions
<1> QED BY <1>2, <1>3, <1>4 DEF InstancePolicies

\* A message that is processed takes every status that is accepted for it.
LEMMA MessageAgrees ==
  ASSUME GoodMessage(agg)
  PROVE  MessagePolicies
<1>1. IsAgg(agg)
  BY DEF GoodMessage
<1>2. ASSUME agg.status = "processing"
      PROVE  /\ MarkMessageSent(agg) # Throws
             /\ MarkMessageDelivered(agg) # Throws
             /\ MarkMessageRead(agg) # Throws
             /\ FailMessage(agg) # Throws
  BY <1>1, <1>2, TransitionAllows
     DEF MarkMessageSent, MarkMessageDelivered, MarkMessageRead, FailMessage,
         TransitionMessage, MessageTransitions
<1>3. ASSUME NEW translated \in DOMAIN MessageTransitions, NEW stale \in BOOLEAN
      PROVE  LET next == ClassifyMessageDeliveryStatus(translated, stale) IN
             /\ next # "none" <=> EvaluateMessageStatusPolicy(translated, stale) = "allow"
             /\ next # "none" => next \in {"sent", "delivered", "read", "failed"}
  BY DEF ClassifyMessageDeliveryStatus, EvaluateMessageStatusPolicy, Decide
<1> QED BY <1>2, <1>3 DEF MessagePolicies

\* A session the policies call usable, or to be recovered, is one that may be.
LEMMA SessionAgrees ==
  ASSUME GoodSession(agg)
  PROVE  SessionPolicies
<1>1. IsAgg(agg)
  BY DEF GoodSession
<1>2. IsSessionUsable(agg) => RevokeSession(agg) # Throws
  BY <1>1, TransitionAllows
     DEF IsSessionUsable, RevokeSession, TransitionSession, SessionTransitions
<1>3. CreateInstance.status = "created"
  <2>1. JustMade(CreateInstance, "Instance", "created", {}, "InstanceCreated")
    BY ToldIsJustMade DEF CreateInstance, NoEvent
  <2> QED BY <2>1 DEF JustMade
<1>4. EvaluateSessionRevocationPolicy(agg) = "allow" <=> IsSessionUsable(agg)
  BY DEF EvaluateSessionRevocationPolicy, Decide
<1>5. EvaluateInstanceConnectionPolicy(agg, TRUE, FALSE) = "allow" <=> IsSessionUsable(agg)
  BY DEF EvaluateInstanceConnectionPolicy
<1>6. DecideInstanceReadiness(CreateInstance, agg, TRUE, FALSE, FALSE).sendCapable
         <=> IsSessionUsable(agg)
  BY <1>3, Zenon DEF DecideInstanceReadiness
<1>7. LET recovery == DecideSessionRecovery(agg) IN
      /\ recovery.usable <=> IsSessionUsable(agg)
      /\ recovery.requiresRecovery
           <=> "requiresRecovery" \in agg.has \/ agg.status \in {"expired", "revoked"}
      /\ recovery.cleanupEligible <=> agg.status \in {"expired", "revoked", "cleanup"}
  BY Zenon DEF DecideSessionRecovery
<1>8. IsSessionUsable(agg) <=> agg.status = "active" /\ "requiresRecovery" \notin agg.has
  BY DEF IsSessionUsable
<1> QED
  BY <1>2, <1>4, <1>5, <1>6, <1>7, <1>8, SendingIs DEF SessionPolicies, IsSessionSendCapable

\* The retention policy keeps what is in use.
LEMMA MediaAssetAgrees ==
  ASSUME GoodMediaAsset(agg)
  PROVE  MediaAssetPolicies
<1>1. IsAgg(agg)
  BY DEF GoodMediaAsset
<1>2. agg.status \in {"processed", "attached"} => AttachMediaAsset(agg) # Throws
  BY <1>1, TransitionAllows DEF AttachMediaAsset, TransitionMediaAsset, MediaAssetTransitions
<1>3. RequestDiagnosticCapture(agg) # Throws <=> agg.status # "cleaned"
  BY <1>1, AddingBecomes DEF RequestDiagnosticCapture, NoEvent
<1>4. EvaluateMediaRetentionPolicy(agg, TRUE, TRUE) = "allow" <=> agg.status # "cleaned"
  BY DEF EvaluateMediaRetentionPolicy, Decide
<1> QED BY <1>2, <1>3, <1>4 DEF MediaAssetPolicies, IsMediaReadyForMessage

\* A call that says which attempt it is throws when its transition does.
LEMMA AttemptThrows ==
  ASSUME NEW a, NEW n
  PROVE  Attempted(a, n) # Throws => a # Throws
BY DEF Attempted

\* A new number of attempts is no refusal.
LEMMA AttemptAllows ==
  ASSUME NEW a, IsAgg(a), NEW n
  PROVE  Attempted(a, n) # Throws
BY AttemptedBecomes, AggIsNoThrow

\* The retry policy says retry of the jobs that may be retried.
LEMMA WorkerJobAgrees ==
  ASSUME GoodWorkerJob(agg)
  PROVE  WorkerJobPolicies
<1>1. IsAgg(agg)
  BY DEF GoodWorkerJob
<1>2. ASSUME NEW next, NEW event, NEW sets, NEW n
      PROVE  Attempted(TransitionWorkerJob(agg, next, event, sets), n) # Throws
                <=> next = agg.status \/ next \in WorkerJobTransitions[agg.status]
  <2> DEFINE b == Transition(agg, next, WorkerJobTransitions, event, sets, {})
  <2>1. b # Throws <=> next = agg.status \/ next \in WorkerJobTransitions[agg.status]
    BY <1>1, TransitionAllows
  <2>2. b # Throws => IsAgg(b)
    BY <1>1, TransitionMoves DEF Moved, Becomes
  <2>3. b = TransitionWorkerJob(agg, next, event, sets)
    BY DEF TransitionWorkerJob
  <2> HIDE DEF b
  <2> QED BY <2>1, <2>2, <2>3, AttemptThrows, AttemptAllows
<1>3. CanReserveWorkerJob(agg) => ReserveWorkerJob(agg, 1) # Throws
  BY <1>2 DEF CanReserveWorkerJob, ReserveWorkerJob, WorkerJobTransitions
<1>4. CanCompleteWorkerJob(agg, TRUE) => CompleteWorkerJob(agg) # Throws
  BY <1>1, TransitionAllows
     DEF CanCompleteWorkerJob, CompleteWorkerJob, TransitionWorkerJob, WorkerJobTransitions
<1>5. ASSUME NEW n \in Attempts
      PROVE  EvaluateWorkerJobRetryPolicy(agg, n) = "retry" <=> RetryWorkerJob(agg, n) # Throws
  <2>1. RetryWorkerJob(agg, n) # Throws
          <=> /\ ~(n > MaxAttempts)
              /\ "retrying" = agg.status \/ "retrying" \in WorkerJobTransitions[agg.status]
    BY <1>2 DEF RetryWorkerJob
  <2>2. "retrying" = agg.status \/ "retrying" \in WorkerJobTransitions[agg.status]
          <=> agg.status \notin {"completed", "dead"}
    BY DEF GoodWorkerJob, WorkerJobTransitions
  <2>3. n <= MaxAttempts <=> ~(n > MaxAttempts)
    BY DomainBounds DEF Attempts
  <2> QED BY <2>1, <2>2, <2>3 DEF EvaluateWorkerJobRetryPolicy, Decide
<1> QED BY <1>3, <1>4, <1>5 DEF WorkerJobPolicies

\* The same of deliveries that are not pending, and only active subscriptions take any.
LEMMA WebhooksAgree ==
  ASSUME GoodWebhookSubscription(agg) \/ GoodWebhookDelivery(agg)
  PROVE  WebhookPolicies
<1>1. ASSUME GoodWebhookDelivery(agg), NEW n \in Attempts
      PROVE  EvaluateWebhookRetryPolicy(agg, n) = "retry" /\ agg.status # "pending"
                <=> RetryWebhookDelivery(agg, n) # Throws
  <2> DEFINE b == Transition(agg, "retrying", WebhookDeliveryTransitions,
                             "WebhookDeliveryRetryScheduled", {"failureCategory"}, {})
             allowed == "retrying" = agg.status
                          \/ "retrying" \in WebhookDeliveryTransitions[agg.status]
  <2>1. IsAgg(agg)
    BY <1>1 DEF GoodWebhookDelivery
  <2>2. b # Throws <=> allowed
    BY <2>1, TransitionAllows
  <2>3. b # Throws => IsAgg(b)
    BY <2>1, TransitionMoves DEF Moved, Becomes
  <2>4. RetryWebhookDelivery(agg, n) = IF n > MaxAttempts THEN Throws ELSE Attempted(b, n)
    BY DEF RetryWebhookDelivery, TransitionWebhookDelivery
  <2> HIDE DEF b
  <2>5. RetryWebhookDelivery(agg, n) # Throws <=> ~(n > MaxAttempts) /\ allowed
    BY <2>2, <2>3, <2>4, AttemptThrows, AttemptAllows
  <2>6. allowed <=> agg.status \notin {"pending", "delivered", "dead_letter", "cancelled",
                                      "failed"}
    BY <1>1 DEF GoodWebhookDelivery, WebhookDeliveryTransitions
  <2>7. n <= MaxAttempts <=> ~(n > MaxAttempts)
    BY <1>1, DomainBounds DEF Attempts
  <2> QED BY <2>5, <2>6, <2>7
          DEF EvaluateWebhookRetryPolicy, CanRetryWebhookDelivery, Decide
<1>2. ASSUME GoodWebhookSubscription(agg), IsWebhookDeliverable(agg, "internal", TRUE, TRUE)
      PROVE  {"WebhookSubscriptionValidated", "WebhookSubscriptionActivated"} \subseteq Happened
  BY <1>2 DEF GoodWebhookSubscription, IsWebhookDeliverable, IsWebhookSubscriptionActive,
              Happening, Happened
<1>3. /\ GoodWebhookSubscription(agg) => agg.kind = "WebhookSubscription"
      /\ GoodWebhookDelivery(agg) => agg.kind = "WebhookDelivery"
  BY DEF GoodWebhookSubscription, GoodWebhookDelivery
<1> QED BY <1>1, <1>2, <1>3 DEF WebhookPolicies, Is

\* The safety policy lets a snapshot be activated that can be.
LEMMA ConfigurationAgrees ==
  ASSUME GoodConfigurationSnapshot(agg)
  PROVE  ConfigurationPolicies
<1>1. IsAgg(agg)
  BY DEF GoodConfigurationSnapshot
<1>2. ActivateConfigurationSnapshot(agg) # Throws
        <=> agg.status = "validated" /\ "valid" \in agg.has
  BY <1>1, TransitionAllows DEF ActivateConfigurationSnapshot, TransitionConfigurationSnapshot,
                                ConfigurationSnapshotTransitions
<1> QED BY <1>2 DEF ConfigurationPolicies, EvaluateConfigurationSafetyPolicy,
                    CanActivateConfiguration, Decide

\* Only the outcome "allow" makes a decision that passes.
LEMMA OutcomePasses ==
  ASSUME NEW o \in GuardrailOutcomes
  PROVE  o = "allow" <=> IsGuardrailDecisionPassing(CreateGuardrailDecisionAggregate(o), TRUE)
<1> DEFINE a == RequestGuardrailDecision
           d == CreateGuardrailDecisionAggregate(o)
<1>1. JustMade(a, "GuardrailDecision", "requested", {}, NoEvent)
  BY NewIsJustMade DEF RequestGuardrailDecision
<1>2. PICK next, event :
        /\ d = TransitionGuardrailDecision(a, next, event, {o})
        /\ <<next, o>> \in {<<"passed", "allow">>, <<"blocked", "block">>,
                            <<"throttled", "throttle">>, <<"action_required",
                                "action_required">>}
  BY DEF GuardrailOutcomes, CreateGuardrailDecisionAggregate, PassGuardrailDecision,
         BlockGuardrailDecision, ThrottleGuardrailDecision, RequireGuardrailAction
<1> HIDE DEF a, d
<1>3. d = Transition(a, next, GuardrailDecisionTransitions, event, {o}, GuardrailOutcomes)
  BY <1>2 DEF TransitionGuardrailDecision
<1>4. d # Throws
  BY <1>1, <1>2, <1>3, TransitionAllows DEF JustMade, GuardrailDecisionTransitions
<1>5. Moved(a, d, next, GuardrailDecisionTransitions, (a.has \ GuardrailOutcomes) \cup {o},
                                                                                        event)
  BY <1>1, <1>3, <1>4, TransitionMoves DEF JustMade
<1>6. d.status = next /\ d.has = {o}
  BY <1>1, <1>5 DEF Moved, Becomes, JustMade
<1> QED BY <1>2, <1>6 DEF IsGuardrailDecisionPassing, d

\* The decision records what the guardrail policy found.
LEMMA GuardrailAgrees ==
  ASSUME GoodGuardrailDecision(agg)
  PROVE  GuardrailPolicies
<1>1. IsGuardrailDecisionPassing(agg, TRUE)
        => Happened \cap {"GuardrailBlocked", "GuardrailThrottled",
                          "GuardrailActionRequired"} = {}
  BY DEF GoodGuardrailDecision, IsGuardrailDecisionPassing, Happening, Happened
<1>2. ASSUME NEW facts \in ComplianceFacts
      PROVE  LET outcome == EvaluateComplianceGuardrailPolicy(facts) IN
             outcome = "allow" <=>
               IsGuardrailDecisionPassing(CreateGuardrailDecisionAggregate(outcome), TRUE)
  <2> DEFINE outcome == EvaluateComplianceGuardrailPolicy(facts)
  <2>1. outcome \in GuardrailOutcomes
    BY DEF ComplianceFacts, EvaluateComplianceGuardrailPolicy, Decide, GuardrailOutcomes
  <2> HIDE DEF outcome
  <2>2. ASSUME NEW o \in GuardrailOutcomes
        PROVE  o = "allow" <=> IsGuardrailDecisionPassing(CreateGuardrailDecisionAggregate(o),
            TRUE)
    BY OutcomePasses
  <2> QED BY <2>1, <2>2 DEF outcome
<1> QED BY <1>1, <1>2 DEF GuardrailPolicies

\* A privileged action granted is one that is audited.
LEMMA AccessAgrees ==
  ASSUME GoodAccessDecision(agg)
  PROVE  AccessPolicies
BY DEF GoodAccessDecision, AccessPolicies, EvaluatePrivilegedActionPolicy,
       CanPerformPrivilegedMutation, Decide, Happening, Happened

\* A good aggregate does what the policies say of it.
LEMMA GoodPolicies ==
  ASSUME GoodAggregate(agg)
  PROVE  PoliciesAgree
<1>1. Is("Session") => SessionPolicies
  BY OfKind, SessionAgrees DEF Is
<1>2. Is("MediaAsset") => MediaAssetPolicies
  BY OfKind, MediaAssetAgrees DEF Is
<1>3. Is("WorkerJob") => WorkerJobPolicies
  BY OfKind, WorkerJobAgrees DEF Is
<1>4. WebhookPolicies
  <2>1. CASE Is("WebhookSubscription") \/ Is("WebhookDelivery")
    BY <2>1, OfKind, WebhooksAgree DEF Is
  <2>2. CASE ~(Is("WebhookSubscription") \/ Is("WebhookDelivery"))
    BY <2>2 DEF WebhookPolicies
  <2> QED BY <2>1, <2>2
<1>5. Is("ConfigurationSnapshot") => ConfigurationPolicies
  BY OfKind, ConfigurationAgrees DEF Is
<1>6. Is("GuardrailDecision") => GuardrailPolicies
  BY OfKind, GuardrailAgrees DEF Is
<1>7. Is("AccessDecision") => AccessPolicies
  BY OfKind, AccessAgrees DEF Is
<1>8. ASSUME Is("ProviderProfile"), IsProviderCapabilitySupported(agg, "text")
      PROVE  "ProviderProfileSupported" \in Happened
  <2>1. GoodProviderProfile(agg)
    BY <1>8, OfKind DEF Is
  <2> QED
    BY <1>8, <2>1 DEF GoodProviderProfile, IsProviderCapabilitySupported, Happening, Happened
<1>9. Is("TelemetrySignal") => TelemetryPolicies
  <2>1. GoodTelemetrySignal(agg) => TelemetryPolicies
    BY DEF GoodTelemetrySignal, TelemetryPolicies, IsTelemetryProjectionSafe
  <2> QED BY <2>1, OfKind DEF Is
<1>10. Is("Instance") => InstancePolicies
  BY OfKind, InstanceAgrees DEF Is
<1>11. Is("Message") => MessagePolicies
  BY OfKind, MessageAgrees DEF Is
<1> QED BY <1>1, <1>2, <1>3, <1>4, <1>5, <1>6, <1>7, <1>8, <1>9, <1>10, <1>11
        DEF PoliciesAgree

\* Whatever a program calls, and in whatever order: an aggregate appends its events
\* in the order of their contracts, but for the twenty of Instead and AtAnyTime, whose
\* contracts the transition tables break; its data is what its status speaks of; and
\* the policies say of it what it does, but for the five cases PoliciesAgree names.
THEOREM LibraryIsTrue == LibrarySpec => []LibraryIsConsistent
<1>1. GoodAggregate(agg) => LibraryIsConsistent
  BY GoodInOrder, GoodData, GoodPolicies DEF LibraryIsConsistent
<1> QED BY <1>1, AggregateIsGood, PTL

-----------------------------------------------------------------------------
(***************************************************************************)
(* Rows: what is saved fits its table and is loaded as it was.             *)
(***************************************************************************)
\* Three fields of an aggregate are put back.
LEMMA Refilled ==
  ASSUME NEW kind, NEW status, NEW has, NEW items, NEW attempt, NEW e, NEW n, NEW w,
         NEW events, NEW news, NEW was
  PROVE  [[kind |-> kind, status |-> status, has |-> has, items |-> items,
           attempt |-> attempt, events |-> e, news |-> n, was |-> w]
            EXCEPT !.events = events, !.news = news, !.was = was]
           = [kind |-> kind, status |-> status, has |-> has, items |-> items,
              attempt |-> attempt, events |-> events, news |-> news, was |-> was]
<1> DEFINE r0 == [kind |-> kind, status |-> status, has |-> has, items |-> items,
                  attempt |-> attempt, events |-> e, news |-> n, was |-> w]
           r1 == [r0 EXCEPT !.events = events]
           r2 == [r1 EXCEPT !.news = news]
           r3 == [r0 EXCEPT !.events = events, !.news = news, !.was = was]
<1>1. r1 = [kind |-> kind, status |-> status, has |-> has, items |-> items,
            attempt |-> attempt, events |-> events, news |-> n, was |-> w]
  OBVIOUS
<1>2. r3 = [r2 EXCEPT !.was = was]
  OBVIOUS
<1> HIDE DEF r1, r3
<1>3. r2 = [kind |-> kind, status |-> status, has |-> has, items |-> items,
            attempt |-> attempt, events |-> events, news |-> news, was |-> w]
  BY <1>1
<1> HIDE DEF r2
<1>4. r3 = [kind |-> kind, status |-> status, has |-> has, items |-> items,
            attempt |-> attempt, events |-> events, news |-> news, was |-> was]
  BY <1>2, <1>3
<1> QED BY <1>4 DEF r3


\* What a load decodes of an aggregate that has nothing else.
LEMMA FieldsAre ==
  ASSUME NEW a, IsAgg(a), NEW names, a.has \subseteq names, a.items = << >>
  PROVE  /\ Fields(a, names) = [a EXCEPT !.attempt = 0]
         /\ a.attempt = 0 => Fields(a, names) = a
         /\ Numbered(Fields(a, names), a.attempt)
              = IF a.attempt > MaxAttempts THEN Throws ELSE a
<1> DEFINE f == New(a.kind, a.status, a.has \cap names)
           g == Fields(a, names)
<1>1. a.has \cap names = a.has
  OBVIOUS
<1>2. f = [kind |-> a.kind, status |-> a.status, has |-> a.has, items |-> << >>,
           attempt |-> 0, events |-> {}, news |-> NoEvent, was |-> {}]
  BY <1>1 DEF New
<1>3. g = [f EXCEPT !.events = a.events, !.news = a.news, !.was = a.was]
  BY DEF Fields
<1> HIDE DEF f, g
<1>4. g = [kind |-> a.kind, status |-> a.status, has |-> a.has, items |-> << >>,
           attempt |-> 0, events |-> a.events, news |-> a.news, was |-> a.was]
  BY <1>2, <1>3, Refilled
<1>5. g = [a EXCEPT !.attempt = 0]
  BY <1>4 DEF IsAgg
<1>6. a.attempt = 0 => g = a
  BY <1>4 DEF IsAgg
<1>7. IsAgg(g)
  BY <1>4 DEF IsAgg
<1>8. Attempted(g, a.attempt) = a
  <2>1. [g EXCEPT !.attempt = a.attempt]
          = [kind |-> a.kind, status |-> a.status, has |-> a.has, items |-> a.items,
             attempt |-> a.attempt, events |-> a.events, news |-> a.news, was |-> a.was]
    BY <1>4
  <2>2. [g EXCEPT !.attempt = a.attempt] = a
    BY <2>1 DEF IsAgg
  <2> QED BY <1>7, <2>2, AggIsNoThrow DEF Attempted
<1> QED BY <1>5, <1>6, <1>8 DEF Numbered, g

\* What is loaded is what was saved.
LEMMA GoodLoads ==
  ASSUME GoodAggregate(agg)
  PROVE  /\ agg.attempt <= MaxAttempts => Decode(agg) = agg
         /\ agg.attempt > MaxAttempts => Decode(agg) = Throws

<1>1. ASSUME GoodInstance(agg)
      PROVE  agg.attempt = 0 /\ Decode(agg) = agg
  <2>1. Decode(agg) = DecodeInstance(agg)
    BY <1>1 DEF GoodInstance, Decode
  <2>2. IsAgg(agg) /\ Bare(agg)
    BY <1>1 DEF GoodInstance
  <2>3. DecodeInstance(agg) = agg
    BY <1>1, <2>2, FieldsAre DEF GoodInstance, DecodeInstance, Bare
  <2> QED BY <2>1, <2>2, <2>3 DEF Bare
<1>2. ASSUME GoodSession(agg)
      PROVE  agg.attempt = 0 /\ Decode(agg) = agg
  <2>1. Decode(agg) = DecodeSession(agg)
    BY <1>2 DEF GoodSession, Decode
  <2>2. IsAgg(agg) /\ Bare(agg)
    BY <1>2 DEF GoodSession
  <2>3. DecodeSession(agg) = agg
    BY <1>2, <2>2, FieldsAre DEF GoodSession, DecodeSession, Bare
  <2> QED BY <2>1, <2>2, <2>3 DEF Bare
<1>3. ASSUME GoodMessage(agg)
      PROVE  agg.attempt = 0 /\ Decode(agg) = agg
  <2>1. Decode(agg) = DecodeMessage(agg)
    BY <1>3 DEF GoodMessage, Decode
  <2>2. IsAgg(agg) /\ Bare(agg)
    BY <1>3 DEF GoodMessage
  <2>3. DecodeMessage(agg) = agg
    BY <1>3, <2>2, FieldsAre DEF GoodMessage, DecodeMessage, Bare
  <2> QED BY <2>1, <2>2, <2>3 DEF Bare
<1>4. ASSUME GoodWebhookSubscription(agg)
      PROVE  agg.attempt = 0 /\ Decode(agg) = agg
  <2>1. Decode(agg) = DecodeWebhookSubscription(agg)
    BY <1>4 DEF GoodWebhookSubscription, Decode
  <2>2. IsAgg(agg) /\ Bare(agg)
    BY <1>4 DEF GoodWebhookSubscription
  <2>3. DecodeWebhookSubscription(agg) = agg
    BY <1>4, <2>2, FieldsAre DEF GoodWebhookSubscription, DecodeWebhookSubscription, Bare
  <2> QED BY <2>1, <2>2, <2>3 DEF Bare
<1>5. ASSUME GoodWebhookDelivery(agg)
      PROVE  agg.attempt \in Nat /\ Decode(agg) = IF agg.attempt > MaxAttempts THEN Throws ELSE agg
  <2>1. Decode(agg) = DecodeWebhookDelivery(agg)
    BY <1>5 DEF GoodWebhookDelivery, Decode
  <2>2. IsAgg(agg) /\ agg.items = << >> /\ agg.attempt \in Nat
    BY <1>5 DEF GoodWebhookDelivery
  <2> QED BY <1>5, <2>1, <2>2, FieldsAre DEF GoodWebhookDelivery, DecodeWebhookDelivery
<1>6. ASSUME GoodWorkerJob(agg)
      PROVE  agg.attempt \in Nat /\ Decode(agg) = IF agg.attempt > MaxAttempts THEN Throws ELSE agg
  <2>1. Decode(agg) = DecodeWorkerJob(agg)
    BY <1>6 DEF GoodWorkerJob, Decode
  <2>2. IsAgg(agg) /\ agg.items = << >> /\ agg.attempt \in Nat
    BY <1>6 DEF GoodWorkerJob
  <2> QED BY <1>6, <2>1, <2>2, FieldsAre DEF GoodWorkerJob, DecodeWorkerJob
<1>7. ASSUME \/ GoodMediaAsset(agg)
             \/ GoodGroup(agg)
             \/ GoodChat(agg)
             \/ GoodContact(agg)
             \/ GoodLabel(agg)
             \/ GoodGuardrailDecision(agg)
             \/ GoodAccessDecision(agg)
             \/ GoodAuditRecord(agg)
             \/ GoodTelemetrySignal(agg)
             \/ GoodHealthStatus(agg)
             \/ GoodConfigurationSnapshot(agg)
             \/ GoodProviderProfile(agg)
      PROVE  agg.attempt = 0 /\ Decode(agg) = agg
  <2>1. agg.attempt = 0
    BY <1>7
       DEF GoodMediaAsset, GoodGroup, GoodChat, GoodContact, GoodLabel, GoodGuardrailDecision,
           GoodAccessDecision, GoodAuditRecord, GoodTelemetrySignal, GoodHealthStatus,
               GoodConfigurationSnapshot, GoodProviderProfile, Bare, Eventless
  <2>2. agg.kind \in {"MediaAsset", "Group", "Chat", "Contact", "Label", "GuardrailDecision",
                      "AccessDecision", "AuditRecord", "TelemetrySignal", "HealthStatus",
                          "ConfigurationSnapshot", "ProviderProfile"}
    BY <1>7
       DEF GoodMediaAsset, GoodGroup, GoodChat, GoodContact, GoodLabel, GoodGuardrailDecision,
           GoodAccessDecision, GoodAuditRecord, GoodTelemetrySignal, GoodHealthStatus,
               GoodConfigurationSnapshot, GoodProviderProfile
  <2> QED BY <2>1, <2>2 DEF Decode
<1> QED
  BY <1>1, <1>2, <1>3, <1>4, <1>5, <1>6, <1>7, DomainBounds DEF GoodAggregate

\* Row, Selects and Filters, kind by kind.
LEMMA RowIs ==
  ASSUME NEW side
  PROVE  /\ agg.kind = "Instance" => Row(agg, side) = InstanceRow(agg)
         /\ agg.kind = "WorkerJob" => Row(agg, side) = WorkerJobRow(agg, side)
         /\ agg.kind = "Message" => Row(agg, side) = MessageRow(agg, side)
         /\ agg.kind = "Session" => Row(agg, side) = SessionRow(agg)
         /\ agg.kind = "WebhookSubscription"
               => Row(agg, side) = WebhookSubscriptionRow(agg, side)
         /\ agg.kind = "WebhookDelivery" => Row(agg, side) = WebhookDeliveryRow(agg, side)
         /\ agg.kind = "Chat" => Row(agg, side) = ChatRow(agg)
         /\ agg.kind = "Contact" => Row(agg, side) = ContactRow(agg)
         /\ agg.kind = "Group" => Row(agg, side) = GroupRow(agg)
         /\ agg.kind = "GuardrailDecision" => Row(agg, side) = GuardrailDecisionRow(agg)
         /\ agg.kind = "HealthStatus" => Row(agg, side) = HealthStatusRow(agg)
         /\ agg.kind = "AuditRecord" => Row(agg, side) = AuditRecordRow(agg, side)
         /\ agg.kind = "Label" => Row(agg, side) = LabelRow(agg)
         /\ agg.kind = "MediaAsset" => Row(agg, side) = MediaAssetRow(agg, side)
BY DEF Row

\* The selects of each kind.
LEMMA SelectsIs ==
  ASSUME NEW row
  PROVE  /\ Selects("Instance", row) = SelectsInstance(row)
         /\ Selects("WorkerJob", row) = SelectsWorkerJob(row)
         /\ Selects("Message", row) = SelectsMessage(row)
         /\ Selects("Session", row) = SelectsSession(row)
         /\ Selects("WebhookSubscription", row) = SelectsWebhookSubscription(row)
         /\ Selects("WebhookDelivery", row) = SelectsWebhookDelivery(row)
         /\ Selects("Chat", row) = SelectsChat(row)
         /\ Selects("Contact", row) = SelectsContact(row)
         /\ Selects("Group", row) = SelectsGroup(row)
         /\ Selects("GuardrailDecision", row) = SelectsGuardrailDecision(row)
         /\ Selects("HealthStatus", row) = SelectsHealthStatus(row)
         /\ Selects("AuditRecord", row) = SelectsAuditRecord(row)
         /\ Selects("Label", row) = SelectsLabel(row)
         /\ Selects("MediaAsset", row) = SelectsMediaAsset(row)
BY DEF Selects

\* The filters of each kind.
LEMMA FiltersIs ==
  ASSUME NEW side
  PROVE  /\ agg.kind = "Instance" => Filters(agg, side) = FiltersInstance(agg)
         /\ agg.kind = "WorkerJob" => Filters(agg, side) = FiltersWorkerJob(agg, side)
         /\ agg.kind = "Message" => Filters(agg, side) = FiltersMessage(agg, side)
         /\ agg.kind = "Session" => Filters(agg, side) = FiltersSession(agg)
         /\ agg.kind = "WebhookSubscription"
               => Filters(agg, side) = FiltersWebhookSubscription(agg, side)
         /\ agg.kind = "WebhookDelivery"
               => Filters(agg, side) = FiltersWebhookDelivery(agg, side)
         /\ agg.kind = "Chat" => Filters(agg, side) = FiltersChat(agg)
         /\ agg.kind = "Contact" => Filters(agg, side) = FiltersContact(agg)
         /\ agg.kind = "Group" => Filters(agg, side) = FiltersGroup(agg)
         /\ agg.kind = "GuardrailDecision" => Filters(agg, side) = FiltersGuardrailDecision(agg)
         /\ agg.kind = "HealthStatus" => Filters(agg, side) = FiltersHealthStatus(agg)
         /\ agg.kind = "AuditRecord" => Filters(agg, side) = FiltersAuditRecord(agg, side)
         /\ agg.kind = "Label" => Filters(agg, side) = FiltersLabel(agg)
         /\ agg.kind = "MediaAsset" => Filters(agg, side) = FiltersMediaAsset(agg, side)
BY DEF Filters

\* The table of each kind.
LEMMA TablesAre ==
  /\ DOMAIN Tables = {"Instance", "WorkerJob", "Message", "Session", "WebhookSubscription",
                      "WebhookDelivery", "Chat", "Contact", "Group", "GuardrailDecision",
                          "HealthStatus", "AuditRecord", "Label", "MediaAsset"}
  /\ Tables["Instance"] = InstancesTable
  /\ Tables["WorkerJob"] = WorkerJobsTable
  /\ Tables["Message"] = MessagesTable
  /\ Tables["Session"] = SessionsTable
  /\ Tables["WebhookSubscription"] = WebhookSubscriptionsTable
  /\ Tables["WebhookDelivery"] = WebhookDeliveriesTable
  /\ Tables["Chat"] = ChatsTable
  /\ Tables["Contact"] = ContactsTable
  /\ Tables["Group"] = GroupsTable
  /\ Tables["GuardrailDecision"] = GuardrailDecisionsTable
  /\ Tables["HealthStatus"] = HealthStatusesTable
  /\ Tables["AuditRecord"] = AuditRecordsTable
  /\ Tables["Label"] = LabelsTable
  /\ Tables["MediaAsset"] = MediaAssetsTable
BY DEF Tables

\* Every column a row has is one its table has, and is not NULL where it may not.
Fits(row, table) ==
  \A column \in DOMAIN row :
     /\ column \in DOMAIN table
     /\ table[column] = "not null" => row[column] # Null

\* No column that may not be NULL is, and no other holds what it cannot.
LEMMA RowsFit ==
  ASSUME GoodAggregate(agg), NEW side \in {Null, "recorded"}, Stored
  PROVE  Fits(Row(agg, side), Tables[agg.kind])
<1>1. \A v \in RowStatuses \cup RowNames : v # Null
  BY NullIsNoValue
<1>2. CASE agg.kind = "Instance"
  <2>1. agg.status # Null
    <3>1. agg.status \in RowStatuses
      BY <1>2, OfKind DEF GoodInstance, RowStatuses, InstanceTransitions
    <3> QED BY <1>1, <3>1
  <2>2. Fits(InstanceRow(agg), InstancesTable)
    <3> DEFINE row == InstanceRow(agg)
    <3>1. /\ row.status # Null
      BY <1>1, <2>1, NullIsNoValue DEF InstanceRow, RowNames
    <3>2. DOMAIN row = {"status", "current_session_id", "action_required_reason"}
      BY DEF InstanceRow
    <3>3. /\ DOMAIN InstancesTable = {"status", "current_session_id", "action_required_reason"}
          /\ InstancesTable["current_session_id"] = "null"
          /\ InstancesTable["action_required_reason"] = "null"
      BY DEF InstancesTable
    <3> HIDE DEF row
    <3>4. Fits(row, InstancesTable)
      BY <3>1, <3>2, <3>3 DEF Fits
    <3> QED BY <3>4 DEF row
  <2> QED BY <1>2, <2>2, RowIs, TablesAre
<1>3. CASE agg.kind = "WorkerJob"
  <2>1. agg.status # Null
    <3>1. agg.status \in RowStatuses
      BY <1>3, OfKind DEF GoodWorkerJob, RowStatuses, WorkerJobTransitions
    <3> QED BY <1>1, <3>1
  <2>2. Fits(WorkerJobRow(agg, side), WorkerJobsTable)
    <3> DEFINE row == WorkerJobRow(agg, side)
    <3>1. /\ row.status # Null
          /\ row.owner_context # Null
          /\ row.work_type # Null
      BY <1>1, <2>1, NullIsNoValue DEF WorkerJobRow, RowNames
    <3>2. DOMAIN row = {"status", "owner_context", "work_type", "idempotency_key"}
      BY DEF WorkerJobRow
    <3>3. /\ DOMAIN WorkerJobsTable = {"status", "owner_context", "work_type",
                                       "idempotency_key"}
          /\ WorkerJobsTable["idempotency_key"] = "null"
      BY DEF WorkerJobsTable
    <3> HIDE DEF row
    <3>4. Fits(row, WorkerJobsTable)
      BY <3>1, <3>2, <3>3 DEF Fits
    <3> QED BY <3>4 DEF row
  <2> QED BY <1>3, <2>2, RowIs, TablesAre
<1>4. CASE agg.kind = "Message"
  <2>1. agg.status # Null
    <3>1. agg.status \in RowStatuses
      BY <1>4, OfKind DEF GoodMessage, RowStatuses, MessageTransitions
    <3> QED BY <1>1, <3>1
  <2>2. Fits(MessageRow(agg, side), MessagesTable)
    <3> DEFINE row == MessageRow(agg, side)
    <3>1. /\ row.status # Null
      BY <1>1, <2>1, NullIsNoValue DEF MessageRow, RowNames
    <3>2. DOMAIN row = {"status", "idempotency_key"}
      BY DEF MessageRow
    <3>3. /\ DOMAIN MessagesTable = {"status", "idempotency_key"}
          /\ MessagesTable["idempotency_key"] = "null"
      BY DEF MessagesTable
    <3> HIDE DEF row
    <3>4. Fits(row, MessagesTable)
      BY <3>1, <3>2, <3>3 DEF Fits
    <3> QED BY <3>4 DEF row
  <2> QED BY <1>4, <2>2, RowIs, TablesAre
<1>5. CASE agg.kind = "Session"
  <2>1. agg.status # Null
    <3>1. agg.status \in RowStatuses
      BY <1>5, OfKind DEF GoodSession, RowStatuses, SessionTransitions
    <3> QED BY <1>1, <3>1
  <2>2. Fits(SessionRow(agg), SessionsTable)
    <3> DEFINE row == SessionRow(agg)
    <3>0. row.requires_recovery # Null
      <4>1. row.requires_recovery \in BOOLEAN
        BY DEF SessionRow
      <4> QED BY <4>1, NullIsNoValue
    <3>1. /\ row.instance_id # Null
          /\ row.status # Null
      BY <1>1, <2>1, NullIsNoValue DEF SessionRow, RowNames
    <3>2. DOMAIN row = {"instance_id", "status", "requires_recovery"}
      BY DEF SessionRow
    <3>3. /\ DOMAIN SessionsTable = {"instance_id", "status", "requires_recovery"}
      BY DEF SessionsTable
    <3> HIDE DEF row
    <3>4. Fits(row, SessionsTable)
      BY <3>1, <3>2, <3>3, <3>0 DEF Fits
    <3> QED BY <3>4 DEF row
  <2> QED BY <1>5, <2>2, RowIs, TablesAre
<1>6. CASE agg.kind = "WebhookSubscription"
  <2>1. agg.status # Null
    <3>1. agg.status \in RowStatuses
      BY <1>6, OfKind DEF GoodWebhookSubscription, RowStatuses, WebhookSubscriptionTransitions
    <3> QED BY <1>1, <3>1
  <2>2. Fits(WebhookSubscriptionRow(agg, side), WebhookSubscriptionsTable)
    <3> DEFINE row == WebhookSubscriptionRow(agg, side)
    <3>1. /\ row.status # Null
          /\ row.signal_refs # Null
      BY <1>1, <2>1, NullIsNoValue DEF WebhookSubscriptionRow, RowNames
    <3>2. DOMAIN row = {"status", "signal_refs"}
      BY DEF WebhookSubscriptionRow
    <3>3. /\ DOMAIN WebhookSubscriptionsTable = {"status", "signal_refs"}
      BY DEF WebhookSubscriptionsTable
    <3> HIDE DEF row
    <3>4. Fits(row, WebhookSubscriptionsTable)
      BY <3>1, <3>2, <3>3 DEF Fits
    <3> QED BY <3>4 DEF row
  <2> QED BY <1>6, <2>2, RowIs, TablesAre
<1>7. CASE agg.kind = "WebhookDelivery"
  <2>1. agg.status # Null
    <3>1. agg.status \in RowStatuses
      BY <1>7, OfKind DEF GoodWebhookDelivery, RowStatuses, WebhookDeliveryTransitions
    <3> QED BY <1>1, <3>1
  <2>2. Fits(WebhookDeliveryRow(agg, side), WebhookDeliveriesTable)
    <3> DEFINE row == WebhookDeliveryRow(agg, side)
    <3>1. /\ row.status # Null
          /\ row.source_signal_ref # Null
      BY <1>1, <2>1, NullIsNoValue DEF WebhookDeliveryRow, RowNames
    <3>2. DOMAIN row = {"status", "source_signal_ref", "idempotency_key"}
      BY DEF WebhookDeliveryRow
    <3>3. /\ DOMAIN WebhookDeliveriesTable = {"status", "source_signal_ref", "idempotency_key"}
          /\ WebhookDeliveriesTable["idempotency_key"] = "null"
      BY DEF WebhookDeliveriesTable
    <3> HIDE DEF row
    <3>4. Fits(row, WebhookDeliveriesTable)
      BY <3>1, <3>2, <3>3 DEF Fits
    <3> QED BY <3>4 DEF row
  <2> QED BY <1>7, <2>2, RowIs, TablesAre
<1>8. CASE agg.kind = "Chat"
  <2>1. agg.status # Null
    <3>1. agg.status \in RowStatuses
      BY <1>8, OfKind DEF GoodChat, RowStatuses, ChatStatuses
    <3> QED BY <1>1, <3>1
  <2>2. Fits(ChatRow(agg), ChatsTable)
    <3> DEFINE row == ChatRow(agg)
    <3>0. row.label_ids \in SUBSET LabelIds
      BY <1>8, OfKind DEF GoodChat, ChatRow, ToSet
    <3>1. /\ row.instance_id # Null
          /\ row.status # Null
          /\ row.jid # Null
          /\ row.label_ids # Null
      BY <1>1, <2>1, <3>0, NullIsNoValue DEF ChatRow, RowNames
    <3>2. DOMAIN row = {"instance_id", "status", "jid", "label_ids"}
      BY DEF ChatRow
    <3>3. /\ DOMAIN ChatsTable = {"instance_id", "status", "jid", "label_ids"}
      BY DEF ChatsTable
    <3> HIDE DEF row
    <3>4. Fits(row, ChatsTable)
      BY <3>1, <3>2, <3>3 DEF Fits
    <3> QED BY <3>4 DEF row
  <2> QED BY <1>8, <2>2, RowIs, TablesAre
<1>9. CASE agg.kind = "Contact"
  <2>1. agg.status # Null
    <3>1. agg.status \in RowStatuses
      BY <1>9, OfKind DEF GoodContact, RowStatuses, ContactChanges
    <3> QED BY <1>1, <3>1
  <2>2. Fits(ContactRow(agg), ContactsTable)
    <3> DEFINE row == ContactRow(agg)
    <3>1. /\ row.instance_id # Null
          /\ row.status # Null
          /\ row.jid # Null
      BY <1>1, <2>1, NullIsNoValue DEF ContactRow, RowNames
    <3>2. DOMAIN row = {"instance_id", "status", "jid"}
      BY DEF ContactRow
    <3>3. /\ DOMAIN ContactsTable = {"instance_id", "status", "jid"}
      BY DEF ContactsTable
    <3> HIDE DEF row
    <3>4. Fits(row, ContactsTable)
      BY <3>1, <3>2, <3>3 DEF Fits
    <3> QED BY <3>4 DEF row
  <2> QED BY <1>9, <2>2, RowIs, TablesAre
<1>10. CASE agg.kind = "Group"
  <2>1. agg.status # Null
    <3>1. agg.status \in RowStatuses
      BY <1>10, OfKind DEF GoodGroup, RowStatuses, GroupTransitions
    <3> QED BY <1>1, <3>1
  <2>2. Fits(GroupRow(agg), GroupsTable)
    <3> DEFINE row == GroupRow(agg)
    <3>1. /\ row.instance_id # Null
          /\ row.status # Null
          /\ row.jid # Null
      BY <1>1, <2>1, NullIsNoValue DEF GroupRow, RowNames
    <3>2. DOMAIN row = {"instance_id", "status", "jid"}
      BY DEF GroupRow
    <3>3. /\ DOMAIN GroupsTable = {"instance_id", "status", "jid"}
      BY DEF GroupsTable
    <3> HIDE DEF row
    <3>4. Fits(row, GroupsTable)
      BY <3>1, <3>2, <3>3 DEF Fits
    <3> QED BY <3>4 DEF row
  <2> QED BY <1>10, <2>2, RowIs, TablesAre
<1>11. CASE agg.kind = "GuardrailDecision"
  <2>1. agg.status # Null
    <3>1. agg.status \in RowStatuses
      BY <1>11, OfKind DEF GoodGuardrailDecision, RowStatuses, GuardrailDecisionTransitions
    <3> QED BY <1>1, <3>1
  <2>2. Fits(GuardrailDecisionRow(agg), GuardrailDecisionsTable)
    <3> DEFINE row == GuardrailDecisionRow(agg)
    <3>1. /\ row.evaluated_intent_ref # Null
          /\ row.status # Null
      BY <1>1, <2>1, NullIsNoValue DEF GuardrailDecisionRow, RowNames
    <3>2. DOMAIN row = {"evaluated_intent_ref", "status"}
      BY DEF GuardrailDecisionRow
    <3>3. /\ DOMAIN GuardrailDecisionsTable = {"evaluated_intent_ref", "status"}
      BY DEF GuardrailDecisionsTable
    <3> HIDE DEF row
    <3>4. Fits(row, GuardrailDecisionsTable)
      BY <3>1, <3>2, <3>3 DEF Fits
    <3> QED BY <3>4 DEF row
  <2> QED BY <1>11, <2>2, RowIs, TablesAre
<1>12. CASE agg.kind = "HealthStatus"
  <2>1. agg.status # Null
    <3>1. agg.status \in RowStatuses
      BY <1>12, OfKind DEF GoodHealthStatus, RowStatuses
    <3> QED BY <1>1, <3>1
  <2>2. Fits(HealthStatusRow(agg), HealthStatusesTable)
    <3> DEFINE row == HealthStatusRow(agg)
    <3>1. /\ row.subject_ref # Null
          /\ row.category # Null
      BY <1>1, <2>1, NullIsNoValue DEF HealthStatusRow, RowNames
    <3>2. DOMAIN row = {"subject_ref", "category"}
      BY DEF HealthStatusRow
    <3>3. /\ DOMAIN HealthStatusesTable = {"subject_ref", "category"}
      BY DEF HealthStatusesTable
    <3> HIDE DEF row
    <3>4. Fits(row, HealthStatusesTable)
      BY <3>1, <3>2, <3>3 DEF Fits
    <3> QED BY <3>4 DEF row
  <2> QED BY <1>12, <2>2, RowIs, TablesAre
<1>13. CASE agg.kind = "AuditRecord"
  <2>1. agg.status # Null
    <3>1. agg.status \in RowStatuses
      BY <1>13, OfKind DEF GoodAuditRecord, RowStatuses, AuditRecordTransitions
    <3> QED BY <1>1, <3>1
  <2>2. Fits(AuditRecordRow(agg, side), AuditRecordsTable)
    <3> DEFINE row == AuditRecordRow(agg, side)
    <3>1. /\ row.audit_category # Null
          /\ row.status # Null
      BY <1>1, <2>1, NullIsNoValue DEF AuditRecordRow, RowNames
    <3>2. DOMAIN row = {"audit_category", "status", "source_signal_ref"}
      BY DEF AuditRecordRow
    <3>3. /\ DOMAIN AuditRecordsTable = {"audit_category", "status", "source_signal_ref"}
          /\ AuditRecordsTable["source_signal_ref"] = "null"
      BY DEF AuditRecordsTable
    <3> HIDE DEF row
    <3>4. Fits(row, AuditRecordsTable)
      BY <3>1, <3>2, <3>3 DEF Fits
    <3> QED BY <3>4 DEF row
  <2> QED BY <1>13, <2>2, RowIs, TablesAre
<1>14. CASE agg.kind = "Label"
  <2>1. agg.status # Null
    <3>1. agg.status \in RowStatuses
      BY <1>14, OfKind DEF GoodLabel, RowStatuses, LabelChanges
    <3> QED BY <1>1, <3>1
  <2>2. Fits(LabelRow(agg), LabelsTable)
    <3> DEFINE row == LabelRow(agg)
    <3>1. /\ row.instance_id # Null
          /\ row.status # Null
      BY <1>1, <2>1, NullIsNoValue DEF LabelRow, RowNames
    <3>2. DOMAIN row = {"instance_id", "status"}
      BY DEF LabelRow
    <3>3. /\ DOMAIN LabelsTable = {"instance_id", "status"}
      BY DEF LabelsTable
    <3> HIDE DEF row
    <3>4. Fits(row, LabelsTable)
      BY <3>1, <3>2, <3>3 DEF Fits
    <3> QED BY <3>4 DEF row
  <2> QED BY <1>14, <2>2, RowIs, TablesAre
<1>15. CASE agg.kind = "MediaAsset"
  <2>1. agg.status # Null
    <3>1. agg.status \in RowStatuses
      BY <1>15, OfKind DEF GoodMediaAsset, RowStatuses, MediaAssetTransitions
    <3> QED BY <1>1, <3>1
  <2>2. Fits(MediaAssetRow(agg, side), MediaAssetsTable)
    <3> DEFINE row == MediaAssetRow(agg, side)
    <3>0. row.cleanup_required # Null
      <4>1. row.cleanup_required \in BOOLEAN
        BY DEF MediaAssetRow
      <4> QED BY <4>1, NullIsNoValue
    <3>1. /\ row.status # Null
      BY <1>1, <2>1, NullIsNoValue DEF MediaAssetRow, RowNames
    <3>2. DOMAIN row = {"status", "message_id", "cleanup_required"}
      BY DEF MediaAssetRow
    <3>3. /\ DOMAIN MediaAssetsTable = {"status", "message_id", "cleanup_required"}
          /\ MediaAssetsTable["message_id"] = "null"
      BY DEF MediaAssetsTable
    <3> HIDE DEF row
    <3>4. Fits(row, MediaAssetsTable)
      BY <3>1, <3>2, <3>3, <3>0 DEF Fits
    <3> QED BY <3>4 DEF row
  <2> QED BY <1>15, <2>2, RowIs, TablesAre
<1> QED
  BY <1>2, <1>3, <1>4, <1>5, <1>6, <1>7, <1>8, <1>9, <1>10, <1>11, <1>12, <1>13, <1>14, <1>15,
     TablesAre
     DEF Stored

-----------------------------------------------------------------------------
(***************************************************************************)
(* Finders: the three repositories answer the same questions.              *)
(***************************************************************************)
\* What another process recorded is not overwritten by its absence.
LEMMA SideIsKept ==
  ASSUME NEW side, NEW read \in SideColumn(side)
  PROVE  Kept(side, read) = side
BY DEF SideColumn, Kept

\* A row is found where the aggregate is.
LEMMA RowIsFound ==
  ASSUME Stored, NEW side \in {Null, "recorded"}
  PROVE  Selects(agg.kind, Row(agg, side)) = Filters(agg, side)
<1>1. \A v \in RowNames : v # Null
  BY NullIsNoValue
<1>2. CASE agg.kind = "Instance"
  <2>1. SelectsInstance(InstanceRow(agg)) = FiltersInstance(agg)
    BY <1>1
       DEF InstanceRow, SelectsInstance, FiltersInstance, RowOfStatus, OfStatus, When, Column,
           RowNames
  <2> QED BY <1>2, <2>1, RowIs, SelectsIs, FiltersIs
<1>3. CASE agg.kind = "WorkerJob"
  <2>1. SelectsWorkerJob(WorkerJobRow(agg, side)) = FiltersWorkerJob(agg, side)
    BY <1>1
       DEF WorkerJobRow, SelectsWorkerJob, FiltersWorkerJob, RowOfStatus, RowOfKey, OfStatus,
           OfKey, When, Column, RowNames
  <2> QED BY <1>3, <2>1, RowIs, SelectsIs, FiltersIs
<1>4. CASE agg.kind = "Message"
  <2>1. SelectsMessage(MessageRow(agg, side)) = FiltersMessage(agg, side)
    BY <1>1
       DEF MessageRow, SelectsMessage, FiltersMessage, RowOfStatus, RowOfKey, OfStatus, OfKey,
           When, Column, RowNames
  <2> QED BY <1>4, <2>1, RowIs, SelectsIs, FiltersIs
<1>5. CASE agg.kind = "Session"
  <2>1. SelectsSession(SessionRow(agg)) = FiltersSession(agg)
    BY <1>1
       DEF SessionRow, SelectsSession, FiltersSession, RowOfInstance, OfInstance, When,
           Column, RowNames
  <2> QED BY <1>5, <2>1, RowIs, SelectsIs, FiltersIs
<1>6. CASE agg.kind = "WebhookSubscription"
  <2>1. SelectsWebhookSubscription(WebhookSubscriptionRow(agg,
      side)) = FiltersWebhookSubscription(agg, side)
    BY <1>1
       DEF WebhookSubscriptionRow, SelectsWebhookSubscription, FiltersWebhookSubscription,
           RowOfStatus, OfStatus, When, Column, RowNames
  <2> QED BY <1>6, <2>1, RowIs, SelectsIs, FiltersIs
<1>7. CASE agg.kind = "WebhookDelivery"
  <2>1. SelectsWebhookDelivery(WebhookDeliveryRow(agg, side)) = FiltersWebhookDelivery(agg,
      side)
    BY <1>1
       DEF WebhookDeliveryRow, SelectsWebhookDelivery, FiltersWebhookDelivery, RowOfStatus,
           RowOfKey, OfStatus, OfKey, When, Column, RowNames
  <2> QED BY <1>7, <2>1, RowIs, SelectsIs, FiltersIs
<1>8. CASE agg.kind = "Chat"
  <2>1. SelectsChat(ChatRow(agg)) = FiltersChat(agg)
    BY <1>1
       DEF ChatRow, SelectsChat, FiltersChat, RowOfStatus, RowOfInstance, RowOfJid, OfStatus,
           OfInstance, OfJid, When, Column, RowNames
  <2> QED BY <1>8, <2>1, RowIs, SelectsIs, FiltersIs
<1>9. CASE agg.kind = "Contact"
  <2>1. SelectsContact(ContactRow(agg)) = FiltersContact(agg)
    BY <1>1
       DEF ContactRow, SelectsContact, FiltersContact, RowOfStatus, RowOfInstance, RowOfJid,
           OfStatus, OfInstance, OfJid, When, Column, RowNames
  <2> QED BY <1>9, <2>1, RowIs, SelectsIs, FiltersIs
<1>10. CASE agg.kind = "Group"
  <2>1. SelectsGroup(GroupRow(agg)) = FiltersGroup(agg)
    BY <1>1
       DEF GroupRow, SelectsGroup, FiltersGroup, RowOfStatus, RowOfInstance, RowOfJid,
           OfStatus, OfInstance, OfJid, When, Column, RowNames
  <2> QED BY <1>10, <2>1, RowIs, SelectsIs, FiltersIs
<1>11. CASE agg.kind = "GuardrailDecision"
  <2>1. SelectsGuardrailDecision(GuardrailDecisionRow(agg)) = FiltersGuardrailDecision(agg)
    BY <1>1
       DEF GuardrailDecisionRow, SelectsGuardrailDecision, FiltersGuardrailDecision, When,
           Column, RowNames
  <2> QED BY <1>11, <2>1, RowIs, SelectsIs, FiltersIs
<1>12. CASE agg.kind = "HealthStatus"
  <2>1. SelectsHealthStatus(HealthStatusRow(agg)) = FiltersHealthStatus(agg)
    BY <1>1
       DEF HealthStatusRow, SelectsHealthStatus, FiltersHealthStatus, When, Column, RowNames
  <2> QED BY <1>12, <2>1, RowIs, SelectsIs, FiltersIs
<1>13. CASE agg.kind = "AuditRecord"
  <2>1. SelectsAuditRecord(AuditRecordRow(agg, side)) = FiltersAuditRecord(agg, side)
    BY <1>1 DEF AuditRecordRow, SelectsAuditRecord, FiltersAuditRecord, When, Column, RowNames
  <2> QED BY <1>13, <2>1, RowIs, SelectsIs, FiltersIs
<1>14. CASE agg.kind = "Label"
  <2>1. SelectsLabel(LabelRow(agg)) = FiltersLabel(agg)
    BY <1>1
       DEF LabelRow, SelectsLabel, FiltersLabel, RowOfStatus, RowOfInstance, OfStatus,
           OfInstance, When, Column, RowNames
  <2> QED BY <1>14, <2>1, RowIs, SelectsIs, FiltersIs
<1>15. CASE agg.kind = "MediaAsset"
  <2>1. SelectsMediaAsset(MediaAssetRow(agg, side)) = FiltersMediaAsset(agg, side)
    BY <1>1
       DEF MediaAssetRow, SelectsMediaAsset, FiltersMediaAsset, RowOfStatus, OfStatus, When,
           Column, RowNames
  <2> QED BY <1>15, <2>1, RowIs, SelectsIs, FiltersIs
<1> QED
  BY <1>2, <1>3, <1>4, <1>5, <1>6, <1>7, <1>8, <1>9, <1>10, <1>11, <1>12, <1>13, <1>14, <1>15,
     TablesAre
     DEF Stored

\* What a JSON file's indexes hold of a side value.
LEMMA JsonKeeps ==
  ASSUME NEW kind, NEW side
  PROVE  /\ side = Null => JsonIndex(kind, side) = {}
         /\ side # Null /\ kind \in {"Message", "WebhookDelivery", "WorkerJob"}
              => JsonKey(JsonIndex(kind, side)) = {side}
         /\ side # Null /\ kind = "MediaAsset" => JsonCleanup(JsonIndex(kind, side)) = {""}
         /\ side # Null /\ kind = "WebhookSubscription"
              => JsonSignals(JsonIndex(kind, side)) = {side}
         /\ side # Null /\ kind = "AuditRecord" => JsonSource(JsonIndex(kind, side)) = {side}
<1>1. side = Null => JsonIndex(kind, side) = {}
  BY DEF JsonIndex
<1>2. ASSUME side # Null, kind \in {"Message", "WebhookDelivery", "WorkerJob"}
      PROVE  JsonKey(JsonIndex(kind, side)) = {side}
  <2>1. JsonIndex(kind, side) = {IndexEntry("idempotency", side, "id")}
    BY <1>2 DEF JsonIndex
  <2>2. {f \in JsonIndex(kind, side) : f.index = "idempotency" /\ f.value = "id"}
          = {IndexEntry("idempotency", side, "id")}
    BY <2>1 DEF IndexEntry
  <2>3. IndexEntry("idempotency", side, "id").key = side
    BY DEF IndexEntry
  <2> QED BY <2>2, <2>3 DEF JsonKey
<1>3. ASSUME side # Null, kind = "MediaAsset"
      PROVE  JsonCleanup(JsonIndex(kind, side)) = {""}
  <2>1. JsonIndex(kind, side) = {IndexEntry("cleanupRequired", "id", "true")}
    BY <1>3 DEF JsonIndex
  <2>2. {f \in JsonIndex(kind, side) : f.index = "cleanupRequired" /\ f.key = "id"}
          = {IndexEntry("cleanupRequired", "id", "true")}
    BY <2>1 DEF IndexEntry
  <2> QED BY <2>2 DEF JsonCleanup
<1>4. ASSUME side # Null, kind = "WebhookSubscription"
      PROVE  JsonSignals(JsonIndex(kind, side)) = {side}
  <2>1. JsonIndex(kind, side) = {IndexEntry("signalRefs", "id", side)}
    BY <1>4 DEF JsonIndex
  <2>2. {f \in JsonIndex(kind, side) : f.index = "signalRefs" /\ f.key = "id"}
          = {IndexEntry("signalRefs", "id", side)}
    BY <2>1 DEF IndexEntry
  <2>3. IndexEntry("signalRefs", "id", side).value = side
    BY DEF IndexEntry
  <2> QED BY <2>2, <2>3 DEF JsonSignals
<1>5. ASSUME side # Null, kind = "AuditRecord"
      PROVE  JsonSource(JsonIndex(kind, side)) = {side}
  <2>1. JsonIndex(kind, side) = {IndexEntry("sourceSignal", "id", side)}
    BY <1>5 DEF JsonIndex
  <2>2. {f \in JsonIndex(kind, side) : f.index = "sourceSignal" /\ f.key = "id"}
          = {IndexEntry("sourceSignal", "id", side)}
    BY <2>1 DEF IndexEntry
  <2>3. IndexEntry("sourceSignal", "id", side).value = side
    BY DEF IndexEntry
  <2> QED BY <2>2, <2>3 DEF JsonSource
<1> QED BY <1>1, <1>2, <1>3, <1>4, <1>5

\* The file's finders are the in-memory ones and those of its indexes.
LEMMA JsonFinderIs ==
  ASSUME NEW entries
  PROVE  /\ agg.kind \in {"Message", "WebhookDelivery", "WorkerJob"} =>
              JsonFinds(agg, entries)
                = Filters(agg, Null) \cup {<<"findByIdempotencyKey",
                                           k>> : k \in JsonKey(entries)}
         /\ agg.kind = "MediaAsset" =>
              JsonFinds(agg, entries)
                = Filters(agg, Null) \cup {<<"findRequiringCleanup", c>> : c \in
                                             {d \in JsonCleanup(entries) : agg.status # "cleaned"}}
         /\ agg.kind = "WebhookSubscription" =>
              JsonFinds(agg, entries)
                = Filters(agg, Null) \cup {<<"findActiveForSignal", s>> : s \in
                                             {r \in JsonSignals(entries) : agg.status = "active"}}
         /\ agg.kind = "AuditRecord" =>
              JsonFinds(agg, entries)
                = Filters(agg, Null) \cup {<<"findBySourceSignal",
                                           s>> : s \in JsonSource(entries)}
         /\ agg.kind \notin {"Message", "WebhookDelivery", "WorkerJob", "MediaAsset",
                             "WebhookSubscription", "AuditRecord"}
              => JsonFinds(agg, entries) = Filters(agg, Null)
BY DEF JsonFinds

\* The file finds what memory does.
LEMMA JsonIsFound ==
  ASSUME Stored, NEW side \in {Null, "recorded"}
  PROVE  JsonFinds(agg, JsonIndex(agg.kind, side)) = Filters(agg, side)
<1> DEFINE entries == JsonIndex(agg.kind, side)
<1>1. CASE side = Null
  <2>1. /\ JsonKey({}) = {} /\ JsonCleanup({}) = {}
        /\ JsonSignals({}) = {} /\ JsonSource({}) = {}
    BY DEF JsonKey, JsonCleanup, JsonSignals, JsonSource
  <2>2. entries = {}
    BY <1>1, JsonKeeps
  <2> HIDE DEF entries
  <2>3. JsonFinds(agg, entries) = Filters(agg, Null)
    BY <2>1, <2>2, JsonFinderIs
  <2> QED BY <1>1, <2>3 DEF entries
<1>2. CASE side # Null /\ agg.kind = "Message"
  <2>1. JsonKey(entries) = {side}
    BY <1>2, JsonKeeps
  <2>2. /\ Filters(agg, Null) = FiltersMessage(agg, Null)
        /\ Filters(agg, side) = FiltersMessage(agg, side)
    BY <1>2, FiltersIs
  <2> HIDE DEF entries
  <2>3. JsonFinds(agg, entries) = Filters(agg, Null) \cup {<<"findByIdempotencyKey", side>>}
    BY <1>2, <2>1, JsonFinderIs
  <2>4. JsonFinds(agg, entries) = Filters(agg, side)
    BY <1>2, <2>2, <2>3 DEF FiltersMessage, When, OfKey
  <2> QED BY <2>4 DEF entries
<1>3. CASE side # Null /\ agg.kind = "WebhookDelivery"
  <2>1. JsonKey(entries) = {side}
    BY <1>3, JsonKeeps
  <2>2. /\ Filters(agg, Null) = FiltersWebhookDelivery(agg, Null)
        /\ Filters(agg, side) = FiltersWebhookDelivery(agg, side)
    BY <1>3, FiltersIs
  <2> HIDE DEF entries
  <2>3. JsonFinds(agg, entries) = Filters(agg, Null) \cup {<<"findByIdempotencyKey", side>>}
    BY <1>3, <2>1, JsonFinderIs
  <2>4. JsonFinds(agg, entries) = Filters(agg, side)
    BY <1>3, <2>2, <2>3 DEF FiltersWebhookDelivery, When, OfKey
  <2> QED BY <2>4 DEF entries
<1>4. CASE side # Null /\ agg.kind = "WorkerJob"
  <2>1. JsonKey(entries) = {side}
    BY <1>4, JsonKeeps
  <2>2. /\ Filters(agg, Null) = FiltersWorkerJob(agg, Null)
        /\ Filters(agg, side) = FiltersWorkerJob(agg, side)
    BY <1>4, FiltersIs
  <2> HIDE DEF entries
  <2>3. JsonFinds(agg, entries) = Filters(agg, Null) \cup {<<"findByIdempotencyKey", side>>}
    BY <1>4, <2>1, JsonFinderIs
  <2>4. JsonFinds(agg, entries) = Filters(agg, side)
    BY <1>4, <2>2, <2>3 DEF FiltersWorkerJob, When, OfKey
  <2> QED BY <2>4 DEF entries
<1>5. CASE side # Null /\ agg.kind = "MediaAsset"
  <2>1. JsonCleanup(entries) = {""}
    BY <1>5, JsonKeeps
  <2>2. /\ Filters(agg, Null) = FiltersMediaAsset(agg, Null)
        /\ Filters(agg, side) = FiltersMediaAsset(agg, side)
    BY <1>5, FiltersIs
  <2> HIDE DEF entries
  <2>3. JsonFinds(agg, entries)
          = Filters(agg, Null)
              \cup (IF agg.status # "cleaned" THEN {<<"findRequiringCleanup", "">>} ELSE {})
    <3> DEFINE asked == {d \in JsonCleanup(entries) : agg.status # "cleaned"}
    <3>1. asked = IF agg.status # "cleaned" THEN {""} ELSE {}
      BY <2>1
    <3>2. JsonFinds(agg, entries)
            = Filters(agg, Null) \cup {<<"findRequiringCleanup", c>> : c \in asked}
      BY <1>5, JsonFinderIs
    <3> HIDE DEF asked
    <3> QED BY <3>1, <3>2
  <2>4. JsonFinds(agg, entries) = Filters(agg, side)
    BY <1>5, <2>2, <2>3 DEF FiltersMediaAsset, When
  <2> QED BY <2>4 DEF entries
<1>6. CASE side # Null /\ agg.kind = "WebhookSubscription"
  <2>1. JsonSignals(entries) = {side}
    BY <1>6, JsonKeeps
  <2>2. /\ Filters(agg, Null) = FiltersWebhookSubscription(agg, Null)
        /\ Filters(agg, side) = FiltersWebhookSubscription(agg, side)
    BY <1>6, FiltersIs
  <2> HIDE DEF entries
  <2>3. JsonFinds(agg, entries)
          = Filters(agg, Null)
              \cup (IF agg.status = "active" THEN {<<"findActiveForSignal", side>>} ELSE {})
    BY <1>6, <2>1, JsonFinderIs
  <2>4. JsonFinds(agg, entries) = Filters(agg, side)
    BY <1>6, <2>2, <2>3 DEF FiltersWebhookSubscription, When
  <2> QED BY <2>4 DEF entries
<1>7. CASE side # Null /\ agg.kind = "AuditRecord"
  <2>1. JsonSource(entries) = {side}
    BY <1>7, JsonKeeps
  <2>2. /\ Filters(agg, Null) = FiltersAuditRecord(agg, Null)
        /\ Filters(agg, side) = FiltersAuditRecord(agg, side)
    BY <1>7, FiltersIs
  <2> HIDE DEF entries
  <2>3. JsonFinds(agg, entries) = Filters(agg, Null) \cup {<<"findBySourceSignal", side>>}
    BY <1>7, <2>1, JsonFinderIs
  <2>4. JsonFinds(agg, entries) = Filters(agg, side)
    BY <1>7, <2>2, <2>3 DEF FiltersAuditRecord, When
  <2> QED BY <2>4 DEF entries
<1>8. CASE agg.kind \notin {"Message", "WebhookDelivery", "WorkerJob", "MediaAsset",
                              "WebhookSubscription", "AuditRecord"}
  <2>1. Filters(agg, Null) = Filters(agg, side)
    BY <1>8, FiltersIs, TablesAre DEF Stored
  <2> QED BY <1>8, <2>1, JsonFinderIs
<1> QED BY <1>1, <1>2, <1>3, <1>4, <1>5, <1>6, <1>7, <1>8

\* Whatever a program saves, PostgreSQL takes and gives back, and the three kinds
\* of repository find it by the same questions.
THEOREM RowsAreTrue == LibrarySpec => []RowsAgree
<1>1. GoodAggregate(agg) => SavedIsLoaded
  <2> SUFFICES ASSUME GoodAggregate(agg)
               PROVE  SavedIsLoaded
    OBVIOUS
  <2>1. ASSUME Stored, NEW side \in {Null, "recorded"}
        PROVE  Fits(Row(agg, side), Tables[agg.kind])
    BY <2>1, RowsFit
  <2>2. /\ agg.attempt <= MaxAttempts => Decode(agg) = agg
        /\ agg.attempt > MaxAttempts => Decode(agg) = Throws
    BY GoodLoads
  <2> QED BY <2>1, <2>2 DEF SavedIsLoaded, Fits
<1>2. FindersAgree
  <2>1. ASSUME Stored, NEW side \in {Null, "recorded"}, NEW read \in SideColumn(side)
        PROVE  /\ Selects(agg.kind, Row(agg, Kept(side, read))) = Filters(agg, side)
               /\ JsonFinds(agg, JsonIndex(agg.kind, side)) = Filters(agg, side)
    BY <2>1, SideIsKept, RowIsFound, JsonIsFound
  <2> QED BY <2>1 DEF FindersAgree
<1>3. GoodAggregate(agg) => RowsAgree
  BY <1>1, <1>2 DEF RowsAgree
<1> QED BY <1>3, AggregateIsGood, PTL
=============================================================================
