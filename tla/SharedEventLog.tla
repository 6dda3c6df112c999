--------------------------- MODULE SharedEventLog ---------------------------
(***************************************************************************)
(* The JSON event log (event-log-store.ts) in a file that several processes *)
(* were given: in compose.production.yml the worker, which appends domain   *)
(* events through EventLogInternalEventBus, and the provider runtime, which *)
(* appends provider signals through the signal ingress.  Each numbers its   *)
(* events from the state it loaded when it started, and each write puts the *)
(* writer's whole view in the file.                                         *)
(***************************************************************************)
EXTENDS DurableJsonFile, Naturals, Sequences, SequencesExt

CONSTANTS EventId,          \* the ids events are appended under
          Appends,          \* [Process -> SUBSET EventId]: who appends what
          RetentionLimit,   \* events kept for replay
          MaxSequence,      \* bound: the highest cursor the model issues
          MaxStops,         \* bound: how often processes are killed
          MaxFailures       \* bound: how often the file system refuses

ASSUME LogConstants ==
  /\ Appends \in [Process -> SUBSET EventId]
  /\ {RetentionLimit, MaxSequence} \subseteq Nat \ {0}
  /\ {MaxStops, MaxFailures} \subseteq Nat

VARIABLES request,    \* the id each process is appending, or NoRequest
          answered,   \* history: [p |-> the entries answered as recorded]
          unwritten,  \* history: ids whose own write has failed
          writers,    \* history: the processes whose write has begun
          budget      \* the stops and failures still allowed

logVars == <<request, answered, unwritten, writers, budget>>
vars == <<fileVars, logVars>>

-----------------------------------------------------------------------------
(* The log's state: the next sequence, the retained events and the outbox,   *)
(* which is never trimmed.  A cursor is the event's sequence number.         *)

NoRequest == "none"

EmptyLog == [next |-> 1, events |-> <<>>, outbox |-> <<>>]

Entry == [id : EventId, cursor : 1 .. MaxSequence]

\* What the file holds is a log, or not JSON at all.
ASSUME LogFile ==
  /\ EmptyState = EmptyLog
  /\ Torn \notin [next : Nat, events : Seq(Entry), outbox : Seq(Entry)]
  /\ NoRequest \notin EventId

Ids(entries) == {entries[n].id : n \in DOMAIN entries}

RetainEvents(events) ==
  SubSeq(events,
         IF Len(events) > RetentionLimit THEN Len(events) - RetentionLimit + 1 ELSE 1,
         Len(events))

(* Mutant: the sequence is taken from the events that are still retained.    *)
AppendedAfterRetained(log, e) ==
  LET entry == [id |-> e, cursor |-> Len(log.events) + 1]
  IN [next   |-> log.next + 1,
      events |-> RetainEvents(Append(log.events, entry)),
      outbox |-> Append(log.outbox, entry)]

Appended(log, e) ==
  LET entry == [id |-> e, cursor |-> log.next]
  IN [next   |-> log.next + 1,
      events |-> RetainEvents(Append(log.events, entry)),
      outbox |-> Append(log.outbox, entry)]

(* replayEvents: what a client that holds a cursor is told about it.         *)
CursorStatus(log, cursor) ==
  CASE \E n \in DOMAIN log.events : log.events[n].cursor = cursor -> "ok"
    [] log.events # <<>> /\ cursor < Head(log.events).cursor -> "expired"
    [] OTHER -> "not_found"

Position(log, cursor) == CHOOSE n \in DOMAIN log.events : log.events[n].cursor = cursor

Replayed(log, cursor) == SubSeq(log.events, Position(log, cursor) + 1, Len(log.events))

-----------------------------------------------------------------------------

TypeOK ==
  /\ FileTypeOK
  /\ request \in [Process -> EventId \cup {NoRequest}]
  /\ answered \in [Process -> SUBSET Entry]
  /\ unwritten \subseteq EventId
  /\ writers \subseteq Process
  /\ budget \in [stops : 0 .. MaxStops, failures : 0 .. MaxFailures]

Init ==
  /\ FileInit
  /\ request = [p \in Process |-> NoRequest]
  /\ answered = [p \in Process |-> {}]
  /\ unwritten = {}
  /\ writers = {}
  /\ budget = [stops |-> MaxStops, failures |-> MaxFailures]

Start(p) == StartStore(p) /\ UNCHANGED logVars

(* appendEvent, an id that is still retained: the event is answered as it    *)
(* was recorded, and nothing is written.                                     *)
AnswerRetained(p, e) ==
  /\ step[p] = "idle"
  /\ \E n \in DOMAIN memory[p].events :
       /\ memory[p].events[n].id = e
       /\ answered' = [answered EXCEPT ![p] = @ \cup {memory[p].events[n]}]
  /\ UNCHANGED <<fileVars, request, unwritten, writers, budget>>

(* appendEvent, an id neither retained nor in the outbox; one that is only   *)
(* in the outbox is answered with a conflict and changes nothing.            *)
AppendNew(p, e) ==
  /\ e \notin Ids(memory[p].events) \cup Ids(memory[p].outbox)
  /\ memory[p].next =< MaxSequence
  /\ ChangeState(p, Appended(memory[p], e))
  /\ request' = [request EXCEPT ![p] = e]
  /\ UNCHANGED <<answered, unwritten, writers, budget>>

BeginWrite(p) ==
  /\ OpenTemporary(p)
  /\ writers' = writers \cup {p}
  /\ UNCHANGED <<request, answered, unwritten, budget>>

Fill(p) == FillTemporary(p) /\ UNCHANGED logVars

(* The write is complete: the new event is answered.                         *)
AnswerRecorded(p) ==
  /\ RenameTemporary(p)
  /\ answered' = [answered EXCEPT ![p] = @ \cup {Last(memory[p].outbox)}]
  /\ request' = [request EXCEPT ![p] = NoRequest]
  /\ UNCHANGED <<unwritten, writers, budget>>

(* persist() throws: event_log_append_rejected, while the event stays in     *)
(* the memory of the process.                                                *)
AnswerRejected(p) ==
  /\ \/ RenameFails(p) /\ UNCHANGED budget
     \/ /\ budget.failures > 0
        /\ WriteFails(p)
        /\ budget' = [budget EXCEPT !.failures = @ - 1]
  /\ unwritten' = unwritten \cup {request[p]}
  /\ request' = [request EXCEPT ![p] = NoRequest]
  /\ UNCHANGED <<answered, writers>>

Stop(p) ==
  /\ budget.stops > 0
  /\ StopStore(p)
  /\ budget' = [budget EXCEPT !.stops = @ - 1]
  /\ request' = [request EXCEPT ![p] = NoRequest]
  /\ UNCHANGED <<answered, unwritten, writers>>

Next ==
  \E p \in Process :
    \/ Start(p) \/ BeginWrite(p) \/ Fill(p)
    \/ AnswerRecorded(p) \/ AnswerRejected(p) \/ Stop(p)
    \/ \E e \in Appends[p] : AnswerRetained(p, e) \/ AppendNew(p, e)

Spec == Init /\ [][Next]_vars

-----------------------------------------------------------------------------
(* Properties. *)

(* No other process has begun to write the file.                             *)
Alone(p) == writers \subseteq {p}

Logs == {memory[p] : p \in Process} \cup ({FileState} \ {Torn})

(* An id is recorded at most once and cursors ascend below the next one, in  *)
(* the file and in every process, through every restart and failed write:    *)
(* a signal that is ingested again appends no second event                   *)
(* (provider-signal-ingress.ts:211-218, event-log-store.ts:60-76).           *)
RecordedOnce ==
  \A log \in Logs :
    /\ Len(log.outbox) = Cardinality(Ids(log.outbox))
    /\ \A m, n \in DOMAIN log.outbox :
         m < n => log.outbox[m].cursor < log.outbox[n].cursor
    /\ \A n \in DOMAIN log.outbox : log.outbox[n].cursor < log.next

(* An event that was answered as recorded is in the file for good, through   *)
(* every kill, unless another process writes the same file or the event's    *)
(* own write had failed and a repeat was answered from memory                *)
(* (event-log-store.ts:62-66, 96-98).                                        *)
AnsweredAreKept ==
  \A p \in Process :
    Alone(p) =>
      \A entry \in answered[p] :
        \/ entry.id \in unwritten
        \/ Whole /\ entry \in {FileState.outbox[n] : n \in DOMAIN FileState.outbox}

(* A cursor that was given for an event keeps leading to it: a process that  *)
(* is asked to replay from it either finds that event and replays exactly    *)
(* what was recorded later, or says the cursor expired; it is never unknown  *)
(* and never another event's, with the same two exceptions                   *)
(* (event-log-store.ts:105-148).                                             *)
CursorsKeepTheirEvent ==
  \A p \in Process :
    Alone(p) /\ step[p] # "down" =>
      \A entry \in {a \in answered[p] : a.id \notin unwritten} :
        LET log == memory[p] IN
        /\ CursorStatus(log, entry.cursor) # "not_found"
        /\ CursorStatus(log, entry.cursor) = "ok" =>
             /\ entry \in ToSet(log.events)
             /\ Len(Replayed(log, entry.cursor)) = log.next - entry.cursor - 1

(* All three: an event is recorded once, for good, and under its cursor.     *)
RecordedForGood == RecordedOnce /\ AnsweredAreKept /\ CursorsKeepTheirEvent
=============================================================================
