------------------------- MODULE SharedStateProofs -------------------------
(***************************************************************************)
(* Theorems about what processes and requests share without a lock: the    *)
(* file of a durable JSON store, the event log in such a file, the schema  *)
(* of the database, a group that requests change over one another, an      *)
(* instance that is destroyed while a worker is at its jobs, and the queue *)
(* a process keeps in its memory and in such a file; for any number of     *)
(* processes and requests, kills and failures.                             *)
(***************************************************************************)
EXTENDS SharedEventLog, SchemaMigrations, GroupMutations, InstanceCommands, InMemoryQueue,
        FiniteSetTheorems, SequenceTheorems, TLAPS

(***************************************************************************)
(* Part 1.  The file.                                                      *)
(***************************************************************************)

(* The temporary name never leads to the file itself, a process has an inode *)
(* open exactly while it fills it, and no process keeps a state that could   *)
(* not be read back.                                                         *)
Apart ==
  /\ tmpAt # NoInode => tmpAt # fileAt
  /\ \A p \in Process : (step[p] = "fill") <=> (fd[p] # NoInode)
  /\ \A p \in Process : memory[p] # Torn

(* Without an overlap the one process between open and rename has the        *)
(* temporary file to itself.                                                 *)
OwnTemporary ==
  /\ \A p, q \in Process : Writing(p) /\ Writing(q) => p = q
  /\ \A p \in Process :
       /\ step[p] = "fill" => fd[p] = tmpAt /\ content[tmpAt] = Torn
       /\ step[p] = "rename" => tmpAt # NoInode /\ content[tmpAt] # Torn

FileInv ==
  /\ FileTypeOK
  /\ Apart
  /\ ~overlapped => Whole /\ OwnTemporary

LEMMA FileInitially == FileInit => FileInv
<1> SUFFICES ASSUME FileInit PROVE FileInv
  OBVIOUS
<1>1. FileTypeOK
  BY DEF FileInit, FileTypeOK, Steps
<1>2. Apart
  BY EmptyIsWhole DEF FileInit, Apart
<1>3. Whole
  BY EmptyIsWhole DEF FileInit, Whole, FileState
<1>4. OwnTemporary
  BY DEF FileInit, OwnTemporary, Writing
<1> QED BY <1>1, <1>2, <1>3, <1>4 DEF FileInv

(* One step per action. *)
LEMMA FileKept == FileInv /\ [FileNext]_fileVars => FileInv'
<1> SUFFICES ASSUME FileInv, [FileNext]_fileVars PROVE FileInv'
  OBVIOUS
<1> USE DEF FileInv
<1>0. NoInode \notin Inode /\ EmptyState # Torn
  BY NoInodeIsNone, EmptyIsWhole
<1>1. ASSUME NEW p \in Process, StartStore(p) PROVE FileInv'
  <2>1. FileTypeOK'
    BY <1>1 DEF StartStore, FileTypeOK, Steps
  <2>2. Apart'
    BY <1>1 DEF StartStore, FileTypeOK, Apart, Whole
  <2>3. ~overlapped' => Whole' /\ OwnTemporary'
    BY <1>1 DEF StartStore, FileTypeOK, OwnTemporary, Whole, FileState, Writing
  <2> QED BY <2>1, <2>2, <2>3
<1>2. ASSUME NEW p \in Process, ChangeToAny(p) PROVE FileInv'
  <2>1. FileTypeOK'
    BY <1>2 DEF ChangeToAny, ChangeState, FileTypeOK, Steps
  <2>2. Apart'
    BY <1>2 DEF ChangeToAny, ChangeState, FileTypeOK, Apart
  <2>3. ~overlapped' => Whole' /\ OwnTemporary'
    BY <1>2 DEF ChangeToAny, ChangeState, FileTypeOK, OwnTemporary, Whole,
                FileState, Writing
  <2> QED BY <2>1, <2>2, <2>3
<1>3. ASSUME NEW p \in Process, OpenTemporary(p) PROVE FileInv'
  <2>1. PICK i \in Inode :
          /\ IF tmpAt = NoInode THEN Unused(i) ELSE i = tmpAt
          /\ content' = [content EXCEPT ![i] = Torn]
          /\ tmpAt' = i
          /\ fd' = [fd EXCEPT ![p] = i]
    BY <1>3 DEF OpenTemporary
  <2>2. /\ step[p] = "open"
        /\ step' = [step EXCEPT ![p] = "fill"]
        /\ overlapped' = (overlapped \/ \E q \in Process \ {p} : Writing(q))
        /\ UNCHANGED <<fileAt, memory>>
    BY <1>3 DEF OpenTemporary
  <2>3. i # fileAt
    BY <2>1 DEF Unused, Apart
  <2>4. FileTypeOK'
    BY <2>1, <2>2 DEF FileTypeOK, Steps
  <2>5. Apart'
    BY <1>0, <2>1, <2>2, <2>3 DEF FileTypeOK, Apart
  <2>6. ~overlapped' => Whole'
    BY <2>1, <2>2, <2>3 DEF FileTypeOK, Whole, FileState
  <2>7. ASSUME ~overlapped' PROVE OwnTemporary'
    <3>1. \A q \in Process \ {p} : step'[q] \notin {"fill", "rename"}
      BY <2>2, <2>7 DEF FileTypeOK, Writing
    <3>2. step'[p] = "fill" /\ fd'[p] = tmpAt' /\ content'[tmpAt'] = Torn
      BY <2>1, <2>2 DEF FileTypeOK
    <3> QED BY <3>1, <3>2 DEF OwnTemporary, Writing
  <2> QED BY <2>4, <2>5, <2>6, <2>7
<1>4. ASSUME NEW p \in Process, FillTemporary(p) PROVE FileInv'
  <2>1. PICK text \in Filled(p) : content' = [content EXCEPT ![fd[p]] = text]
    BY <1>4 DEF FillTemporary
  <2>2. /\ step[p] = "fill"
        /\ fd' = [fd EXCEPT ![p] = NoInode]
        /\ step' = [step EXCEPT ![p] = "rename"]
        /\ UNCHANGED <<fileAt, tmpAt, memory, overlapped>>
    BY <1>4 DEF FillTemporary
  <2>3. FileTypeOK'
    BY <2>1, <2>2 DEF FileTypeOK, Steps
  <2>4. Apart'
    BY <2>2 DEF FileTypeOK, Apart
  <2>5. ASSUME ~overlapped' PROVE Whole' /\ OwnTemporary'
    <3>1. fd[p] = tmpAt /\ content[tmpAt] = Torn /\ fd[p] # NoInode
      BY <2>2, <2>5 DEF OwnTemporary, Apart
    <3>2. text = memory[p] /\ text # Torn
      BY <2>1, <3>1 DEF Filled, Apart
    <3>3. tmpAt # fileAt /\ tmpAt \in Inode
      BY <3>1 DEF Apart, FileTypeOK
    <3>4. Whole'
      BY <2>1, <2>2, <2>5, <3>1, <3>3 DEF FileTypeOK, Whole, FileState
    <3>5. OwnTemporary'
      BY <2>1, <2>2, <2>5, <3>1, <3>2, <3>3 DEF FileTypeOK, OwnTemporary, Writing
    <3> QED BY <3>4, <3>5
  <2> QED BY <2>3, <2>4, <2>5
<1>5. ASSUME NEW p \in Process, RenameTemporary(p) PROVE FileInv'
  <2>1. FileTypeOK'
    BY <1>5 DEF RenameTemporary, FileTypeOK, Steps
  <2>2. Apart'
    BY <1>5 DEF RenameTemporary, FileTypeOK, Apart
  <2>3. ~overlapped' => Whole' /\ OwnTemporary'
    BY <1>5 DEF RenameTemporary, FileTypeOK, OwnTemporary, Whole, FileState, Writing
  <2> QED BY <2>1, <2>2, <2>3
<1>6. ASSUME NEW p \in Process, RenameFails(p) PROVE FileInv'
  <2>1. FileTypeOK'
    BY <1>6 DEF RenameFails, FileTypeOK, Steps
  <2>2. Apart'
    BY <1>6 DEF RenameFails, FileTypeOK, Apart
  <2>3. ~overlapped' => Whole' /\ OwnTemporary'
    BY <1>6 DEF RenameFails, FileTypeOK, OwnTemporary, Whole, FileState, Writing
  <2> QED BY <2>1, <2>2, <2>3
<1>7. ASSUME NEW p \in Process, WriteFails(p) PROVE FileInv'
  <2>1. FileTypeOK'
    BY <1>7 DEF WriteFails, FileTypeOK, Steps
  <2>2. Apart'
    BY <1>7 DEF WriteFails, FileTypeOK, Apart
  <2>3. ASSUME ~overlapped' PROVE Whole' /\ OwnTemporary'
    <3>1. CASE step[p] = "open"
      BY <1>7, <2>3, <3>1
         DEF WriteFails, FileTypeOK, OwnTemporary, Whole, FileState, Writing
    <3>2. CASE step[p] = "fill"
      <4>1. fd[p] = tmpAt /\ tmpAt # NoInode /\ tmpAt # fileAt
        BY <1>7, <2>3, <3>2 DEF WriteFails, OwnTemporary, Apart
      <4>2. content' = [content EXCEPT ![tmpAt] = Torn]
        BY <1>7, <3>2, <4>1 DEF WriteFails
      <4> QED
        BY <1>7, <2>3, <3>2, <4>1, <4>2
           DEF WriteFails, FileTypeOK, OwnTemporary, Whole, FileState, Writing
    <3> QED BY <1>7, <3>1, <3>2 DEF WriteFails
  <2> QED BY <2>1, <2>2, <2>3
<1>8. ASSUME NEW p \in Process, StopStore(p) PROVE FileInv'
  <2>1. FileTypeOK'
    BY <1>8 DEF StopStore, FileTypeOK, Steps
  <2>2. Apart'
    BY <1>0, <1>8 DEF StopStore, FileTypeOK, Apart
  <2>3. ~overlapped' => Whole' /\ OwnTemporary'
    BY <1>8 DEF StopStore, FileTypeOK, OwnTemporary, Whole, FileState, Writing
  <2> QED BY <2>1, <2>2, <2>3
<1>9. CASE UNCHANGED fileVars
  BY <1>9 DEF fileVars, FileTypeOK, Apart, OwnTemporary, Whole, FileState, Writing
<1> QED
  BY <1>1, <1>2, <1>3, <1>4, <1>5, <1>6, <1>7, <1>8, <1>9 DEF FileNext, FileStep

(* The file is whole for every store kept in it, as long as two processes    *)
(* have never been in the middle of a write at once                          *)
(* (durable-json-state-store.ts:38-47).                                      *)
THEOREM FileIsWhole == FileSpec => []WholeUnlessOverlapped
<1>1. FileInv => WholeUnlessOverlapped
  BY DEF FileInv, WholeUnlessOverlapped
<1> QED
  BY FileInitially, FileKept, <1>1, PTL DEF FileSpec

(***************************************************************************)
(* Part 2.  The event log.  In the file and in every process it is what    *)
(* one sequence of appends makes of the empty log.  A process that is the  *)
(* only one to have written has in memory what is in the file, then the    *)
(* events whose write failed, then the one it is writing.                  *)
(***************************************************************************)

Log == [next : Nat, events : Seq(Entry), outbox : Seq(Entry)]

GoodLog(log) ==
  /\ log \in Log
  /\ log.next = Len(log.outbox) + 1
  /\ \A n \in 1..Len(log.outbox) : log.outbox[n].cursor = n
  /\ \A m, n \in 1..Len(log.outbox) : log.outbox[m].id = log.outbox[n].id => m = n
  /\ Len(log.events) = IF Len(log.outbox) > RetentionLimit THEN RetentionLimit
                                                           ELSE Len(log.outbox)
  /\ \A n \in 1..Len(log.events) :
       log.events[n] = log.outbox[Len(log.outbox) - Len(log.events) + n]

LEMMA EmptyIsGood == GoodLog(EmptyState)
  BY LogFile, LogConstants DEF EmptyLog, GoodLog, Log

LEMMA GoodIsWhole == \A log : GoodLog(log) => log # Torn
  BY LogFile DEF GoodLog, Log

\* The retained events are the last of the outbox, before and after an append.
LEMMA RetainedTail ==
  ASSUME NEW events \in Seq(Entry)
  PROVE  /\ RetainEvents(events) \in Seq(Entry)
         /\ Len(RetainEvents(events)) = IF Len(events) > RetentionLimit THEN RetentionLimit
                                                                       ELSE Len(events)
         /\ \A n \in 1..Len(RetainEvents(events)) :
              RetainEvents(events)[n] = events[Len(events) - Len(RetainEvents(events)) + n]
<1> DEFINE m == IF Len(events) > RetentionLimit THEN Len(events) - RetentionLimit + 1 ELSE 1
<1>1. m \in 1..Len(events) + 1 /\ Len(events) \in Nat
  BY LogConstants
<1>2. RetainEvents(events) = SubSeq(events, m, Len(events))
  BY DEF RetainEvents
<1>3. /\ SubSeq(events, m, Len(events)) \in Seq(Entry)
      /\ Len(SubSeq(events, m, Len(events))) = Len(events) - m + 1
      /\ \A n \in 1..(Len(events) - m + 1) :
           SubSeq(events, m, Len(events))[n] = events[m + n - 1]
  BY <1>1
<1> HIDE DEF m
<1>4. Len(events) - m + 1 = IF Len(events) > RetentionLimit THEN RetentionLimit ELSE Len(events)
  BY <1>1, LogConstants DEF m
<1>5. \A n \in 1..(Len(events) - m + 1) : m + n - 1 = Len(events) - (Len(events) - m + 1) + n
  BY <1>1
<1> QED BY <1>1, <1>2, <1>3, <1>4, <1>5

LEMMA AppendedIsGood ==
  ASSUME NEW log, GoodLog(log), NEW e \in EventId, e \notin Ids(log.outbox),
         log.next =< MaxSequence
  PROVE  /\ GoodLog(Appended(log, e))
         /\ Len(Appended(log, e).outbox) = Len(log.outbox) + 1
         /\ Appended(log, e).outbox[Len(log.outbox) + 1].id = e
         /\ \A n \in 1..Len(log.outbox) : Appended(log, e).outbox[n] = log.outbox[n]
<1> DEFINE entry == [id |-> e, cursor |-> log.next]
           outbox == Append(log.outbox, entry)
           events == Append(log.events, entry)
<1>1. /\ log.next \in Nat /\ log.events \in Seq(Entry) /\ log.outbox \in Seq(Entry)
      /\ log.next = Len(log.outbox) + 1 /\ Len(log.outbox) \in Nat /\ Len(log.events) \in Nat
  BY DEF GoodLog, Log
<1>2. entry \in Entry
  BY <1>1, LogConstants DEF Entry
<1>3. /\ outbox \in Seq(Entry) /\ Len(outbox) = Len(log.outbox) + 1
      /\ outbox[Len(outbox)] = entry
      /\ \A n \in 1..Len(log.outbox) : outbox[n] = log.outbox[n]
  BY <1>1, <1>2
<1>4. /\ events \in Seq(Entry) /\ Len(events) = Len(log.events) + 1
      /\ events[Len(events)] = entry
      /\ \A n \in 1..Len(log.events) : events[n] = log.events[n]
  BY <1>1, <1>2
<1>5. /\ Appended(log, e).next = log.next + 1
      /\ Appended(log, e).events = RetainEvents(events)
      /\ Appended(log, e).outbox = outbox
      /\ Appended(log, e) = [next |-> log.next + 1, events |-> RetainEvents(events),
                             outbox |-> outbox]
  BY DEF Appended
<1>6. entry.cursor = log.next /\ entry.id = e
  OBVIOUS
<1> HIDE DEF entry, outbox, events
<1>7. Appended(log, e) \in Log
  BY <1>1, <1>3, <1>4, <1>5, RetainedTail DEF Log
<1>8. \A n \in 1..Len(outbox) : outbox[n].cursor = n
  BY <1>1, <1>3, <1>6 DEF GoodLog
<1>9. \A n \in 1..Len(log.outbox) : log.outbox[n].id # e
  BY <1>1 DEF Ids
<1>10. \A m, n \in 1..Len(outbox) : outbox[m].id = outbox[n].id => m = n
  <2> SUFFICES ASSUME NEW m \in 1..Len(outbox), NEW n \in 1..Len(outbox),
                      outbox[m].id = outbox[n].id
               PROVE  m = n
    OBVIOUS
  <2>1. CASE m <= Len(log.outbox) /\ n <= Len(log.outbox)
    <3>1. m \in 1..Len(log.outbox) /\ n \in 1..Len(log.outbox)
      BY <1>1, <1>3, <2>1
    <3>2. outbox[m] = log.outbox[m] /\ outbox[n] = log.outbox[n]
      BY <1>3, <3>1
    <3> QED BY <3>1, <3>2 DEF GoodLog
  <2>2. CASE m > Len(log.outbox) \/ n > Len(log.outbox)
    BY <1>1, <1>3, <1>6, <1>9, <2>2
  <2> QED BY <1>1, <2>1, <2>2
<1> DEFINE ne == Len(log.events)
           no == Len(log.outbox)
<1>11. /\ ne = IF no > RetentionLimit THEN RetentionLimit ELSE no
       /\ \A n \in 1..ne : log.events[n] = log.outbox[no - ne + n]
  BY DEF GoodLog
<1>16. /\ ne \in Nat /\ no \in Nat /\ RetentionLimit \in Nat \ {0} /\ ne =< no
       /\ Len(outbox) = no + 1 /\ Len(events) = ne + 1
  BY <1>1, <1>3, <1>4, <1>11, LogConstants
<1>17. \A n \in 1..Len(events) : events[n] = outbox[Len(outbox) - Len(events) + n]
  <2> SUFFICES ASSUME NEW n \in 1..Len(events)
               PROVE  events[n] = outbox[Len(outbox) - Len(events) + n]
    OBVIOUS
  <2>0. \A k \in 1..no : outbox[k] = log.outbox[k]
    BY <1>3
  <2>3. \A k \in 1..ne : events[k] = log.events[k]
    BY <1>4
  <2> HIDE DEF ne, no
  <2>1. CASE n = ne + 1
    <3>1. Len(outbox) - Len(events) + n = Len(outbox) /\ n = Len(events)
      BY <1>16, <2>1
    <3> QED BY <1>3, <1>4, <3>1
  <2>2. CASE n \in 1..ne
    <3>1. Len(outbox) - Len(events) + n = no - ne + n /\ no - ne + n \in 1..no
      BY <1>16, <2>2
    <3> QED BY <1>11, <2>0, <2>2, <2>3, <3>1
  <2> QED BY <1>16, <2>1, <2>2
<1> HIDE DEF ne, no
<1> DEFINE kept == RetainEvents(events)
<1>13. /\ Len(kept) = IF Len(events) > RetentionLimit THEN RetentionLimit ELSE Len(events)
       /\ \A n \in 1..Len(kept) : kept[n] = events[Len(events) - Len(kept) + n]
  BY <1>4, RetainedTail
<1> HIDE DEF kept
<1>14. Len(kept) = IF Len(outbox) > RetentionLimit THEN RetentionLimit ELSE Len(outbox)
  BY <1>11, <1>13, <1>16
<1>15. \A n \in 1..Len(kept) : kept[n] = outbox[Len(outbox) - Len(kept) + n]
  <2> SUFFICES ASSUME NEW n \in 1..Len(kept)
               PROVE  kept[n] = outbox[Len(outbox) - Len(kept) + n]
    OBVIOUS
  <2>1. Len(kept) =< Len(events) /\ Len(kept) \in Nat /\ Len(events) \in Nat /\ Len(outbox) \in Nat
    BY <1>13, <1>16
  <2>2. Len(events) - Len(kept) + n \in 1..Len(events)
    BY <2>1
  <2>3. Len(outbox) - Len(events) + (Len(events) - Len(kept) + n) = Len(outbox) - Len(kept) + n
    BY <2>1
  <2> QED BY <1>13, <1>17, <2>2, <2>3
<1> QED BY <1>1, <1>3, <1>5, <1>6, <1>7, <1>8, <1>10, <1>14, <1>15 DEF GoodLog, kept

LEMMA TailIsInOutbox ==
  ASSUME NEW log, GoodLog(log), NEW n \in 1..Len(log.events)
  PROVE  \E k \in 1..Len(log.outbox) :
           log.events[n] = log.outbox[k] /\ k = Len(log.outbox) - Len(log.events) + n
<1>1. /\ Len(log.outbox) \in Nat /\ Len(log.events) \in Nat
      /\ Len(log.events) = IF Len(log.outbox) > RetentionLimit THEN RetentionLimit
                                                               ELSE Len(log.outbox)
      /\ log.events[n] = log.outbox[Len(log.outbox) - Len(log.events) + n]
  BY DEF GoodLog, Log
<1>2. Len(log.outbox) - Len(log.events) + n \in 1..Len(log.outbox)
  BY <1>1, LogConstants
<1> QED BY <1>1, <1>2

-----------------------------------------------------------------------------
(* The inductive invariant. *)

(* Every log in the file system and in memory is what appends make.          *)
SoundLogs ==
  /\ \A p \in Process : GoodLog(memory[p])
  /\ \A i \in Inode : content[i] # Torn => GoodLog(content[i])

(* Who is writing, or has been while another was, is among the writers.      *)
WritersKnown ==
  /\ \A p \in Process : step[p] \in {"fill", "rename"} => p \in writers
  /\ overlapped => \E p, q \in writers : p # q

Busy(p) == step[p] \in {"open", "fill", "rename"}

(* The event being written is the last of the process's outbox.              *)
Pending ==
  \A p \in Process :
    Busy(p) => /\ Len(memory[p].outbox) > 0
               /\ request[p] = memory[p].outbox[Len(memory[p].outbox)].id

(* The outbox of the process begins with the one of the log.                 *)
Leads(log, p) ==
  /\ Len(log.outbox) =< Len(memory[p].outbox)
  /\ \A n \in 1..Len(log.outbox) : log.outbox[n] = memory[p].outbox[n]

Safe(p, n) ==
  \/ n =< Len(FileState.outbox)
  \/ memory[p].outbox[n].id \in unwritten
  \/ Busy(p) /\ n = Len(memory[p].outbox)

InFile(entry) == \E n \in 1..Len(FileState.outbox) : entry = FileState.outbox[n]

AnswersAreSafe(p) == \A entry \in answered[p] : entry.id \in unwritten \/ InFile(entry)

MemoryIsAhead(p) ==
  /\ Leads(FileState, p)
  /\ \A n \in 1..Len(memory[p].outbox) : Safe(p, n)

Mine(p) ==
  /\ step[p] = "rename" => content[tmpAt] = memory[p]
  /\ step[p] # "down" => MemoryIsAhead(p)
  /\ AnswersAreSafe(p)

LoneWriterKeeps == \A p \in Process : Alone(p) => Mine(p)

LogInv ==
  TypeOK /\ FileInv /\ SoundLogs /\ WritersKnown /\ Pending /\ LoneWriterKeeps

LEMMA LogInitially == Init => LogInv
<1> SUFFICES ASSUME Init PROVE LogInv
  OBVIOUS
<1>1. FileInv /\ FileTypeOK
  BY FileInitially DEF Init, FileInv
<1>2. TypeOK
  BY <1>1, LogConstants DEF TypeOK, Init
<1>3. SoundLogs
  BY EmptyIsGood DEF Init, FileInit, SoundLogs
<1>4. WritersKnown /\ Pending
  BY DEF Init, FileInit, WritersKnown, Pending, Busy
<1>5. LoneWriterKeeps
  BY DEF Init, FileInit, LoneWriterKeeps, Mine, AnswersAreSafe
<1> QED BY <1>1, <1>2, <1>3, <1>4, <1>5 DEF LogInv

\* What the log's actions do to the file is what any store may do.
LEMMA LogStepsAreFileSteps ==
  ASSUME LogInv, [Next]_vars, SoundLogs'
  PROVE  [FileNext]_fileVars
<1>1. ASSUME NEW p \in Process, NEW e \in Appends[p], AppendNew(p, e) PROVE ChangeToAny(p)
  <2>1. memory' = [memory EXCEPT ![p] = Appended(memory[p], e)] /\ DOMAIN memory = Process
    BY <1>1 DEF AppendNew, ChangeState, LogInv, TypeOK, FileTypeOK
  <2>2. memory'[p] = Appended(memory[p], e)
    BY <2>1
  <2>3. memory'[p] # Torn
    BY GoodIsWhole DEF SoundLogs
  <2> QED BY <1>1, <2>2, <2>3 DEF AppendNew, ChangeToAny
<1> QED
  BY <1>1 DEF Next, vars, Start, AnswerRetained, BeginWrite, Fill, AnswerRecorded,
              AnswerRejected, Stop, FileNext, FileStep

LEMMA FileStateIsGood ==
  ASSUME FileTypeOK, SoundLogs, FileState # Torn
  PROVE  GoodLog(FileState)
  BY EmptyIsGood DEF FileTypeOK, SoundLogs, FileState

\* A process that is the only writer has met no overlap.
LEMMA AloneIsWhole ==
  ASSUME LogInv, NEW p \in Process, Alone(p)
  PROVE  Whole /\ OwnTemporary /\ GoodLog(FileState)
<1>1. ~overlapped
  BY DEF LogInv, WritersKnown, Alone
<1> QED BY <1>1, FileStateIsGood DEF LogInv, FileInv, Whole

-----------------------------------------------------------------------------
(* One lemma per action: what it does to the logs and to who is writing.     *)

LogParts == TypeOK /\ SoundLogs /\ WritersKnown /\ Pending

LEMMA PartsStart ==
  ASSUME LogInv, NEW p \in Process, Start(p) PROVE LogParts'
<1> USE DEF LogInv
<1>1. /\ step[p] = "down" /\ Whole
      /\ memory' = [memory EXCEPT ![p] = FileState]
      /\ step' = [step EXCEPT ![p] = "idle"]
      /\ UNCHANGED <<content, fileAt, tmpAt, fd, overlapped, request, answered,
                     unwritten, writers, budget>>
  BY DEF Start, StartStore, logVars
<1>2. GoodLog(FileState)
  BY <1>1, FileStateIsGood DEF TypeOK, Whole
<1>3. TypeOK'
  BY <1>1 DEF TypeOK, FileTypeOK, Steps
<1>4. SoundLogs'
  BY <1>1, <1>2 DEF SoundLogs, TypeOK, FileTypeOK
<1>5. WritersKnown'
  BY <1>1 DEF WritersKnown, TypeOK, FileTypeOK
<1>6. Pending'
  BY <1>1 DEF Pending, Busy, TypeOK, FileTypeOK
<1> QED BY <1>3, <1>4, <1>5, <1>6 DEF LogParts

LEMMA PartsAnswerRetained ==
  ASSUME LogInv, NEW p \in Process, NEW e, AnswerRetained(p, e) PROVE LogParts'
<1> USE DEF LogInv
<1>1. PICK n \in DOMAIN memory[p].events :
        answered' = [answered EXCEPT ![p] = @ \cup {memory[p].events[n]}]
  BY DEF AnswerRetained
<1>2. UNCHANGED <<content, fileAt, tmpAt, memory, fd, step, overlapped, request,
                  unwritten, writers, budget>>
  BY DEF AnswerRetained, fileVars
<1>3. memory[p].events[n] \in Entry
  <2>1. memory[p].events \in Seq(Entry)
    BY DEF SoundLogs, GoodLog, Log
  <2> QED BY <2>1
<1>4. TypeOK'
  BY <1>1, <1>2, <1>3 DEF TypeOK, FileTypeOK
<1>5. SoundLogs' /\ WritersKnown' /\ Pending'
  BY <1>2 DEF SoundLogs, WritersKnown, Pending, Busy
<1> QED BY <1>4, <1>5 DEF LogParts

LEMMA PartsAppendNew ==
  ASSUME LogInv, NEW p \in Process, NEW e \in Appends[p], AppendNew(p, e) PROVE LogParts'
<1> USE DEF LogInv
<1>1. /\ e \notin Ids(memory[p].outbox) /\ memory[p].next =< MaxSequence
      /\ step[p] = "idle"
      /\ memory' = [memory EXCEPT ![p] = Appended(memory[p], e)]
      /\ step' = [step EXCEPT ![p] = "open"]
      /\ request' = [request EXCEPT ![p] = e]
      /\ UNCHANGED <<content, fileAt, tmpAt, fd, overlapped, answered, unwritten,
                     writers, budget>>
  BY DEF AppendNew, ChangeState
<1>2. e \in EventId
  BY LogConstants
<1>3. /\ GoodLog(Appended(memory[p], e))
      /\ Len(Appended(memory[p], e).outbox) = Len(memory[p].outbox) + 1
      /\ Appended(memory[p], e).outbox[Len(memory[p].outbox) + 1].id = e
      /\ Len(memory[p].outbox) \in Nat
  <2>1. GoodLog(memory[p])
    BY DEF SoundLogs
  <2>2. Len(memory[p].outbox) \in Nat
    BY <2>1 DEF GoodLog, Log
  <2> QED BY <1>1, <1>2, <2>1, <2>2, AppendedIsGood
<1>4. TypeOK'
  BY <1>1, <1>2 DEF TypeOK, FileTypeOK, Steps
<1>5. SoundLogs'
  BY <1>1, <1>3 DEF SoundLogs, TypeOK, FileTypeOK
<1>6. WritersKnown'
  BY <1>1 DEF WritersKnown, TypeOK, FileTypeOK
<1>7. Pending'
  <2>1. memory'[p] = Appended(memory[p], e) /\ request'[p] = e
    BY <1>1 DEF TypeOK, FileTypeOK
  <2>2. \A q \in Process : q # p => memory'[q] = memory[q] /\ request'[q] = request[q]
                                    /\ step'[q] = step[q]
    BY <1>1 DEF TypeOK, FileTypeOK
  <2> QED BY <1>3, <2>1, <2>2 DEF Pending, Busy
<1> QED BY <1>4, <1>5, <1>6, <1>7 DEF LogParts

LEMMA PartsBeginWrite ==
  ASSUME LogInv, NEW p \in Process, BeginWrite(p) PROVE LogParts'
<1> USE DEF LogInv
<1>1. PICK i \in Inode : content' = [content EXCEPT ![i] = Torn] /\ tmpAt' = i
                         /\ fd' = [fd EXCEPT ![p] = i]
  BY DEF BeginWrite, OpenTemporary
<1>2. /\ step[p] = "open"
      /\ step' = [step EXCEPT ![p] = "fill"]
      /\ overlapped' = (overlapped \/ \E q \in Process \ {p} : Writing(q))
      /\ writers' = writers \cup {p}
      /\ UNCHANGED <<fileAt, memory, request, answered, unwritten, budget>>
  BY DEF BeginWrite, OpenTemporary
<1>3. TypeOK'
  BY <1>1, <1>2 DEF TypeOK, FileTypeOK, Steps
<1>4. SoundLogs'
  BY <1>1, <1>2 DEF SoundLogs, TypeOK, FileTypeOK
<1>5. WritersKnown'
  BY <1>2 DEF WritersKnown, Writing, TypeOK, FileTypeOK
<1>6. Pending'
  BY <1>2 DEF Pending, Busy, TypeOK, FileTypeOK
<1> QED BY <1>3, <1>4, <1>5, <1>6 DEF LogParts

LEMMA PartsFill ==
  ASSUME LogInv, NEW p \in Process, Fill(p) PROVE LogParts'
<1> USE DEF LogInv
<1>1. PICK text \in Filled(p) : content' = [content EXCEPT ![fd[p]] = text]
  BY DEF Fill, FillTemporary
<1>2. /\ step[p] = "fill"
      /\ fd' = [fd EXCEPT ![p] = NoInode]
      /\ step' = [step EXCEPT ![p] = "rename"]
      /\ UNCHANGED <<fileAt, tmpAt, memory, overlapped, request, answered, unwritten,
                     writers, budget>>
  BY DEF Fill, FillTemporary, logVars
<1>3. text = Torn \/ GoodLog(text)
  BY <1>1 DEF Filled, SoundLogs
<1>4. TypeOK'
  BY <1>1, <1>2 DEF TypeOK, FileTypeOK, Steps
<1>5. SoundLogs'
  BY <1>1, <1>2, <1>3 DEF SoundLogs, TypeOK, FileTypeOK
<1>6. WritersKnown'
  BY <1>2 DEF WritersKnown, TypeOK, FileTypeOK
<1>7. Pending'
  BY <1>2 DEF Pending, Busy, TypeOK, FileTypeOK
<1> QED BY <1>4, <1>5, <1>6, <1>7 DEF LogParts

LEMMA PartsAnswerRecorded ==
  ASSUME LogInv, NEW p \in Process, AnswerRecorded(p) PROVE LogParts'
<1> USE DEF LogInv
<1>1. /\ step[p] = "rename" /\ tmpAt # NoInode
      /\ fileAt' = tmpAt /\ tmpAt' = NoInode
      /\ step' = [step EXCEPT ![p] = "idle"]
      /\ answered' = [answered EXCEPT ![p] = @ \cup {Last(memory[p].outbox)}]
      /\ request' = [request EXCEPT ![p] = NoRequest]
      /\ UNCHANGED <<content, memory, fd, overlapped, unwritten, writers, budget>>
  BY DEF AnswerRecorded, RenameTemporary
<1>2. Last(memory[p].outbox) \in Entry
  <2>1. memory[p].outbox \in Seq(Entry) /\ Len(memory[p].outbox) > 0
    BY <1>1 DEF Pending, Busy, SoundLogs, GoodLog, Log
  <2> QED BY <2>1 DEF Last
<1>3. TypeOK'
  BY <1>1, <1>2 DEF TypeOK, FileTypeOK, Steps
<1>4. SoundLogs'
  BY <1>1 DEF SoundLogs, TypeOK, FileTypeOK
<1>5. WritersKnown'
  BY <1>1 DEF WritersKnown, TypeOK, FileTypeOK
<1>6. Pending'
  BY <1>1 DEF Pending, Busy, TypeOK, FileTypeOK
<1> QED BY <1>3, <1>4, <1>5, <1>6 DEF LogParts

LEMMA PartsAnswerRejected ==
  ASSUME LogInv, NEW p \in Process, AnswerRejected(p) PROVE LogParts'
<1> USE DEF LogInv
<1>1. /\ Busy(p)
      /\ step' = [step EXCEPT ![p] = "idle"]
      /\ fd' = fd \/ fd' = [fd EXCEPT ![p] = NoInode]
      /\ content' = content \/ content' = [content EXCEPT ![fd[p]] = Torn]
      /\ budget' = budget \/ (budget.failures > 0 /\ budget' = [budget EXCEPT !.failures = @ - 1])
      /\ unwritten' = unwritten \cup {request[p]}
      /\ request' = [request EXCEPT ![p] = NoRequest]
      /\ UNCHANGED <<fileAt, tmpAt, memory, overlapped, answered, writers>>
  BY DEF AnswerRejected, RenameFails, WriteFails, Busy
<1>2. request[p] \in EventId
  <2>1. memory[p].outbox \in Seq(Entry)
    BY DEF SoundLogs, GoodLog, Log
  <2>2. /\ Len(memory[p].outbox) > 0
        /\ request[p] = memory[p].outbox[Len(memory[p].outbox)].id
    BY <1>1 DEF Pending
  <2>3. memory[p].outbox[Len(memory[p].outbox)] \in Entry
    BY <2>1, <2>2
  <2> QED BY <2>2, <2>3 DEF Entry
<1>3. budget' \in [stops : 0 .. MaxStops, failures : 0 .. MaxFailures]
  BY <1>1, LogConstants DEF TypeOK
<1>4. TypeOK'
  BY <1>1, <1>2, <1>3 DEF TypeOK, FileTypeOK, Steps
<1>5. SoundLogs'
  BY <1>1 DEF SoundLogs, TypeOK, FileTypeOK
<1>6. WritersKnown'
  BY <1>1 DEF WritersKnown, TypeOK, FileTypeOK
<1>7. Pending'
  BY <1>1 DEF Pending, Busy, TypeOK, FileTypeOK
<1> QED BY <1>4, <1>5, <1>6, <1>7 DEF LogParts

LEMMA PartsStop ==
  ASSUME LogInv, NEW p \in Process, Stop(p) PROVE LogParts'
<1> USE DEF LogInv
<1>1. /\ memory' = [memory EXCEPT ![p] = EmptyState]
      /\ fd' = [fd EXCEPT ![p] = NoInode]
      /\ step' = [step EXCEPT ![p] = "down"]
      /\ budget.stops > 0 /\ budget' = [budget EXCEPT !.stops = @ - 1]
      /\ request' = [request EXCEPT ![p] = NoRequest]
      /\ UNCHANGED <<content, fileAt, tmpAt, overlapped, answered, unwritten, writers>>
  BY DEF Stop, StopStore
<1>2. budget' \in [stops : 0 .. MaxStops, failures : 0 .. MaxFailures]
  BY <1>1, LogConstants DEF TypeOK
<1>3. TypeOK'
  BY <1>1, <1>2 DEF TypeOK, FileTypeOK, Steps
<1>4. SoundLogs'
  BY <1>1, EmptyIsGood DEF SoundLogs, TypeOK, FileTypeOK
<1>5. WritersKnown'
  BY <1>1 DEF WritersKnown, TypeOK, FileTypeOK
<1>6. Pending'
  BY <1>1 DEF Pending, Busy, TypeOK, FileTypeOK
<1> QED BY <1>3, <1>4, <1>5, <1>6 DEF LogParts

-----------------------------------------------------------------------------
(* One lemma per action: what it does to a process that writes alone.        *)

\* A process that an action leaves alone, over a file that it leaves alone.
LEMMA Undisturbed ==
  ASSUME NEW q \in Process, Mine(q), FileState' = FileState,
         memory'[q] = memory[q], step'[q] = step[q], answered'[q] = answered[q],
         unwritten \subseteq unwritten',
         step[q] = "rename" => content'[tmpAt'] = content[tmpAt]
  PROVE  Mine(q)'
<1>1. step'[q] = "rename" => content'[tmpAt'] = memory'[q]
  BY DEF Mine
<1>2. ASSUME step[q] # "down" PROVE MemoryIsAhead(q)'
  BY <1>2 DEF Mine, MemoryIsAhead, Leads, Safe, Busy
<1>3. AnswersAreSafe(q)'
  BY DEF Mine, AnswersAreSafe, InFile
<1> QED BY <1>1, <1>2, <1>3 DEF Mine

LEMMA KeepsStart ==
  ASSUME LogInv, NEW p \in Process, Start(p) PROVE LoneWriterKeeps'
<1> USE DEF LogInv
<1>1. /\ step[p] = "down"
      /\ memory' = [memory EXCEPT ![p] = FileState]
      /\ step' = [step EXCEPT ![p] = "idle"]
      /\ UNCHANGED <<content, fileAt, tmpAt, answered, unwritten, writers>>
  BY DEF Start, StartStore, logVars
<1>2. FileState' = FileState
  BY <1>1 DEF FileState
<1> SUFFICES ASSUME NEW q \in Process, Alone(q)' PROVE Mine(q)'
  BY DEF LoneWriterKeeps
<1>3. Alone(q) /\ Mine(q)
  BY <1>1 DEF Alone, LoneWriterKeeps
<1>4. CASE q # p
  BY <1>1, <1>2, <1>3, <1>4, Undisturbed DEF TypeOK, FileTypeOK
<1>5. CASE q = p
  <2>1. memory'[p] = FileState /\ step'[p] = "idle"
    BY <1>1 DEF TypeOK, FileTypeOK
  <2>2. Len(FileState.outbox) \in Nat
    BY <1>3, <1>5, AloneIsWhole DEF GoodLog, Log
  <2>3. MemoryIsAhead(p)'
    BY <1>2, <2>1, <2>2 DEF MemoryIsAhead, Leads, Safe
  <2>4. AnswersAreSafe(p)'
    BY <1>1, <1>2, <1>3, <1>5 DEF Mine, AnswersAreSafe, InFile
  <2> QED BY <1>5, <2>1, <2>3, <2>4 DEF Mine
<1> QED BY <1>4, <1>5

LEMMA KeepsAnswerRetained ==
  ASSUME LogInv, NEW p \in Process, NEW e, AnswerRetained(p, e) PROVE LoneWriterKeeps'
<1> USE DEF LogInv
<1>1. PICK n \in DOMAIN memory[p].events :
        answered' = [answered EXCEPT ![p] = @ \cup {memory[p].events[n]}]
  BY DEF AnswerRetained
<1>2. /\ step[p] = "idle"
      /\ UNCHANGED <<content, fileAt, tmpAt, memory, step, unwritten, writers>>
  BY DEF AnswerRetained, fileVars
<1>3. FileState' = FileState
  BY <1>2 DEF FileState
<1> SUFFICES ASSUME NEW q \in Process, Alone(q)' PROVE Mine(q)'
  BY DEF LoneWriterKeeps
<1>4. Alone(q) /\ Mine(q)
  BY <1>2 DEF Alone, LoneWriterKeeps
<1>5. CASE q # p
  BY <1>1, <1>2, <1>3, <1>4, <1>5, Undisturbed DEF TypeOK
<1>6. CASE q = p
  <2>1. MemoryIsAhead(p) /\ AnswersAreSafe(p)
    BY <1>2, <1>4, <1>6 DEF Mine
  <2>2. PICK k \in 1..Len(memory[p].outbox) : memory[p].events[n] = memory[p].outbox[k]
    <3>1. /\ GoodLog(memory[p]) /\ memory[p].outbox \in Seq(Entry)
          /\ memory[p].events \in Seq(Entry)
      BY DEF SoundLogs, GoodLog, Log
    <3>2. n \in 1..Len(memory[p].events)
      BY <3>1
    <3> QED BY <3>1, <3>2, TailIsInOutbox
  <2>3. memory[p].outbox[k].id \in unwritten \/ InFile(memory[p].outbox[k])
    <3>1. Safe(p, k) /\ Leads(FileState, p)
      BY <2>1 DEF MemoryIsAhead
    <3>2. CASE k =< Len(FileState.outbox)
      BY <3>1, <3>2 DEF Leads, InFile
    <3> QED BY <1>2, <3>1, <3>2 DEF Safe, Busy
  <2>4. AnswersAreSafe(p)'
    <3>1. answered'[p] = answered[p] \cup {memory[p].events[n]}
      BY <1>1 DEF TypeOK
    <3> QED BY <1>2, <1>3, <2>1, <2>2, <2>3, <3>1 DEF AnswersAreSafe, InFile
  <2>5. MemoryIsAhead(p)'
    BY <1>2, <1>3, <2>1 DEF MemoryIsAhead, Leads, Safe, Busy
  <2> QED BY <1>2, <1>6, <2>4, <2>5 DEF Mine
<1> QED BY <1>5, <1>6

LEMMA KeepsAppendNew ==
  ASSUME LogInv, NEW p \in Process, NEW e \in Appends[p], AppendNew(p, e)
  PROVE  LoneWriterKeeps'
<1> USE DEF LogInv
<1>1. /\ e \notin Ids(memory[p].outbox) /\ memory[p].next =< MaxSequence
      /\ step[p] = "idle"
      /\ memory' = [memory EXCEPT ![p] = Appended(memory[p], e)]
      /\ step' = [step EXCEPT ![p] = "open"]
      /\ UNCHANGED <<content, fileAt, tmpAt, answered, unwritten, writers>>
  BY DEF AppendNew, ChangeState
<1>2. FileState' = FileState
  BY <1>1 DEF FileState
<1> SUFFICES ASSUME NEW q \in Process, Alone(q)' PROVE Mine(q)'
  BY DEF LoneWriterKeeps
<1>3. Alone(q) /\ Mine(q)
  BY <1>1 DEF Alone, LoneWriterKeeps
<1>4. CASE q # p
  BY <1>1, <1>2, <1>3, <1>4, Undisturbed DEF TypeOK, FileTypeOK
<1>5. CASE q = p
  <2> DEFINE old == memory[p].outbox
             new == Appended(memory[p], e).outbox
  <2>0. e \in EventId /\ GoodLog(memory[p])
    BY LogConstants DEF SoundLogs
  <2>1. e \in EventId /\ GoodLog(memory[p]) /\ Len(old) \in Nat
    BY <2>0 DEF GoodLog, Log
  <2>2. /\ Len(new) = Len(old) + 1 /\ Len(old) \in Nat
        /\ \A n \in 1..Len(old) : new[n] = old[n]
    BY <1>1, <2>1, AppendedIsGood
  <2>3. memory'[p].outbox = new /\ step'[p] = "open"
    BY <1>1 DEF TypeOK, FileTypeOK
  <2>4. /\ Len(FileState.outbox) =< Len(old)
        /\ \A n \in 1..Len(FileState.outbox) : FileState.outbox[n] = old[n]
        /\ \A n \in 1..Len(old) : n =< Len(FileState.outbox) \/ old[n].id \in unwritten
        /\ AnswersAreSafe(p)
    BY <1>1, <1>3, <1>5 DEF Mine, MemoryIsAhead, Leads, Safe, Busy
  <2>5. Len(FileState.outbox) \in Nat
    BY <1>3, <1>5, AloneIsWhole DEF GoodLog, Log
  <2> HIDE DEF old, new
  <2>6. Leads(FileState, p)'
    BY <1>2, <2>2, <2>3, <2>4, <2>5 DEF Leads
  <2>7. \A n \in 1..Len(new) : n = Len(new) \/ n \in 1..Len(old)
    BY <2>2
  <2>8. \A n \in 1..Len(new) : Safe(p, n)'
    BY <1>1, <1>2, <2>2, <2>3, <2>4, <2>7 DEF Safe, Busy
  <2>9. AnswersAreSafe(p)'
    BY <1>1, <1>2, <2>4 DEF AnswersAreSafe, InFile
  <2> QED BY <1>5, <2>3, <2>6, <2>8, <2>9 DEF Mine, MemoryIsAhead
<1> QED BY <1>4, <1>5

LEMMA KeepsBeginWrite ==
  ASSUME LogInv, NEW p \in Process, BeginWrite(p) PROVE LoneWriterKeeps'
<1> USE DEF LogInv
<1>1. PICK i \in Inode :
        /\ IF tmpAt = NoInode THEN Unused(i) ELSE i = tmpAt
        /\ content' = [content EXCEPT ![i] = Torn]
  BY DEF BeginWrite, OpenTemporary
<1>2. /\ step[p] = "open"
      /\ step' = [step EXCEPT ![p] = "fill"]
      /\ writers' = writers \cup {p}
      /\ UNCHANGED <<fileAt, memory, answered, unwritten>>
  BY DEF BeginWrite, OpenTemporary
<1>3. i # fileAt
  BY <1>1 DEF Unused, Apart, FileInv
<1>4. FileState' = FileState
  BY <1>1, <1>2, <1>3 DEF FileState, TypeOK, FileTypeOK
<1> SUFFICES ASSUME NEW q \in Process, Alone(q)' PROVE Mine(q)'
  BY DEF LoneWriterKeeps
<1>5. q = p /\ Mine(p)
  BY <1>2 DEF Alone, LoneWriterKeeps
<1>6. step'[p] = "fill"
  BY <1>2 DEF TypeOK, FileTypeOK
<1>7. MemoryIsAhead(p)' /\ AnswersAreSafe(p)'
  BY <1>2, <1>4, <1>5, <1>6 DEF Mine, MemoryIsAhead, Leads, Safe, Busy, AnswersAreSafe, InFile
<1> QED BY <1>5, <1>6, <1>7 DEF Mine

LEMMA KeepsFill ==
  ASSUME LogInv, NEW p \in Process, Fill(p) PROVE LoneWriterKeeps'
<1> USE DEF LogInv
<1>1. PICK text \in Filled(p) : content' = [content EXCEPT ![fd[p]] = text]
  BY DEF Fill, FillTemporary
<1>2. /\ step[p] = "fill"
      /\ step' = [step EXCEPT ![p] = "rename"]
      /\ UNCHANGED <<fileAt, tmpAt, memory, answered, unwritten, writers>>
  BY DEF Fill, FillTemporary, logVars
<1> SUFFICES ASSUME NEW q \in Process, Alone(q)' PROVE Mine(q)'
  BY DEF LoneWriterKeeps
<1>3. q = p /\ Mine(p) /\ Alone(p)
  BY <1>2 DEF Alone, LoneWriterKeeps, WritersKnown
<1>4. fd[p] = tmpAt /\ content[tmpAt] = Torn /\ fd[p] # NoInode
  BY <1>2, <1>3, AloneIsWhole DEF OwnTemporary, FileInv, Apart
<1>5. tmpAt # fileAt /\ tmpAt \in Inode
  BY <1>4 DEF FileInv, Apart, FileTypeOK
<1>6. content'[tmpAt'] = memory'[p]
  BY <1>1, <1>2, <1>4, <1>5 DEF Filled, TypeOK, FileTypeOK
<1>7. FileState' = FileState
  BY <1>1, <1>2, <1>4, <1>5 DEF FileState, TypeOK, FileTypeOK
<1>8. step'[p] = "rename"
  BY <1>2 DEF TypeOK, FileTypeOK
<1>9. MemoryIsAhead(p)' /\ AnswersAreSafe(p)'
  BY <1>2, <1>3, <1>7, <1>8 DEF Mine, MemoryIsAhead, Leads, Safe, Busy, AnswersAreSafe, InFile
<1> QED BY <1>3, <1>6, <1>9 DEF Mine

LEMMA KeepsAnswerRecorded ==
  ASSUME LogInv, NEW p \in Process, AnswerRecorded(p) PROVE LoneWriterKeeps'
<1> USE DEF LogInv
<1>1. /\ step[p] = "rename" /\ tmpAt # NoInode /\ fileAt' = tmpAt
      /\ step' = [step EXCEPT ![p] = "idle"]
      /\ answered' = [answered EXCEPT ![p] = @ \cup {Last(memory[p].outbox)}]
      /\ UNCHANGED <<content, memory, unwritten, writers>>
  BY DEF AnswerRecorded, RenameTemporary
<1> SUFFICES ASSUME NEW q \in Process, Alone(q)' PROVE Mine(q)'
  BY DEF LoneWriterKeeps
<1>2. q = p /\ Mine(p) /\ Alone(p)
  BY <1>1 DEF Alone, LoneWriterKeeps, WritersKnown
<1>3. FileState' = memory[p] /\ memory'[p] = memory[p] /\ step'[p] = "idle"
  BY <1>1, <1>2 DEF Mine, FileState, TypeOK, FileTypeOK
<1>4. MemoryIsAhead(p) /\ AnswersAreSafe(p)
  BY <1>1, <1>2 DEF Mine
<1>5. /\ Len(memory[p].outbox) \in Nat /\ Len(memory[p].outbox) > 0
      /\ Len(FileState.outbox) \in Nat
  BY <1>1, <1>2, AloneIsWhole DEF SoundLogs, GoodLog, Log, Pending, Busy
<1>6. MemoryIsAhead(p)'
  BY <1>3, <1>5 DEF MemoryIsAhead, Leads, Safe
<1>7. ASSUME NEW entry, InFile(entry) PROVE InFile(entry)'
  <2>1. PICK n \in 1..Len(FileState.outbox) : entry = FileState.outbox[n]
    BY <1>7 DEF InFile
  <2>2. n \in 1..Len(memory[p].outbox) /\ entry = memory[p].outbox[n]
    BY <1>4, <1>5, <2>1 DEF MemoryIsAhead, Leads
  <2> QED BY <1>3, <2>2 DEF InFile
<1>8. \E n \in 1..Len(FileState'.outbox) : Last(memory[p].outbox) = FileState'.outbox[n]
  <2>1. Len(memory[p].outbox) \in 1..Len(memory[p].outbox)
    BY <1>5
  <2> QED BY <1>3, <2>1 DEF Last
<1>9. answered'[p] = answered[p] \cup {Last(memory[p].outbox)}
  BY <1>1 DEF TypeOK
<1>10. AnswersAreSafe(p)'
  <2> SUFFICES ASSUME NEW entry \in answered'[p] PROVE entry.id \in unwritten' \/ InFile(entry)'
    BY DEF AnswersAreSafe
  <2>1. CASE entry \in answered[p]
    BY <1>1, <1>4, <1>7, <2>1 DEF AnswersAreSafe
  <2>2. CASE entry = Last(memory[p].outbox)
    BY <1>8, <2>2 DEF InFile
  <2> QED BY <1>9, <2>1, <2>2
<1> QED BY <1>2, <1>3, <1>6, <1>10 DEF Mine

LEMMA KeepsAnswerRejected ==
  ASSUME LogInv, NEW p \in Process, AnswerRejected(p) PROVE LoneWriterKeeps'
<1> USE DEF LogInv
<1>1. /\ Busy(p)
      /\ step' = [step EXCEPT ![p] = "idle"]
      /\ \/ content' = content
         \/ step[p] = "fill" /\ content' = [content EXCEPT ![fd[p]] = Torn]
      /\ unwritten' = unwritten \cup {request[p]}
      /\ UNCHANGED <<fileAt, tmpAt, memory, answered, writers>>
  BY DEF AnswerRejected, RenameFails, WriteFails, Busy
<1> SUFFICES ASSUME NEW q \in Process, Alone(q)' PROVE Mine(q)'
  BY DEF LoneWriterKeeps
<1>2. Alone(q) /\ Mine(q)
  BY <1>1 DEF Alone, LoneWriterKeeps
<1>3. ASSUME step[p] = "fill" PROVE q = p /\ fd[p] # fileAt
  <2>1. q = p
    BY <1>2, <1>3 DEF WritersKnown, Alone
  <2>2. fd[p] = tmpAt /\ fd[p] # NoInode
    BY <1>2, <1>3, <2>1, AloneIsWhole DEF OwnTemporary, FileInv, Apart
  <2> QED BY <2>1, <2>2 DEF FileInv, Apart
<1>4. FileState' = FileState
  BY <1>1, <1>3 DEF FileState, TypeOK, FileTypeOK
<1>5. CASE q # p
  <2>1. content' = content /\ step'[q] = step[q]
    BY <1>1, <1>3, <1>5 DEF TypeOK, FileTypeOK
  <2> QED BY <1>1, <1>2, <1>4, <2>1, Undisturbed
<1>6. CASE q = p
  <2>1. MemoryIsAhead(p) /\ AnswersAreSafe(p)
    BY <1>1, <1>2, <1>6 DEF Mine, Busy
  <2>2. step'[p] = "idle"
    BY <1>1 DEF TypeOK, FileTypeOK
  <2>3. Leads(FileState, p)'
    BY <1>1, <1>4, <2>1 DEF MemoryIsAhead, Leads
  <2>4. ASSUME NEW n \in 1..Len(memory[p].outbox) PROVE Safe(p, n)'
    <3>1. Safe(p, n)
      BY <2>1, <2>4 DEF MemoryIsAhead
    <3>2. n = Len(memory[p].outbox) => memory[p].outbox[n].id \in unwritten'
      BY <1>1 DEF Pending
    <3> QED BY <1>1, <1>4, <3>1, <3>2 DEF Safe
  <2>5. AnswersAreSafe(p)'
    BY <1>1, <1>4, <2>1 DEF AnswersAreSafe, InFile
  <2> QED BY <1>1, <1>6, <2>2, <2>3, <2>4, <2>5 DEF Mine, MemoryIsAhead
<1> QED BY <1>5, <1>6

LEMMA KeepsStop ==
  ASSUME LogInv, NEW p \in Process, Stop(p) PROVE LoneWriterKeeps'
<1> USE DEF LogInv
<1>1. /\ memory' = [memory EXCEPT ![p] = EmptyState]
      /\ step' = [step EXCEPT ![p] = "down"]
      /\ UNCHANGED <<content, fileAt, tmpAt, answered, unwritten, writers>>
  BY DEF Stop, StopStore
<1>2. FileState' = FileState
  BY <1>1 DEF FileState
<1> SUFFICES ASSUME NEW q \in Process, Alone(q)' PROVE Mine(q)'
  BY DEF LoneWriterKeeps
<1>3. Alone(q) /\ Mine(q)
  BY <1>1 DEF Alone, LoneWriterKeeps
<1>4. CASE q # p
  BY <1>1, <1>2, <1>3, <1>4, Undisturbed DEF TypeOK, FileTypeOK
<1>5. CASE q = p
  <2>1. step'[p] = "down"
    BY <1>1 DEF TypeOK, FileTypeOK
  <2> QED BY <1>1, <1>2, <1>3, <1>5, <2>1 DEF Mine, AnswersAreSafe, InFile
<1> QED BY <1>4, <1>5

-----------------------------------------------------------------------------

LEMMA LogKept == LogInv /\ [Next]_vars => LogInv'
<1> SUFFICES ASSUME LogInv, [Next]_vars PROVE LogInv'
  OBVIOUS
<1>1. ASSUME NEW p \in Process, Start(p) PROVE LogParts' /\ LoneWriterKeeps'
  BY <1>1, PartsStart, KeepsStart
<1>2. ASSUME NEW p \in Process, BeginWrite(p) PROVE LogParts' /\ LoneWriterKeeps'
  BY <1>2, PartsBeginWrite, KeepsBeginWrite
<1>3. ASSUME NEW p \in Process, Fill(p) PROVE LogParts' /\ LoneWriterKeeps'
  BY <1>3, PartsFill, KeepsFill
<1>4. ASSUME NEW p \in Process, AnswerRecorded(p) PROVE LogParts' /\ LoneWriterKeeps'
  BY <1>4, PartsAnswerRecorded, KeepsAnswerRecorded
<1>5. ASSUME NEW p \in Process, AnswerRejected(p) PROVE LogParts' /\ LoneWriterKeeps'
  BY <1>5, PartsAnswerRejected, KeepsAnswerRejected
<1>6. ASSUME NEW p \in Process, Stop(p) PROVE LogParts' /\ LoneWriterKeeps'
  BY <1>6, PartsStop, KeepsStop
<1>7. ASSUME NEW p \in Process, NEW e \in Appends[p], AnswerRetained(p, e)
      PROVE  LogParts' /\ LoneWriterKeeps'
  BY <1>7, PartsAnswerRetained, KeepsAnswerRetained
<1>8. ASSUME NEW p \in Process, NEW e \in Appends[p], AppendNew(p, e)
      PROVE  LogParts' /\ LoneWriterKeeps'
  BY <1>8, PartsAppendNew, KeepsAppendNew
<1>9. CASE UNCHANGED vars
  <2>1. UNCHANGED <<content, fileAt, tmpAt, memory, fd, step, overlapped, request, answered,
                    unwritten, writers, budget>>
    BY <1>9 DEF vars, fileVars, logVars
  <2>2. LogParts'
    BY <2>1 DEF LogInv, LogParts, TypeOK, FileTypeOK, SoundLogs, WritersKnown, Pending, Busy
  <2>3. FileState' = FileState
    BY <2>1 DEF FileState
  <2>4. \A q \in Process : Mine(q) => Mine(q)'
    BY <2>1, <2>3, Undisturbed
  <2>5. LoneWriterKeeps'
    BY <2>1, <2>4 DEF LogInv, LoneWriterKeeps, Alone
  <2> QED BY <2>2, <2>5, LogStepsAreFileSteps, FileKept DEF LogInv, LogParts
<1>10. LogParts' /\ LoneWriterKeeps'
  <2>1. CASE UNCHANGED vars
    BY <1>9, <2>1 DEF LogInv, LogParts
  <2> QED BY <1>1, <1>2, <1>3, <1>4, <1>5, <1>6, <1>7, <1>8, <2>1 DEF Next
<1> QED BY <1>10, LogStepsAreFileSteps, FileKept DEF LogInv, LogParts

\* What RecordedOnce says of one log.
LEMMA GoodIsRecordedOnce ==
  ASSUME NEW log, GoodLog(log)
  PROVE  /\ Len(log.outbox) = Cardinality(Ids(log.outbox))
         /\ \A m, n \in DOMAIN log.outbox :
              m < n => log.outbox[m].cursor < log.outbox[n].cursor
         /\ \A n \in DOMAIN log.outbox : log.outbox[n].cursor < log.next
<1> DEFINE N == Len(log.outbox)
           f == [n \in 1..N |-> log.outbox[n].id]
<1>1. N \in Nat /\ DOMAIN log.outbox = 1..N /\ log.next = N + 1
  BY DEF GoodLog, Log
<1>2. f \in Bijection(1..N, Ids(log.outbox))
  <2>1. f \in [1..N -> Ids(log.outbox)]
    BY <1>1 DEF Ids
  <2>2. \A m, n \in 1..N : f[m] = f[n] => m = n
    BY DEF GoodLog
  <2>3. \A t \in Ids(log.outbox) : \E n \in 1..N : f[n] = t
    BY <1>1 DEF Ids
  <2> HIDE DEF f, N
  <2> QED BY <2>1, <2>2, <2>3 DEF Bijection, Injection, Surjection, IsInjective
<1>3. ExistsBijection(1..N, Ids(log.outbox))
  BY <1>2 DEF ExistsBijection
<1>4. IsFiniteSet(1..N) /\ Cardinality(1..N) = N
  BY <1>1, FS_Interval
<1>5. Cardinality(Ids(log.outbox)) = N
  BY <1>3, <1>4, FS_Bijection
<1>6. \A n \in 1..N : log.outbox[n].cursor = n
  BY DEF GoodLog
<1> HIDE DEF f, N
<1>7. \A m, n \in 1..N : m < n => log.outbox[m].cursor < log.outbox[n].cursor
  BY <1>6
<1>8. \A n \in 1..N : log.outbox[n].cursor < log.next
  BY <1>1, <1>6
<1> QED BY <1>1, <1>5, <1>7, <1>8 DEF N

\* What a log tells of the cursor of one of its events.
LEMMA CursorOfAnEvent ==
  ASSUME NEW log, GoodLog(log), NEW c \in 1..Len(log.outbox)
  PROVE  /\ CursorStatus(log, c) # "not_found"
         /\ CursorStatus(log, c) = "ok" =>
              /\ log.outbox[c] \in ToSet(log.events)
              /\ Len(Replayed(log, c)) = log.next - c - 1
<1> DEFINE no == Len(log.outbox)
           ne == Len(log.events)
<1>1. /\ no \in Nat /\ ne \in Nat /\ log.next = no + 1 /\ log.events \in Seq(Entry)
      /\ DOMAIN log.events = 1..ne
      /\ ne = IF no > RetentionLimit THEN RetentionLimit ELSE no
      /\ c \in 1..no
  BY DEF GoodLog, Log
<1>2. ne =< no /\ ne > 0
  BY <1>1, LogConstants
<1>3. \A n \in 1..ne : log.events[n].cursor = no - ne + n /\ log.events[n] = log.outbox[no - ne + n]
  BY TailIsInOutbox DEF GoodLog
<1>4. log.events # <<>> /\ Head(log.events) = log.events[1]
  BY <1>1, <1>2
<1> HIDE DEF no, ne
<1>5. CASE c > no - ne
  <2> DEFINE k == c - (no - ne)
  <2>1. k \in 1..ne /\ no - ne + k = c
    BY <1>1, <1>2, <1>5
  <2>2. log.events[k].cursor = c /\ log.events[k] = log.outbox[c]
    BY <1>3, <2>1
  <2>3. \A n \in 1..ne : log.events[n].cursor = c => n = k
    BY <1>1, <1>3, <2>1
  <2> HIDE DEF k
  <2>4. Position(log, c) = k
    BY <1>1, <2>1, <2>2, <2>3 DEF Position
  <2>5. ~(c < Head(log.events).cursor)
    <3>1. log.events[1].cursor = no - ne + 1
      BY <1>1, <1>2, <1>3
    <3> QED BY <1>1, <1>2, <1>4, <1>5, <3>1
  <2>6. CursorStatus(log, c) = "ok"
    BY <1>1, <2>1, <2>2, <2>5 DEF CursorStatus
  <2>7. log.outbox[c] \in ToSet(log.events)
    BY <1>1, <2>1, <2>2 DEF ToSet
  <2>8. Replayed(log, c) = SubSeq(log.events, k + 1, ne)
    BY <2>4 DEF Replayed, ne
  <2>9. Len(SubSeq(log.events, k + 1, ne)) = ne - k
    BY <1>1, <2>1 DEF ne
  <2>10. ne - k = log.next - c - 1
    BY <1>1, <2>1
  <2> QED BY <2>6, <2>7, <2>8, <2>9, <2>10
<1>6. CASE c =< no - ne
  <2>1. \A n \in 1..ne : log.events[n].cursor # c
    BY <1>1, <1>3, <1>6
  <2>2. c < Head(log.events).cursor
    BY <1>1, <1>2, <1>3, <1>4, <1>6
  <2>3. CursorStatus(log, c) = "expired"
    BY <1>1, <1>4, <2>1, <2>2 DEF CursorStatus
  <2> QED BY <2>3
<1> QED BY <1>1, <1>5, <1>6

LEMMA LogInvIsEnough == LogInv => RecordedForGood
<1> SUFFICES ASSUME LogInv PROVE RecordedForGood
  OBVIOUS
<1> USE DEF LogInv
<1>1. RecordedOnce
  <2>1. \A log \in Logs : GoodLog(log)
    BY FileStateIsGood DEF Logs, SoundLogs, TypeOK
  <2> QED BY <2>1, GoodIsRecordedOnce DEF RecordedOnce
<1>2. AnsweredAreKept
  <2> SUFFICES ASSUME NEW p \in Process, Alone(p), NEW entry \in answered[p],
                      entry.id \notin unwritten
               PROVE  Whole /\ entry \in {FileState.outbox[n] : n \in DOMAIN FileState.outbox}
    BY DEF AnsweredAreKept
  <2>1. Whole /\ GoodLog(FileState) /\ InFile(entry)
    BY AloneIsWhole DEF LoneWriterKeeps, Mine, AnswersAreSafe
  <2>2. DOMAIN FileState.outbox = 1..Len(FileState.outbox)
    BY <2>1 DEF GoodLog, Log
  <2> QED BY <2>1, <2>2 DEF InFile
<1>3. CursorsKeepTheirEvent
  <2> SUFFICES ASSUME NEW p \in Process, Alone(p), step[p] # "down",
                      NEW entry \in answered[p], entry.id \notin unwritten
               PROVE  /\ CursorStatus(memory[p], entry.cursor) # "not_found"
                      /\ CursorStatus(memory[p], entry.cursor) = "ok" =>
                           /\ entry \in ToSet(memory[p].events)
                           /\ Len(Replayed(memory[p], entry.cursor)) =
                                memory[p].next - entry.cursor - 1
    BY DEF CursorsKeepTheirEvent
  <2>1. GoodLog(memory[p]) /\ InFile(entry) /\ MemoryIsAhead(p) /\ GoodLog(FileState)
    BY AloneIsWhole DEF SoundLogs, LoneWriterKeeps, Mine, AnswersAreSafe
  <2>2. PICK c \in 1..Len(FileState.outbox) : entry = FileState.outbox[c]
    BY <2>1 DEF InFile
  <2>3. Len(FileState.outbox) \in Nat /\ Len(memory[p].outbox) \in Nat
    BY <2>1 DEF GoodLog, Log
  <2>4. c \in 1..Len(memory[p].outbox) /\ entry = memory[p].outbox[c]
    BY <2>1, <2>2, <2>3 DEF MemoryIsAhead, Leads
  <2>5. entry.cursor = c
    BY <2>1, <2>4 DEF GoodLog
  <2> QED BY <2>1, <2>4, <2>5, CursorOfAnEvent
<1> QED BY <1>1, <1>2, <1>3 DEF RecordedForGood

(* For any number of processes, appends, kills and refused writes: no event  *)
(* is recorded twice, and as long as no other process has written the file,  *)
(* an event answered as recorded is in it for good, under a cursor that      *)
(* never leads elsewhere (event-log-store.ts:60-148).                        *)
THEOREM LogIsForGood == Spec => []RecordedForGood
  BY LogInitially, LogKept, LogInvIsEnough, PTL DEF Spec

(* The log uses its file as any store does: what Part 1 proves of the file   *)
(* holds of the log's (event-log-store.ts:208-217).                          *)
THEOREM LogIsAStore == Spec => FileSpec
<1>1. Init => FileInit
  BY DEF Init
<1>2. LogInv /\ LogInv' /\ [Next]_vars => [FileNext]_fileVars
  BY LogStepsAreFileSteps DEF LogInv
<1> QED
  BY LogInitially, LogKept, <1>1, <1>2, PTL DEF Spec, FileSpec

(***************************************************************************)
(* Part 3.  The schema and its ledger, whatever versions migrate.          *)
(***************************************************************************)

Stages == InTransaction \cup {"down", "table", "check", "ready", "failed"}

MigrationTypes ==
  /\ ledgerTable \in BOOLEAN
  /\ ledger \subseteq AllMigrations
  /\ created \in [AllMigrations -> Nat]
  /\ stage \in [Migrators -> Stages]
  /\ migration \in [Migrators -> Nat]
  /\ missing \in [Migrators -> BOOLEAN]

(* Objects and ledger agree, and the ledger has no gap.                       *)
LedgerIsTrue ==
  /\ \A m \in AllMigrations : created[m] = IF m \in ledger THEN 1 ELSE 0
  /\ \A m \in ledger : 1..m \subseteq ledger

(* A process is at a migration only when all before it are recorded.          *)
InOrder ==
  \A p \in Migrators :
    /\ stage[p] \in InTransaction \cup {"check"} =>
         /\ ledgerTable /\ migration[p] # 0
         /\ \A k \in Nat \ {0} : k < migration[p] => k \in ledger
    /\ stage[p] \in InTransaction => migration[p] <= Known[p]
    /\ stage[p] = "ready" => ledgerTable /\ 1..Known[p] \subseteq ledger

(* A transaction whose migration another has meanwhile committed is excused,  *)
(* one that found the objects there runs beside a recorded migration, and one *)
(* about to commit is alone in having inserted the id.                        *)
AloneAtCommit ==
  /\ \A p \in Migrators :
       /\ stage[p] \in InTransaction /\ migration[p] \in ledger => p \in excused
       /\ stage[p] \in {"creating", "record", "commit"} /\ ~missing[p]
            => migration[p] \in ledger
       /\ stage[p] = "commit" => migration[p] \notin ledger
       /\ stage[p] = "failed" => p \in excused
  /\ \A p, q \in Migrators :
       stage[p] = "commit" /\ stage[q] = "commit" /\ migration[p] = migration[q] => p = q

MigrationInv ==
  /\ MigrationTypes
  /\ LedgerIsTrue
  /\ InOrder
  /\ AloneAtCommit
  /\ report.pending = {}

(* A process in a transaction is at a migration of its version.               *)
LEMMA AtAMigration ==
  ASSUME MigrationTypes, InOrder, NEW p \in Migrators, stage[p] \in InTransaction
  PROVE  migration[p] \in AllMigrations /\ migration[p] \in 1..Known[p]
<1>1. Known[p] \in Nat
  BY MigrationConstants
<1>2. migration[p] \in Nat /\ migration[p] # 0 /\ migration[p] <= Known[p]
  BY DEF MigrationTypes, InOrder
<1>3. migration[p] \in 1..Known[p]
  BY <1>1, <1>2
<1> QED BY <1>3 DEF AllMigrations

LEMMA MigrationInitially == MigrationInit => MigrationInv
<1> SUFFICES ASSUME MigrationInit PROVE MigrationInv
  OBVIOUS
<1>1. MigrationTypes
  BY DEF MigrationInit, MigrationTypes, Stages
<1>2. LedgerIsTrue
  BY DEF MigrationInit, LedgerIsTrue
<1>3. InOrder /\ AloneAtCommit
  BY DEF MigrationInit, InOrder, AloneAtCommit, InTransaction
<1> QED BY <1>1, <1>2, <1>3 DEF MigrationInv, MigrationInit

(* One step per action. *)
LEMMA MigrationKept == MigrationInv /\ [MigrationNext]_migrationVars => MigrationInv'
<1> SUFFICES ASSUME MigrationInv, [MigrationNext]_migrationVars PROVE MigrationInv'
  OBVIOUS
<1> USE DEF MigrationInv, Goes, Reject, Stages, InTransaction, MigrationTypes
<1>1. ASSUME NEW p \in Migrators, StartMigrations(p) PROVE MigrationInv'
  <2>1. MigrationTypes' /\ LedgerIsTrue' /\ report'.pending = {}
    BY <1>1 DEF StartMigrations, LedgerIsTrue
  <2>2. InOrder'
    BY <1>1 DEF StartMigrations, InOrder
  <2>3. AloneAtCommit'
    BY <1>1 DEF StartMigrations, AloneAtCommit
  <2> QED BY <2>1, <2>2, <2>3
<1>2. ASSUME NEW p \in Migrators, CreateLedgerTable(p) PROVE MigrationInv'
  <2>1. MigrationTypes' /\ LedgerIsTrue' /\ report'.pending = {}
    <3>1. ledgerTable' \in BOOLEAN /\ UNCHANGED <<ledger, created, missing, report>>
      BY <1>2 DEF CreateLedgerTable
    <3>2. stage' \in [Migrators -> Stages]
      BY <1>2 DEF CreateLedgerTable
    <3>3. migration' \in [Migrators -> Nat]
      BY <1>2 DEF CreateLedgerTable
    <3> QED BY <3>1, <3>2, <3>3 DEF LedgerIsTrue
  <2>2. InOrder'
    BY <1>2 DEF CreateLedgerTable, InOrder
  <2>3. AloneAtCommit'
    BY <1>2 DEF CreateLedgerTable, AloneAtCommit
  <2> QED BY <2>1, <2>2, <2>3
<1>3. ASSUME NEW p \in Migrators, CheckMigration(p) PROVE MigrationInv'
  <2>0. Known[p] \in Nat /\ migration[p] \in Nat
    BY MigrationConstants
  <2>1. MigrationTypes' /\ LedgerIsTrue' /\ report'.pending = {}
    BY <1>3, <2>0 DEF CheckMigration, LedgerIsTrue
  <2>2. InOrder'
    BY <1>3, <2>0 DEF CheckMigration, InOrder
  <2>3. AloneAtCommit'
    BY <1>3, <2>0 DEF CheckMigration, AloneAtCommit
  <2> QED BY <2>1, <2>2, <2>3
<1>4. ASSUME NEW p \in Migrators, SendStatements(p) PROVE MigrationInv'
  <2>0. migration[p] \in AllMigrations
    BY <1>4, AtAMigration DEF SendStatements
  <2>1. MigrationTypes' /\ LedgerIsTrue' /\ report'.pending = {}
    BY <1>4 DEF SendStatements, LedgerIsTrue
  <2>2. InOrder'
    BY <1>4 DEF SendStatements, InOrder
  <2>3. AloneAtCommit'
    BY <1>4, <2>0 DEF SendStatements, AloneAtCommit, LedgerIsTrue
  <2> QED BY <2>1, <2>2, <2>3
<1>5. ASSUME NEW p \in Migrators, StatementsRun(p) PROVE MigrationInv'
  <2>0. migration[p] \in AllMigrations
    BY <1>5, AtAMigration DEF StatementsRun
  <2>1. MigrationTypes' /\ LedgerIsTrue' /\ report'.pending = {}
    BY <1>5 DEF StatementsRun, LedgerIsTrue
  <2>2. InOrder'
    BY <1>5 DEF StatementsRun, InOrder
  <2>3. AloneAtCommit'
    BY <1>5, <2>0 DEF StatementsRun, AloneAtCommit, LedgerIsTrue
  <2> QED BY <2>1, <2>2, <2>3
<1>6. ASSUME NEW p \in Migrators, RecordMigration(p) PROVE MigrationInv'
  <2>1. MigrationTypes' /\ LedgerIsTrue' /\ report'.pending = {}
    BY <1>6 DEF RecordMigration, LedgerIsTrue
  <2>2. InOrder'
    BY <1>6 DEF RecordMigration, InOrder
  <2>3. AloneAtCommit'
    BY <1>6 DEF RecordMigration, AloneAtCommit, Others
  <2> QED BY <2>1, <2>2, <2>3
<1>7. ASSUME NEW p \in Migrators, CommitMigration(p) PROVE MigrationInv'
  <2>0. migration[p] \in AllMigrations /\ migration[p] \in Nat
    BY <1>7, AtAMigration DEF CommitMigration
  <2>1. MigrationTypes' /\ report'.pending = {}
    BY <1>7, <2>0 DEF CommitMigration
  <2>2. missing[p] /\ migration[p] \notin ledger /\ stage[p] = "commit"
    BY <1>7 DEF CommitMigration, AloneAtCommit
  <2>3. LedgerIsTrue'
    <3>1. \A m \in AllMigrations : created'[m] = IF m \in ledger' THEN 1 ELSE 0
      BY <1>7, <2>0, <2>2 DEF CommitMigration, LedgerIsTrue
    <3>2. \A m \in ledger' : 1..m \subseteq ledger'
      <4>1. 1..migration[p] \subseteq ledger'
        BY <1>7, <2>0, <2>2 DEF CommitMigration, InOrder
      <4> QED BY <1>7, <4>1 DEF CommitMigration, LedgerIsTrue
    <3> QED BY <3>1, <3>2 DEF LedgerIsTrue
  <2>4. InOrder'
    BY <1>7, <2>0, <2>2 DEF CommitMigration, InOrder
  <2>5. AloneAtCommit'
    BY <1>7, <2>2 DEF CommitMigration, AloneAtCommit, Others
  <2> QED BY <2>1, <2>3, <2>4, <2>5
<1>8. ASSUME NEW p \in Migrators, ReportStatus(p) PROVE MigrationInv'
  <2>1. MigrationTypes' /\ LedgerIsTrue'
    BY <1>8 DEF ReportStatus, LedgerIsTrue
  <2>2. report'.pending = {}
    BY <1>8 DEF ReportStatus, InOrder, FindAppliedMigrations
  <2>3. InOrder'
    BY <1>8 DEF ReportStatus, InOrder
  <2>4. AloneAtCommit'
    BY <1>8 DEF ReportStatus, AloneAtCommit
  <2> QED BY <2>1, <2>2, <2>3, <2>4
<1>9. ASSUME NEW p \in Migrators, DatabaseRefuses(p) PROVE MigrationInv'
  <2>1. MigrationTypes' /\ LedgerIsTrue' /\ report'.pending = {}
    BY <1>9 DEF DatabaseRefuses, LedgerIsTrue
  <2>2. InOrder'
    BY <1>9 DEF DatabaseRefuses, InOrder
  <2>3. AloneAtCommit'
    BY <1>9 DEF DatabaseRefuses, AloneAtCommit
  <2> QED BY <2>1, <2>2, <2>3
<1>10. ASSUME NEW p \in Migrators, StopMigrator(p) PROVE MigrationInv'
  <2>1. MigrationTypes' /\ LedgerIsTrue' /\ report'.pending = {}
    BY <1>10 DEF StopMigrator, LedgerIsTrue
  <2>2. InOrder'
    BY <1>10 DEF StopMigrator, InOrder
  <2>3. AloneAtCommit'
    BY <1>10 DEF StopMigrator, AloneAtCommit
  <2> QED BY <2>1, <2>2, <2>3
<1>11. CASE UNCHANGED migrationVars
  BY <1>11 DEF migrationVars, LedgerIsTrue, InOrder, AloneAtCommit
<1> QED
  BY <1>1, <1>2, <1>3, <1>4, <1>5, <1>6, <1>7, <1>8, <1>9, <1>10, <1>11 DEF MigrationNext

(* However many processes of whatever versions migrate at once, fail or are   *)
(* killed, the schema is what the ledger says, without gaps or repetitions,   *)
(* and nobody works on less than it knows (runPostgresqlSqlMigrations,        *)
(* createPostgresqlMigrationBarrier).                                         *)
THEOREM SchemaStaysWhole == MigrationSpec => []SchemaIsWhole
<1>1. MigrationInv => SchemaIsWhole
  BY DEF MigrationInv, LedgerIsTrue, InOrder, AloneAtCommit, SchemaIsWhole
<1> QED
  BY MigrationInitially, MigrationKept, <1>1, PTL DEF MigrationSpec

(***************************************************************************)
(* Part 4.  A group that requests change at once.  Each handler changes a   *)
(* copy and saves it over what is there: how much of the past a copy        *)
(* includes decides what its save undoes.                                   *)
(***************************************************************************)

MemberRecords == [jid : Persons, role : Roles]

\* As much of a group's record as its changes look at.
IsGroup(g) == /\ {"items", "events", "news", "has", "status"} \subseteq DOMAIN g
              /\ g.items \in Seq(MemberRecords)

\* Who is at a place of a list of members is there in the other.
KeepsPlaces(old, new) ==
  \A i \in DOMAIN old : i \in DOMAIN new /\ new[i].jid = old[i].jid

LEMMA EmitKeeps ==
  ASSUME NEW g, IsGroup(g), NEW event
  PROVE  IsGroup(Emit(g, event)) /\ Emit(g, event).items = g.items
BY DEF IsGroup, Emit

LEMMA PatchedItems ==
  ASSUME NEW g, IsGroup(g), NEW items \in Seq(MemberRecords), NEW event
  PROVE  IsGroup(PatchGroup(g, items, event)) /\ PatchGroup(g, items, event).items = items
<1> DEFINE h == [g EXCEPT !.items = items]
<1>1. IsGroup(h) /\ h.items = items
  BY DEF IsGroup
<1> HIDE DEF h
<1>2. IsGroup(Emit(h, event)) /\ Emit(h, event).items = h.items
  BY <1>1, EmitKeeps
<1> QED BY <1>1, <1>2 DEF PatchGroup, h

LEMMA ThrowsIsGroup == IsGroup(Throws)
BY DEF Throws, New, IsGroup

LEMMA StatePatched ==
  ASSUME NEW g, IsGroup(g), NEW flag, NEW on
  PROVE  /\ IsGroup(PatchLocalState(g, flag, on))
         /\ \/ PatchLocalState(g, flag, on) = Throws
            \/ PatchLocalState(g, flag, on).items = g.items
<1> DEFINE h == [g EXCEPT !.has = IF on THEN @ \cup {flag} ELSE @ \ {flag}]
<1>1. IsGroup(h) /\ h.items = g.items
  BY DEF IsGroup
<1> HIDE DEF h
<1>2. IsGroup(Emit(h, "GroupLocalStateUpdated"))
      /\ Emit(h, "GroupLocalStateUpdated").items = h.items
  BY <1>1, EmitKeeps
<1> QED BY <1>1, <1>2, ThrowsIsGroup DEF PatchLocalState, h

LEMMA LocalStateKeeps ==
  ASSUME NEW g, IsGroup(g), NEW flags
  PROVE  /\ IsGroup(ApplyLocalStateMutation(g, flags))
         /\ \/ ApplyLocalStateMutation(g, flags) = Throws
            \/ ApplyLocalStateMutation(g, flags).items = g.items
<1> DEFINE Patch(h, flag) ==
             IF flag \in DOMAIN flags THEN PatchLocalState(h, flag, flags[flag]) ELSE h
           Kept(h) == IsGroup(h) /\ (h = Throws \/ h.items = g.items)
<1>1. ASSUME NEW h, Kept(h), NEW flag PROVE Kept(Patch(h, flag))
  <2>1. CASE h = Throws
    BY <1>1, <2>1, ThrowsIsGroup DEF PatchLocalState, Throws, New
  <2>2. CASE h.items = g.items
    BY <1>1, <2>2, StatePatched
  <2> QED BY <1>1, <2>1, <2>2
<1>2. Kept(g)
  OBVIOUS
<1>3. ApplyLocalStateMutation(g, flags) = Patch(Patch(Patch(g, "muted"), "archived"), "pinned")
  BY DEF ApplyLocalStateMutation
<1> HIDE DEF Patch, Kept
<1>4. Kept(ApplyLocalStateMutation(g, flags))
  BY <1>1, <1>2, <1>3
<1> QED BY <1>4 DEF Kept

LEMMA MetadataKeeps ==
  ASSUME NEW g, IsGroup(g)
  PROVE  /\ IsGroup(UpdateGroupMetadata(g))
         /\ UpdateGroupMetadata(g) = Throws \/ UpdateGroupMetadata(g).items = g.items
<1>1. g.items \in Seq(MemberRecords)
  BY DEF IsGroup
<1> QED BY <1>1, PatchedItems, ThrowsIsGroup DEF UpdateGroupMetadata

LEMMA AddKeeps ==
  ASSUME NEW g, IsGroup(g), NEW j \in Persons, NEW role \in Roles
  PROVE  /\ IsGroup(AddGroupMember(g, j, role))
         /\ \/ AddGroupMember(g, j, role) = Throws
            \/ KeepsPlaces(g.items, AddGroupMember(g, j, role).items)
<1> DEFINE items == Append(g.items, [jid |-> j, role |-> role])
<1>1. items \in Seq(MemberRecords) /\ KeepsPlaces(g.items, items)
  BY DEF IsGroup, MemberRecords, KeepsPlaces
<1> HIDE DEF items
<1>2. IsGroup(PatchGroup(g, items, "GroupMemberAdded"))
      /\ PatchGroup(g, items, "GroupMemberAdded").items = items
  BY <1>1, PatchedItems
<1> QED BY <1>1, <1>2, ThrowsIsGroup DEF AddGroupMember, items

LEMMA RemoveIsGroup ==
  ASSUME NEW g, IsGroup(g), NEW j
  PROVE  IsGroup(RemoveGroupMember(g, j))
<1>1. CASE MemberMay(g, j)
  <2> DEFINE at == CHOOSE i \in DOMAIN g.items : g.items[i].jid = j
             items == RemoveAt(g.items, at)
  <2>1. g.items \in Seq(MemberRecords)
    BY DEF IsGroup
  <2>2. PICK m \in ToSet(g.items) : m.jid = j
    BY <1>1 DEF MemberMay, IsMember
  <2>3. PICK i \in DOMAIN g.items : g.items[i] = m
    BY <2>2 DEF ToSet
  <2>4. at \in DOMAIN g.items
    BY <2>2, <2>3
  <2> HIDE DEF at
  <2>5. at \in 1..Len(g.items)
    BY <2>1, <2>4
  <2>6. SubSeq(g.items, 1, at - 1) \in Seq(MemberRecords)
        /\ SubSeq(g.items, at + 1, Len(g.items)) \in Seq(MemberRecords)
    BY <2>1, <2>5
  <2>7. items \in Seq(MemberRecords)
    BY <2>6 DEF RemoveAt
  <2> HIDE DEF items
  <2>8. IsGroup(PatchGroup(g, items, "GroupMemberRemoved"))
    BY <2>7, PatchedItems
  <2> QED BY <1>1, <2>8 DEF RemoveGroupMember, items, at
<1>2. CASE ~MemberMay(g, j)
  BY <1>2, ThrowsIsGroup DEF RemoveGroupMember
<1> QED BY <1>1, <1>2

LEMMA RoleKeeps ==
  ASSUME NEW g, IsGroup(g), NEW j, NEW role \in Roles
  PROVE  /\ IsGroup(ReplaceMemberRole(g, j, role))
         /\ KeepsPlaces(g.items, ReplaceMemberRole(g, j, role).items)
<1> DEFINE Changed(m) == IF m.jid = j THEN [m EXCEPT !.role = role] ELSE m
           items == [i \in DOMAIN g.items |-> Changed(g.items[i])]
<1>1. g.items \in Seq(MemberRecords)
  BY DEF IsGroup
<1>2. ASSUME NEW m \in MemberRecords
      PROVE  Changed(m) \in MemberRecords /\ Changed(m).jid = m.jid
  BY <1>2 DEF MemberRecords
<1> HIDE DEF Changed
<1>3. items \in Seq(MemberRecords) /\ KeepsPlaces(g.items, items)
  <2>1. g.items \in [1..Len(g.items) -> MemberRecords] /\ Len(g.items) \in Nat
    BY <1>1
  <2>2. items \in [1..Len(g.items) -> MemberRecords]
    BY <1>2, <2>1
  <2>3. items \in Seq(MemberRecords)
    BY <2>1, <2>2
  <2> QED BY <1>2, <2>1, <2>3 DEF KeepsPlaces
<1> HIDE DEF items
<1>4. IsGroup(PatchGroup(g, items, "GroupMemberRoleChanged"))
      /\ PatchGroup(g, items, "GroupMemberRoleChanged").items = items
  BY <1>3, PatchedItems
<1> QED BY <1>3, <1>4 DEF ReplaceMemberRole, items, Changed

\* A change keeps everybody in their place, unless it removes a member; and one of a
\* member is made to whom is at the place it names.
LEMMA MutationKeepsPlaces ==
  ASSUME NEW g, IsGroup(g), NEW intent \in Intents,
         NEW changed, changed = ApplyGroupMutation(g, intent), changed # Throws,
         intent.kind = "add_member" => intent.jid \in Persons
  PROVE  /\ IsGroup(changed)
         /\ intent.kind = "remove_member" \/ KeepsPlaces(g.items, changed.items)
         /\ intent.kind \in MemberKinds => intent.at \in DOMAIN g.items
<1> DEFINE jid == ResolveExistingMemberJid(g, intent.at)
<1>0. \A h : h.items = g.items => KeepsPlaces(g.items, h.items)
  BY DEF KeepsPlaces
<1>1. CASE intent.kind = "metadata"
  <2>1. changed = UpdateGroupMetadata(g)
    BY <1>1 DEF ApplyGroupMutation, MemberKinds
  <2> QED BY <1>0, <1>1, <2>1, MetadataKeeps DEF MemberKinds
<1>2. CASE intent.kind = "local_state"
  <2>1. changed = ApplyLocalStateMutation(g, intent.flags)
    BY <1>2 DEF ApplyGroupMutation, MemberKinds
  <2> QED BY <1>0, <1>2, <2>1, LocalStateKeeps DEF MemberKinds
<1>3. CASE intent.kind = "add_member"
  <2>1. changed = AddGroupMember(g, intent.jid, "member")
    BY <1>3 DEF ApplyGroupMutation, MemberKinds
  <2>2. "member" \in Roles
    BY DEF Roles
  <2> QED BY <1>3, <2>1, <2>2, AddKeeps DEF MemberKinds
<1>4. CASE intent.kind \in MemberKinds
  <2>1. changed = IF jid = Nobody THEN Throws ELSE ApplyToMember(g, intent.kind, jid)
    <3>1. intent.kind \notin {"metadata", "local_state", "add_member"}
      BY <1>4 DEF MemberKinds
    <3> QED BY <1>4, <3>1 DEF ApplyGroupMutation
  <2>2. changed = ApplyToMember(g, intent.kind, jid) /\ jid # Nobody
    BY <2>1
  <2>3. intent.at \in DOMAIN g.items
    BY <2>2 DEF ResolveExistingMemberJid
  <2>4. CASE intent.kind = "remove_member"
    <3>1. changed = RemoveGroupMember(g, jid)
      BY <2>2, <2>4 DEF ApplyToMember
    <3> QED BY <2>3, <2>4, <3>1, RemoveIsGroup
  <2>5. CASE intent.kind = "promote_member"
    <3>1. changed = PromoteGroupMember(g, jid) /\ "admin" \in Roles
      BY <2>2, <2>5 DEF ApplyToMember, Roles
    <3>2. changed = ReplaceMemberRole(g, jid, "admin")
      BY <3>1 DEF PromoteGroupMember
    <3> QED BY <2>3, <3>1, <3>2, RoleKeeps
  <2>6. CASE intent.kind = "demote_member"
    <3>1. changed = DemoteGroupMember(g, jid) /\ "member" \in Roles
      BY <2>2, <2>6 DEF ApplyToMember, Roles
    <3>2. changed = ReplaceMemberRole(g, jid, "member")
      BY <3>1 DEF DemoteGroupMember
    <3> QED BY <2>3, <3>1, <3>2, RoleKeeps
  <2> QED BY <1>4, <2>4, <2>5, <2>6 DEF MemberKinds
<1> QED BY <1>1, <1>2, <1>3, <1>4 DEF Intents, Kinds

ActionKinds == Kinds \cup {"muted", "archived", "pinned"}
ActionRecords ==
  [id : Kinds \X {KeyOf[r] : r \in Requests}, kind : ActionKinds, jid : Persons \cup {Nobody}]
NotRepeated(actions) == \A i, j \in DOMAIN actions : actions[i] = actions[j] => i = j

LEMMA ResolvedJid ==
  ASSUME NEW g, IsGroup(g), NEW at
  PROVE  ResolveExistingMemberJid(g, at) \in Persons \cup {Nobody}
<1>1. CASE at \in DOMAIN g.items
  <2>1. g.items[at] \in MemberRecords
    BY <1>1 DEF IsGroup
  <2> QED BY <1>1, <2>1 DEF ResolveExistingMemberJid, MemberRecords
<1>2. CASE at \notin DOMAIN g.items
  BY <1>2 DEF ResolveExistingMemberJid
<1> QED BY <1>1, <1>2

LEMMA NewActionsAre ==
  ASSUME NEW g, IsGroup(g), NEW intent \in Intents, IsSafeInput(intent),
         NEW id \in Kinds \X {KeyOf[r] : r \in Requests}
  PROVE  LET new == NewActions(g, intent, id) IN
         /\ new \in Seq(ActionRecords) /\ new # << >>
         /\ NotRepeated(new)
         /\ \A i \in DOMAIN new :
              /\ new[i].id = id
              /\ new[i].kind \in MemberKinds =>
                   /\ intent.kind \in MemberKinds
                   /\ new[i].jid = ResolveExistingMemberJid(g, intent.at)
<1> DEFINE jid == IF intent.kind = "add_member" THEN intent.jid
                  ELSE ResolveExistingMemberJid(g, intent.at)
           entry(kind) == [id |-> id, kind |-> kind, jid |-> jid]
           new == NewActions(g, intent, id)
<1>1. jid \in Persons \cup {Nobody}
  BY ResolvedJid DEF Intents
<1>2. intent.kind = "add_member" \/ jid = ResolveExistingMemberJid(g, intent.at)
  OBVIOUS
<1> HIDE DEF jid
<1>3. \A kind \in ActionKinds : entry(kind) \in ActionRecords
  BY <1>1 DEF ActionRecords
<1> HIDE DEF entry
<1>4. CASE intent.kind # "local_state"
  <2>1. new = <<entry(intent.kind)>>
    BY <1>4 DEF NewActions, jid, entry
  <2>2. intent.kind \in ActionKinds
    BY DEF Intents, ActionKinds
  <2>3. new \in Seq(ActionRecords) /\ new # << >> /\ DOMAIN new = {1} /\ new[1] = entry(intent.kind)
    BY <1>3, <2>1, <2>2
  <2>4. entry(intent.kind).id = id /\ entry(intent.kind).kind = intent.kind
        /\ entry(intent.kind).jid = jid
    BY DEF entry
  <2> HIDE DEF new
  <2> QED BY <1>2, <2>3, <2>4 DEF NotRepeated, new, MemberKinds
<1>5. CASE intent.kind = "local_state"
  <2>1. intent.flags = [muted |-> TRUE, pinned |-> FALSE]
    BY <1>5 DEF IsSafeInput, Intents, Patches
  <2>2. "muted" \in DOMAIN intent.flags /\ "pinned" \in DOMAIN intent.flags
        /\ "archived" \notin DOMAIN intent.flags
    BY <2>1
  <2>3. new = <<entry("muted")>> \o << >> \o <<entry("pinned")>>
    BY <1>5, <2>2 DEF NewActions, jid, entry
  <2>4. entry("muted") \in ActionRecords /\ entry("pinned") \in ActionRecords
    BY <1>3 DEF ActionKinds
  <2>5. /\ entry("muted").id = id /\ entry("pinned").id = id
        /\ entry("muted").kind = "muted" /\ entry("pinned").kind = "pinned"
    BY DEF entry
  <2>6. /\ <<entry("muted")>> \o << >> \in Seq(ActionRecords)
        /\ Len(<<entry("muted")>> \o << >>) = 1 /\ (<<entry("muted")>> \o << >>)[1] = entry("muted")
    BY <2>4
  <2>7. new \in Seq(ActionRecords) /\ new # << >> /\ DOMAIN new = {1, 2}
        /\ new[1] = entry("muted") /\ new[2] = entry("pinned")
    BY <2>3, <2>4, <2>6
  <2> HIDE DEF new
  <2> QED BY <2>5, <2>7 DEF NotRepeated, new, MemberKinds
<1> QED BY <1>4, <1>5

Handling == {"ask", "accept", "load", "mutate", "save", "publish", "cut", "done"}
Outcomes ==
  {"forbidden", "invalid", "failed", "accepted", "completed", "rejected", "failed_accepted"}

GroupTypes ==
  /\ IsGroup(stored.group) /\ stored.actions \in Seq(ActionRecords)
  /\ progress \in [Requests -> Handling]
  /\ intents \in [Requests -> Intents \cup {Null}] /\ meant \in [Requests -> Persons \cup {Nobody}]
  /\ listedAt \in [Requests -> Nat] /\ loadedAt \in [Requests -> Nat]
  /\ DOMAIN loaded = Requests /\ answers \in [Requests -> Outcomes \cup {Null}]
  /\ saves \in Seq(Requests)

Asked(r) == progress[r] # "ask"

\* What a request asks is there from when it is asked, and no flag is forgotten.
Asking ==
  \A r \in Requests :
     /\ intents[r] = Null <=> ~Asked(r)
     /\ Asked(r) => /\ intents[r].kind = "add_member" => intents[r].jid \in Persons
                    /\ listedAt[r] <= Len(saves)
     /\ progress[r] \in {"load", "mutate", "save"} => IsSafeInput(intents[r])

\* Requests of one key ask the same, of the same list.
Agreeing ==
  \A q, r \in Requests : Asked(q) /\ Asked(r) /\ KeyOf[q] = KeyOf[r] =>
     intents[q] = intents[r] /\ meant[q] = meant[r] /\ listedAt[q] = listedAt[r]

\* Who has saved is done with it, or was cut off.
Saving ==
  /\ \A i \in DOMAIN saves :
       /\ progress[saves[i]] \in {"publish", "cut", "done"} /\ loadedAt[saves[i]] < i
       /\ progress[saves[i]] = "done" =>
            saves[i] \in published \/ answers[saves[i]] = "failed_accepted"
  /\ \A r \in Requests :
       /\ progress[r] = "publish" => \E i \in DOMAIN saves : saves[i] = r
       /\ loadedAt[r] <= Len(saves)
       /\ answers[r] \in {"accepted", "completed"} =>
            progress[r] = "done" /\ \E i \in DOMAIN saves : ActionId(saves[i]) = ActionId(r)

\* Among the saves that a copy includes, one moved the members, or was lost.
Moved(r, n) ==
  \E k \in (listedAt[r] + 1)..n :
     intents[saves[k]].kind = "remove_member" \/ loadedAt[saves[k]] < k - 1
Lost(i, n) == \E k \in (i + 1)..n : loadedAt[saves[k]] < i

\* In a group that includes n saves: whom the request saw, and what was saved.
Seen(r, n, items) ==
  intents[r].kind \in MemberKinds =>
     Moved(r, n) \/ (intents[r].at \in DOMAIN items /\ items[intents[r].at].jid = meant[r])
Includes(copy, n) == \A i \in 1..n : HasAction(copy, ActionId(saves[i])) \/ Lost(i, n)

\* An entry of a group's actions is the request's.
MadeBy(entry, r) ==
  /\ entry.id = ActionId(r)
  /\ entry.kind \in MemberKinds => /\ intents[r].kind \in MemberKinds
                                   /\ entry.jid = meant[r] \/ Moved(r, loadedAt[r])
Saved(entry) == \E k \in DOMAIN saves : MadeBy(entry, saves[k])

StoredInv ==
  /\ NotRepeated(stored.actions) /\ Includes(stored, Len(saves))
  /\ \A i \in DOMAIN stored.actions : Saved(stored.actions[i])
  /\ \A r \in Requests : Asked(r) => Seen(r, Len(saves), stored.group.items)

\* A handler's copy, whatever has been saved since it was loaded,
CopyAlone(q) ==
  /\ IsGroup(loaded[q].group) /\ loaded[q].actions \in Seq(ActionRecords)
  /\ NotRepeated(loaded[q].actions) /\ Includes(loaded[q], loadedAt[q])
  /\ listedAt[q] <= loadedAt[q]
  /\ \A i \in DOMAIN loaded[q].actions :
        Saved(loaded[q].actions[i]) \/ (progress[q] = "save" /\ MadeBy(loaded[q].actions[i], q))
  /\ (progress[q] = "save") <=> HasAction(loaded[q], ActionId(q))

\* as long as nothing has been saved since,
CopyFresh(q) ==
  loadedAt[q] = Len(saves) =>
    \/ progress[q] = "mutate" /\ loaded[q] = stored
    \/ progress[q] = "save" /\ intents[q].kind = "remove_member"
    \/ progress[q] = "save" /\ KeepsPlaces(stored.group.items, loaded[q].group.items)

\* and for the requests that it may have to do with.
CopySeen(q) ==
  \/ progress[q] = "save" /\ intents[q].kind = "remove_member"
  \/ \A r \in Requests : Asked(r) /\ listedAt[r] <= loadedAt[q] =>
                           Seen(r, loadedAt[q], loaded[q].group.items)

CopyInv(q) == progress[q] \in {"mutate", "save"} => CopyAlone(q) /\ CopyFresh(q) /\ CopySeen(q)

GroupInv ==
  /\ GroupTypes /\ Asking /\ Agreeing /\ Saving /\ StoredInv
  /\ \A q \in Requests : CopyInv(q)

LEMMA GroupInitHolds == GroupInit => GroupInv
<1> SUFFICES ASSUME GroupInit PROVE GroupInv
  OBVIOUS
<1>1. IsGroup(CreateGroup(SeedMembers))
  <2> DEFINE g == [New("Group", "discovered", {}) EXCEPT !.items = SeedMembers]
  <2>1. IsGroup(g)
    BY GroupSeed DEF New, IsGroup, MemberRecords
  <2> HIDE DEF g
  <2> QED BY <2>1, EmitKeeps, ThrowsIsGroup DEF CreateGroup, g
<1>2. IsGroup(stored.group) /\ stored.actions = << >>
  <2>1. PICK status \in SeedStatuses :
             stored = [group |-> [CreateGroup(SeedMembers) EXCEPT !.status = status],
                       actions |-> << >>]
    BY DEF GroupInit
  <2>2. IsGroup([CreateGroup(SeedMembers) EXCEPT !.status = status])
    BY <1>1 DEF IsGroup
  <2> QED BY <2>1, <2>2
<1>3. GroupTypes
  BY <1>2 DEF GroupInit, GroupTypes, Handling
<1>4. Asking /\ Agreeing /\ Saving
  BY GroupSeed DEF GroupInit, Asking, Agreeing, Saving, Asked
<1>5. StoredInv
  <2>1. Len(saves) = 0 /\ \A r \in Requests : ~Asked(r)
    BY DEF GroupInit, Asked
  <2> QED BY <1>2, <2>1 DEF StoredInv, NotRepeated, Includes
<1>6. \A q \in Requests : CopyInv(q)
  BY DEF GroupInit, CopyInv
<1> QED BY <1>3, <1>4, <1>5, <1>6 DEF GroupInv

-----------------------------------------------------------------------------
(* What has been saved stays as it was.                                    *)

SameAsking(r) ==
  intents'[r] = intents[r] /\ meant'[r] = meant[r] /\ listedAt'[r] = listedAt[r]
SameLoaded(r) == loadedAt'[r] = loadedAt[r]

\* Saves are appended, of requests that have done their asking and loading.
Past ==
  /\ saves' \in Seq(Requests) /\ Len(saves) <= Len(saves')
  /\ \A i \in DOMAIN saves :
       saves'[i] = saves[i] /\ SameAsking(saves[i]) /\ SameLoaded(saves[i])

LEMMA PastPlaces ==
  ASSUME GroupTypes, Past
  PROVE  /\ Len(saves) \in Nat /\ DOMAIN saves = 1..Len(saves)
         /\ Len(saves') \in Nat /\ DOMAIN saves' = 1..Len(saves')
         /\ \A i \in 1..Len(saves) :
              /\ saves[i] \in Requests /\ saves'[i] = saves[i]
              /\ intents'[saves[i]] = intents[saves[i]] /\ loadedAt'[saves[i]] = loadedAt[saves[i]]
              /\ meant'[saves[i]] = meant[saves[i]] /\ listedAt'[saves[i]] = listedAt[saves[i]]
<1>1. /\ saves \in Seq(Requests) /\ saves' \in Seq(Requests)
      /\ \A i \in DOMAIN saves :
           saves'[i] = saves[i] /\ SameAsking(saves[i]) /\ SameLoaded(saves[i])
  BY DEF GroupTypes, Past
<1>2. /\ Len(saves) \in Nat /\ DOMAIN saves = 1..Len(saves)
      /\ Len(saves') \in Nat /\ DOMAIN saves' = 1..Len(saves')
      /\ \A i \in 1..Len(saves) : saves[i] \in Requests
  BY <1>1
<1> QED BY <1>1, <1>2 DEF SameAsking, SameLoaded

LEMMA PastMoved ==
  ASSUME GroupTypes, Past, NEW r \in Requests, SameAsking(r), NEW n \in 0..Len(saves)
  PROVE  Moved(r, n)' <=> Moved(r, n)
<1>1. listedAt'[r] = listedAt[r] /\ listedAt[r] \in Nat
  BY DEF SameAsking, GroupTypes
<1>2. \A k \in (listedAt[r] + 1)..n : k \in 1..Len(saves)
  BY <1>1, PastPlaces
<1>3. \A k \in (listedAt[r] + 1)..n :
         saves'[k] = saves[k] /\ intents'[saves[k]] = intents[saves[k]]
         /\ loadedAt'[saves[k]] = loadedAt[saves[k]]
  BY <1>2, PastPlaces
<1>4. Moved(r, n)' <=> \E k \in (listedAt[r] + 1)..n :
         intents'[saves'[k]].kind = "remove_member" \/ loadedAt'[saves'[k]] < k - 1
  BY <1>1 DEF Moved
<1> QED BY <1>3, <1>4 DEF Moved

LEMMA PastLost ==
  ASSUME GroupTypes, Past, NEW i \in Nat, NEW n \in 0..Len(saves), Lost(i, n)
  PROVE  Lost(i, n)'
<1>1. PICK k \in (i + 1)..n : loadedAt[saves[k]] < i
  BY DEF Lost
<1>2. saves'[k] = saves[k] /\ loadedAt'[saves[k]] = loadedAt[saves[k]]
  BY PastPlaces
<1> QED BY <1>1, <1>2 DEF Lost

LEMMA PastSeen ==
  ASSUME GroupTypes, Past, NEW r \in Requests, SameAsking(r), NEW n \in 0..Len(saves), NEW items,
         Seen(r, n, items)
  PROVE  Seen(r, n, items)'
BY PastMoved DEF Seen, SameAsking

LEMMA PastIncludes ==
  ASSUME GroupTypes, Past, NEW copy, NEW n \in 0..Len(saves), Includes(copy, n)
  PROVE  Includes(copy, n)'
<1> SUFFICES ASSUME NEW i \in 1..n, ~HasAction(copy, ActionId(saves[i])')
             PROVE  Lost(i, n)'
  BY DEF Includes, HasAction
<1>1. ActionId(saves[i])' = ActionId(saves[i])
  BY PastPlaces DEF ActionId
<1>2. Lost(i, n)
  BY <1>1 DEF Includes
<1> QED BY <1>2, PastLost

LEMMA PastMadeBy ==
  ASSUME GroupTypes, Past, NEW r \in Requests, SameAsking(r), SameLoaded(r),
         loadedAt[r] <= Len(saves), NEW entry, MadeBy(entry, r)
  PROVE  MadeBy(entry, r)'
<1>1. PICK n \in 0..Len(saves) : n = loadedAt[r]
  BY DEF GroupTypes
<1>2. Moved(r, n)' <=> Moved(r, n)
  BY PastMoved
<1>3. Moved(r, loadedAt[r])' <=> Moved(r, loadedAt[r])
  BY <1>1, <1>2 DEF Moved, SameLoaded
<1> QED BY <1>3 DEF MadeBy, ActionId, SameAsking

LEMMA PastSaved ==
  ASSUME GroupTypes, Past, Saving, NEW entry, Saved(entry)
  PROVE  Saved(entry)'
<1>1. PICK k \in DOMAIN saves : MadeBy(entry, saves[k])
  BY DEF Saved
<1>2. PICK r \in Requests : r = saves[k]
  BY <1>1, PastPlaces
<1>3. SameAsking(r) /\ SameLoaded(r) /\ loadedAt[r] <= Len(saves)
  BY <1>1, <1>2 DEF Past, Saving
<1>4. MadeBy(entry, r)
  BY <1>1, <1>2
<1>5. MadeBy(entry, r)'
  BY <1>3, <1>4, PastMadeBy
<1>6. k \in DOMAIN saves' /\ saves'[k] = r
  BY <1>1, <1>2, PastPlaces DEF Past
<1>7. MadeBy(entry, saves[k])'
  BY <1>5, <1>6 DEF MadeBy, ActionId, Moved
<1> QED BY <1>6, <1>7 DEF Saved

LEMMA PastHolds ==
  ASSUME GroupInv,
         saves' = saves \/ \E r \in Requests : saves' = Append(saves, r),
         \A r \in Requests : progress[r] \in {"publish", "cut", "done"} =>
                               SameAsking(r) /\ SameLoaded(r)
  PROVE  Past
<1>1. saves \in Seq(Requests) /\ DOMAIN saves = 1..Len(saves)
  BY DEF GroupInv, GroupTypes
<1>2. saves' \in Seq(Requests) /\ Len(saves) <= Len(saves')
      /\ \A i \in DOMAIN saves : saves'[i] = saves[i]
  BY <1>1
<1>3. \A i \in DOMAIN saves :
         saves[i] \in Requests /\ progress[saves[i]] \in {"publish", "cut", "done"}
  BY <1>1 DEF GroupInv, Saving
<1> QED BY <1>2, <1>3 DEF Past

\* A copy that a step leaves alone stays what it was, whatever the step saves.
LEMMA CopyAloneKept ==
  ASSUME GroupInv, Past, NEW q \in Requests, CopyAlone(q), progress[q] \in {"mutate", "save"},
         progress'[q] = progress[q], loaded'[q] = loaded[q], SameAsking(q), SameLoaded(q)
  PROVE  CopyAlone(q)'
<1>1. loadedAt[q] \in 0..Len(saves) /\ loadedAt'[q] = loadedAt[q]
  BY DEF GroupInv, GroupTypes, Saving, SameLoaded
<1>2. PICK n \in 0..Len(saves) : n = loadedAt[q]
  BY <1>1
<1>3. Includes(loaded[q], n)
  BY <1>2 DEF CopyAlone
<1>4. PICK copy : copy = loaded[q]
  OBVIOUS
<1>5. Includes(copy, n)'
  BY <1>3, <1>4, PastIncludes DEF GroupInv
<1>6. Includes(loaded[q], loadedAt[q])'
  BY <1>1, <1>2, <1>4, <1>5 DEF Includes, Lost, HasAction, ActionId
<1>7. ASSUME NEW i \in DOMAIN copy.actions
      PROVE  Saved(copy.actions[i])' \/ (progress'[q] = "save" /\ MadeBy(copy.actions[i], q)')
  <2>1. PICK entry : entry = copy.actions[i]
    OBVIOUS
  <2>2. Saved(entry) \/ (progress[q] = "save" /\ MadeBy(entry, q))
    BY <1>4, <1>7, <2>1 DEF CopyAlone
  <2>3. Saved(entry) => Saved(entry)'
    BY PastSaved DEF GroupInv
  <2>4. MadeBy(entry, q) => MadeBy(entry, q)'
    BY <1>1, PastMadeBy DEF GroupInv
  <2>5. Saved(entry)' \/ (progress'[q] = "save" /\ MadeBy(entry, q)')
    BY <2>2, <2>3, <2>4
  <2> QED BY <2>1, <2>5
<1>8. \A i \in DOMAIN loaded'[q].actions :
         Saved(loaded[q].actions[i])' \/ (progress'[q] = "save" /\ MadeBy(loaded[q].actions[i], q)')
  BY <1>4, <1>7 DEF Saved, MadeBy, Moved, ActionId
<1>9. HasAction(loaded[q], ActionId(q))' <=> HasAction(loaded[q], ActionId(q))
  BY DEF HasAction, ActionId, SameAsking
<1> QED BY <1>1, <1>6, <1>8, <1>9 DEF CopyAlone, SameAsking

LEMMA CopySeenKept ==
  ASSUME GroupInv, Past, NEW q \in Requests, CopySeen(q), progress[q] \in {"mutate", "save"},
         progress'[q] = progress[q], loaded'[q] = loaded[q], SameAsking(q), SameLoaded(q),
         \A r \in Requests : Asked(r)' =>
            \/ Asked(r) /\ SameAsking(r)
            \/ listedAt'[r] <= loadedAt[q] => Seen(r, loadedAt[q], loaded[q].group.items)'
  PROVE  CopySeen(q)'
<1>1. loadedAt[q] \in 0..Len(saves) /\ loadedAt'[q] = loadedAt[q]
  BY DEF GroupInv, GroupTypes, Saving, SameLoaded
<1>2. CASE progress[q] = "save" /\ intents[q].kind = "remove_member"
  BY <1>2 DEF CopySeen, SameAsking
<1>3. CASE \A r \in Requests : Asked(r) /\ listedAt[r] <= loadedAt[q] =>
                                 Seen(r, loadedAt[q], loaded[q].group.items)
  <2>1. ASSUME NEW r \in Requests, Asked(r)', listedAt'[r] <= loadedAt[q]
        PROVE  Seen(r, loadedAt[q], loaded[q].group.items)'
    <3>1. CASE Asked(r) /\ SameAsking(r)
      <4>1. Seen(r, loadedAt[q], loaded[q].group.items)
        BY <1>3, <2>1, <3>1 DEF SameAsking
      <4>2. PICK n \in 0..Len(saves) : n = loadedAt[q]
        BY <1>1
      <4>3. PICK items : items = loaded[q].group.items
        OBVIOUS
      <4>4. Seen(r, n, items)
        BY <4>1, <4>2, <4>3
      <4>5. Seen(r, n, items)'
        BY <3>1, <4>4, PastSeen DEF GroupInv
      <4> QED BY <1>1, <4>2, <4>3, <4>5 DEF Seen, Moved
    <3>2. CASE ~(Asked(r) /\ SameAsking(r))
      BY <2>1, <3>2
    <3> QED BY <3>1, <3>2
  <2> QED BY <1>1, <2>1 DEF CopySeen
<1> QED BY <1>2, <1>3 DEF CopySeen

LEMMA CopyFreshKept ==
  ASSUME GroupInv, NEW q \in Requests, CopyFresh(q), saves' = saves, stored' = stored,
         progress'[q] = progress[q], loaded'[q] = loaded[q], SameAsking(q), SameLoaded(q)
  PROVE  CopyFresh(q)'
BY DEF CopyFresh, SameAsking, SameLoaded, KeepsPlaces

LEMMA StoredKept ==
  ASSUME GroupInv, Past, saves' = saves, stored' = stored,
         \A r \in Requests : Asked(r)' =>
            (Asked(r) /\ SameAsking(r)) \/ Seen(r, Len(saves), stored.group.items)'
  PROVE  StoredInv'
<1>1. PICK n \in 0..Len(saves) : n = Len(saves) /\ n = Len(saves')
  BY DEF GroupInv, GroupTypes
<1>2. PICK held : held = stored /\ held = stored'
  OBVIOUS
<1>3. NotRepeated(stored.actions)'
  BY <1>2 DEF GroupInv, StoredInv, NotRepeated
<1>4. Includes(stored, Len(saves))'
  <2>1. Includes(held, n)
    BY <1>1, <1>2 DEF GroupInv, StoredInv
  <2>2. Includes(held, n)'
    BY <2>1, PastIncludes DEF GroupInv
  <2> QED BY <1>1, <1>2, <2>2 DEF Includes, Lost, HasAction, ActionId
<1>5. (\A i \in DOMAIN stored.actions : Saved(stored.actions[i]))'
  <2>1. \A i \in DOMAIN held.actions : Saved(held.actions[i])
    BY <1>2 DEF GroupInv, StoredInv
  <2>2. \A i \in DOMAIN held.actions : Saved(held.actions[i])'
    BY <2>1, PastSaved DEF GroupInv
  <2> QED BY <1>2, <2>2 DEF Saved, MadeBy, Moved, ActionId
<1>6. ASSUME NEW r \in Requests, Asked(r)'
      PROVE  Seen(r, Len(saves), stored.group.items)'
  <2>1. CASE Asked(r) /\ SameAsking(r)
    <3>1. PICK items : items = held.group.items
      OBVIOUS
    <3>2. Seen(r, n, items)
      BY <1>1, <1>2, <2>1, <3>1 DEF GroupInv, StoredInv
    <3>3. Seen(r, n, items)'
      BY <2>1, <3>2, PastSeen DEF GroupInv
    <3> QED BY <1>1, <1>2, <3>1, <3>3 DEF Seen, Moved
  <2>2. CASE ~(Asked(r) /\ SameAsking(r))
    BY <1>6, <2>2
  <2> QED BY <2>1, <2>2
<1> QED BY <1>3, <1>4, <1>5, <1>6 DEF StoredInv

LEMMA CopyKept ==
  ASSUME GroupInv, Past, NEW q \in Requests, saves' = saves, stored' = stored,
         progress'[q] = progress[q], loaded'[q] = loaded[q], SameAsking(q), SameLoaded(q),
         \A r \in Requests : Asked(r)' => Asked(r) /\ SameAsking(r)
  PROVE  CopyInv(q)'
<1> SUFFICES ASSUME progress[q] \in {"mutate", "save"}
             PROVE  CopyAlone(q)' /\ CopyFresh(q)' /\ CopySeen(q)'
  BY DEF CopyInv
<1>1. CopyAlone(q) /\ CopyFresh(q) /\ CopySeen(q)
  BY DEF GroupInv, CopyInv
<1>2. CopyAlone(q)' /\ CopyFresh(q)'
  BY <1>1, CopyAloneKept, CopyFreshKept
<1>3. CopySeen(q)'
  BY <1>1, CopySeenKept
<1> QED BY <1>2, <1>3

LEMMA AgreeingKept ==
  ASSUME GroupInv, \A r \in Requests : Asked(r)' => Asked(r) /\ SameAsking(r)
  PROVE  Agreeing'
BY DEF GroupInv, Agreeing, SameAsking

-----------------------------------------------------------------------------
(* Each step keeps the invariant.                                          *)

\* A step that neither asks nor saves keeps what was said of the saved group, and of
\* every copy that it leaves alone.
LEMMA QuietStep ==
  ASSUME GroupInv, saves' = saves, stored' = stored,
         intents' = intents, meant' = meant, listedAt' = listedAt,
         \A r \in Requests : Asked(r)' <=> Asked(r),
         \A r \in Requests : progress[r] \in {"publish", "cut", "done"} => SameLoaded(r)
  PROVE  /\ Past /\ Agreeing' /\ StoredInv'
         /\ \A q \in Requests :
              progress'[q] = progress[q] /\ loaded'[q] = loaded[q] /\ SameLoaded(q) => CopyInv(q)'
<1>1. \A r \in Requests : SameAsking(r)
  BY DEF SameAsking
<1>2. Past
  BY <1>1, PastHolds
<1>3. Agreeing'
  BY <1>1, AgreeingKept
<1>4. StoredInv'
  BY <1>1, <1>2, StoredKept
<1> QED BY <1>1, <1>2, <1>3, <1>4, CopyKept

LEMMA StoreKeeps ==
  ASSUME GroupInv, NEW r \in Requests, StoreGroupIntent(r) PROVE GroupInv'
<1>1. /\ progress \in [Requests -> Handling] /\ progress[r] = "accept"
      /\ answers \in [Requests -> Outcomes \cup {Null}]
      /\ progress' \in [Requests -> Handling] /\ progress'[r] \in {"load", "done"}
      /\ \A q \in Requests \ {r} : progress'[q] = progress[q]
  BY DEF GroupInv, GroupTypes, StoreGroupIntent, Answer, Handling
<1>2. /\ answers' \in [Requests -> Outcomes \cup {Null}]
      /\ answers'[r] \in {"accepted", "completed"} => answers[r] \in {"accepted", "completed"}
      /\ \A q \in Requests \ {r} : answers'[q] = answers[q]
  BY <1>1 DEF StoreGroupIntent, Answer, Outcomes
<1>3. progress'[r] = "load" => IsSafeInput(intents[r])
  BY <1>1 DEF StoreGroupIntent, Answer
<1>4. UNCHANGED <<stored, intents, meant, loaded, published, saves, listedAt, loadedAt>>
  BY DEF StoreGroupIntent
<1>5. \A q \in Requests : (Asked(q)' <=> Asked(q)) /\ SameLoaded(q)
  BY <1>1, <1>4 DEF Asked, SameLoaded
<1>6. Agreeing' /\ StoredInv' /\ \A q \in Requests \ {r} : CopyInv(q)'
  BY <1>1, <1>4, <1>5, QuietStep
<1>7. CopyInv(r)'
  BY <1>1 DEF CopyInv
<1>8. GroupTypes'
  BY <1>1, <1>2, <1>4 DEF GroupInv, GroupTypes
<1>9. Asking'
  <2>1. ASSUME NEW q \in Requests, progress'[q] \in {"load", "mutate", "save"}
        PROVE  IsSafeInput(intents[q])
    BY <1>1, <1>3, <2>1 DEF GroupInv, Asking
  <2> QED BY <1>1, <1>4, <1>5, <2>1 DEF GroupInv, Asking, IsSafeInput
<1>10. Saving'
  <2>1. \A i \in DOMAIN saves : saves[i] \in Requests /\ saves[i] # r
    <3>1. \A i \in DOMAIN saves : saves[i] \in Requests
      BY DEF GroupInv, GroupTypes
    <3>2. \A i \in DOMAIN saves : progress[saves[i]] # "accept"
      BY DEF GroupInv, Saving
    <3> QED BY <1>1, <3>1, <3>2
  <2>2. \A q \in Requests : answers[q] \in {"accepted", "completed"} => q # r
    BY <1>1 DEF GroupInv, Saving
  <2> QED BY <1>1, <1>2, <1>4, <2>1, <2>2 DEF GroupInv, Saving, ActionId
<1> QED BY <1>6, <1>7, <1>8, <1>9, <1>10 DEF GroupInv

LEMMA CrashKeeps ==
  ASSUME GroupInv, CrashGroups PROVE GroupInv'
<1>1. /\ progress \in [Requests -> Handling]
      /\ progress' \in [Requests -> Handling]
      /\ \A q \in Requests :
           \/ progress'[q] = progress[q] /\ progress[q] \in {"ask", "accept", "cut", "done"}
           \/ progress'[q] = "cut" /\ progress[q] \in {"load", "mutate", "save", "publish"}
  BY DEF GroupInv, GroupTypes, CrashGroups, InFlight, Handling
<1>2. UNCHANGED <<stored, intents, meant, loaded, answers, published, saves, listedAt, loadedAt>>
  BY DEF CrashGroups
<1>3. \A q \in Requests : (Asked(q)' <=> Asked(q)) /\ SameLoaded(q)
  BY <1>1, <1>2 DEF Asked, SameLoaded
<1>4. Agreeing' /\ StoredInv'
  BY <1>2, <1>3, QuietStep
<1>5. \A q \in Requests : CopyInv(q)'
  BY <1>1 DEF CopyInv
<1>6. GroupTypes'
  BY <1>1, <1>2 DEF GroupInv, GroupTypes
<1>7. Asking'
  BY <1>1, <1>2, <1>3 DEF GroupInv, Asking, IsSafeInput
<1>8. Saving'
  <2>1. \A i \in DOMAIN saves : saves[i] \in Requests
    BY DEF GroupInv, GroupTypes
  <2> QED BY <1>1, <1>2, <2>1 DEF GroupInv, Saving, ActionId
<1> QED BY <1>4, <1>5, <1>6, <1>7, <1>8 DEF GroupInv

LEMMA PublishKeeps ==
  ASSUME GroupInv, NEW r \in Requests, PublishGroup(r) PROVE GroupInv'
<1>1. /\ progress \in [Requests -> Handling] /\ progress[r] = "publish"
      /\ progress' \in [Requests -> Handling] /\ progress'[r] = "done"
      /\ answers \in [Requests -> Outcomes \cup {Null}]
      /\ \A q \in Requests \ {r} : progress'[q] = progress[q]
  BY DEF GroupInv, GroupTypes, PublishGroup, Answer, Handling
<1>2. /\ answers' \in [Requests -> Outcomes \cup {Null}]
      /\ \A q \in Requests \ {r} : answers'[q] = answers[q]
      /\ published \subseteq published'
      /\ r \in published' \/ answers'[r] = "failed_accepted"
  BY <1>1 DEF PublishGroup, Answer, Outcomes, Success
<1>3. UNCHANGED <<stored, intents, meant, loaded, saves, listedAt, loadedAt>>
  BY DEF PublishGroup
<1>4. \A q \in Requests : (Asked(q)' <=> Asked(q)) /\ SameLoaded(q)
  BY <1>1, <1>3 DEF Asked, SameLoaded
<1>5. Agreeing' /\ StoredInv' /\ \A q \in Requests \ {r} : CopyInv(q)'
  BY <1>1, <1>3, <1>4, QuietStep
<1>6. CopyInv(r)'
  BY <1>1 DEF CopyInv
<1>7. GroupTypes'
  BY <1>1, <1>2, <1>3 DEF GroupInv, GroupTypes
<1>8. Asking'
  BY <1>1, <1>3, <1>4 DEF GroupInv, Asking, IsSafeInput
<1>9. Saving'
  <2>1. PICK i \in DOMAIN saves : saves[i] = r
    BY <1>1 DEF GroupInv, Saving
  <2>2. \A j \in DOMAIN saves : saves[j] \in Requests
    BY DEF GroupInv, GroupTypes
  <2> QED BY <1>1, <1>2, <1>3, <2>1, <2>2 DEF GroupInv, Saving, ActionId
<1> QED BY <1>5, <1>6, <1>7, <1>8, <1>9 DEF GroupInv

LEMMA LoadKeeps ==
  ASSUME GroupInv, NEW r \in Requests, LoadGroup(r) PROVE GroupInv'
<1>1. /\ progress \in [Requests -> Handling] /\ progress[r] = "load"
      /\ answers \in [Requests -> Outcomes \cup {Null}]
      /\ progress' \in [Requests -> Handling] /\ progress'[r] \in {"mutate", "done"}
      /\ \A q \in Requests \ {r} : progress'[q] = progress[q]
  BY DEF GroupInv, GroupTypes, LoadGroup, Answer, Handling
<1>2. /\ answers' \in [Requests -> Outcomes \cup {Null}]
      /\ \A q \in Requests \ {r} : answers'[q] = answers[q]
  BY <1>1 DEF LoadGroup, Answer, Outcomes, Success
<1>3. UNCHANGED <<stored, intents, meant, published, saves, listedAt>>
  BY DEF LoadGroup
<1>4. /\ loaded'[r] = stored /\ DOMAIN loaded' = Requests
      /\ loadedAt'[r] = Len(saves) /\ loadedAt' \in [Requests -> Nat]
      /\ \A q \in Requests \ {r} : loaded'[q] = loaded[q] /\ loadedAt'[q] = loadedAt[q]
  BY DEF GroupInv, GroupTypes, LoadGroup
<1>5. \A q \in Requests : /\ Asked(q)' <=> Asked(q)
                          /\ q # r => SameLoaded(q)
  BY <1>1, <1>4 DEF Asked, SameLoaded
<1>6. Agreeing' /\ StoredInv' /\ \A q \in Requests \ {r} : CopyInv(q)'
  BY <1>1, <1>3, <1>4, <1>5, QuietStep
<1>7. GroupTypes'
  BY <1>1, <1>2, <1>3, <1>4 DEF GroupInv, GroupTypes
<1>8. Asking'
  <2>1. IsSafeInput(intents[r])
    BY <1>1 DEF GroupInv, Asking
  <2> QED BY <1>1, <1>3, <1>5, <2>1 DEF GroupInv, Asking, IsSafeInput
<1>9. Saving'
  <2>1. \A i \in DOMAIN saves : saves[i] \in Requests
    BY DEF GroupInv, GroupTypes
  <2>2. \A i \in DOMAIN saves : saves[i] # r
    BY <1>1 DEF GroupInv, Saving
  <2>3. \A q \in Requests : answers[q] \in {"accepted", "completed"} => q # r
    BY <1>1 DEF GroupInv, Saving
  <2>4. ASSUME answers'[r] \in {"accepted", "completed"}
        PROVE  progress'[r] = "done" /\ \E i \in DOMAIN saves : ActionId(saves[i]) = ActionId(r)
    <3>1. answers[r] # answers'[r]
      BY <2>3, <2>4
    <3>2. progress'[r] = "done" /\ HasAction(stored, ActionId(r))
      BY <1>1, <2>4, <3>1 DEF LoadGroup, Answer
    <3>3. PICK j \in DOMAIN stored.actions : stored.actions[j].id = ActionId(r)
      BY <3>2 DEF HasAction
    <3>4. Saved(stored.actions[j])
      BY <3>3 DEF GroupInv, StoredInv
    <3> QED BY <3>2, <3>3, <3>4 DEF Saved, MadeBy
  <2>5. Len(saves) \in Nat
    BY DEF GroupInv, GroupTypes
  <2>6. \A i \in DOMAIN saves :
          /\ progress'[saves[i]] \in {"publish", "cut", "done"} /\ loadedAt'[saves[i]] < i
          /\ progress'[saves[i]] = "done" =>
               saves[i] \in published \/ answers'[saves[i]] = "failed_accepted"
    BY <1>1, <1>2, <1>4, <2>1, <2>2 DEF GroupInv, Saving
  <2>7. \A q \in Requests :
          /\ progress'[q] = "publish" => \E i \in DOMAIN saves : saves[i] = q
          /\ loadedAt'[q] <= Len(saves)
          /\ answers'[q] \in {"accepted", "completed"} =>
               progress'[q] = "done" /\ \E i \in DOMAIN saves : ActionId(saves[i]) = ActionId(q)
    BY <1>1, <1>2, <1>4, <2>4, <2>5 DEF GroupInv, Saving
  <2> QED BY <1>3, <2>6, <2>7 DEF Saving, ActionId
<1>10. CopyInv(r)'
  <2> SUFFICES ASSUME progress'[r] = "mutate"
               PROVE  CopyAlone(r)' /\ CopyFresh(r)' /\ CopySeen(r)'
    BY <1>1 DEF CopyInv
  <2>1. ~HasAction(stored, ActionId(r))
    BY <1>1 DEF LoadGroup, Answer
  <2>2. ~HasAction(loaded[r], ActionId(r))'
    BY <1>3, <1>4, <2>1 DEF HasAction, ActionId
  <2>3. /\ NotRepeated(loaded[r].actions)' /\ Includes(loaded[r], loadedAt[r])'
        /\ (\A i \in DOMAIN loaded[r].actions : Saved(loaded[r].actions[i]))'
        /\ \A q \in Requests : Asked(q)' => Seen(q, loadedAt[r], loaded[r].group.items)'
    <3>1. loaded'[r] = stored' /\ loadedAt'[r] = Len(saves')
      BY <1>3, <1>4
    <3>2. NotRepeated(loaded[r].actions)'
      BY <1>6, <3>1 DEF StoredInv, NotRepeated
    <3>3. Includes(loaded[r], loadedAt[r])'
      BY <1>6, <3>1 DEF StoredInv, Includes, Lost, HasAction
    <3>4. (\A i \in DOMAIN loaded[r].actions : Saved(loaded[r].actions[i]))'
      BY <1>6, <3>1 DEF StoredInv, Saved, MadeBy
    <3>5. \A q \in Requests : Asked(q)' => Seen(q, loadedAt[r], loaded[r].group.items)'
      BY <1>6, <3>1 DEF StoredInv, Seen, Moved
    <3> QED BY <3>2, <3>3, <3>4, <3>5
  <2>4. IsGroup(loaded'[r].group) /\ loaded'[r].actions \in Seq(ActionRecords)
    BY <1>4 DEF GroupInv, GroupTypes
  <2>5. listedAt'[r] <= loadedAt'[r]
    BY <1>1, <1>3, <1>4 DEF GroupInv, Asking, Asked
  <2>6. CopyAlone(r)'
    BY <2>2, <2>3, <2>4, <2>5 DEF CopyAlone, IsGroup
  <2>7. CopyFresh(r)'
    BY <1>3, <1>4 DEF CopyFresh
  <2>8. CopySeen(r)'
    BY <2>3 DEF CopySeen
  <2> QED BY <2>6, <2>7, <2>8
<1> QED BY <1>6, <1>7, <1>8, <1>9, <1>10 DEF GroupInv

\* What is asked of the group as it is seen now.
LEMMA AskedNow ==
  ASSUME GroupInv, NEW body \in Bodies
  PROVE  /\ body \in Intents
         /\ body.kind = "add_member" => body.jid \in Persons
         /\ body.kind \in MemberKinds =>
              /\ body.at \in DOMAIN stored.group.items
              /\ stored.group.items[body.at].jid \in Persons
<1>1. stored.group.items \in Seq(MemberRecords)
  BY DEF GroupInv, GroupTypes, IsGroup
<1>2. \A i \in DOMAIN stored.group.items : i \in Nat /\ stored.group.items[i].jid \in Persons
  <2>1. \A i \in DOMAIN stored.group.items : i \in Nat /\ stored.group.items[i] \in MemberRecords
    BY <1>1
  <2> QED BY <2>1 DEF MemberRecords
<1>3. Newcomer \in Persons
  BY DEF Persons
<1>4. CASE body = Intent("metadata", << >>, Nobody, 0)
  BY <1>4 DEF Intent, Intents, Kinds, MemberKinds, Patches
<1>5. CASE body = Intent("add_member", << >>, Newcomer, 0)
  BY <1>3, <1>5 DEF Intent, Intents, Kinds, MemberKinds, Patches
<1>6. CASE \E flags \in Patches : body = Intent("local_state", flags, Nobody, 0)
  BY <1>6 DEF Intent, Intents, Kinds, MemberKinds
<1>7. CASE \E kind \in MemberKinds, i \in DOMAIN stored.group.items :
              body = Intent(kind, << >>, Nobody, i)
  BY <1>2, <1>7 DEF Intent, Intents, Kinds, MemberKinds, Patches
<1> QED BY <1>4, <1>5, <1>6, <1>7 DEF Bodies

LEMMA AskKeeps ==
  ASSUME GroupInv, NEW r \in Requests, AskGroup(r) PROVE GroupInv'
<1>1. /\ progress \in [Requests -> Handling] /\ progress[r] = "ask"
      /\ progress' \in [Requests -> Handling] /\ progress'[r] = "accept"
      /\ \A q \in Requests \ {r} : progress'[q] = progress[q]
  BY DEF GroupInv, GroupTypes, AskGroup, Handling
<1>2. UNCHANGED <<stored, loaded, answers, published, saves, loadedAt>>
  BY DEF AskGroup
<1>3. \A q \in Requests \ {r} : SameAsking(q)
  BY DEF GroupInv, GroupTypes, AskGroup, SameAsking
<1>4. \A q \in Requests : q # r => (Asked(q)' <=> Asked(q))
  BY <1>1 DEF Asked
<1>5. \A q \in Requests : SameLoaded(q)
  BY <1>2 DEF SameLoaded
<1>6. ~Asked(r) /\ Asked(r)'
  BY <1>1 DEF Asked
<1>7. Past
  BY <1>1, <1>2, <1>3, <1>5, PastHolds
<1>8. Len(saves) \in Nat /\ Len(saves') = Len(saves)
  BY <1>2 DEF GroupInv, GroupTypes
<1>9. /\ intents'[r] \in Intents /\ meant'[r] \in Persons \cup {Nobody} /\ listedAt'[r] \in Nat
      /\ intents'[r].kind = "add_member" => intents'[r].jid \in Persons
      /\ listedAt'[r] <= Len(saves)
      /\ \A q \in Requests : Asked(q) /\ KeyOf[q] = KeyOf[r] =>
            intents'[r] = intents[q] /\ meant'[r] = meant[q] /\ listedAt'[r] = listedAt[q]
      /\ Seen(r, Len(saves), stored.group.items)'
      /\ \A q \in Requests : progress[q] \in {"mutate", "save"} =>
           \/ progress[q] = "save" /\ intents[q].kind = "remove_member"
           \/ listedAt'[r] <= loadedAt[q] => Seen(r, loadedAt[q], loaded[q].group.items)'
  <2>1. CASE Repeats(r) # {}
    <3>1. PICK q \in Repeats(r) :
             intents'[r] = intents[q] /\ meant'[r] = meant[q] /\ listedAt'[r] = listedAt[q]
      BY <2>1 DEF AskGroup, GroupInv, GroupTypes
    <3>2. q \in Requests \ {r} /\ KeyOf[q] = KeyOf[r] /\ Asked(q)
      BY <3>1 DEF Repeats, GroupInv, Asking
    <3>3. intents[q] \in Intents /\ meant[q] \in Persons \cup {Nobody} /\ listedAt[q] \in Nat
      BY <3>1, <3>2 DEF GroupInv, GroupTypes, Repeats
    <3>4. /\ intents[q].kind = "add_member" => intents[q].jid \in Persons
          /\ listedAt[q] <= Len(saves)
      BY <3>2 DEF GroupInv, Asking
    <3>5. \A s \in Requests : Asked(s) /\ KeyOf[s] = KeyOf[r] =>
            intents'[r] = intents[s] /\ meant'[r] = meant[s] /\ listedAt'[r] = listedAt[s]
      BY <3>1, <3>2 DEF GroupInv, Agreeing
    <3>6. ASSUME NEW n \in 0..Len(saves), NEW items, Seen(q, n, items)
          PROVE  Seen(r, n, items)'
      <4>1. Seen(q, n, items)'
        BY <1>3, <1>7, <3>2, <3>6, PastSeen DEF GroupInv
      <4>2. intents'[r] = intents'[q] /\ meant'[r] = meant'[q] /\ listedAt'[r] = listedAt'[q]
        BY <1>3, <3>1, <3>2 DEF SameAsking
      <4> QED BY <4>1, <4>2 DEF Seen, Moved
    <3>7. Seen(r, Len(saves), stored.group.items)'
      <4>1. PICK n \in 0..Len(saves), items \in {stored.group.items} : n = Len(saves)
        BY <1>8
      <4>2. Seen(q, n, items)
        BY <3>2, <4>1 DEF GroupInv, StoredInv
      <4>3. Seen(r, n, items)'
        BY <3>6, <4>2
      <4> QED BY <1>2, <4>1, <4>3 DEF Seen, Moved
    <3>8. ASSUME NEW s \in Requests, progress[s] \in {"mutate", "save"},
                 ~(progress[s] = "save" /\ intents[s].kind = "remove_member"),
                 listedAt'[r] <= loadedAt[s]
          PROVE  Seen(r, loadedAt[s], loaded[s].group.items)'
      <4>1. CopySeen(s)
        BY <3>8 DEF GroupInv, CopyInv
      <4>2. Seen(q, loadedAt[s], loaded[s].group.items)
        BY <3>1, <3>2, <3>8, <4>1 DEF CopySeen
      <4>3. loadedAt[s] \in 0..Len(saves)
        BY <1>8 DEF GroupInv, GroupTypes, Saving
      <4>4. PICK n \in 0..Len(saves), items \in {loaded[s].group.items} : n = loadedAt[s]
        BY <4>3
      <4>5. Seen(r, n, items)'
        BY <3>6, <4>2, <4>4
      <4> QED BY <1>2, <4>4, <4>5 DEF Seen, Moved
    <3> QED BY <3>1, <3>3, <3>4, <3>5, <3>7, <3>8
  <2>2. CASE Repeats(r) = {}
    <3>1. PICK body \in Bodies :
            /\ intents' = [intents EXCEPT ![r] = body]
            /\ meant' = [meant EXCEPT ![r] = IF body.kind \in MemberKinds
                                             THEN stored.group.items[body.at].jid ELSE Nobody]
            /\ listedAt' = [listedAt EXCEPT ![r] = Len(saves)]
      BY <2>2 DEF AskGroup
    <3>2. /\ intents'[r] = body /\ listedAt'[r] = Len(saves)
          /\ meant'[r] = IF body.kind \in MemberKinds
                         THEN stored.group.items[body.at].jid ELSE Nobody
      BY <3>1 DEF GroupInv, GroupTypes
    <3>3. /\ body \in Intents
          /\ body.kind = "add_member" => body.jid \in Persons
          /\ body.kind \in MemberKinds =>
               /\ body.at \in DOMAIN stored.group.items
               /\ stored.group.items[body.at].jid \in Persons
      BY AskedNow
    <3>4. meant'[r] \in Persons \cup {Nobody}
      BY <3>2, <3>3
    <3>5. \A q \in Requests : ~(Asked(q) /\ KeyOf[q] = KeyOf[r])
      BY <1>6, <2>2 DEF Repeats, GroupInv, Asking
    <3>6. ASSUME NEW n, NEW items, KeepsPlaces(stored.group.items, items)
          PROVE  Seen(r, n, items)'
      BY <3>2, <3>3, <3>6 DEF Seen, KeepsPlaces
    <3>7. Seen(r, Len(saves), stored.group.items)'
      <4>1. PICK n, items : n = Len(saves) /\ items = stored.group.items
        OBVIOUS
      <4>2. KeepsPlaces(stored.group.items, items)
        BY <4>1 DEF KeepsPlaces
      <4>3. Seen(r, n, items)'
        BY <3>6, <4>2
      <4> QED BY <1>2, <4>1, <4>3 DEF Seen, Moved
    <3>8. ASSUME NEW s \in Requests, progress[s] \in {"mutate", "save"},
                 ~(progress[s] = "save" /\ intents[s].kind = "remove_member"),
                 listedAt'[r] <= loadedAt[s]
          PROVE  Seen(r, loadedAt[s], loaded[s].group.items)'
      <4>1. loadedAt[s] = Len(saves)
        BY <1>8, <3>2, <3>8 DEF GroupInv, GroupTypes, Saving
      <4>2. KeepsPlaces(stored.group.items, loaded[s].group.items)
        BY <3>8, <4>1 DEF GroupInv, CopyInv, CopyFresh, KeepsPlaces
      <4>3. PICK n, items : n = loadedAt[s] /\ items = loaded[s].group.items
        OBVIOUS
      <4>4. Seen(r, n, items)'
        BY <3>6, <4>2, <4>3
      <4> QED BY <1>2, <4>3, <4>4 DEF Seen, Moved
    <3> QED BY <1>8, <3>2, <3>3, <3>4, <3>5, <3>7, <3>8
  <2> QED BY <2>1, <2>2
<1>10. GroupTypes'
  <2>1. /\ intents' \in [Requests -> Intents \cup {Null}]
        /\ meant' \in [Requests -> Persons \cup {Nobody}] /\ listedAt' \in [Requests -> Nat]
    BY <1>9 DEF GroupInv, GroupTypes, AskGroup
  <2> QED BY <1>1, <1>2, <2>1 DEF GroupInv, GroupTypes
<1>11. Asking'
  <2>1. intents'[r] # Null
    BY <1>9, GroupSeed
  <2> QED BY <1>1, <1>2, <1>3, <1>4, <1>6, <1>9, <2>1 DEF GroupInv, Asking, SameAsking, IsSafeInput
<1>12. Agreeing'
  BY <1>3, <1>4, <1>9 DEF GroupInv, Agreeing, SameAsking
<1>13. Saving'
  <2>1. \A i \in DOMAIN saves : saves[i] \in Requests
    BY DEF GroupInv, GroupTypes
  <2>2. \A i \in DOMAIN saves : saves[i] # r
    BY <1>1 DEF GroupInv, Saving
  <2>3. \A q \in Requests : answers[q] \in {"accepted", "completed"} => q # r
    BY <1>1 DEF GroupInv, Saving
  <2>4. \A q \in Requests \ {r} : ActionId(q)' = ActionId(q)
    BY <1>3 DEF ActionId, SameAsking
  <2>5. \A i \in DOMAIN saves :
          /\ progress'[saves[i]] \in {"publish", "cut", "done"} /\ loadedAt'[saves[i]] < i
          /\ progress'[saves[i]] = "done" =>
               saves[i] \in published \/ answers'[saves[i]] = "failed_accepted"
    BY <1>1, <1>2, <2>1, <2>2 DEF GroupInv, Saving
  <2>6. \A q \in Requests :
          /\ progress'[q] = "publish" => \E i \in DOMAIN saves : saves[i] = q
          /\ loadedAt'[q] <= Len(saves)
          /\ answers'[q] \in {"accepted", "completed"} =>
               progress'[q] = "done" /\ \E i \in DOMAIN saves : ActionId(saves[i])' = ActionId(q)'
    BY <1>1, <1>2, <2>1, <2>2, <2>3, <2>4 DEF GroupInv, Saving
  <2> QED BY <1>2, <2>5, <2>6 DEF Saving, ActionId
<1>14. StoredInv'
  BY <1>2, <1>3, <1>4, <1>7, <1>9, StoredKept
<1>15. ASSUME NEW q \in Requests PROVE CopyInv(q)'
  <2> SUFFICES ASSUME progress'[q] \in {"mutate", "save"}
               PROVE  CopyAlone(q)' /\ CopyFresh(q)' /\ CopySeen(q)'
    BY DEF CopyInv
  <2>1. q # r /\ progress'[q] = progress[q]
    BY <1>1
  <2>2. CopyAlone(q) /\ CopyFresh(q) /\ CopySeen(q)
    BY <2>1 DEF GroupInv, CopyInv
  <2>3. SameAsking(q) /\ SameLoaded(q) /\ loaded'[q] = loaded[q]
    BY <1>2, <1>3, <1>5, <2>1
  <2>4. CopyAlone(q)' /\ CopyFresh(q)'
    BY <1>2, <1>7, <2>1, <2>2, <2>3, CopyAloneKept, CopyFreshKept
  <2>5. CopySeen(q)'
    <3>1. CASE progress[q] = "save" /\ intents[q].kind = "remove_member"
      BY <2>1, <2>3, <3>1 DEF CopySeen, SameAsking
    <3>2. CASE ~(progress[q] = "save" /\ intents[q].kind = "remove_member")
      <4>1. \A s \in Requests : Asked(s)' =>
              \/ Asked(s) /\ SameAsking(s)
              \/ listedAt'[s] <= loadedAt[q] => Seen(s, loadedAt[q], loaded[q].group.items)'
        BY <1>3, <1>4, <1>9, <2>1, <3>2
      <4> QED BY <1>7, <2>1, <2>2, <2>3, <4>1, CopySeenKept
    <3> QED BY <3>1, <3>2
  <2> QED BY <2>4, <2>5
<1> QED BY <1>10, <1>11, <1>12, <1>13, <1>14, <1>15 DEF GroupInv

LEMMA AppendedActions ==
  ASSUME NEW old \in Seq(ActionRecords), NEW new \in Seq(ActionRecords)
  PROVE  /\ old \o new \in Seq(ActionRecords)
         /\ \A i \in DOMAIN old : i \in DOMAIN (old \o new) /\ (old \o new)[i] = old[i]
         /\ \A i \in DOMAIN (old \o new) :
              \/ i \in DOMAIN old
              \/ i - Len(old) \in DOMAIN new /\ (old \o new)[i] = new[i - Len(old)]
         /\ \A i \in DOMAIN new :
              Len(old) + i \in DOMAIN (old \o new) /\ (old \o new)[Len(old) + i] = new[i]
OBVIOUS

LEMMA AppendedOnce ==
  ASSUME NEW old \in Seq(ActionRecords), NEW new \in Seq(ActionRecords), NEW id,
         NotRepeated(old), NotRepeated(new),
         \A i \in DOMAIN old : old[i].id # id, \A i \in DOMAIN new : new[i].id = id
  PROVE  NotRepeated(old \o new)
<1> DEFINE all == old \o new
<1>1. /\ Len(old) \in Nat
      /\ DOMAIN all \subseteq Int
      /\ \A i \in DOMAIN old : i \in DOMAIN all /\ all[i] = old[i]
      /\ \A i \in DOMAIN all :
           i \in DOMAIN old \/ (i - Len(old) \in DOMAIN new /\ all[i] = new[i - Len(old)])
  OBVIOUS
<1> HIDE DEF all
<1>2. ASSUME NEW i \in DOMAIN all, NEW j \in DOMAIN all, all[i] = all[j]
      PROVE  i = j
  <2>1. CASE i \in DOMAIN old /\ j \in DOMAIN old
    BY <1>1, <1>2, <2>1 DEF NotRepeated
  <2>2. CASE i \notin DOMAIN old /\ j \notin DOMAIN old
    <3>1. i - Len(old) = j - Len(old)
      BY <1>1, <1>2, <2>2 DEF NotRepeated
    <3> QED BY <1>1, <3>1
  <2>3. CASE (i \in DOMAIN old) # (j \in DOMAIN old)
    BY <1>1, <1>2, <2>3
  <2> QED BY <2>1, <2>2, <2>3
<1> QED BY <1>2 DEF NotRepeated, all

LEMMA MutateKeeps ==
  ASSUME GroupInv, NEW r \in Requests, MutateGroup(r) PROVE GroupInv'
<1> DEFINE changed == ApplyGroupMutation(loaded[r].group, intents[r])
           new == NewActions(loaded[r].group, intents[r], ActionId(r))
           old == loaded[r].actions
<1>1. /\ progress \in [Requests -> Handling] /\ progress[r] = "mutate"
      /\ answers \in [Requests -> Outcomes \cup {Null}]
      /\ progress' \in [Requests -> Handling] /\ progress'[r] \in {"save", "done"}
      /\ \A q \in Requests \ {r} : progress'[q] = progress[q]
  BY DEF GroupInv, GroupTypes, MutateGroup, Answer, Handling
<1>2. /\ answers' \in [Requests -> Outcomes \cup {Null}]
      /\ answers'[r] \in {"accepted", "completed"} => answers[r] \in {"accepted", "completed"}
      /\ \A q \in Requests \ {r} : answers'[q] = answers[q]
  BY <1>1 DEF MutateGroup, Answer, Outcomes
<1>3. UNCHANGED <<stored, intents, meant, published, saves, listedAt, loadedAt>>
  BY DEF MutateGroup
<1>4. /\ DOMAIN loaded' = Requests
      /\ \A q \in Requests \ {r} : loaded'[q] = loaded[q]
      /\ progress'[r] = "save" =>
           changed # Throws /\ loaded'[r] = [group |-> changed, actions |-> old \o new]
  BY <1>1 DEF GroupInv, GroupTypes, MutateGroup, Answer
<1> HIDE DEF changed, new, old
<1>5. \A q \in Requests : (Asked(q)' <=> Asked(q)) /\ SameLoaded(q) /\ SameAsking(q)
  BY <1>1, <1>3 DEF Asked, SameLoaded, SameAsking
<1>6. Past /\ Agreeing' /\ StoredInv' /\ \A q \in Requests \ {r} : CopyInv(q)'
  BY <1>1, <1>3, <1>4, <1>5, QuietStep
<1>7. GroupTypes'
  BY <1>1, <1>2, <1>3, <1>4 DEF GroupInv, GroupTypes
<1>8. Asking'
  <2>1. IsSafeInput(intents[r])
    BY <1>1 DEF GroupInv, Asking
  <2> QED BY <1>1, <1>3, <1>5, <2>1 DEF GroupInv, Asking, IsSafeInput
<1>9. Saving'
  <2>1. \A i \in DOMAIN saves : saves[i] \in Requests
    BY DEF GroupInv, GroupTypes
  <2>2. \A i \in DOMAIN saves : saves[i] # r
    BY <1>1 DEF GroupInv, Saving
  <2>3. \A q \in Requests : answers[q] \in {"accepted", "completed"} => q # r
    BY <1>1 DEF GroupInv, Saving
  <2> QED BY <1>1, <1>2, <1>3, <2>1, <2>2, <2>3 DEF GroupInv, Saving, ActionId
<1>10. CopyInv(r)'
  <2> SUFFICES ASSUME progress'[r] = "save"
               PROVE  CopyAlone(r)' /\ CopyFresh(r)' /\ CopySeen(r)'
    BY <1>1 DEF CopyInv
  <2>1. CopyAlone(r) /\ CopyFresh(r) /\ CopySeen(r)
    BY <1>1 DEF GroupInv, CopyInv
  <2>2. PICK g, intent, id :
           g = loaded[r].group /\ intent = intents[r] /\ id = ActionId(r)
    OBVIOUS
  <2>3. /\ IsGroup(g) /\ old \in Seq(ActionRecords) /\ NotRepeated(old)
        /\ \A i \in DOMAIN old : old[i].id # id
    BY <1>1, <2>1, <2>2 DEF CopyAlone, HasAction, old
  <2>4. /\ intent \in Intents /\ IsSafeInput(intent)
        /\ intent.kind = "add_member" => intent.jid \in Persons
        /\ id \in Kinds \X {KeyOf[s] : s \in Requests}
    <3>1. intent \in Intents
      BY <1>1, <2>2 DEF GroupInv, GroupTypes, Asking, Asked
    <3>2. id = <<intent.kind, KeyOf[r]>> /\ intent.kind \in Kinds
      BY <2>2, <3>1 DEF ActionId, Intents
    <3> QED BY <1>1, <2>2, <3>1, <3>2 DEF GroupInv, Asking, Asked
  <2>5. /\ IsGroup(changed)
        /\ intent.kind = "remove_member" \/ KeepsPlaces(g.items, changed.items)
        /\ intent.kind \in MemberKinds => intent.at \in DOMAIN g.items
    BY <1>4, <2>2, <2>3, <2>4, MutationKeepsPlaces DEF changed
  <2>6. /\ new \in Seq(ActionRecords) /\ new # << >> /\ NotRepeated(new)
        /\ \A i \in DOMAIN new :
             /\ new[i].id = id
             /\ new[i].kind \in MemberKinds =>
                  /\ intent.kind \in MemberKinds
                  /\ new[i].jid = ResolveExistingMemberJid(g, intent.at)
    BY <2>2, <2>3, <2>4, NewActionsAre DEF new
  <2>7. PICK all : all = old \o new
    OBVIOUS
  <2>8. all \in Seq(ActionRecords) /\ NotRepeated(all)
    BY <2>3, <2>6, <2>7, AppendedActions, AppendedOnce
  <2>9. loaded'[r].group = changed /\ loaded'[r].actions = all
    BY <1>4, <2>7
  <2>10. \A i \in DOMAIN old : i \in DOMAIN all /\ all[i] = old[i]
    BY <2>3, <2>6, <2>7, AppendedActions
  <2>11. \E i \in DOMAIN all : all[i].id = id
    <3>1. 1 \in DOMAIN new
      BY <2>6
    <3>2. Len(old) + 1 \in DOMAIN all /\ all[Len(old) + 1] = new[1]
      BY <2>3, <2>6, <2>7, <3>1, AppendedActions
    <3> QED BY <2>6, <3>1, <3>2
  <2>12. PICK n \in 0..Len(saves) : n = loadedAt[r] /\ n = loadedAt'[r]
    BY <1>3 DEF GroupInv, GroupTypes, Saving
  <2>13. listedAt[r] <= n /\ Asked(r)
    BY <1>1, <2>1, <2>12 DEF CopyAlone, Asked
  <2>14. \A q \in Requests : Asked(q) /\ listedAt[q] <= n => Seen(q, n, g.items)
    BY <1>1, <2>1, <2>2, <2>12 DEF CopySeen
  <2>15. ASSUME NEW i \in DOMAIN new, NEW entry, entry = new[i]
         PROVE  MadeBy(entry, r)'
    <3>2. Seen(r, n, g.items)
      BY <2>13, <2>14
    <3>3. MadeBy(entry, r)
      BY <2>2, <2>5, <2>6, <2>12, <2>15, <3>2
      DEF MadeBy, Seen, ResolveExistingMemberJid
    <3>4. MadeBy(entry, r)'
      BY <1>5, <1>6, <2>12, <3>3, PastMadeBy DEF GroupInv, Saving
    <3> QED BY <3>4
  <2>16. CopyAlone(r)'
    <3>1. IsGroup(loaded[r].group)' /\ loaded'[r].actions \in Seq(ActionRecords)
          /\ NotRepeated(loaded[r].actions)' /\ listedAt'[r] <= loadedAt'[r]
      BY <1>3, <2>5, <2>8, <2>9, <2>12, <2>13 DEF IsGroup, NotRepeated
    <3>2. Includes(loaded[r], loadedAt[r])'
      <4>1. PICK copy : copy = loaded[r]
        OBVIOUS
      <4>2. Includes(copy, n)'
        BY <1>6, <2>1, <2>12, <4>1, PastIncludes DEF CopyAlone, GroupInv
      <4>3. \A x : HasAction(copy, x) => HasAction(loaded'[r], x)
        BY <2>9, <2>10, <4>1 DEF HasAction, old
      <4> QED BY <2>12, <4>2, <4>3 DEF Includes, Lost
    <3>3. ASSUME NEW i \in DOMAIN all PROVE Saved(all[i])' \/ MadeBy(all[i], r)'
      <4>1. PICK entry : entry = all[i]
        OBVIOUS
      <4>2. CASE i \in DOMAIN old
        <5>1. entry = old[i]
          BY <2>10, <4>1, <4>2
        <5>2. Saved(entry)
          BY <1>1, <2>1, <4>2, <5>1 DEF CopyAlone, old
        <5>3. Saved(entry)'
          BY <1>6, <5>2, PastSaved DEF GroupInv
        <5> QED BY <4>1, <5>3
      <4>3. CASE i \notin DOMAIN old
        <5>1. i - Len(old) \in DOMAIN new /\ all[i] = new[i - Len(old)]
          BY <2>3, <2>6, <2>7, <4>3, AppendedActions
        <5>2. MadeBy(entry, r)'
          BY <2>15, <4>1, <5>1
        <5> QED BY <4>1, <5>2
      <4> QED BY <4>2, <4>3
    <3>4. HasAction(loaded[r], ActionId(r))'
      BY <1>3, <2>2, <2>9, <2>11 DEF HasAction, ActionId
    <3> QED BY <2>9, <3>1, <3>2, <3>3, <3>4 DEF CopyAlone
  <2>17. CopyFresh(r)'
    <3>1. n = Len(saves) => g = stored.group
      BY <1>1, <2>1, <2>2, <2>12 DEF CopyFresh
    <3> QED BY <1>3, <2>2, <2>5, <2>9, <2>12, <3>1 DEF CopyFresh, KeepsPlaces
  <2>18. CopySeen(r)'
    <3>1. CASE intent.kind = "remove_member"
      BY <1>3, <2>2, <3>1 DEF CopySeen
    <3>2. CASE KeepsPlaces(g.items, changed.items)
      <4>1. ASSUME NEW q \in Requests, Asked(q)', listedAt'[q] <= loadedAt'[r]
            PROVE  Seen(q, loadedAt[r], loaded[r].group.items)'
        <5>1. Seen(q, n, g.items)
          BY <1>3, <1>5, <2>12, <2>14, <4>1
        <5>2. Seen(q, n, changed.items)
          BY <3>2, <5>1 DEF Seen, KeepsPlaces
        <5>3. PICK items : items = changed.items
          OBVIOUS
        <5>4. Seen(q, n, items)'
          BY <1>5, <1>6, <5>2, <5>3, PastSeen DEF GroupInv
        <5> QED BY <2>9, <2>12, <5>3, <5>4 DEF Seen, Moved
      <4> QED BY <4>1 DEF CopySeen
    <3> QED BY <2>5, <3>1, <3>2
  <2> QED BY <2>16, <2>17, <2>18
<1> QED BY <1>6, <1>7, <1>8, <1>9, <1>10 DEF GroupInv

LEMMA SaveKeeps ==
  ASSUME GroupInv, NEW r \in Requests, SaveGroup(r) PROVE GroupInv'
<1>1. /\ progress \in [Requests -> Handling] /\ progress[r] = "save"
      /\ progress' \in [Requests -> Handling] /\ progress'[r] = "publish"
      /\ \A q \in Requests \ {r} : progress'[q] = progress[q]
  BY DEF GroupInv, GroupTypes, SaveGroup, Handling
<1>2. UNCHANGED <<intents, meant, loaded, answers, published, listedAt, loadedAt>>
      /\ stored' = loaded[r] /\ saves' = Append(saves, r)
  BY DEF SaveGroup
<1>3. \A q \in Requests : (Asked(q)' <=> Asked(q)) /\ SameAsking(q) /\ SameLoaded(q)
  BY <1>1, <1>2 DEF Asked, SameAsking, SameLoaded
<1>4. Past
  BY <1>2, <1>3, PastHolds
<1>5. PICK n \in Nat : /\ n = Len(saves) /\ Len(saves') = n + 1
                       /\ DOMAIN saves = 1..n /\ DOMAIN saves' = 1..(n + 1)
                       /\ \A i \in 1..n : saves[i] \in Requests /\ saves'[i] = saves[i]
                       /\ saves'[n + 1] = r /\ saves' \in Seq(Requests)
  <2>1. saves \in Seq(Requests) /\ Len(saves) \in Nat
    BY DEF GroupInv, GroupTypes
  <2>2. /\ Len(saves') = Len(saves) + 1
        /\ DOMAIN saves = 1..Len(saves) /\ DOMAIN saves' = 1..(Len(saves) + 1)
        /\ \A i \in 1..Len(saves) : saves[i] \in Requests /\ saves'[i] = saves[i]
        /\ saves'[Len(saves) + 1] = r /\ saves' \in Seq(Requests)
    BY <1>2, <2>1
  <2> QED BY <2>1, <2>2
<1>6. CopyAlone(r) /\ CopyFresh(r) /\ CopySeen(r)
  BY <1>1 DEF GroupInv, CopyInv
<1>7. PICK m \in 0..n : m = loadedAt[r] /\ m = loadedAt'[r]
  BY <1>2, <1>5 DEF GroupInv, GroupTypes, Saving
<1>8. GroupTypes'
  <2>1. IsGroup(stored'.group) /\ stored'.actions \in Seq(ActionRecords)
    BY <1>2, <1>6 DEF CopyAlone
  <2> QED BY <1>1, <1>2, <1>5, <2>1 DEF GroupInv, GroupTypes, IsGroup
<1>9. Asking'
  BY <1>1, <1>2, <1>3, <1>5 DEF GroupInv, GroupTypes, Asking, IsSafeInput
<1>10. Agreeing'
  BY <1>3, AgreeingKept
<1>11. Saving'
  <2>1. \A i \in 1..n :
          /\ progress'[saves[i]] \in {"publish", "cut", "done"} /\ loadedAt'[saves[i]] < i
          /\ progress'[saves[i]] = "done" =>
               saves[i] \in published' \/ answers'[saves[i]] = "failed_accepted"
    BY <1>1, <1>2, <1>5 DEF GroupInv, Saving
  <2>2. \A i \in DOMAIN saves' :
          /\ progress'[saves'[i]] \in {"publish", "cut", "done"} /\ loadedAt'[saves'[i]] < i
          /\ progress'[saves'[i]] = "done" =>
               saves'[i] \in published' \/ answers'[saves'[i]] = "failed_accepted"
    <3> TAKE i \in DOMAIN saves'
    <3>1. CASE i \in 1..n
      BY <1>5, <2>1, <3>1
    <3>2. CASE i = n + 1
      BY <1>1, <1>5, <1>7, <3>2
    <3> QED BY <1>5, <3>1, <3>2
  <2>3. \A i \in 1..n : i \in DOMAIN saves' /\ n + 1 \in DOMAIN saves'
    BY <1>5
  <2>4. ASSUME NEW q \in Requests
        PROVE  /\ progress'[q] = "publish" => \E i \in DOMAIN saves' : saves'[i] = q
               /\ loadedAt'[q] <= Len(saves')
               /\ answers'[q] \in {"accepted", "completed"} =>
                    /\ progress'[q] = "done"
                    /\ \E i \in DOMAIN saves' : ActionId(saves[i])' = ActionId(q)'
    <3>1. loadedAt'[q] <= Len(saves')
      BY <1>2, <1>5 DEF GroupInv, GroupTypes, Saving
    <3>2. progress'[q] = "publish" => \E i \in DOMAIN saves' : saves'[i] = q
      <4>1. CASE q = r
        BY <1>5, <4>1
      <4>2. CASE q # r
        BY <1>1, <1>5, <2>3, <4>2 DEF GroupInv, Saving
      <4> QED BY <4>1, <4>2
    <3>3. ASSUME answers'[q] \in {"accepted", "completed"}
          PROVE  /\ progress'[q] = "done"
                 /\ \E i \in DOMAIN saves' : ActionId(saves[i])' = ActionId(q)'
      <4>1. PICK i \in 1..n : progress[q] = "done" /\ ActionId(saves[i]) = ActionId(q)
        BY <1>2, <1>5, <3>3 DEF GroupInv, Saving
      <4>2. i \in DOMAIN saves' /\ saves'[i] = saves[i]
        BY <1>5, <2>3
      <4> QED BY <1>1, <1>2, <4>1, <4>2 DEF ActionId
    <3> QED BY <3>1, <3>2, <3>3
  <2> QED BY <2>2, <2>4 DEF Saving
<1>12. StoredInv'
  <2>1. NotRepeated(stored.actions)'
    BY <1>2, <1>6 DEF CopyAlone, NotRepeated
  <2>2. Includes(stored, Len(saves))'
    <3>1. PICK copy : copy = loaded[r] /\ copy = stored'
      BY <1>2
    <3>2. Includes(copy, m)'
      BY <1>4, <1>5, <1>6, <1>7, <3>1, PastIncludes DEF CopyAlone, GroupInv
    <3>3. HasAction(copy, ActionId(r)')
      BY <1>1, <1>2, <1>6, <3>1 DEF CopyAlone, ActionId
    <3>4. ASSUME NEW i \in 1..(n + 1)
          PROVE  HasAction(copy, ActionId(saves[i])') \/ Lost(i, n + 1)'
      <4>1. CASE i <= m
        <5>1. HasAction(copy, ActionId(saves[i])') \/ Lost(i, m)'
          BY <3>2, <4>1 DEF Includes, HasAction
        <5>2. Lost(i, m)' => Lost(i, n + 1)'
          <6>1. (i + 1)..m \subseteq (i + 1)..(n + 1)
            OBVIOUS
          <6> QED BY <6>1 DEF Lost
        <5> QED BY <5>1, <5>2
      <4>2. CASE m < i /\ i <= n
        <5>1. n + 1 \in (i + 1)..(n + 1) /\ loadedAt'[saves'[n + 1]] < i
          BY <1>5, <1>7, <4>2
        <5> QED BY <5>1 DEF Lost
      <4>3. CASE i = n + 1
        BY <1>5, <3>3, <4>3 DEF ActionId
      <4> QED BY <4>1, <4>2, <4>3
    <3> QED BY <1>5, <3>1, <3>4 DEF Includes, HasAction, Lost
  <2>3. ASSUME NEW i \in DOMAIN loaded[r].actions PROVE Saved(loaded[r].actions[i])'
    <3>1. PICK entry : entry = loaded[r].actions[i]
      OBVIOUS
    <3>2. Saved(entry) \/ MadeBy(entry, r)
      BY <1>6, <3>1 DEF CopyAlone
    <3>3. Saved(entry) => Saved(entry)'
      BY <1>4, PastSaved DEF GroupInv
    <3>4. ASSUME MadeBy(entry, r) PROVE Saved(entry)'
      <4>0. loadedAt[r] <= Len(saves)
        BY <1>5, <1>7
      <4>1. MadeBy(entry, r)'
        BY <1>3, <1>4, <3>4, <4>0, PastMadeBy DEF GroupInv
      <4>2. n + 1 \in DOMAIN saves' /\ saves'[n + 1] = r
        BY <1>5
      <4> QED BY <4>1, <4>2 DEF Saved, MadeBy, ActionId, Moved
    <3>5. Saved(entry)'
      BY <3>2, <3>3, <3>4
    <3> QED BY <1>2, <3>1, <3>5 DEF Saved, MadeBy, Moved, ActionId
  <2>4. ASSUME NEW q \in Requests, Asked(q)'
        PROVE  Seen(q, Len(saves), stored.group.items)'
    <3> SUFFICES ASSUME intents[q].kind \in MemberKinds
                 PROVE  Seen(q, Len(saves), stored.group.items)'
      BY <1>2 DEF Seen
    <3>1. Asked(q) /\ listedAt[q] \in Nat /\ listedAt[q] <= n /\ listedAt'[q] = listedAt[q]
      BY <1>2, <1>3, <1>5, <2>4 DEF GroupInv, GroupTypes, Asking
    <3>2. n + 1 \in (listedAt'[q] + 1)..(n + 1) /\ saves'[n + 1] = r /\ Len(saves') = n + 1
      BY <1>5, <3>1
    <3>3. CASE intents[r].kind = "remove_member" \/ m < n
      <4>1. intents'[r].kind = "remove_member" \/ loadedAt'[r] < (n + 1) - 1
        BY <1>2, <1>7, <3>3
      <4>2. Moved(q, n + 1)'
        BY <3>2, <4>1 DEF Moved
      <4> QED BY <3>2, <4>2 DEF Seen, Moved
    <3>4. CASE intents[r].kind # "remove_member" /\ m = n
      <4>1. PICK items : items = loaded[r].group.items /\ items = stored'.group.items
        BY <1>2
      <4>2. Seen(q, n, items)
        BY <1>6, <1>7, <3>1, <3>4, <4>1 DEF CopySeen
      <4>3. Seen(q, n, items)'
        BY <1>3, <1>4, <1>5, <4>2, PastSeen DEF GroupInv
      <4>4. Moved(q, n)' => Moved(q, n + 1)'
        <5>1. (listedAt'[q] + 1)..n \subseteq (listedAt'[q] + 1)..(n + 1)
          BY <3>1
        <5> QED BY <5>1 DEF Moved
      <4>5. Seen(q, n + 1, items)'
        BY <4>3, <4>4 DEF Seen
      <4> QED BY <3>2, <4>1, <4>5 DEF Seen, Moved
    <3> QED BY <1>7, <3>3, <3>4
  <2>5. (\A i \in DOMAIN stored.actions : Saved(stored.actions[i]))'
    BY <1>2, <2>3 DEF Saved, MadeBy, Moved, ActionId
  <2> QED BY <2>1, <2>2, <2>4, <2>5 DEF StoredInv
<1>13. ASSUME NEW q \in Requests PROVE CopyInv(q)'
  <2> SUFFICES ASSUME progress'[q] \in {"mutate", "save"}
               PROVE  CopyAlone(q)' /\ CopyFresh(q)' /\ CopySeen(q)'
    BY DEF CopyInv
  <2>1. q # r /\ progress'[q] = progress[q] /\ loaded'[q] = loaded[q]
    BY <1>1, <1>2
  <2>2. CopyAlone(q) /\ CopySeen(q)
    BY <2>1 DEF GroupInv, CopyInv
  <2>3. CopyAlone(q)'
    BY <1>3, <1>4, <2>1, <2>2, CopyAloneKept
  <2>4. CopySeen(q)'
    BY <1>3, <1>4, <2>1, <2>2, CopySeenKept
  <2>5. loadedAt'[q] # Len(saves')
    BY <1>2, <1>5 DEF GroupInv, GroupTypes, Saving
  <2> QED BY <2>3, <2>4, <2>5 DEF CopyFresh
<1> QED BY <1>8, <1>9, <1>10, <1>11, <1>12, <1>13 DEF GroupInv

-----------------------------------------------------------------------------
(* Groups change as told.                                                  *)

LEMMA GroupInvariant == GroupSpec => []GroupInv
<1>1. GroupInv /\ [GroupNext]_groupVars => GroupInv'
  <2> SUFFICES ASSUME GroupInv, [GroupNext]_groupVars PROVE GroupInv'
    OBVIOUS
  <2>1. CASE UNCHANGED groupVars
    <3>1. \A q \in Requests : SameAsking(q) /\ SameLoaded(q) /\ (Asked(q)' <=> Asked(q))
      BY <2>1 DEF groupVars, SameAsking, SameLoaded, Asked
    <3>2. Past /\ Agreeing' /\ StoredInv' /\ \A q \in Requests : CopyInv(q)'
      BY <2>1, <3>1, QuietStep DEF groupVars
    <3>3. GroupTypes' /\ Asking' /\ Saving'
      BY <2>1, <3>1
      DEF groupVars, GroupInv, GroupTypes, IsGroup, Asking, IsSafeInput, Saving, ActionId
    <3> QED BY <3>2, <3>3 DEF GroupInv
  <2>2. CASE CrashGroups
    BY <2>2, CrashKeeps
  <2>3. ASSUME NEW r \in Requests,
               \/ AskGroup(r) \/ StoreGroupIntent(r) \/ LoadGroup(r)
               \/ MutateGroup(r) \/ SaveGroup(r) \/ PublishGroup(r)
        PROVE  GroupInv'
    BY <2>3, AskKeeps, StoreKeeps, LoadKeeps, MutateKeeps, SaveKeeps, PublishKeeps
  <2> QED BY <2>1, <2>2, <2>3 DEF GroupNext
<1> QED BY GroupInitHolds, <1>1, PTL DEF GroupSpec

\* However many requests change a group at once, repeat one another or are cut off: the
\* group holds each change once, and every change not overwritten; whom a change was made
\* to is who its client was shown, unless a member was removed or a save lost in between;
\* and who is told of a change is told of one that was saved (GroupMutationHandler.handle).
THEOREM GroupsAreAsTold == GroupSpec => []GroupsChangeAsTold
<1>1. GroupInv => GroupsChangeAsTold
  <2> SUFFICES ASSUME GroupInv PROVE GroupsChangeAsTold
    OBVIOUS
  <2>1. AppliedOnce
    <3>1. DOMAIN saves = 1..Len(saves)
      BY DEF GroupInv, GroupTypes
    <3> QED BY <3>1 DEF GroupInv, StoredInv, NotRepeated, Includes, Lost, AppliedOnce, Overwritten
  <2>2. ASSUME NEW r \in Requests, answers[r] \in {"accepted", "completed"}
        PROVE  /\ SavesOf(ActionId(r)) # {}
               /\ \E q \in Requests :
                    /\ intents[q] # Null /\ ActionId(q) = ActionId(r)
                    /\ \/ q \in published \/ progress[q] \in {"cut", "publish"}
                       \/ answers[q] = "failed_accepted"
    <3>1. PICK i \in DOMAIN saves : ActionId(saves[i]) = ActionId(r)
      BY <2>2 DEF GroupInv, Saving
    <3>2. SavesOf(ActionId(r)) # {}
      BY <3>1 DEF SavesOf
    <3>3. PICK q \in Requests : q = saves[i]
      BY <3>1 DEF GroupInv, GroupTypes
    <3>4. progress[q] \in {"publish", "cut", "done"}
          /\ (progress[q] = "done" => q \in published \/ answers[q] = "failed_accepted")
      BY <3>1, <3>3 DEF GroupInv, Saving
    <3>5. intents[q] # Null
      BY <3>4 DEF GroupInv, Asking, Asked
    <3> QED BY <3>1, <3>2, <3>3, <3>4, <3>5
  <2>3. ToldIsDone
    BY <2>1, <2>2 DEF ToldIsDone
  <2>4. ASSUME NEW i \in DOMAIN stored.actions, NEW r \in Requests,
               intents[r] # Null, stored.actions[i].id = ActionId(r),
               stored.actions[i].kind \in MemberKinds
        PROVE  \/ stored.actions[i].jid = meant[r]
               \/ \E k \in SavesOf(stored.actions[i].id) : Moved(saves[k], loadedAt[saves[k]])
    <3>1. PICK k \in DOMAIN saves : MadeBy(stored.actions[i], saves[k])
      BY DEF GroupInv, StoredInv, Saved
    <3>2. PICK q \in Requests : q = saves[k]
      BY <3>1 DEF GroupInv, GroupTypes
    <3>3. ActionId(q) = ActionId(r) /\ k \in SavesOf(stored.actions[i].id)
      BY <2>4, <3>1, <3>2 DEF MadeBy, SavesOf
    <3>4. KeyOf[q] = KeyOf[r] /\ Asked(q) /\ Asked(r)
      BY <2>4, <3>1, <3>2, <3>3 DEF ActionId, GroupInv, Asking, Saving, Asked
    <3>5. meant[q] = meant[r]
      BY <3>4 DEF GroupInv, Agreeing
    <3> QED BY <2>4, <3>1, <3>2, <3>3, <3>5 DEF MadeBy
  <2>5. ActsOnWhoWasMeant
    BY <2>4 DEF ActsOnWhoWasMeant, Moved
  <2> QED BY <2>3, <2>5 DEF GroupsChangeAsTold
<1> QED BY <1>1, GroupInvariant, PTL

(***************************************************************************)
(* Part 5.  An instance that is destroyed.                                 *)
(***************************************************************************)

JobStatuses == DOMAIN WorkerJobTransitions
ListedStatuses == {"queued", "reserved", "running", "retrying"}
Cleanups == {"sessions", "jobs", "bury", "disconnect"}
DestroyPhases == {"start", "find", "save", "done", "cut"} \cup Cleanups
Tellings == {Null, "not_found", "accepted", "thrown", "failed_accepted"}

\* As much of a row as its changes look at.
IsRow(a) == {"status", "was", "has", "events", "news", "attempt"} \subseteq DOMAIN a
IsJobIn(a, statuses) == IsRow(a) /\ a.status \in statuses

SeedRow(s) == New("Session", SeedSessions[s], {})
SessionRows(s) == {Null, SeedRow(s), Cleaned(SeedRow(s))}
IsClean(s) == sessions[s] = Null \/ sessions[s].status \in {"revoked", "cleanup"}
IsDestroyed == instance # Null /\ instance.status = "destroyed"

InstanceTypes ==
  /\ instance \in {Null} \cup Undestroyed \cup {DestroyInstance(a) : a \in Undestroyed}
  /\ DOMAIN sessions = Sessions /\ \A s \in Sessions : sessions[s] \in SessionRows(s)
  /\ DOMAIN jobs = AllJobs
  /\ \A j \in AllJobs : jobs[j] = Null \/ IsJobIn(jobs[j], JobStatuses)
  /\ phase \in [Destroyers -> DestroyPhases] /\ told \in [Destroyers -> Tellings]
  /\ DOMAIN todo = Destroyers /\ DOMAIN seen = Destroyers /\ announced \subseteq Destroyers
  /\ \A d \in Destroyers :
       /\ {"instance", "sessions", "jobs"} \subseteq DOMAIN seen[d]
       /\ phase[d] # "done" => told[d] = Null

Working ==
  /\ {"job", "at", "copy", "verdict"} \subseteq DOMAIN working
  /\ working.at \in {"idle", "instance", "session", "deliver", "load", "save"}
  /\ working.at # "idle" => working.job \in OwnJobs /\ IsJobIn(jobs[working.job], JobStatuses)
  /\ working.at = "save" => IsJobIn(working.copy, {"reserved"})

\* What a destroy command loaded: sessions as they were put there or as they are cleaned.
FoundSessions(d) ==
  \A s \in Sessions :
    /\ seen[d].sessions[s] \in SessionRows(s)
    /\ IsClean(s) \/ seen[d].sessions[s] = SeedRow(s)

ListedJobs(d) ==
  /\ DOMAIN seen[d].jobs \subseteq OwnJobs
  /\ \A j \in DOMAIN seen[d].jobs : IsJobIn(seen[d].jobs[j], ListedStatuses)

\* The jobs that nobody has moved, and that a command has still to bury.
Unburied == {j \in OwnJobs \ moved : NeedsBurial(j)}

Destroyer(d) ==
  /\ phase[d] \in {"find", "save"} => seen[d].instance \in Undestroyed
  /\ phase[d] \in {"save"} \cup Cleanups => FoundSessions(d)
  /\ phase[d] \in {"start", "find", "save", "sessions"} => seen[d].jobs = << >>
  /\ phase[d] \in Cleanups => IsDestroyed
  /\ phase[d] = "sessions" => /\ todo[d] \subseteq ToClean(d)
                              /\ \A s \in Sessions \ todo[d] : IsClean(s)
  /\ phase[d] \in {"jobs", "bury", "disconnect"} => \A s \in Sessions : IsClean(s)
  /\ phase[d] \in {"jobs", "bury"} => ListedJobs(d)
  /\ phase[d] = "jobs" =>
       /\ todo[d] \subseteq DOMAIN Listings
       /\ \A j \in Unburied :
            j \in DOMAIN seen[d].jobs \/ \E i \in todo[d] : jobs[j].status = Listings[i]
  /\ phase[d] = "bury" => Unburied \subseteq todo[d] /\ todo[d] \subseteq DOMAIN seen[d].jobs
  /\ phase[d] = "disconnect" =>
       /\ Unburied = {}
       /\ \A s \in Sessions :
            ShouldDisconnectProviderSession(seen[d].sessions[s]) => s \in todo[d] \cup closed

\* What was announced is done.
Announced ==
  announced # {} => /\ Started /\ IsDestroyed /\ Unburied = {}
                    /\ \A s \in Sessions : IsClean(s)

\* A command that was left in the middle, or that is at work and found the session
\* as it was put there, is still to close its socket.
Owes(d, s) ==
  \/ phase[d] = "cut"
  \/ told[d] \in {"thrown", "failed_accepted"}
  \/ phase[d] \in Cleanups /\ seen[d].sessions[s] = SeedRow(s) /\ SeedRow(s) # Null

\* A session that is no longer as it was put there is closed, or somebody owes it.
Sockets ==
  \A s \in Sessions :
    NeedsClosing(s) =>
      sessions[s] = SeedRow(s) \/ s \in closed \/ \E d \in Destroyers : Owes(d, s)

\* Nobody hears of a destroyed instance before it is announced, or somebody is at it.
Hearing ==
  (IsDestroyed \/ "accepted" \in {told[d] : d \in Destroyers}) => announced # {} \/ LeftBehind

(* What the cleanup rests on: where each command is in its loops bounds what is *)
(* left to do, however the others and the worker move meanwhile.                *)
InstanceInv ==
  /\ InstanceTypes /\ Working /\ Announced /\ Sockets /\ Hearing
  /\ \A d \in Destroyers : Destroyer(d)

LEMMA RowNoted ==
  ASSUME NEW a, IsRow(a), NEW event
  PROVE  IsRow(Noting(a, event)) /\ Noting(a, event).status = a.status
<1>1. IsRow(Emit(a, event)) /\ Emit(a, event).status = a.status
  BY DEF IsRow, Emit
<1> QED BY <1>1 DEF Noting

LEMMA RowMoves ==
  ASSUME NEW a, IsRow(a), NEW next, NEW table, next = a.status \/ next \in table[a.status],
         NEW event, NEW sets, NEW clears
  PROVE  /\ IsRow(Transition(a, next, table, event, sets, clears))
         /\ Transition(a, next, table, event, sets, clears).status = next
<1> DEFINE b == [a EXCEPT !.status = next, !.was = @ \cup {a.status},
                          !.has = (@ \ clears) \cup sets]
<1>1. IsRow(b) /\ b.status = next
  BY DEF IsRow
<1>2. Transition(a, next, table, event, sets, clears) = Noting(b, event)
  BY DEF Transition
<1> HIDE DEF b
<1> QED BY <1>1, <1>2, RowNoted

LEMMA NewRow ==
  ASSUME NEW kind, NEW status, NEW has
  PROVE  IsRow(New(kind, status, has)) /\ New(kind, status, has).status = status
BY DEF New, IsRow

LEMMA UndestroyedRows ==
  ASSUME NEW a \in Undestroyed
  PROVE  a.status # "destroyed" /\ DestroyInstance(a).status = "destroyed"
<1>1. IsRow(CreateInstance) /\ CreateInstance.status = "created"
  <2>1. CreateInstance = Noting(New("Instance", "created", {}), "InstanceCreated")
    BY DEF CreateInstance, Noting, NoEvent
  <2> QED BY <2>1, NewRow, RowNoted
<1>2. IsRow(MarkInstanceConnecting(CreateInstance))
      /\ MarkInstanceConnecting(CreateInstance).status = "connecting"
  <2>1. "connecting" \in InstanceTransitions[CreateInstance.status]
    BY <1>1 DEF InstanceTransitions
  <2>2. MarkInstanceConnecting(CreateInstance)
          = Transition(CreateInstance, "connecting", InstanceTransitions, NoEvent, {}, {})
    BY DEF MarkInstanceConnecting, TransitionInstance
  <2> QED BY <1>1, <2>1, <2>2, RowMoves
<1> DEFINE b == MarkInstanceConnecting(CreateInstance)
<1>3. IsRow(MarkInstanceConnected(b)) /\ MarkInstanceConnected(b).status = "connected"
  <2>1. "connected" \in InstanceTransitions[b.status]
    BY <1>2 DEF InstanceTransitions
  <2> QED BY <1>2, <2>1, RowMoves DEF MarkInstanceConnected, TransitionInstance
<1> HIDE DEF b
<1>4. IsRow(a) /\ a.status \in {"created", "connected"}
  BY <1>1, <1>3 DEF Undestroyed, b
<1>5. "destroyed" \in InstanceTransitions[a.status]
  BY <1>4 DEF InstanceTransitions
<1> QED BY <1>4, <1>5, RowMoves DEF DestroyInstance, TransitionInstance

LEMMA CleanedRows ==
  ASSUME NEW s \in Sessions
  PROVE  /\ SeedRow(s).status = SeedSessions[s]
         /\ Cleaned(SeedRow(s)).status \in {"revoked", "cleanup"}
         /\ Cleaned(Cleaned(SeedRow(s))) = Cleaned(SeedRow(s))
<1> DEFINE a == SeedRow(s)
           b == Cleaned(a)
<1>1. IsRow(a) /\ a.status = SeedSessions[s]
  BY NewRow DEF SeedRow
<1>2. a.status \in {"empty", "pending", "active", "expired", "revoked", "cleanup"}
  BY <1>1, InstanceSeed DEF SessionTransitions
<1> HIDE DEF a
<1>3. \A c : c.status \in {"revoked", "cleanup"} => Cleaned(c) = c
  <2> TAKE c
  <2>1. CASE c.status \in {"revoked", "cleanup"}
    <3>1. c.status # "empty"
      BY <2>1
    <3> QED BY <2>1, <3>1, Zenon DEF Cleaned
  <2> QED BY <2>1
<1>4. b.status \in {"revoked", "cleanup"}
  <2>1. CASE a.status = "empty"
    <3>1. a.status \notin {"revoked", "cleanup"}
      BY <2>1
    <3>2. b = CleanupSession(a, {})
      BY <2>1, <3>1, Zenon DEF Cleaned
    <3>3. "cleanup" \in SessionTransitions[a.status]
      BY <2>1 DEF SessionTransitions
    <3> QED BY <1>1, <3>2, <3>3, RowMoves DEF CleanupSession, TransitionSession
  <2>2. CASE a.status \in {"revoked", "cleanup"}
    BY <1>3, <2>2
  <2>3. CASE a.status \in {"pending", "active", "expired"}
    <3>1. a.status # "empty" /\ a.status \notin {"revoked", "cleanup"}
      BY <2>3
    <3>2. b = RevokeSession(a)
      BY <3>1, Zenon DEF Cleaned
    <3>3. "revoked" \in SessionTransitions[a.status]
      BY <2>3 DEF SessionTransitions
    <3> QED BY <1>1, <3>2, <3>3, RowMoves DEF RevokeSession, TransitionSession
  <2> QED BY <1>2, <2>1, <2>2, <2>3
<1> HIDE DEF b
<1>5. Cleaned(b) = b
  BY <1>3, <1>4
<1> QED BY <1>1, <1>4, <1>5 DEF a, b

LEMMA JobMoves ==
  ASSUME NEW a, NEW from, NEW next, IsJobIn(a, from),
         \A status \in from : next \in WorkerJobTransitions[status],
         NEW event, NEW sets
  PROVE  IsJobIn(TransitionWorkerJob(a, next, event, sets), {next})
<1>1. IsRow(a) /\ next \in WorkerJobTransitions[a.status]
  BY DEF IsJobIn
<1>2. TransitionWorkerJob(a, next, event, sets)
        = Transition(a, next, WorkerJobTransitions, event, sets, {})
  BY DEF TransitionWorkerJob
<1> QED BY <1>1, <1>2, RowMoves DEF IsJobIn

LEMMA JobAttempted ==
  ASSUME NEW a, NEW statuses, IsJobIn(a, statuses), NEW n
  PROVE  IsJobIn(Attempted(a, n), statuses)
BY DEF IsJobIn, IsRow, Attempted

LEMMA JobBuried ==
  ASSUME NEW a, IsJobIn(a, ListedStatuses) PROVE IsJobIn(MarkWorkerJobDead(a), {"dead"})
BY JobMoves DEF MarkWorkerJobDead, ListedStatuses, WorkerJobTransitions

LEMMA JobReserved ==
  ASSUME NEW a, IsJobIn(a, {"queued", "retrying"}), NEW n
  PROVE  IsJobIn(ReserveWorkerJob(a, n), {"reserved"})
<1>1. \A status \in {"queued", "retrying"} : "reserved" \in WorkerJobTransitions[status]
  BY DEF WorkerJobTransitions
<1> QED BY <1>1, JobMoves, JobAttempted DEF ReserveWorkerJob

LEMMA JobCompleted ==
  ASSUME NEW a, IsJobIn(a, {"reserved"})
  PROVE  IsJobIn(CompleteWorkerJob(StartWorkerJob(a)), {"completed"})
<1>1. /\ "running" \in WorkerJobTransitions["reserved"]
      /\ "completed" \in WorkerJobTransitions["running"]
  BY DEF WorkerJobTransitions
<1>2. IsJobIn(StartWorkerJob(a), {"running"})
  BY <1>1, JobMoves DEF StartWorkerJob
<1> QED BY <1>1, <1>2, JobMoves DEF CompleteWorkerJob

LEMMA JobRetried ==
  ASSUME NEW a, IsJobIn(a, {"reserved"}), NEW n, RetryWorkerJob(a, n) # Throws
  PROVE  IsJobIn(RetryWorkerJob(a, n), {"retrying"})
<1>1. "retrying" \in WorkerJobTransitions["reserved"]
  BY DEF WorkerJobTransitions
<1> QED BY <1>1, JobMoves, JobAttempted DEF RetryWorkerJob


LEMMA InstanceInitHolds == InstanceInit => InstanceInv
<1> SUFFICES ASSUME InstanceInit PROVE InstanceInv
  OBVIOUS
<1>1. IsJobIn(QueueWorkerJob, JobStatuses)
  <2>1. QueueWorkerJob = Noting(New("WorkerJob", "queued", {}), "WorkerJobQueued")
    BY DEF QueueWorkerJob, Noting, NoEvent
  <2>2. "queued" \in JobStatuses
    BY DEF JobStatuses, WorkerJobTransitions
  <2> QED BY <2>1, <2>2, NewRow, RowNoted DEF IsJobIn
<1>2. \A j \in AllJobs : jobs[j] = Null \/ IsJobIn(jobs[j], JobStatuses)
  BY <1>1 DEF InstanceInit
<1>3. InstanceTypes
  <2>1. instance \in {Null} \cup Undestroyed
    BY DEF InstanceInit, Undestroyed
  <2>2. DOMAIN sessions = Sessions /\ \A s \in Sessions : sessions[s] \in SessionRows(s)
    BY DEF InstanceInit, SessionRows, SeedRow
  <2>3. phase \in [Destroyers -> DestroyPhases] /\ told \in [Destroyers -> Tellings]
    BY DEF InstanceInit, DestroyPhases, Tellings
  <2>4. DOMAIN jobs = AllJobs
    BY DEF InstanceInit
  <2> QED BY <1>2, <2>1, <2>2, <2>3, <2>4 DEF InstanceTypes, InstanceInit
<1>4. Working
  BY DEF InstanceInit, Working, Idle
<1>5. Announced
  BY DEF InstanceInit, Announced
<1>6. Sockets
  BY DEF InstanceInit, Sockets, SeedRow, NeedsClosing
<1>7. Hearing
  <2>1. ~IsDestroyed
    BY UndestroyedRows DEF InstanceInit, IsDestroyed, Undestroyed
  <2>2. "accepted" \notin {told[d] : d \in Destroyers}
    BY InstanceSeed DEF InstanceInit
  <2> QED BY <2>1, <2>2 DEF Hearing
<1>8. \A d \in Destroyers : Destroyer(d)
  BY DEF InstanceInit, Destroyer, Cleanups
<1> QED BY <1>3, <1>4, <1>5, <1>6, <1>7, <1>8 DEF InstanceInv

-----------------------------------------------------------------------------
(* What every step keeps.                                                  *)

\* Rows go one way: sessions are cleaned, sockets closed, the instance destroyed; and
\* once a command has started, jobs that nobody moved stay or are buried.
Onward ==
  /\ \A s \in Sessions : sessions'[s] = sessions[s] \/ sessions'[s] = Cleaned(SeedRow(s))
  /\ closed \subseteq closed' /\ moved \subseteq moved'
  /\ IsDestroyed => IsDestroyed'
  /\ Started => Started'
  /\ Started => \A j \in OwnJobs \ moved' : NeedsBurial(j)' => jobs'[j] = jobs[j]

LEMMA OnwardClean ==
  ASSUME Onward, NEW s \in Sessions, IsClean(s) PROVE IsClean(s)'
BY CleanedRows DEF Onward, IsClean

LEMMA OnwardUnburied ==
  ASSUME Onward, Started
  PROVE  Unburied' \subseteq Unburied /\ \A j \in Unburied' : jobs'[j] = jobs[j]
BY DEF Onward, Unburied, NeedsBurial

LEMMA FoundKept ==
  ASSUME InstanceTypes, Onward, NEW d \in Destroyers, FoundSessions(d), seen'[d] = seen[d]
  PROVE  FoundSessions(d)'
<1> SUFFICES ASSUME NEW s \in Sessions
             PROVE  /\ seen[d].sessions[s] \in SessionRows(s)
                    /\ IsClean(s)' \/ seen[d].sessions[s] = SeedRow(s)
  BY DEF FoundSessions, SessionRows, SeedRow, Cleaned
<1> QED BY OnwardClean DEF FoundSessions


\* A command that a step leaves alone: what it loaded is still what it loaded.
LEMMA OthersKept ==
  ASSUME InstanceInv, Onward, NEW d \in Destroyers,
         phase'[d] = phase[d], todo'[d] = todo[d], seen'[d] = seen[d]
  PROVE  Destroyer(d)'
<1>1. phase[d] # "start" => Started
  BY DEF Started
<1>2. phase[d] # "start" =>
        Unburied' \subseteq Unburied /\ \A j \in Unburied' : jobs'[j] = jobs[j]
  BY <1>1, OnwardUnburied
<1>3. \A s \in Sessions : IsClean(s) => IsClean(s)'
  BY OnwardClean
<1>4. phase[d] \in {"save"} \cup Cleanups => FoundSessions(d)'
  BY FoundKept DEF InstanceInv, Destroyer
<1>5. phase[d] \in Cleanups => IsDestroyed'
  BY DEF InstanceInv, Destroyer, Onward
<1>6. phase[d] = "sessions" => /\ todo[d] \subseteq ToClean(d)'
                              /\ \A s \in Sessions \ todo[d] : IsClean(s)'
  <2>1. ToClean(d)' = ToClean(d)
    BY DEF ToClean, Cleaned
  <2> QED BY <1>3, <2>1 DEF InstanceInv, Destroyer
<1>7. phase[d] \in {"jobs", "bury"} => ListedJobs(d)'
  BY DEF InstanceInv, Destroyer, ListedJobs
<1>8. closed \subseteq closed'
  BY DEF Onward
<1>9. Destroyer(d)
  BY DEF InstanceInv
<1>10. phase[d] = "jobs" =>
         /\ todo[d] \subseteq DOMAIN Listings
         /\ \A j \in Unburied' :
              j \in DOMAIN seen[d].jobs \/ \E i \in todo[d] : jobs'[j].status = Listings[i]
  BY <1>2, <1>9 DEF Destroyer
<1>11. phase[d] = "bury" => Unburied' \subseteq todo[d] /\ todo[d] \subseteq DOMAIN seen[d].jobs
  BY <1>2, <1>9 DEF Destroyer
<1>12. phase[d] = "disconnect" =>
         /\ Unburied' = {}
         /\ \A s \in Sessions :
              ShouldDisconnectProviderSession(seen[d].sessions[s]) => s \in todo[d] \cup closed'
  BY <1>2, <1>8, <1>9 DEF Destroyer
<1>13. /\ phase[d] \in {"find", "save"} => seen[d].instance \in Undestroyed
       /\ phase[d] \in {"start", "find", "save", "sessions"} => seen[d].jobs = << >>
       /\ phase[d] \in {"jobs", "bury", "disconnect"} => \A s \in Sessions : IsClean(s)'
  BY <1>3, <1>9 DEF Destroyer
<1> QED BY <1>4, <1>5, <1>6, <1>7, <1>10, <1>11, <1>12, <1>13
        DEF Destroyer, ShouldDisconnectProviderSession, Listings

LEMMA AnnouncedKept ==
  ASSUME InstanceInv, Onward, announced' = announced PROVE Announced'
<1> SUFFICES ASSUME announced # {}
             PROVE  Started' /\ IsDestroyed' /\ Unburied' = {} /\ \A s \in Sessions : IsClean(s)'
  BY DEF Announced
<1>1. Started /\ IsDestroyed /\ Unburied = {} /\ \A s \in Sessions : IsClean(s)
  BY DEF InstanceInv, Announced
<1> QED BY <1>1, OnwardUnburied, OnwardClean DEF Onward

LEMMA SocketsKept ==
  ASSUME InstanceInv, Onward,
         \A s \in Sessions : sessions'[s] = sessions[s] \/ \E d \in Destroyers : Owes(d, s)',
         \A s \in Sessions, d \in Destroyers :
           Owes(d, s) => \/ Owes(d, s)'
                         \/ s \in closed'
                         \/ SeedSessions[s] \notin {"active", "expired", "pending"}
  PROVE  Sockets'
<1> SUFFICES ASSUME NEW s \in Sessions, NeedsClosing(s)',
                    sessions'[s] # SeedRow(s), s \notin closed'
             PROVE  \E d \in Destroyers : Owes(d, s)'
  BY DEF Sockets, SeedRow, Owes
<1>1. CASE sessions'[s] = sessions[s]
  <2>1. NeedsClosing(s) /\ s \notin closed
    BY <1>1 DEF NeedsClosing, Onward
  <2>2. PICK d \in Destroyers : Owes(d, s)
    BY <1>1, <2>1 DEF InstanceInv, Sockets
  <2> QED BY <2>2 DEF NeedsClosing
<1>2. CASE sessions'[s] # sessions[s]
  BY <1>2
<1> QED BY <1>1, <1>2

\* That it was announced, or that somebody is at it, stays true.
AtIt(d) == d \in InProgress \/ phase[d] = "cut" \/ told[d] \in {"thrown", "failed_accepted"}

LEMMA HearingKept ==
  ASSUME InstanceInv, announced \subseteq announced',
         \A d \in Destroyers : AtIt(d) => AtIt(d)' \/ announced' # {},
         IsDestroyed' => IsDestroyed \/ \E d \in Destroyers : AtIt(d)',
         \A d \in Destroyers : told'[d] = "accepted" =>
                                 told[d] = "accepted" \/ IsDestroyed \/ announced' # {}
  PROVE  Hearing'
<1>1. LeftBehind <=> \E d \in Destroyers : AtIt(d)
  BY DEF LeftBehind, AtIt
<1>2. LeftBehind' <=> \E d \in Destroyers : AtIt(d)'
  BY DEF LeftBehind, AtIt
<1>3. ASSUME announced # {} \/ LeftBehind PROVE announced' # {} \/ LeftBehind'
  BY <1>1, <1>2, <1>3
<1>4. (IsDestroyed \/ "accepted" \in {told[d] : d \in Destroyers}) => announced # {} \/ LeftBehind
  BY DEF InstanceInv, Hearing
<1>5. ASSUME IsDestroyed' PROVE announced' # {} \/ LeftBehind'
  BY <1>2, <1>3, <1>4, <1>5
<1>6. ASSUME NEW d \in Destroyers, told'[d] = "accepted" PROVE announced' # {} \/ LeftBehind'
  BY <1>3, <1>4, <1>6
<1> QED BY <1>5, <1>6 DEF Hearing


-----------------------------------------------------------------------------
(* Steps of a destroy command.                                             *)

\* Nobody but the command moves in its loop.
OthersSame(d) ==
  \A e \in Destroyers \ {d} :
    phase'[e] = phase[e] /\ todo'[e] = todo[e] /\ seen'[e] = seen[e] /\ told'[e] = told[e]

LEMMA Entered ==
  ASSUME InstanceTypes, NEW d \in Destroyers, NEW at \in DestroyPhases, NEW left,
         Enter(d, at, left)
  PROVE  /\ phase' \in [Destroyers -> DestroyPhases] /\ DOMAIN todo' = Destroyers
         /\ phase'[d] = at /\ todo'[d] = left
         /\ \A e \in Destroyers \ {d} : phase'[e] = phase[e] /\ todo'[e] = todo[e]
BY DEF InstanceTypes, Enter

LEMMA WasTold ==
  ASSUME InstanceTypes, NEW d \in Destroyers, NEW outcome \in Tellings, Tell(d, outcome)
  PROVE  /\ phase' \in [Destroyers -> DestroyPhases] /\ told' \in [Destroyers -> Tellings]
         /\ phase'[d] = "done" /\ told'[d] = outcome /\ todo' = todo
         /\ \A e \in Destroyers \ {d} : phase'[e] = phase[e] /\ told'[e] = told[e]
BY DEF InstanceTypes, Tell, DestroyPhases

LEMMA OneLess ==
  ASSUME InstanceTypes, NEW d \in Destroyers, NEW item, Finished(d, item)
  PROVE  /\ phase' = phase /\ told' = told /\ DOMAIN todo' = Destroyers
         /\ todo'[d] = todo[d] \ {item}
         /\ \A e \in Destroyers \ {d} : todo'[e] = todo[e]
BY DEF InstanceTypes, Finished

\* A step that changes no row, only how far the command is and what it knows.
LEMMA ReadingStep ==
  ASSUME InstanceInv, NEW d \in Destroyers, OthersSame(d),
         UNCHANGED <<instance, sessions, jobs, closed, announced, working, moved>>,
         phase[d] \notin {"done", "cut"}, phase'[d] \in {"find", "save"} \cup Cleanups,
         told'[d] = told[d],
         phase[d] \in Cleanups => phase'[d] \in Cleanups /\ seen'[d].sessions = seen[d].sessions,
         Destroyer(d)'
  PROVE  /\ Working' /\ Announced' /\ Sockets' /\ Hearing'
         /\ \A e \in Destroyers : Destroyer(e)'
<1>1. Started'
  BY DEF Started, Cleanups
<1>2. Onward
  BY <1>1 DEF Onward, IsDestroyed
<1>3. \A e \in Destroyers : Destroyer(e)'
  BY <1>2, OthersKept DEF OthersSame
<1>4. Working'
  BY DEF InstanceInv, Working, IsJobIn, IsRow
<1>5. Announced'
  BY <1>2, AnnouncedKept
<1>6. Sockets'
  <2>1. \A s \in Sessions, e \in Destroyers : Owes(e, s) => Owes(e, s)'
    <3> TAKE s \in Sessions, e \in Destroyers
    <3>1. CASE e # d
      BY <3>1 DEF OthersSame, Owes, SeedRow
    <3>2. CASE e = d
      BY <3>2 DEF Owes, SeedRow
    <3> QED BY <3>1, <3>2
  <2> QED BY <1>2, <2>1, SocketsKept
<1>7. Hearing'
  <2>1. AtIt(d)'
    BY DEF AtIt, InProgress, Cleanups
  <2>2. \A e \in Destroyers : AtIt(e) => AtIt(e)'
    BY <2>1 DEF AtIt, InProgress, OthersSame
  <2>3. \A e \in Destroyers : told'[e] = told[e]
    BY DEF OthersSame
  <2>4. IsDestroyed' <=> IsDestroyed
    BY DEF IsDestroyed
  <2> QED BY <2>2, <2>3, <2>4, HearingKept
<1> QED BY <1>3, <1>4, <1>5, <1>6, <1>7

LEMMA StartKeeps ==
  ASSUME InstanceInv, NEW d \in Destroyers, StartDestroy(d) PROVE InstanceInv'
<1>0. InstanceTypes /\ Destroyer(d)
  BY DEF InstanceInv
<1>1. /\ phase[d] = "start"
      /\ UNCHANGED <<instance, sessions, jobs, closed, announced, working, moved>>
  BY DEF StartDestroy
<1>2. /\ DOMAIN seen' = Destroyers /\ seen'[d].instance = instance
      /\ seen'[d].jobs = seen[d].jobs /\ seen'[d].sessions = seen[d].sessions
      /\ DOMAIN seen'[d] = DOMAIN seen[d]
      /\ \A e \in Destroyers \ {d} : seen'[e] = seen[e]
  BY <1>0 DEF StartDestroy, InstanceTypes
<1>3. \/ Tell(d, "not_found")
      \/ Tell(d, "accepted") /\ IsDestroyed
      \/ /\ Enter(d, "find", {}) /\ told' = told
         /\ instance # Null /\ instance.status # "destroyed"
  BY DEF StartDestroy, IsDestroyed
<1>4. CASE Tell(d, "not_found") \/ (Tell(d, "accepted") /\ IsDestroyed)
  <2>1. PICK outcome \in {"not_found", "accepted"} :
           Tell(d, outcome) /\ (outcome = "accepted" => IsDestroyed)
    BY <1>4
  <2>2. /\ phase' \in [Destroyers -> DestroyPhases] /\ told' \in [Destroyers -> Tellings]
        /\ phase'[d] = "done" /\ told'[d] = outcome /\ todo' = todo
        /\ \A e \in Destroyers \ {d} : phase'[e] = phase[e] /\ told'[e] = told[e]
    BY <1>0, <2>1, WasTold DEF Tellings
  <2>3. Onward
    BY <1>1, <2>2 DEF Onward, Started, IsDestroyed
  <2>4. InstanceTypes'
    BY <1>0, <1>1, <1>2, <2>2 DEF InstanceTypes, IsJobIn, IsRow, SessionRows, SeedRow, Cleaned
  <2>5. Working' /\ Announced'
    BY <1>1, <2>3, AnnouncedKept DEF InstanceInv, Working, IsJobIn, IsRow
  <2>6. Destroyer(d)'
    BY <2>2 DEF Destroyer, Cleanups
  <2>7. \A e \in Destroyers : Destroyer(e)'
    BY <1>2, <2>2, <2>3, <2>6, OthersKept
  <2>8. told[d] = Null
    BY <1>0, <1>1 DEF InstanceTypes
  <2>9. Sockets'
    <3>1. \A s \in Sessions, e \in Destroyers : Owes(e, s) => Owes(e, s)'
      BY <1>1, <1>2, <2>2, <2>8, InstanceSeed DEF Owes, SeedRow, Cleanups
    <3> QED BY <1>1, <2>3, <3>1, SocketsKept
  <2>10. Hearing'
    <3>1. \A e \in Destroyers : AtIt(e) => AtIt(e)'
      BY <1>1, <2>2, <2>8, InstanceSeed DEF AtIt, InProgress
    <3>2. \A e \in Destroyers : told'[e] = "accepted" => told[e] = "accepted" \/ IsDestroyed
      BY <2>1, <2>2
    <3> QED BY <1>1, <3>1, <3>2, HearingKept DEF IsDestroyed
  <2> QED BY <2>4, <2>5, <2>7, <2>9, <2>10 DEF InstanceInv
<1>5. CASE /\ Enter(d, "find", {}) /\ told' = told
           /\ instance # Null /\ instance.status # "destroyed"
  <2>1. /\ phase' \in [Destroyers -> DestroyPhases] /\ DOMAIN todo' = Destroyers
        /\ phase'[d] = "find"
        /\ \A e \in Destroyers \ {d} : phase'[e] = phase[e] /\ todo'[e] = todo[e]
    BY <1>0, <1>5, Entered DEF DestroyPhases
  <2>2. InstanceTypes'
    BY <1>0, <1>1, <1>2, <1>5, <2>1
    DEF InstanceTypes, IsJobIn, IsRow, SessionRows, SeedRow, Cleaned
  <2>3. OthersSame(d)
    BY <1>2, <1>5, <2>1 DEF OthersSame
  <2>4. Destroyer(d)'
    <3>1. instance \in Undestroyed
      BY <1>0, <1>5, UndestroyedRows DEF InstanceTypes
    <3>2. seen[d].jobs = << >>
      BY <1>0, <1>1 DEF Destroyer
    <3> QED BY <1>2, <2>1, <3>1, <3>2 DEF Destroyer, Cleanups
  <2> QED BY <1>1, <1>5, <2>1, <2>2, <2>3, <2>4, ReadingStep DEF InstanceInv, Cleanups
<1> QED BY <1>3, <1>4, <1>5

LEMMA FindKeeps ==
  ASSUME InstanceInv, NEW d \in Destroyers, FindSessions(d) PROVE InstanceInv'
<1>0. InstanceTypes /\ Destroyer(d)
  BY DEF InstanceInv
<1>1. /\ phase[d] = "find" /\ Enter(d, "save", {}) /\ told' = told
      /\ UNCHANGED <<instance, sessions, jobs, closed, announced, working, moved>>
  BY DEF FindSessions
<1>2. /\ DOMAIN seen' = Destroyers /\ seen'[d].sessions = sessions
      /\ seen'[d].jobs = seen[d].jobs /\ seen'[d].instance = seen[d].instance
      /\ DOMAIN seen'[d] = DOMAIN seen[d]
      /\ \A e \in Destroyers \ {d} : seen'[e] = seen[e]
  BY <1>0 DEF FindSessions, InstanceTypes
<1>3. /\ phase' \in [Destroyers -> DestroyPhases] /\ DOMAIN todo' = Destroyers
      /\ phase'[d] = "save"
      /\ \A e \in Destroyers \ {d} : phase'[e] = phase[e] /\ todo'[e] = todo[e]
  BY <1>0, <1>1, Entered DEF DestroyPhases
<1>4. InstanceTypes'
  BY <1>0, <1>1, <1>2, <1>3 DEF InstanceTypes, IsJobIn, IsRow, SessionRows, SeedRow, Cleaned
<1>5. OthersSame(d)
  BY <1>1, <1>2, <1>3 DEF OthersSame
<1>6. FoundSessions(d)'
  <2>1. \A s \in Sessions : sessions[s] \in SessionRows(s)
    BY <1>0 DEF InstanceTypes
  <2>2. \A s \in Sessions : IsClean(s) \/ sessions[s] = SeedRow(s)
    BY <2>1, CleanedRows DEF SessionRows, IsClean
  <2> QED BY <1>1, <1>2, <2>1, <2>2 DEF FoundSessions, IsClean, SessionRows, SeedRow, Cleaned
<1>7. Destroyer(d)'
  BY <1>0, <1>1, <1>2, <1>3, <1>6 DEF Destroyer, Cleanups
<1> QED BY <1>1, <1>3, <1>4, <1>5, <1>7, ReadingStep DEF InstanceInv, Cleanups

LEMMA ListingKeeps ==
  ASSUME InstanceInv, NEW d \in Destroyers, StartListing(d) PROVE InstanceInv'
<1>0. InstanceTypes /\ Destroyer(d)
  BY DEF InstanceInv
<1>1. /\ phase[d] = "sessions" /\ todo[d] = {} /\ Enter(d, "jobs", DOMAIN Listings)
      /\ UNCHANGED <<instance, sessions, jobs, closed, seen, told, announced, working, moved>>
  BY DEF StartListing
<1>2. /\ phase' \in [Destroyers -> DestroyPhases] /\ DOMAIN todo' = Destroyers
      /\ phase'[d] = "jobs" /\ todo'[d] = DOMAIN Listings
      /\ \A e \in Destroyers \ {d} : phase'[e] = phase[e] /\ todo'[e] = todo[e]
  BY <1>0, <1>1, Entered DEF DestroyPhases, Cleanups
<1>3. InstanceTypes'
  BY <1>0, <1>1, <1>2 DEF InstanceTypes, IsJobIn, IsRow, SessionRows, SeedRow, Cleaned
<1>4. OthersSame(d)
  BY <1>1, <1>2 DEF OthersSame
<1>5. (\A s \in Sessions : IsClean(s))'
  BY <1>0, <1>1 DEF Destroyer, IsClean
<1>6. ListedJobs(d)'
  BY <1>0, <1>1 DEF Destroyer, ListedJobs
<1>7. FoundSessions(d)' /\ IsDestroyed'
  BY <1>0, <1>1
  DEF Destroyer, Cleanups, FoundSessions, IsClean, IsDestroyed, SessionRows, SeedRow, Cleaned
<1>8. ASSUME NEW j \in Unburied'
      PROVE  \E i \in DOMAIN Listings : jobs'[j].status = Listings[i]
  <2>1. j \in OwnJobs /\ jobs[j] # Null /\ jobs[j].status \notin SettledJob
    BY <1>1, <1>8 DEF Unburied, NeedsBurial
  <2>2. jobs[j].status \in ListedStatuses
    BY <1>0, <2>1
    DEF InstanceTypes, AllJobs, IsJobIn, JobStatuses, WorkerJobTransitions, SettledJob,
        ListedStatuses
  <2> QED BY <1>1, <2>2 DEF Listings, ListedStatuses
<1>9. Destroyer(d)'
  BY <1>1, <1>2, <1>5, <1>6, <1>7, <1>8 DEF Destroyer, Cleanups, Listings
<1> QED BY <1>1, <1>2, <1>3, <1>4, <1>9, ReadingStep DEF InstanceInv, Cleanups


LEMMA ListKeeps ==
  ASSUME InstanceInv, NEW d \in Destroyers, NEW i \in DOMAIN Listings, ListJobs(d, i)
  PROVE  InstanceInv'
<1> DEFINE found == {j \in OwnJobs : jobs[j] # Null /\ jobs[j].status = Listings[i]}
           had == seen[d].jobs
           now == seen'[d].jobs
<1>0. InstanceTypes /\ Destroyer(d)
  BY DEF InstanceInv
<1>1. /\ phase[d] = "jobs" /\ i \in todo[d] /\ told' = told
      /\ UNCHANGED <<instance, sessions, jobs, closed, announced, working, moved>>
  BY DEF ListJobs
<1>2. /\ DOMAIN seen' = Destroyers /\ seen'[d].sessions = seen[d].sessions
      /\ seen'[d].instance = seen[d].instance /\ DOMAIN seen'[d] = DOMAIN seen[d]
      /\ \A e \in Destroyers \ {d} : seen'[e] = seen[e]
      /\ DOMAIN now = DOMAIN had \cup found
      /\ \A j \in DOMAIN now : \/ j \in DOMAIN had /\ now[j] = had[j]
                               \/ j \in found /\ now[j] = jobs[j]
  <2> DEFINE Rank(copy) == CHOOSE k \in DOMAIN Listings : Listings[k] = copy.status
             Newer(j) == IF j \in DOMAIN had /\ (j \in found => Rank(had[j]) > i)
                         THEN had[j] ELSE jobs[j]
             all == [j \in DOMAIN had \cup found |-> Newer(j)]
  <2>1. seen' = [seen EXCEPT ![d].jobs = all]
    BY DEF ListJobs
  <2>2. \A j \in DOMAIN had \cup found : \/ j \in DOMAIN had /\ Newer(j) = had[j]
                                         \/ j \in found /\ Newer(j) = jobs[j]
    <3> HIDE DEF Rank, found
    <3> QED OBVIOUS
  <2> HIDE DEF Newer, found
  <2>3. DOMAIN all = DOMAIN had \cup found /\ \A j \in DOMAIN all : all[j] = Newer(j)
    OBVIOUS
  <2> HIDE DEF all
  <2>4. /\ DOMAIN seen' = Destroyers /\ seen'[d].sessions = seen[d].sessions
        /\ seen'[d].instance = seen[d].instance /\ DOMAIN seen'[d] = DOMAIN seen[d]
        /\ \A e \in Destroyers \ {d} : seen'[e] = seen[e]
        /\ seen'[d].jobs = all
    BY <1>0, <2>1 DEF InstanceTypes
  <2> QED BY <2>2, <2>3, <2>4
<1>3. \/ todo[d] = {i} /\ Enter(d, "bury", DOMAIN had \cup found)
      \/ todo[d] # {i} /\ Enter(d, "jobs", todo[d] \ {i})
  BY DEF ListJobs
<1> HIDE DEF had, now
<1>4. /\ phase' \in [Destroyers -> DestroyPhases] /\ DOMAIN todo' = Destroyers
      /\ \A e \in Destroyers \ {d} : phase'[e] = phase[e] /\ todo'[e] = todo[e]
      /\ \/ phase'[d] = "bury" /\ todo'[d] = DOMAIN had \cup found /\ todo[d] = {i}
         \/ phase'[d] = "jobs" /\ todo'[d] = todo[d] \ {i}
  <2>1. CASE todo[d] = {i} /\ Enter(d, "bury", DOMAIN had \cup found)
    BY <1>0, <2>1, Entered DEF DestroyPhases, Cleanups
  <2>2. CASE Enter(d, "jobs", todo[d] \ {i})
    BY <1>0, <2>2, Entered DEF DestroyPhases, Cleanups
  <2> QED BY <1>3, <2>1, <2>2
<1>5. InstanceTypes'
  BY <1>0, <1>1, <1>2, <1>4 DEF InstanceTypes, IsJobIn, IsRow, SessionRows, SeedRow, Cleaned
<1>6. OthersSame(d)
  BY <1>1, <1>2, <1>4 DEF OthersSame
<1>7. ListedJobs(d)'
  <2>1. DOMAIN had \subseteq OwnJobs /\ \A j \in DOMAIN had : IsJobIn(had[j], ListedStatuses)
    BY <1>0, <1>1 DEF Destroyer, ListedJobs, had
  <2>2. ASSUME NEW j \in found PROVE IsJobIn(jobs[j], ListedStatuses)
    <3>1. j \in AllJobs /\ jobs[j] # Null /\ jobs[j].status = Listings[i]
      BY <2>2 DEF AllJobs
    <3>2. Listings[i] \in ListedStatuses
      BY DEF Listings, ListedStatuses
    <3> QED BY <1>0, <3>1, <3>2 DEF InstanceTypes, IsJobIn
  <2>3. DOMAIN now \subseteq OwnJobs /\ \A j \in DOMAIN now : IsJobIn(now[j], ListedStatuses)
    <3>1. found \subseteq OwnJobs
      OBVIOUS
    <3> HIDE DEF found
    <3> QED BY <1>2, <2>1, <2>2, <3>1
  <2> QED BY <2>3 DEF ListedJobs, now, IsJobIn, IsRow, ListedStatuses
<1>8. FoundSessions(d)' /\ IsDestroyed' /\ (\A s \in Sessions : IsClean(s))'
  BY <1>0, <1>1, <1>2
  DEF Destroyer, Cleanups, FoundSessions, IsClean, IsDestroyed, SessionRows, SeedRow, Cleaned
<1>9. \A j \in Unburied' :
        j \in DOMAIN now \/ \E k \in todo[d] \ {i} : jobs'[j].status = Listings[k]
  <2> SUFFICES ASSUME NEW j \in Unburied', j \notin DOMAIN now
               PROVE  \E k \in todo[d] \ {i} : jobs'[j].status = Listings[k]
    OBVIOUS
  <2>1. j \in Unburied /\ j \in OwnJobs /\ jobs[j] # Null
    BY <1>1 DEF Unburied, NeedsBurial
  <2>2. j \notin DOMAIN had /\ j \notin found
    BY <1>2
  <2>3. PICK k \in todo[d] : jobs[j].status = Listings[k]
    BY <1>0, <1>1, <2>1, <2>2 DEF Destroyer, had
  <2> QED BY <1>1, <2>1, <2>2, <2>3
<1>10. Destroyer(d)'
  <2>1. CASE phase'[d] = "bury" /\ todo'[d] = DOMAIN had \cup found /\ todo[d] = {i}
    <3>1. Unburied' \subseteq DOMAIN now /\ todo'[d] = DOMAIN now
      BY <1>2, <1>9, <2>1
    <3> QED BY <1>7, <1>8, <2>1, <3>1 DEF Destroyer, Cleanups, now
  <2>2. CASE phase'[d] = "jobs" /\ todo'[d] = todo[d] \ {i}
    <3>1. todo'[d] \subseteq DOMAIN Listings
      BY <1>0, <1>1, <2>2 DEF Destroyer
    <3> QED BY <1>7, <1>8, <1>9, <2>2, <3>1 DEF Destroyer, Cleanups, now, Listings
  <2> QED BY <1>4, <2>1, <2>2
<1> QED BY <1>1, <1>2, <1>4, <1>5, <1>6, <1>10, ReadingStep DEF InstanceInv, Cleanups

LEMMA LeavingKeeps ==
  ASSUME InstanceInv, NEW d \in Destroyers, StartDisconnect(d) PROVE InstanceInv'
<1> DEFINE left == {s \in Sessions : ShouldDisconnectProviderSession(seen[d].sessions[s])}
<1>0. InstanceTypes /\ Destroyer(d)
  BY DEF InstanceInv
<1>1. /\ phase[d] = "bury" /\ todo[d] = {} /\ Enter(d, "disconnect", left)
      /\ UNCHANGED <<instance, sessions, jobs, closed, seen, told, announced, working, moved>>
  BY DEF StartDisconnect
<1>2. \A s \in Sessions : ShouldDisconnectProviderSession(seen[d].sessions[s]) => s \in left
  OBVIOUS
<1> HIDE DEF left
<1>3. /\ phase' \in [Destroyers -> DestroyPhases] /\ DOMAIN todo' = Destroyers
      /\ phase'[d] = "disconnect" /\ todo'[d] = left
      /\ \A e \in Destroyers \ {d} : phase'[e] = phase[e] /\ todo'[e] = todo[e]
  BY <1>0, <1>1, Entered DEF DestroyPhases, Cleanups
<1>4. InstanceTypes'
  BY <1>0, <1>1, <1>3 DEF InstanceTypes, IsJobIn, IsRow, SessionRows, SeedRow, Cleaned
<1>5. OthersSame(d)
  BY <1>1, <1>3 DEF OthersSame
<1>6. FoundSessions(d)' /\ IsDestroyed' /\ (\A s \in Sessions : IsClean(s))'
  BY <1>0, <1>1
  DEF Destroyer, Cleanups, FoundSessions, IsClean, IsDestroyed, SessionRows, SeedRow, Cleaned
<1>7. Unburied' = {}
  BY <1>0, <1>1 DEF Destroyer, Unburied, NeedsBurial
<1>8. Destroyer(d)'
  BY <1>1, <1>2, <1>3, <1>6, <1>7 DEF Destroyer, Cleanups, ShouldDisconnectProviderSession
<1> QED BY <1>1, <1>3, <1>4, <1>5, <1>8, ReadingStep DEF InstanceInv, Cleanups

LEMMA SavingKeeps ==
  ASSUME InstanceInv, NEW d \in Destroyers, SaveDestroyed(d) PROVE InstanceInv'
<1>0. InstanceTypes /\ Destroyer(d)
  BY DEF InstanceInv
<1>1. /\ phase[d] = "save" /\ Enter(d, "sessions", ToClean(d))
      /\ instance' = DestroyInstance(seen[d].instance)
      /\ UNCHANGED <<sessions, jobs, closed, seen, told, announced, working, moved>>
  BY DEF SaveDestroyed
<1>2. /\ phase' \in [Destroyers -> DestroyPhases] /\ DOMAIN todo' = Destroyers
      /\ phase'[d] = "sessions" /\ todo'[d] = ToClean(d)
      /\ \A e \in Destroyers \ {d} : phase'[e] = phase[e] /\ todo'[e] = todo[e]
  BY <1>0, <1>1, Entered DEF DestroyPhases, Cleanups
<1>3. PICK a \in Undestroyed : a = seen[d].instance
  BY <1>0, <1>1 DEF Destroyer
<1>4. instance' = DestroyInstance(a) /\ IsDestroyed'
  BY <1>1, <1>3, UndestroyedRows, InstanceSeed DEF IsDestroyed
<1>5. InstanceTypes'
  <2>1. instance' \in {Null} \cup Undestroyed \cup {DestroyInstance(b) : b \in Undestroyed}
    BY <1>4
  <2>2. \A s \in Sessions : SessionRows(s)' = SessionRows(s)
    BY DEF SessionRows, SeedRow, Cleaned
  <2>3. \A b \in Undestroyed : DestroyInstance(b)' = DestroyInstance(b)
    OBVIOUS
  <2> QED BY <1>0, <1>1, <1>2, <2>1, <2>2, <2>3 DEF InstanceTypes, IsJobIn, IsRow
<1>6. Started /\ Started'
  BY <1>1, <1>2 DEF Started
<1>7. Onward
  BY <1>1, <1>4, <1>6 DEF Onward
<1>8. Working' /\ Announced'
  BY <1>1, <1>7, AnnouncedKept DEF InstanceInv, Working, IsJobIn, IsRow
<1>9. Sockets'
  <2>1. \A s \in Sessions, e \in Destroyers : Owes(e, s) => Owes(e, s)'
    <3> TAKE s \in Sessions, e \in Destroyers
    <3>1. CASE e # d
      BY <1>1, <1>2, <3>1 DEF Owes, SeedRow
    <3>2. CASE e = d
      BY <1>1, <1>2, <3>2 DEF Owes, Cleanups
    <3> QED BY <3>1, <3>2
  <2> QED BY <1>1, <1>7, <2>1, SocketsKept
<1>10. Hearing'
  <2>1. AtIt(d)'
    BY <1>2 DEF AtIt, InProgress
  <2>2. \A e \in Destroyers : AtIt(e) => AtIt(e)'
    BY <1>1, <1>2, <2>1 DEF AtIt, InProgress
  <2> QED BY <1>1, <2>1, <2>2, HearingKept
<1>11. Destroyer(d)'
  <2>1. FoundSessions(d)
    BY <1>0, <1>1 DEF Destroyer
  <2>2. FoundSessions(d)'
    BY <1>0, <1>1, <1>7, <2>1, FoundKept
  <2>3. ToClean(d)' = ToClean(d)
    BY <1>1 DEF ToClean, Cleaned
  <2>4. ASSUME NEW s \in Sessions, s \notin ToClean(d), ~IsClean(s) PROVE FALSE
    <3>1. seen[d].sessions[s] = SeedRow(s)
      BY <2>1, <2>4 DEF FoundSessions
    <3>2. SeedRow(s) = Null \/ Cleaned(SeedRow(s)) = SeedRow(s)
      BY <2>4, <3>1 DEF ToClean
    <3>3. sessions[s] = SeedRow(s)
      BY <1>0, <2>4, CleanedRows DEF InstanceTypes, SessionRows, IsClean
    <3> QED BY <2>4, <3>2, <3>3, CleanedRows DEF IsClean
  <2>5. \A s \in Sessions \ todo'[d] : IsClean(s)'
    BY <1>1, <1>2, <2>4 DEF IsClean
  <2>6. seen[d].jobs = << >>
    BY <1>0, <1>1 DEF Destroyer
  <2> QED BY <1>1, <1>2, <1>4, <2>2, <2>3, <2>5, <2>6 DEF Destroyer, Cleanups
<1>12. \A e \in Destroyers : Destroyer(e)'
  BY <1>1, <1>2, <1>7, <1>11, OthersKept
<1> QED BY <1>5, <1>8, <1>9, <1>10, <1>12 DEF InstanceInv


\* One round of a loop over sessions, jobs or sockets: the row is written and the command
\* goes on with one less, or an event is refused and it ends there.
LEMMA RoundStep ==
  ASSUME InstanceInv, NEW d \in Destroyers, NEW item, phase[d] \in Cleanups,
         Finished(d, item) \/ Tell(d, "thrown"),
         UNCHANGED <<instance, seen, announced, working, moved>>,
         Onward,
         \A s \in Sessions : sessions'[s] = sessions[s] \/ Owes(d, s),
         DOMAIN sessions' = Sessions, DOMAIN jobs' = AllJobs,
         \A j \in AllJobs : \/ jobs'[j] = jobs[j]
                            \/ IsJobIn(jobs'[j], JobStatuses),
         \A s \in Sessions : sessions'[s] \in SessionRows(s),
         Finished(d, item) => Destroyer(d)'
  PROVE  InstanceInv'
<1>0. InstanceTypes
  BY DEF InstanceInv
<1>1. told[d] = Null
  BY <1>0 DEF InstanceTypes, Cleanups
<1>2. /\ phase' \in [Destroyers -> DestroyPhases] /\ told' \in [Destroyers -> Tellings]
      /\ DOMAIN todo' = Destroyers
      /\ \/ phase'[d] = phase[d] /\ told'[d] = told[d] /\ Finished(d, item)
         \/ phase'[d] = "done" /\ told'[d] = "thrown"
      /\ \A e \in Destroyers \ {d} :
           phase'[e] = phase[e] /\ told'[e] = told[e] /\ todo'[e] = todo[e]
  <2>1. CASE Finished(d, item)
    BY <1>0, <2>1, OneLess DEF InstanceTypes
  <2>2. CASE Tell(d, "thrown")
    BY <1>0, <2>2, WasTold DEF InstanceTypes, Tellings
  <2> QED BY <2>1, <2>2
<1>3. InstanceTypes'
  <2>1. \A s \in Sessions : SessionRows(s)' = SessionRows(s)
    BY DEF SessionRows, SeedRow, Cleaned
  <2>2. \A j \in AllJobs : jobs'[j] = Null \/ IsJobIn(jobs'[j], JobStatuses)
    BY <1>0 DEF InstanceTypes
  <2> QED BY <1>0, <1>2, <2>1, <2>2 DEF InstanceTypes, IsJobIn, IsRow
<1>4. Working'
  <2>1. Working
    BY DEF InstanceInv
  <2>2. working.at # "idle" => IsJobIn(jobs'[working.job], JobStatuses)
    BY <2>1 DEF Working, AllJobs
  <2> QED BY <2>1, <2>2 DEF Working, IsJobIn, IsRow
<1>5. Announced'
  BY AnnouncedKept
<1>6. \A s \in Sessions, e \in Destroyers : Owes(e, s) => Owes(e, s)'
  <2> TAKE s \in Sessions, e \in Destroyers
  <2>1. CASE e # d
    BY <1>2, <2>1 DEF Owes, SeedRow
  <2>2. CASE e = d
    BY <1>1, <1>2, <2>2, InstanceSeed DEF Owes, SeedRow, Cleanups
  <2> QED BY <2>1, <2>2
<1>7. Sockets'
  BY <1>6, SocketsKept
<1>8. Hearing'
  <2>1. AtIt(d)'
    BY <1>2 DEF AtIt, InProgress, Cleanups
  <2>2. \A e \in Destroyers : AtIt(e) => AtIt(e)'
    BY <1>2, <2>1 DEF AtIt, InProgress
  <2>3. \A e \in Destroyers : told'[e] = "accepted" => told[e] = "accepted"
    BY <1>2
  <2> QED BY <2>2, <2>3, HearingKept DEF IsDestroyed
<1>9. Destroyer(d)'
  <2>1. CASE Finished(d, item)
    BY <2>1
  <2>2. CASE phase'[d] = "done"
    BY <2>2 DEF Destroyer, Cleanups
  <2> QED BY <1>2, <2>1, <2>2
<1>10. \A e \in Destroyers : Destroyer(e)'
  BY <1>2, <1>9, OthersKept
<1> QED BY <1>3, <1>4, <1>5, <1>7, <1>8, <1>10 DEF InstanceInv

LEMMA CleanKeeps ==
  ASSUME InstanceInv, NEW d \in Destroyers, NEW s \in Sessions, CleanSession(d, s)
  PROVE  InstanceInv'
<1>0. InstanceTypes /\ Destroyer(d)
  BY DEF InstanceInv
<1>1. /\ phase[d] = "sessions" /\ s \in todo[d]
      /\ Finished(d, s) \/ Tell(d, "thrown")
      /\ sessions' = [sessions EXCEPT ![s] = Cleaned(seen[d].sessions[s])]
      /\ UNCHANGED <<instance, jobs, closed, seen, announced, working, moved>>
  BY DEF CleanSession
<1>2. FoundSessions(d) /\ s \in ToClean(d)
  BY <1>0, <1>1 DEF Destroyer, Cleanups
<1>3. seen[d].sessions[s] = SeedRow(s) /\ SeedRow(s) # Null
  BY <1>2, CleanedRows DEF FoundSessions, SessionRows, ToClean
<1>4. /\ DOMAIN sessions' = Sessions /\ sessions'[s] = Cleaned(SeedRow(s))
      /\ \A t \in Sessions \ {s} : sessions'[t] = sessions[t]
  BY <1>0, <1>1, <1>3 DEF InstanceTypes
<1>5. Owes(d, s)
  BY <1>1, <1>3 DEF Owes, Cleanups
<1>6. Started'
  BY <1>1, OneLess, WasTold DEF Started, Finished, Tell, InstanceTypes, Tellings, InstanceInv
<1>7. Onward
  BY <1>1, <1>4, <1>6 DEF Onward, IsDestroyed
<1>8. \A t \in Sessions : sessions'[t] \in SessionRows(t)
  BY <1>0, <1>4 DEF InstanceTypes, SessionRows
<1>9. ASSUME Finished(d, s) PROVE Destroyer(d)'
  <2>1. phase'[d] = "sessions" /\ todo'[d] = todo[d] \ {s}
    BY <1>0, <1>1, <1>9, OneLess
  <2>2. FoundSessions(d)'
    BY <1>0, <1>1, <1>2, <1>7, FoundKept
  <2>3. ToClean(d)' = ToClean(d)
    BY <1>1 DEF ToClean, Cleaned
  <2>4. IsClean(s)'
    BY <1>4, CleanedRows DEF IsClean
  <2>5. \A t \in Sessions \ todo[d] : IsClean(t)'
    BY <1>0, <1>1, <1>7, OnwardClean DEF Destroyer
  <2>6. seen[d].jobs = << >> /\ IsDestroyed'
    BY <1>0, <1>1 DEF Destroyer, Cleanups, IsDestroyed
  <2>7. todo[d] \subseteq ToClean(d)
    BY <1>0, <1>1 DEF Destroyer
  <2> QED BY <1>1, <2>1, <2>2, <2>3, <2>4, <2>5, <2>6, <2>7 DEF Destroyer, Cleanups
<1>10. DOMAIN jobs' = AllJobs
  BY <1>0, <1>1 DEF InstanceTypes
<1> QED BY <1>1, <1>4, <1>5, <1>7, <1>8, <1>9, <1>10, RoundStep DEF Cleanups

LEMMA BuryKeeps ==
  ASSUME InstanceInv, NEW d \in Destroyers, NEW j \in AllJobs, BuryJob(d, j)
  PROVE  InstanceInv'
<1>0. InstanceTypes /\ Destroyer(d)
  BY DEF InstanceInv
<1>1. /\ phase[d] = "bury" /\ j \in todo[d]
      /\ Finished(d, j) \/ Tell(d, "thrown")
      /\ jobs' = [jobs EXCEPT ![j] = MarkWorkerJobDead(seen[d].jobs[j])]
      /\ UNCHANGED <<instance, sessions, closed, seen, announced, working, moved>>
  BY DEF BuryJob
<1>2. /\ ListedJobs(d) /\ Unburied \subseteq todo[d] /\ todo[d] \subseteq DOMAIN seen[d].jobs
      /\ FoundSessions(d) /\ IsDestroyed /\ \A s \in Sessions : IsClean(s)
  BY <1>0, <1>1 DEF Destroyer, Cleanups
<1>3. IsJobIn(MarkWorkerJobDead(seen[d].jobs[j]), {"dead"})
  BY <1>1, <1>2, JobBuried DEF ListedJobs
<1>4. /\ DOMAIN jobs' = AllJobs /\ IsJobIn(jobs'[j], {"dead"})
      /\ \A k \in AllJobs \ {j} : jobs'[k] = jobs[k]
  BY <1>0, <1>1, <1>3 DEF InstanceTypes
<1>5. ~NeedsBurial(j)'
  BY <1>4 DEF NeedsBurial, SettledJob, IsJobIn
<1>6. Started /\ Started'
  BY <1>1, OneLess, WasTold DEF Started, Finished, Tell, InstanceTypes, Tellings, InstanceInv
<1>7. Onward
  BY <1>1, <1>4, <1>5, <1>6 DEF Onward, IsDestroyed, AllJobs
<1>8. IsJobIn(jobs'[j], JobStatuses)
  BY <1>4 DEF IsJobIn, JobStatuses, WorkerJobTransitions
<1>9. ASSUME Finished(d, j) PROVE Destroyer(d)'
  <2>1. phase'[d] = "bury" /\ todo'[d] = todo[d] \ {j}
    BY <1>0, <1>1, <1>9, OneLess
  <2>2. FoundSessions(d)' /\ \A s \in Sessions : IsClean(s)'
    BY <1>0, <1>1, <1>2, <1>7, FoundKept, OnwardClean
  <2>3. Unburied' \subseteq todo'[d]
    BY <1>2, <1>5, <1>6, <1>7, <2>1, OnwardUnburied DEF Unburied
  <2>4. ListedJobs(d)' /\ IsDestroyed' /\ todo'[d] \subseteq DOMAIN seen'[d].jobs
    BY <1>1, <1>2, <2>1 DEF ListedJobs, IsJobIn, IsRow, ListedStatuses, IsDestroyed
  <2> QED BY <2>1, <2>2, <2>3, <2>4 DEF Destroyer, Cleanups
<1>10. DOMAIN sessions' = Sessions /\ \A s \in Sessions : sessions'[s] \in SessionRows(s)
  BY <1>0, <1>1 DEF InstanceTypes
<1> QED BY <1>1, <1>4, <1>7, <1>8, <1>9, <1>10, RoundStep DEF Cleanups

LEMMA DisconnectKeeps ==
  ASSUME InstanceInv, NEW d \in Destroyers, NEW s \in Sessions, DisconnectSession(d, s)
  PROVE  InstanceInv'
<1>0. InstanceTypes /\ Destroyer(d)
  BY DEF InstanceInv
<1>1. /\ phase[d] = "disconnect" /\ s \in todo[d]
      /\ \/ closed' = closed \cup {s} /\ Finished(d, s)
         \/ closed' = closed /\ Tell(d, "failed_accepted")
      /\ UNCHANGED <<instance, sessions, jobs, seen, announced, working, moved>>
  BY DEF DisconnectSession
<1>2. told[d] = Null
  BY <1>0, <1>1 DEF InstanceTypes
<1>3. /\ phase' \in [Destroyers -> DestroyPhases] /\ told' \in [Destroyers -> Tellings]
      /\ DOMAIN todo' = Destroyers
      /\ \/ /\ phase'[d] = phase[d] /\ told'[d] = told[d]
            /\ todo'[d] = todo[d] \ {s} /\ closed' = closed \cup {s}
         \/ phase'[d] = "done" /\ told'[d] = "failed_accepted"
      /\ \A e \in Destroyers \ {d} :
           phase'[e] = phase[e] /\ told'[e] = told[e] /\ todo'[e] = todo[e]
  <2>1. CASE closed' = closed \cup {s} /\ Finished(d, s)
    BY <1>0, <2>1, OneLess DEF InstanceTypes
  <2>2. CASE Tell(d, "failed_accepted")
    BY <1>0, <2>2, WasTold DEF InstanceTypes, Tellings
  <2> QED BY <1>1, <2>1, <2>2
<1>4. InstanceTypes'
  BY <1>0, <1>1, <1>3 DEF InstanceTypes, IsJobIn, IsRow, SessionRows, SeedRow, Cleaned
<1>5. Started'
  BY <1>1, <1>3 DEF Started
<1>6. Onward
  BY <1>1, <1>5 DEF Onward, IsDestroyed
<1>7. Working' /\ Announced'
  BY <1>1, <1>6, AnnouncedKept DEF InstanceInv, Working, IsJobIn, IsRow
<1>8. Sockets'
  <2>1. \A t \in Sessions, e \in Destroyers : Owes(e, t) => Owes(e, t)'
    <3> TAKE t \in Sessions, e \in Destroyers
    <3>1. CASE e # d
      BY <1>1, <1>3, <3>1 DEF Owes, SeedRow
    <3>2. CASE e = d
      BY <1>1, <1>2, <1>3, <3>2, InstanceSeed DEF Owes, SeedRow, Cleanups
    <3> QED BY <3>1, <3>2
  <2> QED BY <1>1, <1>6, <2>1, SocketsKept
<1>9. Hearing'
  <2>1. AtIt(d)'
    BY <1>1, <1>3 DEF AtIt, InProgress
  <2>2. \A e \in Destroyers : AtIt(e) => AtIt(e)'
    BY <1>3, <2>1 DEF AtIt, InProgress
  <2>3. \A e \in Destroyers : told'[e] = "accepted" => told[e] = "accepted"
    BY <1>3
  <2> QED BY <1>1, <2>2, <2>3, HearingKept DEF IsDestroyed
<1>10. Destroyer(d)'
  <2>1. CASE phase'[d] = "done"
    BY <2>1 DEF Destroyer, Cleanups
  <2>2. CASE /\ phase'[d] = phase[d]
             /\ todo'[d] = todo[d] \ {s} /\ closed' = closed \cup {s}
    <3>1. /\ FoundSessions(d) /\ IsDestroyed /\ \A t \in Sessions : IsClean(t)
          /\ Unburied = {}
          /\ \A t \in Sessions :
               ShouldDisconnectProviderSession(seen[d].sessions[t]) => t \in todo[d] \cup closed
      BY <1>0, <1>1 DEF Destroyer, Cleanups
    <3>2. FoundSessions(d)' /\ \A t \in Sessions : IsClean(t)'
      BY <1>0, <1>1, <1>6, <3>1, FoundKept, OnwardClean
    <3>3. Unburied' = {} /\ IsDestroyed'
      BY <1>1, <3>1 DEF Unburied, NeedsBurial, IsDestroyed
    <3> QED BY <1>1, <2>2, <3>1, <3>2, <3>3 DEF Destroyer, Cleanups, ShouldDisconnectProviderSession
  <2> QED BY <1>3, <2>1, <2>2
<1>11. \A e \in Destroyers : Destroyer(e)'
  BY <1>1, <1>3, <1>6, <1>10, OthersKept
<1> QED BY <1>4, <1>7, <1>8, <1>9, <1>11 DEF InstanceInv

LEMMA AnnounceKeeps ==
  ASSUME InstanceInv, NEW d \in Destroyers, PublishDestroyed(d) PROVE InstanceInv'
<1>0. InstanceTypes /\ Destroyer(d)
  BY DEF InstanceInv
<1>1. /\ phase[d] = "disconnect" /\ todo[d] = {}
      /\ \/ Tell(d, "accepted") /\ announced' = announced \cup {d}
         \/ Tell(d, "failed_accepted") /\ announced' = announced
      /\ UNCHANGED <<instance, sessions, jobs, closed, seen, working, moved>>
  BY DEF PublishDestroyed
<1>2. told[d] = Null
  BY <1>0, <1>1 DEF InstanceTypes
<1>3. /\ phase' \in [Destroyers -> DestroyPhases] /\ told' \in [Destroyers -> Tellings]
      /\ todo' = todo /\ phase'[d] = "done"
      /\ \/ told'[d] = "accepted" /\ announced' = announced \cup {d}
         \/ told'[d] = "failed_accepted" /\ announced' = announced
      /\ \A e \in Destroyers \ {d} : phase'[e] = phase[e] /\ told'[e] = told[e]
  <2>1. CASE Tell(d, "accepted") /\ announced' = announced \cup {d}
    BY <1>0, <2>1, WasTold DEF Tellings
  <2>2. CASE Tell(d, "failed_accepted") /\ announced' = announced
    BY <1>0, <2>2, WasTold DEF Tellings
  <2> QED BY <1>1, <2>1, <2>2
<1>4. InstanceTypes'
  BY <1>0, <1>1, <1>3 DEF InstanceTypes, IsJobIn, IsRow, SessionRows, SeedRow, Cleaned
<1>5. Started /\ Started'
  BY <1>1, <1>3 DEF Started
<1>6. Onward
  BY <1>1, <1>5 DEF Onward, IsDestroyed
<1>7. /\ IsDestroyed /\ Unburied = {} /\ \A s \in Sessions : IsClean(s)
      /\ \A s \in Sessions : ShouldDisconnectProviderSession(seen[d].sessions[s]) => s \in closed
  BY <1>0, <1>1 DEF Destroyer, Cleanups
<1>8. Announced'
  BY <1>1, <1>5, <1>7 DEF Announced, Unburied, NeedsBurial, IsDestroyed, IsClean
<1>9. Working'
  BY <1>1 DEF InstanceInv, Working, IsJobIn, IsRow
<1>10. Sockets'
  <2>1. ASSUME NEW s \in Sessions, NEW e \in Destroyers, Owes(e, s)
        PROVE  \/ Owes(e, s)'
               \/ s \in closed'
               \/ SeedSessions[s] \notin {"active", "expired", "pending"}
    <3>1. CASE e # d
      BY <1>1, <1>3, <2>1, <3>1 DEF Owes, SeedRow
    <3>2. CASE e = d
      <4>1. seen[d].sessions[s] = SeedRow(s) /\ SeedRow(s) # Null
        BY <1>1, <1>2, <2>1, <3>2, InstanceSeed DEF Owes, Cleanups
      <4> QED BY <1>1, <1>7, <4>1, CleanedRows DEF ShouldDisconnectProviderSession
    <3> QED BY <3>1, <3>2
  <2> QED BY <1>1, <1>6, <2>1, SocketsKept
<1>11. Hearing'
  <2>1. AtIt(d)' \/ announced' # {}
    BY <1>1, <1>3 DEF AtIt
  <2>2. \A e \in Destroyers : AtIt(e) => AtIt(e)' \/ announced' # {}
    BY <1>3, <2>1 DEF AtIt, InProgress
  <2>3. \A e \in Destroyers : told'[e] = "accepted" => told[e] = "accepted" \/ announced' # {}
    BY <1>3
  <2>4. announced \subseteq announced'
    BY <1>3
  <2> QED BY <1>1, <2>2, <2>3, <2>4, HearingKept DEF IsDestroyed
<1>12. Destroyer(d)'
  BY <1>3 DEF Destroyer, Cleanups
<1>13. \A e \in Destroyers : Destroyer(e)'
  BY <1>1, <1>3, <1>6, <1>12, OthersKept
<1> QED BY <1>4, <1>8, <1>9, <1>10, <1>11, <1>13 DEF InstanceInv


LEMMA CutKeeps ==
  ASSUME InstanceInv, CrashDestroyers PROVE InstanceInv'
<1>0. InstanceTypes
  BY DEF InstanceInv
<1>1. UNCHANGED <<instance, sessions, jobs, closed, todo, seen, told, announced, working, moved>>
  BY DEF CrashDestroyers
<1>2. /\ phase' \in [Destroyers -> DestroyPhases]
      /\ \A d \in Destroyers : \/ d \in InProgress /\ phase'[d] = "cut"
                               \/ d \notin InProgress /\ phase'[d] = phase[d]
  BY <1>0 DEF CrashDestroyers, InstanceTypes, DestroyPhases
<1>3. InstanceTypes'
  BY <1>0, <1>1, <1>2
  DEF InstanceTypes, IsJobIn, IsRow, SessionRows, SeedRow, Cleaned, InProgress
<1>4. Onward
  BY <1>1, <1>2 DEF Onward, IsDestroyed, Started, InProgress
<1>5. Working' /\ Announced'
  BY <1>1, <1>4, AnnouncedKept DEF InstanceInv, Working, IsJobIn, IsRow
<1>6. Sockets'
  <2>1. \A s \in Sessions, e \in Destroyers : Owes(e, s) => Owes(e, s)'
    BY <1>1, <1>2 DEF Owes, SeedRow, InProgress
  <2> QED BY <1>1, <1>4, <2>1, SocketsKept
<1>7. Hearing'
  <2>1. \A e \in Destroyers : AtIt(e) => AtIt(e)'
    BY <1>1, <1>2 DEF AtIt, InProgress
  <2> QED BY <1>1, <2>1, HearingKept DEF IsDestroyed
<1>8. \A d \in Destroyers : Destroyer(d)'
  <2> TAKE d \in Destroyers
  <2>1. CASE phase'[d] = "cut"
    BY <2>1 DEF Destroyer, Cleanups
  <2>2. CASE phase'[d] = phase[d]
    BY <1>1, <1>4, <2>2, OthersKept
  <2> QED BY <1>2, <2>1, <2>2
<1> QED BY <1>3, <1>5, <1>6, <1>7, <1>8 DEF InstanceInv

-----------------------------------------------------------------------------
(* Steps of others.                                                        *)

\* The rows of jobs that a worker moves, and nothing else that a command looks at.
LEMMA OthersStep ==
  ASSUME InstanceInv, UNCHANGED <<sessions, destroyVars>>, Onward, IsDestroyed' => IsDestroyed,
         instance' \in {Null} \cup Undestroyed \cup {DestroyInstance(a) : a \in Undestroyed},
         DOMAIN jobs' = AllJobs,
         \A j \in AllJobs : jobs'[j] = jobs[j] \/ IsJobIn(jobs'[j], JobStatuses),
         Working'
  PROVE  InstanceInv'
<1>0. InstanceTypes
  BY DEF InstanceInv
<1>1. UNCHANGED <<closed, phase, todo, seen, told, announced>>
  BY DEF destroyVars
<1>2. InstanceTypes'
  <2>1. \A s \in Sessions : SessionRows(s)' = SessionRows(s)
    BY DEF SessionRows, SeedRow, Cleaned
  <2>2. \A j \in AllJobs : jobs'[j] = Null \/ IsJobIn(jobs'[j], JobStatuses)
    BY <1>0 DEF InstanceTypes
  <2>3. \A b \in Undestroyed : DestroyInstance(b)' = DestroyInstance(b)
    OBVIOUS
  <2> QED BY <1>0, <1>1, <2>1, <2>2, <2>3 DEF InstanceTypes, IsJobIn, IsRow
<1>3. Announced'
  BY <1>1, AnnouncedKept
<1>4. Sockets'
  <2>1. \A s \in Sessions, e \in Destroyers : Owes(e, s) => Owes(e, s)'
    BY <1>1 DEF Owes, SeedRow
  <2> QED BY <2>1, SocketsKept
<1>5. Hearing'
  <2>1. \A e \in Destroyers : AtIt(e) => AtIt(e)'
    BY <1>1 DEF AtIt, InProgress
  <2> QED BY <1>1, <2>1, HearingKept
<1>6. \A e \in Destroyers : Destroyer(e)'
  BY <1>1, OthersKept
<1> QED BY <1>2, <1>3, <1>4, <1>5, <1>6 DEF InstanceInv

LEMMA CreateKeeps ==
  ASSUME InstanceInv, CreateInstanceCommand PROVE InstanceInv'
<1>1. /\ instance = Null /\ instance' = CreateInstance
      /\ UNCHANGED <<sessions, jobs, destroyVars, working, moved>>
  BY DEF CreateInstanceCommand
<1>2. instance' \in Undestroyed
  BY <1>1 DEF Undestroyed
<1>3. ~IsDestroyed /\ ~IsDestroyed'
  BY <1>1, <1>2, UndestroyedRows DEF IsDestroyed
<1>4. Onward
  BY <1>1, <1>3 DEF Onward, Started, destroyVars
<1>5. Working'
  BY <1>1 DEF InstanceInv, Working, IsJobIn, IsRow
<1>6. DOMAIN jobs' = AllJobs
  BY <1>1 DEF InstanceInv, InstanceTypes
<1> QED BY <1>1, <1>2, <1>3, <1>4, <1>5, <1>6, OthersStep

LEMMA WorkerTypes ==
  ASSUME InstanceInv
  PROVE  /\ DOMAIN jobs = AllJobs
         /\ instance \in {Null} \cup Undestroyed \cup {DestroyInstance(a) : a \in Undestroyed}
         /\ {"job", "at", "copy", "verdict"} \subseteq DOMAIN working
         /\ \A j \in OwnJobs : j \in AllJobs
BY DEF InstanceInv, InstanceTypes, Working, AllJobs

LEMMA ReserveKeeps ==
  ASSUME InstanceInv, NEW j \in OwnJobs, ReserveJob(j) PROVE InstanceInv'
<1> DEFINE n == IF jobs[j].attempt = 0 THEN 1 ELSE jobs[j].attempt
<1>1. /\ jobs[j] # Null /\ jobs[j].status \in {"queued", "retrying"}
      /\ jobs' = [jobs EXCEPT ![j] = ReserveWorkerJob(jobs[j], n)]
      /\ working' = [Idle EXCEPT !.job = j, !.copy = jobs'[j], !.at = "instance"]
      /\ moved' = IF Started THEN moved \cup {j} ELSE moved
      /\ UNCHANGED <<instance, sessions, destroyVars>>
  BY WorkerTypes DEF ReserveJob
<1> HIDE DEF n
<1>2. IsJobIn(jobs[j], {"queued", "retrying"})
  BY <1>1, WorkerTypes DEF InstanceInv, InstanceTypes, IsJobIn
<1>3. IsJobIn(ReserveWorkerJob(jobs[j], n), {"reserved"})
  BY <1>2, JobReserved
<1>4. /\ DOMAIN jobs' = AllJobs /\ IsJobIn(jobs'[j], JobStatuses)
      /\ \A k \in AllJobs \ {j} : jobs'[k] = jobs[k]
  BY <1>1, <1>3, WorkerTypes DEF IsJobIn, JobStatuses, WorkerJobTransitions
<1>5. IsDestroyed' <=> IsDestroyed
  BY <1>1 DEF IsDestroyed
<1>6. Onward
  BY <1>1, <1>4, <1>5 DEF Onward, Started, destroyVars, AllJobs
<1>7. Working'
  <2>1. working'.at = "instance" /\ working'.job = j
        /\ {"job", "at", "copy", "verdict"} \subseteq DOMAIN working'
    BY <1>1 DEF Idle
  <2> QED BY <1>4, <2>1 DEF Working, IsJobIn, IsRow, JobStatuses
<1> QED BY <1>1, <1>4, <1>5, <1>6, <1>7, OthersStep, WorkerTypes

LEMMA HandleKeeps ==
  ASSUME InstanceInv, HandleJob \/ LoadReserved PROVE InstanceInv'
<1>0. Working
  BY DEF InstanceInv
<1>1. UNCHANGED <<instance, sessions, jobs, destroyVars, moved>>
  BY DEF HandleJob, LoadReserved
<1>2. IsDestroyed' <=> IsDestroyed
  BY <1>1 DEF IsDestroyed
<1>3. Onward
  BY <1>1, <1>2 DEF Onward, Started, destroyVars
<1>4. Working'
  <2>1. CASE HandleJob
    <3>1. /\ DOMAIN working' = DOMAIN working /\ working'.job = working.job
          /\ working'.at \in {"session", "deliver", "load"} /\ working.at # "idle"
      BY <1>0, <2>1 DEF HandleJob, Verdict, Working
    <3> QED BY <1>0, <1>1, <3>1 DEF Working, IsJobIn, IsRow
  <2>2. CASE LoadReserved
    <3>1. CASE working' = Idle
      BY <3>1 DEF Working, Idle
    <3>2. CASE /\ jobs[working.job].status = "reserved"
               /\ working' = [working EXCEPT !.at = "save", !.copy = jobs[working.job]]
      <4>1. /\ DOMAIN working' = DOMAIN working /\ working'.job = working.job
            /\ working'.at = "save" /\ working'.copy = jobs[working.job]
        BY <1>0, <3>2 DEF Working
      <4>2. working.at # "idle"
        BY <2>2 DEF LoadReserved
      <4> QED BY <1>0, <1>1, <3>2, <4>1, <4>2 DEF Working, IsJobIn, IsRow
    <3> QED BY <2>2, <3>1, <3>2 DEF LoadReserved
  <2> QED BY <2>1, <2>2
<1> QED BY <1>1, <1>2, <1>3, <1>4, OthersStep, WorkerTypes

LEMMA SettleKeeps ==
  ASSUME InstanceInv, SettleJob PROVE InstanceInv'
<1> DEFINE copy == working.copy
           j == working.job
           retried == RetryWorkerJob(copy, copy.attempt + 1)
           settled == CASE working.verdict = "completed" -> CompleteWorkerJob(StartWorkerJob(copy))
                        [] working.verdict = "retrying" /\ retried # Throws -> retried
                        [] OTHER -> MarkWorkerJobDead(copy)
<1>1. /\ working.at = "save" /\ working' = Idle
      /\ jobs' = [jobs EXCEPT ![j] = settled]
      /\ moved' = IF Started THEN moved \cup {j} ELSE moved
      /\ UNCHANGED <<instance, sessions, destroyVars>>
  BY DEF SettleJob
<1>2. j \in OwnJobs /\ IsJobIn(copy, {"reserved"})
  BY <1>1 DEF InstanceInv, Working
<1>3. IsJobIn(settled, JobStatuses)
  <2>1. \A a, status : status \in JobStatuses /\ IsJobIn(a, {status}) => IsJobIn(a, JobStatuses)
    BY DEF IsJobIn
  <2>2. {"completed", "retrying", "dead"} \subseteq JobStatuses
    BY DEF JobStatuses, WorkerJobTransitions
  <2>3. CASE working.verdict = "completed"
    <3>1. working.verdict # "retrying"
      BY <2>3
    <3>2. settled = CompleteWorkerJob(StartWorkerJob(copy))
      BY <2>3, <3>1, Zenon
    <3> HIDE DEF settled, copy
    <3> QED BY <1>2, <2>1, <2>2, <3>2, JobCompleted
  <2>4. CASE working.verdict = "retrying" /\ retried # Throws
    <3>1. working.verdict # "completed"
      BY <2>4
    <3>2. settled = retried
      BY <2>4, <3>1, Zenon
    <3>3. IsJobIn(retried, {"retrying"})
      BY <1>2, <2>4, JobRetried
    <3> HIDE DEF settled, copy, retried
    <3> QED BY <2>1, <2>2, <3>2, <3>3
  <2>5. CASE /\ working.verdict # "completed"
             /\ ~(working.verdict = "retrying" /\ retried # Throws)
    <3>1. settled = MarkWorkerJobDead(copy)
      BY <2>5, Zenon
    <3>2. IsJobIn(copy, ListedStatuses)
      BY <1>2 DEF IsJobIn, ListedStatuses
    <3> HIDE DEF settled, copy
    <3> QED BY <2>1, <2>2, <3>1, <3>2, JobBuried
  <2> QED BY <2>3, <2>4, <2>5
<1> HIDE DEF settled, copy, retried
<1>4. /\ DOMAIN jobs' = AllJobs /\ IsJobIn(jobs'[j], JobStatuses)
      /\ \A k \in AllJobs \ {j} : jobs'[k] = jobs[k]
  BY <1>1, <1>2, <1>3, WorkerTypes
<1> HIDE DEF j
<1>5. IsDestroyed' <=> IsDestroyed
  BY <1>1 DEF IsDestroyed
<1>6. Onward
  BY <1>1, <1>4, <1>5 DEF Onward, Started, destroyVars, AllJobs
<1>7. Working'
  BY <1>1 DEF Working, Idle
<1> QED BY <1>1, <1>2, <1>4, <1>5, <1>6, <1>7, OthersStep, WorkerTypes

-----------------------------------------------------------------------------
(* A destroyed instance is cleaned up.                                     *)

LEMMA InstanceKept == InstanceInv /\ [InstanceNext]_instanceVars => InstanceInv'
<1> SUFFICES ASSUME InstanceInv, [InstanceNext]_instanceVars PROVE InstanceInv'
  OBVIOUS
<1>1. CASE UNCHANGED instanceVars
  <2>1. UNCHANGED <<instance, sessions, jobs, destroyVars, working, moved>>
    BY <1>1 DEF instanceVars
  <2>2. Onward /\ (IsDestroyed' => IsDestroyed)
    BY <2>1 DEF Onward, IsDestroyed, Started, destroyVars
  <2>3. Working'
    BY <2>1 DEF InstanceInv, Working, IsJobIn, IsRow
  <2> QED BY <2>1, <2>2, <2>3, OthersStep, WorkerTypes
<1>2. CASE CreateInstanceCommand
  BY <1>2, CreateKeeps
<1>3. CASE CrashDestroyers
  BY <1>3, CutKeeps
<1>4. CASE HandleJob \/ LoadReserved
  BY <1>4, HandleKeeps
<1>5. CASE SettleJob
  BY <1>5, SettleKeeps
<1>6. ASSUME NEW j \in OwnJobs, ReserveJob(j) PROVE InstanceInv'
  BY <1>6, ReserveKeeps
<1>7. ASSUME NEW d \in Destroyers, DestroyStep(d) PROVE InstanceInv'
  BY <1>7, StartKeeps, FindKeeps, SavingKeeps, ListingKeeps, LeavingKeeps, AnnounceKeeps,
     CleanKeeps, DisconnectKeeps, ListKeeps, BuryKeeps DEF DestroyStep
<1> QED BY <1>1, <1>2, <1>3, <1>4, <1>5, <1>6, <1>7 DEF InstanceNext

LEMMA InvIsCleanup == InstanceInv => Cleanup
<1> SUFFICES ASSUME InstanceInv PROVE Cleanup
  OBVIOUS
<1>1. ASSUME announced # {}
      PROVE  /\ instance.status = "destroyed"
             /\ \A s \in Sessions :
                  ~NeedsCleanup(s) /\ (NeedsClosing(s) => s \in closed \/ LeftBehind)
             /\ \A j \in OwnJobs \ moved : ~NeedsBurial(j)
  <2>1. IsDestroyed /\ Unburied = {} /\ \A s \in Sessions : IsClean(s)
    BY <1>1 DEF InstanceInv, Announced
  <2>2. \A s \in Sessions : ~NeedsCleanup(s)
    BY <2>1 DEF IsClean, NeedsCleanup
  <2>3. ASSUME NEW s \in Sessions, NeedsClosing(s), s \notin closed PROVE LeftBehind
    <3>1. sessions[s] # SeedRow(s)
      BY <2>1, <2>3, CleanedRows DEF IsClean, NeedsClosing
    <3>2. PICK d \in Destroyers : Owes(d, s)
      BY <2>3, <3>1 DEF InstanceInv, Sockets
    <3> QED BY <3>2 DEF Owes, LeftBehind, InProgress, Cleanups
  <2> QED BY <2>1, <2>2, <2>3 DEF IsDestroyed, Unburied
<1>2. "accepted" \in {told[d] : d \in Destroyers} => announced # {} \/ LeftBehind
  BY DEF InstanceInv, Hearing
<1> QED BY <1>1, <1>2 DEF Cleanup

LEMMA OnlyRaced ==
  InstanceInv /\ [InstanceNext]_instanceVars => OnlyRacedJobsMove \/ UNCHANGED instanceVars
<1> SUFFICES ASSUME InstanceInv, InstanceNext PROVE OnlyRacedJobsMove
  OBVIOUS
<1>0. DOMAIN jobs = AllJobs
  BY WorkerTypes
<1>1. CASE jobs' = jobs
  BY <1>1 DEF OnlyRacedJobsMove, AllJobs
<1>2. ASSUME NEW d \in Destroyers, NEW j \in AllJobs, BuryJob(d, j) PROVE OnlyRacedJobsMove
  <2>1. /\ phase[d] = "bury" /\ j \in todo[d]
        /\ \A k \in AllJobs \ {j} : jobs'[k] = jobs[k]
    BY <1>0, <1>2 DEF BuryJob
  <2>2. j \in OwnJobs /\ seen[d].jobs[j].status \notin SettledJob
    <3>1. ListedJobs(d) /\ j \in DOMAIN seen[d].jobs
      BY <2>1 DEF InstanceInv, Destroyer, Cleanups
    <3> QED BY <3>1 DEF ListedJobs, IsJobIn, ListedStatuses, SettledJob
  <2> QED BY <2>1, <2>2, InstanceSeed DEF OnlyRacedJobsMove, AllJobs
<1>3. ASSUME NEW j \in OwnJobs, ReserveJob(j) PROVE OnlyRacedJobsMove
  <2>1. /\ jobs[j].status \in {"queued", "retrying"}
        /\ \A k \in AllJobs \ {j} : jobs'[k] = jobs[k]
    BY <1>0, <1>3 DEF ReserveJob
  <2> QED BY <2>1, InstanceSeed DEF OnlyRacedJobsMove, AllJobs, SettledJob
<1>4. CASE SettleJob
  <2>1. /\ working.at = "save" /\ working.job \in OwnJobs
        /\ \A k \in AllJobs \ {working.job} : jobs'[k] = jobs[k]
    BY <1>0, <1>4 DEF SettleJob, InstanceInv, Working
  <2> QED BY <2>1, InstanceSeed DEF OnlyRacedJobsMove, AllJobs
<1>5. jobs' = jobs \/ SettleJob \/ (\E j \in OwnJobs : ReserveJob(j))
      \/ \E d \in Destroyers, j \in AllJobs : BuryJob(d, j)
  <2>1. ASSUME NEW d \in Destroyers, DestroyStep(d)
        PROVE  jobs' = jobs \/ \E j \in AllJobs : BuryJob(d, j)
    BY <2>1 DEF DestroyStep, StartDestroy, FindSessions, SaveDestroyed, StartListing,
                StartDisconnect, PublishDestroyed, CleanSession, DisconnectSession, ListJobs
  <2> QED BY <2>1 DEF InstanceNext, CreateInstanceCommand, CrashDestroyers, HandleJob, LoadReserved
<1> QED BY <1>1, <1>2, <1>3, <1>4, <1>5

\* Whatever destroy commands overlap with one another and with a worker, are cut off or
\* refused: an instance announced as destroyed is cleaned up, but for the jobs a worker
\* moved and the sockets that a command left in the middle owes, and no other job is
\* touched (destroyInstance and what it calls).
THEOREM DestroyCleansUp == InstanceSpec => DestroyedIsCleaned
<1>1. InstanceInv /\ [InstanceNext]_instanceVars => InstanceInv' /\ [OnlyRacedJobsMove]_instanceVars
  BY InstanceKept, OnlyRaced
<1>2. InstanceInv' => Cleanup'
  BY InvIsCleanup, PTL
<1>3. InstanceInv /\ [InstanceNext]_instanceVars => [Cleanup' /\ OnlyRacedJobsMove]_instanceVars
  BY <1>1, <1>2
<1> QED BY InstanceInitHolds, InstanceKept, <1>3, PTL DEF InstanceSpec, DestroyedIsCleaned

(***************************************************************************)
(* Part 6.  The queue one process keeps.  Every write of the file may be   *)
(* refused, and the process may be killed after any of them, also between  *)
(* the row of a job and its key; what the invariant says of each job links *)
(* its row in memory, its row in the file and its entry.                   *)
(***************************************************************************)

QueueStatuses == {"queued", "reserved", "retrying", "completed", "dead"}
IsMade(a) == a.status # "none"

\* A row of the queue; of one that is not there only that it is NoRow.
IsQueueRow(a) ==
  /\ IsRow(a)
  /\ a.status \in QueueStatuses \cup {"none"}
  /\ a.attempt \in 0..MaxAttempts
  /\ a.status = "queued" => a.attempt = 0
  /\ a.status = "none" => a = NoRow

\* What stands for a job that is not there is a row, at no status and no attempt.
LEMMA NoRowIsNone == IsQueueRow(NoRow) /\ NoRow.status = "none" /\ NoRow.attempt = 0
BY DomainBounds DEF IsQueueRow, IsRow, NoRow, Throws, New

\* Recording an event leaves a job's attempt alone.
LEMMA NotedAttempt ==
  ASSUME NEW a, IsRow(a), NEW event
  PROVE  Noting(a, event).attempt = a.attempt
<1>1. Emit(a, event).attempt = a.attempt
  BY DEF IsRow, Emit
<1> QED BY <1>1 DEF Noting

\* A change of a job's status that its table allows, or that is none.
LEMMA QueueRowMoves ==
  ASSUME NEW a, IsRow(a), NEW next,
         next = a.status \/ next \in WorkerJobTransitions[a.status], NEW event, NEW sets
  PROVE  LET b == TransitionWorkerJob(a, next, event, sets) IN
         IsRow(b) /\ b.status = next /\ b.attempt = a.attempt
<1> DEFINE c == [a EXCEPT !.status = next, !.was = @ \cup {a.status}, !.has = (@ \ {}) \cup sets]
<1>1. IsRow(c) /\ c.status = next /\ c.attempt = a.attempt
  BY DEF IsRow
<1>2. TransitionWorkerJob(a, next, event, sets) = Noting(c, event)
  BY DEF TransitionWorkerJob, Transition
<1> HIDE DEF c
<1> QED BY <1>1, <1>2, RowNoted, NotedAttempt

\* Setting a job's attempt leaves its status alone.
LEMMA QueueRowAttempted ==
  ASSUME NEW a, IsRow(a), a.status # "none", NEW n
  PROVE  LET b == Attempted(a, n) IN IsRow(b) /\ b.status = a.status /\ b.attempt = n
<1>1. a # Throws
  BY NoRowIsNone DEF NoRow
<1>2. Attempted(a, n) = [a EXCEPT !.attempt = n]
  BY <1>1 DEF Attempted
<1> QED BY <1>2 DEF IsRow

\* enqueue makes a queued job, at no attempt.
LEMMA QueuedRow ==
  /\ IsQueueRow(QueueWorkerJob) /\ QueueWorkerJob # Throws
  /\ QueueWorkerJob.status = "queued" /\ QueueWorkerJob.attempt = 0
<1> DEFINE a == New("WorkerJob", "queued", {})
<1>1. IsRow(a) /\ a.status = "queued" /\ a.attempt = 0
  BY DEF New, IsRow
<1>2. QueueWorkerJob = Noting(a, "WorkerJobQueued")
  BY DEF QueueWorkerJob, Noting, NoEvent
<1> HIDE DEF a
<1>3. IsRow(QueueWorkerJob) /\ QueueWorkerJob.status = "queued" /\ QueueWorkerJob.attempt = 0
  BY <1>1, <1>2, RowNoted, NotedAttempt
<1> QED BY <1>3, NoRowIsNone, DomainBounds DEF IsQueueRow, QueueStatuses, NoRow

\* What has not ended can be buried, and scheduled for a retry within the policy.
LEMMA DeadRow ==
  ASSUME NEW a, IsQueueRow(a), a.status \in {"queued", "reserved", "retrying"}
  PROVE  LET b == MarkWorkerJobDead(a) IN
         IsQueueRow(b) /\ b # Throws /\ b.status = "dead" /\ b.attempt = a.attempt
<1> DEFINE b == MarkWorkerJobDead(a)
<1>1. "dead" \in WorkerJobTransitions[a.status]
  BY DEF WorkerJobTransitions
<1>2. IsRow(b) /\ b.status = "dead" /\ b.attempt = a.attempt
  BY <1>1, QueueRowMoves DEF MarkWorkerJobDead, IsQueueRow
<1> HIDE DEF b
<1>3. IsQueueRow(b) /\ b # Throws
  BY <1>2, NoRowIsNone DEF IsQueueRow, QueueStatuses, NoRow
<1> QED BY <1>2, <1>3 DEF b

\* A retry scheduled within the policy takes the job to its attempt.
LEMMA RetriedRow ==
  ASSUME NEW a, IsQueueRow(a), a.status \in {"queued", "reserved", "retrying"},
         NEW n \in Nat, RetryWorkerJob(a, n) # Throws
  PROVE  LET b == RetryWorkerJob(a, n) IN
         IsQueueRow(b) /\ b.status = "retrying" /\ b.attempt = n /\ n <= MaxAttempts
<1> DEFINE b == RetryWorkerJob(a, n)
           c == TransitionWorkerJob(a, "retrying", "WorkerJobRetryScheduled", {"failureCategory"})
<1>1. n <= MaxAttempts
  BY DomainBounds DEF RetryWorkerJob
<1>2. "retrying" = a.status \/ "retrying" \in WorkerJobTransitions[a.status]
  BY DEF WorkerJobTransitions
<1>3. IsRow(c) /\ c.status = "retrying"
  BY <1>2, QueueRowMoves DEF IsQueueRow
<1>4. b = Attempted(c, n)
  BY <1>1, DomainBounds DEF RetryWorkerJob
<1> HIDE DEF b, c
<1>5. IsRow(b) /\ b.status = "retrying" /\ b.attempt = n
  BY <1>3, <1>4, QueueRowAttempted
<1>6. IsQueueRow(b)
  BY <1>1, <1>5, DomainBounds DEF IsQueueRow, QueueStatuses
<1> QED BY <1>1, <1>5, <1>6 DEF b

\* Recovering the reservation of a job that has not ended never throws.
LEMMA RecoveredRow ==
  ASSUME NEW a, IsQueueRow(a), a.status \in {"queued", "reserved", "retrying"}, NEW n \in Nat
  PROVE  Recovering(a, n) # Throws
<1> DEFINE c == TransitionWorkerJob(a, "retrying", "WorkerJobRetryScheduled", {"failureCategory"})
<1>1. CASE n > MaxAttempts
  <2>1. MarkWorkerJobDead(a) # Throws
    BY DeadRow
  <2> QED BY <1>1, <2>1 DEF Recovering
<1>2. CASE ~(n > MaxAttempts)
  <2>1. "retrying" = a.status \/ "retrying" \in WorkerJobTransitions[a.status]
    BY DEF WorkerJobTransitions
  <2>2. IsRow(c) /\ c.status = "retrying"
    BY <2>1, QueueRowMoves DEF IsQueueRow
  <2>3. Recovering(a, n) = Attempted(c, n)
    BY <1>2 DEF Recovering, RetryWorkerJob
  <2> HIDE DEF c
  <2>4. Recovering(a, n).status = "retrying"
    BY <2>2, <2>3, QueueRowAttempted
  <2> QED BY <2>4, NoRowIsNone DEF NoRow
<1> QED BY <1>1, <1>2

\* Only what is queued, to be retried or already reserved can be reserved.
LEMMA ReservedRow ==
  ASSUME NEW a, IsQueueRow(a), a.status # "none", NEW n \in Nat \ {0}
  PROVE  /\ Reserving(a, n) # Throws =>
              LET b == Reserving(a, n) IN
              IsQueueRow(b) /\ b.status = "reserved" /\ b.attempt = n /\ n <= MaxAttempts
         /\ n <= MaxAttempts /\ a.status \in {"queued", "retrying", "reserved"}
              => Reserving(a, n) # Throws
<1> DEFINE b == Reserving(a, n)
           c == TransitionWorkerJob(a, "reserved", "WorkerJobReserved", {})
<1>1. CASE n > MaxAttempts
  BY <1>1, DomainBounds DEF Reserving
<1>2. CASE n <= MaxAttempts /\ a.status \in {"completed", "dead"}
  <2>1. ~("reserved" = a.status \/ "reserved" \in WorkerJobTransitions[a.status])
    BY <1>2 DEF WorkerJobTransitions
  <2>2. c = Throws
    BY <2>1 DEF TransitionWorkerJob, Transition
  <2>3. b = Attempted(c, n)
    BY <1>2, DomainBounds DEF Reserving, ReserveWorkerJob
  <2>4. b = Throws
    BY <2>2, <2>3 DEF Attempted
  <2> QED BY <1>2, <2>4
<1>3. CASE n <= MaxAttempts /\ a.status \in {"queued", "retrying", "reserved"}
  <2>1. "reserved" = a.status \/ "reserved" \in WorkerJobTransitions[a.status]
    BY <1>3 DEF WorkerJobTransitions
  <2>2. IsRow(c) /\ c.status = "reserved"
    BY <2>1, QueueRowMoves DEF IsQueueRow
  <2>3. b = Attempted(c, n)
    BY <1>3, DomainBounds DEF Reserving, ReserveWorkerJob
  <2> HIDE DEF b, c
  <2>4. IsRow(b) /\ b.status = "reserved" /\ b.attempt = n
    BY <2>2, <2>3, QueueRowAttempted
  <2>5. IsQueueRow(b) /\ b # Throws
    BY <1>3, <2>4, NoRowIsNone, DomainBounds DEF IsQueueRow, QueueStatuses, NoRow
  <2> QED BY <1>3, <2>4, <2>5 DEF b
<1>4. a.status \in QueueStatuses
  BY DEF IsQueueRow
<1> QED BY <1>1, <1>2, <1>3, <1>4, DomainBounds DEF QueueStatuses

\* A reserved job can be completed, whether it was started or not.
LEMMA CompletedRow ==
  ASSUME NEW a, IsQueueRow(a), a.status = "reserved"
  PROVE  LET b == Completing(a) IN
         IsQueueRow(b) /\ b # Throws /\ b.status = "completed" /\ b.attempt = a.attempt
<1> DEFINE b == Completing(a)
           c == StartWorkerJob(a)
<1>1. /\ "running" \in WorkerJobTransitions["reserved"]
      /\ "completed" \in WorkerJobTransitions["running"]
  BY DEF WorkerJobTransitions
<1>2. IsRow(c) /\ c.status = "running" /\ c.attempt = a.attempt
  BY <1>1, QueueRowMoves DEF StartWorkerJob, IsQueueRow
<1>3. b = CompleteWorkerJob(c)
  BY DEF Completing
<1> HIDE DEF b, c
<1>4. IsRow(b) /\ b.status = "completed" /\ b.attempt = a.attempt
  BY <1>1, <1>2, <1>3, QueueRowMoves DEF CompleteWorkerJob
<1>5. IsQueueRow(b) /\ b # Throws
  BY <1>4, NoRowIsNone DEF IsQueueRow, QueueStatuses, NoRow
<1> QED BY <1>4, <1>5 DEF b

\* A row that is not at its end, and that one of its own entry or of the loop's next
\* round leads to.
Servable(row, entry) ==
  /\ entry.state = "none" => \/ row.status \in {"queued", "completed", "dead"}
                             \/ row.status = "retrying" /\ row.attempt < MaxAttempts
  /\ entry.state = "available" => entry.attempt + 1 <= MaxAttempts

EntryStates == {"none", "available", "reserved", "completed", "dead"}
EntryFields == {"state", "due", "attempt", "ref", "place"}
IsEntry(e) ==
  EntryFields \subseteq DOMAIN e /\ e.state \in EntryStates /\ e.attempt \in 0..MaxAttempts

LoopPlaces == {"rest", "recovering", "reserve", "reserving", "handle"}

QueueTypes ==
  /\ DOMAIN jobRows = QueueJobs /\ DOMAIN savedRows = QueueJobs /\ DOMAIN entries = QueueJobs
  /\ \A j \in QueueJobs :
       IsQueueRow(jobRows[j]) /\ IsQueueRow(savedRows[j]) /\ IsEntry(entries[j])
  /\ {jobKeys, savedKeys, known} \subseteq [QueueKeys -> 0..MaxJobs]
  /\ keyOf \in Seq(QueueKeys) /\ Len(keyOf) <= MaxJobs
  /\ asking \in [key : QueueKeys, by : {"client", "scheduler"}] \cup {NoCall}
  /\ loop \in LoopPlaces
  /\ window \in DOMAIN WindowKeys
  /\ runs \in [QueueJobs -> Nat]

\* The row of a job that a key leads to is in the file.
KeyLeads(j, k) == j # NoneMade => j \in DOMAIN keyOf /\ keyOf[j] = k /\ IsMade(savedRows[j])

AskingFor(j) == asking # NoCall /\ j = Len(keyOf)

\* What is being asked for has its row in the file, and no other job.
AskingIsNew ==
  asking # NoCall =>
    LET j == Len(keyOf) IN
    /\ j > 0 /\ keyOf[j] = asking.key /\ jobKeys[asking.key] = NoneMade
    /\ jobRows[j].status = "queued" /\ IsMade(savedRows[j])

KeysLead ==
  /\ \A k \in QueueKeys :
       KeyLeads(jobKeys[k], k) /\ KeyLeads(savedKeys[k], k) /\ KeyLeads(known[k], k)
  /\ \A j \in DOMAIN keyOf :
       \/ keyOf[j] \in doubtful
       \/ AskingFor(j)
       \/ jobKeys[keyOf[j]] = j /\ savedKeys[keyOf[j]] = j
  /\ \A k \in accepted : \E j \in DOMAIN keyOf : keyOf[j] = k /\ IsMade(savedRows[j])

Ended == {"completed", "dead"}

\* A job: its row, the row in the file, and its entry.
JobKept(j, row, saved, entry) ==
  /\ IsMade(row) => j \in DOMAIN keyOf
  /\ IsMade(saved) => IsMade(row)
  /\ entry.state # "none" => IsMade(row) /\ runs[j] <= entry.attempt
  /\ runs[j] <= row.attempt /\ runs[j] <= saved.attempt
  /\ entry.state = "available" => row.status \in {"queued", "retrying", "reserved"}
  /\ entry.state \in Ended => row.status = entry.state
  /\ j \in ended => /\ row.status \in Ended /\ saved.status \in Ended
                    /\ entry.state \in Ended \cup {"none"}
  /\ j \notin cutOff /\ IsMade(row) => Servable(row, entry)

AtHand ==
  IF loop = "handle" THEN hand.job \in QueueJobs /\ jobRows[hand.job].status = "reserved"
  ELSE hand = NoReservation

QueueInv ==
  /\ QueueTypes /\ AskingIsNew /\ KeysLead /\ AtHand
  /\ ended \subseteq QueueJobs
  /\ \A j \in QueueJobs : JobKept(j, jobRows[j], savedRows[j], entries[j])

\* A job that was made is one of the queue's.
LEMMA MadeJobs ==
  ASSUME QueueTypes
  PROVE  /\ Len(keyOf) \in Nat /\ Len(keyOf) <= MaxJobs /\ MaxJobs \in Nat
         /\ DOMAIN keyOf = 1..Len(keyOf) /\ DOMAIN keyOf \subseteq QueueJobs
<1>1. keyOf \in Seq(QueueKeys) /\ Len(keyOf) <= MaxJobs
  BY DEF QueueTypes
<1>2. Len(keyOf) \in Nat /\ DOMAIN keyOf = 1..Len(keyOf) /\ MaxJobs \in Nat
  BY <1>1, QueueBounds
<1>3. 1..Len(keyOf) \subseteq 1..MaxJobs
  BY <1>1, <1>2
<1> QED BY <1>1, <1>2, <1>3 DEF QueueJobs

\* The process starts on an empty file.
LEMMA QueueInitHolds == InMemoryInit => QueueInv
<1> SUFFICES ASSUME InMemoryInit PROVE QueueInv
  OBVIOUS
<1> USE DEF InMemoryInit
<1>1. /\ jobRows = [j \in QueueJobs |-> NoRow] /\ savedRows = [j \in QueueJobs |-> NoRow]
      /\ entries = [j \in QueueJobs |-> NoEntry]
      /\ jobKeys = NoKeys /\ savedKeys = NoKeys /\ known = NoKeys
      /\ \A k \in QueueKeys : NoKeys[k] = NoneMade
  BY DEF NoRows, NoEntries, NoKeys
<1>2. IsEntry(NoEntry) /\ NoEntry.state = "none" /\ NoEntry.attempt = 0
  BY DomainBounds DEF IsEntry, NoEntry, EntryFields, EntryStates
<1>3. keyOf = << >> /\ Len(keyOf) = 0 /\ DOMAIN keyOf = {}
  OBVIOUS
<1>4. QueueTypes
  <2>1. NoKeys \in [QueueKeys -> 0..MaxJobs]
    BY QueueBounds DEF NoKeys, NoneMade
  <2>2. 1 \in DOMAIN WindowKeys
    BY QueueBounds
  <2>3. \A j \in QueueJobs : IsQueueRow(jobRows[j]) /\ IsQueueRow(savedRows[j])
    BY <1>1, NoRowIsNone
  <2>4. \A j \in QueueJobs : IsEntry(entries[j])
    BY <1>1, <1>2
  <2>5. keyOf \in Seq(QueueKeys) /\ Len(keyOf) <= MaxJobs
    BY <1>3, QueueBounds
  <2>6. runs \in [QueueJobs -> Nat]
    OBVIOUS
  <2>7. loop \in LoopPlaces /\ asking = NoCall /\ window = 1
    BY DEF LoopPlaces
  <2> QED BY <1>1, <2>1, <2>2, <2>3, <2>4, <2>5, <2>6, <2>7 DEF QueueTypes
<1>5. AskingIsNew /\ AtHand
  BY DEF AskingIsNew, AtHand
<1>6. KeysLead
  BY <1>1, <1>3 DEF KeysLead, KeyLeads
<1>7. ASSUME NEW j \in QueueJobs PROVE JobKept(j, jobRows[j], savedRows[j], entries[j])
  <2>1. /\ jobRows[j] = NoRow /\ savedRows[j] = NoRow /\ entries[j] = NoEntry
        /\ runs[j] = 0 /\ j \notin ended
    BY <1>1
  <2> QED BY <1>2, <2>1, NoRowIsNone DEF JobKept, IsMade, Ended
<1> QED BY <1>4, <1>5, <1>6, <1>7 DEF QueueInv

\* What a save changes: the row of its job, and what the file says of the others.
LEMMA Rowed ==
  ASSUME QueueInv, NEW j \in QueueJobs, NEW job, NEW done \in BOOLEAN, SaveRow(j, job, done),
         job # Throws => IsQueueRow(job) /\ IsMade(job)
  PROVE  /\ DOMAIN jobRows' = QueueJobs /\ DOMAIN savedRows' = QueueJobs
         /\ \A i \in QueueJobs : IsQueueRow(jobRows'[i]) /\ IsQueueRow(savedRows'[i])
         /\ \A i \in QueueJobs \ {j} :
              jobRows'[i] = jobRows[i] /\ savedRows'[i] \in {savedRows[i], jobRows[i]}
         /\ jobRows'[j] = jobRows[j] \/ (job # Throws /\ jobRows'[j] = job)
         /\ \A i \in QueueJobs : IsMade(savedRows[i]) => IsMade(savedRows'[i])
         /\ done => job # Throws /\ jobRows'[j] = job /\ savedRows'[j] = job
         /\ ~done => savedRows'[j] = savedRows[j]
         /\ jobKeys' = jobKeys /\ savedKeys' \in {savedKeys, jobKeys}
<1>1. /\ DOMAIN jobRows = QueueJobs /\ DOMAIN savedRows = QueueJobs
      /\ \A i \in QueueJobs : IsQueueRow(jobRows[i]) /\ IsQueueRow(savedRows[i])
      /\ \A i \in QueueJobs : IsMade(savedRows[i]) => IsMade(jobRows[i])
  BY DEF QueueInv, QueueTypes, JobKept
<1>2. CASE job = Throws
  <2>1. ~done /\ UNCHANGED <<jobRows, jobKeys, savedRows, savedKeys>>
    BY <1>2 DEF SaveRow, repositoryVars
  <2> QED BY <1>1, <1>2, <2>1
<1>3. CASE job # Throws
  <2>1. /\ jobRows' = [jobRows EXCEPT ![j] = job] /\ jobKeys' = jobKeys
        /\ savedRows' = IF done THEN [jobRows EXCEPT ![j] = job] ELSE savedRows
        /\ savedKeys' = IF done THEN jobKeys ELSE savedKeys
    BY <1>3 DEF SaveRow, Persist
  <2>2. /\ DOMAIN jobRows' = QueueJobs /\ jobRows'[j] = job
        /\ \A i \in QueueJobs \ {j} : jobRows'[i] = jobRows[i]
    BY <1>1, <2>1
  <2>3. CASE done
    <3>1. savedRows' = jobRows' /\ savedKeys' = jobKeys
      BY <2>1, <2>3
    <3> QED BY <1>1, <1>3, <2>1, <2>2, <2>3, <3>1
  <2>4. CASE ~done
    <3>1. savedRows' = savedRows /\ savedKeys' = savedKeys
      BY <2>1, <2>4
    <3> QED BY <1>1, <1>3, <2>1, <2>2, <2>4, <3>1
  <2> QED BY <2>3, <2>4
<1> QED BY <1>2, <1>3

\* A job that a step leaves alone, whatever it writes to the file.
LEMMA JobAlone ==
  ASSUME NEW j \in QueueJobs, JobKept(j, jobRows[j], savedRows[j], entries[j]),
         jobRows'[j] = jobRows[j], entries'[j] = entries[j], runs'[j] = runs[j],
         savedRows'[j] \in {savedRows[j], jobRows[j]},
         j \in ended' => j \in ended, j \in cutOff => j \in cutOff',
         j \in DOMAIN keyOf => j \in DOMAIN keyOf'
  PROVE  JobKept(j, jobRows[j], savedRows[j], entries[j])'
BY DEF JobKept

\* The keys, when a step makes no job and asks for none.
LEMMA KeysAlone ==
  ASSUME QueueInv, UNCHANGED <<jobKeys, known, asking, keyOf, doubtful, accepted>>,
         savedKeys' \in {savedKeys, jobKeys},
         \A j \in QueueJobs : IsMade(savedRows[j]) => IsMade(savedRows'[j])
  PROVE  KeysLead'
<1>1. \A j \in DOMAIN keyOf : j \in QueueJobs
  BY MadeJobs DEF QueueInv
<1>2. \A j, k : KeyLeads(j, k) => KeyLeads(j, k)'
  BY <1>1 DEF KeyLeads
<1>3. ASSUME NEW k \in QueueKeys
      PROVE (KeyLeads(jobKeys[k], k) /\ KeyLeads(savedKeys[k], k) /\ KeyLeads(known[k], k))'
  <2>1. KeyLeads(jobKeys[k], k) /\ KeyLeads(savedKeys[k], k) /\ KeyLeads(known[k], k)
    BY DEF QueueInv, KeysLead
  <2>2. KeyLeads(jobKeys[k], k)' /\ KeyLeads(known[k], k)'
    BY <1>2, <2>1
  <2>3. KeyLeads(savedKeys[k], k)'
    BY <1>2, <2>1
  <2> QED BY <2>2, <2>3
<1>4. ASSUME NEW j \in DOMAIN keyOf'
      PROVE  (\/ keyOf[j] \in doubtful
              \/ AskingFor(j)
              \/ jobKeys[keyOf[j]] = j /\ savedKeys[keyOf[j]] = j)'
  BY <1>4 DEF QueueInv, KeysLead, AskingFor
<1>5. ASSUME NEW k \in accepted'
      PROVE  (\E j \in DOMAIN keyOf : keyOf[j] = k /\ IsMade(savedRows[j]))'
  BY <1>1, <1>5 DEF QueueInv, KeysLead
<1> QED BY <1>3, <1>4, <1>5 DEF KeysLead

\* A process that starts again has the rows and keys of the file, and no entries.
LEMMA RestartKeepsQueue == QueueInv /\ Restart => QueueInv'
<1> SUFFICES ASSUME QueueInv, Restart PROVE QueueInv'
  OBVIOUS
<1> USE DEF Restart
<1>1. QueueTypes
  BY DEF QueueInv, QueueTypes
<1>2. /\ entries' = [j \in QueueJobs |-> NoEntry]
      /\ IsEntry(NoEntry) /\ NoEntry.state = "none"
  BY DomainBounds DEF IsEntry, NoEntry, EntryFields, EntryStates, NoEntries
<1>3. NoKeys \in [QueueKeys -> 0..MaxJobs] /\ \A k \in QueueKeys : NoKeys[k] = NoneMade
  BY QueueBounds DEF NoKeys, NoneMade
<1>4. /\ keyOf' = keyOf /\ savedRows' = savedRows /\ savedKeys' = savedKeys
      /\ jobRows' = savedRows /\ jobKeys' = savedKeys /\ known' = NoKeys
      /\ asking' = NoCall /\ loop' = "rest" /\ hand' = NoReservation
      /\ window' = window /\ runs' = runs /\ ended' = ended /\ accepted' = accepted
  OBVIOUS
<1>5. QueueTypes'
  <2>1. \A j \in QueueJobs : IsEntry(entries'[j])
    BY <1>2
  <2>2. "rest" \in LoopPlaces
    BY DEF LoopPlaces
  <2> QED BY <1>1, <1>2, <1>3, <1>4, <2>1, <2>2 DEF QueueTypes
<1>6. AskingIsNew' /\ AtHand' /\ (ended \subseteq QueueJobs)'
  BY <1>4 DEF AskingIsNew, AtHand, QueueInv
<1>7. KeysLead'
  <2>1. \A j, k : KeyLeads(j, k) => KeyLeads(j, k)'
    BY <1>4 DEF KeyLeads
  <2>2. ASSUME NEW k \in QueueKeys
        PROVE (KeyLeads(jobKeys[k], k) /\ KeyLeads(savedKeys[k], k) /\ KeyLeads(known[k], k))'
    <3>1. KeyLeads(savedKeys[k], k) /\ KeyLeads(NoneMade, k)
      BY DEF QueueInv, KeysLead, KeyLeads
    <3>2. jobKeys'[k] = savedKeys[k] /\ savedKeys'[k] = savedKeys[k] /\ known'[k] = NoneMade
      BY <1>3, <1>4
    <3> QED BY <2>1, <3>1, <3>2
  <2>3. ASSUME NEW j \in DOMAIN keyOf
        PROVE  (keyOf[j] \in doubtful \/ (jobKeys[keyOf[j]] = j /\ savedKeys[keyOf[j]] = j))'
    <3>1. CASE keyOf[j] \in doubtful
      BY <1>4, <3>1
    <3>2. CASE AskingFor(j)
      <4>1. asking # NoCall /\ keyOf[j] = asking.key
        BY <3>2 DEF AskingFor, QueueInv, AskingIsNew
      <4>2. asking.key \in QueueKeys
        BY <1>1, <4>1 DEF QueueTypes
      <4>3. asking.key \in doubtful'
        BY <4>2, QueueBounds
      <4> QED BY <1>4, <4>1, <4>3
    <3>3. CASE jobKeys[keyOf[j]] = j /\ savedKeys[keyOf[j]] = j
      BY <1>4, <3>3
    <3> QED BY <3>1, <3>2, <3>3 DEF QueueInv, KeysLead
  <2>4. (\A k \in accepted : \E j \in DOMAIN keyOf : keyOf[j] = k /\ IsMade(savedRows[j]))'
    BY <1>4 DEF QueueInv, KeysLead
  <2> QED BY <1>4, <2>2, <2>3, <2>4 DEF KeysLead
<1>8. ASSUME NEW j \in QueueJobs PROVE JobKept(j, jobRows[j], savedRows[j], entries[j])'
  <2>0. PICK saved : saved = savedRows[j]
    OBVIOUS
  <2>1. jobRows'[j] = saved /\ savedRows'[j] = saved /\ entries'[j] = NoEntry
    BY <1>2, <1>4, <2>0
  <2>2. JobKept(j, jobRows[j], saved, entries[j])
    BY <2>0 DEF QueueInv
  <2>3. IsQueueRow(saved)
    BY <1>1, <2>0 DEF QueueTypes
  <2>4. IsCutOff(saved) => j \in cutOff'
    BY <2>0
  <2>5. j \in cutOff => j \in cutOff'
    OBVIOUS
  <2>6. IsMade(saved) => j \in DOMAIN keyOf
    BY <2>2 DEF JobKept
  <2>7. j \notin cutOff' /\ IsMade(saved) => Servable(saved, NoEntry)
    BY <1>2, <2>3, <2>4, DomainBounds DEF Servable, IsCutOff, IsQueueRow, QueueStatuses, IsMade
  <2>8. JobKept(j, saved, saved, NoEntry)'
    <3>1. runs[j] <= saved.attempt
      BY <2>2 DEF JobKept
    <3>2. j \in ended => saved.status \in Ended
      BY <2>2 DEF JobKept
    <3> QED BY <1>2, <1>4, <2>6, <2>7, <3>1, <3>2 DEF JobKept, Ended
  <2> QED BY <2>1, <2>8
<1> QED BY <1>5, <1>6, <1>7, <1>8 DEF QueueInv

\* Time.
LEMMA TimeKeepsQueue ==
  QueueInv /\ (WindowPasses \/ (\E j \in QueueJobs : BecomesDue(j)) \/ UNCHANGED inMemoryVars)
    => QueueInv'
<1> SUFFICES ASSUME QueueInv,
                    WindowPasses \/ (\E j \in QueueJobs : BecomesDue(j)) \/ UNCHANGED inMemoryVars
             PROVE  QueueInv'
  OBVIOUS
<1>1. /\ UNCHANGED <<jobRows, jobKeys, savedRows, savedKeys, known, asking, loop, hand, keyOf>>
      /\ UNCHANGED <<accepted, ended, runs, doubtful, cutOff>>
  BY DEF WindowPasses, BecomesDue, repositoryVars, clientVars, loopVars, inMemoryVars
<1>2. /\ DOMAIN entries' = QueueJobs
      /\ \A i \in QueueJobs : /\ IsEntry(entries'[i]) /\ entries'[i].state = entries[i].state
                              /\ entries'[i].attempt = entries[i].attempt
  <2>1. DOMAIN entries = QueueJobs /\ \A i \in QueueJobs : IsEntry(entries[i])
    BY DEF QueueInv, QueueTypes
  <2>2. CASE entries' = entries
    BY <2>1, <2>2
  <2>3. ASSUME NEW j \in QueueJobs, BecomesDue(j) PROVE <1>2
    <3>1. entries' = [entries EXCEPT ![j] = [entries[j] EXCEPT !.due = TRUE]]
      BY <2>3 DEF BecomesDue
    <3> DEFINE e == [entries[j] EXCEPT !.due = TRUE]
    <3>2. IsEntry(e) /\ e.state = entries[j].state /\ e.attempt = entries[j].attempt
      BY <2>1 DEF IsEntry, EntryFields
    <3> HIDE DEF e
    <3> QED BY <2>1, <3>1, <3>2 DEF e
  <2> QED BY <2>2, <2>3 DEF WindowPasses, inMemoryVars
<1>3. window' \in DOMAIN WindowKeys
  <2>1. window \in DOMAIN WindowKeys
    BY DEF QueueInv, QueueTypes
  <2>2. CASE window' = window
    BY <2>1, <2>2
  <2>3. CASE WindowPasses
    BY <2>1, <2>3, QueueBounds DEF WindowPasses
  <2> QED BY <2>2, <2>3 DEF BecomesDue, clientVars, inMemoryVars
<1>4. QueueTypes'
  BY <1>1, <1>2, <1>3 DEF QueueInv, QueueTypes
<1>5. AskingIsNew' /\ AtHand' /\ (ended \subseteq QueueJobs)'
  BY <1>1 DEF QueueInv, AskingIsNew, AtHand
<1>6. KeysLead'
  BY <1>1, KeysAlone
<1>7. ASSUME NEW j \in QueueJobs PROVE JobKept(j, jobRows[j], savedRows[j], entries[j])'
  <2>1. JobKept(j, jobRows[j], savedRows[j], entries[j])
    BY DEF QueueInv
  <2> QED BY <1>1, <1>2, <2>1 DEF JobKept, Servable
<1> QED BY <1>4, <1>5, <1>6, <1>7 DEF QueueInv

\* An entry made of a row.
LEMMA EntryMade ==
  ASSUME NEW a, IsQueueRow(a), IsMade(a), NEW place
  PROVE  LET e == EntryOf(a, place) IN
         /\ IsEntry(e) /\ e.attempt = a.attempt
         /\ a.status \in {"queued", "retrying"} => e.state = "available"
         /\ a.status = "reserved" => e.state = "reserved"
         /\ a.status \in Ended => e.state = a.status
<1> DEFINE e == EntryOf(a, place)
<1>1. e.attempt = a.attempt /\ e.state = StateOf(a) /\ EntryFields \subseteq DOMAIN e
  BY DEF EntryOf, EntryFields
<1>2. /\ a.status \in {"queued", "retrying"} => StateOf(a) = "available"
      /\ a.status = "reserved" => StateOf(a) = "reserved"
      /\ a.status \in Ended => StateOf(a) = a.status
  <2>1. CASE a.status \in {"queued", "retrying"}
    <3>1. a.status \notin {"reserved", "running"} /\ a.status \notin Ended
      BY <2>1 DEF Ended
    <3>2. StateOf(a) = "available"
      BY <2>1, <3>1, Zenon DEF StateOf
    <3> QED BY <2>1, <3>1, <3>2
  <2>2. CASE a.status = "reserved"
    <3>1. a.status \notin {"queued", "retrying"} /\ a.status \notin Ended
      BY <2>2 DEF Ended
    <3>2. a.status \in {"reserved", "running"}
      BY <2>2
    <3>3. StateOf(a) = "reserved"
      BY <3>1, <3>2, Zenon DEF StateOf
    <3> QED BY <2>2, <3>1, <3>3
  <2>3. CASE a.status \in Ended
    <3>1. a.status \notin {"queued", "retrying"} /\ a.status \notin {"reserved", "running"}
      BY <2>3 DEF Ended
    <3>2. StateOf(a) = a.status
      BY <3>1, Zenon DEF StateOf
    <3> QED BY <2>3, <3>1, <3>2
  <2> QED BY <2>1, <2>2, <2>3 DEF IsQueueRow, IsMade, QueueStatuses, Ended
<1>3. IsEntry(e)
  <2>1. StateOf(a) \in EntryStates
    BY <1>2 DEF IsQueueRow, IsMade, QueueStatuses, Ended, EntryStates
  <2> HIDE DEF e
  <2> QED BY <1>1, <2>1 DEF IsEntry, IsQueueRow
<1> HIDE DEF e
<1> QED BY <1>1, <1>2, <1>3 DEF e

\* A row that has no entry keeps its promises with the one it gets.
LEMMA JobEnters ==
  ASSUME QueueTypes, NEW j \in QueueJobs, NEW row, IsQueueRow(row), IsMade(row), NEW saved,
         JobKept(j, row, saved, entries[j]), entries[j].state = "none", NEW place
  PROVE  JobKept(j, row, saved, EntryOf(row, place))
<1> DEFINE e == EntryOf(row, place)
<1>1. /\ IsEntry(e) /\ e.attempt = row.attempt
      /\ row.status \in {"queued", "retrying"} => e.state = "available"
      /\ row.status = "reserved" => e.state = "reserved"
      /\ row.status \in Ended => e.state = row.status
  BY EntryMade
<1> HIDE DEF e
<1>2. row.status \in QueueStatuses /\ row.attempt \in 0..MaxAttempts
      /\ (row.status = "queued" => row.attempt = 0)
  BY DEF IsQueueRow, IsMade
<1>3. j \notin cutOff => Servable(row, e)
  <2>1. j \notin cutOff => Servable(row, entries[j])
    BY DEF JobKept
  <2> QED BY <1>1, <1>2, <2>1, DomainBounds DEF Servable, QueueStatuses, Ended
<1>4. JobKept(j, row, saved, e)
  BY <1>1, <1>2, <1>3 DEF JobKept, QueueStatuses, Ended
<1> QED BY <1>4 DEF e

\* A loop that finds nothing to reserve rests.
LEMMA FindsNoneKeepsQueue == QueueInv /\ LoopFindsNone => QueueInv'
<1> SUFFICES ASSUME QueueInv, LoopFindsNone PROVE QueueInv'
  OBVIOUS
<1>1. /\ UNCHANGED <<jobRows, jobKeys, savedRows, savedKeys, known, asking, hand, keyOf, window>>
      /\ UNCHANGED <<accepted, ended, runs, doubtful, cutOff, entries>>
      /\ loop # "handle" /\ loop' = "rest"
  BY DEF LoopFindsNone, AtReserve, repositoryVars, clientVars
<1>2. QueueTypes'
  BY <1>1 DEF QueueInv, QueueTypes, LoopPlaces
<1>3. AskingIsNew' /\ AtHand' /\ (ended \subseteq QueueJobs)'
  BY <1>1 DEF QueueInv, AskingIsNew, AtHand
<1>4. KeysLead'
  BY <1>1, KeysAlone
<1>5. ASSUME NEW j \in QueueJobs PROVE JobKept(j, jobRows[j], savedRows[j], entries[j])'
  BY <1>1 DEF QueueInv, JobKept
<1> QED BY <1>2, <1>3, <1>4, <1>5 DEF QueueInv

\* recoverVisibleJobs gives an entry to each row that can be served and has none.
LEMMA VisibleKeepsQueue == QueueInv /\ RecoverVisibleJobs => QueueInv'
<1> SUFFICES ASSUME QueueInv, RecoverVisibleJobs PROVE QueueInv'
  OBVIOUS
<1>1. /\ UNCHANGED <<jobRows, jobKeys, savedRows, savedKeys, known, asking, hand, keyOf, window>>
      /\ UNCHANGED <<accepted, ended, runs, doubtful, cutOff>>
      /\ loop # "handle" /\ loop' = "reserve"
  BY DEF RecoverVisibleJobs, repositoryVars, clientVars
<1>2. /\ DOMAIN entries' = QueueJobs
      /\ \A j \in QueueJobs :
           \/ entries'[j] = entries[j]
           \/ /\ entries[j].state = "none" /\ jobRows[j].status \in {"queued", "retrying"}
              /\ entries'[j] = EntryOf(jobRows[j], PlaceOf(j))
  <2>1. entries' = [j \in QueueJobs |-> IF j \in Missing("queued") \cup Missing("retrying")
                                        THEN EntryOf(jobRows[j], PlaceOf(j)) ELSE entries[j]]
    BY DEF RecoverVisibleJobs
  <2>2. ASSUME NEW j \in QueueJobs, j \in Missing("queued") \cup Missing("retrying")
        PROVE  entries[j].state = "none" /\ jobRows[j].status \in {"queued", "retrying"}
    BY <2>2 DEF Missing, HasEntry
  <2> QED BY <2>1, <2>2
<1>3. ASSUME NEW j \in QueueJobs
      PROVE  IsEntry(entries'[j]) /\ JobKept(j, jobRows[j], savedRows[j], entries'[j])
  <2>1. /\ IsEntry(entries[j]) /\ IsQueueRow(jobRows[j])
        /\ JobKept(j, jobRows[j], savedRows[j], entries[j]) /\ QueueTypes
    BY DEF QueueInv, QueueTypes
  <2>2. CASE entries'[j] = entries[j]
    BY <2>1, <2>2
  <2>3. CASE /\ entries[j].state = "none" /\ jobRows[j].status \in {"queued", "retrying"}
             /\ entries'[j] = EntryOf(jobRows[j], PlaceOf(j))
    <3>1. IsMade(jobRows[j])
      BY <2>3 DEF IsMade
    <3> QED BY <2>1, <2>3, <3>1, EntryMade, JobEnters
  <2> QED BY <1>2, <2>2, <2>3
<1>4. QueueTypes'
  BY <1>1, <1>2, <1>3 DEF QueueInv, QueueTypes, LoopPlaces
<1>5. AskingIsNew' /\ AtHand' /\ (ended \subseteq QueueJobs)'
  BY <1>1 DEF QueueInv, AskingIsNew, AtHand
<1>6. KeysLead'
  BY <1>1, KeysAlone
<1>7. ASSUME NEW j \in QueueJobs PROVE JobKept(j, jobRows[j], savedRows[j], entries[j])'
  <2>1. PICK e : e = entries'[j]
    OBVIOUS
  <2>2. JobKept(j, jobRows[j], savedRows[j], e)
    BY <1>3, <2>1
  <2> QED BY <1>1, <2>1, <2>2 DEF JobKept
<1> QED BY <1>4, <1>5, <1>6, <1>7 DEF QueueInv

\* The job a key is found to lead to.
LEMMA FoundJob ==
  ASSUME QueueInv, NEW k \in QueueKeys, FindExistingJob(k) # NoneMade
  PROVE  LET j == FindExistingJob(k) IN
         /\ j \in QueueJobs /\ j \in DOMAIN keyOf /\ keyOf[j] = k
         /\ IsMade(savedRows[j]) /\ IsMade(jobRows[j])
<1> DEFINE j == FindExistingJob(k)
<1>1. KeyLeads(jobKeys[k], k) /\ KeyLeads(known[k], k)
  BY DEF QueueInv, KeysLead
<1>2. KeyLeads(j, k)
  BY <1>1 DEF FindExistingJob
<1> HIDE DEF j
<1>3. j # NoneMade
  BY DEF j
<1>4. j \in DOMAIN keyOf /\ keyOf[j] = k /\ IsMade(savedRows[j])
  BY <1>2, <1>3 DEF KeyLeads
<1>5. j \in QueueJobs
  BY <1>4, MadeJobs DEF QueueInv
<1>6. IsMade(jobRows[j])
  BY <1>4, <1>5 DEF QueueInv, JobKept
<1> QED BY <1>4, <1>5, <1>6 DEF j

\* enqueue finds a job of its key, and makes none.
LEMMA AgainKeepsQueue ==
  ASSUME QueueInv, NEW call, call.key \in QueueKeys, NoCallIsOpen, EnqueueAgain(call),
         UNCHANGED <<window, cutOff, restarts, loopVars>>
  PROVE  QueueInv'
<1> DEFINE k == call.key
           j == FindExistingJob(k)
<1>1. /\ j # NoneMade
      /\ known' = [known EXCEPT ![k] = j] /\ accepted' = accepted \cup {k}
      /\ entries' = IF HasEntry(j) THEN entries
                    ELSE [entries EXCEPT ![j] = EntryOf(jobRows[j], Length + 1)]
      /\ UNCHANGED <<jobRows, jobKeys, savedRows, savedKeys, asking, hand, loop, keyOf>>
      /\ UNCHANGED <<window, ended, runs, doubtful, cutOff>>
  BY DEF EnqueueAgain, Answers, repositoryVars, loopVars
<1>2. /\ j \in QueueJobs /\ j \in DOMAIN keyOf /\ keyOf[j] = k
      /\ IsMade(savedRows[j]) /\ IsMade(jobRows[j])
  BY <1>1, FoundJob
<1>3. k \in QueueKeys
  OBVIOUS
<1> HIDE DEF k, j
<1>4. QueueTypes
  BY DEF QueueInv
<1>5. /\ DOMAIN entries' = QueueJobs
      /\ \A i \in QueueJobs :
           \/ entries'[i] = entries[i]
           \/ /\ entries[i].state = "none" /\ IsMade(jobRows[i])
              /\ entries'[i] = EntryOf(jobRows[i], Length + 1)
  <2>1. DOMAIN entries = QueueJobs
    BY <1>4 DEF QueueTypes
  <2> QED BY <1>1, <1>2, <2>1 DEF HasEntry
<1>6. ASSUME NEW i \in QueueJobs
      PROVE  IsEntry(entries'[i]) /\ JobKept(i, jobRows[i], savedRows[i], entries'[i])
  <2>1. /\ IsEntry(entries[i]) /\ IsQueueRow(jobRows[i])
        /\ JobKept(i, jobRows[i], savedRows[i], entries[i])
    BY <1>4 DEF QueueInv, QueueTypes
  <2> QED BY <1>4, <1>5, <2>1, EntryMade, JobEnters
<1>7. known' \in [QueueKeys -> 0..MaxJobs] /\ known'[k] = j
      /\ \A l \in QueueKeys :
           known'[l] \in {known[l], j} /\ (known'[l] = j => l = k \/ known[l] = j)
  <2>1. known \in [QueueKeys -> 0..MaxJobs]
    BY <1>4 DEF QueueTypes
  <2>2. j \in 0..MaxJobs
    BY <1>2, QueueBounds DEF QueueJobs
  <2> QED BY <1>1, <1>3, <2>1, <2>2
<1>8. QueueTypes'
  BY <1>1, <1>4, <1>5, <1>6, <1>7 DEF QueueTypes
<1>9. AskingIsNew' /\ AtHand' /\ (ended \subseteq QueueJobs)'
  BY <1>1 DEF QueueInv, AskingIsNew, AtHand
<1>10. KeysLead'
  <2>1. \A i, l : KeyLeads(i, l) => KeyLeads(i, l)'
    BY <1>1 DEF KeyLeads
  <2>2. KeyLeads(j, k)
    BY <1>2 DEF KeyLeads
  <2>3. ASSUME NEW l \in QueueKeys
        PROVE  (KeyLeads(jobKeys[l], l) /\ KeyLeads(savedKeys[l], l) /\ KeyLeads(known[l], l))'
    <3>1. KeyLeads(jobKeys[l], l) /\ KeyLeads(savedKeys[l], l) /\ KeyLeads(known[l], l)
      BY DEF QueueInv, KeysLead
    <3>2. KeyLeads(known'[l], l)
      BY <1>7, <2>2, <3>1
    <3> QED BY <1>1, <2>1, <3>1, <3>2
  <2>4. ASSUME NEW i \in DOMAIN keyOf'
        PROVE  (\/ keyOf[i] \in doubtful
                \/ AskingFor(i)
                \/ jobKeys[keyOf[i]] = i /\ savedKeys[keyOf[i]] = i)'
    BY <1>1, <2>4 DEF QueueInv, KeysLead, AskingFor
  <2>5. (\A l \in accepted : \E i \in DOMAIN keyOf : keyOf[i] = l /\ IsMade(savedRows[i]))'
    BY <1>1, <1>2 DEF QueueInv, KeysLead
  <2> QED BY <2>3, <2>4, <2>5 DEF KeysLead
<1>11. ASSUME NEW i \in QueueJobs PROVE JobKept(i, jobRows[i], savedRows[i], entries[i])'
  <2>1. PICK e : e = entries'[i]
    OBVIOUS
  <2>2. JobKept(i, jobRows[i], savedRows[i], e)
    BY <1>6, <2>1
  <2> QED BY <1>1, <2>1, <2>2 DEF JobKept
<1> QED BY <1>8, <1>9, <1>10, <1>11 DEF QueueInv

\* The number of the job to be made is free.
LEMMA NextJob ==
  ASSUME QueueInv, Len(keyOf) + 1 \in QueueJobs
  PROVE  LET j == Len(keyOf) + 1 IN
         /\ ~IsMade(jobRows[j]) /\ ~IsMade(savedRows[j]) /\ entries[j].state = "none"
         /\ runs[j] = 0 /\ j \notin ended
<1> DEFINE j == Len(keyOf) + 1
<1>1. j \notin DOMAIN keyOf
  BY MadeJobs DEF QueueInv
<1>2. QueueTypes
  BY DEF QueueInv
<1>3. j \in QueueJobs
  OBVIOUS
<1> HIDE DEF j
<1>4. JobKept(j, jobRows[j], savedRows[j], entries[j])
  BY <1>3 DEF QueueInv
<1>5. ~IsMade(jobRows[j]) /\ ~IsMade(savedRows[j]) /\ entries[j].state = "none"
  BY <1>1, <1>4 DEF JobKept
<1>6. IsQueueRow(jobRows[j]) /\ runs[j] \in Nat
  BY <1>2, <1>3 DEF QueueTypes
<1>7. jobRows[j].attempt = 0
  BY <1>5, <1>6, NoRowIsNone DEF IsQueueRow, IsMade
<1>8. runs[j] = 0
  BY <1>4, <1>6, <1>7 DEF JobKept
<1>9. j \notin ended
  BY <1>4, <1>5 DEF JobKept, IsMade, Ended
<1> QED BY <1>5, <1>8, <1>9 DEF j

\* enqueue makes a job and writes its row; the key is still to be written.
LEMMA NewKeepsQueue ==
  ASSUME QueueInv, NEW call \in [key : QueueKeys, by : {"client", "scheduler"}],
         NoCallIsOpen, EnqueueNew(call), UNCHANGED <<window, cutOff, restarts, loopVars>>
  PROVE  QueueInv'
<1> DEFINE k == call.key
           j == Len(keyOf) + 1
<1>1. /\ FindExistingJob(k) = NoneMade /\ j \in QueueJobs
      /\ keyOf' = Append(keyOf, k)
      /\ asking = NoCall
      /\ UNCHANGED <<known, entries, accepted, hand, loop, window, ended, runs, cutOff>>
  BY DEF EnqueueNew, NoCallIsOpen, loopVars
<1>2. PICK done \in BOOLEAN :
        /\ SaveRow(j, QueueWorkerJob, done)
        /\ asking' = IF done THEN call ELSE NoCall
        /\ doubtful' = IF done THEN doubtful ELSE doubtful \cup {k}
  BY DEF EnqueueNew
<1>3. /\ ~IsMade(jobRows[j]) /\ ~IsMade(savedRows[j]) /\ entries[j].state = "none"
      /\ runs[j] = 0 /\ j \notin ended
  BY <1>1, NextJob
<1>4. IsQueueRow(QueueWorkerJob) /\ IsMade(QueueWorkerJob)
  BY QueuedRow DEF IsMade
<1>5. /\ DOMAIN jobRows' = QueueJobs /\ DOMAIN savedRows' = QueueJobs
      /\ \A i \in QueueJobs : IsQueueRow(jobRows'[i]) /\ IsQueueRow(savedRows'[i])
      /\ \A i \in QueueJobs \ {j} :
           jobRows'[i] = jobRows[i] /\ savedRows'[i] \in {savedRows[i], jobRows[i]}
      /\ jobRows'[j] = jobRows[j] \/ jobRows'[j] = QueueWorkerJob
      /\ \A i \in QueueJobs : IsMade(savedRows[i]) => IsMade(savedRows'[i])
      /\ done => jobRows'[j] = QueueWorkerJob /\ savedRows'[j] = QueueWorkerJob
      /\ ~done => savedRows'[j] = savedRows[j]
      /\ jobKeys' = jobKeys /\ savedKeys' \in {savedKeys, jobKeys}
  <2> HIDE DEF j
  <2>1. SaveRow(j, QueueWorkerJob, done) /\ j \in QueueJobs
    BY <1>1, <1>2
  <2> QED BY <1>4, <2>1, Rowed
<1>6. QueueTypes /\ k \in QueueKeys
  BY DEF QueueInv
<1>7. /\ keyOf' \in Seq(QueueKeys) /\ Len(keyOf') = j /\ j > 0
      /\ DOMAIN keyOf' = DOMAIN keyOf \cup {j} /\ j \notin DOMAIN keyOf
      /\ keyOf'[j] = k /\ \A i \in DOMAIN keyOf : keyOf'[i] = keyOf[i]
      /\ j <= MaxJobs
  <2>1. /\ Len(keyOf) \in Nat /\ MaxJobs \in Nat /\ DOMAIN keyOf = 1..Len(keyOf)
        /\ keyOf \in Seq(QueueKeys)
    BY <1>6, MadeJobs DEF QueueTypes
  <2>2. j <= MaxJobs /\ j > 0
    BY <1>1, <2>1 DEF QueueJobs
  <2>3. keyOf' \in Seq(QueueKeys) /\ Len(keyOf') = j /\ keyOf'[j] = k
    BY <1>1, <1>6, <2>1
  <2>4. \A i \in DOMAIN keyOf : keyOf'[i] = keyOf[i]
    BY <1>1, <1>6, <2>1
  <2>5. DOMAIN keyOf' = DOMAIN keyOf \cup {j} /\ j \notin DOMAIN keyOf
    BY <2>1, <2>3
  <2> QED BY <2>2, <2>3, <2>4, <2>5
<1> HIDE DEF j
<1>8. jobKeys[k] = NoneMade
  BY <1>1 DEF FindExistingJob
<1>9. asking' \in [key : QueueKeys, by : {"client", "scheduler"}] \cup {NoCall}
  BY <1>2
<1>10. \A i \in DOMAIN keyOf : i \in QueueJobs
  BY <1>6, MadeJobs
<1> HIDE DEF k
<1>11. QueueTypes'
  <2>1. savedKeys' \in [QueueKeys -> 0..MaxJobs]
    BY <1>5, <1>6 DEF QueueTypes
  <2> QED BY <1>1, <1>5, <1>6, <1>7, <1>9, <2>1 DEF QueueTypes
<1>12. AskingIsNew'
  <2>1. CASE done
    <3>1. asking'.key = k
      BY <1>2, <2>1 DEF k
    <3>2. jobRows'[j].status = "queued" /\ IsMade(savedRows'[j])
      BY <1>4, <1>5, <2>1, QueuedRow
    <3> QED BY <1>5, <1>7, <1>8, <3>1, <3>2 DEF AskingIsNew
  <2>2. CASE ~done
    BY <1>2, <2>2 DEF AskingIsNew
  <2> QED BY <2>1, <2>2
<1>13. AtHand' /\ (ended \subseteq QueueJobs)'
  <2>1. loop = "handle" => hand.job \in QueueJobs /\ jobRows[hand.job].status = "reserved"
    BY DEF QueueInv, AtHand
  <2>2. loop = "handle" => jobRows'[hand.job].status = "reserved"
    <3>1. loop = "handle" => IsMade(jobRows[hand.job])
      BY <2>1 DEF IsMade
    <3> QED BY <1>3, <1>5, <2>1, <3>1
  <2> QED BY <1>1, <2>1, <2>2 DEF QueueInv, AtHand
<1>14. KeysLead'
  <2>1. \A i, l : KeyLeads(i, l) => KeyLeads(i, l)'
    BY <1>5, <1>7, <1>10 DEF KeyLeads
  <2>2. ASSUME NEW l \in QueueKeys
        PROVE  (KeyLeads(jobKeys[l], l) /\ KeyLeads(savedKeys[l], l) /\ KeyLeads(known[l], l))'
    <3>1. KeyLeads(jobKeys[l], l) /\ KeyLeads(savedKeys[l], l) /\ KeyLeads(known[l], l)
      BY DEF QueueInv, KeysLead
    <3> QED BY <1>1, <1>5, <2>1, <3>1
  <2>3. ASSUME NEW i \in DOMAIN keyOf'
        PROVE  (\/ keyOf[i] \in doubtful
                \/ AskingFor(i)
                \/ jobKeys[keyOf[i]] = i /\ savedKeys[keyOf[i]] = i)'
    <3>1. CASE i \in DOMAIN keyOf
      <4>1. \/ keyOf[i] \in doubtful
            \/ jobKeys[keyOf[i]] = i /\ savedKeys[keyOf[i]] = i
        BY <1>1, <3>1 DEF QueueInv, KeysLead, AskingFor
      <4>2. doubtful \subseteq doubtful'
        BY <1>2
      <4>3. keyOf'[i] = keyOf[i]
        BY <1>7, <3>1
      <4> QED BY <1>5, <4>1, <4>2, <4>3
    <3>2. CASE i = j /\ ~done
      BY <1>2, <1>7, <3>2
    <3>3. CASE i = j /\ done
      <4>1. asking' # NoCall
        <5>1. asking'.key = k /\ k \in QueueKeys
          BY <1>2, <1>6, <3>3 DEF k
        <5> QED BY <5>1, QueueBounds DEF NoCall
      <4> QED BY <1>7, <3>3, <4>1 DEF AskingFor
    <3> QED BY <1>7, <3>1, <3>2, <3>3
  <2>4. ASSUME NEW l \in accepted'
        PROVE  (\E i \in DOMAIN keyOf : keyOf[i] = l /\ IsMade(savedRows[i]))'
    <3>1. PICK i \in DOMAIN keyOf : keyOf[i] = l /\ IsMade(savedRows[i])
      BY <1>1, <2>4 DEF QueueInv, KeysLead
    <3> QED BY <1>5, <1>7, <1>10, <3>1
  <2> QED BY <2>2, <2>3, <2>4 DEF KeysLead
<1>15. ASSUME NEW i \in QueueJobs PROVE JobKept(i, jobRows[i], savedRows[i], entries[i])'
  <2>1. JobKept(i, jobRows[i], savedRows[i], entries[i])
    BY DEF QueueInv
  <2>2. CASE i # j
    BY <1>1, <1>5, <1>7, <2>1, <2>2, JobAlone
  <2>3. CASE i = j
    <3>1. PICK row, saved, entry :
            row = jobRows'[i] /\ saved = savedRows'[i] /\ entry = entries'[i]
      OBVIOUS
    <3>2. entry.state = "none" /\ i \notin ended' /\ i \in DOMAIN keyOf' /\ runs'[i] = 0
      BY <1>1, <1>3, <1>7, <2>3, <3>1
    <3>3. row.attempt \in Nat /\ saved.attempt \in Nat
      <4>1. IsQueueRow(row) /\ IsQueueRow(saved)
        BY <1>5, <2>3, <3>1
      <4> QED BY <4>1, DomainBounds DEF IsQueueRow
    <3>4. (IsMade(saved) => IsMade(row)) /\ (IsMade(row) => row.status = "queued")
      <4>1. row = jobRows[j] \/ row = QueueWorkerJob
        BY <1>5, <2>3, <3>1
      <4>2. (saved = QueueWorkerJob /\ row = QueueWorkerJob) \/ saved = savedRows[j]
        BY <1>5, <2>3, <3>1
      <4> QED BY <1>3, <1>4, <4>1, <4>2, QueuedRow
    <3>5. JobKept(i, row, saved, entry)'
      BY <3>2, <3>3, <3>4 DEF JobKept, Ended, Servable
    <3> QED BY <3>1, <3>5
  <2> QED BY <2>2, <2>3
<1> QED BY <1>11, <1>12, <1>13, <1>14, <1>15 DEF QueueInv

\* enqueue writes the key of the row it wrote, or cannot.
LEMMA RecordKeepsQueue == QueueInv /\ RecordsKey => QueueInv'
<1> SUFFICES ASSUME QueueInv, RecordsKey PROVE QueueInv'
  OBVIOUS
<1>1. PICK j, k : j = Len(keyOf) /\ k = asking.key
  OBVIOUS
<1>2. PICK done \in BOOLEAN :
        /\ RecordKey(k, j, done)
        /\ IF done THEN Enters(j) /\ Answers(asking) /\ UNCHANGED doubtful
           ELSE /\ doubtful' = doubtful \cup {k}
                /\ UNCHANGED <<known, entries, accepted, checkpoint>>
  BY <1>1 DEF RecordsKey
<1>3. /\ asking # NoCall /\ asking' = NoCall
      /\ UNCHANGED <<window, keyOf, cutOff, loop, hand, ended, runs>>
  BY DEF RecordsKey, loopVars
<1>4. QueueTypes
  BY DEF QueueInv
<1>5. /\ k \in QueueKeys /\ j > 0 /\ keyOf[j] = k /\ jobKeys[k] = NoneMade
      /\ jobRows[j].status = "queued" /\ IsMade(savedRows[j])
  BY <1>1, <1>3, <1>4 DEF QueueInv, AskingIsNew, QueueTypes
<1>6. j \in DOMAIN keyOf /\ j \in QueueJobs /\ j \in 0..MaxJobs /\ j # NoneMade
  BY <1>1, <1>4, <1>5, MadeJobs DEF NoneMade
<1>7. /\ jobRows' = jobRows /\ jobKeys' = [jobKeys EXCEPT ![k] = j]
      /\ savedRows' = IF done THEN jobRows ELSE savedRows
      /\ savedKeys' = IF done THEN [jobKeys EXCEPT ![k] = j] ELSE savedKeys
  BY <1>2 DEF RecordKey, Persist
<1>8. /\ done => /\ known' = [known EXCEPT ![k] = j]
                 /\ entries' = [entries EXCEPT ![j] = EntryOf(QueueWorkerJob, Length + 1)]
                 /\ accepted' = accepted \cup {k} /\ doubtful' = doubtful
      /\ ~done => /\ known' = known /\ entries' = entries /\ accepted' = accepted
                  /\ doubtful' = doubtful \cup {k}
  BY <1>1, <1>2 DEF Enters, Answers
<1>9. /\ jobKeys' \in [QueueKeys -> 0..MaxJobs] /\ savedKeys' \in [QueueKeys -> 0..MaxJobs]
      /\ known' \in [QueueKeys -> 0..MaxJobs]
      /\ jobKeys'[k] = j /\ \A l \in QueueKeys \ {k} : jobKeys'[l] = jobKeys[l]
      /\ \A l \in QueueKeys : \/ savedKeys'[l] \in {savedKeys[l], jobKeys[l]}
                              \/ l = k /\ savedKeys'[l] = j
      /\ \A l \in QueueKeys : known'[l] = known[l] \/ (l = k /\ known'[l] = j)
      /\ done => savedKeys' = jobKeys'
      /\ ~done => savedKeys' = savedKeys
  <2>1. {jobKeys, savedKeys, known} \subseteq [QueueKeys -> 0..MaxJobs]
    BY <1>4 DEF QueueTypes
  <2>2. [jobKeys EXCEPT ![k] = j] \in [QueueKeys -> 0..MaxJobs]
    BY <1>6, <2>1
  <2>3. [known EXCEPT ![k] = j] \in [QueueKeys -> 0..MaxJobs]
    BY <1>6, <2>1
  <2>4. CASE done
    BY <1>5, <1>7, <1>8, <2>1, <2>2, <2>3, <2>4
  <2>5. CASE ~done
    BY <1>5, <1>7, <1>8, <2>1, <2>2, <2>3, <2>5
  <2> QED BY <2>4, <2>5
<1>10. /\ DOMAIN savedRows' = QueueJobs
       /\ \A i \in QueueJobs : /\ savedRows'[i] \in {savedRows[i], jobRows[i]}
                               /\ IsMade(savedRows[i]) => IsMade(savedRows'[i])
  <2>1. \A i \in QueueJobs : IsMade(savedRows[i]) => IsMade(jobRows[i])
    BY DEF QueueInv, JobKept
  <2> QED BY <1>4, <1>7, <2>1 DEF QueueTypes
<1>11. JobKept(j, jobRows[j], savedRows[j], entries[j]) /\ IsQueueRow(jobRows[j])
       /\ runs[j] \in Nat
  BY <1>4, <1>6 DEF QueueInv, QueueTypes
<1>12. jobRows[j].attempt = 0 /\ runs[j] = 0
  BY <1>5, <1>11 DEF JobKept, IsQueueRow
<1>13. PICK e : e = EntryOf(QueueWorkerJob, Length + 1)
  OBVIOUS
<1>14. IsEntry(e) /\ e.attempt = 0 /\ e.state = "available"
  BY <1>13, QueuedRow, EntryMade DEF IsMade
<1>15. /\ DOMAIN entries' = QueueJobs
       /\ \A i \in QueueJobs : entries'[i] = entries[i] \/ (i = j /\ entries'[i] = e)
  <2>1. DOMAIN entries = QueueJobs
    BY <1>4 DEF QueueTypes
  <2>2. done => entries' = [entries EXCEPT ![j] = e]
    BY <1>8, <1>13
  <2> QED BY <1>8, <2>1, <2>2
<1>16. QueueTypes'
  BY <1>3, <1>4, <1>7, <1>9, <1>10, <1>14, <1>15 DEF QueueTypes
<1>17. AskingIsNew' /\ AtHand' /\ (ended \subseteq QueueJobs)'
  BY <1>3, <1>7 DEF QueueInv, AskingIsNew, AtHand
<1>18. KeysLead'
  <2>1. \A i, l : KeyLeads(i, l) => KeyLeads(i, l)'
    <3>1. \A i \in DOMAIN keyOf : i \in QueueJobs
      BY <1>4, MadeJobs
    <3> QED BY <1>3, <1>10, <3>1 DEF KeyLeads
  <2>2. KeyLeads(j, k)
    BY <1>5, <1>6 DEF KeyLeads
  <2>3. ASSUME NEW l \in QueueKeys
        PROVE  (KeyLeads(jobKeys[l], l) /\ KeyLeads(savedKeys[l], l) /\ KeyLeads(known[l], l))'
    <3>1. KeyLeads(jobKeys[l], l) /\ KeyLeads(savedKeys[l], l) /\ KeyLeads(known[l], l)
      BY DEF QueueInv, KeysLead
    <3>2. KeyLeads(jobKeys'[l], l) /\ KeyLeads(known'[l], l)
      BY <1>9, <2>2, <3>1
    <3>3. KeyLeads(savedKeys'[l], l)
      BY <1>9, <2>2, <3>1
    <3> QED BY <2>1, <3>2, <3>3
  <2>4. ASSUME NEW i \in DOMAIN keyOf'
        PROVE  (keyOf[i] \in doubtful \/ (jobKeys[keyOf[i]] = i /\ savedKeys[keyOf[i]] = i))'
    <3>1. i \in DOMAIN keyOf /\ keyOf'[i] = keyOf[i] /\ keyOf[i] \in QueueKeys
      BY <1>3, <1>4, <2>4, MadeJobs DEF QueueTypes
    <3>2. doubtful \subseteq doubtful'
      BY <1>8
    <3>3. CASE keyOf[i] \in doubtful
      BY <3>1, <3>2, <3>3
    <3>4. CASE AskingFor(i)
      <4>1. i = j
        BY <1>1, <3>4 DEF AskingFor
      <4>2. CASE done
        BY <1>5, <1>9, <3>1, <4>1, <4>2
      <4>3. CASE ~done
        BY <1>5, <1>8, <3>1, <4>1, <4>3
      <4> QED BY <4>2, <4>3
    <3>5. CASE jobKeys[keyOf[i]] = i /\ savedKeys[keyOf[i]] = i
      <4>1. i # NoneMade
        BY <3>1, <1>4, MadeJobs DEF NoneMade
      <4>2. keyOf[i] # k
        BY <1>5, <3>5, <4>1
      <4>3. jobKeys'[keyOf[i]] = i
        BY <1>9, <3>1, <3>5, <4>2
      <4>4. savedKeys'[keyOf[i]] = i
        BY <1>9, <3>1, <3>5, <4>2
      <4> QED BY <3>1, <4>3, <4>4
    <3> QED BY <3>1, <3>3, <3>4, <3>5 DEF QueueInv, KeysLead
  <2>5. ASSUME NEW l \in accepted'
        PROVE  (\E i \in DOMAIN keyOf : keyOf[i] = l /\ IsMade(savedRows[i]))'
    <3>1. PICK i \in DOMAIN keyOf : keyOf[i] = l /\ IsMade(savedRows[i])
      <4>1. CASE l \in accepted
        BY <4>1 DEF QueueInv, KeysLead
      <4>2. CASE l = k
        BY <1>5, <1>6, <4>2
      <4> QED BY <1>8, <2>5, <4>1, <4>2
    <3>2. i \in QueueJobs
      BY <1>4, MadeJobs
    <3> QED BY <1>3, <1>10, <3>1, <3>2
  <2> QED BY <2>3, <2>4, <2>5 DEF KeysLead
<1>19. ASSUME NEW i \in QueueJobs PROVE JobKept(i, jobRows[i], savedRows[i], entries[i])'
  <2>1. JobKept(i, jobRows[i], savedRows[i], entries[i])
    BY DEF QueueInv
  <2>2. CASE entries'[i] = entries[i]
    BY <1>3, <1>7, <1>10, <2>1, <2>2, JobAlone
  <2>3. CASE i = j /\ entries'[i] = e
    <3>1. PICK row, saved : row = jobRows[i] /\ saved = savedRows'[i]
      OBVIOUS
    <3>2. /\ row.status = "queued" /\ row.attempt = 0 /\ runs[i] = 0
          /\ IsMade(row) /\ i \in DOMAIN keyOf
      BY <1>5, <1>6, <1>12, <2>3, <3>1 DEF IsMade
    <3>3. i \notin ended
      BY <2>1, <3>1, <3>2 DEF JobKept, Ended
    <3>4. runs[i] <= saved.attempt
      BY <1>10, <2>1, <3>1 DEF JobKept
    <3>5. JobKept(i, row, saved, e)'
      BY <1>3, <1>14, <3>2, <3>3, <3>4, DomainBounds DEF JobKept, Servable, Ended
    <3> QED BY <1>7, <2>3, <3>1, <3>5
  <2> QED BY <1>15, <2>2, <2>3
<1> QED BY <1>16, <1>17, <1>18, <1>19 DEF QueueInv

\* A step of the loop that saves the row of one job: what is left to show is about
\* that job, and about what is at hand.
LEMMA LoopStep ==
  ASSUME QueueInv, asking = NoCall, UNCHANGED clientVars,
         NEW j \in QueueJobs, NEW job, NEW done \in BOOLEAN, SaveRow(j, job, done),
         job # Throws => IsQueueRow(job) /\ IsMade(job),
         NEW e, IsEntry(e), entries' = IF done THEN [entries EXCEPT ![j] = e] ELSE entries,
         loop' \in LoopPlaces, runs' \in [QueueJobs -> Nat], ended' \subseteq QueueJobs,
         \A i \in QueueJobs \ {j} : runs'[i] = runs[i] /\ (i \in ended' => i \in ended),
         AtHand', JobKept(j, jobRows[j], savedRows[j], entries[j])'
  PROVE  QueueInv'
<1>1. /\ UNCHANGED <<known, asking, window, checkpoint, keyOf, accepted, doubtful, cutOff>>
      /\ QueueTypes
  BY DEF clientVars, QueueInv
<1>2. /\ DOMAIN jobRows' = QueueJobs /\ DOMAIN savedRows' = QueueJobs
      /\ \A i \in QueueJobs : IsQueueRow(jobRows'[i]) /\ IsQueueRow(savedRows'[i])
      /\ \A i \in QueueJobs \ {j} :
           jobRows'[i] = jobRows[i] /\ savedRows'[i] \in {savedRows[i], jobRows[i]}
      /\ \A i \in QueueJobs : IsMade(savedRows[i]) => IsMade(savedRows'[i])
      /\ jobKeys' = jobKeys /\ savedKeys' \in {savedKeys, jobKeys}
  BY Rowed
<1>3. /\ DOMAIN entries' = QueueJobs
      /\ \A i \in QueueJobs : IsEntry(entries'[i])
      /\ \A i \in QueueJobs \ {j} : entries'[i] = entries[i]
  BY <1>1 DEF QueueTypes
<1>4. QueueTypes'
  <2>1. savedKeys' \in [QueueKeys -> 0..MaxJobs]
    BY <1>1, <1>2 DEF QueueTypes
  <2> QED BY <1>1, <1>2, <1>3, <2>1 DEF QueueTypes
<1>5. AskingIsNew'
  BY <1>1 DEF AskingIsNew
<1>6. KeysLead'
  BY <1>1, <1>2, KeysAlone
<1>7. ASSUME NEW i \in QueueJobs PROVE JobKept(i, jobRows[i], savedRows[i], entries[i])'
  <2>1. CASE i = j
    BY <2>1
  <2>2. CASE i # j
    <3>1. JobKept(i, jobRows[i], savedRows[i], entries[i])
      BY DEF QueueInv
    <3> QED BY <1>1, <1>2, <1>3, <2>2, <3>1, JobAlone
  <2> QED BY <2>1, <2>2
<1> QED BY <1>4, <1>5, <1>6, <1>7 DEF QueueInv

\* The job of such a step.  Refused, it has its entry still, and may have the new row.
LEMMA JobRefused ==
  ASSUME QueueInv, NEW j \in QueueJobs, NEW job, NEW done \in BOOLEAN, SaveRow(j, job, done),
         job # Throws => IsQueueRow(job) /\ IsMade(job), ~done,
         UNCHANGED <<entries, keyOf, runs, ended, cutOff>>,
         runs[j] <= job.attempt,
         \/ entries[j].state = "reserved"
         \/ entries[j].state = "available" /\ job.status = "reserved"
  PROVE  JobKept(j, jobRows[j], savedRows[j], entries[j])'
<1>1. JobKept(j, jobRows[j], savedRows[j], entries[j])
  BY DEF QueueInv
<1>2. /\ jobRows'[j] = jobRows[j] \/ (job # Throws /\ jobRows'[j] = job)
      /\ savedRows'[j] = savedRows[j]
  BY Rowed
<1>3. j \notin ended
  BY <1>1 DEF JobKept, Ended
<1>4. IsMade(jobRows[j])
  BY <1>1 DEF JobKept
<1>5. CASE jobRows'[j] = jobRows[j]
  BY <1>1, <1>2, <1>5 DEF JobKept
<1>6. CASE job # Throws /\ jobRows'[j] = job
  <2>1. PICK saved, e : saved = savedRows[j] /\ e = entries[j]
    OBVIOUS
  <2>2. JobKept(j, job, saved, e)'
    BY <1>1, <1>3, <1>4, <1>6, <2>1 DEF JobKept, Servable, Ended
  <2> QED BY <1>2, <1>6, <2>1, <2>2
<1> QED BY <1>2, <1>5, <1>6

\* Done, its row and its entry are new.
LEMMA JobDone ==
  ASSUME QueueInv, NEW j \in QueueJobs, NEW job, SaveRow(j, job, TRUE),
         IsQueueRow(job), IsMade(job), IsMade(jobRows[j]),
         NEW e, entries' = [entries EXCEPT ![j] = e],
         UNCHANGED <<keyOf, cutOff>>, runs'[j] <= job.attempt, runs'[j] <= e.attempt,
         e.state \in {"available", "reserved"} \cup Ended,
         e.state = "available" => /\ job.status \in {"queued", "retrying", "reserved"}
                                  /\ e.attempt + 1 <= MaxAttempts,
         e.state \in Ended => job.status = e.state,
         j \in ended' => e.state \in Ended
  PROVE  JobKept(j, jobRows[j], savedRows[j], entries[j])'
<1>1. jobRows'[j] = job /\ savedRows'[j] = job
  BY Rowed
<1>2. entries'[j] = e
  BY DEF QueueInv, QueueTypes
<1>3. j \in DOMAIN keyOf
  BY DEF QueueInv, JobKept
<1>4. JobKept(j, job, job, e)'
  BY <1>3 DEF JobKept, Servable, Ended
<1> QED BY <1>1, <1>2, <1>4

\* The entries that expire, and those that can be reserved, stand for jobs.
LEMMA JobOfEntry ==
  ASSUME QueueInv, NEW j \in QueueJobs, entries[j].state \in {"available", "reserved"}
  PROVE  /\ IsQueueRow(jobRows[j]) /\ IsMade(jobRows[j]) /\ IsEntry(entries[j])
         /\ entries[j].attempt \in Nat /\ runs[j] \in Nat /\ runs[j] <= entries[j].attempt
         /\ runs[j] <= jobRows[j].attempt /\ j \notin ended
<1>1. JobKept(j, jobRows[j], savedRows[j], entries[j])
  BY DEF QueueInv
<1>2. IsQueueRow(jobRows[j]) /\ IsEntry(entries[j]) /\ runs[j] \in Nat
  BY DEF QueueInv, QueueTypes
<1>3. entries[j].attempt \in Nat
  BY <1>2, DomainBounds DEF IsEntry
<1> QED BY <1>1, <1>2, <1>3 DEF JobKept, Ended

\* An expired reservation is made available again, buried, or left as it is.
LEMMA RecoverKeepsQueue == QueueInv /\ RecoverExpiredReservations => QueueInv'
<1> SUFFICES ASSUME QueueInv, RecoverExpiredReservations PROVE QueueInv'
  OBVIOUS
<1>1. PICK j \in First(Expired), done \in BOOLEAN :
        /\ RecoverReservation(j, done)
        /\ loop' = IF ~done THEN "rest"
                   ELSE IF loop \in {"rest", "recovering"} THEN "recovering" ELSE "reserving"
  BY DEF RecoverExpiredReservations
<1>2. /\ asking = NoCall /\ loop # "handle" /\ UNCHANGED clientVars
      /\ UNCHANGED <<hand, ended, runs>>
  BY DEF RecoverExpiredReservations
<1>3. j \in QueueJobs /\ entries[j].state = "reserved"
  BY DEF First, Expired
<1>4. PICK row, entry : row = jobRows[j] /\ entry = entries[j]
  OBVIOUS
<1>5. /\ IsQueueRow(row) /\ IsMade(row) /\ IsEntry(entry) /\ entry.attempt \in Nat
      /\ runs[j] \in Nat /\ runs[j] <= entry.attempt /\ runs[j] <= row.attempt /\ j \notin ended
      /\ entry.state = "reserved"
  BY <1>3, <1>4, JobOfEntry
<1>6. AtHand' /\ ended' \subseteq QueueJobs /\ runs' \in [QueueJobs -> Nat]
      /\ loop' \in LoopPlaces
  BY <1>1, <1>2 DEF QueueInv, QueueTypes, AtHand, LoopPlaces
<1>7. UNCHANGED <<known, asking, window, keyOf, accepted, doubtful, cutOff>>
  BY <1>2 DEF clientVars
<1> DEFINE Freed(state) == [entry EXCEPT !.state = state, !.due = TRUE, !.ref = 0]
<1>8. \A state \in {"available", "completed", "dead"} :
        IsEntry(Freed(state)) /\ Freed(state).state = state /\ Freed(state).attempt = entry.attempt
  BY <1>5 DEF IsEntry, EntryFields, EntryStates
<1>9. CASE row.status \in {"completed", "dead"}
  <2> DEFINE e == Freed(row.status)
  <2>1. entries' = [entries EXCEPT ![j] = e] /\ UNCHANGED repositoryVars
    BY <1>1, <1>4, <1>9 DEF RecoverReservation
  <2>2. IsEntry(e) /\ e.state = row.status /\ e.attempt = entry.attempt
    BY <1>8, <1>9
  <2> HIDE DEF e
  <2>3. /\ DOMAIN entries' = QueueJobs /\ entries'[j] = e
        /\ \A i \in QueueJobs \ {j} : entries'[i] = entries[i]
    BY <1>3, <2>1 DEF QueueInv, QueueTypes
  <2>4. UNCHANGED <<jobRows, jobKeys, savedRows, savedKeys>>
    BY <2>1 DEF repositoryVars
  <2>5. QueueTypes'
    <3>1. \A i \in QueueJobs : IsEntry(entries'[i])
      BY <2>2, <2>3 DEF QueueInv, QueueTypes
    <3> QED BY <1>6, <1>7, <2>3, <2>4, <3>1 DEF QueueInv, QueueTypes
  <2>6. AskingIsNew'
    BY <1>2, <1>7 DEF AskingIsNew
  <2>7. KeysLead'
    BY <1>7, <2>4, KeysAlone
  <2>8. ASSUME NEW i \in QueueJobs PROVE JobKept(i, jobRows[i], savedRows[i], entries[i])'
    <3>1. JobKept(i, jobRows[i], savedRows[i], entries[i])
      BY DEF QueueInv
    <3>2. CASE i # j
      BY <1>2, <1>7, <2>3, <2>4, <3>1, <3>2, JobAlone
    <3>3. CASE i = j
      <4>1. PICK saved, f : saved = savedRows[i] /\ f = e
        OBVIOUS
      <4>2. JobKept(i, row, saved, f)'
        BY <1>2, <1>4, <1>5, <1>7, <1>9, <2>2, <3>1, <3>3, <4>1 DEF JobKept, Servable, Ended
      <4> QED BY <1>4, <2>3, <2>4, <3>3, <4>1, <4>2
    <3> QED BY <3>2, <3>3
  <2> QED BY <1>6, <2>5, <2>6, <2>7, <2>8 DEF QueueInv
<1>10. row.status \in {"queued", "reserved", "retrying"} \/ row.status \in {"completed", "dead"}
  BY <1>5 DEF IsQueueRow, IsMade, QueueStatuses
<1>11. CASE row.status \in {"queued", "reserved", "retrying"} /\ entry.attempt + 1 > MaxAttempts
  <2>1. PICK job : job = MarkWorkerJobDead(row)
    OBVIOUS
  <2>2. IsQueueRow(job) /\ job.status = "dead" /\ job.attempt = row.attempt /\ IsMade(job)
    BY <1>5, <1>11, <2>1, DeadRow DEF IsMade
  <2>3. PICK e : e = Freed("dead")
    OBVIOUS
  <2>4. IsEntry(e) /\ e.state = "dead" /\ e.attempt = entry.attempt
    BY <1>8, <2>3
  <2>5. SaveRow(j, job, done) /\ entries' = IF done THEN [entries EXCEPT ![j] = e] ELSE entries
    <3>1. row.status \notin {"completed", "dead"}
      BY <1>11
    <3> QED BY <1>1, <1>4, <1>11, <2>1, <2>3, <3>1 DEF RecoverReservation, Recovering
  <2>6. JobKept(j, jobRows[j], savedRows[j], entries[j])'
    <3>1. CASE done
      BY <1>2, <1>3, <1>4, <1>5, <1>7, <2>2, <2>4, <2>5, <3>1, JobDone DEF Ended
    <3>2. CASE ~done
      BY <1>2, <1>3, <1>4, <1>5, <1>7, <2>2, <2>5, <3>2, JobRefused
    <3> QED BY <3>1, <3>2
  <2> QED BY <1>2, <1>3, <1>6, <2>2, <2>4, <2>5, <2>6, LoopStep
<1>12. CASE row.status \in {"queued", "reserved", "retrying"} /\ ~(entry.attempt + 1 > MaxAttempts)
  <2>1. PICK n : n = entry.attempt + 1
    OBVIOUS
  <2>2. n \in Nat /\ n <= MaxAttempts /\ runs[j] <= n
    BY <1>5, <1>12, <2>1, DomainBounds
  <2>3. PICK job : job = RetryWorkerJob(row, n)
    OBVIOUS
  <2>4. job # Throws => /\ IsQueueRow(job) /\ job.status = "retrying" /\ job.attempt = n
                        /\ IsMade(job)
    BY <1>5, <1>12, <2>2, <2>3, RetriedRow DEF IsMade
  <2>5. PICK e : e = Freed("available")
    OBVIOUS
  <2>6. IsEntry(e) /\ e.state = "available" /\ e.attempt = entry.attempt
    BY <1>8, <2>5
  <2>7. SaveRow(j, job, done) /\ entries' = IF done THEN [entries EXCEPT ![j] = e] ELSE entries
    <3>1. row.status \notin {"completed", "dead"}
      BY <1>12
    <3> QED BY <1>1, <1>4, <1>12, <2>1, <2>3, <2>5, <3>1 DEF RecoverReservation, Recovering
  <2>8. JobKept(j, jobRows[j], savedRows[j], entries[j])'
    <3>1. CASE done
      <4>1. job # Throws
        BY <2>7, <3>1 DEF SaveRow
      <4> QED BY <1>2, <1>3, <1>4, <1>5, <1>7, <2>1, <2>2, <2>4, <2>6, <2>7, <3>1, <4>1, JobDone
              DEF Ended
    <3>2. CASE ~done /\ job # Throws
      BY <1>2, <1>3, <1>4, <1>5, <1>7, <2>2, <2>4, <2>7, <3>2, JobRefused
    <3>3. CASE ~done /\ job = Throws
      <4>1. UNCHANGED <<jobRows, savedRows, entries>>
        BY <2>7, <3>3 DEF SaveRow, repositoryVars
      <4> QED BY <1>2, <1>3, <1>7, <4>1, JobAlone DEF QueueInv
    <3> QED BY <3>1, <3>2, <3>3
  <2> QED BY <1>2, <1>3, <1>6, <2>4, <2>6, <2>7, <2>8, LoopStep
<1> QED BY <1>9, <1>10, <1>11, <1>12

\* reserve writes the row of the attempt before it hands the job out.
LEMMA ReserveKeepsQueue == QueueInv /\ LoopReserves => QueueInv'
<1> SUFFICES ASSUME QueueInv, LoopReserves PROVE QueueInv'
  OBVIOUS
<1>1. PICK j \in First(Reservable), done \in BOOLEAN : Reserve(j, done)
  BY DEF LoopReserves
<1>2. asking = NoCall /\ loop # "handle" /\ UNCHANGED clientVars /\ ended' = ended
  BY DEF LoopReserves, AtReserve
<1>3. j \in QueueJobs /\ entries[j].state = "available"
  BY DEF First, Reservable
<1>4. PICK row, entry, n : row = jobRows[j] /\ entry = entries[j] /\ n = entry.attempt + 1
  OBVIOUS
<1>5. /\ IsQueueRow(row) /\ IsMade(row) /\ IsEntry(entry) /\ entry.attempt \in Nat
      /\ runs[j] \in Nat /\ runs[j] <= entry.attempt /\ runs[j] <= row.attempt /\ j \notin ended
      /\ entry.state = "available"
  BY <1>3, <1>4, JobOfEntry
<1>6. PICK job : job = Reserving(row, n)
  OBVIOUS
<1>7. /\ n \in Nat \ {0} /\ runs[j] + 1 <= n /\ runs[j] <= n
      /\ job # Throws => /\ IsQueueRow(job) /\ job.status = "reserved" /\ job.attempt = n
                         /\ n <= MaxAttempts /\ IsMade(job)
  <2>1. n \in Nat \ {0} /\ runs[j] + 1 <= n /\ runs[j] <= n
    BY <1>4, <1>5
  <2> QED BY <1>5, <1>6, <2>1, ReservedRow DEF IsMade
<1>8. UNCHANGED <<known, asking, window, keyOf, accepted, doubtful, cutOff>>
  BY <1>2 DEF clientVars
<1>9. SaveRow(j, job, done)
  BY <1>1, <1>4, <1>6 DEF Reserve
<1>10. CASE done
  <2>1. PICK e : e = [entry EXCEPT !.attempt = n, !.due = FALSE, !.state = "reserved", !.ref = n]
    OBVIOUS
  <2>2. /\ entries' = [entries EXCEPT ![j] = e] /\ hand' = [job |-> j, attempt |-> n]
        /\ runs' = [runs EXCEPT ![j] = @ + 1] /\ loop' = "handle"
    BY <1>1, <1>4, <1>10, <2>1 DEF Reserve
  <2>3. job # Throws
    BY <1>9, <1>10 DEF SaveRow
  <2>4. e.state = "reserved" /\ e.attempt = n /\ IsEntry(e)
    <3>1. e.state = "reserved" /\ e.attempt = n /\ EntryFields \subseteq DOMAIN e
      BY <1>5, <2>1 DEF IsEntry, EntryFields
    <3>2. n \in 0..MaxAttempts
      BY <1>7, <2>3, DomainBounds
    <3> QED BY <3>1, <3>2 DEF IsEntry, EntryStates
  <2>5. /\ runs' \in [QueueJobs -> Nat] /\ runs'[j] = runs[j] + 1
        /\ \A i \in QueueJobs \ {j} : runs'[i] = runs[i]
    <3>1. runs \in [QueueJobs -> Nat]
      BY DEF QueueInv, QueueTypes
    <3> QED BY <1>3, <1>5, <2>2, <3>1
  <2>6. jobRows'[j] = job
    BY <1>3, <1>7, <1>9, <1>10, Rowed
  <2>7. AtHand'
    BY <1>3, <1>7, <2>2, <2>3, <2>6 DEF AtHand
  <2>8. JobKept(j, jobRows[j], savedRows[j], entries[j])'
    <3>1. SaveRow(j, job, TRUE)
      BY <1>9, <1>10
    <3> QED BY <1>2, <1>3, <1>4, <1>5, <1>7, <1>8, <2>2, <2>3, <2>4, <2>5, <3>1, JobDone DEF Ended
  <2>9. loop' \in LoopPlaces /\ ended' \subseteq QueueJobs
    BY <1>2, <2>2 DEF LoopPlaces, QueueInv
  <2> QED BY <1>2, <1>3, <1>7, <1>9, <1>10, <2>2, <2>4, <2>5, <2>7, <2>8, <2>9, LoopStep
<1>11. CASE ~done
  <2>1. UNCHANGED <<entries, hand, runs>> /\ loop' = "rest"
    BY <1>1, <1>11 DEF Reserve
  <2>2. AtHand' /\ loop' \in LoopPlaces /\ ended' \subseteq QueueJobs
        /\ runs' \in [QueueJobs -> Nat]
    BY <1>2, <2>1 DEF QueueInv, QueueTypes, AtHand, LoopPlaces
  <2>3. JobKept(j, jobRows[j], savedRows[j], entries[j])'
    <3>1. CASE job # Throws
      BY <1>2, <1>3, <1>4, <1>5, <1>7, <1>8, <1>9, <1>11, <2>1, <3>1, JobRefused
    <3>2. CASE job = Throws
      <4>1. UNCHANGED <<jobRows, savedRows, entries>>
        BY <1>9, <2>1, <3>2 DEF SaveRow, repositoryVars
      <4> QED BY <1>2, <1>3, <1>8, <2>1, <4>1, JobAlone DEF QueueInv
    <3> QED BY <3>1, <3>2
  <2>4. entries' = IF done THEN [entries EXCEPT ![j] = entry] ELSE entries
    BY <1>11, <2>1
  <2> QED BY <1>2, <1>3, <1>5, <1>7, <1>9, <1>11, <2>1, <2>2, <2>3, <2>4, LoopStep
<1> QED BY <1>10, <1>11

\* A handler's verdict is written if the reservation is still the entry's.
LEMMA HandlerKeepsQueue ==
  ASSUME NEW verdict \in {"completed", "retry", "dead"}, QueueInv, HandlerEnds(verdict)
  PROVE  QueueInv'
<1>1. PICK j : j = hand.job
  OBVIOUS
<1>2. PICK done \in BOOLEAN : Settled(hand, verdict, done)
  BY DEF HandlerEnds
<1>3. /\ asking = NoCall /\ loop = "handle" /\ loop' = "rest" /\ hand' = NoReservation
      /\ UNCHANGED clientVars /\ runs' = runs
  BY DEF HandlerEnds
<1>4. j \in QueueJobs /\ jobRows[j].status = "reserved"
  BY <1>1, <1>3 DEF QueueInv, AtHand
<1>5. UNCHANGED <<known, asking, window, keyOf, accepted, doubtful, cutOff>>
  BY <1>3 DEF clientVars
<1>6. AtHand' /\ loop' \in LoopPlaces /\ runs' \in [QueueJobs -> Nat]
  BY <1>3 DEF QueueInv, QueueTypes, AtHand, LoopPlaces
<1>7. CASE ~Holds(hand)
  <2>1. UNCHANGED <<jobRows, jobKeys, savedRows, savedKeys, entries, ended>>
    BY <1>2, <1>7 DEF Settled, repositoryVars
  <2>2. QueueTypes'
    BY <1>5, <1>6, <2>1 DEF QueueInv, QueueTypes
  <2>3. AskingIsNew' /\ (ended \subseteq QueueJobs)'
    BY <1>3, <1>5, <2>1 DEF QueueInv, AskingIsNew
  <2>4. KeysLead'
    BY <1>5, <2>1, KeysAlone
  <2>5. ASSUME NEW i \in QueueJobs PROVE JobKept(i, jobRows[i], savedRows[i], entries[i])'
    BY <1>3, <1>5, <2>1, JobAlone DEF QueueInv
  <2> QED BY <1>6, <2>2, <2>3, <2>4, <2>5 DEF QueueInv
<1>8. CASE Holds(hand)
  <2>1. PICK row, entry : row = jobRows[j] /\ entry = entries[j]
    OBVIOUS
  <2>2. entry.state = "reserved" /\ entry.attempt = hand.attempt
    BY <1>1, <1>8, <2>1 DEF Holds
  <2>3. /\ IsQueueRow(row) /\ IsMade(row) /\ IsEntry(entry) /\ entry.attempt \in Nat
        /\ runs[j] \in Nat /\ runs[j] <= entry.attempt /\ runs[j] <= row.attempt
        /\ j \notin ended /\ row.status = "reserved"
    BY <1>4, <2>1, <2>2, JobOfEntry
  <2>4. PICK job, state :
          /\ Settle(hand, job, state, done)
          /\ \/ verdict = "completed" /\ job = Completing(row) /\ state = "completed"
             \/ verdict = "dead" /\ job = MarkWorkerJobDead(row) /\ state = "dead"
             \/ verdict = "retry" /\ job = RetryWorkerJob(row, entry.attempt + 1)
                /\ state = "available"
    <3>1. /\ Settled(hand, verdict, done) /\ Holds(hand)
          /\ row = jobRows[hand.job] /\ hand.attempt = entry.attempt
      BY <1>1, <1>2, <1>8, <2>1, <2>2
    <3>2. \/ verdict = "completed" /\ Settle(hand, Completing(row), "completed", done)
          \/ verdict = "dead" /\ Settle(hand, MarkWorkerJobDead(row), "dead", done)
          \/ verdict = "retry"
             /\ Settle(hand, RetryWorkerJob(row, entry.attempt + 1), "available", done)
      BY <3>1 DEF Settled
    <3> QED BY <3>2
  <2>5. PICK e : e = SettledEntry(entry, state)
    OBVIOUS
  <2>6. /\ SaveRow(j, job, done)
        /\ entries' = IF done THEN [entries EXCEPT ![j] = e] ELSE entries
        /\ ended' = IF done /\ state # "available" THEN ended \cup {j} ELSE ended
    <3>1. SaveRow(j, job, done)
      BY <1>1, <2>4 DEF Settle
    <3>2. ended' = IF done /\ state # "available" THEN ended \cup {j} ELSE ended
      BY <1>1, <2>4 DEF Settle
    <3>3. entries' = IF done THEN [entries EXCEPT ![j] = e] ELSE entries
      BY <1>1, <2>1, <2>4, <2>5 DEF Settle
    <3> QED BY <3>1, <3>2, <3>3
  <2>7. state \in {"available", "completed", "dead"}
    BY <2>4
  <2>8. e.state = state /\ e.attempt = entry.attempt /\ IsEntry(e)
    BY <2>3, <2>5, <2>7 DEF IsEntry, EntryFields, EntryStates, SettledEntry
  <2>9. job # Throws =>
          /\ IsQueueRow(job) /\ IsMade(job) /\ runs[j] <= job.attempt
          /\ state = "available" => job.status = "retrying" /\ entry.attempt + 1 <= MaxAttempts
          /\ state \in Ended => job.status = state
    <3>1. CASE job = Completing(row) /\ state = "completed"
      BY <2>3, <3>1, CompletedRow DEF IsMade, Ended
    <3>2. CASE job = MarkWorkerJobDead(row) /\ state = "dead"
      BY <2>3, <3>2, DeadRow DEF IsMade, Ended
    <3>3. CASE job = RetryWorkerJob(row, entry.attempt + 1) /\ state = "available"
      <4>1. PICK n : n = entry.attempt + 1
        OBVIOUS
      <4>2. n \in Nat /\ runs[j] <= n
        BY <2>3, <4>1
      <4>3. job # Throws => /\ IsQueueRow(job) /\ job.status = "retrying" /\ job.attempt = n
                            /\ n <= MaxAttempts
        BY <2>3, <3>3, <4>1, <4>2, RetriedRow
      <4> QED BY <3>3, <4>1, <4>2, <4>3 DEF IsMade, Ended
    <3> QED BY <2>4, <3>1, <3>2, <3>3
  <2>10. ended' \subseteq QueueJobs
         /\ \A i \in QueueJobs \ {j} : i \in ended' => i \in ended
    BY <1>4, <2>6 DEF QueueInv
  <2>11. JobKept(j, jobRows[j], savedRows[j], entries[j])'
    <3>1. CASE done
      <4>1. job # Throws /\ SaveRow(j, job, TRUE)
        BY <2>6, <3>1 DEF SaveRow
      <4>2. j \in ended' => state \in Ended
        BY <2>3, <2>6, <2>7 DEF Ended
      <4>3. entries' = [entries EXCEPT ![j] = e]
        BY <2>6, <3>1
      <4> QED BY <1>3, <1>4, <1>5, <2>1, <2>3, <2>7, <2>8, <2>9, <4>1, <4>2, <4>3, JobDone DEF Ended
    <3>2. CASE ~done /\ job # Throws
      BY <1>3, <1>4, <1>5, <2>1, <2>2, <2>6, <2>9, <3>2, JobRefused
    <3>3. CASE ~done /\ job = Throws
      <4>1. UNCHANGED <<jobRows, savedRows, entries, ended>>
        BY <2>6, <3>3 DEF SaveRow, repositoryVars
      <4> QED BY <1>3, <1>4, <1>5, <4>1, JobAlone DEF QueueInv
    <3> QED BY <3>1, <3>2, <3>3
  <2>12. \A i \in QueueJobs \ {j} : runs'[i] = runs[i]
    BY <1>3
  <2> QED BY <1>3, <1>4, <1>6, <2>6, <2>8, <2>9, <2>10, <2>11, <2>12, LoopStep
<1> QED BY <1>7, <1>8

\* Each step of the queue keeps the invariant.
LEMMA QueueKept == QueueInv /\ [InMemoryNext]_inMemoryVars => QueueInv'
<1> SUFFICES ASSUME QueueInv, [InMemoryNext]_inMemoryVars PROVE QueueInv'
  OBVIOUS
<1>1. ASSUME NEW call \in [key : QueueKeys, by : {"client", "scheduler"}], Enqueue(call)
      PROVE  QueueInv'
  BY <1>1, AgainKeepsQueue, NewKeepsQueue DEF Enqueue
<1>2. ASSUME NEW k \in RequestKeys, Request(k) PROVE QueueInv'
  BY <1>1, <1>2 DEF Request, QueueKeys
<1>3. CASE Tick
  <2>1. WindowKeys[window] \in QueueKeys
    <3>1. window \in DOMAIN WindowKeys
      BY DEF QueueInv, QueueTypes
    <3> QED BY <3>1 DEF QueueKeys, ToSet
  <2> QED BY <1>1, <1>3, <2>1 DEF Tick
<1> QED BY <1>2, <1>3, RecordKeepsQueue, RecoverKeepsQueue, VisibleKeepsQueue, ReserveKeepsQueue,
           FindsNoneKeepsQueue, HandlerKeepsQueue, TimeKeepsQueue, RestartKeepsQueue
        DEF InMemoryNext

\* The invariant says all that the queue promises.
LEMMA QueueInvIsEnough == QueueInv => QueueKeepsItsWord
<1> SUFFICES ASSUME QueueInv PROVE QueueKeepsItsWord
  OBVIOUS
<1>1. QueueTypes /\ KeysLead /\ AskingIsNew /\ AtHand
  BY DEF QueueInv
<1>2. \A j \in DOMAIN keyOf : j \in QueueJobs /\ j # NoneMade
  BY <1>1, MadeJobs DEF NoneMade
<1>3. \A j \in QueueJobs : IsQueueRow(jobRows[j]) /\ IsQueueRow(savedRows[j]) /\ IsEntry(entries[j])
  BY <1>1 DEF QueueTypes
<1>4. OneJobPerKey
  <2> SUFFICES ASSUME NEW i \in DOMAIN keyOf, NEW j \in DOMAIN keyOf, i # j,
                      keyOf[i] = keyOf[j], keyOf[i] \notin doubtful
               PROVE  FALSE
    BY DEF OneJobPerKey
  <2>1. AskingFor(i) \/ jobKeys[keyOf[i]] = i
    BY <1>1 DEF KeysLead
  <2>2. AskingFor(j) \/ jobKeys[keyOf[i]] = j
    BY <1>1 DEF KeysLead
  <2>3. AskingFor(i) \/ AskingFor(j) => jobKeys[keyOf[i]] = NoneMade
    BY <1>1 DEF AskingFor, AskingIsNew
  <2> QED BY <1>2, <2>1, <2>2, <2>3 DEF AskingFor
<1>5. AcceptedIsKept
  <2>1. NoRow.status = "none"
    BY NoRowIsNone
  <2> QED BY <1>1, <2>1 DEF AcceptedIsKept, KeysLead, IsMade
<1>6. RunsWithinBudget
  <2> SUFFICES ASSUME NEW j \in QueueJobs PROVE runs[j] <= MaxAttempts
    BY DEF RunsWithinBudget
  <2>1. runs[j] <= jobRows[j].attempt
    BY DEF QueueInv, JobKept
  <2>2. jobRows[j].attempt \in 0..MaxAttempts
    BY <1>3 DEF IsQueueRow
  <2>3. runs[j] \in Nat
    BY <1>1 DEF QueueTypes
  <2> QED BY <2>1, <2>2, <2>3, DomainBounds
<1>7. EndedForGood
  <2> SUFFICES ASSUME NEW j \in ended
               PROVE  savedRows[j].status \in {"completed", "dead"} /\ hand.job # j
    BY DEF EndedForGood
  <2>1. j \in QueueJobs /\ JobKept(j, jobRows[j], savedRows[j], entries[j])
    BY DEF QueueInv
  <2>2. savedRows[j].status \in {"completed", "dead"} /\ jobRows[j].status \in {"completed", "dead"}
    BY <2>1 DEF JobKept, Ended
  <2>3. CASE loop = "handle"
    BY <1>1, <2>2, <2>3 DEF AtHand
  <2>4. CASE loop # "handle"
    <3>1. hand.job = NoneMade
      BY <1>1, <2>4 DEF AtHand, NoReservation
    <3>2. j # NoneMade
      BY <2>1, QueueBounds DEF NoneMade, QueueJobs
    <3> QED BY <2>2, <3>1, <3>2
  <2> QED BY <2>2, <2>3, <2>4
<1>8. ASSUME NEW j \in QueueJobs, jobRows[j] # NoRow, j \notin cutOff
      PROVE  HasItsEntry(j) /\ ~IsStuck(j)
  <2>1. PICK job, entry, n : job = jobRows[j] /\ entry = entries[j] /\ n = entry.attempt + 1
    OBVIOUS
  <2>2. IsQueueRow(job) /\ IsMade(job) /\ IsEntry(entry) /\ n \in Nat \ {0}
    <3>1. IsQueueRow(job) /\ IsEntry(entry) /\ job # NoRow
      BY <1>3, <1>8, <2>1
    <3> QED BY <2>1, <3>1, DomainBounds DEF IsQueueRow, IsMade, IsEntry
  <2>3. Servable(job, entry) /\ JobKept(j, job, savedRows[j], entry)
    BY <1>8, <2>1, <2>2 DEF QueueInv, JobKept
  <2>4. CASE entry.state = "none"
    <3>1. job.status \in {"queued", "retrying", "completed", "dead"}
      BY <2>3, <2>4 DEF Servable
    <3> QED BY <2>1, <2>4, <3>1, Zenon DEF HasItsEntry, IsStuck
  <2>5. CASE entry.state = "available"
    <3>1. n <= MaxAttempts /\ job.status \in {"queued", "retrying", "reserved"}
      BY <2>1, <2>3, <2>5 DEF Servable, JobKept
    <3>2. Reserving(job, n) # Throws
      BY <2>2, <3>1, ReservedRow DEF IsMade
    <3>3. ~IsStuck(j)
      BY <2>1, <3>2 DEF IsStuck
    <3>4. entry.state # "none" /\ entry.state # "reserved"
      BY <2>5
    <3> QED BY <2>1, <2>5, <3>3, <3>4, Zenon DEF HasItsEntry
  <2>6. CASE entry.state = "reserved"
    <3>1. job.status \in {"queued", "reserved", "retrying"} \/ job.status \in {"completed", "dead"}
      BY <2>2 DEF IsQueueRow, IsMade, QueueStatuses
    <3>2. job.status \in {"completed", "dead"} \/ Recovering(job, n) # Throws
      BY <2>2, <3>1, RecoveredRow
    <3>3. entry.state # "none" /\ entry.state # "available"
      BY <2>6
    <3> QED BY <2>1, <2>6, <3>2, <3>3, Zenon DEF HasItsEntry, IsStuck
  <2>7. CASE entry.state \in {"completed", "dead"}
    <3>1. job.status = entry.state
      BY <2>3, <2>7 DEF JobKept, Ended
    <3>2. entry.state # "none" /\ entry.state # "available" /\ entry.state # "reserved"
      BY <2>7
    <3> QED BY <2>1, <3>1, <3>2, Zenon DEF HasItsEntry, IsStuck
  <2>8. entry.state \in EntryStates
    BY <2>2 DEF IsEntry
  <2> QED BY <2>4, <2>5, <2>6, <2>7, <2>8 DEF EntryStates
<1>9. UnservedForAReason
  <2>1. ASSUME NEW i \in QueueJobs, IsStuck(i) PROVE i \in cutOff
    <3>1. entries[i].state # "none"
      BY <2>1 DEF IsStuck
    <3>2. IsMade(jobRows[i])
      BY <3>1 DEF QueueInv, JobKept
    <3>3. jobRows[i] # NoRow
      BY <3>2, NoRowIsNone DEF IsMade
    <3> QED BY <1>8, <2>1, <3>3
  <2>2. ASSUME NEW j \in QueueJobs, jobRows[j] # NoRow, ~IsServed(j), j \notin cutOff
        PROVE  \E i \in cutOff : HoldsUp(i, j)
    <3>1. HasItsEntry(j)
      BY <1>8, <2>2
    <3>2. PICK i \in QueueJobs : HoldsUp(i, j)
      BY <2>2, <3>1 DEF IsServed
    <3>3. i \in cutOff
      BY <2>1, <3>2 DEF HoldsUp
    <3> QED BY <3>2, <3>3
  <2> QED BY <2>2 DEF UnservedForAReason
<1> QED BY <1>4, <1>5, <1>6, <1>7, <1>9 DEF QueueKeepsItsWord

\* Whatever the file system refuses, and whenever the process restarts, a key has one job
\* unless a call for it was cut short, an accepted key keeps its job, no job runs beyond its
\* retry policy or after its acknowledged end, and only what a restart met at a bad moment,
\* or has such a job's entry before its own, is left unserved (enqueue, reserve and the settlements of in-memory-queue-provider.ts).
THEOREM QueueIsTrue == InMemorySpec => []QueueKeepsItsWord
<1>1. InMemorySpec => []QueueInv
  BY QueueInitHolds, QueueKept, PTL DEF InMemorySpec
<1> QED BY <1>1, QueueInvIsEnough, PTL
=============================================================================
