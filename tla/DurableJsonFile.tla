-------------------------- MODULE DurableJsonFile --------------------------
(***************************************************************************)
(* The file under every durable JSON store of the repository               *)
(* (durable-json-state-store.ts; baileys-auth-state-store.ts repeats it).   *)
(* A process reads the file once, when it constructs the store, and keeps   *)
(* the state in memory; each change replaces the whole file: the state is   *)
(* written to <file>.tmp, which is then renamed to <file>.                  *)
(*                                                                         *)
(* Node runs one change to its end before it starts another, so the steps   *)
(* of one process never interleave with each other; the steps of two        *)
(* processes that were given the same path do, and a process may be killed  *)
(* between any two of them.  Both processes use the same temporary name,    *)
(* and opening it truncates what another process has there: that is why     *)
(* the model keeps inodes apart from the names that lead to them.           *)
(*                                                                         *)
(* A loss of power is left out: nothing is ever synced to the device, so    *)
(* what survives one is the file system's business.                         *)
(***************************************************************************)
EXTENDS FiniteSets

CONSTANTS Process,     \* the processes that were given this path
          Inode,       \* the inodes the directory may use
          NoInode,     \* a name that leads nowhere
          EmptyState,  \* emptyStateFactory()
          Torn         \* content that JSON.parse refuses: truncated or mixed

ASSUME NoInodeIsNone == NoInode \notin Inode
ASSUME EmptyIsWhole == EmptyState # Torn

VARIABLES content,     \* what each inode holds
          fileAt,      \* the inode <file> leads to
          tmpAt,       \* the inode <file>.tmp leads to
          memory,      \* the state each process keeps
          fd,          \* the inode each process has open for writing
          step,        \* where each process is in write()
          overlapped   \* history: two processes were between open and rename

fileVars == <<content, fileAt, tmpAt, memory, fd, step, overlapped>>

Steps == {"down", "idle", "open", "fill", "rename"}

FileTypeOK ==
  /\ fileAt \in Inode \cup {NoInode}
  /\ tmpAt \in Inode \cup {NoInode}
  /\ DOMAIN content = Inode
  /\ DOMAIN memory = Process
  /\ fd \in [Process -> Inode \cup {NoInode}]
  /\ step \in [Process -> Steps]
  /\ overlapped \in BOOLEAN

FileInit ==
  /\ content = [i \in Inode |-> Torn]
  /\ fileAt = NoInode
  /\ tmpAt = NoInode
  /\ memory = [p \in Process |-> EmptyState]
  /\ fd = [p \in Process |-> NoInode]
  /\ step = [p \in Process |-> "down"]
  /\ overlapped = FALSE

-----------------------------------------------------------------------------
(* read(): an absent file is the empty state, an unreadable one an error.    *)

FileState == IF fileAt = NoInode THEN EmptyState ELSE content[fileAt]

Whole == FileState # Torn

(* The store of a process that was given no file, and its changes.           *)
StartInMemory(p) ==
  /\ step[p] = "down"
  /\ step' = [step EXCEPT ![p] = "idle"]
  /\ UNCHANGED <<content, fileAt, tmpAt, memory, fd, overlapped>>

ChangeInMemory(p, state) ==
  /\ step[p] = "idle"
  /\ memory' = [memory EXCEPT ![p] = state]
  /\ UNCHANGED <<content, fileAt, tmpAt, fd, step, overlapped>>

(* The store is constructed from the file; a process that cannot parse it   *)
(* ends with the error and stays down.                                      *)
StartStore(p) ==
  /\ step[p] = "down"
  /\ Whole
  /\ memory' = [memory EXCEPT ![p] = FileState]
  /\ step' = [step EXCEPT ![p] = "idle"]
  /\ UNCHANGED <<content, fileAt, tmpAt, fd, overlapped>>

(* The store's state is replaced in memory before persist() is called, and   *)
(* stays replaced whatever becomes of the write.                             *)
ChangeState(p, state) ==
  /\ step[p] = "idle"
  /\ memory' = [memory EXCEPT ![p] = state]
  /\ step' = [step EXCEPT ![p] = "open"]
  /\ UNCHANGED <<content, fileAt, tmpAt, fd, overlapped>>

-----------------------------------------------------------------------------
(* write(): open and truncate the temporary file, fill it, rename it.        *)

Writing(p) == step[p] \in {"fill", "rename"}

Unused(i) == i # fileAt /\ \A q \in Process : fd[q] # i

(* Mutant: the file itself is opened, and truncated.                         *)
OpenFileItself(p) ==
  /\ step[p] = "open"
  /\ \E i \in Inode :
       /\ IF fileAt = NoInode THEN Unused(i) ELSE i = fileAt
       /\ content' = [content EXCEPT ![i] = Torn]
       /\ tmpAt' = i
       /\ fd' = [fd EXCEPT ![p] = i]
  /\ step' = [step EXCEPT ![p] = "fill"]
  /\ overlapped' = (overlapped \/ \E q \in Process \ {p} : Writing(q))
  /\ UNCHANGED <<fileAt, memory>>

OpenTemporary(p) ==
  /\ step[p] = "open"
  /\ \E i \in Inode :
       /\ IF tmpAt = NoInode THEN Unused(i) ELSE i = tmpAt
       /\ content' = [content EXCEPT ![i] = Torn]
       /\ tmpAt' = i
       /\ fd' = [fd EXCEPT ![p] = i]
  /\ step' = [step EXCEPT ![p] = "fill"]
  /\ overlapped' = (overlapped \/ \E q \in Process \ {p} : Writing(q))
  /\ UNCHANGED <<fileAt, memory>>

(* A file that still is as open() left it receives the whole state; over     *)
(* the text of another process the shorter of the two leaves a remainder.    *)
Filled(p) ==
  {memory[p]} \cup (IF content[fd[p]] = Torn THEN {} ELSE {Torn})

FillTemporary(p) ==
  /\ step[p] = "fill"
  /\ \E text \in Filled(p) : content' = [content EXCEPT ![fd[p]] = text]
  /\ fd' = [fd EXCEPT ![p] = NoInode]
  /\ step' = [step EXCEPT ![p] = "rename"]
  /\ UNCHANGED <<fileAt, tmpAt, memory, overlapped>>

RenameTemporary(p) ==
  /\ step[p] = "rename"
  /\ tmpAt # NoInode
  /\ fileAt' = tmpAt
  /\ tmpAt' = NoInode
  /\ step' = [step EXCEPT ![p] = "idle"]
  /\ UNCHANGED <<content, memory, fd, overlapped>>

(* Another process has renamed the temporary file already: ENOENT.           *)
RenameFails(p) ==
  /\ step[p] = "rename"
  /\ tmpAt = NoInode
  /\ step' = [step EXCEPT ![p] = "idle"]
  /\ UNCHANGED <<content, fileAt, tmpAt, memory, fd, overlapped>>

(* The file system refuses (no space, no permission) before the file is      *)
(* opened, or while it is filled.                                            *)
WriteFails(p) ==
  /\ \/ /\ step[p] = "open"
        /\ UNCHANGED content
     \/ /\ step[p] = "fill"
        /\ content' = [content EXCEPT ![fd[p]] = Torn]
  /\ fd' = [fd EXCEPT ![p] = NoInode]
  /\ step' = [step EXCEPT ![p] = "idle"]
  /\ UNCHANGED <<fileAt, tmpAt, memory, overlapped>>

(* The process is killed, wherever it is; the names stay as they are.        *)
StopStore(p) ==
  /\ step[p] # "down"
  /\ memory' = [memory EXCEPT ![p] = EmptyState]
  /\ fd' = [fd EXCEPT ![p] = NoInode]
  /\ step' = [step EXCEPT ![p] = "down"]
  /\ UNCHANGED <<content, fileAt, tmpAt, overlapped>>

-----------------------------------------------------------------------------
(* The file under any store: a store may put any whole state in memory.      *)

ChangeToAny(p) ==
  /\ memory'[p] # Torn
  /\ ChangeState(p, memory'[p])

FileStep(p) ==
  \/ StartStore(p) \/ ChangeToAny(p) \/ OpenTemporary(p) \/ FillTemporary(p)
  \/ RenameTemporary(p) \/ RenameFails(p) \/ WriteFails(p) \/ StopStore(p)

FileNext == \E p \in Process : FileStep(p)

FileSpec == FileInit /\ [][FileNext]_fileVars

-----------------------------------------------------------------------------
(* Properties. *)

(* Whatever is killed and whatever write fails, the file is absent or holds  *)
(* a whole state, as long as no two processes have been between opening and  *)
(* renaming the temporary file at once: a reader never meets a torn file     *)
(* that one writer left (durable-json-state-store.ts:38-47).                 *)
WholeUnlessOverlapped == ~overlapped => Whole
=============================================================================
