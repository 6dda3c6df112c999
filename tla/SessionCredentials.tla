-------------------------- MODULE SessionCredentials --------------------------
(***************************************************************************)
(* The credentials with which WhatsApp knows a session again: the store of  *)
(* baileys-auth-state-store.ts and the sockets of RealBaileysSocketProvider *)
(* that read and write it.  A runtime reads the file once, when it is       *)
(* composed; each socket keeps a copy of its own and saves it whole at each *)
(* update of WhatsApp's; each save or clear writes the whole file.  A       *)
(* session that WhatsApp ends has its credentials cleared, but the socket's *)
(* listeners stay, and a late update of it is saved like any other.         *)
(*                                                                         *)
(* A write of the file is one step here; DurableJsonFile has its three.     *)
(* Encoding and encryption are left out: what is read is what was written.  *)
(***************************************************************************)
EXTENDS Naturals, FiniteSets

CONSTANTS
  Runtimes,      \* the provider runtimes that were given the file
  Sessions,
  NoCredentials, \* null
  MaxBoots,      \* bound: how often runtimes are started
  MaxUpdates,    \* bound: how often WhatsApp changes the credentials of a socket
  MaxRefusals    \* bound: how often the file system refuses a write

ASSUME CredentialBounds == {MaxBoots, MaxUpdates, MaxRefusals} \subseteq Nat
ASSUME NoCredentialsAreNone == NoCredentials \notin [pairing : Nat, revision : Nat]

\* initAuthCreds: credentials that no phone has accepted yet.  A pairing is one
\* acceptance; its keys change as messages are exchanged.
Fresh == [pairing |-> 0, revision |-> 0]

VARIABLES
  file,       \* [Sessions -> credentials or none]
  running,    \* the runtimes that are up
  records,    \* the map of each runtime's store
  socket,     \* "none", "loading", "open" or "closed", of each runtime's session
  auth,       \* the credentials that each socket works with
  former,     \* and those of the socket before, which may still save them
  updates,    \* how often credentials have changed
  unlinked,   \* the pairings that WhatsApp has ended
  newest,     \* history: what the last save or clear made of each session
  disturbed,  \* history: sessions saved late, in vain, or beside another runtime
  boots, refusals

credentialVars ==
  <<file, running, records, socket, auth, former, updates, unlinked, newest, disturbed, boots,
    refusals>>

CredentialInit ==
  /\ file = [s \in Sessions |-> NoCredentials]
  /\ running = {}
  /\ records = [r \in Runtimes |-> file]
  /\ socket = [r \in Runtimes |-> [s \in Sessions |-> "none"]]
  /\ auth = [r \in Runtimes |-> file]
  /\ former = auth
  /\ updates = 0
  /\ unlinked = {}
  /\ newest = file
  /\ disturbed = {}
  /\ boots = 0 /\ refusals = 0

-----------------------------------------------------------------------------
(* The store.                                                              *)

\* The constructor: existsSync, readFileSync.
ComposeStore(r) ==
  /\ r \notin running /\ boots < MaxBoots
  /\ boots' = boots + 1
  /\ running' = running \cup {r}
  /\ records' = [records EXCEPT ![r] = file]
  /\ UNCHANGED <<file, socket, auth, former, updates, unlinked, newest, disturbed, refusals>>

\* Mutant: only the record that changed is written.
DurableStateOfOne(map, s) == [t \in Sessions |-> IF t = s THEN map[t] ELSE NoCredentials]

DurableState(map, s) == map

\* save and clear: the map first, then the file; a refused write is answered
\* with a failure, and the map stays as it is.
Persist(r, s, c, late) ==
  LET map == [records[r] EXCEPT ![s] = c] IN
  /\ records' = [records EXCEPT ![r] = map]
  /\ newest' = [newest EXCEPT ![s] = c]
  /\ \/ /\ file' = DurableState(map, s)
        /\ disturbed' = disturbed \cup {t \in {s} : late \/ running # {r}}
        /\ UNCHANGED refusals
     \/ /\ refusals < MaxRefusals /\ refusals' = refusals + 1
        /\ disturbed' = disturbed \cup {s}
        /\ UNCHANGED file

-----------------------------------------------------------------------------
(* The sockets.                                                            *)

\* startSession: the credentials are loaded, then the version of WhatsApp's web
\* client is looked up.  ProviderOwnership has the lease that the start needs, and
\* how two runtimes come to have the session all the same.
LoadAuthState(r, s) ==
  /\ r \in running /\ socket[r][s] = "none"
  /\ socket' = [socket EXCEPT ![r][s] = "loading"]
  /\ auth' = [auth EXCEPT ![r][s] = records[r][s]]
  /\ UNCHANGED <<file, running, records, former, updates, unlinked, newest, disturbed, boots,
                 refusals>>

CredentialsFromSnapshot(snapshot) == IF snapshot = NoCredentials THEN Fresh ELSE snapshot

CreateSocket(r, s) ==
  /\ socket[r][s] = "loading"
  /\ socket' = [socket EXCEPT ![r][s] = "open"]
  /\ auth' = [auth EXCEPT ![r][s] = CredentialsFromSnapshot(@)]
  /\ UNCHANGED <<file, running, records, former, updates, unlinked, newest, disturbed, boots,
                 refusals>>

\* What WhatsApp makes of credentials: a phone scans the code, or the keys change.
Updated(c) == IF c.pairing = 0 THEN [pairing |-> updates + 1, revision |-> 0]
              ELSE [c EXCEPT !.revision = @ + 1]

\* "creds.update", or new keys.
UpdateCredentials(r, s) ==
  /\ socket[r][s] = "open" /\ updates < MaxUpdates
  /\ updates' = updates + 1
  /\ auth' = [auth EXCEPT ![r][s] = Updated(@)]
  /\ Persist(r, s, auth'[r][s], FALSE)
  /\ UNCHANGED <<running, socket, former, unlinked, boots>>

\* No listener is taken from a socket that has ended.
LateUpdate(r, s) ==
  /\ former[r][s] \notin {NoCredentials, Fresh} /\ updates < MaxUpdates
  /\ updates' = updates + 1
  /\ former' = [former EXCEPT ![r][s] = Updated(@)]
  /\ Persist(r, s, former'[r][s], TRUE)
  /\ UNCHANGED <<running, socket, auth, unlinked, boots>>

\* The user removes the device, or closeSession logs out, or WhatsApp finds fault.
Unlink(r, s) ==
  /\ socket[r][s] = "open" /\ auth[r][s].pairing \notin unlinked \cup {0}
  /\ unlinked' = unlinked \cup {auth[r][s].pairing}
  /\ UNCHANGED <<file, running, records, socket, auth, former, updates, newest, disturbed, boots,
                 refusals>>

Close(r, s) ==
  /\ socket' = [socket EXCEPT ![r][s] = "closed"]
  /\ auth' = [auth EXCEPT ![r][s] = NoCredentials]
  /\ former' = [former EXCEPT ![r][s] = auth[r][s]]

\* mapBaileysDisconnectReason: loggedOut, badSession and multideviceMismatch clear
\* the credentials; the signal of it waits for the store's answer.
LoggedOut(r, s) ==
  /\ socket[r][s] = "open" /\ auth[r][s].pairing \in unlinked
  /\ Close(r, s)
  /\ Persist(r, s, NoCredentials, FALSE)
  /\ UNCHANGED <<running, updates, unlinked, boots>>

\* Any other end of a connection keeps them.
Disconnected(r, s) ==
  /\ socket[r][s] = "open"
  /\ Close(r, s)
  /\ UNCHANGED <<file, running, records, updates, unlinked, newest, disturbed, boots, refusals>>

\* A session that was stopped may be started again, in the same runtime.
StopClosed(r, s) ==
  /\ socket[r][s] = "closed"
  /\ socket' = [socket EXCEPT ![r][s] = "none"]
  /\ UNCHANGED <<file, running, records, auth, former, updates, unlinked, newest, disturbed, boots,
                 refusals>>

EndRuntime(r) ==
  /\ r \in running
  /\ running' = running \ {r}
  /\ records' = [records EXCEPT ![r] = [s \in Sessions |-> NoCredentials]]
  /\ socket' = [socket EXCEPT ![r] = [s \in Sessions |-> "none"]]
  /\ auth' = [auth EXCEPT ![r] = [s \in Sessions |-> NoCredentials]]
  /\ former' = [former EXCEPT ![r] = auth'[r]]
  /\ UNCHANGED <<file, updates, unlinked, newest, disturbed, boots, refusals>>

CredentialNext ==
  \E r \in Runtimes :
    \/ ComposeStore(r) \/ EndRuntime(r)
    \/ \E s \in Sessions :
         \/ LoadAuthState(r, s) \/ CreateSocket(r, s) \/ UpdateCredentials(r, s)
         \/ LateUpdate(r, s)
         \/ Unlink(r, s) \/ LoggedOut(r, s) \/ Disconnected(r, s) \/ StopClosed(r, s)

CredentialSpec == CredentialInit /\ [][CredentialNext]_credentialVars

-----------------------------------------------------------------------------
(* Properties.                                                             *)

\* A restarted runtime finds each session as it was last saved or cleared, every
\* open socket works with just that, and credentials that were cleared because
\* WhatsApp ended the pairing do not come back: through every stop, every other
\* session's writes and every restart, except for sessions that were saved while
\* another runtime ran on the same file, whose write was refused, or that a socket
\* saved after its end (startSession, persistAuthState, recordDisconnectUpdate).
CredentialsAreKept ==
  \A s \in Sessions \ disturbed :
    /\ file[s] = newest[s]
    /\ \A r \in running :
         /\ records[r][s] = newest[s]
         /\ socket[r][s] = "open" => auth[r][s] = CredentialsFromSnapshot(newest[s])
=============================================================================
