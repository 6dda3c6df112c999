------------------------- MODULE ProviderOwnership -------------------------
(***************************************************************************)
(* Which provider runtime drives a session: the lease row of               *)
(* PostgresqlProviderRuntimeSupervisorOwnershipGuard, the                  *)
(* ProviderRuntimeSupervisor of each runtime process, its start and stop   *)
(* commands, its drain loop, and the sockets of RealBaileysSocketProvider. *)
(*                                                                         *)
(* One session.  A start creates a record and a socket, both named after   *)
(* it, since the code keeps references to records and sockets that the     *)
(* maps have replaced.  A step runs from one await to the next; a query to *)
(* the lease table is two steps, its execution and its answer.             *)
(***************************************************************************)
EXTENDS Naturals, Sequences

CONSTANTS
  Runtimes,       \* provider-runtime processes
  Starts, Stops,  \* calls of startSession and stopSession
  Ticks,          \* ticks that may be in flight at once (setInterval)
  RuntimeOf,      \* the runtime each call or tick belongs to
  MaxSignals,     \* bound: undrained signals of a runtime
  MaxFaults,      \* bound: crashes and slips (see below) in a behaviour
  None            \* null

Threads == Starts \cup Stops \cup Ticks

(***************************************************************************)
(* Nothing in the code ties an open socket to the lease; it depends on     *)
(* these not happening.                                                    *)
(*   "late":      a lease the supervisor is renewing runs out;             *)
(*   "close":     closing an open socket fails;                            *)
(*   "calls":     a start overlaps another call, or a pending surrender;   *)
(*   "complaint": an open socket reports a failure signal (an unsupported  *)
(*                message is enough);                                      *)
(*   "ingest":    the event log refuses a signal;                          *)
(*   "stale":     one session's signals are given to another's record;     *)
(*   "shutdown":  the supervisor is shut down with its socket open.        *)
(***************************************************************************)
Slips == {"late", "close", "calls", "complaint", "ingest", "stale", "shutdown"}

ASSUME OwnershipIds ==
  /\ RuntimeOf \in [Threads -> Runtimes]
  /\ Starts \cap Stops = {} /\ Starts \cap Ticks = {} /\ Stops \cap Ticks = {}
  /\ None \notin Runtimes \cup Threads \cup Slips
ASSUME OwnershipBounds == MaxSignals \in Nat /\ MaxFaults \in Nat

VARIABLES
  owner, expired, \* the lease row: owner_ref (None: no row), and its time is up
  record,         \* the supervisor's map: the current session record
  state,          \* the state of each record
  mapped,         \* the socket provider's map: the current socket
  open,           \* the sockets that are connected or connecting
  clearing,       \* logged out, and their credentials not yet cleared
  queue,          \* signals recorded and not yet drained
  looping,        \* the runtimes whose drain loop starts ticks
  pc,             \* the step each call or tick is at
  ref,            \* the record a stop or a tick has in hand
  sock,           \* the socket a stop has in hand
  batch,          \* the signals a tick drained and has not ingested
  faults,         \* crashes and slips so far
  slip            \* history: what first went wrong, see below

lease    == <<owner, expired>>
sessions == <<record, state>>
sockets  == <<mapped, open, clearing, queue>>
hands    == <<ref, sock, batch>>
vars     == <<lease, sessions, sockets, looping, pc, hands, faults, slip>>

(***************************************************************************)
(* STARTING, QR_REQUIRED, PAIRING, CONNECTED and RECONNECTING are          *)
(* "holding" (shouldHoldOwnership), DISCONNECTED and LOGGED_OUT "down".    *)
(* A signal is "up" or "down" after the state it leads to; "replaced"      *)
(* leads down as well and gives the lease back.                            *)
(***************************************************************************)
States  == {"none", "holding", "down", "destroyed"}
Signals == {"up", "down", "replaced"}

StartSteps == {"ready", "acquiring", "granted", "opening", "releasing",
               "duplicate", "refused", "failed", "done"}
StopSteps == {"ready", "closing", "closed", "failing", "destroying", "missing", "done"}
TickSteps == {"idle", "renewing", "renewed", "lost", "surrender", "surrendered"}

\* The state of the session in the supervisor's map, "none" if there is none.
Current(r) == IF record[r] = None THEN "none" ELSE state[record[r]]

StartsOf(r) == {s \in Starts : RuntimeOf[s] = r}
StopsOf(r)  == {p \in Stops  : RuntimeOf[p] = r}
TicksOf(r)  == {t \in Ticks  : RuntimeOf[t] = r}

\* A start of r is at work; it has asked for the lease and may have it.
Starting(r) == \E s \in StartsOf(r) : pc[s] \in {"acquiring", "granted", "opening", "releasing"}
Opening(r)  == \E s \in StartsOf(r) : pc[s] \in {"granted", "opening"}
Stopping(r) == \E p \in StopsOf(r) : pc[p] \in {"closing", "closed", "failing", "destroying"}
Surrendering(r) == \E t \in TicksOf(r) : pc[t] = "surrender"

TypeOK ==
  /\ owner \in Runtimes \cup {None} /\ expired \in BOOLEAN
  /\ record \in [Runtimes -> Starts \cup {None}]
  /\ state \in [Starts -> States]
  /\ mapped \in [Runtimes -> Starts \cup {None}]
  /\ open \in [Runtimes -> SUBSET Starts] /\ clearing \in [Runtimes -> SUBSET Starts]
  /\ queue \in [Runtimes -> Seq(Signals)]
  /\ looping \in SUBSET Runtimes
  /\ pc \in [Threads -> StartSteps \cup StopSteps \cup TickSteps]
  /\ ref \in [Stops \cup Ticks -> Starts \cup {None}]
  /\ sock \in [Stops -> Starts \cup {None}]
  /\ batch \in [Ticks -> Seq(Signals)]
  /\ faults \in 0..MaxFaults /\ slip \in Slips \cup {None}
  \* what a runtime holds, it made itself
  /\ \A r \in Runtimes : open[r] \subseteq StartsOf(r)
                         /\ {record[r], mapped[r]} \subseteq StartsOf(r) \cup {None}

Init ==
  /\ owner = None /\ expired = FALSE
  /\ record = [r \in Runtimes |-> None] /\ state = [s \in Starts |-> "none"]
  /\ mapped = [r \in Runtimes |-> None] /\ open = [r \in Runtimes |-> {}]
  /\ clearing = [r \in Runtimes |-> {}]
  /\ queue = [r \in Runtimes |-> << >>]
  /\ looping = Runtimes
  /\ pc = [c \in Threads |-> IF c \in Ticks THEN "idle" ELSE "ready"]
  /\ ref = [c \in Stops \cup Ticks |-> None] /\ sock = [p \in Stops |-> None]
  /\ batch = [t \in Ticks |-> << >>]
  /\ faults = 0 /\ slip = None

GoTo(c, step) == pc' = [pc EXCEPT ![c] = step] /\ UNCHANGED looping

\* The step is a slip if happened; a step that must be taken goes on regardless
\* (Marked), one the environment chooses is bounded (Slip).
Marked(kind, happened) == slip' = IF happened /\ slip = None THEN kind ELSE slip
Slip(kind, happened) == /\ happened => faults < MaxFaults
                        /\ faults' = IF happened THEN faults + 1 ELSE faults
                        /\ Marked(kind, happened)
SetState(s, st) == state' = [state EXCEPT ![s] = st]

-----------------------------------------------------------------------------
(* The lease table.                                                        *)

\* acquire: the row is inserted, or taken over if it is mine or its time is up.
Available(r) == owner \in {None, r} \/ expired
Acquire(r)   == Available(r) /\ owner' = r /\ expired' = FALSE

\* release: DELETE ... WHERE owner_ref = me.
\* Mutant: WHERE names the session only.
ReleaseAnyones(r) == owner' = None /\ expired' = FALSE
Release(r) == IF owner = r THEN owner' = None /\ expired' = FALSE
                           ELSE UNCHANGED lease

\* The 60 s run out.  A runtime whose tick would renew the lease is late: its
\* session is holding, a start is on its way, or the signal is yet to be drained.
Renewing(r) == \/ Current(r) = "holding"
               \/ Opening(r)
               \/ \E i \in DOMAIN queue[r] : queue[r][i] = "up"

Expire ==
  /\ owner # None /\ ~expired
  /\ expired' = TRUE
  /\ Slip("late", Renewing(owner))
  /\ UNCHANGED <<owner, sessions, sockets, looping, pc, hands>>

-----------------------------------------------------------------------------
(* startSession.                                                           *)

MayStart(r) == Current(r) \in {"none", "destroyed"}

StartSession(s) == LET r == RuntimeOf[s] IN
  /\ pc[s] = "ready" /\ MayStart(r)
  /\ GoTo(s, "acquiring")
  /\ Slip("calls", Starting(r) \/ Stopping(r) \/ Surrendering(r))
  /\ UNCHANGED <<lease, sessions, sockets, hands>>

\* "Provider runtime supervisor already owns this session."
RejectDuplicate(s) ==
  /\ pc[s] = "ready" /\ ~MayStart(RuntimeOf[s])
  /\ GoTo(s, "duplicate")
  /\ UNCHANGED <<lease, sessions, sockets, hands, faults, slip>>

StartAcquires(s) ==
  /\ pc[s] = "acquiring" /\ Acquire(RuntimeOf[s])
  /\ GoTo(s, "granted")
  /\ UNCHANGED <<sessions, sockets, hands, faults, slip>>

\* Another owner, or a query that failed: no record is made.
StartRefused(s) ==
  /\ pc[s] = "acquiring"
  /\ \/ ~Available(RuntimeOf[s]) /\ GoTo(s, "refused")
     \/ GoTo(s, "failed")
  /\ UNCHANGED <<lease, sessions, sockets, hands, faults, slip>>

CreateSession(s) ==
  /\ pc[s] = "granted"
  /\ record' = [record EXCEPT ![RuntimeOf[s]] = s] /\ SetState(s, "holding")
  /\ GoTo(s, "opening")
  /\ UNCHANGED <<lease, sockets, hands, faults, slip>>

\* The socket provider has loaded the credentials and made the socket.
SocketOpened(s) == LET r == RuntimeOf[s] IN
  /\ pc[s] = "opening"
  /\ open'   = [open   EXCEPT ![r] = @ \cup {s}]
  /\ mapped' = [mapped EXCEPT ![r] = s]
  /\ queue'  = [queue  EXCEPT ![r] = Append(@, "up")]
  /\ GoTo(s, "done")
  /\ UNCHANGED <<lease, sessions, clearing, hands, faults, slip>>

SocketRefused(s) ==
  /\ pc[s] = "opening"
  /\ SetState(s, "down")
  /\ GoTo(s, "releasing")
  /\ UNCHANGED <<lease, record, sockets, hands, faults, slip>>

StartReleases(s) ==
  /\ pc[s] = "releasing"
  /\ Release(RuntimeOf[s])
  /\ GoTo(s, "done")
  /\ UNCHANGED <<sessions, sockets, hands, faults, slip>>

StartStep(s) == \/ StartSession(s) \/ RejectDuplicate(s) \/ StartAcquires(s)
                \/ StartRefused(s) \/ CreateSession(s) \/ SocketOpened(s)
                \/ SocketRefused(s) \/ StartReleases(s)

-----------------------------------------------------------------------------
(* stopSession: close, then release, then DESTROYED.                       *)

\* Without a socket in the map closeSession throws at once.
StopSession(p) == LET r == RuntimeOf[p] IN
  /\ pc[p] = "ready"
  /\ \/ /\ record[r] = None /\ GoTo(p, "missing")
        /\ UNCHANGED <<state, ref, sock>>
     \/ /\ record[r] # None /\ mapped[r] = None
        /\ SetState(record[r], "down") /\ GoTo(p, "failing")
        /\ ref' = [ref EXCEPT ![p] = record[r]] /\ UNCHANGED sock
     \/ /\ record[r] # None /\ mapped[r] # None
        /\ GoTo(p, "closing") /\ UNCHANGED state
        /\ ref' = [ref EXCEPT ![p] = record[r]]
        /\ sock' = [sock EXCEPT ![p] = mapped[r]]
  /\ Slip("calls", Starting(r))
  /\ UNCHANGED <<lease, record, sockets, batch>>

\* The map entry is deleted, whichever socket it now is.  closeSession records a
\* signal, and logging out has the socket clear the credentials and record one.
SocketClosed(p) == LET r == RuntimeOf[p] IN
  /\ pc[p] = "closing"
  /\ open'   = [open   EXCEPT ![r] = @ \ {sock[p]}]
  /\ clearing' = [clearing EXCEPT ![r] = @ \cup (open[r] \cap {sock[p]})]
  /\ mapped' = [mapped EXCEPT ![r] = None]
  /\ queue'  = [queue  EXCEPT ![r] = Append(@, "down")]
  /\ GoTo(p, "closed")
  /\ UNCHANGED <<lease, sessions, hands, faults, slip>>

CloseFails(p) ==
  /\ pc[p] = "closing"
  /\ SetState(ref[p], "down") /\ GoTo(p, "failing")
  /\ Slip("close", sock[p] \in open[RuntimeOf[p]])
  /\ UNCHANGED <<lease, record, sockets, hands>>

\* finally: the lease is given back whether or not the socket was closed.
StopReleases(p) ==
  /\ \/ pc[p] = "closed"  /\ GoTo(p, "destroying")
     \/ pc[p] = "failing" /\ GoTo(p, "done")
  /\ Release(RuntimeOf[p])
  /\ UNCHANGED <<sessions, sockets, hands, faults, slip>>

Destroyed(p) ==
  /\ pc[p] = "destroying"
  /\ SetState(ref[p], "destroyed") /\ GoTo(p, "done")
  /\ UNCHANGED <<lease, record, sockets, hands, faults, slip>>

StopStep(p) == \/ StopSession(p) \/ SocketClosed(p) \/ CloseFails(p)
               \/ StopReleases(p) \/ Destroyed(p)

-----------------------------------------------------------------------------
(* tick: renew, drain, ingest.                                             *)

\* The state a record is in after the first n signals of b, st before.
StateAfter(b, n, st) == IF n = 0 THEN st
                        ELSE IF b[n] = "up" THEN "holding" ELSE "down"

\* The tick takes in signals up to one that gives the lease back, which it
\* awaits before it goes on, or else all of them.
Surrenders(b, n)  == n > 0 /\ b[n] = "replaced" /\ \A i \in 1..(n - 1) : b[i] # "replaced"
IngestsAll(b, n)  == n = Len(b) /\ \A i \in 1..n : b[i] # "replaced"

Ingest(t, b) == \E n \in 0..Len(b) :
  /\ \/ Surrenders(b, n) /\ GoTo(t, "surrender")
     \/ IngestsAll(b, n) /\ GoTo(t, "idle")
  /\ SetState(ref'[t], StateAfter(b, n, state[ref'[t]]))
  /\ batch' = [batch EXCEPT ![t] = SubSeq(b, n + 1, Len(b))]

\* The surrendered lease is one a later start of the runtime counts on.
GivesAnothers(t) == LET r == RuntimeOf[t] IN
  pc'[t] = "surrender" /\ (Starting(r) \/ open[r] # {})

\* A signal the event log refuses is lost and leaves the session disconnected.
Accepted(b, bad) == [i \in DOMAIN b |-> IF i \in bad THEN "down" ELSE b[i]]

Drain(t) == LET r == RuntimeOf[t] IN
  /\ queue' = [queue EXCEPT ![r] = << >>]
  /\ \/ /\ Ingest(t, queue[r])
        /\ Marked("stale", (queue[r] # << >> /\ ref'[t] # record[r]) \/ GivesAnothers(t))
        /\ UNCHANGED faults
     \/ \E bad \in SUBSET DOMAIN queue[r] :
          /\ bad # {} /\ Ingest(t, Accepted(queue[r], bad))
          /\ Slip("ingest", TRUE)
  /\ UNCHANGED <<lease, record, mapped, open, clearing, sock>>

TickRenews(t) == LET r == RuntimeOf[t] IN
  /\ pc[t] = "idle" /\ r \in looping /\ Current(r) = "holding"
  /\ ref' = [ref EXCEPT ![t] = record[r]]
  /\ GoTo(t, "renewing")
  /\ UNCHANGED <<lease, sessions, sockets, sock, batch, faults, slip>>

\* A session that is down is drained without asking for the lease.
TickDrainsUnasked(t) == LET r == RuntimeOf[t] IN
  /\ pc[t] = "idle" /\ r \in looping /\ Current(r) = "down"
  /\ ref' = [ref EXCEPT ![t] = record[r]]
  /\ Drain(t)

RenewGranted(t) ==
  /\ pc[t] = "renewing" /\ Acquire(RuntimeOf[t])
  /\ GoTo(t, "renewed")
  /\ UNCHANGED <<sessions, sockets, hands, faults, slip>>

RenewRefused(t) ==
  /\ pc[t] = "renewing" /\ ~Available(RuntimeOf[t])
  /\ GoTo(t, "lost")
  /\ UNCHANGED <<lease, sessions, sockets, hands, faults, slip>>

\* The socket stays open.
\* Mutant: the loss is reported and not recorded.
TickLostIgnored(t) ==
  /\ pc[t] = "lost" /\ GoTo(t, "idle")
  /\ UNCHANGED <<lease, sessions, sockets, hands, faults, slip>>
TickLost(t) ==
  /\ pc[t] = "lost"
  /\ SetState(ref[t], "down") /\ GoTo(t, "idle")
  /\ UNCHANGED <<lease, record, sockets, hands, faults, slip>>

TickDrains(t) == pc[t] = "renewed" /\ UNCHANGED ref /\ Drain(t)

Surrender(t) ==
  /\ pc[t] = "surrender"
  /\ Release(RuntimeOf[t])
  /\ GoTo(t, "surrendered")
  /\ UNCHANGED <<sessions, sockets, hands, faults, slip>>

TickContinues(t) ==
  /\ pc[t] = "surrendered"
  /\ UNCHANGED <<ref, lease, record, sockets, sock, faults>>
  /\ Ingest(t, batch[t])
  /\ Marked("stale", GivesAnothers(t))

TickStep(t) == \/ TickRenews(t) \/ TickDrainsUnasked(t) \/ RenewGranted(t)
               \/ RenewRefused(t) \/ TickLost(t) \/ TickDrains(t)
               \/ Surrender(t) \/ TickContinues(t)

-----------------------------------------------------------------------------
(* Sockets and processes.                                                  *)

Record(r, signal) == /\ Len(queue[r]) < MaxSignals
                     /\ queue' = [queue EXCEPT ![r] = Append(@, signal)]

\* connecting, a QR code, open; or a failure signal while the socket stays open.
SocketSignals(s) == LET r == RuntimeOf[s] IN
  /\ s \in open[r]
  /\ \/ Record(r, "up")   /\ UNCHANGED <<faults, slip>>
     \/ Record(r, "down") /\ Slip("complaint", TRUE)
  /\ UNCHANGED <<lease, sessions, mapped, open, clearing, looping, pc, hands>>

\* The socket closes itself: "up" is a reconnecting signal (nothing reconnects).
\* If it was logged out, the signal waits for the credentials to be cleared.
SocketDies(s) == LET r == RuntimeOf[s] IN
  /\ s \in open[r]
  /\ open' = [open EXCEPT ![r] = @ \ {s}]
  /\ \/ (\E signal \in Signals : Record(r, signal)) /\ UNCHANGED clearing
     \/ clearing' = [clearing EXCEPT ![r] = @ \cup {s}] /\ UNCHANGED queue
  /\ UNCHANGED <<lease, sessions, mapped, looping, pc, hands, faults, slip>>

CredentialsCleared(s) == LET r == RuntimeOf[s] IN
  /\ s \in clearing[r] /\ clearing' = [clearing EXCEPT ![r] = @ \ {s}]
  /\ Record(r, "down")
  /\ Slip("stale", open[r] # {})
  /\ UNCHANGED <<lease, sessions, mapped, open, looping, pc, hands>>

\* Memory and sockets go with the process; calls are cut off; ticks start anew.
Crash(r) ==
  /\ faults < MaxFaults /\ faults' = faults + 1
  /\ record' = [record EXCEPT ![r] = None] /\ mapped' = [mapped EXCEPT ![r] = None]
  /\ open' = [open EXCEPT ![r] = {}] /\ clearing' = [clearing EXCEPT ![r] = {}]
  /\ queue' = [queue EXCEPT ![r] = << >>]
  /\ looping' = looping \cup {r}
  /\ pc' = [c \in Threads |->
              IF c \in TicksOf(r) THEN "idle"
              ELSE IF RuntimeOf[c] = r /\ pc[c] # "ready" THEN "done" ELSE pc[c]]
  /\ batch' = [t \in Ticks |-> IF t \in TicksOf(r) THEN << >> ELSE batch[t]]
  /\ UNCHANGED <<lease, state, ref, sock, slip>>

\* SIGTERM: no command is in flight or accepted any more; the lease is given
\* back, and the sockets stay open until the process is killed.
Shutdown(r) ==
  /\ ~Starting(r) /\ ~Stopping(r)
  /\ r \in looping /\ looping' = looping \ {r}
  /\ record[r] # None /\ SetState(record[r], "destroyed")
  /\ Release(r)
  /\ pc' = [c \in Threads |->
              IF RuntimeOf[c] = r /\ pc[c] = "ready" THEN "done" ELSE pc[c]]
  /\ Slip("shutdown", open[r] # {})
  /\ UNCHANGED <<record, sockets, hands>>

Next == \/ \E s \in Starts : StartStep(s)
        \/ \E p \in Stops  : StopStep(p)
        \/ \E t \in Ticks  : TickStep(t)
        \/ \E s \in Starts : SocketSignals(s) \/ SocketDies(s) \/ CredentialsCleared(s)
        \/ \E r \in Runtimes : Crash(r) \/ Shutdown(r)
        \/ Expire

Spec == Init /\ [][Next]_vars
\* The drain loop's interval keeps firing and queries are answered.
FairSpec == Spec /\ \A t \in Ticks : WF_vars(TickStep(t))

-----------------------------------------------------------------------------
(* Properties.                                                             *)

(* A runtime with an open socket has the lease, and time left on it, unless *)
(* one of the slips has happened: starting, closing and surrendering are in *)
(* the right order with the lease's acquisition and release.                *)
LeaseCoversSocket ==
  slip = None => \A r \in Runtimes : open[r] # {} => owner = r /\ ~expired

(* Every open socket is the one a stop would find and close, and its        *)
(* session has not been given up, again unless a slip has happened.         *)
SocketsAreReachable ==
  slip = None => \A r \in Runtimes :
    /\ open[r] \subseteq {mapped[r]}
    /\ open[r] # {} => Current(r) \in {"holding", "down"}

(* Both: every open socket is covered by the lease and within reach.        *)
SocketsAreHeld == LeaseCoversSocket /\ SocketsAreReachable

(* A supervisor that believes to hold a session whose lease it does not     *)
(* have finds out: it gets the lease again or takes the session down, as    *)
(* long as its loop runs.                                                   *)
Believes(r) == Current(r) = "holding" /\ r \in looping
LostLeaseNoticed ==
  \A r \in {RuntimeOf[t] : t \in Ticks} :
    (Believes(r) /\ owner # r) ~> (~Believes(r) \/ owner = r)
=============================================================================
