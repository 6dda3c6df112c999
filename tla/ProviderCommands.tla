--------------------------- MODULE ProviderCommands ---------------------------
(***************************************************************************)
(* The bridge over which the API and the worker command the provider        *)
(* runtime: the client of provider-command-http-transport.ts, which waits    *)
(* five seconds and no longer; the server in the runtime, its receiver, and  *)
(* the two ways a command may take from there: to the supervisor, or to the  *)
(* older ProviderRuntime and the adapter, which only look at the socket that *)
(* the supervisor's start has made.                                         *)
(*                                                                         *)
(* One session and the runtime that was given the bridge's address.  The     *)
(* lease is here what the receiver is told of it, in one step;               *)
(* ProviderOwnership has both runtimes and each query.  A request's fields   *)
(* are in its shape, a result is the part of it that a caller decides by.    *)
(***************************************************************************)
EXTENDS Naturals, FiniteSets

CONSTANTS
  Commands,    \* calls of FetchProviderCommandTransport.execute
  CommandSets, \* the shapes they may have
  ErrorCodes,  \* what the provider's errors carry as output.statusCode
  NoCode, NoRecord,
  MaxTicks,    \* bound: ticks of the drain loop
  MaxLosses    \* bound: leases that another runtime takes, and crashes

ASSUME BridgeBounds ==
  /\ {MaxTicks, MaxLosses} \subseteq Nat
  /\ ErrorCodes \subseteq Nat /\ NoCode \notin ErrorCodes /\ NoRecord \notin Commands

VARIABLES
  command,  \* the shape of each command
  waiting,  \* the callers that have had no answer yet
  told,     \* what the others were given
  handler,  \* the await that the server's handler of each command is at
  running,  \* the runtime is running
  record,   \* the supervisor's record of the session: the start that made it
  state,    \* and the state of each such record
  hand,     \* the record a handler, or the drain loop, has in hand
  socket,   \* the socket provider's socket of the session: the start that made it
  acquired, \* InMemoryProviderRuntimeOwnershipGuard: ProviderRuntime has the instance
  lease,    \* "free", "ours", "theirs"
  had,      \* history: commands during whose handling there was a socket
  did,      \* history: what each command did at WhatsApp's
  ticks, losses

client == <<waiting, told, handler>>
bounds == <<ticks, losses>>
bridgeVars ==
  <<command, client, running, record, state, hand, socket, acquired, lease, had, did, bounds>>

Failure(category, retryable) == [ok |-> FALSE, says |-> category, retryable |-> retryable]
Success(says) == [ok |-> TRUE, says |-> says, retryable |-> FALSE]
NoAnswer == [ok |-> FALSE, says |-> "nothing", retryable |-> FALSE]

BridgeInit ==
  /\ command \in CommandSets
  /\ waiting = {}
  /\ told = [c \in Commands |-> NoAnswer]
  /\ handler = [c \in Commands |-> "none"]
  /\ running = TRUE
  /\ record = NoRecord
  /\ state = [c \in Commands |-> "none"]
  /\ hand = [c \in Commands \cup {"loop"} |-> NoRecord]
  /\ socket = NoRecord
  /\ acquired = FALSE
  /\ lease = "free"
  /\ had = {}
  /\ did = [c \in Commands |-> {}]
  /\ ticks = 0 /\ losses = 0

-----------------------------------------------------------------------------
(* Results and what becomes of them.                                       *)

StatusForFailure(result) ==
  IF result.ok THEN 200
  ELSE CASE result.says = "timeout" -> 504
         [] result.says = "unavailable" -> 503
         [] result.says = "conflict" -> 409
         [] result.says \in {"rejected", "unsafe_payload", "unsupported"} -> 400
         [] OTHER -> 500

\* failure(): the bridge's own.
BridgeFailure(retryable) == Failure(IF retryable THEN "unavailable" ELSE "rejected", retryable)

Read(status, body) ==
  IF status \notin 200..299 /\ body.ok THEN BridgeFailure(status >= 500) ELSE body

\* baileysErrorToPortFailure.
CategoryOf(code) ==
  CASE code \in {408, 504} -> "timeout"
    [] code = 409 -> "conflict"
    [] code \in {401, 403, 410} -> "rejected"
    [] code \in ErrorCodes /\ code >= 500 -> "unavailable"
    [] OTHER -> "unknown"
IsRetryable(code) == code = NoCode \/ code \in {408, 429} \/ code >= 500
ProviderError(code) == Failure(CategoryOf(code), IsRetryable(code))

SocketMissing == Failure("rejected", FALSE)
\* supervisorFailureAsApplicationPortFailure, of a failed start or stop.
SupervisorFailure == Failure("unavailable", TRUE)

ConnectionState(supervised) ==
  CASE supervised = "CONNECTED" -> "connected"
    [] supervised \in {"QR_REQUIRED", "PAIRING"} -> "qr_required"
    [] supervised \in {"DISCONNECTED", "DESTROYED"} -> "disconnected"
    [] supervised = "LOGGED_OUT" -> "logged_out"
    [] OTHER -> "connecting"

-----------------------------------------------------------------------------
(* The caller.                                                             *)

Await(c, step) == handler' = [handler EXCEPT ![c] = step] /\ UNCHANGED <<waiting, told>>

\* The server's answer counts only while somebody waits for it.
Reply(c, result) ==
  /\ handler' = [handler EXCEPT ![c] = "done"]
  /\ waiting' = waiting \ {c}
  /\ told' = IF c \in waiting THEN [told EXCEPT ![c] = Read(StatusForFailure(result), result)]
               ELSE told

Execute(c) ==
  /\ handler[c] = "none"
  /\ handler' = [handler EXCEPT ![c] = IF running THEN "sent" ELSE "gone"]
  /\ waiting' = waiting \cup {c}
  /\ UNCHANGED <<told, running, record, state, hand, socket, acquired, lease, did, bounds>>

\* The timer, or a broken connection.  The handler goes on.
GiveUp(c) ==
  /\ c \in waiting
  /\ waiting' = waiting \ {c}
  /\ told' = [told EXCEPT ![c] = BridgeFailure(TRUE)]
  /\ UNCHANGED <<handler, running, record, state, hand, socket, acquired, lease, did, bounds>>

-----------------------------------------------------------------------------
(* ProviderRuntime and the adapter.                                        *)

\* Sockets are kept by session; a command that names none asks for "default".
SocketOf(c) == IF command[c].session THEN socket ELSE NoRecord

\* The gateway asks the socket whether it knows its user.
GatewayConnects(c) ==
  IF SocketOf(c) = NoRecord THEN {SocketMissing}
  ELSE {Success("connecting"), Success("connected")}

GatewayDisconnects(c) ==
  IF SocketOf(c) = NoRecord THEN SocketMissing ELSE Success("disconnected")

\* acquireOwnership meets no other owner than this process; a failure gives the
\* instance back.
Own(result) == acquired' = result.ok

RuntimeConnect(c) == \E result \in GatewayConnects(c) : Own(result) /\ Reply(c, result)

\* The socket that is logged out stays in the provider's map.
RuntimeDisconnect(c) ==
  LET result == GatewayDisconnects(c) IN
  /\ Reply(c, result)
  /\ acquired' = (acquired /\ ~result.ok)
  /\ did' = [did EXCEPT ![c] = @ \cup IF result.ok THEN {"logged out"} ELSE {}]

\* Without a resolver the challenge is the attempt the caller named.
RequestQrPairing(c) == Own(Success("challenge")) /\ Reply(c, Success("challenge"))

-----------------------------------------------------------------------------
(* The receiver.                                                           *)

\* Mutant: the supervisor's record is the answer to a second connect.
FallThroughToRecord(c) ==
  /\ Reply(c, Success(ConnectionState(IF record = NoRecord THEN "STARTING" ELSE state[record])))
  /\ UNCHANGED acquired

FallThrough(c) == RuntimeConnect(c)

MayStart == record = NoRecord \/ state[record] = "DESTROYED"

RequestConnection(c) ==
  LET intent == command[c].intent IN
  CASE intent \notin {"connect", "reconnect"} ->
         Reply(c, Failure("rejected", FALSE)) /\ UNCHANGED acquired
    [] intent = "connect" /\ command[c].session ->
         IF MayStart THEN Await(c, "acquiring") /\ UNCHANGED acquired ELSE FallThrough(c)
    [] OTHER -> RuntimeConnect(c)

Disconnect(c) ==
  IF ~command[c].session \/ record = NoRecord
  THEN RuntimeDisconnect(c) /\ UNCHANGED <<hand, state>>
  ELSE /\ hand' = [hand EXCEPT ![c] = record]
       /\ IF socket # NoRecord THEN Await(c, "closing") /\ UNCHANGED state
          ELSE /\ Await(c, "failing")
               /\ state' = [state EXCEPT ![record] = "DISCONNECTED"]
       /\ UNCHANGED <<acquired, did>>

SendOutboundMessage(c) ==
  IF SocketOf(c) = NoRecord THEN Reply(c, SocketMissing) ELSE Await(c, "resolving")

Untouched == <<running, record, socket, lease, bounds>>

\* ProviderCommandHttpHandler: another path or method, no or another token, a body
\* that is no command or has no context.
Faults == {"path", "method", "token", "body"}

TurnAway(c) ==
  /\ handler[c] = "sent" /\ command[c].fault \in Faults
  /\ Reply(c, BridgeFailure(FALSE))
  /\ UNCHANGED <<state, hand, acquired, did, Untouched>>

Receive(c) ==
  /\ handler[c] = "sent" /\ command[c].fault \notin Faults
  /\ \/ /\ command[c].kind = "request_connection"
        /\ RequestConnection(c) /\ UNCHANGED <<state, hand, did>>
     \/ command[c].kind = "disconnect" /\ Disconnect(c)
     \/ /\ command[c].kind = "request_qr_pairing"
        /\ RequestQrPairing(c) /\ UNCHANGED <<state, hand, did>>
     \/ /\ command[c].kind = "send_outbound_message"
        /\ SendOutboundMessage(c) /\ UNCHANGED <<state, hand, acquired, did>>
     \/ /\ command[c].kind = "get_capability_summary"
        /\ Reply(c, Success("summary")) /\ UNCHANGED <<state, hand, acquired, did>>
  /\ UNCHANGED Untouched

-----------------------------------------------------------------------------
(* The supervisor's start and stop, and the send.                          *)

Granted(c) ==
  /\ handler[c] = "acquiring" /\ lease # "theirs"
  /\ lease' = "ours"
  /\ record' = c
  /\ state' = [state EXCEPT ![c] = "STARTING"]
  /\ Await(c, "starting")
  /\ UNCHANGED <<running, hand, socket, acquired, did, bounds>>

\* The same code as for a session that is active here.
Denied(c) ==
  /\ handler[c] = "acquiring" /\ lease = "theirs"
  /\ FallThrough(c)
  /\ UNCHANGED <<state, hand, did, Untouched>>

Started(c) ==
  /\ handler[c] = "starting"
  /\ socket' = c
  /\ did' = [did EXCEPT ![c] = @ \cup {"opened"}]
  /\ Reply(c, Success(ConnectionState(state[c])))
  /\ UNCHANGED <<running, record, state, hand, acquired, lease, bounds>>

StartFails(c) ==
  /\ handler[c] = "starting"
  /\ state' = [state EXCEPT ![c] = "DISCONNECTED"]
  /\ Await(c, "failing")
  /\ UNCHANGED <<hand, acquired, did, Untouched>>

\* socket.logout(), whose failure does not say how far it got.
LoggedOff(c) ==
  /\ handler[c] = "closing"
  /\ did' = [did EXCEPT ![c] = @ \cup {"logged out"}]
  /\ socket' = NoRecord
  /\ Await(c, "closed")
  /\ UNCHANGED <<running, record, state, hand, acquired, lease, bounds>>

LogoutFails(c) ==
  /\ handler[c] = "closing"
  /\ \E far \in {{}, {"logged out"}} : did' = [did EXCEPT ![c] = @ \cup far]
  /\ state' = [state EXCEPT ![hand[c]] = "DISCONNECTED"]
  /\ Await(c, "failing")
  /\ UNCHANGED <<hand, acquired, Untouched>>

Release == lease' = IF lease = "ours" THEN "free" ELSE lease

Stopped(c) ==
  /\ handler[c] = "closed"
  /\ Release
  /\ state' = [state EXCEPT ![hand[c]] = "DESTROYED"]
  /\ Reply(c, Success("disconnected"))
  /\ UNCHANGED <<running, record, hand, socket, acquired, did, bounds>>

Failing(c) ==
  /\ handler[c] = "failing"
  /\ Release
  /\ Reply(c, SupervisorFailure)
  /\ UNCHANGED <<running, record, state, hand, socket, acquired, did, bounds>>

\* resolveOutboundMessage: the intent is there, or missing, or cannot be read.
Resolved(c) ==
  /\ handler[c] = "resolving"
  /\ \/ Await(c, "sending")
     \/ \E category \in {"rejected", "unavailable"} :
          Reply(c, Failure(category, category = "unavailable"))
  /\ UNCHANGED <<state, hand, acquired, did, Untouched>>

\* What WhatsApp may have done though the call failed.
InDoubt(code) == IF IsRetryable(code) THEN {{}, {"sent"}} ELSE {{}}

Sent(c) ==
  /\ handler[c] = "sending"
  /\ \/ /\ did' = [did EXCEPT ![c] = @ \cup {"sent"}]
        /\ Reply(c, Success("accepted"))
     \/ /\ \E far \in {{}, {"sent"}} : did' = [did EXCEPT ![c] = @ \cup far]
        /\ Reply(c, Success("unknown"))
     \/ \E code \in ErrorCodes \cup {NoCode} :
          /\ \E far \in InDoubt(code) : did' = [did EXCEPT ![c] = @ \cup far]
          /\ Reply(c, ProviderError(code))
  /\ UNCHANGED <<state, hand, acquired, Untouched>>

-----------------------------------------------------------------------------
(* What else moves the session.                                            *)

\* A tick takes up the record, and later puts it where the signals lead.
BeginTick ==
  /\ running /\ ticks < MaxTicks
  /\ record # NoRecord /\ state[record] # "DESTROYED" /\ hand["loop"] = NoRecord
  /\ ticks' = ticks + 1
  /\ hand' = [hand EXCEPT !["loop"] = record]
  /\ UNCHANGED <<client, running, record, state, socket, acquired, lease, did, losses>>

EndTick ==
  /\ hand["loop"] # NoRecord
  /\ \E st \in {state[hand["loop"]], "QR_REQUIRED", "CONNECTED", "RECONNECTING", "DISCONNECTED",
                "LOGGED_OUT"} :
       state' = [state EXCEPT ![hand["loop"]] = st]
  /\ hand' = [hand EXCEPT !["loop"] = NoRecord]
  /\ UNCHANGED <<client, running, record, socket, acquired, lease, did, bounds>>

LoseLease ==
  /\ lease # "theirs" /\ losses < MaxLosses
  /\ losses' = losses + 1
  /\ lease' = "theirs"
  /\ UNCHANGED <<client, running, record, state, hand, socket, acquired, did, ticks>>

\* Also what a query of the lease that throws does: nobody catches it.
CrashRuntime ==
  /\ running /\ losses < MaxLosses
  /\ losses' = losses + 1
  /\ running' = FALSE
  /\ handler' = [c \in Commands |-> IF handler[c] \in {"none", "done"} THEN handler[c] ELSE "gone"]
  /\ record' = NoRecord
  /\ state' = [c \in Commands |-> "none"]
  /\ hand' = [c \in Commands \cup {"loop"} |-> NoRecord]
  /\ socket' = NoRecord
  /\ acquired' = FALSE
  /\ UNCHANGED <<waiting, told, lease, did, ticks>>

RestartRuntime ==
  /\ ~running /\ running' = TRUE
  /\ UNCHANGED <<client, record, state, hand, socket, acquired, lease, did, bounds>>

InHand == {c \in Commands : handler[c] \notin {"none", "done", "gone"}}

BridgeNext ==
  /\ \/ \E c \in Commands :
          \/ Execute(c) \/ GiveUp(c) \/ TurnAway(c) \/ Receive(c) \/ Granted(c) \/ Denied(c)
          \/ Started(c) \/ StartFails(c) \/ LoggedOff(c) \/ LogoutFails(c) \/ Stopped(c)
          \/ Failing(c) \/ Resolved(c) \/ Sent(c)
     \/ BeginTick \/ EndTick \/ LoseLease \/ CrashRuntime \/ RestartRuntime
  /\ had' = had \cup IF {socket, socket'} = {NoRecord} THEN {} ELSE InHand
  /\ UNCHANGED command

BridgeSpec == BridgeInit /\ [][BridgeNext]_bridgeVars

-----------------------------------------------------------------------------
(* Properties.                                                             *)

\* What the caller is told is what happened, however calls, ticks, crashes and lost
\* leases interleave: of a session that is said to be connecting or connected there
\* was a socket while the command was handled; one that is said to be disconnected
\* was logged out by this command, an accepted message was sent by it; and a refusal
\* that is final did nothing at all, so that only a failure which may be retried
\* leaves room for doubt (receiver, supervisor, adapter and transport).
AnswersTellTheTruth ==
  \A c \in Commands :
    LET a == told[c] IN
    /\ a.ok /\ a.says \in {"connecting", "connected", "qr_required"} => c \in had
    /\ a.ok /\ a.says = "disconnected" /\ command[c].kind = "disconnect"
         => "logged out" \in did[c]
    /\ a.ok /\ a.says = "accepted" => "sent" \in did[c]
    /\ ~a.ok /\ ~a.retryable => did[c] = {} \/ a = NoAnswer

\* A socket that can be found has a record at the supervisor, whatever stops and
\* starts overlap: the way around the supervisor, which leaves the lease and the
\* provider's map as they are, never logs one out (disconnect, runOnce).
SocketsAreOnRecord == socket # NoRecord => record # NoRecord

\* Both: whoever asks over the bridge can believe what it is told, and what the
\* supervisor does not know of cannot be reached around it.
BridgeIsTrue == AnswersTellTheTruth /\ SocketsAreOnRecord
=============================================================================
