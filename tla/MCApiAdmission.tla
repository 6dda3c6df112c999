--------------------------- MODULE MCApiAdmission ---------------------------
(***************************************************************************)
(* Requests at the two doors of the system, each explored by itself: those  *)
(* of clients to the HTTP API, and those of its processes to the provider   *)
(* runtime, over the bridge.  The README has the bounds.                    *)
(***************************************************************************)
EXTENDS ApiAdmission, ProviderCommands, TLC

CONSTANTS q1, q2, q3, p1, p2, admin, bound, monitor, spare, x,
          sAdmin, sBound, sMonitor, sSpare, own, foreign, c1, c2, c3

MCAccess ==
  admin :> [kind |-> "admin_key", scopes |-> {"admin:*"}, bound |-> FALSE, instances |-> {}]
  @@ spare :> [kind |-> "admin_key", scopes |-> {"admin:*"}, bound |-> FALSE,
               instances |-> {}]
  @@ bound :> [kind |-> "api_key", bound |-> TRUE, instances |-> {own},
               scopes |-> DOMAIN NamesUnder \ {"groups:admin", "messages:cancel"}]
  @@ monitor :> [kind |-> "monitoring_key", bound |-> FALSE, instances |-> {},
                 scopes |-> {"health:read", "metrics:read"}]

AllKeys == admin :> [status |-> "active", secret |-> sAdmin]
           @@ bound :> [status |-> "active", secret |-> sBound]
           @@ monitor :> [status |-> "active", secret |-> sMonitor]
           @@ spare :> [status |-> "absent", secret |-> NoSecret]
OneKey == [k \in Keys |-> IF k = admin THEN AllKeys[admin]
                                       ELSE [status |-> "absent", secret |-> NoSecret]]

Full(limiter) == [limiter |-> limiter, resolver |-> TRUE, keys |-> TRUE, stores |-> TRUE]
Bare == [limiter |-> "none", resolver |-> FALSE, keys |-> FALSE, stores |-> FALSE]

\* A request that nothing is wrong with.
Good(route, secret) ==
  [sent |-> TRUE, proc |-> p1, route |-> route, secret |-> secret, valid |-> TRUE, keyed |-> TRUE,
   ref |-> IF route.target = "none" THEN NoRef
           ELSE IF route.target = "api_key" THEN admin ELSE x,
   prefixed |-> route.target = "instance", owner |-> own,
   newKey |-> spare, newSecret |-> sSpare]
Nothing == [Good(NotFound, NoSecret) EXCEPT !.sent = FALSE]
Three(a, b, c) == q1 :> a @@ q2 :> b @@ q3 :> c

\* Every route, with every credential, as it should be and with one thing wrong.
Variants(r) ==
  {r, [r EXCEPT !.valid = FALSE], [r EXCEPT !.keyed = FALSE]}
  \cup IF r.ref # x THEN {}
       ELSE {[r EXCEPT !.owner = foreign], [r EXCEPT !.prefixed = ~@],
             [r EXCEPT !.prefixed = FALSE, !.owner = NoInstance]}
Alone ==
  {[shape |-> Three(r, Nothing, Nothing), deployment |-> d, keys |-> AllKeys] :
     r \in UNION {Variants(Good(route, s)) : route \in Routes,
                                             s \in {sAdmin, sBound, sMonitor, NoSecret}},
     d \in {Full("memory"), Bare}}

\* Three requests that take tokens from the same buckets, of one process or two.
Status == Good(Query("public", "GetInstanceStatus", "instance"), sBound)
Stream == Good(EventStream, sBound)
Crowd ==
  {[shape |-> Three(a, [a EXCEPT !.proc = p], a), deployment |-> Full(l),
    keys |-> AllKeys] : a \in {Status, Stream}, p \in {p1, p2}, l \in {"memory", "redis"}}

\* Calls about the only key there is, and one that is to follow it.
KeyCalls(action, target) == Good(KeyRoute(action, target), sAdmin)
Rotate == KeyCalls("rotate", "api_key")
Changes == {Rotate, KeyCalls("revoke", "api_key"), KeyCalls("provision", "none"),
            [Rotate EXCEPT !.newKey = monitor, !.newSecret = sMonitor],
            [KeyCalls("revoke", "api_key") EXCEPT !.ref = spare]}
Lifecycle ==
  {[shape |-> Three(a, b, c), deployment |-> Full("none"), keys |-> OneKey] :
     a \in {Rotate, KeyCalls("provision", "none")},
     b \in {Rotate, KeyCalls("revoke", "api_key")}, c \in Changes}

Closed == [shape |-> Three(Nothing, Nothing, Nothing), deployment |-> Bare, keys |-> OneKey]

MCWorkloads == {Closed} \cup Alone \cup Crowd \cup Lifecycle

\* Commands as they should be: with a session, or for whatever session there is.
Plain(kind) == [kind |-> kind, intent |-> "connect", session |-> TRUE, fault |-> "none"]
Connect == Plain("request_connection")
Reconnect == [Connect EXCEPT !.intent = "reconnect"]
Usual == {Connect, Plain("disconnect"), Plain("send_outbound_message")}
Rare == {Reconnect, [Connect EXCEPT !.intent = "disconnect"], Plain("request_qr_pairing"),
         Plain("get_capability_summary"), [Plain("disconnect") EXCEPT !.session = FALSE],
         [Connect EXCEPT !.session = FALSE]}
           \cup {[Connect EXCEPT !.fault = f] : f \in Faults}

\* A connect, another or a disconnect or a send, and one of any kind.
MCCommandSets ==
  {c1 :> Connect @@ c2 :> b @@ c3 :> d : b, d \in Usual}
    \cup {c1 :> Connect @@ c2 :> Plain("disconnect") @@ c3 :> d : d \in Rare}

VARIABLE scene

MCInit ==
  /\ scene \in {"api", "bridge"}
  /\ Init /\ BridgeInit
  /\ scene = "api" => command = [c \in Commands |-> Connect]
  /\ scene = "bridge" => shape = Three(Nothing, Nothing, Nothing)

MCNext ==
  /\ UNCHANGED scene
  /\ \/ scene = "api" /\ Next /\ UNCHANGED bridgeVars
     \/ scene = "bridge" /\ BridgeNext /\ UNCHANGED vars

MCSpec == MCInit /\ [][MCNext]_<<scene, vars, bridgeVars>>
=============================================================================
