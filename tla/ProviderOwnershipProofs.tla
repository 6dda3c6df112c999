---------------------- MODULE ProviderOwnershipProofs ----------------------
(***************************************************************************)
(* Proofs about ProviderOwnership, for any number of runtimes, calls,      *)
(* ticks, signals and faults: its types, and that without a slip the lease *)
(* covers every open socket, so that one runtime at most has one.          *)
(***************************************************************************)
EXTENDS ProviderOwnership, TLAPS, SequenceTheorems

(***************************************************************************)
(* The invariant, by what it is about: runtimes, starts, stops and ticks.  *)
(***************************************************************************)
AtWork(s) == pc[s] \in {"acquiring", "granted", "opening", "releasing"}
Busy(p)   == pc[p] \in {"closing", "closed", "failing", "destroying"}

\* A stop or a tick under way has a record of its own runtime in hand.
HandsOK ==
  /\ \A p \in Stops : Busy(p) => ref[p] \in StartsOf(RuntimeOf[p])
  /\ \A t \in Ticks : pc[t] # "idle" => ref[t] \in StartsOf(RuntimeOf[t])

Types == TypeOK /\ HandsOK

\* An open socket is in both maps and covered by the lease; the last signal in
\* the queue is its own, or the queue is drained and the session holding.
SocketSafe(r) ==
  \A s \in open[r] :
    /\ owner = r /\ ~expired
    /\ record[r] = s /\ mapped[r] = s /\ pc[s] = "done"
    /\ state[s] \in {"holding", "down"}
    /\ IF queue[r] = << >> THEN state[s] = "holding" ELSE queue[r][Len(queue[r])] = "up"

RecordSafe(r) == record[r] # None => pc[record[r]] \in {"opening", "releasing", "done"}

\* A start at work is alone, and has the lease once granted.
StartSafe(s) == AtWork(s) =>
  /\ open[RuntimeOf[s]] = {}
  /\ \A s2 \in StartsOf(RuntimeOf[s]) : AtWork(s2) => s2 = s
  /\ \A p \in StopsOf(RuntimeOf[s]) : ~Busy(p)
  /\ \A t \in TicksOf(RuntimeOf[s]) : pc[t] # "surrender"
  /\ pc[s] \in {"granted", "opening"} => owner = RuntimeOf[s] /\ ~expired
  /\ pc[s] = "opening" => record[RuntimeOf[s]] = s /\ state[s] \in {"holding", "down"}

\* A stop closes the only socket there can be, and then there is none.
StopSafe(p) ==
  /\ pc[p] = "closing" => open[RuntimeOf[p]] \subseteq {sock[p]}
  /\ pc[p] \in {"closed", "failing", "destroying"} => open[RuntimeOf[p]] = {}

\* A tick that gives up a session has one in hand whose socket is gone.
TickSafe(t) ==
  /\ pc[t] # "idle" => pc[ref[t]] \in {"opening", "releasing", "done"}
  /\ pc[t] \in {"lost", "surrender", "surrendered"} =>
       pc[ref[t]] # "opening" /\ ref[t] \notin open[RuntimeOf[t]]
  /\ pc[t] = "surrender" => open[RuntimeOf[t]] = {}

Safe == /\ \A r \in Runtimes : SocketSafe(r) /\ RecordSafe(r)
        /\ \A s \in Starts : StartSafe(s)
        /\ \A p \in Stops : StopSafe(p)
        /\ \A t \in Ticks : TickSafe(t)

Inv == Types /\ (slip = None => Safe)

-----------------------------------------------------------------------------
(* Types.                                                                  *)

\* The constants' assumptions, as the steps use them.
LEMMA Ids ==
  /\ \A c \in Threads : RuntimeOf[c] \in Runtimes
  /\ Starts \subseteq Threads /\ Stops \subseteq Threads /\ Ticks \subseteq Threads
  /\ \A s \in Starts : s \notin Stops /\ s \notin Ticks /\ s # None
  /\ \A p \in Stops : p \notin Starts /\ p \notin Ticks
  /\ \A t \in Ticks : t \notin Starts /\ t \notin Stops
  /\ None \notin Runtimes /\ None \notin Slips
BY OwnershipIds DEF Threads

LEMMA SlipTypes ==
  ASSUME Types, NEW kind \in Slips, NEW happened, Slip(kind, happened)
  PROVE  faults' \in 0..MaxFaults /\ slip' \in Slips \cup {None}
<1>1. faults \in 0..MaxFaults /\ slip \in Slips \cup {None} /\ MaxFaults \in Nat
  BY OwnershipBounds DEF Types, TypeOK
<1>2. slip' \in Slips \cup {None}
  BY <1>1 DEF Slip, Marked
<1>3. faults' \in 0..MaxFaults
  <2>1. CASE happened
    BY ONLY <1>1, <2>1, Slip(kind, happened) DEF Slip
  <2>2. CASE ~happened
    BY ONLY <1>1, <2>2, Slip(kind, happened) DEF Slip
  <2> QED BY <2>1, <2>2
<1> QED BY <1>2, <1>3

LEMMA StartTypes == ASSUME Types, NEW s \in Starts, StartStep(s) PROVE Types'
<1>1. s \in Threads /\ RuntimeOf[s] \in Runtimes /\ s \in StartsOf(RuntimeOf[s])
  BY Ids DEF StartsOf
<1>2. TypeOK'
  <2> USE <1>1 DEF Types, TypeOK, GoTo, SetState, lease, sessions, sockets, hands,
                   StartSteps, States, Signals, Slips
  <2>1. CASE StartSession(s)
    <3>1. faults' \in 0..MaxFaults /\ slip' \in Slips \cup {None}
      BY <2>1, SlipTypes DEF StartSession
    <3> QED BY <2>1, <3>1 DEF StartSession
  <2>2. CASE RejectDuplicate(s) BY <2>2 DEF RejectDuplicate
  <2>3. CASE StartAcquires(s) BY <2>3 DEF StartAcquires, Acquire
  <2>4. CASE StartRefused(s) BY <2>4 DEF StartRefused
  <2>5. CASE CreateSession(s) BY <2>5 DEF CreateSession
  <2>6. CASE SocketOpened(s) BY <2>6 DEF SocketOpened
  <2>7. CASE SocketRefused(s) BY <2>7 DEF SocketRefused
  <2>8. CASE StartReleases(s) BY <2>8 DEF StartReleases, Release
  <2> QED BY <2>1, <2>2, <2>3, <2>4, <2>5, <2>6, <2>7, <2>8 DEF StartStep
<1>3. (\A c \in Stops \cup Ticks : pc'[c] = pc[c]) /\ ref' = ref
  BY <1>1, Ids DEF Types, TypeOK, GoTo, StartStep, Threads, hands,
       StartSession, RejectDuplicate, StartAcquires, StartRefused,
       CreateSession, SocketOpened, SocketRefused, StartReleases
<1>4. HandsOK'
  BY <1>3 DEF Types, HandsOK, Busy
<1> QED BY <1>2, <1>4 DEF Types

LEMMA StopTypes == ASSUME Types, NEW p \in Stops, StopStep(p) PROVE Types'
<1>1. p \in Threads /\ RuntimeOf[p] \in Runtimes
  BY Ids
<1>2. TypeOK'
  <2> USE <1>1 DEF Types, TypeOK, GoTo, SetState, lease, sessions, sockets, hands,
                   StopSteps, States, Signals, Slips
  <2>1. CASE StopSession(p)
    <3>1. Slip("calls", Starting(RuntimeOf[p]))
      BY ONLY <2>1 DEF StopSession
    <3>2. faults' \in 0..MaxFaults /\ slip' \in Slips \cup {None}
      BY ONLY <3>1, SlipTypes, Types DEF Slips, Starting
    <3> QED BY <2>1, <3>2, ZenonT(60) DEF StopSession
  <2>2. CASE SocketClosed(p) BY <2>2 DEF SocketClosed
  <2>3. CASE CloseFails(p)
    <3>1. Slip("close", sock[p] \in open[RuntimeOf[p]])
      BY ONLY <2>3 DEF CloseFails
    <3>2. faults' \in 0..MaxFaults /\ slip' \in Slips \cup {None}
      BY ONLY <3>1, SlipTypes, Types DEF Slips
    <3> QED BY <2>3, <3>2 DEF CloseFails
  <2>4. CASE StopReleases(p) BY <2>4 DEF StopReleases, Release
  <2>5. CASE Destroyed(p) BY <2>5 DEF Destroyed
  <2> QED BY <2>1, <2>2, <2>3, <2>4, <2>5 DEF StopStep
<1>3. \A c \in Stops \cup Ticks : c # p => pc'[c] = pc[c] /\ ref'[c] = ref[c]
  BY <1>1, Ids DEF Types, TypeOK, GoTo, StopStep, Threads, hands, StopSession,
       SocketClosed, CloseFails, StopReleases, Destroyed
<1>4. Busy(p)' => ref'[p] \in StartsOf(RuntimeOf[p])
  BY <1>1, Ids DEF Types, TypeOK, HandsOK, GoTo, StopStep, Busy, Threads, hands, StartsOf,
       StopSession, SocketClosed, CloseFails, StopReleases, Destroyed
<1>5. HandsOK'
  BY <1>3, <1>4, Ids DEF Types, HandsOK, Busy
<1> QED BY <1>2, <1>5 DEF Types

\* What a tick does with a list of signals.
LEMMA IngestStep ==
  ASSUME Types, NEW t \in Ticks, NEW b \in Seq(Signals), ref'[t] \in Starts, Ingest(t, b)
  PROVE  /\ state' \in [Starts -> States] /\ batch' \in [Ticks -> Seq(Signals)]
         /\ pc' \in [Threads -> StartSteps \cup StopSteps \cup TickSteps] /\ looping' = looping
         /\ pc'[t] \in {"surrender", "idle"}
         /\ \A c \in Threads : c # t => pc'[c] = pc[c]
         /\ \A s \in Starts : s # ref'[t] => state'[s] = state[s]
         /\ state'[ref'[t]] \in {"holding", "down", state[ref'[t]]}
         /\ b = << >> => state' = state
         /\ pc'[t] = "idle" /\ b # << >> /\ b[Len(b)] = "up" => state'[ref'[t]] = "holding"
<1>1. PICK n \in 0..Len(b) :
         /\ \/ Surrenders(b, n) /\ GoTo(t, "surrender")
            \/ IngestsAll(b, n) /\ GoTo(t, "idle")
         /\ SetState(ref'[t], StateAfter(b, n, state[ref'[t]]))
         /\ batch' = [batch EXCEPT ![t] = SubSeq(b, n + 1, Len(b))]
  BY DEF Ingest
<1>2. t \in Threads /\ Len(b) \in Nat /\ n \in Nat /\ n <= Len(b)
  BY <1>1, Ids
<1>3. SubSeq(b, n + 1, Len(b)) \in Seq(Signals)
  BY <1>2
<1>4. batch' \in [Ticks -> Seq(Signals)]
  BY <1>1, <1>3 DEF Types, TypeOK
<1>5. /\ pc' = [pc EXCEPT ![t] = "surrender"] \/ pc' = [pc EXCEPT ![t] = "idle"]
      /\ looping' = looping
  BY <1>1 DEF GoTo
<1>6. /\ pc' \in [Threads -> StartSteps \cup StopSteps \cup TickSteps]
      /\ pc'[t] \in {"surrender", "idle"}
      /\ \A c \in Threads : c # t => pc'[c] = pc[c]
  BY <1>2, <1>5 DEF Types, TypeOK, TickSteps
<1>7. /\ state \in [Starts -> States]
      /\ state' = [state EXCEPT ![ref'[t]] = StateAfter(b, n, state[ref'[t]])]
  BY <1>1 DEF SetState, Types, TypeOK
<1>8. StateAfter(b, n, state[ref'[t]]) \in {"holding", "down", state[ref'[t]]}
  BY DEF StateAfter
<1>9. /\ state' \in [Starts -> States]
      /\ \A s \in Starts : s # ref'[t] => state'[s] = state[s]
      /\ state'[ref'[t]] = StateAfter(b, n, state[ref'[t]])
  BY <1>7, <1>8 DEF States
<1>10. ASSUME b = << >> PROVE state' = state
  <2>1. n = 0
    BY <1>2, <1>10
  <2> QED BY <2>1, <1>7 DEF StateAfter
<1>11. ASSUME pc'[t] = "idle", b # << >>, b[Len(b)] = "up" PROVE state'[ref'[t]] = "holding"
  <2>1. pc' # [pc EXCEPT ![t] = "surrender"]
    BY <1>2, <1>11 DEF Types, TypeOK
  <2>2. n = Len(b) /\ n # 0
    BY <2>1, <1>1, <1>2, <1>11 DEF GoTo, IngestsAll
  <2> QED BY <2>2, <1>9, <1>11 DEF StateAfter
<1> QED BY <1>4, <1>5, <1>6, <1>8, <1>9, <1>10, <1>11

LEMMA AcceptedTypes ==
  ASSUME NEW b \in Seq(Signals), NEW bad PROVE Accepted(b, bad) \in Seq(Signals)
<1>1. b \in [1..Len(b) -> Signals] /\ Len(b) \in Nat
  OBVIOUS
<1>2. Accepted(b, bad) \in [1..Len(b) -> Signals]
  BY <1>1 DEF Accepted, Signals
<1> QED BY <1>1, <1>2

\* Either drain takes in what the queue holds, or the step is a slip.
LEMMA DrainStep ==
  ASSUME Types, NEW t \in Ticks, ref'[t] \in Starts, Drain(t)
  PROVE  /\ state' \in [Starts -> States] /\ batch' \in [Ticks -> Seq(Signals)]
         /\ pc' \in [Threads -> StartSteps \cup StopSteps \cup TickSteps] /\ looping' = looping
         /\ pc'[t] \in {"surrender", "idle"}
         /\ \A c \in Threads : c # t => pc'[c] = pc[c]
         /\ faults' \in 0..MaxFaults /\ slip' \in Slips \cup {None}
         /\ slip' = None => slip = None /\ Ingest(t, queue[RuntimeOf[t]])
<1> DEFINE r == RuntimeOf[t]
<1>1. r \in Runtimes /\ t \in Threads /\ queue[r] \in Seq(Signals)
  BY Ids DEF Types, TypeOK
<1>2. \A kind \in Slips : kind # None
  BY Ids
<1>3. CASE /\ Ingest(t, queue[r]) /\ UNCHANGED faults
           /\ Marked("stale", (queue[r] # << >> /\ ref'[t] # record[r]) \/ GivesAnothers(t))
  <2>1. faults' \in 0..MaxFaults
    BY <1>3 DEF Types, TypeOK
  <2>2. slip' \in Slips \cup {None} /\ (slip' = None => slip = None)
    BY <1>2, <1>3 DEF Marked, Types, TypeOK, Slips
  <2> HIDE DEF r
  <2> QED BY ONLY <1>1, <1>3, <2>1, <2>2, IngestStep, Types, ref'[t] \in Starts DEF r
<1>4. CASE \E bad \in SUBSET DOMAIN queue[r] :
             bad # {} /\ Ingest(t, Accepted(queue[r], bad)) /\ Slip("ingest", TRUE)
  <2>1. PICK bad : Ingest(t, Accepted(queue[r], bad)) /\ Slip("ingest", TRUE)
    BY <1>4
  <2>2. Accepted(queue[r], bad) \in Seq(Signals)
    BY <1>1, AcceptedTypes
  <2>3. faults' \in 0..MaxFaults /\ slip' \in Slips \cup {None}
    BY ONLY <2>1, SlipTypes, Types DEF Slips
  <2>4. slip' # None
    BY <2>1, <1>2 DEF Slip, Marked, Types, TypeOK, Slips
  <2> QED BY ONLY <2>1, <2>2, <2>3, <2>4, IngestStep, Types, ref'[t] \in Starts, t \in Ticks
<1> QED BY <1>3, <1>4 DEF Drain

LEMMA TickTypes == ASSUME Types, NEW t \in Ticks, TickStep(t) PROVE Types'
<1> DEFINE r == RuntimeOf[t]
<1>1. t \in Threads /\ r \in Runtimes /\ t \in Stops \cup Ticks
  BY Ids
<1>2. CASE TickDrainsUnasked(t) \/ TickDrains(t)
  <2>1. Drain(t)
    BY <1>2 DEF TickDrainsUnasked, TickDrains
  <2>2. ref' \in [Stops \cup Ticks -> Starts \cup {None}] /\ ref'[t] \in StartsOf(r)
    BY <1>1, <1>2 DEF TickDrainsUnasked, TickDrains, Current, Types, TypeOK, HandsOK
  <2>3. \A c \in Stops \cup Ticks : c # t => ref'[c] = ref[c]
    BY <1>2 DEF TickDrainsUnasked, TickDrains, Types, TypeOK
  <2>4. queue' \in [Runtimes -> Seq(Signals)]
    BY <2>1, <1>1 DEF Drain, Types, TypeOK
  <2>5. ref'[t] \in Starts
    BY <2>2 DEF StartsOf
  <2>6. TypeOK'
    BY ONLY <2>1, <2>2, <2>4, <2>5, DrainStep, Types, t \in Ticks
       DEF Drain, Types, TypeOK, StartsOf, lease
  <2>7. \A c \in Threads : c # t => pc'[c] = pc[c]
    BY ONLY <2>1, <2>5, DrainStep, Types, t \in Ticks
  <2>8. HandsOK'
    BY <2>2, <2>3, <2>7, Ids DEF Types, HandsOK, Busy, StartsOf
  <2> QED BY <2>6, <2>8 DEF Types
<1>3. CASE TickContinues(t)
  <2>1. ref'[t] \in Starts /\ ref' = ref /\ batch[t] \in Seq(Signals)
    BY <1>3 DEF TickContinues, Types, TypeOK, HandsOK, StartsOf
  <2>2. Ingest(t, batch[t])
    BY <1>3 DEF TickContinues
  <2>3. faults' \in 0..MaxFaults /\ slip' \in Slips \cup {None}
    BY <1>3 DEF TickContinues, Marked, Slips, Types, TypeOK
  <2>4. TypeOK'
    BY ONLY <1>3, <2>1, <2>2, <2>3, IngestStep, Types, t \in Ticks
       DEF TickContinues, Types, TypeOK, StartsOf, lease, sockets
  <2>5. \A c \in Threads : c # t => pc'[c] = pc[c]
    BY ONLY <2>1, <2>2, IngestStep, Types, t \in Ticks
  <2>6. pc[t] # "idle"
    BY <1>3 DEF TickContinues
  <2>7. HandsOK'
    BY <2>1, <2>5, <2>6, Ids DEF Types, HandsOK, Busy, StartsOf
  <2> QED BY <2>4, <2>7 DEF Types
<1>4. CASE TickRenews(t) \/ RenewGranted(t) \/ RenewRefused(t) \/ TickLost(t) \/ Surrender(t)
  <2>1. TypeOK'
    <3> USE <1>1 DEF Types, TypeOK, GoTo, SetState, lease, sessions, sockets, hands,
                     TickSteps, States
    <3>1. CASE TickRenews(t) BY <3>1 DEF TickRenews, StartsOf, Current
    <3>2. CASE RenewGranted(t) BY <3>2 DEF RenewGranted, Acquire
    <3>3. CASE RenewRefused(t) BY <3>3 DEF RenewRefused
    <3>4. CASE TickLost(t) BY <3>4 DEF TickLost
    <3>5. CASE Surrender(t) BY <3>5 DEF Surrender, Release
    <3> QED BY <1>4, <3>1, <3>2, <3>3, <3>4, <3>5
  <2>2. \A c \in Stops \cup Ticks : c # t => pc'[c] = pc[c] /\ ref'[c] = ref[c]
    BY <1>1, <1>4, Ids DEF Types, TypeOK, GoTo, Threads, hands, TickRenews, RenewGranted,
         RenewRefused, TickLost, Surrender
  <2>3. ref'[t] \in StartsOf(r)
    BY <1>1, <1>4 DEF Types, TypeOK, HandsOK, GoTo, hands, StartsOf, Current, TickRenews,
         RenewGranted, RenewRefused, TickLost, Surrender
  <2>4. HandsOK'
    BY <2>2, <2>3, Ids DEF Types, HandsOK, Busy, StartsOf
  <2> QED BY <2>1, <2>4 DEF Types
<1> QED BY <1>2, <1>3, <1>4 DEF TickStep

LEMMA SocketTypes ==
  ASSUME Types, NEW s \in Starts, SocketSignals(s) \/ SocketDies(s) \/ CredentialsCleared(s)
  PROVE  Types'
<1> DEFINE r == RuntimeOf[s]
<1>1. r \in Runtimes /\ queue[r] \in Seq(Signals)
  BY Ids DEF Types, TypeOK
<1>2. (\E signal \in Signals : Record(r, signal)) \/ queue' = queue
  BY DEF SocketSignals, SocketDies, CredentialsCleared, Signals
<1>3. queue' \in [Runtimes -> Seq(Signals)]
  <2>1. CASE queue' = queue
    BY <2>1 DEF Types, TypeOK
  <2>2. ASSUME NEW signal \in Signals, Record(r, signal) PROVE queue' \in [Runtimes -> Seq(Signals)]
    <3>1. Append(queue[r], signal) \in Seq(Signals)
      BY <1>1
    <3> QED BY <2>2, <3>1 DEF Record, Types, TypeOK
  <2> QED BY <1>2, <2>1, <2>2
<1>4. faults' \in 0..MaxFaults /\ slip' \in Slips \cup {None}
  <2>1. CASE Slip("complaint", TRUE)
    BY <2>1, SlipTypes DEF Slips
  <2>2. CASE UNCHANGED <<faults, slip>>
    BY <2>2 DEF Types, TypeOK
  <2>3. CASE Slip("stale", open[r] # {})
    BY <2>3, SlipTypes DEF Slips
  <2> QED BY <2>1, <2>2, <2>3 DEF SocketSignals, SocketDies, CredentialsCleared
<1>5. /\ open' \in [Runtimes -> SUBSET Starts] /\ \A q \in Runtimes : open'[q] \subseteq open[q]
      /\ clearing' \in [Runtimes -> SUBSET Starts]
  <2>1. open' = open \/ open' = [open EXCEPT ![r] = @ \ {s}]
    BY DEF SocketSignals, SocketDies, CredentialsCleared
  <2>2. \/ clearing' = clearing
        \/ clearing' = [clearing EXCEPT ![r] = @ \cup {s}]
        \/ clearing' = [clearing EXCEPT ![r] = @ \ {s}]
    BY DEF SocketSignals, SocketDies, CredentialsCleared
  <2>3. open \in [Runtimes -> SUBSET Starts] /\ clearing \in [Runtimes -> SUBSET Starts]
    BY DEF Types, TypeOK
  <2>4. open' \in [Runtimes -> SUBSET Starts] /\ \A q \in Runtimes : open'[q] \subseteq open[q]
    BY ONLY <1>1, <2>1, <2>3
  <2>5. clearing' \in [Runtimes -> SUBSET Starts]
    BY ONLY <1>1, <2>2, <2>3, s \in Starts
  <2> QED BY <2>4, <2>5
<1>6. UNCHANGED <<owner, expired, record, state, mapped, looping, pc, ref, sock, batch>>
  BY DEF SocketSignals, SocketDies, CredentialsCleared, lease, sessions, hands
<1> HIDE DEF r
<1>7. TypeOK'
  BY ONLY <1>3, <1>4, <1>5, <1>6, Types DEF Types, TypeOK, StartsOf
<1>8. HandsOK'
  BY ONLY <1>6, Types DEF Types, HandsOK, Busy, StartsOf
<1> QED BY <1>7, <1>8 DEF Types

LEMMA CrashTypes == ASSUME Types, NEW r \in Runtimes, Crash(r) PROVE Types'
<1>1. faults' \in 0..MaxFaults /\ slip' = slip
  BY OwnershipBounds DEF Crash, Types, TypeOK
<1>2. << >> \in Seq(Signals)
  OBVIOUS
<1>3. /\ queue' \in [Runtimes -> Seq(Signals)] /\ batch' \in [Ticks -> Seq(Signals)]
      /\ record' \in [Runtimes -> Starts \cup {None}] /\ mapped' \in [Runtimes -> Starts \cup {None}]
      /\ open' \in [Runtimes -> SUBSET Starts] /\ clearing' \in [Runtimes -> SUBSET Starts]
      /\ looping' \in SUBSET Runtimes
  BY <1>2 DEF Crash, Types, TypeOK
<1>4. \A q \in Runtimes : /\ open'[q] \subseteq open[q]
                           /\ record'[q] \in {record[q], None} /\ mapped'[q] \in {mapped[q], None}
  BY DEF Crash, Types, TypeOK
<1>5. \A c \in Threads : pc'[c] = IF c \in TicksOf(r) THEN "idle"
                                   ELSE IF RuntimeOf[c] = r /\ pc[c] # "ready" THEN "done" ELSE pc[c]
  BY DEF Crash
<1>6. pc' \in [Threads -> StartSteps \cup StopSteps \cup TickSteps]
  BY DEF Crash, Types, TypeOK, StartSteps, TickSteps
<1>7. UNCHANGED <<owner, expired, state, ref, sock>>
  BY DEF Crash, lease
<1>8. TypeOK'
  BY ONLY <1>1, <1>3, <1>4, <1>6, <1>7, Types DEF Types, TypeOK, StartsOf
<1>9. HandsOK'
  BY <1>5, <1>7, Ids DEF Types, HandsOK, Busy, StartsOf, TicksOf
<1> QED BY <1>8, <1>9 DEF Types

LEMMA ShutdownTypes == ASSUME Types, NEW r \in Runtimes, Shutdown(r) PROVE Types'
<1>1. faults' \in 0..MaxFaults /\ slip' \in Slips \cup {None}
  BY SlipTypes DEF Shutdown, Slips
<1>2. /\ owner' \in Runtimes \cup {None} /\ expired' \in BOOLEAN
      /\ state' \in [Starts -> States] /\ looping' \in SUBSET Runtimes
      /\ pc' \in [Threads -> StartSteps \cup StopSteps \cup TickSteps]
  BY DEF Shutdown, Release, lease, SetState, States, StartSteps, Types, TypeOK
<1>3. UNCHANGED <<record, mapped, open, clearing, queue, ref, sock, batch>>
  BY DEF Shutdown, sockets, hands
<1>4. TypeOK'
  BY ONLY <1>1, <1>2, <1>3, Types DEF Types, TypeOK, StartsOf
<1>5. \A c \in Threads : pc'[c] = IF RuntimeOf[c] = r /\ pc[c] = "ready" THEN "done" ELSE pc[c]
  BY DEF Shutdown
<1>6. HandsOK'
  BY <1>3, <1>5, Ids DEF Types, HandsOK, Busy, StartsOf
<1> QED BY <1>4, <1>6 DEF Types

LEMMA ExpireTypes == ASSUME Types, Expire PROVE Types'
<1>1. faults' \in 0..MaxFaults /\ slip' \in Slips \cup {None}
  BY SlipTypes DEF Expire, Slips
<1>2. expired' \in BOOLEAN /\ UNCHANGED <<owner, record, state, mapped, open, clearing, queue, looping, pc, ref, sock, batch>>
  BY DEF Expire, sessions, sockets, hands
<1>3. TypeOK'
  BY ONLY <1>1, <1>2, Types DEF Types, TypeOK, StartsOf
<1>4. HandsOK'
  BY ONLY <1>2, Types DEF Types, HandsOK, Busy, StartsOf
<1> QED BY <1>3, <1>4 DEF Types

LEMMA StutterTypes == ASSUME Types, UNCHANGED vars PROVE Types'
<1>1. TypeOK'
  BY DEF Types, TypeOK, StartsOf, vars, lease, sessions, sockets, hands
<1>2. HandsOK'
  BY DEF Types, HandsOK, Busy, StartsOf, vars, hands
<1> QED BY <1>1, <1>2 DEF Types

LEMMA InitTypes == Init => Types
<1> SUFFICES ASSUME Init PROVE Types
  OBVIOUS
<1>1. << >> \in Seq(Signals) /\ 0 \in 0..MaxFaults
  BY OwnershipBounds
<1>2. TypeOK
  BY <1>1, Ids DEF Init, TypeOK, States, StartSteps, TickSteps
<1>3. HandsOK
  BY Ids DEF Init, HandsOK, Busy
<1> QED BY <1>2, <1>3 DEF Types

-----------------------------------------------------------------------------
(* Safety.  A step without a slip keeps Safe; one lemma per kind of step.  *)

Covered(r) == owner = r /\ ~expired

LEMMA AcquireKeeps ==
  ASSUME Types, NEW r \in Runtimes, Acquire(r)
  PROVE  Covered(r)' /\ \A q \in Runtimes : Covered(q) => Covered(q)'
BY Ids DEF Acquire, Available, Covered, Types, TypeOK

LEMMA ReleaseKeeps ==
  ASSUME Types, NEW r \in Runtimes, Release(r)
  PROVE  \A q \in Runtimes : q # r /\ Covered(q) => Covered(q)'
BY Ids DEF Release, Covered, Types, TypeOK, lease

LEMMA NoSlip ==
  ASSUME Types, NEW kind \in Slips, NEW happened, Marked(kind, happened), slip' = None
  PROVE  ~happened /\ slip = None
BY Ids DEF Marked

\* What is enough to keep each part of Safe.
LEMMA SocketKept ==
  ASSUME NEW r \in Runtimes, SocketSafe(r), open'[r] \subseteq open[r],
         open'[r] # {} => Covered(r)' /\ record'[r] = record[r] /\ mapped'[r] = mapped[r] /\ queue'[r] = queue[r],
         \A s \in open'[r] : pc'[s] = pc[s] /\ state'[s] = state[s]
  PROVE  SocketSafe(r)'
BY DEF SocketSafe, Covered

LEMMA StartKept ==
  ASSUME NEW s \in Starts, StartSafe(s), pc'[s] = pc[s], open'[RuntimeOf[s]] \subseteq open[RuntimeOf[s]],
         AtWork(s) => /\ Covered(RuntimeOf[s]) => Covered(RuntimeOf[s])'
                      /\ \A s2 \in StartsOf(RuntimeOf[s]) : s2 # s => ~AtWork(s2)'
                      /\ \A p \in StopsOf(RuntimeOf[s]) : ~Busy(p)'
                      /\ \A t \in TicksOf(RuntimeOf[s]) : pc'[t] # "surrender",
         pc[s] = "opening" => /\ record'[RuntimeOf[s]] = record[RuntimeOf[s]]
                              /\ state'[s] \in {state[s], "holding", "down"}
  PROVE  StartSafe(s)'
BY DEF StartSafe, AtWork, Covered

LEMMA StartIdle ==
  ASSUME NEW s \in Starts, ~AtWork(s)' PROVE StartSafe(s)'
BY DEF StartSafe

LEMMA StopKept ==
  ASSUME NEW p \in Stops, StopSafe(p), pc'[p] = pc[p], sock'[p] = sock[p],
         Busy(p) => open'[RuntimeOf[p]] \subseteq open[RuntimeOf[p]]
  PROVE  StopSafe(p)'
BY DEF StopSafe, Busy

LEMMA TickKept ==
  ASSUME Types, NEW t \in Ticks, TickSafe(t), pc'[t] = pc[t], ref'[t] = ref[t],
         pc[t] # "idle" => \/ pc'[ref[t]] = pc[ref[t]]
                           \/ pc'[ref[t]] \in {"releasing", "done"},
         pc[t] # "idle" => open'[RuntimeOf[t]] \subseteq open[RuntimeOf[t]]
  PROVE  TickSafe(t)'
BY DEF TickSafe

\* A step of one start that changes the lease and its own pc only.
LEMMA StartWaits ==
  ASSUME Types, Safe, NEW s \in Starts, slip' = None,
         StartSession(s) \/ RejectDuplicate(s) \/ StartAcquires(s) \/ StartRefused(s) \/ StartReleases(s)
  PROVE  Safe'
<1> DEFINE r == RuntimeOf[s]
<1>1. /\ r \in Runtimes /\ s \in StartsOf(r)
      /\ UNCHANGED <<record, state, mapped, open, queue, ref, sock>>
  BY Ids DEF StartSession, RejectDuplicate, StartAcquires, StartRefused, StartReleases,
       sessions, sockets, hands, StartsOf
<1>2. \A c \in Threads : c # s => pc'[c] = pc[c]
  BY DEF StartSession, RejectDuplicate, StartAcquires, StartRefused, StartReleases, GoTo, Types, TypeOK
<1>3. /\ pc[s] \in {"ready", "acquiring", "releasing"}
      /\ pc[s] = "ready" => pc'[s] \in {"acquiring", "duplicate"}
      /\ pc[s] = "acquiring" => pc'[s] \in {"granted", "refused", "failed"}
      /\ pc[s] = "releasing" => pc'[s] = "done"
  BY Ids DEF StartSession, RejectDuplicate, StartAcquires, StartRefused, StartReleases, GoTo, Types, TypeOK
<1>4. \A q \in Runtimes : open[q] # {} => Covered(q)
  BY DEF Safe, SocketSafe, Covered
<1>5. \A q \in Runtimes : Covered(q) /\ (q = r => pc[s] # "releasing") => Covered(q)'
  BY <1>1, AcquireKeeps, ReleaseKeeps
     DEF StartSession, RejectDuplicate, StartAcquires, StartRefused, StartReleases, Covered, lease
<1>6. pc'[s] = "granted" => Covered(r)'
  BY <1>1, <1>3, AcquireKeeps DEF StartAcquires, StartSession, RejectDuplicate, StartRefused, StartReleases, GoTo, Types, TypeOK
<1>7. AtWork(s) => open[r] = {}
  BY <1>1 DEF Safe, StartSafe
<1>8. ASSUME pc[s] = "ready", AtWork(s)' PROVE MayStart(r) /\ ~Starting(r) /\ ~Stopping(r) /\ ~Surrendering(r)
  <2>1. StartSession(s)
    BY <1>3, <1>8 DEF AtWork, RejectDuplicate, StartAcquires, StartRefused, StartReleases, GoTo, Types, TypeOK
  <2>2. ~(Starting(r) \/ Stopping(r) \/ Surrendering(r))
    BY <2>1, NoSlip DEF StartSession, Slip, Slips
  <2> QED BY <2>1, <2>2 DEF StartSession
<1>9. ASSUME NEW x \in open[r], MayStart(r) PROVE FALSE
  <2>1. record[r] = x /\ state[x] \in {"holding", "down"} /\ x # None
    BY <1>1, <1>9, Ids DEF Safe, SocketSafe, Types, TypeOK
  <2> QED BY <2>1, <1>9 DEF MayStart, Current
<1>10. ASSUME NEW q \in Runtimes PROVE SocketSafe(q)'
  <2>1. SocketSafe(q)
    BY DEF Safe
  <2>2. ASSUME NEW x \in open[q] PROVE Covered(q)' /\ pc'[x] = pc[x]
    <3>1. x \in Starts /\ x \in Threads /\ pc[x] = "done" /\ Covered(q)
      BY <2>1, Ids DEF SocketSafe, Covered, Types, TypeOK
    <3>2. q = r => pc[s] # "releasing"
      BY <1>7 DEF AtWork
    <3> QED BY <1>2, <1>3, <1>5, <3>1, <3>2
  <2> QED BY <1>1, <2>1, <2>2, SocketKept
<1>11. ASSUME NEW q \in Runtimes PROVE RecordSafe(q)'
  BY <1>1, <1>2, <1>3, Ids DEF Safe, RecordSafe, Types, TypeOK
<1>12. ASSUME NEW s2 \in Starts PROVE StartSafe(s2)'
  <2> DEFINE q == RuntimeOf[s2]
  <2>1. q \in Runtimes /\ s2 \in Threads /\ StartSafe(s2)
    BY Ids DEF Safe
  <2>2. /\ \A p \in Stops : Busy(p)' <=> Busy(p)
        /\ \A t \in Ticks : pc'[t] = pc[t]
        /\ \A x \in Starts : x # s => (AtWork(x)' <=> AtWork(x)) /\ pc'[x] = pc[x]
    BY <1>2, Ids DEF Busy, AtWork
  <2>3. AtWork(s2) => /\ \A x \in StartsOf(q) : AtWork(x) => x = s2
                      /\ \A p \in StopsOf(q) : ~Busy(p)
                      /\ \A t \in TicksOf(q) : pc[t] # "surrender"
    BY <2>1 DEF StartSafe
  <2>4. CASE s2 # s
    <3>1. AtWork(s2) => ~AtWork(s)' \/ q # r
      <4>1. AtWork(s) /\ AtWork(s2) => q # r
        BY <2>3, <2>4, <1>1 DEF StartsOf
      <4>2. pc[s] = "ready" /\ AtWork(s)' /\ AtWork(s2) => q # r
        BY <1>8, <2>1 DEF AtWork, Starting, StartsOf
      <4> QED BY <4>1, <4>2, <1>3 DEF AtWork
    <3>2. AtWork(s2) => (Covered(q) => Covered(q)')
      BY <3>1, <1>3, <1>5, <2>1, <2>3, <2>4, <1>1 DEF AtWork, StartsOf
    <3>3. AtWork(s2) => \A x \in StartsOf(q) : x # s2 => ~AtWork(x)'
      BY <3>1, <2>2, <2>3, <1>1 DEF StartsOf
    <3> QED BY <1>1, <2>1, <2>2, <2>3, <2>4, <3>2, <3>3, StartKept DEF StopsOf, TicksOf
  <2>5. CASE s2 = s
    <3>1. AtWork(s)' => /\ open'[r] = {}
                        /\ \A x \in StartsOf(r) : AtWork(x)' => x = s
                        /\ \A p \in StopsOf(r) : ~Busy(p)'
                        /\ \A t \in TicksOf(r) : pc'[t] # "surrender"
      <4>1. CASE pc[s] = "ready"
        BY <1>1, <1>8, <1>9, <2>2, <4>1
           DEF Starting, Stopping, Surrendering, AtWork, Busy, StartsOf, StopsOf, TicksOf
      <4>2. CASE AtWork(s)
        BY <1>1, <2>1, <2>2, <2>3, <2>5, <4>2 DEF StartSafe, StartsOf, StopsOf, TicksOf
      <4> QED BY <4>1, <4>2, <1>3 DEF AtWork
    <3> QED BY <3>1, <1>3, <1>6, <2>5 DEF StartSafe, AtWork, Covered
  <2> QED BY <2>4, <2>5
<1>13. ASSUME NEW p \in Stops PROVE StopSafe(p)'
  BY <1>1, <1>2, Ids DEF Safe, StopSafe
<1>14. ASSUME NEW t \in Ticks PROVE TickSafe(t)'
  BY <1>1, <1>2, <1>3, Ids DEF Safe, TickSafe, Types, TypeOK, HandsOK, StartsOf
<1> QED BY <1>10, <1>11, <1>12, <1>13, <1>14 DEF Safe

\* Once the lease is granted: the session is made, its socket is opened or not.
LEMMA StartOpens ==
  ASSUME Types, Safe, NEW s \in Starts, CreateSession(s) \/ SocketOpened(s) \/ SocketRefused(s)
  PROVE  Safe'
<1> DEFINE r == RuntimeOf[s]
<1>1. /\ r \in Runtimes /\ s \in StartsOf(r) /\ s \in Threads /\ s # None
      /\ UNCHANGED <<owner, expired, ref, sock>>
  BY Ids DEF CreateSession, SocketOpened, SocketRefused, hands, StartsOf, lease
<1>2. /\ \A p \in Stops : pc'[p] = pc[p]
      /\ \A t \in Ticks : pc'[t] = pc[t]
      /\ \A x \in Starts : x # s => pc'[x] = pc[x] /\ state'[x] = state[x]
  BY Ids DEF CreateSession, SocketOpened, SocketRefused, GoTo, SetState, sessions, Types, TypeOK
<1>3. \/ pc[s] = "granted" /\ pc'[s] = "opening" /\ record'[r] = s /\ state'[s] = "holding"
      \/ pc[s] = "opening" /\ pc'[s] = "done" /\ record'[r] = record[r] /\ state'[s] = state[s]
      \/ pc[s] = "opening" /\ pc'[s] = "releasing" /\ record'[r] = record[r] /\ state'[s] = "down"
  BY <1>1 DEF CreateSession, SocketOpened, SocketRefused, GoTo, SetState, sessions, Types, TypeOK
<1>4. \A q \in Runtimes : q # r => /\ record'[q] = record[q] /\ mapped'[q] = mapped[q]
                                   /\ open'[q] = open[q] /\ queue'[q] = queue[q]
  BY DEF CreateSession, SocketOpened, SocketRefused, sessions, sockets, Types, TypeOK
<1>5. /\ open[r] = {} /\ Covered(r) /\ Covered(r)'
      /\ \A x \in StartsOf(r) : AtWork(x) => x = s
      /\ \A p \in StopsOf(r) : ~Busy(p)
      /\ \A t \in TicksOf(r) : pc[t] # "surrender"
      /\ pc[s] = "opening" => record[r] = s /\ state[s] \in {"holding", "down"}
  BY <1>1, <1>3 DEF Safe, StartSafe, AtWork, Covered
<1>6. \/ pc'[s] = "done" /\ open'[r] = {s} /\ mapped'[r] = s /\ queue'[r] = Append(queue[r], "up")
      \/ pc'[s] # "done" /\ open'[r] = open[r]
  BY <1>1, <1>5 DEF CreateSession, SocketOpened, SocketRefused, GoTo, sockets, Types, TypeOK
<1>7. ASSUME NEW q \in Runtimes PROVE SocketSafe(q)'
  <2>1. CASE q # r
    BY <1>1, <1>2, <1>4, <2>1, SocketKept DEF Safe, SocketSafe, Covered, Types, TypeOK, StartsOf
  <2>2. CASE q = r /\ pc'[s] # "done"
    BY <1>5, <1>6, <2>2 DEF SocketSafe
  <2>3. CASE q = r /\ pc'[s] = "done"
    <3>1. queue'[r] # << >> /\ queue'[r][Len(queue'[r])] = "up"
      <4>1. queue[r] \in Seq(Signals) /\ "up" \in Signals
        BY <1>1 DEF Types, TypeOK, Signals
      <4> QED BY <1>6, <2>3, <4>1
    <3> QED BY <1>3, <1>5, <1>6, <2>3, <3>1 DEF SocketSafe, Covered
  <2> QED BY <2>1, <2>2, <2>3
<1>8. ASSUME NEW q \in Runtimes PROVE RecordSafe(q)'
  <2>1. record[q] # None => record[q] \in StartsOf(q)
    BY DEF Types, TypeOK
  <2>2. RecordSafe(q)
    BY DEF Safe
  <2> QED BY <1>1, <1>2, <1>3, <1>4, <1>5, <2>1, <2>2 DEF RecordSafe, StartsOf
<1>9. ASSUME NEW x \in Starts PROVE StartSafe(x)'
  <2>1. CASE RuntimeOf[x] # r
    <3>1. StartSafe(x) /\ RuntimeOf[x] \in Runtimes
      BY Ids DEF Safe
    <3>2. /\ \A p \in Stops : Busy(p)' <=> Busy(p)
          /\ \A y \in Starts : y # s => (AtWork(y)' <=> AtWork(y))
      BY <1>2 DEF AtWork, Busy
    <3> QED BY <1>1, <1>2, <1>4, <2>1, <3>1, <3>2, StartKept DEF StartSafe, Covered, StartsOf, StopsOf, TicksOf
  <2>2. CASE RuntimeOf[x] = r /\ x # s
    BY <1>2, <1>5, <2>2, StartIdle DEF AtWork, StartsOf
  <2>3. CASE x = s
    <3>1. pc'[s] # "done" => open'[r] = {}
      BY <1>5, <1>6
    <3> QED BY <1>1, <1>2, <1>3, <1>5, <2>3, <3>1 DEF StartSafe, AtWork, Busy, Covered, StartsOf, StopsOf, TicksOf
  <2> QED BY <2>1, <2>2, <2>3
<1>10. ASSUME NEW p \in Stops PROVE StopSafe(p)'
  BY <1>1, <1>2, <1>4, <1>5, Ids, StopKept DEF Safe, StopsOf
<1>11. ASSUME NEW t \in Ticks PROVE TickSafe(t)'
  <2>1. TickSafe(t) /\ RuntimeOf[t] \in Runtimes /\ (pc[t] # "idle" => ref[t] \in StartsOf(RuntimeOf[t]))
    BY Ids DEF Safe, Types, HandsOK
  <2>2. CASE pc[t] = "idle"
    BY <1>2, <2>2 DEF TickSafe
  <2>3. CASE pc[t] # "idle" /\ RuntimeOf[t] # r
    BY <1>1, <1>2, <1>4, <2>1, <2>3, TickKept DEF StartsOf
  <2>4. CASE pc[t] # "idle" /\ RuntimeOf[t] = r
    BY <1>1, <1>2, <1>3, <1>5, <1>6, <2>1, <2>4 DEF TickSafe, StartsOf, TicksOf
  <2> QED BY <2>2, <2>3, <2>4
<1> QED BY <1>7, <1>8, <1>9, <1>10, <1>11 DEF Safe

\* A stop meets no start, and leaves its runtime without a socket unless it
\* has only begun to close one.
LEMMA StopCloses ==
  ASSUME Types, Safe, NEW p \in Stops, slip' = None, StopStep(p) PROVE Safe'
<1> DEFINE r == RuntimeOf[p]
<1>1. /\ r \in Runtimes /\ p \in StopsOf(r) /\ p \in Threads
      /\ \A q \in Runtimes : record'[q] = record[q]
      /\ \A c \in Threads : c # p => pc'[c] = pc[c]
      /\ \A c \in Stops : c # p => ref'[c] = ref[c] /\ sock'[c] = sock[c]
      /\ \A c \in Ticks : ref'[c] = ref[c]
  BY Ids DEF StopStep, StopSession, SocketClosed, CloseFails, StopReleases, Destroyed, GoTo,
       sessions, hands, StopsOf, Types, TypeOK
<1>2. /\ \A q \in Runtimes : open'[q] \subseteq open[q]
      /\ \A q \in Runtimes \ {r} : mapped'[q] = mapped[q] /\ open'[q] = open[q] /\ queue'[q] = queue[q]
  <2>1. CASE SocketClosed(p)
    BY <1>1, <2>1 DEF SocketClosed, Types, TypeOK
  <2>2. CASE ~SocketClosed(p)
    BY <2>2 DEF StopStep, StopSession, CloseFails, StopReleases, Destroyed, sockets
  <2> QED BY <2>1, <2>2
<1>3. \A s \in Starts : s \notin StartsOf(r) => state'[s] = state[s]
  BY <1>1 DEF StopStep, StopSession, SocketClosed, CloseFails, StopReleases, Destroyed,
       sessions, SetState, Busy, Types, TypeOK, HandsOK
<1>4. ASSUME NEW s \in StartsOf(r), AtWork(s) PROVE FALSE
  <2>1. StartSafe(s) /\ RuntimeOf[s] = r
    BY <1>4 DEF Safe, StartsOf
  <2>2. ~Busy(p)
    BY <1>1, <1>4, <2>1 DEF StartSafe
  <2>3. StopSession(p)
    BY <2>2 DEF Busy, StopStep, SocketClosed, CloseFails, StopReleases, Destroyed
  <2>4. ~Starting(r)
    BY <2>3, NoSlip DEF StopSession, Slip, Slips
  <2> QED BY <1>4, <2>4 DEF Starting, AtWork
<1>5. \A q \in Runtimes : q # r /\ Covered(q) => Covered(q)'
  BY <1>1, ReleaseKeeps DEF StopStep, StopSession, SocketClosed, CloseFails, StopReleases, Destroyed,
       lease, Covered
<1>6. /\ SocketSafe(r) /\ StopSafe(p)
      /\ \A x \in open[r] : x # None
  BY <1>1, Ids DEF Safe, Types, TypeOK
<1>7. \/ open'[r] = {}
      \/ pc'[p] = "closing" /\ open[r] \subseteq {sock'[p]} /\ UNCHANGED <<owner, expired, state, mapped, open, queue>>
  <2>1. CASE StopSession(p)
    BY <1>1, <1>6, <2>1 DEF StopSession, SocketSafe, GoTo, lease, sockets, Types, TypeOK
  <2>2. CASE SocketClosed(p)
    BY <1>1, <1>6, <2>2 DEF SocketClosed, StopSafe, Types, TypeOK
  <2>3. CASE CloseFails(p)
    <3>1. Slip("close", sock[p] \in open[r])
      BY <2>3 DEF CloseFails
    <3>2. sock[p] \notin open[r]
      BY <3>1, NoSlip DEF Slip, Slips
    <3> QED BY <1>6, <2>3, <3>2 DEF CloseFails, StopSafe, sockets
  <2>4. CASE StopReleases(p) \/ Destroyed(p)
    BY <1>6, <2>4 DEF StopReleases, Destroyed, StopSafe, sockets
  <2> QED BY <2>1, <2>2, <2>3, <2>4 DEF StopStep
<1>8. ASSUME NEW q \in Runtimes PROVE SocketSafe(q)'
  <2>1. \A x \in open[q] : x \in Starts /\ x \in Threads /\ x # p /\ RuntimeOf[x] = q
    BY Ids DEF Types, TypeOK, StartsOf
  <2>2. SocketSafe(q) /\ (open[q] # {} => Covered(q))
    BY DEF Safe, SocketSafe, Covered
  <2>3. CASE q # r
    <3>1. \A x \in open[q] : pc'[x] = pc[x] /\ state'[x] = state[x]
      BY <1>1, <1>3, <2>1, <2>3 DEF StartsOf
    <3>2. /\ record'[q] = record[q] /\ mapped'[q] = mapped[q] /\ queue'[q] = queue[q] /\ open'[q] = open[q]
          /\ open[q] # {} => Covered(q)'
      BY <1>1, <1>2, <1>5, <2>2, <2>3
    <3> QED BY ONLY <2>2, <3>1, <3>2, SocketKept, q \in Runtimes
  <2>4. CASE q = r /\ open'[r] = {}
    BY <2>4 DEF SocketSafe
  <2>5. CASE q = r /\ UNCHANGED <<owner, expired, state, mapped, open, queue>>
    BY <1>1, <2>1, <2>2, <2>5, SocketKept DEF Covered
  <2> QED BY <1>7, <2>3, <2>4, <2>5
<1>9. ASSUME NEW q \in Runtimes PROVE RecordSafe(q)'
  <2>1. RecordSafe(q) /\ record'[q] = record[q]
    BY <1>1 DEF Safe
  <2>2. record[q] # None => record[q] \in Threads /\ record[q] # p
    BY Ids DEF Types, TypeOK
  <2>3. record[q] # None => pc'[record[q]] = pc[record[q]]
    BY <2>2, <1>1
  <2> QED BY <2>1, <2>3 DEF RecordSafe
<1>10. ASSUME NEW s \in Starts PROVE StartSafe(s)'
  <2>1. StartSafe(s) /\ RuntimeOf[s] \in Runtimes /\ s \in Threads /\ s # p
    BY Ids DEF Safe
  <2>2. CASE RuntimeOf[s] = r
    BY <1>1, <1>4, <2>1, <2>2, StartIdle DEF StartsOf, AtWork
  <2>3. CASE RuntimeOf[s] # r
    <3>1. /\ \A c \in StopsOf(RuntimeOf[s]) : Busy(c)' <=> Busy(c)
          /\ \A t \in Ticks : pc'[t] = pc[t]
          /\ \A y \in Starts : pc'[y] = pc[y] /\ (AtWork(y)' <=> AtWork(y))
      BY <1>1, <2>3, Ids DEF AtWork, Busy, StopsOf
    <3>2. state'[s] = state[s] /\ (Covered(RuntimeOf[s]) => Covered(RuntimeOf[s])')
      BY <1>3, <1>5, <2>1, <2>3 DEF StartsOf
    <3>3. pc'[s] = pc[s] /\ open'[RuntimeOf[s]] \subseteq open[RuntimeOf[s]]
          /\ record'[RuntimeOf[s]] = record[RuntimeOf[s]]
      BY <1>1, <1>2, <2>1
    <3>4. AtWork(s) => /\ \A s2 \in StartsOf(RuntimeOf[s]) : s2 # s => ~AtWork(s2)'
                       /\ \A c \in StopsOf(RuntimeOf[s]) : ~Busy(c)'
                       /\ \A t \in TicksOf(RuntimeOf[s]) : pc'[t] # "surrender"
      BY ONLY <2>1, <3>1, s \in Starts DEF StartSafe, StartsOf, TicksOf
    <3> QED BY ONLY <2>1, <3>2, <3>3, <3>4, StartKept, s \in Starts
  <2> QED BY <2>2, <2>3
<1>11. ASSUME NEW c \in Stops PROVE StopSafe(c)'
  <2>1. StopSafe(c) /\ RuntimeOf[c] \in Runtimes /\ c \in Threads
    BY Ids DEF Safe
  <2>2. CASE c # p
    <3>1. pc'[c] = pc[c] /\ sock'[c] = sock[c] /\ open'[RuntimeOf[c]] \subseteq open[RuntimeOf[c]]
      BY <1>1, <1>2, <2>1, <2>2
    <3> QED BY ONLY <2>1, <3>1, StopKept, c \in Stops
  <2>3. CASE c = p
    BY <1>7, <2>3 DEF StopSafe
  <2> QED BY <2>2, <2>3
<1>12. ASSUME NEW t \in Ticks PROVE TickSafe(t)'
  <2>1. TickSafe(t) /\ RuntimeOf[t] \in Runtimes /\ t \in Threads /\ t # p
        /\ (pc[t] # "idle" => ref[t] \in Threads /\ ref[t] # p)
    BY Ids DEF Safe, Types, HandsOK, StartsOf
  <2>2. /\ pc'[t] = pc[t] /\ ref'[t] = ref[t] /\ open'[RuntimeOf[t]] \subseteq open[RuntimeOf[t]]
        /\ pc[t] # "idle" => pc'[ref[t]] = pc[ref[t]]
    BY <1>1, <1>2, <2>1
  <2> QED BY ONLY <2>1, <2>2, TickKept, Types, t \in Ticks
<1> QED BY <1>8, <1>9, <1>10, <1>11, <1>12 DEF Safe

\* A tick changes the state of the record it has in hand and its runtime's
\* queue and lease; the rest of Safe follows from the parts named here.
LEMMA TickFrame ==
  ASSUME Types, Safe, NEW t \in Ticks,
         \A q \in Runtimes : record'[q] = record[q] /\ open'[q] = open[q],
         \A c \in Stops : sock'[c] = sock[c],
         \A c \in Ticks \ {t} : ref'[c] = ref[c],
         \A c \in Threads \ {t} : pc'[c] = pc[c],
         \A s \in Starts : state'[s] \in {state[s], "holding", "down"},
         \A q \in Runtimes : Covered(q) /\ Starting(q) => Covered(q)',
         pc'[t] = "surrender" => pc[t] = "surrender" \/ ~Starting(RuntimeOf[t]),
         \A q \in Runtimes : SocketSafe(q)',
         TickSafe(t)'
  PROVE  Safe'
<1>1. /\ \A s \in Starts : s \in Threads \ {t} /\ RuntimeOf[s] \in Runtimes /\ s # None
      /\ \A p \in Stops : p \in Threads \ {t} /\ RuntimeOf[p] \in Runtimes
      /\ \A c \in Ticks \ {t} : c \in Threads \ {t} /\ RuntimeOf[c] \in Runtimes
  BY Ids
<1>2. ASSUME NEW q \in Runtimes PROVE RecordSafe(q)'
  <2>1. RecordSafe(q) /\ (record[q] # None => record[q] \in Starts)
    BY DEF Safe, Types, TypeOK
  <2>2. record[q] # None => pc'[record[q]] = pc[record[q]]
    BY <1>1, <2>1
  <2> QED BY <2>1, <2>2 DEF RecordSafe
<1>3. ASSUME NEW s \in Starts PROVE StartSafe(s)'
  <2> DEFINE q == RuntimeOf[s]
  <2>1. StartSafe(s) /\ pc'[s] = pc[s] /\ q \in Runtimes
    BY <1>1 DEF Safe
  <2>2. open'[q] \subseteq open[q] /\ record'[q] = record[q]
    BY <2>1
  <2>3. ASSUME AtWork(s)
        PROVE  /\ Covered(q) => Covered(q)'
               /\ \A s2 \in StartsOf(q) : s2 # s => ~AtWork(s2)'
               /\ \A p \in StopsOf(q) : ~Busy(p)'
               /\ \A c \in TicksOf(q) : pc'[c] # "surrender"
    <3>1. Starting(q)
      BY <2>3 DEF Starting, AtWork, StartsOf
    <3>2. /\ \A s2 \in StartsOf(q) : AtWork(s2) => s2 = s
          /\ \A p \in StopsOf(q) : ~Busy(p)
          /\ \A c \in TicksOf(q) : pc[c] # "surrender"
      BY <2>1, <2>3 DEF StartSafe
    <3>3. \A s2 \in StartsOf(q) : s2 # s => ~AtWork(s2)'
      BY <1>1, <3>2 DEF AtWork, StartsOf
    <3>4. \A p \in StopsOf(q) : ~Busy(p)'
      BY <1>1, <3>2 DEF Busy, StopsOf
    <3>5. \A c \in TicksOf(q) : pc'[c] # "surrender"
      BY <1>1, <3>1, <3>2 DEF TicksOf
    <3> QED BY <2>1, <3>1, <3>3, <3>4, <3>5
  <2> QED BY <2>1, <2>2, <2>3, StartKept
<1>4. ASSUME NEW p \in Stops PROVE StopSafe(p)'
  <2>1. StopSafe(p) /\ pc'[p] = pc[p] /\ sock'[p] = sock[p] /\ open'[RuntimeOf[p]] \subseteq open[RuntimeOf[p]]
    BY <1>1 DEF Safe
  <2> QED BY ONLY <2>1, StopKept, p \in Stops
<1>5. ASSUME NEW c \in Ticks PROVE TickSafe(c)'
  <2>1. CASE c # t
    <3>1. /\ TickSafe(c) /\ pc'[c] = pc[c] /\ ref'[c] = ref[c]
          /\ open'[RuntimeOf[c]] \subseteq open[RuntimeOf[c]]
      BY <1>1, <2>1 DEF Safe
    <3>2. pc[c] # "idle" => ref[c] \in Starts
      BY DEF Types, HandsOK, StartsOf
    <3>3. pc[c] # "idle" => pc'[ref[c]] = pc[ref[c]]
      BY <1>1, <3>2
    <3> QED BY ONLY <3>1, <3>3, TickKept, Types, c \in Ticks
  <2> QED BY <2>1
<1> QED BY <1>2, <1>3, <1>4, <1>5 DEF Safe

LEMMA TickAsks ==
  ASSUME Types, Safe, NEW t \in Ticks,
         TickRenews(t) \/ RenewGranted(t) \/ RenewRefused(t) \/ TickLost(t) \/ Surrender(t)
  PROVE  Safe'
<1> DEFINE r == RuntimeOf[t]
<1>1. r \in Runtimes /\ t \in Threads /\ t \notin Stops /\ t \in TicksOf(r) /\ TickSafe(t) /\ SocketSafe(r)
  BY Ids DEF Safe, TicksOf
<1>2. /\ \A q \in Runtimes : record'[q] = record[q] /\ mapped'[q] = mapped[q] /\ open'[q] = open[q]
                              /\ queue'[q] = queue[q]
      /\ \A c \in Stops : sock'[c] = sock[c]
      /\ \A c \in Ticks \ {t} : ref'[c] = ref[c]
      /\ \A c \in Threads \ {t} : pc'[c] = pc[c]
  BY <1>1 DEF TickRenews, RenewGranted, RenewRefused, TickLost, Surrender, sessions, sockets, hands,
       GoTo, Types, TypeOK
<1>3. \/ state' = state
      \/ /\ pc[t] = "lost" /\ pc'[t] = "idle" /\ ref[t] \notin open[r]
         /\ \A s \in Starts : state'[s] = IF s = ref[t] THEN "down" ELSE state[s]
  BY <1>1 DEF TickRenews, RenewGranted, RenewRefused, TickLost, Surrender, sessions, SetState, GoTo,
       Types, TypeOK, TickSafe
<1>4. CASE pc[t] = "surrender"
  <2>1. open[r] = {} /\ pc'[t] = "surrendered" /\ ref' = ref /\ state' = state
    BY <1>1, <1>4 DEF TickSafe, TickRenews, RenewGranted, RenewRefused, TickLost, Surrender, GoTo,
         hands, sessions, Types, TypeOK
  <2>2. ~Starting(r)
    <3>1. ASSUME NEW s \in StartsOf(r), AtWork(s) PROVE FALSE
      BY <1>1, <1>4, <3>1 DEF Safe, StartSafe, StartsOf
    <3> QED BY <3>1 DEF Starting, AtWork
  <2>3. \A q \in Runtimes : q # r /\ Covered(q) => Covered(q)'
    BY <1>1, <1>4, ReleaseKeeps DEF TickRenews, RenewGranted, RenewRefused, TickLost, Surrender
  <2>4. TickSafe(t)'
    <3>1. ref[t] \in Threads \ {t}
      BY <1>4, Ids DEF Types, HandsOK, StartsOf
    <3> QED BY <1>1, <1>2, <1>4, <2>1, <3>1 DEF TickSafe
  <2>5. ASSUME NEW q \in Runtimes PROVE SocketSafe(q)'
    <3>1. SocketSafe(q) /\ \A s \in open[q] : s \in Threads \ {t}
      BY Ids DEF Safe, Types, TypeOK
    <3>2. \A s \in open[q] : pc'[s] = pc[s] /\ state'[s] = state[s]
      BY <1>2, <2>1, <3>1
    <3>3. open[q] # {} => Covered(q)'
      BY <2>1, <2>3, <3>1 DEF SocketSafe, Covered
    <3> QED BY ONLY <1>2, <3>1, <3>2, <3>3, SocketKept, q \in Runtimes
  <2>6. \A q \in Runtimes : Covered(q) /\ Starting(q) => Covered(q)'
    BY <2>2, <2>3
  <2>7. \A s \in Starts : state'[s] \in {state[s], "holding", "down"}
    BY <2>1
  <2> QED BY ONLY <1>2, <2>1, <2>4, <2>5, <2>6, <2>7, TickFrame, Types, Safe, t \in Ticks
<1>5. CASE pc[t] # "surrender"
  <2>1. \A q \in Runtimes : Covered(q) => Covered(q)'
    BY <1>1, <1>5, AcquireKeeps DEF TickRenews, RenewGranted, RenewRefused, TickLost, Surrender, lease, Covered
  <2>2. \A s \in Starts : state'[s] \in {state[s], "holding", "down"}
    BY <1>3
  <2>3. ASSUME NEW q \in Runtimes PROVE SocketSafe(q)'
    <3>1. SocketSafe(q) /\ \A s \in open[q] : s \in Starts /\ s \in Threads \ {t} /\ RuntimeOf[s] = q
      BY Ids DEF Safe, Types, TypeOK, StartsOf
    <3>2. pc[t] = "lost" => RuntimeOf[ref[t]] = r
      BY DEF Types, HandsOK, StartsOf
    <3>3. \A s \in open[q] : pc'[s] = pc[s] /\ state'[s] = state[s]
      BY <1>2, <1>3, <3>1, <3>2
    <3>4. open[q] # {} => Covered(q)'
      BY <2>1, <3>1 DEF SocketSafe, Covered
    <3> QED BY ONLY <1>2, <3>1, <3>3, <3>4, SocketKept, q \in Runtimes
  <2>4. pc'[t] # "surrender"
    BY <1>1, <1>5 DEF TickRenews, RenewGranted, RenewRefused, TickLost, Surrender, GoTo, Types, TypeOK
  <2>5. TickSafe(t)'
    <3>1. CASE TickRenews(t)
      <4>1. record[r] \in Starts /\ ref'[t] = record[r] /\ pc'[t] = "renewing" /\ record[r] # None
        BY <1>1, <3>1, Ids DEF TickRenews, Current, GoTo, Types, TypeOK
      <4>2. pc[record[r]] \in {"opening", "releasing", "done"}
        BY <1>1, <4>1 DEF Safe, RecordSafe
      <4>3. record[r] \in Threads \ {t}
        BY <4>1, Ids
      <4> QED BY <1>2, <4>1, <4>2, <4>3 DEF TickSafe
    <3>2. CASE ~TickRenews(t)
      <4>1. pc[t] \in {"renewing", "lost"} /\ ref' = ref
        BY <1>5, <3>2 DEF RenewGranted, RenewRefused, TickLost, Surrender, hands
      <4>2. ref[t] \in StartsOf(r) /\ ref[t] \in Starts /\ ref[t] \in Threads \ {t}
        BY <4>1, Ids DEF Types, HandsOK, StartsOf
      <4>3. RenewRefused(t) => ~Covered(r)
        BY <1>1 DEF RenewRefused, Available, Covered
      <4>4. RenewRefused(t) => pc[ref[t]] # "opening" /\ ref[t] \notin open[r]
        <5>1. StartSafe(ref[t]) /\ RuntimeOf[ref[t]] = r
          BY <4>2 DEF Safe, StartsOf
        <5>2. pc[ref[t]] = "opening" => Covered(r)
          BY <5>1 DEF StartSafe, AtWork, Covered
        <5>3. ref[t] \in open[r] => Covered(r)
          BY <1>1 DEF SocketSafe, Covered
        <5> QED BY <4>3, <5>2, <5>3
      <4>5. \/ RenewGranted(t) /\ pc'[t] = "renewed"
            \/ RenewRefused(t) /\ pc'[t] = "lost"
            \/ pc'[t] = "idle"
        <5>1. RenewGranted(t) => pc'[t] = "renewed"
          BY <1>1 DEF RenewGranted, GoTo, Types, TypeOK
        <5>2. RenewRefused(t) => pc'[t] = "lost"
          BY <1>1 DEF RenewRefused, GoTo, Types, TypeOK
        <5>3. TickLost(t) => pc'[t] = "idle"
          BY <1>1 DEF TickLost, GoTo, Types, TypeOK
        <5>4. ~Surrender(t)
          BY <1>5 DEF Surrender
        <5> QED BY <3>2, <5>1, <5>2, <5>3, <5>4
      <4>6. open'[r] = open[r] /\ pc'[ref[t]] = pc[ref[t]]
        BY <1>1, <1>2, <4>2
      <4> QED BY <1>1, <4>1, <4>4, <4>5, <4>6 DEF TickSafe
    <3> QED BY <3>1, <3>2
  <2> QED BY ONLY <1>2, <2>1, <2>2, <2>3, <2>4, <2>5, TickFrame, Types, Safe, t \in Ticks
<1> QED BY <1>4, <1>5

\* The drained queue ended with the open socket's own signal, so its record
\* is holding again when all are taken in.
LEMMA TickTakesIn ==
  ASSUME Types, Safe, NEW t \in Ticks, slip' = None,
         TickDrainsUnasked(t) \/ TickDrains(t) \/ TickContinues(t)
  PROVE  Safe'
<1> DEFINE r == RuntimeOf[t]
           b == IF TickContinues(t) THEN batch[t] ELSE queue[r]
<1>1. /\ r \in Runtimes /\ t \in Threads /\ t \notin Stops /\ t \in TicksOf(r)
      /\ TickSafe(t) /\ SocketSafe(r) /\ RecordSafe(r)
  BY Ids DEF Safe, TicksOf
<1>2. /\ ref'[t] \in StartsOf(r) /\ ref'[t] \in Starts /\ ref'[t] \in Threads \ {t}
      /\ \A c \in Ticks \ {t} : ref'[c] = ref[c]
  BY <1>1, Ids DEF TickDrainsUnasked, TickDrains, TickContinues, Current, Types, TypeOK, HandsOK, StartsOf
<1>3. b \in Seq(Signals)
  BY <1>1 DEF Types, TypeOK
<1>4. /\ Ingest(t, b)
      /\ ~GivesAnothers(t)
      /\ ~TickContinues(t) => queue[r] = << >> \/ ref'[t] = record[r]
  <2>1. CASE TickContinues(t)
    <3>1. ~GivesAnothers(t)
      BY <2>1, NoSlip DEF TickContinues, Slips
    <3> QED BY <2>1, <3>1 DEF TickContinues
  <2>2. CASE ~TickContinues(t)
    <3>1. Drain(t)
      BY <2>2 DEF TickDrainsUnasked, TickDrains
    <3>2. CASE Marked("stale", (queue[r] # << >> /\ ref'[t] # record[r]) \/ GivesAnothers(t)) /\ Ingest(t, queue[r])
      <4>1. ~((queue[r] # << >> /\ ref'[t] # record[r]) \/ GivesAnothers(t))
        BY <3>2, NoSlip DEF Slips
      <4> QED BY <2>2, <3>2, <4>1
    <3>3. CASE Slip("ingest", TRUE)
      BY <3>3, NoSlip DEF Slip, Slips
    <3> QED BY <3>1, <3>2, <3>3 DEF Drain
  <2> QED BY <2>1, <2>2
<1>5. /\ \A q \in Runtimes : /\ record'[q] = record[q] /\ mapped'[q] = mapped[q] /\ open'[q] = open[q]
      /\ \A q \in Runtimes \ {r} : queue'[q] = queue[q]
      /\ \A c \in Stops : sock'[c] = sock[c]
      /\ owner' = owner /\ expired' = expired
  BY <1>1 DEF TickDrainsUnasked, TickDrains, TickContinues, Drain, sockets, lease, Types, TypeOK
<1>6. queue'[r] = queue[r] \/ (~TickContinues(t) /\ queue'[r] = << >>)
  BY <1>1 DEF TickDrainsUnasked, TickDrains, TickContinues, Drain, sockets, Types, TypeOK
<1>7. /\ pc'[t] \in {"surrender", "idle"}
      /\ \A c \in Threads \ {t} : pc'[c] = pc[c]
      /\ \A s \in Starts : s # ref'[t] => state'[s] = state[s]
      /\ state'[ref'[t]] \in {"holding", "down", state[ref'[t]]}
      /\ b = << >> => state' = state
      /\ pc'[t] = "idle" /\ b # << >> /\ b[Len(b)] = "up" => state'[ref'[t]] = "holding"
  BY ONLY <1>2, <1>3, <1>4, IngestStep, Types, t \in Ticks
<1>8. pc'[t] = "surrender" => ~Starting(r) /\ open[r] = {}
  BY <1>4 DEF GivesAnothers
<1>9. pc[ref'[t]] \in {"opening", "releasing", "done"}
  <2>1. CASE TickDrainsUnasked(t)
    BY <1>1, <2>1 DEF TickDrainsUnasked, Current, RecordSafe, Types, TypeOK
  <2>2. CASE TickDrains(t) \/ TickContinues(t)
    BY <1>1, <2>2 DEF TickDrains, TickContinues, TickSafe
  <2> QED BY <2>1, <2>2
<1>10. TickSafe(t)'
  <2>1. pc'[ref'[t]] = pc[ref'[t]] /\ open'[r] = open[r]
    BY <1>1, <1>2, <1>5, <1>7
  <2>2. pc'[t] = "surrender" => pc[ref'[t]] # "opening"
    BY <1>2, <1>8 DEF Starting
  <2> QED BY <1>7, <1>8, <1>9, <2>1, <2>2 DEF TickSafe
<1>11. ASSUME NEW q \in Runtimes PROVE SocketSafe(q)'
  <2>1. /\ SocketSafe(q) /\ (open[q] # {} => Covered(q)')
        /\ \A s \in open[q] : s \in Starts /\ s \in Threads \ {t} /\ RuntimeOf[s] = q
    BY <1>5, Ids DEF Safe, SocketSafe, Covered, Types, TypeOK, StartsOf
  <2>2. \A s \in open[q] : pc'[s] = pc[s]
    BY <1>7, <2>1
  <2>3. CASE q # r
    <3>1. \A s \in open[q] : state'[s] = state[s]
      BY <1>2, <1>7, <2>1, <2>3 DEF StartsOf
    <3>2. queue'[q] = queue[q]
      BY <1>5, <2>3
    <3> QED BY ONLY <1>5, <2>1, <2>2, <3>1, <3>2, SocketKept, q \in Runtimes
  <2>4. CASE q = r /\ TickContinues(t)
    <3>1. ref'[t] \notin open[r] /\ queue'[r] = queue[r]
      BY <1>1, <1>6, <2>4 DEF TickContinues, TickSafe
    <3>2. \A s \in open[q] : state'[s] = state[s]
      BY <1>7, <2>1, <2>4, <3>1
    <3> QED BY ONLY <1>5, <2>1, <2>2, <2>4, <3>1, <3>2, SocketKept, q \in Runtimes
  <2>5. CASE q = r /\ ~TickContinues(t) /\ queue[r] = << >>
    <3>1. state' = state /\ queue'[r] = queue[r]
      BY <1>6, <1>7, <2>5
    <3> QED BY ONLY <1>5, <2>1, <2>2, <2>5, <3>1, SocketKept, q \in Runtimes
  <2>6. CASE q = r /\ ~TickContinues(t) /\ queue[r] # << >>
    <3> SUFFICES ASSUME NEW s \in open[r] PROVE SocketSafe(r)'
      BY <1>1, <1>5, <2>6 DEF SocketSafe
    <3>1. /\ ref'[t] = record[r] /\ b = queue[r] /\ b[Len(b)] = "up" /\ pc'[t] = "idle"
          /\ open[r] = {s} /\ record[r] = s /\ mapped[r] = s /\ pc[s] = "done"
      BY <1>1, <1>4, <1>7, <1>8, <2>6 DEF SocketSafe
    <3>2. state'[s] = "holding"
      BY <1>7, <2>6, <3>1
    <3>3. queue'[r] = << >> \/ queue'[r] = queue[r]
      BY <1>6
    <3> QED BY <1>1, <1>5, <2>1, <2>2, <2>6, <3>1, <3>2, <3>3 DEF SocketSafe, Covered
  <2> QED BY <2>3, <2>4, <2>5, <2>6
<1>12. /\ \A s \in Starts : state'[s] \in {state[s], "holding", "down"}
       /\ \A q \in Runtimes : Covered(q) /\ Starting(q) => Covered(q)'
  BY <1>5, <1>7 DEF Covered
<1> QED BY ONLY <1>2, <1>5, <1>7, <1>8, <1>10, <1>11, <1>12, TickFrame, Types, Safe, t \in Ticks

\* What happens in one runtime, lease apart, does not matter to the others.
LEMMA RuntimeFrame ==
  ASSUME Types, Safe, NEW r \in Runtimes,
         \A q \in Runtimes \ {r} : /\ record'[q] = record[q] /\ mapped'[q] = mapped[q]
                                   /\ open'[q] = open[q] /\ queue'[q] = queue[q],
         \A q \in Runtimes \ {r} : Covered(q) => Covered(q)',
         \A c \in Threads : RuntimeOf[c] # r => pc'[c] = pc[c],
         \A s \in Starts : RuntimeOf[s] # r => state'[s] = state[s],
         ref' = ref, sock' = sock,
         SocketSafe(r)', RecordSafe(r)',
         \A s \in StartsOf(r) : StartSafe(s)',
         \A p \in StopsOf(r) : StopSafe(p)',
         \A t \in TicksOf(r) : TickSafe(t)'
  PROVE  Safe'
<1>1. ASSUME NEW q \in Runtimes \ {r} PROVE SocketSafe(q)' /\ RecordSafe(q)'
  <2>1. /\ SocketSafe(q) /\ RecordSafe(q) /\ (open[q] # {} => Covered(q)')
        /\ \A s \in open[q] : s \in Starts /\ s \in Threads /\ RuntimeOf[s] = q
        /\ record[q] # None => record[q] \in Threads /\ RuntimeOf[record[q]] = q
    BY Ids DEF Safe, SocketSafe, Covered, Types, TypeOK, StartsOf
  <2>2. \A s \in open[q] : pc'[s] = pc[s] /\ state'[s] = state[s]
    BY <2>1
  <2>3. SocketSafe(q)'
    BY ONLY <2>1, <2>2, SocketKept, q \in Runtimes \ {r},
       \A x \in Runtimes \ {r} : /\ record'[x] = record[x] /\ mapped'[x] = mapped[x]
                                 /\ open'[x] = open[x] /\ queue'[x] = queue[x]
  <2>4. record'[q] = record[q] /\ (record[q] # None => pc'[record[q]] = pc[record[q]])
    BY <2>1
  <2>5. RecordSafe(q)'
    BY ONLY <2>1, <2>4 DEF RecordSafe
  <2> QED BY <2>3, <2>5
<1>2. ASSUME NEW s \in Starts, RuntimeOf[s] # r PROVE StartSafe(s)'
  <2> DEFINE q == RuntimeOf[s]
  <2>1. StartSafe(s) /\ s \in Threads /\ q \in Runtimes \ {r}
    BY <1>2, Ids DEF Safe
  <2>2. /\ pc'[s] = pc[s] /\ state'[s] = state[s] /\ open'[q] \subseteq open[q] /\ record'[q] = record[q]
        /\ Covered(q) => Covered(q)'
    BY <1>2, <2>1
  <2>3. ASSUME AtWork(s)
        PROVE  /\ \A s2 \in StartsOf(q) : s2 # s => ~AtWork(s2)'
               /\ \A p \in StopsOf(q) : ~Busy(p)'
               /\ \A t \in TicksOf(q) : pc'[t] # "surrender"
    <3>1. \A c \in Threads : RuntimeOf[c] = q => pc'[c] = pc[c]
      BY <1>2
    <3>2. /\ \A s2 \in StartsOf(q) : s2 \in Threads /\ RuntimeOf[s2] = q
          /\ \A p \in StopsOf(q) : p \in Threads /\ RuntimeOf[p] = q
          /\ \A t \in TicksOf(q) : t \in Threads /\ RuntimeOf[t] = q
      BY Ids DEF StartsOf, StopsOf, TicksOf
    <3> QED BY ONLY <2>1, <2>3, <3>1, <3>2 DEF StartSafe, AtWork, Busy
  <2> QED BY ONLY <2>1, <2>2, <2>3, StartKept, s \in Starts
<1>3. ASSUME NEW p \in Stops, RuntimeOf[p] # r PROVE StopSafe(p)'
  <2>1. /\ StopSafe(p) /\ RuntimeOf[p] \in Runtimes \ {r} /\ p \in Threads
    BY <1>3, Ids DEF Safe
  <2>2. pc'[p] = pc[p] /\ sock'[p] = sock[p] /\ open'[RuntimeOf[p]] \subseteq open[RuntimeOf[p]]
    BY <1>3, <2>1
  <2> QED BY ONLY <2>1, <2>2, StopKept, p \in Stops
<1>4. ASSUME NEW t \in Ticks, RuntimeOf[t] # r PROVE TickSafe(t)'
  <2>1. /\ TickSafe(t) /\ RuntimeOf[t] \in Runtimes \ {r} /\ t \in Threads
        /\ pc[t] # "idle" => ref[t] \in Threads /\ RuntimeOf[ref[t]] = RuntimeOf[t]
    BY <1>4, Ids DEF Safe, Types, HandsOK, StartsOf
  <2>2. /\ pc'[t] = pc[t] /\ ref'[t] = ref[t] /\ open'[RuntimeOf[t]] \subseteq open[RuntimeOf[t]]
        /\ pc[t] # "idle" => pc'[ref[t]] = pc[ref[t]]
    BY <1>4, <2>1
  <2> QED BY ONLY <2>1, <2>2, TickKept, Types, t \in Ticks
<1>5. /\ \A s \in Starts : RuntimeOf[s] = r => StartSafe(s)'
      /\ \A p \in Stops : RuntimeOf[p] = r => StopSafe(p)'
      /\ \A t \in Ticks : RuntimeOf[t] = r => TickSafe(t)'
  BY DEF StartsOf, StopsOf, TicksOf
<1>6. \A q \in Runtimes : SocketSafe(q)' /\ RecordSafe(q)'
  BY <1>1
<1> QED BY ONLY <1>2, <1>3, <1>4, <1>5, <1>6 DEF Safe

LEMMA SocketSteps ==
  ASSUME Types, Safe, NEW s \in Starts, slip' = None,
         SocketSignals(s) \/ SocketDies(s) \/ CredentialsCleared(s)
  PROVE  Safe'
<1> DEFINE r == RuntimeOf[s]
<1>1. r \in Runtimes /\ SocketSafe(r) /\ queue[r] \in Seq(Signals)
  BY Ids DEF Safe, Types, TypeOK
<1>2. UNCHANGED <<owner, expired, record, state, mapped, pc, ref, sock>>
  BY DEF SocketSignals, SocketDies, CredentialsCleared, lease, sessions, hands
<1>3. /\ \A q \in Runtimes \ {r} : open'[q] = open[q] /\ queue'[q] = queue[q]
      /\ open'[r] \subseteq open[r]
  <2>1. open' = open \/ open' = [open EXCEPT ![r] = @ \ {s}]
    BY DEF SocketSignals, SocketDies, CredentialsCleared
  <2>2. queue' = queue \/ \E signal \in Signals : queue' = [queue EXCEPT ![r] = Append(@, signal)]
    BY DEF SocketSignals, SocketDies, CredentialsCleared, Record, Signals
  <2> QED BY <1>1, <2>1, <2>2 DEF Types, TypeOK
<1>4. SocketSafe(r)'
  <2>1. CASE SocketDies(s)
    <3>1. open'[r] = {}
      BY <1>1, <2>1 DEF SocketDies, SocketSafe, Types, TypeOK
    <3> QED BY <3>1 DEF SocketSafe
  <2>2. CASE SocketSignals(s)
    <3>1. Record(r, "up") /\ open' = open
      <4>1. ~Slip("complaint", TRUE)
        BY NoSlip DEF Slip, Slips
      <4> QED BY <2>2, <4>1 DEF SocketSignals
    <3>2. queue'[r] = Append(queue[r], "up")
      BY <1>1, <3>1 DEF Record, Types, TypeOK
    <3>3. queue'[r] # << >> /\ queue'[r][Len(queue'[r])] = "up"
      BY <1>1, <3>2 DEF Signals
    <3> QED BY <1>1, <1>2, <3>1, <3>3 DEF SocketSafe
  <2>3. CASE CredentialsCleared(s)
    <3>1. open[r] = {} /\ open' = open
      BY <2>3, NoSlip DEF CredentialsCleared, Slip, Slips
    <3> QED BY <3>1 DEF SocketSafe
  <2> QED BY <2>1, <2>2, <2>3
<1>5. RecordSafe(r)'
  BY <1>1, <1>2 DEF Safe, RecordSafe
<1>6. ASSUME NEW x \in StartsOf(r) PROVE StartSafe(x)'
  <2>1. StartSafe(x) /\ RuntimeOf[x] = r /\ x \in Starts
    BY <1>6 DEF Safe, StartsOf
  <2>2. \A c : pc'[c] = pc[c]
    BY <1>2
  <2>3. AtWork(x)' => AtWork(x) /\ open'[r] = {}
    BY ONLY <1>2, <1>3, <2>1 DEF AtWork, StartSafe
  <2> QED BY ONLY <1>2, <2>1, <2>2, <2>3 DEF StartSafe, AtWork, Busy
<1>7. ASSUME NEW p \in StopsOf(r) PROVE StopSafe(p)'
  BY <1>2, <1>3, <1>7 DEF Safe, StopSafe, StopsOf
<1>8. ASSUME NEW t \in TicksOf(r) PROVE TickSafe(t)'
  BY <1>2, <1>3, <1>8 DEF Safe, TickSafe, TicksOf
<1>9. \A q \in Runtimes \ {r} : Covered(q) => Covered(q)'
  BY <1>2 DEF Covered
<1> QED BY <1>1, <1>2, <1>3, <1>4, <1>5, <1>6, <1>7, <1>8, <1>9, RuntimeFrame

LEMMA CrashSteps == ASSUME Types, Safe, NEW r \in Runtimes, Crash(r) PROVE Safe'
<1>1. /\ open'[r] = {} /\ record'[r] = None
      /\ \A q \in Runtimes \ {r} : /\ record'[q] = record[q] /\ mapped'[q] = mapped[q]
                                   /\ open'[q] = open[q] /\ queue'[q] = queue[q]
  BY DEF Crash, Types, TypeOK
<1>2. UNCHANGED <<owner, expired, state, ref, sock>>
  BY DEF Crash, lease
<1>3. /\ \A c \in Threads : RuntimeOf[c] # r => pc'[c] = pc[c]
      /\ \A c \in Threads : RuntimeOf[c] = r /\ c \notin Ticks => pc'[c] \in {"ready", "done"}
      /\ \A t \in Ticks : RuntimeOf[t] = r => pc'[t] = "idle"
  BY Ids DEF Crash, TicksOf
<1>4. SocketSafe(r)' /\ RecordSafe(r)'
  BY ONLY <1>1 DEF SocketSafe, RecordSafe
<1>5. ASSUME NEW s \in StartsOf(r) PROVE StartSafe(s)'
  BY <1>3, <1>5, Ids, StartIdle DEF AtWork, StartsOf
<1>6. ASSUME NEW p \in StopsOf(r) PROVE StopSafe(p)'
  BY <1>3, <1>6, Ids DEF StopSafe, StopsOf
<1>7. ASSUME NEW t \in TicksOf(r) PROVE TickSafe(t)'
  BY <1>3, <1>7, Ids DEF TickSafe, TicksOf
<1>8. \A q \in Runtimes \ {r} : Covered(q) => Covered(q)'
  BY <1>2 DEF Covered
<1> QED BY <1>1, <1>2, <1>3, <1>4, <1>5, <1>6, <1>7, <1>8, RuntimeFrame

LEMMA ShutdownSteps ==
  ASSUME Types, Safe, NEW r \in Runtimes, slip' = None, Shutdown(r) PROVE Safe'
<1>1. UNCHANGED <<record, mapped, open, queue, ref, sock>> /\ record[r] \in StartsOf(r)
  BY DEF Shutdown, sockets, hands, Types, TypeOK
<1>2. open[r] = {}
  BY NoSlip DEF Shutdown, Slip, Slips
<1>3. /\ \A c \in Threads : RuntimeOf[c] # r => pc'[c] = pc[c]
      /\ \A c \in Threads : pc'[c] = pc[c] \/ (pc[c] = "ready" /\ pc'[c] = "done")
  BY DEF Shutdown
<1>4. \A s \in Starts : RuntimeOf[s] # r => state'[s] = state[s]
  BY <1>1 DEF Shutdown, SetState, Types, TypeOK, StartsOf
<1>5. \A q \in Runtimes \ {r} : Covered(q) => Covered(q)'
  BY ReleaseKeeps DEF Shutdown
<1>6. SocketSafe(r)' /\ RecordSafe(r)'
  <2>1. RecordSafe(r) /\ record[r] \in Threads
    BY <1>1, Ids DEF Safe, StartsOf
  <2> QED BY ONLY <1>1, <1>2, <1>3, <2>1 DEF SocketSafe, RecordSafe
<1>7. ASSUME NEW s \in StartsOf(r) PROVE StartSafe(s)'
  <2>1. ~AtWork(s) /\ s \in Threads /\ s \in Starts
    BY <1>7, Ids DEF Shutdown, Starting, AtWork, StartsOf
  <2>2. ~AtWork(s)'
    BY <1>3, <2>1 DEF AtWork
  <2> QED BY <2>1, <2>2, StartIdle
<1>8. ASSUME NEW p \in StopsOf(r) PROVE StopSafe(p)'
  <2>1. ~Busy(p) /\ p \in Threads
    BY <1>8, Ids DEF Shutdown, Stopping, Busy, StopsOf
  <2> QED BY <1>3, <2>1 DEF StopSafe, Busy
<1>9. ASSUME NEW t \in TicksOf(r) PROVE TickSafe(t)'
  <2>1. TickSafe(t) /\ t \in Threads /\ (pc[t] # "idle" => ref[t] \in Threads) /\ RuntimeOf[t] = r
    BY <1>9, Ids DEF Safe, TicksOf, Types, HandsOK, StartsOf
  <2>2. pc[t] # "idle" => pc'[ref[t]] = pc[ref[t]] \/ pc'[ref[t]] \in {"releasing", "done"}
    BY <1>3, <2>1
  <2>3. pc'[t] = pc[t] \/ (pc[t] = "ready" /\ pc'[t] = "done")
    BY <1>3, <2>1
  <2> QED BY ONLY <1>1, <1>2, <2>1, <2>2, <2>3 DEF TickSafe
<1> QED BY <1>1, <1>3, <1>4, <1>5, <1>6, <1>7, <1>8, <1>9, RuntimeFrame

\* A lease that runs out without a slip covers no socket and no start.
LEMMA ExpireSteps == ASSUME Types, Safe, slip' = None, Expire PROVE Safe'
<1>1. UNCHANGED <<owner, record, state, mapped, open, queue, pc, ref, sock>>
  BY DEF Expire, sessions, sockets, hands
<1>2. owner \in Runtimes /\ ~Renewing(owner)
  <2>1. ~Renewing(owner)
    BY NoSlip DEF Expire, Slip, Slips
  <2> QED BY <2>1 DEF Expire, Types, TypeOK
<1>3. ASSUME NEW q \in Runtimes, NEW s \in open[q] PROVE FALSE
  <2>1. /\ owner = q /\ record[q] = s /\ s # None /\ s \in Starts /\ queue[q] \in Seq(Signals)
        /\ IF queue[q] = << >> THEN state[s] = "holding" ELSE queue[q][Len(queue[q])] = "up"
    BY <1>3, Ids DEF Safe, SocketSafe, Types, TypeOK
  <2>2. CASE queue[q] = << >>
    BY <1>2, <2>1, <2>2 DEF Renewing, Current
  <2>3. CASE queue[q] # << >>
    <3>1. Len(queue[q]) \in DOMAIN queue[q]
      BY <2>1, <2>3
    <3> QED BY <1>2, <2>1, <2>3, <3>1 DEF Renewing
  <2> QED BY <2>2, <2>3
<1>4. ASSUME NEW s \in Starts, pc[s] \in {"granted", "opening"} PROVE FALSE
  <2>1. owner = RuntimeOf[s]
    BY <1>4 DEF Safe, StartSafe, AtWork
  <2>2. Opening(owner)
    BY <1>4, <2>1 DEF Opening, StartsOf
  <2> QED BY <1>2, <2>2 DEF Renewing
<1>5. ASSUME NEW q \in Runtimes PROVE SocketSafe(q)' /\ RecordSafe(q)'
  BY <1>1, <1>3 DEF Safe, SocketSafe, RecordSafe
<1>6. ASSUME NEW s \in Starts PROVE StartSafe(s)'
  <2>1. StartSafe(s)
    BY DEF Safe
  <2> QED BY ONLY <1>1, <1>4, <2>1, s \in Starts DEF StartSafe, AtWork, Busy
<1>7. ASSUME NEW p \in Stops PROVE StopSafe(p)'
  BY <1>1 DEF Safe, StopSafe
<1>8. ASSUME NEW t \in Ticks PROVE TickSafe(t)'
  BY <1>1 DEF Safe, TickSafe
<1> QED BY <1>5, <1>6, <1>7, <1>8 DEF Safe

LEMMA StutterSteps == ASSUME Safe, UNCHANGED vars PROVE Safe'
<1>1. UNCHANGED <<owner, expired, record, state, mapped, open, queue, pc, ref, sock>>
  BY DEF vars, lease, sessions, sockets, hands
<1>2. ASSUME NEW q \in Runtimes PROVE SocketSafe(q)' /\ RecordSafe(q)'
  BY <1>1 DEF Safe, SocketSafe, RecordSafe
<1>3. ASSUME NEW s \in Starts PROVE StartSafe(s)'
  <2>1. StartSafe(s)
    BY DEF Safe
  <2> QED BY ONLY <1>1, <2>1 DEF StartSafe, AtWork, Busy
<1>4. ASSUME NEW p \in Stops PROVE StopSafe(p)'
  BY <1>1 DEF Safe, StopSafe
<1>5. ASSUME NEW t \in Ticks PROVE TickSafe(t)'
  BY <1>1 DEF Safe, TickSafe
<1> QED BY <1>2, <1>3, <1>4, <1>5 DEF Safe

LEMMA InitSafe == Init => Safe
BY Ids DEF Init, Safe, SocketSafe, RecordSafe, StartSafe, StopSafe, TickSafe, AtWork

-----------------------------------------------------------------------------
(* The theorems.                                                           *)

\* The first slip stays on record.
LEMMA SlipStays == ASSUME [Next]_vars, slip # None PROVE slip' # None
<1>1. ASSUME NEW s \in Starts, StartStep(s) PROVE slip' = slip
  BY <1>1, slip # None DEF StartStep, StartSession, RejectDuplicate, StartAcquires, StartRefused,
     CreateSession, SocketOpened, SocketRefused, StartReleases, Slip, Marked
<1>2. ASSUME NEW p \in Stops, StopStep(p) PROVE slip' = slip
  BY <1>2, slip # None DEF StopStep, StopSession, SocketClosed, CloseFails, StopReleases, Destroyed, Slip, Marked
<1>3. ASSUME NEW t \in Ticks, TickStep(t) PROVE slip' = slip
  BY <1>3, slip # None DEF TickStep, TickRenews, TickDrainsUnasked, RenewGranted, RenewRefused, TickLost,
     TickDrains, Surrender, TickContinues, Drain, Slip, Marked
<1>4. ASSUME NEW s \in Starts, SocketSignals(s) \/ SocketDies(s) \/ CredentialsCleared(s) PROVE slip' = slip
  BY <1>4, slip # None DEF SocketSignals, SocketDies, CredentialsCleared, Slip, Marked
<1>5. ASSUME NEW r \in Runtimes, Crash(r) \/ Shutdown(r) PROVE slip' = slip
  BY <1>5, slip # None DEF Crash, Shutdown, Slip, Marked
<1>6. Expire => slip' = slip
  BY slip # None DEF Expire, Slip, Marked
<1>7. UNCHANGED vars => slip' = slip
  BY DEF vars
<1> QED BY <1>1, <1>2, <1>3, <1>4, <1>5, <1>6, <1>7 DEF Next

LEMMA Inductive == Inv /\ [Next]_vars => Inv'
<1> SUFFICES ASSUME Inv, [Next]_vars PROVE Inv'
  OBVIOUS
<1>1. Types /\ (slip' = None => slip = None /\ Safe)
  BY SlipStays DEF Inv
<1>2. ASSUME NEW s \in Starts, StartStep(s) PROVE Types' /\ (slip' = None => Safe')
  BY <1>1, <1>2, StartTypes, StartWaits, StartOpens DEF StartStep
<1>3. ASSUME NEW p \in Stops, StopStep(p) PROVE Types' /\ (slip' = None => Safe')
  BY <1>1, <1>3, StopTypes, StopCloses
<1>4. ASSUME NEW t \in Ticks, TickStep(t) PROVE Types' /\ (slip' = None => Safe')
  BY <1>1, <1>4, TickTypes, TickAsks, TickTakesIn DEF TickStep
<1>5. ASSUME NEW s \in Starts, SocketSignals(s) \/ SocketDies(s) \/ CredentialsCleared(s)
      PROVE  Types' /\ (slip' = None => Safe')
  BY <1>1, <1>5, SocketTypes, SocketSteps
<1>6. ASSUME NEW r \in Runtimes, Crash(r) \/ Shutdown(r) PROVE Types' /\ (slip' = None => Safe')
  BY <1>1, <1>6, CrashTypes, ShutdownTypes, CrashSteps, ShutdownSteps
<1>7. Expire => Types' /\ (slip' = None => Safe')
  BY <1>1, ExpireTypes, ExpireSteps
<1>8. UNCHANGED vars => Types' /\ (slip' = None => Safe')
  BY <1>1, StutterTypes, StutterSteps
<1>9. Types' /\ (slip' = None => Safe')
  BY <1>2, <1>3, <1>4, <1>5, <1>6, <1>7, <1>8 DEF Next
<1> QED BY <1>9 DEF Inv

LEMMA Invariance == Spec => []Inv
<1>1. Init => Inv
  BY InitTypes, InitSafe DEF Inv
<1> QED BY <1>1, Inductive, PTL DEF Spec

(* Lease row, maps, states, queues and hands keep their types, and a        *)
(* runtime holds only records and sockets that its own starts made.         *)
THEOREM TypeCorrect == Spec => []TypeOK
BY Invariance, PTL DEF Inv, Types

(* Without a slip a runtime with an open socket has a lease with time left, *)
(* however starts, stops, ticks, crashes and expiries interleave.           *)
THEOREM LeaseCovers == Spec => []LeaseCoversSocket
<1>1. Inv => LeaseCoversSocket
  BY DEF Inv, Safe, SocketSafe, LeaseCoversSocket
<1> QED BY <1>1, Invariance, PTL

(* Without a slip every open socket is the one in the socket provider's map *)
(* and its session is one the supervisor has not given up.                  *)
THEOREM Reachable == Spec => []SocketsAreReachable
<1>1. ASSUME Inv, slip = None, NEW r \in Runtimes
      PROVE  open[r] \subseteq {mapped[r]} /\ (open[r] # {} => Current(r) \in {"holding", "down"})
  <2>1. \A s \in open[r] : /\ mapped[r] = s /\ record[r] = s /\ record[r] # None
                            /\ state[s] \in {"holding", "down"}
    BY <1>1, Ids DEF Inv, Types, TypeOK, Safe, SocketSafe
  <2> QED BY <2>1 DEF Current
<1>2. Inv => SocketsAreReachable
  BY <1>1 DEF SocketsAreReachable
<1> QED BY <1>2, Invariance, PTL

(* The two together: without a slip every open socket is the one in the map, *)
(* of a session that was not given up, under a lease with time left.        *)
THEOREM SocketsHeld == Spec => []SocketsAreHeld
BY LeaseCovers, Reachable, PTL DEF SocketsAreHeld

(* Without a slip the session is attached to one runtime at most, and has   *)
(* one socket at most: the exclusiveness that the lease is there for.       *)
AttachedOnce == slip = None =>
  \A q, r \in Runtimes : \A x \in open[q], y \in open[r] : q = r /\ x = y
THEOREM OneRuntime == Spec => []AttachedOnce
<1>1. Inv => AttachedOnce
  BY DEF Inv, Safe, SocketSafe, AttachedOnce
<1> QED BY <1>1, Invariance, PTL
=============================================================================
