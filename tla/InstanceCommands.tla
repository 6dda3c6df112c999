--------------------------- MODULE InstanceCommands ---------------------------
(***************************************************************************)
(* The commands that make and destroy an instance, and what overlaps with   *)
(* them.  Destroying loads the instance, saves it destroyed, revokes its    *)
(* sessions, buries its jobs and closes its sockets, one await after the    *)
(* other; meanwhile the command may be repeated, and a worker reserves jobs, *)
(* resolves the session to send with, sends and settles.                    *)
(***************************************************************************)
EXTENDS DomainAggregates

CONSTANTS
  Destroyers,     \* DestroyInstance commands for the one instance
  Sessions,       \* its sessions
  SeedSessions,   \* the statuses they may be in to begin with
  OwnJobs,        \* jobs whose metadata names the instance
  OtherJobs       \* jobs of other instances, whose workers are not followed

\* The instance before a command destroys it: made by one, or put there connected
\* (prepareLocalLiveOutboundWorkerSessionState; no command connects one).
Undestroyed == {CreateInstance, MarkInstanceConnected(MarkInstanceConnecting(CreateInstance))}

ASSUME InstanceSeed ==
  /\ SeedSessions \in [Sessions -> DOMAIN SessionTransitions]
  /\ OwnJobs \cap OtherJobs = {}
  /\ Null \notin Undestroyed \cup {DestroyInstance(a) : a \in Undestroyed}
  /\ Null \notin {"accepted", "thrown", "failed_accepted"}

VARIABLES
  instance,   \* the row of the instance
  sessions,   \* the rows of its sessions
  jobs,       \* the rows of the worker jobs
  closed,     \* sessions whose socket the provider closed
  phase,      \* how far each destroy command is
  todo,       \* what is left of the loop it is in
  seen,       \* what it loaded: the instance, the sessions, the jobs
  told,       \* its outcome
  announced,  \* destroy commands whose InstanceDestroyed is in the event log
  working,    \* the worker: its job, how far it is, its verdict, its copy of the row
  moved       \* jobs the worker moved since the first destroy command (history)

destroyVars  == <<closed, phase, todo, seen, told, announced>>
instanceVars == <<instance, sessions, jobs, destroyVars, working, moved>>

AllJobs    == OwnJobs \cup OtherJobs
Current    == CHOOSE s \in Sessions : SeedSessions[s] = "active"
SettledJob == {"completed", "dead"}
Idle       == [job |-> Null, at |-> "idle", verdict |-> Null, copy |-> Null]

\* Nothing yet, or an instance that was put there connected, with its sessions.
InstanceInit ==
  /\ \/ /\ instance = Null
        /\ sessions = [s \in Sessions |-> Null]
        /\ jobs = [j \in AllJobs |-> IF j \in OtherJobs THEN QueueWorkerJob ELSE Null]
     \/ /\ instance = MarkInstanceConnected(MarkInstanceConnecting(CreateInstance))
        /\ sessions = [s \in Sessions |-> New("Session", SeedSessions[s], {})]
        /\ jobs = [j \in AllJobs |-> QueueWorkerJob]
  /\ closed = {} /\ announced = {} /\ moved = {}
  /\ phase = [d \in Destroyers |-> "start"]
  /\ todo = [d \in Destroyers |-> {}]
  /\ seen = [d \in Destroyers |-> [instance |-> Null, sessions |-> Null, jobs |-> << >>]]
  /\ told = [d \in Destroyers |-> Null]
  /\ working = Idle

\* A display name that is too long is refused and nothing is saved.
CreateInstanceCommand ==
  /\ instance = Null
  /\ instance' = CreateInstance
  /\ UNCHANGED <<sessions, jobs, destroyVars, working, moved>>

-----------------------------------------------------------------------------
(* destroyInstance, an action for each stretch between two awaits.  What a  *)
(* save and the publication that follows it do is one action: nobody reads  *)
(* the log in between.                                                      *)

InProgress == {d \in Destroyers : phase[d] \notin {"start", "done", "cut"}}
Started    == \E d \in Destroyers : phase[d] # "start"
Enter(d, step, left) == /\ phase' = [phase EXCEPT ![d] = step]
                        /\ todo' = [todo EXCEPT ![d] = left]
Tell(d, outcome) == /\ phase' = [phase EXCEPT ![d] = "done"]
                    /\ told' = [told EXCEPT ![d] = outcome]
                    /\ UNCHANGED todo
Finished(d, item) == /\ todo' = [todo EXCEPT ![d] = @ \ {item}]
                     /\ UNCHANGED <<phase, told>>

\* The instance is loaded; one that is destroyed already is answered at once.
StartDestroy(d) ==
  /\ phase[d] = "start"
  /\ IF instance = Null THEN Tell(d, "not_found")
     ELSE IF instance.status = "destroyed" THEN Tell(d, "accepted")
     ELSE Enter(d, "find", {}) /\ UNCHANGED told
  /\ seen' = [seen EXCEPT ![d].instance = instance]
  /\ UNCHANGED <<instance, sessions, jobs, closed, announced, working, moved>>

\* findDestroyedInstanceSessions, before anything is saved.
FindSessions(d) ==
  /\ phase[d] = "find"
  /\ seen' = [seen EXCEPT ![d].sessions = sessions]
  /\ Enter(d, "save", {})
  /\ UNCHANGED <<instance, sessions, jobs, closed, told, announced, working, moved>>

\* Mutant: sessions that are not active are left alone.
CleanedIfActive(session) ==
  IF session.status = "active" THEN RevokeSession(session) ELSE session

\* An empty session is cleaned up, a revoked or cleaned one left, any other revoked.
Cleaned(session) ==
  CASE session.status = "empty"                  -> CleanupSession(session, {})
    [] session.status \in {"revoked", "cleanup"} -> session
    [] OTHER                                     -> RevokeSession(session)

ToClean(d) == {s \in Sessions : LET found == seen[d].sessions[s] IN
                                  found # Null /\ Cleaned(found) # found}

SaveDestroyed(d) ==
  /\ phase[d] = "save"
  /\ instance' = DestroyInstance(seen[d].instance)
  /\ Enter(d, "sessions", ToClean(d))
  /\ UNCHANGED <<sessions, jobs, closed, seen, told, announced, working, moved>>

\* One round of cleanupDestroyedInstanceSessions; a refused event is thrown.
CleanSession(d, s) ==
  /\ phase[d] = "sessions" /\ s \in todo[d]
  /\ sessions' = [sessions EXCEPT ![s] = Cleaned(seen[d].sessions[s])]
  /\ Finished(d, s) \/ Tell(d, "thrown")
  /\ UNCHANGED <<instance, jobs, closed, seen, announced, working, moved>>

\* Mutant: the jobs that were completed are listed, and buried, as well.
ListingsAndCompleted == <<"queued", "reserved", "running", "retrying", "completed">>

Listings == <<"queued", "reserved", "running", "retrying">>

StartListing(d) ==
  /\ phase[d] = "sessions" /\ todo[d] = {}
  /\ Enter(d, "jobs", DOMAIN Listings)
  /\ UNCHANGED <<instance, sessions, jobs, closed, seen, told, announced,
                 working, moved>>

\* Four queries at once, answered in any order.  A job that is in the answers of
\* two is taken from the later listing; one that moves may be in the answer of none.
ListJobs(d, i) ==
  LET found == {j \in OwnJobs : jobs[j] # Null /\ jobs[j].status = Listings[i]}
      Rank(copy) == CHOOSE k \in DOMAIN Listings : Listings[k] = copy.status
      had == seen[d].jobs
      Newer(j) == IF j \in DOMAIN had /\ (j \in found => Rank(had[j]) > i)
                  THEN had[j] ELSE jobs[j] IN
  /\ phase[d] = "jobs" /\ i \in todo[d]
  /\ seen' = [seen EXCEPT ![d].jobs = [j \in DOMAIN had \cup found |-> Newer(j)]]
  /\ IF todo[d] = {i} THEN Enter(d, "bury", DOMAIN had \cup found)
     ELSE Enter(d, "jobs", todo[d] \ {i})
  /\ UNCHANGED <<instance, sessions, jobs, closed, told, announced, working, moved>>

\* The copy that was listed is saved over whatever the job has become.
BuryJob(d, j) ==
  /\ phase[d] = "bury" /\ j \in todo[d]
  /\ jobs' = [jobs EXCEPT ![j] = MarkWorkerJobDead(seen[d].jobs[j])]
  /\ Finished(d, j) \/ Tell(d, "thrown")
  /\ UNCHANGED <<instance, sessions, closed, seen, announced, working, moved>>

ShouldDisconnectProviderSession(session) ==
  session # Null /\ session.status \in {"active", "expired", "pending"}

StartDisconnect(d) ==
  /\ phase[d] = "bury" /\ todo[d] = {}
  /\ Enter(d, "disconnect",
           {s \in Sessions : ShouldDisconnectProviderSession(seen[d].sessions[s])})
  /\ UNCHANGED <<instance, sessions, jobs, closed, seen, told, announced,
                 working, moved>>

DisconnectSession(d, s) ==
  /\ phase[d] = "disconnect" /\ s \in todo[d]
  /\ \/ closed' = closed \cup {s} /\ Finished(d, s)
     \/ Tell(d, "failed_accepted") /\ UNCHANGED closed
  /\ UNCHANGED <<instance, sessions, jobs, seen, announced, working, moved>>

PublishDestroyed(d) ==
  /\ phase[d] = "disconnect" /\ todo[d] = {}
  /\ \/ Tell(d, "accepted") /\ announced' = announced \cup {d}
     \/ Tell(d, "failed_accepted") /\ UNCHANGED announced
  /\ UNCHANGED <<instance, sessions, jobs, closed, seen, working, moved>>

CrashDestroyers ==
  /\ InProgress # {}
  /\ phase' = [d \in Destroyers |-> IF d \in InProgress THEN "cut" ELSE phase[d]]
  /\ UNCHANGED <<instance, sessions, jobs, closed, todo, seen, told, announced,
                 working, moved>>

DestroyStep(d) ==
  \/ StartDestroy(d) \/ FindSessions(d) \/ SaveDestroyed(d) \/ StartListing(d)
  \/ StartDisconnect(d) \/ PublishDestroyed(d)
  \/ \E s \in Sessions : CleanSession(d, s) \/ DisconnectSession(d, s)
  \/ \E i \in DOMAIN Listings : ListJobs(d, i)
  \/ \E j \in AllJobs : BuryJob(d, j)

-----------------------------------------------------------------------------
(* The worker; resolveActiveSession is two reads.                          *)

HasInstance == instance # Null /\ instance.status = "connected"
HasSession  == sessions[Current].status = "active"

\* The queue's reservation: the attempt goes on from that of a retry.
ReserveJob(j) ==
  /\ working = Idle
  /\ jobs[j] # Null /\ jobs[j].status \in {"queued", "retrying"}
  /\ jobs' = [jobs EXCEPT ![j] = ReserveWorkerJob(@, IF @.attempt = 0 THEN 1 ELSE @.attempt)]
  /\ working' = [Idle EXCEPT !.job = j, !.copy = jobs'[j], !.at = "instance"]
  /\ moved' = IF Started THEN moved \cup {j} ELSE moved
  /\ UNCHANGED <<instance, sessions, destroyVars>>

Verdict(v) == working' = [working EXCEPT !.at = "load", !.verdict = v]

\* The worker resolves again before it hands the message to the provider.
HandleJob ==
  /\ \/ /\ working.at = "instance"
        /\ IF HasInstance THEN working' = [working EXCEPT !.at = "session"] ELSE Verdict("dead")
     \/ /\ working.at = "session"
        /\ IF HasSession THEN working' = [working EXCEPT !.at = "deliver"] ELSE Verdict("dead")
     \/ /\ working.at = "deliver"
        /\ Verdict("completed") \/ Verdict("retrying")
  /\ UNCHANGED <<instance, sessions, jobs, destroyVars, moved>>

\* A reservation that is not the current one any more is dropped.
LoadReserved ==
  LET row == jobs[working.job] IN
  /\ working.at = "load"
  /\ working' = IF row.status = "reserved" /\ row.attempt = working.copy.attempt
                THEN [working EXCEPT !.at = "save", !.copy = row] ELSE Idle
  /\ UNCHANGED <<instance, sessions, jobs, destroyVars, moved>>

SettleJob ==
  LET copy == working.copy
      j == working.job
      retried == RetryWorkerJob(copy, copy.attempt + 1)
      settled == CASE working.verdict = "completed" -> CompleteWorkerJob(StartWorkerJob(copy))
                   [] working.verdict = "retrying" /\ retried # Throws -> retried
                   [] OTHER -> MarkWorkerJobDead(copy) IN
  /\ working.at = "save"
  /\ jobs' = [jobs EXCEPT ![j] = settled]
  /\ working' = Idle
  /\ moved' = IF Started THEN moved \cup {j} ELSE moved
  /\ UNCHANGED <<instance, sessions, destroyVars>>

InstanceNext ==
  \/ CreateInstanceCommand \/ CrashDestroyers
  \/ \E d \in Destroyers : DestroyStep(d)
  \/ HandleJob \/ LoadReserved \/ SettleJob
  \/ \E j \in OwnJobs : ReserveJob(j)

InstanceSpec == InstanceInit /\ [][InstanceNext]_instanceVars

-----------------------------------------------------------------------------
(* Properties.                                                             *)

NeedsCleanup(s) == sessions[s] # Null /\ sessions[s].status \notin {"revoked", "cleanup"}
NeedsClosing(s) == sessions[s] # Null /\ SeedSessions[s] \in {"active", "expired", "pending"}
NeedsBurial(j)  == jobs[j] # Null /\ jobs[j].status \notin SettledJob

LeftBehind ==
  \E d \in Destroyers : \/ d \in InProgress \/ phase[d] = "cut"
                        \/ told[d] \in {"thrown", "failed_accepted"}

\* An instance that is announced as destroyed has no session left and no job but
\* those a worker moved in the meantime.  That its sockets are
\* closed, and that a client who is told "accepted" is told so of an instance that
\* was announced, holds unless another command for it is still at work or was left
\* in the middle: what such a command left, no repetition takes up (destroyInstance:
\* the early return, and the sockets chosen by the sessions' status as loaded).
Cleanup ==
  /\ announced # {} =>
        /\ instance.status = "destroyed"
        /\ \A s \in Sessions : ~NeedsCleanup(s) /\ (NeedsClosing(s) => s \in closed \/ LeftBehind)
        /\ \A j \in OwnJobs \ moved : ~NeedsBurial(j)
  /\ "accepted" \in {told[d] : d \in Destroyers} => announced # {} \/ LeftBehind

\* A job that was settled stays as it is, unless a destroy command saves a copy it
\* listed before, or a worker one it loaded before; no other instance's job is
\* touched (markWorkerJobDead on the listed copy, the worker's settling).
OnlyRacedJobsMove ==
  \A j \in AllJobs :
    LET by == {d \in Destroyers : phase[d] = "bury" /\ j \in todo[d]} IN
    /\ (jobs[j] # Null /\ jobs[j].status \in SettledJob /\ jobs'[j] # jobs[j])
       => \/ \E d \in by : seen[d].jobs[j].status \notin SettledJob
          \/ working.job = j /\ working.at = "save"
    /\ j \in OtherJobs => jobs'[j] = jobs[j]

\* Both, of every step (at first nothing is announced and nobody was told): what a
\* destroy command has to do is done, and nothing else.
DestroyedIsCleaned == [][Cleanup' /\ OnlyRacedJobsMove]_instanceVars
=============================================================================
