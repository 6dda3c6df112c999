----------------------------- MODULE JobLedger -----------------------------
(***************************************************************************)
(* What the durable worker-job queue promises about the life of a job,     *)
(* without leases, statements or workers: accepted work is run at most     *)
(* MaxAttempts times, one run at a time, and a job that has been           *)
(* completed or given up stays so.                                         *)
(*                                                                         *)
(* Several jobs may move in one step because one recovery transaction      *)
(* hands back every job whose lease ran out.                               *)
(***************************************************************************)
EXTENDS Naturals

CONSTANTS Jobs, MaxAttempts

VARIABLES
  state,   \* where each job stands
  runs     \* how many times a worker was given the job

ledger == <<state, runs>>

States == {"absent", "ready", "running", "completed", "dead"}

Init == /\ state = [j \in Jobs |-> "absent"]
        /\ runs  = [j \in Jobs |-> 0]

\* One job's move, in terms of its state and count before and after.
Move(j, s, t, n) == /\ state[j] = s /\ state'[j] = t
                    /\ runs'[j] = runs[j] + n

Accept(j)   == Move(j, "absent", "ready", 0)
Start(j)    == Move(j, "ready", "running", 1) /\ runs[j] < MaxAttempts
HandBack(j) == Move(j, "running", "ready", 0) /\ runs[j] < MaxAttempts
Complete(j) == Move(j, "running", "completed", 0)
GiveUp(j)   == Move(j, "running", "dead", 0)
Rest(j)     == state'[j] = state[j] /\ runs'[j] = runs[j]

Next == \A j \in Jobs : \/ Accept(j)   \/ Start(j)  \/ HandBack(j)
                        \/ Complete(j) \/ GiveUp(j) \/ Rest(j)

Spec == Init /\ [][Next]_ledger
=============================================================================
