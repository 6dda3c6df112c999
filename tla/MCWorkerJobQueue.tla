-------------------------- MODULE MCWorkerJobQueue --------------------------
(* Small instances of WorkerJobQueue for TLC.                              *)
EXTENDS WorkerJobQueue, TLC

CONSTANTS j1, j2, k1, r1, r2

\* One call; and two with one key, as a client that repeats itself makes them:
\* the handler draws a new job id each time.
OneJob   == r1 :> j1
FirstKey == r1 :> k1
TwoJobs  == OneJob @@ r2 :> j2
OneKey   == FirstKey @@ r2 :> k1
=============================================================================
