------------------------ MODULE MCProviderOwnership ------------------------
(* Small instances of ProviderOwnership for TLC.                           *)
EXTENDS ProviderOwnership, TLC

CONSTANTS r1, r2, s1, s2, s3, p1, t1

\* r1 starts the session, stops it and starts it again; r2 starts it too, and
\* renews nothing.
TwoRuntimes == s1 :> r1 @@ s2 :> r1 @@ s3 :> r2 @@ p1 :> r1 @@ t1 :> r1
=============================================================================
