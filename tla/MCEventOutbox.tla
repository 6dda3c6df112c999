--------------------------- MODULE MCEventOutbox ---------------------------
(* A small instance of EventOutbox for TLC.                                *)
EXTENDS EventOutbox, TLC

CONSTANTS a1, a2, a3, e1, e2, e3

\* A command's two events, appended by the call and by its repetition, and
\* another command's event.
Repeated == a1 :> <<e1, e2>> @@ a2 :> <<e1, e2>> @@ a3 :> <<e3>>
\* The other command's clock is behind.
ThirdFirst == e3 :> 1 @@ e1 :> 2 @@ e2 :> 3
=============================================================================
