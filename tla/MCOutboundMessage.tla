------------------------- MODULE MCOutboundMessage -------------------------
(* Small instances of OutboundMessage for TLC.                             *)
EXTENDS OutboundMessage, TLC

CONSTANTS c1, c2, c3, k1, k2, x1

\* A send; the same repeated by the client, under one key; and a retry of the
\* first message, which has a key of its own.
OneSend  == c1 :> NoMessage
OneKey   == c1 :> k1
TwoSends == OneSend @@ c2 :> NoMessage
SameKey  == OneKey @@ c2 :> k1
SendsAndRetry == TwoSends @@ c3 :> c1
ThreeKeys     == SameKey @@ c3 :> k2

\* No cancellation, or one of the first message.
CancelNone  == << >>
CancelFirst == x1 :> c1
=============================================================================
