------------------------- MODULE MCWebhookDelivery -------------------------
(* Small instances of WebhookDelivery: see the README for the bounds.      *)
EXTENDS WebhookDelivery, TLC

CONSTANTS d1, r1, retryKey, bulkKey, c1, c2

\* Both calls are about one delivery, and repetitions of each other when they
\* are the same command.
MCKindsOf   == c1 :> {"retry", "bulk"} @@ c2 :> {"bulk"}
MCTargetsOf == [c \in Commands |-> "retry" :> <<d1>> @@ "redrive" :> <<d1>>
                                   @@ "bulk" :> <<d1>>]
MCKeyOf     == [c \in Commands |->
                  "retry" :> [d \in Deliveries |-> retryKey]
                  @@ [k \in {"redrive", "bulk"} |-> [d \in Deliveries |-> bulkKey]]]
MCRedriveOf == [d \in Deliveries |-> [k \in Keys |-> r1]]
=============================================================================
