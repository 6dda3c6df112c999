------------------------------ MODULE MCDomain ------------------------------
(***************************************************************************)
(* The domain library and four of its users, explored one at a time: any   *)
(* program that calls the library, requests that change a group, the       *)
(* commands that make and destroy an instance, a client that pages through *)
(* a collection, and the queue that one process keeps in memory.           *)
(***************************************************************************)
EXTENDS DomainLibrary, GroupMutations, InstanceCommands, PublicQueries,
        InMemoryQueue

CONSTANTS r1, r2, r3, k1, k2, d1, d2, s1, s2, j1, x1, q1, w1, w2

MCKeyOf == [r \in Requests |-> IF r = r3 THEN k2 ELSE k1]
MCSeedMembers ==
  <<[jid |-> "ann", role |-> "member"], [jid |-> "bob", role |-> "admin"],
    [jid |-> "eve", role |-> "owner"]>>
MCSeedSessions == [s \in Sessions |-> IF s = s1 THEN "active" ELSE "empty"]

MCWindowKeys == <<w1, w2>>

MCSymmetry == Permutations(Destroyers) \cup Permutations({r1, r2})

MCSeedRows == {[x \in 1..Rows |-> CASE x = 2 -> second [] x = Rows -> "absent" [] OTHER -> "open"] :
                 second \in {"open", "archived"}}
MCSorts == {[field |-> "", descending |-> FALSE], [field |-> "status", descending |-> TRUE]}
MCFilters == {[field |-> "", value |-> ""], [field |-> "status", value |-> "open"]}

\* The lists of statuses that the queries and the type guards go through are kept
\* apart from the tables of transitions: they name the same statuses.
ASSUME StatusesAgree ==
  /\ ToSet(InstanceList) = DOMAIN InstanceTransitions
  /\ ToSet(SessionList) = DOMAIN SessionTransitions
  /\ ToSet(MessageList) = DOMAIN MessageTransitions
  /\ ToSet(GroupList) = DOMAIN GroupTransitions
  /\ ToSet(JobList) = DOMAIN WorkerJobTransitions
  /\ ToSet(WebhookList) = DOMAIN WebhookSubscriptionTransitions
  /\ ToSet(WebhookDeliveryList) = DOMAIN WebhookDeliveryTransitions

VARIABLE scene

MCInit ==
  /\ scene \in {"library", "group", "instance", "pages", "queue"}
  /\ LibraryInit /\ GroupInit /\ InstanceInit /\ QueryInit /\ InMemoryInit
  /\ scene # "library"  => agg = RequestAccessDecision
  /\ scene # "group"    => stored.group.status = "active"
  /\ scene # "instance" => instance = Null
  /\ scene # "pages"    => /\ asked = CHOOSE options \in Walks : TRUE
                           /\ rows = CHOOSE seed \in SeedRows : TRUE

MCNext ==
  /\ UNCHANGED scene
  /\ \/ /\ scene = "library" /\ LibraryNext
        /\ UNCHANGED <<groupVars, instanceVars, queryVars, inMemoryVars>>
     \/ /\ scene = "group" /\ GroupNext
        /\ UNCHANGED <<agg, instanceVars, queryVars, inMemoryVars>>
     \/ /\ scene = "instance" /\ InstanceNext
        /\ UNCHANGED <<agg, groupVars, queryVars, inMemoryVars>>
     \/ /\ scene = "pages" /\ QueryNext
        /\ UNCHANGED <<agg, groupVars, instanceVars, inMemoryVars>>
     \/ /\ scene = "queue" /\ InMemoryNext
        /\ UNCHANGED <<agg, groupVars, instanceVars, queryVars>>

MCSpec == MCInit /\ [][MCNext]_<<scene, agg, groupVars, instanceVars, queryVars, inMemoryVars>>
=============================================================================
