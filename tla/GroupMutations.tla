---------------------------- MODULE GroupMutations ----------------------------
(***************************************************************************)
(* Changes of a group asked for over HTTP: a client that was shown the      *)
(* members names one of them by its place in that list, the API stores what *)
(* is asked under the reference of the request, and the handler loads the   *)
(* group, changes its copy, saves the copy over whatever is there and       *)
(* publishes.  Requests run in one process and meet at every await; a       *)
(* client repeats a request with the same idempotency key.                  *)
(***************************************************************************)
EXTENDS DomainAggregates

CONSTANTS
  Requests,       \* HTTP requests; each stores its intent under its own reference
  KeyOf,          \* the idempotency key of each
  SeedMembers,    \* the members of the group to begin with
  SeedStatuses,   \* the statuses the group may be in
  Newcomer        \* whom a request may add

Nobody == "nobody"
Persons == {SeedMembers[i].jid : i \in DOMAIN SeedMembers} \cup {Newcomer}

MemberKinds == {"remove_member", "promote_member", "demote_member"}
Kinds == MemberKinds \cup {"metadata", "local_state", "add_member"}

\* The patches of local flags that a request may hold: none of them, or two.
Patches == {<< >>, [muted |-> TRUE, pinned |-> FALSE]}

Intents == [kind : Kinds, flags : Patches, jid : Persons \cup {Nobody}, at : Nat]
Intent(kind, flags, jid, at) == [kind |-> kind, flags |-> flags, jid |-> jid, at |-> at]

ASSUME GroupSeed ==
  /\ SeedMembers \in Seq([jid : Persons, role : Roles])
  /\ SeedStatuses \subseteq DOMAIN GroupTransitions
  /\ Null \notin Intents /\ Null \notin {"accepted", "completed"}

VARIABLES
  stored,     \* the saved group, and its actions
  progress,   \* how far each request is
  intents,    \* the intent stored for each request
  meant,      \* the member the client saw at the place it names
  loaded,     \* the handler's copy of the group
  answers,    \* the outcome of each request
  published,  \* requests whose events are all in the event log
  saves,      \* requests in the order they saved (history)
  listedAt,   \* how many saves the list shown to the client includes (history)
  loadedAt    \* how many saves the handler's copy includes (history)

groupVars == <<stored, progress, intents, meant, loaded, answers, published,
               saves, listedAt, loadedAt>>

\* What a client can ask of a group it was shown: nothing at all, too.
Bodies ==
  {Intent("metadata", << >>, Nobody, 0), Intent("add_member", << >>, Newcomer, 0)}
    \cup {Intent("local_state", flags, Nobody, 0) : flags \in Patches}
    \cup {Intent(kind, << >>, Nobody, i) :
             kind \in MemberKinds, i \in DOMAIN stored.group.items}

ActionId(r) == <<intents[r].kind, KeyOf[r]>>
Repeats(r)  == {q \in Requests \ {r} : KeyOf[q] = KeyOf[r] /\ intents[q] # Null}
InFlight    == {r \in Requests : progress[r] \in {"load", "mutate", "save", "publish"}}

GroupInit ==
  /\ \E status \in SeedStatuses :
        stored = [group |-> [CreateGroup(SeedMembers) EXCEPT !.status = status],
                  actions |-> << >>]
  /\ progress = [r \in Requests |-> "ask"]
  /\ intents = [r \in Requests |-> Null]
  /\ meant = [r \in Requests |-> Nobody]
  /\ loaded = [r \in Requests |-> Null]
  /\ answers = [r \in Requests |-> Null]
  /\ published = {}
  /\ saves = << >>
  /\ listedAt = [r \in Requests |-> 0]
  /\ loadedAt = [r \in Requests |-> 0]

-----------------------------------------------------------------------------
(* From the list to the stored intent.                                     *)

\* The client is shown the members, each with its place for a reference.
\* A repeat sends what was sent before, and is not based on a new list.
AskGroup(r) ==
  /\ progress[r] = "ask"
  /\ progress' = [progress EXCEPT ![r] = "accept"]
  /\ IF Repeats(r) # {}
     THEN LET q == CHOOSE q \in Repeats(r) : TRUE IN
          /\ intents' = [intents EXCEPT ![r] = intents[q]]
          /\ meant' = [meant EXCEPT ![r] = meant[q]]
          /\ listedAt' = [listedAt EXCEPT ![r] = listedAt[q]]
     ELSE \E body \in Bodies :
          /\ intents' = [intents EXCEPT ![r] = body]
          /\ meant' = [meant EXCEPT ![r] = IF body.kind \in MemberKinds
                                           THEN stored.group.items[body.at].jid ELSE Nobody]
          /\ listedAt' = [listedAt EXCEPT ![r] = Len(saves)]
  /\ UNCHANGED <<stored, loaded, answers, published, saves, loadedAt>>

\* createGroupMutationIntentInput: a local state needs one flag at least.
IsSafeInput(intent) == intent.kind = "local_state" => intent.flags # << >>

Answer(r, outcome) ==
  /\ answers' = [answers EXCEPT ![r] = outcome]
  /\ progress' = [progress EXCEPT ![r] = "done"]

\* storeGroupMutationIntentForAdapterRequest: the scope of the credential, then
\* the intent, kept under the request's own reference.
StoreGroupIntent(r) ==
  /\ progress[r] = "accept"
  /\ \/ Answer(r, "forbidden")
     \/ /\ ~IsSafeInput(intents[r])
        /\ Answer(r, "invalid")
     \/ /\ IsSafeInput(intents[r])
        /\ progress' = [progress EXCEPT ![r] = "load"]
        /\ UNCHANGED answers
  /\ UNCHANGED <<stored, intents, meant, loaded, published, saves, listedAt, loadedAt>>

-----------------------------------------------------------------------------
(* GroupMutationHandler.handle.                                            *)

HasAction(copy, id) == \E i \in DOMAIN copy.actions : copy.actions[i].id = id

Success(r) ==
  IF intents[r].kind \in MemberKinds \cup {"add_member"} THEN "accepted" ELSE "completed"

LoadGroup(r) ==
  /\ progress[r] = "load"
  /\ IF stored.group.status = "deleted" THEN Answer(r, "failed")
     ELSE IF HasAction(stored, ActionId(r)) THEN Answer(r, Success(r))
     ELSE progress' = [progress EXCEPT ![r] = "mutate"] /\ UNCHANGED answers
  /\ loaded' = [loaded EXCEPT ![r] = stored]
  /\ loadedAt' = [loadedAt EXCEPT ![r] = Len(saves)]
  /\ UNCHANGED <<stored, intents, meant, published, saves, listedAt>>

ResolveExistingMemberJid(group, at) ==
  IF at \in DOMAIN group.items THEN group.items[at].jid ELSE Nobody

ApplyLocalStateMutation(group, flags) ==
  LET Patch(g, flag) ==
        IF flag \in DOMAIN flags THEN PatchLocalState(g, flag, flags[flag]) ELSE g IN
  Patch(Patch(Patch(group, "muted"), "archived"), "pinned")

ApplyToMember(group, kind, jid) ==
  CASE kind = "remove_member"  -> RemoveGroupMember(group, jid)
    [] kind = "promote_member" -> PromoteGroupMember(group, jid)
    [] kind = "demote_member"  -> DemoteGroupMember(group, jid)

\* The place is looked up in the group as it is now, not as it was listed.
ApplyGroupMutation(group, intent) ==
  LET jid == ResolveExistingMemberJid(group, intent.at) IN
  CASE intent.kind = "metadata"    -> UpdateGroupMetadata(group)
    [] intent.kind = "local_state" -> ApplyLocalStateMutation(group, intent.flags)
    [] intent.kind = "add_member"  -> AddGroupMember(group, intent.jid, "member")
    [] intent.kind \in MemberKinds ->
         IF jid = Nobody THEN Throws ELSE ApplyToMember(group, intent.kind, jid)

\* createGroupAction, once for each change: three flags are three actions of one id.
NewActions(group, intent, id) ==
  LET jid == IF intent.kind = "add_member" THEN intent.jid
             ELSE ResolveExistingMemberJid(group, intent.at)
      One(kind) == <<[id |-> id, kind |-> kind, jid |-> jid]>>
      Given(flag) == IF flag \in DOMAIN intent.flags THEN One(flag) ELSE << >> IN
  IF intent.kind # "local_state" THEN One(intent.kind)
  ELSE Given("muted") \o Given("archived") \o Given("pinned")

\* The intent is there, is the command's and never expires: the request stored it
\* a moment ago.  A change the aggregate refuses is answered "rejected".
MutateGroup(r) ==
  LET changed == ApplyGroupMutation(loaded[r].group, intents[r]) IN
  /\ progress[r] = "mutate"
  /\ IF changed = Throws
     THEN Answer(r, "rejected") /\ UNCHANGED loaded
     ELSE /\ loaded' = [loaded EXCEPT ![r] =
               [group |-> changed,
                actions |-> @.actions \o NewActions(@.group, intents[r], ActionId(r))]]
          /\ progress' = [progress EXCEPT ![r] = "save"]
          /\ UNCHANGED answers
  /\ UNCHANGED <<stored, intents, meant, published, saves, listedAt, loadedAt>>

\* Mutant: what is saved leaves out the actions that were in the group.
SaveGroupAnew(r) ==
  /\ progress[r] = "save"
  /\ stored' = [loaded[r] EXCEPT !.actions =
                  SelectSeq(@, LAMBDA entry : entry.id = ActionId(r))]
  /\ saves' = Append(saves, r)
  /\ progress' = [progress EXCEPT ![r] = "publish"]
  /\ UNCHANGED <<intents, meant, loaded, answers, published, listedAt, loadedAt>>

SaveGroup(r) ==
  /\ progress[r] = "save"
  /\ stored' = loaded[r]
  /\ saves' = Append(saves, r)
  /\ progress' = [progress EXCEPT ![r] = "publish"]
  /\ UNCHANGED <<intents, meant, loaded, answers, published, listedAt, loadedAt>>

\* The log may refuse an event: the group is saved, the answer says failed.
PublishGroup(r) ==
  /\ progress[r] = "publish"
  /\ \/ Answer(r, Success(r)) /\ published' = published \cup {r}
     \/ Answer(r, "failed_accepted") /\ UNCHANGED published
  /\ UNCHANGED <<stored, intents, meant, loaded, saves, listedAt, loadedAt>>

\* The process ends with every request it was handling.
CrashGroups ==
  /\ InFlight # {}
  /\ progress' = [r \in Requests |-> IF r \in InFlight THEN "cut" ELSE progress[r]]
  /\ UNCHANGED <<stored, intents, meant, loaded, answers, published, saves,
                 listedAt, loadedAt>>

GroupNext ==
  \/ \E r \in Requests : \/ AskGroup(r) \/ StoreGroupIntent(r) \/ LoadGroup(r)
                         \/ MutateGroup(r) \/ SaveGroup(r) \/ PublishGroup(r)
  \/ CrashGroups

GroupSpec == GroupInit /\ [][GroupNext]_groupVars

-----------------------------------------------------------------------------
(* Properties.                                                             *)

SavesOf(id) == {i \in DOMAIN saves : ActionId(saves[i]) = id}
Overwritten(i) == \E k \in (i + 1)..Len(saves) : loadedAt[saves[k]] < i

\* However often a request is repeated, and whatever overlaps: the group holds its
\* actions once, and the actions of the saves not overwritten with them.
AppliedOnce ==
  /\ \A i, j \in DOMAIN stored.actions :
        stored.actions[i] = stored.actions[j] => i = j
  /\ \A i \in DOMAIN saves :
        HasAction(stored, ActionId(saves[i])) \/ Overwritten(i)

\* A client that is told its change was made is told so of a group that was saved
\* with it, once, and of events that are in the log, unless an attempt at it was cut
\* off or refused there (hasAction, the answer to a repeat).
ToldIsDone ==
  /\ AppliedOnce
  /\ \A r \in Requests : answers[r] \in {"accepted", "completed"} =>
       /\ SavesOf(ActionId(r)) # {}
       /\ \E q \in Requests :
            /\ intents[q] # Null /\ ActionId(q) = ActionId(r)
            /\ q \in published \/ progress[q] \in {"cut", "publish"} \/ answers[q] = "failed_accepted"

\* Whom a change is made to is who the client saw at that place of the list,
\* unless a member was removed since, or a save undid another one
\* (groupMemberQueryItem, resolveExistingMemberJid).
ActsOnWhoWasMeant ==
  \A i \in DOMAIN stored.actions : \A r \in Requests :
     LET entry == stored.actions[i]
         Moved(q) == \E k \in (listedAt[q] + 1)..loadedAt[q] :
                        \/ intents[saves[k]].kind = "remove_member"
                        \/ loadedAt[saves[k]] < k - 1 IN
     (intents[r] # Null /\ entry.id = ActionId(r) /\ r \in ToSet(saves)
        /\ entry.kind \in MemberKinds)
     => \/ entry.jid = meant[r]
        \/ \E k \in SavesOf(entry.id) : Moved(saves[k])

\* A group is changed as its clients were told, once, and at the member they meant.
GroupsChangeAsTold == ToldIsDone /\ ActsOnWhoWasMeant
=============================================================================
