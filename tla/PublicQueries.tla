----------------------------- MODULE PublicQueries -----------------------------
(***************************************************************************)
(* What clients read over HTTP.  The dispatcher answers each query from     *)
(* the repositories, a collection with one SELECT or with one for every     *)
(* status at the same time; the server filters and sorts what it gets and   *)
(* cuts out a page, whose cursor is the offset of the next.  A client       *)
(* follows the cursors while the rows go on changing.                       *)
(***************************************************************************)
EXTENDS Integers, Sequences, FiniteSets, SequencesExt

CONSTANTS
  Rows,          \* how many rows there may be; their ids sort as their numbers
  SeedRows,      \* what they may be to begin with: the status of each, or "absent"
  WalkedQueries, \* the collections of chats that the client pages through
  AskedSorts,    \* the orders it may ask for, with "" for none
  AskedFilters,  \* and the filters
  AskedLimits,   \* and the page sizes
  MaxPageSize,   \* the page size that larger ones are cut to
  MaxChanges     \* how often rows change while it pages

-----------------------------------------------------------------------------
(* The queries: what each reads, and which statuses it leaves out.         *)

InstanceList == <<"created", "connecting", "qr_pending", "connected", "disconnected",
                  "logged_out", "action_required", "destroyed">>
SessionList  == <<"empty", "pending", "active", "expired", "revoked", "cleanup">>
MessageList  == <<"created", "evaluated", "queued", "processing", "sent", "delivered",
                  "read", "failed", "cancelled">>
ChatList     == <<"open", "archived", "deleted">>
ContactList  == <<"discovered", "active", "blocked", "deleted">>
GroupList    == <<"discovered", "active", "left", "deleted">>
JobList      == <<"queued", "reserved", "running", "completed", "retrying", "dead">>
WebhookList  == <<"proposed", "validated", "active", "suspended", "invalid", "retired">>
WebhookDeliveryList ==
  <<"pending", "delivering", "delivered", "retrying", "failed", "dead_letter", "cancelled">>

StatusLists ==
  [instance |-> InstanceList, session |-> SessionList, message |-> MessageList,
   chat |-> ChatList, contact |-> ContactList, group |-> GroupList,
   job |-> JobList, webhook |-> WebhookList,
   webhookDelivery |-> WebhookDeliveryList]

AtOnce(kind)     == <<ToSet(StatusLists[kind])>>
EachStatus(kind) == [i \in DOMAIN StatusLists[kind] |-> {StatusLists[kind][i]}]

Collection(kind, reads, hidden) ==
  [shape |-> "collection", kind |-> kind, reads |-> reads, hidden |-> hidden, named |-> FALSE]
OfTarget(query) == [query EXCEPT !.named = TRUE]
Resource(kind, hidden) ==
  [shape |-> "resource", kind |-> kind, reads |-> AtOnce(kind), hidden |-> hidden, named |-> TRUE]

NonTerminal == <<ToSet(StatusLists.instance) \ {"destroyed"}>>

\* Where the route names an instance, its rows are selected, or the others dropped.
ListInstances        == Collection("instance", NonTerminal, {})
GetInstanceStatus    == Resource("instance", {})
ListInstanceSessions == OfTarget(Collection("session", AtOnce("session"), {}))
ListInstanceMessages == OfTarget(Collection("message", EachStatus("message"), {}))
GetMessageStatus     == Resource("message", {})
ListChats            == Collection("chat", EachStatus("chat"), {"deleted"})
ListInstanceChats    == OfTarget(Collection("chat", AtOnce("chat"), {"deleted"}))
GetChatStatus        == Resource("chat", {"deleted"})
ListContacts         == Collection("contact", EachStatus("contact"), {"deleted"})
ListInstanceContacts == OfTarget(Collection("contact", AtOnce("contact"), {"deleted"}))
GetContactStatus     == Resource("contact", {"deleted"})
ListInstanceGroups   == OfTarget(Collection("group", AtOnce("group"), {"deleted"}))
GetGroupStatus       == Resource("group", {"deleted"})
\* One group is loaded, and its members are the items.
ListGroupMembers     == [ListInstanceGroups EXCEPT !.kind = "groupMember"]
ListWorkerJobs       == Collection("job", EachStatus("job"), {})
GetWorkerJobStatus   == Resource("job", {})
ListWebhookSubscriptions == Collection("webhook", EachStatus("webhook"), {})
GetWebhookStatus         == Resource("webhook", {})
ListWebhookDeliveries    == Collection("webhookDelivery", EachStatus("webhookDelivery"), {})
GetWebhookDeliveryHistory == Resource("webhookDelivery", {})

Queries ==
  [ListInstances |-> ListInstances, GetInstanceStatus |-> GetInstanceStatus,
   ListInstanceSessions |-> ListInstanceSessions,
   ListInstanceMessages |-> ListInstanceMessages, GetMessageStatus |-> GetMessageStatus,
   ListChats |-> ListChats, ListInstanceChats |-> ListInstanceChats,
   GetChatStatus |-> GetChatStatus, ListContacts |-> ListContacts,
   ListInstanceContacts |-> ListInstanceContacts, GetContactStatus |-> GetContactStatus,
   ListInstanceGroups |-> ListInstanceGroups, GetGroupStatus |-> GetGroupStatus,
   ListGroupMembers |-> ListGroupMembers,
   ListWorkerJobs |-> ListWorkerJobs, GetWorkerJobStatus |-> GetWorkerJobStatus,
   ListWebhookSubscriptions |-> ListWebhookSubscriptions,
   GetWebhookStatus |-> GetWebhookStatus, ListWebhookDeliveries |-> ListWebhookDeliveries,
   GetWebhookDeliveryHistory |-> GetWebhookDeliveryHistory]

\* The words in a query's name that stand for a kind of resource, and the order in
\* which they are tried: the first decides the schema of what is answered.
NameWords ==
  [ListInstances |-> {"Instance"}, GetInstanceStatus |-> {"Instance"},
   ListInstanceSessions |-> {"Instance", "Session"},
   ListInstanceMessages |-> {"Instance", "Message"}, GetMessageStatus |-> {"Message"},
   ListChats |-> {"Chat"}, ListInstanceChats |-> {"Instance", "Chat"},
   GetChatStatus |-> {"Chat"}, ListContacts |-> {"Contact"},
   ListInstanceContacts |-> {"Instance", "Contact"}, GetContactStatus |-> {"Contact"},
   ListInstanceGroups |-> {"Instance", "Group"}, GetGroupStatus |-> {"Group"},
   ListGroupMembers |-> {"Group", "GroupMember"},
   ListWorkerJobs |-> {"WorkerJob"}, GetWorkerJobStatus |-> {"WorkerJob"},
   ListWebhookSubscriptions |-> {"Webhook"}, GetWebhookStatus |-> {"Webhook"},
   ListWebhookDeliveries |-> {"Webhook", "WebhookDelivery"},
   GetWebhookDeliveryHistory |-> {"Webhook", "WebhookDelivery"}]
WordOrder ==
  <<[word |-> "WebhookDelivery", kind |-> "webhookDelivery"],
    [word |-> "Webhook", kind |-> "webhook"], [word |-> "WorkerJob", kind |-> "job"],
    [word |-> "GroupMember", kind |-> "groupMember"], [word |-> "Session", kind |-> "session"],
    [word |-> "Message", kind |-> "message"], [word |-> "Chat", kind |-> "chat"],
    [word |-> "Contact", kind |-> "contact"], [word |-> "Group", kind |-> "group"],
    [word |-> "Instance", kind |-> "instance"]>>

ResourceTypeForQuery(name) ==
  SelectSeq(WordOrder, LAMBDA entry : entry.word \in NameWords[name])[1].kind

\* The name alone gives an answer the schema of what was read, whatever else it names.
ASSUME NamedAfterItsKind ==
  \A name \in DOMAIN Queries : ResourceTypeForQuery(name) = Queries[name].kind

Shows(query) == (UNION ToSet(query.reads)) \ query.hidden

\* Whatever a collection shows can be asked for by its id, and the other way round;
\* only an instance that was destroyed has a status and is in no list.
ASSUME ListedIsFound ==
  \A list, one \in {Queries[name] : name \in DOMAIN Queries} :
     list.shape = "collection" /\ one.shape = "resource" /\ list.kind = one.kind
     => Shows(one) \ Shows(list) = IF list.kind = "instance" THEN {"destroyed"} ELSE {}

\* configured: the repository is there; named: the request names a target.
QueryOutcome(query, configured, named, found) ==
  CASE ~configured -> "unavailable"
    [] configured /\ (found = {} \/ (query.named /\ ~named)) -> "empty"
    [] OTHER -> "result"

StatusCodeForApiSuccess(outcome) == IF outcome = "unavailable" THEN 503 ELSE 200

\* The queue's figures, of the jobs as each SELECT counted them.
GetQueueMetricsSnapshot(counts) ==
  LET active == counts.queued + counts.reserved + counts.running + counts.retrying IN
  [total  |-> active + counts.completed + counts.dead,
   active |-> active,
   status |-> CASE counts.dead > 0 -> "degraded"
                [] counts.dead = 0 /\ active > 0 -> "active"
                [] OTHER -> "empty"]

\* A queue that reports itself empty has no job that waits, runs or is dead.
ASSUME EmptyIsIdle ==
  \A counts \in [ToSet(StatusLists.job) -> 0..2] :
     LET metrics == GetQueueMetricsSnapshot(counts) IN
     metrics.status = "empty" <=> metrics.total = counts.completed

-----------------------------------------------------------------------------
(* The fields of what is answered, before and after the server's schemas.  *)

InstanceQueryItem  == {"id", "status", "displayName"}
SessionQueryItem   == {"id", "instanceId", "status"}
MessageQueryItem   == {"id", "instanceId", "direction", "type", "status"}
ChatQueryItem      == {"id", "instanceId", "status", "type", "unreadCount", "labelIds",
                       "muted", "pinned"}
ContactQueryItem   == {"id", "instanceId", "status", "displayName"}
GroupQueryItem     == {"id", "instanceId", "status", "subject", "description", "memberCount",
                       "adminCount", "muted", "archived", "pinned"}
GroupMemberQueryItem == {"id", "groupId", "memberRef", "role", "status", "joinedAt"}
EventQueryItem     == {"id", "type", "source", "timestamp", "resourceRef", "correlationId"}
WorkerJobQueryItem == {"id", "status", "workType", "ownerContext", "attemptCount", "resourceRef"}
WebhookSubscriptionQueryItem == {"id", "status"}
WebhookDeliveryQueryItem ==
  {"id", "webhookId", "status", "eventType", "attemptCount", "failureCategory", "reasonCode"}
QueueMetricsResource ==
  {"id", "status", "totalJobCount", "queuedJobCount", "reservedJobCount", "runningJobCount",
   "retryingJobCount", "completedJobCount", "deadJobCount", "activeJobCount"}

QueryItems ==
  [instance |-> InstanceQueryItem, session |-> SessionQueryItem, message |-> MessageQueryItem,
   chat |-> ChatQueryItem, contact |-> ContactQueryItem, group |-> GroupQueryItem,
   groupMember |-> GroupMemberQueryItem, event |-> EventQueryItem, job |-> WorkerJobQueryItem,
   webhook |-> WebhookSubscriptionQueryItem, webhookDelivery |-> WebhookDeliveryQueryItem,
   metrics |-> QueueMetricsResource]

Dated == {"createdAt", "updatedAt"}

InstanceSchema    == {"status", "displayName"} \cup Dated
SessionSchema     == {"instanceId", "status", "expiresAt"} \cup Dated
MessageSchema     == {"instanceId", "chatId", "groupId", "status", "type", "direction",
                      "deliveredAt", "readAt"} \cup Dated
ChatSchema        == {"instanceId", "status", "displayName", "type", "unreadCount", "labelIds",
                      "muted", "pinned", "lastMessageAt", "updatedAt"}
ContactSchema     == {"instanceId", "status", "displayName", "labelIds", "updatedAt"}
GroupSchema       == {"instanceId", "status", "subject", "description", "memberCount",
                      "adminCount", "muted", "archived", "pinned", "updatedAt"}
GroupMemberSchema == {"groupId", "memberRef", "role", "status", "displayName", "joinedAt",
                      "updatedAt"}
EventSchema       == {"type", "source", "resourceRef", "correlationId", "timestamp"}
JobSchema         == {"status", "workType", "ownerContext", "resourceRef", "attemptCount",
                      "nextRunAt"} \cup Dated
WebhookSchema     == {"status", "eventTypes"} \cup Dated
WebhookDeliverySchema == {"webhookId", "status", "eventType", "attemptCount",
                          "failureCategory", "reasonCode", "nextRetryAt"} \cup Dated
MetricsSchema     == {"value", "count", "totalJobCount", "queuedJobCount", "reservedJobCount",
                      "runningJobCount", "retryingJobCount", "completedJobCount",
                      "deadJobCount", "activeJobCount", "status", "updatedAt"}

PublicResourceSchemas ==
  [instance |-> InstanceSchema, session |-> SessionSchema, message |-> MessageSchema,
   chat |-> ChatSchema, contact |-> ContactSchema, group |-> GroupSchema,
   groupMember |-> GroupMemberSchema, event |-> EventSchema, job |-> JobSchema,
   webhook |-> WebhookSchema, webhookDelivery |-> WebhookDeliverySchema,
   metrics |-> MetricsSchema]

\* publicResourceData: the id, and what the schema knows.
PublicResourceData ==
  [kind \in DOMAIN QueryItems |-> QueryItems[kind] \cap (PublicResourceSchemas[kind] \cup {"id"})]

\* The two tables are kept in two packages, by name: nothing is lost between them.
ASSUME ItemsArriveWhole == PublicResourceData = QueryItems

-----------------------------------------------------------------------------
(* What a client may ask of a collection.  Much of it is of fields that no *)
(* item has: such a sort leaves the order, such a filter leaves nothing.   *)

AllowedSortFields(name) ==
  CASE name = "ListInstances" -> {"id", "status", "displayName"} \cup Dated
    [] name \in {"ListInstanceSessions", "ListWebhookDeliveries"} -> {"id", "status"} \cup Dated
    [] name = "ListInstanceMessages" -> {"id", "status", "type", "direction"} \cup Dated
    [] name \in {"ListChats", "ListInstanceChats", "ListContacts", "ListInstanceContacts"}
         -> {"id", "status", "updatedAt", "displayName"}
    [] name = "ListInstanceGroups" -> {"id", "status", "updatedAt", "subject"}
    [] name = "ListWorkerJobs" -> {"id", "status", "workType"} \cup Dated
    [] name = "ListWebhookSubscriptions" -> {"id", "status", "updatedAt"}

AllowedFilterFields(name) ==
  CASE name = "ListInstanceMessages" -> {"status", "type", "direction"}
    [] name \in {"ListChats", "ListInstanceChats"} -> {"status", "labelId"}
    [] name = "ListWorkerJobs" -> {"status", "workType", "ownerContext"}
    [] name = "ListWebhookDeliveries" -> {"status", "webhookId", "failureCategory", "reasonCode"}
    [] OTHER -> {"status"}

Unfiltered == [field |-> "", value |-> ""]

Asked(name, sort, filter) ==
  /\ sort.field \in AllowedSortFields(name) \cup {""}
  /\ filter = Unfiltered \/ filter.field \in AllowedFilterFields(name)

\* Statuses compare as words.
Alphabetical == [archived |-> 1, deleted |-> 2, open |-> 3]
ComparableValue(item, field) ==
  IF field = "id" THEN item.id ELSE Alphabetical[item.status]

ItemMatchesFilters(item, kind, filter) ==
  \/ filter = Unfiltered
  \/ /\ filter.field \in PublicResourceData[kind]
     /\ item[filter.field] = filter.value

\* A client pages through lists of chats.
ASSUME QuerySeed ==
  /\ Rows \in Nat /\ SeedRows \subseteq [1..Rows -> ToSet(ChatList) \cup {"absent"}]
  /\ WalkedQueries \subseteq {"ListChats", "ListInstanceChats"}
  /\ AskedLimits \subseteq Nat /\ MaxPageSize \in Nat

-----------------------------------------------------------------------------
(* The walk.                                                               *)

VARIABLES
  rows,      \* the status of each chat of the instance, or "absent"
  asked,     \* the query and its options
  cursor,    \* the cursor the client has
  reads,     \* the answers of the SELECTs for the page it is waiting for
  got,       \* how often it has received each row
  walk,      \* "reading" or "over"
  status,    \* the HTTP status of the last answer, 0 before the first
  changed    \* the rows that changed since it began, one entry each time (history)

queryVars == <<rows, asked, cursor, reads, got, walk, status, changed>>

ReadsOf(query) == Queries[query].reads

PageSize(limit) == IF limit > MaxPageSize THEN MaxPageSize ELSE limit

\* The query and its options as they are applied, the cursor excepted.
CursorContext(options) == [options EXCEPT !.limit = PageSize(@)]

EncodeCollectionCursor(offset, options) == [offset |-> offset, context |-> CursorContext(options)]
\* Otherwise the answer is 400.
CursorDecodes(options) == cursor.context = CursorContext(options)

Walks ==
  {options \in [name : WalkedQueries, sort : AskedSorts, filter : AskedFilters, limit : AskedLimits] :
     Asked(options.name, options.sort, options.filter)}

QueryInit ==
  /\ rows \in SeedRows
  /\ asked \in Walks
  /\ cursor = EncodeCollectionCursor(0, asked)
  /\ reads = << >>
  /\ got = [x \in 1..Rows |-> 0]
  /\ walk = "reading" /\ status = 0
  /\ changed = << >>

\* A chat is created open, and archived, opened and deleted; rows are never removed.
ChangeRow(x) ==
  /\ walk = "reading" /\ Len(changed) < MaxChanges
  /\ \E new \in {"open", "archived", "deleted"} \ {rows[x]} :
        /\ rows[x] # "deleted" /\ (rows[x] = "absent" => new = "open")
        /\ rows' = [rows EXCEPT ![x] = new]
  /\ changed' = Append(changed, x)
  /\ UNCHANGED <<asked, cursor, reads, got, walk, status>>

\* One SELECT; those of one query are answered in any order.
SelectRows(i) ==
  LET statuses == ReadsOf(asked.name)[i]
      found == {x \in 1..Rows : rows[x] \in statuses} IN
  /\ walk = "reading" /\ i \in DOMAIN ReadsOf(asked.name) \ DOMAIN reads
  /\ reads' = [n \in DOMAIN reads \cup {i} |->
                 IF n = i THEN {[id |-> x, status |-> rows[x], at |-> i] : x \in found}
                 ELSE reads[n]]
  /\ UNCHANGED <<rows, asked, cursor, got, walk, status, changed>>

\* What the query answers of what its reads found,
Listed(answers, query) == {item \in answers : item.status \notin query.hidden}
\* what the server leaves of that,
ApplyCollectionFilters(items, kind) ==
  {item \in items : ItemMatchesFilters(item, kind, asked.filter)}
\* and in which order: a stable sort of the reads in their order, each ORDER BY id.
\* Items without the field compare equal.
SortCollectionItems(left, right, known) ==
  LET Value(item) == IF known THEN ComparableValue(item, asked.sort.field) ELSE 0 IN
  \/ IF asked.sort.descending THEN Value(left) > Value(right) ELSE Value(left) < Value(right)
  \/ /\ Value(left) = Value(right)
     /\ \/ left.at < right.at
        \/ left.at = right.at /\ left.id < right.id

\* Mutant: the next page begins one further on.
EndOffsetSkips(start, limit, total) ==
  IF start + limit + 1 < total THEN start + limit + 1 ELSE total

EndOffset(start, limit, total) ==
  IF start + limit < total THEN start + limit ELSE total

\* publicCollectionPage.
AnswerPage ==
  LET query   == Queries[asked.name]
      answers == UNION {reads[i] : i \in DOMAIN reads}
      listed == Listed(answers, query)
      items  == ApplyCollectionFilters(listed, query.kind)
      known  == asked.sort.field \in PublicResourceData[query.kind]
      Place(item) ==
        Cardinality({other \in items : SortCollectionItems(other, item, known)}) + 1
      total  == Cardinality(items)
      start  == IF cursor.offset < total THEN cursor.offset ELSE total
      end    == EndOffset(start, PageSize(asked.limit), total)
      last   == IF start + PageSize(asked.limit) < end THEN start + PageSize(asked.limit) ELSE end
      page   == {item \in items : Place(item) \in (start + 1)..last} IN
  /\ walk = "reading" /\ DOMAIN reads = DOMAIN ReadsOf(asked.name)
  /\ got' = [x \in 1..Rows |-> got[x] + Cardinality({item \in page : item.id = x})]
  /\ cursor' = EncodeCollectionCursor(end, asked)
  /\ walk' = IF end < total THEN "reading" ELSE "over"
  /\ status' = StatusCodeForApiSuccess(QueryOutcome(query, TRUE, TRUE, listed))
  /\ reads' = << >>
  /\ UNCHANGED <<rows, asked, changed>>

\* The repository is not configured: 503, and the walk is over.
PageUnavailable ==
  /\ walk = "reading" /\ reads = << >> /\ cursor.offset = 0
  /\ walk' = "over"
  /\ status' = StatusCodeForApiSuccess(QueryOutcome(Queries[asked.name], FALSE, TRUE, {}))
  /\ UNCHANGED <<rows, asked, cursor, reads, got, changed>>

\* A cursor is good for the options it was made for only: 400 otherwise.
AskOtherwise ==
  /\ walk = "reading" /\ reads = << >> /\ cursor.offset > 0
  /\ \E limit \in AskedLimits :
        LET options == [asked EXCEPT !.limit = limit] IN
        /\ ~CursorDecodes(options)
        /\ asked' = options
  /\ walk' = "over" /\ status' = 400
  /\ UNCHANGED <<rows, cursor, reads, got, changed>>

QueryNext ==
  \/ \E x \in 1..Rows : ChangeRow(x)
  \/ \E i \in 1..Len(ReadsOf(asked.name)) : SelectRows(i)
  \/ AnswerPage \/ PageUnavailable \/ AskOtherwise

QuerySpec == QueryInit /\ [][QueryNext]_queryVars

-----------------------------------------------------------------------------
(* Properties.                                                             *)

Unmoved  == {x \in 1..Rows : x \notin ToSet(changed)}
Wanted(x) ==
  /\ rows[x] \in Shows(Queries[asked.name])
  /\ ItemMatchesFilters([id |-> x, status |-> rows[x]], Queries[asked.name].kind, asked.filter)

\* A client that follows the cursors to the end receives every item once and no
\* other, if no row changes meanwhile.  Each change of a row makes it miss one
\* unchanged item at most, and receive one again at most, however the page sizes,
\* the sort, the filter and the reads of a page fall (publicCollectionPage's offset
\* cursors, listChats' parallel reads).
WalkSlipsOncePerChange ==
  walk = "over" /\ status = 200 =>
    /\ Cardinality({x \in Unmoved : Wanted(x) /\ got[x] = 0}) <= Len(changed)
    /\ Cardinality({x \in Unmoved : got[x] > 1}) <= Len(changed)
    /\ \A x \in Unmoved : ~Wanted(x) => got[x] = 0
=============================================================================
