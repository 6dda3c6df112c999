---------------------------- MODULE AggregateRows ----------------------------
(***************************************************************************)
(* How an aggregate is kept (packages/infrastructure-persistence): the row  *)
(* a save leaves in PostgreSQL, the tables the migrations make for those    *)
(* rows, what a load decodes, and which finders return the aggregate, in    *)
(* PostgreSQL, in the JSON files and in the in-memory repositories the      *)
(* tests and the development profile use.                                   *)
(*                                                                         *)
(* An attribute that is given at creation and never changes stands for its  *)
(* own value.  A "side" value is one a second call records beside the       *)
(* aggregate, which no save carries: an idempotency key, the signals of a   *)
(* subscription, the source of an audit record, the wish to clean a medium. *)
(***************************************************************************)
EXTENDS DomainAggregates

\* A finder and the argument that makes it return the aggregate.
When(condition, finder, argument) == IF condition THEN {<<finder, argument>>} ELSE {}

-----------------------------------------------------------------------------
(* The tables: columns, and whether NULL is refused in them.               *)

InstancesTable == [status |-> "not null", current_session_id |-> "null",
                   action_required_reason |-> "null"]
WorkerJobsTable == [status |-> "not null", owner_context |-> "not null",
                    work_type |-> "not null", idempotency_key |-> "null"]
MessagesTable == [status |-> "not null", idempotency_key |-> "null"]
SessionsTable == [instance_id |-> "not null", status |-> "not null",
                  requires_recovery |-> "not null"]
WebhookSubscriptionsTable == [status |-> "not null", signal_refs |-> "not null"]
WebhookDeliveriesTable == [status |-> "not null", source_signal_ref |-> "not null",
                           idempotency_key |-> "null"]
ChatsTable == [instance_id |-> "not null", status |-> "not null", jid |-> "not null",
               label_ids |-> "not null"]
ContactsTable == [instance_id |-> "not null", status |-> "not null", jid |-> "not null"]
GroupsTable   == [instance_id |-> "not null", status |-> "not null", jid |-> "not null"]
GuardrailDecisionsTable == [evaluated_intent_ref |-> "not null", status |-> "not null"]
HealthStatusesTable == [subject_ref |-> "not null", category |-> "not null"]
AuditRecordsTable == [audit_category |-> "not null", status |-> "not null",
                      source_signal_ref |-> "null"]
LabelsTable == [instance_id |-> "not null", status |-> "not null"]
MediaAssetsTable == [status |-> "not null", message_id |-> "null",
                     cleanup_required |-> "not null"]

Tables ==
  [Instance |-> InstancesTable, WorkerJob |-> WorkerJobsTable, Message |-> MessagesTable,
   Session |-> SessionsTable, WebhookSubscription |-> WebhookSubscriptionsTable,
   WebhookDelivery |-> WebhookDeliveriesTable, Chat |-> ChatsTable,
   Contact |-> ContactsTable, Group |-> GroupsTable,
   GuardrailDecision |-> GuardrailDecisionsTable, HealthStatus |-> HealthStatusesTable,
   AuditRecord |-> AuditRecordsTable, Label |-> LabelsTable,
   MediaAsset |-> MediaAssetsTable]

-----------------------------------------------------------------------------
(* A save.  The side column is read by a SELECT first, and again by the     *)
(* upsert, which keeps what it finds: "stored" is what the row has when the *)
(* upsert runs, "read" is what the SELECT had seen.                         *)

\* Mutant: the upsert writes what the SELECT saw (EXCLUDED alone).
KeptFromSelect(stored, read) == read

Kept(stored, read) == IF stored # Null THEN stored ELSE read

\* What the SELECT may have seen of a value that is never taken back.
SideColumn(stored) == {Null, stored}

\* An undefined field is written as NULL.
Column(a, field) == IF field \in a.has THEN field ELSE Null

InstanceRow(a) == [status |-> a.status, current_session_id |-> Column(a, "currentSessionId"),
                   action_required_reason |-> Column(a, "actionRequiredReason")]
WorkerJobRow(a, side) == [status |-> a.status, owner_context |-> "ownerContext",
                          work_type |-> "workType", idempotency_key |-> side]
MessageRow(a, side) == [status |-> a.status, idempotency_key |-> side]
SessionRow(a) == [instance_id |-> "instanceId", status |-> a.status,
                  requires_recovery |-> "requiresRecovery" \in a.has]
\* signal_refs is '[]' when nothing was selected.
WebhookSubscriptionRow(a, side) == [status |-> a.status, signal_refs |-> {side} \ {Null}]
WebhookDeliveryRow(a, side) == [status |-> a.status, source_signal_ref |-> "sourceSignalRef",
                                idempotency_key |-> side]
ChatRow(a) == [instance_id |-> "instanceId", status |-> a.status, jid |-> "jid",
               label_ids |-> ToSet(a.items)]
ContactRow(a) == [instance_id |-> "instanceId", status |-> a.status, jid |-> "jid"]
GroupRow(a)   == [instance_id |-> "instanceId", status |-> a.status, jid |-> "jid"]
GuardrailDecisionRow(a) == [evaluated_intent_ref |-> "evaluatedIntentRef", status |-> a.status]
HealthStatusRow(a) == [subject_ref |-> "subjectRef", category |-> a.status]
AuditRecordRow(a, side) == [audit_category |-> "auditCategory", status |-> a.status,
                            source_signal_ref |-> side]
LabelRow(a) == [instance_id |-> "instanceId", status |-> a.status]
MediaAssetRow(a, side) == [status |-> a.status, message_id |-> Column(a, "messageId"),
                           cleanup_required |-> side # Null]

Row(a, side) ==
  CASE a.kind = "Instance"            -> InstanceRow(a)
    [] a.kind = "WorkerJob"           -> WorkerJobRow(a, side)
    [] a.kind = "Message"             -> MessageRow(a, side)
    [] a.kind = "Session"             -> SessionRow(a)
    [] a.kind = "WebhookSubscription" -> WebhookSubscriptionRow(a, side)
    [] a.kind = "WebhookDelivery"     -> WebhookDeliveryRow(a, side)
    [] a.kind = "Chat"                -> ChatRow(a)
    [] a.kind = "Contact"             -> ContactRow(a)
    [] a.kind = "Group"               -> GroupRow(a)
    [] a.kind = "GuardrailDecision"   -> GuardrailDecisionRow(a)
    [] a.kind = "HealthStatus"        -> HealthStatusRow(a)
    [] a.kind = "AuditRecord"         -> AuditRecordRow(a, side)
    [] a.kind = "Label"               -> LabelRow(a)
    [] a.kind = "MediaAsset"          -> MediaAssetRow(a, side)

\* What a column may hold: a status, a name that stands for the value of its
\* attribute, a flag or a list.
RowStatuses ==
  UNION {DOMAIN InstanceTransitions, DOMAIN SessionTransitions, DOMAIN MessageTransitions,
         DOMAIN MediaAssetTransitions, DOMAIN GroupTransitions,
         DOMAIN WebhookSubscriptionTransitions, DOMAIN WebhookDeliveryTransitions,
         DOMAIN WorkerJobTransitions, DOMAIN GuardrailDecisionTransitions,
         DOMAIN AuditRecordTransitions, ChatStatuses, {"discovered"} \cup ContactChanges,
         {"active"} \cup LabelChanges,
         {"unknown", "healthy", "degraded", "unavailable", "action_required", "recovered"}}
RowNames == {"instanceId", "jid", "ownerContext", "workType", "sourceSignalRef",
             "evaluatedIntentRef", "subjectRef", "auditCategory", "messageId", "recorded"}

\* NULL is none of them.
ASSUME NullIsNoValue ==
  /\ \A v \in RowStatuses \cup RowNames : v # Null
  /\ \A flag \in BOOLEAN : flag # Null
  /\ {} # Null /\ {"recorded"} # Null
  /\ \A labels \in SUBSET LabelIds : labels # Null

-----------------------------------------------------------------------------
(* A load: the aggregate column, field by field for six kinds, and as it is *)
(* for the others.                                                         *)

Fields(a, names) ==
  [New(a.kind, a.status, a.has \cap names) EXCEPT
     !.events = a.events, !.news = a.news, !.was = a.was]

DecodeInstance(a) == Fields(a, {"currentSessionId", "actionRequiredReason"})
DecodeSession(a)  == Fields(a, {"requiresRecovery", "retentionPolicy"})
DecodeMessage(a) ==
  Fields(a, {"outbound", "inbound", "guardrailDecisionId", "mediaId", "failureCategory",
             "retentionPolicy"})
DecodeWebhookSubscription(a) == Fields(a, {})

\* createAttemptNumber refuses an attempt the policy does not have.
Numbered(a, n) == IF n > MaxAttempts THEN Throws ELSE Attempted(a, n)

DecodeWebhookDelivery(a) ==
  Numbered(Fields(a, {"failureCategory", "deadLetterReason"}), a.attempt)
DecodeWorkerJob(a) ==
  Numbered(Fields(a, {"failureCategory", "deadLetterReason", "recoveryActionRequired"}),
           a.attempt)

Decode(a) ==
  CASE a.kind = "Instance"            -> DecodeInstance(a)
    [] a.kind = "Session"             -> DecodeSession(a)
    [] a.kind = "Message"             -> DecodeMessage(a)
    [] a.kind = "WebhookSubscription" -> DecodeWebhookSubscription(a)
    [] a.kind = "WebhookDelivery"     -> DecodeWebhookDelivery(a)
    [] a.kind = "WorkerJob"           -> DecodeWorkerJob(a)
    [] OTHER                          -> a

-----------------------------------------------------------------------------
(* The finders of PostgreSQL: their WHERE clauses over a row.              *)

RowOfStatus(row) == When(TRUE, "findByStatus", row.status)
RowOfInstance(row) == When(TRUE, "findByInstance", row.instance_id)
RowOfJid(row) == When(TRUE, "findByJid", row.jid)
RowOfKey(row) ==
  When(row.idempotency_key # Null, "findByIdempotencyKey", row.idempotency_key)

SelectsInstance(row) ==
  RowOfStatus(row) \cup When(row.status # "destroyed", "findNonTerminal", "")
                   \cup When(TRUE, "getCurrentSessionId", row.current_session_id)
SelectsSession(row) ==
  RowOfInstance(row) \cup When(TRUE, "findByStatusForInstance", <<row.instance_id, row.status>>)
                     \cup When(row.requires_recovery, "findRecoveryRequired", "")
SelectsMessage(row) ==
  RowOfStatus(row) \cup RowOfKey(row)
    \cup When(row.status \in {"queued", "processing", "failed"},
              "findRecoverableByOwner", "messaging")
SelectsWorkerJob(row) ==
  RowOfStatus(row) \cup RowOfKey(row) \cup When(TRUE, "findByOwnerContext", row.owner_context)
SelectsWebhookSubscription(row) ==
  RowOfStatus(row)
    \cup UNION {When(row.status = "active", "findActiveForSignal", s) : s \in row.signal_refs}
SelectsWebhookDelivery(row) ==
  RowOfStatus(row) \cup RowOfKey(row)
                   \cup When(TRUE, "findBySourceSignal", row.source_signal_ref)
SelectsChat(row) ==
  RowOfInstance(row) \cup RowOfStatus(row) \cup RowOfJid(row)
    \cup UNION {When(TRUE, "findByLabel", l) : l \in row.label_ids}
SelectsContact(row) == RowOfInstance(row) \cup RowOfStatus(row) \cup RowOfJid(row)
SelectsGroup(row)   == RowOfInstance(row) \cup RowOfStatus(row) \cup RowOfJid(row)
SelectsLabel(row)   == RowOfInstance(row) \cup RowOfStatus(row)
SelectsMediaAsset(row) ==
  RowOfStatus(row)
    \cup When(row.cleanup_required /\ row.status # "cleaned", "findRequiringCleanup", "")
    \cup When(row.message_id # Null, "findByMessage", row.message_id)
SelectsGuardrailDecision(row) == When(TRUE, "findByEvaluatedIntent", row.evaluated_intent_ref)
SelectsHealthStatus(row) ==
  When(TRUE, "findBySubject", row.subject_ref) \cup When(TRUE, "findByCategory", row.category)
SelectsAuditRecord(row) ==
  When(row.source_signal_ref # Null, "findBySourceSignal", row.source_signal_ref)
    \cup When(row.status = "retention_expired", "findRetentionExpired", "")

Selects(kind, row) ==
  CASE kind = "Instance"            -> SelectsInstance(row)
    [] kind = "Session"             -> SelectsSession(row)
    [] kind = "Message"             -> SelectsMessage(row)
    [] kind = "WorkerJob"           -> SelectsWorkerJob(row)
    [] kind = "WebhookSubscription" -> SelectsWebhookSubscription(row)
    [] kind = "WebhookDelivery"     -> SelectsWebhookDelivery(row)
    [] kind = "Chat"                -> SelectsChat(row)
    [] kind = "Contact"             -> SelectsContact(row)
    [] kind = "Group"               -> SelectsGroup(row)
    [] kind = "Label"               -> SelectsLabel(row)
    [] kind = "MediaAsset"          -> SelectsMediaAsset(row)
    [] kind = "GuardrailDecision"   -> SelectsGuardrailDecision(row)
    [] kind = "HealthStatus"        -> SelectsHealthStatus(row)
    [] kind = "AuditRecord"         -> SelectsAuditRecord(row)

-----------------------------------------------------------------------------
(* The finders of the in-memory repositories: predicates over the aggregate *)
(* itself, and over the maps the record calls fill.                        *)

OfStatus(a) == When(TRUE, "findByStatus", a.status)
OfInstance(a) == When(TRUE, "findByInstance", "instanceId")
OfJid(a) == When(TRUE, "findByJid", "jid")
OfKey(side) == When(side # Null, "findByIdempotencyKey", side)

FiltersInstance(a) ==
  OfStatus(a) \cup When(a.status # "destroyed", "findNonTerminal", "")
    \cup When(TRUE, "getCurrentSessionId",
              IF "currentSessionId" \in a.has THEN "currentSessionId" ELSE Null)
FiltersSession(a) ==
  OfInstance(a) \cup When(TRUE, "findByStatusForInstance", <<"instanceId", a.status>>)
                \cup When("requiresRecovery" \in a.has, "findRecoveryRequired", "")
FiltersMessage(a, side) ==
  OfStatus(a) \cup OfKey(side)
    \cup When(a.status \in {"queued", "processing", "failed"},
              "findRecoverableByOwner", "messaging")
FiltersWorkerJob(a, side) ==
  OfStatus(a) \cup OfKey(side) \cup When(TRUE, "findByOwnerContext", "ownerContext")
FiltersWebhookSubscription(a, side) ==
  OfStatus(a) \cup When(a.status = "active" /\ side # Null, "findActiveForSignal", side)
FiltersWebhookDelivery(a, side) ==
  OfStatus(a) \cup OfKey(side) \cup When(TRUE, "findBySourceSignal", "sourceSignalRef")
FiltersChat(a) ==
  OfInstance(a) \cup OfStatus(a) \cup OfJid(a)
    \cup UNION {When(TRUE, "findByLabel", l) : l \in ToSet(a.items)}
FiltersContact(a) == OfInstance(a) \cup OfStatus(a) \cup OfJid(a)
FiltersGroup(a)   == OfInstance(a) \cup OfStatus(a) \cup OfJid(a)
FiltersLabel(a)   == OfInstance(a) \cup OfStatus(a)
FiltersMediaAsset(a, side) ==
  OfStatus(a)
    \cup When(a.status # "cleaned" /\ side # Null, "findRequiringCleanup", "")
    \cup When("messageId" \in a.has, "findByMessage", "messageId")
FiltersGuardrailDecision(a) == When(TRUE, "findByEvaluatedIntent", "evaluatedIntentRef")
FiltersHealthStatus(a) ==
  When(TRUE, "findBySubject", "subjectRef") \cup When(TRUE, "findByCategory", a.status)
FiltersAuditRecord(a, side) ==
  When(side # Null, "findBySourceSignal", side)
    \cup When(a.status = "retention_expired", "findRetentionExpired", "")

Filters(a, side) ==
  CASE a.kind = "Instance"            -> FiltersInstance(a)
    [] a.kind = "Session"             -> FiltersSession(a)
    [] a.kind = "Message"             -> FiltersMessage(a, side)
    [] a.kind = "WorkerJob"           -> FiltersWorkerJob(a, side)
    [] a.kind = "WebhookSubscription" -> FiltersWebhookSubscription(a, side)
    [] a.kind = "WebhookDelivery"     -> FiltersWebhookDelivery(a, side)
    [] a.kind = "Chat"                -> FiltersChat(a)
    [] a.kind = "Contact"             -> FiltersContact(a)
    [] a.kind = "Group"               -> FiltersGroup(a)
    [] a.kind = "Label"               -> FiltersLabel(a)
    [] a.kind = "MediaAsset"          -> FiltersMediaAsset(a, side)
    [] a.kind = "GuardrailDecision"   -> FiltersGuardrailDecision(a)
    [] a.kind = "HealthStatus"        -> FiltersHealthStatus(a)
    [] a.kind = "AuditRecord"         -> FiltersAuditRecord(a, side)

-----------------------------------------------------------------------------
(* The JSON files filter their records as the in-memory repositories do; a  *)
(* side value is an entry of a named index in the same file, keyed by what  *)
(* was recorded or by the aggregate.                                       *)

IndexEntry(index, key, value) == [index |-> index, key |-> key, value |-> value]

JsonIndex(kind, side) ==
  IF side = Null THEN {}
  ELSE CASE kind \in {"Message", "WebhookDelivery", "WorkerJob"} ->
              {IndexEntry("idempotency", side, "id")}
         [] kind = "MediaAsset"          -> {IndexEntry("cleanupRequired", "id", "true")}
         [] kind = "WebhookSubscription" -> {IndexEntry("signalRefs", "id", side)}
         [] kind = "AuditRecord"         -> {IndexEntry("sourceSignal", "id", side)}
         [] OTHER -> {}

\* The side value a finder takes from the entries, for the aggregate "id".
JsonKey(entries) ==
  {e.key : e \in {f \in entries : f.index = "idempotency" /\ f.value = "id"}}
JsonCleanup(entries) == {"" : e \in {f \in entries : f.index = "cleanupRequired" /\ f.key = "id"}}
JsonSignals(entries) ==
  {e.value : e \in {f \in entries : f.index = "signalRefs" /\ f.key = "id"}}
JsonSource(entries) ==
  {e.value : e \in {f \in entries : f.index = "sourceSignal" /\ f.key = "id"}}

JsonFinds(a, entries) ==
  Filters(a, Null)
    \cup CASE a.kind \in {"Message", "WebhookDelivery", "WorkerJob"} ->
                {<<"findByIdempotencyKey", k>> : k \in JsonKey(entries)}
           [] a.kind = "MediaAsset" ->
                {<<"findRequiringCleanup", c>> : c \in
                   {d \in JsonCleanup(entries) : a.status # "cleaned"}}
           [] a.kind = "WebhookSubscription" ->
                {<<"findActiveForSignal", s>> : s \in
                   {r \in JsonSignals(entries) : a.status = "active"}}
           [] a.kind = "AuditRecord" ->
                {<<"findBySourceSignal", s>> : s \in JsonSource(entries)}
           [] OTHER -> {}
=============================================================================
