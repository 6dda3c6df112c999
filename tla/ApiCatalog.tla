----------------------------- MODULE ApiCatalog -----------------------------
(***************************************************************************)
(* What the HTTP API is made of: the routes, the commands and queries they *)
(* stand for, and what a credential needs for each.  Three tables of the   *)
(* code (routes, boundaries, scopes) and the dispatcher's registrations    *)
(* are kept by hand and have to agree; ApiAdmission runs requests over     *)
(* them.  Paths and bodies are left out: a route is known by what it asks  *)
(* for and by the kind of resource that its path names.                    *)
(***************************************************************************)
EXTENDS Naturals

CredentialKinds == {"api_key", "admin_key", "monitoring_key", "internal_runtime"}

-----------------------------------------------------------------------------
(* The routes: matchRoute, in its order.  "none" is a path without an id.  *)

Query(boundary, name, target) ==
  [kind |-> "query", boundary |-> boundary, name |-> name, target |-> target]
Command(boundary, name, target) ==
  [kind |-> "command", boundary |-> boundary, name |-> name, target |-> target]
\* A path that is known and answered 501.
Partial(name) ==
  [kind |-> "partial", boundary |-> "public", name |-> name, target |-> "none"]
KeyRoute(action, target) ==
  [kind |-> "api_key_lifecycle", boundary |-> "admin", name |-> action, target |-> target]

OperationsRoutes ==
  {Query("health", q, "none") : q \in {"GetHealthStatus", "GetActionRequiredItems"}}
  \cup {Query("public", "ListEvents", "none")}
  \cup {Query("monitoring", q, "none") : q \in
          {"GetOperationalMetricsSnapshot", "GetDashboardSummary", "GetQueueMetricsSnapshot",
           "GetMessageMetricsSnapshot", "GetWebhookMetricsSnapshot",
           "GetMediaMetricsSnapshot"}}
InstanceRoutes ==
  {Query("public", "ListInstances", "none"), Command("public", "CreateInstance", "none"),
   Query("public", "GetInstanceStatus", "instance"),
   Command("admin", "DestroyInstance", "instance"),
   Partial("reconnect_public_route_not_available")}
  \cup {Command("public", c, "instance") : c \in
          {"UpdateInstanceMetadata", "ConnectInstance", "DisconnectInstance",
           "RefreshQrPairing", "RefreshGroupList"}}
  \cup {Query("public", q, "instance") : q \in
          {"ListInstanceSessions", "ListInstanceMessages", "ListInstanceChats",
           "ListInstanceContacts", "ListInstanceLabels", "ListInstanceGroups"}}
MessageRoutes ==
  {Command("public", c, "instance") : c \in {"SendTextMessage", "SendMediaMessage"}}
  \cup {Query("public", q, "message") : q \in {"GetMessageStatus",
                                               "GetMessageDeliveryHistory"}}
  \cup {Command("public", c, "message") : c \in {"RetryMessageSend", "CancelMessage"}}
  \cup {Command("public", "RegisterMedia", "none"), Query("public", "GetMediaStatus", "media")}
DirectoryRoutes ==
  {Partial("global_chats_public_route_not_available"),
   Query("public", "GetChatStatus", "chat"),
   Partial("global_contacts_public_route_not_available"),
   Query("public", "GetContactStatus", "contact"),
   Query("public", "ListLabels", "none"), Query("public", "GetLabelStatus", "label")}
GroupRoutes ==
  {Query("public", q, "group") : q \in {"GetGroupStatus", "ListGroupMembers"}}
  \cup {Command("public", c, "group") : c \in
          {"UpdateGroupMetadata", "UpdateGroupLocalState", "SendGroupTextMessage",
           "AddGroupMember", "RemoveGroupMember", "PromoteGroupMember",
           "DemoteGroupMember", "RefreshGroupInviteLink"}}
WebhookRoutes ==
  {Query("public", "ListWebhookSubscriptions", "none"),
   Command("public", "RegisterWebhookSubscription", "none"),
   Query("public", "GetWebhookStatus", "webhook"),
   Query("public", "ListWebhookDeliveries", "none"),
   Command("public", "BulkRedriveWebhookDeliveries", "none"),
   Query("public", "GetWebhookDeliveryHistory", "delivery")}
  \cup {Command("public", c, "webhook") : c \in
          {"UpdateWebhookSubscription", "ActivateWebhookSubscription",
           "SuspendWebhookSubscription", "RetireWebhookSubscription"}}
  \cup {Command("public", c, "delivery") : c \in {"RetryWebhookDelivery",
                                                  "RedriveWebhookDelivery"}}
AdminRoutes ==
  {Query("monitoring", "ListWorkerJobs", "none"),
   Query("monitoring", "GetWorkerJobStatus", "job"),
   Query("admin", "GetProviderCapabilityStatus", "none"),
   Partial("provider_refresh_public_route_not_available"),
   Query("admin", "GetConfigurationStatus", "none"),
   Command("admin", "ValidateConfigurationSnapshot", "none"),
   Command("admin", "ActivateConfigurationSnapshot", "none"),
   Query("admin", "QueryAuditRecords", "none")}
KeyRoutes == {KeyRoute("list", "none"), KeyRoute("provision", "none"),
              KeyRoute("revoke", "api_key"), KeyRoute("rotate", "api_key")}

\* The event stream has a handler of its own; a URL may be malformed, or no route.
EventStream == [kind |-> "event_stream", boundary |-> "public", name |-> "ListEvents",
                target |-> "none"]
BadUrl == [kind |-> "bad_url", boundary |-> "public", name |-> "none", target |-> "none"]
NotFound == [kind |-> "not_found", boundary |-> "public", name |-> "none",
             target |-> "none"]

AdapterRoutes == OperationsRoutes \cup InstanceRoutes \cup MessageRoutes \cup DirectoryRoutes
                 \cup GroupRoutes \cup WebhookRoutes \cup AdminRoutes
Routes == AdapterRoutes \cup KeyRoutes \cup {EventStream, BadUrl, NotFound}

-----------------------------------------------------------------------------
(* Commands: what triggers them, and what the dispatcher has handlers for. *)

SchedulerCommands ==
  {"ReconnectInstance", "CleanupMediaRetention", "EvaluateProviderCompatibility",
   "RefreshProviderCapability", "RefreshHealthStatus"}
RuntimeCommands ==
  {"StartQrPairing", "ConfirmSessionActivated", "MarkInstanceLoggedOut",
   "EvaluateOutboundGuardrails", "ProcessOutboundMessageWork", "ApplyProviderMessageStatus",
   "ReceiveInboundMessage", "ClassifyUnsupportedInboundMessage", "ProcessMediaWork",
   "AttachMediaToMessageWorkflow", "ScheduleWebhookDelivery", "DeliverWebhookWork",
   "MoveWebhookDeliveryToDeadLetter", "HandleProviderConnectionSignal",
   "HandleProviderAuthSignal", "HandleProviderMessageSignal", "HandleProviderFailureSignal",
   "QueueAsyncWork", "ReserveWorkerJob", "CompleteWorkerJob", "MarkWorkerJobRetryOrDead",
   "EvaluateAccessDecision", "RecordAuditEvidence", "CaptureTelemetrySignal"}
AdministrationCommands ==
  {"DestroyInstance", "RequestDiagnosticCapture", "ValidateConfigurationSnapshot",
   "ActivateConfigurationSnapshot"}
GroupMutationCommands ==
  {"UpdateGroupMetadata", "UpdateGroupLocalState", "AddGroupMember", "RemoveGroupMember",
   "PromoteGroupMember", "DemoteGroupMember"}
\* Commands answered 202 whatever became of them.
AsyncCommands ==
  {"ConnectInstance", "SendTextMessage", "SendMediaMessage", "RetryMessageSend",
   "RegisterMedia", "RefreshGroupList", "SendGroupTextMessage", "RefreshGroupInviteLink",
   "RetryWebhookDelivery", "RedriveWebhookDelivery", "BulkRedriveWebhookDeliveries"}
  \cup GroupMutationCommands
\* Commands that need an idempotency key: all that a route reaches but these.
UnkeyedCommands == {"UpdateInstanceMetadata", "DisconnectInstance", "DestroyInstance"}

\* What the handlers are made of: without one of its parts a command has no handler.
SendParts == {"sessionRepository", "messageRepository", "guardrailDecisionRepository",
              "outboundMessageIntentStore", "queueProvider", "domainEventPublisher"}
RetrySendParts == SendParts
CancelParts == {"messageRepository", "domainEventPublisher"}
ProcessParts == {"sessionRepository", "messageRepository", "outboundMessageIntentStore",
                 "messagingProvider", "domainEventPublisher"}
DeliveryParts == {"webhookDeliveryRepository", "queueProvider"}
GroupMutationParts == {"groupRepository", "groupMutationIntentStore", "domainEventPublisher"}

Parts(command) ==
  CASE command = "SendTextMessage"            -> SendParts
    [] command = "RetryMessageSend"           -> RetrySendParts
    [] command = "CancelMessage"              -> CancelParts
    [] command = "ProcessOutboundMessageWork" -> ProcessParts
    [] command \in GroupMutationCommands      -> GroupMutationParts
    [] command \in {"RetryWebhookDelivery", "RedriveWebhookDelivery",
                    "BulkRedriveWebhookDeliveries"} -> DeliveryParts
    [] command \in {"CreateInstance", "DestroyInstance"} -> {}

\* What the API gives its dispatcher; it sends messages only with a bridge.
ApiParts == SendParts \cup DeliveryParts \cup GroupMutationParts

HandledCommands ==
  {command \in GroupMutationCommands \cup
     {"CreateInstance", "DestroyInstance", "SendTextMessage", "RetryMessageSend",
      "CancelMessage", "ProcessOutboundMessageWork", "RetryWebhookDelivery",
      "RedriveWebhookDelivery", "BulkRedriveWebhookDeliveries"} :
     Parts(command) \subseteq ApiParts}
UnhandledQueries ==
  {"GetActionRequiredItems", "GetOperationalMetricsSnapshot", "GetDashboardSummary",
   "GetMessageMetricsSnapshot", "GetWebhookMetricsSnapshot", "GetMediaMetricsSnapshot",
   "ListInstanceLabels", "GetMessageDeliveryHistory", "GetMediaStatus", "ListLabels",
   "GetLabelStatus", "GetProviderCapabilityStatus", "GetConfigurationStatus",
   "QueryAuditRecords"}

\* Queries that take filters, sorting and a page, and refuse what they do not know.
Collections ==
  {"ListInstances", "ListInstanceSessions", "ListInstanceMessages", "ListInstanceChats",
   "ListInstanceContacts", "ListLabels", "ListInstanceLabels", "ListInstanceGroups",
   "ListGroupMembers", "ListEvents", "ListWorkerJobs", "ListWebhookSubscriptions",
   "ListWebhookDeliveries", "QueryAuditRecords"}
TakesInput(route) == \/ route.kind = "command"
                     \/ route.kind = "query" /\ route.name \in Collections
                     \/ route.kind = "api_key_lifecycle" /\ route.name # "list"

IsHandled(route) == IF route.kind = "command" THEN route.name \in HandledCommands
                                              ELSE route.name \notin UnhandledQueries

-----------------------------------------------------------------------------
(* Authorisation: kinds of credential, boundaries and scopes.              *)

KindsAllowedAt(boundary) ==
  CASE boundary = "public"           -> {"api_key", "admin_key"}
    [] boundary = "admin"            -> {"admin_key"}
    [] boundary = "health"           -> {"api_key", "admin_key", "monitoring_key"}
    [] boundary = "monitoring"       -> {"admin_key", "monitoring_key"}
    [] boundary = "internal_runtime" -> {"internal_runtime"}

IsProduct(command) ==
  command \notin SchedulerCommands \cup RuntimeCommands \cup AdministrationCommands

BoundaryAllowsCommand(boundary, command) ==
  \/ boundary = "public" /\ IsProduct(command)
  \/ boundary = "admin" /\ (IsProduct(command) \/ command \in AdministrationCommands)
  \/ boundary = "internal_runtime" /\ command \in SchedulerCommands \cup RuntimeCommands

HealthQueries == {"GetHealthStatus", "GetActionRequiredItems"}
MonitoringQueries ==
  HealthQueries \cup
  {"GetOperationalMetricsSnapshot", "GetQueueMetricsSnapshot", "GetWebhookMetricsSnapshot",
   "GetMessageMetricsSnapshot", "GetMediaMetricsSnapshot", "GetWorkerJobStatus",
   "GetDashboardSummary", "ListWorkerJobs"}
PublicQueries ==
  {"GetInstanceStatus", "ListInstances", "ListInstanceSessions", "GetMessageStatus",
   "GetMessageDeliveryHistory", "ListInstanceMessages", "ListChats", "ListInstanceChats",
   "GetChatStatus", "ListContacts", "ListInstanceContacts", "GetContactStatus",
   "ListLabels", "ListInstanceLabels", "GetLabelStatus", "ListInstanceGroups",
   "GetGroupStatus", "ListGroupMembers", "GetMediaStatus", "GetWebhookStatus",
   "GetWebhookDeliveryHistory", "ListWebhookSubscriptions", "ListWebhookDeliveries",
   "ListEvents"}

BoundaryAllowsQuery(boundary, query) ==
  \/ boundary = "public" /\ query \in PublicQueries
  \/ boundary = "admin"
  \/ boundary = "health" /\ query \in HealthQueries
  \/ boundary = "monitoring" /\ query \in MonitoringQueries

BoundaryAllows(route) ==
  IF route.kind = "command" THEN BoundaryAllowsCommand(route.boundary, route.name)
                            ELSE BoundaryAllowsQuery(route.boundary, route.name)

\* The names that each scope is required for.
NamesUnder ==
  [scope \in {"instances:write", "instances:connect", "instances:destroy", "messages:send",
              "groups:message", "messages:retry", "messages:cancel", "media:write",
              "groups:write", "groups:admin", "webhooks:write", "webhooks:retry",
              "webhooks:redrive", "config:write", "instances:read", "messages:read",
              "chats:read", "contacts:read", "labels:read", "groups:read", "media:read",
              "webhooks:read", "health:read", "events:read", "audit:read", "config:read",
              "metrics:read", "jobs:read", "provider:read"} |->
   CASE scope = "instances:write"   -> {"CreateInstance", "UpdateInstanceMetadata"}
     [] scope = "instances:connect" -> {"ConnectInstance", "RefreshQrPairing",
                                        "DisconnectInstance", "ReconnectInstance"}
     [] scope = "instances:destroy" -> {"DestroyInstance"}
     [] scope = "messages:send"     -> {"SendTextMessage", "SendMediaMessage"}
     [] scope = "groups:message"    -> {"SendGroupTextMessage"}
     [] scope = "messages:retry"    -> {"RetryMessageSend"}
     [] scope = "messages:cancel"   -> {"CancelMessage"}
     [] scope = "media:write"       -> {"RegisterMedia"}
     [] scope = "groups:write"      -> {"RefreshGroupList", "UpdateGroupMetadata",
                                        "UpdateGroupLocalState"}
     [] scope = "groups:admin"      -> {"AddGroupMember", "RemoveGroupMember",
                                        "PromoteGroupMember", "DemoteGroupMember",
                                        "RefreshGroupInviteLink"}
     [] scope = "webhooks:write"    -> {"RegisterWebhookSubscription",
                                        "UpdateWebhookSubscription",
                                        "ActivateWebhookSubscription",
                                        "SuspendWebhookSubscription",
                                        "RetireWebhookSubscription"}
     [] scope = "webhooks:retry"    -> {"RetryWebhookDelivery"}
     [] scope = "webhooks:redrive"  -> {"RedriveWebhookDelivery",
                                        "BulkRedriveWebhookDeliveries"}
     [] scope = "config:write"      -> {"ValidateConfigurationSnapshot",
                                        "ActivateConfigurationSnapshot"}
     [] scope = "instances:read"    -> {"GetInstanceStatus", "ListInstances",
                                        "ListInstanceSessions"}
     [] scope = "messages:read"     -> {"GetMessageStatus", "GetMessageDeliveryHistory",
                                        "ListInstanceMessages"}
     [] scope = "chats:read"        -> {"ListChats", "ListInstanceChats", "GetChatStatus"}
     [] scope = "contacts:read"     -> {"ListContacts", "ListInstanceContacts",
                                        "GetContactStatus"}
     [] scope = "labels:read"       -> {"ListLabels", "ListInstanceLabels",
                                        "GetLabelStatus"}
     [] scope = "groups:read"       -> {"ListInstanceGroups", "GetGroupStatus",
                                        "ListGroupMembers"}
     [] scope = "media:read"        -> {"GetMediaStatus"}
     [] scope = "webhooks:read"     -> {"GetWebhookStatus", "GetWebhookDeliveryHistory",
                                        "ListWebhookSubscriptions",
                                        "ListWebhookDeliveries"}
     [] scope = "health:read"       -> HealthQueries
     [] scope = "events:read"       -> {"ListEvents"}
     [] scope = "audit:read"        -> {"QueryAuditRecords"}
     [] scope = "config:read"       -> {"GetConfigurationStatus"}
     [] scope = "metrics:read"      -> {"GetOperationalMetricsSnapshot",
                                        "GetDashboardSummary", "GetQueueMetricsSnapshot",
                                        "GetWebhookMetricsSnapshot",
                                        "GetMessageMetricsSnapshot",
                                        "GetMediaMetricsSnapshot"}
     [] scope = "jobs:read"         -> {"GetWorkerJobStatus", "ListWorkerJobs"}
     [] scope = "provider:read"     -> {"EvaluateProviderCompatibility",
                                        "GetProviderCapabilityStatus"}]

\* What a request needs besides being signed: "admin:*" stands for every scope.
HasScope(scopes, name) ==
  "admin:*" \in scopes \/ \E s \in scopes \cap DOMAIN NamesUnder : name \in NamesUnder[s]

GroupScope(command) == IF command \in {"UpdateGroupMetadata", "UpdateGroupLocalState"}
                       THEN "groups:write" ELSE "groups:admin"

\* What a credential bound to instances may not ask for: it belongs to no instance.
UnownedNames ==
  {"ListEvents", "ListWorkerJobs", "QueryAuditRecords", "GetProviderCapabilityStatus",
   "GetConfigurationStatus", "ValidateConfigurationSnapshot",
   "ActivateConfigurationSnapshot", "ListWebhookSubscriptions", "ListWebhookDeliveries",
   "RegisterWebhookSubscription", "BulkRedriveWebhookDeliveries",
   "GetOperationalMetricsSnapshot", "GetQueueMetricsSnapshot",
   "GetWebhookMetricsSnapshot"}

\* Resources the resolver can find the instance of.
OwnedTypes == {"instance", "session", "message", "media", "chat", "contact", "label",
               "group", "job"}

-----------------------------------------------------------------------------
(* Rate limits are kept by class of endpoint.                              *)

SendCommands == {"SendTextMessage", "SendMediaMessage", "RetryMessageSend",
                 "CancelMessage", "SendGroupTextMessage"}
EndpointClass(route) ==
  CASE route.kind = "event_stream" -> "event_stream"
    [] \/ route.kind = "api_key_lifecycle"
       \/ route.name \in {"GetConfigurationStatus", "ValidateConfigurationSnapshot",
                          "ActivateConfigurationSnapshot", "QueryAuditRecords"} -> "admin"
    [] route.name \in SendCommands -> "message_send"
    [] route.kind = "query" -> "read"
    [] OTHER -> "write"
=============================================================================
