--------------------------- MODULE DomainAggregates ---------------------------
(***************************************************************************)
(* The aggregates of the domain library (packages/domain): one operator for *)
(* each function it exports, from the aggregate to what the call returns,   *)
(* or Throws.  An aggregate is immutable; what a call leaves alone it       *)
(* copies.                                                                 *)
(*                                                                         *)
(* Optional fields and flags are the set "has" of those that are present or *)
(* true: the value behind one is told apart only where a rule looks at it.  *)
(* "events" are the names of the events appended before the last one,       *)
(* "news" is the last, and "was" the statuses before this one.             *)
(***************************************************************************)
EXTENDS Naturals, Sequences, SequencesExt

CONSTANTS
  Jids,         \* who can be a member of a group
  LabelIds,     \* labels of a chat
  MaxAttempts,  \* retryPolicy.maxAttempts
  Null          \* a value that is not there

ASSUME DomainBounds == MaxAttempts \in Nat \ {0}

NoEvent == "none"

New(kind, status, has) ==
  [kind |-> kind, status |-> status, has |-> has, items |-> << >>, attempt |-> 0,
   events |-> {}, news |-> NoEvent, was |-> {}]

\* A call that throws leaves its caller the aggregate it had; it is also what
\* stands for an aggregate a policy is not given.
Throws == New("none", "none", {})

Emit(a, event) == [a EXCEPT !.events = @ \cup ({a.news} \ {NoEvent}), !.news = event]

Noting(a, event) == IF event = NoEvent THEN a ELSE Emit(a, event)

\* A status may always be "changed" to itself, and the event is appended again.
Transition(a, next, transitions, event, sets, clears) ==
  IF next = a.status \/ next \in transitions[a.status]
  THEN Noting([a EXCEPT !.status = next, !.was = @ \cup {a.status},
                        !.has = (@ \ clears) \cup sets], event)
  ELSE Throws

-----------------------------------------------------------------------------
(* Instance.                                                               *)

InstanceTransitions ==
  LET Left == {"disconnected", "logged_out", "action_required", "destroyed"} IN
  [created         |-> {"connecting", "destroyed"},
   connecting      |-> {"qr_pending", "connected"} \cup Left,
   qr_pending      |-> {"connected"} \cup Left,
   connected       |-> Left,
   disconnected    |-> {"connecting", "connected"} \cup (Left \ {"disconnected"}),
   logged_out      |-> {"connecting", "action_required", "destroyed"},
   action_required |-> {"connecting", "disconnected", "logged_out", "destroyed"},
   destroyed       |-> {}]

TransitionInstance(a, next, event, sets, clears) ==
  Transition(a, next, InstanceTransitions, event, sets, clears)

CreateInstance == Emit(New("Instance", "created", {}), "InstanceCreated")
MarkInstanceConnecting(a) == TransitionInstance(a, "connecting", NoEvent, {}, {})
MarkInstanceQrPending(a) ==
  TransitionInstance(a, "qr_pending", "InstanceQrRequired", {}, {})

\* Mutant: an action that was required stays required.
MarkInstanceConnectedKeepsReason(a) ==
  TransitionInstance(a, "connected", "InstanceConnected", {"currentSessionId"}, {})

MarkInstanceConnected(a) ==
  TransitionInstance(a, "connected", "InstanceConnected",
                     {"currentSessionId"}, {"actionRequiredReason"})
MarkInstanceDisconnected(a) ==
  TransitionInstance(a, "disconnected", "InstanceDisconnected", {}, {"currentSessionId"})
MarkInstanceLoggedOut(a) ==
  TransitionInstance(a, "logged_out", "InstanceLoggedOut",
                     {"actionRequiredReason"}, {"currentSessionId"})
RequireInstanceAction(a) ==
  TransitionInstance(a, "action_required", "InstanceActionRequired",
                     {"actionRequiredReason"}, {})
DestroyInstance(a) ==
  TransitionInstance(a, "destroyed", "InstanceDestroyed", {}, {"currentSessionId"})

-----------------------------------------------------------------------------
(* Session.                                                                *)

SessionTransitions ==
  [empty   |-> {"pending", "cleanup"},
   pending |-> {"active", "expired", "revoked", "cleanup"},
   active  |-> {"expired", "revoked", "cleanup"},
   expired |-> {"pending", "revoked", "cleanup"},
   revoked |-> {"cleanup"},
   cleanup |-> {}]

TransitionSession(a, next, event, sets, clears) ==
  Transition(a, next, SessionTransitions, event, sets, clears)

CreateSession == New("Session", "empty", {})
StartSessionPairing(a) ==
  TransitionSession(a, "pending", "SessionPairingStarted", {}, {"requiresRecovery"})
MarkSessionPending(a) == TransitionSession(a, "pending", "SessionPending", {}, {})
ActivateSession(a) ==
  TransitionSession(a, "active", "SessionActivated", {}, {"requiresRecovery"})
ExpireSession(a) ==
  TransitionSession(a, "expired", "SessionExpired", {"requiresRecovery"}, {})
RevokeSession(a) ==
  TransitionSession(a, "revoked", "SessionRevoked", {"requiresRecovery"}, {})
RequireSessionRecovery(a) ==
  Emit([a EXCEPT !.has = @ \cup {"requiresRecovery"}], "SessionRecoveryRequired")
CleanupSession(a, policy) ==
  TransitionSession(a, "cleanup", "SessionCleaned", policy, {"retentionPolicy"})
IsSessionSendCapable(a) == a.status = "active"

-----------------------------------------------------------------------------
(* Message.                                                                *)

MessageTransitions ==
  [created    |-> {"evaluated", "failed", "cancelled"},
   evaluated  |-> {"queued", "failed", "cancelled"},
   queued     |-> {"processing", "failed", "cancelled"},
   processing |-> {"sent", "delivered", "read", "failed", "cancelled"},
   sent       |-> {"delivered", "read", "failed"},
   delivered  |-> {"read"},
   read       |-> {}, failed |-> {}, cancelled |-> {}]

TransitionMessage(a, next, event, sets) ==
  Transition(a, next, MessageTransitions, event, sets, {})

CreateOutboundMessageIntent == New("Message", "created", {"outbound"})
CreateInboundMessage ==
  Emit(New("Message", "created", {"inbound"}), "InboundMessageReceived")
AcceptMessage(a) ==
  IF "outbound" \in a.has
  THEN TransitionMessage(a, "evaluated", "MessageAccepted", {"guardrailDecisionId"})
  ELSE Throws
RejectMessage(a) ==
  TransitionMessage(a, "failed", "MessageRejected", {"failureCategory"})
QueueMessage(a) ==
  IF "outbound" \in a.has /\ "guardrailDecisionId" \notin a.has THEN Throws
  ELSE TransitionMessage(a, "queued", "MessageQueued", {})
MarkMessageProcessing(a) ==
  TransitionMessage(a, "processing", "MessageProcessingStarted", {})
MarkMessageSent(a) == TransitionMessage(a, "sent", "MessageDispatched", {})
MarkMessageDelivered(a) == TransitionMessage(a, "delivered", "MessageDelivered", {})
MarkMessageRead(a) == TransitionMessage(a, "read", "MessageRead", {})
FailMessage(a) == TransitionMessage(a, "failed", "MessageFailed", {"failureCategory"})
CancelMessage(a) == TransitionMessage(a, "cancelled", "MessageCancelled", {})

-----------------------------------------------------------------------------
(* MediaAsset.                                                             *)

MediaAssetTransitions ==
  [received   |-> {"accepted", "failed", "cleaned"},
   accepted   |-> {"processing", "failed", "cleaned"},
   processing |-> {"processed", "failed", "cleaned"},
   processed  |-> {"attached", "failed", "cleaned"},
   attached   |-> {"cleaned"}, failed |-> {"cleaned"}, cleaned |-> {}]

TransitionMediaAsset(a, next, event, sets) ==
  Transition(a, next, MediaAssetTransitions, event, sets, {})

CreateMediaAsset == New("MediaAsset", "received", {})
AcceptMediaAsset(a) == TransitionMediaAsset(a, "accepted", "MediaAccepted", {})
MarkMediaProcessing(a) ==
  TransitionMediaAsset(a, "processing", "MediaProcessingStarted", {})
MarkMediaProcessed(a) == TransitionMediaAsset(a, "processed", "MediaProcessed", {})
AttachMediaAsset(a) ==
  TransitionMediaAsset(a, "attached", "MediaAttached", {"messageId"})
FailMediaAsset(a) ==
  TransitionMediaAsset(a, "failed", "MediaFailed", {"failureCategory"})
CleanMediaAsset(a) == TransitionMediaAsset(a, "cleaned", "MediaCleaned", {})
RequestDiagnosticCapture(a) ==
  IF a.status = "cleaned" THEN Throws
  ELSE Emit([a EXCEPT !.has = @ \cup {"diagnosticCapture"}], "DiagnosticCaptureRequested")

-----------------------------------------------------------------------------
(* Group: items are its members, each [jid, role].                         *)

Roles == {"owner", "admin", "member"}

GroupTransitions ==
  [discovered |-> {"active", "left", "deleted"},
   active     |-> {"left", "deleted"},
   left       |-> {"active", "deleted"},
   deleted    |-> {}]

TransitionGroup(a, next) ==
  Transition(a, next, GroupTransitions, "GroupStatusUpdated", {}, {})

Unique(s, Key(_)) == \A i, j \in DOMAIN s : Key(s[i]) = Key(s[j]) => i = j
JidOf(m) == m.jid

CreateGroup(members) ==
  IF ~Unique(members, JidOf) THEN Throws
  ELSE Emit([New("Group", "discovered", {}) EXCEPT !.items = members], "GroupDiscovered")
ActivateGroup(a) == TransitionGroup(a, "active")
MarkGroupLeft(a) == TransitionGroup(a, "left")
DeleteGroup(a)   == TransitionGroup(a, "deleted")

Owners(a)      == {m.jid : m \in {n \in ToSet(a.items) : n.role = "owner"}}
IsMember(a, j) == \E m \in ToSet(a.items) : m.jid = j
MemberMay(a, j) == a.status = "active" /\ IsMember(a, j) /\ j \notin Owners(a)

\* Every change of an active group is appended to its actions as well.
PatchGroup(a, items, event) == Emit([a EXCEPT !.items = items], event)

UpdateGroupMetadata(a) ==
  IF a.status # "active" THEN Throws ELSE PatchGroup(a, a.items, "GroupMetadataUpdated")
AddGroupMember(a, j, role) ==
  IF a.status # "active" \/ IsMember(a, j) THEN Throws
  ELSE PatchGroup(a, Append(a.items, [jid |-> j, role |-> role]), "GroupMemberAdded")
\* Nobody is a member twice (createGroup, addGroupMember): one entry goes.
RemoveGroupMember(a, j) ==
  LET at == CHOOSE i \in DOMAIN a.items : a.items[i].jid = j IN
  IF ~MemberMay(a, j) THEN Throws
  ELSE PatchGroup(a, RemoveAt(a.items, at), "GroupMemberRemoved")
ReplaceMemberRole(a, j, role) ==
  LET Changed(m) == IF m.jid = j THEN [m EXCEPT !.role = role] ELSE m IN
  PatchGroup(a, [i \in DOMAIN a.items |-> Changed(a.items[i])], "GroupMemberRoleChanged")
PromoteGroupMember(a, j) ==
  IF MemberMay(a, j) THEN ReplaceMemberRole(a, j, "admin") ELSE Throws
DemoteGroupMember(a, j) ==
  IF MemberMay(a, j) THEN ReplaceMemberRole(a, j, "member") ELSE Throws
SetGroupInviteLink(a) ==
  IF a.status # "active" THEN Throws
  ELSE Emit([a EXCEPT !.has = @ \cup {"inviteLink"}], "GroupInviteLinkUpdated")

\* setGroupMuted, setGroupArchived and setGroupPinned, on and off.
PatchLocalState(a, flag, on) ==
  IF a.status # "active" THEN Throws
  ELSE Emit([a EXCEPT !.has = IF on THEN @ \cup {flag} ELSE @ \ {flag}],
            "GroupLocalStateUpdated")

-----------------------------------------------------------------------------
(* Chat, Contact and Label: any status after any other, and no events.     *)

SetStatus(a, next) == [a EXCEPT !.status = next]
Flag(a, flag, on) == [a EXCEPT !.has = IF on THEN @ \cup {flag} ELSE @ \ {flag}]

Itself(l) == l

CreateChat(labels) ==
  IF ~Unique(labels, Itself) THEN Throws
  ELSE [New("Chat", "open", {}) EXCEPT !.items = labels]
ChatStatuses == {"open", "archived", "deleted"}
AssignChatLabel(a, l) ==
  IF l \in ToSet(a.items) THEN Throws ELSE [a EXCEPT !.items = Append(@, l)]
\* No label is listed twice (freezeUniqueLabelIds): one entry goes, if there is one.
RemoveChatLabel(a, l) ==
  LET at == CHOOSE i \in DOMAIN a.items : a.items[i] = l IN
  IF l \in ToSet(a.items) THEN [a EXCEPT !.items = RemoveAt(@, at)] ELSE a

CreateContact(profile) == New("Contact", "discovered", profile)
ContactChanges == {"active", "blocked", "deleted"}

CreateLabel(color) == New("Label", "active", color)
LabelChanges == {"archived", "deleted"}

-----------------------------------------------------------------------------
(* WebhookSubscription and WebhookDelivery.                                *)

WebhookSubscriptionTransitions ==
  [proposed  |-> {"validated", "invalid", "retired"},
   validated |-> {"active", "invalid", "retired"},
   active    |-> {"suspended", "invalid", "retired"},
   suspended |-> {"active", "invalid", "retired"},
   invalid   |-> {"validated", "retired"},
   retired   |-> {}]

TransitionWebhookSubscription(a, next, event) ==
  Transition(a, next, WebhookSubscriptionTransitions, event, {}, {})

CreateWebhookSubscription ==
  Emit(New("WebhookSubscription", "proposed", {}), "WebhookSubscriptionProposed")
ValidateWebhookSubscription(a) ==
  TransitionWebhookSubscription(a, "validated", "WebhookSubscriptionValidated")
ActivateWebhookSubscription(a) ==
  IF a.status \notin {"validated", "suspended"} THEN Throws
  ELSE TransitionWebhookSubscription(a, "active", "WebhookSubscriptionActivated")
SuspendWebhookSubscription(a) ==
  TransitionWebhookSubscription(a, "suspended", "WebhookSubscriptionSuspended")
InvalidateWebhookSubscription(a) ==
  TransitionWebhookSubscription(a, "invalid", "WebhookSubscriptionInvalidated")
RetireWebhookSubscription(a) ==
  TransitionWebhookSubscription(a, "retired", "WebhookSubscriptionRetired")

WebhookDeliveryTransitions ==
  [pending     |-> {"delivering", "failed", "dead_letter", "cancelled"},
   delivering  |-> {"delivered", "retrying", "failed", "dead_letter"},
   retrying    |-> {"delivering", "failed", "dead_letter", "cancelled"},
   delivered   |-> {}, failed |-> {}, dead_letter |-> {}, cancelled |-> {}]

TransitionWebhookDelivery(a, next, event, sets) ==
  Transition(a, next, WebhookDeliveryTransitions, event, sets, {})

\* attemptNumber, which the caller gives; Throws has the status "none".
Attempted(a, n) == IF a = Throws THEN a ELSE [a EXCEPT !.attempt = n]

ScheduleWebhookDelivery ==
  Emit(New("WebhookDelivery", "pending", {}), "WebhookDeliveryScheduled")
StartWebhookDelivery(a, n) ==
  Attempted(TransitionWebhookDelivery(a, "delivering", "WebhookDeliveryStarted", {}), n)
SucceedWebhookDelivery(a) ==
  TransitionWebhookDelivery(a, "delivered", "WebhookDeliverySucceeded", {})
RetryWebhookDelivery(a, n) ==
  IF n > MaxAttempts THEN Throws
  ELSE Attempted(TransitionWebhookDelivery(a, "retrying", "WebhookDeliveryRetryScheduled",
                                           {"failureCategory"}), n)
FailWebhookDelivery(a) ==
  TransitionWebhookDelivery(a, "failed", "WebhookDeliveryFailed", {"failureCategory"})
DeadLetterWebhookDelivery(a) ==
  TransitionWebhookDelivery(a, "dead_letter", "WebhookDeliveryDeadLettered",
                            {"deadLetterReason", "failureCategory"})
CancelWebhookDelivery(a) ==
  TransitionWebhookDelivery(a, "cancelled", "WebhookDeliveryCancelled", {})

-----------------------------------------------------------------------------
(* WorkerJob.                                                              *)

WorkerJobTransitions ==
  [queued    |-> {"reserved", "retrying", "dead"},
   reserved  |-> {"running", "retrying", "dead"},
   running   |-> {"completed", "retrying", "dead"},
   retrying  |-> {"reserved", "dead"},
   completed |-> {}, dead |-> {}]

TransitionWorkerJob(a, next, event, sets) ==
  Transition(a, next, WorkerJobTransitions, event, sets, {})

QueueWorkerJob == Emit(New("WorkerJob", "queued", {}), "WorkerJobQueued")
ReserveWorkerJob(a, n) ==
  Attempted(TransitionWorkerJob(a, "reserved", "WorkerJobReserved", {}), n)
StartWorkerJob(a) == TransitionWorkerJob(a, "running", "WorkerJobStarted", {})
CompleteWorkerJob(a) == TransitionWorkerJob(a, "completed", "WorkerJobCompleted", {})
RetryWorkerJob(a, n) ==
  IF n > MaxAttempts THEN Throws
  ELSE Attempted(TransitionWorkerJob(a, "retrying", "WorkerJobRetryScheduled",
                                     {"failureCategory"}), n)
MarkWorkerJobDead(a) ==
  TransitionWorkerJob(a, "dead", "WorkerJobDead", {"deadLetterReason", "failureCategory"})
RequireWorkerJobRecovery(a) ==
  Emit([a EXCEPT !.has = @ \cup {"recoveryActionRequired"}], "WorkerJobRecoveryRequired")

-----------------------------------------------------------------------------
(* GuardrailDecision and AccessDecision.                                   *)

GuardrailOutcomes == {"allow", "block", "throttle", "action_required"}

GuardrailDecisionTransitions ==
  LET Decided == {"passed", "blocked", "throttled", "action_required"} IN
  [requested       |-> {"evaluated", "expired"} \cup Decided,
   evaluated       |-> {"expired"} \cup Decided,
   passed          |-> {"expired"}, blocked |-> {"expired"},
   throttled       |-> {"expired"}, action_required |-> {"expired"},
   expired         |-> {}]

\* An outcome is recorded with a reason, over the one there was.
TransitionGuardrailDecision(a, next, event, outcome) ==
  Transition(a, next, GuardrailDecisionTransitions, event, outcome,
             IF outcome = {} THEN {} ELSE GuardrailOutcomes)

RequestGuardrailDecision == New("GuardrailDecision", "requested", {})
EvaluateGuardrailDecision(a) ==
  TransitionGuardrailDecision(a, "evaluated", "GuardrailEvaluated", {})
PassGuardrailDecision(a) ==
  TransitionGuardrailDecision(a, "passed", "GuardrailPassed", {"allow"})
BlockGuardrailDecision(a) ==
  TransitionGuardrailDecision(a, "blocked", "GuardrailBlocked", {"block"})
ThrottleGuardrailDecision(a) ==
  TransitionGuardrailDecision(a, "throttled", "GuardrailThrottled", {"throttle"})
RequireGuardrailAction(a) ==
  TransitionGuardrailDecision(a, "action_required", "GuardrailActionRequired",
                              {"action_required"})

AccessDecisionTransitions ==
  [requested |-> {"granted", "denied", "expired"},
   granted   |-> {"expired"}, denied |-> {"expired"}, expired |-> {}]

TransitionAccessDecision(a, next, event, sets) ==
  Transition(a, next, AccessDecisionTransitions, event, sets, {})

RequestAccessDecision == New("AccessDecision", "requested", {})
GrantAccessDecision(a) ==
  TransitionAccessDecision(a, "granted", "AccessGranted", {"granted"})
DenyAccessDecision(a) ==
  TransitionAccessDecision(a, "denied", "AccessDenied", {"denied"})
MarkPrivilegedAction(a) ==
  Emit([a EXCEPT !.has = @ \cup {"privileged", "auditEligible"}], "PrivilegedActionMarked")
ExpireAccessDecision(a) ==
  TransitionAccessDecision(a, "expired", "AccessDecisionExpired", {})

-----------------------------------------------------------------------------
(* AuditRecord, TelemetrySignal and HealthStatus.                          *)

AuditRecordTransitions ==
  [requested |-> {"recorded", "retention_expired"},
   recorded  |-> {"retained", "retention_expired"},
   retained  |-> {"retention_expired"}, retention_expired |-> {}]

TransitionAuditRecord(a, next, event, sets) ==
  Transition(a, next, AuditRecordTransitions, event, sets, {})

RequestAuditRecord == Emit(New("AuditRecord", "requested", {}), "AuditRecordRequested")
RecordAuditEvidence(a) ==
  TransitionAuditRecord(a, "recorded", "AuditRecorded", {"evidenceSummaryCode"})
ApplyAuditRedaction(a) ==
  Emit([a EXCEPT !.has = @ \cup {"redacted"}], "AuditRedactionApplied")
RetainAuditRecord(a) == TransitionAuditRecord(a, "retained", NoEvent, {})
ExpireAuditRetention(a) ==
  TransitionAuditRecord(a, "retention_expired", "AuditRetentionExpired", {})

TelemetrySignalTransitions ==
  [captured  |-> {"sanitized", "dropped"},
   sanitized |-> {"projected", "dropped"}, projected |-> {}, dropped |-> {}]

TransitionTelemetrySignal(a, next, event, sets) ==
  Transition(a, next, TelemetrySignalTransitions, event, sets, {})

CaptureTelemetrySignal ==
  Emit(New("TelemetrySignal", "captured", {}), "TelemetryCaptured")
SanitizeTelemetrySignal(a) ==
  TransitionTelemetrySignal(a, "sanitized", "TelemetrySanitized", {"redacted"})
ProjectTelemetrySignal(a) ==
  TransitionTelemetrySignal(a, "projected", "TelemetryProjected", {})
DropTelemetrySignal(a) ==
  TransitionTelemetrySignal(a, "dropped", "TelemetryDropped", {"redacted"})

\* A subject is classified anew whatever it was; an old cause stays.
ClassifyHealth(a, category, event, cause) ==
  Emit([a EXCEPT !.status = category, !.was = @ \cup {a.status},
                 !.has = @ \cup cause], event)

CreateHealthStatus == New("HealthStatus", "unknown", {})
ClassifyHealthy(a) == ClassifyHealth(a, "healthy", "HealthStatusChanged", {})
ClassifyDegraded(a) == ClassifyHealth(a, "degraded", "HealthDegraded", {"causeCategory"})
ClassifyUnavailable(a) ==
  ClassifyHealth(a, "unavailable", "HealthDegraded", {"causeCategory"})
MarkHealthActionRequired(a) ==
  ClassifyHealth(a, "action_required", "HealthActionRequired", {"causeCategory"})
MarkHealthRecovered(a) == ClassifyHealth(a, "recovered", "HealthRecovered", {})

-----------------------------------------------------------------------------
(* ConfigurationSnapshot: its safety is one of its flags.                  *)

Safeties == {"valid", "invalid", "unsafe", "guardrail_bypass_rejected"}

ConfigurationSnapshotTransitions ==
  [proposed   |-> {"validated", "rejected"},
   validated  |-> {"active", "rejected", "retired"},
   rejected   |-> {"retired"},
   active     |-> {"superseded", "retired"},
   superseded |-> {"retired"}, retired |-> {}]

TransitionConfigurationSnapshot(a, next, event, sets) ==
  Transition(a, next, ConfigurationSnapshotTransitions, event, sets, {})

ProposeConfigurationSnapshot(safety) == New("ConfigurationSnapshot", "proposed", {safety})
ValidateConfigurationSnapshot(a) ==
  IF "valid" \notin a.has THEN Throws
  ELSE TransitionConfigurationSnapshot(a, "validated", "ConfigurationValidated", {})
RejectConfigurationSnapshot(a) ==
  TransitionConfigurationSnapshot(a, "rejected", "ConfigurationRejected", {"auditEligible"})
RejectGuardrailBypassConfiguration(a) ==
  IF "guardrail_bypass_rejected" \notin a.has THEN Throws
  ELSE TransitionConfigurationSnapshot(a, "rejected", "ConfigurationGuardrailBypassRejected",
                                       {"auditEligible"})
ActivateConfigurationSnapshot(a) ==
  IF a.status # "validated" \/ "valid" \notin a.has THEN Throws
  ELSE TransitionConfigurationSnapshot(a, "active", "ConfigurationActivated", {})
SupersedeConfigurationSnapshot(a) ==
  TransitionConfigurationSnapshot(a, "superseded", "ConfigurationSuperseded", {})

-----------------------------------------------------------------------------
(* ProviderProfile: whether it sends texts, the one message type used.     *)

ProviderProfileTransitions ==
  [candidate   |-> {"supported", "degraded", "unsupported", "retired"},
   supported   |-> {"degraded", "unsupported", "retired"},
   degraded    |-> {"supported", "unsupported", "retired"},
   unsupported |-> {"candidate", "retired"}, retired |-> {}]

TransitionProviderProfile(a, next, event, sets, clears) ==
  Transition(a, next, ProviderProfileTransitions, event, sets, clears)

Capabilities == {"text", "group_list"}

CreateProviderProfile == New("ProviderProfile", "candidate", {})
MarkProviderSupported(a, capabilities) ==
  TransitionProviderProfile(a, "supported", "ProviderProfileSupported",
                            capabilities, Capabilities)
MarkProviderDegraded(a) ==
  TransitionProviderProfile(a, "degraded", "ProviderProfileDegraded", {"failureCategory"}, {})
MarkProviderUnsupported(a) ==
  TransitionProviderProfile(a, "unsupported", "ProviderProfileUnsupported",
                            {"failureCategory"}, {})
RetireProviderProfile(a) == TransitionProviderProfile(a, "retired", NoEvent, {}, {})
=============================================================================
