----------------------------- MODULE DomainEvents -----------------------------
(***************************************************************************)
(* The contracts of the domain events (event-contract.ts): for each kind of *)
(* aggregate the events it may append, with what the contract requires of   *)
(* their order.  Names of payload fields, signal names, and what makes an   *)
(* event a duplicate are left out: the library looks at none of them.      *)
(***************************************************************************)

InstanceContracts ==
  [InstanceCreated        |-> "first_for_aggregate",
   InstanceQrRequired     |-> "after_connect_intent",
   InstanceConnected      |-> "after_created_not_destroyed",
   InstanceDisconnected   |-> "after_connected_or_connecting",
   InstanceLoggedOut      |-> "after_active_or_connecting",
   InstanceActionRequired |-> "non_destroyed_only",
   InstanceDestroyed      |-> "last_for_aggregate"]

SessionContracts ==
  [SessionPairingStarted   |-> "before_pending_or_active",
   SessionPending          |-> "before_active_expired_revoked",
   SessionActivated        |-> "after_pending_or_restore",
   SessionExpired          |-> "after_pending_or_active",
   SessionRevoked          |-> "after_pending_or_active",
   SessionRecoveryRequired |-> "after_failure_classification",
   SessionCleaned          |-> "after_retention_trigger"]

MessageContracts ==
  [InboundMessageReceived     |-> "after_provider_translation",
   UnsupportedMessageReceived |-> "after_provider_translation",
   MessageAccepted            |-> "after_guardrail_passed",
   MessageRejected            |-> "before_queued",
   MessageQueued              |-> "after_message_accepted",
   MessageProcessingStarted   |-> "after_queued",
   MessageDispatched          |-> "after_processing_started",
   MessageDelivered           |-> "after_dispatched_or_direct_delivery",
   MessageRead                |-> "after_delivered_or_direct_read",
   MessageFailed              |-> "after_lifecycle_failure",
   MessageCancelled           |-> "before_terminal_delivery"]

MediaAssetContracts ==
  [MediaAccepted              |-> "after_media_classification",
   MediaProcessingStarted     |-> "after_media_accepted",
   MediaProcessed             |-> "after_processing_started",
   MediaAttached              |-> "after_media_processed",
   MediaFailed                |-> "after_media_work",
   MediaExpired               |-> "after_retention_window",
   MediaCleaned               |-> "after_processing_or_expiry",
   DiagnosticCaptureRequested |-> "before_capture_begins"]

GroupContracts ==
  [GroupDiscovered        |-> "first_for_group",
   GroupStatusUpdated     |-> "after_group_discovered",
   GroupMetadataUpdated   |-> "active_group_only",
   GroupMemberAdded       |-> "active_group_only",
   GroupMemberRemoved     |-> "active_group_only",
   GroupMemberRoleChanged |-> "active_group_only",
   GroupInviteLinkUpdated |-> "active_group_only",
   GroupLocalStateUpdated |-> "active_group_only"]

WebhookSubscriptionContracts ==
  [WebhookSubscriptionProposed    |-> "before_validation",
   WebhookSubscriptionValidated   |-> "before_activation_or_delivery",
   WebhookSubscriptionActivated   |-> "after_validation",
   WebhookSubscriptionSuspended   |-> "after_active",
   WebhookSubscriptionInvalidated |-> "any_configured_state",
   WebhookSubscriptionRetired     |-> "final_for_subscription_version"]

WebhookDeliveryContracts ==
  [WebhookDeliveryScheduled      |-> "after_valid_subscription",
   WebhookDeliveryStarted        |-> "after_scheduled",
   WebhookDeliverySucceeded      |-> "terminal_after_started",
   WebhookDeliveryRetryScheduled |-> "after_failed_attempt",
   WebhookDeliveryFailed         |-> "after_delivery_attempts",
   WebhookDeliveryDeadLettered   |-> "after_retry_exhaustion",
   WebhookDeliveryCancelled      |-> "before_terminal_delivery"]

GuardrailDecisionContracts ==
  [GuardrailEvaluated      |-> "before_outcome",
   GuardrailPassed         |-> "after_evaluated",
   GuardrailBlocked        |-> "after_evaluated",
   GuardrailThrottled      |-> "after_evaluated",
   GuardrailActionRequired |-> "after_evaluated"]

ProviderProfileContracts ==
  [ProviderProfileSupported   |-> "after_compatibility_check",
   ProviderProfileDegraded    |-> "after_supported_or_candidate",
   ProviderProfileUnsupported |-> "after_compatibility_check",
   ProviderCapabilityChanged  |-> "after_capability_update",
   ProviderFailureClassified  |-> "after_infrastructure_translation"]

WorkerJobContracts ==
  [WorkerJobQueued           |-> "first_for_job",
   WorkerJobReserved         |-> "after_queued",
   WorkerJobStarted          |-> "after_reserved",
   WorkerJobCompleted        |-> "after_started",
   WorkerJobRetryScheduled   |-> "after_failed_attempt",
   WorkerJobDead             |-> "after_retry_exhaustion",
   WorkerJobRecoveryRequired |-> "after_dead_or_unsafe_state"]

AccessDecisionContracts ==
  [AccessGranted          |-> "before_privileged_mutation",
   AccessDenied           |-> "before_stopped_mutation",
   PrivilegedActionMarked |-> "before_action_execution",
   SecretAccessRequested  |-> "before_secret_boundary_access",
   AccessDecisionExpired  |-> "after_decision_scope"]

AuditRecordContracts ==
  [AuditRecordRequested  |-> "after_auditable_fact",
   AuditRecorded         |-> "after_request",
   AuditRedactionApplied |-> "before_recorded_where_applicable",
   AuditRetentionExpired |-> "after_retention_window"]

HealthStatusContracts ==
  [HealthStatusChanged  |-> "after_source_signal_classification",
   HealthDegraded       |-> "after_healthy_or_worsening",
   HealthRecovered      |-> "after_degraded_unavailable_or_action_required",
   HealthActionRequired |-> "after_source_classification"]

ConfigurationSnapshotContracts ==
  [ConfigurationValidated   |-> "before_activation",
   ConfigurationRejected    |-> "after_validation",
   ConfigurationActivated   |-> "after_validated",
   ConfigurationGuardrailBypassRejected |-> "during_validation",
   ConfigurationSuperseded  |-> "after_new_activation"]

TelemetrySignalContracts ==
  [TelemetryCaptured  |-> "before_sanitization",
   TelemetrySanitized |-> "after_captured",
   TelemetryDropped   |-> "after_captured_or_classified",
   TelemetryProjected |-> "after_sanitized"]

\* domainEventContracts: every contract, under the kind that may append it.
Contracts ==
  [Instance |-> InstanceContracts, Session |-> SessionContracts,
   Message |-> MessageContracts, MediaAsset |-> MediaAssetContracts,
   Group |-> GroupContracts, WebhookSubscription |-> WebhookSubscriptionContracts,
   WebhookDelivery |-> WebhookDeliveryContracts,
   GuardrailDecision |-> GuardrailDecisionContracts,
   ProviderProfile |-> ProviderProfileContracts, WorkerJob |-> WorkerJobContracts,
   AccessDecision |-> AccessDecisionContracts, AuditRecord |-> AuditRecordContracts,
   HealthStatus |-> HealthStatusContracts,
   ConfigurationSnapshot |-> ConfigurationSnapshotContracts,
   TelemetrySignal |-> TelemetrySignalContracts]
=============================================================================
