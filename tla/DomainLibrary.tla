---------------------------- MODULE DomainLibrary ----------------------------
(***************************************************************************)
(* One aggregate of any kind in the hands of a program that calls the       *)
(* library in any order it likes: it starts as a factory (or a constructor) *)
(* makes it, and each step is one call that does not throw.                 *)
(***************************************************************************)
EXTENDS DomainEvents, DomainPolicies, AggregateRows

VARIABLE agg

MemberLists == {<< >>} \cup {<<[jid |-> j, role |-> r]>> : j \in Jids, r \in Roles}

Made ==
  {CreateInstance, CreateInboundMessage, CreateWebhookSubscription,
   ScheduleWebhookDelivery, QueueWorkerJob,
   RequestGuardrailDecision, RequestAccessDecision, RequestAuditRecord,
   CaptureTelemetrySignal}
    \cup {CreateSessionAggregate(b) : b \in BOOLEAN}
    \cup {CreateOutboundMessageAggregate(b) : b \in BOOLEAN}
    \cup {CreateMediaAssetAggregate(b, c) : b, c \in BOOLEAN}
    \cup {CreateGroup(members) : members \in MemberLists}
    \cup {CreateChat(labels) : labels \in {<< >>} \cup {<<l>> : l \in LabelIds}}
    \cup {CreateContact(p) : p \in SUBSET {"displayName", "phoneNumber"}}
    \cup {CreateLabel(c) : c \in {{}, {"colorCode"}}}
    \cup {CreateGuardrailDecisionAggregate(o) : o \in GuardrailOutcomes}
    \cup {CreateProviderProfileAggregate(s, c) :
             s \in {"candidate", "supported", "degraded", "unsupported"},
             c \in SUBSET Capabilities}
    \cup {CreateAccessDecisionAggregate(o, b) : o \in {"granted", "denied"}, b \in BOOLEAN}
    \cup {CreateAuditRecordAggregate(b) : b \in BOOLEAN}
    \cup {CreateHealthStatusAggregate(c) :
             c \in {"healthy", "degraded", "unavailable", "action_required",
                    "recovered", "unknown"}}
    \cup {CreateConfigurationSnapshotAggregate(s) : s \in Safeties}
    \cup {ProposeConfigurationSnapshot(s) : s \in Safeties}
    \cup {CreateTelemetrySignalAggregate(b) : b \in BOOLEAN}

LibraryInit == agg \in Made

Is(kind) == agg.kind = kind
Call(result) == result # Throws /\ agg' = result
Attempts == 1..(MaxAttempts + 1)   \* what a caller may claim the attempt to be

InstanceCall ==
  /\ Is("Instance")
  /\ \/ Call(MarkInstanceConnecting(agg))   \/ Call(MarkInstanceQrPending(agg))
     \/ Call(MarkInstanceConnected(agg))    \/ Call(MarkInstanceDisconnected(agg))
     \/ Call(MarkInstanceLoggedOut(agg))    \/ Call(RequireInstanceAction(agg))
     \/ Call(DestroyInstance(agg))

SessionCall ==
  /\ Is("Session")
  /\ \/ Call(StartSessionPairing(agg)) \/ Call(MarkSessionPending(agg))
     \/ Call(ActivateSession(agg))     \/ Call(ExpireSession(agg))
     \/ Call(RevokeSession(agg))       \/ Call(RequireSessionRecovery(agg))
     \/ \E policy \in {{}, {"retentionPolicy"}} : Call(CleanupSession(agg, policy))

MessageCall ==
  /\ Is("Message")
  /\ \/ Call(AcceptMessage(agg))         \/ Call(RejectMessage(agg))
     \/ Call(QueueMessage(agg))          \/ Call(MarkMessageProcessing(agg))
     \/ Call(MarkMessageSent(agg))       \/ Call(MarkMessageDelivered(agg))
     \/ Call(MarkMessageRead(agg))       \/ Call(FailMessage(agg))
     \/ Call(CancelMessage(agg))

MediaAssetCall ==
  /\ Is("MediaAsset")
  /\ \/ Call(AcceptMediaAsset(agg))      \/ Call(MarkMediaProcessing(agg))
     \/ Call(MarkMediaProcessed(agg))    \/ Call(AttachMediaAsset(agg))
     \/ Call(FailMediaAsset(agg))        \/ Call(CleanMediaAsset(agg))
     \/ Call(RequestDiagnosticCapture(agg))

GroupCall ==
  /\ Is("Group")
  /\ \/ Call(ActivateGroup(agg)) \/ Call(MarkGroupLeft(agg)) \/ Call(DeleteGroup(agg))
     \/ Call(UpdateGroupMetadata(agg)) \/ Call(SetGroupInviteLink(agg))
     \/ \E j \in Jids : \/ \E r \in Roles : Call(AddGroupMember(agg, j, r))
                        \/ Call(RemoveGroupMember(agg, j))
                        \/ Call(PromoteGroupMember(agg, j))
                        \/ Call(DemoteGroupMember(agg, j))
     \/ \E flag \in {"muted", "archived", "pinned"}, on \in BOOLEAN :
           Call(PatchLocalState(agg, flag, on))

PlainCall ==
  \/ /\ Is("Chat")
     /\ \/ \E s \in ChatStatuses : Call(SetStatus(agg, s))
        \/ \E flag \in {"unread", "muted", "pinned"}, on \in BOOLEAN :
              Call(Flag(agg, flag, on))
        \/ \E l \in LabelIds : Call(AssignChatLabel(agg, l)) \/ Call(RemoveChatLabel(agg, l))
  \/ /\ Is("Contact")
     /\ \/ \E s \in ContactChanges : Call(SetStatus(agg, s))
        \/ \E flag \in {"displayName", "phoneNumber"}, on \in BOOLEAN :
              Call(Flag(agg, flag, on))
  \/ /\ Is("Label") /\ \E s \in LabelChanges : Call(SetStatus(agg, s))

WebhookSubscriptionCall ==
  /\ Is("WebhookSubscription")
  /\ \/ Call(ValidateWebhookSubscription(agg))   \/ Call(ActivateWebhookSubscription(agg))
     \/ Call(SuspendWebhookSubscription(agg))    \/ Call(InvalidateWebhookSubscription(agg))
     \/ Call(RetireWebhookSubscription(agg))

WebhookDeliveryCall ==
  /\ Is("WebhookDelivery")
  /\ \/ \E n \in Attempts : Call(StartWebhookDelivery(agg, n)) \/ Call(RetryWebhookDelivery(agg, n))
     \/ Call(SucceedWebhookDelivery(agg))     \/ Call(FailWebhookDelivery(agg))
     \/ Call(DeadLetterWebhookDelivery(agg))  \/ Call(CancelWebhookDelivery(agg))

WorkerJobCall ==
  /\ Is("WorkerJob")
  /\ \/ \E n \in Attempts : Call(ReserveWorkerJob(agg, n)) \/ Call(RetryWorkerJob(agg, n))
     \/ Call(StartWorkerJob(agg))    \/ Call(CompleteWorkerJob(agg))
     \/ Call(MarkWorkerJobDead(agg)) \/ Call(RequireWorkerJobRecovery(agg))

GuardrailDecisionCall ==
  /\ Is("GuardrailDecision")
  /\ \/ Call(EvaluateGuardrailDecision(agg)) \/ Call(PassGuardrailDecision(agg))
     \/ Call(BlockGuardrailDecision(agg))    \/ Call(ThrottleGuardrailDecision(agg))
     \/ Call(RequireGuardrailAction(agg))

AccessDecisionCall ==
  /\ Is("AccessDecision")
  /\ \/ Call(GrantAccessDecision(agg))  \/ Call(DenyAccessDecision(agg))
     \/ Call(MarkPrivilegedAction(agg)) \/ Call(ExpireAccessDecision(agg))

AuditRecordCall ==
  /\ Is("AuditRecord")
  /\ \/ Call(RecordAuditEvidence(agg)) \/ Call(ApplyAuditRedaction(agg))
     \/ Call(RetainAuditRecord(agg))   \/ Call(ExpireAuditRetention(agg))

TelemetrySignalCall ==
  /\ Is("TelemetrySignal")
  /\ \/ Call(SanitizeTelemetrySignal(agg)) \/ Call(ProjectTelemetrySignal(agg))
     \/ Call(DropTelemetrySignal(agg))

HealthStatusCall ==
  /\ Is("HealthStatus")
  /\ \/ Call(ClassifyHealthy(agg))     \/ Call(ClassifyDegraded(agg))
     \/ Call(ClassifyUnavailable(agg)) \/ Call(MarkHealthActionRequired(agg))
     \/ Call(MarkHealthRecovered(agg))

ConfigurationSnapshotCall ==
  /\ Is("ConfigurationSnapshot")
  /\ \/ Call(ValidateConfigurationSnapshot(agg)) \/ Call(RejectConfigurationSnapshot(agg))
     \/ Call(RejectGuardrailBypassConfiguration(agg))
     \/ Call(ActivateConfigurationSnapshot(agg)) \/ Call(SupersedeConfigurationSnapshot(agg))

ProviderProfileCall ==
  /\ Is("ProviderProfile")
  /\ \/ \E c \in SUBSET Capabilities : Call(MarkProviderSupported(agg, c))
     \/ Call(MarkProviderDegraded(agg)) \/ Call(MarkProviderUnsupported(agg))
     \/ Call(RetireProviderProfile(agg))

LibraryNext ==
  \/ InstanceCall \/ SessionCall \/ MessageCall \/ MediaAssetCall \/ GroupCall
  \/ PlainCall \/ WebhookSubscriptionCall \/ WebhookDeliveryCall \/ WorkerJobCall
  \/ GuardrailDecisionCall \/ AccessDecisionCall \/ AuditRecordCall
  \/ TelemetrySignalCall \/ HealthStatusCall \/ ConfigurationSnapshotCall
  \/ ProviderProfileCall

LibrarySpec == LibraryInit /\ [][LibraryNext]_agg

-----------------------------------------------------------------------------
(* Properties.                                                             *)

Before == agg.events
Happened == agg.events \cup {agg.news}
SomeBefore(events) == Before \cap events # {}
NoneBefore(events) == Before \cap events = {}

\* What an ordering requirement says of the aggregate's own history when the event
\* is appended.
Required ==
  [first_for_aggregate |-> Before = {}, first_for_group |-> Before = {},
   first_for_job |-> Before = {},
   after_connect_intent |-> "connecting" \in agg.was,
   after_created_not_destroyed |-> SomeBefore({"InstanceCreated"}) /\ NoneBefore({"InstanceDestroyed"}),
   after_connected_or_connecting |-> "connecting" \in agg.was,
   after_active_or_connecting |-> "connecting" \in agg.was,
   non_destroyed_only |-> NoneBefore({"InstanceDestroyed"}),
   after_pending_or_restore |-> SomeBefore({"SessionPairingStarted", "SessionPending"}),
   after_pending_or_active |-> SomeBefore({"SessionPairingStarted", "SessionPending"}),
   after_message_accepted |-> SomeBefore({"MessageAccepted"}),
   after_processing_started |-> SomeBefore({"MessageProcessingStarted", "MediaProcessingStarted"}),
   after_dispatched_or_direct_delivery |-> SomeBefore({"MessageProcessingStarted"}),
   after_delivered_or_direct_read |-> SomeBefore({"MessageProcessingStarted"}),
   after_lifecycle_failure |-> NoneBefore({"MessageRead", "MessageCancelled"}),
   before_terminal_delivery |->
      NoneBefore({"MessageDelivered", "MessageRead", "WebhookDeliverySucceeded",
            "WebhookDeliveryFailed", "WebhookDeliveryDeadLettered"}),
   after_media_accepted |-> SomeBefore({"MediaAccepted"}),
   after_media_processed |-> SomeBefore({"MediaProcessed"}),
   after_group_discovered |-> SomeBefore({"GroupDiscovered"}),
   active_group_only |-> agg.status = "active",
   before_validation |-> NoneBefore({"WebhookSubscriptionValidated"}),
   after_validation |-> SomeBefore({"WebhookSubscriptionValidated"}),
   after_active |-> SomeBefore({"WebhookSubscriptionActivated"}),
   any_configured_state |-> NoneBefore({"WebhookSubscriptionRetired"}),
   after_scheduled |-> SomeBefore({"WebhookDeliveryScheduled"}),
   after_failed_attempt |-> SomeBefore({"WebhookDeliveryStarted"}),
   terminal_after_started |-> SomeBefore({"WebhookDeliveryStarted"}),
   before_outcome |-> NoneBefore({"GuardrailPassed", "GuardrailBlocked", "GuardrailThrottled",
                            "GuardrailActionRequired"}),
   after_queued |-> SomeBefore({"MessageQueued", "WorkerJobQueued"}),
   after_reserved |-> SomeBefore({"WorkerJobReserved"}),
   after_started |-> SomeBefore({"WorkerJobStarted"}),
   after_supported_or_candidate |-> NoneBefore({"ProviderProfileUnsupported"}),
   after_request |-> SomeBefore({"AuditRecordRequested"}),
   before_activation |-> NoneBefore({"ConfigurationActivated"}),
   after_validated |-> SomeBefore({"ConfigurationValidated"}),
   during_validation |-> NoneBefore({"ConfigurationValidated"}),
   after_new_activation |-> SomeBefore({"ConfigurationActivated"}),
   before_sanitization |-> NoneBefore({"TelemetrySanitized"}),
   after_captured |-> SomeBefore({"TelemetryCaptured"}),
   after_captured_or_classified |-> SomeBefore({"TelemetryCaptured"}),
   after_sanitized |-> SomeBefore({"TelemetrySanitized"})]

\* Requirements that speak of something other than the aggregate's own history: a
\* caller, a clock, another aggregate.  Those that make an event the last are below.
OfOthers ==
  {"after_failure_classification", "after_retention_trigger", "after_provider_translation",
   "after_guardrail_passed", "after_media_classification", "after_retention_window",
   "before_capture_begins", "after_valid_subscription", "after_compatibility_check",
   "after_capability_update", "after_infrastructure_translation",
   "before_privileged_mutation", "before_stopped_mutation", "before_action_execution",
   "before_secret_boundary_access", "after_auditable_fact",
   "after_source_signal_classification", "after_source_classification"}
OfTheLast == {"last_for_aggregate", "final_for_subscription_version"}

\* The events that the transition tables let out of the order of their contracts
\* (README, "Out of order"), and the order which they keep instead;
Instead ==
  LET Outcomes == {"GuardrailPassed", "GuardrailBlocked", "GuardrailThrottled",
                   "GuardrailActionRequired"} IN
  [SessionPairingStarted   |-> NoneBefore({"SessionRevoked"}),
   SessionPending          |-> NoneBefore({"SessionRevoked"}),
   MessageRejected         |-> NoneBefore({"MessageDelivered", "MessageRead", "MessageCancelled"}),
   MediaFailed             |-> NoneBefore({"MediaAttached"}),
   WebhookSubscriptionValidated |->
      SomeBefore({"WebhookSubscriptionActivated"}) => SomeBefore({"WebhookSubscriptionInvalidated"}),
   WebhookDeliveryFailed   |-> NoneBefore({"WebhookDeliverySucceeded"}),
   WebhookDeliveryDeadLettered |-> NoneBefore({"WebhookDeliverySucceeded", "WebhookDeliveryFailed"}),
   GuardrailPassed         |-> NoneBefore(Outcomes \ {"GuardrailPassed"}),
   GuardrailBlocked        |-> NoneBefore(Outcomes \ {"GuardrailBlocked"}),
   GuardrailThrottled      |-> NoneBefore(Outcomes \ {"GuardrailThrottled"}),
   GuardrailActionRequired |-> NoneBefore(Outcomes \ {"GuardrailActionRequired"}),
   WorkerJobRetryScheduled |-> NoneBefore({"WorkerJobCompleted", "WorkerJobDead"}),
   WorkerJobDead           |-> NoneBefore({"WorkerJobCompleted"}),
   ConfigurationRejected   |-> NoneBefore({"ConfigurationActivated"})]

\* and those that keep none.
AtAnyTime == {"MediaCleaned", "WorkerJobRecoveryRequired", "AccessDecisionExpired",
              "AuditRedactionApplied", "HealthDegraded", "HealthRecovered"}

\* Events that end an aggregate: nothing but their own repetition follows.
FinalEvents == {"InstanceDestroyed", "MessageRead", "MessageCancelled", "MediaCleaned",
                "WebhookSubscriptionRetired", "WebhookDeliverySucceeded",
                "WebhookDeliveryFailed", "WebhookDeliveryDeadLettered",
                "WebhookDeliveryCancelled", "WorkerJobCompleted", "WorkerJobDead",
                "TelemetryProjected", "TelemetryDropped"}

InOrder(event, order) ==
  \/ order \in OfOthers \cup OfTheLast
  \/ event \in AtAnyTime
  \/ IF event \in DOMAIN Instead THEN Instead[event] ELSE Required[order]

\* Whatever a program calls, and in whatever order: an aggregate appends events its
\* contracts name, each in the order its contract requires of the aggregate's own
\* history - but for the twenty of Instead and AtAnyTime, which the tables let out
\* of that order - and none after its last, except that a job may still ask for its
\* recovery (transitionStatus, the tables and event-contract.ts taken together).
EventsInContractOrder ==
  agg.news # NoEvent =>
     /\ agg.news \in DOMAIN Contracts[agg.kind]
     /\ InOrder(agg.news, Contracts[agg.kind][agg.news])
     /\ \A e \in FinalEvents \cap Before :
           agg.news \in {e, "WorkerJobRecoveryRequired"}

\* The data an aggregate holds is the data its status speaks of: no connected
\* instance without a session or with an old demand for action, no outbound
\* message in the pipeline without a guardrail decision, no snapshot in force
\* that is not safe, no telemetry out that was not redacted, members and labels
\* listed once.  A status is reached over many paths; each keeps these.
DataFollowsStatus ==
  LET In(S) == agg.status \in S
      Has(S) == S \subseteq agg.has
      Lacks(S) == S \cap agg.has = {} IN
  /\ Is("Instance") =>
       /\ In({"connected"}) => Has({"currentSessionId"}) /\ Lacks({"actionRequiredReason"})
       /\ In({"disconnected", "logged_out", "destroyed"}) => Lacks({"currentSessionId"})
       /\ In({"logged_out", "action_required"}) => Has({"actionRequiredReason"})
  /\ Is("Session") => (In({"expired", "revoked"}) => Has({"requiresRecovery"}))
  /\ Is("Message") =>
       /\ In({"queued", "processing", "sent", "delivered", "read"})
             => Has({"outbound", "guardrailDecisionId"})
       /\ In({"failed"}) => Has({"failureCategory"})
  /\ Is("MediaAsset") => (In({"attached"}) => Has({"messageId"}))
  /\ Is("Group") => Unique(agg.items, JidOf)
  /\ Is("Chat")  => Unique(agg.items, Itself)
  /\ Is("WebhookDelivery") =>
       /\ In({"delivering", "delivered", "retrying"}) => agg.attempt > 0
       /\ In({"retrying"}) => agg.attempt <= MaxAttempts
       /\ In({"dead_letter"}) => Has({"deadLetterReason", "failureCategory"})
  /\ Is("WorkerJob") =>
       /\ In({"reserved", "running", "completed", "retrying"}) => agg.attempt > 0
       /\ In({"retrying"}) => agg.attempt <= MaxAttempts
       /\ In({"dead"}) => Has({"deadLetterReason", "failureCategory"})
  /\ Is("GuardrailDecision") =>
       /\ In({"passed"}) <=> Has({"allow"}) /\ ~In({"expired"})
       /\ In({"requested", "evaluated"}) => Lacks(GuardrailOutcomes)
  /\ Is("AccessDecision") => Lacks({"granted"}) \/ Lacks({"denied"})
  /\ Is("AuditRecord") => (In({"recorded", "retained"}) => Has({"evidenceSummaryCode"}))
  /\ Is("TelemetrySignal") => (~In({"captured"}) => Has({"redacted"}))
  /\ Is("ConfigurationSnapshot") =>
       /\ In({"validated", "active", "superseded"}) => Has({"valid"})
       /\ In({"rejected"}) => Has({"auditEligible"})

Sending(session) ==
  "allow" = EvaluateMessageSendingPolicy(
    [type |-> "text", scope |-> "single_message", session |-> session,
     decision |-> CreateGuardrailDecisionAggregate("allow"),
     profile |-> CreateProviderProfileAggregate("supported", {"text"}),
     media |-> Throws, sameCategory |-> FALSE])

ComplianceFacts ==
  [safety : Safeties, abuse : BOOLEAN, rateAllowed : BOOLEAN, outbound : BOOLEAN,
   scope : IntentScopes]

\* Only an instance in one of these statuses takes whatever is recommended for it:
\* one that was just created, logged out or needs action does not become connected.
InstancePolicies ==
  LET Takes(status) ==
        CASE status = "connected"       -> MarkInstanceConnected(agg) # Throws
          [] status = "disconnected"    -> MarkInstanceDisconnected(agg) # Throws
          [] status = "logged_out"      -> MarkInstanceLoggedOut(agg) # Throws
          [] status = "action_required" -> RequireInstanceAction(agg) # Throws IN
  /\ agg.status \in {"connecting", "qr_pending", "connected", "disconnected"} =>
       \A session \in {CreateSession, ActivateSession(CreateSessionAggregate(TRUE))},
          ready, loggedOut, actionRequired \in BOOLEAN :
          Takes(DecideInstanceReadiness(agg, session, ready, loggedOut, actionRequired).recommended)
  /\ CanReconnectInstance(agg, TRUE, FALSE) /\ agg.status \notin {"qr_pending", "connected"}
       => MarkInstanceConnecting(agg) # Throws

\* A status that is accepted is one a message takes while it is processed; neither
\* of the two looks at the message, which may be past it or not there yet.
MessagePolicies ==
  LET Takes(status) ==
        CASE status = "sent"      -> MarkMessageSent(agg) # Throws
          [] status = "delivered" -> MarkMessageDelivered(agg) # Throws
          [] status = "read"      -> MarkMessageRead(agg) # Throws
          [] status = "failed"    -> FailMessage(agg) # Throws IN
  \A translated \in DOMAIN MessageTransitions, stale \in BOOLEAN :
     LET next == ClassifyMessageDeliveryStatus(translated, stale) IN
     /\ next # "none" <=> EvaluateMessageStatusPolicy(translated, stale) = "allow"
     /\ next # "none" /\ agg.status = "processing" => Takes(next)

SessionPolicies ==
  LET ready == DecideInstanceReadiness(CreateInstance, agg, TRUE, FALSE, FALSE)
      recovery == DecideSessionRecovery(agg) IN
  /\ EvaluateSessionRevocationPolicy(agg) = "allow" => RevokeSession(agg) # Throws
  /\ Sending(agg) => IsSessionSendCapable(agg) /\ ~recovery.requiresRecovery
  /\ Sending(agg) <=> EvaluateInstanceConnectionPolicy(agg, TRUE, FALSE) = "allow"
  /\ Sending(agg) <=> ready.sendCapable
  /\ recovery.usable => ~recovery.requiresRecovery /\ ~recovery.cleanupEligible

MediaAssetPolicies ==
  /\ IsMediaReadyForMessage(agg, "image", TRUE) => AttachMediaAsset(agg) # Throws
  /\ EvaluateMediaRetentionPolicy(agg, TRUE, TRUE) = "allow"
        <=> RequestDiagnosticCapture(agg) # Throws

WorkerJobPolicies ==
  /\ CanReserveWorkerJob(agg) => ReserveWorkerJob(agg, 1) # Throws
  /\ CanCompleteWorkerJob(agg, TRUE) => CompleteWorkerJob(agg) # Throws
  /\ \A n \in Attempts : EvaluateWorkerJobRetryPolicy(agg, n) = "retry"
                            <=> RetryWorkerJob(agg, n) # Throws

WebhookPolicies ==
  /\ Is("WebhookDelivery") =>
       \A n \in Attempts :
          EvaluateWebhookRetryPolicy(agg, n) = "retry" /\ agg.status # "pending"
             <=> RetryWebhookDelivery(agg, n) # Throws
  /\ Is("WebhookSubscription") /\ IsWebhookDeliverable(agg, "internal", TRUE, TRUE)
       => {"WebhookSubscriptionValidated", "WebhookSubscriptionActivated"} \subseteq Happened

ConfigurationPolicies ==
  \A granted \in BOOLEAN :
     EvaluateConfigurationSafetyPolicy(agg, granted) = "allow"
        <=> granted /\ ActivateConfigurationSnapshot(agg) # Throws

GuardrailPolicies ==
  /\ IsGuardrailDecisionPassing(agg, TRUE)
     => Happened \cap {"GuardrailBlocked", "GuardrailThrottled", "GuardrailActionRequired"} = {}
  /\ \A facts \in ComplianceFacts :
        LET outcome == EvaluateComplianceGuardrailPolicy(facts) IN
        outcome = "allow" <=>
           IsGuardrailDecisionPassing(CreateGuardrailDecisionAggregate(outcome), TRUE)

AccessPolicies ==
  EvaluatePrivilegedActionPolicy(agg, TRUE) = "allow"
     => /\ {"AccessGranted", "PrivilegedActionMarked"} \subseteq Happened
        /\ Happened \cap {"AccessDenied", "AccessDecisionExpired"} = {}

TelemetryPolicies ==
  agg.status = "projected"
     => \A data \in Classifications \ {"secret"} :
           IsTelemetryProjectionSafe(data, "redacted" \in agg.has, TRUE, TRUE)

\* What the specifications, policies and services say of an aggregate is what it does
\* or did.  Where one allows a call (revoke, attach, capture, reserve, complete, retry,
\* activate, connect, reconnect, a status from the provider), the call does not throw,
\* so that a caller who asks first is not stopped between the saves of two aggregates.
\* Five disagree and are excepted by name: a retry of a pending webhook delivery is
\* allowed and refused (domain-specifications.ts:285), so is a reconnect of an instance
\* that is connected or shows its code, a status recommended for an instance outside
\* the four of InstancePolicies, and, twice, one accepted for a message that is not
\* being processed.  Where one is about another's step (to send, to deliver, to mutate,
\* to project), what it allows has the history it should have.
PoliciesAgree ==
  /\ Is("Instance") => InstancePolicies
  /\ Is("Message") => MessagePolicies
  /\ Is("Session") => SessionPolicies
  /\ Is("MediaAsset") => MediaAssetPolicies
  /\ Is("WorkerJob") => WorkerJobPolicies
  /\ WebhookPolicies
  /\ Is("ConfigurationSnapshot") => ConfigurationPolicies
  /\ Is("GuardrailDecision") => GuardrailPolicies
  /\ Is("AccessDecision") => AccessPolicies
  /\ Is("ProviderProfile") /\ IsProviderCapabilitySupported(agg, "text")
       => "ProviderProfileSupported" \in Happened
  /\ Is("TelemetrySignal") => TelemetryPolicies

\* However a program mixes the library's calls, an aggregate appends its events in the
\* order of their contracts except where EventsInContractOrder names the event, its data
\* is what its status speaks of, and the policies say of it what it does except where
\* PoliciesAgree names the case (transitionStatus with the transition tables,
\* event-contract.ts, domain-policies.ts, written apart).
LibraryIsConsistent == EventsInContractOrder /\ DataFollowsStatus /\ PoliciesAgree

Stored == agg.kind \in DOMAIN Tables

\* Whatever a program saves, PostgreSQL takes and gives back: every column a
\* repository writes is one its table has, none is NULL that may not be, and what
\* a load decodes is the aggregate that was saved.  Only an attempt beyond the
\* retry policy is written and then refused by every load of the row.
SavedIsLoaded ==
  /\ Stored => \A side \in {Null, "recorded"} :
                  LET row == Row(agg, side) table == Tables[agg.kind] IN
                  \A column \in DOMAIN row :
                     /\ column \in DOMAIN table
                     /\ table[column] = "not null" => row[column] # Null
  /\ agg.attempt <= MaxAttempts => Decode(agg) = agg
  /\ agg.attempt > MaxAttempts => Decode(agg) = Throws

\* The three kinds of repository are asked the same questions by the same handlers
\* and give the same answers, also when another process records a side value between
\* the SELECT and the upsert of a save.
FindersAgree ==
  Stored => \A side \in {Null, "recorded"} : \A read \in SideColumn(side) :
               /\ Selects(agg.kind, Row(agg, Kept(side, read))) = Filters(agg, side)
               /\ JsonFinds(agg, JsonIndex(agg.kind, side)) = Filters(agg, side)

\* Both: a row is what was saved, whoever asks for it.
RowsAgree == SavedIsLoaded /\ FindersAgree
=============================================================================
