---------------------------- MODULE DomainPolicies ----------------------------
(***************************************************************************)
(* The specifications, policies and domain services: questions about        *)
(* aggregates and facts, none of which changes anything.  What a caller     *)
(* learns besides yes or no (error category, reason, message) is left out.  *)
(* Throws stands for an aggregate the caller does not have.                 *)
(***************************************************************************)
EXTENDS DomainAggregates

Classifications == {"public", "internal", "confidential", "secret"}
IntentScopes == {"single_message", "broadcast", "campaign", "group_admin", "automation"}

-----------------------------------------------------------------------------
(* Specifications.                                                         *)

IsMessageTypeSupported(type) == type \in {"text", "image", "video", "document", "audio"}

\* Mutant: a session that waits for its recovery is used.
IsActiveSession(s) == s.status = "active"

IsSessionUsable(s) == s.status = "active" /\ "requiresRecovery" \notin s.has

IsGuardrailDecisionPassing(d, sameIntent) ==
  "allow" \in d.has /\ d.status = "passed" /\ sameIntent

IsProviderCapabilitySupported(p, type) ==
  p.status \in {"supported", "degraded"} /\ type \in p.has

IsMediaReadyForMessage(media, type, sameCategory) ==
  \/ type = "text"
  \/ sameCategory /\ media.status \in {"processed", "attached"}

CanSendMessage(in) ==
  /\ IsMessageTypeSupported(in.type)
  /\ in.scope = "single_message"
  /\ IsSessionUsable(in.session)
  /\ IsGuardrailDecisionPassing(in.decision, TRUE)
  /\ IsProviderCapabilitySupported(in.profile, in.type)
  /\ IsMediaReadyForMessage(in.media, in.type, in.sameCategory)

CanReconnectInstance(i, recoverable, concurrent) ==
  i.status \notin {"destroyed", "logged_out"} /\ recoverable /\ ~concurrent

IsWebhookSubscriptionActive(w) == w.status = "active"

IsWebhookDeliverable(w, data, selected, keyed) ==
  IsWebhookSubscriptionActive(w) /\ selected /\ data # "secret" /\ keyed

CanRetryWebhookDelivery(d, n) ==
  d.status \notin {"delivered", "dead_letter", "cancelled", "failed"} /\ n <= MaxAttempts

CanReserveWorkerJob(j) == j.status \in {"queued", "retrying"}

CanCompleteWorkerJob(j, safe) == j.status = "running" /\ safe

CanPerformPrivilegedMutation(d, sameCapability) ==
  d.status = "granted" /\ "granted" \in d.has /\ sameCapability /\ "auditEligible" \in d.has

CanActivateConfiguration(c, granted) ==
  c.status = "validated" /\ "valid" \in c.has /\ granted

IsTelemetryProjectionSafe(data, redacted, correlated, approved) ==
  data # "secret" /\ (data # "confidential" \/ redacted) /\ correlated /\ approved

-----------------------------------------------------------------------------
(* Policies: the outcome a caller is told.                                 *)

Decide(pass, yes, no) == IF pass THEN yes ELSE no

EvaluateMessageSendingPolicy(in) == Decide(CanSendMessage(in), "allow", "reject")

EvaluateMessageStatusPolicy(translated, stale) ==
  Decide(~stale /\ translated \in {"sent", "delivered", "read", "failed"}, "allow", "reject")

EvaluateWebhookRetryPolicy(d, n) ==
  Decide(CanRetryWebhookDelivery(d, n), "retry", "dead_letter")

EvaluateWorkerJobRetryPolicy(j, n) ==
  Decide(j.status \notin {"completed", "dead"} /\ n <= MaxAttempts, "retry", "dead_letter")

EvaluateSessionRevocationPolicy(s) ==
  Decide(IsSessionUsable(s), "allow", "action_required")

EvaluateInstanceConnectionPolicy(s, ready, actionRequired) ==
  CASE actionRequired -> "action_required"
    [] ~actionRequired /\ ready /\ IsSessionUsable(s) -> "allow"
    [] OTHER -> "reject"

EvaluateMediaRetentionPolicy(media, capture, bounded) ==
  Decide(media.status # "cleaned" /\ (~capture \/ bounded), "allow", "reject")

EvaluateComplianceGuardrailPolicy(in) ==
  CASE in.safety = "guardrail_bypass_rejected" \/ in.abuse -> "block"
    [] in.safety # "guardrail_bypass_rejected" /\ ~in.abuse /\ ~in.rateAllowed -> "throttle"
    [] in.safety # "guardrail_bypass_rejected" /\ ~in.abuse /\ in.rateAllowed
         -> Decide(in.outbound /\ in.scope = "single_message", "allow", "action_required")

EvaluatePrivilegedActionPolicy(d, sameCapability) ==
  Decide(CanPerformPrivilegedMutation(d, sameCapability), "allow", "reject")

EvaluateConfigurationSafetyPolicy(c, granted) ==
  Decide(CanActivateConfiguration(c, granted), "allow", "reject")

-----------------------------------------------------------------------------
(* Domain services.                                                        *)

\* The status a message is to take, or "none".
ClassifyMessageDeliveryStatus(translated, stale) ==
  IF ~stale /\ translated \in {"sent", "delivered", "read", "failed"} THEN translated
  ELSE "none"

DecideInstanceReadiness(i, s, ready, loggedOut, actionRequired) ==
  LET capable == i.status # "destroyed" /\ ready /\ IsSessionUsable(s) IN
  [sendCapable |-> capable,
   recommended |-> CASE capable -> "connected"
                     [] ~capable /\ loggedOut -> "logged_out"
                     [] ~capable /\ ~loggedOut /\ actionRequired -> "action_required"
                     [] OTHER -> "disconnected"]

DecideSessionRecovery(s) ==
  [usable           |-> IsSessionUsable(s),
   requiresRecovery |-> "requiresRecovery" \in s.has \/ s.status \in {"expired", "revoked"},
   cleanupEligible  |-> s.status \in {"expired", "revoked", "cleanup"}]

-----------------------------------------------------------------------------
(* Factories: the aggregates a program starts from.                        *)

CreateSessionAggregate(startPairing) ==
  IF startPairing THEN StartSessionPairing(CreateSession) ELSE CreateSession

CreateOutboundMessageAggregate(decided) ==
  IF decided THEN AcceptMessage(CreateOutboundMessageIntent)
  ELSE CreateOutboundMessageIntent

CreateMediaAssetAggregate(accept, capture) ==
  LET media == IF accept THEN AcceptMediaAsset(CreateMediaAsset) ELSE CreateMediaAsset IN
  IF capture THEN RequestDiagnosticCapture(media) ELSE media

CreateGuardrailDecisionAggregate(outcome) ==
  CASE outcome = "allow"    -> PassGuardrailDecision(RequestGuardrailDecision)
    [] outcome = "block"    -> BlockGuardrailDecision(RequestGuardrailDecision)
    [] outcome = "throttle" -> ThrottleGuardrailDecision(RequestGuardrailDecision)
    [] outcome = "action_required" -> RequireGuardrailAction(RequestGuardrailDecision)

CreateProviderProfileAggregate(status, capabilities) ==
  CASE status = "supported"   -> MarkProviderSupported(CreateProviderProfile, capabilities)
    [] status = "degraded"    -> MarkProviderDegraded(CreateProviderProfile)
    [] status = "unsupported" -> MarkProviderUnsupported(CreateProviderProfile)
    [] status = "candidate"   -> CreateProviderProfile

CreateAccessDecisionAggregate(outcome, privileged) ==
  LET asked == IF privileged THEN MarkPrivilegedAction(RequestAccessDecision)
               ELSE RequestAccessDecision
  IN IF outcome = "granted" THEN GrantAccessDecision(asked) ELSE DenyAccessDecision(asked)

CreateAuditRecordAggregate(redacted) ==
  RecordAuditEvidence(IF redacted THEN ApplyAuditRedaction(RequestAuditRecord)
                      ELSE RequestAuditRecord)

CreateHealthStatusAggregate(category) ==
  CASE category = "healthy"     -> ClassifyHealthy(CreateHealthStatus)
    [] category = "degraded"    -> ClassifyDegraded(CreateHealthStatus)
    [] category = "unavailable" -> ClassifyUnavailable(CreateHealthStatus)
    [] category = "action_required" -> MarkHealthActionRequired(CreateHealthStatus)
    [] category = "recovered"   -> MarkHealthRecovered(CreateHealthStatus)
    [] category = "unknown"     -> CreateHealthStatus

CreateConfigurationSnapshotAggregate(safety) ==
  LET snapshot == ProposeConfigurationSnapshot(safety) IN
  CASE safety = "valid" -> ValidateConfigurationSnapshot(snapshot)
    [] safety = "guardrail_bypass_rejected" -> RejectGuardrailBypassConfiguration(snapshot)
    [] OTHER -> RejectConfigurationSnapshot(snapshot)

CreateTelemetrySignalAggregate(safe) ==
  IF safe THEN SanitizeTelemetrySignal(CaptureTelemetrySignal)
  ELSE DropTelemetrySignal(CaptureTelemetrySignal)
=============================================================================
