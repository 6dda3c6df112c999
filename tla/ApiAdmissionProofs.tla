------------------------- MODULE ApiAdmissionProofs -------------------------
(***************************************************************************)
(* Theorems about the doors of the system: the HTTP API, for every finite  *)
(* set of requests, any processes, keys and workloads, every limit and     *)
(* every number of faults; the bridge to the provider runtime, for any     *)
(* commands and errors, and any number of ticks, crashes and losses; and   *)
(* the pages a client reads, for any rows and any number of changes.       *)
(***************************************************************************)
EXTENDS ApiAdmission, ProviderCommands, PublicQueries, FiniteSetTheorems, TLAPS

(***************************************************************************)
(* Part 1.  Types.                                                         *)
(***************************************************************************)

Door == {"new", "audit", "answered", "lost"}
Denials == {401, 403, 429}
RequestTypes ==
  /\ pc \in [Requests -> Steps] /\ cred \in [Requests -> Keys \cup {NoKey}]
  /\ mark \in [Requests -> Windows] /\ owned \in [Requests -> Instances \cup {NoInstance}]
  /\ loaded \in [Requests -> Secrets \cup {NoSecret}]
  /\ answer \in [Requests -> Statuses] /\ outcome \in [Requests -> Outcomes]
  /\ \A r \in Requests : /\ pc[r] \notin Door => cred[r] \in Keys
                         /\ pc[r] = "audit" => answer[r] \in Denials
LimitTypes ==
  /\ DOMAIN counts \subseteq Buckets /\ \A b \in DOMAIN counts : counts[b] \in Counter
  /\ clock \in Windows /\ spent \in [Requests -> {<< >>} \cup (Buckets \X Windows)]
  /\ forgotten \subseteq Buckets \X Windows
RecordTypes == audited \in [Requests -> SUBSET Events] /\ unrecorded \subseteq Requests
RegistryTypes == /\ keys \in [Keys -> KeyRecord]
                 /\ retired \subseteq Requests /\ registered \subseteq Requests
SideTypes == up \in [Processes -> BOOLEAN] /\ faults \in 0..MaxFaults
CompositionTypes == /\ shape \in [Requests -> Shape] /\ deployment \in Deployment
                    /\ \A r \in Requests :
                          /\ Calls(r, "provision") \/ Calls(r, "rotate")
                             => shape[r].newKey \in Keys
                          /\ Calls(r, "revoke") \/ Calls(r, "rotate")
                             => shape[r].ref \in Keys

Types == /\ RequestTypes /\ LimitTypes /\ RecordTypes /\ RegistryTypes /\ SideTypes
         /\ CompositionTypes

LEMMA InitTypes == Init => Types
<1> SUFFICES ASSUME Init PROVE Types
  OBVIOUS
<1>1. RequestTypes
  BY ApiBounds DEF Init, RequestTypes, Steps, Door, Windows, Statuses, Outcomes
<1>2. LimitTypes
  BY ApiBounds DEF Init, LimitTypes, Windows
<1>3. RecordTypes /\ SideTypes
  BY ApiBounds DEF Init, RecordTypes, SideTypes
<1>4. PICK w \in Workloads : shape = w.shape /\ deployment = w.deployment /\ keys = w.keys
  BY DEF Init
<1>5. RegistryTypes
  BY <1>4, ApiIds DEF Init, RegistryTypes
<1>6. CompositionTypes
  BY <1>4, ApiIds DEF CompositionTypes, Calls, Route
<1> QED BY <1>1, <1>2, <1>3, <1>5, <1>6 DEF Types

LEMMA KeptTypes ==
  /\ UNCHANGED request /\ RequestTypes => RequestTypes'
  /\ UNCHANGED limits /\ LimitTypes => LimitTypes'
  /\ UNCHANGED records /\ RecordTypes => RecordTypes'
  /\ UNCHANGED registry /\ RegistryTypes => RegistryTypes'
  /\ UNCHANGED <<up, faults>> /\ SideTypes => SideTypes'
  /\ UNCHANGED composition /\ CompositionTypes => CompositionTypes'
<1>1. UNCHANGED request /\ RequestTypes => RequestTypes'
  BY DEF request, RequestTypes
<1>2. UNCHANGED limits /\ LimitTypes => LimitTypes'
  BY DEF limits, LimitTypes
<1>3. UNCHANGED records /\ RecordTypes => RecordTypes'
  BY DEF records, RecordTypes
<1>4. UNCHANGED registry /\ RegistryTypes => RegistryTypes'
  BY DEF registry, RegistryTypes
<1>5. UNCHANGED <<up, faults>> /\ SideTypes => SideTypes'
  BY DEF SideTypes
<1>6. UNCHANGED composition /\ CompositionTypes => CompositionTypes'
  BY DEF composition, CompositionTypes, Calls, Route
<1> QED BY <1>1, <1>2, <1>3, <1>4, <1>5, <1>6

\* A request moves: to a step within the house, or to one at its door.
LEMMA MoveTypes ==
  ASSUME RequestTypes, NEW r \in Requests, NEW s \in Steps, NEW code \in Statuses,
         pc' = [pc EXCEPT ![r] = s], answer' = [answer EXCEPT ![r] = code],
         s \in Door \/ cred[r] \in Keys, s = "audit" => code \in Denials, UNCHANGED cred,
         mark' \in [Requests -> Windows],
         owned' \in [Requests -> Instances \cup {NoInstance}],
         loaded' \in [Requests -> Secrets \cup {NoSecret}],
         outcome' \in [Requests -> Outcomes]
  PROVE  RequestTypes'
  BY DEF RequestTypes

LEMMA ReplyTypes ==
  ASSUME RequestTypes, NEW r \in Requests, NEW code \in Statuses,
         Answer(r, code) \/ (Refuse(r, code) /\ code \in Denials), UNCHANGED <<cred, mark, owned, loaded>>,
         outcome' \in [Requests -> Outcomes]
  PROVE  RequestTypes'
<1>1. CASE Answer(r, code)
  BY <1>1, MoveTypes DEF Answer, RequestTypes, Steps, Door
<1>2. CASE Refuse(r, code) /\ code \in Denials
  BY <1>2, MoveTypes DEF Refuse, RequestTypes, Steps, Door
<1> QED BY <1>1, <1>2

LEMMA GotoTypes ==
  ASSUME RequestTypes, NEW r \in Requests, NEW s \in Steps \ Door, Goto(r, s), cred[r] \in Keys,
         UNCHANGED <<cred, outcome>>, mark' \in [Requests -> Windows],
         owned' \in [Requests -> Instances \cup {NoInstance}],
         loaded' \in [Requests -> Secrets \cup {NoSecret}]
  PROVE  RequestTypes'
<1>1. answer' = [answer EXCEPT ![r] = answer[r]] /\ answer[r] \in Statuses
  BY DEF RequestTypes, Goto
<1> QED BY <1>1, MoveTypes DEF Goto, RequestTypes, Door

LEMMA RecordingTypes ==
  ASSUME RecordTypes, SideTypes, NEW r \in Requests, NEW e \in Events, Record(r, e),
         UNCHANGED up
  PROVE  RecordTypes' /\ SideTypes'
  BY ApiBounds DEF RecordTypes, SideTypes, Record

\* Whoever is past the door has a key.
LEMMA WithKey == ASSUME RequestTypes, NEW r \in Requests, pc[r] \notin Door
                 PROVE  cred[r] \in Keys
  BY DEF RequestTypes

LEMMA AskTypes ==
  ASSUME Types, NEW r \in Requests, AskForToken(r), cred[r] \in Keys,
         UNCHANGED <<cred, outcome, loaded>>,
         owned' \in [Requests -> Instances \cup {NoInstance}]
  PROVE  RequestTypes'
<1>1. mark' \in [Requests -> Windows]
  BY DEF AskForToken, Types, RequestTypes, LimitTypes
<1> QED BY <1>1, GotoTypes DEF AskForToken, Types, RequestTypes, Steps, Door

-----------------------------------------------------------------------------
LEMMA EnterTypes == ASSUME Types, NEW r \in Requests, Enter(r) PROVE Types'
<1> USE DEF Types
<1>1. (LimitTypes /\ RecordTypes /\ RegistryTypes /\ SideTypes /\ CompositionTypes)'
  BY KeptTypes DEF Enter, NoRoute, Unauthenticated, Admit, composition, registry, vars
<1>2. CASE NoRoute(r)
  BY <1>1, <1>2, ReplyTypes DEF NoRoute, Statuses, RequestTypes
<1>3. CASE Unauthenticated(r)
  BY <1>1, <1>3, ReplyTypes DEF Unauthenticated, Statuses, RequestTypes, Denials
<1>4. CASE Admit(r)
  <2>1. PICK k \in Keys :
          /\ cred' = [cred EXCEPT ![r] = k]
          /\ \E s \in Steps, code \in Statuses :
               /\ pc' = [pc EXCEPT ![r] = s] /\ answer' = [answer EXCEPT ![r] = code]
               /\ s = "audit" => code \in Denials
          /\ mark' \in [Requests -> Windows]
    <3>1. PICK k \in Matching(shape[r].secret) :
            /\ cred' = [cred EXCEPT ![r] = k]
            /\ \/ Answer(r, 400) /\ UNCHANGED mark
               \/ Answer(r, 501) /\ UNCHANGED mark
               \/ AskForToken(r)
               \/ Refuse(r, 403) /\ UNCHANGED mark
               \/ Goto(r, "owner") /\ UNCHANGED mark
      BY <1>4 DEF Admit
    <3>2. k \in Keys
      BY <3>1 DEF Matching
    <3>3. mark' \in [Requests -> Windows]
      BY <3>1 DEF AskForToken, RequestTypes, LimitTypes
    <3>4. \E s \in Steps, code \in Statuses :
            /\ pc' = [pc EXCEPT ![r] = s] /\ answer' = [answer EXCEPT ![r] = code]
            /\ s = "audit" => code \in Denials
      <4>1. answer = [answer EXCEPT ![r] = answer[r]] /\ answer[r] \in Statuses
        BY DEF RequestTypes
      <4> QED BY <3>1, <4>1 DEF Answer, Refuse, AskForToken, Goto, Steps, Statuses, Denials
    <3> QED BY <3>1, <3>2, <3>3, <3>4
  <2>2. UNCHANGED <<owned, loaded, outcome>>
    BY <1>4 DEF Admit
  <2>3. RequestTypes'
    BY <2>1, <2>2 DEF RequestTypes
  <2> QED BY <1>1, <2>3
<1> QED BY <1>1, <1>2, <1>3, <1>4 DEF Enter

LEMMA ResolveTypes == ASSUME Types, NEW r \in Requests, Resolve(r) PROVE Types'
<1>1. (LimitTypes /\ RecordTypes /\ RegistryTypes /\ SideTypes /\ CompositionTypes)'
  BY KeptTypes DEF Resolve, composition, registry, Types
<1>2. pc[r] = "owner" /\ UNCHANGED <<cred, outcome, loaded>>
  BY DEF Resolve, At
<1>3. cred[r] \in Keys
  BY <1>2, WithKey DEF Door, Types
<1>4. owned' \in [Requests -> Instances \cup {NoInstance}]
  <2>1. UNCHANGED owned \/ (/\ OwnerOf(r) \in Holder(r).instances
                           /\ owned' = [owned EXCEPT ![r] = OwnerOf(r)])
    BY DEF Resolve
  <2>2. shape[r].owner \in Instances \cup {NoInstance}
    BY DEF Types, CompositionTypes, Shape
  <2>3. OwnerOf(r) \in Instances \cup {NoInstance}
    BY <2>2 DEF OwnerOf
  <2> QED BY <2>1, <2>3 DEF Types, RequestTypes
<1>5. RequestTypes'
  <2>1. CASE AskForToken(r)
    BY <2>1, <1>2, <1>3, <1>4, AskTypes
  <2>2. CASE Refuse(r, 403) /\ UNCHANGED <<mark, owned>>
    BY <2>2, <1>2, ReplyTypes DEF Types, Statuses, RequestTypes, Denials
  <2>3. CASE Goto(r, "bypass") /\ UNCHANGED <<mark, owned>>
    BY <2>3, <1>2, <1>3, GotoTypes DEF Types, Steps, RequestTypes, Door
  <2> QED BY <2>1, <2>2, <2>3 DEF Resolve
<1> QED BY <1>1, <1>5 DEF Types

LEMMA RecordingStepTypes ==
  ASSUME Types, NEW r \in Requests,
         RecordBypass(r) \/ RecordDenial(r) \/ RecordAdminAction(r)
  PROVE  Types'
<1>1. (LimitTypes /\ RegistryTypes /\ CompositionTypes)'
  BY KeptTypes DEF RecordBypass, RecordDenial, RecordAdminAction, composition, registry, Types
<1>2. UNCHANGED <<cred, owned, loaded, outcome, up>>
  BY DEF RecordBypass, RecordDenial, RecordAdminAction
<1>3. CASE RecordBypass(r)
  <2>1. cred[r] \in Keys
    BY <1>3, WithKey DEF RecordBypass, At, Door, Types
  <2>2. RequestTypes'
    BY <1>2, <1>3, <2>1, AskTypes DEF RecordBypass, Types, RequestTypes
  <2>3. RecordTypes' /\ SideTypes'
    BY <1>2, <1>3, RecordingTypes DEF RecordBypass, Types, Events
  <2> QED BY <1>1, <2>2, <2>3 DEF Types
<1>4. CASE RecordDenial(r)
  <2>1. RequestTypes'
    <3>1. answer' = [answer EXCEPT ![r] = answer[r]] /\ answer[r] \in Statuses
      BY <1>4 DEF RecordDenial, Types, RequestTypes
    <3>2. UNCHANGED mark /\ pc' = [pc EXCEPT ![r] = "answered"]
      BY <1>4 DEF RecordDenial
    <3> QED BY <1>2, <3>1, <3>2, MoveTypes DEF Types, RequestTypes, Steps, Door
  <2>2. RecordTypes' /\ SideTypes'
    <3>1. answer[r] \in Denials
      BY <1>4 DEF RecordDenial, At, Types, RequestTypes
    <3>2. DenialEvent(answer[r]) \in Events
      BY <3>1 DEF DenialEvent, Denials, Events
    <3> QED BY <1>2, <1>4, <3>2, RecordingTypes DEF RecordDenial, Types
  <2> QED BY <1>1, <2>1, <2>2 DEF Types
<1>5. CASE RecordAdminAction(r)
  <2>1. RequestTypes'
    <3>1. Answer(r, 201) \/ Answer(r, 200)
      BY <1>5 DEF RecordAdminAction
    <3>2. UNCHANGED mark
      BY <1>5 DEF RecordAdminAction
    <3> QED BY <1>2, <3>1, <3>2, ReplyTypes DEF Types, Statuses, RequestTypes
  <2>2. RecordTypes' /\ SideTypes'
    BY <1>2, <1>5, RecordingTypes DEF RecordAdminAction, Types, Events
  <2> QED BY <1>1, <2>1, <2>2 DEF Types
<1> QED BY <1>3, <1>4, <1>5

\* Whoever asks for a token asks a bucket for it, in a window.
LEMMA BucketTypes == ASSUME Types, NEW r \in Requests, pc[r] \notin Door
                     PROVE  Bucket(r) \in Buckets /\ Window(r) \in Windows
<1>1. shape[r].proc \in Processes /\ shape[r].ref \in Refs \cup {NoRef}
  BY DEF Types, CompositionTypes, Shape
<1>2. EndpointClass(Route(r)) \in Classes
  BY DEF EndpointClass, Classes
<1>3. owned[r] \in Instances \cup {NoInstance} /\ cred[r] \in Keys
  BY WithKey DEF Types, RequestTypes
<1>4. Bucket(r) \in Buckets
  BY <1>1, <1>2, <1>3 DEF Bucket, Buckets, Stores, Scopes
<1>5. Window(r) \in Windows
  BY DEF Window, Types, RequestTypes, LimitTypes
<1> QED BY <1>4, <1>5

LEMMA TokenTypes == ASSUME Types, NEW r \in Requests, TakeToken(r) \/ Unlimited(r)
                    PROVE  Types'
<1>1. (RecordTypes /\ RegistryTypes /\ SideTypes /\ CompositionTypes)'
  BY KeptTypes DEF TakeToken, Unlimited, composition, registry, Types
<1>2. pc[r] = "token" /\ UNCHANGED <<cred, mark, owned, loaded, outcome>>
  BY DEF TakeToken, Unlimited, At
<1>3. cred[r] \in Keys
  BY <1>2, WithKey DEF Door, Types
<1>4. RequestTypes'
  <2>1. CASE Refuse(r, 429)
    BY <2>1, <1>2, ReplyTypes DEF Types, Statuses, RequestTypes, Denials
  <2>2. CASE Proceed(r)
    <3>1. Refuse(r, 403) \/ Answer(r, 501) \/ \E s \in {"replay", "key", "intent"} : Goto(r, s)
      BY <2>2 DEF Proceed
    <3>2. CASE Refuse(r, 403) \/ Answer(r, 501)
      BY <3>2, <1>2, ReplyTypes DEF Types, Statuses, RequestTypes, Denials
    <3>3. CASE \E s \in {"replay", "key", "intent"} : Goto(r, s)
      BY <3>3, <1>2, <1>3, GotoTypes DEF Types, Steps, RequestTypes, Door
    <3> QED BY <3>1, <3>2, <3>3
  <2> QED BY <2>1, <2>2 DEF TakeToken, Unlimited
<1>5. Bucket(r) \in Buckets /\ Window(r) \in Windows
  BY <1>2, BucketTypes DEF Door
<1>6. LimitTypes'
  <2>1. CASE Unlimited(r)
    BY <2>1, KeptTypes DEF Unlimited, Types
  <2>2. CASE TakeToken(r)
    <3> DEFINE b == Bucket(r)  w == Window(r)  n == Count(b, w)
    <3>1. n \in 0..Limit
      BY <1>5, ApiBounds DEF Count, Types, LimitTypes, Counter
    <3>2. /\ Forget(b, w) /\ clock' = clock
          /\ \/ n < Limit /\ SetCount(b, w, n + 1) /\ spent' = [spent EXCEPT ![r] = <<b, w>>]
             \/ SetCount(b, w, n) /\ UNCHANGED spent
      BY <2>2 DEF TakeToken
    <3>3. ASSUME NEW m \in 0..Limit, SetCount(b, w, m)
          PROVE  /\ DOMAIN counts' \subseteq Buckets
                 /\ \A c \in DOMAIN counts' : counts'[c] \in Counter
      BY <3>3, <1>5 DEF SetCount, Types, LimitTypes, Counter
    <3>4. forgotten' \subseteq Buckets \X Windows
      <4>1. b \in DOMAIN counts => w..counts[b].window \subseteq Windows
        BY <1>5, ApiBounds DEF Types, LimitTypes, Counter, Windows
      <4> QED BY <3>2, <4>1, <1>5 DEF Forget, Types, LimitTypes
    <3>5. spent' \in [Requests -> {<< >>} \cup (Buckets \X Windows)]
      BY <3>2, <1>5 DEF Types, LimitTypes
    <3>6. /\ DOMAIN counts' \subseteq Buckets
          /\ \A c \in DOMAIN counts' : counts'[c] \in Counter
      BY <3>1, <3>2, <3>3, ApiBounds
    <3> QED BY <3>2, <3>4, <3>5, <3>6 DEF LimitTypes, Types
  <2> QED BY <2>1, <2>2
<1> QED BY <1>1, <1>4, <1>6 DEF Types

\* What happens to a request in the house, with nothing else changed.
LEMMA InHouseTypes ==
  ASSUME Types, NEW r \in Requests,
         \/ StoreIntent(r) \/ Dispatch(r) \/ HandlerReturns(r) \/ ReplayStream(r)
         \/ ListKeys(r) \/ LoadKey(r) \/ CheckId(r) \/ CheckSecret(r)
  PROVE  Types'
<1> DEFINE Replies == {200, 202, 400, 401, 403, 404, 409, 500, 503}
           Rooms   == {"dispatch", "handler", "noted", "retire", "id", "secret", "save"}
<1>1. (LimitTypes /\ RecordTypes /\ RegistryTypes /\ SideTypes /\ CompositionTypes)'
  BY KeptTypes
  DEF StoreIntent, Dispatch, HandlerReturns, ReplayStream, ListKeys, LoadKey, CheckId,
      CheckSecret, composition, registry, Types
<1>2. cred[r] \in Keys
  BY WithKey DEF StoreIntent, Dispatch, HandlerReturns, ReplayStream, ListKeys, LoadKey,
                 CheckId, CheckSecret, At, Door, Types
<1>3. UNCHANGED <<cred, mark, owned>>
  BY DEF StoreIntent, Dispatch, HandlerReturns, ReplayStream, ListKeys, LoadKey, CheckId,
         CheckSecret
<1>4. loaded' \in [Requests -> Secrets \cup {NoSecret}]
  <2>1. CASE LoadKey(r)
    <3>1. CASE UNCHANGED loaded
      BY <3>1 DEF Types, RequestTypes
    <3>2. CASE /\ keys[shape[r].ref].status = "active"
               /\ loaded' = [loaded EXCEPT ![r] = keys[shape[r].ref].secret]
      <4>1. shape[r].ref \in Keys
        BY <2>1 DEF LoadKey, Types, CompositionTypes
      <4>2. keys[shape[r].ref].secret \in Secrets \cup {NoSecret}
        BY <4>1 DEF Types, RegistryTypes, KeyRecord
      <4> QED BY <3>2, <4>2 DEF Types, RequestTypes
    <3> QED BY <2>1, <3>1, <3>2 DEF LoadKey
  <2> QED BY <2>1 DEF StoreIntent, Dispatch, HandlerReturns, ReplayStream, ListKeys, CheckId,
                      CheckSecret, Types, RequestTypes
<1>5. outcome' \in [Requests -> Outcomes]
  <2>1. CASE HandlerReturns(r)
    <3>1. PICK o \in MayReturn(r) : outcome' = [outcome EXCEPT ![r] = o]
      BY <2>1 DEF HandlerReturns
    <3>2. o \in Outcomes
      BY <3>1 DEF MayReturn, Outcomes
    <3> QED BY <3>1, <3>2 DEF Types, RequestTypes
  <2> QED BY <2>1 DEF StoreIntent, Dispatch, ReplayStream, ListKeys, LoadKey, CheckId,
                      CheckSecret, Types, RequestTypes
<1>6. \/ \E code \in Replies : Answer(r, code)
      \/ Refuse(r, 401) \/ Refuse(r, 403)
      \/ \E s \in Rooms : Goto(r, s)
  <2>1. CASE HandlerReturns(r)
    BY <2>1 DEF HandlerReturns, StatusOf
  <2>2. CASE StoreIntent(r)
    BY <2>2 DEF StoreIntent
  <2>3. CASE Dispatch(r)
    BY <2>3 DEF Dispatch
  <2>4. CASE LoadKey(r)
    BY <2>4 DEF LoadKey
  <2>5. CASE ReplayStream(r) \/ ListKeys(r) \/ CheckId(r) \/ CheckSecret(r)
    BY <2>5 DEF ReplayStream, ListKeys, CheckId, CheckSecret
  <2> QED BY <2>1, <2>2, <2>3, <2>4, <2>5
<1>7. RequestTypes'
  <2>1. CASE \E code \in Replies : Answer(r, code)
    <3>1. PICK code \in Replies : Answer(r, code)
      BY <2>1
    <3>2. code \in Statuses /\ "answered" \in Steps \cap Door /\ "answered" # "audit"
      BY DEF Statuses, Steps, Door
    <3> QED BY <1>3, <1>4, <1>5, <3>1, <3>2, MoveTypes DEF Answer, Types, RequestTypes
  <2>2. ASSUME NEW code \in {401, 403}, Refuse(r, code) PROVE RequestTypes'
    <3>1. code \in Statuses /\ code \in Denials /\ "audit" \in Steps \cap Door
      BY DEF Statuses, Denials, Steps, Door
    <3> QED BY <1>3, <1>4, <1>5, <2>2, <3>1, MoveTypes DEF Refuse, Types, RequestTypes
  <2>3. CASE \E s \in Rooms : Goto(r, s)
    <3>1. PICK s \in Rooms : Goto(r, s)
      BY <2>3
    <3>2. s \in Steps /\ s # "audit"
      BY DEF Steps
    <3>3. answer' = [answer EXCEPT ![r] = answer[r]] /\ answer[r] \in Statuses
      BY <3>1 DEF Goto, Types, RequestTypes
    <3> QED BY <1>2, <1>3, <1>4, <1>5, <3>1, <3>2, <3>3, MoveTypes
            DEF Goto, Types, RequestTypes
  <2> QED BY <1>6, <2>1, <2>2, <2>3
<1> QED BY <1>1, <1>7 DEF Types

LEMMA FailTypes ==
  ASSUME Types, NEW r \in Requests,
         ResolverFails(r) \/ StoreFails(r) \/ HandlerThrows(r) \/ SaveFails(r)
  PROVE  Types'
<1>1. (LimitTypes /\ RecordTypes /\ RegistryTypes /\ CompositionTypes)'
  BY KeptTypes DEF ResolverFails, StoreFails, HandlerThrows, SaveFails, composition, registry,
                   Types
<1>2. SideTypes'
  BY ApiBounds DEF ResolverFails, StoreFails, HandlerThrows, SaveFails, SideTypes, Types
<1>3. UNCHANGED <<cred, mark, owned, loaded, outcome>>
  BY DEF ResolverFails, StoreFails, HandlerThrows, SaveFails
<1>4. RequestTypes'
  <2>1. Refuse(r, 403) \/ Answer(r, 503) \/ Answer(r, 500) \/ Answer(r, 400)
    BY DEF ResolverFails, StoreFails, HandlerThrows, SaveFails
  <2> QED BY <1>3, <2>1, ReplyTypes DEF Types, Statuses, Denials, RequestTypes
<1> QED BY <1>1, <1>2, <1>4 DEF Types

LEMMA WriteTypes == ASSUME Types, NEW r \in Requests, Retire(r) \/ SaveKey(r)
                    PROVE  Types'
<1>1. (LimitTypes /\ RecordTypes /\ SideTypes /\ CompositionTypes)'
  BY KeptTypes DEF Retire, SaveKey, composition, Types
<1>2. UNCHANGED <<cred, mark, owned, loaded, outcome>>
  BY DEF Retire, SaveKey
<1>3. cred[r] \in Keys
  BY WithKey DEF Retire, SaveKey, At, Door, Types
<1>4. RequestTypes'
  <2>1. Goto(r, "save") \/ Goto(r, "noted")
    BY DEF Retire, SaveKey
  <2> QED BY <1>2, <1>3, <2>1, GotoTypes DEF Types, Steps, Door, RequestTypes
<1>5. RegistryTypes'
  <2>1. CASE Retire(r)
    <3>1. [status |-> "revoked", secret |-> loaded[r]] \in KeyRecord
      BY DEF KeyRecord, Types, RequestTypes
    <3> QED BY <2>1, <3>1 DEF Retire, RegistryTypes, Types
  <2>2. CASE SaveKey(r)
    <3>1. shape[r].newSecret \in Secrets \cup {NoSecret}
      BY DEF Types, CompositionTypes, Shape
    <3>2. [status |-> "active", secret |-> shape[r].newSecret] \in KeyRecord
      BY <3>1 DEF KeyRecord
    <3> QED BY <2>2, <3>2 DEF SaveKey, RegistryTypes, Types
  <2> QED BY <2>1, <2>2
<1> QED BY <1>1, <1>4, <1>5 DEF Types

LEMMA ProcessTypes ==
  ASSUME Types, \/ \E p \in Processes : Crash(p) \/ Restart(p)
                \/ \E r \in Requests : Rejected(r)
                \/ NextWindow
  PROVE  Types'
<1>1. CASE \/ \E p \in Processes : Crash(p)
           \/ \E r \in Requests : Rejected(r)
  <2>1. faults < MaxFaults /\ faults' = faults + 1
    BY <1>1 DEF Crash, Rejected
  <2>2. \A r \in Requests : shape[r].proc \in Processes
    BY DEF Types, CompositionTypes, Shape
  <2>3. PICK p \in Processes : Die(p)
    BY <1>1, <2>2 DEF Crash, Rejected
  <2>4. (RecordTypes /\ RegistryTypes /\ CompositionTypes)'
    BY <2>3, KeptTypes DEF Die, Types
  <2>5. RequestTypes'
    BY <2>3 DEF Die, Types, RequestTypes, Steps, Door
  <2>6. LimitTypes'
    BY <2>3 DEF Die, Types, LimitTypes, Counter
  <2>7. SideTypes'
    BY <2>1, <2>3, ApiBounds DEF Die, Types, SideTypes
  <2> QED BY <2>4, <2>5, <2>6, <2>7 DEF Types
<1>2. ASSUME NEW p \in Processes, Restart(p) PROVE Types'
  <2>1. SideTypes'
    BY <1>2 DEF Restart, Types, SideTypes
  <2> QED BY <1>2, <2>1, KeptTypes DEF Restart, Types
<1>3. CASE NextWindow
  <2>1. UNCHANGED request
    BY <1>3 DEF NextWindow
  <2>2. LimitTypes'
    BY <1>3, ApiBounds DEF NextWindow, Types, LimitTypes, Windows
  <2> QED BY <1>3, <2>1, <2>2, KeptTypes DEF NextWindow, Types
<1> QED BY <1>1, <1>2, <1>3

LEMMA NextTypes == Types /\ [Next]_vars => Types'
<1> SUFFICES ASSUME Types, [Next]_vars PROVE Types'
  OBVIOUS
<1>1. ASSUME NEW r \in Requests, Enter(r) \/ Pass(r) \/ KeyCall(r) \/ CallFails(r)
      PROVE  Types'
  BY <1>1, EnterTypes, ResolveTypes, RecordingStepTypes, TokenTypes, InHouseTypes, FailTypes,
     WriteTypes, ProcessTypes DEF Pass, KeyCall, CallFails
<1>2. CASE UNCHANGED vars
  BY <1>2, KeptTypes DEF vars, Types
<1> QED BY <1>1, <1>2, ProcessTypes DEF Next

LEMMA TypesAlways == Spec => []Types
  BY InitTypes, NextTypes, PTL DEF Spec

\* TypeOK follows: it asks no more.
LEMMA TypesGiveTypeOK == Types => TypeOK
  BY DEF Types, RequestTypes, LimitTypes, RecordTypes, RegistryTypes, SideTypes,
         CompositionTypes, TypeOK, Door

\* Type invariant: requests, keys, counters and records are what they are said to be;
\* a counter never passes the limit, and only who has a key is past the door.
THEOREM TypeCorrect == Spec => []TypeOK
  BY TypesAlways, TypesGiveTypeOK, PTL

(***************************************************************************)
(* Part 2.  The keys.  What a call about a key knows of it: which call it  *)
(* is, that the key it is to revoke is there, and that the id it is to     *)
(* register was free, or another call has come between.                    *)
(***************************************************************************)

Registers(r) == Calls(r, "provision") \/ Calls(r, "rotate")
Retires(r) == Calls(r, "revoke") \/ Calls(r, "rotate")

Over == {"noted", "answered", "lost"}
Working == {"id", "secret", "retire", "save"}

CallsFit ==
  \A r \in Requests : /\ pc[r] = "id" => Calls(r, "rotate")
                      /\ pc[r] \in {"secret", "save"} => Registers(r)
                      /\ pc[r] = "retire" => Retires(r)
                      /\ r \in registered => pc[r] \in Over
                      /\ r \in retired => pc[r] = "save" \/ pc[r] \in Over
RetiredIsThere ==
  \A r \in Requests :
    pc[r] = "retire" \/ (pc[r] \in {"id", "secret"} /\ Calls(r, "rotate"))
      => keys[shape[r].ref].status # "absent"
IdWasFree ==
  \A r \in Requests :
    pc[r] \in {"secret", "save"} \/ (pc[r] = "retire" /\ Registers(r))
      => \/ keys[shape[r].newKey].status = "absent"
         \/ \E q \in Registering(shape[r].newKey) : q # r
KeyInv == CallsFit /\ RetiredIsThere /\ IdWasFree /\ SomeKeyWorks

LEMMA InitKeys == Init => KeyInv
<1> SUFFICES ASSUME Init PROVE KeyInv
  OBVIOUS
<1>1. CallsFit /\ RetiredIsThere /\ IdWasFree
  BY DEF Init, CallsFit, RetiredIsThere, IdWasFree, Over
<1>2. SomeKeyWorks
  BY ApiIds DEF Init, SomeKeyWorks
<1> QED BY <1>1, <1>2 DEF KeyInv

\* A call that makes no use of the keys now.
LEMMA AsideKeys ==
  ASSUME KeyInv, UNCHANGED <<composition, registry>>, NEW r \in Requests, NEW s,
         pc \in [Requests -> Steps], pc' = [pc EXCEPT ![r] = s],
         s \notin Working \cup {"new"}, pc[r] \in Over \cup {"save"} => s \in Over
  PROVE  KeyInv'
<1>1. \A q, a : Calls(q, a)' = Calls(q, a)
  BY DEF composition, Calls, Route
<1>2. CallsFit'
  BY <1>1 DEF KeyInv, CallsFit, Registers, Retires, composition, registry, Working, Over
<1>3. RetiredIsThere'
  BY <1>1 DEF KeyInv, RetiredIsThere, composition, registry, Working
<1>5. IdWasFree'
  <2> SUFFICES ASSUME NEW q \in Requests,
                      (\/ pc[q] \in {"secret", "save"}
                       \/ (pc[q] = "retire" /\ Registers(q)))'
               PROVE  (\/ keys[shape[q].newKey].status = "absent"
                       \/ \E p \in Registering(shape[q].newKey) : p # q)'
    BY DEF IdWasFree
  <2>1. pc[q] \in {"secret", "save"} \/ (pc[q] = "retire" /\ Registers(q))
    BY <1>1 DEF Working, Registers
  <2>2. \/ keys[shape[q].newKey].status = "absent"
        \/ \E p \in Registering(shape[q].newKey) : p # q
    BY <2>1 DEF KeyInv, IdWasFree
  <2>3. \A p \in Registering(shape[q].newKey) : p \in Registering(shape[q].newKey)'
    BY <1>1 DEF Registering, composition
  <2> QED BY <2>2, <2>3 DEF composition, registry
<1>6. SomeKeyWorks'
  BY <1>1 DEF KeyInv, SomeKeyWorks, registry
<1> QED BY <1>2, <1>3, <1>5, <1>6 DEF KeyInv

\* The same of calls that only read keys: they move on with what they have seen.
LEMMA ReadingKeys ==
  ASSUME Types, KeyInv, NEW r \in Requests, LoadKey(r) \/ CheckId(r) \/ CheckSecret(r)
  PROVE  KeyInv'
<1>1. \A q, a : Calls(q, a)' = Calls(q, a)
  BY DEF LoadKey, CheckId, CheckSecret, composition, Calls, Route
<1>2. UNCHANGED <<composition, registry>> /\ pc \in [Requests -> Steps]
  BY DEF LoadKey, CheckId, CheckSecret, Types, RequestTypes
<1>3. pc[r] \in {"key", "id", "secret"} /\ r \notin registered /\ r \notin retired
  BY DEF LoadKey, CheckId, CheckSecret, At, KeyInv, CallsFit, Over
<1>4. CASE \E code \in {400, 404, 409} : Answer(r, code)
  <2>1. pc' = [pc EXCEPT ![r] = "answered"]
    BY <1>4 DEF Answer
  <2>2. "answered" \notin Working \cup {"new"} /\ "answered" \in Over
    BY DEF Working, Over
  <2> QED BY <1>2, <2>1, <2>2, AsideKeys
<1>5. CASE Goto(r, "noted")
  BY <1>2, <1>3, <1>5, AsideKeys DEF Goto, Working, Over
<1>6. ASSUME NEW s \in {"id", "secret", "retire", "save"}, Goto(r, s),
             s \in {"secret", "save"} => Registers(r), s = "retire" => Retires(r),
             s = "id" => Calls(r, "rotate"),
             s = "retire" \/ (s \in {"id", "secret"} /\ Calls(r, "rotate"))
               => keys[shape[r].ref].status # "absent",
             s \in {"secret", "save"} \/ (s = "retire" /\ Registers(r))
               => \/ keys[shape[r].newKey].status = "absent"
                  \/ \E q \in Registering(shape[r].newKey) : q # r
      PROVE  KeyInv'
  <2>1. pc' = [pc EXCEPT ![r] = s]
    BY <1>6 DEF Goto
  <2>2. CallsFit'
    BY <1>1, <1>2, <1>3, <1>6, <2>1
    DEF KeyInv, CallsFit, Registers, Retires, registry, Over
  <2>3. RetiredIsThere'
    BY <1>1, <1>2, <1>6, <2>1 DEF KeyInv, RetiredIsThere, composition, registry
  <2>4. IdWasFree'
    <3> SUFFICES ASSUME NEW q \in Requests,
                        (\/ pc[q] \in {"secret", "save"}
                         \/ (pc[q] = "retire" /\ Registers(q)))'
                 PROVE  (\/ keys[shape[q].newKey].status = "absent"
                         \/ \E p \in Registering(shape[q].newKey) : p # q)'
      BY DEF IdWasFree
    <3>1. \/ keys[shape[q].newKey].status = "absent"
          \/ \E p \in Registering(shape[q].newKey) : p # q
      <4>1. CASE q = r
        BY <1>1, <1>2, <1>6, <2>1, <4>1 DEF Registers
      <4>2. CASE q # r
        BY <1>1, <1>2, <2>1, <4>2 DEF KeyInv, IdWasFree, Registers
      <4> QED BY <4>1, <4>2
    <3>2. \A p \in Registering(shape[q].newKey) : p \in Registering(shape[q].newKey)'
      BY <1>1, <1>2, <2>1 DEF Registering, composition
    <3> QED BY <1>2, <3>1, <3>2 DEF composition, registry
  <2>5. SomeKeyWorks'
    BY <1>1, <1>2 DEF KeyInv, SomeKeyWorks, registry
  <2> QED BY <2>2, <2>3, <2>4, <2>5 DEF KeyInv
<1>7. CASE LoadKey(r)
  <2>1. CASE keys[shape[r].ref].status # "active"
    BY <1>4, <1>5, <1>7, <2>1 DEF LoadKey
  <2>2. CASE keys[shape[r].ref].status = "active"
    <3>1. Goto(r, IF Calls(r, "revoke") THEN "retire" ELSE "id")
      BY <1>7, <2>2 DEF LoadKey
    <3>2. Calls(r, "revoke") => ~Calls(r, "rotate") /\ ~Calls(r, "provision")
      BY DEF Calls
    <3>3. Retires(r) /\ (~Calls(r, "revoke") => Calls(r, "rotate"))
      BY <1>7 DEF LoadKey, Retires
    <3> QED BY <1>6, <2>2, <3>1, <3>2, <3>3 DEF Registers
  <2> QED BY <2>1, <2>2
<1>8. CASE CheckId(r)
  <2>1. CASE ~FreeId(shape[r].newKey)
    BY <1>4, <1>8, <2>1 DEF CheckId
  <2>2. CASE FreeId(shape[r].newKey)
    <3>1. Goto(r, "secret")
      BY <1>8, <2>2 DEF CheckId
    <3>2. pc[r] = "id" \/ (pc[r] = "key" /\ Calls(r, "provision"))
      BY <1>8 DEF CheckId, At
    <3>3. Registers(r)
      BY <3>2 DEF KeyInv, CallsFit, Registers
    <3>4. Calls(r, "rotate") => keys[shape[r].ref].status # "absent"
      BY <3>2 DEF KeyInv, RetiredIsThere, Calls
    <3> QED BY <1>6, <2>2, <3>1, <3>3, <3>4 DEF FreeId
  <2> QED BY <2>1, <2>2
<1>9. CASE CheckSecret(r)
  <2>1. pc[r] = "secret" /\ Registers(r)
    BY <1>9 DEF CheckSecret, At, KeyInv, CallsFit
  <2>2. \/ Answer(r, 409)
        \/ Goto(r, IF Calls(r, "rotate") THEN "retire" ELSE "save")
    BY <1>9 DEF CheckSecret
  <2>3. /\ Calls(r, "rotate") => keys[shape[r].ref].status # "absent"
        /\ \/ keys[shape[r].newKey].status = "absent"
           \/ \E q \in Registering(shape[r].newKey) : q # r
    BY <2>1 DEF KeyInv, RetiredIsThere, IdWasFree
  <2> QED BY <1>4, <1>6, <2>1, <2>2, <2>3 DEF Retires
<1> QED BY <1>7, <1>8, <1>9

\* Writing a record: what another call has found free may be free no longer, and
\* then the writer is the other one that registers it, or has retired it.
LEMMA RetireKeys == ASSUME Types, KeyInv, NEW r \in Requests, Retire(r) PROVE KeyInv'
<1>1. \A q, a : Calls(q, a)' = Calls(q, a)
  BY DEF Retire, composition, Calls, Route
<1>2. UNCHANGED composition /\ registered' = registered /\ retired' = retired \cup {r}
  BY DEF Retire
<1>3. pc' = [pc EXCEPT ![r] = IF Calls(r, "rotate") THEN "save" ELSE "noted"]
  BY DEF Retire, Goto
<1>4. pc[r] = "retire" /\ Retires(r) /\ r \notin registered
  BY DEF Retire, At, KeyInv, CallsFit, Over
<1>5. shape[r].ref \in Keys /\ keys[shape[r].ref].status # "absent"
  BY <1>4 DEF Types, CompositionTypes, Retires, KeyInv, RetiredIsThere
<1>6. \A k \in Keys : keys'[k].status = "absent" <=> keys[k].status = "absent"
  BY <1>5 DEF Retire, Types, RegistryTypes
<1>7. CallsFit'
  BY <1>1, <1>2, <1>3, <1>4
  DEF KeyInv, CallsFit, Registers, Retires, Over, Types, RequestTypes
<1>8. RetiredIsThere'
  <2> SUFFICES ASSUME NEW q \in Requests,
                      (\/ pc[q] = "retire"
                       \/ (pc[q] \in {"id", "secret"} /\ Calls(q, "rotate")))'
               PROVE  (keys[shape[q].ref].status # "absent")'
    BY DEF RetiredIsThere
  <2>1. /\ pc[q] = "retire" \/ (pc[q] \in {"id", "secret"} /\ Calls(q, "rotate"))
        /\ q # r
    BY <1>1, <1>3 DEF Types, RequestTypes
  <2>2. keys[shape[q].ref].status # "absent" /\ Retires(q)
    BY <2>1 DEF KeyInv, RetiredIsThere, CallsFit, Retires
  <2>3. shape[q].ref \in Keys
    BY <2>2 DEF Types, CompositionTypes, Retires
  <2> QED BY <1>2, <1>6, <2>2, <2>3 DEF composition
<1>9. IdWasFree'
  <2> SUFFICES ASSUME NEW q \in Requests,
                      (\/ pc[q] \in {"secret", "save"}
                       \/ (pc[q] = "retire" /\ Registers(q)))'
               PROVE  (\/ keys[shape[q].newKey].status = "absent"
                       \/ \E p \in Registering(shape[q].newKey) : p # q)'
    BY DEF IdWasFree
  <2>1. pc[q] \in {"secret", "save"} \/ (pc[q] = "retire" /\ Registers(q))
    BY <1>1, <1>3, <1>4 DEF Types, RequestTypes, Registers
  <2>2. \/ keys[shape[q].newKey].status = "absent"
        \/ \E p \in Registering(shape[q].newKey) : p # q
    BY <2>1 DEF KeyInv, IdWasFree
  <2>3. \A p \in Registering(shape[q].newKey) : p \in Registering(shape[q].newKey)'
    BY <1>1, <1>2, <1>3 DEF Registering, composition, Types, RequestTypes
  <2>4. shape[q].newKey \in Keys
    BY <2>1 DEF KeyInv, CallsFit, Registers, Types, CompositionTypes
  <2> QED BY <1>2, <1>6, <2>2, <2>3, <2>4 DEF composition
<1>10. SomeKeyWorks'
  BY <1>1, <1>2, <1>4 DEF SomeKeyWorks, Retires
<1> QED BY <1>7, <1>8, <1>9, <1>10 DEF KeyInv

LEMMA SaveKeys == ASSUME Types, KeyInv, NEW r \in Requests, SaveKey(r) PROVE KeyInv'
<1>1. \A q, a : Calls(q, a)' = Calls(q, a)
  BY DEF SaveKey, composition, Calls, Route
<1>2. UNCHANGED composition /\ registered' = registered \cup {r} /\ retired' = retired
  BY DEF SaveKey
<1>3. pc' = [pc EXCEPT ![r] = "noted"] /\ pc[r] = "save"
  BY DEF SaveKey, Goto, At
<1>4. Registers(r) /\ shape[r].newKey \in Keys
  BY <1>3 DEF KeyInv, CallsFit, Registers, Types, CompositionTypes
<1>5. /\ keys'[shape[r].newKey].status = "active"
      /\ \A k \in Keys \ {shape[r].newKey} : keys'[k] = keys[k]
  BY <1>4 DEF SaveKey, Types, RegistryTypes
<1>6. CallsFit'
  BY <1>1, <1>2, <1>3 DEF KeyInv, CallsFit, Registers, Retires, Over, Types, RequestTypes
<1>7. RetiredIsThere'
  <2> SUFFICES ASSUME NEW q \in Requests,
                      (\/ pc[q] = "retire"
                       \/ (pc[q] \in {"id", "secret"} /\ Calls(q, "rotate")))'
               PROVE  (keys[shape[q].ref].status # "absent")'
    BY DEF RetiredIsThere
  <2>1. pc[q] = "retire" \/ (pc[q] \in {"id", "secret"} /\ Calls(q, "rotate"))
    BY <1>1, <1>3 DEF Types, RequestTypes
  <2>2. keys[shape[q].ref].status # "absent" /\ Retires(q)
    BY <2>1 DEF KeyInv, RetiredIsThere, CallsFit, Retires
  <2>3. shape[q].ref \in Keys
    BY <2>2 DEF Types, CompositionTypes, Retires
  <2> QED BY <1>2, <1>5, <2>2, <2>3 DEF composition
<1>8. IdWasFree'
  <2> SUFFICES ASSUME NEW q \in Requests,
                      (\/ pc[q] \in {"secret", "save"}
                       \/ (pc[q] = "retire" /\ Registers(q)))'
               PROVE  (\/ keys[shape[q].newKey].status = "absent"
                       \/ \E p \in Registering(shape[q].newKey) : p # q)'
    BY DEF IdWasFree
  <2>1. /\ pc[q] \in {"secret", "save"} \/ (pc[q] = "retire" /\ Registers(q))
        /\ q # r
    BY <1>1, <1>3 DEF Types, RequestTypes, Registers
  <2>2. \/ keys[shape[q].newKey].status = "absent"
        \/ \E p \in Registering(shape[q].newKey) : p # q
    BY <2>1 DEF KeyInv, IdWasFree
  <2>3. \A p \in Registering(shape[q].newKey) : p \in Registering(shape[q].newKey)'
    BY <1>1, <1>2, <1>3 DEF Registering, composition, Types, RequestTypes
  <2>4. shape[q].newKey \in Keys
    BY <2>1 DEF KeyInv, CallsFit, Registers, Types, CompositionTypes
  <2>5. CASE shape[q].newKey = shape[r].newKey
    <3>1. r \in Registering(shape[q].newKey)'
      BY <1>1, <1>2, <1>3, <1>4, <2>5
      DEF Registering, Registers, composition, Types, RequestTypes
    <3> QED BY <1>2, <2>1, <3>1 DEF composition
  <2>6. CASE shape[q].newKey # shape[r].newKey
    BY <1>2, <1>5, <2>2, <2>3, <2>4, <2>6 DEF composition
  <2> QED BY <2>5, <2>6
<1>9. SomeKeyWorks'
  BY <1>4, <1>5 DEF SomeKeyWorks
<1> QED BY <1>6, <1>7, <1>8, <1>9 DEF KeyInv

\* Every other step of a request makes no use of the keys.
LEMMA OtherStepsAside ==
  ASSUME Types, NEW r \in Requests,
         \/ Enter(r) \/ Pass(r) \/ ListKeys(r) \/ RecordAdminAction(r)
         \/ ResolverFails(r) \/ StoreFails(r) \/ HandlerThrows(r) \/ SaveFails(r)
  PROVE  /\ UNCHANGED <<composition, registry>>
         /\ \E s \in Steps \ (Working \cup {"new"}) :
              /\ pc' = [pc EXCEPT ![r] = s]
              /\ pc[r] \in Over \cup Working => s \in Over
         /\ pc[r] \notin {"answered", "lost"}
<1> USE DEF Working, Over, Steps, At, Answer, Refuse, Goto, AskForToken
<1>1. CASE Enter(r)
  BY <1>1 DEF Enter, NoRoute, Unauthenticated, Admit
<1>2. CASE Resolve(r) \/ RecordBypass(r) \/ RecordDenial(r)
  BY <1>2 DEF Resolve, RecordBypass, RecordDenial
<1>3. CASE TakeToken(r) \/ Unlimited(r)
  <2>1. Refuse(r, 429) \/ Proceed(r)
    BY <1>3 DEF TakeToken, Unlimited
  <2>2. UNCHANGED <<composition, registry>> /\ pc[r] = "token"
    BY <1>3 DEF TakeToken, Unlimited
  <2> QED BY <2>1, <2>2 DEF Proceed
<1>4. CASE StoreIntent(r) \/ Dispatch(r)
  BY <1>4 DEF StoreIntent, Dispatch
<1>5. CASE HandlerReturns(r) \/ ReplayStream(r)
  BY <1>5 DEF HandlerReturns, ReplayStream
<1>6. CASE ListKeys(r) \/ RecordAdminAction(r)
  BY <1>6 DEF ListKeys, RecordAdminAction
<1>7. CASE ResolverFails(r) \/ StoreFails(r) \/ HandlerThrows(r) \/ SaveFails(r)
  BY <1>7 DEF ResolverFails, StoreFails, HandlerThrows, SaveFails
<1> QED BY <1>1, <1>2, <1>3, <1>4, <1>5, <1>6, <1>7 DEF Pass

LEMMA DieKeys == ASSUME Types, KeyInv, NEW p \in Processes, Die(p) PROVE KeyInv'
<1>1. \A q, a : Calls(q, a)' = Calls(q, a)
  BY DEF Die, composition, Calls, Route
<1>2. UNCHANGED <<composition, registry>>
  BY DEF Die
<1>3. \A q \in Requests : pc'[q] = pc[q] \/ (pc'[q] = "lost" /\ pc[q] # "new")
  BY DEF Die
<1>4. CallsFit'
  BY <1>1, <1>2, <1>3 DEF KeyInv, CallsFit, Registers, Retires, registry, Over
<1>5. RetiredIsThere'
  BY <1>1, <1>2, <1>3 DEF KeyInv, RetiredIsThere, composition, registry
<1>6. IdWasFree'
  <2> SUFFICES ASSUME NEW q \in Requests,
                      (\/ pc[q] \in {"secret", "save"}
                       \/ (pc[q] = "retire" /\ Registers(q)))'
               PROVE  (\/ keys[shape[q].newKey].status = "absent"
                       \/ \E x \in Registering(shape[q].newKey) : x # q)'
    BY DEF IdWasFree
  <2>1. pc[q] \in {"secret", "save"} \/ (pc[q] = "retire" /\ Registers(q))
    BY <1>1, <1>3 DEF Registers
  <2>2. \/ keys[shape[q].newKey].status = "absent"
        \/ \E x \in Registering(shape[q].newKey) : x # q
    BY <2>1 DEF KeyInv, IdWasFree
  <2>3. \A x \in Registering(shape[q].newKey) : x \in Registering(shape[q].newKey)'
    BY <1>1, <1>2, <1>3 DEF Registering, composition
  <2> QED BY <1>2, <2>2, <2>3 DEF composition, registry
<1>7. SomeKeyWorks'
  BY <1>1, <1>2 DEF KeyInv, SomeKeyWorks, registry
<1> QED BY <1>4, <1>5, <1>6, <1>7 DEF KeyInv

LEMMA KeptKeys == KeyInv /\ UNCHANGED <<composition, registry, pc>> => KeyInv'
<1> SUFFICES ASSUME KeyInv, UNCHANGED <<composition, registry, pc>> PROVE KeyInv'
  OBVIOUS
<1>1. \A q, a : Calls(q, a)' = Calls(q, a)
  BY DEF composition, Calls, Route
<1>2. \A k : Registering(k)' = Registering(k)
  BY <1>1 DEF Registering, composition
<1>3. CallsFit' /\ RetiredIsThere'
  BY <1>1 DEF KeyInv, CallsFit, RetiredIsThere, Registers, Retires, registry, composition
<1>4. IdWasFree'
  BY <1>1, <1>2 DEF KeyInv, IdWasFree, Registers, registry, composition
<1>5. SomeKeyWorks'
  BY <1>1 DEF KeyInv, SomeKeyWorks, registry
<1> QED BY <1>3, <1>4, <1>5 DEF KeyInv

LEMMA NextKeys == Types /\ KeyInv /\ [Next]_vars => KeyInv'
<1> SUFFICES ASSUME Types, KeyInv, [Next]_vars PROVE KeyInv'
  OBVIOUS
<1>1. ASSUME NEW r \in Requests,
             \/ Enter(r) \/ Pass(r) \/ ListKeys(r) \/ RecordAdminAction(r)
             \/ ResolverFails(r) \/ StoreFails(r) \/ HandlerThrows(r) \/ SaveFails(r)
      PROVE  KeyInv'
  <2>1. PICK s \in Steps \ (Working \cup {"new"}) :
          /\ pc' = [pc EXCEPT ![r] = s]
          /\ pc[r] \in Over \cup Working => s \in Over
    BY <1>1, OtherStepsAside
  <2>2. UNCHANGED <<composition, registry>>
    BY <1>1, OtherStepsAside
  <2> QED BY <2>1, <2>2, AsideKeys DEF Types, RequestTypes, Working
<1>2. ASSUME NEW r \in Requests, Rejected(r) PROVE KeyInv'
  BY <1>2, DieKeys DEF Rejected, Types, CompositionTypes, Shape
<1>3. ASSUME NEW p \in Processes, Crash(p) PROVE KeyInv'
  BY <1>3, DieKeys DEF Crash
<1>4. CASE NextWindow \/ \E p \in Processes : Restart(p)
  BY <1>4, KeptKeys DEF NextWindow, Restart, request
<1>5. CASE UNCHANGED vars
  BY <1>5, KeptKeys DEF vars, request
<1>6. ASSUME NEW r \in Requests, Enter(r) \/ Pass(r) \/ KeyCall(r) \/ CallFails(r)
      PROVE  KeyInv'
  BY <1>1, <1>2, <1>6, ReadingKeys, RetireKeys, SaveKeys DEF KeyCall, CallFails
<1> QED BY <1>3, <1>4, <1>5, <1>6 DEF Next

LEMMA KeysAlways == Spec => [](Types /\ KeyInv)
<1>1. Init => Types /\ KeyInv
  BY InitTypes, InitKeys
<1>2. Types /\ KeyInv /\ [Next]_vars => (Types /\ KeyInv)'
  BY NextTypes, NextKeys
<1> QED BY <1>1, <1>2, PTL DEF Spec

\* However calls that register, revoke and rotate keys interleave, and wherever one of
\* them is cut off: some key can be used, unless one was revoked on purpose or a
\* rotation is, or was left, between its two saves.
THEOREM KeyRemains == Spec => []SomeKeyWorks
  BY KeysAlways, PTL DEF KeyInv

LEMMA StaysRevoked ==
  ASSUME Types, KeyInv, [Next]_vars, NEW k \in Keys, keys[k].status = "revoked",
         keys'[k].status # "revoked"
  PROVE  Cardinality(Registering(k)) > 1
<1>1. PICK r \in Requests : Retire(r) \/ SaveKey(r)
  <2>1. keys' # keys
    OBVIOUS
  <2>2. ASSUME NEW r \in Requests, Enter(r) \/ Pass(r) \/ KeyCall(r) \/ CallFails(r)
        PROVE  Retire(r) \/ SaveKey(r)
    <3>1. ASSUME \/ Enter(r) \/ Pass(r) \/ ListKeys(r) \/ RecordAdminAction(r)
                 \/ ResolverFails(r) \/ StoreFails(r) \/ HandlerThrows(r) \/ SaveFails(r)
          PROVE  FALSE
      BY <2>1, <3>1, OtherStepsAside DEF registry
    <3>2. ~LoadKey(r) /\ ~CheckId(r) /\ ~CheckSecret(r) /\ ~Rejected(r)
      BY <2>1 DEF LoadKey, CheckId, CheckSecret, Rejected, Die, registry
    <3> QED BY <2>2, <3>1, <3>2 DEF KeyCall, CallFails
  <2>3. ~UNCHANGED vars /\ ~NextWindow /\ \A p \in Processes : ~Crash(p) /\ ~Restart(p)
    BY <2>1 DEF vars, NextWindow, Crash, Restart, Die, registry
  <2> QED BY <2>2, <2>3 DEF Next
<1>2. ~Retire(r)
  BY DEF Retire, Types, RegistryTypes
<1>3. SaveKey(r) /\ shape[r].newKey = k
  BY <1>1, <1>2 DEF SaveKey, Types, RegistryTypes
<1>4. PICK q \in Registering(k) : q # r
  BY <1>3 DEF SaveKey, At, KeyInv, IdWasFree
<1>5. r \in Registering(k)
  BY <1>3 DEF SaveKey, At, KeyInv, CallsFit, Registers, Registering
<1>6. IsFiniteSet(Registering(k))
  BY ApiBounds, FS_Subset DEF Registering
<1>7. Cardinality({q, r}) = 2 /\ {q, r} \subseteq Registering(k)
  <2>1. IsFiniteSet({r}) /\ Cardinality({r}) = 1 /\ q \notin {r} /\ {q, r} = {r} \cup {q}
    BY <1>4, FS_Singleton
  <2>2. Cardinality({r} \cup {q}) = Cardinality({r}) + 1
    BY <2>1, FS_AddElement
  <2> QED BY <1>4, <1>5, <2>1, <2>2
<1>8. Cardinality({q, r}) <= Cardinality(Registering(k)) /\ Cardinality(Registering(k)) \in Nat
  BY <1>6, <1>7, FS_Subset, FS_CardinalityType
<1> QED BY <1>7, <1>8

\* A revoked key is never accepted again, unless two calls registered its id at once.
THEOREM RevocationHolds == Spec => RevokedStaysRevoked
<1>1. Types /\ KeyInv /\ [Next]_vars =>
        [\A k \in Keys : keys[k].status = "revoked" /\ keys'[k].status # "revoked"
           => Cardinality(Registering(k)) > 1]_vars
  BY StaysRevoked
<1> QED BY <1>1, KeysAlways, PTL DEF Spec, RevokedStaysRevoked

\* The keys of the API: some key works, and a revoked one is never accepted again,
\* with the exceptions the two theorems above name.
THEOREM KeysKept == Spec => KeysChangeOnPurpose
  BY KeyRemains, RevocationHolds DEF KeysChangeOnPurpose

(***************************************************************************)
(* Part 3.  The limit.  Who has taken a token of a window can be no more   *)
(* than the bucket counts, as long as it counts that window; than the      *)
(* limit, once it counts a later one; than none, before.                   *)
(***************************************************************************)

Takers(b, w) == {q \in Requests : spent[q] = <<b, w>>}
Given(b, w) ==
  IF b \in DOMAIN counts /\ counts[b].window = w THEN counts[b].count
  ELSE IF \/ b \in DOMAIN counts /\ counts[b].window > w
          \/ deployment.limiter = "memory" /\ w < clock
       THEN Limit ELSE 0

\* No counter is ahead of the clock, and those in memory are of the limiter that is there.
CountersFit == /\ \A r \in Requests : mark[r] <= clock
               /\ \A b \in DOMAIN counts :
                     /\ counts[b].window <= clock
                     /\ b[1] # "redis" => deployment.limiter = "memory"
Bounded == \A b \in Buckets, w \in Windows :
             <<b, w>> \notin forgotten => Cardinality(Takers(b, w)) <= Given(b, w)
LimitInv == CountersFit /\ Bounded

LEMMA TakersFinite ==
  \A b, w : IsFiniteSet(Takers(b, w)) /\ Cardinality(Takers(b, w)) \in Nat
  BY ApiBounds, FS_Subset, FS_CardinalityType DEF Takers

LEMMA GivenRange == ASSUME Types, NEW b \in Buckets, NEW w \in Windows
                    PROVE  Given(b, w) \in 0..Limit
  BY ApiBounds DEF Given, Types, LimitTypes, Counter

LEMMA InitLimit == Init => LimitInv
<1> SUFFICES ASSUME Init PROVE LimitInv
  OBVIOUS
<1>1. CountersFit
  BY DEF Init, CountersFit
<1>2. \A b \in Buckets, w \in Windows : Takers(b, w) = {}
  BY DEF Init, Takers
<1>3. \A b \in Buckets, w \in Windows : Given(b, w) = 0
  BY DEF Init, Given, Windows
<1>4. Bounded
  BY <1>2, <1>3, FS_EmptySet DEF Bounded
<1> QED BY <1>1, <1>4 DEF LimitInv

\* What is given never shrinks but in windows that are forgotten.
LEMMA KeptLimit ==
  ASSUME Types, LimitInv, spent' = spent, CountersFit',
         \A b \in Buckets, w \in Windows :
           <<b, w>> \notin forgotten' =>
             <<b, w>> \notin forgotten /\ Given(b, w) <= Given(b, w)',
         Types'
  PROVE  LimitInv'
<1>1. \A b, w : Takers(b, w)' = Takers(b, w)
  BY DEF Takers
<1>2. ASSUME NEW b \in Buckets, NEW w \in Windows, <<b, w>> \notin forgotten'
      PROVE  Cardinality(Takers(b, w)') <= Given(b, w)'
  <2>1. Cardinality(Takers(b, w)) <= Given(b, w)
    BY <1>2 DEF LimitInv, Bounded
  <2>2. Given(b, w) \in Nat /\ Cardinality(Takers(b, w)) \in Nat
    BY GivenRange, TakersFinite, ApiBounds
  <2>3. Given(b, w)' \in Nat
    BY ApiBounds DEF Given, Types, LimitTypes, Counter
  <2> QED BY <1>1, <1>2, <2>1, <2>2, <2>3
<1> QED BY <1>2 DEF LimitInv, Bounded

LEMMA TakeLimit == ASSUME Types, LimitInv, NEW r \in Requests, TakeToken(r), Types'
                   PROVE  LimitInv'
<1> DEFINE b == Bucket(r)  w == Window(r)  n == Count(b, w)
           late == b \in DOMAIN counts /\ counts[b].window > w
<1>1. /\ Forget(b, w) /\ UNCHANGED <<clock, mark, deployment>> /\ deployment.limiter # "none"
      /\ \/ n < Limit /\ SetCount(b, w, n + 1) /\ spent' = [spent EXCEPT ![r] = <<b, w>>]
         \/ n >= Limit /\ SetCount(b, w, n) /\ spent' = spent
  BY DEF TakeToken, composition
<1>2. b \in Buckets /\ w \in Windows
  BY BucketTypes DEF TakeToken, At, Door
<1>3. clock \in Nat /\ w \in Nat /\ w <= clock /\ n \in 0..Limit
  <2>1. mark[r] <= clock /\ clock \in Nat /\ mark[r] \in Nat
    BY DEF LimitInv, CountersFit, Types, RequestTypes, LimitTypes, Windows
  <2>2. w <= clock /\ w \in Nat
    BY <2>1 DEF Window
  <2>3. n \in 0..Limit
    BY <1>2, ApiBounds DEF Count, Types, LimitTypes, Counter
  <2> QED BY <2>1, <2>2, <2>3
<1>4. /\ deployment.limiter = "memory" => w = clock
      /\ b[1] # "redis" => deployment.limiter = "memory"
  <2>1. deployment.limiter \in {"memory", "redis"}
    BY <1>1 DEF Types, CompositionTypes, Deployment
  <2>2. deployment.limiter = "redis" => b[1] = "redis"
    BY DEF Bucket
  <2> QED BY <2>1, <2>2 DEF Window
<1>5. PICK m \in 0..Limit :
        /\ m >= n /\ SetCount(b, w, m)
        /\ \/ m = n + 1 /\ spent' = [spent EXCEPT ![r] = <<b, w>>]
           \/ m = n /\ spent' = spent
  <2>1. CASE n < Limit /\ SetCount(b, w, n + 1) /\ spent' = [spent EXCEPT ![r] = <<b, w>>]
    <3>1. n + 1 \in 0..Limit /\ n + 1 >= n
      BY <2>1, <1>3, ApiBounds
    <3> QED BY <2>1, <3>1
  <2>2. CASE SetCount(b, w, n) /\ spent' = spent
    <3>1. n >= n
      BY <1>3
    <3> QED BY <2>2, <3>1, <1>3
  <2> QED BY <1>1, <2>1, <2>2
<1>6. /\ b \in DOMAIN counts' /\ counts'[b].window = w /\ counts'[b].count = m
      /\ \A c : c # b => /\ c \in DOMAIN counts' <=> c \in DOMAIN counts
                         /\ c \in DOMAIN counts => counts'[c] = counts[c]
  BY <1>5 DEF SetCount
<1>7. CountersFit'
  <2>1. \A q \in Requests : mark'[q] <= clock'
    BY <1>1 DEF LimitInv, CountersFit
  <2>2. ASSUME NEW c \in DOMAIN counts'
        PROVE  /\ counts'[c].window <= clock'
               /\ c[1] # "redis" => deployment'.limiter = "memory"
    <3>1. CASE c = b
      BY <3>1, <1>1, <1>3, <1>4, <1>6
    <3>2. CASE c # b
      BY <3>2, <1>1, <1>6, <2>2 DEF LimitInv, CountersFit
    <3> QED BY <3>1, <3>2
  <2> QED BY <2>1, <2>2 DEF CountersFit
<1>8. ASSUME NEW c \in Buckets, NEW v \in Windows, <<c, v>> \notin forgotten'
      PROVE  Cardinality(Takers(c, v)') <= Given(c, v)'
  <2> DEFINE before == Cardinality(Takers(c, v))
             after  == Cardinality(Takers(c, v)')
  <2>1. <<c, v>> \notin forgotten
    BY <1>1, <1>8 DEF Forget
  <2>2. before <= Given(c, v) /\ Given(c, v) \in 0..Limit
    BY <2>1, GivenRange DEF LimitInv, Bounded
  <2>3. IsFiniteSet(Takers(c, v)) /\ before \in Nat /\ after \in Nat
    <3>1. Takers(c, v)' \subseteq Requests
      BY DEF Takers
    <3>2. after \in Nat
      BY <3>1, ApiBounds, FS_Subset, FS_CardinalityType
    <3> QED BY <3>2, TakersFinite
  <2>4. <<c, v>> # <<b, w>> => after <= before
    <3> SUFFICES ASSUME <<c, v>> # <<b, w>> PROVE after <= before
      OBVIOUS
    <3>1. Takers(c, v)' \subseteq Takers(c, v)
      <4>1. ASSUME NEW q \in Requests, spent'[q] = <<c, v>> PROVE spent[q] = <<c, v>>
        BY <1>5, <4>1 DEF Types, LimitTypes
      <4> QED BY <4>1 DEF Takers
    <3> QED BY <3>1, <2>3, FS_Subset
  <2>5. v \in Nat
    BY DEF Windows
  <2>6. CASE c # b
    <3>1. Given(c, v)' = Given(c, v)
      BY <1>1, <1>6, <2>6 DEF Given
    <3> QED BY <3>1, <2>2, <2>3, <2>4, <2>6, ApiBounds
  <2>7. CASE c = b /\ v = w
    <3>1. ~late
      BY <1>1, <1>3, <1>8, <2>7 DEF Forget, Types, LimitTypes, Counter, Windows
    <3>2. Given(c, v) = n
      <4>1. b \in DOMAIN counts => counts[b].window \in Nat
        BY DEF Types, LimitTypes, Counter, Windows
      <4> QED BY <1>3, <1>4, <2>7, <3>1, <4>1 DEF Given, Count
    <3>3. Given(c, v)' = m
      BY <1>6, <2>7 DEF Given
    <3>4. CASE m = n + 1 /\ spent' = [spent EXCEPT ![r] = <<b, w>>]
      <4>1. Takers(c, v)' \subseteq Takers(c, v) \cup {r}
        BY <2>7, <3>4 DEF Takers, Types, LimitTypes
      <4>2. /\ IsFiniteSet(Takers(c, v) \cup {r})
            /\ Cardinality(Takers(c, v) \cup {r}) <= before + 1
            /\ Cardinality(Takers(c, v) \cup {r}) \in Nat
        <5>1. /\ IsFiniteSet(Takers(c, v) \cup {r})
              /\ Cardinality(Takers(c, v) \cup {r}) =
                   IF r \in Takers(c, v) THEN Cardinality(Takers(c, v))
                                         ELSE Cardinality(Takers(c, v)) + 1
          BY <2>3, <2>7, FS_AddElement
        <5> QED BY <2>3, <2>7, <5>1
      <4>3. after <= Cardinality(Takers(c, v) \cup {r})
        BY <2>7, <4>1, <4>2, FS_Subset
      <4> QED BY <1>3, <2>2, <2>3, <2>7, <3>2, <3>3, <3>4, <4>2, <4>3
    <3>5. CASE m = n /\ spent' = spent
      <4>1. Takers(c, v)' = Takers(c, v)
        BY <3>5 DEF Takers
      <4> QED BY <2>2, <2>7, <3>2, <3>3, <3>5, <4>1
    <3> QED BY <1>5, <3>4, <3>5
  <2>8. CASE c = b /\ v < w
    <3>1. Given(c, v)' = Limit
      BY <1>3, <1>6, <2>5, <2>8 DEF Given
    <3> QED BY <3>1, <2>2, <2>3, <2>4, <2>5, <2>8, <1>3, ApiBounds
  <2>9. CASE c = b /\ v > w
    <3>1. Given(c, v) = 0
      <4>1. b \in DOMAIN counts => counts[b].window \in Nat /\ counts[b].window < v
        <5>1. b \in DOMAIN counts => counts[b].window \in Nat
          BY DEF Types, LimitTypes, Counter, Windows
        <5>2. ASSUME b \in DOMAIN counts, counts[b].window >= v PROVE FALSE
          BY <1>1, <1>3, <1>8, <2>5, <2>9, <5>1, <5>2 DEF Forget
        <5> QED BY <5>1, <5>2, <2>5
      <4> QED BY <1>3, <1>4, <2>5, <2>9, <4>1 DEF Given
    <3>2. Given(c, v)' = 0
      BY <1>1, <1>3, <1>4, <1>6, <2>5, <2>9 DEF Given
    <3> QED BY <3>1, <3>2, <2>2, <2>3, <2>4, <2>5, <2>9, <1>3
  <2> QED BY <1>3, <2>5, <2>6, <2>7, <2>8, <2>9
<1> QED BY <1>7, <1>8 DEF LimitInv, Bounded

-----------------------------------------------------------------------------
\* Asking for a token notes the window.
LEMMA AskLimit == ASSUME Types, LimitInv, NEW r \in Requests, Types',
                         UNCHANGED limits /\ UNCHANGED deployment,
                         AskForToken(r) \/ UNCHANGED mark
                  PROVE  LimitInv'
<1>1. CountersFit'
  <2>1. ASSUME NEW q \in Requests PROVE mark'[q] <= clock'
    <3>1. clock' = clock /\ mark[q] <= clock /\ clock \in Nat
      BY DEF limits, LimitInv, CountersFit, Types, LimitTypes, Windows
    <3> QED BY <3>1 DEF AskForToken, Types, RequestTypes
  <2> QED BY <2>1 DEF CountersFit, LimitInv, limits
<1>2. ASSUME NEW b \in Buckets, NEW w \in Windows, <<b, w>> \notin forgotten'
      PROVE  <<b, w>> \notin forgotten /\ Given(b, w) <= Given(b, w)'
  <2>1. Given(b, w)' = Given(b, w) /\ Given(b, w) \in Nat
    BY GivenRange, ApiBounds DEF Given, limits
  <2> QED BY <1>2, <2>1 DEF limits
<1>3. spent' = spent
  BY DEF limits
<1> QED BY ONLY Types, LimitInv, Types', <1>1, <1>2, <1>3, KeptLimit

\* A process that dies takes the counters it kept with it; their windows are forgotten.
LEMMA DieLimit == ASSUME Types, LimitInv, NEW p \in Processes, Die(p), Types'
                  PROVE  LimitInv'
<1>1. UNCHANGED <<mark, clock, spent, deployment>>
  BY DEF Die, composition
<1>2. /\ \A b : b \in DOMAIN counts' <=> b \in DOMAIN counts /\ b[1] # p
      /\ \A b \in DOMAIN counts' : counts'[b] = counts[b]
      /\ \A b \in DOMAIN counts : b[1] = p => <<b, counts[b].window>> \in forgotten'
      /\ forgotten \subseteq forgotten'
  BY DEF Die
<1>3. CountersFit'
  BY <1>1, <1>2 DEF LimitInv, CountersFit
<1>4. ASSUME NEW b \in Buckets, NEW w \in Windows, <<b, w>> \notin forgotten'
      PROVE  <<b, w>> \notin forgotten /\ Given(b, w) <= Given(b, w)'
  <2>1. <<b, w>> \notin forgotten
    BY <1>2, <1>4
  <2>2. Given(b, w) \in 0..Limit /\ Limit \in Nat
    BY GivenRange, ApiBounds
  <2>3. CASE b \in DOMAIN counts /\ b[1] = p
    <3>1. counts[b].window # w
      BY <1>2, <1>4, <2>3
    <3>2. deployment.limiter = "memory" /\ counts[b].window <= clock
      BY <2>3, ApiIds DEF LimitInv, CountersFit
    <3>3. counts[b].window \in Nat /\ w \in Nat /\ clock \in Nat
      BY <2>3 DEF Types, LimitTypes, Counter, Windows
    <3>4. Given(b, w) = IF w < clock THEN Limit ELSE 0
      BY <3>1, <3>2, <3>3 DEF Given
    <3>5. Given(b, w)' = IF w < clock THEN Limit ELSE 0
      BY <1>1, <1>2, <2>3, <3>2 DEF Given
    <3> QED BY <2>1, <2>2, <3>4, <3>5
  <2>4. CASE ~(b \in DOMAIN counts /\ b[1] = p)
    <3>1. Given(b, w)' = Given(b, w)
      BY <1>1, <1>2, <2>4 DEF Given
    <3> QED BY <2>1, <2>2, <3>1
  <2> QED BY <2>3, <2>4
<1> QED BY ONLY Types, LimitInv, Types', <1>1, <1>3, <1>4, KeptLimit

LEMMA ClockLimit == ASSUME Types, LimitInv, NextWindow, Types' PROVE LimitInv'
<1>1. UNCHANGED <<mark, counts, spent, forgotten, deployment>> /\ clock' = clock + 1
  BY DEF NextWindow, request, composition
<1>2. clock \in Nat
  BY DEF Types, LimitTypes, Windows
<1>3. CountersFit'
  <2>1. ASSUME NEW q \in Requests PROVE mark'[q] <= clock'
    BY <1>1, <1>2 DEF LimitInv, CountersFit, Types, RequestTypes, Windows
  <2>2. ASSUME NEW b \in DOMAIN counts'
        PROVE  counts'[b].window <= clock' /\ (b[1] # "redis" => deployment'.limiter = "memory")
    <3>1. /\ counts[b].window <= clock /\ counts[b].window \in Nat
          /\ b[1] # "redis" => deployment.limiter = "memory"
      BY <1>1, <2>2 DEF LimitInv, CountersFit, Types, LimitTypes, Counter, Windows
    <3> QED BY <1>1, <1>2, <3>1
  <2> QED BY <2>1, <2>2 DEF CountersFit
<1>4. ASSUME NEW b \in Buckets, NEW w \in Windows, <<b, w>> \notin forgotten'
      PROVE  <<b, w>> \notin forgotten /\ Given(b, w) <= Given(b, w)'
  <2>1. Given(b, w) \in 0..Limit /\ Limit \in Nat /\ w \in Nat
    BY GivenRange, ApiBounds DEF Windows
  <2>2. Given(b, w)' = Given(b, w) \/ (Given(b, w) = 0 /\ Given(b, w)' = Limit)
    BY <1>1, <1>2, <2>1 DEF Given
  <2> QED BY <1>1, <1>4, <2>1, <2>2
<1> QED BY ONLY Types, LimitInv, Types', <1>1, <1>3, <1>4, KeptLimit

LEMMA NextLimit == Types /\ LimitInv /\ [Next]_vars => LimitInv'
<1> SUFFICES ASSUME Types, LimitInv, [Next]_vars PROVE LimitInv'
  OBVIOUS
<1>0. Types'
  BY NextTypes
<1>1. ASSUME NEW r \in Requests, Enter(r) \/ Resolve(r) \/ RecordBypass(r)
      PROVE  LimitInv'
  <2>1. UNCHANGED limits /\ UNCHANGED deployment
    BY <1>1 DEF Enter, NoRoute, Unauthenticated, Admit, Resolve, RecordBypass, composition
  <2>2. AskForToken(r) \/ UNCHANGED mark
    BY <1>1 DEF Enter, NoRoute, Unauthenticated, Admit, Resolve, RecordBypass
  <2> QED BY <1>0, <2>1, <2>2, AskLimit
<1>2. ASSUME UNCHANGED limits /\ UNCHANGED deployment, UNCHANGED mark PROVE LimitInv'
  <2>1. CountersFit'
    BY <1>2 DEF LimitInv, CountersFit, limits
  <2>2. ASSUME NEW b \in Buckets, NEW w \in Windows, <<b, w>> \notin forgotten'
        PROVE  <<b, w>> \notin forgotten /\ Given(b, w) <= Given(b, w)'
    <3>1. Given(b, w)' = Given(b, w) /\ Given(b, w) \in Nat
      BY <1>2, GivenRange, ApiBounds DEF Given, limits
    <3> QED BY <1>2, <2>2, <3>1 DEF limits
  <2>3. spent' = spent
    BY <1>2 DEF limits
  <2> QED BY ONLY Types, LimitInv, <1>0, <2>1, <2>2, <2>3, KeptLimit
<1>3. ASSUME NEW r \in Requests, Rejected(r) PROVE LimitInv'
  <2>1. shape[r].proc \in Processes
    BY DEF Types, CompositionTypes, Shape
  <2>2. Die(shape[r].proc)
    BY <1>3 DEF Rejected
  <2> QED BY ONLY Types, LimitInv, <1>0, <2>1, <2>2, DieLimit
<1>4. ASSUME NEW p \in Processes, Crash(p) PROVE LimitInv'
  BY <1>0, <1>4, DieLimit DEF Crash
<1>5. ASSUME NEW r \in Requests, KeyCall(r) PROVE LimitInv'
  BY <1>2, <1>5
  DEF KeyCall, ListKeys, LoadKey, CheckId, CheckSecret, Retire, SaveKey, RecordAdminAction,
      composition
<1>6. ASSUME NEW r \in Requests,
             ResolverFails(r) \/ StoreFails(r) \/ HandlerThrows(r) \/ SaveFails(r)
      PROVE  LimitInv'
  BY <1>2, <1>6 DEF ResolverFails, StoreFails, HandlerThrows, SaveFails, composition
<1>7. ASSUME NEW r \in Requests,
             \/ RecordDenial(r) \/ Unlimited(r) \/ StoreIntent(r) \/ Dispatch(r)
             \/ HandlerReturns(r) \/ ReplayStream(r)
      PROVE  LimitInv'
  BY <1>2, <1>7
  DEF RecordDenial, Unlimited, StoreIntent, Dispatch, HandlerReturns, ReplayStream,
      composition
<1>8. CASE (\E p \in Processes : Restart(p)) \/ UNCHANGED vars
  BY <1>2, <1>8 DEF Restart, vars, request, composition
<1>9. ASSUME NEW r \in Requests, Enter(r) \/ Pass(r) \/ KeyCall(r) \/ CallFails(r)
      PROVE  LimitInv'
  BY <1>0, <1>1, <1>3, <1>5, <1>6, <1>7, <1>9, TakeLimit DEF Pass, CallFails
<1> QED BY <1>0, <1>4, <1>8, <1>9, ClockLimit DEF Next

LEMMA LimitHolds == Types /\ LimitInv => LimitPerWindow
<1> SUFFICES ASSUME Types, LimitInv, NEW r \in Requests, spent[r] # << >>,
                    spent[r] \notin forgotten
             PROVE  Cardinality({q \in Requests : spent[q] = spent[r]}) <= Limit
  BY DEF LimitPerWindow
<1>1. PICK b \in Buckets, w \in Windows : spent[r] = <<b, w>>
  BY DEF Types, LimitTypes
<1>2. Cardinality(Takers(b, w)) <= Given(b, w)
  BY <1>1 DEF LimitInv, Bounded
<1>3. Given(b, w) \in 0..Limit /\ Cardinality(Takers(b, w)) \in Nat
  BY GivenRange, TakersFinite
<1>4. {q \in Requests : spent[q] = spent[r]} = Takers(b, w)
  BY <1>1 DEF Takers
<1>5. Cardinality(Takers(b, w)) <= Limit
  BY <1>2, <1>3, ApiBounds
<1> QED BY ONLY <1>4, <1>5, Zenon

\* No bucket gives out more tokens in a window than its limit, but in windows of which
\* counts were lost: whatever requests of whatever processes ask for them.
THEOREM LimitKept == Spec => []LimitPerWindow
<1>1. Init => Types /\ LimitInv
  BY InitTypes, InitLimit
<1>2. Types /\ LimitInv /\ [Next]_vars => (Types /\ LimitInv)'
  BY NextTypes, NextLimit
<1> QED BY <1>1, <1>2, LimitHolds, PTL DEF Spec
(***************************************************************************)
(* Part 4.  What is on record.  A refusal is recorded on its way out, a    *)
(* change of a key before its answer, and a request that an administrator  *)
(* makes past the ownership of a resource before it takes a token.         *)
(***************************************************************************)

OnRecord(r, event) == r \in unrecorded \/ event \in audited[r]

\* Requests of the routes that have their resources resolved, once that is done.
ByAdapter(r) == Route(r).kind \notin {"event_stream", "api_key_lifecycle"}
PastOwner(r) == \/ pc[r] \in {"intent", "dispatch", "handler"} \/ outcome[r] # "none"
                \/ pc[r] = "token" /\ ByAdapter(r)

BypassNoted(r) ==
  PastOwner(r) /\ IsAdmin(r) /\ Route(r).target # "none" => OnRecord(r, "admin_bypass")
ResultIsLast(r) == outcome[r] # "none" => pc[r] \in {"answered", "lost"}
DenialNoted(r) ==
  pc[r] = "answered" /\ answer[r] \in Denials /\ ~RefusedByCapability(r)
    => OnRecord(r, DenialEvent(answer[r]))
ActionNoted(r) ==
  pc[r] = "answered" /\ r \in retired \cup registered /\ answer[r] # 400
    => OnRecord(r, "admin_action")

Noted(r) == BypassNoted(r) /\ ResultIsLast(r) /\ DenialNoted(r) /\ ActionNoted(r)

LEMMA InitNoted == Init => \A r \in Requests : Noted(r)
  BY DEF Init, Noted, BypassNoted, PastOwner, ResultIsLast, DenialNoted, ActionNoted

\* What the adapter serves is a query, a command, or not there yet.
LEMMA AdapterKinds ==
  \A route \in AdapterRoutes : route.kind \notin {"event_stream", "api_key_lifecycle"}
<1> USE DEF Query, Command, Partial
<1>1. \A route \in OperationsRoutes \cup InstanceRoutes \cup MessageRoutes :
         route.kind \notin {"event_stream", "api_key_lifecycle"}
  BY SMTT(60) DEF OperationsRoutes, InstanceRoutes, MessageRoutes
<1>2. \A route \in DirectoryRoutes \cup GroupRoutes \cup WebhookRoutes :
         route.kind \notin {"event_stream", "api_key_lifecycle"}
  BY SMTT(60) DEF DirectoryRoutes, GroupRoutes, WebhookRoutes
<1>3. \A route \in AdminRoutes : route.kind \notin {"event_stream", "api_key_lifecycle"}
  BY SMTT(60) DEF AdminRoutes
<1> QED BY <1>1, <1>2, <1>3 DEF AdapterRoutes

\* What is noted of a request is a matter of what is kept of it.
LEMMA KeptNoted ==
  ASSUME NEW r \in Requests, Noted(r), shape' = shape,
         pc'[r] = pc[r] \/ pc'[r] = "lost",
         cred'[r] = cred[r], answer'[r] = answer[r], outcome'[r] = outcome[r],
         audited'[r] = audited[r], r \in unrecorded => r \in unrecorded',
         r \in retired' \cup registered' => r \in retired \cup registered
  PROVE  Noted(r)'
<1>1. /\ Route(r)' = Route(r) /\ IsAdmin(r)' = IsAdmin(r)
      /\ RefusedByCapability(r)' = RefusedByCapability(r)
  BY DEF Route, IsAdmin, Holder, RefusedByCapability, MayMutateGroup
<1>2. PastOwner(r)' => PastOwner(r)
  BY <1>1 DEF PastOwner, ByAdapter
<1>3. \A e : OnRecord(r, e) => OnRecord(r, e)'
  BY DEF OnRecord
<1>4. BypassNoted(r)'
  BY <1>1, <1>2, <1>3 DEF Noted, BypassNoted
<1>5. ResultIsLast(r)'
  BY DEF Noted, ResultIsLast
<1>6. DenialNoted(r)'
  BY <1>1, <1>3 DEF Noted, DenialNoted
<1>7. ActionNoted(r)'
  BY <1>3 DEF Noted, ActionNoted
<1> QED BY <1>4, <1>5, <1>6, <1>7 DEF Noted

\* A request's own step leaves the others alone, but for a process that dies.
LEMMA OthersKept ==
  ASSUME Types, NEW q \in Requests,
         Enter(q) \/ Pass(q) \/ KeyCall(q) \/ (CallFails(q) /\ ~Rejected(q)),
         NEW r \in Requests \ {q}
  PROVE  /\ shape' = shape /\ pc'[r] = pc[r] /\ cred'[r] = cred[r] /\ answer'[r] = answer[r]
         /\ outcome'[r] = outcome[r] /\ audited'[r] = audited[r]
         /\ r \in unrecorded => r \in unrecorded'
         /\ r \in retired' \cup registered' => r \in retired \cup registered
<1> USE DEF Types, RequestTypes, RecordTypes, composition, records, registry,
            Goto, Answer, Refuse, AskForToken, Record
<1>1. CASE Enter(q)
  BY <1>1 DEF Enter, NoRoute, Unauthenticated, Admit
<1>2. CASE Resolve(q) \/ RecordBypass(q) \/ RecordDenial(q)
  BY <1>2 DEF Resolve, RecordBypass, RecordDenial
<1>3. CASE TakeToken(q) \/ Unlimited(q)
  <2>1. Refuse(q, 429) \/ Proceed(q)
    BY <1>3 DEF TakeToken, Unlimited
  <2>2. UNCHANGED <<composition, cred, outcome, records, registry>>
    BY <1>3 DEF TakeToken, Unlimited
  <2> QED BY <2>1, <2>2 DEF Proceed
<1>4. CASE StoreIntent(q) \/ Dispatch(q) \/ HandlerReturns(q) \/ ReplayStream(q)
  BY <1>4 DEF StoreIntent, Dispatch, HandlerReturns, ReplayStream
<1>5. CASE KeyCall(q)
  BY <1>5 DEF KeyCall, ListKeys, LoadKey, CheckId, CheckSecret, Retire, SaveKey,
              RecordAdminAction
<1>6. CASE ResolverFails(q) \/ StoreFails(q) \/ HandlerThrows(q) \/ SaveFails(q)
  BY <1>6 DEF ResolverFails, StoreFails, HandlerThrows, SaveFails
<1> QED BY <1>1, <1>2, <1>3, <1>4, <1>5, <1>6 DEF Pass, CallFails

\* A step owes no record when it neither passes the owner nor gives an answer that has
\* to be on record.
LEMMA OwesNothing ==
  ASSUME NEW r \in Requests, Noted(r), shape' = shape, cred'[r] = cred[r],
         audited'[r] = audited[r], r \in unrecorded => r \in unrecorded',
         PastOwner(r)' => PastOwner(r), outcome'[r] # "none" => pc'[r] = "answered",
         pc'[r] = "answered" => /\ answer'[r] \in Denials => RefusedByCapability(r)
                                /\ r \in retired' \cup registered' => answer'[r] = 400
  PROVE  Noted(r)'
<1>1. /\ Route(r)' = Route(r) /\ IsAdmin(r)' = IsAdmin(r)
      /\ RefusedByCapability(r)' = RefusedByCapability(r)
  BY DEF Route, IsAdmin, Holder, RefusedByCapability, MayMutateGroup
<1>2. BypassNoted(r)'
  BY <1>1 DEF Noted, BypassNoted, OnRecord
<1> QED BY <1>1, <1>2 DEF Noted, ResultIsLast, DenialNoted, ActionNoted

\* What Record notes is on record, or noted as missing.
LEMMA RecordNotes ==
  ASSUME Types, NEW r \in Requests, NEW event, Record(r, event)
  PROVE  /\ OnRecord(r, event)'
         /\ \A e : OnRecord(r, e) => OnRecord(r, e)'
  BY DEF Record, OnRecord, Types, RecordTypes

LEMMA EnterNoted ==
  ASSUME Types, KeyInv, NEW r \in Requests, Noted(r), Enter(r) PROVE Noted(r)'
<1> USE DEF Types, RequestTypes, Answer, Refuse, Goto, AskForToken
<1>1. pc[r] = "new" /\ outcome'[r] = "none"
  BY DEF Enter, NoRoute, Unauthenticated, Admit, At, Noted, ResultIsLast
<1>2. r \notin retired' \cup registered'
  BY <1>1 DEF KeyInv, CallsFit, Over, Enter, NoRoute, Unauthenticated, Admit, registry
<1>3. shape' = shape
  BY DEF Enter, NoRoute, Unauthenticated, Admit, composition
<1>4. pc'[r] = "answered" => answer'[r] \notin Denials
  BY DEF Enter, NoRoute, Unauthenticated, Admit, Denials
<1>5. ~PastOwner(r)'
  <2>1. pc'[r] \notin {"intent", "dispatch", "handler"}
    BY DEF Enter, NoRoute, Unauthenticated, Admit
  <2>2. pc'[r] = "token" => ~ByAdapter(r)
    BY DEF Enter, NoRoute, Unauthenticated, Admit, ByAdapter
  <2> QED BY <1>1, <1>3, <2>1, <2>2 DEF PastOwner, ByAdapter, Route
<1> QED BY <1>1, <1>2, <1>4, <1>5 DEF Noted, BypassNoted, ResultIsLast, DenialNoted, ActionNoted

LEMMA OwnerNoted ==
  ASSUME Types, KeyInv, NEW r \in Requests, Noted(r),
         Resolve(r) \/ ResolverFails(r) \/ RecordBypass(r)
  PROVE  Noted(r)'
<1> USE DEF Types, RequestTypes, Refuse, Goto, AskForToken
<1>1. /\ shape' = shape /\ pc[r] \in {"owner", "bypass"} /\ outcome' = outcome
      /\ outcome[r] = "none" /\ cred' = cred
  BY DEF Resolve, ResolverFails, RecordBypass, At, composition, Noted, ResultIsLast
<1>2. pc'[r] # "answered" /\ pc'[r] \notin {"intent", "dispatch", "handler"}
  BY DEF Resolve, ResolverFails, RecordBypass
<1>3. /\ Route(r)' = Route(r) /\ IsAdmin(r)' = IsAdmin(r)
  BY <1>1 DEF Route, IsAdmin, Holder
<1>4. BypassNoted(r)'
  <2>1. CASE RecordBypass(r)
    <3>1. OnRecord(r, "admin_bypass")'
      BY <2>1, RecordNotes DEF RecordBypass
    <3> QED BY <3>1 DEF BypassNoted
  <2>2. CASE Resolve(r) \/ ResolverFails(r)
    <3>1. IsAdmin(r) /\ Route(r).target # "none" => pc'[r] # "token"
      BY <2>2 DEF Resolve, ResolverFails, IsBound
    <3> QED BY <1>1, <1>2, <1>3, <3>1 DEF BypassNoted, PastOwner
  <2> QED BY <2>1, <2>2
<1> QED BY <1>1, <1>2, <1>4 DEF Noted, ResultIsLast, DenialNoted, ActionNoted

LEMMA DenialStepNoted ==
  ASSUME Types, KeyInv, NEW r \in Requests, Noted(r), RecordDenial(r) PROVE Noted(r)'
<1> USE DEF Types, RequestTypes
<1>1. /\ shape' = shape /\ pc[r] = "audit" /\ pc'[r] = "answered"
      /\ UNCHANGED <<cred, answer, outcome, registry>>
  BY DEF RecordDenial, At, composition
<1>2. OnRecord(r, DenialEvent(answer[r]))' /\ \A e : OnRecord(r, e) => OnRecord(r, e)'
  BY RecordNotes DEF RecordDenial, OnRecord
<1>3. Route(r)' = Route(r) /\ IsAdmin(r)' = IsAdmin(r)
  BY <1>1 DEF Route, IsAdmin, Holder
<1>4. BypassNoted(r)'
  BY <1>1, <1>2, <1>3 DEF Noted, BypassNoted, PastOwner
<1>5. r \notin retired' \cup registered'
  BY <1>1 DEF KeyInv, CallsFit, Over, registry
<1>6. DenialNoted(r)'
  BY <1>1, <1>2 DEF DenialNoted
<1> QED BY <1>1, <1>4, <1>5, <1>6 DEF Noted, ResultIsLast, ActionNoted

LEMMA ServedNoted ==
  ASSUME Types, KeyInv, NEW r \in Requests, Noted(r),
         \/ TakeToken(r) \/ Unlimited(r) \/ StoreIntent(r) \/ StoreFails(r) \/ Dispatch(r)
         \/ HandlerReturns(r) \/ HandlerThrows(r) \/ ReplayStream(r)
  PROVE  Noted(r)'
<1> USE DEF Types, RequestTypes, Answer, Refuse, Goto
<1>1. /\ shape' = shape /\ cred'[r] = cred[r] /\ audited'[r] = audited[r]
      /\ unrecorded' = unrecorded /\ UNCHANGED registry
      /\ pc[r] \in {"token", "intent", "dispatch", "handler", "replay"}
  BY DEF TakeToken, Unlimited, StoreIntent, StoreFails, Dispatch, HandlerReturns, HandlerThrows,
         ReplayStream, At, composition, records
<1>2. outcome[r] = "none" /\ r \notin retired' \cup registered'
  BY <1>1 DEF Noted, ResultIsLast, KeyInv, CallsFit, Over, registry
<1>3. CASE TakeToken(r) \/ Unlimited(r)
  <2>1. (Refuse(r, 429) \/ Proceed(r)) /\ outcome' = outcome /\ pc[r] = "token"
    BY <1>3 DEF TakeToken, Unlimited, At
  <2>2. pc'[r] = "intent" => ByAdapter(r)
    BY <2>1, AdapterKinds DEF Proceed, ByAdapter
  <2>3. PastOwner(r)' => PastOwner(r)
    BY <1>1, <1>2, <2>1, <2>2 DEF PastOwner, Proceed
  <2>4. pc'[r] = "answered" => answer'[r] \notin Denials
    BY <2>1 DEF Proceed, Denials
  <2> QED BY <1>1, <1>2, <2>1, <2>3, <2>4, OwesNothing
<1>4. CASE StoreIntent(r) \/ StoreFails(r)
  <2>1. outcome' = outcome /\ PastOwner(r)
    BY <1>4 DEF StoreIntent, StoreFails, At, PastOwner
  <2>2. pc'[r] = "answered" /\ answer'[r] \in Denials => RefusedByCapability(r)
    BY <1>1, <1>4, WithKey
       DEF StoreIntent, StoreFails, Denials, RefusedByCapability, MayMutateGroup, At, Door
  <2> QED BY <1>1, <1>2, <2>1, <2>2, OwesNothing
<1>5. CASE Dispatch(r)
  <2>1. outcome' = outcome /\ PastOwner(r)
    BY <1>5 DEF Dispatch, At, PastOwner
  <2>2. pc'[r] = "answered" => answer'[r] \notin Denials
    BY <1>5 DEF Dispatch, Denials
  <2> QED BY <1>1, <1>2, <2>1, <2>2, OwesNothing
<1>6. CASE HandlerReturns(r) \/ HandlerThrows(r)
  <2>1. PastOwner(r) /\ pc'[r] = "answered"
    BY <1>6 DEF HandlerReturns, HandlerThrows, At, PastOwner
  <2>2. answer'[r] \notin Denials
    BY <1>6 DEF HandlerReturns, HandlerThrows, StatusOf, Denials
  <2> QED BY <1>1, <1>2, <2>1, <2>2, OwesNothing
<1>7. CASE ReplayStream(r)
  <2>1. outcome' = outcome /\ pc'[r] = "answered" /\ answer'[r] \notin Denials
    BY <1>7 DEF ReplayStream, Denials
  <2> QED BY <1>1, <1>2, <2>1, OwesNothing DEF PastOwner
<1> QED BY <1>3, <1>4, <1>5, <1>6, <1>7

LEMMA KeyCallNoted ==
  ASSUME Types, KeyInv, NEW r \in Requests, Noted(r), KeyCall(r) \/ SaveFails(r)
  PROVE  Noted(r)'
<1> USE DEF Types, RequestTypes, Answer, Goto
<1>1. /\ shape' = shape /\ cred' = cred /\ outcome' = outcome
      /\ pc[r] \in {"key", "id", "secret", "retire", "save", "noted"}
      /\ pc'[r] \notin {"intent", "dispatch", "handler", "token"}
  BY DEF KeyCall, SaveFails, ListKeys, LoadKey, CheckId, CheckSecret, Retire, SaveKey,
         RecordAdminAction, At, composition
<1>2. outcome[r] = "none"
  BY <1>1 DEF Noted, ResultIsLast
<1>3. ~PastOwner(r)'
  BY <1>1, <1>2 DEF PastOwner
<1>4. CASE RecordAdminAction(r)
  <2>1. OnRecord(r, "admin_action")'
    BY <1>4, RecordNotes DEF RecordAdminAction
  <2>2. answer'[r] \notin Denials
    BY <1>4 DEF RecordAdminAction, Denials
  <2> QED
    BY <1>1, <1>2, <1>3, <2>1, <2>2
       DEF Noted, BypassNoted, ResultIsLast, DenialNoted, ActionNoted
<1>5. CASE ~RecordAdminAction(r)
  <2>1. audited'[r] = audited[r] /\ unrecorded' = unrecorded
    BY <1>5 DEF KeyCall, SaveFails, ListKeys, LoadKey, CheckId, CheckSecret, Retire, SaveKey,
                records
  <2>2. pc'[r] = "answered" =>
           /\ answer'[r] \notin Denials
           /\ answer'[r] = 400 \/ (pc[r] \in {"key", "id", "secret"} /\ UNCHANGED registry)
    BY <1>5 DEF KeyCall, SaveFails, ListKeys, LoadKey, CheckId, CheckSecret, Retire, SaveKey,
                At, Denials
  <2>3. pc'[r] = "answered" /\ r \in retired' \cup registered' => answer'[r] = 400
    BY <2>2 DEF KeyInv, CallsFit, Over, registry
  <2> QED BY <1>1, <1>2, <1>3, <2>1, <2>2, <2>3, OwesNothing
<1> QED BY <1>4, <1>5

LEMMA DieNoted ==
  ASSUME Types, NEW p \in Processes, Die(p), NEW r \in Requests, Noted(r) PROVE Noted(r)'
<1>1. pc'[r] = pc[r] \/ pc'[r] = "lost"
  BY DEF Die
<1> QED BY <1>1, KeptNoted DEF Die, composition, records, registry

LEMMA NextNoted ==
  ASSUME Types, KeyInv, [Next]_vars, \A r \in Requests : Noted(r)
  PROVE  \A r \in Requests : Noted(r)'
<1> SUFFICES ASSUME NEW r \in Requests, Noted(r) PROVE Noted(r)'
  OBVIOUS
<1>1. ASSUME NEW q \in Requests,
             Enter(q) \/ Pass(q) \/ KeyCall(q) \/ (CallFails(q) /\ ~Rejected(q))
      PROVE  Noted(r)'
  <2>1. CASE q # r
    BY <1>1, <2>1, OthersKept, KeptNoted
  <2>2. CASE q = r
    BY <1>1, <2>2, EnterNoted, OwnerNoted, DenialStepNoted, ServedNoted, KeyCallNoted
       DEF Pass, CallFails
  <2> QED BY <2>1, <2>2
<1>2. ASSUME NEW q \in Requests, Rejected(q) PROVE Noted(r)'
  BY <1>2, DieNoted DEF Rejected, Types, CompositionTypes, Shape
<1>3. ASSUME NEW p \in Processes, Crash(p) PROVE Noted(r)'
  BY <1>3, DieNoted DEF Crash
<1>4. CASE NextWindow \/ (\E p \in Processes : Restart(p)) \/ UNCHANGED vars
  BY <1>4, KeptNoted DEF NextWindow, Restart, vars, request, composition, records, registry
<1> QED BY <1>1, <1>2, <1>3, <1>4 DEF Next

\* Who is refused for who they are or how much they ask, who changes a key, and who
\* passes the ownership of a resource as an administrator is on record, in whatever
\* order requests, failing sinks and dying processes come.
THEOREM RefusalsOnRecord == Spec => []DenialsAudited
<1> DEFINE AllNoted == \A r \in Requests : Noted(r)
<1>1. Types /\ KeyInv /\ AllNoted /\ [Next]_vars => AllNoted'
  BY NextNoted
<1>2. AllNoted => DenialsAudited
  BY DEF Noted, DenialsAudited, DenialNoted, ActionNoted, BypassNoted, PastOwner, OnRecord,
         Denials
<1> QED BY <1>1, <1>2, InitNoted, KeysAlways, PTL DEF Spec

(***************************************************************************)
(* Part 5.  The bridge to the provider runtime, for every set of commands, *)
(* every code an error may carry, any number of ticks and losses.          *)
(***************************************************************************)

Said == {"nothing", "timeout", "unavailable", "conflict", "rejected", "unknown", "connecting",
         "connected", "qr_required", "disconnected", "logged_out", "challenge", "summary",
         "accepted"}
Answers == [ok : BOOLEAN, says : Said, retryable : BOOLEAN]
Stages == {"none", "sent", "gone", "acquiring", "starting", "failing", "closing", "closed",
           "resolving", "sending", "done"}
Deeds == {"opened", "logged out", "sent"}

BridgeTypes ==
  /\ handler \in [Commands -> Stages] /\ told \in [Commands -> Answers]
  /\ did \in [Commands -> SUBSET Deeds] /\ waiting \subseteq Commands

\* Where a command can be that has done nothing at WhatsApp's yet.
Untried == {"none", "sent", "acquiring", "starting", "closing", "resolving", "sending"}

\* What an answer says of the command it was given to.
Borne(c, a) ==
  /\ a.ok /\ a.says \in {"connecting", "connected", "qr_required"} => c \in had
  /\ a.ok /\ a.says = "disconnected" /\ command[c].kind = "disconnect" => "logged out" \in did[c]
  /\ a.ok /\ a.says = "accepted" => "sent" \in did[c]

\* Nothing final is said before the handler is through with the command, and then
\* only of one that has done nothing.
Final(c) ==
  told[c].ok \/ told[c].retryable \/ told[c] = NoAnswer \/ (handler[c] = "done" /\ did[c] = {})

\* What a handler has behind it at each of its awaits.
Progress(c) ==
  /\ handler[c] \in Untried => did[c] = {}
  /\ handler[c] = "closed" => "logged out" \in did[c]
  /\ handler[c] \in {"acquiring", "starting"} => command[c].kind = "request_connection"
  /\ handler[c] = "starting" => record # NoRecord

Faithful(c) == Borne(c, told[c]) /\ Final(c) /\ Progress(c)

BridgeInv == BridgeTypes /\ SocketsAreOnRecord /\ \A c \in Commands : Faithful(c)

\* A status never turns a result into another one on its way through HTTP.
LEMMA ReadBack ==
  ASSUME NEW result, result.ok \in BOOLEAN
  PROVE  Read(StatusForFailure(result), result) = result
<1>1. CASE result.ok
  BY <1>1 DEF Read, StatusForFailure
<1>2. CASE ~result.ok
  BY <1>2 DEF Read
<1> QED BY <1>1, <1>2

LEMMA BridgeInitHolds == BridgeInit => BridgeInv
<1> SUFFICES ASSUME BridgeInit PROVE BridgeInv
  OBVIOUS
<1>1. BridgeTypes
  BY DEF BridgeInit, BridgeTypes, NoAnswer, Answers, Said, Stages
<1>2. SocketsAreOnRecord
  BY DEF BridgeInit, SocketsAreOnRecord
<1>3. ASSUME NEW c \in Commands PROVE Faithful(c)
  BY DEF BridgeInit, Faithful, Borne, Final, Progress, NoAnswer
<1> QED BY <1>1, <1>2, <1>3 DEF BridgeInv

\* The commands a step does not handle are as they were.
LEMMA OtherCommands ==
  ASSUME NEW c \in Commands, Faithful(c), had \subseteq had', command' = command,
         told'[c] = told[c], handler'[c] = handler[c], did'[c] = did[c],
         record # NoRecord => record' # NoRecord
  PROVE  Faithful(c)'
BY DEF Faithful, Borne, Final, Progress

LEMMA Awaited ==
  ASSUME BridgeTypes, NEW c \in Commands, NEW step \in Stages, Await(c, step)
  PROVE  /\ handler' \in [Commands -> Stages] /\ told' = told /\ waiting' = waiting
         /\ handler'[c] = step
         /\ \A d \in Commands \ {c} : handler'[d] = handler[d]
BY DEF BridgeTypes, Await

LEMMA Replied ==
  ASSUME BridgeTypes, NEW c \in Commands, NEW result \in Answers, Reply(c, result)
  PROVE  /\ handler' \in [Commands -> Stages] /\ told' \in [Commands -> Answers]
         /\ waiting' \subseteq Commands
         /\ handler'[c] = "done" /\ told'[c] \in {told[c], result}
         /\ \A d \in Commands \ {c} : handler'[d] = handler[d] /\ told'[d] = told[d]
<1>1. Read(StatusForFailure(result), result) = result
  BY ReadBack DEF Answers
<1>2. told' = IF c \in waiting THEN [told EXCEPT ![c] = result] ELSE told
  BY <1>1 DEF Reply
<1> QED BY <1>2 DEF Reply, BridgeTypes, Stages

\* What the step of one handler leaves as it was, and what it may only add to.
Does(c) ==
  /\ did' \in [Commands -> SUBSET Deeds] /\ did[c] \subseteq did'[c]
  /\ \A d \in Commands \ {c} : did'[d] = did[d]

Handles(c) ==
  /\ handler[c] # "done"
  /\ had \subseteq had' /\ command' = command
  /\ record # NoRecord => record' # NoRecord
  /\ SocketsAreOnRecord'
  /\ Does(c)

LEMMA DoesNothing == ASSUME BridgeInv, NEW c \in Commands, did' = did PROVE Does(c)
BY DEF BridgeInv, BridgeTypes, Does

LEMMA DoesMore ==
  ASSUME BridgeInv, NEW c \in Commands, NEW deeds \in SUBSET Deeds,
         did' = [did EXCEPT ![c] = @ \cup deeds]
  PROVE  Does(c) /\ did'[c] = did[c] \cup deeds
BY DEF BridgeInv, BridgeTypes, Does

LEMMA SocketKept ==
  ASSUME BridgeInv, UNCHANGED <<record, socket>>
  PROVE  SocketsAreOnRecord'
BY DEF BridgeInv, SocketsAreOnRecord

LEMMA HandlerStep ==
  ASSUME BridgeInv, NEW c \in Commands, Handles(c), BridgeTypes', Faithful(c)',
         \A d \in Commands \ {c} : handler'[d] = handler[d] /\ told'[d] = told[d]
  PROVE  BridgeInv'
<1>1. ASSUME NEW d \in Commands \ {c} PROVE Faithful(d)'
  BY <1>1, OtherCommands DEF BridgeInv, Handles, Does
<1> QED BY <1>1 DEF BridgeInv, Handles

\* A handler that goes on to its next await.
LEMMA GoesOn ==
  ASSUME BridgeInv, NEW c \in Commands, NEW step \in Stages, Await(c, step), Handles(c),
         Progress(c)'
  PROVE  BridgeInv'
<1>1. BridgeTypes /\ Faithful(c)
  BY DEF BridgeInv
<1>2. BridgeTypes'
  BY <1>1, Awaited DEF BridgeTypes, Handles, Does
<1>3. told'[c] = told[c]
  BY <1>1, Awaited
<1>4. Borne(c, told[c])' /\ Final(c)'
  BY <1>1, <1>3 DEF Faithful, Borne, Final, Handles, Does
<1>5. \A d \in Commands \ {c} : handler'[d] = handler[d] /\ told'[d] = told[d]
  BY <1>1, Awaited
<1> QED BY <1>2, <1>4, <1>5, HandlerStep DEF Faithful

\* A handler that answers, with what the command has done.
LEMMA Answered ==
  ASSUME BridgeInv, NEW c \in Commands, NEW result \in Answers, Reply(c, result), Handles(c),
         Borne(c, result)', result.ok \/ result.retryable \/ did'[c] = {}
  PROVE  BridgeInv'
<1>1. BridgeTypes /\ Faithful(c)
  BY DEF BridgeInv
<1>2. BridgeTypes'
  BY <1>1, Replied DEF BridgeTypes, Handles, Does
<1>3. handler'[c] = "done" /\ told'[c] \in {told[c], result}
  BY <1>1, Replied
<1>4. Progress(c)'
  BY <1>3 DEF Progress, Untried
<1>5. Borne(c, told[c])' /\ Final(c)'
  <2>1. CASE told'[c] = told[c]
    BY <1>1, <2>1 DEF Faithful, Borne, Final, Handles, Does
  <2>2. CASE told'[c] = result
    BY <1>3, <2>2 DEF Borne, Final
  <2> QED BY <1>3, <2>1, <2>2
<1>6. \A d \in Commands \ {c} : handler'[d] = handler[d] /\ told'[d] = told[d]
  BY <1>1, Replied
<1> QED BY <1>2, <1>4, <1>5, <1>6, HandlerStep DEF Faithful

LEMMA ResultTypes ==
  /\ \A says \in Said, retryable \in BOOLEAN : Failure(says, retryable) \in Answers
  /\ \A says \in Said : Success(says) \in Answers
  /\ \A retryable \in BOOLEAN : BridgeFailure(retryable) \in Answers
<1>1. ASSUME NEW says \in Said, NEW retryable \in BOOLEAN
      PROVE  Failure(says, retryable) \in Answers /\ Success(says) \in Answers
  BY <1>1 DEF Failure, Success, Answers
<1>2. ASSUME NEW retryable \in BOOLEAN PROVE BridgeFailure(retryable) \in Answers
  BY <1>1 DEF BridgeFailure, Said
<1> QED BY <1>1, <1>2

LEMMA ConnectionSays ==
  ASSUME NEW supervised
  PROVE  ConnectionState(supervised)
           \in {"connecting", "connected", "qr_required", "disconnected", "logged_out"}
<1>1. CASE supervised = "CONNECTED"
  BY <1>1 DEF ConnectionState
<1>2. CASE supervised \in {"QR_REQUIRED", "PAIRING"}
  BY <1>2 DEF ConnectionState
<1>3. CASE supervised \in {"DISCONNECTED", "DESTROYED"}
  BY <1>3 DEF ConnectionState
<1>4. CASE supervised = "LOGGED_OUT"
  BY <1>4 DEF ConnectionState
<1>5. CASE supervised \notin {"CONNECTED", "QR_REQUIRED", "PAIRING", "DISCONNECTED", "DESTROYED",
                              "LOGGED_OUT"}
  BY <1>5 DEF ConnectionState
<1> QED BY <1>1, <1>2, <1>3, <1>4, <1>5

LEMMA ProviderErrors ==
  ASSUME NEW code \in ErrorCodes \cup {NoCode}
  PROVE  /\ ProviderError(code) \in Answers /\ ~ProviderError(code).ok
         /\ ProviderError(code).retryable <=> IsRetryable(code)
<1>1. IsRetryable(code) \in BOOLEAN
  BY DEF IsRetryable
<1>2. CategoryOf(code) \in Said
  <2>1. CASE code \in {408, 504}
    BY <2>1 DEF CategoryOf, Said
  <2>2. CASE code \notin {408, 504} /\ code = 409
    BY <2>2 DEF CategoryOf, Said
  <2>3. CASE code \in {401, 403, 410}
    BY <2>3 DEF CategoryOf, Said
  <2>4. CASE code \notin {408, 504, 409, 401, 403, 410} /\ code \in ErrorCodes /\ code >= 500
    BY <2>4 DEF CategoryOf, Said
  <2>5. CASE code \notin {408, 504, 409, 401, 403, 410} /\ ~(code \in ErrorCodes /\ code >= 500)
    BY <2>5 DEF CategoryOf, Said
  <2> QED BY <2>1, <2>2, <2>3, <2>4, <2>5
<1> QED BY <1>1, <1>2, ResultTypes DEF ProviderError, Failure

\* The ways around the supervisor answer of a socket that is there, or refuse.
LEMMA RuntimeConnects ==
  ASSUME BridgeInv, NEW c \in Commands, handler[c] \in {"sent", "acquiring"},
         RuntimeConnect(c), Handles(c), command[c].kind = "request_connection",
         had' = had \cup (IF {socket, socket'} = {NoRecord} THEN {} ELSE InHand), did' = did
  PROVE  BridgeInv'
<1>1. PICK result \in GatewayConnects(c) : Reply(c, result)
  BY DEF RuntimeConnect
<1>2. did'[c] = {}
  BY DEF BridgeInv, Faithful, Progress, Untried
<1>3. CASE SocketOf(c) = NoRecord
  <2>1. result = Failure("rejected", FALSE) /\ result \in Answers
    BY <1>1, <1>3, ResultTypes DEF GatewayConnects, SocketMissing, Said
  <2>2. Borne(c, result)'
    BY <2>1 DEF Borne, Failure
  <2> QED BY <1>1, <1>2, <2>1, <2>2, Answered
<1>4. CASE SocketOf(c) # NoRecord
  <2>1. result \in Answers /\ result.ok /\ result.says \in {"connecting", "connected"}
    <3>1. PICK says \in {"connecting", "connected"} : result = Success(says)
      BY <1>1, <1>4 DEF GatewayConnects
    <3>2. result.ok /\ result.says = says
      BY <3>1 DEF Success
    <3> QED BY <3>1, <3>2, ResultTypes DEF Said
  <2>2. c \in had'
    BY <1>4 DEF SocketOf, InHand
  <2>3. Borne(c, result)'
    BY <2>1, <2>2 DEF Borne
  <2> QED BY <1>1, <2>1, <2>3, Answered
<1> QED BY <1>3, <1>4

LEMMA TurnedAway ==
  ASSUME BridgeInv, NEW c \in Commands, TurnAway(c), had \subseteq had', command' = command
  PROVE  BridgeInv'
<1>1. BridgeFailure(FALSE) \in Answers /\ Borne(c, BridgeFailure(FALSE))'
  BY ResultTypes DEF Borne, BridgeFailure, Failure
<1>2. did' = did /\ UNCHANGED <<record, socket>> /\ handler[c] = "sent"
  BY DEF TurnAway, Untouched
<1>3. did'[c] = {}
  BY <1>2 DEF BridgeInv, Faithful, Progress, Untried
<1>4. Handles(c)
  BY <1>2, DoesNothing, SocketKept DEF Handles
<1> QED BY <1>1, <1>3, <1>4, Answered DEF TurnAway

LEMMA Disconnects ==
  ASSUME BridgeInv, NEW c \in Commands, handler[c] = "sent", Disconnect(c),
         had \subseteq had', UNCHANGED <<command, record, socket>>
  PROVE  BridgeInv'
<1>1. SocketsAreOnRecord' /\ did[c] = {}
  BY SocketKept DEF BridgeInv, Faithful, Progress, Untried
<1>2. CASE RuntimeDisconnect(c)
  <2>1. CASE SocketOf(c) = NoRecord
    <3>1. GatewayDisconnects(c) = Failure("rejected", FALSE)
      BY <2>1 DEF GatewayDisconnects, SocketMissing
    <3>2. Failure("rejected", FALSE) \in Answers /\ ~Failure("rejected", FALSE).ok
      BY ResultTypes DEF Failure, Said
    <3>3. /\ Reply(c, Failure("rejected", FALSE))
          /\ did' = [did EXCEPT ![c] = @ \cup {}]
      BY <1>2, <3>1, <3>2 DEF RuntimeDisconnect
    <3>4. Does(c) /\ did'[c] = {}
      BY <1>1, <3>3, DoesMore
    <3>5. Handles(c)
      BY <1>1, <3>4 DEF Handles
    <3>6. Borne(c, Failure("rejected", FALSE))'
      BY DEF Borne, Failure
    <3> QED BY <3>2, <3>3, <3>4, <3>5, <3>6, Answered
  <2>2. CASE SocketOf(c) # NoRecord
    <3>1. GatewayDisconnects(c) = Success("disconnected")
      BY <2>2 DEF GatewayDisconnects
    <3>2. Success("disconnected") \in Answers /\ Success("disconnected").ok
      BY ResultTypes DEF Success, Said
    <3>3. /\ Reply(c, Success("disconnected"))
          /\ did' = [did EXCEPT ![c] = @ \cup {"logged out"}]
      BY <1>2, <3>1, <3>2 DEF RuntimeDisconnect
    <3>4. {"logged out"} \in SUBSET Deeds
      BY DEF Deeds
    <3>5. Does(c) /\ did'[c] = did[c] \cup {"logged out"}
      BY <3>3, <3>4, DoesMore
    <3>6. Handles(c)
      BY <1>1, <3>5 DEF Handles
    <3>7. Borne(c, Success("disconnected"))'
      BY <3>5 DEF Borne, Success
    <3> QED BY <3>2, <3>3, <3>6, <3>7, Answered
  <2> QED BY <2>1, <2>2
<1>3. CASE ~RuntimeDisconnect(c)
  <2>1. (Await(c, "closing") \/ Await(c, "failing")) /\ did' = did
    BY <1>3 DEF Disconnect
  <2>2. Handles(c)
    BY <1>1, <2>1, DoesNothing DEF Handles
  <2>3. PICK step \in {"closing", "failing"} : Await(c, step)
    BY <2>1
  <2>4. handler'[c] = step /\ step \in Stages
    BY <2>3, Awaited DEF BridgeInv, Stages
  <2>5. Progress(c)'
    BY <1>1, <2>1, <2>4 DEF Progress
  <2> QED BY <2>2, <2>3, <2>4, <2>5, GoesOn
<1> QED BY <1>2, <1>3

LEMMA Received ==
  ASSUME BridgeInv, NEW c \in Commands, Receive(c), command' = command,
         had' = had \cup (IF {socket, socket'} = {NoRecord} THEN {} ELSE InHand)
  PROVE  BridgeInv'
<1>1. handler[c] = "sent" /\ UNCHANGED <<record, socket>> /\ had \subseteq had'
  BY DEF Receive, Untouched
<1>2. SocketsAreOnRecord' /\ did[c] = {}
  BY <1>1, SocketKept DEF BridgeInv, Faithful, Progress, Untried
<1>3. did' = did => Handles(c)
  BY <1>1, <1>2, DoesNothing DEF Handles
<1>4. ASSUME NEW step \in {"acquiring", "resolving"}, Await(c, step), did' = did,
             step = "acquiring" => command[c].kind = "request_connection"
      PROVE  BridgeInv'
  <2>1. handler'[c] = step /\ step \in Stages
    BY <1>4, Awaited DEF BridgeInv, Stages
  <2>2. Progress(c)'
    BY <1>2, <1>4, <2>1 DEF Progress
  <2> QED BY <1>3, <1>4, <2>1, <2>2, GoesOn
<1>5. ASSUME NEW says \in {"challenge", "summary"}, Reply(c, Success(says)), did' = did
      PROVE  BridgeInv'
  <2>1. Success(says) \in Answers /\ Success(says).ok /\ Borne(c, Success(says))'
    BY <1>5, ResultTypes DEF Borne, Success, Said
  <2> QED BY <1>3, <1>5, <2>1, Answered
<1>6. ASSUME Reply(c, Failure("rejected", FALSE)), did' = did PROVE BridgeInv'
  <2>1. Failure("rejected", FALSE) \in Answers /\ Borne(c, Failure("rejected", FALSE))'
    BY ResultTypes DEF Borne, Failure, Said
  <2> QED BY <1>2, <1>3, <1>6, <2>1, Answered
<1>7. CASE command[c].kind = "request_connection" /\ RequestConnection(c) /\ did' = did
  <2>1. \/ Reply(c, Failure("rejected", FALSE))
        \/ Await(c, "acquiring")
        \/ RuntimeConnect(c)
    <3>1. CASE command[c].intent \notin {"connect", "reconnect"}
      BY <1>7, <3>1 DEF RequestConnection
    <3>2. CASE command[c].intent = "connect" /\ command[c].session
      BY <1>7, <3>2 DEF RequestConnection, FallThrough
    <3>3. CASE /\ command[c].intent \in {"connect", "reconnect"}
               /\ ~(command[c].intent = "connect" /\ command[c].session)
      BY <1>7, <3>3 DEF RequestConnection
    <3> QED BY <3>1, <3>2, <3>3
  <2>2. CASE RuntimeConnect(c)
    BY <1>1, <1>3, <1>7, <2>2, RuntimeConnects
  <2> QED BY <1>4, <1>6, <1>7, <2>1, <2>2
<1>8. CASE Disconnect(c)
  BY <1>1, <1>8, Disconnects
<1>9. CASE RequestQrPairing(c) /\ did' = did
  BY <1>5, <1>9 DEF RequestQrPairing
<1>10. CASE SendOutboundMessage(c) /\ did' = did
  BY <1>4, <1>6, <1>10 DEF SendOutboundMessage, SocketMissing
<1>11. CASE Reply(c, Success("summary")) /\ did' = did
  BY <1>5, <1>11
<1> QED BY <1>7, <1>8, <1>9, <1>10, <1>11 DEF Receive

LEMMA StartSteps ==
  ASSUME BridgeInv, NEW c \in Commands, Granted(c) \/ Denied(c) \/ Started(c) \/ StartFails(c),
         command' = command,
         had' = had \cup (IF {socket, socket'} = {NoRecord} THEN {} ELSE InHand)
  PROVE  BridgeInv'
<1>1. had \subseteq had' /\ c # NoRecord
  BY BridgeBounds
<1>2. handler[c] \in {"acquiring", "starting"}
  BY DEF Granted, Denied, Started, StartFails
<1>3. command[c].kind = "request_connection" /\ did[c] = {}
  BY <1>2 DEF BridgeInv, Faithful, Progress, Untried
<1>4. CASE Granted(c)
  <2>1. record' # NoRecord /\ SocketsAreOnRecord' /\ did' = did /\ Await(c, "starting")
    BY <1>1, <1>4 DEF Granted, SocketsAreOnRecord
  <2>2. Handles(c)
    BY <1>1, <1>2, <2>1, DoesNothing DEF Handles
  <2>3. handler'[c] = "starting" /\ "starting" \in Stages
    BY <2>1, Awaited DEF BridgeInv, Stages
  <2>4. Progress(c)'
    BY <1>3, <2>1, <2>3 DEF Progress
  <2> QED BY <2>1, <2>2, <2>3, <2>4, GoesOn
<1>5. CASE Denied(c)
  <2>1. did' = did /\ UNCHANGED <<record, socket>> /\ RuntimeConnect(c)
    BY <1>5 DEF Denied, FallThrough, Untouched
  <2>2. Handles(c)
    BY <1>1, <1>2, <2>1, DoesNothing, SocketKept DEF Handles
  <2> QED BY <1>2, <1>3, <1>5, <2>1, <2>2, RuntimeConnects DEF Denied
<1>6. CASE Started(c)
  <2>1. PICK result : result = Success(ConnectionState(state[c]))
    OBVIOUS
  <2>2. /\ result \in Answers /\ result.ok
        /\ result.says
             \in {"connecting", "connected", "qr_required", "disconnected", "logged_out"}
    BY <2>1, ConnectionSays, ResultTypes DEF Success, Said
  <2>3. c \in had' /\ record # NoRecord /\ UNCHANGED record
    <3>1. handler[c] = "starting" /\ socket' = c /\ UNCHANGED record
      BY <1>6 DEF Started
    <3>2. record # NoRecord
      BY <3>1 DEF BridgeInv, Faithful, Progress
    <3>3. c \in InHand /\ {socket, socket'} # {NoRecord}
      BY <1>1, <3>1 DEF InHand
    <3> QED BY <3>1, <3>2, <3>3
  <2>4. Borne(c, result)'
    BY <1>3, <2>2, <2>3 DEF Borne
  <2>5. {"opened"} \in SUBSET Deeds
    BY DEF Deeds
  <2>6. Does(c)
    BY <1>6, <2>5, DoesMore DEF Started
  <2>7. Handles(c)
    BY <1>1, <1>2, <2>3, <2>6 DEF Handles, SocketsAreOnRecord
  <2>8. Reply(c, result)
    BY <1>6, <2>1 DEF Started
  <2> QED BY <2>2, <2>4, <2>7, <2>8, Answered
<1>7. CASE StartFails(c)
  <2>1. Await(c, "failing") /\ did' = did /\ UNCHANGED <<record, socket>>
    BY <1>7 DEF StartFails, Untouched
  <2>2. Handles(c)
    BY <1>1, <1>2, <2>1, DoesNothing, SocketKept DEF Handles
  <2>3. handler'[c] = "failing" /\ "failing" \in Stages
    BY <2>1, Awaited DEF BridgeInv, Stages
  <2>4. Progress(c)'
    BY <2>3 DEF Progress, Untried
  <2> QED BY <2>1, <2>2, <2>3, <2>4, GoesOn
<1> QED BY <1>4, <1>5, <1>6, <1>7

LEMMA StopSteps ==
  ASSUME BridgeInv, NEW c \in Commands,
         LoggedOff(c) \/ LogoutFails(c) \/ Stopped(c) \/ Failing(c),
         command' = command, had \subseteq had'
  PROVE  BridgeInv'
<1>1. /\ UNCHANGED record /\ SocketsAreOnRecord'
      /\ handler[c] # "done"
  BY DEF LoggedOff, LogoutFails, Stopped, Failing, Untouched, BridgeInv, SocketsAreOnRecord
<1>2. Does(c) => Handles(c)
  BY <1>1 DEF Handles
<1>3. {"logged out"} \in SUBSET Deeds /\ {} \in SUBSET Deeds
  BY DEF Deeds
<1>4. CASE LoggedOff(c)
  <2>1. Does(c) /\ did'[c] = did[c] \cup {"logged out"}
    BY <1>3, <1>4, DoesMore DEF LoggedOff
  <2>2. Await(c, "closed") /\ "closed" \in Stages
    BY <1>4 DEF LoggedOff, Stages
  <2>3. handler'[c] = "closed"
    BY <2>2, Awaited DEF BridgeInv
  <2>4. Progress(c)'
    BY <2>1, <2>3 DEF Progress, Untried
  <2> QED BY <1>2, <2>1, <2>2, <2>4, GoesOn
<1>5. CASE LogoutFails(c)
  <2>1. Does(c)
    BY <1>3, <1>5, DoesMore DEF LogoutFails
  <2>2. Await(c, "failing") /\ "failing" \in Stages
    BY <1>5 DEF LogoutFails, Stages
  <2>3. handler'[c] = "failing"
    BY <2>2, Awaited DEF BridgeInv
  <2>4. Progress(c)'
    BY <2>3 DEF Progress, Untried
  <2> QED BY <1>2, <2>1, <2>2, <2>4, GoesOn
<1>6. CASE Stopped(c)
  <2>1. did' = did /\ handler[c] = "closed" /\ Reply(c, Success("disconnected"))
    BY <1>6 DEF Stopped
  <2>2. "logged out" \in did'[c]
    BY <2>1 DEF BridgeInv, Faithful, Progress
  <2>3. /\ Success("disconnected") \in Answers /\ Success("disconnected").ok
        /\ Borne(c, Success("disconnected"))'
    BY <2>2, ResultTypes DEF Borne, Success, Said
  <2> QED BY <1>2, <2>1, <2>3, DoesNothing, Answered
<1>7. CASE Failing(c)
  <2>1. did' = did /\ Reply(c, SupervisorFailure)
    BY <1>7 DEF Failing
  <2>2. /\ SupervisorFailure \in Answers /\ SupervisorFailure.retryable
        /\ Borne(c, SupervisorFailure)'
    BY ResultTypes DEF Borne, SupervisorFailure, Failure, Said
  <2> QED BY <1>2, <2>1, <2>2, DoesNothing, Answered
<1> QED BY <1>4, <1>5, <1>6, <1>7

LEMMA SendSteps ==
  ASSUME BridgeInv, NEW c \in Commands, Resolved(c) \/ Sent(c),
         command' = command, had \subseteq had'
  PROVE  BridgeInv'
<1>1. UNCHANGED <<record, socket>> /\ handler[c] \in {"resolving", "sending"}
  BY DEF Resolved, Sent, Untouched
<1>2. SocketsAreOnRecord' /\ did[c] = {}
  BY <1>1, SocketKept DEF BridgeInv, Faithful, Progress, Untried
<1>3. Does(c) => Handles(c)
  BY <1>1, <1>2 DEF Handles
<1>4. CASE Resolved(c)
  <2>1. did' = did
    BY <1>4 DEF Resolved
  <2>2. Handles(c)
    BY <1>3, <2>1, DoesNothing
  <2>3. CASE Await(c, "sending")
    <3>1. handler'[c] = "sending" /\ "sending" \in Stages
      BY <2>3, Awaited DEF BridgeInv, Stages
    <3>2. Progress(c)'
      BY <1>2, <2>1, <3>1 DEF Progress
    <3> QED BY <2>2, <2>3, <3>1, <3>2, GoesOn
  <2>4. ASSUME NEW category \in {"rejected", "unavailable"},
               Reply(c, Failure(category, category = "unavailable"))
        PROVE  BridgeInv'
    <3>1. PICK result : result = Failure(category, category = "unavailable")
      OBVIOUS
    <3>2. result \in Answers /\ Borne(c, result)'
      BY <3>1, ResultTypes DEF Borne, Failure, Said
    <3> QED BY <1>2, <2>1, <2>2, <2>4, <3>1, <3>2, Answered
  <2> QED BY <1>4, <2>3, <2>4 DEF Resolved
<1>5. CASE Sent(c)
  <2>1. ASSUME NEW result \in Answers, NEW far \in SUBSET {"sent"}, Reply(c, result),
               did' = [did EXCEPT ![c] = @ \cup far],
               result.ok => result.says \in {"accepted", "unknown"},
               result.ok /\ result.says = "accepted" => far = {"sent"},
               result.ok \/ result.retryable \/ far = {}
        PROVE  BridgeInv'
    <3>1. far \in SUBSET Deeds
      BY DEF Deeds
    <3>2. Does(c) /\ did'[c] = did[c] \cup far
      BY <2>1, <3>1, DoesMore
    <3>3. did'[c] = far
      BY <1>2, <3>2
    <3>4. Borne(c, result)'
      BY <2>1, <3>3 DEF Borne
    <3> QED BY <1>3, <2>1, <3>2, <3>3, <3>4, Answered
  <2>2. ASSUME NEW says \in {"accepted", "unknown"}
        PROVE  /\ Success(says) \in Answers /\ Success(says).ok
               /\ Success(says).says = says
    BY <2>2, ResultTypes DEF Success, Said
  <2>3. CASE did' = [did EXCEPT ![c] = @ \cup {"sent"}] /\ Reply(c, Success("accepted"))
    BY <2>1, <2>2, <2>3
  <2>4. CASE /\ \E far \in {{}, {"sent"}} : did' = [did EXCEPT ![c] = @ \cup far]
             /\ Reply(c, Success("unknown"))
    BY <2>1, <2>2, <2>4
  <2>5. ASSUME NEW code \in ErrorCodes \cup {NoCode}, NEW far \in InDoubt(code),
               did' = [did EXCEPT ![c] = @ \cup far], Reply(c, ProviderError(code))
        PROVE  BridgeInv'
    <3>1. /\ ProviderError(code) \in Answers /\ ~ProviderError(code).ok
          /\ ProviderError(code).retryable <=> IsRetryable(code)
      BY ProviderErrors
    <3>2. (IsRetryable(code) \/ far = {}) /\ far \in SUBSET {"sent"}
      BY DEF InDoubt
    <3> QED BY <2>1, <2>5, <3>1, <3>2
  <2> QED BY <1>5, <2>3, <2>4, <2>5 DEF Sent
<1> QED BY <1>4, <1>5

LEMMA CallerSteps ==
  ASSUME BridgeInv, NEW c \in Commands, Execute(c) \/ GiveUp(c),
         command' = command, had \subseteq had'
  PROVE  BridgeInv'
<1>1. UNCHANGED <<record, socket, did>>
  BY DEF Execute, GiveUp
<1>2. SocketsAreOnRecord' /\ BridgeTypes /\ Faithful(c)
  BY <1>1, SocketKept DEF BridgeInv
<1>3. CASE Execute(c)
  <2>1. UNCHANGED told /\ handler[c] = "none"
        /\ handler' = [handler EXCEPT ![c] = IF running THEN "sent" ELSE "gone"]
        /\ waiting' = waiting \cup {c}
    BY <1>3 DEF Execute
  <2>2. BridgeTypes' /\ handler'[c] \in {"sent", "gone"}
    BY <1>1, <1>2, <2>1 DEF BridgeTypes, Stages
  <2>3. \A d \in Commands \ {c} : handler'[d] = handler[d] /\ told'[d] = told[d]
    BY <1>2, <2>1 DEF BridgeTypes
  <2>4. Handles(c)
    BY <1>1, <1>2, <2>1, DoesNothing DEF Handles
  <2>5. Faithful(c)'
    BY <1>1, <1>2, <2>1, <2>2 DEF Faithful, Borne, Final, Progress, Untried
  <2> QED BY <2>2, <2>3, <2>4, <2>5, HandlerStep
<1>4. CASE GiveUp(c)
  <2>1. /\ UNCHANGED handler /\ waiting' = waiting \ {c}
        /\ told' = [told EXCEPT ![c] = BridgeFailure(TRUE)]
    BY <1>4 DEF GiveUp
  <2>2. /\ BridgeFailure(TRUE) \in Answers
        /\ ~BridgeFailure(TRUE).ok /\ BridgeFailure(TRUE).retryable
    BY ResultTypes DEF BridgeFailure, Failure
  <2>3. BridgeTypes' /\ told'[c] = BridgeFailure(TRUE)
    BY <1>1, <1>2, <2>1, <2>2 DEF BridgeTypes
  <2>4. Faithful(c)'
    BY <1>1, <1>2, <2>1, <2>2, <2>3 DEF Faithful, Borne, Final, Progress
  <2>5. ASSUME NEW d \in Commands \ {c} PROVE Faithful(d)'
    <3>1. told'[d] = told[d] /\ Faithful(d)
      BY <1>2, <2>1 DEF BridgeTypes, BridgeInv
    <3> QED BY <1>1, <2>1, <3>1, OtherCommands
  <2> QED BY <1>2, <2>3, <2>4, <2>5 DEF BridgeInv
<1> QED BY <1>3, <1>4

LEMMA RuntimeSteps ==
  ASSUME BridgeInv, BeginTick \/ EndTick \/ LoseLease \/ CrashRuntime \/ RestartRuntime,
         command' = command, had \subseteq had'
  PROVE  BridgeInv'
<1>1. CASE CrashRuntime
  <2>1. UNCHANGED <<told, did, waiting>> /\ socket' = NoRecord
        /\ handler' = [c \in Commands |->
                         IF handler[c] \in {"none", "done"} THEN handler[c] ELSE "gone"]
    BY <1>1 DEF CrashRuntime
  <2>2. BridgeTypes'
    BY <2>1 DEF BridgeInv, BridgeTypes, Stages
  <2>3. SocketsAreOnRecord'
    BY <2>1 DEF SocketsAreOnRecord
  <2>4. ASSUME NEW c \in Commands PROVE Faithful(c)'
    <3>1. handler'[c] = "gone" \/ (handler[c] \in {"none", "done"} /\ handler'[c] = handler[c])
      BY <2>1
    <3>2. Faithful(c) /\ told'[c] = told[c] /\ did'[c] = did[c]
      BY <2>1 DEF BridgeInv
    <3>3. Borne(c, told[c])' /\ Progress(c)'
      BY <3>1, <3>2 DEF Faithful, Borne, Progress, Untried
    <3>4. handler[c] = "done" => handler'[c] = "done"
      BY <2>1
    <3>5. Final(c)'
      BY <3>2, <3>4 DEF Faithful, Final
    <3> QED BY <3>3, <3>5 DEF Faithful
  <2> QED BY <2>2, <2>3, <2>4 DEF BridgeInv
<1>2. CASE BeginTick \/ EndTick \/ LoseLease \/ RestartRuntime
  <2>1. UNCHANGED <<handler, told, did, waiting, record, socket>>
    BY <1>2 DEF BeginTick, EndTick, LoseLease, RestartRuntime, client
  <2>2. BridgeTypes' /\ SocketsAreOnRecord'
    BY <2>1, SocketKept DEF BridgeInv, BridgeTypes
  <2>3. ASSUME NEW c \in Commands PROVE Faithful(c)'
    BY <2>1, <2>3, OtherCommands DEF BridgeInv
  <2> QED BY <2>2, <2>3 DEF BridgeInv
<1> QED BY <1>1, <1>2

LEMMA BridgeStep == BridgeInv /\ [BridgeNext]_bridgeVars => BridgeInv'
<1> SUFFICES ASSUME BridgeInv, [BridgeNext]_bridgeVars PROVE BridgeInv'
  OBVIOUS
<1>1. CASE UNCHANGED bridgeVars
  <2>1. UNCHANGED <<command, handler, told, did, waiting, record, socket, had>>
    BY <1>1 DEF bridgeVars, client
  <2>2. BridgeTypes' /\ SocketsAreOnRecord'
    BY <2>1, SocketKept DEF BridgeInv, BridgeTypes
  <2>3. ASSUME NEW c \in Commands PROVE Faithful(c)'
    BY <2>1, <2>3, OtherCommands DEF BridgeInv
  <2> QED BY <2>2, <2>3 DEF BridgeInv
<1>2. CASE BridgeNext
  <2>1. /\ had' = had \cup (IF {socket, socket'} = {NoRecord} THEN {} ELSE InHand)
        /\ had \subseteq had' /\ command' = command
    BY <1>2 DEF BridgeNext
  <2>2. ASSUME NEW c \in Commands,
               \/ Execute(c) \/ GiveUp(c) \/ TurnAway(c) \/ Receive(c) \/ Granted(c) \/ Denied(c)
               \/ Started(c) \/ StartFails(c) \/ LoggedOff(c) \/ LogoutFails(c) \/ Stopped(c)
               \/ Failing(c) \/ Resolved(c) \/ Sent(c)
        PROVE  BridgeInv'
    BY <2>1, <2>2, CallerSteps, TurnedAway, Received, StartSteps, StopSteps, SendSteps
  <2>3. CASE BeginTick \/ EndTick \/ LoseLease \/ CrashRuntime \/ RestartRuntime
    BY <2>1, <2>3, RuntimeSteps
  <2> QED BY <1>2, <2>2, <2>3 DEF BridgeNext
<1> QED BY <1>1, <1>2

LEMMA BridgeInvSuffices == BridgeInv => BridgeIsTrue
BY DEF BridgeInv, Faithful, Borne, Final, Progress, BridgeIsTrue, AnswersTellTheTruth

\* Whoever asks over the bridge can believe the answer, and every socket that can be
\* found has a record, for any commands, however they, the ticks of the drain loop,
\* crashes and leases that are taken away interleave.
THEOREM BridgeHolds == BridgeSpec => []BridgeIsTrue
<1>1. BridgeInit => BridgeInv
  BY BridgeInitHolds
<1>2. BridgeInv /\ [BridgeNext]_bridgeVars => BridgeInv'
  BY BridgeStep
<1>3. BridgeInv => BridgeIsTrue
  BY BridgeInvSuffices
<1> QED BY <1>1, <1>2, <1>3, PTL DEF BridgeSpec

(***************************************************************************)
(* Part 6.  Pages.  A cut runs through the order of all that the query may *)
(* answer: what is before it has been paged, and each change of a row lets *)
(* the offset and the cut differ by one more.                              *)
(***************************************************************************)

\* A strict order of U in which some may stand at the same place.
WeakOrder(R, U) ==
  /\ \A y \in U : <<y, y>> \notin R
  /\ \A y, z \in U : <<y, z>> \in R => <<z, y>> \notin R
  /\ \A x, y, z \in U : <<x, y>> \in R /\ <<y, z>> \in R => <<x, z>> \in R
  /\ \A x, y, z \in U : <<x, y>> \in R /\ <<z, y>> \notin R => <<x, z>> \in R
TotalOn(R, I) == \A y, z \in I : y # z => <<y, z>> \in R \/ <<z, y>> \in R
Downward(R, U, D) == D \subseteq U /\ \A z \in D, y \in U : <<z, y>> \notin R => y \in D
Rank(R, I) == [y \in I |-> Cardinality({w \in I : <<w, y>> \in R}) + 1]
FirstOf(R, I, k) == {y \in I : Rank(R, I)[y] <= k}

\* The ranks in a finite total order are 1, 2, and so on.
LEMMA RanksCount ==
  ASSUME NEW U, NEW R, WeakOrder(R, U), NEW I, I \subseteq U, IsFiniteSet(I), TotalOn(R, I)
  PROVE  /\ Rank(R, I) \in [I -> Nat]
         /\ \A y, z \in I : <<y, z>> \in R => Rank(R, I)[y] < Rank(R, I)[z]
         /\ Rank(R, I) \in Bijection(I, 1..Cardinality(I))
<1> DEFINE before(y) == {w \in I : <<w, y>> \in R}
           r == Rank(R, I)
           n == Cardinality(I)
<1>1. \A y \in I : r[y] = Cardinality(before(y)) + 1
  BY DEF Rank
<1>2. n \in Nat
  BY FS_CardinalityType
<1>3. ASSUME NEW y \in I
      PROVE  IsFiniteSet(before(y)) /\ Cardinality(before(y)) \in Nat /\ r[y] \in 1..n
  <2>1. before(y) \subseteq I /\ y \notin before(y)
    BY DEF WeakOrder
  <2>2. IsFiniteSet(before(y)) /\ Cardinality(before(y)) <= n
    BY <2>1, FS_Subset
  <2>3. Cardinality(before(y)) \in Nat
    BY <2>2, FS_CardinalityType
  <2>4. Cardinality(before(y)) # n
    BY <2>1, FS_Subset
  <2> HIDE DEF before, n, r
  <2> QED BY <1>1, <1>2, <2>2, <2>3, <2>4
<1>4. ASSUME NEW y \in I, NEW z \in I, <<y, z>> \in R
      PROVE  r[y] < r[z]
  <2>1. before(y) \subseteq before(z) /\ y \in before(z) /\ y \notin before(y)
    BY <1>4 DEF WeakOrder
  <2>2. Cardinality(before(y)) <= Cardinality(before(z))
    BY <1>3, <2>1, FS_Subset
  <2>3. Cardinality(before(y)) # Cardinality(before(z))
    BY <1>3, <2>1, FS_Subset
  <2> HIDE DEF before, n, r
  <2> QED BY <1>1, <1>3, <2>2, <2>3
<1>5. r \in [I -> 1..n]
  <2>1. DOMAIN r = I /\ r = [y \in I |-> r[y]]
    BY DEF Rank
  <2> HIDE DEF before, n, r
  <2> QED BY <1>3, <2>1
<1>6. ASSUME NEW y \in I, NEW z \in I, r[y] = r[z] PROVE y = z
  <2>1. y # z => r[y] < r[z] \/ r[z] < r[y]
    <3> HIDE DEF before, n, r
    <3> QED BY <1>4 DEF TotalOn
  <2> HIDE DEF before, n, r
  <2>2. r[y] \in Int /\ r[z] \in Int
    BY <1>2, <1>3
  <2> QED BY <1>6, <2>1, <2>2
<1> HIDE DEF before, n, r
<1>7. r \in Injection(I, 1..n)
  BY <1>5, <1>6 DEF Injection, IsInjective
<1>8. IsFiniteSet(1..n) /\ Cardinality(1..n) = n
  <2>1. 1 \in Int /\ n \in Int
    BY <1>2
  <2>2. IsFiniteSet(1..n) /\ Cardinality(1..n) = IF 1 > n THEN 0 ELSE n - 1 + 1
    BY <2>1, FS_Interval
  <2> QED BY <1>2, <2>2
<1>9. r \in Surjection(I, 1..n)
  <2>1. Cardinality(I) = Cardinality(1..n)
    BY <1>8 DEF n
  <2> QED BY <1>7, <1>8, <2>1, FS_Injection
<1>10. r \in Bijection(I, 1..n)
  BY <1>7, <1>9 DEF Bijection
<1>11. r \in [I -> Nat]
  BY <1>2, <1>5
<1> QED BY <1>4, <1>10, <1>11 DEF r, n

LEMMA FirstCount ==
  ASSUME NEW U, NEW R, WeakOrder(R, U), NEW I, I \subseteq U, IsFiniteSet(I), TotalOn(R, I),
         NEW k \in 0..Cardinality(I)
  PROVE  Cardinality(FirstOf(R, I, k)) = k
<1> DEFINE r == Rank(R, I)
           n == Cardinality(I)
           T == FirstOf(R, I, k)
           g == [y \in T |-> r[y]]
<1>1. r \in Bijection(I, 1..n) /\ n \in Nat
  BY RanksCount, FS_CardinalityType
<1>2. T = {y \in I : r[y] <= k}
  BY DEF FirstOf
<1> HIDE DEF r, n, T
<1>3. /\ r \in [I -> 1..n]
      /\ \A y, z \in I : r[y] = r[z] => y = z
      /\ \A i \in 1..n : \E y \in I : r[y] = i
  BY <1>1 DEF Bijection, Injection, IsInjective, Surjection
<1>4. k \in Nat /\ k <= n
  BY <1>1 DEF n
<1>5. g \in [T -> 1..k]
  BY <1>1, <1>2, <1>3, <1>4
<1>6. \A y, z \in T : g[y] = g[z] => y = z
  BY <1>2, <1>3
<1>7. \A i \in 1..k : \E y \in T : g[y] = i
  <2> TAKE i \in 1..k
  <2>1. i \in 1..n
    BY <1>1, <1>4
  <2>2. PICK y \in I : r[y] = i
    BY <1>3, <2>1
  <2>3. y \in T
    BY <1>2, <2>2, <1>4
  <2> QED BY <2>2, <2>3
<1>8. g \in Bijection(T, 1..k)
  BY <1>5, <1>6, <1>7 DEF Bijection, Injection, IsInjective, Surjection
<1>9. T \subseteq I
  BY <1>2
<1>10. IsFiniteSet(T)
  BY <1>9, FS_Subset
<1> HIDE DEF g
<1>11. ExistsBijection(T, 1..k)
  BY <1>8 DEF ExistsBijection
<1>12. Cardinality(1..k) = Cardinality(T)
  BY <1>10, <1>11, FS_Bijection
<1>13. Cardinality(1..k) = k
  <2>1. 1 \in Int /\ k \in Int
    BY <1>4
  <2>2. Cardinality(1..k) = IF 1 > k THEN 0 ELSE k - 1 + 1
    BY <2>1, FS_Interval
  <2> QED BY <1>4, <2>2
<1> QED BY <1>12, <1>13 DEF T

\* Of two beginnings of a total order one holds the other.
LEMMA BeginningsNest ==
  ASSUME NEW R, NEW I, TotalOn(R, I),
         NEW A, A \subseteq I, \A z \in A, y \in I : <<y, z>> \in R => y \in A,
         NEW B, B \subseteq I, \A z \in B, y \in I : <<y, z>> \in R => y \in B
  PROVE  A \subseteq B \/ B \subseteq A
BY DEF TotalOn

\* The page of I from place s to place k, when D has been paged.
Paging(U, R, I, D, s, k) ==
  /\ IsFiniteSet(U) /\ WeakOrder(R, U) /\ I \subseteq U /\ TotalOn(R, I)
  /\ Downward(R, U, D) /\ s \in 0..Cardinality(I) /\ k \in 0..Cardinality(I)

\* A page moves the cut to its last item:
LEMMA CutMoves ==
  ASSUME NEW U, NEW R, NEW I, NEW D, NEW s, NEW k, Paging(U, R, I, D, s, k)
  PROVE  \E E : Downward(R, U, E) /\ I \cap E = FirstOf(R, I, k)
<1> DEFINE r == Rank(R, I)
           n == Cardinality(I)
           T == FirstOf(R, I, k)
           E == {z \in U : \E w \in T : <<w, z>> \notin R}
<1>0. /\ IsFiniteSet(U) /\ WeakOrder(R, U) /\ I \subseteq U /\ TotalOn(R, I)
      /\ Downward(R, U, D) /\ s \in 0..Cardinality(I) /\ k \in 0..Cardinality(I)
  BY DEF Paging
<1> USE <1>0
<1>1. IsFiniteSet(I) /\ n \in Nat
  BY FS_Subset, FS_CardinalityType
<1>2. /\ r \in [I -> Nat]
      /\ \A y, z \in I : <<y, z>> \in R => r[y] < r[z]
  BY <1>1, RanksCount
<1>3. T = {y \in I : r[y] <= k}
  BY DEF FirstOf
<1>5. k \in Nat
  BY <1>1
<1> HIDE DEF r, n, T
<1>8. T \subseteq I
  BY <1>3
<1>14. Downward(R, U, E)
  <2>1. E \subseteq U
    OBVIOUS
  <2>2. ASSUME NEW z \in E, NEW y \in U, <<z, y>> \notin R PROVE y \in E
    <3>1. PICK w \in T : <<w, z>> \notin R
      OBVIOUS
    <3>2. w \in U /\ z \in U
      BY <1>8
    <3>3. <<w, y>> \notin R
      BY <2>2, <3>1, <3>2 DEF WeakOrder
    <3> QED BY <3>3
  <2> HIDE DEF E
  <2> QED BY <2>1, <2>2 DEF Downward
<1>15. I \cap E = T
  <2>1. ASSUME NEW z \in T PROVE z \in E
    <3>1. z \in U /\ <<z, z>> \notin R
      BY <1>8 DEF WeakOrder
    <3> QED BY <3>1
  <2>2. ASSUME NEW z \in I, NEW w \in T, <<w, z>> \notin R PROVE z \in T
    <3>1. w \in I /\ r[w] <= k
      BY <1>3
    <3>2. z = w \/ <<z, w>> \in R
      BY <2>2, <3>1 DEF TotalOn
    <3>3. r[z] \in Nat /\ r[w] \in Nat /\ (z = w \/ r[z] < r[w])
      BY <1>2, <3>1, <3>2
    <3>4. r[z] <= k
      BY <1>5, <3>1, <3>3
    <3> QED BY <1>3, <3>4
  <2> QED BY <1>8, <2>1, <2>2
<1> QED BY <1>14, <1>15 DEF T

\* what it passes over is as long as the cut is behind the offset, and what it repeats
\* as long as it is ahead.
LEMMA PageSlips ==
  ASSUME NEW U, NEW R, NEW I, NEW D, NEW s, NEW k, Paging(U, R, I, D, s, k)
  PROVE  /\ Cardinality(FirstOf(R, I, s) \ D)
              = IF Cardinality(I \cap D) < s THEN s - Cardinality(I \cap D) ELSE 0
         /\ Cardinality((I \cap D) \ FirstOf(R, I, s))
              = IF Cardinality(I \cap D) > s THEN Cardinality(I \cap D) - s ELSE 0
<1> DEFINE r == Rank(R, I)
           n == Cardinality(I)
           S == FirstOf(R, I, s)
           B == I \cap D
           v == Cardinality(B)
<1>0. /\ IsFiniteSet(U) /\ WeakOrder(R, U) /\ I \subseteq U /\ TotalOn(R, I)
      /\ Downward(R, U, D) /\ s \in 0..Cardinality(I) /\ k \in 0..Cardinality(I)
  BY DEF Paging
<1> USE <1>0
<1>1. IsFiniteSet(I) /\ n \in Nat
  BY FS_Subset, FS_CardinalityType
<1>2. /\ r \in [I -> Nat]
      /\ \A y, z \in I : <<y, z>> \in R => r[y] < r[z]
  BY <1>1, RanksCount
<1>3. S = {y \in I : r[y] <= s}
  BY DEF FirstOf
<1>4. Cardinality(S) = s
  BY <1>1, FirstCount
<1>5. s \in Nat
  BY <1>1
<1> HIDE DEF r, n, S
<1>6. \A z \in S, y \in I : <<y, z>> \in R => y \in S
  <2> SUFFICES ASSUME NEW z \in S, NEW y \in I, <<y, z>> \in R
               PROVE  y \in S
    OBVIOUS
  <2>1. z \in I /\ r[z] <= s /\ r[y] < r[z] /\ r[y] \in Nat /\ r[z] \in Nat
    BY <1>2, <1>3
  <2>2. r[y] <= s
    BY <1>5, <2>1
  <2> QED BY <1>3, <2>2
<1>7. \A z \in B, y \in I : <<y, z>> \in R => y \in B
  BY DEF WeakOrder, Downward
<1>8. S \subseteq I /\ B \subseteq I
  BY <1>3
<1>9. S \subseteq B \/ B \subseteq S
  <2> HIDE DEF B
  <2> QED BY <1>6, <1>7, <1>8, BeginningsNest
<1>10. S \ D = S \ B
  BY <1>8
<1> HIDE DEF B
<1>11. IsFiniteSet(S) /\ IsFiniteSet(B) /\ v \in Nat /\ v <= n
  <2>1. IsFiniteSet(S) /\ IsFiniteSet(B) /\ v <= n
    BY <1>1, <1>8, FS_Subset DEF n
  <2> QED BY <2>1, FS_CardinalityType
<1>12. /\ Cardinality(S \ B) = s - Cardinality(S \cap B)
       /\ Cardinality(B \ S) = v - Cardinality(B \cap S)
  BY <1>4, <1>11, FS_Difference
<1>13. /\ Cardinality(S \ B) = IF v < s THEN s - v ELSE 0
       /\ Cardinality(B \ S) = IF v > s THEN v - s ELSE 0
  <2>1. CASE S \subseteq B
    <3>1. S \cap B = S /\ B \cap S = S
      BY <2>1
    <3>2. s <= v
      BY <1>4, <1>11, <2>1, FS_Subset
    <3> HIDE DEF v
    <3> QED BY <1>4, <1>5, <1>11, <1>12, <3>1, <3>2
  <2>2. CASE B \subseteq S
    <3>1. S \cap B = B /\ B \cap S = B
      BY <2>2
    <3>2. v <= s
      BY <1>4, <1>11, <2>2, FS_Subset
    <3>3. Cardinality(S \ B) = s - v /\ Cardinality(B \ S) = v - v
      BY <1>12, <3>1
    <3> HIDE DEF v
    <3> QED BY <1>5, <1>11, <3>2, <3>3
  <2> QED BY <1>9, <2>1, <2>2
<1> QED BY <1>10, <1>13 DEF B, S

LEMMA CountBoth ==
  ASSUME NEW A, IsFiniteSet(A), NEW B, IsFiniteSet(B), NEW C, C \subseteq A \cup B
  PROVE  /\ IsFiniteSet(C) /\ Cardinality(C) \in Nat
         /\ Cardinality(A) \in Nat /\ Cardinality(B) \in Nat
         /\ Cardinality(C) <= Cardinality(A) + Cardinality(B)
<1>1. /\ IsFiniteSet(A \cup B) /\ IsFiniteSet(A \cap B)
      /\ Cardinality(A \cup B) = Cardinality(A) + Cardinality(B) - Cardinality(A \cap B)
  BY FS_Union, FS_Intersection
<1>2. IsFiniteSet(C) /\ Cardinality(C) <= Cardinality(A \cup B)
  BY <1>1, FS_Subset
<1>3. /\ Cardinality(A) \in Nat /\ Cardinality(B) \in Nat /\ Cardinality(C) \in Nat
      /\ Cardinality(A \cap B) \in Nat /\ Cardinality(A \cup B) \in Nat
  BY <1>1, <1>2, FS_CardinalityType
<1> QED BY <1>1, <1>2, <1>3

LEMMA CountOneMore ==
  ASSUME NEW A, IsFiniteSet(A), NEW e, NEW C, C \subseteq A \cup {e}
  PROVE  /\ IsFiniteSet(C) /\ Cardinality(C) \in Nat /\ Cardinality(A) \in Nat
         /\ Cardinality(C) <= Cardinality(A) + 1
<1>1. IsFiniteSet({e}) /\ Cardinality({e}) = 1
  BY FS_Singleton
<1> QED BY <1>1, CountBoth

\* There are no more ids than entries.
LEMMA CountIds ==
  ASSUME NEW Y, IsFiniteSet(Y), NEW X, \A x \in X : \E y \in Y : y.id = x
  PROVE  /\ IsFiniteSet(X) /\ Cardinality(X) \in Nat /\ Cardinality(Y) \in Nat
         /\ Cardinality(X) <= Cardinality(Y)
<1> DEFINE Z == {y \in Y : y.id \in X}
           f == [y \in Z |-> y.id]
<1>1. Z \subseteq Y
  OBVIOUS
<1>2. IsFiniteSet(Z) /\ Cardinality(Z) <= Cardinality(Y)
  <2> HIDE DEF Z
  <2> QED BY <1>1, FS_Subset
<1>3. f \in Surjection(Z, X)
  <2>1. f \in [Z -> X]
    OBVIOUS
  <2>2. \A x \in X : \E y \in Z : f[y] = x
    OBVIOUS
  <2> HIDE DEF f, Z
  <2> QED BY <2>1, <2>2 DEF Surjection
<1>4. IsFiniteSet(X) /\ Cardinality(X) <= Cardinality(Z)
  <2> HIDE DEF f, Z
  <2> QED BY <1>2, <1>3, FS_Surjection
<1>5. Cardinality(X) \in Nat /\ Cardinality(Y) \in Nat /\ Cardinality(Z) \in Nat
  <2> HIDE DEF f, Z
  <2> QED BY <1>2, <1>4, FS_CardinalityType
<1> HIDE DEF Z
<1> QED BY <1>2, <1>4, <1>5

ChatStatuses == {"open", "archived", "deleted"}

ChatQueries == {"ListChats", "ListInstanceChats"}

\* A field that is not set again keeps its value.
LEMMA FieldKept ==
  ASSUME NEW r, NEW value, {"kind", "hidden", "reads"} \subseteq DOMAIN r
  PROVE  /\ [r EXCEPT !.named = value].kind = r.kind
         /\ [r EXCEPT !.named = value].hidden = r.hidden
         /\ [r EXCEPT !.named = value].reads = r.reads
OBVIOUS

\* Chats are read at once, or with one SELECT for each status.
LEMMA ChatReads ==
  ASSUME NEW name \in ChatQueries
  PROVE  /\ Queries[name].kind = "chat" /\ Queries[name].hidden = {"deleted"}
         /\ Shows(Queries[name]) = {"open", "archived"}
         /\ DOMAIN ReadsOf(name) \subseteq 1..3
         /\ \A i \in DOMAIN ReadsOf(name) : ReadsOf(name)[i] \subseteq ChatStatuses
         /\ \A s \in ChatStatuses : \E i \in DOMAIN ReadsOf(name) : s \in ReadsOf(name)[i]
         /\ \A i, j \in DOMAIN ReadsOf(name) :
               i # j => ReadsOf(name)[i] \cap ReadsOf(name)[j] = {}
<1>1. ToSet(ChatList) = ChatStatuses /\ DOMAIN ChatList = 1..3
  BY DEF ToSet, ChatList, ChatStatuses
<1> DEFINE base == Collection("chat", AtOnce("chat"), {"deleted"})
<1>0. StatusLists.chat = ChatList /\ StatusLists["chat"] = ChatList
  BY DEF StatusLists
<1>2. CASE name = "ListInstanceChats"
  <2>1. Queries[name] = ListInstanceChats
    BY <1>2 DEF Queries
  <2>a. base = [shape |-> "collection", kind |-> "chat", reads |-> <<ChatStatuses>>,
                hidden |-> {"deleted"}, named |-> FALSE]
    BY <1>0, <1>1 DEF Collection, AtOnce
  <2>b. /\ base.kind = "chat" /\ base.hidden = {"deleted"} /\ base.reads = <<ChatStatuses>>
    BY <2>a
  <2>c. DOMAIN base = {"shape", "kind", "reads", "hidden", "named"}
    BY <2>a
  <2> HIDE DEF base
  <2>d. /\ [base EXCEPT !.named = TRUE].kind = base.kind
        /\ [base EXCEPT !.named = TRUE].hidden = base.hidden
        /\ [base EXCEPT !.named = TRUE].reads = base.reads
    <3>1. {"kind", "hidden", "reads"} \subseteq DOMAIN base
      BY <2>c
    <3> QED BY <3>1, FieldKept, Zenon
  <2>e. ListInstanceChats = [base EXCEPT !.named = TRUE]
    BY DEF ListInstanceChats, OfTarget, base
  <2>2. /\ Queries[name].kind = "chat" /\ Queries[name].hidden = {"deleted"}
        /\ Queries[name].reads = <<ChatStatuses>>
    BY <2>1, <2>b, <2>d, <2>e
  <2>3. ToSet(Queries[name].reads) = {ChatStatuses}
    BY <2>2 DEF ToSet
  <2>f. UNION ToSet(Queries[name].reads) = ChatStatuses
    BY <2>3
  <2>4. Shows(Queries[name]) = ChatStatuses \ {"deleted"}
    BY <2>2, <2>f DEF Shows
  <2>5. DOMAIN ReadsOf(name) = {1} /\ ReadsOf(name)[1] = ChatStatuses
    BY <2>2 DEF ReadsOf
  <2>6. ChatStatuses \ {"deleted"} = {"open", "archived"}
    BY DEF ChatStatuses
  <2>7. 1 \in {1}
    OBVIOUS
  <2>8. \A s \in ChatStatuses : \E i \in {1} : s \in ReadsOf(name)[i]
    BY <2>5, <2>7
  <2> QED BY <2>2, <2>4, <2>5, <2>6, <2>8
<1>3. CASE name = "ListChats"
  <2>1. Queries[name] = ListChats
    BY <1>3 DEF Queries
  <2>a. ListChats = [shape |-> "collection", kind |-> "chat",
                     reads |-> [i \in 1..3 |-> {ChatList[i]}],
                     hidden |-> {"deleted"}, named |-> FALSE]
    BY <1>0, <1>1 DEF ListChats, Collection, EachStatus
  <2>2. /\ Queries[name].kind = "chat" /\ Queries[name].hidden = {"deleted"}
        /\ Queries[name].reads = [i \in 1..3 |-> {ChatList[i]}]
    BY <2>1, <2>a
  <2>3. ToSet(Queries[name].reads) = {{s} : s \in ChatStatuses}
    <3>1. /\ DOMAIN Queries[name].reads = {1, 2, 3}
          /\ Queries[name].reads[1] = {"open"} /\ Queries[name].reads[2] = {"archived"}
          /\ Queries[name].reads[3] = {"deleted"}
      BY <2>2 DEF ChatList
    <3>2. ToSet(Queries[name].reads)
            = {Queries[name].reads[1], Queries[name].reads[2], Queries[name].reads[3]}
      BY <3>1 DEF ToSet
    <3>3. {{s} : s \in ChatStatuses} = {{"open"}, {"archived"}, {"deleted"}}
      BY DEF ChatStatuses
    <3> QED BY <3>1, <3>2, <3>3
  <2>f. UNION ToSet(Queries[name].reads) = ChatStatuses
    <3>1. \A s : (s \in UNION {{t} : t \in ChatStatuses}) <=> s \in ChatStatuses
      OBVIOUS
    <3> QED BY <2>3, <3>1
  <2>4. Shows(Queries[name]) = ChatStatuses \ {"deleted"}
    BY <2>2, <2>f DEF Shows
  <2>5. /\ DOMAIN ReadsOf(name) = 1..3
        /\ ReadsOf(name)[1] = {"open"} /\ ReadsOf(name)[2] = {"archived"}
        /\ ReadsOf(name)[3] = {"deleted"}
    BY <2>2 DEF ReadsOf, ChatList
  <2>6. DOMAIN ReadsOf(name) = {1, 2, 3}
    BY <2>5
  <2>7. 1 \in {1, 2, 3} /\ 2 \in {1, 2, 3} /\ 3 \in {1, 2, 3}
    OBVIOUS
  <2>8. \A i, j \in {1, 2, 3} : i # j => ReadsOf(name)[i] \cap ReadsOf(name)[j] = {}
    BY <2>5
  <2>9. \A i \in {1, 2, 3} : ReadsOf(name)[i] \subseteq ChatStatuses
    BY <2>5 DEF ChatStatuses
  <2>10. \A s \in ChatStatuses : \E i \in {1, 2, 3} : s \in ReadsOf(name)[i]
    BY <2>5, <2>7 DEF ChatStatuses
  <2>11. ChatStatuses \ {"deleted"} = {"open", "archived"}
    BY DEF ChatStatuses
  <2> QED BY <2>2, <2>4, <2>5, <2>6, <2>8, <2>9, <2>10, <2>11
<1> QED BY <1>2, <1>3 DEF ChatQueries

\* What the query may answer: of each row, each status it shows, and the read that
\* finds it.
Universe ==
  {y \in [id : 1..Rows, status : ChatStatuses, at : DOMAIN ReadsOf(asked.name)] :
     /\ y.status \in ReadsOf(asked.name)[y.at]
     /\ y.status \notin Queries[asked.name].hidden
     /\ ItemMatchesFilters(y, Queries[asked.name].kind, asked.filter)}

LEMMA UniverseIsFinite ==
  ASSUME asked.name \in ChatQueries
  PROVE  IsFiniteSet(Universe)
<1> DEFINE T == ((1..Rows) \X ChatStatuses) \X (1..3)
           all == [id : 1..Rows, status : ChatStatuses, at : 1..3]
           f == [p \in T |-> [id |-> p[1][1], status |-> p[1][2], at |-> p[2]]]
<1>0. Rows \in Int
  BY QuerySeed
<1> HIDE DEF T, all, f
<1>1. IsFiniteSet(1..Rows) /\ IsFiniteSet(1..3)
  <2>1. 1 \in Int /\ 3 \in Int
    OBVIOUS
  <2>2. IsFiniteSet(1..Rows)
    BY <1>0, <2>1, FS_Interval
  <2>3. IsFiniteSet(1..3)
    BY <2>1, FS_Interval
  <2> QED BY <2>2, <2>3
<1> USE DEF T, all, f
<1>2. IsFiniteSet(ChatStatuses)
  <2>1. IsFiniteSet({"open"}) /\ IsFiniteSet({"archived"}) /\ IsFiniteSet({"deleted"})
    BY FS_Singleton
  <2>2. IsFiniteSet({"open"} \cup {"archived"})
    BY <2>1, FS_Union
  <2>3. IsFiniteSet(({"open"} \cup {"archived"}) \cup {"deleted"})
    BY <2>1, <2>2, FS_Union
  <2>4. ({"open"} \cup {"archived"}) \cup {"deleted"} = ChatStatuses
    BY DEF ChatStatuses
  <2> QED BY <2>3, <2>4
<1>3. IsFiniteSet((1..Rows) \X ChatStatuses)
  BY <1>1, <1>2, FS_Product
<1>4. IsFiniteSet(T)
  BY <1>1, <1>3, FS_Product
<1>5. f \in Surjection(T, all)
  <2>1. f \in [T -> all]
    <3>1. ASSUME NEW p \in T
          PROVE  [id |-> p[1][1], status |-> p[1][2], at |-> p[2]] \in all
      <4>1. p[1] \in (1..Rows) \X ChatStatuses /\ p[2] \in 1..3
        OBVIOUS
      <4>2. p[1][1] \in 1..Rows /\ p[1][2] \in ChatStatuses
        BY <4>1
      <4> QED BY <4>1, <4>2
    <3> QED BY <3>1
  <2>2. ASSUME NEW y \in all PROVE \E p \in T : f[p] = y
    <3> DEFINE p == <<<<y.id, y.status>>, y.at>>
    <3>1. p \in T
      OBVIOUS
    <3>2. p[1][1] = y.id /\ p[1][2] = y.status /\ p[2] = y.at
      OBVIOUS
    <3>3. f[p] = [id |-> y.id, status |-> y.status, at |-> y.at]
      BY <3>1, <3>2
    <3> QED BY <3>1, <3>3
  <2> QED BY <2>1, <2>2 DEF Surjection
<1>6. IsFiniteSet(all)
  BY <1>4, <1>5, FS_Surjection
<1>7. Universe \subseteq all
  BY ChatReads DEF Universe
<1> QED BY <1>6, <1>7, FS_Subset

SortKnown == asked.sort.field \in PublicResourceData[Queries[asked.name].kind]
Order == {p \in Universe \X Universe : SortCollectionItems(p[1], p[2], SortKnown)}

\* An entry is seen where its read has been answered by the answer, else by the row.
WasRead(y) == y.at \in DOMAIN reads
Holds(y)    == rows[y.id] = y.status
View == {y \in Universe : IF WasRead(y) THEN y \in reads[y.at] ELSE Holds(y)}
Left == {y \in Universe : WasRead(y) /\ y \in reads[y.at] /\ ~Holds(y)}
Came == {y \in Universe : WasRead(y) /\ y \notin reads[y.at] /\ Holds(y)}


Cut(D) == Downward(Order, Universe, D)
Within(x, D) == \E y \in D : y.id = x /\ Holds(y)
Missed(D) == {x \in Unmoved : got[x] = 0 /\ Within(x, D)}
Again(D)  == {x \in Unmoved : got[x] > 1 \/ (got[x] = 1 /\ ~Within(x, D))}

Slips(D) ==
  LET n == Len(changed)
      seen == Cardinality(View \cap D) IN
  /\ Cardinality(Missed(D)) + Cardinality(Left) <= n
  /\ Cardinality(Missed(D)) + Cardinality(Left) + cursor.offset <= n + seen
  /\ Cardinality(Again(D)) + Cardinality(Came) <= n
  /\ Cardinality(Again(D)) + Cardinality(Came) + seen <= n + cursor.offset

WalkTypes ==
  /\ rows \in [1..Rows -> ChatStatuses \cup {"absent"}]
  /\ asked \in Walks /\ cursor.offset \in Nat
  /\ got \in [1..Rows -> Nat] /\ changed \in Seq(1..Rows)
  /\ DOMAIN reads \subseteq DOMAIN ReadsOf(asked.name)
  /\ \A i \in DOMAIN reads :
        /\ reads[i] \subseteq [id : 1..Rows, status : ReadsOf(asked.name)[i], at : {i}]
        /\ \A y, z \in reads[i] : y.id = z.id => y = z
\* What was read of a row is so as long as it does not change.
StillThere ==
  \A y \in Universe : y.id \in Unmoved /\ WasRead(y) => (y \in reads[y.at] <=> Holds(y))
\* It receives nothing that it did not ask for.
WantedOnly == \A x \in Unmoved : got[x] > 0 => Wanted(x)
\* How far it has got.
OnTrack == \E D : Cut(D) /\ Slips(D)
AtTheEnd ==
  \E D : Cut(D) /\ Slips(D) /\ \A x \in Unmoved : Wanted(x) => Within(x, D)
WalkInv ==
  /\ walk = "reading" => WalkTypes /\ StillThere /\ WantedOnly /\ OnTrack
  /\ walk = "over" /\ status = 200 => WalkTypes /\ WantedOnly /\ AtTheEnd

LEMMA ChatFields ==
  ASSUME asked.name \in ChatQueries
  PROVE  PublicResourceData[Queries[asked.name].kind] = ChatQueryItem
<1>1. Queries[asked.name].kind = "chat"
  BY ChatReads
<1>2. QueryItems["chat"] = ChatQueryItem
  BY DEF QueryItems
<1> QED BY <1>1, <1>2, ItemsArriveWhole

\* What the client may have asked for.
LEMMA Options ==
  ASSUME asked \in Walks
  PROVE  /\ asked.name \in ChatQueries /\ asked.limit \in Nat
         /\ asked.sort.field \in {"id", "status", "updatedAt", "displayName", ""}
         /\ asked.filter = Unfiltered \/ asked.filter.field \in {"status", "labelId"}
         /\ SortKnown => asked.sort.field \in {"id", "status"}
<1>1. /\ asked.name \in WalkedQueries /\ asked.limit \in AskedLimits
      /\ Asked(asked.name, asked.sort, asked.filter)
  BY DEF Walks
<1>2. asked.name \in ChatQueries /\ asked.limit \in Nat
  BY <1>1, QuerySeed DEF ChatQueries
<1>3. AllowedSortFields(asked.name) = {"id", "status", "updatedAt", "displayName"}
  BY <1>2 DEF ChatQueries, AllowedSortFields
<1>4. AllowedFilterFields(asked.name) = {"status", "labelId"}
  BY <1>2 DEF ChatQueries, AllowedFilterFields
<1>5. asked.sort.field \in {"id", "status", "updatedAt", "displayName", ""}
  BY <1>1, <1>3 DEF Asked
<1>6. asked.filter = Unfiltered \/ asked.filter.field \in {"status", "labelId"}
  BY <1>1, <1>4 DEF Asked
<1>7. PublicResourceData[Queries[asked.name].kind] = ChatQueryItem
  BY <1>2, ChatFields
<1>8. SortKnown => asked.sort.field \in {"id", "status"}
  BY <1>5, <1>7 DEF SortKnown, ChatQueryItem
<1> QED BY <1>2, <1>5, <1>6, <1>8

LEMMA UniverseTypes ==
  ASSUME asked \in Walks, NEW y \in Universe
  PROVE  /\ y.id \in 1..Rows /\ y.status \in {"open", "archived"} /\ y.at \in 1..3
         /\ y.at \in DOMAIN ReadsOf(asked.name) /\ y.status \in ReadsOf(asked.name)[y.at]
         /\ y = [id |-> y.id, status |-> y.status, at |-> y.at]
<1>1. asked.name \in ChatQueries
  BY Options
<1>2. /\ y.id \in 1..Rows /\ y.status \in ChatStatuses /\ y.at \in DOMAIN ReadsOf(asked.name)
      /\ y.status \in ReadsOf(asked.name)[y.at]
      /\ y.status \notin Queries[asked.name].hidden
      /\ y = [id |-> y.id, status |-> y.status, at |-> y.at]
  BY DEF Universe
<1>3. Queries[asked.name].hidden = {"deleted"} /\ y.at \in 1..3
  BY <1>1, <1>2, ChatReads
<1> QED BY <1>2, <1>3 DEF ChatStatuses

\* A row has at most one entry with its status.
LEMMA OneEntry ==
  ASSUME asked \in Walks, NEW y \in Universe, NEW z \in Universe,
         y.id = z.id, y.status = z.status
  PROVE  y = z
<1>1. asked.name \in ChatQueries
  BY Options
<1>2. /\ y.at \in DOMAIN ReadsOf(asked.name) /\ y.status \in ReadsOf(asked.name)[y.at]
      /\ z.at \in DOMAIN ReadsOf(asked.name) /\ z.status \in ReadsOf(asked.name)[z.at]
      /\ y = [id |-> y.id, status |-> y.status, at |-> y.at]
      /\ z = [id |-> z.id, status |-> z.status, at |-> z.at]
  BY UniverseTypes
<1>3. y.at = z.at
  BY <1>1, <1>2, ChatReads
<1> QED BY <1>2, <1>3

\* The sort compares one number, then the read, then the id.
Key(y) ==
  LET value == IF SortKnown THEN ComparableValue(y, asked.sort.field) ELSE 0 IN
  IF asked.sort.descending THEN -value ELSE value

LEMMA OrderByKey ==
  ASSUME asked \in Walks, NEW y \in Universe, NEW z \in Universe
  PROVE  /\ Key(y) \in Int
         /\ <<y, z>> \in Order <=>
              \/ Key(y) < Key(z)
              \/ Key(y) = Key(z) /\ (y.at < z.at \/ (y.at = z.at /\ y.id < z.id))
<1> DEFINE Value(item) == IF SortKnown THEN ComparableValue(item, asked.sort.field) ELSE 0
<1>1. ASSUME NEW item \in Universe PROVE Value(item) \in Int
  <2>1. item.id \in Int /\ item.status \in {"open", "archived"}
    BY UniverseTypes
  <2>2. Alphabetical[item.status] \in Int
    BY <2>1 DEF Alphabetical
  <2> QED BY <2>1, <2>2 DEF ComparableValue
<1>2. <<y, z>> \in Order <=> SortCollectionItems(y, z, SortKnown)
  BY DEF Order
<1>3. SortCollectionItems(y, z, SortKnown) <=>
        \/ IF asked.sort.descending THEN Value(y) > Value(z) ELSE Value(y) < Value(z)
        \/ /\ Value(y) = Value(z)
           /\ \/ y.at < z.at
              \/ y.at = z.at /\ y.id < z.id
  BY DEF SortCollectionItems
<1>4. Value(y) \in Int /\ Value(z) \in Int
  BY <1>1
<1>5. /\ Key(y) = IF asked.sort.descending THEN -Value(y) ELSE Value(y)
      /\ Key(z) = IF asked.sort.descending THEN -Value(z) ELSE Value(z)
  BY DEF Key
<1> HIDE DEF Value
<1> QED BY <1>2, <1>3, <1>4, <1>5

LEMMA OrderIsWeak ==
  ASSUME asked \in Walks
  PROVE  /\ WeakOrder(Order, Universe)
         /\ \A y, z \in Universe : \/ <<y, z>> \in Order \/ <<z, y>> \in Order
                                  \/ (y.id = z.id /\ y.at = z.at)
<1>1. \A y \in Universe : Key(y) \in Int /\ y.id \in Int /\ y.at \in Int
  <2> TAKE y \in Universe
  <2>1. Key(y) \in Int
    BY OrderByKey
  <2>2. y.id \in 1..Rows /\ y.at \in 1..3
    BY UniverseTypes
  <2>3. y.id \in Int /\ y.at \in Int
    BY <2>2
  <2> QED BY <2>1, <2>3
<1>2. \A y, z \in Universe :
        <<y, z>> \in Order <=>
              \/ Key(y) < Key(z)
              \/ Key(y) = Key(z) /\ (y.at < z.at \/ (y.at = z.at /\ y.id < z.id))
  BY OrderByKey
<1>3. \A y \in Universe : <<y, y>> \notin Order
  BY <1>1, <1>2
<1>4. \A y, z \in Universe : <<y, z>> \in Order => <<z, y>> \notin Order
  BY <1>1, <1>2
<1>5. \A x, y, z \in Universe : <<x, y>> \in Order /\ <<y, z>> \in Order => <<x, z>> \in Order
  BY <1>1, <1>2
<1>6. \A x, y, z \in Universe : <<x, y>> \in Order /\ <<z, y>> \notin Order => <<x, z>> \in Order
  BY <1>1, <1>2
<1>7. \A y, z \in Universe : \/ <<y, z>> \in Order \/ <<z, y>> \in Order
                           \/ (y.id = z.id /\ y.at = z.at)
  <2> TAKE y, z \in Universe
  <2>1. /\ Key(y) \in Int /\ y.id \in Int /\ y.at \in Int
        /\ Key(z) \in Int /\ z.id \in Int /\ z.at \in Int
    BY <1>1
  <2> QED BY <1>2, <2>1
<1> QED BY <1>3, <1>4, <1>5, <1>6, <1>7 DEF WeakOrder

\* Filters look at the status only.
LEMMA MatchByStatus ==
  ASSUME asked \in Walks, NEW left, NEW right, left.status = right.status
  PROVE  ItemMatchesFilters(left, Queries[asked.name].kind, asked.filter)
           <=> ItemMatchesFilters(right, Queries[asked.name].kind, asked.filter)
<1>1. asked.filter = Unfiltered \/ asked.filter.field \in {"status", "labelId"}
  BY Options
<1>2. PublicResourceData[Queries[asked.name].kind] = ChatQueryItem
  BY Options, ChatFields
<1>3. CASE asked.filter = Unfiltered
  BY <1>3 DEF ItemMatchesFilters
<1>4. CASE asked.filter.field = "status"
  BY <1>4 DEF ItemMatchesFilters
<1>5. CASE asked.filter.field = "labelId"
  <2>1. asked.filter.field \notin PublicResourceData[Queries[asked.name].kind]
    BY <1>2, <1>5 DEF ChatQueryItem
  <2> QED BY <2>1 DEF ItemMatchesFilters
<1> QED BY <1>1, <1>3, <1>4, <1>5

\* A row is wanted if it has an entry.
LEMMA WantedEntry ==
  ASSUME asked \in Walks, NEW x \in 1..Rows
  PROVE  Wanted(x) <=> \E y \in Universe : y.id = x /\ Holds(y)
<1>1. asked.name \in ChatQueries
  BY Options
<1>2. Shows(Queries[asked.name]) = {"open", "archived"} /\ Queries[asked.name].hidden = {"deleted"}
  BY <1>1, ChatReads
<1> DEFINE row == [id |-> x, status |-> rows[x]]
<1>3. row.status = rows[x]
  OBVIOUS
<1> HIDE DEF row
<1>4. Wanted(x) <=> /\ rows[x] \in {"open", "archived"}
                    /\ ItemMatchesFilters(row, Queries[asked.name].kind, asked.filter)
  BY <1>2 DEF Wanted, row
<1>5. ASSUME NEW y \in Universe, y.id = x, Holds(y) PROVE Wanted(x)
  <2>1. y.status = rows[x] /\ y.status \in {"open", "archived"}
    BY <1>5, UniverseTypes DEF Holds
  <2>2. ItemMatchesFilters(y, Queries[asked.name].kind, asked.filter)
    BY DEF Universe
  <2>3. ItemMatchesFilters(row, Queries[asked.name].kind, asked.filter)
    BY <1>3, <2>1, <2>2, MatchByStatus
  <2> QED BY <1>4, <2>1, <2>3
<1>6. ASSUME Wanted(x) PROVE \E y \in Universe : y.id = x /\ Holds(y)
  <2>1. /\ rows[x] \in {"open", "archived"}
        /\ ItemMatchesFilters(row, Queries[asked.name].kind, asked.filter)
    BY <1>4, <1>6
  <2>2. rows[x] \in ChatStatuses
    BY <2>1 DEF ChatStatuses
  <2>3. PICK i \in DOMAIN ReadsOf(asked.name) : rows[x] \in ReadsOf(asked.name)[i]
    BY <1>1, <2>2, ChatReads
  <2> DEFINE y == [id |-> x, status |-> rows[x], at |-> i]
  <2>4. y.id = x /\ y.status = rows[x] /\ y.at = i
    OBVIOUS
  <2>5. y \in [id : 1..Rows, status : ChatStatuses, at : DOMAIN ReadsOf(asked.name)]
    BY <2>2
  <2> HIDE DEF y
  <2>6. ItemMatchesFilters(y, Queries[asked.name].kind, asked.filter)
    BY <1>3, <2>1, <2>4, MatchByStatus
  <2>7. y \in Universe
    BY <1>2, <2>1, <2>3, <2>4, <2>5, <2>6 DEF Universe
  <2> QED BY <2>4, <2>7 DEF Holds
<1> QED BY <1>5, <1>6

\* While the options stay, so do the entries and their order.
LEMMA AskedKept ==
  ASSUME asked' = asked
  PROVE  Universe' = Universe /\ Order' = Order
<1>1. Universe' = Universe
  BY DEF Universe
<1>2. Order' = Order
  BY <1>1 DEF Order, SortCollectionItems, SortKnown
<1> QED BY <1>1, <1>2

\* A change takes one entry out of what was read, or out of what is to be read.
LEMMA OneOfTwo ==
  ASSUME NEW L, IsFiniteSet(L), NEW V, IsFiniteSet(V), NEW M, NEW W, NEW e,
         \/ M \subseteq L /\ W \subseteq V \cup {e}
         \/ M \subseteq L \cup {e} /\ W \subseteq V
  PROVE  /\ Cardinality(L) \in Nat /\ Cardinality(V) \in Nat
         /\ Cardinality(M) \in Nat /\ Cardinality(W) \in Nat
         /\ Cardinality(M) <= Cardinality(L) + 1
         /\ Cardinality(M) + Cardinality(W) <= Cardinality(L) + Cardinality(V) + 1
<1>1. CASE M \subseteq L /\ W \subseteq V \cup {e}
  <2>1. Cardinality(M) <= Cardinality(L) /\ IsFiniteSet(M)
    BY <1>1, FS_Subset
  <2>2. /\ Cardinality(W) \in Nat /\ Cardinality(V) \in Nat
        /\ Cardinality(W) <= Cardinality(V) + 1
    BY <1>1, CountOneMore
  <2>3. Cardinality(M) \in Nat /\ Cardinality(L) \in Nat
    BY <2>1, FS_CardinalityType
  <2> QED BY <2>1, <2>2, <2>3
<1>2. CASE M \subseteq L \cup {e} /\ W \subseteq V
  <2>1. Cardinality(W) <= Cardinality(V) /\ IsFiniteSet(W)
    BY <1>2, FS_Subset
  <2>2. /\ Cardinality(M) \in Nat /\ Cardinality(L) \in Nat
        /\ Cardinality(M) <= Cardinality(L) + 1
    BY <1>2, CountOneMore
  <2>3. Cardinality(W) \in Nat /\ Cardinality(V) \in Nat
    BY <2>1, FS_CardinalityType
  <2> QED BY <2>1, <2>2, <2>3
<1> QED BY <1>1, <1>2

\* What is counted is finite.
LEMMA SlipSets ==
  ASSUME WalkTypes, NEW D, D \subseteq Universe
  PROVE  /\ IsFiniteSet(Universe) /\ IsFiniteSet(View) /\ IsFiniteSet(View \cap D)
         /\ IsFiniteSet(Left) /\ IsFiniteSet(Came)
         /\ IsFiniteSet(Missed(D)) /\ IsFiniteSet(Again(D)) /\ Len(changed) \in Nat
         /\ Cardinality(View \cap D) \in Nat /\ Cardinality(View) \in Nat
         /\ Cardinality(Left) \in Nat /\ Cardinality(Came) \in Nat
         /\ Cardinality(Missed(D)) \in Nat /\ Cardinality(Again(D)) \in Nat
<1>1. IsFiniteSet(Universe)
  BY Options, UniverseIsFinite DEF WalkTypes
<1>2. /\ View \subseteq Universe /\ View \cap D \subseteq Universe
      /\ Left \subseteq Universe /\ Came \subseteq Universe
  BY DEF View, Left, Came
<1>3. IsFiniteSet(View) /\ IsFiniteSet(View \cap D) /\ IsFiniteSet(Left) /\ IsFiniteSet(Came)
  BY <1>1, <1>2, FS_Subset
<1>4. IsFiniteSet(1..Rows)
  <2>1. 1 \in Int /\ Rows \in Int
    BY QuerySeed
  <2> QED BY <2>1, FS_Interval
<1>5. Missed(D) \subseteq 1..Rows /\ Again(D) \subseteq 1..Rows
  BY DEF Missed, Again, Unmoved
<1>6. IsFiniteSet(Missed(D)) /\ IsFiniteSet(Again(D))
  BY <1>4, <1>5, FS_Subset
<1>7. Len(changed) \in Nat
  BY DEF WalkTypes
<1> QED BY <1>1, <1>3, <1>6, <1>7, FS_CardinalityType

\* A row that changes is no longer unmoved; the others are as they were read.
LEMMA RowChanges ==
  ASSUME WalkTypes, StillThere, WantedOnly, NEW x \in 1..Rows, ChangeRow(x)
  PROVE  /\ Unmoved' \subseteq Unmoved \ {x} /\ Len(changed') = Len(changed) + 1
         /\ \A z \in 1..Rows : z # x => rows'[z] = rows[z]
         /\ WalkTypes' /\ StillThere' /\ WantedOnly'
<1>1. /\ changed' = Append(changed, x)
      /\ asked' = asked /\ cursor' = cursor /\ reads' = reads /\ got' = got
  BY DEF ChangeRow
<1>2. PICK new \in {"open", "archived", "deleted"} : rows' = [rows EXCEPT ![x] = new]
  BY DEF ChangeRow
<1>3. changed \in Seq(1..Rows) /\ rows \in [1..Rows -> ChatStatuses \cup {"absent"}]
  BY DEF WalkTypes
<1>4. changed' \in Seq(1..Rows) /\ Len(changed') = Len(changed) + 1
  BY <1>1, <1>3
<1>5. ToSet(changed) \cup {x} \subseteq ToSet(changed')
  <2>1. DOMAIN changed = 1..Len(changed) /\ DOMAIN changed' = 1..(Len(changed) + 1)
    BY <1>1, <1>3
  <2>2. changed'[Len(changed) + 1] = x /\ Len(changed) + 1 \in DOMAIN changed'
    BY <1>1, <1>3
  <2>3. \A i \in DOMAIN changed : changed'[i] = changed[i] /\ i \in DOMAIN changed'
    BY <1>1, <1>3
  <2> QED BY <2>2, <2>3 DEF ToSet
<1>6. Unmoved' \subseteq Unmoved \ {x}
  BY <1>5 DEF Unmoved
<1>7. /\ rows' \in [1..Rows -> ChatStatuses \cup {"absent"}]
      /\ \A z \in 1..Rows : z # x => rows'[z] = rows[z]
  BY <1>2, <1>3 DEF ChatStatuses
<1>8. WalkTypes'
  BY <1>1, <1>4, <1>7 DEF WalkTypes
<1>9. StillThere'
  <2> SUFFICES ASSUME NEW y \in Universe, y.id \in Unmoved', y.at \in DOMAIN reads
               PROVE  y \in reads[y.at] <=> rows'[y.id] = y.status
    BY <1>1, AskedKept DEF StillThere, WasRead, Holds
  <2>1. y.id \in Unmoved /\ y.id # x /\ y.id \in 1..Rows
    BY <1>6 DEF Unmoved
  <2> QED BY <1>7, <2>1 DEF StillThere, WasRead, Holds
<1>10. WantedOnly'
  <2> SUFFICES ASSUME NEW z \in Unmoved', got[z] > 0 PROVE Wanted(z)'
    BY <1>1 DEF WantedOnly
  <2>1. z \in Unmoved /\ rows'[z] = rows[z]
    BY <1>6, <1>7 DEF Unmoved
  <2>2. Wanted(z)
    BY <2>1 DEF WantedOnly
  <2> QED BY <1>1, <2>1, <2>2 DEF Wanted
<1> QED BY <1>4, <1>6, <1>7, <1>8, <1>9, <1>10

\* A change adds one to what may slip, on either side.
LEMMA ChangeStep ==
  ASSUME WalkTypes, StillThere, WantedOnly, NEW x \in 1..Rows, ChangeRow(x),
         NEW D, Cut(D), Slips(D)
  PROVE  Cut(D)' /\ Slips(D)'
<1>1. /\ Unmoved' \subseteq Unmoved \ {x} /\ Len(changed') = Len(changed) + 1
      /\ \A z \in 1..Rows : z # x => rows'[z] = rows[z]
      /\ WalkTypes'
  BY RowChanges
<1>2. asked' = asked /\ cursor' = cursor /\ reads' = reads /\ got' = got
  BY DEF ChangeRow
<1>3. Universe' = Universe /\ Order' = Order /\ asked \in Walks
  BY <1>2, AskedKept DEF WalkTypes
<1>4. D \subseteq Universe /\ Cut(D)'
  BY <1>3 DEF Cut, Downward
<1>5. \A y \in Universe : y.id \in 1..Rows
  BY <1>3, UniverseTypes
<1>6. \A z \in Unmoved' : Within(z, D)' <=> Within(z, D)
  <2> TAKE z \in Unmoved'
  <2>1. z \in 1..Rows /\ z # x
    BY <1>1 DEF Unmoved
  <2>2. \A y \in D : y.id = z => (Holds(y)' <=> Holds(y))
    BY <1>1, <2>1 DEF Holds
  <2> QED BY <2>2 DEF Within
<1>7. Missed(D)' \subseteq Missed(D) /\ Again(D)' \subseteq Again(D)
  BY <1>1, <1>2, <1>6 DEF Missed, Again
<1>8. \A y \in Universe : y.id # x => (Holds(y)' <=> Holds(y))
  BY <1>1, <1>5 DEF Holds
<1>9. \A y \in Universe : WasRead(y)' <=> WasRead(y)
  BY <1>2 DEF WasRead
<1>10. \E e : \/ Left' \subseteq Left /\ View \subseteq View' \cup {e}
              \/ Left' \subseteq Left \cup {e} /\ View \subseteq View'
  <2>1. \A y \in Left' : y \notin Left => WasRead(y) /\ y.id = x /\ Holds(y) /\ y \in Universe
    BY <1>2, <1>3, <1>8, <1>9 DEF Left
  <2>2. \A y \in View : y \notin View' => ~WasRead(y) /\ y.id = x /\ Holds(y) /\ y \in Universe
    BY <1>2, <1>3, <1>8, <1>9 DEF View
  <2>3. CASE \E e \in Universe : e.id = x /\ Holds(e)
    <3>1. PICK e \in Universe : e.id = x /\ Holds(e)
      BY <2>3
    <3>2. \A y \in Universe : y.id = x /\ Holds(y) => y = e
      BY <1>3, <3>1, OneEntry DEF Holds
    <3>3. CASE WasRead(e)
      BY <2>1, <2>2, <3>2, <3>3
    <3>4. CASE ~WasRead(e)
      BY <2>1, <2>2, <3>2, <3>4
    <3> QED BY <3>3, <3>4
  <2>4. CASE ~\E e \in Universe : e.id = x /\ Holds(e)
    BY <2>1, <2>2, <2>4
  <2> QED BY <2>3, <2>4
<1>11. \E e : \/ Came' \subseteq Came /\ View' \subseteq View \cup {e}
              \/ Came' \subseteq Came \cup {e} /\ View' \subseteq View
  <2>1. \A y \in Came' : y \notin Came => WasRead(y) /\ y.id = x /\ Holds(y)' /\ y \in Universe
    BY <1>2, <1>3, <1>8, <1>9 DEF Came
  <2>2. \A y \in View' : y \notin View => ~WasRead(y) /\ y.id = x /\ Holds(y)' /\ y \in Universe
    BY <1>2, <1>3, <1>8, <1>9 DEF View
  <2>3. CASE \E e \in Universe : e.id = x /\ Holds(e)'
    <3>1. PICK e \in Universe : e.id = x /\ Holds(e)'
      BY <2>3
    <3>2. \A y \in Universe : y.id = x /\ Holds(y)' => y = e
      <4>1. \A y \in Universe : y.id = x /\ Holds(y)' => y.id = e.id /\ y.status = e.status
        BY <3>1 DEF Holds
      <4> QED BY <1>3, <3>1, <4>1, OneEntry
    <3>3. CASE WasRead(e)
      BY <2>1, <2>2, <3>2, <3>3
    <3>4. CASE ~WasRead(e)
      BY <2>1, <2>2, <3>2, <3>4
    <3> QED BY <3>3, <3>4
  <2>4. CASE ~\E e \in Universe : e.id = x /\ Holds(e)'
    BY <2>1, <2>2, <2>4
  <2> QED BY <2>3, <2>4
<1>12. /\ IsFiniteSet(Universe) /\ IsFiniteSet(View \cap D)
       /\ IsFiniteSet(Left) /\ IsFiniteSet(Came)
       /\ IsFiniteSet(Missed(D)) /\ IsFiniteSet(Again(D)) /\ Len(changed) \in Nat
       /\ Cardinality(Missed(D)) \in Nat /\ Cardinality(Again(D)) \in Nat
  BY <1>4, SlipSets
<1>13. IsFiniteSet(View' \cap D)
  <2>1. View' \cap D \subseteq Universe
    BY <1>4
  <2> QED BY <1>12, <2>1, FS_Subset
<1>14. /\ Cardinality(Left') \in Nat /\ Cardinality(Left) \in Nat
       /\ Cardinality(View \cap D) \in Nat /\ Cardinality(View' \cap D) \in Nat
       /\ Cardinality(Left') <= Cardinality(Left) + 1
       /\ Cardinality(Left') + Cardinality(View \cap D)
            <= Cardinality(Left) + Cardinality(View' \cap D) + 1
  <2>1. PICK e : \/ Left' \subseteq Left /\ View \subseteq View' \cup {e}
                 \/ Left' \subseteq Left \cup {e} /\ View \subseteq View'
    BY <1>10
  <2>2. \/ Left' \subseteq Left /\ View \cap D \subseteq (View' \cap D) \cup {e}
        \/ Left' \subseteq Left \cup {e} /\ View \cap D \subseteq View' \cap D
    BY <2>1
  <2> QED BY <1>12, <1>13, <2>2, OneOfTwo
<1>15. /\ Cardinality(Came') \in Nat /\ Cardinality(Came) \in Nat
       /\ Cardinality(Came') <= Cardinality(Came) + 1
       /\ Cardinality(Came') + Cardinality(View' \cap D)
            <= Cardinality(Came) + Cardinality(View \cap D) + 1
  <2>1. PICK e : \/ Came' \subseteq Came /\ View' \subseteq View \cup {e}
                 \/ Came' \subseteq Came \cup {e} /\ View' \subseteq View
    BY <1>11
  <2>2. \/ Came' \subseteq Came /\ View' \cap D \subseteq (View \cap D) \cup {e}
        \/ Came' \subseteq Came \cup {e} /\ View' \cap D \subseteq View \cap D
    BY <2>1
  <2> QED BY <1>12, <1>13, <2>2, OneOfTwo
<1>16. /\ Cardinality(Missed(D)') <= Cardinality(Missed(D)) /\ Cardinality(Missed(D)') \in Nat
       /\ Cardinality(Again(D)') <= Cardinality(Again(D)) /\ Cardinality(Again(D)') \in Nat
  <2>1. IsFiniteSet(Missed(D)') /\ IsFiniteSet(Again(D)')
    BY <1>7, <1>12, FS_Subset
  <2> QED BY <1>7, <1>12, <2>1, FS_Subset, FS_CardinalityType
<1>17. cursor.offset \in Nat
  BY DEF WalkTypes
<1>18. /\ Cardinality(Missed(D)) + Cardinality(Left) <= Len(changed)
       /\ Cardinality(Missed(D)) + Cardinality(Left) + cursor.offset
            <= Len(changed) + Cardinality(View \cap D)
       /\ Cardinality(Again(D)) + Cardinality(Came) <= Len(changed)
       /\ Cardinality(Again(D)) + Cardinality(Came) + Cardinality(View \cap D)
            <= Len(changed) + cursor.offset
  BY DEF Slips
<1>19. /\ Cardinality(Missed(D)') + Cardinality(Left') <= Len(changed) + 1
       /\ Cardinality(Missed(D)') + Cardinality(Left') + cursor.offset
            <= Len(changed) + 1 + Cardinality(View' \cap D)
  <2> DEFINE m == Cardinality(Missed(D))
             mm == Cardinality(Missed(D)')
             l == Cardinality(Left)
             ll == Cardinality(Left')
             v == Cardinality(View \cap D)
             vv == Cardinality(View' \cap D)
             n == Len(changed)
             at == cursor.offset
  <2>1. /\ m \in Nat /\ mm \in Nat /\ l \in Nat /\ ll \in Nat /\ v \in Nat /\ vv \in Nat
        /\ n \in Nat /\ at \in Nat
    BY <1>12, <1>14, <1>16, <1>17
  <2>2. mm <= m /\ ll <= l + 1 /\ ll + v <= l + vv + 1 /\ m + l <= n /\ m + l + at <= n + v
    BY <1>14, <1>16, <1>18
  <2> HIDE DEF m, mm, l, ll, v, vv, n, at
  <2>3. mm + ll <= n + 1 /\ mm + ll + at <= n + 1 + vv
    BY <2>1, <2>2
  <2> QED BY <2>3 DEF m, mm, l, ll, v, vv, n, at
<1>20. /\ Cardinality(Again(D)') + Cardinality(Came') <= Len(changed) + 1
       /\ Cardinality(Again(D)') + Cardinality(Came') + Cardinality(View' \cap D)
            <= Len(changed) + 1 + cursor.offset
  <2> DEFINE a == Cardinality(Again(D))
             aa == Cardinality(Again(D)')
             c == Cardinality(Came)
             cc == Cardinality(Came')
             v == Cardinality(View \cap D)
             vv == Cardinality(View' \cap D)
             n == Len(changed)
             at == cursor.offset
  <2>1. /\ a \in Nat /\ aa \in Nat /\ c \in Nat /\ cc \in Nat /\ v \in Nat /\ vv \in Nat
        /\ n \in Nat /\ at \in Nat
    BY <1>12, <1>14, <1>15, <1>16, <1>17
  <2>2. aa <= a /\ cc <= c + 1 /\ cc + vv <= c + v + 1 /\ a + c <= n /\ a + c + v <= n + at
    BY <1>15, <1>16, <1>18
  <2> HIDE DEF a, aa, c, cc, v, vv, n, at
  <2>3. aa + cc <= n + 1 /\ aa + cc + vv <= n + 1 + at
    BY <2>1, <2>2
  <2> QED BY <2>3 DEF a, aa, c, cc, v, vv, n, at
<1>21. Slips(D)'
  <2>1. Len(changed') = Len(changed) + 1 /\ cursor'.offset = cursor.offset
    BY <1>1, <1>2
  <2> QED BY <1>19, <1>20, <2>1 DEF Slips
<1> QED BY <1>4, <1>21

\* A SELECT reads the rows as they are: nothing is seen that was not.
LEMMA SelectStep ==
  ASSUME WalkTypes, StillThere, WantedOnly, NEW i, SelectRows(i), NEW D, Cut(D), Slips(D)
  PROVE  WalkTypes' /\ StillThere' /\ WantedOnly' /\ Cut(D)' /\ Slips(D)'
<1> DEFINE found == {x \in 1..Rows : rows[x] \in ReadsOf(asked.name)[i]}
           new == {[id |-> x, status |-> rows[x], at |-> i] : x \in found}
<1>1. /\ i \in DOMAIN ReadsOf(asked.name) /\ i \notin DOMAIN reads
      /\ reads' = [n \in DOMAIN reads \cup {i} |-> IF n = i THEN new ELSE reads[n]]
      /\ rows' = rows /\ asked' = asked /\ cursor' = cursor /\ got' = got /\ changed' = changed
  BY DEF SelectRows
<1>2. Universe' = Universe /\ Order' = Order /\ asked \in Walks
  BY <1>1, AskedKept DEF WalkTypes
<1>3. /\ new \subseteq [id : 1..Rows, status : ReadsOf(asked.name)[i], at : {i}]
      /\ \A y, z \in new : y.id = z.id => y = z
      /\ \A y \in new : y.status = rows[y.id]
  OBVIOUS
<1>4. ASSUME NEW y \in Universe, y.at = i PROVE y \in new <=> Holds(y)
  <2>1. /\ y.id \in 1..Rows /\ y.status \in ReadsOf(asked.name)[i]
        /\ y = [id |-> y.id, status |-> y.status, at |-> i]
    BY <1>2, <1>4, UniverseTypes
  <2>2. Holds(y) => y \in new
    BY <2>1 DEF Holds
  <2>3. y \in new => Holds(y)
    BY <1>3 DEF Holds
  <2> QED BY <2>2, <2>3
<1> HIDE DEF new, found
<1>5. /\ DOMAIN reads' = DOMAIN reads \cup {i} /\ reads'[i] = new
      /\ \A n \in DOMAIN reads : reads'[n] = reads[n]
  BY <1>1
<1>6. WalkTypes'
  BY <1>1, <1>3, <1>5 DEF WalkTypes
<1>7. \A y \in Universe : /\ Holds(y)' <=> Holds(y)
                          /\ WasRead(y)' <=> (WasRead(y) \/ y.at = i)
  BY <1>1, <1>5 DEF Holds, WasRead
<1>8. \A y \in Universe :
        WasRead(y)' => (y \in reads'[y.at] <=> IF y.at = i THEN Holds(y) ELSE y \in reads[y.at])
  BY <1>1, <1>4, <1>5, <1>7 DEF WasRead
<1>9. \A y \in Universe : y.at = i => ~WasRead(y)
  BY <1>1 DEF WasRead
<1>10. StillThere'
  <2> SUFFICES ASSUME NEW y \in Universe, y.id \in Unmoved, WasRead(y)'
               PROVE  y \in reads'[y.at] <=> Holds(y)
    BY <1>1, <1>2, <1>7 DEF StillThere, Unmoved
  <2> QED BY <1>7, <1>8 DEF StillThere
<1>11. WantedOnly'
  BY <1>1 DEF WantedOnly, Wanted, Unmoved
<1>12. Cut(D)'
  BY <1>2 DEF Cut
<1>13. View' = View
  <2>1. \A y \in Universe : (IF WasRead(y)' THEN y \in reads'[y.at] ELSE Holds(y)')
                              <=> IF WasRead(y) THEN y \in reads[y.at] ELSE Holds(y)
    BY <1>7, <1>8, <1>9
  <2> QED BY <1>2, <2>1 DEF View
<1>14. Left' = Left /\ Came' = Came
  <2>1. \A y \in Universe : (WasRead(y)' /\ y \in reads'[y.at] /\ ~Holds(y)')
                              <=> WasRead(y) /\ y \in reads[y.at] /\ ~Holds(y)
    BY <1>7, <1>8, <1>9
  <2>2. \A y \in Universe : (WasRead(y)' /\ y \notin reads'[y.at] /\ Holds(y)')
                              <=> WasRead(y) /\ y \notin reads[y.at] /\ Holds(y)
    BY <1>7, <1>8, <1>9
  <2> QED BY <1>2, <2>1, <2>2 DEF Left, Came
<1>15. Missed(D)' = Missed(D) /\ Again(D)' = Again(D)
  BY <1>1 DEF Missed, Again, Within, Holds, Unmoved
<1>16. Slips(D)'
  BY <1>1, <1>13, <1>14, <1>15 DEF Slips
<1> QED BY <1>6, <1>10, <1>11, <1>12, <1>16

\* What the server pages is what was read.
LEMMA PagedItems ==
  ASSUME WalkTypes, DOMAIN reads = DOMAIN ReadsOf(asked.name)
  PROVE  ApplyCollectionFilters(Listed(UNION {reads[i] : i \in DOMAIN reads}, Queries[asked.name]),
                                Queries[asked.name].kind) = View
<1> DEFINE answers == UNION {reads[i] : i \in DOMAIN reads}
           items == ApplyCollectionFilters(Listed(answers, Queries[asked.name]),
                                           Queries[asked.name].kind)
<1>1. \A y : y \in items <=> /\ y \in answers /\ y.status \notin Queries[asked.name].hidden
                             /\ ItemMatchesFilters(y, Queries[asked.name].kind, asked.filter)
  BY DEF ApplyCollectionFilters, Listed
<1>2. asked.name \in ChatQueries
  BY Options DEF WalkTypes
<1>3. \A i \in DOMAIN ReadsOf(asked.name) : ReadsOf(asked.name)[i] \subseteq ChatStatuses
  BY <1>2, ChatReads
<1>4. \A y \in View : WasRead(y) /\ y \in reads[y.at] /\ y \in Universe
  BY DEF View, Universe, WasRead
<1>5. View \subseteq items
  <2> SUFFICES ASSUME NEW y \in View PROVE y \in items
    OBVIOUS
  <2>1. y \in answers
    BY <1>4 DEF WasRead
  <2> HIDE DEF answers, items
  <2> QED BY <1>1, <1>4, <2>1 DEF Universe
<1>6. items \subseteq View
  <2> SUFFICES ASSUME NEW y \in items PROVE y \in View
    OBVIOUS
  <2>1. y \in answers
    BY <1>1
  <2>2. PICK i \in DOMAIN reads : y \in reads[i]
    BY <2>1
  <2>3. y \in [id : 1..Rows, status : ReadsOf(asked.name)[i], at : {i}]
    BY <2>2 DEF WalkTypes
  <2>4. y \in [id : 1..Rows, status : ChatStatuses, at : DOMAIN ReadsOf(asked.name)]
    BY <1>3, <2>3
  <2>5. y.at = i /\ y.status \in ReadsOf(asked.name)[y.at]
    BY <2>3
  <2> HIDE DEF answers, items
  <2>6. y \in Universe
    BY <1>1, <2>4, <2>5 DEF Universe
  <2> QED BY <2>2, <2>5, <2>6 DEF View, WasRead
<1> HIDE DEF items
<1>7. items = View
  BY <1>5, <1>6
<1> QED BY <1>7 DEF items

\* What was read is in one order.
LEMMA ViewIsOrdered ==
  ASSUME WalkTypes, DOMAIN reads = DOMAIN ReadsOf(asked.name)
  PROVE  TotalOn(Order, View)
<1> SUFFICES ASSUME NEW y \in View, NEW z \in View, y # z
             PROVE  <<y, z>> \in Order \/ <<z, y>> \in Order
  BY DEF TotalOn
<1>1. /\ y \in Universe /\ y \in reads[y.at] /\ y.at \in DOMAIN reads
      /\ z \in Universe /\ z \in reads[z.at]
  BY DEF View, WasRead, Universe
<1>2. y.id = z.id /\ y.at = z.at => y = z
  BY <1>1 DEF WalkTypes
<1> QED BY <1>1, <1>2, OrderIsWeak DEF WalkTypes

\* A page is what has its place between two offsets.
LEMMA PageIsCut ==
  ASSUME WalkTypes, AnswerPage
  PROVE  \E start, end \in 0..Cardinality(View) :
           LET page == {y \in View : Rank(Order, View)[y] > start /\ Rank(Order, View)[y] <= end} IN
           /\ start <= end
           /\ start = IF cursor.offset < Cardinality(View) THEN cursor.offset ELSE Cardinality(View)
           /\ got' = [x \in 1..Rows |-> got[x] + Cardinality({y \in page : y.id = x})]
           /\ cursor'.offset = end
           /\ walk' = IF end < Cardinality(View) THEN "reading" ELSE "over"
           /\ reads' = << >> /\ UNCHANGED <<rows, asked, changed>>
<1> DEFINE query == Queries[asked.name]
           listed == Listed(UNION {reads[i] : i \in DOMAIN reads}, query)
           items  == ApplyCollectionFilters(listed, query.kind)
           known  == asked.sort.field \in PublicResourceData[query.kind]
           Place(item) ==
             Cardinality({other \in items : SortCollectionItems(other, item, known)}) + 1
           total  == Cardinality(items)
           start  == IF cursor.offset < total THEN cursor.offset ELSE total
           end    == EndOffset(start, PageSize(asked.limit), total)
           last   == IF start + PageSize(asked.limit) < end
                     THEN start + PageSize(asked.limit) ELSE end
           paged  == {item \in items : Place(item) \in (start + 1)..last}
<1>1. DOMAIN reads = DOMAIN ReadsOf(asked.name)
  BY DEF AnswerPage
<1>2. /\ got' = [x \in 1..Rows |-> got[x] + Cardinality({item \in paged : item.id = x})]
      /\ cursor' = EncodeCollectionCursor(end, asked)
      /\ walk' = IF end < total THEN "reading" ELSE "over"
      /\ reads' = << >>
      /\ UNCHANGED <<rows, asked, changed>>
  BY DEF AnswerPage
<1>3. items = View
  BY <1>1, PagedItems
<1>4. total = Cardinality(View)
  BY <1>3
<1>5. total \in Nat /\ cursor.offset \in Nat
  BY <1>4, SlipSets DEF WalkTypes
<1>6. PageSize(asked.limit) \in Nat
  BY Options, QuerySeed DEF WalkTypes, PageSize
<1>7. \A y \in View : Place(y) = Rank(Order, View)[y]
  <2> TAKE y \in View
  <2>1. y \in Universe /\ View \subseteq Universe
    BY DEF View
  <2>2. \A w \in View : SortCollectionItems(w, y, known) <=> <<w, y>> \in Order
    BY <2>1 DEF Order, SortKnown
  <2>3. {w \in items : SortCollectionItems(w, y, known)} = {w \in View : <<w, y>> \in Order}
    BY <1>3, <2>2
  <2>4. Rank(Order, View)[y] = Cardinality({w \in View : <<w, y>> \in Order}) + 1
    BY DEF Rank
  <2> QED BY <2>3, <2>4
<1> HIDE DEF items, total, Place
<1>8. start \in Nat /\ start <= total
  BY <1>5
<1> HIDE DEF start
<1>9. end \in Nat /\ start <= end /\ end <= total /\ last = end
  BY <1>5, <1>6, <1>8 DEF EndOffset
<1> HIDE DEF end, last
<1>10. \A y \in View : Rank(Order, View)[y] \in Nat
  <2> TAKE y \in View
  <2>1. View \subseteq Universe /\ IsFiniteSet(View)
    BY SlipSets DEF View
  <2>2. WeakOrder(Order, Universe) /\ TotalOn(Order, View)
    BY <1>1, OrderIsWeak, ViewIsOrdered DEF WalkTypes
  <2>3. Rank(Order, View) \in [View -> Nat]
    BY <2>1, <2>2, RanksCount
  <2> QED BY <2>3
<1>11. paged = {y \in View : Rank(Order, View)[y] > start /\ Rank(Order, View)[y] <= end}
  <2>1. \A y \in View : Place(y) \in (start + 1)..last
                          <=> Rank(Order, View)[y] > start /\ Rank(Order, View)[y] <= end
    BY <1>7, <1>8, <1>9, <1>10
  <2> QED BY <1>3, <2>1
<1> HIDE DEF paged
<1>12. cursor'.offset = end
  BY <1>2 DEF EncodeCollectionCursor
<1>13. start \in 0..total /\ end \in 0..total
  BY <1>5, <1>8, <1>9
<1>14. start = IF cursor.offset < Cardinality(View) THEN cursor.offset ELSE Cardinality(View)
  BY <1>4 DEF start
<1>15. start \in 0..Cardinality(View) /\ end \in 0..Cardinality(View)
  BY <1>4, <1>13
<1> USE <1>15
<1> WITNESS start \in 0..Cardinality(View), end \in 0..Cardinality(View)
<1> QED BY <1>2, <1>4, <1>9, <1>11, <1>12, <1>14

\* How often an unchanged row comes with a page.
LEMMA PagedOnce ==
  ASSUME WalkTypes, StillThere, DOMAIN reads = DOMAIN ReadsOf(asked.name),
         NEW page, page \subseteq View, NEW x \in Unmoved
  PROVE  /\ \A y \in page : y.id = x => Holds(y) /\ y \in Universe
         /\ Cardinality({y \in page : y.id = x}) = IF \E y \in page : y.id = x THEN 1 ELSE 0
<1>1. asked \in Walks
  BY DEF WalkTypes
<1>2. \A y \in page : y.id = x => Holds(y) /\ y \in Universe
  BY DEF View, StillThere, WasRead, Universe
<1>3. CASE \E y \in page : y.id = x
  <2>1. PICK y \in page : y.id = x
    BY <1>3
  <2>2. ASSUME NEW z \in page, z.id = x PROVE z = y
    <3>1. Holds(y) /\ Holds(z) /\ y \in Universe /\ z \in Universe
      BY <1>2, <2>1, <2>2
    <3>2. y.status = z.status
      BY <2>1, <2>2, <3>1 DEF Holds
    <3> QED BY <1>1, <2>1, <2>2, <3>1, <3>2, OneEntry
  <2>3. {z \in page : z.id = x} = {y}
    BY <2>1, <2>2
  <2> QED BY <1>2, <1>3, <2>3, FS_Singleton
<1>4. CASE ~\E y \in page : y.id = x
  <2>1. {z \in page : z.id = x} = {}
    BY <1>4
  <2> QED BY <1>2, <1>4, <2>1, FS_EmptySet
<1> QED BY <1>3, <1>4

\* A page moves the cut; what it passes over or repeats has been counted already.
LEMMA PageStep ==
  ASSUME WalkTypes, StillThere, WantedOnly, AnswerPage, NEW D, Cut(D), Slips(D)
  PROVE  /\ WalkTypes' /\ StillThere' /\ WantedOnly'
         /\ OnTrack' /\ (walk' = "over" => AtTheEnd')
<1>1. DOMAIN reads = DOMAIN ReadsOf(asked.name)
  BY DEF AnswerPage
<1> DEFINE n == Cardinality(View)
           rank == Rank(Order, View)
<1>2. PICK start, end \in 0..n :
        LET page == {y \in View : rank[y] > start /\ rank[y] <= end} IN
        /\ start <= end
        /\ start = IF cursor.offset < n THEN cursor.offset ELSE n
        /\ got' = [x \in 1..Rows |-> got[x] + Cardinality({y \in page : y.id = x})]
        /\ cursor'.offset = end
        /\ walk' = IF end < n THEN "reading" ELSE "over"
        /\ reads' = << >> /\ UNCHANGED <<rows, asked, changed>>
  BY PageIsCut
<1> DEFINE page == {y \in View : rank[y] > start /\ rank[y] <= end}
           F == FirstOf(Order, View, start)
           L == FirstOf(Order, View, end)
<1>3. /\ start <= end
      /\ start = IF cursor.offset < n THEN cursor.offset ELSE n
      /\ got' = [x \in 1..Rows |-> got[x] + Cardinality({y \in page : y.id = x})]
      /\ cursor'.offset = end
      /\ walk' = IF end < n THEN "reading" ELSE "over"
      /\ reads' = << >> /\ rows' = rows /\ asked' = asked /\ changed' = changed
  BY <1>2
<1>4. /\ F = {y \in View : rank[y] <= start} /\ L = {y \in View : rank[y] <= end}
      /\ page \subseteq View
  BY DEF FirstOf
<1>5. /\ D \subseteq Universe /\ View \subseteq Universe /\ asked \in Walks
      /\ Universe' = Universe /\ Order' = Order
  BY <1>3, AskedKept DEF Cut, Downward, View, WalkTypes
<1>6. /\ IsFiniteSet(Universe) /\ IsFiniteSet(View) /\ IsFiniteSet(View \cap D)
      /\ IsFiniteSet(Left) /\ IsFiniteSet(Came)
      /\ IsFiniteSet(Missed(D)) /\ IsFiniteSet(Again(D)) /\ Len(changed) \in Nat
      /\ Cardinality(View \cap D) \in Nat /\ n \in Nat
      /\ Cardinality(Left) \in Nat /\ Cardinality(Came) \in Nat
      /\ Cardinality(Missed(D)) \in Nat /\ Cardinality(Again(D)) \in Nat
  BY <1>5, SlipSets
<1>7. WeakOrder(Order, Universe) /\ TotalOn(Order, View)
  BY <1>1, <1>5, OrderIsWeak, ViewIsOrdered
<1>8. rank \in [View -> Nat] /\ rank \in Bijection(View, 1..n)
  BY <1>5, <1>6, <1>7, RanksCount
<1>9. start \in Nat /\ end \in Nat /\ end <= n
  BY <1>2, <1>6
<1>10. /\ \E E : Downward(Order, Universe, E) /\ View \cap E = L
       /\ LET v == Cardinality(View \cap D) IN
          /\ Cardinality(F \ D) = IF v < start THEN start - v ELSE 0
          /\ Cardinality((View \cap D) \ F) = IF v > start THEN v - start ELSE 0
  <2> HIDE DEF n, rank, page
  <2>1. start \in 0..Cardinality(View) /\ end \in 0..Cardinality(View)
    BY <1>2 DEF n
  <2>2. Paging(Universe, Order, View, D, start, end)
    BY <1>5, <1>6, <1>7, <2>1 DEF Cut, Paging
  <2> HIDE DEF F, L
  <2>3. \E E : Downward(Order, Universe, E) /\ View \cap E = FirstOf(Order, View, end)
    BY <2>2, CutMoves
  <2>4. /\ Cardinality(FirstOf(Order, View, start) \ D)
             = IF Cardinality(View \cap D) < start THEN start - Cardinality(View \cap D) ELSE 0
        /\ Cardinality((View \cap D) \ FirstOf(Order, View, start))
             = IF Cardinality(View \cap D) > start THEN Cardinality(View \cap D) - start ELSE 0
    BY <2>2, PageSlips
  <2> QED BY <2>3, <2>4 DEF F, L
<1>sizes. Cardinality(L) = end /\ Cardinality(View \cap D) <= n
  <2>1. end \in 0..Cardinality(View)
    BY <1>2
  <2>2. View \cap D \subseteq View
    OBVIOUS
  <2> HIDE DEF rank, page
  <2> QED BY <1>5, <1>6, <1>7, <2>1, <2>2, FirstCount, FS_Subset
<1>11. PICK E : Downward(Order, Universe, E) /\ View \cap E = L
  BY <1>10
<1> HIDE DEF n, rank, F, L
<1>12. \A y \in View : rank[y] \in Nat /\ rank[y] <= n
  <2> TAKE y \in View
  <2>1. rank \in [View -> 1..n]
    BY <1>8 DEF Bijection, Injection
  <2> QED BY <1>6, <2>1
<1>13. \A x \in Unmoved :
         /\ \A y \in page : y.id = x => Holds(y) /\ y \in Universe
         /\ got'[x] = got[x] + IF \E y \in page : y.id = x THEN 1 ELSE 0
         /\ got[x] \in Nat /\ x \in 1..Rows
  <2> TAKE x \in Unmoved
  <2>1. x \in 1..Rows /\ got[x] \in Nat
    BY DEF Unmoved, WalkTypes
  <2>2. got'[x] = got[x] + Cardinality({y \in page : y.id = x})
    BY <1>3, <2>1
  <2> HIDE DEF page
  <2>3. /\ \A y \in page : y.id = x => Holds(y) /\ y \in Universe
        /\ Cardinality({y \in page : y.id = x}) = IF \E y \in page : y.id = x THEN 1 ELSE 0
    BY <1>1, <1>4, PagedOnce
  <2> QED BY <2>1, <2>2, <2>3
\* An unchanged row that has an entry is among what was read.
<1>14. \A y \in Universe : y.id \in Unmoved /\ Holds(y) => y \in View
  BY DEF View, StillThere, WasRead
<1>15. Unmoved' = Unmoved
  BY <1>3 DEF Unmoved
<1>16. \A y : (Holds(y)' <=> Holds(y)) /\ ~WasRead(y)'
  BY <1>3 DEF Holds, WasRead
<1>17. \A x, C : Within(x, C)' <=> Within(x, C)
  BY <1>16 DEF Within
<1>18. \A x : Wanted(x)' <=> Wanted(x)
  BY <1>3 DEF Wanted
<1>19. WalkTypes'
  <2>1. got' \in [1..Rows -> Nat]
    <3>1. ASSUME NEW x \in 1..Rows
          PROVE  got[x] + Cardinality({y \in page : y.id = x}) \in Nat
      <4>1. {y \in page : y.id = x} \subseteq View
        BY <1>4
      <4>2. IsFiniteSet({y \in page : y.id = x})
        BY <1>6, <4>1, FS_Subset
      <4>3. Cardinality({y \in page : y.id = x}) \in Nat
        BY <4>2, FS_CardinalityType
      <4>4. got[x] \in Nat
        BY DEF WalkTypes
      <4> QED BY <4>3, <4>4
    <3> QED BY <1>3, <3>1
  <2>2. DOMAIN reads' = {}
    BY <1>3
  <2> QED BY <1>3, <1>9, <2>1, <2>2 DEF WalkTypes
<1>20. StillThere'
  BY <1>16 DEF StillThere
<1>21. WantedOnly'
  <2> SUFFICES ASSUME NEW x \in Unmoved, got'[x] > 0 PROVE Wanted(x)
    BY <1>15, <1>18 DEF WantedOnly
  <2>1. CASE got[x] > 0
    BY <2>1 DEF WantedOnly
  <2>2. CASE ~(got[x] > 0)
    <3>1. PICK y \in page : y.id = x
      BY <1>13, <2>2
    <3>2. Holds(y) /\ y \in Universe /\ x \in 1..Rows
      BY <1>13, <3>1
    <3> QED BY <1>5, <3>1, <3>2, WantedEntry
  <2> QED BY <2>1, <2>2
<1>22. Cut(E)'
  BY <1>5, <1>11 DEF Cut
\* It misses what the page passed over,
<1>23. \A x \in Missed(E)' : x \notin Missed(D) => \E y \in F \ D : y.id = x
  <2> SUFFICES ASSUME NEW x \in Unmoved, got'[x] = 0, NEW y \in E, y.id = x, Holds(y),
                      ~(got[x] = 0 /\ Within(x, D))
               PROVE  y \in F \ D
    BY <1>15, <1>16, <1>17 DEF Missed, Within
  <2>1. y \in Universe /\ y \in View /\ y \in L
    BY <1>11, <1>14 DEF Downward
  <2>2. got[x] = 0 /\ y \notin page
    BY <1>13
  <2>3. y \notin D
    BY <2>2 DEF Within
  <2>4. y \in F
    BY <1>4, <1>9, <1>12, <2>1, <2>2
  <2> QED BY <2>3, <2>4
\* and receives again what it repeats.
<1>24. \A x \in Again(E)' : x \notin Again(D) => \E y \in (View \cap D) \ F : y.id = x
  <2> SUFFICES ASSUME NEW x \in Unmoved, got'[x] > 1 \/ (got'[x] = 1 /\ ~Within(x, E)),
                      ~(got[x] > 1 \/ (got[x] = 1 /\ ~Within(x, D)))
               PROVE  \E y \in (View \cap D) \ F : y.id = x
    BY <1>15, <1>17 DEF Again
  <2>1. got[x] \in Nat /\ got'[x] = got[x] + IF \E y \in page : y.id = x THEN 1 ELSE 0
    BY <1>13
  <2>2. ASSUME NEW y \in page, y.id = x PROVE got[x] = 1
    <3>1. Holds(y) /\ y \in Universe
      BY <1>13, <2>2
    <3>2. y \in L
      BY <1>4
    <3>3. y \in E
      BY <1>11, <3>2
    <3>4. Within(x, E)
      BY <2>2, <3>1, <3>3 DEF Within
    <3>5. got'[x] > 1
      BY <3>4
    <3> HIDE DEF page
    <3> QED BY <2>1, <3>5
  <2>3. got[x] = 1
    <3> HIDE DEF page
    <3> QED BY <2>1, <2>2
  <2>4. PICK z \in D : z.id = x /\ Holds(z)
    BY <2>3 DEF Within
  <2>5. z \in Universe /\ z \in View
    BY <1>5, <1>14, <2>4
  <2>6. CASE \E y \in page : y.id = x
    <3>1. PICK y \in page : y.id = x
      BY <2>6
    <3>2. Holds(y) /\ y \in Universe /\ y.id = x /\ y \in View
      BY <1>4, <1>13, <3>1
    <3>3. y = z
      BY <1>5, <2>4, <2>5, <3>2, OneEntry DEF Holds
    <3>4. rank[z] > start
      BY <3>1, <3>3
    <3>5. z \notin F
      BY <1>4, <1>9, <1>12, <2>5, <3>4
    <3> QED BY <2>4, <2>5, <3>5
  <2>7. CASE ~\E y \in page : y.id = x
    <3>1. ~Within(x, E)
      <4>1. got'[x] = 1
        BY <2>1, <2>3, <2>7
      <4> QED BY <4>1
    <3>2. z \notin E
      BY <2>4, <3>1 DEF Within
    <3>3. z \notin L
      BY <1>11, <3>2, <2>5
    <3>4. z \notin F
      BY <1>3, <1>4, <1>9, <1>12, <2>5, <3>3
    <3> QED BY <2>4, <2>5, <3>4
  <2> QED BY <2>6, <2>7
<1>25. /\ Cardinality(Missed(E)') \in Nat /\ Cardinality(F \ D) \in Nat
       /\ Cardinality(Missed(E)') <= Cardinality(Missed(D)) + Cardinality(F \ D)
  <2> DEFINE X == Missed(E)' \ Missed(D)
  <2>1. IsFiniteSet(F \ D)
    <3>1. F \ D \subseteq View
      BY <1>4
    <3> QED BY <1>6, <3>1, FS_Subset
  <2>2. \A x \in X : \E y \in F \ D : y.id = x
    BY <1>23
  <2>3. Missed(E)' \subseteq Missed(D) \cup X
    OBVIOUS
  <2> HIDE DEF X
  <2>4. /\ IsFiniteSet(X) /\ Cardinality(X) \in Nat /\ Cardinality(F \ D) \in Nat
        /\ Cardinality(X) <= Cardinality(F \ D)
    BY <2>1, <2>2, CountIds
  <2>5. /\ Cardinality(Missed(E)') \in Nat
        /\ Cardinality(Missed(E)') <= Cardinality(Missed(D)) + Cardinality(X)
    BY <1>6, <2>3, <2>4, CountBoth
  <2> QED BY <1>6, <2>4, <2>5
<1>26. /\ Cardinality(Again(E)') \in Nat /\ Cardinality((View \cap D) \ F) \in Nat
       /\ Cardinality(Again(E)') <= Cardinality(Again(D)) + Cardinality((View \cap D) \ F)
  <2> DEFINE X == Again(E)' \ Again(D)
             Y == (View \cap D) \ F
  <2>1. IsFiniteSet(Y)
    <3>1. Y \subseteq View \cap D
      OBVIOUS
    <3> QED BY <1>6, <3>1, FS_Subset
  <2>2. \A x \in X : \E y \in Y : y.id = x
    BY <1>24
  <2>3. Again(E)' \subseteq Again(D) \cup X
    OBVIOUS
  <2> HIDE DEF X, Y
  <2>4. /\ IsFiniteSet(X) /\ Cardinality(X) \in Nat /\ Cardinality(Y) \in Nat
        /\ Cardinality(X) <= Cardinality(Y)
    BY <2>1, <2>2, CountIds
  <2>5. /\ Cardinality(Again(E)') \in Nat
        /\ Cardinality(Again(E)') <= Cardinality(Again(D)) + Cardinality(X)
    BY <1>6, <2>3, <2>4, CountBoth
  <2> QED BY <1>6, <2>4, <2>5 DEF Y
<1>27. Left' = {} /\ Came' = {} /\ View' = {y \in Universe : Holds(y)}
  BY <1>5, <1>16 DEF Left, Came, View
<1>28. \A y \in View : y \in Universe /\ WasRead(y) /\ y \in reads[y.at]
  BY <1>1 DEF View, Universe, WasRead
<1>29. /\ L \subseteq (View' \cap E) \cup Left
       /\ View' \cap E \subseteq L \cup Came
  <2>1. ASSUME NEW y \in L PROVE y \in (View' \cap E) \cup Left
    <3>1. y \in View /\ y \in E
      BY <1>11, <2>1
    <3> QED BY <1>27, <1>28, <3>1 DEF Left
  <2>2. ASSUME NEW y \in View' \cap E, y \notin L PROVE y \in Came
    <3>1. y \notin View /\ y \in Universe /\ Holds(y)
      BY <1>11, <1>27, <2>2
    <3>2. WasRead(y) /\ y \notin reads[y.at]
      BY <3>1 DEF View
    <3> QED BY <3>1, <3>2 DEF Came
  <2> QED BY <2>1, <2>2
<1>30. /\ Cardinality(View' \cap E) \in Nat
       /\ end <= Cardinality(View' \cap E) + Cardinality(Left)
       /\ Cardinality(View' \cap E) <= end + Cardinality(Came)
  <2>1. IsFiniteSet(L) /\ Cardinality(L) = end
    <3>1. L \subseteq View
      BY <1>4
    <3> QED BY <1>6, <1>sizes, <3>1, FS_Subset
  <2>2. IsFiniteSet(View' \cap E)
    <3>1. View' \cap E \subseteq Universe
      BY <1>27
    <3> QED BY <1>6, <3>1, FS_Subset
  <2>3. Cardinality(L) <= Cardinality(View' \cap E) + Cardinality(Left)
    BY <1>6, <1>29, <2>2, CountBoth
  <2>4. Cardinality(View' \cap E) <= Cardinality(L) + Cardinality(Came)
    BY <1>6, <1>29, <2>1, CountBoth
  <2>5. Cardinality(View' \cap E) \in Nat
    BY <2>2, FS_CardinalityType
  <2> QED BY <2>1, <2>3, <2>4, <2>5
<1>31. Cardinality(Left') = 0 /\ Cardinality(Came') = 0
  BY <1>27, FS_EmptySet
<1>32. /\ Cardinality(Missed(E)') <= Len(changed)
       /\ Cardinality(Missed(E)') + end <= Len(changed) + Cardinality(View' \cap E)
       /\ Cardinality(Again(E)') <= Len(changed)
       /\ Cardinality(Again(E)') + Cardinality(View' \cap E) <= Len(changed) + end
  <2> DEFINE k == Len(changed)
             at == cursor.offset
             v == Cardinality(View \cap D)
             vv == Cardinality(View' \cap E)
             l == Cardinality(Left)
             c == Cardinality(Came)
             m == Cardinality(Missed(D))
             mm == Cardinality(Missed(E)')
             a == Cardinality(Again(D))
             aa == Cardinality(Again(E)')
             over == Cardinality(F \ D)
             again == Cardinality((View \cap D) \ F)
  <2>1. /\ k \in Nat /\ at \in Nat /\ v \in Nat /\ vv \in Nat /\ l \in Nat /\ c \in Nat
        /\ m \in Nat /\ mm \in Nat /\ a \in Nat /\ aa \in Nat
    BY <1>6, <1>25, <1>26, <1>30 DEF WalkTypes
  <2>2. /\ m + l <= k /\ m + l + at <= k + v
        /\ a + c <= k /\ a + c + v <= k + at
    BY DEF Slips
  <2>3. /\ mm <= m + over /\ aa <= a + again
        /\ over = IF v < start THEN start - v ELSE 0
        /\ again = IF v > start THEN v - start ELSE 0
        /\ v <= n
    BY <1>6, <1>10, <1>sizes, <1>25, <1>26
  <2>4. end <= vv + l /\ vv <= end + c
    BY <1>30
  <2>5. start = IF at < n THEN at ELSE n
    BY <1>3
  <2> HIDE DEF k, at, v, vv, l, c, m, mm, a, aa, over, again
  <2>6. over = IF v < start THEN start - v ELSE 0
    BY <2>3
  <2>7. mm + l <= k
    <3>1. start <= at
      BY <1>6, <2>1, <2>5
    <3> QED BY <1>9, <2>1, <2>2, <2>3, <3>1
  <2>8. aa + c <= k
    <3>1. CASE v > start
      <4>1. start = at
        BY <1>6, <2>1, <2>3, <2>5, <3>1
      <4> QED BY <1>9, <2>1, <2>2, <2>3, <3>1, <4>1
    <3>2. CASE ~(v > start)
      BY <1>9, <2>1, <2>2, <2>3, <3>2
    <3> QED BY <3>1, <3>2
  <2>9. mm <= k /\ mm + end <= k + vv /\ aa <= k /\ aa + vv <= k + end
    BY <1>9, <2>1, <2>4, <2>7, <2>8
  <2> QED BY <2>9 DEF k, vv, mm, aa
<1>33. Slips(E)'
  <2>1. Len(changed') = Len(changed) /\ cursor'.offset = end
    BY <1>3
  <2>2. Cardinality(Missed(E)') \in Nat /\ Cardinality(Again(E)') \in Nat
    BY <1>25, <1>26
  <2> QED BY <1>31, <1>32, <2>1, <2>2 DEF Slips
<1>34. ASSUME walk' = "over", NEW x \in Unmoved, Wanted(x) PROVE Within(x, E)
  <2>1. end = n
    BY <1>3, <1>6, <1>9, <1>34
  <2>2. PICK y \in Universe : y.id = x /\ Holds(y)
    BY <1>5, <1>13, <1>34, WantedEntry
  <2>3. y \in View
    BY <1>14, <2>2
  <2>4. y \in L
    BY <1>4, <1>12, <2>1, <2>3
  <2> QED BY <1>11, <2>2, <2>4 DEF Within
<1>35. OnTrack'
  BY <1>22, <1>33 DEF OnTrack
<1>36. ASSUME walk' = "over" PROVE AtTheEnd'
  <2>1. \A x \in Unmoved' : Wanted(x)' => Within(x, E)'
    BY <1>15, <1>17, <1>18, <1>34, <1>36
  <2> QED BY <1>22, <1>33, <2>1 DEF AtTheEnd
<1> QED BY <1>19, <1>20, <1>21, <1>35, <1>36

LEMMA WalkInit == QueryInit => WalkInv
<1> SUFFICES ASSUME QueryInit PROVE WalkInv
  OBVIOUS
<1>1. /\ rows \in SeedRows /\ asked \in Walks /\ cursor = EncodeCollectionCursor(0, asked)
      /\ reads = << >> /\ got = [x \in 1..Rows |-> 0] /\ walk = "reading" /\ changed = << >>
  BY DEF QueryInit
<1>2. ToSet(ChatList) = ChatStatuses
  BY DEF ToSet, ChatList, ChatStatuses
<1>3. cursor.offset = 0 /\ DOMAIN reads = {} /\ Len(changed) = 0
  BY <1>1 DEF EncodeCollectionCursor
<1>4. WalkTypes
  <2>1. rows \in [1..Rows -> ChatStatuses \cup {"absent"}]
    BY <1>1, <1>2, QuerySeed
  <2>2. got \in [1..Rows -> Nat] /\ changed \in Seq(1..Rows)
    BY <1>1
  <2> QED BY <1>1, <1>3, <2>1, <2>2 DEF WalkTypes
<1>5. StillThere
  BY <1>3 DEF StillThere, WasRead
<1>6. \A x \in Unmoved : got[x] = 0
  BY <1>1 DEF Unmoved
<1>7. WantedOnly
  BY <1>6 DEF WantedOnly
<1>8. Cut({})
  BY DEF Cut, Downward
<1>9. Missed({}) = {} /\ Again({}) = {} /\ Left = {} /\ Came = {} /\ View \cap {} = {}
  BY <1>3, <1>6 DEF Missed, Again, Within, Left, Came, WasRead
<1>10. Slips({})
  <2>1. /\ Cardinality(Missed({})) = 0 /\ Cardinality(Again({})) = 0 /\ Cardinality(Left) = 0
        /\ Cardinality(Came) = 0 /\ Cardinality(View \cap {}) = 0
    BY <1>9, FS_EmptySet
  <2> QED BY <1>3, <2>1 DEF Slips
<1>11. OnTrack
  BY <1>8, <1>10 DEF OnTrack
<1> QED BY <1>1, <1>4, <1>5, <1>7, <1>11 DEF WalkInv

\* Nothing is lost or sent again at the end but what slipped.
LEMMA EndOfWalk ==
  ASSUME WalkTypes, WantedOnly, AtTheEnd
  PROVE  WalkSlipsOncePerChange
<1>0. PICK E : Cut(E) /\ Slips(E) /\ \A x \in Unmoved : Wanted(x) => Within(x, E)
  BY DEF AtTheEnd
<1>1. /\ IsFiniteSet(Missed(E)) /\ IsFiniteSet(Again(E)) /\ Len(changed) \in Nat
      /\ Cardinality(Missed(E)) \in Nat /\ Cardinality(Again(E)) \in Nat
      /\ Cardinality(Left) \in Nat /\ Cardinality(Came) \in Nat
  BY <1>0, SlipSets DEF Cut, Downward
<1>2. Cardinality(Missed(E)) <= Len(changed) /\ Cardinality(Again(E)) <= Len(changed)
  <2>1. /\ Cardinality(Missed(E)) + Cardinality(Left) <= Len(changed)
        /\ Cardinality(Again(E)) + Cardinality(Came) <= Len(changed)
    BY <1>0 DEF Slips
  <2> QED BY <1>1, <2>1
<1> DEFINE lost == {x \in Unmoved : Wanted(x) /\ got[x] = 0}
           twice == {x \in Unmoved : got[x] > 1}
<1>3. lost \subseteq Missed(E) /\ twice \subseteq Again(E)
  BY <1>0 DEF Missed, Again
<1> HIDE DEF lost, twice
<1>4. Cardinality(lost) <= Len(changed) /\ Cardinality(twice) <= Len(changed)
  <2>1. /\ Cardinality(lost) <= Cardinality(Missed(E)) /\ IsFiniteSet(lost)
        /\ Cardinality(twice) <= Cardinality(Again(E)) /\ IsFiniteSet(twice)
    BY <1>1, <1>3, FS_Subset
  <2>2. Cardinality(lost) \in Nat /\ Cardinality(twice) \in Nat
    BY <2>1, FS_CardinalityType
  <2> QED BY <1>1, <1>2, <2>1, <2>2
<1>5. \A x \in Unmoved : ~Wanted(x) => got[x] = 0
  <2> TAKE x \in Unmoved
  <2>1. got[x] \in Nat
    BY DEF WalkTypes, Unmoved
  <2>2. got[x] > 0 => Wanted(x)
    BY DEF WantedOnly
  <2> QED BY <2>1, <2>2
<1> QED BY <1>4, <1>5 DEF WalkSlipsOncePerChange, lost, twice

LEMMA WalkStep == WalkInv /\ [QueryNext]_queryVars => WalkInv'
<1> SUFFICES ASSUME WalkInv, [QueryNext]_queryVars PROVE WalkInv'
  OBVIOUS
<1>1. CASE UNCHANGED queryVars
  <2>1. /\ rows' = rows /\ asked' = asked /\ cursor' = cursor /\ reads' = reads /\ got' = got
        /\ walk' = walk /\ status' = status /\ changed' = changed
    BY <1>1 DEF queryVars
  <2>2. WalkTypes' <=> WalkTypes
    BY <2>1 DEF WalkTypes
  <2>3. Universe' = Universe /\ Order' = Order
    BY <2>1, AskedKept
  <2>4. StillThere' <=> StillThere
    BY <2>1, <2>3 DEF StillThere, Unmoved, WasRead, Holds
  <2>5. WantedOnly' <=> WantedOnly
    BY <2>1 DEF WantedOnly, Unmoved, Wanted
  <2>6. \A D : Cut(D)' <=> Cut(D)
    BY <2>3 DEF Cut
  <2>7. View' = View /\ Left' = Left /\ Came' = Came /\ Unmoved' = Unmoved
    BY <2>1, <2>3 DEF View, Left, Came, WasRead, Holds, Unmoved
  <2>8. \A D : Missed(D)' = Missed(D) /\ Again(D)' = Again(D)
    BY <2>1, <2>7 DEF Missed, Again, Within, Holds
  <2>9. \A D : Slips(D)' <=> Slips(D)
    BY <2>1, <2>7, <2>8 DEF Slips
  <2>10. OnTrack' <=> OnTrack
    BY <2>6, <2>9 DEF OnTrack
  <2>11. \A x, D : (Wanted(x)' <=> Wanted(x)) /\ (Within(x, D)' <=> Within(x, D))
    BY <2>1 DEF Wanted, Within, Holds
  <2>12. AtTheEnd' <=> AtTheEnd
    BY <2>6, <2>7, <2>9, <2>11 DEF AtTheEnd
  <2> QED BY <2>1, <2>2, <2>4, <2>5, <2>10, <2>12 DEF WalkInv
<1>2. CASE QueryNext
  <2>1. walk = "reading"
    BY <1>2 DEF QueryNext, ChangeRow, SelectRows, AnswerPage, PageUnavailable, AskOtherwise
  <2>2. WalkTypes /\ StillThere /\ WantedOnly
    BY <2>1 DEF WalkInv
  <2>3. PICK D : Cut(D) /\ Slips(D)
    BY <2>1 DEF WalkInv, OnTrack
  <2>4. ASSUME NEW x \in 1..Rows, ChangeRow(x) PROVE WalkInv'
    <3>1. walk' = "reading"
      BY <2>1, <2>4 DEF ChangeRow
    <3>2. WalkTypes' /\ StillThere' /\ WantedOnly'
      BY <2>2, <2>4, RowChanges
    <3>3. Cut(D)' /\ Slips(D)'
      BY <2>2, <2>3, <2>4, ChangeStep
    <3>4. OnTrack'
      BY <3>3 DEF OnTrack
    <3> QED BY <3>1, <3>2, <3>4 DEF WalkInv
  <2>5. ASSUME NEW i, SelectRows(i) PROVE WalkInv'
    <3>1. walk' = "reading"
      BY <2>1, <2>5 DEF SelectRows
    <3>2. WalkTypes' /\ StillThere' /\ WantedOnly' /\ Cut(D)' /\ Slips(D)'
      BY <2>2, <2>3, <2>5, SelectStep
    <3>3. OnTrack'
      BY <3>2 DEF OnTrack
    <3> QED BY <3>1, <3>2, <3>3 DEF WalkInv
  <2>6. CASE AnswerPage
    <3>1. WalkTypes' /\ StillThere' /\ WantedOnly'
      BY <2>2, <2>3, <2>6, PageStep
    <3>2. OnTrack' /\ (walk' = "over" => AtTheEnd')
      BY <2>2, <2>3, <2>6, PageStep
    <3> QED BY <3>1, <3>2 DEF WalkInv
  <2>7. CASE PageUnavailable
    <3>1. walk' = "over" /\ status' = 503
      BY <2>7 DEF PageUnavailable, StatusCodeForApiSuccess, QueryOutcome
    <3> QED BY <3>1 DEF WalkInv
  <2>8. CASE AskOtherwise
    <3>1. walk' = "over" /\ status' = 400
      BY <2>8 DEF AskOtherwise
    <3> QED BY <3>1 DEF WalkInv
  <2> QED BY <1>2, <2>4, <2>5, <2>6, <2>7, <2>8 DEF QueryNext
<1> QED BY <1>1, <1>2

\* Whoever follows the cursors to the end receives every item once and no other, but
\* for one item missed and one received again for each change of a row, for any
\* number of rows and changes, any page sizes, sorts, filters and order of the reads.
THEOREM WalkIsTrue == QuerySpec => []WalkSlipsOncePerChange
<1>1. WalkInv => WalkSlipsOncePerChange
  <2>1. CASE walk = "over" /\ status = 200
    BY <2>1, EndOfWalk DEF WalkInv
  <2>2. CASE ~(walk = "over" /\ status = 200)
    BY <2>2 DEF WalkSlipsOncePerChange
  <2> QED BY <2>1, <2>2
<1> QED BY <1>1, WalkInit, WalkStep, PTL DEF QuerySpec
=============================================================================
