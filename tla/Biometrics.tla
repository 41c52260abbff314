------------------------------ MODULE Biometrics ------------------------------
(***************************************************************************)
(* Consents, enrolments, credentials and identifications by fingerprint    *)
(* (apps/api/src/modules/biometrics/biometrics.service.ts), over the       *)
(* registry of agents.  Every await is a point where another call, a       *)
(* revocation at the desk or the clock may come first, and where the call  *)
(* itself may end with an exception.                                       *)
(*                                                                         *)
(* The name of an enrolment stands for what was asked: member, finger, and *)
(* agent, or None for a reader of the browser (HID_WEB).  An enrolment by  *)
(* an agent has one token, which bears its name.  A template is never      *)
(* compared: whether the bytes delivered equal those of a credential in    *)
(* force is the sensor's.  What the matcher finds, and what follows, is    *)
(* module Access.  Whether expiresAt of an enrolment has passed is left    *)
(* open where it is read.                                                  *)
(***************************************************************************)
EXTENDS AgentRegistry, FiniteSets

CONSTANTS
    Members,
    Enrolments,     \* enrolments that may be started
    MemberOf,       \* ... their member
    FingerOf,       \* ... their finger
    MaxConsents     \* consents granted per member, at most

\* Enrolments by an agent; the other tokens are for identifications.
ByAgent == Enrolments \cap Tokens

IdentifyTokens == Tokens \ Enrolments

ASSUME BiometricsAssumption ==
    /\ MemberOf \in [Enrolments -> Members]
    /\ DOMAIN FingerOf = Enrolments
    /\ Subjects = Members \cup Enrolments \cup Tokens
    /\ Members \cap (Enrolments \cup Tokens) = {}
    /\ MaxConsents \in Nat

VARIABLES
    consents,       \* consents in force of each member, by order of granting
    granted,        \* consents each member has given
    enrolment,      \* biometric_enrollments.status
    credential,     \* the credential stored last from each enrolment
    tenantKey,      \* tenant_biometric_keys has a row
    seen,           \* the consent a withdrawal has read
    served,         \* history: captures accepted under each token
    overtaken       \* history: enrolments delivered while a consent was revoked

enrolling == <<enrolment, credential, tenantKey>>
consenting == <<consents, granted, seen, overtaken>>
vars == <<registryVars, enrolling, consenting, served>>

EnrolmentStatuses ==
    {"none", "STARTED", "CAPTURING", "COMPLETED", "CANCELLED", "EXPIRED", "FAILED"}

\* Where a call may be; the name says what it does next.
Stages ==
    {"idle", "approving", "revoking", "pairing", "authenticated", "granting", "withdrawing",
     "finger", "agent", "opening", "reading", "expiring", "consent", "capturing", "extracting",
     "encrypting", "keying", "storing", "failing", "cancelling", "issuing", "matching"}

Open(e) == enrolment[e] \in {"STARTED", "CAPTURING"}

Active(e) == credential[e] = "ACTIVE"

Consented(m) == consents[m] # {}

Latest(S) == {c \in S : \A d \in S : d <= c}

-----------------------------------------------------------------------------
Init ==
    /\ RegistryInit
    /\ consents = [m \in Members |-> {}]
    /\ granted = [m \in Members |-> 0]
    /\ enrolment = [e \in Enrolments |-> "none"]
    /\ credential = [e \in Enrolments |-> "none"]
    /\ tenantKey = FALSE
    /\ seen = [r \in Calls |-> 0]
    /\ served = [t \in Tokens |-> 0]
    /\ overtaken = {}

-----------------------------------------------------------------------------
(* Consent.                                                                *)

\* grantConsent creates one if it read none: two calls may create two.
ReadForGrant(r, m) ==
    /\ at[r] = "idle"
    /\ ~Consented(m)
    /\ Go(r, "granting", m)
    /\ UNCHANGED <<registry, token, late, enrolling, consenting, served>>

Grant(r) ==
    /\ at[r] = "granting"
    /\ granted[on[r]] < MaxConsents
    /\ granted' = [granted EXCEPT ![on[r]] = @ + 1]
    /\ consents' = [consents EXCEPT ![on[r]] = @ \cup {granted[on[r]] + 1}]
    /\ Finish(r)
    /\ UNCHANGED <<registry, token, enrolling, seen, overtaken, served>>

ReadForWithdrawal(r, m) ==
    /\ at[r] = "idle"
    /\ Consented(m)
    /\ \E c \in Latest(consents[m]) : seen' = [seen EXCEPT ![r] = c]
    /\ Go(r, "withdrawing", m)
    /\ UNCHANGED <<registry, token, late, enrolling, consents, granted, overtaken, served>>

RevokeCredentialsOf(m) ==
    credential' = [e \in Enrolments |->
        IF MemberOf[e] = m /\ Active(e) THEN "REVOKED" ELSE credential[e]]

\* Past the check of the consent, on the way to the store.
Delivering(r) == at[r] \in {"capturing", "extracting", "encrypting", "keying", "storing"}

\* revokeConsent: that consent, and every active credential of the member.
Withdraw(r) ==
    /\ at[r] = "withdrawing"
    /\ consents' = [consents EXCEPT ![on[r]] = @ \ {seen[r]}]
    /\ RevokeCredentialsOf(on[r])
    /\ overtaken' = overtaken \cup
           {e \in Enrolments : MemberOf[e] = on[r] /\ \E q \in Calls : Delivering(q) /\ on[q] = e}
    /\ seen' = [seen EXCEPT ![r] = 0]
    /\ Finish(r)
    /\ UNCHANGED <<registry, token, granted, enrolment, tenantKey, served>>

\* revokeCredential, by its id; a second time changes nothing.
RevokeCredential(e) ==
    /\ Active(e)
    /\ credential' = [credential EXCEPT ![e] = "REVOKED"]
    /\ UNCHANGED <<registryVars, enrolment, tenantKey, consenting, served>>

-----------------------------------------------------------------------------
(* Starting and cancelling an enrolment.                                   *)

\* startEnrollment and startHidEnrollment: consent, finger, then the agent.
CheckConsent(r, e) ==
    /\ at[r] = "idle"
    /\ enrolment[e] = "none" /\ \A q \in Calls : on[q] # e
    /\ Consented(MemberOf[e])
    /\ Go(r, "finger", e)
    /\ UNCHANGED <<registry, token, late, enrolling, consenting, served>>

\* An active credential of the same finger.
Enrolled(e) == \E d \in Enrolments :
    Active(d) /\ MemberOf[d] = MemberOf[e] /\ FingerOf[d] = FingerOf[e]

CheckFinger(r) ==
    /\ at[r] = "finger"
    /\ ~Enrolled(on[r])
    /\ Step(r, IF on[r] \in ByAgent THEN "agent" ELSE "opening")
    /\ UNCHANGED <<registry, token, late, enrolling, consenting, served>>

CheckAgent(r) ==
    /\ at[r] = "agent"
    /\ LET a == AgentOf[on[r]] IN agent[a] = "ACTIVE" /\ a \in online
    /\ Step(r, "opening")
    /\ UNCHANGED <<registry, token, late, enrolling, consenting, served>>

Issue(t) == token' = [token EXCEPT ![t] = "live"]

OpenEnrolment(r) ==
    /\ at[r] = "opening"
    /\ enrolment' = [enrolment EXCEPT ![on[r]] = "STARTED"]
    /\ IF on[r] \in ByAgent THEN Issue(on[r]) ELSE UNCHANGED token
    /\ Finish(r)
    /\ UNCHANGED <<registry, credential, tenantKey, consenting, served>>

ReadForCancel(r, e) ==
    /\ at[r] = "idle"
    /\ Open(e)
    /\ Go(r, "cancelling", e)
    /\ UNCHANGED <<registry, token, late, enrolling, consenting, served>>

\* By its id, and the token of the enrolment if nobody used it.
Cancel(r) ==
    /\ at[r] = "cancelling"
    /\ enrolment' = [enrolment EXCEPT ![on[r]] = "CANCELLED"]
    /\ Burn({on[r]} \cap Tokens)
    /\ Finish(r)
    /\ UNCHANGED <<registry, credential, tenantKey, consenting, served>>

-----------------------------------------------------------------------------
(* Delivering a template: enrollComplete by an agent (authenticate,        *)
(* consume the token, read) and completeHidEnrollment by the user.         *)

\* Each capture accepted under a token is counted where it takes effect.
Serve(t) ==
    served' = IF t \in Tokens THEN [served EXCEPT ![t] = @ + 1] ELSE served

ConsumeToken(r) ==
    /\ at[r] = "authenticated"
    /\ Consume(r)
    /\ Step(r, IF on[r] \in ByAgent THEN "reading" ELSE "matching")
    /\ UNCHANGED <<registry, late, enrolling, consenting, served>>

CompleteHid(r, e) ==
    /\ at[r] = "idle"
    /\ e \notin ByAgent /\ enrolment[e] # "none"
    /\ Go(r, "reading", e)
    /\ UNCHANGED <<registry, token, late, enrolling, consenting, served>>

ReadEnrolment(r) ==
    /\ at[r] = "reading"
    /\ Open(on[r])
    /\ Step(r, "expiring") \/ Step(r, "consent")
    /\ UNCHANGED <<registry, token, late, enrolling, consenting, served>>

Expire(r) ==
    /\ at[r] = "expiring"
    /\ enrolment' = [enrolment EXCEPT ![on[r]] = "EXPIRED"]
    /\ Finish(r)
    /\ UNCHANGED <<registry, token, credential, tenantKey, consenting, served>>

\* Mutant: the consent seen when the enrolment started is enough.
TrustConsent(r) ==
    /\ at[r] = "consent"
    /\ Step(r, IF on[r] \in ByAgent THEN "encrypting" ELSE "capturing")
    /\ UNCHANGED <<registry, token, late, enrolling, consenting, served>>

\* The consent may have been revoked since the start: it is checked again.
RecheckConsent(r) ==
    /\ at[r] = "consent"
    /\ Consented(MemberOf[on[r]])
    /\ Step(r, IF on[r] \in ByAgent THEN "encrypting" ELSE "capturing")
    /\ UNCHANGED <<registry, token, late, enrolling, consenting, served>>

\* HID_WEB only: CAPTURING whatever the status has become, then the extractor,
\* and the failures that close the enrolment.
Capture(r) ==
    /\ at[r] = "capturing"
    /\ enrolment' = [enrolment EXCEPT ![on[r]] = "CAPTURING"]
    /\ Step(r, "extracting")
    /\ UNCHANGED <<registry, token, late, credential, tenantKey, consenting, served>>

Extract(r) ==
    /\ at[r] = "extracting"
    /\ Step(r, "encrypting") \/ Step(r, "failing")
    /\ UNCHANGED <<registry, token, late, enrolling, consenting, served>>

\* tenantKek: the key of the tenant is created on first use.
ReadKey(r) ==
    /\ at[r] = "encrypting"
    /\ Step(r, IF tenantKey THEN "storing" ELSE "keying")
    /\ UNCHANGED <<registry, token, late, enrolling, consenting, served>>

\* Another call created it first: a unique violation, which completeHidEnrollment
\* takes for a duplicate template and enrollComplete does not catch.
CreateKey(r) ==
    /\ at[r] = "keying"
    /\ \/ ~tenantKey /\ Step(r, "storing") /\ UNCHANGED late
       \/ tenantKey /\ on[r] \in ByAgent /\ Finish(r)
       \/ tenantKey /\ on[r] \notin ByAgent /\ Step(r, "failing") /\ UNCHANGED late
    /\ tenantKey' = TRUE
    /\ UNCHANGED <<registry, token, enrolment, credential, consenting, served>>

\* One transaction: the credential and COMPLETED, unless the finger of the
\* member, or the very bytes, are those of an active credential.
Store(r) ==
    LET e == on[r] IN
    /\ at[r] = "storing"
    /\ ~Enrolled(e)
    /\ credential' = [credential EXCEPT ![e] = "ACTIVE"]
    /\ enrolment' = [enrolment EXCEPT ![e] = "COMPLETED"]
    /\ Serve(e)
    /\ Go(r, "idle", None)
    /\ late' = (late \ {r}) \cup {q \in Calls \ {r} : on[q] = e}
    /\ UNCHANGED <<registry, token, tenantKey, consenting>>

StoreDuplicate(r) ==
    /\ at[r] = "storing"
    /\ \E d \in Enrolments : Active(d)
    /\ Step(r, "failing")
    /\ UNCHANGED <<registry, token, late, enrolling, consenting, served>>

\* FAILED, whatever the status has become.
Fail(r) ==
    /\ at[r] = "failing"
    /\ enrolment' = [enrolment EXCEPT ![on[r]] = "FAILED"]
    /\ Finish(r)
    /\ UNCHANGED <<registry, token, credential, tenantKey, consenting, served>>

-----------------------------------------------------------------------------
(* Identification.                                                         *)

FindAgent(r, t) ==
    /\ at[r] = "idle"
    /\ t \in IdentifyTokens /\ token[t] = "unissued" /\ \A q \in Calls : on[q] # t
    /\ agent[AgentOf[t]] = "ACTIVE" /\ AgentOf[t] \in online
    /\ Go(r, "issuing", t)
    /\ UNCHANGED <<registry, token, late, enrolling, consenting, served>>

\* startIdentification: the reader is read after the agent, then the token is
\* created, for an agent that may have been revoked meanwhile.
IssueIdentify(r) ==
    /\ at[r] = "issuing"
    /\ Issue(on[r])
    /\ Finish(r)
    /\ UNCHANGED <<registry, enrolling, consenting, served>>

\* identifyHid needs no token.
IdentifyHid(r) ==
    /\ at[r] = "idle"
    /\ Step(r, "matching")
    /\ UNCHANGED <<registry, token, late, enrolling, consenting, served>>

\* resolveProbe: the credentials in force are read and matched, and one attempt
\* is recorded, in the name of the member found or of nobody.
ResolveProbe(r) ==
    /\ at[r] = "matching"
    /\ Serve(on[r])
    /\ Finish(r)
    /\ UNCHANGED <<registry, token, enrolling, consenting>>

-----------------------------------------------------------------------------
\* The call ends where it is with an exception: a check that fails, a capture
\* of poor quality, the matcher down, the process restarted.
Abort(r) ==
    /\ at[r] # "idle"
    /\ seen' = [seen EXCEPT ![r] = 0]
    /\ Finish(r)
    /\ UNCHANGED <<registry, token, enrolling, consents, granted, overtaken, served>>

RegistryStep == RegistryNext /\ UNCHANGED <<enrolling, consenting, served>>

ConsentStep(r) ==
    \/ \E m \in Members : ReadForGrant(r, m) \/ ReadForWithdrawal(r, m)
    \/ Grant(r) \/ Withdraw(r)

EnrolmentStep(r) ==
    \/ \E e \in Enrolments : CheckConsent(r, e) \/ ReadForCancel(r, e) \/ CompleteHid(r, e)
    \/ CheckFinger(r) \/ CheckAgent(r) \/ OpenEnrolment(r) \/ Cancel(r)

DeliveryStep(r) ==
    \/ ConsumeToken(r) \/ ReadEnrolment(r) \/ Expire(r) \/ RecheckConsent(r)
    \/ Capture(r) \/ Extract(r) \/ ReadKey(r) \/ CreateKey(r)
    \/ Store(r) \/ StoreDuplicate(r) \/ Fail(r)

IdentificationStep(r) ==
    \/ \E t \in Tokens : FindAgent(r, t)
    \/ IssueIdentify(r) \/ IdentifyHid(r) \/ ResolveProbe(r)

Next ==
    \/ RegistryStep
    \/ \E e \in Enrolments : RevokeCredential(e)
    \/ \E r \in Calls :
          ConsentStep(r) \/ EnrolmentStep(r) \/ DeliveryStep(r) \/ IdentificationStep(r) \/ Abort(r)

Spec == Init /\ [][Next]_vars

-----------------------------------------------------------------------------
(* Properties.                                                             *)

TypeOK ==
    /\ agent \in [Agents -> AgentStatuses]
    /\ paired \subseteq Agents
    /\ online \subseteq Agents
    /\ token \in [Tokens -> TokenStates]
    /\ at \in [Calls -> Stages]
    /\ on \in [Calls -> Agents \cup Subjects \cup {None}]
    /\ consents \in [Members -> SUBSET Nat]
    /\ granted \in [Members -> Nat]
    /\ enrolment \in [Enrolments -> EnrolmentStatuses]
    /\ credential \in [Enrolments -> {"none", "ACTIVE", "REVOKED"}]
    /\ tenantKey \in BOOLEAN
    /\ seen \in [Calls -> Nat]
    /\ served \in [Tokens -> Nat]
    /\ overtaken \subseteq Enrolments
    /\ late \subseteq Calls

\* A device token serves one operation: whatever calls present it at the same
\* time or later, at most one template is stored, or one probe resolved, by it
\* (consumeDeviceToken).
TokenServesOnce == \A t \in Tokens : served[t] <= 1

\* Revocation is immediate: from the moment an agent is revoked none of its
\* tokens is consumed, not even by a call that was authenticated before, or
\* with a token issued by a call that read the agent before (revoke burns the
\* tokens in the hands of the agent; authenticate reads its status).
RevokedAgentConsumesNothing ==
    [][\A r \in Calls :
          at[r] = "authenticated" /\ at'[r] \in {"reading", "matching"}
            => agent[AgentOf[on[r]]] # "REVOKED"]_vars

\* A revoked agent is active again, and a completed enrolment something else,
\* only through a call that had read it before (approve, cancelEnrollment,
\* completeHidEnrollment): one that begins afterwards is refused.
OnlyOvertakenCallsOverwrite ==
    [][/\ \A a \in Agents :
              agent[a] = "REVOKED" /\ agent'[a] # "REVOKED" => \E r \in late : on[r] = a
       /\ \A e \in Enrolments :
              enrolment[e] = "COMPLETED" /\ enrolment'[e] # "COMPLETED"
                => \E r \in late : on[r] = e]_vars

\* Withdrawing the consent leaves no credential in force, except one that was
\* being delivered, past its own check of the consent, while it was withdrawn
\* (revokeConsent revokes in the same transaction; enrollComplete checks again).
NoConsentNoCredential ==
    \A e \in Enrolments : Active(e) => Consented(MemberOf[e]) \/ e \in overtaken

\* Once an enrolment by an agent is closed its token is dead: nothing delivered
\* later reaches it (cancelEnrollment burns the token it did not see used).
ClosedEnrolmentKillsToken ==
    \A e \in ByAgent : ~Open(e) => token[e] # "live"

=============================================================================
