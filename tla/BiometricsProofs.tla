--------------------------- MODULE BiometricsProofs ---------------------------
(***************************************************************************)
(* Proofs about Biometrics: what a call may be about where it is, given    *)
(* what the others are doing (Fine), and what holds between tokens,        *)
(* enrolments, consents and credentials (Sound), are kept by every step.   *)
(***************************************************************************)
EXTENDS Biometrics, TLAPS

USE RegistryAssumption, BiometricsAssumption

\* Starting an enrolment or issuing a token to identify.
Starting == {"finger", "agent", "opening", "issuing"}

\* Under a token that was consumed.
Spending ==
    {"reading", "expiring", "consent", "capturing", "extracting", "encrypting", "keying",
     "storing", "failing", "matching"}

\* Past the check of the consent, as Delivering.
Delivery == {"capturing", "extracting", "encrypting", "keying", "storing"}

\* About to write the enrolment without looking at its status again.
Writing == Delivery \cup {"cancelling", "expiring", "consent", "failing"}

\* What a call is about, by where it is.
Place(s, x) ==
    /\ s = "idle" => x = None
    /\ s \in {"approving", "revoking", "pairing"} => x \in Agents
    /\ s \in {"granting", "withdrawing"} => x \in Members
    /\ s = "authenticated" => x \in Tokens
    /\ s \in {"finger", "opening", "reading"} \cup Writing => x \in Enrolments
    /\ s = "agent" => x \in ByAgent
    /\ s = "issuing" => x \in IdentifyTokens
    /\ s = "matching" => x \in IdentifyTokens \cup {None}

\* Nobody shares what it starts, or spends, with another call.
Alone(r, s, x) ==
    \A q \in Calls \ {r} :
        /\ s \in Starting \/ at[q] \in Starting => on[q] # x
        /\ s \in Spending /\ at[q] \in Spending /\ x \in Tokens => on[q] # x

\* What it starts is new, what it spends is spent and has served nothing, and
\* an authenticated token that is still live has an agent that is not revoked.
Entitled(s, x) ==
    /\ s \in Starting /\ x \in Tokens => token[x] = "unissued"
    /\ s \in Starting /\ x \in Enrolments => enrolment[x] = "none"
    /\ s \in Spending /\ x \in Tokens => token[x] = "dead" /\ served[x] = 0
    /\ s = "authenticated" => token[x] # "unissued"
    /\ s = "authenticated" /\ token[x] = "live" => agent[AgentOf[x]] # "REVOKED"

\* What it delivers has a consent, or lost it meanwhile; and who is about to
\* overwrite a revocation or a completion is known to be late.
Warned(r, s, x) ==
    /\ s \in Delivery => Consented(MemberOf[x]) \/ x \in overtaken
    /\ s = "approving" /\ agent[x] = "REVOKED" => r \in late
    /\ s \in Writing /\ enrolment[x] = "COMPLETED" => r \in late

Fine(r, s, x) == Place(s, x) /\ Alone(r, s, x) /\ Entitled(s, x) /\ Warned(r, s, x)

Sound ==
    /\ TokenServesOnce
    /\ \A t \in Tokens : token[t] # "dead" => served[t] = 0
    /\ \A e \in ByAgent : enrolment[e] = "none" => token[e] = "unissued"
    /\ ClosedEnrolmentKillsToken
    /\ NoConsentNoCredential

IInv == TypeOK /\ Sound /\ \A r \in Calls : Fine(r, at[r], on[r])

-----------------------------------------------------------------------------
(* A call that moves and changes nothing else.                             *)

LEMMA InitIInv == Init => IInv
<1> SUFFICES ASSUME Init PROVE IInv
  OBVIOUS
<1>1. TypeOK
  BY DEF Init, RegistryInit, TypeOK, Stages, AgentStatuses, TokenStates, EnrolmentStatuses
<1>2. Sound
  BY DEF Init, RegistryInit, Sound, TokenServesOnce, ClosedEnrolmentKillsToken,
         NoConsentNoCredential, ByAgent, Active
<1>3. \A r \in Calls : at[r] = "idle" /\ on[r] = None
  BY DEF Init, RegistryInit
<1>4. ASSUME NEW r \in Calls PROVE Fine(r, at[r], on[r])
  <2>1. Place("idle", None) /\ Entitled("idle", None) /\ Warned(r, "idle", None)
    BY DEF Place, Entitled, Warned, Starting, Spending, Delivery, Writing
  <2>2. Alone(r, "idle", None)
    BY <1>3 DEF Alone, Starting, Spending
  <2> QED
    BY <1>3, <2>1, <2>2 DEF Fine
<1> QED
  BY <1>1, <1>2, <1>4 DEF IInv

LEMMA Walk ==
    ASSUME IInv, NEW r \in Calls, NEW s \in Stages,
           NEW x \in Agents \cup Subjects \cup {None},
           Go(r, s, x), Fine(r, s, x),
           UNCHANGED <<registry, token, enrolling, consents, granted, overtaken, served>>,
           seen' \in [Calls -> Nat],
           late' = late \/ (s = "idle" /\ late' = late \ {r})
    PROVE  IInv'
<1>1. TypeOK'
  BY DEF Go, IInv, TypeOK, registry, enrolling
<1>2. Sound'
  BY DEF IInv, Sound, TokenServesOnce, ClosedEnrolmentKillsToken, NoConsentNoCredential,
         registry, enrolling, Open, Active, Consented
<1>3. /\ at' \in [Calls -> Stages] /\ at'[r] = s /\ on'[r] = x
      /\ \A q \in Calls \ {r} : at'[q] = at[q] /\ on'[q] = on[q]
  BY DEF Go, IInv, TypeOK
<1>4. ASSUME NEW q \in Calls PROVE Fine(q, at[q], on[q])'
  <2>1. Fine(q, at'[q], on'[q])
    BY <1>3 DEF IInv
  <2>2. Place(at'[q], on'[q])
    BY <2>1 DEF Fine
  <2>3. Alone(q, at[q], on[q])'
    BY <1>3, <2>1 DEF IInv, Fine, Alone
  <2>4. Entitled(at[q], on[q])'
    BY <2>1 DEF Fine, Entitled, registry, enrolling
  <2>5. Warned(q, at[q], on[q])'
    BY <2>1, <1>3 DEF Fine, Warned, registry, enrolling, Consented, Delivery, Writing
  <2> QED
    BY <2>2, <2>3, <2>4, <2>5 DEF Fine
<1> QED
  BY <1>1, <1>2, <1>4 DEF IInv

\* What calls that start something are about, and what those about to move know.
LEMMA Started ==
    ASSUME IInv, NEW q \in Calls, at[q] \in Starting
    PROVE  /\ on[q] \in Enrolments \cup IdentifyTokens
           /\ on[q] \in Tokens => token[on[q]] = "unissued"
           /\ on[q] \in Enrolments => enrolment[on[q]] = "none"
<1>1. Fine(q, at[q], on[q])
  BY DEF IInv
<1>2. on[q] \in Enrolments \cup IdentifyTokens
  BY <1>1 DEF Fine, Place, Starting, ByAgent
<1> QED
  BY <1>1, <1>2 DEF Fine, Entitled

\* A call that begins about something nobody starts, neither to start nor to
\* spend it.
LEMMA Begins ==
    ASSUME IInv, NEW r \in Calls, NEW s \in Stages \ (Starting \cup Spending \cup {"idle"}),
           NEW x \in Agents \cup Subjects,
           \/ x \in Agents \cup Members
           \/ x \in Tokens /\ token[x] # "unissued"
           \/ x \in Enrolments /\ enrolment[x] # "none"
    PROVE  Alone(r, s, x)
BY Started DEF Alone, IdentifyTokens

LEMMA RegistryReads ==
    ASSUME IInv, NEW r \in Calls, UNCHANGED <<enrolling, consenting, served>>
    PROVE  /\ \A a \in Agents :
                 ReadForApproval(r, a) \/ ReadForRevocation(r, a) \/ ReadForPairing(r, a) => IInv'
           /\ \A t \in Tokens : Authenticate(r, t) => IInv'
<1>0. seen' = seen /\ seen \in [Calls -> Nat] /\ UNCHANGED <<consents, granted, overtaken>>
  BY DEF consenting, IInv, TypeOK
<1>1. ASSUME NEW a \in Agents, ReadForApproval(r, a) PROVE IInv'
  <2>1. Fine(r, "approving", a)
    BY <1>1, Begins DEF ReadForApproval, Fine, Place, Entitled, Warned, Starting, Spending,
                        Delivery, Writing, Stages
  <2> QED
    BY <1>0, <1>1, <2>1, Walk DEF ReadForApproval, Stages
<1>2. ASSUME NEW a \in Agents, ReadForRevocation(r, a) PROVE IInv'
  <2>1. Fine(r, "revoking", a)
    BY Begins DEF Fine, Place, Entitled, Warned, Starting, Spending, Delivery, Writing, Stages
  <2> QED
    BY <1>0, <1>2, <2>1, Walk DEF ReadForRevocation, Stages
<1>3. ASSUME NEW a \in Agents, ReadForPairing(r, a) PROVE IInv'
  <2>1. Fine(r, "pairing", a)
    BY Begins DEF Fine, Place, Entitled, Warned, Starting, Spending, Delivery, Writing, Stages
  <2> QED
    BY <1>0, <1>3, <2>1, Walk DEF ReadForPairing, Stages
<1>4. ASSUME NEW t \in Tokens, Authenticate(r, t) PROVE IInv'
  <2>1. Fine(r, "authenticated", t)
    BY <1>4, Begins DEF Authenticate, Fine, Place, Entitled, Warned, Starting, Spending,
                        Delivery, Writing, Stages
  <2> QED
    BY <1>0, <1>4, <2>1, Walk DEF Authenticate, Stages
<1> QED
  BY <1>1, <1>2, <1>3, <1>4

LEMMA Reads ==
    ASSUME IInv, NEW r \in Calls
    PROVE  /\ \A m \in Members : ReadForGrant(r, m) \/ ReadForWithdrawal(r, m) => IInv'
           /\ \A e \in Enrolments : CheckConsent(r, e) \/ ReadForCancel(r, e) \/ CompleteHid(r, e)
                                        => IInv'
           /\ \A t \in Tokens : FindAgent(r, t) => IInv'
           /\ IdentifyHid(r) => IInv'
<1>0. seen \in [Calls -> Nat]
  BY DEF IInv, TypeOK
<1>1. ASSUME NEW m \in Members, ReadForGrant(r, m) PROVE IInv'
  <2>1. Fine(r, "granting", m)
    BY Begins DEF Fine, Place, Entitled, Warned, Starting, Spending, Delivery, Writing, Stages
  <2> QED
    BY <1>0, <1>1, <2>1, Walk DEF ReadForGrant, consenting, Stages
<1>2. ASSUME NEW m \in Members, ReadForWithdrawal(r, m) PROVE IInv'
  <2>1. Fine(r, "withdrawing", m)
    BY Begins DEF Fine, Place, Entitled, Warned, Starting, Spending, Delivery, Writing, Stages
  <2>2. Latest(consents[m]) \subseteq Nat
    BY DEF Latest, IInv, TypeOK
  <2>3. seen' \in [Calls -> Nat]
    BY <1>0, <1>2, <2>2 DEF ReadForWithdrawal
  <2> QED
    BY <1>2, <2>1, <2>3, Walk DEF ReadForWithdrawal, Stages
<1>3. ASSUME NEW e \in Enrolments, CheckConsent(r, e) PROVE IInv'
  <2>1. e \in Tokens => token[e] = "unissued"
    BY <1>3 DEF CheckConsent, IInv, Sound, ByAgent
  <2>2. Fine(r, "finger", e)
    BY <1>3, <2>1 DEF CheckConsent, Fine, Place, Alone, Entitled, Warned, Starting, Spending,
                      Delivery, Writing
  <2> QED
    BY <1>0, <1>3, <2>2, Walk DEF CheckConsent, consenting, Stages
<1>4. ASSUME NEW e \in Enrolments, ReadForCancel(r, e) PROVE IInv'
  <2>1. Fine(r, "cancelling", e)
    BY <1>4, Begins DEF ReadForCancel, Open, Fine, Place, Entitled, Warned, Starting, Spending,
                        Delivery, Writing, Stages
  <2> QED
    BY <1>0, <1>4, <2>1, Walk DEF ReadForCancel, consenting, Stages
<1>5. ASSUME NEW e \in Enrolments, CompleteHid(r, e) PROVE IInv'
  <2>1. e \notin Tokens /\ enrolment[e] # "none"
    BY <1>5 DEF CompleteHid, ByAgent
  <2>2. Fine(r, "reading", e)
    BY <2>1, Started DEF Fine, Place, Alone, Entitled, Warned, Starting, Spending, Delivery, Writing
  <2> QED
    BY <1>0, <1>5, <2>2, Walk DEF CompleteHid, consenting, Stages
<1>6. ASSUME NEW t \in Tokens, FindAgent(r, t) PROVE IInv'
  <2>1. Fine(r, "issuing", t)
    BY <1>6 DEF FindAgent, IdentifyTokens, Fine, Place, Alone, Entitled, Warned, Starting,
                Spending, Delivery, Writing
  <2> QED
    BY <1>0, <1>6, <2>1, Walk DEF FindAgent, consenting, Stages
<1>7. ASSUME IdentifyHid(r) PROVE IInv'
  <2>1. on[r] = None
    BY <1>7 DEF IdentifyHid, IInv, Fine, Place
  <2>2. None \notin Enrolments \cup IdentifyTokens \cup Tokens
    BY DEF IdentifyTokens
  <2>3. Fine(r, "matching", None)
    BY <2>2, Started DEF Fine, Place, Alone, Entitled, Warned, Starting, Spending, Delivery, Writing
  <2> QED
    BY <1>0, <1>7, <2>1, <2>3, Walk DEF IdentifyHid, Step, consenting, Stages
<1> QED
  BY <1>1, <1>2, <1>3, <1>4, <1>5, <1>6, <1>7

\* A call that stays with what it is about: nobody joins it there.
LEMMA Continues ==
    ASSUME IInv, NEW r \in Calls, NEW s \in Stages \ {"idle"},
           s \in Starting => at[r] \in Starting,
           s \in Spending => at[r] \in Spending
    PROVE  Alone(r, s, on[r])
BY DEF IInv, Fine, Alone

LEMMA Abandon ==
    ASSUME IInv, NEW r \in Calls
    PROVE  Fine(r, "idle", None)
<1>1. None \notin Enrolments \cup IdentifyTokens \cup Tokens
  BY DEF IdentifyTokens
<1> QED
  BY <1>1, Started DEF Fine, Place, Alone, Entitled, Warned, Starting, Spending, Delivery, Writing

LEMMA Steps ==
    ASSUME IInv, NEW r \in Calls
    PROVE  /\ CheckFinger(r) \/ CheckAgent(r) => IInv'
           /\ ReadEnrolment(r) \/ RecheckConsent(r) => IInv'
           /\ Extract(r) \/ ReadKey(r) \/ StoreDuplicate(r) => IInv'
           /\ Abort(r) => IInv'
<1>0. seen \in [Calls -> Nat] /\ Fine(r, at[r], on[r]) /\ on[r] \in Agents \cup Subjects \cup {None}
  BY DEF IInv, TypeOK
<1>1. ASSUME CheckFinger(r) PROVE IInv'
  <2> DEFINE s == IF on[r] \in ByAgent THEN "agent" ELSE "opening"
  <2>1. Alone(r, s, on[r])
    BY <1>1, Continues DEF CheckFinger, Starting, Spending, Stages
  <2>2. Fine(r, s, on[r])
    BY <1>0, <1>1, <2>1 DEF CheckFinger, Fine, Place, Entitled, Warned, Starting, Spending,
                            Delivery, Writing
  <2> QED
    BY <1>0, <1>1, <2>2, Walk DEF CheckFinger, Step, consenting, Stages
<1>2. ASSUME CheckAgent(r) PROVE IInv'
  <2>1. Alone(r, "opening", on[r])
    BY <1>2, Continues DEF CheckAgent, Starting, Spending, Stages
  <2>2. Fine(r, "opening", on[r])
    BY <1>0, <1>2, <2>1 DEF CheckAgent, Fine, Place, Entitled, Warned, Starting, Spending,
                            Delivery, Writing, ByAgent
  <2> QED
    BY <1>0, <1>2, <2>2, Walk DEF CheckAgent, Step, consenting, Stages
<1>3. ASSUME ReadEnrolment(r) PROVE IInv'
  <2>1. \A s \in {"expiring", "consent"} : Alone(r, s, on[r])
    BY <1>3, Continues DEF ReadEnrolment, Starting, Spending, Stages
  <2>2. \A s \in {"expiring", "consent"} : Fine(r, s, on[r])
    BY <1>0, <1>3, <2>1 DEF ReadEnrolment, Open, Fine, Place, Entitled, Warned, Starting, Spending,
                            Delivery, Writing
  <2> QED
    BY <1>0, <1>3, <2>2, Walk DEF ReadEnrolment, Step, consenting, Stages
<1>4. ASSUME RecheckConsent(r) PROVE IInv'
  <2>1. \A s \in {"encrypting", "capturing"} : Alone(r, s, on[r])
    BY <1>4, Continues DEF RecheckConsent, Starting, Spending, Stages
  <2>2. \A s \in {"encrypting", "capturing"} : Fine(r, s, on[r])
    BY <1>0, <1>4, <2>1 DEF RecheckConsent, Fine, Place, Entitled, Warned, Starting, Spending,
                            Delivery, Writing
  <2> QED
    BY <1>0, <1>4, <2>2, Walk DEF RecheckConsent, Step, consenting, Stages
<1>5. ASSUME Extract(r) PROVE IInv'
  <2>1. \A s \in {"encrypting", "failing"} : Alone(r, s, on[r])
    BY <1>5, Continues DEF Extract, Starting, Spending, Stages
  <2>2. \A s \in {"encrypting", "failing"} : Fine(r, s, on[r])
    BY <1>0, <1>5, <2>1 DEF Extract, Fine, Place, Entitled, Warned, Starting, Spending,
                            Delivery, Writing
  <2> QED
    BY <1>0, <1>5, <2>2, Walk DEF Extract, Step, consenting, Stages
<1>6. ASSUME ReadKey(r) PROVE IInv'
  <2>1. \A s \in {"storing", "keying"} : Alone(r, s, on[r])
    BY <1>6, Continues DEF ReadKey, Starting, Spending, Stages
  <2>2. \A s \in {"storing", "keying"} : Fine(r, s, on[r])
    BY <1>0, <1>6, <2>1 DEF ReadKey, Fine, Place, Entitled, Warned, Starting, Spending,
                            Delivery, Writing
  <2> QED
    BY <1>0, <1>6, <2>2, Walk DEF ReadKey, Step, consenting, Stages
<1>7. ASSUME StoreDuplicate(r) PROVE IInv'
  <2>1. Alone(r, "failing", on[r])
    BY <1>7, Continues DEF StoreDuplicate, Starting, Spending, Stages
  <2>2. Fine(r, "failing", on[r])
    BY <1>0, <1>7, <2>1 DEF StoreDuplicate, Fine, Place, Entitled, Warned, Starting, Spending,
                            Delivery, Writing
  <2> QED
    BY <1>0, <1>7, <2>2, Walk DEF StoreDuplicate, Step, consenting, Stages
<1>8. ASSUME Abort(r) PROVE IInv'
  <2>1. seen' \in [Calls -> Nat]
    BY <1>0, <1>8 DEF Abort
  <2> QED
    BY <1>8, <2>1, Abandon, Walk DEF Abort, Finish, Stages
<1> QED
  BY <1>1, <1>2, <1>3, <1>4, <1>5, <1>6, <1>7, <1>8

-----------------------------------------------------------------------------
(* Calls that write.                                                       *)

LEMMA Moved ==
    ASSUME IInv, NEW r \in Calls, NEW s \in Stages,
           NEW x \in Agents \cup Subjects \cup {None},
           Go(r, s, x), Place(s, x), Alone(r, s, x)
    PROVE  /\ at' \in [Calls -> Stages] /\ on' \in [Calls -> Agents \cup Subjects \cup {None}]
           /\ at'[r] = s /\ on'[r] = x
           /\ \A q \in Calls \ {r} : at'[q] = at[q] /\ on'[q] = on[q]
           /\ \A q \in Calls : (Place(at[q], on[q]) /\ Alone(q, at[q], on[q]))'
<1>1. /\ at' \in [Calls -> Stages] /\ on' \in [Calls -> Agents \cup Subjects \cup {None}]
      /\ at'[r] = s /\ on'[r] = x
      /\ \A q \in Calls \ {r} : at'[q] = at[q] /\ on'[q] = on[q]
  BY DEF Go, IInv, TypeOK
<1>2. ASSUME NEW q \in Calls PROVE Alone(q, at[q], on[q])'
  <2>1. Alone(q, at'[q], on'[q])
    BY <1>1 DEF IInv, Fine
  <2> QED
    BY <1>1, <2>1 DEF IInv, Fine, Alone
<1>3. ASSUME NEW q \in Calls PROVE Place(at[q], on[q])'
  BY <1>1 DEF IInv, Fine
<1> QED
  BY <1>1, <1>2, <1>3

\* Its call over, a writer has to mind the others.
LEMMA Ends ==
    ASSUME IInv, NEW r \in Calls, Go(r, "idle", None), TypeOK', Sound',
           \A q \in Calls \ {r} : (Entitled(at[q], on[q]) /\ Warned(q, at[q], on[q]))'
    PROVE  IInv'
<1>1. Place("idle", None) /\ Alone(r, "idle", None)
  BY Abandon DEF Fine
<1>2. /\ at'[r] = "idle" /\ on'[r] = None
      /\ \A q \in Calls : (Place(at[q], on[q]) /\ Alone(q, at[q], on[q]))'
  BY <1>1, Moved DEF Stages
<1>3. (Entitled(at[r], on[r]) /\ Warned(r, at[r], on[r]))'
  BY <1>2 DEF Entitled, Warned, Starting, Spending, Delivery, Writing
<1> QED
  BY <1>2, <1>3 DEF IInv, Fine

\* What is true of every call before a writer's step, and of the others after.
LEMMA Leaves ==
    ASSUME IInv, NEW r \in Calls, Go(r, "idle", None)
    PROVE  /\ at' \in [Calls -> Stages] /\ on' \in [Calls -> Agents \cup Subjects \cup {None}]
           /\ \A q \in Calls \ {r} : at'[q] = at[q] /\ on'[q] = on[q]
           /\ \A q \in Calls : /\ Place(at[q], on[q]) /\ Alone(q, at[q], on[q])
                               /\ Entitled(at[q], on[q]) /\ Warned(q, at[q], on[q])
BY Abandon, Moved DEF IInv, Fine, Stages

LEMMA RegistryWrites ==
    ASSUME IInv, NEW r \in Calls, UNCHANGED <<enrolling, consenting, served>>
    PROVE  Approve(r) \/ Revoke(r) \/ Pair(r) => IInv'
<1>0. /\ UNCHANGED <<enrolment, credential, tenantKey, consents, granted, seen, overtaken, served>>
      /\ TypeOK /\ Sound
  BY DEF enrolling, consenting, IInv
<1>1. ASSUME Approve(r) PROVE IInv'
  <2>1. Go(r, "idle", None) /\ UNCHANGED <<paired, online, token>>
    BY <1>1 DEF Approve, Finish
  <2>2. on[r] \in Agents /\ late' = late \ {r} /\ agent' = [agent EXCEPT ![on[r]] = "ACTIVE"]
    BY <1>1 DEF Approve, Finish, IInv, Fine, Place
  <2>3. TypeOK'
    BY <1>0, <2>1, <2>2, Leaves DEF TypeOK, AgentStatuses
  <2>4. Sound'
    BY <1>0, <2>1 DEF Sound, TokenServesOnce, ClosedEnrolmentKillsToken, NoConsentNoCredential,
                      Open, Active, Consented
  <2>5. ASSUME NEW q \in Calls \ {r}
        PROVE (Entitled(at[q], on[q]) /\ Warned(q, at[q], on[q]))'
    <3>1. /\ at'[q] = at[q] /\ on'[q] = on[q] /\ Place(at[q], on[q])
          /\ Entitled(at[q], on[q]) /\ Warned(q, at[q], on[q])
      BY <2>1, Leaves
    <3>2. \A a \in Agents : agent'[a] = "REVOKED" => agent[a] = "REVOKED"
      BY <1>0, <2>2 DEF TypeOK
    <3>3. Entitled(at[q], on[q])'
      BY <1>0, <2>1, <3>1, <3>2 DEF Entitled, Place
    <3>4. Warned(q, at[q], on[q])'
      BY <1>0, <2>2, <3>1, <3>2 DEF Warned, Place, Consented
    <3> QED
      BY <3>3, <3>4
  <2> QED
    BY <2>1, <2>3, <2>4, <2>5, Ends
<1>2. ASSUME Revoke(r) PROVE IInv'
  <2>1. Go(r, "idle", None) /\ UNCHANGED <<paired, online>>
    BY <1>2 DEF Revoke
  <2>2. /\ on[r] \in Agents /\ agent' = [agent EXCEPT ![on[r]] = "REVOKED"]
        /\ late' = late \cup {q \in Calls : at[q] = "approving" /\ on[q] = on[r]}
        /\ token' = [t \in Tokens |->
              IF AgentOf[t] = on[r] /\ token[t] = "live" THEN "dead" ELSE token[t]]
    BY <1>2 DEF Revoke, Burn, IInv, Fine, Place
  <2>3. TypeOK'
    BY <1>0, <2>1, <2>2, Leaves DEF TypeOK, AgentStatuses, TokenStates
  <2>4. Sound'
    BY <1>0, <2>2 DEF Sound, TokenServesOnce, ClosedEnrolmentKillsToken, NoConsentNoCredential,
                      Open, Active, Consented, ByAgent
  <2>5. ASSUME NEW q \in Calls \ {r}
        PROVE (Entitled(at[q], on[q]) /\ Warned(q, at[q], on[q]))'
    <3>1. /\ at'[q] = at[q] /\ on'[q] = on[q] /\ Place(at[q], on[q])
          /\ Entitled(at[q], on[q]) /\ Warned(q, at[q], on[q])
      BY <2>1, Leaves
    <3>2. \A a \in Agents : agent'[a] = IF a = on[r] THEN "REVOKED" ELSE agent[a]
      BY <1>0, <2>2 DEF TypeOK
    <3>3. Entitled(at[q], on[q])'
      BY <1>0, <2>2, <3>1, <3>2 DEF Entitled, Place
    <3>4. Warned(q, at[q], on[q])'
      BY <1>0, <2>2, <3>1, <3>2 DEF Warned, Place, Consented
    <3> QED
      BY <3>3, <3>4
  <2> QED
    BY <2>1, <2>3, <2>4, <2>5, Ends
<1>3. ASSUME Pair(r) PROVE IInv'
  <2>1. Go(r, "idle", None) /\ UNCHANGED <<agent, token>>
    BY <1>3 DEF Pair, Finish
  <2>2. /\ on[r] \in Agents /\ late' = late \ {r}
        /\ paired' = paired \cup {on[r]} /\ online' = online \cup {on[r]}
    BY <1>3 DEF Pair, Finish, IInv, Fine, Place
  <2>3. TypeOK'
    BY <1>0, <2>1, <2>2, Leaves DEF TypeOK
  <2>4. Sound'
    BY <1>0, <2>1 DEF Sound, TokenServesOnce, ClosedEnrolmentKillsToken, NoConsentNoCredential,
                      Open, Active, Consented
  <2>5. ASSUME NEW q \in Calls \ {r}
        PROVE (Entitled(at[q], on[q]) /\ Warned(q, at[q], on[q]))'
    <3>1. Entitled(at[q], on[q]) /\ Warned(q, at[q], on[q])
      BY <1>0, <2>1, Leaves
    <3>2. UNCHANGED <<agent, token, enrolment, served, consents, overtaken>>
      BY <1>0, <2>1
    <3>3. Entitled(at[q], on[q])'
      BY <1>0, <2>1, <3>1, <3>2, Leaves DEF Entitled
    <3>4. Warned(q, at[q], on[q])'
      BY <1>0, <2>1, <2>2, <3>1, <3>2, Leaves DEF Warned, Consented
    <3> QED
      BY <3>3, <3>4
  <2> QED
    BY <2>1, <2>3, <2>4, <2>5, Ends
<1> QED
  BY <1>1, <1>2, <1>3

\* Heartbeats, silence and expiries move no call.
LEMMA RegistryTime ==
    ASSUME IInv, UNCHANGED <<enrolling, consenting, served>>,
           \/ \E a \in Agents : Heartbeat(a) \/ FallSilent(a)
           \/ \E t \in Tokens : TokenExpires(t)
    PROVE  IInv'
<1>0. /\ UNCHANGED <<enrolment, credential, tenantKey, consents, granted, seen, overtaken, served>>
      /\ TypeOK /\ Sound
  BY DEF enrolling, consenting, IInv
<1>1. /\ UNCHANGED <<agent, paired, at, on, late>> /\ online' \subseteq Agents
      /\ token' \in [Tokens -> TokenStates]
      /\ \A t \in Tokens : token'[t] = token[t] \/ (token[t] = "live" /\ token'[t] = "dead")
  BY <1>0 DEF Heartbeat, FallSilent, TokenExpires, registry, TypeOK, TokenStates
<1>2. TypeOK'
  BY <1>0, <1>1 DEF TypeOK
<1>3. Sound'
  BY <1>0, <1>1 DEF Sound, TokenServesOnce, ClosedEnrolmentKillsToken, NoConsentNoCredential,
                    Open, Active, Consented, ByAgent
<1>4. ASSUME NEW q \in Calls PROVE Fine(q, at[q], on[q])'
  <2>1. Fine(q, at[q], on[q])
    BY DEF IInv
  <2>2. Entitled(at[q], on[q])'
    BY <1>0, <1>1, <2>1 DEF Fine, Entitled, Place
  <2> QED
    BY <1>0, <1>1, <2>1, <2>2 DEF Fine, Alone, Warned, Consented
<1> QED
  BY <1>2, <1>3, <1>4 DEF IInv

LEMMA ConsentWrites ==
    ASSUME IInv, NEW r \in Calls
    PROVE  Grant(r) \/ Withdraw(r) => IInv'
<1>0. TypeOK /\ Sound
  BY DEF IInv
<1>1. ASSUME Grant(r) PROVE IInv'
  <2>1. /\ Go(r, "idle", None) /\ late' = late \ {r} /\ on[r] \in Members
        /\ UNCHANGED <<agent, paired, online, token, enrolment, credential, tenantKey, seen,
                       overtaken, served>>
        /\ granted' = [granted EXCEPT ![on[r]] = @ + 1]
        /\ consents' = [consents EXCEPT ![on[r]] = @ \cup {granted[on[r]] + 1}]
    BY <1>1 DEF Grant, Finish, registry, enrolling, IInv, Fine, Place
  <2>2. TypeOK'
    <3>1. granted' \in [Members -> Nat] /\ consents' \in [Members -> SUBSET Nat]
      BY <1>0, <2>1 DEF TypeOK
    <3> QED
      BY <1>0, <2>1, <3>1, Leaves DEF TypeOK
  <2>3. \A m \in Members : Consented(m) => Consented(m)'
    BY <1>0, <2>1 DEF TypeOK, Consented
  <2>4. Sound'
    BY <1>0, <2>1, <2>3 DEF Sound, TokenServesOnce, ClosedEnrolmentKillsToken,
                            NoConsentNoCredential, Open, Active
  <2>5. ASSUME NEW q \in Calls \ {r}
        PROVE (Entitled(at[q], on[q]) /\ Warned(q, at[q], on[q]))'
    <3>1. /\ at'[q] = at[q] /\ on'[q] = on[q] /\ Place(at[q], on[q])
          /\ Entitled(at[q], on[q]) /\ Warned(q, at[q], on[q])
      BY <2>1, Leaves
    <3>2. at[q] \in Delivery => MemberOf[on[q]] \in Members
      BY <3>1 DEF Place, Writing
    <3> QED
      BY <2>1, <2>3, <3>1, <3>2 DEF Entitled, Warned
  <2> QED
    BY <2>1, <2>2, <2>4, <2>5, Ends
<1>2. ASSUME Withdraw(r) PROVE IInv'
  <2>1. /\ Go(r, "idle", None) /\ late' = late \ {r} /\ on[r] \in Members
        /\ UNCHANGED <<agent, paired, online, token, granted, enrolment, tenantKey, served>>
        /\ consents' = [consents EXCEPT ![on[r]] = @ \ {seen[r]}]
        /\ credential' = [e \in Enrolments |->
              IF MemberOf[e] = on[r] /\ Active(e) THEN "REVOKED" ELSE credential[e]]
        /\ overtaken' = overtaken \cup {e \in Enrolments :
              MemberOf[e] = on[r] /\ \E q \in Calls : Delivering(q) /\ on[q] = e}
        /\ seen' = [seen EXCEPT ![r] = 0]
    BY <1>2 DEF Withdraw, RevokeCredentialsOf, Finish, registry, IInv, Fine, Place
  <2>2. TypeOK'
    <3>1. consents' \in [Members -> SUBSET Nat] /\ seen' \in [Calls -> Nat]
      BY <1>0, <2>1 DEF TypeOK
    <3>2. overtaken' \subseteq Enrolments /\ late' \subseteq Calls
      BY <1>0, <2>1 DEF TypeOK
    <3>3. credential' \in [Enrolments -> {"none", "ACTIVE", "REVOKED"}]
      BY <1>0, <2>1 DEF TypeOK
    <3> QED
      BY <1>0, <2>1, <3>1, <3>2, <3>3, Leaves DEF TypeOK
  <2>3. \A m \in Members \ {on[r]} : Consented(m) => Consented(m)'
    BY <1>0, <2>1 DEF TypeOK, Consented
  <2>4. Sound'
    <3>1. NoConsentNoCredential'
      BY <1>0, <2>1, <2>3 DEF Sound, NoConsentNoCredential, Active
    <3> QED
      BY <1>0, <2>1, <3>1 DEF Sound, TokenServesOnce, ClosedEnrolmentKillsToken, Open
  <2>5. ASSUME NEW q \in Calls \ {r}
        PROVE (Entitled(at[q], on[q]) /\ Warned(q, at[q], on[q]))'
    <3>1. /\ at'[q] = at[q] /\ on'[q] = on[q] /\ Place(at[q], on[q])
          /\ Entitled(at[q], on[q]) /\ Warned(q, at[q], on[q])
      BY <2>1, Leaves
    <3>2. at[q] \in Delivery => on[q] \in Enrolments /\ MemberOf[on[q]] \in Members /\ Delivering(q)
      BY <3>1 DEF Place, Writing, Delivery, Delivering
    <3>3. at[q] \in Delivery => Consented(MemberOf[on[q]])' \/ on[q] \in overtaken'
      BY <2>1, <2>3, <3>1, <3>2 DEF Warned
    <3>4. Entitled(at[q], on[q])'
      BY <2>1, <3>1 DEF Entitled
    <3>5. Warned(q, at[q], on[q])'
      BY <2>1, <3>1, <3>3 DEF Warned
    <3> QED
      BY <3>4, <3>5
  <2> QED
    BY <2>1, <2>2, <2>4, <2>5, Ends
<1> QED
  BY <1>1, <1>2

LEMMA CredentialRevoked ==
    ASSUME IInv, NEW e \in Enrolments, RevokeCredential(e)
    PROVE  IInv'
<1>0. /\ UNCHANGED <<agent, paired, online, token, at, on, late, enrolment, tenantKey, consents,
                     granted, seen, overtaken, served>>
      /\ credential' = [credential EXCEPT ![e] = "REVOKED"]
      /\ TypeOK /\ Sound
  BY DEF RevokeCredential, registryVars, registry, consenting, IInv
<1>1. TypeOK'
  BY <1>0 DEF TypeOK
<1>2. Sound'
  BY <1>0 DEF Sound, TypeOK, TokenServesOnce, ClosedEnrolmentKillsToken, NoConsentNoCredential,
              Open, Active, Consented
<1>3. ASSUME NEW q \in Calls PROVE Fine(q, at[q], on[q])'
  BY <1>0 DEF IInv, Fine, Alone, Entitled, Warned, Consented
<1> QED
  BY <1>1, <1>2, <1>3 DEF IInv

\* A token is issued to an enrolment that opens, or to identify.
LEMMA TokenIssued ==
    ASSUME IInv, NEW r \in Calls
    PROVE  OpenEnrolment(r) \/ IssueIdentify(r) => IInv'
<1>0. /\ TypeOK /\ Sound
      /\ Place(at[r], on[r]) /\ Alone(r, at[r], on[r]) /\ Entitled(at[r], on[r])
  BY DEF IInv, Fine
<1>1. ASSUME OpenEnrolment(r) PROVE IInv'
  <2>1. /\ Go(r, "idle", None) /\ late' = late \ {r} /\ at[r] \in Starting /\ on[r] \in Enrolments
        /\ UNCHANGED <<agent, paired, online, granted, consents, credential, tenantKey, seen,
                       overtaken, served>>
        /\ enrolment' = [enrolment EXCEPT ![on[r]] = "STARTED"]
        /\ token' = IF on[r] \in ByAgent THEN [token EXCEPT ![on[r]] = "live"] ELSE token
    BY <1>0, <1>1 DEF OpenEnrolment, Issue, Finish, registry, consenting, Place, Starting
  <2>2. on[r] \in Tokens => token[on[r]] = "unissued"
    BY <1>0, <2>1 DEF Entitled
  <2>3. TypeOK'
    <3>1. token' \in [Tokens -> TokenStates]
      BY <1>0, <2>1 DEF TypeOK, TokenStates, ByAgent
    <3>2. enrolment' \in [Enrolments -> EnrolmentStatuses]
      BY <1>0, <2>1 DEF TypeOK, EnrolmentStatuses
    <3> QED
      BY <1>0, <2>1, <3>1, <3>2, Leaves DEF TypeOK
  <2>4. Sound'
    <3>1. \A t \in Tokens : token'[t] # "dead" => served'[t] = 0
      BY <1>0, <2>1, <2>2 DEF Sound, TypeOK
    <3>2. \A e \in ByAgent : enrolment'[e] = "none" => token'[e] = "unissued"
      BY <1>0, <2>1 DEF Sound, TypeOK, ByAgent
    <3>3. ClosedEnrolmentKillsToken'
      BY <1>0, <2>1 DEF Sound, TypeOK, ByAgent, ClosedEnrolmentKillsToken, Open
    <3> QED
      BY <1>0, <2>1, <3>1, <3>2, <3>3 DEF Sound, TokenServesOnce, NoConsentNoCredential, Active,
                                          Consented
  <2>5. ASSUME NEW q \in Calls \ {r}
        PROVE (Entitled(at[q], on[q]) /\ Warned(q, at[q], on[q]))'
    <3>1. /\ at'[q] = at[q] /\ on'[q] = on[q] /\ Place(at[q], on[q])
          /\ Entitled(at[q], on[q]) /\ Warned(q, at[q], on[q])
      BY <2>1, Leaves
    <3>2. on[q] # on[r]
      BY <1>0, <2>1 DEF Alone
    <3>3. Entitled(at[q], on[q])'
      BY <1>0, <2>1, <3>1, <3>2 DEF Entitled, Place, TypeOK
    <3>4. Warned(q, at[q], on[q])'
      BY <1>0, <2>1, <3>1, <3>2 DEF Warned, Place, TypeOK, Consented
    <3> QED
      BY <3>3, <3>4
  <2> QED
    BY <2>1, <2>3, <2>4, <2>5, Ends
<1>2. ASSUME IssueIdentify(r) PROVE IInv'
  <2>1. /\ Go(r, "idle", None) /\ late' = late \ {r} /\ at[r] \in Starting
        /\ on[r] \in Tokens /\ on[r] \notin Enrolments
        /\ UNCHANGED <<agent, paired, online, granted, consents, enrolment, credential, tenantKey,
                       seen, overtaken, served>>
        /\ token' = [token EXCEPT ![on[r]] = "live"]
    BY <1>0, <1>2 DEF IssueIdentify, Issue, Finish, registry, enrolling, consenting, Place,
                      Starting, IdentifyTokens
  <2>2. token[on[r]] = "unissued"
    BY <1>0, <2>1 DEF Entitled
  <2>3. TypeOK'
    <3>1. token' \in [Tokens -> TokenStates]
      BY <1>0, <2>1 DEF TypeOK, TokenStates
    <3> QED
      BY <1>0, <2>1, <3>1, Leaves DEF TypeOK
  <2>4. Sound'
    <3>1. \A t \in Tokens : token'[t] # "dead" => served'[t] = 0
      BY <1>0, <2>1, <2>2 DEF Sound, TypeOK
    <3>2. \A e \in ByAgent : token'[e] = token[e]
      BY <1>0, <2>1 DEF TypeOK, ByAgent
    <3> QED
      BY <1>0, <2>1, <3>1, <3>2 DEF Sound, TokenServesOnce, ClosedEnrolmentKillsToken, Open,
                                    NoConsentNoCredential, Active, Consented
  <2>5. ASSUME NEW q \in Calls \ {r}
        PROVE (Entitled(at[q], on[q]) /\ Warned(q, at[q], on[q]))'
    <3>1. /\ at'[q] = at[q] /\ on'[q] = on[q] /\ Place(at[q], on[q])
          /\ Entitled(at[q], on[q]) /\ Warned(q, at[q], on[q])
      BY <2>1, Leaves
    <3>2. on[q] # on[r]
      BY <1>0, <2>1 DEF Alone
    <3>3. Entitled(at[q], on[q])'
      BY <1>0, <2>1, <3>1, <3>2 DEF Entitled, Place, TypeOK
    <3>4. Warned(q, at[q], on[q])'
      BY <1>0, <2>1, <3>1 DEF Warned, Consented
    <3> QED
      BY <3>3, <3>4
  <2> QED
    BY <2>1, <2>3, <2>4, <2>5, Ends
<1> QED
  BY <1>1, <1>2

\* An enrolment is closed by its id, its token dead or dying, and its call ends.
LEMMA EnrolmentCloses ==
    ASSUME IInv, NEW r \in Calls, NEW to \in {"CANCELLED", "EXPIRED", "FAILED"},
           Go(r, "idle", None), late' = late \ {r}, on[r] \in Enrolments,
           UNCHANGED <<agent, paired, online, granted, consents, credential, tenantKey, seen,
                       overtaken, served>>,
           enrolment' = [enrolment EXCEPT ![on[r]] = to],
           token' \in [Tokens -> TokenStates],
           \A t \in Tokens : token'[t] = token[t] \/ (token[t] = "live" /\ token'[t] = "dead"),
           on[r] \in Tokens => token'[on[r]] # "live"
    PROVE  IInv'
<1>0. TypeOK /\ Sound
  BY DEF IInv
<1>1. TypeOK'
  <2>1. enrolment' \in [Enrolments -> EnrolmentStatuses]
    BY <1>0 DEF TypeOK, EnrolmentStatuses
  <2> QED
    BY <1>0, <2>1, Leaves DEF TypeOK
<1>2. Sound'
  <2>1. \A t \in Tokens : token'[t] # "dead" => served'[t] = 0
    BY <1>0 DEF Sound
  <2>2. \A e \in ByAgent : enrolment'[e] = "none" => token'[e] = "unissued"
    BY <1>0 DEF Sound, TypeOK, ByAgent
  <2>3. ClosedEnrolmentKillsToken'
    BY <1>0 DEF Sound, TypeOK, ByAgent, ClosedEnrolmentKillsToken, Open
  <2> QED
    BY <1>0, <2>1, <2>2, <2>3 DEF Sound, TokenServesOnce, NoConsentNoCredential, Active, Consented
<1>3. ASSUME NEW q \in Calls \ {r}
      PROVE (Entitled(at[q], on[q]) /\ Warned(q, at[q], on[q]))'
  <2>1. /\ at'[q] = at[q] /\ on'[q] = on[q] /\ Place(at[q], on[q])
        /\ Entitled(at[q], on[q]) /\ Warned(q, at[q], on[q])
    BY Leaves
  <2>2. \A e \in Enrolments : /\ enrolment'[e] = "COMPLETED" => enrolment[e] = "COMPLETED"
                              /\ e # on[r] => enrolment'[e] = enrolment[e]
    BY <1>0 DEF TypeOK
  <2>3. at[q] \in Starting => on[q] # on[r]
    BY DEF IInv, Fine, Alone
  <2>4. Entitled(at[q], on[q])'
    BY <2>1, <2>2, <2>3 DEF Entitled, Place
  <2>5. Warned(q, at[q], on[q])'
    BY <2>1, <2>2 DEF Warned, Place, Consented
  <2> QED
    BY <2>4, <2>5
<1> QED
  BY <1>1, <1>2, <1>3, Ends

LEMMA Closings ==
    ASSUME IInv, NEW r \in Calls
    PROVE  Cancel(r) \/ Expire(r) \/ Fail(r) => IInv'
<1>0. /\ TypeOK /\ Place(at[r], on[r]) /\ Entitled(at[r], on[r])
      /\ at[r] \in {"cancelling", "expiring", "failing"} => on[r] \in Enrolments
  BY DEF IInv, Fine, Place, Writing
<1>1. ASSUME Cancel(r) PROVE IInv'
  <2>1. /\ Go(r, "idle", None) /\ late' = late \ {r} /\ on[r] \in Enrolments
        /\ UNCHANGED <<agent, paired, online, granted, consents, credential, tenantKey, seen,
                       overtaken, served>>
        /\ enrolment' = [enrolment EXCEPT ![on[r]] = "CANCELLED"]
        /\ token' = [t \in Tokens |->
              IF t \in {on[r]} \cap Tokens /\ token[t] = "live" THEN "dead" ELSE token[t]]
    BY <1>0, <1>1 DEF Cancel, Burn, Finish, registry, consenting
  <2>2. /\ token' \in [Tokens -> TokenStates]
        /\ \A t \in Tokens : token'[t] = token[t] \/ (token[t] = "live" /\ token'[t] = "dead")
        /\ on[r] \in Tokens => token'[on[r]] # "live"
    BY <1>0, <2>1 DEF TypeOK, TokenStates
  <2> QED
    BY <2>1, <2>2, EnrolmentCloses
<1>2. ASSUME Expire(r) PROVE IInv'
  <2>1. /\ Go(r, "idle", None) /\ late' = late \ {r} /\ on[r] \in Enrolments
        /\ UNCHANGED <<agent, paired, online, token, granted, consents, credential, tenantKey,
                       seen, overtaken, served>>
        /\ enrolment' = [enrolment EXCEPT ![on[r]] = "EXPIRED"]
    BY <1>0, <1>2 DEF Expire, Finish, registry, consenting
  <2>2. token \in [Tokens -> TokenStates] /\ (on[r] \in Tokens => token[on[r]] # "live")
    BY <1>0, <1>2 DEF Expire, Entitled, Spending, TypeOK
  <2> QED
    BY <2>1, <2>2, EnrolmentCloses
<1>3. ASSUME Fail(r) PROVE IInv'
  <2>1. /\ Go(r, "idle", None) /\ late' = late \ {r} /\ on[r] \in Enrolments
        /\ UNCHANGED <<agent, paired, online, token, granted, consents, credential, tenantKey,
                       seen, overtaken, served>>
        /\ enrolment' = [enrolment EXCEPT ![on[r]] = "FAILED"]
    BY <1>0, <1>3 DEF Fail, Finish, registry, consenting
  <2>2. token \in [Tokens -> TokenStates] /\ (on[r] \in Tokens => token[on[r]] # "live")
    BY <1>0, <1>3 DEF Fail, Entitled, Spending, TypeOK
  <2> QED
    BY <2>1, <2>2, EnrolmentCloses
<1> QED
  BY <1>1, <1>2, <1>3

\* The conditional update of consumeDeviceToken: it is dead, and this call alone
\* spends it.
LEMMA TokenConsumed ==
    ASSUME IInv, NEW r \in Calls, ConsumeToken(r)
    PROVE  IInv'
<1> DEFINE s == IF on[r] \in ByAgent THEN "reading" ELSE "matching"
<1>0. /\ TypeOK /\ Sound /\ on[r] \in Tokens /\ token[on[r]] = "live"
      /\ token' = [token EXCEPT ![on[r]] = "dead"] /\ Go(r, s, on[r])
      /\ UNCHANGED <<agent, paired, online, late, granted, consents, enrolment, credential,
                     tenantKey, seen, overtaken, served>>
  BY DEF ConsumeToken, Consume, Step, registry, enrolling, consenting, IInv, Fine, Place
<1>1. ASSUME NEW q \in Calls \ {r}
      PROVE /\ at[q] \in Spending \/ at[q] \in Starting => on[q] # on[r]
            /\ Fine(q, at[q], on[q])
  BY <1>0, Started DEF IInv, Fine, Entitled
<1>2. Place(s, on[r]) /\ Alone(r, s, on[r]) /\ s \in Stages /\ s \in Spending
  BY <1>0, <1>1 DEF Place, Alone, Starting, Spending, Writing, Delivery, Stages, ByAgent,
                    IdentifyTokens
<1>3. /\ at' \in [Calls -> Stages] /\ on' \in [Calls -> Agents \cup Subjects \cup {None}]
      /\ at'[r] = s /\ on'[r] = on[r]
      /\ \A q \in Calls \ {r} : at'[q] = at[q] /\ on'[q] = on[q]
      /\ \A q \in Calls : (Place(at[q], on[q]) /\ Alone(q, at[q], on[q]))'
  BY <1>0, <1>2, Moved
<1>4. TypeOK'
  <2>1. token' \in [Tokens -> TokenStates]
    BY <1>0 DEF TypeOK, TokenStates
  <2> QED
    BY <1>0, <1>3, <2>1 DEF TypeOK
<1>5. Sound'
  <2>1. \A t \in Tokens : token'[t] = token[t] \/ (token[t] = "live" /\ token'[t] = "dead")
    BY <1>0 DEF TypeOK
  <2> QED
    BY <1>0, <2>1 DEF Sound, TokenServesOnce, ClosedEnrolmentKillsToken, Open, ByAgent,
                      NoConsentNoCredential, Active, Consented
<1>6. (Entitled(at[r], on[r]) /\ Warned(r, at[r], on[r]))'
  <2>1. token'[on[r]] = "dead" /\ served'[on[r]] = 0
    BY <1>0 DEF Sound, TypeOK
  <2> QED
    BY <1>2, <1>3, <2>1 DEF Entitled, Warned, Starting, Delivery, Writing
<1>7. ASSUME NEW q \in Calls \ {r}
      PROVE (Entitled(at[q], on[q]) /\ Warned(q, at[q], on[q]))'
  <2>1. \A t \in Tokens : t # on[r] => token'[t] = token[t]
    BY <1>0 DEF TypeOK
  <2>2. token'[on[r]] = "dead"
    BY <1>0 DEF TypeOK
  <2>3. Place(at[q], on[q]) /\ Entitled(at[q], on[q]) /\ Warned(q, at[q], on[q])
    BY <1>1 DEF Fine
  <2>4. Entitled(at[q], on[q])'
    BY <1>0, <1>1, <1>3, <2>1, <2>2, <2>3 DEF Entitled, Place
  <2>5. Warned(q, at[q], on[q])'
    BY <1>0, <1>3, <2>3 DEF Warned, Consented
  <2> QED
    BY <2>4, <2>5
<1> QED
  BY <1>3, <1>4, <1>5, <1>6, <1>7 DEF IInv, Fine

\* CAPTURING, whatever the status has become.
LEMMA Captured ==
    ASSUME IInv, NEW r \in Calls, Capture(r)
    PROVE  IInv'
<1>0. /\ TypeOK /\ Sound /\ Fine(r, at[r], on[r]) /\ at[r] = "capturing" /\ on[r] \in Enrolments
      /\ enrolment' = [enrolment EXCEPT ![on[r]] = "CAPTURING"] /\ Go(r, "extracting", on[r])
      /\ UNCHANGED <<agent, paired, online, token, late, granted, consents, credential,
                     tenantKey, seen, overtaken, served>>
  BY DEF Capture, Step, registry, consenting, IInv, Fine, Place, Writing, Delivery
<1>1. on[r] \in Tokens => token[on[r]] = "dead"
  BY <1>0 DEF Fine, Entitled, Spending
<1>2. Place("extracting", on[r]) /\ Alone(r, "extracting", on[r])
  BY <1>0, Continues DEF Place, Starting, Spending, Writing, Delivery, Stages
<1>3. /\ at' \in [Calls -> Stages] /\ on' \in [Calls -> Agents \cup Subjects \cup {None}]
      /\ at'[r] = "extracting" /\ on'[r] = on[r]
      /\ \A q \in Calls \ {r} : at'[q] = at[q] /\ on'[q] = on[q]
      /\ \A q \in Calls : (Place(at[q], on[q]) /\ Alone(q, at[q], on[q]))'
  BY <1>0, <1>2, Moved DEF Stages
<1>4. TypeOK'
  BY <1>0, <1>3 DEF TypeOK, EnrolmentStatuses
<1>5. Sound'
  <2>1. \A e \in ByAgent : enrolment'[e] = "none" => token'[e] = "unissued"
    BY <1>0 DEF Sound, TypeOK, ByAgent
  <2>2. ClosedEnrolmentKillsToken'
    BY <1>0, <1>1 DEF Sound, TypeOK, ByAgent, ClosedEnrolmentKillsToken, Open
  <2> QED
    BY <1>0, <2>1, <2>2 DEF Sound, TokenServesOnce, NoConsentNoCredential, Active, Consented
<1>6. ASSUME NEW q \in Calls
      PROVE (Entitled(at[q], on[q]) /\ Warned(q, at[q], on[q]))'
  <2>1. Fine(q, at[q], on[q])
    BY DEF IInv
  <2>2. at[q] \in Starting /\ q # r => on[q] # on[r]
    BY <2>1 DEF IInv, Fine, Alone
  <2>3. \A e \in Enrolments : /\ enrolment'[e] = "COMPLETED" => enrolment[e] = "COMPLETED"
                              /\ e # on[r] => enrolment'[e] = enrolment[e]
    BY <1>0 DEF TypeOK
  <2>4. Entitled(at[q], on[q])'
    BY <1>0, <1>3, <2>1, <2>2, <2>3 DEF Fine, Place, Entitled, Starting, Spending
  <2>5. Warned(q, at[q], on[q])'
    BY <1>0, <1>3, <2>1, <2>3 DEF Fine, Place, Warned, Consented, Delivery, Writing
  <2> QED
    BY <2>4, <2>5
<1> QED
  BY <1>3, <1>4, <1>5, <1>6 DEF IInv, Fine

\* The key of the tenant: nothing else depends on it.
LEMMA KeyCreated ==
    ASSUME IInv, NEW r \in Calls, CreateKey(r)
    PROVE  IInv'
<1>0. /\ TypeOK /\ Sound /\ Fine(r, at[r], on[r]) /\ at[r] = "keying"
      /\ tenantKey' = TRUE
      /\ UNCHANGED <<agent, paired, online, token, granted, consents, enrolment, credential, seen,
                     overtaken, served>>
  BY DEF CreateKey, registry, consenting, IInv
<1>1. PICK s \in {"storing", "failing", "idle"} :
        /\ Go(r, s, IF s = "idle" THEN None ELSE on[r])
        /\ late' = late \/ (s = "idle" /\ late' = late \ {r})
  BY DEF CreateKey, Step, Finish
<1> DEFINE x == IF s = "idle" THEN None ELSE on[r]
<1>2. Fine(r, s, x)
  <2>1. CASE s = "idle"
    BY <2>1, Abandon
  <2>2. CASE s # "idle"
    <3>1. Alone(r, s, on[r])
      BY <1>0, <2>2, Continues DEF Starting, Spending, Stages
    <3> QED
      BY <1>0, <2>2, <3>1 DEF Fine, Place, Entitled, Warned, Starting, Spending, Delivery, Writing
  <2> QED
    BY <2>1, <2>2
<1>3. x \in Agents \cup Subjects \cup {None} /\ s \in Stages
  BY <1>0 DEF TypeOK, Stages
<1>4. /\ at' \in [Calls -> Stages] /\ on' \in [Calls -> Agents \cup Subjects \cup {None}]
      /\ at'[r] = s /\ on'[r] = x
      /\ \A q \in Calls \ {r} : at'[q] = at[q] /\ on'[q] = on[q]
      /\ \A q \in Calls : (Place(at[q], on[q]) /\ Alone(q, at[q], on[q]))'
  BY <1>1, <1>2, <1>3, Moved DEF Fine
<1>5. TypeOK'
  BY <1>0, <1>1, <1>4 DEF TypeOK
<1>6. Sound'
  BY <1>0 DEF Sound, TokenServesOnce, ClosedEnrolmentKillsToken, Open, NoConsentNoCredential,
              Active, Consented
<1>7. ASSUME NEW q \in Calls
      PROVE (Entitled(at[q], on[q]) /\ Warned(q, at[q], on[q]))'
  <2>1. Fine(q, at'[q], on'[q])
    BY <1>2, <1>4 DEF IInv
  <2>2. Entitled(at[q], on[q])'
    BY <1>0, <2>1 DEF Fine, Entitled
  <2>3. Warned(q, at[q], on[q])'
    BY <1>0, <1>1, <1>4, <2>1 DEF Fine, Warned, Consented, Delivery, Writing
  <2> QED
    BY <2>2, <2>3
<1> QED
  BY <1>4, <1>5, <1>6, <1>7 DEF IInv, Fine

\* The credential and COMPLETED, under a token that serves no other call.
LEMMA Stored ==
    ASSUME IInv, NEW r \in Calls, Store(r)
    PROVE  IInv'
<1>0. /\ TypeOK /\ Sound /\ Fine(r, at[r], on[r]) /\ at[r] = "storing" /\ on[r] \in Enrolments
      /\ credential' = [credential EXCEPT ![on[r]] = "ACTIVE"]
      /\ enrolment' = [enrolment EXCEPT ![on[r]] = "COMPLETED"]
      /\ Go(r, "idle", None)
      /\ late' = (late \ {r}) \cup {q \in Calls \ {r} : on[q] = on[r]}
      /\ UNCHANGED <<agent, paired, online, token, granted, consents, tenantKey, seen, overtaken>>
      /\ served' = IF on[r] \in Tokens THEN [served EXCEPT ![on[r]] = @ + 1] ELSE served
  BY DEF Store, Serve, registry, consenting, IInv, Fine, Place, Writing, Delivery
<1>1. /\ on[r] \in Tokens => token[on[r]] = "dead" /\ served[on[r]] = 0
      /\ Consented(MemberOf[on[r]]) \/ on[r] \in overtaken
  BY <1>0 DEF Fine, Entitled, Warned, Spending, Delivery
<1>2. TypeOK'
  <2>1. served' \in [Tokens -> Nat]
    BY <1>0 DEF TypeOK
  <2>2. late' \subseteq Calls
    BY <1>0 DEF TypeOK
  <2>3. /\ credential' \in [Enrolments -> {"none", "ACTIVE", "REVOKED"}]
        /\ enrolment' \in [Enrolments -> EnrolmentStatuses]
    BY <1>0 DEF TypeOK, EnrolmentStatuses
  <2> QED
    BY <1>0, <2>1, <2>2, <2>3, Leaves DEF TypeOK
<1>3. Sound'
  <2>1. \A t \in Tokens : /\ served'[t] <= 1
                          /\ token'[t] # "dead" => served'[t] = 0
    BY <1>0, <1>1 DEF Sound, TypeOK, TokenServesOnce
  <2>2. \A e \in ByAgent : enrolment'[e] = "none" => token'[e] = "unissued"
    BY <1>0 DEF Sound, TypeOK, ByAgent
  <2>3. ClosedEnrolmentKillsToken'
    BY <1>0, <1>1 DEF Sound, TypeOK, ByAgent, ClosedEnrolmentKillsToken, Open
  <2>4. NoConsentNoCredential'
    BY <1>0, <1>1 DEF Sound, TypeOK, NoConsentNoCredential, Active, Consented
  <2> QED
    BY <2>1, <2>2, <2>3, <2>4 DEF Sound, TokenServesOnce
<1>4. ASSUME NEW q \in Calls \ {r}
      PROVE (Entitled(at[q], on[q]) /\ Warned(q, at[q], on[q]))'
  <2>1. /\ at'[q] = at[q] /\ on'[q] = on[q] /\ Place(at[q], on[q])
        /\ Entitled(at[q], on[q]) /\ Warned(q, at[q], on[q])
    BY <1>0, Leaves
  <2>2. at[q] \in Starting \/ (at[q] \in Spending /\ on[q] \in Tokens) => on[q] # on[r]
    <3>1. Alone(q, at[q], on[q])
      BY DEF IInv, Fine
    <3> QED
      BY <1>0, <3>1 DEF Alone, Spending
  <2>3. /\ \A e \in Enrolments : e # on[r] => enrolment'[e] = enrolment[e]
        /\ \A t \in Tokens : t # on[r] => served'[t] = served[t]
    BY <1>0 DEF TypeOK
  <2>4. Entitled(at[q], on[q])'
    BY <1>0, <2>1, <2>2, <2>3 DEF Place, Entitled
  <2>5. Warned(q, at[q], on[q])'
    BY <1>0, <2>1, <2>3 DEF Place, Warned, Consented
  <2> QED
    BY <2>4, <2>5
<1> QED
  BY <1>0, <1>2, <1>3, <1>4, Ends

LEMMA Resolved ==
    ASSUME IInv, NEW r \in Calls, ResolveProbe(r)
    PROVE  IInv'
<1>0. /\ TypeOK /\ Sound /\ Fine(r, at[r], on[r]) /\ at[r] = "matching"
      /\ on[r] \in IdentifyTokens \cup {None}
      /\ Go(r, "idle", None) /\ late' = late \ {r}
      /\ UNCHANGED <<agent, paired, online, token, granted, consents, enrolment, credential,
                     tenantKey, seen, overtaken>>
      /\ served' = IF on[r] \in Tokens THEN [served EXCEPT ![on[r]] = @ + 1] ELSE served
  BY DEF ResolveProbe, Serve, Finish, registry, enrolling, consenting, IInv, Fine, Place
<1>1. on[r] \in Tokens => token[on[r]] = "dead" /\ served[on[r]] = 0
  BY <1>0 DEF Fine, Entitled, Spending
<1>2. TypeOK'
  <2>1. served' \in [Tokens -> Nat]
    BY <1>0 DEF TypeOK
  <2> QED
    BY <1>0, <2>1, Leaves DEF TypeOK
<1>3. Sound'
  <2>1. \A t \in Tokens : /\ served'[t] <= 1
                          /\ token'[t] # "dead" => served'[t] = 0
    BY <1>0, <1>1 DEF Sound, TypeOK, TokenServesOnce
  <2> QED
    BY <1>0, <2>1 DEF Sound, TokenServesOnce, ClosedEnrolmentKillsToken, Open,
                      NoConsentNoCredential, Active, Consented
<1>4. ASSUME NEW q \in Calls \ {r}
      PROVE (Entitled(at[q], on[q]) /\ Warned(q, at[q], on[q]))'
  <2>1. /\ at'[q] = at[q] /\ on'[q] = on[q] /\ Place(at[q], on[q])
        /\ Entitled(at[q], on[q]) /\ Warned(q, at[q], on[q])
    BY <1>0, Leaves
  <2>2. at[q] \in Spending /\ on[q] \in Tokens => on[q] # on[r]
    <3>1. Alone(q, at[q], on[q])
      BY DEF IInv, Fine
    <3> QED
      BY <1>0, <3>1 DEF Alone, Spending
  <2>3. \A t \in Tokens : t # on[r] => served'[t] = served[t]
    BY <1>0 DEF TypeOK
  <2>4. Entitled(at[q], on[q])'
    BY <1>0, <2>1, <2>2, <2>3 DEF Place, Entitled
  <2>5. Warned(q, at[q], on[q])'
    BY <1>0, <2>1 DEF Warned, Consented
  <2> QED
    BY <2>4, <2>5
<1> QED
  BY <1>0, <1>2, <1>3, <1>4, Ends

LEMMA NextIInv == IInv /\ [Next]_vars => IInv'
<1> SUFFICES ASSUME IInv, [Next]_vars PROVE IInv'
  OBVIOUS
<1>1. CASE UNCHANGED vars
  BY <1>1 DEF vars, registryVars, registry, enrolling, consenting, IInv, TypeOK, Sound,
      TokenServesOnce, ClosedEnrolmentKillsToken, NoConsentNoCredential, Open, Active, Consented,
      Fine, Alone, Entitled, Warned
<1>2. CASE RegistryStep
  BY <1>2, RegistryReads, RegistryWrites, RegistryTime DEF RegistryStep, RegistryNext
<1>3. ASSUME NEW e \in Enrolments, RevokeCredential(e) PROVE IInv'
  BY <1>3, CredentialRevoked
<1>4. ASSUME NEW r \in Calls, ConsentStep(r) PROVE IInv'
  BY <1>4, Reads, ConsentWrites DEF ConsentStep
<1>5. ASSUME NEW r \in Calls, EnrolmentStep(r) PROVE IInv'
  BY <1>5, Reads, Steps, TokenIssued, Closings DEF EnrolmentStep
<1>6. ASSUME NEW r \in Calls, DeliveryStep(r) PROVE IInv'
  BY <1>6, Steps, TokenConsumed, Closings, Captured, KeyCreated, Stored DEF DeliveryStep
<1>7. ASSUME NEW r \in Calls, IdentificationStep(r) PROVE IInv'
  BY <1>7, Reads, TokenIssued, Resolved DEF IdentificationStep
<1>8. ASSUME NEW r \in Calls, Abort(r) PROVE IInv'
  BY <1>8, Steps
<1> QED
  BY <1>1, <1>2, <1>3, <1>4, <1>5, <1>6, <1>7, <1>8 DEF Next

-----------------------------------------------------------------------------
(* The theorems.                                                           *)

\* The inductive invariant holds in every behaviour of the registry and of the
\* enrolments over it.
THEOREM Inductive == Spec => []IInv
BY InitIInv, NextIInv, PTL DEF Spec

\* Agents, tokens, calls, consents, enrolments and credentials keep their types.
THEOREM TypeCorrect == Spec => []TypeOK
<1>1. IInv => TypeOK
  BY DEF IInv
<1> QED
  BY <1>1, Inductive, PTL

\* However many calls present it, a device token serves one operation.
THEOREM TokenServesOnceHolds == Spec => []TokenServesOnce
<1>1. IInv => TokenServesOnce
  BY DEF IInv, Sound
<1> QED
  BY <1>1, Inductive, PTL

\* Withdrawn consent leaves no credential in force that was not being delivered.
THEOREM NoConsentNoCredentialHolds == Spec => []NoConsentNoCredential
<1>1. IInv => NoConsentNoCredential
  BY DEF IInv, Sound
<1> QED
  BY <1>1, Inductive, PTL

\* A closed enrolment has no live token.
THEOREM ClosedEnrolmentHolds == Spec => []ClosedEnrolmentKillsToken
<1>1. IInv => ClosedEnrolmentKillsToken
  BY DEF IInv, Sound
<1> QED
  BY <1>1, Inductive, PTL

\* The steps that write an agent's status, write an enrolment's, or take a call
\* from its authentication to what it came for.
LEMMA Writers ==
    ASSUME [Next]_vars
    PROVE  /\ agent' # agent => \E r \in Calls : Approve(r) \/ Revoke(r)
           /\ enrolment' # enrolment => \E r \in Calls :
                 OpenEnrolment(r) \/ Cancel(r) \/ Expire(r) \/ Capture(r) \/ Store(r) \/ Fail(r)
<1>1. CASE UNCHANGED vars
  BY <1>1 DEF vars, registryVars, registry, enrolling
<1>2. CASE RegistryStep
  <2>1. UNCHANGED enrolment
    BY <1>2 DEF RegistryStep, enrolling
  <2>2. agent' # agent => \E r \in Calls : Approve(r) \/ Revoke(r)
    BY <1>2 DEF RegistryStep, RegistryNext, registry, ReadForApproval, ReadForRevocation,
                ReadForPairing, Pair, Heartbeat, FallSilent, TokenExpires, Authenticate
  <2> QED
    BY <2>1, <2>2
<1>3. ASSUME NEW e \in Enrolments, RevokeCredential(e) PROVE UNCHANGED <<agent, enrolment>>
  BY <1>3 DEF RevokeCredential, registryVars, registry
<1>4. ASSUME NEW r \in Calls, ConsentStep(r) PROVE UNCHANGED <<agent, enrolment>>
  BY <1>4 DEF ConsentStep, ReadForGrant, ReadForWithdrawal, Grant, Withdraw, registry, enrolling
<1>5. ASSUME NEW r \in Calls, EnrolmentStep(r)
      PROVE UNCHANGED agent /\ (UNCHANGED enrolment \/ OpenEnrolment(r) \/ Cancel(r))
  BY <1>5 DEF EnrolmentStep, CheckConsent, ReadForCancel, CompleteHid, CheckFinger, CheckAgent,
              OpenEnrolment, Cancel, registry, enrolling
<1>6. ASSUME NEW r \in Calls, DeliveryStep(r)
      PROVE /\ UNCHANGED agent
            /\ UNCHANGED enrolment \/ Expire(r) \/ Capture(r) \/ Store(r) \/ Fail(r)
  BY <1>6 DEF DeliveryStep, ConsumeToken, ReadEnrolment, Expire, RecheckConsent, Capture, Extract,
              ReadKey, CreateKey, Store, StoreDuplicate, Fail, registry, enrolling
<1>7. ASSUME NEW r \in Calls, IdentificationStep(r) \/ Abort(r) PROVE UNCHANGED <<agent, enrolment>>
  BY <1>7 DEF IdentificationStep, FindAgent, IssueIdentify, IdentifyHid, ResolveProbe, Abort,
              registry, enrolling
<1> QED
  BY <1>1, <1>2, <1>3, <1>4, <1>5, <1>6, <1>7 DEF Next

LEMMA OverwritesAreLate ==
    ASSUME IInv, [Next]_vars
    PROVE  /\ \A a \in Agents :
                 agent[a] = "REVOKED" /\ agent'[a] # "REVOKED" => \E r \in late : on[r] = a
           /\ \A e \in Enrolments :
                 enrolment[e] = "COMPLETED" /\ enrolment'[e] # "COMPLETED"
                    => \E r \in late : on[r] = e
<1>0. TypeOK /\ \A r \in Calls : Fine(r, at[r], on[r])
  BY DEF IInv
<1>1. ASSUME NEW a \in Agents, agent[a] = "REVOKED", agent'[a] # "REVOKED"
      PROVE  \E r \in late : on[r] = a
  <2>1. PICK r \in Calls : Approve(r) \/ Revoke(r)
    BY <1>1, Writers
  <2>2. at[r] \in {"approving", "revoking"} /\ on[r] \in Agents
    BY <1>0, <2>1 DEF Approve, Revoke, Fine, Place
  <2>3. Approve(r) /\ on[r] = a
    BY <1>0, <1>1, <2>1, <2>2 DEF Approve, Revoke, TypeOK
  <2> QED
    BY <1>0, <1>1, <2>3 DEF Approve, Fine, Warned
<1>2. ASSUME NEW e \in Enrolments, enrolment[e] = "COMPLETED", enrolment'[e] # "COMPLETED"
      PROVE  \E r \in late : on[r] = e
  <2>1. PICK r \in Calls :
          OpenEnrolment(r) \/ Cancel(r) \/ Expire(r) \/ Capture(r) \/ Store(r) \/ Fail(r)
    BY <1>2, Writers
  <2>2. Fine(r, at[r], on[r]) /\ at[r] \in Writing \cup {"opening"} /\ on[r] \in Enrolments
    BY <1>0, <2>1 DEF OpenEnrolment, Cancel, Expire, Capture, Store, Fail, Fine, Place, Writing,
                      Delivery
  <2>3. on[r] = e
    BY <1>0, <1>2, <2>1, <2>2 DEF OpenEnrolment, Cancel, Expire, Capture, Store, Fail, TypeOK
  <2>4. at[r] # "opening"
    BY <1>2, <2>2, <2>3 DEF Fine, Entitled, Starting
  <2> QED
    BY <1>2, <2>2, <2>3, <2>4 DEF Fine, Warned
<1> QED
  BY <1>1, <1>2

\* A revocation and a completion are overwritten only by calls they overtook.
THEOREM OnlyOvertakenHolds == Spec => OnlyOvertakenCallsOverwrite
<1>1. IInv /\ [Next]_vars =>
        [/\ \A a \in Agents :
               agent[a] = "REVOKED" /\ agent'[a] # "REVOKED" => \E r \in late : on[r] = a
         /\ \A e \in Enrolments :
               enrolment[e] = "COMPLETED" /\ enrolment'[e] # "COMPLETED"
                 => \E r \in late : on[r] = e]_vars
  BY OverwritesAreLate
<1> QED
  BY <1>1, Inductive, PTL DEF Spec, OnlyOvertakenCallsOverwrite

LEMMA OnlyConsumptionAdmits ==
    ASSUME IInv, [Next]_vars, NEW r \in Calls, at[r] = "authenticated",
           at'[r] \in {"reading", "matching"}
    PROVE  ConsumeToken(r)
<1>0. at \in [Calls -> Stages]
  BY DEF IInv, TypeOK
<1>1. ASSUME NEW q \in Calls, NEW s, NEW x, Go(q, s, x) PROVE q = r /\ s \in {"reading", "matching"}
  BY <1>0, <1>1 DEF Go
<1>2. ~UNCHANGED vars
  BY DEF vars, registryVars
<1>3. ~RegistryStep
  <2>1. \A q \in Calls : ~Approve(q) /\ ~Revoke(q) /\ ~Pair(q)
    BY <1>1 DEF Approve, Revoke, Pair, Finish
  <2>2. \A q \in Calls, a \in Agents :
          ~ReadForApproval(q, a) /\ ~ReadForRevocation(q, a) /\ ~ReadForPairing(q, a)
    BY <1>1 DEF ReadForApproval, ReadForRevocation, ReadForPairing
  <2>3. \A q \in Calls, t \in Tokens : ~Authenticate(q, t)
    BY <1>1 DEF Authenticate
  <2>4. /\ \A a \in Agents : ~Heartbeat(a) /\ ~FallSilent(a)
        /\ \A t \in Tokens : ~TokenExpires(t)
    BY DEF Heartbeat, FallSilent, TokenExpires
  <2> QED
    BY <2>1, <2>2, <2>3, <2>4 DEF RegistryStep, RegistryNext
<1>4. \A e \in Enrolments : ~RevokeCredential(e)
  BY DEF RevokeCredential, registryVars
<1>5. ASSUME NEW q \in Calls PROVE ~ConsentStep(q)
  BY <1>1 DEF ConsentStep, ReadForGrant, ReadForWithdrawal, Grant, Withdraw, Finish
<1>6. ASSUME NEW q \in Calls PROVE ~EnrolmentStep(q)
  BY <1>1 DEF EnrolmentStep, CheckConsent, ReadForCancel, CompleteHid, CheckFinger, CheckAgent,
              OpenEnrolment, Cancel, Finish, Step
<1>7. ASSUME NEW q \in Calls, DeliveryStep(q) PROVE ConsumeToken(r)
  BY <1>1, <1>7 DEF DeliveryStep, ConsumeToken, ReadEnrolment, Expire, RecheckConsent, Capture,
      Extract, ReadKey, CreateKey, Store, StoreDuplicate, Fail, Finish, Step
<1>8. ASSUME NEW q \in Calls PROVE ~IdentificationStep(q) /\ ~Abort(q)
  BY <1>1 DEF IdentificationStep, FindAgent, IssueIdentify, IdentifyHid, ResolveProbe, Abort,
              Finish, Step
<1> QED
  BY <1>2, <1>3, <1>4, <1>5, <1>6, <1>7, <1>8 DEF Next

\* From the moment an agent is revoked, none of its tokens is consumed.
THEOREM RevokedAgentHolds == Spec => RevokedAgentConsumesNothing
<1>1. ASSUME IInv, [Next]_vars, NEW r \in Calls, at[r] = "authenticated",
             at'[r] \in {"reading", "matching"}
      PROVE  agent[AgentOf[on[r]]] # "REVOKED"
  <2>1. token[on[r]] = "live"
    BY <1>1, OnlyConsumptionAdmits DEF ConsumeToken, Consume
  <2> QED
    BY <1>1, <2>1 DEF IInv, Fine, Entitled
<1>2. IInv /\ [Next]_vars =>
        [\A r \in Calls :
           at[r] = "authenticated" /\ at'[r] \in {"reading", "matching"}
             => agent[AgentOf[on[r]]] # "REVOKED"]_vars
  BY <1>1
<1> QED
  BY <1>2, Inductive, PTL DEF Spec, RevokedAgentConsumesNothing
=============================================================================
