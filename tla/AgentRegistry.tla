---------------------------- MODULE AgentRegistry ----------------------------
(***************************************************************************)
(* The registry of local agents and the tokens of their operations         *)
(* (apps/api/src/modules/agents): approval, pairing and revocation from    *)
(* the CRM, the heartbeat, and the authentication of a device token.  A    *)
(* handler reads, decides and writes in database steps of its own, so each *)
(* call is a process: at[r] says what it does next, on[r] what about.  The *)
(* reader of an agent exists from its approval on; whether it is ONLINE    *)
(* comes with the heartbeat, and is left open where it is read.            *)
(***************************************************************************)
EXTENDS Naturals

CONSTANTS
    Agents,         \* local agents, created in the CRM
    Tokens,         \* device tokens that may be issued
    AgentOf,        \* the agent a token is issued to
    Subjects,       \* what else a call may be about
    Calls,          \* requests being served at the same time
    None            \* nothing

ASSUME RegistryAssumption ==
    /\ AgentOf \in [Tokens -> Agents]
    /\ None \notin Agents \cup Tokens \cup Subjects
    /\ Tokens \subseteq Subjects
    /\ Agents \cap Subjects = {}

VARIABLES
    agent,          \* local_agents.status
    paired,         \* agents whose agentCredentialHash is set
    online,         \* agents whose lastSeenAt is within the window
    token,          \* device_tokens
    at,             \* where each call is
    on,             \* the agent, token, member or enrolment it is about
    late            \* history: calls whose write what they read has overtaken

registry == <<agent, paired, online>>
registryVars == <<registry, token, at, on, late>>

\* Nothing writes DISABLED.
AgentStatuses == {"PENDING_APPROVAL", "ACTIVE", "REVOKED"}

\* "dead" if used or past its expiresAt, which no later step tells apart.
TokenStates == {"unissued", "live", "dead"}

-----------------------------------------------------------------------------
Go(r, to, x) ==
    /\ at' = [at EXCEPT ![r] = to]
    /\ on' = [on EXCEPT ![r] = x]

Step(r, to) == Go(r, to, on[r])

\* The call ends.
Finish(r) ==
    /\ Go(r, "idle", None)
    /\ late' = late \ {r}

RegistryInit ==
    /\ agent = [a \in Agents |-> "PENDING_APPROVAL"]
    /\ paired = {}
    /\ online = {}
    /\ token = [t \in Tokens |-> "unissued"]
    /\ at = [r \in Calls |-> "idle"]
    /\ on = [r \in Calls |-> None]
    /\ late = {}

\* Mutant: any agent that is not active can be approved.
ReadAnyForApproval(r, a) ==
    /\ at[r] = "idle"
    /\ agent[a] # "ACTIVE"
    /\ Go(r, "approving", a)
    /\ UNCHANGED <<registry, token, late>>

\* approve and revoke read the agent first ...
ReadForApproval(r, a) ==
    /\ at[r] = "idle"
    /\ agent[a] \notin {"REVOKED", "ACTIVE"}
    /\ Go(r, "approving", a)
    /\ UNCHANGED <<registry, token, late>>

ReadForRevocation(r, a) ==
    /\ at[r] = "idle"
    /\ agent[a] # "REVOKED"
    /\ Go(r, "revoking", a)
    /\ UNCHANGED <<registry, token, late>>

\* ... and update it by its id, whatever it has become.
Approve(r) ==
    /\ at[r] = "approving"
    /\ agent' = [agent EXCEPT ![on[r]] = "ACTIVE"]
    /\ Finish(r)
    /\ UNCHANGED <<paired, online, token>>

\* Mutant: the tokens in the hands of the agent survive.
BurnNothing(S) == token' = token

\* updateMany ... usedAt: null -> now.
Burn(S) == token' = [t \in Tokens |-> IF t \in S /\ token[t] = "live" THEN "dead" ELSE token[t]]

Revoke(r) ==
    /\ at[r] = "revoking"
    /\ agent' = [agent EXCEPT ![on[r]] = "REVOKED"]
    /\ Burn({t \in Tokens : AgentOf[t] = on[r]})
    /\ late' = late \cup {q \in Calls : at[q] = "approving" /\ on[q] = on[r]}
    /\ Go(r, "idle", None)
    /\ UNCHANGED <<paired, online>>

\* POST /agent/pair, with the secret shown once in the CRM.
ReadForPairing(r, a) ==
    /\ at[r] = "idle"
    /\ a \notin paired
    /\ agent[a] # "REVOKED"
    /\ Go(r, "pairing", a)
    /\ UNCHANGED <<registry, token, late>>

Pair(r) ==
    /\ at[r] = "pairing"
    /\ paired' = paired \cup {on[r]}
    /\ online' = online \cup {on[r]}
    /\ Finish(r)
    /\ UNCHANGED <<agent, token>>

\* The agent is seen; a revoked agent still calls.
Heartbeat(a) ==
    /\ a \in paired
    /\ online' = online \cup {a}
    /\ UNCHANGED <<agent, paired, token, at, on, late>>

\* The online window passes without a heartbeat.
FallSilent(a) ==
    /\ a \in online
    /\ online' = online \ {a}
    /\ UNCHANGED <<agent, paired, token, at, on, late>>

\* expiresAt of a token passes.
TokenExpires(t) ==
    /\ token[t] = "live"
    /\ token' = [token EXCEPT ![t] = "dead"]
    /\ UNCHANGED <<registry, at, on, late>>

\* authenticate, then requireActiveAgent: the token and the status of its agent
\* as they are now.
Authenticate(r, t) ==
    /\ at[r] = "idle"
    /\ token[t] = "live"
    /\ agent[AgentOf[t]] = "ACTIVE"
    /\ Go(r, "authenticated", t)
    /\ UNCHANGED <<registry, token, late>>

\* Mutant: the token is marked whatever its state.
ConsumeBlindly(r) == token' = [token EXCEPT ![on[r]] = "dead"]

\* consumeDeviceToken: a conditional update, which exactly one call wins.
Consume(r) ==
    /\ token[on[r]] = "live"
    /\ token' = [token EXCEPT ![on[r]] = "dead"]

RegistryNext ==
    \/ \E r \in Calls, a \in Agents :
           ReadForApproval(r, a) \/ ReadForRevocation(r, a) \/ ReadForPairing(r, a)
    \/ \E r \in Calls : Approve(r) \/ Revoke(r) \/ Pair(r)
    \/ \E a \in Agents : Heartbeat(a) \/ FallSilent(a)
    \/ \E t \in Tokens : TokenExpires(t)
    \/ \E r \in Calls, t \in Tokens : Authenticate(r, t)
=============================================================================
