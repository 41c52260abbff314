------------------------------- MODULE Accounts -------------------------------
(***************************************************************************)
(* The users of a gym, their sessions and its owners (AuthService,         *)
(* UserService).  A session is a family of refresh tokens, of which each   *)
(* refresh issues the next; logout, a replayed token, a deactivation, a    *)
(* removal and a new password end families.  Login and refresh are a few   *)
(* queries each, in no transaction; what takes the last owner away locks   *)
(* the row of the OWNER role first.                                        *)
(*                                                                         *)
(* Left out: the count of failed logins and its lock, the expiry of tokens *)
(* (an expired one is refused and nothing changes), the roles but OWNER.   *)
(***************************************************************************)
EXTENDS Integers, FiniteSets, Sequences

CONSTANTS
    Users, Calls, Admins,
    Owners,         \* the users the gym begins with, all of them owners
    Clients,        \* bound: the users who log in and get new passwords
    MaxTokens,      \* bound: tokens issued
    MaxRequests,    \* bound: calls of the desk about roles and ends of users
    MaxResets,      \* bound: new passwords of each user
    None

ASSUME AccountsAssumption ==
    /\ Owners \subseteq Users /\ Owners # {} /\ Clients \subseteq Users
    /\ MaxTokens \in Nat /\ MaxResets \in Nat /\ MaxRequests \in Nat
    /\ None \notin Users

VARIABLES
    status,         \* of each user
    owners,         \* who has the OWNER role
    password,       \* how often each user's was reset
    tokens,         \* refresh tokens, by order of creation
    holders,        \* the calls that hold the row of the OWNER role
    at,             \* where each login or refresh is
    about,          \* what it has read: the user and password, or the token
    admin,          \* what each call of the desk is about to do, and to whom
    requests,       \* how many calls of the desk there have been
    ended,          \* history: families that were ended
    late,           \* history: calls whose session was ended after they read it
    overtaken,      \* history: families such a call then issued a token of
    forked          \* history: families with a token that was replaced twice, or
                    \* replaced and not revoked

desk == <<admin, requests>>
userVars == <<status, owners, password>>
callVars == <<at, about>>
history == <<ended, late, overtaken, forked>>
vars == <<userVars, tokens, holders, callVars, desk, history>>

NoCall == [user |-> None, password |-> 0, token |-> 0]
NoTask == [op |-> None, user |-> None, owner |-> FALSE]

Init ==
    /\ status = [u \in Users |-> IF u \in Owners THEN "ACTIVE" ELSE "absent"]
    /\ owners = Owners
    /\ password = [u \in Users |-> 0]
    /\ tokens = <<>>
    /\ holders = {}
    /\ at = [r \in Calls |-> "idle"]
    /\ about = [r \in Calls |-> NoCall]
    /\ admin = [a \in Admins |-> NoTask]
    /\ requests = 0
    /\ ended = {}
    /\ late = {}
    /\ overtaken = {}
    /\ forked = {}

Token == DOMAIN tokens
Families == {tokens[t].family : t \in Token}
Listed == {u \in Users : status[u] \in {"ACTIVE", "INACTIVE"}}

\* The family a call in flight belongs to; a login has none yet.
FamilyOf(r) == IF about[r].token = 0 THEN 0 ELSE tokens[about[r].token].family

\* updateMany where revokedAt is null
Revoke(T) == [t \in Token |->
    IF t \in T /\ tokens[t].state = "live" THEN [tokens[t] EXCEPT !.state = "revoked"] ELSE tokens[t]]

\* The sessions of tokens T end; calls R about them have read what they need.
End(T, R) ==
    /\ ended' = ended \cup {tokens[t].family : t \in T}
    /\ overtaken' = overtaken \ {tokens[t].family : t \in T}
    /\ late' = late \cup {r \in R : at[r] # "idle"}
    /\ UNCHANGED forked

TokensOf(u) == {t \in Token : tokens[t].user = u}

\* revokeFamily
EndFamily(f) ==
    LET T == {t \in Token : tokens[t].family = f} IN
    tokens' = Revoke(T) /\ End(T, {r \in Calls : FamilyOf(r) = f})

EndUser(u) == tokens' = Revoke(TokensOf(u)) /\ End(TokensOf(u), {r \in Calls : about[r].user = u})

-----------------------------------------------------------------------------
(* Sessions.                                                               *)

\* login reads the user, the password and the status; verifying takes a while.
ReadLogin(r, u) ==
    /\ at[r] = "idle"
    /\ status[u] = "ACTIVE"
    /\ at' = [at EXCEPT ![r] = "login"]
    /\ about' = [about EXCEPT ![r] = [user |-> u, password |-> password[u], token |-> 0]]
    /\ UNCHANGED <<userVars, tokens, holders, desk, history>>

\* refresh reads the token, which is live.
ReadRefresh(r, t) ==
    /\ at[r] = "idle"
    /\ tokens[t].state = "live"
    /\ at' = [at EXCEPT ![r] = "refresh"]
    /\ about' = [about EXCEPT ![r] = [user |-> tokens[t].user, password |-> tokens[t].password,
                                      token |-> t]]
    /\ UNCHANGED <<userVars, tokens, holders, desk, history>>

\* issueSession: the user is read again, whatever its status, and a token created.
Issue(r, family) ==
    /\ status[about[r].user] # "gone"
    /\ Len(tokens) < MaxTokens
    /\ tokens' = Append(tokens, [user |-> about[r].user, family |-> family,
                                 password |-> about[r].password, state |-> "live"])
    /\ overtaken' = IF r \in late THEN overtaken \cup {family} ELSE overtaken
    /\ UNCHANGED <<userVars, holders, desk, ended>>

\* The call is over.
Finish(r) ==
    /\ at' = [at EXCEPT ![r] = "idle"]
    /\ about' = [about EXCEPT ![r] = NoCall]
    /\ late' = late \ {r}

IssueLogin(r) ==
    /\ at[r] = "login"
    /\ Issue(r, Len(tokens) + 1)
    /\ Finish(r)
    /\ UNCHANGED forked

Replaced(t) ==
    tokens[t].state # "live" \/ \E r \in Calls : at[r] = "issued" /\ about[r].token = t

IssueReplacement(r) ==
    /\ at[r] = "refresh"
    /\ Issue(r, FamilyOf(r))
    /\ at' = [at EXCEPT ![r] = "issued"]
    /\ forked' = IF Replaced(about[r].token) THEN forked \cup {FamilyOf(r)} ELSE forked
    /\ UNCHANGED <<about, late>>

\* Mutant: the presented token is left as it was.
RotateNothing(r) ==
    /\ at[r] = "issued"
    /\ Finish(r)
    /\ UNCHANGED <<userVars, tokens, holders, desk, ended, overtaken, forked>>

\* The presented token, whatever has become of it, is rotated.
Rotate(r) ==
    /\ at[r] = "issued"
    /\ tokens[about[r].token].state # "gone"
    /\ tokens' = Revoke({about[r].token})
    /\ Finish(r)
    /\ UNCHANGED <<userVars, holders, desk, ended, overtaken, forked>>

\* The call ends early: a wrong password, a failed query, a restart.
Abandon(r) ==
    /\ at[r] # "idle"
    /\ Finish(r)
    /\ forked' = IF at[r] = "issued" THEN forked \cup {FamilyOf(r)} ELSE forked
    /\ UNCHANGED <<userVars, tokens, holders, desk, ended, overtaken>>

\* A token presented again once it is revoked ends its family (REUSE_DETECTED), as
\* logout does with any of its tokens.
Replay(t) ==
    /\ tokens[t].state = "revoked"
    /\ EndFamily(tokens[t].family)
    /\ UNCHANGED <<userVars, holders, callVars, desk>>

Logout(t) ==
    /\ tokens[t].state # "gone"
    /\ EndFamily(tokens[t].family)
    /\ UNCHANGED <<userVars, holders, callVars, desk>>

-----------------------------------------------------------------------------
(* Users.                                                                  *)

Create(u, owner) ==
    /\ status[u] = "absent"
    /\ status' = [status EXCEPT ![u] = "ACTIVE"]
    /\ owners' = IF owner THEN owners \cup {u} ELSE owners
    /\ UNCHANGED <<password, tokens, holders, callVars, desk, history>>

ResetPassword(u) ==
    /\ u \in Listed
    /\ password[u] < MaxResets
    /\ password' = [password EXCEPT ![u] = @ + 1]
    /\ EndUser(u)
    /\ UNCHANGED <<status, owners, holders, callVars, desk>>

\* What is asked about a user: to have or lose the role, to be deactivated, to go.
Operations == {"roles", "deactivate", "remove"}

\* The call finds the user, before its transaction.
Request(a, op, u, owner) ==
    /\ admin[a] = NoTask
    /\ u \in Listed
    /\ requests < MaxRequests
    /\ requests' = requests + 1
    /\ admin' = [admin EXCEPT ![a] = [op |-> op, user |-> u, owner |-> owner]]
    /\ UNCHANGED <<userVars, tokens, holders, callVars, history>>

\* Mutant: the row of the role is not locked.
Unlocked == TRUE

\* lockOwnerRole
Free == holders = {}

\* assertNotLastOwnerTx
OthersRemain(u) == u \in owners => \E v \in owners \ {u} : status[v] = "ACTIVE"

\* The role is locked, then the owners are counted.
Check(a) ==
    /\ admin[a] # NoTask /\ a \notin holders
    /\ Free
    /\ IF admin[a].owner \/ OthersRemain(admin[a].user)
       THEN holders' = holders \cup {a} /\ UNCHANGED admin
       ELSE admin' = [admin EXCEPT ![a] = NoTask] /\ UNCHANGED holders
    /\ UNCHANGED <<requests, userVars, tokens, callVars, history>>

\* The transaction of this operation ends, and with it the lock.
Commits(a, op) ==
    /\ a \in holders
    /\ admin[a].op = op
    /\ holders' = holders \ {a}
    /\ admin' = [admin EXCEPT ![a] = NoTask]
    /\ UNCHANGED requests

SetRoles(a) ==
    LET u == admin[a].user IN
    /\ Commits(a, "roles")
    /\ status[u] # "gone"
    /\ owners' = IF admin[a].owner THEN owners \cup {u} ELSE owners \ {u}
    /\ UNCHANGED <<status, password, tokens, callVars, history>>

\* Mutant: the sessions of a user who is deactivated go on.
DeactivateOnly(a) ==
    LET u == admin[a].user IN
    /\ Commits(a, "deactivate")
    /\ status[u] # "gone"
    /\ status' = [status EXCEPT ![u] = IF @ = "ACTIVE" THEN "INACTIVE" ELSE @]
    /\ UNCHANGED <<owners, password, tokens, callVars, history>>

Deactivate(a) ==
    LET u == admin[a].user IN
    /\ Commits(a, "deactivate")
    /\ status[u] # "gone"
    /\ status' = [status EXCEPT ![u] = IF @ = "ACTIVE" THEN "INACTIVE" ELSE @]
    /\ EndUser(u)
    /\ UNCHANGED <<owners, password, callVars>>

\* A user with a history is only marked as deleted ...
RemoveSoftly(a) ==
    LET u == admin[a].user IN
    /\ Commits(a, "remove")
    /\ status[u] # "gone"
    /\ status' = [status EXCEPT ![u] = "DELETED"]
    /\ EndUser(u)
    /\ UNCHANGED <<owners, password, callVars>>

\* ... and one without goes, tokens and roles and all.
Remove(a) ==
    LET u == admin[a].user IN
    /\ Commits(a, "remove")
    /\ status[u] # "gone"
    /\ status' = [status EXCEPT ![u] = "gone"]
    /\ owners' = owners \ {u}
    /\ tokens' = [t \in Token |-> IF t \in TokensOf(u) THEN [tokens[t] EXCEPT !.state = "gone"]
                                   ELSE tokens[t]]
    /\ End(TokensOf(u), {r \in Calls : about[r].user = u})
    /\ UNCHANGED <<password, callVars>>

\* The row has gone, or the transaction fails.
RollBack(a) ==
    /\ \E op \in Operations : Commits(a, op)
    /\ UNCHANGED <<userVars, tokens, callVars, history>>

-----------------------------------------------------------------------------
Next ==
    \/ \E r \in Calls :
          \/ \E u \in Clients : ReadLogin(r, u)
          \/ \E t \in Token : ReadRefresh(r, t)
          \/ IssueLogin(r) \/ IssueReplacement(r) \/ Rotate(r) \/ Abandon(r)
    \/ \E t \in Token : Replay(t) \/ Logout(t)
    \/ \E u \in Users, owner \in BOOLEAN : Create(u, owner)
    \/ \E u \in Clients : ResetPassword(u)
    \/ \E a \in Admins :
          \/ \E u \in Users :
                \/ \E owner \in BOOLEAN : Request(a, "roles", u, owner)
                \/ \E op \in Operations \ {"roles"} : Request(a, op, u, FALSE)
          \/ Check(a)
          \/ SetRoles(a) \/ Deactivate(a) \/ RemoveSoftly(a) \/ Remove(a) \/ RollBack(a)

Spec == Init /\ [][Next]_vars

-----------------------------------------------------------------------------
(* Properties.                                                             *)

TypeOK ==
    /\ status \in [Users -> {"absent", "ACTIVE", "INACTIVE", "DELETED", "gone"}]
    /\ owners \subseteq Users
    /\ password \in [Users -> 0..MaxResets]
    /\ tokens \in Seq([user : Users, family : Nat, password : 0..MaxResets,
                        state : {"live", "revoked", "gone"}])
    /\ holders \subseteq Admins
    /\ at \in [Calls -> {"idle", "login", "refresh", "issued"}]
    /\ about \in [Calls -> [user : Users \cup {None}, password : 0..MaxResets, token : Nat]]
    /\ requests \in 0..MaxRequests
    /\ admin \in [Admins -> [op : Operations \cup {None}, user : Users \cup {None}, owner : BOOLEAN]]
    /\ ended \subseteq Nat /\ overtaken \subseteq Nat /\ forked \subseteq Nat /\ late \subseteq Calls

\* The gym keeps an owner who can enter, whatever calls of the desk race to take
\* the role from its last owners, to deactivate or to remove them (lockOwnerRole
\* serialises the count and the write).
OwnerRemains == \E u \in owners : status[u] = "ACTIVE"

\* A live session is of an active user, by the present password, and was not
\* ended, except where a login or a refresh had read what it needs before the end
\* and issued its token after (issueSession reads the user but not the status).
LiveSessionsAreCurrent ==
    \A t \in Token : tokens[t].state = "live" =>
        \/ tokens[t].family \in overtaken
        \/ /\ status[tokens[t].user] = "ACTIVE"
           /\ tokens[t].password = password[tokens[t].user]
           /\ tokens[t].family \notin ended

\* A session has one live token, and the next while it is being rotated, unless one
\* token was presented twice at once or the rotation broke off (refresh issues the
\* replacement before it revokes the token presented, in no transaction).
RotationKeepsOneLive ==
    \A f \in Families \ forked :
        Cardinality({t \in Token : tokens[t].family = f /\ tokens[t].state = "live"})
            <= 1 + Cardinality({r \in Calls : at[r] = "issued" /\ FamilyOf(r) = f})
=============================================================================
