---------------------------- MODULE AccountsProofs ----------------------------
(***************************************************************************)
(* Proofs about Accounts: an owner remains (from who holds the role's row  *)
(* and what was counted under it), live sessions are current (from what    *)
(* the calls in flight still rely on), and a session has one live token    *)
(* besides those that are being replaced.                                  *)
(***************************************************************************)
EXTENDS Accounts, FiniteSetTheorems, SequenceTheorems, TLAPS

USE AccountsAssumption

Row == [user : Users, family : Nat, password : 0..MaxResets, state : {"live", "revoked", "gone"}]

\* Who is asked about exists or existed, and only "roles" gives the role.
TasksOK ==
    \A a \in Admins : admin[a] # NoTask =>
        /\ admin[a].user \in Users
        /\ status[admin[a].user] # "absent"
        /\ admin[a].op # "roles" => ~admin[a].owner

\* One call at most has the row of the role, and what it counted still holds.
LockOK ==
    /\ \A a, b \in holders : a = b
    /\ \A a \in holders :
          admin[a] # NoTask /\ (admin[a].owner \/ OthersRemain(admin[a].user))

\* A family is named after its first token and belongs to one user.
FamiliesOK ==
    \A t \in Token :
        /\ tokens[t].family \in Token
        /\ tokens[tokens[t].family].user = tokens[t].user

Current(u, p, f) == status[u] = "ACTIVE" /\ p = password[u] /\ f \notin ended

\* What a call has read is true still, or the call is known to be late.
CallOK(r) ==
    /\ at[r] = "login" =>
          /\ about[r].user \in Users /\ about[r].token = 0
          /\ r \in late \/ (status[about[r].user] = "ACTIVE"
                              /\ about[r].password = password[about[r].user])
    /\ at[r] \in {"refresh", "issued"} =>
          /\ about[r].token \in Token
          /\ about[r].user = tokens[about[r].token].user
          /\ \/ r \in late
             \/ FamilyOf(r) \in overtaken
             \/ Current(about[r].user, about[r].password, FamilyOf(r))

CallsInOrder == \A r \in Calls : CallOK(r)

Sessions ==
    /\ FamiliesOK
    /\ CallsInOrder
    /\ ended \subseteq Token
    /\ LiveSessionsAreCurrent

\* The calls that have issued the next token and not yet revoked the one presented.
Issued == {r \in Calls : at[r] = "issued"}
BeingReplaced(t) == \E r \in Issued : about[r].token = t

\* The token of a session that is neither revoked nor being replaced.
Unreplaced(t) ==
    tokens[t].state = "live" /\ ~BeingReplaced(t) /\ tokens[t].family \notin forked

\* A session has one such token at most, and few calls are replacing another.
Rotation ==
    /\ IsFiniteSet(Issued)
    /\ \A t, u \in Token :
          Unreplaced(t) /\ Unreplaced(u) /\ tokens[t].family = tokens[u].family => t = u

IInv == TypeOK /\ TasksOK /\ LockOK /\ OwnerRemains /\ Sessions /\ Rotation

-----------------------------------------------------------------------------
(* Tokens.                                                                 *)

LEMMA TokenFacts ==
    ASSUME TypeOK
    PROVE  /\ tokens \in Seq(Row) /\ Len(tokens) \in Nat
           /\ Token = 1..Len(tokens)
           /\ \A t \in Token : tokens[t] \in Row
<1>1. tokens \in Seq(Row)
  BY DEF TypeOK, Row
<1> QED
  BY <1>1, LenProperties, ElementOfSeq DEF Token

\* The tokens T have another state, the rest is as it was.
Changed(T) ==
    /\ tokens' \in Seq(Row)
    /\ Token' = Token
    /\ \A t \in Token :
          /\ tokens'[t].user = tokens[t].user
          /\ tokens'[t].family = tokens[t].family
          /\ tokens'[t].password = tokens[t].password
          /\ t \in T => tokens'[t].state # "live"
          /\ t \notin T => tokens'[t] = tokens[t]

LEMMA RevokeChanges ==
    ASSUME TypeOK, NEW T, tokens' = Revoke(T)
    PROVE  Changed(T)
<1>1. tokens \in Seq(Row) /\ Token = 1..Len(tokens) /\ Len(tokens) \in Nat
      /\ \A t \in Token : tokens[t] \in Row
  BY TokenFacts
<1>2. tokens' \in [1..Len(tokens) -> Row] /\ DOMAIN tokens' = 1..Len(tokens)
  BY <1>1 DEF Revoke, Row
<1>3. tokens' \in Seq(Row)
  BY <1>1, <1>2, SeqDef
<1> QED
  BY <1>1, <1>2, <1>3 DEF Changed, Revoke, Row, Token

LEMMA RemoveChanges ==
    ASSUME TypeOK, NEW u \in Users,
           tokens' = [t \in Token |-> IF t \in TokensOf(u) THEN [tokens[t] EXCEPT !.state = "gone"]
                                       ELSE tokens[t]]
    PROVE  Changed(TokensOf(u))
<1>1. tokens \in Seq(Row) /\ Token = 1..Len(tokens) /\ Len(tokens) \in Nat
      /\ \A t \in Token : tokens[t] \in Row
  BY TokenFacts
<1>2. tokens' \in [1..Len(tokens) -> Row] /\ DOMAIN tokens' = 1..Len(tokens)
  BY <1>1 DEF Row
<1>3. tokens' \in Seq(Row)
  BY <1>1, <1>2, SeqDef
<1> QED
  BY <1>1, <1>2, <1>3 DEF Changed, Row, Token

-----------------------------------------------------------------------------
(* The initial state.                                                      *)

LEMMA InitIInv == Init => IInv
<1> SUFFICES ASSUME Init PROVE IInv
  OBVIOUS
<1>1. TypeOK
  BY DEF Init, TypeOK, NoCall, NoTask
<1>2. TasksOK /\ LockOK
  BY DEF Init, TasksOK, LockOK
<1>3. OwnerRemains
  BY DEF Init, OwnerRemains
<1>4. Sessions
  BY DEF Init, Sessions, CallsInOrder, FamiliesOK, CallOK, LiveSessionsAreCurrent, Token
<1>5. Rotation
  <2>1. Issued = {} /\ Token = {}
    BY DEF Init, Issued, Token
  <2> QED
    BY <2>1, FS_EmptySet DEF Rotation
<1> QED
  BY <1>1, <1>2, <1>3, <1>4, <1>5 DEF IInv

-----------------------------------------------------------------------------
(* Types.                                                                  *)

\* What ending sessions does to the history.
LEMMA EndType ==
    ASSUME TypeOK, NEW T \in SUBSET Token, NEW R \in SUBSET Calls, End(T, R)
    PROVE  ended' \subseteq Nat /\ overtaken' \subseteq Nat /\ forked' \subseteq Nat
           /\ late' \subseteq Calls
<1>1. \A t \in T : tokens[t].family \in Nat
  BY TokenFacts DEF Row
<1>2. {tokens[t].family : t \in T} \subseteq Nat
  BY <1>1
<1>3. late' \subseteq Calls
  BY DEF End, TypeOK
<1> QED
  BY <1>2, <1>3 DEF End, TypeOK

\* The rest of the state that a step about users leaves typed.
LEMMA TokensType ==
    ASSUME TypeOK, NEW T, Changed(T)
    PROVE  tokens' \in Seq([user : Users, family : Nat, password : 0..MaxResets,
                             state : {"live", "revoked", "gone"}])
BY DEF Changed, Row

LEMMA TokensOfUser ==
    ASSUME NEW u
    PROVE  TokensOf(u) \in SUBSET Token
BY DEF TokensOf

LEMMA SessionStepType ==
    ASSUME TypeOK, CallsInOrder, NEW r \in Calls
    PROVE  /\ (\E u \in Clients : ReadLogin(r, u)) => TypeOK'
           /\ (\E t \in Token : ReadRefresh(r, t)) => TypeOK'
           /\ IssueLogin(r) => TypeOK'
           /\ IssueReplacement(r) => TypeOK'
           /\ Rotate(r) => TypeOK'
           /\ Abandon(r) => TypeOK'
<1>1. \A t \in Token : tokens[t] \in Row
  BY TokenFacts
<1>2. at[r] # "idle" => FamilyOf(r) \in Nat /\ about[r].user \in Users
  <2>1. CallOK(r) /\ at[r] \in {"idle", "login", "refresh", "issued"}
    BY DEF CallsInOrder, TypeOK
  <2>2. about[r].token # 0 => about[r].token \in Token \/ at[r] = "idle"
    BY <2>1 DEF CallOK
  <2> QED
    BY <1>1, <2>1, <2>2 DEF CallOK, FamilyOf, Row
<1>3. ASSUME NEW u \in Clients, ReadLogin(r, u) PROVE TypeOK'
  BY <1>3 DEF ReadLogin, TypeOK, userVars, desk, history
<1>4. ASSUME NEW t \in Token, ReadRefresh(r, t) PROVE TypeOK'
  <2>1. [user |-> tokens[t].user, password |-> tokens[t].password, token |-> t]
           \in [user : Users \cup {None}, password : 0..MaxResets, token : Nat]
    BY <1>1, <1>4, TokenFacts DEF Row
  <2> QED
    BY <1>4, <2>1 DEF ReadRefresh, TypeOK, userVars, desk, history
<1>5. ASSUME NEW f \in Nat, Issue(r, f), at[r] # "idle"
      PROVE  /\ tokens' \in Seq([user : Users, family : Nat, password : 0..MaxResets,
                                  state : {"live", "revoked", "gone"}])
             /\ overtaken' \subseteq Nat
  <2>1. about[r] \in [user : Users \cup {None}, password : 0..MaxResets, token : Nat]
        /\ about[r].user \in Users
    BY <1>2, <1>5 DEF TypeOK
  <2> QED
    BY <1>5, <2>1 DEF Issue, TypeOK
<1>6. ASSUME Finish(r)
      PROVE  /\ at' \in [Calls -> {"idle", "login", "refresh", "issued"}]
             /\ about' \in [Calls -> [user : Users \cup {None}, password : 0..MaxResets,
                                      token : Nat]]
             /\ late' \subseteq Calls
  BY <1>6 DEF Finish, TypeOK, NoCall
<1>7. ASSUME IssueLogin(r) PROVE TypeOK'
  <2>1. Len(tokens) + 1 \in Nat
    BY TokenFacts
  <2> QED
    BY <1>5, <1>6, <1>7, <2>1 DEF IssueLogin, Issue, TypeOK, userVars, desk
<1>8. ASSUME IssueReplacement(r) PROVE TypeOK'
  BY <1>2, <1>5, <1>8 DEF IssueReplacement, Issue, TypeOK, userVars, desk
<1>9. ASSUME Rotate(r) PROVE TypeOK'
  <2>1. Changed({about[r].token})
    BY <1>9, RevokeChanges DEF Rotate
  <2> QED
    BY <1>6, <1>9, <2>1, TokensType DEF Rotate, TypeOK, userVars, desk
<1>10. ASSUME Abandon(r) PROVE TypeOK'
  BY <1>2, <1>6, <1>10 DEF Abandon, TypeOK, userVars, desk
<1> QED
  BY <1>3, <1>4, <1>7, <1>8, <1>9, <1>10

LEMMA UserStepType ==
    ASSUME TypeOK
    PROVE  /\ (\E t \in Token : Replay(t) \/ Logout(t)) => TypeOK'
           /\ (\E u \in Users, owner \in BOOLEAN : Create(u, owner)) => TypeOK'
           /\ (\E u \in Clients : ResetPassword(u)) => TypeOK'
<1>1. ASSUME NEW f, EndFamily(f), UNCHANGED <<userVars, holders, callVars, desk>>
      PROVE  TypeOK'
  <2> DEFINE T == {t \in Token : tokens[t].family = f}
  <2>1. Changed(T)
    BY <1>1, RevokeChanges DEF EndFamily
  <2>2. ended' \subseteq Nat /\ overtaken' \subseteq Nat /\ forked' \subseteq Nat
        /\ late' \subseteq Calls
    BY <1>1, EndType DEF EndFamily
  <2> QED
    BY <1>1, <2>1, <2>2, TokensType DEF TypeOK, userVars, callVars, desk
<1>2. ASSUME NEW u \in Users, NEW owner \in BOOLEAN, Create(u, owner) PROVE TypeOK'
  BY <1>2 DEF Create, TypeOK, callVars, desk, history
<1>3. ASSUME NEW u \in Clients, ResetPassword(u) PROVE TypeOK'
  <2>1. Changed(TokensOf(u))
    BY <1>3, RevokeChanges DEF ResetPassword, EndUser
  <2>2. ended' \subseteq Nat /\ overtaken' \subseteq Nat /\ forked' \subseteq Nat
        /\ late' \subseteq Calls
    BY <1>3, EndType, TokensOfUser DEF ResetPassword, EndUser
  <2>3. password' \in [Users -> 0..MaxResets]
    BY <1>3 DEF ResetPassword, TypeOK
  <2> QED
    BY <1>3, <2>1, <2>2, <2>3, TokensType DEF ResetPassword, TypeOK, callVars, desk
<1> QED
  BY <1>1, <1>2, <1>3 DEF Replay, Logout

LEMMA DeskStepType ==
    ASSUME TypeOK, TasksOK, LockOK, NEW a \in Admins
    PROVE  /\ (\E op \in Operations, u \in Users, owner \in BOOLEAN : Request(a, op, u, owner))
                  => TypeOK'
           /\ Check(a) => TypeOK'
           /\ SetRoles(a) => TypeOK'
           /\ Deactivate(a) => TypeOK'
           /\ RemoveSoftly(a) => TypeOK'
           /\ Remove(a) => TypeOK'
           /\ RollBack(a) => TypeOK'
<1>1. ASSUME NEW op \in Operations, NEW u \in Users, NEW owner \in BOOLEAN,
             Request(a, op, u, owner)
      PROVE  TypeOK'
  BY <1>1 DEF Request, TypeOK, userVars, callVars, history
<1>2. ASSUME Check(a) PROVE TypeOK'
  <2>1. \/ holders' = holders \cup {a} /\ UNCHANGED admin
        \/ admin' = [admin EXCEPT ![a] = NoTask] /\ UNCHANGED holders
    BY <1>2, Zenon DEF Check
  <2>2. UNCHANGED <<requests, userVars, tokens, callVars, history>>
    BY <1>2 DEF Check
  <2>3. holders' \subseteq Admins
    BY <2>1 DEF TypeOK
  <2>4. admin' \in [Admins -> [op : Operations \cup {None}, user : Users \cup {None},
                                owner : BOOLEAN]]
    <3>1. NoTask \in [op : Operations \cup {None}, user : Users \cup {None}, owner : BOOLEAN]
      BY DEF NoTask
    <3> QED
      BY <2>1, <3>1 DEF TypeOK
  <2> QED
    BY <2>2, <2>3, <2>4 DEF TypeOK, userVars, callVars, history
<1>3. ASSUME NEW op \in Operations, Commits(a, op)
      PROVE  /\ holders' \subseteq Admins
             /\ admin' \in [Admins -> [op : Operations \cup {None}, user : Users \cup {None},
                                       owner : BOOLEAN]]
             /\ requests' \in 0..MaxRequests
  BY <1>3 DEF Commits, TypeOK, NoTask
<1>4. \A op \in Operations : Commits(a, op) => admin[a].user \in Users
  BY DEF Commits, TasksOK, LockOK, TypeOK
<1>5. ASSUME SetRoles(a) PROVE TypeOK'
  BY <1>3, <1>4, <1>5 DEF SetRoles, TypeOK, callVars, history, Operations
<1>6. ASSUME NEW u \in Users, EndUser(u)
      PROVE  /\ tokens' \in Seq([user : Users, family : Nat, password : 0..MaxResets,
                                  state : {"live", "revoked", "gone"}])
             /\ ended' \subseteq Nat /\ overtaken' \subseteq Nat /\ forked' \subseteq Nat
             /\ late' \subseteq Calls
  BY <1>6, RevokeChanges, TokensType, EndType, TokensOfUser DEF EndUser
<1>7. ASSUME Deactivate(a) PROVE TypeOK'
  BY <1>3, <1>4, <1>6, <1>7 DEF Deactivate, TypeOK, callVars, Operations
<1>8. ASSUME RemoveSoftly(a) PROVE TypeOK'
  BY <1>3, <1>4, <1>6, <1>8 DEF RemoveSoftly, TypeOK, callVars, Operations
<1>9. ASSUME Remove(a) PROVE TypeOK'
  <2> DEFINE u == admin[a].user
  <2>1. u \in Users
    BY <1>4, <1>9 DEF Remove, Operations
  <2>2. Changed(TokensOf(u))
    BY <1>9, <2>1, RemoveChanges DEF Remove
  <2>3. ended' \subseteq Nat /\ overtaken' \subseteq Nat /\ forked' \subseteq Nat
        /\ late' \subseteq Calls
    BY <1>9, EndType, TokensOfUser DEF Remove
  <2> QED
    BY <1>3, <1>9, <2>1, <2>2, <2>3, TokensType DEF Remove, TypeOK, callVars, Operations
<1>10. ASSUME RollBack(a) PROVE TypeOK'
  BY <1>3, <1>10 DEF RollBack, TypeOK, userVars, callVars, history
<1> QED
  BY <1>1, <1>2, <1>5, <1>7, <1>8, <1>9, <1>10

-----------------------------------------------------------------------------
(* An owner remains.                                                       *)

\* Steps that leave users, roles and tasks alone keep what is said of them.
LEMMA OwnersUnchanged ==
    ASSUME TasksOK, LockOK, OwnerRemains, UNCHANGED <<status, owners, holders, admin>>
    PROVE  TasksOK' /\ LockOK' /\ OwnerRemains'
BY DEF TasksOK, LockOK, OwnerRemains, OthersRemain, NoTask

\* The holder of the role's row ends its transaction; nobody else held it.
LEMMA CommitKeepsLock ==
    ASSUME TypeOK, TasksOK, LockOK, NEW a \in Admins, NEW op \in Operations, Commits(a, op),
           \A v \in Users : status'[v] = "absent" => status[v] = "absent"
    PROVE  /\ TasksOK' /\ LockOK'
           /\ admin[a].user \in Users
           /\ admin[a].owner \/ OthersRemain(admin[a].user)
           /\ op # "roles" => ~admin[a].owner
<1>1. a \in holders /\ admin[a] # NoTask /\ holders' = {}
  BY DEF Commits, LockOK
<1>2. admin' = [admin EXCEPT ![a] = NoTask] /\ DOMAIN admin = Admins
  BY DEF Commits, TypeOK
<1>3. TasksOK'
  <2> SUFFICES ASSUME NEW b \in Admins, admin'[b] # NoTask
               PROVE  /\ admin'[b].user \in Users
                      /\ status'[admin'[b].user] # "absent"
                      /\ admin'[b].op # "roles" => ~admin'[b].owner
    BY DEF TasksOK, NoTask
  <2>1. b # a /\ admin'[b] = admin[b]
    BY <1>2
  <2> QED
    BY <2>1 DEF TasksOK
<1> QED
  BY <1>1, <1>3 DEF LockOK, TasksOK, Commits

\* Who takes the role or the status from one user leaves another owner.
LEMMA OtherOwnerStays ==
    ASSUME TypeOK, OwnerRemains, NEW u \in Users, OthersRemain(u),
           owners \ {u} \subseteq owners',
           \A v \in Users \ {u} : status'[v] = status[v]
    PROVE  OwnerRemains'
<1>1. PICK v \in owners \ {u} : status[v] = "ACTIVE"
  BY DEF OwnerRemains, OthersRemain
<1> QED
  BY <1>1 DEF OwnerRemains, TypeOK

LEMMA OwnerStep ==
    ASSUME TypeOK, TasksOK, LockOK, OwnerRemains, [Next]_vars
    PROVE  TasksOK' /\ LockOK' /\ OwnerRemains'
<1>1. CASE UNCHANGED vars
  BY <1>1, OwnersUnchanged DEF vars, userVars, desk
<1>2. ASSUME NEW r \in Calls,
             \/ \E u \in Clients : ReadLogin(r, u)
             \/ \E t \in Token : ReadRefresh(r, t)
             \/ IssueLogin(r) \/ IssueReplacement(r) \/ Rotate(r) \/ Abandon(r)
      PROVE  TasksOK' /\ LockOK' /\ OwnerRemains'
  <2>1. UNCHANGED <<status, owners, holders, admin>>
    BY <1>2 DEF ReadLogin, ReadRefresh, IssueLogin, IssueReplacement, Issue, Rotate, Abandon,
                userVars, desk
  <2> QED
    BY <2>1, OwnersUnchanged
<1>3. ASSUME NEW t \in Token, Replay(t) \/ Logout(t)
      PROVE  TasksOK' /\ LockOK' /\ OwnerRemains'
  BY <1>3, OwnersUnchanged DEF Replay, Logout, userVars, desk
<1>4. ASSUME NEW u \in Users, NEW owner \in BOOLEAN, Create(u, owner)
      PROVE  TasksOK' /\ LockOK' /\ OwnerRemains'
  <2>1. status[u] = "absent" /\ status' = [status EXCEPT ![u] = "ACTIVE"]
        /\ UNCHANGED <<holders, admin>>
    BY <1>4 DEF Create, desk
  <2>2. owners \subseteq owners' /\ owners' \subseteq owners \cup {u}
    BY <1>4 DEF Create
  <2>3. \A v \in Users : v # u => status'[v] = status[v]
    BY <2>1 DEF TypeOK
  <2>4. OwnerRemains'
    BY <2>1, <2>2, <2>3 DEF OwnerRemains, TypeOK
  <2>5. \A a \in Admins : admin[a] # NoTask => admin[a].user # u
    BY <2>1 DEF TasksOK
  <2>6. TasksOK'
    BY <2>1, <2>3, <2>5 DEF TasksOK, NoTask
  <2>7. ASSUME NEW v \in Users, v # u, OthersRemain(v) PROVE OthersRemain(v)'
    BY <2>1, <2>2, <2>3, <2>7 DEF OthersRemain, TypeOK
  <2>8. LockOK'
    BY <2>1, <2>5, <2>7 DEF LockOK, TasksOK, TypeOK, NoTask
  <2> QED
    BY <2>4, <2>6, <2>8
<1>5. ASSUME NEW u \in Clients, ResetPassword(u)
      PROVE  TasksOK' /\ LockOK' /\ OwnerRemains'
  BY <1>5, OwnersUnchanged DEF ResetPassword, desk
<1>6. ASSUME NEW a \in Admins
      PROVE  /\ (\E op \in Operations, u \in Users, owner \in BOOLEAN :
                    (op # "roles" => ~owner) /\ Request(a, op, u, owner))
                 => TasksOK' /\ LockOK' /\ OwnerRemains'
             /\ Check(a) => TasksOK' /\ LockOK' /\ OwnerRemains'
  <2>1. ASSUME NEW op \in Operations, NEW u \in Users, NEW owner \in BOOLEAN,
               op # "roles" => ~owner, Request(a, op, u, owner)
        PROVE  TasksOK' /\ LockOK' /\ OwnerRemains'
    <3>1. /\ admin[a] = NoTask /\ status[u] # "absent"
          /\ admin' = [admin EXCEPT ![a] = [op |-> op, user |-> u, owner |-> owner]]
          /\ UNCHANGED <<status, owners, holders>>
      BY <2>1 DEF Request, Listed, userVars
    <3>2. a \notin holders
      BY <3>1 DEF LockOK
    <3>3. \A b \in Admins : b # a => admin'[b] = admin[b]
      BY <3>1 DEF TypeOK
    <3>4. admin'[a] = [op |-> op, user |-> u, owner |-> owner]
      BY <3>1 DEF TypeOK
    <3>5. TasksOK'
      BY <2>1, <3>1, <3>3, <3>4 DEF TasksOK, NoTask
    <3>6. LockOK'
      <4>1. \A b \in holders : admin'[b] = admin[b]
        BY <3>2, <3>3 DEF TypeOK
      <4>2. NoTask' = NoTask /\ \A b \in holders : OthersRemain(admin[b].user)' = OthersRemain(admin[b].user)
        BY <3>1, <4>1 DEF OthersRemain, NoTask
      <4> QED
        BY <3>1, <4>1, <4>2 DEF LockOK
    <3> QED
      BY <3>1, <3>5, <3>6 DEF OwnerRemains
  <2>2. ASSUME Check(a) PROVE TasksOK' /\ LockOK' /\ OwnerRemains'
    <3>1. /\ admin[a] # NoTask /\ holders = {}
          /\ UNCHANGED <<status, owners>>
      BY <2>2 DEF Check, Free, userVars
    <3>2. \/ /\ admin[a].owner \/ OthersRemain(admin[a].user)
             /\ holders' = holders \cup {a} /\ UNCHANGED admin
          \/ admin' = [admin EXCEPT ![a] = NoTask] /\ UNCHANGED holders
      BY <2>2, Zenon DEF Check
    <3>3. CASE /\ admin[a].owner \/ OthersRemain(admin[a].user)
               /\ holders' = holders \cup {a} /\ UNCHANGED admin
      BY <3>1, <3>3 DEF TasksOK, LockOK, OwnerRemains, OthersRemain, NoTask
    <3>4. CASE admin' = [admin EXCEPT ![a] = NoTask] /\ UNCHANGED holders
      <4>1. \A b \in Admins : admin'[b] # NoTask => admin'[b] = admin[b]
        BY <3>4 DEF TypeOK
      <4> QED
        BY <3>1, <3>4, <4>1 DEF TasksOK, LockOK, OwnerRemains, NoTask
    <3> QED
      BY <3>2, <3>3, <3>4
  <2> QED
    BY <2>1, <2>2
<1>7. ASSUME NEW a \in Admins, SetRoles(a)
      PROVE  TasksOK' /\ LockOK' /\ OwnerRemains'
  <2> DEFINE u == admin[a].user
  <2>1. Commits(a, "roles") /\ UNCHANGED status
        /\ owners' = IF admin[a].owner THEN owners \cup {u} ELSE owners \ {u}
    BY <1>7 DEF SetRoles
  <2>2. TasksOK' /\ LockOK' /\ u \in Users /\ (admin[a].owner \/ OthersRemain(u))
    BY <2>1, CommitKeepsLock DEF Operations
  <2>3. CASE admin[a].owner
    BY <2>1, <2>2, <2>3 DEF OwnerRemains
  <2>4. CASE ~admin[a].owner
    BY <2>1, <2>2, <2>4, OtherOwnerStays
  <2> QED
    BY <2>2, <2>3, <2>4
<1>8. ASSUME NEW a \in Admins, Deactivate(a) \/ RemoveSoftly(a) \/ Remove(a)
      PROVE  TasksOK' /\ LockOK' /\ OwnerRemains'
  <2> DEFINE u == admin[a].user
  <2>1. PICK op \in {"deactivate", "remove"} : Commits(a, op)
    BY <1>8 DEF Deactivate, RemoveSoftly, Remove
  <2>2. owners \ {u} \subseteq owners'
    BY <1>8 DEF Deactivate, RemoveSoftly, Remove
  <2>3. \/ status' = [status EXCEPT ![u] = IF @ = "ACTIVE" THEN "INACTIVE" ELSE @]
        \/ status' = [status EXCEPT ![u] = "DELETED"]
        \/ status' = [status EXCEPT ![u] = "gone"]
    BY <1>8 DEF Deactivate, RemoveSoftly, Remove
  <2>4. \A v \in Users : status'[v] = "absent" => status[v] = "absent"
    BY <2>3 DEF TypeOK
  <2>5. \A v \in Users \ {u} : status'[v] = status[v]
    BY <2>3 DEF TypeOK
  <2>6. TasksOK' /\ LockOK' /\ u \in Users /\ OthersRemain(u)
    BY <2>1, <2>4, CommitKeepsLock DEF Operations
  <2> QED
    BY <2>2, <2>5, <2>6, OtherOwnerStays
<1>9. ASSUME NEW a \in Admins, RollBack(a)
      PROVE  TasksOK' /\ LockOK' /\ OwnerRemains'
  <2>1. PICK op \in Operations : Commits(a, op)
    BY <1>9 DEF RollBack
  <2>2. UNCHANGED <<status, owners>>
    BY <1>9 DEF RollBack, userVars
  <2> QED
    BY <2>1, <2>2, CommitKeepsLock DEF OwnerRemains
<1> QED
  BY <1>1, <1>2, <1>3, <1>4, <1>5, <1>6, <1>7, <1>8, <1>9 DEF Next, Operations

-----------------------------------------------------------------------------
(* Live sessions are current.                                              *)

\* Tokens stay as they are or cease to be live, users stay active, and calls keep
\* what they read, unless they are over.
LEMMA SessionsGoOn ==
    ASSUME TypeOK, Sessions,
           NEW T, Changed(T),
           UNCHANGED <<password, ended>>,
           \A v \in Users : status[v] = "ACTIVE" => status'[v] = "ACTIVE",
           overtaken' = overtaken,
           \A q \in Calls : \/ at'[q] = "idle"
                            \/ /\ about'[q] = about[q]
                               /\ q \in late => q \in late'
                               /\ at'[q] = at[q]
    PROVE  Sessions'
<1>1. \A t \in Token : tokens[t] \in Row /\ tokens[t].family \in Token
  BY TokenFacts DEF Sessions, FamiliesOK
<1>2. FamiliesOK'
  BY <1>1 DEF Changed, Sessions, FamiliesOK
<1>3. LiveSessionsAreCurrent'
  <2> SUFFICES ASSUME NEW t \in Token, tokens'[t].state = "live"
               PROVE  \/ tokens'[t].family \in overtaken'
                      \/ /\ status'[tokens'[t].user] = "ACTIVE"
                         /\ tokens'[t].password = password'[tokens'[t].user]
                         /\ tokens'[t].family \notin ended'
    BY DEF LiveSessionsAreCurrent, Changed
  <2>1. tokens'[t] = tokens[t]
    BY DEF Changed
  <2> QED
    BY <1>1, <2>1 DEF Sessions, LiveSessionsAreCurrent, Row
<1>4. CallsInOrder'
  <2> SUFFICES ASSUME NEW q \in Calls PROVE CallOK(q)'
    BY DEF CallsInOrder
  <2>1. CallOK(q)
    BY DEF Sessions, CallsInOrder
  <2>2. CASE at'[q] = "idle"
    BY <2>2 DEF CallOK
  <2>3. CASE at'[q] = at[q] /\ about'[q] = about[q] /\ (q \in late => q \in late')
    <3>1. CASE at[q] = "login"
      BY <2>1, <2>3, <3>1 DEF CallOK
    <3>2. CASE at[q] \in {"refresh", "issued"}
      <4>1. about[q].token \in Token /\ about[q].user = tokens[about[q].token].user
            /\ about[q].token # 0
        BY <2>1, <3>2, TokenFacts DEF CallOK
      <4>2. FamilyOf(q)' = FamilyOf(q) /\ about[q].token \in Token'
            /\ about[q].user = tokens'[about[q].token].user /\ about[q].user \in Users
        <5>1. PICK t : t = about[q].token
          OBVIOUS
        <5>2. /\ t \in Token /\ t # 0 /\ t \in Token'
              /\ tokens'[t].user = tokens[t].user /\ tokens'[t].family = tokens[t].family
              /\ tokens[t].user \in Users
          BY <1>1, <4>1, <5>1 DEF Changed, Row
        <5>3. about'[q] = about[q]
          BY <2>3
        <5> QED
          BY <4>1, <5>1, <5>2, <5>3 DEF FamilyOf
      <4>3. Current(about[q].user, about[q].password, FamilyOf(q))
              => Current(about[q].user, about[q].password, FamilyOf(q))'
        BY <2>3, <4>2 DEF Current
      <4> QED
        BY <2>1, <2>3, <3>2, <4>2, <4>3 DEF CallOK
    <3> QED
      BY <2>3, <3>1, <3>2 DEF CallOK
  <2> QED
    BY <2>2, <2>3
<1> QED
  BY <1>2, <1>3, <1>4 DEF Sessions, Changed

\* The sessions of tokens T end: T holds whole families and every token of the users
\* U whose status or password changes, and R the calls that rely on either.
LEMMA Ending ==
    ASSUME TypeOK, Sessions,
           NEW T \in SUBSET Token, NEW R \in SUBSET Calls, NEW U \in SUBSET Users,
           Changed(T), End(T, R), UNCHANGED callVars,
           \A v \in Users \ U : status'[v] = status[v] /\ password'[v] = password[v],
           \A t \in Token : tokens[t].user \in U => t \in T,
           \A t \in T, s \in Token : tokens[s].family = tokens[t].family => s \in T,
           \A r \in Calls : at[r] # "idle" /\ about[r].user \in U => r \in R,
           \A r \in Calls : at[r] # "idle" /\ about[r].token \in T => r \in R
    PROVE  Sessions'
<1> DEFINE F == {tokens[t].family : t \in T}
<1>1. \A t \in Token : tokens[t] \in Row /\ tokens[t].family \in Token
  BY TokenFacts DEF Sessions, FamiliesOK
<1>2. ended' = ended \cup F /\ overtaken' = overtaken \ F
      /\ late' = late \cup {r \in R : at[r] # "idle"}
  BY DEF End
<1>3. \A s \in Token : tokens[s].family \in F => s \in T
  OBVIOUS
<1>4. F \subseteq Token
  BY <1>1
<1> HIDE DEF F
<1>5. FamiliesOK'
  BY <1>1 DEF Changed, Sessions, FamiliesOK
<1>6. LiveSessionsAreCurrent'
  <2> SUFFICES ASSUME NEW t \in Token, tokens'[t].state = "live"
               PROVE  \/ tokens'[t].family \in overtaken'
                      \/ /\ status'[tokens'[t].user] = "ACTIVE"
                         /\ tokens'[t].password = password'[tokens'[t].user]
                         /\ tokens'[t].family \notin ended'
    BY DEF LiveSessionsAreCurrent, Changed
  <2>1. t \notin T /\ tokens'[t] = tokens[t]
    BY DEF Changed
  <2>2. tokens[t].family \notin F /\ tokens[t].user \in Users \ U
    BY <1>1, <1>3, <2>1 DEF Row
  <2> QED
    BY <1>2, <2>1, <2>2 DEF Sessions, LiveSessionsAreCurrent
<1>7. CallsInOrder'
  <2> SUFFICES ASSUME NEW q \in Calls PROVE CallOK(q)'
    BY DEF CallsInOrder
  <2>1. CallOK(q) /\ at' = at /\ about' = about
    BY DEF Sessions, CallsInOrder, callVars
  <2>2. at[q] # "idle" /\ q \in R => q \in late'
    BY <1>2
  <2>3. q \in late => q \in late'
    BY <1>2
  <2>4. CASE at[q] = "login"
    BY <2>1, <2>2, <2>3, <2>4 DEF CallOK
  <2>5. CASE at[q] \in {"refresh", "issued"}
    <3>1. about[q].token \in Token /\ about[q].user = tokens[about[q].token].user
          /\ about[q].token # 0
      BY <2>1, <2>5, TokenFacts DEF CallOK
    <3>2. FamilyOf(q)' = FamilyOf(q) /\ about[q].token \in Token'
          /\ about[q].user = tokens'[about[q].token].user /\ about[q].user \in Users
      BY <1>1, <2>1, <3>1 DEF FamilyOf, Changed, Row
    <3>3. CASE q \in late'
      BY <2>1, <2>5, <3>2, <3>3 DEF CallOK
    <3>4. CASE q \notin late'
      <4>1. about[q].token \notin T /\ about[q].user \in Users \ U
        BY <2>2, <2>5, <3>1, <3>2, <3>4
      <4>2. FamilyOf(q) \notin F
        BY <1>3, <3>1, <4>1 DEF FamilyOf
      <4>3. FamilyOf(q) \in overtaken
            \/ Current(about[q].user, about[q].password, FamilyOf(q))
        BY <2>1, <2>3, <2>5, <3>4 DEF CallOK
      <4>4. FamilyOf(q)' \in overtaken'
            \/ Current(about[q].user, about[q].password, FamilyOf(q))'
        BY <1>2, <2>1, <3>2, <4>1, <4>2, <4>3 DEF Current
      <4> QED
        BY <2>1, <2>5, <3>2, <4>4 DEF CallOK
    <3> QED
      BY <3>3, <3>4
  <2> QED
    BY <2>1, <2>4, <2>5 DEF CallOK
<1> QED
  BY <1>2, <1>4, <1>5, <1>6, <1>7 DEF Sessions, Changed

\* logout and a token presented again end a family.
LEMMA FamilyEnds ==
    ASSUME TypeOK, Sessions, NEW f, EndFamily(f), UNCHANGED <<userVars, callVars>>
    PROVE  Sessions'
<1> DEFINE T == {t \in Token : tokens[t].family = f}
           R == {r \in Calls : FamilyOf(r) = f}
<1>1. Changed(T) /\ End(T, R)
  BY RevokeChanges DEF EndFamily
<1>2. \A r \in Calls : about[r].token \in T => r \in R
  BY TokenFacts DEF FamilyOf
<1>3. T \in SUBSET Token /\ R \in SUBSET Calls /\ {} \in SUBSET Users
  OBVIOUS
<1>4. \A t \in T, s \in Token : tokens[s].family = tokens[t].family => s \in T
  OBVIOUS
<1>5. UNCHANGED callVars /\ UNCHANGED <<status, password>>
  BY DEF userVars
<1> HIDE DEF T, R
<1> QED
  BY <1>1, <1>2, <1>3, <1>4, <1>5, Ending

\* The sessions of a user whose status or password changes end.
LEMMA UserEnds ==
    ASSUME TypeOK, Sessions, NEW u \in Users,
           Changed(TokensOf(u)), End(TokensOf(u), {r \in Calls : about[r].user = u}),
           UNCHANGED callVars,
           \A v \in Users \ {u} : status'[v] = status[v] /\ password'[v] = password[v]
    PROVE  Sessions'
<1> DEFINE T == TokensOf(u)
           R == {r \in Calls : about[r].user = u}
<1>1. T \in SUBSET Token /\ R \in SUBSET Calls /\ {u} \in SUBSET Users
  BY TokensOfUser
<1>2. \A t \in Token : tokens[t].user \in {u} => t \in T
  BY DEF TokensOf
<1>3. \A t \in T, s \in Token : tokens[s].family = tokens[t].family => s \in T
  BY DEF TokensOf, Sessions, FamiliesOK
<1>4. \A r \in Calls : about[r].user \in {u} => r \in R
  OBVIOUS
<1>5. ASSUME NEW r \in Calls, at[r] # "idle", about[r].token \in T PROVE r \in R
  <2>1. CallOK(r) /\ at[r] \in {"login", "refresh", "issued"}
    BY <1>5 DEF TypeOK, Sessions, CallsInOrder
  <2>2. 0 \notin Token
    BY TokenFacts
  <2> QED
    BY <1>1, <1>5, <2>1, <2>2 DEF CallOK, TokensOf
<1> HIDE DEF T, R
<1>6. Changed(T) /\ End(T, R)
  BY DEF T, R
<1> QED
  BY <1>1, <1>2, <1>3, <1>4, <1>5, <1>6, Ending

\* A token is created: every call that is not over keeps what it read, and it is of
\* an active user and the present password, unless the call that issues it is late.
LEMMA IssueKeepsSessions ==
    ASSUME TypeOK, Sessions, NEW r \in Calls, NEW f, Issue(r, f),
           about[r].user \in Users,
           f = Len(tokens) + 1 \/ (f \in Token /\ tokens[f].user = about[r].user),
           r \in late \/ f \in overtaken \/ Current(about[r].user, about[r].password, f),
           \A q \in Calls : \/ at'[q] = "idle"
                            \/ /\ about'[q] = about[q]
                               /\ q \in late => q \in late'
                               /\ at'[q] = at[q] \/ (at[q] = "refresh" /\ at'[q] = "issued")
    PROVE  Sessions'
<1> DEFINE n == Len(tokens) + 1
           row == [user |-> about[r].user, family |-> f, password |-> about[r].password,
                   state |-> "live"]
<1>1. /\ tokens' = Append(tokens, row)
      /\ overtaken' = IF r \in late THEN overtaken \cup {f} ELSE overtaken
      /\ UNCHANGED <<status, password, ended>>
  BY DEF Issue, userVars
<1>2. /\ tokens \in Seq(Row) /\ Len(tokens) \in Nat /\ Token = 1..Len(tokens)
      /\ \A t \in Token : tokens[t] \in Row /\ tokens[t].family \in Token
  BY TokenFacts DEF Sessions, FamiliesOK
<1>3. row \in Row
  <2>1. f \in Nat /\ about[r].password \in 0..MaxResets
    BY <1>2 DEF TypeOK
  <2> QED
    BY <2>1 DEF Row
<1>4. tokens' \in Seq(Row) /\ Len(tokens') = n
      /\ (\A t \in 1..Len(tokens) : tokens'[t] = tokens[t]) /\ tokens'[n] = row
  <2> HIDE DEF row
  <2> QED
    BY <1>1, <1>2, <1>3, AppendProperties
<1>5. Token' = 1..n
  BY <1>4, LenProperties DEF Token
<1>6. overtaken \subseteq overtaken' /\ (r \in late => f \in overtaken')
  BY <1>1
<1>7. row.user = about[r].user /\ row.family = f /\ row.password = about[r].password
  OBVIOUS
<1> HIDE DEF row
<1>8. FamiliesOK'
  <2> SUFFICES ASSUME NEW t \in Token'
               PROVE  /\ tokens'[t].family \in Token'
                      /\ tokens'[tokens'[t].family].user = tokens'[t].user
    BY DEF FamiliesOK
  <2>1. CASE t \in Token
    BY <1>2, <1>4, <1>5, <2>1 DEF Sessions, FamiliesOK
  <2>2. CASE t = n
    BY <1>2, <1>4, <1>5, <1>7, <2>2
  <2> QED
    BY <1>2, <1>5, <2>1, <2>2
<1>9. LiveSessionsAreCurrent'
  <2> SUFFICES ASSUME NEW t \in Token', tokens'[t].state = "live"
               PROVE  \/ tokens'[t].family \in overtaken'
                      \/ /\ status'[tokens'[t].user] = "ACTIVE"
                         /\ tokens'[t].password = password'[tokens'[t].user]
                         /\ tokens'[t].family \notin ended'
    BY DEF LiveSessionsAreCurrent
  <2>1. CASE t \in Token
    BY <1>1, <1>2, <1>4, <1>6, <2>1 DEF Sessions, LiveSessionsAreCurrent
  <2>2. CASE t = n
    BY <1>1, <1>4, <1>6, <1>7, <2>2 DEF Current
  <2> QED
    BY <1>2, <1>5, <2>1, <2>2
<1>10. CallsInOrder'
  <2> SUFFICES ASSUME NEW q \in Calls, at'[q] # "idle" PROVE CallOK(q)'
    BY DEF CallsInOrder, CallOK
  <2>1. CallOK(q) /\ about'[q] = about[q] /\ (q \in late => q \in late')
        /\ (at'[q] = at[q] \/ (at[q] = "refresh" /\ at'[q] = "issued"))
    BY DEF Sessions, CallsInOrder
  <2>2. CASE at[q] = "login"
    BY <1>1, <2>1, <2>2 DEF CallOK
  <2>3. CASE at[q] \in {"refresh", "issued"}
    <3>1. about[q].token \in Token /\ about[q].user = tokens[about[q].token].user
      BY <2>1, <2>3 DEF CallOK
    <3>2. FamilyOf(q)' = FamilyOf(q) /\ about[q].token \in Token'
          /\ about[q].user = tokens'[about[q].token].user
      BY <1>2, <1>4, <1>5, <2>1, <3>1 DEF FamilyOf
    <3>3. Current(about[q].user, about[q].password, FamilyOf(q))
            => Current(about[q].user, about[q].password, FamilyOf(q))'
      BY <1>1, <2>1, <3>2 DEF Current
    <3> QED
      BY <1>6, <2>1, <2>3, <3>2, <3>3 DEF CallOK
  <2> QED
    BY <2>1, <2>2, <2>3 DEF CallOK
<1>11. ended' \subseteq Token'
  BY <1>1, <1>2, <1>5 DEF Sessions
<1> QED
  BY <1>8, <1>9, <1>10, <1>11 DEF Sessions

LEMMA SessionStep ==
    ASSUME TypeOK, Sessions, NEW r \in Calls
    PROVE  /\ (\E u \in Clients : ReadLogin(r, u)) => Sessions'
           /\ (\E t \in Token : ReadRefresh(r, t)) => Sessions'
           /\ IssueLogin(r) => Sessions'
           /\ IssueReplacement(r) => Sessions'
           /\ Rotate(r) => Sessions'
           /\ Abandon(r) => Sessions'
<1>1. CallOK(r) /\ \A t \in Token : tokens[t] \in Row /\ tokens[t].family \in Token
  BY TokenFacts DEF Sessions, FamiliesOK, CallsInOrder
<1>2. Token = 1..Len(tokens) /\ Len(tokens) \in Nat
  BY TokenFacts
<1>3. ASSUME UNCHANGED <<status, password, tokens, ended, overtaken, late>>, CallOK(r)',
             \A q \in Calls \ {r} : at'[q] = at[q] /\ about'[q] = about[q]
      PROVE  Sessions'
  <2>1. \A q \in Calls \ {r} : CallOK(q)'
    BY <1>3 DEF Sessions, CallsInOrder, CallOK, Current, FamilyOf, Token
  <2> QED
    BY <1>3, <2>1 DEF Sessions, FamiliesOK, CallsInOrder, LiveSessionsAreCurrent, Token
<1>4. ASSUME NEW u \in Clients, ReadLogin(r, u) PROVE Sessions'
  <2>1. /\ UNCHANGED <<status, password, tokens, ended, overtaken, late>>
        /\ \A q \in Calls \ {r} : at'[q] = at[q] /\ about'[q] = about[q]
        /\ at'[r] = "login" /\ about'[r] = [user |-> u, password |-> password[u], token |-> 0]
    BY <1>4 DEF ReadLogin, TypeOK, userVars, history
  <2>2. CallOK(r)'
    BY <1>4, <2>1 DEF CallOK, ReadLogin
  <2> QED
    BY <1>3, <2>1, <2>2
<1>5. ASSUME NEW t \in Token, ReadRefresh(r, t) PROVE Sessions'
  <2>1. /\ UNCHANGED <<status, password, tokens, ended, overtaken, late>>
        /\ \A q \in Calls \ {r} : at'[q] = at[q] /\ about'[q] = about[q]
        /\ at'[r] = "refresh"
        /\ about'[r] = [user |-> tokens[t].user, password |-> tokens[t].password, token |-> t]
    BY <1>5 DEF ReadRefresh, TypeOK, userVars, history
  <2>2. tokens[t].family \in overtaken
        \/ Current(tokens[t].user, tokens[t].password, tokens[t].family)
    BY <1>5 DEF ReadRefresh, Sessions, LiveSessionsAreCurrent, Current
  <2>3. FamilyOf(r)' = tokens[t].family
    BY <1>2, <2>1 DEF FamilyOf
  <2>4. CallOK(r)'
    BY <2>1, <2>2, <2>3 DEF CallOK, Current, Token
  <2> QED
    BY <1>3, <2>1, <2>4
<1>6. ASSUME Finish(r)
      PROVE  \A q \in Calls : \/ at'[q] = "idle"
                             \/ /\ about'[q] = about[q]
                                /\ q \in late => q \in late'
                                /\ at'[q] = at[q]
  BY <1>6 DEF Finish, TypeOK
<1>7. ASSUME IssueLogin(r) PROVE Sessions'
  <2>1. at[r] = "login" /\ Issue(r, Len(tokens) + 1) /\ Finish(r)
    BY <1>7 DEF IssueLogin
  <2>2. Len(tokens) + 1 \notin ended
    BY <1>2 DEF Sessions
  <2>3. r \in late \/ Current(about[r].user, about[r].password, Len(tokens) + 1)
    BY <1>1, <2>1, <2>2 DEF CallOK, Current
  <2>4. about[r].user \in Users
    BY <1>1, <2>1 DEF CallOK
  <2>5. \A q \in Calls : \/ at'[q] = "idle"
                         \/ /\ about'[q] = about[q]
                            /\ q \in late => q \in late'
                            /\ at'[q] = at[q] \/ (at[q] = "refresh" /\ at'[q] = "issued")
    BY <1>6, <2>1
  <2> QED
    BY <2>1, <2>3, <2>4, <2>5, IssueKeepsSessions
<1>8. ASSUME IssueReplacement(r) PROVE Sessions'
  <2>1. /\ at[r] = "refresh" /\ Issue(r, FamilyOf(r))
        /\ at' = [at EXCEPT ![r] = "issued"] /\ UNCHANGED <<about, late>>
    BY <1>8 DEF IssueReplacement
  <2>2. /\ about[r].token \in Token /\ about[r].user = tokens[about[r].token].user
        /\ FamilyOf(r) = tokens[about[r].token].family
    BY <1>1, <1>2, <2>1 DEF CallOK, FamilyOf
  <2>3. about[r].user \in Users /\ FamilyOf(r) \in Token
        /\ tokens[FamilyOf(r)].user = about[r].user
    BY <1>1, <2>2 DEF Sessions, FamiliesOK, Row
  <2>4. r \in late \/ FamilyOf(r) \in overtaken
        \/ Current(about[r].user, about[r].password, FamilyOf(r))
    BY <1>1, <2>1 DEF CallOK
  <2>5. \A q \in Calls : /\ about'[q] = about[q] /\ (q \in late => q \in late')
                         /\ at'[q] = at[q] \/ (at[q] = "refresh" /\ at'[q] = "issued")
    BY <2>1 DEF TypeOK
  <2> QED
    BY <2>1, <2>3, <2>4, <2>5, IssueKeepsSessions
<1>9. ASSUME Rotate(r) PROVE Sessions'
  <2>1. Changed({about[r].token})
    BY <1>9, RevokeChanges DEF Rotate
  <2>2. Finish(r) /\ UNCHANGED <<status, password, ended, overtaken>>
    BY <1>9 DEF Rotate, userVars
  <2> QED
    BY <1>6, <2>1, <2>2, SessionsGoOn
<1>10. ASSUME Abandon(r) PROVE Sessions'
  <2>1. Finish(r) /\ UNCHANGED <<status, password, tokens, ended, overtaken>>
    BY <1>10 DEF Abandon, userVars
  <2>2. Changed({})
    BY <2>1, TokenFacts DEF Changed, Token
  <2> QED
    BY <1>6, <2>1, <2>2, SessionsGoOn
<1> QED
  BY <1>4, <1>5, <1>7, <1>8, <1>9, <1>10

LEMMA UserStep ==
    ASSUME TypeOK, Sessions
    PROVE  /\ (\E t \in Token : Replay(t) \/ Logout(t)) => Sessions'
           /\ (\E u \in Users, owner \in BOOLEAN : Create(u, owner)) => Sessions'
           /\ (\E u \in Clients : ResetPassword(u)) => Sessions'
<1>1. ASSUME NEW t \in Token, Replay(t) \/ Logout(t) PROVE Sessions'
  BY <1>1, FamilyEnds DEF Replay, Logout
<1>2. ASSUME NEW u \in Users, NEW owner \in BOOLEAN, Create(u, owner) PROVE Sessions'
  <2>1. /\ UNCHANGED <<password, tokens, callVars, history>>
        /\ \A v \in Users : status[v] = "ACTIVE" => status'[v] = "ACTIVE"
    BY <1>2 DEF Create, TypeOK
  <2>2. Changed({})
    BY <2>1, TokenFacts DEF Changed, Token
  <2> QED
    BY <2>1, <2>2, SessionsGoOn DEF callVars, history
<1>3. ASSUME NEW u \in Clients, ResetPassword(u) PROVE Sessions'
  <2>1. Changed(TokensOf(u)) /\ End(TokensOf(u), {r \in Calls : about[r].user = u})
    BY <1>3, RevokeChanges DEF ResetPassword, EndUser
  <2>2. /\ UNCHANGED callVars
        /\ \A v \in Users \ {u} : status'[v] = status[v] /\ password'[v] = password[v]
    BY <1>3 DEF ResetPassword, TypeOK
  <2> QED
    BY <2>1, <2>2, UserEnds
<1> QED
  BY <1>1, <1>2, <1>3

LEMMA DeskStep ==
    ASSUME TypeOK, TasksOK, LockOK, Sessions, NEW a \in Admins
    PROVE  /\ (\E op \in Operations, u \in Users, owner \in BOOLEAN : Request(a, op, u, owner))
                  => Sessions'
           /\ Check(a) => Sessions'
           /\ SetRoles(a) => Sessions'
           /\ Deactivate(a) => Sessions'
           /\ RemoveSoftly(a) => Sessions'
           /\ Remove(a) => Sessions'
           /\ RollBack(a) => Sessions'
<1> DEFINE u == admin[a].user
<1>1. ASSUME UNCHANGED <<status, password, tokens, callVars, history>> PROVE Sessions'
  BY <1>1 DEF Sessions, FamiliesOK, CallsInOrder, CallOK, Current, FamilyOf,
              LiveSessionsAreCurrent, Token, callVars, history
<1>2. ASSUME \/ \E op \in Operations, v \in Users, owner \in BOOLEAN : Request(a, op, v, owner)
             \/ Check(a) \/ SetRoles(a) \/ RollBack(a)
      PROVE  Sessions'
  BY <1>1, <1>2 DEF Request, Check, SetRoles, RollBack, userVars
<1>3. \A op \in Operations : Commits(a, op) => u \in Users
  BY DEF Commits, TasksOK, LockOK
<1>4. ASSUME Deactivate(a) \/ RemoveSoftly(a) \/ Remove(a) PROVE Sessions'
  <2>1. u \in Users
    BY <1>3, <1>4 DEF Deactivate, RemoveSoftly, Remove, Operations
  <2>2. Changed(TokensOf(u)) /\ End(TokensOf(u), {r \in Calls : about[r].user = u})
    BY <1>4, <2>1, RevokeChanges, RemoveChanges DEF Deactivate, RemoveSoftly, Remove, EndUser
  <2>3. UNCHANGED <<password, callVars>>
    BY <1>4 DEF Deactivate, RemoveSoftly, Remove
  <2>4. \/ status' = [status EXCEPT ![u] = IF @ = "ACTIVE" THEN "INACTIVE" ELSE @]
        \/ status' = [status EXCEPT ![u] = "DELETED"]
        \/ status' = [status EXCEPT ![u] = "gone"]
    BY <1>4 DEF Deactivate, RemoveSoftly, Remove
  <2>5. \A v \in Users \ {u} : status'[v] = status[v] /\ password'[v] = password[v]
    BY <2>3, <2>4 DEF TypeOK
  <2> QED
    BY <2>1, <2>2, <2>3, <2>5, UserEnds
<1> QED
  BY <1>2, <1>4

-----------------------------------------------------------------------------
(* One live token.                                                         *)

\* A step that creates no token and issues nothing: a token that is live still, in
\* a session that was never forked, is being replaced if it was.
LEMMA RotationGoesOn ==
    ASSUME TypeOK, Rotation, NEW T, Changed(T), forked \subseteq forked', Issued' \subseteq Issued,
           \A t \in Token :
              BeingReplaced(t) => \/ BeingReplaced(t)'
                                 \/ tokens'[t].state # "live"
                                 \/ tokens[t].family \in forked'
    PROVE  Rotation'
<1>1. IsFiniteSet(Issued')
  BY FS_Subset DEF Rotation
<1>2. /\ Token' = Token
      /\ \A t \in Token : /\ tokens'[t].family = tokens[t].family
                          /\ tokens'[t].state = "live" => tokens[t].state = "live"
  BY DEF Changed
<1>3. \A t \in Token : Unreplaced(t)' => Unreplaced(t)
  BY <1>2 DEF Unreplaced
<1> QED
  BY <1>1, <1>2, <1>3 DEF Rotation

\* ... as when the sessions of tokens T end, or nothing is done about sessions.
LEMMA RotationStays ==
    ASSUME TypeOK, Rotation, NEW T, Changed(T), UNCHANGED <<callVars, forked>>
    PROVE  Rotation'
<1>1. Issued' = Issued /\ \A t \in Token : BeingReplaced(t)' = BeingReplaced(t)
  BY DEF Issued, BeingReplaced, callVars
<1> QED
  BY <1>1, RotationGoesOn

\* The one that joins a finite set of calls leaves it finite.
LEMMA OneMoreCall ==
    ASSUME NEW S, IsFiniteSet(S), NEW x
    PROVE  IsFiniteSet(S \cup {x})
BY FS_AddElement

\* A token is created: as the first of its session, or as the next of one that is
\* live and that no other call is replacing, or the session is known to be forked.
LEMMA IssueKeepsRotation ==
    ASSUME TypeOK, Sessions, Rotation, NEW r \in Calls, NEW f, Issue(r, f),
           forked \subseteq forked', Issued' \subseteq Issued \cup {r},
           \A t \in Token : BeingReplaced(t) => BeingReplaced(t)',
           \/ f \notin Token
           \/ f \in forked'
           \/ \E s \in Token : Unreplaced(s) /\ tokens[s].family = f /\ BeingReplaced(s)'
    PROVE  Rotation'
<1> DEFINE n == Len(tokens) + 1
           row == [user |-> about[r].user, family |-> f, password |-> about[r].password,
                   state |-> "live"]
<1>1. tokens' = Append(tokens, row)
  BY DEF Issue
<1>2. /\ tokens \in Seq(Row) /\ Len(tokens) \in Nat /\ Token = 1..Len(tokens)
      /\ \A t \in Token : tokens[t].family \in Token
  BY TokenFacts DEF Sessions, FamiliesOK
<1>3. row.family = f
  OBVIOUS
<1>4. DOMAIN tokens' = 1..n /\ (\A t \in 1..Len(tokens) : tokens'[t] = tokens[t])
      /\ tokens'[n] = row
  <2> HIDE DEF row
  <2> QED
    BY <1>1, <1>2 DEF Token
<1> HIDE DEF row
<1>5. Token' = 1..n /\ \A t \in Token' : t \in Token \/ t = n
  BY <1>2, <1>4 DEF Token
<1>6. \A t \in Token : tokens'[t] = tokens[t] /\ (Unreplaced(t)' => Unreplaced(t))
  BY <1>2, <1>4 DEF Unreplaced
<1>7. IsFiniteSet(Issued')
  <2>1. IsFiniteSet(Issued \cup {r})
    BY OneMoreCall DEF Rotation
  <2> QED
    BY <2>1, FS_Subset
<1>8. ASSUME NEW t \in Token, Unreplaced(t)', tokens'[t].family = f, f \notin forked'
      PROVE  FALSE
  <2>1. tokens[t].family = f /\ Unreplaced(t) /\ ~BeingReplaced(t)' /\ f \in Token
    BY <1>2, <1>6, <1>8 DEF Unreplaced
  <2>2. PICK s \in Token : Unreplaced(s) /\ tokens[s].family = f /\ BeingReplaced(s)'
    BY <1>8, <2>1
  <2>3. s = t
    BY <2>1, <2>2 DEF Rotation
  <2> QED
    BY <2>1, <2>2, <2>3
<1>9. ASSUME NEW t \in Token', NEW u \in Token', Unreplaced(t)', Unreplaced(u)',
             tokens'[t].family = tokens'[u].family
      PROVE  t = u
  <2>1. CASE t \in Token /\ u \in Token
    BY <1>6, <1>9, <2>1 DEF Rotation
  <2>2. CASE t = n /\ u \in Token
    BY <1>3, <1>4, <1>8, <1>9, <2>2 DEF Unreplaced
  <2>3. CASE t \in Token /\ u = n
    BY <1>3, <1>4, <1>8, <1>9, <2>3 DEF Unreplaced
  <2> QED
    BY <1>5, <2>1, <2>2, <2>3
<1> QED
  BY <1>7, <1>9 DEF Rotation

LEMMA SessionRotation ==
    ASSUME TypeOK, Sessions, Rotation, NEW r \in Calls
    PROVE  /\ (\E u \in Clients : ReadLogin(r, u)) => Rotation'
           /\ (\E t \in Token : ReadRefresh(r, t)) => Rotation'
           /\ IssueLogin(r) => Rotation'
           /\ IssueReplacement(r) => Rotation'
           /\ Rotate(r) => Rotation'
           /\ Abandon(r) => Rotation'
<1>1. CallOK(r) /\ at \in [Calls -> {"idle", "login", "refresh", "issued"}]
      /\ DOMAIN about = Calls
  BY DEF Sessions, CallsInOrder, TypeOK
<1>2. /\ Token = 1..Len(tokens) /\ Len(tokens) \in Nat
      /\ \A t \in Token : tokens[t] \in Row
  BY TokenFacts
<1>3. ASSUME UNCHANGED <<tokens, forked>>, at[r] # "issued", at'[r] # "issued",
             \A q \in Calls \ {r} : at'[q] = at[q] /\ about'[q] = about[q]
      PROVE  Rotation'
  <2>1. Changed({})
    BY <1>3, TokenFacts DEF Changed, Token
  <2>2. Issued' = Issued /\ \A q \in Issued : about'[q] = about[q]
    BY <1>3 DEF Issued
  <2>3. \A t \in Token : BeingReplaced(t) => BeingReplaced(t)'
    BY <2>2 DEF BeingReplaced
  <2> QED
    BY <1>3, <2>1, <2>2, <2>3, RotationGoesOn
<1>4. ASSUME NEW u \in Clients, ReadLogin(r, u) PROVE Rotation'
  <2>1. /\ UNCHANGED <<tokens, forked>> /\ at[r] = "idle" /\ at'[r] = "login"
        /\ \A q \in Calls \ {r} : at'[q] = at[q] /\ about'[q] = about[q]
    BY <1>1, <1>4 DEF ReadLogin, history
  <2> QED
    BY <1>3, <2>1
<1>5. ASSUME NEW t \in Token, ReadRefresh(r, t) PROVE Rotation'
  <2>1. /\ UNCHANGED <<tokens, forked>> /\ at[r] = "idle" /\ at'[r] = "refresh"
        /\ \A q \in Calls \ {r} : at'[q] = at[q] /\ about'[q] = about[q]
    BY <1>1, <1>5 DEF ReadRefresh, history
  <2> QED
    BY <1>3, <2>1
<1>6. ASSUME Finish(r)
      PROVE  /\ at'[r] = "idle"
             /\ \A q \in Calls \ {r} : at'[q] = at[q] /\ about'[q] = about[q]
             /\ Issued' = Issued \ {r}
             /\ \A t \in Token :
                  BeingReplaced(t) => BeingReplaced(t)' \/ (r \in Issued /\ t = about[r].token)
  <2>1. /\ at'[r] = "idle"
        /\ \A q \in Calls \ {r} : at'[q] = at[q] /\ about'[q] = about[q]
    BY <1>1, <1>6 DEF Finish
  <2>2. Issued' = Issued \ {r}
    BY <2>1 DEF Issued
  <2> QED
    BY <2>1, <2>2 DEF BeingReplaced, Issued
<1>7. ASSUME IssueLogin(r) PROVE Rotation'
  <2>1. at[r] = "login" /\ Issue(r, Len(tokens) + 1) /\ Finish(r) /\ forked' = forked
    BY <1>7 DEF IssueLogin
  <2>2. r \notin Issued /\ Len(tokens) + 1 \notin Token
    BY <1>2, <2>1 DEF Issued
  <2>3. Issued' \subseteq Issued \cup {r} /\ \A t \in Token : BeingReplaced(t) => BeingReplaced(t)'
    BY <1>6, <2>1, <2>2
  <2> QED
    BY <2>1, <2>2, <2>3, IssueKeepsRotation
<1>8. ASSUME IssueReplacement(r) PROVE Rotation'
  <2> DEFINE s == about[r].token
  <2>1. /\ at[r] = "refresh" /\ Issue(r, FamilyOf(r)) /\ UNCHANGED about
        /\ at' = [at EXCEPT ![r] = "issued"]
        /\ forked' = IF Replaced(s) THEN forked \cup {FamilyOf(r)} ELSE forked
    BY <1>8 DEF IssueReplacement
  <2>2. s \in Token /\ FamilyOf(r) = tokens[s].family
    BY <1>1, <1>2, <2>1 DEF CallOK, FamilyOf
  <2>3. Issued' = Issued \cup {r}
    BY <1>1, <2>1 DEF Issued
  <2>4. BeingReplaced(s)' /\ \A t \in Token : BeingReplaced(t) => BeingReplaced(t)'
    BY <2>1, <2>3 DEF BeingReplaced
  <2>5. FamilyOf(r) \in forked' \/ Unreplaced(s)
    BY <2>1, <2>2 DEF Unreplaced, Replaced, BeingReplaced, Issued
  <2>6. /\ forked \subseteq forked' /\ Issued' \subseteq Issued \cup {r}
        /\ \/ FamilyOf(r) \in forked'
           \/ \E x \in Token : /\ Unreplaced(x) /\ tokens[x].family = FamilyOf(r)
                               /\ BeingReplaced(x)'
    BY <2>1, <2>2, <2>3, <2>4, <2>5
  <2> QED
    BY <2>1, <2>4, <2>6, IssueKeepsRotation
<1>9. ASSUME Rotate(r) PROVE Rotation'
  <2>1. Changed({about[r].token})
    BY <1>9, RevokeChanges DEF Rotate
  <2>2. Finish(r) /\ forked' = forked
    BY <1>9 DEF Rotate
  <2>3. \A t \in Token : BeingReplaced(t) => BeingReplaced(t)' \/ tokens'[t].state # "live"
    BY <1>6, <2>1, <2>2 DEF Changed
  <2> QED
    BY <1>6, <2>1, <2>2, <2>3, RotationGoesOn
<1>10. ASSUME Abandon(r) PROVE Rotation'
  <2>1. /\ Finish(r) /\ UNCHANGED tokens
        /\ forked' = IF at[r] = "issued" THEN forked \cup {FamilyOf(r)} ELSE forked
    BY <1>10 DEF Abandon
  <2>2. Changed({})
    BY <2>1, TokenFacts DEF Changed, Token
  <2>3. r \in Issued => FamilyOf(r) = tokens[about[r].token].family /\ FamilyOf(r) \in forked'
    BY <1>1, <1>2, <2>1 DEF CallOK, FamilyOf, Issued
  <2>4. \A t \in Token : BeingReplaced(t) => BeingReplaced(t)' \/ tokens[t].family \in forked'
    BY <1>6, <2>1, <2>3
  <2>5. forked \subseteq forked' /\ Issued' \subseteq Issued
    BY <1>6, <2>1
  <2> QED
    BY <2>2, <2>4, <2>5, RotationGoesOn
<1> QED
  BY <1>4, <1>5, <1>7, <1>8, <1>9, <1>10

LEMMA UserRotation ==
    ASSUME TypeOK, Rotation
    PROVE  /\ (\E t \in Token : Replay(t) \/ Logout(t)) => Rotation'
           /\ (\E u \in Users, owner \in BOOLEAN : Create(u, owner)) => Rotation'
           /\ (\E u \in Clients : ResetPassword(u)) => Rotation'
<1>1. ASSUME NEW T, tokens' = Revoke(T), UNCHANGED <<callVars, forked>> PROVE Rotation'
  BY <1>1, RevokeChanges, RotationStays
<1>2. ASSUME NEW t \in Token, Replay(t) \/ Logout(t) PROVE Rotation'
  BY <1>1, <1>2 DEF Replay, Logout, EndFamily, End
<1>3. ASSUME NEW u \in Users, NEW owner \in BOOLEAN, Create(u, owner) PROVE Rotation'
  <2>1. UNCHANGED <<tokens, callVars, forked>>
    BY <1>3 DEF Create, history
  <2>2. Changed({})
    BY <2>1, TokenFacts DEF Changed, Token
  <2> QED
    BY <2>1, <2>2, RotationStays
<1>4. ASSUME NEW u \in Clients, ResetPassword(u) PROVE Rotation'
  BY <1>1, <1>4 DEF ResetPassword, EndUser, End
<1> QED
  BY <1>2, <1>3, <1>4

LEMMA DeskRotation ==
    ASSUME TypeOK, TasksOK, LockOK, Rotation, NEW a \in Admins
    PROVE  /\ (\E op \in Operations, u \in Users, owner \in BOOLEAN : Request(a, op, u, owner))
                  => Rotation'
           /\ Check(a) => Rotation'
           /\ SetRoles(a) => Rotation'
           /\ Deactivate(a) => Rotation'
           /\ RemoveSoftly(a) => Rotation'
           /\ Remove(a) => Rotation'
           /\ RollBack(a) => Rotation'
<1>1. ASSUME UNCHANGED <<tokens, callVars, forked>> PROVE Rotation'
  <2>1. Changed({})
    BY <1>1, TokenFacts DEF Changed, Token
  <2> QED
    BY <1>1, <2>1, RotationStays
<1>2. ASSUME \/ \E op \in Operations, v \in Users, owner \in BOOLEAN : Request(a, op, v, owner)
             \/ Check(a) \/ SetRoles(a) \/ RollBack(a)
      PROVE  Rotation'
  BY <1>1, <1>2 DEF Request, Check, SetRoles, RollBack, history
<1>3. ASSUME Deactivate(a) \/ RemoveSoftly(a) PROVE Rotation'
  BY <1>3, RevokeChanges, RotationStays DEF Deactivate, RemoveSoftly, EndUser, End
<1>4. ASSUME Remove(a) PROVE Rotation'
  <2>1. admin[a].user \in Users
    BY <1>4 DEF Remove, Commits, TasksOK, LockOK
  <2>2. Changed(TokensOf(admin[a].user))
    BY <1>4, <2>1, RemoveChanges DEF Remove
  <2> QED
    BY <1>4, <2>2, RotationStays DEF Remove, End
<1> QED
  BY <1>2, <1>3, <1>4

\* Of a set with one member at most besides the values of g over R.
LEMMA OneBesides ==
    ASSUME NEW A, NEW R, IsFiniteSet(R), NEW g,
           \A x, y \in A : (\A r \in R : g[r] # x /\ g[r] # y) => x = y
    PROVE  Cardinality(A) <= 1 + Cardinality(R)
<1> DEFINE T == {g[r] : r \in R}
           h == [r \in R |-> g[r]]
<1>1. h \in Surjection(R, T)
  BY DEF Surjection
<1>2. IsFiniteSet(T) /\ Cardinality(T) <= Cardinality(R)
  <2> HIDE DEF h, T
  <2> QED
    BY <1>1, FS_Surjection
<1>3. Cardinality(T) \in Nat /\ Cardinality(R) \in Nat
  BY <1>2, FS_CardinalityType
<1>4. CASE A \subseteq T
  <2>1. Cardinality(A) \in Nat /\ Cardinality(A) <= Cardinality(T)
    <3> HIDE DEF T
    <3>1. IsFiniteSet(A) /\ Cardinality(A) <= Cardinality(T)
      BY <1>2, <1>4, FS_Subset
    <3> QED
      BY <3>1, FS_CardinalityType
  <2> HIDE DEF T
  <2> QED
    BY <1>2, <1>3, <2>1
<1>5. CASE ~(A \subseteq T)
  <2>1. PICK b \in A : b \notin T
    BY <1>5
  <2>2. A \subseteq T \cup {b}
    BY <2>1
  <2> HIDE DEF T
  <2>3. IsFiniteSet(T \cup {b}) /\ Cardinality(T \cup {b}) = Cardinality(T) + 1
    BY <1>2, <2>1, FS_AddElement
  <2>4. IsFiniteSet(A) /\ Cardinality(A) <= Cardinality(T \cup {b})
    BY <2>2, <2>3, FS_Subset
  <2>5. Cardinality(A) \in Nat
    BY <2>4, FS_CardinalityType
  <2> QED
    BY <1>2, <1>3, <2>3, <2>4, <2>5
<1> QED
  BY <1>4, <1>5

LEMMA RotationCounts ==
    ASSUME TypeOK, Sessions, Rotation
    PROVE  RotationKeepsOneLive
<1> SUFFICES ASSUME NEW f \in Families \ forked
             PROVE  Cardinality({t \in Token : tokens[t].family = f /\ tokens[t].state = "live"})
                      <= 1 + Cardinality({r \in Calls : at[r] = "issued" /\ FamilyOf(r) = f})
  BY DEF RotationKeepsOneLive
<1> DEFINE A == {t \in Token : tokens[t].family = f /\ tokens[t].state = "live"}
           R == {r \in Calls : at[r] = "issued" /\ FamilyOf(r) = f}
           g == [r \in Calls |-> about[r].token]
<1>1. R \subseteq Issued /\ IsFiniteSet(R)
  <2>1. R \subseteq Issued
    BY DEF Issued
  <2> QED
    BY <2>1, FS_Subset DEF Rotation
<1>2. 0 \notin Token
  BY TokenFacts
<1>3. ASSUME NEW t \in A, \A r \in R : g[r] # t PROVE Unreplaced(t)
  <2>1. t \in Token /\ tokens[t].family = f /\ tokens[t].state = "live" /\ f \notin forked
    OBVIOUS
  <2>2. ASSUME NEW r \in Issued, about[r].token = t PROVE FALSE
    <3>1. r \in Calls /\ at[r] = "issued"
      BY DEF Issued
    <3>2. FamilyOf(r) = f
      BY <1>2, <2>1, <2>2 DEF FamilyOf
    <3> QED
      BY <1>3, <2>2, <3>1, <3>2
  <2> QED
    BY <2>1, <2>2 DEF Unreplaced, BeingReplaced
<1>4. \A x, y \in A : (\A r \in R : g[r] # x /\ g[r] # y) => x = y
  <2> SUFFICES ASSUME NEW x \in A, NEW y \in A, \A r \in R : g[r] # x /\ g[r] # y
               PROVE  x = y
    OBVIOUS
  <2>1. Unreplaced(x) /\ Unreplaced(y)
    BY <1>3
  <2>2. x \in Token /\ y \in Token /\ tokens[x].family = tokens[y].family
    OBVIOUS
  <2> QED
    BY <2>1, <2>2 DEF Rotation
<1> HIDE DEF A, R, g
<1>5. Cardinality(A) <= 1 + Cardinality(R)
  BY <1>1, <1>4, OneBesides
<1> QED
  BY <1>5 DEF A, R

-----------------------------------------------------------------------------
(* The theorems.                                                           *)

LEMMA Inductive == IInv /\ [Next]_vars => IInv'
<1> SUFFICES ASSUME IInv, [Next]_vars PROVE IInv'
  OBVIOUS
<1> USE DEF IInv
<1>1. TasksOK' /\ LockOK' /\ OwnerRemains'
  BY OwnerStep
<1>2. CASE UNCHANGED vars
  <2>1. TypeOK'
    BY <1>2 DEF TypeOK, vars, userVars, callVars, desk, history
  <2>2. Sessions'
    BY <1>2 DEF Sessions, FamiliesOK, CallsInOrder, CallOK, Current, FamilyOf,
                LiveSessionsAreCurrent, Token, vars, userVars, callVars, history
  <2>3. Changed({})
    BY <1>2, TokenFacts DEF Changed, Token, vars
  <2>4. Rotation'
    BY <1>2, <2>3, RotationStays DEF vars, history
  <2> QED
    BY <1>1, <2>1, <2>2, <2>4
<1>3. ASSUME NEW r \in Calls,
             \/ \E u \in Clients : ReadLogin(r, u)
             \/ \E t \in Token : ReadRefresh(r, t)
             \/ IssueLogin(r) \/ IssueReplacement(r) \/ Rotate(r) \/ Abandon(r)
      PROVE  TypeOK' /\ Sessions' /\ Rotation'
  BY <1>3, SessionStepType, SessionStep, SessionRotation, Zenon DEF Sessions
<1>4. ASSUME \/ \E t \in Token : Replay(t) \/ Logout(t)
             \/ \E u \in Users, owner \in BOOLEAN : Create(u, owner)
             \/ \E u \in Clients : ResetPassword(u)
      PROVE  TypeOK' /\ Sessions' /\ Rotation'
  BY <1>4, UserStepType, UserStep, UserRotation, Zenon
<1>5. ASSUME NEW a \in Admins,
             \/ \E op \in Operations, u \in Users, owner \in BOOLEAN : Request(a, op, u, owner)
             \/ Check(a) \/ SetRoles(a) \/ Deactivate(a) \/ RemoveSoftly(a) \/ Remove(a)
             \/ RollBack(a)
      PROVE  TypeOK' /\ Sessions' /\ Rotation'
  BY <1>5, DeskStepType, DeskStep, DeskRotation, Zenon
<1>6. "roles" \in Operations /\ FALSE \in BOOLEAN /\ Operations \ {"roles"} \subseteq Operations
  BY DEF Operations
<1>7. ASSUME Next PROVE TypeOK' /\ Sessions' /\ Rotation'
  BY <1>3, <1>4, <1>5, <1>6, <1>7, Zenon DEF Next
<1> QED
  BY <1>1, <1>2, <1>7

(* The whole inductive invariant holds in every reachable state. *)
THEOREM InductiveInvariant == Spec => []IInv
BY InitIInv, Inductive, PTL DEF Spec

\* Every variable of the users and their sessions keeps its type.
THEOREM TypeCorrect == Spec => []TypeOK
BY InductiveInvariant, PTL DEF IInv

\* The gym keeps an owner who can enter, for any users, calls of the desk and
\* logins: lockOwnerRole makes the count and the write one.
THEOREM OwnerRemainsHolds == Spec => []OwnerRemains
BY InductiveInvariant, PTL DEF IInv

\* A live session is of an active user, by the present password, and was not ended,
\* but for the calls that had read before the end and issued after.
THEOREM LiveSessionsHolds == Spec => []LiveSessionsAreCurrent
<1>1. IInv => LiveSessionsAreCurrent
  BY DEF IInv, Sessions
<1> QED
  BY <1>1, InductiveInvariant, PTL

\* A session that was never forked has one live token besides those being rotated,
\* whichever refreshes, logouts, replays and ends of users cross each other.
THEOREM RotationHolds == Spec => []RotationKeepsOneLive
<1>1. IInv => RotationKeepsOneLive
  BY RotationCounts DEF IInv
<1> QED
  BY <1>1, InductiveInvariant, PTL
=============================================================================
