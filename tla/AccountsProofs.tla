--------------------------- MODULE AccountsProofs ---------------------------
(***************************************************************************)
(* Proofs about Accounts, for every set of users, sessions, tokens and     *)
(* requests in flight.                                                     *)
(***************************************************************************)
EXTENDS Accounts, FiniteSetTheorems, TLAPS

\* What a request knows at each label: which rows it may rely on.
Anonymous == {"idle", "done", "cookie", "setup", "login", "recover"}
Holding   == {"principal", "csrf", "holder", "logout"}
Updating  == {"reauthorize", "compare", "count", "commit"}
Judged    == {"count", "commit"}

\* row is a version of the account of u: the present one, or an older one.
Version(row, u) ==
    /\ Exists(u)
    /\ row.mtime <= accounts[u].mtime
    /\ row.mtime = accounts[u].mtime => row = accounts[u]

RequestInv(p) ==
    /\ pc[p] \notin Anonymous => Exists(who[p])
    /\ pc[p] \in Holding => sessions[order[p].session] # NoSession
    /\ pc[p] \notin {"idle", "done", "set_password"} /\ order[p].op = "edit" =>
          Exists(order[p].target) /\ expected[p] <= accounts[order[p].target].mtime
    /\ pc[p] \in Updating => expected[p] <= base[p].mtime /\ Version(base[p], order[p].target)
    /\ pc[p] \in Judged => base[p].mtime <= seen[p].mtime /\ Version(seen[p], order[p].target)
    /\ pc[p] = "set_password" => expected[p] = base[p].mtime /\ Version(base[p], who[p])
OwnersExist ==
    /\ \A s \in Sessions : sessions[s] # NoSession => Exists(sessions[s].user)
    /\ \A t \in Tokens : tokens[t] # NoToken => Exists(tokens[t].user)
LabelInv == OwnersExist /\ \A p \in Requests : RequestInv(p)

TypeInv == TypeOK /\ LabelInv

\* The type invariant holds in the empty database.
LEMMA InitTypeInv == Init => TypeInv
  <1> SUFFICES ASSUME Init PROVE TypeInv
    OBVIOUS
  <1>1. (CHOOSE o \in Orders : TRUE) \in Orders /\ (CHOOSE u \in Users : TRUE) \in Users
    BY AccountConstants
  <1>2. (CHOOSE n \in Names : TRUE) \in Names
    BY AccountConstants
  <1>3. AnyRow \in Row
    BY <1>2 DEF AnyRow, Row, Access
  <1>4. TypeOK
    BY <1>1, <1>3 DEF Init, TypeOK, Labels, Answers
  <1>5. LabelInv
    BY DEF Init, LabelInv, OwnersExist, RequestInv, Anonymous, Holding, Updating, Judged
  <1>6. QED
    BY <1>4, <1>5 DEF TypeInv

\* An edited row is a row.
LEMMA AppliedType ==
    ASSUME NEW row \in Row, NEW o \in Orders
    PROVE  Applied(row, o.change) \in Row
  <1>1. o.change \in Change
    BY AccountConstants
  <1>2. QED
    BY <1>1 DEF Applied, Row, Change

\* A row with another password hash or modification time is a row.
LEMMA RowUpdates ==
    ASSUME NEW row \in Row, NEW h \in Nat, NEW m \in Nat
    PROVE  /\ row.mtime \in Nat /\ row.hash \in Nat
           /\ [row EXCEPT !.hash = h] \in Row
           /\ [row EXCEPT !.mtime = m] \in Row
  BY DEF Row

\* The revocation of an identity changes flags and nothing else.
LEMMA RevokeType ==
    ASSUME TypeInv, NEW u \in Users, RevokeIdentity(u)
    PROVE  /\ sessions' \in [Sessions -> Session \cup {NoSession}]
           /\ tokens' \in [Tokens -> Token \cup {NoToken}]
           /\ \A s \in Sessions : /\ (sessions[s] = NoSession) = (sessions'[s] = NoSession)
                                  /\ sessions[s] # NoSession =>
                                        /\ sessions'[s].user = sessions[s].user
                                        /\ sessions'[s].epoch = sessions[s].epoch
                                        /\ sessions'[s].live = (sessions[s].live /\ sessions[s].user # u)
           /\ \A t \in Tokens : /\ (tokens[t] = NoToken) = (tokens'[t] = NoToken)
                                /\ tokens[t] # NoToken =>
                                      /\ tokens'[t].user = tokens[t].user
                                      /\ tokens'[t].epoch = tokens[t].epoch
                                      /\ tokens'[t].live = (tokens[t].live /\ tokens[t].user # u)
  <1>1. \A s \in Sessions : sessions[s] # NoSession => sessions[s] \in Session
    BY DEF TypeInv, TypeOK
  <1>2. \A t \in Tokens : tokens[t] # NoToken => tokens[t] \in Token
    BY DEF TypeInv, TypeOK
  <1>3. \A x \in Session : [x EXCEPT !.live = FALSE] \in Session
    BY DEF Session
  <1>4. \A x \in Token : [x EXCEPT !.live = FALSE] \in Token
    BY DEF Token
  <1>5. sessions' \in [Sessions -> Session \cup {NoSession}]
    BY <1>1, <1>3 DEF RevokeIdentity, TypeInv, TypeOK
  <1>6. tokens' \in [Tokens -> Token \cup {NoToken}]
    BY <1>2, <1>4 DEF RevokeIdentity, TypeInv, TypeOK
  <1>7. ASSUME NEW s \in Sessions
        PROVE  /\ (sessions[s] = NoSession) = (sessions'[s] = NoSession)
               /\ sessions[s] # NoSession =>
                    /\ sessions'[s].user = sessions[s].user
                    /\ sessions'[s].epoch = sessions[s].epoch
                    /\ sessions'[s].live = (sessions[s].live /\ sessions[s].user # u)
    BY <1>1, <1>3, AccountConstants DEF RevokeIdentity, Session
  <1>8. ASSUME NEW t \in Tokens
        PROVE  /\ (tokens[t] = NoToken) = (tokens'[t] = NoToken)
               /\ tokens[t] # NoToken =>
                    /\ tokens'[t].user = tokens[t].user
                    /\ tokens'[t].epoch = tokens[t].epoch
                    /\ tokens'[t].live = (tokens[t].live /\ tokens[t].user # u)
    BY <1>2, <1>4, AccountConstants DEF RevokeIdentity, Token
  <1>9. QED
    BY <1>5, <1>6, <1>7, <1>8

\* Every step keeps the type.
LEMMA StepTypeOK ==
    ASSUME TypeInv, [Next]_vars
    PROVE  TypeOK'
  <1>t. /\ accounts \in [Users -> Row \cup {NoUser}]
        /\ sessions \in [Sessions -> Session \cup {NoSession}]
        /\ tokens \in [Tokens -> Token \cup {NoToken}]
        /\ clock \in Nat /\ hashes \in Nat /\ started \in Nat
        /\ pc \in [Requests -> Labels]
        /\ order \in [Requests -> Orders]
        /\ who \in [Requests -> Users]
        /\ expected \in [Requests -> Nat]
        /\ want \in [Requests -> Row] /\ seen \in [Requests -> Row] /\ base \in [Requests -> Row]
        /\ answer \in [Requests -> Answers]
        /\ epoch \in [Users -> Nat]
    BY DEF TypeInv, TypeOK
  <1>o. \A p \in Requests : /\ order[p].op \in Ops /\ order[p].session \in Sessions
                            /\ order[p].target \in Users /\ order[p].token \in Tokens
                            /\ order[p].name \in Names /\ order[p].change \in Change
    BY <1>t, AccountConstants
  <1>u. \A u \in Users : Exists(u) => accounts[u] \in Row /\ accounts[u].mtime \in Nat
    BY <1>t DEF Exists, Row
  <1>e. \A u \in Users : CountIdentityChange(u) => epoch' \in [Users -> Nat]
    BY <1>t DEF CountIdentityChange
  <1>1. ASSUME NEW p \in Requests, NEW o \in Orders, NEW e \in Nat, StartRequest(p, o, e)
        PROVE  TypeOK'
    BY <1>1, <1>t, AccountConstants
    DEF StartRequest, TypeOK, Labels, Answers, tables, ghosts, Ops, AdminOps, SessionOps
  <1>2. ASSUME NEW p \in Requests, CheckSession(p)
        PROVE  TypeOK'
    <2>1. \A s \in Sessions : sessions[s] # NoSession => sessions[s].user \in Users
      BY <1>t DEF Session
    <2>2. who' \in [Requests -> Users]
      BY <1>2, <1>t, <1>o, <2>1 DEF CheckSession
    <2>3. pc' \in [Requests -> Labels] /\ answer' \in [Requests -> Answers]
      BY <1>2, <1>t DEF CheckSession, Goto, Finish, Labels, Answers
    <2>4. QED
      BY <1>2, <1>t, <2>2, <2>3 DEF CheckSession, ReadOnly, TypeOK, tables
  <1>3. ASSUME NEW p \in Requests, CheckUser(p)
        PROVE  TypeOK'
    BY <1>3, <1>t, <1>o DEF CheckUser, ReadOnly, Goto, Finish, TypeOK, Labels, Answers,
             tables, progress, ghosts, Ops, AdminOps, SessionOps
  <1>4. ASSUME NEW p \in Requests, Setup(p)
        PROVE  TypeOK'
    <2>1. [name |-> order[p].name, access |-> "admin", enabled |-> TRUE,
           hash |-> hashes + 1, mtime |-> clock] \in Row
      BY <1>t, <1>o DEF Row, Access
    <2>2. /\ accounts' \in [Users -> Row \cup {NoUser}] /\ hashes' \in Nat
          /\ who' \in [Requests -> Users] /\ seen' \in [Requests -> Row] /\ epoch' \in [Users -> Nat]
      <3>1. CASE UNCHANGED <<accounts, hashes, who, seen, epoch>>
        BY <3>1, <1>t
      <3>2. CASE ~UNCHANGED <<accounts, hashes, who, seen, epoch>>
        <4>1. PICK u \in Users, row \in Row :
                 /\ accounts' = [accounts EXCEPT ![u] = row]
                 /\ who' = [who EXCEPT ![p] = u] /\ seen' = [seen EXCEPT ![p] = row]
                 /\ CountIdentityChange(u)
          BY <1>4, <3>2, <2>1 DEF Setup
        <4>2. hashes' = hashes + 1
          BY <1>4, <3>2 DEF Setup
        <4>3. QED
          BY <4>1, <4>2, <1>t, <1>e
      <3>3. QED
        BY <3>1, <3>2
    <2>3. QED
      BY <1>4, <1>t, <2>2 DEF Setup, Goto, Finish, TypeOK, Labels, Answers
  <1>5. ASSUME NEW p \in Requests, Login(p)
        PROVE  TypeOK'
    BY <1>5, <1>t, <1>u DEF Login, Named, ReadOnly, Goto, Finish, TypeOK, Labels, Answers, tables, ghosts
  <1>6. ASSUME NEW p \in Requests, CreateSession(p)
        PROVE  TypeOK'
    <2>1. /\ who[p] \in Users /\ clock + Idle \in Nat /\ clock + Absolute \in Nat
          /\ epoch[who[p]] \in Nat
      BY <1>t, AccountConstants
    <2>2. [user |-> who[p], live |-> TRUE, idle |-> clock + Idle, absolute |-> clock + Absolute,
           epoch |-> epoch[who[p]]] \in Session
      BY <2>1 DEF Session
    <2>3. sessions' \in [Sessions -> Session \cup {NoSession}]
      BY <1>6, <1>t, <2>2 DEF CreateSession
    <2>4. QED
      BY <1>6, <1>t, <2>3 DEF CreateSession, Finish, TypeOK, Labels, Answers, progress
  <1>7. ASSUME NEW p \in Requests, Logout(p)
        PROVE  TypeOK'
    <2>1. sessions[order[p].session] \in Session
      BY <1>7, <1>t, <1>o DEF Logout, TypeInv, LabelInv, RequestInv, Holding
    <2>2. [sessions[order[p].session] EXCEPT !.live = FALSE] \in Session
      BY <2>1 DEF Session
    <2>3. sessions' \in [Sessions -> Session \cup {NoSession}]
      BY <1>7, <1>t, <2>2 DEF Logout
    <2>4. QED
      BY <1>7, <1>t, <2>3 DEF Logout, Finish, TypeOK, Labels, Answers, progress, ghosts
  <1>8. ASSUME NEW p \in Requests, IssueToken(p)
        PROVE  TypeOK'
    <2>1. [user |-> who[p], live |-> TRUE, until |-> clock + Lifetime, epoch |-> epoch[who[p]]] \in Token
      BY <1>t, AccountConstants DEF Token
    <2>2. tokens' \in [Tokens -> Token \cup {NoToken}]
      BY <1>8, <1>t, <2>1 DEF IssueToken
    <2>3. QED
      BY <1>8, <1>t, <2>2 DEF IssueToken, Finish, TypeOK, Labels, Answers, progress, ghosts
  <1>9. ASSUME NEW p \in Requests, RevokeToken(p)
        PROVE  TypeOK'
    <2>1. \A x \in Token : [x EXCEPT !.live = FALSE] \in Token
      BY DEF Token
    <2>2. tokens' \in [Tokens -> Token \cup {NoToken}]
      BY <1>9, <1>t, <1>o, <2>1 DEF RevokeToken
    <2>3. QED
      BY <1>9, <1>t, <2>2 DEF RevokeToken, Finish, TypeOK, Labels, Answers, progress, ghosts
  <1>10. ASSUME NEW p \in Requests, ChangePassword(p)
        PROVE  TypeOK'
    BY <1>10, <1>t, <1>u DEF ChangePassword, IsEnabled, ReadOnly, Goto, Finish, TypeOK, Labels,
             Answers, tables
  <1>11. ASSUME NEW p \in Requests, RecoverPassword(p)
        PROVE  TypeOK'
    BY <1>11, <1>t, <1>u DEF RecoverPassword, Named, ReadOnly, Goto, Finish, TypeOK, Labels,
             Answers, tables
  <1>12. ASSUME NEW p \in Requests, SetPassword(p)
        PROVE  TypeOK'
    <2>0. Exists(who[p]) /\ who[p] \in Users
      BY <1>12, <1>t DEF SetPassword, TypeInv, LabelInv, RequestInv, Anonymous
    <2>1. accounts[who[p]] \in Row /\ NextUpdatedAt(accounts[who[p]].mtime) \in Nat
      BY <1>t, <1>u, <2>0 DEF NextUpdatedAt
    <2>2. \A h, m \in Nat : [accounts[who[p]] EXCEPT !.hash = h, !.mtime = m] \in Row
      BY <2>1 DEF Row
    <2>3. CASE UNCHANGED <<tables, hashes, epoch>>
      BY <1>12, <2>3, <1>t DEF SetPassword, Finish, TypeOK, Labels, Answers, tables, progress
    <2>4. CASE ~UNCHANGED <<tables, hashes, epoch>>
      <3>1. /\ accounts' = [accounts EXCEPT ![who[p]].hash = hashes + 1,
                                            ![who[p]].mtime = NextUpdatedAt(@)]
            /\ hashes' = hashes + 1 /\ RevokeIdentity(who[p]) /\ CountIdentityChange(who[p])
        BY <1>12, <2>4 DEF SetPassword
      <3>2. accounts' = [accounts EXCEPT ![who[p]] =
                [accounts[who[p]] EXCEPT !.hash = hashes + 1,
                                         !.mtime = NextUpdatedAt(accounts[who[p]].mtime)]]
        BY <3>1, <2>0, <2>1, <1>t DEF Row
      <3>3. accounts' \in [Users -> Row \cup {NoUser}] /\ hashes' \in Nat
        <4>1. hashes + 1 \in Nat
          BY <1>t
        <4>2. [accounts[who[p]] EXCEPT !.hash = hashes + 1,
                                       !.mtime = NextUpdatedAt(accounts[who[p]].mtime)] \in Row
          BY <4>1, <2>1, <2>2
        <4>3. QED
          BY <3>1, <3>2, <4>1, <4>2, <2>0, <1>t
      <3>4. /\ sessions' \in [Sessions -> Session \cup {NoSession}]
            /\ tokens' \in [Tokens -> Token \cup {NoToken}] /\ epoch' \in [Users -> Nat]
        BY <3>1, <2>0, <1>e, RevokeType
      <3>5. QED
        BY <1>12, <3>3, <3>4, <1>t DEF SetPassword, Finish, TypeOK, Labels, Answers, progress
    <2>5. QED
      BY <2>3, <2>4
  <1>13. ASSUME NEW p \in Requests, Authorize(p)
        PROVE  TypeOK'
    BY <1>13, <1>t DEF Authorize, ReadOnly, Goto, Finish, TypeOK, Labels, Answers, tables, progress, ghosts
  <1>14. ASSUME NEW p \in Requests, InsertUser(p)
        PROVE  TypeOK'
    <2>1. [name |-> order[p].change.name, access |-> order[p].change.access,
           enabled |-> order[p].change.enabled, hash |-> hashes + 1, mtime |-> clock] \in Row
      BY <1>t, <1>o DEF Row, Change
    <2>2. accounts' \in [Users -> Row \cup {NoUser}] /\ hashes' \in Nat
      BY <1>14, <1>t, <2>1 DEF InsertUser
    <2>3. QED
      BY <1>14, <1>t, <2>2 DEF InsertUser, Finish, TypeOK, Labels, Answers, progress, ghosts
  <1>15. ASSUME NEW p \in Requests, LoadUser(p)
        PROVE  TypeOK'
    <2>1. order[p] \in Orders /\ hashes + 1 \in Nat
      BY <1>t
    <2>2. /\ want' \in [Requests -> Row] /\ base' \in [Requests -> Row]
          /\ expected' \in [Requests -> Nat] /\ hashes' \in Nat
      <3>1. CASE accounts[order[p].target] = NoUser
        BY <1>15, <1>t, <3>1 DEF LoadUser
      <3>2. CASE accounts[order[p].target] # NoUser
        <4>1. PICK row \in Row : row = accounts[order[p].target]
          BY <3>2, <1>t, <1>o
        <4>2. /\ base' = [base EXCEPT ![p] = row]
              /\ \/ /\ want' = [want EXCEPT ![p] = Applied(row, order[p].change)]
                    /\ UNCHANGED <<expected, hashes>>
                 \/ /\ want' = [want EXCEPT ![p] = [row EXCEPT !.hash = hashes + 1]]
                    /\ hashes' = hashes + 1
                    /\ expected' = [expected EXCEPT ![p] = row.mtime]
          BY <1>15, <3>2, <4>1 DEF LoadUser
        <4>3. /\ Applied(row, order[p].change) \in Row
              /\ [row EXCEPT !.hash = hashes + 1] \in Row
              /\ row.mtime \in Nat
          BY <2>1, AppliedType, RowUpdates
        <4>4. PICK w \in Row, e \in Nat :
                 /\ want' = [want EXCEPT ![p] = w]
                 /\ expected' = expected \/ expected' = [expected EXCEPT ![p] = e]
                 /\ hashes' \in Nat
          BY <4>2, <4>3, <2>1, <1>t
        <4>5. QED
          BY <4>2, <4>4, <1>t
      <3>3. QED
        BY <3>1, <3>2
    <2>3. QED
      BY <1>15, <1>t, <2>2 DEF LoadUser, Goto, Finish, TypeOK, Labels, Answers, tables
  <1>16. ASSUME NEW p \in Requests, CompareUser(p)
        PROVE  TypeOK'
    <2>1. accounts[order[p].target] \in Row
      BY <1>16, <1>o, <1>u DEF CompareUser, TypeInv, LabelInv, RequestInv, Version, Updating
    <2>2. QED
      BY <1>16, <1>t, <2>1 DEF CompareUser, ReadOnly, Goto, TypeOK, Labels, Answers, tables, ghosts
  <1>17. ASSUME NEW p \in Requests, CountAdmins(p)
        PROVE  TypeOK'
    BY <1>17, <1>t DEF CountAdmins, ReadOnly, Goto, Finish, TypeOK, Labels, Answers, tables, progress, ghosts
  <1>18. ASSUME NEW p \in Requests, CommitUpdate(p)
        PROVE  TypeOK'
    <2>0. Exists(order[p].target) /\ order[p].target \in Users
      BY <1>18, <1>o DEF CommitUpdate, TypeInv, LabelInv, RequestInv, Version, Updating
    <2>1. [want[p] EXCEPT !.mtime = NextUpdatedAt(accounts[order[p].target].mtime)] \in Row
      <3>1. NextUpdatedAt(accounts[order[p].target].mtime) \in Nat
        BY <1>t, <1>u, <2>0 DEF NextUpdatedAt
      <3>2. want[p] \in Row
        BY <1>t
      <3>3. QED
        BY <3>1, <3>2 DEF Row
    <2>2. accounts' \in [Users -> Row \cup {NoUser}] /\ epoch' \in [Users -> Nat]
      BY <1>18, <1>t, <1>e, <2>0, <2>1 DEF CommitUpdate, tables
    <2>3. /\ sessions' \in [Sessions -> Session \cup {NoSession}]
          /\ tokens' \in [Tokens -> Token \cup {NoToken}]
      BY <1>18, <1>t, <2>0, RevokeType DEF CommitUpdate, tables
    <2>4. QED
      BY <1>18, <1>t, <2>2, <2>3 DEF CommitUpdate, Finish, TypeOK, Labels, Answers, progress
  <1>19. ASSUME NEW p \in Requests, Fault(p)
        PROVE  TypeOK'
    BY <1>19, <1>t DEF Fault, ReadOnly, Finish, TypeOK, Labels, Answers, tables, progress, ghosts
  <1>20. ASSUME Tick
        PROVE  TypeOK'
    BY <1>20, <1>t DEF Tick, TypeOK, tables, progress, ghosts
  <1>21. ASSUME Restart
        PROVE  TypeOK'
    BY <1>21, <1>t DEF Restart, TypeOK, Labels, Answers, tables, progress, ghosts
  <1>22. ASSUME UNCHANGED vars
        PROVE  TypeOK'
    BY <1>22, <1>t DEF vars, TypeOK
  <1>23. QED
    <2>1. 0..(MaxClock + MaxRequests) \subseteq Nat
      BY AccountConstants
    <2>2. QED
      BY <1>1, <1>2, <1>3, <1>4, <1>5, <1>6, <1>7, <1>8, <1>9, <1>10, <1>11, <1>12, <1>13,
         <1>14, <1>15, <1>16, <1>17, <1>18, <1>19, <1>20, <1>21, <1>22, <2>1 DEF Next, Step

-----------------------------------------------------------------------------
(***************************************************************************)
(* Rows only grow: accounts and sessions never disappear, and a changed    *)
(* account has a later modification time.                                  *)
(***************************************************************************)
Newer(u) == Exists(u) => /\ Exists(u)'
                         /\ \/ accounts'[u] = accounts[u]
                            \/ accounts[u].mtime < accounts'[u].mtime
SessionStays(s) == sessions[s] # NoSession =>
                      sessions'[s] # NoSession /\ sessions'[s].user = sessions[s].user

\* nextUpdatedAt yields a later time.
LEMMA NextIsLater == ASSUME clock \in Nat, NEW m \in Nat
                     PROVE  NextUpdatedAt(m) \in Nat /\ m < NextUpdatedAt(m)
  BY DEF NextUpdatedAt

PasswordSet(u, new) ==
    /\ accounts' = [accounts EXCEPT ![u] = new]
    /\ accounts[u].mtime < new.mtime /\ new.hash = hashes + 1
    /\ new.name = accounts[u].name /\ new.access = accounts[u].access
    /\ new.enabled = accounts[u].enabled

\* What SetPassword does to the row, when it does anything.
LEMMA SetPasswordRow ==
    ASSUME TypeInv, NEW p \in Requests, SetPassword(p), ~UNCHANGED <<tables, hashes, epoch>>
    PROVE  /\ who[p] \in Users /\ Exists(who[p]) /\ accounts[who[p]] \in Row
           /\ \E new \in Row : PasswordSet(who[p], new)
           /\ RevokeIdentity(who[p]) /\ CountIdentityChange(who[p])
  <1>1. /\ who[p] \in Users /\ Exists(who[p])
        /\ accounts \in [Users -> Row \cup {NoUser}] /\ hashes \in Nat /\ clock \in Nat
    BY DEF SetPassword, TypeInv, TypeOK, LabelInv, RequestInv, Anonymous
  <1>2. accounts[who[p]] \in Row
    BY <1>1 DEF Exists
  <1>3. /\ accounts' = [accounts EXCEPT ![who[p]].hash = hashes + 1,
                                        ![who[p]].mtime = NextUpdatedAt(@)]
        /\ RevokeIdentity(who[p]) /\ CountIdentityChange(who[p])
    BY DEF SetPassword
  <1> DEFINE old == accounts[who[p]]
             new == [old EXCEPT !.hash = hashes + 1, !.mtime = NextUpdatedAt(old.mtime)]
  <1>4. accounts' = [accounts EXCEPT ![who[p]] = new]
    BY <1>1, <1>2, <1>3 DEF Row
  <1>5. hashes + 1 \in Nat /\ NextUpdatedAt(old.mtime) \in Nat /\ old.mtime < NextUpdatedAt(old.mtime)
    <2>1. old.mtime \in Nat
      BY <1>2 DEF Row
    <2>2. QED
      BY <1>1, <2>1, NextIsLater
  <1>6. /\ new \in Row
        /\ new.hash = hashes + 1 /\ new.mtime = NextUpdatedAt(old.mtime)
        /\ new.name = old.name /\ new.access = old.access /\ new.enabled = old.enabled
    BY <1>2, <1>5 DEF Row
  <1>7. \E x \in Row : PasswordSet(who[p], x)
    <2>1. PasswordSet(who[p], new)
      BY <1>4, <1>5, <1>6 DEF PasswordSet
    <2>2. QED
      BY <1>6, <2>1
  <1>8. QED
    BY <1>1, <1>2, <1>3, <1>7

\* Rows only grow.
LEMMA RowsGrow ==
    ASSUME TypeInv, [Next]_vars
    PROVE  /\ \A u \in Users : Newer(u)
           /\ \A s \in Sessions : SessionStays(s)
  <1>t. /\ accounts \in [Users -> Row \cup {NoUser}] /\ clock \in Nat /\ hashes \in Nat
        /\ sessions \in [Sessions -> Session \cup {NoSession}]
        /\ want \in [Requests -> Row] /\ order \in [Requests -> Orders]
        /\ who \in [Requests -> Users]
    BY DEF TypeInv, TypeOK
  <1>o. \A p \in Requests : order[p].target \in Users /\ order[p].session \in Sessions
    BY <1>t, AccountConstants
  <1>u. \A u \in Users : Exists(u) => accounts[u] \in Row /\ accounts[u].mtime \in Nat
    BY <1>t DEF Exists, Row
  <1>1. ASSUME NEW p \in Requests, Setup(p)
        PROVE  UNCHANGED sessions /\ \A u \in Users : Newer(u)
    BY <1>1, <1>t DEF Setup, Newer, Exists
  <1>2. ASSUME NEW p \in Requests, InsertUser(p)
        PROVE  UNCHANGED sessions /\ \A u \in Users : Newer(u)
    BY <1>2, <1>t DEF InsertUser, Newer, Exists
  <1>3. ASSUME NEW p \in Requests, SetPassword(p)
        PROVE  (\A u \in Users : Newer(u)) /\ (\A s \in Sessions : SessionStays(s))
    <2>1. CASE UNCHANGED <<tables, hashes, epoch>>
      BY <2>1 DEF tables, Newer, Exists, SessionStays
    <2>2. CASE ~UNCHANGED <<tables, hashes, epoch>>
      <3>1. who[p] \in Users /\ accounts[who[p]] \in Row /\ RevokeIdentity(who[p])
        BY <1>3, <2>2, SetPasswordRow
      <3>2. PICK new \in Row : PasswordSet(who[p], new)
        BY <1>3, <2>2, SetPasswordRow
      <3>4. \A u \in Users : Newer(u)
        BY <3>1, <3>2, <1>t, AccountConstants DEF PasswordSet, Newer, Exists
      <3>5. QED
        BY <3>1, <3>4, RevokeType DEF SessionStays
    <2>3. QED
      BY <2>1, <2>2
  <1>4. ASSUME NEW p \in Requests, CommitUpdate(p)
        PROVE  (\A u \in Users : Newer(u)) /\ (\A s \in Sessions : SessionStays(s))
    <2>0. Exists(order[p].target) /\ order[p].target \in Users
      BY <1>4, <1>o DEF CommitUpdate, TypeInv, LabelInv, RequestInv, Version, Updating
    <2>1. CASE UNCHANGED tables
      BY <2>1 DEF tables, Newer, Exists, SessionStays
    <2>2. CASE ~UNCHANGED tables
      <3>1. /\ accounts' = [accounts EXCEPT ![order[p].target] =
                  [want[p] EXCEPT !.mtime = NextUpdatedAt(accounts[order[p].target].mtime)]]
            /\ RevokeIdentity(order[p].target) \/ UNCHANGED sessions
        BY <1>4, <2>2 DEF CommitUpdate
      <3>2. accounts[order[p].target].mtime \in Nat
        BY <1>u, <2>0
      <3>3. /\ accounts'[order[p].target] \in Row
            /\ accounts[order[p].target].mtime < accounts'[order[p].target].mtime
        BY <3>1, <3>2, <2>0, <1>t, NextIsLater DEF Row
      <3>4. \A u \in Users : Newer(u)
        BY <3>1, <3>3, <2>0, <1>t, AccountConstants DEF Newer, Exists
      <3>5. QED
        BY <3>1, <3>4, <2>0, RevokeType DEF SessionStays
    <2>3. QED
      BY <2>1, <2>2
  <1>5. ASSUME NEW p \in Requests, CreateSession(p) \/ Logout(p)
        PROVE  UNCHANGED accounts /\ \A s \in Sessions : SessionStays(s)
    <2>1. ASSUME CreateSession(p)
          PROVE  \A s \in Sessions : SessionStays(s)
      BY <2>1, <1>t DEF CreateSession, SessionStays
    <2>2. ASSUME Logout(p)
          PROVE  \A s \in Sessions : SessionStays(s)
      <3>1. sessions[order[p].session] \in Session
        BY <2>2, <1>t, <1>o DEF Logout, TypeInv, LabelInv, RequestInv, Holding
      <3>2. /\ [sessions[order[p].session] EXCEPT !.live = FALSE] \in Session
            /\ [sessions[order[p].session] EXCEPT !.live = FALSE].user = sessions[order[p].session].user
        BY <3>1 DEF Session
      <3>3. QED
        <4>1. PICK x \in Session : /\ x.user = sessions[order[p].session].user
                                   /\ x = [sessions[order[p].session] EXCEPT !.live = FALSE]
          BY <3>2
        <4>2. sessions' = [sessions EXCEPT ![order[p].session] = x]
          BY <2>2, <4>1 DEF Logout
        <4>3. QED
          BY <4>1, <4>2, <1>t, <1>o, AccountConstants DEF SessionStays
    <2>3. QED
      BY <1>5, <2>1, <2>2 DEF CreateSession, Logout
  <1>6. ASSUME UNCHANGED accounts
        PROVE  \A u \in Users : Newer(u)
    BY <1>6 DEF Newer, Exists
  <1>7. ASSUME UNCHANGED sessions
        PROVE  \A s \in Sessions : SessionStays(s)
    BY <1>7 DEF SessionStays
  <1>8. ASSUME NEW p \in Requests, Step(p)
        PROVE  (\A u \in Users : Newer(u)) /\ (\A s \in Sessions : SessionStays(s))
    <2>1. CASE Setup(p) \/ InsertUser(p) \/ SetPassword(p) \/ CommitUpdate(p)
      BY <2>1, <1>1, <1>2, <1>3, <1>4, <1>7
    <2>2. CASE CreateSession(p) \/ Logout(p)
      BY <2>2, <1>5, <1>6
    <2>3. CASE ~(Setup(p) \/ InsertUser(p) \/ SetPassword(p) \/ CommitUpdate(p)
                 \/ CreateSession(p) \/ Logout(p))
      <3>1. UNCHANGED <<accounts, sessions>>
        BY <1>8, <2>3 DEF Step, CheckSession, CheckUser, Login, IssueToken, RevokeToken,
           ChangePassword, RecoverPassword, Authorize, LoadUser, CompareUser, CountAdmins,
           Fault, ReadOnly, tables
      <3>2. QED
        BY <3>1, <1>6, <1>7
    <2>4. QED
      BY <2>1, <2>2, <2>3
  <1>9. ASSUME \/ \E p \in Requests, o \in Orders, e \in 0..(MaxClock + MaxRequests) : StartRequest(p, o, e)
               \/ Tick \/ Restart \/ UNCHANGED vars
        PROVE  (\A u \in Users : Newer(u)) /\ (\A s \in Sessions : SessionStays(s))
    BY <1>6, <1>7, <1>9 DEF StartRequest, Tick, Restart, vars, tables
  <1>10. QED
    BY <1>8, <1>9 DEF Next

-----------------------------------------------------------------------------
(***************************************************************************)
(* What a request knows survives the steps of the others, and each of its  *)
(* own steps establishes what the next one relies on.                      *)
(***************************************************************************)
Unmoved(q) == /\ pc'[q] = pc[q] /\ order'[q] = order[q] /\ who'[q] = who[q]
              /\ expected'[q] = expected[q] /\ want'[q] = want[q]
              /\ seen'[q] = seen[q] /\ base'[q] = base[q]

\* A step of one request moves no other.
LEMMA OthersUnmoved ==
    ASSUME TypeInv, NEW p \in Requests, NEW q \in Requests, q # p,
           Step(p) \/ \E o \in Orders, e \in Nat : StartRequest(p, o, e)
    PROVE  Unmoved(q)
  <1>t. /\ pc \in [Requests -> Labels] /\ order \in [Requests -> Orders]
        /\ who \in [Requests -> Users] /\ expected \in [Requests -> Nat]
        /\ want \in [Requests -> Row] /\ seen \in [Requests -> Row] /\ base \in [Requests -> Row]
    BY DEF TypeInv, TypeOK
  <1>1. CASE CheckSession(p) \/ CheckUser(p) \/ Setup(p) \/ Login(p) \/ CreateSession(p) \/ Logout(p)
    BY <1>1, <1>t DEF CheckSession, CheckUser, Setup, Login, CreateSession, Logout, Unmoved,
       Goto, Finish, progress, ghosts
  <1>2. CASE IssueToken(p) \/ RevokeToken(p) \/ ChangePassword(p) \/ RecoverPassword(p) \/ SetPassword(p)
    BY <1>2, <1>t DEF IssueToken, RevokeToken, ChangePassword, RecoverPassword, SetPassword, Unmoved,
       Goto, Finish, progress, ghosts
  <1>3. CASE Authorize(p) \/ InsertUser(p) \/ CompareUser(p) \/ CountAdmins(p) \/ CommitUpdate(p) \/ Fault(p)
    BY <1>3, <1>t DEF Authorize, InsertUser, CompareUser, CountAdmins, CommitUpdate, Fault, Unmoved,
       Goto, Finish, progress, ghosts
  <1>4. CASE LoadUser(p)
    BY <1>4, <1>t DEF LoadUser, Unmoved, Goto, Finish
  <1>5. CASE \E o \in Orders, e \in Nat : StartRequest(p, o, e)
    BY <1>5, <1>t DEF StartRequest, Unmoved, ghosts
  <1>6. QED
    BY <1>1, <1>2, <1>3, <1>4, <1>5 DEF Step

\* A version stays a version while rows only grow.
LEMMA VersionStays ==
    ASSUME TypeInv, TypeOK', NEW u \in Users, Newer(u), NEW row \in Row, Version(row, u)
    PROVE  Version(row, u)'
  <1>1. /\ accounts[u] \in Row /\ accounts'[u] \in Row
        /\ accounts[u].mtime \in Nat /\ accounts'[u].mtime \in Nat /\ row.mtime \in Nat
    BY DEF TypeInv, TypeOK, Version, Newer, Exists, Row
  <1>2. CASE accounts'[u] = accounts[u]
    BY <1>2 DEF Version, Exists
  <1>3. CASE accounts[u].mtime < accounts'[u].mtime
    BY <1>1, <1>3 DEF Version, Newer
  <1>4. QED
    BY <1>2, <1>3 DEF Newer, Version

\* A request that did not move keeps what it knows.
LEMMA UnmovedKeeps ==
    ASSUME TypeInv, TypeOK', NEW q \in Requests, Unmoved(q),
           \A u \in Users : Newer(u), \A s \in Sessions : SessionStays(s)
    PROVE  RequestInv(q)'
  <1>1. /\ order[q].target \in Users /\ order[q].session \in Sessions /\ who[q] \in Users
        /\ base[q] \in Row /\ seen[q] \in Row /\ expected[q] \in Nat
    BY AccountConstants DEF TypeInv, TypeOK
  <1>2. RequestInv(q)
    BY DEF TypeInv, LabelInv
  <1>3. \A u \in Users : Exists(u) => Exists(u)'
    BY DEF Newer
  <1>4. pc'[q] \notin Anonymous => Exists(who[q])'
    BY <1>1, <1>2, <1>3 DEF RequestInv, Unmoved, Exists
  <1>5. pc'[q] \in Holding => sessions'[order'[q].session] # NoSession
    BY <1>1, <1>2 DEF RequestInv, Unmoved, SessionStays
  <1>6. pc'[q] \notin {"idle", "done", "set_password"} /\ order'[q].op = "edit" =>
           /\ accounts'[order'[q].target] # NoUser
           /\ expected'[q] <= accounts'[order'[q].target].mtime
    <2>1. \A u \in Users : Exists(u) => /\ accounts[u].mtime \in Nat /\ accounts'[u].mtime \in Nat
                                        /\ accounts[u].mtime <= accounts'[u].mtime
      <3> SUFFICES ASSUME NEW u \in Users, Exists(u)
                   PROVE  /\ accounts[u].mtime \in Nat /\ accounts'[u].mtime \in Nat
                          /\ accounts[u].mtime <= accounts'[u].mtime
        OBVIOUS
      <3>1. accounts[u] \in Row /\ accounts'[u] \in Row
        BY <1>3 DEF Exists, TypeInv, TypeOK
      <3>2. accounts'[u] = accounts[u] \/ accounts[u].mtime < accounts'[u].mtime
        BY DEF Newer
      <3>3. QED
        BY <3>1, <3>2 DEF Row
    <2>2. QED
      BY <1>1, <1>2, <1>3, <2>1 DEF RequestInv, Unmoved, Exists
  <1>7. pc'[q] \in Updating => expected'[q] <= base'[q].mtime /\ Version(base[q], order[q].target)'
    BY <1>1, <1>2, VersionStays DEF RequestInv, Unmoved, Version, Exists
  <1>8. pc'[q] \in Judged => base'[q].mtime <= seen'[q].mtime /\ Version(seen[q], order[q].target)'
    BY <1>1, <1>2, VersionStays DEF RequestInv, Unmoved, Version, Exists
  <1>9. pc'[q] = "set_password" => expected'[q] = base'[q].mtime /\ Version(base[q], who[q])'
    BY <1>1, <1>2, VersionStays DEF RequestInv, Unmoved, Version, Exists
  <1>10. QED
    BY <1>4, <1>5, <1>6, <1>7, <1>8, <1>9 DEF RequestInv, Exists

\* A step of a request establishes what the request then knows.
LEMMA OwnStep ==
    ASSUME TypeInv, TypeOK', NEW p \in Requests, Step(p),
           \A u \in Users : Newer(u), \A s \in Sessions : SessionStays(s)
    PROVE  RequestInv(p)'
  <1>t. /\ pc \in [Requests -> Labels] /\ order \in [Requests -> Orders]
        /\ who \in [Requests -> Users] /\ expected \in [Requests -> Nat]
        /\ want \in [Requests -> Row] /\ seen \in [Requests -> Row] /\ base \in [Requests -> Row]
        /\ accounts \in [Users -> Row \cup {NoUser}]
        /\ sessions \in [Sessions -> Session \cup {NoSession}]
    BY DEF TypeInv, TypeOK
  <1>o. /\ order[p].target \in Users /\ order[p].session \in Sessions /\ who[p] \in Users
        /\ base[p] \in Row /\ seen[p] \in Row /\ expected[p] \in Nat
    BY <1>t, AccountConstants
  <1>i. RequestInv(p)
    BY DEF TypeInv, LabelInv
  <1>u. \A u \in Users : Exists(u) => accounts[u] \in Row /\ accounts[u].mtime \in Nat
    BY <1>t DEF Exists, Row
  <1>f. ASSUME pc'[p] = "done"
        PROVE  RequestInv(p)'
    BY <1>f DEF RequestInv, Anonymous, Holding, Updating, Judged
  <1>1. CASE CheckSession(p)
    <2>1. \A s \in Sessions : sessions[s] # NoSession => Exists(sessions[s].user)
      BY DEF TypeInv, LabelInv, OwnersExist
    <2>2. CASE pc'[p] # "done"
      <3>1. /\ pc'[p] \in {"principal", "holder"} /\ sessions[order[p].session] # NoSession
            /\ who'[p] = sessions[order[p].session].user
            /\ pc[p] \in {"cookie", "csrf"}
            /\ UNCHANGED <<accounts, sessions, order, expected, base, seen>>
        BY <1>1, <2>2, <1>t DEF CheckSession, Goto, Finish, ReadOnly, tables
      <3>2. QED
        BY <3>1, <2>1, <1>o, <1>i DEF RequestInv, Anonymous, Holding, Updating, Judged, Exists
    <2>3. QED
      BY <2>2, <1>f
  <1>2. CASE CheckUser(p)
    <2>1. CASE pc'[p] # "done"
      <3>1. /\ pc'[p] \in {"csrf", "authorize", "logout", "password", "issue", "revoke"} \cup Ops
            /\ pc[p] \in {"principal", "holder"} /\ pc'[p] \notin Updating \cup Judged \cup {"set_password"}
            /\ UNCHANGED <<accounts, sessions, order, who, expected, base, seen>>
        BY <1>2, <2>1, <1>t, AccountConstants
        DEF CheckUser, Goto, Finish, ReadOnly, tables, progress, ghosts, Ops, SessionOps, AdminOps, Updating, Judged
      <3>2. QED
        BY <3>1, <1>i DEF RequestInv, Anonymous, Holding, Updating, Judged, Exists
    <2>2. QED
      BY <2>1, <1>f
  <1>3. CASE Setup(p)
    <2>1. CASE pc'[p] # "done"
      <3>1. /\ pc'[p] = "session" /\ pc[p] = "setup"
            /\ \A u \in Users : ~Exists(u)
            /\ UNCHANGED <<order, expected>>
        BY <1>3, <2>1, <1>t DEF Setup, Goto, Finish
      <3>3. accounts'[who'[p]] # NoUser
        <4>1. PICK u \in Users :
                 /\ accounts' = [accounts EXCEPT ![u] =
                       [name |-> order[p].name, access |-> "admin", enabled |-> TRUE,
                        hash |-> hashes + 1, mtime |-> clock]]
                 /\ who' = [who EXCEPT ![p] = u]
          BY <1>3, <2>1, <1>t DEF Setup, Goto, Finish
        <4>2. [name |-> order[p].name, access |-> "admin", enabled |-> TRUE,
               hash |-> hashes + 1, mtime |-> clock] \in Row
          BY <1>t, AccountConstants DEF Row, Access, TypeInv, TypeOK
        <4>3. QED
          BY <4>1, <4>2, <1>t, AccountConstants
      <3>2. QED
        BY <3>1, <3>3, <1>i, <1>o DEF RequestInv, Anonymous, Holding, Updating, Judged, Exists
    <2>2. QED
      BY <2>1, <1>f
  <1>4. CASE Login(p)
    <2>1. CASE pc'[p] # "done"
      <3>1. /\ pc'[p] = "session" /\ pc[p] = "login" /\ accounts[who'[p]] # NoUser
            /\ UNCHANGED <<order, expected, accounts>>
        BY <1>4, <2>1, <1>t DEF Login, Named, Exists, Goto, Finish, ReadOnly, tables
      <3>2. QED
        BY <3>1, <1>i DEF RequestInv, Anonymous, Holding, Updating, Judged, Exists
    <2>2. QED
      BY <2>1, <1>f
  <1>5. CASE \/ CreateSession(p) \/ Logout(p) \/ IssueToken(p) \/ RevokeToken(p)
             \/ SetPassword(p) \/ InsertUser(p) \/ CommitUpdate(p) \/ Fault(p)
    BY <1>5, <1>f, <1>t DEF CreateSession, Logout, IssueToken, RevokeToken, SetPassword, InsertUser,
       CommitUpdate, Fault, Finish
  <1>6. CASE ChangePassword(p) \/ RecoverPassword(p)
    <2>1. CASE pc'[p] # "done"
      <3>1. /\ pc'[p] = "set_password" /\ pc[p] \in {"password", "recover"}
            /\ Exists(who'[p]) /\ base'[p] = accounts[who'[p]]
            /\ expected'[p] = accounts[who'[p]].mtime
            /\ UNCHANGED <<order, accounts>>
        BY <1>6, <2>1, <1>t DEF ChangePassword, RecoverPassword, Named, IsEnabled, Exists, Goto, Finish,
           ReadOnly, tables
      <3>3. who'[p] \in Users /\ accounts[who'[p]].mtime \in Nat
        BY <3>1, <1>u DEF TypeOK
      <3>2. QED
        BY <3>1, <3>3, <1>i, <1>o DEF RequestInv, Version, Anonymous, Holding, Updating, Judged, Exists
    <2>2. QED
      BY <2>1, <1>f
  <1>7. CASE Authorize(p)
    <2>1. CASE pc'[p] # "done"
      <3>1. /\ \/ pc[p] = "authorize" /\ pc'[p] \in {"insert", "load"}
               \/ pc[p] = "reauthorize" /\ pc'[p] = "compare"
            /\ UNCHANGED <<accounts, sessions, order, who, expected, base, seen>>
        BY <1>7, <2>1, <1>t DEF Authorize, Goto, Finish, ReadOnly, tables, progress, ghosts
      <3>2. QED
        BY <3>1, <1>i DEF RequestInv, Version, Anonymous, Holding, Updating, Judged, Exists
    <2>2. QED
      BY <2>1, <1>f
  <1>8. CASE LoadUser(p)
    <2>1. CASE pc'[p] # "done"
      <3>1. /\ pc[p] = "load" /\ pc'[p] = "reauthorize" /\ Exists(order[p].target)
            /\ base'[p] = accounts[order[p].target]
            /\ \/ order[p].op = "edit" /\ expected'[p] = expected[p]
               \/ order[p].op # "edit" /\ expected'[p] = accounts[order[p].target].mtime
            /\ UNCHANGED <<accounts, order, who>>
        BY <1>8, <2>1, <1>t DEF LoadUser, Goto, Finish, Exists, tables
      <3>2. QED
        BY <3>1, <1>i, <1>o, <1>u DEF RequestInv, Version, Anonymous, Holding, Updating, Judged, Exists
    <2>2. QED
      BY <2>1, <1>f
  <1>9. CASE CompareUser(p)
    <2>1. /\ pc[p] = "compare" /\ pc'[p] \in Judged /\ seen'[p] = accounts[order[p].target]
          /\ UNCHANGED <<accounts, order, who, expected, base>>
      BY <1>9, <1>t DEF CompareUser, Goto, ReadOnly, tables, ghosts, Judged
    <2>2. QED
      BY <2>1, <1>i, <1>o, <1>u DEF RequestInv, Version, Anonymous, Holding, Updating, Judged, Exists
  <1>10. CASE CountAdmins(p)
    <2>1. CASE pc'[p] # "done"
      <3>1. /\ pc[p] = "count" /\ pc'[p] = "commit"
            /\ UNCHANGED <<accounts, order, who, expected, base, seen>>
        BY <1>10, <2>1, <1>t DEF CountAdmins, Goto, Finish, ReadOnly, tables, progress, ghosts
      <3>2. QED
        BY <3>1, <1>i DEF RequestInv, Version, Anonymous, Holding, Updating, Judged, Exists
    <2>2. QED
      BY <2>1, <1>f
  <1>11. QED
    BY <1>1, <1>2, <1>3, <1>4, <1>5, <1>6, <1>7, <1>8, <1>9, <1>10 DEF Step

-----------------------------------------------------------------------------
(***************************************************************************)
(* What a step may do to a session or a token: open it for the user the    *)
(* request acts for, or end it.                                            *)
(***************************************************************************)
SessionMoves(s) ==
    \/ sessions'[s] = sessions[s]
    \/ /\ sessions[s] # NoSession /\ sessions'[s] # NoSession
       /\ sessions'[s].user = sessions[s].user /\ sessions'[s].epoch = sessions[s].epoch
       /\ sessions'[s].live => sessions[s].live
    \/ \E p \in Requests : /\ pc[p] = "session" /\ epoch' = epoch
                           /\ sessions'[s].user = who[p] /\ sessions'[s].epoch = epoch[who[p]]
TokenMoves(t) ==
    \/ tokens'[t] = tokens[t]
    \/ /\ tokens[t] # NoToken /\ tokens'[t] # NoToken
       /\ tokens'[t].user = tokens[t].user /\ tokens'[t].epoch = tokens[t].epoch
       /\ tokens'[t].live => tokens[t].live
    \/ \E p \in Requests : /\ pc[p] = "issue" /\ UNCHANGED <<accounts, epoch>> /\ IsEnabled(who[p])
                           /\ tokens'[t].user = who[p] /\ tokens'[t].epoch = epoch[who[p]]

\* The steps that end or open one session.
LEMMA SessionSteps ==
    ASSUME TypeInv, NEW p \in Requests, CreateSession(p) \/ Logout(p)
    PROVE  \A s \in Sessions : SessionMoves(s)
  <1>t. /\ sessions \in [Sessions -> Session \cup {NoSession}] /\ who \in [Requests -> Users]
        /\ order \in [Requests -> Orders] /\ order[p].session \in Sessions
    BY AccountConstants DEF TypeInv, TypeOK
  <1>1. CASE CreateSession(p)
    <2>1. PICK s \in Sessions :
             sessions' = [sessions EXCEPT ![s] =
               [user |-> who[p], live |-> TRUE, idle |-> clock + Idle,
                absolute |-> clock + Absolute, epoch |-> epoch[who[p]]]]
      BY <1>1 DEF CreateSession
    <2>2. /\ sessions'[s].user = who[p] /\ sessions'[s].epoch = epoch[who[p]]
          /\ \A x \in Sessions \ {s} : sessions'[x] = sessions[x]
      BY <2>1, <1>t
    <2>3. pc[p] = "session" /\ epoch' = epoch
      BY <1>1 DEF CreateSession
    <2>4. QED
      BY <2>2, <2>3 DEF SessionMoves
  <1>2. CASE Logout(p)
    <2> DEFINE s == order[p].session
    <2>1. sessions[s] \in Session
      BY <1>2, <1>t DEF Logout, TypeInv, LabelInv, RequestInv, Holding
    <2>a. /\ [sessions[s] EXCEPT !.live = FALSE] \in Session
          /\ [sessions[s] EXCEPT !.live = FALSE].user = sessions[s].user
          /\ [sessions[s] EXCEPT !.live = FALSE].epoch = sessions[s].epoch
          /\ [sessions[s] EXCEPT !.live = FALSE].live = FALSE
      BY <2>1 DEF Session
    <2>2. PICK x \in Session : /\ x = [sessions[s] EXCEPT !.live = FALSE]
                               /\ x.user = sessions[s].user /\ x.epoch = sessions[s].epoch
                               /\ x.live = FALSE
      BY <2>a
    <2>3. sessions' = [sessions EXCEPT ![s] = x]
      BY <1>2, <2>2 DEF Logout
    <2>4. QED
      BY <2>1, <2>2, <2>3, <1>t, AccountConstants DEF SessionMoves
  <1>3. QED
    BY <1>1, <1>2

\* The steps that issue or revoke one token.
LEMMA TokenSteps ==
    ASSUME TypeInv, NEW p \in Requests, IssueToken(p) \/ RevokeToken(p)
    PROVE  \A t \in Tokens : TokenMoves(t)
  <1>t. /\ tokens \in [Tokens -> Token \cup {NoToken}] /\ who \in [Requests -> Users]
        /\ order \in [Requests -> Orders] /\ order[p].token \in Tokens
    BY AccountConstants DEF TypeInv, TypeOK
  <1>0. ASSUME UNCHANGED tokens
        PROVE  \A t \in Tokens : TokenMoves(t)
    BY <1>0 DEF TokenMoves
  <1>1. CASE IssueToken(p) /\ ~UNCHANGED tokens
    <2>1. PICK t \in Tokens :
             tokens' = [tokens EXCEPT ![t] = [user |-> who[p], live |-> TRUE,
                              until |-> clock + Lifetime, epoch |-> epoch[who[p]]]]
      BY <1>1 DEF IssueToken
    <2>2. /\ tokens'[t].user = who[p] /\ tokens'[t].epoch = epoch[who[p]]
          /\ \A x \in Tokens \ {t} : tokens'[x] = tokens[x]
      BY <2>1, <1>t
    <2>3. pc[p] = "issue" /\ UNCHANGED <<accounts, epoch>> /\ IsEnabled(who[p])
      BY <1>1 DEF IssueToken, ghosts
    <2>4. QED
      BY <2>2, <2>3 DEF TokenMoves
  <1>2. CASE RevokeToken(p) /\ ~UNCHANGED tokens
    <2> DEFINE t == order[p].token
    <2>1. tokens[t] \in Token /\ tokens' = [tokens EXCEPT ![t].live = FALSE]
      BY <1>2, <1>t DEF RevokeToken
    <2>a. /\ [tokens[t] EXCEPT !.live = FALSE] \in Token
          /\ [tokens[t] EXCEPT !.live = FALSE].user = tokens[t].user
          /\ [tokens[t] EXCEPT !.live = FALSE].epoch = tokens[t].epoch
          /\ [tokens[t] EXCEPT !.live = FALSE].live = FALSE
      BY <2>1 DEF Token
    <2>2. PICK x \in Token : /\ x = [tokens[t] EXCEPT !.live = FALSE]
                               /\ x.user = tokens[t].user /\ x.epoch = tokens[t].epoch
                               /\ x.live = FALSE
      BY <2>a
    <2>3. tokens' = [tokens EXCEPT ![t] = x]
      BY <2>1, <2>2
    <2>4. QED
      BY <2>1, <2>2, <2>3, <1>t, AccountConstants DEF TokenMoves
  <1>3. QED
    BY <1>0, <1>1, <1>2

\* Every step treats every session and every token so.
LEMMA CredentialsMove ==
    ASSUME TypeInv, [Next]_vars
    PROVE  (\A s \in Sessions : SessionMoves(s)) /\ (\A t \in Tokens : TokenMoves(t))
  <1>1. ASSUME NEW u \in Users, RevokeIdentity(u)
        PROVE  (\A s \in Sessions : SessionMoves(s)) /\ (\A t \in Tokens : TokenMoves(t))
    <2>1. ASSUME NEW s \in Sessions
          PROVE  SessionMoves(s)
      <3>1. CASE sessions[s] = NoSession
        BY <1>1, <3>1, RevokeType DEF SessionMoves
      <3>2. CASE sessions[s] # NoSession
        BY <1>1, <3>2, RevokeType DEF SessionMoves
      <3>3. QED
        BY <3>1, <3>2
    <2>2. ASSUME NEW t \in Tokens
          PROVE  TokenMoves(t)
      <3>1. CASE tokens[t] = NoToken
        BY <1>1, <3>1, RevokeType DEF TokenMoves
      <3>2. CASE tokens[t] # NoToken
        BY <1>1, <3>2, RevokeType DEF TokenMoves
      <3>3. QED
        BY <3>1, <3>2
    <2>3. QED
      BY <2>1, <2>2
  <1>2. ASSUME UNCHANGED sessions
        PROVE  \A s \in Sessions : SessionMoves(s)
    BY <1>2 DEF SessionMoves
  <1>3. ASSUME UNCHANGED tokens
        PROVE  \A t \in Tokens : TokenMoves(t)
    BY <1>3 DEF TokenMoves
  <1>4. ASSUME NEW p \in Requests, CommitUpdate(p) \/ SetPassword(p)
        PROVE  UNCHANGED <<sessions, tokens>> \/ \E u \in Users : RevokeIdentity(u)
    <2>1. who[p] \in Users /\ order[p].target \in Users
      BY AccountConstants DEF TypeInv, TypeOK
    <2>2. QED
      BY <1>4, <2>1 DEF CommitUpdate, SetPassword, tables
  <1>5. \/ UNCHANGED <<sessions, tokens>>
        \/ \E p \in Requests : CommitUpdate(p) \/ SetPassword(p)
        \/ \E p \in Requests : (CreateSession(p) \/ Logout(p)) /\ UNCHANGED tokens
        \/ \E p \in Requests : (IssueToken(p) \/ RevokeToken(p)) /\ UNCHANGED sessions
    <2>1. ASSUME NEW p \in Requests, Step(p)
          PROVE  \/ UNCHANGED <<sessions, tokens>>
                 \/ CommitUpdate(p) \/ SetPassword(p)
                 \/ (CreateSession(p) \/ Logout(p)) /\ UNCHANGED tokens
                 \/ (IssueToken(p) \/ RevokeToken(p)) /\ UNCHANGED sessions
      BY <2>1 DEF Step, CheckSession, CheckUser, Setup, Login, CreateSession, Logout, IssueToken,
         RevokeToken, ChangePassword, RecoverPassword, Authorize, InsertUser, LoadUser, CompareUser,
         CountAdmins, Fault, ReadOnly, tables
    <2>2. ASSUME \/ \E p \in Requests, o \in Orders, e \in 0..(MaxClock + MaxRequests) :
                       StartRequest(p, o, e)
                 \/ Tick \/ Restart \/ UNCHANGED vars
          PROVE  UNCHANGED <<sessions, tokens>>
      BY <2>2 DEF StartRequest, Tick, Restart, vars, tables
    <2>3. QED
      BY <2>1, <2>2 DEF Next
  <1>6. QED
    BY <1>1, <1>2, <1>3, <1>4, <1>5, SessionSteps, TokenSteps

\* Every step keeps what the requests know and the owners of sessions and tokens.
LEMMA StepTypeInv ==
    ASSUME TypeInv, [Next]_vars
    PROVE  TypeInv'
  <1>1. TypeOK' /\ (\A u \in Users : Newer(u)) /\ (\A s \in Sessions : SessionStays(s))
    BY StepTypeOK, RowsGrow
  <1>2. \A q \in Requests : RequestInv(q)'
    <2>1. ASSUME NEW p \in Requests, Step(p)
          PROVE  \A q \in Requests : RequestInv(q)'
      BY <2>1, <1>1, OwnStep, OthersUnmoved, UnmovedKeeps
    <2>2. ASSUME NEW p \in Requests, NEW o \in Orders, NEW e \in Nat, StartRequest(p, o, e)
          PROVE  \A q \in Requests : RequestInv(q)'
      <3>1. pc \in [Requests -> Labels] /\ order \in [Requests -> Orders] /\ expected \in [Requests -> Nat]
        BY DEF TypeInv, TypeOK
      <3>2. /\ pc'[p] \in {"cookie"} \cup (Ops \ SessionOps) /\ order'[p] = o /\ expected'[p] = e
            /\ UNCHANGED accounts
            /\ o.op = "edit" => Exists(o.target) /\ e <= accounts[o.target].mtime
        BY <2>2, <3>1, AccountConstants DEF StartRequest, tables
      <3>3. RequestInv(p)'
        BY <3>2 DEF RequestInv, Anonymous, Holding, Updating, Judged, Exists, Ops, SessionOps, AdminOps
      <3>4. QED
        BY <2>2, <3>3, <1>1, OthersUnmoved, UnmovedKeeps
    <2>3. ASSUME Tick \/ UNCHANGED vars
          PROVE  \A q \in Requests : RequestInv(q)'
      BY <2>3, <1>1, UnmovedKeeps DEF Tick, vars, Unmoved, progress, ghosts
    <2>4. ASSUME Restart
          PROVE  \A q \in Requests : RequestInv(q)'
      BY <2>4 DEF Restart, RequestInv, Anonymous, Holding, Updating, Judged
    <2>5. 0..(MaxClock + MaxRequests) \subseteq Nat
      BY AccountConstants
    <2>6. QED
      BY <2>1, <2>2, <2>3, <2>4, <2>5 DEF Next
  <1>3. OwnersExist'
    <2>1. OwnersExist /\ \A u \in Users : Exists(u) => Exists(u)'
      BY <1>1 DEF TypeInv, LabelInv, Newer
    <2>2. /\ \A s \in Sessions : sessions[s] # NoSession => sessions[s].user \in Users
          /\ \A t \in Tokens : tokens[t] # NoToken => tokens[t].user \in Users
      BY DEF TypeInv, TypeOK, Session, Token
    <2>3. \A p \in Requests : pc[p] \in {"session", "issue"} => Exists(who[p]) /\ who[p] \in Users
      BY DEF TypeInv, TypeOK, LabelInv, RequestInv, Anonymous
    <2>4. \A s \in Sessions : sessions'[s] # NoSession => accounts'[sessions'[s].user] # NoUser
      BY <2>1, <2>2, <2>3, CredentialsMove DEF OwnersExist, SessionMoves, Exists
    <2>5. \A t \in Tokens : tokens'[t] # NoToken => accounts'[tokens'[t].user] # NoUser
      BY <2>1, <2>2, <2>3, CredentialsMove DEF OwnersExist, TokenMoves, Exists
    <2>6. QED
      BY <2>4, <2>5 DEF OwnersExist, Exists
  <1>4. QED
    BY <1>1, <1>2, <1>3 DEF TypeInv, LabelInv

\* Accounts, sessions and tokens keep their type.
THEOREM AccountsTypeCorrect == Spec => []TypeOK
  <1>1. TypeInv /\ [Next]_vars => TypeInv'
    BY StepTypeInv
  <1>2. TypeInv => TypeOK
    BY DEF TypeInv
  <1>3. QED
    BY InitTypeInv, <1>1, <1>2, PTL DEF Spec

\* No update is lost: one that passes its mtime check overwrites the row it was
\* computed from and has judged the change by that row.
THEOREM UpdatesAreNotLost == Spec => []NoLostUpdate
  <1>1. TypeInv /\ [Next]_vars => TypeInv'
    BY StepTypeInv
  <1>2. ASSUME TypeInv
        PROVE  NoLostUpdate
    <2> SUFFICES ASSUME NEW p \in Requests
                 PROVE  /\ pc[p] = "commit" /\ accounts[order[p].target].mtime = expected[p] =>
                              accounts[order[p].target] = base[p] /\ seen[p] = base[p]
                        /\ pc[p] = "set_password" /\ accounts[who[p]].mtime = expected[p] =>
                              accounts[who[p]] = base[p]
      BY DEF NoLostUpdate
    <2>1. RequestInv(p) /\ expected[p] \in Nat /\ base[p].mtime \in Nat /\ seen[p].mtime \in Nat
      BY <1>2 DEF TypeInv, TypeOK, LabelInv, Row
    <2>2. QED
      BY <2>1 DEF RequestInv, Version, Updating, Judged
  <1>3. QED
    BY InitTypeInv, <1>1, <1>2, PTL DEF Spec

-----------------------------------------------------------------------------
(***************************************************************************)
(* What an accepted update does: by the versions above, it judged the very *)
(* row it replaces.                                                        *)
(***************************************************************************)
NewRow(p, new) ==
    /\ accounts' = [accounts EXCEPT ![order[p].target] = new]
    /\ new.name = want[p].name /\ new.access = want[p].access
    /\ new.enabled = want[p].enabled /\ new.hash = want[p].hash

\* The row an accepted update writes, and the row it judged.
LEMMA CommitRow ==
    ASSUME TypeInv, NEW p \in Requests, CommitUpdate(p), ~UNCHANGED <<tables, epoch>>
    PROVE  /\ order[p].target \in Users /\ who[p] \in Users /\ want[p] \in Row
           /\ accounts[order[p].target] \in Row
           /\ seen[p] = accounts[order[p].target]
           /\ \E new \in Row : NewRow(p, new)
           /\ MayCommit(p) /\ CountIdentityChange(order[p].target)
           /\ IF Invalidates(seen[p], want[p]) THEN RevokeIdentity(order[p].target)
                                               ELSE UNCHANGED <<sessions, tokens>>
  <1> DEFINE u == order[p].target
             new == [want[p] EXCEPT !.mtime = NextUpdatedAt(accounts[u].mtime)]
  <1>1. /\ u \in Users /\ who[p] \in Users /\ want[p] \in Row /\ clock \in Nat
        /\ base[p].mtime \in Nat /\ seen[p].mtime \in Nat /\ expected[p] \in Nat
        /\ accounts \in [Users -> Row \cup {NoUser}]
    BY AccountConstants DEF TypeInv, TypeOK, Row
  <1>2. /\ MayCommit(p) /\ CountIdentityChange(u) /\ accounts' = [accounts EXCEPT ![u] = new]
        /\ IF Invalidates(seen[p], want[p]) THEN RevokeIdentity(u)
                                            ELSE UNCHANGED <<sessions, tokens>>
        /\ pc[p] = "commit"
    BY DEF CommitUpdate
  <1>3. RequestInv(p)
    BY DEF TypeInv, LabelInv
  <1>4. accounts[u] \in Row /\ accounts[u].mtime \in Nat
    BY <1>1, <1>2, <1>3 DEF RequestInv, Version, Updating, Exists, Row
  <1>5. seen[p] = accounts[u]
    BY <1>1, <1>2, <1>3, <1>4 DEF RequestInv, Version, Updating, Judged, MayCommit
  <1>6. NextUpdatedAt(accounts[u].mtime) \in Nat
    BY <1>1, <1>4, NextIsLater
  <1>7. /\ new \in Row /\ new.name = want[p].name /\ new.access = want[p].access
        /\ new.enabled = want[p].enabled /\ new.hash = want[p].hash
    BY <1>1, <1>6 DEF Row
  <1>8. \E x \in Row : NewRow(p, x)
    <2>1. NewRow(p, new)
      BY <1>2, <1>7 DEF NewRow
    <2>2. QED
      BY <1>7, <2>1
  <1>9. QED
    BY <1>1, <1>2, <1>4, <1>5, <1>8

\* The steps that write the users table.
LEMMA AccountWriters ==
    ASSUME [Next]_vars
    PROVE  \/ UNCHANGED <<accounts, epoch>>
           \/ \E p \in Requests : \/ Setup(p) \/ InsertUser(p)
                                  \/ SetPassword(p) /\ ~UNCHANGED <<tables, hashes, epoch>>
                                  \/ CommitUpdate(p) /\ ~UNCHANGED <<tables, epoch>>
  <1>1. ASSUME NEW p \in Requests, Step(p)
        PROVE  \/ UNCHANGED <<accounts, epoch>>
               \/ Setup(p) \/ InsertUser(p)
               \/ SetPassword(p) /\ ~UNCHANGED <<tables, hashes, epoch>>
               \/ CommitUpdate(p) /\ ~UNCHANGED <<tables, epoch>>
    BY <1>1 DEF Step, CheckSession, CheckUser, Login, CreateSession, Logout, IssueToken,
       RevokeToken, ChangePassword, RecoverPassword, Authorize, LoadUser, CompareUser,
       CountAdmins, Fault, ReadOnly, tables, ghosts
  <1>2. ASSUME \/ \E p \in Requests, o \in Orders, e \in 0..(MaxClock + MaxRequests) :
                     StartRequest(p, o, e)
               \/ Tick \/ Restart \/ UNCHANGED vars
        PROVE  UNCHANGED <<accounts, epoch>>
    BY <1>2 DEF StartRequest, Tick, Restart, vars, tables, ghosts
  <1>3. QED
    BY <1>1, <1>2 DEF Next

\* A set of more than one element has another one.
LEMMA AnotherOne ==
    ASSUME NEW S, NEW x \in S, Cardinality(S) > 1
    PROVE  \E y \in S : y # x
  <1>1. SUFFICES ASSUME \A y \in S : y = x PROVE FALSE
    OBVIOUS
  <1>2. S = {x}
    BY <1>1
  <1>3. Cardinality({x}) = 1
    BY FS_Singleton
  <1>4. QED
    BY <1>2, <1>3

\* No step takes the last enabled administrator away.
LEMMA StepAdminRemains ==
    ASSUME TypeInv, AdminRemains, [Next]_vars
    PROVE  AdminRemains'
  <1>t. accounts \in [Users -> Row \cup {NoUser}] /\ NoUser \notin Row
    BY AccountConstants DEF TypeInv, TypeOK
  <1>1. CASE UNCHANGED <<accounts, epoch>>
    BY <1>1 DEF AdminRemains, EnabledAdmins, EnabledAdmin, IsEnabled, Exists
  <1>2. ASSUME NEW p \in Requests, Setup(p), ~UNCHANGED <<accounts, epoch>>
        PROVE  AdminRemains'
    <2>1. PICK u \in Users : accounts' = [accounts EXCEPT ![u] =
                       [name |-> order[p].name, access |-> "admin", enabled |-> TRUE,
                        hash |-> hashes + 1, mtime |-> clock]]
      BY <1>2 DEF Setup
    <2>2. [name |-> order[p].name, access |-> "admin", enabled |-> TRUE,
           hash |-> hashes + 1, mtime |-> clock] \in Row
      BY AccountConstants DEF Row, Access, TypeInv, TypeOK
    <2>3. accounts'[u] \in Row /\ accounts'[u].enabled /\ accounts'[u].access = "admin"
      BY <2>1, <2>2, <1>t
    <2>4. QED
      BY <2>3, <1>t DEF AdminRemains, EnabledAdmins, EnabledAdmin, IsEnabled, Exists
  <1>3. ASSUME NEW u \in Users, EnabledAdmin(u),
               accounts'[u] # NoUser /\ accounts'[u].enabled = accounts[u].enabled
                                     /\ accounts'[u].access = accounts[u].access
        PROVE  AdminRemains'
    BY <1>3 DEF AdminRemains, EnabledAdmins, EnabledAdmin, IsEnabled, Exists
  <1>4. ASSUME NEW p \in Requests, InsertUser(p), ~UNCHANGED <<accounts, epoch>>
        PROVE  AdminRemains'
    <2>1. EnabledAdmin(who[p]) /\ who[p] \in Users
      BY <1>4 DEF InsertUser, TypeInv, TypeOK, ghosts
    <2>2. accounts'[who[p]] = accounts[who[p]]
      BY <1>4, <2>1, <1>t DEF InsertUser, EnabledAdmin, IsEnabled, Exists, ghosts
    <2>3. QED
      BY <2>1, <2>2, <1>3 DEF EnabledAdmin, IsEnabled, Exists
  <1>5. ASSUME NEW p \in Requests, SetPassword(p), ~UNCHANGED <<tables, hashes, epoch>>
        PROVE  AdminRemains'
    <2>1. who[p] \in Users /\ Exists(who[p]) /\ accounts[who[p]] \in Row
      BY <1>5, SetPasswordRow
    <2>2. PICK new \in Row : PasswordSet(who[p], new)
      BY <1>5, SetPasswordRow
    <2>3. PICK u \in Users : EnabledAdmin(u)
      BY <2>1 DEF AdminRemains, EnabledAdmins
    <2>4. accounts'[u] # NoUser /\ accounts'[u].enabled = accounts[u].enabled
                                /\ accounts'[u].access = accounts[u].access
      BY <2>1, <2>2, <2>3, <1>t DEF PasswordSet, EnabledAdmin, IsEnabled, Exists
    <2>5. QED
      BY <2>3, <2>4, <1>3
  <1>6. ASSUME NEW p \in Requests, CommitUpdate(p), ~UNCHANGED <<tables, epoch>>
        PROVE  AdminRemains'
    <2> DEFINE u == order[p].target
    <2>1. u \in Users /\ who[p] \in Users /\ accounts[u] \in Row /\ want[p] \in Row /\ MayCommit(p)
      BY <1>6, CommitRow
    <2>2. PICK new \in Row : NewRow(p, new)
      BY <1>6, CommitRow
    <2>3. \A v \in Users : v # u => accounts'[v] = accounts[v]
      BY <2>1, <2>2, <1>t DEF NewRow
    <2>4. accounts'[u] = new
      BY <2>1, <2>2, <1>t DEF NewRow
    <2>5. CASE \E v \in Users : v # u /\ EnabledAdmin(v)
      BY <2>5, <2>3, <1>3 DEF EnabledAdmin, IsEnabled, Exists
    <2>6. CASE \A v \in Users : EnabledAdmin(v) => v = u
      <3>1. EnabledAdmin(u)
        BY <2>1, <2>6 DEF MayCommit
      <3>2. ~(Cardinality(EnabledAdmins) > 1)
        BY <2>1, <2>6, <3>1, AnotherOne DEF EnabledAdmins
      <3>3. ~Deprives(accounts[u], want[p])
        BY <2>1, <3>2 DEF MayCommit
      <3>4. want[p].enabled /\ want[p].access = "admin"
        BY <3>1, <3>3 DEF Deprives, EnabledAdmin, IsEnabled
      <3>5. new # NoUser /\ new.enabled /\ new.access = "admin"
        BY <3>4, <2>2, <1>t DEF NewRow
      <3>6. QED
        BY <3>5, <2>1, <2>4 DEF AdminRemains, EnabledAdmins, EnabledAdmin, IsEnabled, Exists
    <2>7. QED
      BY <2>5, <2>6
  <1>7. QED
    BY <1>1, <1>2, <1>4, <1>5, <1>6, AccountWriters

\* Once there is a user, an enabled administrator remains, however many
\* administrators act at once.
THEOREM AnAdminRemains == Spec => []AdminRemains
  <1>1. TypeInv /\ [Next]_vars => TypeInv'
    BY StepTypeInv
  <1>2. Init => AdminRemains
    BY DEF Init, AdminRemains, Exists
  <1>3. TypeInv /\ AdminRemains /\ [Next]_vars => AdminRemains'
    BY StepAdminRemains
  <1>4. QED
    BY InitTypeInv, <1>1, <1>2, <1>3, PTL DEF Spec

-----------------------------------------------------------------------------
(***************************************************************************)
(* Revocation                                                              *)
(***************************************************************************)

\* Whoever's identity changes, and whoever stops being enabled, has his
\* sessions and tokens revoked in the same step.
LEMMA ChangesRevoke ==
    ASSUME TypeInv, [Next]_vars
    PROVE  /\ \/ epoch' = epoch
              \/ \E u \in Users : /\ RevokeIdentity(u)
                                  /\ \A v \in Users \ {u} : epoch'[v] = epoch[v]
           /\ \A u \in Users : IsEnabled(u) => IsEnabled(u)' \/ RevokeIdentity(u)
  <1>t. /\ accounts \in [Users -> Row \cup {NoUser}] /\ NoUser \notin Row
        /\ epoch \in [Users -> Nat]
    BY AccountConstants DEF TypeInv, TypeOK
  <1>1. CASE UNCHANGED <<accounts, epoch>>
    BY <1>1 DEF IsEnabled, Exists
  <1>2. ASSUME NEW p \in Requests, Setup(p) \/ InsertUser(p)
        PROVE  /\ epoch' = epoch
               /\ \A u \in Users : IsEnabled(u) => IsEnabled(u)'
    <2>1. CASE Setup(p)
      BY <2>1, <1>t DEF Setup, CountIdentityChange, IsEnabled, Exists
    <2>2. CASE InsertUser(p)
      BY <2>2, <1>t DEF InsertUser, IsEnabled, Exists, ghosts
    <2>3. QED
      BY <1>2, <2>1, <2>2
  <1>3. ASSUME NEW u \in Users, CountIdentityChange(u)
        PROVE  \A v \in Users \ {u} : epoch'[v] = epoch[v]
    BY <1>3, <1>t DEF CountIdentityChange
  <1>4. ASSUME NEW p \in Requests, SetPassword(p), ~UNCHANGED <<tables, hashes, epoch>>
        PROVE  /\ \E u \in Users : /\ RevokeIdentity(u)
                                   /\ \A v \in Users \ {u} : epoch'[v] = epoch[v]
               /\ \A u \in Users : IsEnabled(u) => IsEnabled(u)' \/ RevokeIdentity(u)
    <2>1. /\ who[p] \in Users /\ RevokeIdentity(who[p]) /\ CountIdentityChange(who[p])
      BY <1>4, SetPasswordRow
    <2>2. PICK new \in Row : PasswordSet(who[p], new)
      BY <1>4, SetPasswordRow
    <2>3. \A v \in Users \ {who[p]} : accounts'[v] = accounts[v]
      BY <2>1, <2>2, <1>t DEF PasswordSet
    <2>4. QED
      BY <2>1, <2>3, <1>3 DEF IsEnabled, Exists
  <1>5. ASSUME NEW p \in Requests, CommitUpdate(p), ~UNCHANGED <<tables, epoch>>
        PROVE  /\ \/ epoch' = epoch
                  \/ \E u \in Users : /\ RevokeIdentity(u)
                                      /\ \A v \in Users \ {u} : epoch'[v] = epoch[v]
               /\ \A u \in Users : IsEnabled(u) => IsEnabled(u)' \/ RevokeIdentity(u)
    <2> DEFINE u == order[p].target
    <2>1. /\ u \in Users /\ want[p] \in Row /\ accounts[u] \in Row /\ seen[p] = accounts[u]
          /\ CountIdentityChange(u)
          /\ IF Invalidates(seen[p], want[p]) THEN RevokeIdentity(u)
                                              ELSE UNCHANGED <<sessions, tokens>>
      BY <1>5, CommitRow
    <2>2. PICK new \in Row : NewRow(p, new)
      BY <1>5, CommitRow
    <2>3. accounts'[u] = new /\ \A v \in Users \ {u} : accounts'[v] = accounts[v]
      BY <2>1, <2>2, <1>t DEF NewRow
    <2>4. CASE Invalidates(seen[p], want[p])
      BY <2>1, <2>3, <2>4, <1>3 DEF IsEnabled, Exists
    <2>5. CASE ~Invalidates(seen[p], want[p])
      <3>1. SameIdentity(accounts[u], accounts'[u])
        BY <2>1, <2>2, <2>3, <2>5 DEF Invalidates, SameIdentity, NewRow
      <3>2. epoch' = epoch
        BY <2>1, <3>1 DEF CountIdentityChange
      <3>3. IsEnabled(u) => accounts'[u] # NoUser /\ accounts'[u].enabled
        BY <2>3, <3>1, <1>t DEF SameIdentity, IsEnabled, Exists
      <3>4. QED
        BY <2>3, <3>2, <3>3 DEF IsEnabled, Exists
    <2>6. QED
      BY <2>4, <2>5
  <1>6. QED
    BY <1>1, <1>2, <1>4, <1>5, AccountWriters

\* A live session or token is as old as its owner's identity, and no older.
LEMMA StepIdentityChangeRevokes ==
    ASSUME TypeInv, IdentityChangeRevokes, [Next]_vars
    PROVE  IdentityChangeRevokes'
  <1>1. /\ \A s \in Sessions : sessions[s] # NoSession => sessions[s].user \in Users
        /\ \A t \in Tokens : tokens[t] # NoToken => tokens[t].user \in Users
        /\ \A p \in Requests : who[p] \in Users
    BY DEF TypeInv, TypeOK, Session, Token
  <1>2. CASE epoch' = epoch
    <2>1. ASSUME NEW s \in Sessions, sessions'[s] # NoSession, sessions'[s].live
          PROVE  sessions'[s].epoch = epoch'[sessions'[s].user]
      BY <1>2, <2>1, CredentialsMove DEF SessionMoves, IdentityChangeRevokes
    <2>2. ASSUME NEW t \in Tokens, tokens'[t] # NoToken, tokens'[t].live
          PROVE  tokens'[t].epoch = epoch'[tokens'[t].user]
      BY <1>2, <2>2, CredentialsMove DEF TokenMoves, IdentityChangeRevokes
    <2>3. QED
      BY <2>1, <2>2 DEF IdentityChangeRevokes
  <1>3. ASSUME NEW u \in Users, RevokeIdentity(u),
               \A v \in Users \ {u} : epoch'[v] = epoch[v]
        PROVE  IdentityChangeRevokes'
    <2>1. ASSUME NEW s \in Sessions, sessions'[s] # NoSession, sessions'[s].live
          PROVE  sessions'[s].epoch = epoch'[sessions'[s].user]
      <3>1. /\ sessions[s] # NoSession /\ sessions'[s].user = sessions[s].user /\ sessions'[s].epoch = sessions[s].epoch
            /\ sessions'[s].live = (sessions[s].live /\ sessions[s].user # u)
        BY <1>3, <2>1, RevokeType
      <3>2. sessions[s].live /\ sessions[s].user # u
        BY <2>1, <3>1
      <3>3. QED
        BY <1>1, <1>3, <3>1, <3>2 DEF IdentityChangeRevokes
    <2>2. ASSUME NEW t \in Tokens, tokens'[t] # NoToken, tokens'[t].live
          PROVE  tokens'[t].epoch = epoch'[tokens'[t].user]
      <3>1. /\ tokens[t] # NoToken /\ tokens'[t].user = tokens[t].user /\ tokens'[t].epoch = tokens[t].epoch
            /\ tokens'[t].live = (tokens[t].live /\ tokens[t].user # u)
        BY <1>3, <2>2, RevokeType
      <3>2. tokens[t].live /\ tokens[t].user # u
        BY <2>2, <3>1
      <3>3. QED
        BY <1>1, <1>3, <3>1, <3>2 DEF IdentityChangeRevokes
    <2>3. QED
      BY <2>1, <2>2 DEF IdentityChangeRevokes
  <1>4. QED
    BY <1>2, <1>3, ChangesRevoke

\* A change of password, username or access, or a disablement, revokes every
\* session and every Docker token the user had.
THEOREM IdentityChangesRevoke == Spec => []IdentityChangeRevokes
  <1>1. TypeInv /\ [Next]_vars => TypeInv'
    BY StepTypeInv
  <1>2. Init => IdentityChangeRevokes
    BY DEF Init, IdentityChangeRevokes
  <1>3. TypeInv /\ IdentityChangeRevokes /\ [Next]_vars => IdentityChangeRevokes'
    BY StepIdentityChangeRevokes
  <1>4. QED
    BY InitTypeInv, <1>1, <1>2, <1>3, PTL DEF Spec

\* A token is issued to an enabled user only, and falls with him.
LEMMA StepDisabledHoldNoTokens ==
    ASSUME TypeInv, DisabledHoldNoTokens, [Next]_vars
    PROVE  DisabledHoldNoTokens'
  <1>1. /\ \A t \in Tokens : tokens[t] # NoToken => tokens[t].user \in Users
        /\ \A p \in Requests : who[p] \in Users
    BY DEF TypeInv, TypeOK, Token
  <1> SUFFICES ASSUME NEW t \in Tokens, tokens'[t] # NoToken, tokens'[t].live
               PROVE  accounts'[tokens'[t].user] # NoUser /\ accounts'[tokens'[t].user].enabled
    BY DEF DisabledHoldNoTokens, IsEnabled, Exists
  <1>2. CASE \E p \in Requests : /\ pc[p] = "issue" /\ UNCHANGED <<accounts, epoch>>
                                 /\ IsEnabled(who[p]) /\ tokens'[t].user = who[p]
    BY <1>2 DEF IsEnabled, Exists
  <1>3. CASE tokens[t] # NoToken /\ tokens'[t].user = tokens[t].user /\ tokens[t].live
    <2>1. IsEnabled(tokens[t].user) /\ tokens[t].user \in Users
      BY <1>1, <1>3 DEF DisabledHoldNoTokens
    <2>2. PICK v \in Users : v = tokens[t].user /\ IsEnabled(v)
      BY <2>1
    <2>3. ~RevokeIdentity(v)
      BY <1>3, <2>2, RevokeType
    <2>4. accounts'[v] # NoUser /\ accounts'[v].enabled
      BY <2>2, <2>3, ChangesRevoke DEF IsEnabled, Exists
    <2>5. QED
      BY <1>3, <2>2, <2>4
  <1>4. QED
    BY <1>2, <1>3, CredentialsMove DEF TokenMoves

\* A disabled user holds no live Docker token.
THEOREM DisabledUsersHoldNoTokens == Spec => []DisabledHoldNoTokens
  <1>1. TypeInv /\ [Next]_vars => TypeInv'
    BY StepTypeInv
  <1>2. Init => DisabledHoldNoTokens
    BY DEF Init, DisabledHoldNoTokens
  <1>3. TypeInv /\ DisabledHoldNoTokens /\ [Next]_vars => DisabledHoldNoTokens'
    BY StepDisabledHoldNoTokens
  <1>4. QED
    BY InitTypeInv, <1>1, <1>2, <1>3, PTL DEF Spec

=============================================================================
