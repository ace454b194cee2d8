------------------------------ MODULE Accounts ------------------------------
(***************************************************************************)
(* Local accounts, web sessions and Docker tokens: the services of          *)
(* internal/auth/accounts.go, the handlers of internal/admin/server.go     *)
(* that call them, and the SQLite transactions they end in.                *)
(*                                                                         *)
(* A request is a goroutine.  One action is one repository call, the unit  *)
(* SQLite serialises on its single connection; what a handler read in one  *)
(* call may be stale in the next.  A crash drops the requests in flight.   *)
(***************************************************************************)
EXTENDS Naturals, FiniteSets

CONSTANTS
    Requests,    \* request slots: handlers that may be in flight together
    Users,       \* user ids
    Names,       \* usernames
    Sessions,    \* session ids (the random secret and its row)
    Tokens,      \* Docker token ids
    Orders,      \* the requests clients make
    NoUser, NoSession, NoToken,     \* absent rows
    Idle, Absolute,                 \* session lifetimes (30 minutes, 12 hours)
    Lifetime,    \* Docker token lifetime
    MaxClock,    \* bound: clock ticks of a behaviour
    MaxRequests  \* bound: requests of a behaviour

Access == {"admin", "user"}
Row    == [name : Names, access : Access, enabled : BOOLEAN, hash : Nat, mtime : Nat]

\* A web session and a Docker token.  epoch is history: the owner's identity
\* epoch at insertion.
Session == [user : Users, live : BOOLEAN, idle : Nat, absolute : Nat, epoch : Nat]
Token   == [user : Users, live : BOOLEAN, until : Nat, epoch : Nat]

AdminOps   == {"create", "edit", "reset"}
SessionOps == AdminOps \cup {"logout", "password", "issue", "revoke"}
Ops        == SessionOps \cup {"setup", "login", "recover"}

\* UserEdit: the fields of set are given, the others are left out.
Change == [set : SUBSET {"name", "access", "enabled"},
           name : Names, access : Access, enabled : BOOLEAN]

ASSUME AccountConstants ==
    /\ IsFiniteSet(Users)
    /\ \A o \in Orders : /\ o.op \in Ops
                         /\ o.session \in Sessions
                         /\ o.target \in Users
                         /\ o.token \in Tokens
                         /\ o.name \in Names
                         /\ o.change \in Change
    /\ Orders # {} /\ Users # {}
    /\ NoUser \notin Row /\ NoSession \notin Session /\ NoToken \notin Token
    /\ Idle \in Nat /\ Absolute \in Nat /\ Lifetime \in Nat
    /\ MaxClock \in Nat /\ MaxRequests \in Nat

VARIABLES
    accounts,   \* users table
    sessions,   \* web_sessions table
    tokens,     \* docker_tokens table
    clock,      \* time, in ticks
    hashes,     \* password hashes made so far: every Hash call is salted afresh
    started,    \* requests begun so far (bound)
    pc,         \* where each request stands
    order,      \* what each request asks for
    who,        \* the user a request acts for
    expected,   \* the mtime an update insists on
    want,       \* the row an update writes
    seen,       \* the row read last
    answer,     \* how the request was answered
    base,       \* history: the row the update was computed from
    epoch       \* history: identity changes of each user

tables   == <<accounts, sessions, tokens>>
progress == <<order, who, expected, want, seen>>
ghosts   == <<base, epoch>>
vars == <<accounts, sessions, tokens, clock, hashes, started, pc, order, who,
          expected, want, seen, answer, base, epoch>>

-----------------------------------------------------------------------------
(* Rows and transactions *)

Exists(u)       == accounts[u] # NoUser
IsEnabled(u)    == Exists(u) /\ accounts[u].enabled
EnabledAdmin(u) == IsEnabled(u) /\ accounts[u].access = "admin"
EnabledAdmins   == {u \in Users : EnabledAdmin(u)}
Named(n)        == {u \in Users : Exists(u) /\ accounts[u].name = n}
Deprives(old, new) == /\ old.enabled /\ old.access = "admin"
                      /\ ~new.enabled \/ new.access # "admin"

\* Mutant: the update time is whatever the clock says.
ClockTime(current) == clock

\* nextUpdatedAt: modification times of a row strictly increase.
NextUpdatedAt(current) == IF clock > current THEN clock ELSE current + 1

\* Mutant: a field the client left out is taken from the request all the same,
\* and the row loses its password hash.
AppliedFromRequest(row, c) ==
    [name |-> c.name, access |-> c.access, enabled |-> c.enabled, mtime |-> row.mtime]

\* Edit: the fields the client gave, over the row as read.
Applied(row, c) ==
    [row EXCEPT !.name    = IF "name" \in c.set THEN c.name ELSE @,
                !.access  = IF "access" \in c.set THEN c.access ELSE @,
                !.enabled = IF "enabled" \in c.set THEN c.enabled ELSE @]

\* Mutant: a change of access leaves sessions and tokens alone.
InvalidatesButAccess(old, new) ==
    old.hash # new.hash \/ old.name # new.name \/ (old.enabled /\ ~new.enabled)

\* Update's invalidate flag: which differences end the user's identity.
Invalidates(old, new) ==
    \/ old.hash # new.hash
    \/ old.name # new.name
    \/ old.access # new.access
    \/ old.enabled /\ ~new.enabled

\* The two UPDATE statements that set revoked_at for one user.
RevokeIdentity(u) ==
    /\ sessions' = [s \in Sessions |-> IF sessions[s] # NoSession /\ sessions[s].user = u
                                       THEN [sessions[s] EXCEPT !.live = FALSE] ELSE sessions[s]]
    /\ tokens'   = [t \in Tokens |-> IF tokens[t] # NoToken /\ tokens[t].user = u
                                     THEN [tokens[t] EXCEPT !.live = FALSE] ELSE tokens[t]]

\* History: the identity of u is no longer what it was, by the rows before and
\* after the step and whatever the code concluded.
SameIdentity(old, new) ==
    /\ <<new.hash, new.name, new.access>> = <<old.hash, old.name, old.access>>
    /\ old.enabled => new.enabled
CountIdentityChange(u) ==
    epoch' = IF accounts[u] # NoUser /\ ~SameIdentity(accounts[u], accounts'[u])
             THEN [epoch EXCEPT ![u] = @ + 1] ELSE epoch

Goto(p, label) == pc' = [pc EXCEPT ![p] = label] /\ UNCHANGED answer
Finish(p, a)   == pc' = [pc EXCEPT ![p] = "done"] /\ answer' = [answer EXCEPT ![p] = a]
ReadOnly       == UNCHANGED <<tables, clock, hashes, started>>

-----------------------------------------------------------------------------
(* Requests and their authentication *)

\* expected is the mtime the client saw in an earlier listing.
StartRequest(p, o, e) ==
    /\ pc[p] \in {"idle", "done"}
    /\ started < MaxRequests
    /\ o.op \in SessionOps => sessions[o.session] # NoSession
    /\ o.op = "edit" => Exists(o.target) /\ e <= accounts[o.target].mtime
    /\ o.op # "edit" => e = 0
    /\ started'  = started + 1
    /\ order'    = [order EXCEPT ![p] = o]
    /\ expected' = [expected EXCEPT ![p] = e]
    /\ answer'   = [answer EXCEPT ![p] = "none"]
    /\ pc' = [pc EXCEPT ![p] = IF o.op \in SessionOps THEN "cookie" ELSE o.op]
    /\ UNCHANGED <<tables, clock, hashes, who, want, seen, ghosts>>

\* WebSessionService.authenticate, first for requireUser and then again for
\* requireCSRF: the session row, and in a second call the user row.
CheckSession(p) ==
    LET s == order[p].session
        valid == /\ sessions[s] # NoSession /\ sessions[s].live
                 /\ clock < sessions[s].idle /\ clock < sessions[s].absolute
    IN  /\ pc[p] \in {"cookie", "csrf"}
        /\ \/ /\ ~valid
              /\ Finish(p, "unauthorized")
              /\ UNCHANGED who
           \/ /\ valid
              /\ Goto(p, IF pc[p] = "cookie" THEN "principal" ELSE "holder")
              /\ who'  = [who EXCEPT ![p] = sessions[s].user]
        /\ ReadOnly /\ UNCHANGED <<order, expected, want, seen, base, epoch>>

\* The session's user must be enabled; handlers of admin paths want an admin.
CheckUser(p) ==
    /\ pc[p] \in {"principal", "holder"}
    /\ \/ ~IsEnabled(who[p]) /\ Finish(p, "unauthorized")
       \/ /\ IsEnabled(who[p]) /\ pc[p] = "principal"
          /\ IF order[p].op \in AdminOps /\ accounts[who[p]].access # "admin"
             THEN Finish(p, "forbidden") ELSE Goto(p, "csrf")
       \/ /\ IsEnabled(who[p]) /\ pc[p] = "holder"
          /\ Goto(p, IF order[p].op \in AdminOps THEN "authorize" ELSE order[p].op)
    /\ ReadOnly /\ UNCHANGED <<progress, ghosts>>

-----------------------------------------------------------------------------
(* First-run setup, login, logout *)

\* BootstrapAdmin: one transaction, only while there is no user.
Setup(p) ==
    /\ pc[p] = "setup"
    /\ \/ /\ \E u \in Users : Exists(u)
          /\ Finish(p, "conflict")
          /\ UNCHANGED <<accounts, hashes, who, seen, epoch>>
       \/ /\ \A u \in Users : ~Exists(u)
          /\ \E u \in Users :
               LET row == [name |-> order[p].name, access |-> "admin", enabled |-> TRUE,
                           hash |-> hashes + 1, mtime |-> clock]
               IN  /\ accounts' = [accounts EXCEPT ![u] = row]
                   /\ who'  = [who EXCEPT ![p] = u]
                   /\ seen' = [seen EXCEPT ![p] = row]
                   /\ CountIdentityChange(u)
          /\ hashes' = hashes + 1
          /\ Goto(p, "session")
    /\ UNCHANGED <<sessions, tokens, clock, started, order, expected, want, base>>

\* AuthenticateWeb: find the row by username, verify the password, enabled.
Login(p) ==
    /\ pc[p] = "login"
    /\ \/ Finish(p, "unauthorized") /\ UNCHANGED <<who, seen>>
       \/ \E u \in Named(order[p].name) :
            /\ accounts[u].enabled
            /\ who'  = [who EXCEPT ![p] = u]
            /\ seen' = [seen EXCEPT ![p] = accounts[u]]
            /\ Goto(p, "session")
    /\ ReadOnly /\ UNCHANGED <<order, expected, want, ghosts>>

\* WebSessionService.Create: an insert of its own, after setup or login.
CreateSession(p) ==
    /\ pc[p] = "session"
    /\ \E s \in Sessions :
         /\ sessions[s] = NoSession
         /\ sessions' = [sessions EXCEPT ![s] =
               [user |-> who[p], live |-> TRUE, idle |-> clock + Idle,
                absolute |-> clock + Absolute, epoch |-> epoch[who[p]]]]
    /\ Finish(p, "ok")
    /\ UNCHANGED <<accounts, tokens, clock, hashes, started, progress, base, epoch>>

Logout(p) ==
    /\ pc[p] = "logout"
    /\ sessions' = [sessions EXCEPT ![order[p].session].live = FALSE]
    /\ Finish(p, "ok")
    /\ UNCHANGED <<accounts, tokens, clock, hashes, started, progress, ghosts>>

-----------------------------------------------------------------------------
(* Docker tokens *)

\* Mutant: the transaction trusts the session check made before it.
IssueUnchecked(p) ==
    /\ pc[p] = "issue"
    /\ \E t \in Tokens :
         /\ tokens[t] = NoToken
         /\ tokens' = [tokens EXCEPT ![t] = [user |-> who[p], live |-> TRUE,
                        until |-> clock + Lifetime, epoch |-> epoch[who[p]]]]
    /\ Finish(p, "ok")
    /\ UNCHANGED <<accounts, sessions, clock, hashes, started, progress, ghosts>>

\* CreateDockerTokenWithAudit checks inside the transaction that the owner is
\* enabled.
IssueToken(p) ==
    /\ pc[p] = "issue"
    /\ \/ /\ ~IsEnabled(who[p])
          /\ Finish(p, "conflict")
          /\ UNCHANGED tokens
       \/ /\ IsEnabled(who[p])
          /\ \E t \in Tokens :
               /\ tokens[t] = NoToken
               /\ tokens' = [tokens EXCEPT ![t] = [user |-> who[p], live |-> TRUE,
                              until |-> clock + Lifetime, epoch |-> epoch[who[p]]]]
          /\ Finish(p, "ok")
    /\ UNCHANGED <<accounts, sessions, clock, hashes, started, progress, ghosts>>

\* RevokeDockerTokenWithAudit touches only the owner's tokens.
RevokeToken(p) ==
    LET t == order[p].token IN
    /\ pc[p] = "revoke"
    /\ tokens' = IF tokens[t] # NoToken /\ tokens[t].user = who[p]
                 THEN [tokens EXCEPT ![t].live = FALSE] ELSE tokens
    /\ Finish(p, "ok")
    /\ UNCHANGED <<accounts, sessions, clock, hashes, started, progress, ghosts>>

-----------------------------------------------------------------------------
(* Passwords *)

\* ChangePassword reads and verifies the current password ...
ChangePassword(p) ==
    /\ pc[p] = "password"
    /\ \/ Finish(p, "bad_request") /\ UNCHANGED <<expected, base>>
       \/ /\ IsEnabled(who[p])
          /\ expected' = [expected EXCEPT ![p] = accounts[who[p]].mtime]
          /\ base'     = [base EXCEPT ![p] = accounts[who[p]]]
          /\ Goto(p, "set_password")
    /\ ReadOnly /\ UNCHANGED <<order, who, want, seen, epoch>>

\* ... and the reset-password command finds an administrator by name.
RecoverPassword(p) ==
    /\ pc[p] = "recover"
    /\ \/ /\ \A u \in Named(order[p].name) : accounts[u].access # "admin"
          /\ Finish(p, "not_found")
          /\ UNCHANGED <<who, expected, base>>
       \/ \E u \in Named(order[p].name) :
            /\ accounts[u].access = "admin"
            /\ who'      = [who EXCEPT ![p] = u]
            /\ expected' = [expected EXCEPT ![p] = accounts[u].mtime]
            /\ base'     = [base EXCEPT ![p] = accounts[u]]
            /\ Goto(p, "set_password")
    /\ ReadOnly /\ UNCHANGED <<order, want, seen, epoch>>

\* ChangeUserPassword: the row must be as read, and enabled unless the command
\* line recovers it; sessions and tokens go in the same transaction.
SetPassword(p) ==
    LET u == who[p]
        fits == /\ order[p].op = "recover" \/ accounts[u].enabled
                /\ accounts[u].mtime = expected[p]
    IN  /\ pc[p] = "set_password"
        /\ \/ /\ ~fits
              /\ Finish(p, "conflict")
              /\ UNCHANGED <<tables, hashes, epoch>>
           \/ /\ fits
              /\ accounts' = [accounts EXCEPT ![u].hash = hashes + 1,
                                              ![u].mtime = NextUpdatedAt(@)]
              /\ hashes' = hashes + 1
              /\ RevokeIdentity(u)
              /\ CountIdentityChange(u)
              /\ Finish(p, "ok")
        /\ UNCHANGED <<clock, started, progress, base>>

-----------------------------------------------------------------------------
(* User administration *)

\* AdminAccountService.authorize: at the head of every operation, and again in
\* Update.
Authorize(p) ==
    /\ pc[p] \in {"authorize", "reauthorize"}
    /\ IF EnabledAdmin(who[p])
       THEN Goto(p, CASE pc[p] = "reauthorize" -> "compare"
                      [] pc[p] = "authorize" /\ order[p].op = "create" -> "insert"
                      [] pc[p] = "authorize" /\ order[p].op # "create" -> "load")
       ELSE Finish(p, "forbidden")
    /\ ReadOnly /\ UNCHANGED <<progress, ghosts>>

\* CreateUserWithAudit.
InsertUser(p) ==
    LET c == order[p].change IN
    /\ pc[p] = "insert"
    /\ \/ /\ ~EnabledAdmin(who[p]) \/ Named(c.name) # {}
          /\ Finish(p, "conflict")
          /\ UNCHANGED <<accounts, hashes>>
       \/ /\ EnabledAdmin(who[p]) /\ Named(c.name) = {}
          /\ \E u \in Users :
               /\ ~Exists(u)
               /\ accounts' = [accounts EXCEPT ![u] =
                     [name |-> c.name, access |-> c.access, enabled |-> c.enabled,
                      hash |-> hashes + 1, mtime |-> clock]]
          /\ hashes' = hashes + 1
          /\ Finish(p, "ok")
    /\ UNCHANGED <<sessions, tokens, clock, started, progress, ghosts>>

\* Edit and ResetPassword read the row and lay the change over it.
LoadUser(p) ==
    LET row == accounts[order[p].target] IN
    /\ pc[p] = "load"
    /\ \/ /\ row = NoUser
          /\ Finish(p, "not_found")
          /\ UNCHANGED <<expected, want, base, hashes>>
       \/ /\ row # NoUser
          /\ base' = [base EXCEPT ![p] = row]
          /\ IF order[p].op = "edit"
             THEN /\ want' = [want EXCEPT ![p] = Applied(row, order[p].change)]
                  /\ UNCHANGED <<expected, hashes>>
             ELSE /\ want' = [want EXCEPT ![p] = [row EXCEPT !.hash = hashes + 1]]
                  /\ hashes' = hashes + 1
                  /\ expected' = [expected EXCEPT ![p] = row.mtime]
          /\ Goto(p, "reauthorize")
    /\ UNCHANGED <<tables, clock, started, order, who, seen, epoch>>

\* Update reads the row once more to decide what the change means, and counts
\* the administrators when it takes one away.
CompareUser(p) ==
    LET row == accounts[order[p].target] IN
    /\ pc[p] = "compare"
    /\ seen' = [seen EXCEPT ![p] = row]
    /\ Goto(p, IF Deprives(row, want[p]) THEN "count" ELSE "commit")
    /\ ReadOnly /\ UNCHANGED <<order, who, expected, want, ghosts>>

CountAdmins(p) ==
    /\ pc[p] = "count"
    /\ IF Cardinality(EnabledAdmins) <= 1 THEN Finish(p, "last_admin") ELSE Goto(p, "commit")
    /\ ReadOnly /\ UNCHANGED <<progress, ghosts>>

\* Mutant: the transaction relies on the count made before it.
MayCommitUncounted(p) ==
    LET row == accounts[order[p].target] IN
    /\ EnabledAdmin(who[p])
    /\ row.mtime = expected[p]
    /\ Named(want[p].name) \subseteq {order[p].target}

\* The checks of the UpdateUserSecurity transaction.
MayCommit(p) ==
    LET row == accounts[order[p].target] IN
    /\ EnabledAdmin(who[p])
    /\ row.mtime = expected[p]
    /\ Deprives(row, want[p]) => Cardinality(EnabledAdmins) > 1
    /\ Named(want[p].name) \subseteq {order[p].target}

\* UpdateUserSecurity: the row, the revocations and the audit event together.
CommitUpdate(p) ==
    LET u == order[p].target IN
    /\ pc[p] = "commit"
    /\ \/ /\ ~MayCommit(p)
          /\ Finish(p, "conflict")
          /\ UNCHANGED <<tables, epoch>>
       \/ /\ MayCommit(p)
          /\ accounts' = [accounts EXCEPT ![u] =
                [want[p] EXCEPT !.mtime = NextUpdatedAt(accounts[u].mtime)]]
          /\ IF Invalidates(seen[p], want[p]) THEN RevokeIdentity(u)
                                              ELSE UNCHANGED <<sessions, tokens>>
          /\ CountIdentityChange(u)
          /\ Finish(p, "ok")
    /\ UNCHANGED <<clock, hashes, started, progress, base>>

-----------------------------------------------------------------------------
(* Time and failures *)

\* The repository call at hand fails, or the process runs into its limits.
Fault(p) ==
    /\ pc[p] \notin {"idle", "done"}
    /\ Finish(p, "error")
    /\ ReadOnly /\ UNCHANGED <<progress, ghosts>>

Tick ==
    /\ clock < MaxClock
    /\ clock' = clock + 1
    /\ UNCHANGED <<tables, hashes, started, pc, progress, answer, ghosts>>

\* A crash or restart: the tables stay.
Restart ==
    /\ pc' = [p \in Requests |-> "idle"]
    /\ answer' = [p \in Requests |-> "none"]
    /\ UNCHANGED <<tables, clock, hashes, started, progress, ghosts>>

AnyRow == [name |-> CHOOSE n \in Names : TRUE, access |-> "user", enabled |-> FALSE,
           hash |-> 0, mtime |-> 0]

Init ==
    /\ accounts = [u \in Users |-> NoUser]
    /\ sessions = [s \in Sessions |-> NoSession]
    /\ tokens = [t \in Tokens |-> NoToken]
    /\ clock = 0 /\ hashes = 0 /\ started = 0
    /\ pc = [p \in Requests |-> "idle"]
    /\ order = [p \in Requests |-> CHOOSE o \in Orders : TRUE]
    /\ who = [p \in Requests |-> CHOOSE u \in Users : TRUE]
    /\ expected = [p \in Requests |-> 0]
    /\ want = [p \in Requests |-> AnyRow]
    /\ seen = [p \in Requests |-> AnyRow]
    /\ base = [p \in Requests |-> AnyRow]
    /\ answer = [p \in Requests |-> "none"]
    /\ epoch = [u \in Users |-> 0]

Step(p) ==
    \/ CheckSession(p) \/ CheckUser(p)
    \/ Setup(p) \/ Login(p) \/ CreateSession(p) \/ Logout(p)
    \/ IssueToken(p) \/ RevokeToken(p)
    \/ ChangePassword(p) \/ RecoverPassword(p) \/ SetPassword(p)
    \/ Authorize(p) \/ InsertUser(p)
    \/ LoadUser(p) \/ CompareUser(p) \/ CountAdmins(p) \/ CommitUpdate(p)
    \/ Fault(p)

Next ==
    \/ \E p \in Requests : Step(p) \/ \E o \in Orders, e \in 0..(MaxClock + MaxRequests) :
                                          StartRequest(p, o, e)
    \/ Tick
    \/ Restart

Spec == Init /\ [][Next]_vars

-----------------------------------------------------------------------------
(* Properties *)

Labels == {"idle", "cookie", "principal", "csrf", "holder", "session", "set_password",
           "authorize", "insert", "load", "reauthorize", "compare", "count", "commit",
           "done"} \cup (Ops \ AdminOps)
Answers == {"none", "ok", "unauthorized", "forbidden", "bad_request", "conflict",
            "not_found", "last_admin", "error"}

\* The type invariant of accounts, sessions and tokens.
TypeOK ==
    /\ accounts \in [Users -> Row \cup {NoUser}]
    /\ sessions \in [Sessions -> Session \cup {NoSession}]
    /\ tokens \in [Tokens -> Token \cup {NoToken}]
    /\ clock \in Nat /\ hashes \in Nat /\ started \in Nat
    /\ pc \in [Requests -> Labels]
    /\ order \in [Requests -> Orders]
    /\ who \in [Requests -> Users]
    /\ expected \in [Requests -> Nat]
    /\ want \in [Requests -> Row] /\ seen \in [Requests -> Row] /\ base \in [Requests -> Row]
    /\ answer \in [Requests -> Answers]
    /\ epoch \in [Users -> Nat]

\* Update refuses to disable or demote the last enabled administrator: however
\* many administrators act on each other at once, one remains.
AdminRemains == (\E u \in Users : Exists(u)) => EnabledAdmins # {}

\* The mtime check of UpdateUserSecurity and ChangeUserPassword: an update that
\* passes it overwrites exactly the row it was computed from, and judged the
\* change (invalidate, audit action) by that same row.
NoLostUpdate ==
    \A p \in Requests :
        /\ pc[p] = "commit" /\ accounts[order[p].target].mtime = expected[p] =>
              accounts[order[p].target] = base[p] /\ seen[p] = base[p]
        /\ pc[p] = "set_password" /\ accounts[who[p]].mtime = expected[p] =>
              accounts[who[p]] = base[p]

\* A change of password, username or access, or a disablement, leaves no
\* session and no Docker token alive that was in the tables before it.
IdentityChangeRevokes ==
    /\ \A s \in Sessions : sessions[s] # NoSession /\ sessions[s].live =>
                              sessions[s].epoch = epoch[sessions[s].user]
    /\ \A t \in Tokens : tokens[t] # NoToken /\ tokens[t].live =>
                              tokens[t].epoch = epoch[tokens[t].user]

\* A disabled user holds no live Docker token, whenever the token was asked for.
DisabledHoldNoTokens ==
    \A t \in Tokens : tokens[t] # NoToken /\ tokens[t].live => IsEnabled(tokens[t].user)

=============================================================================
