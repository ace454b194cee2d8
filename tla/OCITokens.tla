----------------------------- MODULE OCITokens -----------------------------
(***************************************************************************)
(* Access to the registry API: a client exchanges a Docker token for a     *)
(* short-lived bearer (ServeTokenHTTP, OCITokenService.Issue) and presents *)
(* the bearer with every request (authenticate,                            *)
(* OCITokenService.Authenticate), which looks the Docker token and its     *)
(* owner up again.                                                         *)
(*                                                                         *)
(* Both calls read the users and the docker_tokens table one after the     *)
(* other; administrators, owners and restarts come between the two reads.  *)
(* The failure limiter is the module FailureLimiter.                       *)
(***************************************************************************)
EXTENDS Naturals, FiniteSets

CONSTANTS
    Requests,       \* handlers that may be in flight together
    Users,          \* user ids
    Usernames,      \* the names they go by
    Hashes,         \* Docker tokens, by hash
    Repositories,   \* repositories of a scope or a request
    NoScope,        \* the repository of a bearer or a request for none
    Nobody,         \* the anonymous principal; a client without credentials
    Lifetime,       \* how long a bearer lives
    MaxClock,       \* bound: the time at which a behaviour ends
    MaxProcesses,   \* bound: processes of a behaviour
    MaxBearers      \* bound: bearers issued

Actions == {"pull", "push"}
Scopes  == (Repositories \X (SUBSET Actions \ {{}})) \cup {<<NoScope, {}>>}

\* What a request needs: a repository and an action, or neither for /v2/.
Needs == (Repositories \X Actions) \cup {<<NoScope, "">>}

ASSUME TokenConstants ==
    /\ Nobody \notin Users \cup Usernames \cup Hashes /\ NoScope \notin Repositories
    /\ Lifetime \in Nat \ {0} /\ MaxClock \in Nat /\ MaxProcesses \in Nat \ {0} /\ MaxBearers \in Nat

VARIABLES
    now,        \* the clock
    process,    \* the process that runs; its number stands for its random HMAC key
    enabled,    \* users table: who is enabled
    nameOf,     \* users table: the username of each user
    tokens,     \* docker_tokens table
    bearers,    \* bearers that clients hold
    call        \* what each handler was called with and where it stands; "entitled"
                \* is history: the token entitled its owner when the request began

vars == <<now, process, enabled, nameOf, tokens, bearers, call>>

-----------------------------------------------------------------------------
(* Tokens *)

DockerToken == [owner : Users \cup {Nobody}, revoked : BOOLEAN, expires : Nat]

\* ociClaims, with the key that signed them.
Bearer == [signed : Nat, user : Users \cup {Nobody}, hash : Hashes \cup {Nobody},
           repository : Repositories \cup {NoScope}, actions : SUBSET Actions, expires : Nat]

\* A token that is live and whose owner is enabled.
Entitles(h) == tokens[h].owner \in enabled /\ ~tokens[h].revoked /\ now < tokens[h].expires

\* Mutant: the owner is not compared.
MatchesAnyOwner(token, u) == token.owner # Nobody /\ ~token.revoked /\ now < token.expires

\* The condition AuthenticateWithToken and ValidateHash share, but for the user.
Matches(token, u) == token.owner = u /\ ~token.revoked /\ now < token.expires

Idle == [at |-> "idle"]
Start(p, c) == call[p].at = "idle" /\ call' = [call EXCEPT ![p] = c]
Answer(p)   == call' = [call EXCEPT ![p] = Idle]

-----------------------------------------------------------------------------
(* The token endpoint *)

\* A client without credentials is given a bearer for what it asks, but to push.
IssueAnonymous(p, scope) ==
    /\ call[p].at = "idle" /\ Cardinality(bearers) < MaxBearers
    /\ "push" \notin scope[2]
    /\ bearers' = bearers \cup
          {[signed |-> process, user |-> Nobody, hash |-> Nobody, repository |-> scope[1],
            actions |-> scope[2], expires |-> now + Lifetime]}
    /\ UNCHANGED <<now, process, enabled, nameOf, tokens, call>>

\* The expiry is fixed before the token is looked at.
BeginIssue(p, name, h, scope) ==
    /\ Cardinality(bearers) < MaxBearers
    /\ Start(p, [at |-> "issueUser", name |-> name, hash |-> h, scope |-> scope,
                 expires |-> now + Lifetime])
    /\ UNCHANGED <<now, process, enabled, nameOf, tokens, bearers>>

\* FindUserByUsername.
IssueFindUser(p) ==
    /\ call[p].at = "issueUser"
    /\ \/ \E u \in enabled : /\ nameOf[u] = call[p].name
                             /\ call' = [call EXCEPT ![p] =
                                   [at |-> "issueToken", user |-> u, hash |-> call[p].hash,
                                    scope |-> call[p].scope, expires |-> call[p].expires]]
       \/ (\A u \in enabled : nameOf[u] # call[p].name) /\ Answer(p)
    /\ UNCHANGED <<now, process, enabled, nameOf, tokens, bearers>>

IssueFindToken(p) ==
    /\ call[p].at = "issueToken"
    /\ \/ /\ Matches(tokens[call[p].hash], call[p].user)
          /\ bearers' = bearers \cup
                {[signed |-> process, user |-> call[p].user, hash |-> call[p].hash,
                  repository |-> call[p].scope[1], actions |-> call[p].scope[2],
                  expires |-> call[p].expires]}
       \/ ~Matches(tokens[call[p].hash], call[p].user) /\ UNCHANGED bearers
    /\ Answer(p)
    /\ UNCHANGED <<now, process, enabled, nameOf, tokens>>

-----------------------------------------------------------------------------
(* The other requests *)

\* Mutant: an anonymous bearer is good for every action.
CoversAnonymous(b, need) ==
    /\ b.signed = process /\ now < b.expires /\ b.repository = need[1]
    /\ b.user = Nobody \/ need[2] = "" \/ need[2] \in b.actions

\* Signature, expiry, repository and action of the bearer.
Covers(b, need) ==
    /\ b.signed = process /\ now < b.expires /\ b.repository = need[1]
    /\ need[2] = "" \/ need[2] \in b.actions
    /\ b.user = Nobody => need[2] \in {"", "pull"}

\* Requests without a bearer, or with one that does not cover them, are
\* challenged; an anonymous one is served without another look.
BeginRequest(p, b, need) ==
    /\ Covers(b, need)
    /\ Start(p, IF b.user = Nobody
                THEN [at |-> "serving", user |-> Nobody, need |-> need, entitled |-> TRUE]
                ELSE [at |-> "requestToken", user |-> b.user, hash |-> b.hash, need |-> need,
                      entitled |-> Entitles(b.hash)])
    /\ UNCHANGED <<now, process, enabled, nameOf, tokens, bearers>>

\* ValidateHash reads the token first, then the user, then compares.
RequestFindToken(p) ==
    /\ call[p].at = "requestToken"
    /\ call' = [call EXCEPT ![p] =
          [at |-> "requestUser", user |-> call[p].user, token |-> tokens[call[p].hash],
           need |-> call[p].need, entitled |-> call[p].entitled]]
    /\ UNCHANGED <<now, process, enabled, nameOf, tokens, bearers>>

RequestFindUser(p) ==
    /\ call[p].at = "requestUser"
    /\ \/ /\ call[p].user \in enabled /\ Matches(call[p].token, call[p].user)
          /\ call' = [call EXCEPT ![p] =
                [at |-> "serving", user |-> call[p].user, need |-> call[p].need,
                 entitled |-> call[p].entitled]]
       \/ /\ ~(call[p].user \in enabled /\ Matches(call[p].token, call[p].user))
          /\ Answer(p)
    /\ UNCHANGED <<now, process, enabled, nameOf, tokens, bearers>>

\* The handler answers.
Served(p) ==
    /\ call[p].at = "serving"
    /\ Answer(p)
    /\ UNCHANGED <<now, process, enabled, nameOf, tokens, bearers>>

-----------------------------------------------------------------------------
(* The tables, the clock and the process *)

\* CreateDockerTokenWithAudit: for an enabled user, with a new hash.
CreateDockerToken(u, h, expires) ==
    /\ u \in enabled /\ tokens[h].owner = Nobody
    /\ expires > now
    /\ tokens' = [tokens EXCEPT ![h] = [owner |-> u, revoked |-> FALSE, expires |-> expires]]
    /\ UNCHANGED <<now, process, enabled, nameOf, bearers, call>>

RevokeDockerToken(h) ==
    /\ tokens[h].owner # Nobody /\ ~tokens[h].revoked
    /\ tokens' = [tokens EXCEPT ![h].revoked = TRUE]
    /\ UNCHANGED <<now, process, enabled, nameOf, bearers, call>>

\* What a change of access or of the username does to the tokens of its user.
Revoked(u) == [h \in Hashes |-> IF tokens[h].owner = u THEN [tokens[h] EXCEPT !.revoked = TRUE]
                                                       ELSE tokens[h]]

\* Mutant: disabling leaves the tokens to the enabled check.
DisableOnly(u) ==
    /\ u \in enabled
    /\ enabled' = enabled \ {u}
    /\ UNCHANGED <<now, process, nameOf, tokens, bearers, call>>

Disable(u) ==
    /\ u \in enabled
    /\ enabled' = enabled \ {u}
    /\ tokens' = Revoked(u)
    /\ UNCHANGED <<now, process, nameOf, bearers, call>>

Enable(u) ==
    /\ u \notin enabled
    /\ enabled' = enabled \cup {u}
    /\ UNCHANGED <<now, process, nameOf, tokens, bearers, call>>

\* Mutant: nothing keeps a name to one user.
RenameUnchecked(u, name) ==
    /\ nameOf' = [nameOf EXCEPT ![u] = name]
    /\ tokens' = Revoked(u)
    /\ UNCHANGED <<now, process, enabled, bearers, call>>

\* The unique index refuses a name that is taken.
Rename(u, name) ==
    /\ \A v \in Users : nameOf[v] # name
    /\ nameOf' = [nameOf EXCEPT ![u] = name]
    /\ tokens' = Revoked(u)
    /\ UNCHANGED <<now, process, enabled, bearers, call>>

Tick ==
    /\ now < MaxClock
    /\ now' = now + 1
    /\ UNCHANGED <<process, enabled, nameOf, tokens, bearers, call>>

\* NewOCITokenService draws a new key; handlers in flight are gone.
Restart ==
    /\ process < MaxProcesses
    /\ process' = process + 1
    /\ call' = [p \in Requests |-> Idle]
    /\ UNCHANGED <<now, enabled, nameOf, tokens, bearers>>

Init ==
    /\ now = 0 /\ process = 1
    /\ enabled = Users
    /\ nameOf \in [Users -> Usernames] /\ \A u, v \in Users : nameOf[u] = nameOf[v] => u = v
    /\ tokens = [h \in Hashes |-> [owner |-> Nobody, revoked |-> FALSE, expires |-> 0]]
    /\ bearers = {}
    /\ call = [p \in Requests |-> Idle]

Handle(p) ==
    \/ \E scope \in Scopes :
        \/ IssueAnonymous(p, scope)
        \/ \E name \in Usernames, h \in Hashes : BeginIssue(p, name, h, scope)
    \/ IssueFindUser(p) \/ IssueFindToken(p)
    \/ \E b \in bearers, need \in Needs : BeginRequest(p, b, need)
    \/ RequestFindToken(p) \/ RequestFindUser(p) \/ Served(p)

Next ==
    \/ \E p \in Requests : Handle(p)
    \/ \E u \in Users, h \in Hashes, e \in 1..MaxClock : CreateDockerToken(u, h, e)
    \/ \E h \in Hashes : RevokeDockerToken(h)
    \/ \E u \in Users : Disable(u) \/ Enable(u) \/ \E name \in Usernames : Rename(u, name)
    \/ Tick \/ Restart

Spec == Init /\ [][Next]_vars

-----------------------------------------------------------------------------
(* Properties *)

Calls ==
    {Idle}
    \cup [at : {"issueUser"}, name : Usernames, hash : Hashes, scope : Scopes, expires : Nat]
    \cup [at : {"issueToken"}, user : Users, hash : Hashes, scope : Scopes, expires : Nat]
    \cup [at : {"requestToken"}, user : Users, hash : Hashes, need : Needs, entitled : BOOLEAN]
    \cup [at : {"requestUser"}, user : Users, token : DockerToken, need : Needs, entitled : BOOLEAN]
    \cup [at : {"serving"}, user : Users \cup {Nobody}, need : Needs, entitled : BOOLEAN]

\* The type invariant; a username belongs to one user.
TypeOK ==
    /\ now \in Nat /\ process \in Nat
    /\ enabled \subseteq Users
    /\ nameOf \in [Users -> Usernames] /\ \A u, v \in Users : nameOf[u] = nameOf[v] => u = v
    /\ tokens \in [Hashes -> DockerToken]
    /\ bearers \subseteq Bearer
    /\ call \in [Requests -> Calls]

\* docs/THREAT_MODEL.md: revocation takes effect immediately and is not cached.
\* ValidateHash reads token and user apart; a request is still served as a user
\* only if, when it began, its token was live and its owner enabled.
ServedWasEntitled ==
    \A p \in Requests : call[p].at = "serving" => call[p].entitled

\* Issue and Authenticate both keep anonymous clients from pushing.
AnonymousNeverPushes ==
    \A p \in Requests :
        call[p].at = "serving" /\ call[p].user = Nobody => call[p].need[2] # "push"

\* Issue finds the user by a name that may change hands before the token is
\* read; a bearer still names the user the Docker token belongs to.
BearerNamesOwner ==
    \A b \in bearers : b.user # Nobody => tokens[b.hash].owner = b.user

\* What a bearer is good for, while names change hands and keys are replaced
\* between the two reads of its issue (OCITokenService.Issue, Authenticate).
BearersInv == TypeOK /\ AnonymousNeverPushes /\ BearerNamesOwner

=============================================================================
