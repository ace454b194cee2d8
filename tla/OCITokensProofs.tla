-------------------------- MODULE OCITokensProofs --------------------------
(***************************************************************************)
(* Proofs about OCITokens, for every set of users, names and tokens, any   *)
(* number of requests in flight and any lifetime of a bearer.              *)
(***************************************************************************)
EXTENDS OCITokens, TLAPS

\* What is over for good: revoked, or past its end.
Spent(token) == token.revoked \/ token.expires <= now

\* The tokens of a user who is disabled have been revoked, and stay so when
\* the user is enabled again.
DisabledAreRevoked ==
    \A h \in Hashes : tokens[h].owner \in Users \ enabled => tokens[h].revoked

\* A request that began when its token did not entitle its owner holds a token
\* that is spent.
CallInv(p) ==
    /\ call[p].at = "requestToken" =>
          /\ tokens[call[p].hash].owner = call[p].user
          /\ ~call[p].entitled => Spent(tokens[call[p].hash])
    /\ call[p].at = "requestUser" /\ ~call[p].entitled => Spent(call[p].token)
    /\ call[p].at = "serving" =>
          call[p].entitled /\ (call[p].user = Nobody => call[p].need[2] # "push")

BearersKept == \A b \in bearers : b.user # Nobody => b.hash \in Hashes /\ tokens[b.hash].owner = b.user

AccessInv == TypeOK /\ DisabledAreRevoked /\ BearersKept /\ \A p \in Requests : CallInv(p)

\* What a handler holds at each label.
LEMMA CallTypes ==
    ASSUME TypeOK, NEW p \in Requests
    PROVE  /\ call[p].at \in {"idle", "issueUser", "issueToken", "requestToken", "requestUser",
                              "serving"}
           /\ call[p].at = "issueUser" =>
                /\ call[p].name \in Usernames /\ call[p].hash \in Hashes
                /\ call[p].scope \in Scopes /\ call[p].expires \in Nat
           /\ call[p].at = "issueToken" =>
                /\ call[p].user \in Users /\ call[p].hash \in Hashes
                /\ call[p].scope \in Scopes /\ call[p].expires \in Nat
           /\ call[p].at = "requestToken" =>
                /\ call[p].user \in Users /\ call[p].hash \in Hashes
                /\ call[p].need \in Needs /\ call[p].entitled \in BOOLEAN
           /\ call[p].at = "requestUser" =>
                /\ call[p].user \in Users /\ call[p].token \in DockerToken
                /\ call[p].need \in Needs /\ call[p].entitled \in BOOLEAN
           /\ call[p].at = "serving" =>
                /\ call[p].user \in Users \cup {Nobody}
                /\ call[p].need \in Needs /\ call[p].entitled \in BOOLEAN
  <1>1. call[p] \in Calls
    BY DEF TypeOK
  <1>2. QED
    BY <1>1 DEF Calls, Idle

\* A scope is a repository and actions on it.
LEMMA ScopeTypes ==
    ASSUME NEW s \in Scopes
    PROVE  s[1] \in Repositories \cup {NoScope} /\ s[2] \in SUBSET Actions
  BY DEF Scopes

\* The empty tables.
LEMMA InitAccessInv == Init => AccessInv
  BY TokenConstants
  DEF Init, AccessInv, TypeOK, DockerToken, Calls, Idle, DisabledAreRevoked, BearersKept, CallInv

\* A revoked token keeps its owner and its end.
LEMMA RevokedTokens ==
    ASSUME TypeOK, NEW u \in Users
    PROVE  /\ Revoked(u) \in [Hashes -> DockerToken]
           /\ \A h \in Hashes :
                 /\ Revoked(u)[h].owner = tokens[h].owner
                 /\ Revoked(u)[h].expires = tokens[h].expires
                 /\ Revoked(u)[h].revoked = (tokens[h].revoked \/ tokens[h].owner = u)
  <1>1. ASSUME NEW h \in Hashes
        PROVE  /\ Revoked(u)[h] \in DockerToken
               /\ Revoked(u)[h].owner = tokens[h].owner
               /\ Revoked(u)[h].expires = tokens[h].expires
               /\ Revoked(u)[h].revoked = (tokens[h].revoked \/ tokens[h].owner = u)
    BY DEF Revoked, TypeOK, DockerToken
  <1>2. QED
    BY <1>1 DEF Revoked

\* The tables and the clock may change under a request, as long as a token
\* keeps its owner and its end and is never un-revoked.
LEMMA RequestsUndisturbed ==
    ASSUME TypeOK, UNCHANGED call, now' \in Nat, now <= now', tokens' \in [Hashes -> DockerToken],
           \A h \in Hashes : tokens[h].owner # Nobody =>
              /\ tokens'[h].owner = tokens[h].owner /\ tokens'[h].expires = tokens[h].expires
              /\ tokens[h].revoked => tokens'[h].revoked,
           BearersKept, \A p \in Requests : CallInv(p)
    PROVE  \A p \in Requests : CallInv(p)'
  <1>1. ASSUME NEW t \in DockerToken, t.expires <= now
        PROVE  t.expires <= now'
    BY <1>1 DEF DockerToken, TypeOK
  <1>2. ASSUME NEW p \in Requests
        PROVE  CallInv(p)'
    <2>1. CASE call[p].at = "requestToken"
      BY <1>1, <2>1, CallTypes, TokenConstants DEF CallInv, Spent, TypeOK
    <2>2. CASE call[p].at = "requestUser"
      BY <1>1, <2>2, CallTypes DEF CallInv, Spent
    <2>3. CASE call[p].at \notin {"requestToken", "requestUser"}
      BY <2>3 DEF CallInv
    <2>4. QED
      BY <2>1, <2>2, <2>3
  <1>3. QED
    BY <1>2

\* A handler's step changes nothing for the other handlers.
LEMMA OthersUndisturbed ==
    ASSUME AccessInv, NEW p \in Requests, NEW c \in Calls, call' = [call EXCEPT ![p] = c],
           UNCHANGED <<now, tokens>>, CallInv(p)'
    PROVE  call' \in [Requests -> Calls] /\ \A q \in Requests : CallInv(q)'
  <1>1. \A q \in Requests : CallInv(q)
    BY DEF AccessInv
  <1>2. \A q \in Requests \ {p} : call'[q] = call[q]
    BY DEF AccessInv, TypeOK
  <1>3. ASSUME NEW q \in Requests \ {p}
        PROVE  CallInv(q)'
    BY <1>1, <1>2 DEF CallInv, Spent
  <1>4. QED
    BY <1>3 DEF AccessInv, TypeOK

\* A handler that answers.
LEMMA AnswersIdle ==
    ASSUME AccessInv, NEW p \in Requests, Answer(p), UNCHANGED <<now, tokens>>
    PROVE  call' \in [Requests -> Calls] /\ \A q \in Requests : CallInv(q)'
  <1>1. Idle \in Calls
    BY DEF Calls
  <1>2. CallInv(p)'
    BY DEF Answer, CallInv, Idle, AccessInv, TypeOK
  <1>3. QED
    BY <1>1, <1>2, OthersUndisturbed DEF Answer

\* Every step preserves what bearers, tokens and requests promise.
LEMMA StepAccessInv ==
    ASSUME AccessInv, [Next]_vars
    PROVE  AccessInv'
  <1> DEFINE Calls1 == call' \in [Requests -> Calls] /\ \A q \in Requests : CallInv(q)'
  <1>t. TypeOK /\ DisabledAreRevoked /\ BearersKept /\ \A q \in Requests : CallInv(q)
    BY DEF AccessInv
  <1>n. Lifetime \in Nat /\ Nobody \notin Users /\ Nobody \notin Hashes
    BY TokenConstants
  <1>h. ASSUME Calls1, UNCHANGED <<now, process, enabled, nameOf, tokens>>, bearers' \subseteq Bearer,
               \A b \in bearers' \ bearers :
                  b.user # Nobody => b.hash \in Hashes /\ tokens[b.hash].owner = b.user
        PROVE  AccessInv'
    BY <1>h, <1>t DEF AccessInv, TypeOK, DisabledAreRevoked, BearersKept
  <1>1. ASSUME NEW p \in Requests, NEW scope \in Scopes, IssueAnonymous(p, scope)
        PROVE  AccessInv'
    <2>1. Calls1
      BY <1>1, <1>t DEF IssueAnonymous, TypeOK, CallInv, Spent
    <2>2. now + Lifetime \in Nat
      BY <1>n, <1>t DEF TypeOK
    <2>3. bearers' \subseteq Bearer
      BY <1>1, <1>t, <2>2, ScopeTypes DEF IssueAnonymous, Bearer, TypeOK
    <2>4. QED
      BY <1>1, <1>h, <2>1, <2>3 DEF IssueAnonymous
  <1>2. ASSUME NEW p \in Requests, NEW name \in Usernames, NEW h \in Hashes, NEW scope \in Scopes,
               BeginIssue(p, name, h, scope)
        PROVE  AccessInv'
    <2>1. now + Lifetime \in Nat
      BY <1>n, <1>t DEF TypeOK
    <2> DEFINE c == [at |-> "issueUser", name |-> name, hash |-> h, scope |-> scope,
                     expires |-> now + Lifetime]
    <2>2. c \in Calls
      BY <2>1 DEF Calls
    <2>3. call' = [call EXCEPT ![p] = c] /\ CallInv(p)'
      BY <1>2, <1>t DEF BeginIssue, Start, CallInv, TypeOK
    <2>4. QED
      BY <1>2, <1>h, <1>t, <2>2, <2>3, OthersUndisturbed DEF BeginIssue, TypeOK
  <1>3. ASSUME NEW p \in Requests, IssueFindUser(p)
        PROVE  AccessInv'
    <2>1. ASSUME NEW u \in enabled,
                 call' = [call EXCEPT ![p] = [at |-> "issueToken", user |-> u, hash |-> call[p].hash,
                                              scope |-> call[p].scope, expires |-> call[p].expires]]
          PROVE  Calls1
      <3> DEFINE c == [at |-> "issueToken", user |-> u, hash |-> call[p].hash,
                       scope |-> call[p].scope, expires |-> call[p].expires]
      <3>1. c \in Calls
        BY <1>3, <1>t, CallTypes DEF IssueFindUser, Calls, TypeOK
      <3>2. CallInv(p)'
        BY <2>1, <1>t DEF CallInv, TypeOK
      <3>3. QED
        BY <1>3, <2>1, <3>1, <3>2, OthersUndisturbed DEF IssueFindUser
    <2>2. Calls1
      BY <1>3, <2>1, AnswersIdle DEF IssueFindUser
    <2>3. QED
      BY <1>3, <1>h, <1>t, <2>2 DEF IssueFindUser, TypeOK
  <1>4. ASSUME NEW p \in Requests, IssueFindToken(p)
        PROVE  AccessInv'
    <2>1. Calls1
      BY <1>4, AnswersIdle DEF IssueFindToken
    <2>2. /\ call[p].user \in Users /\ call[p].hash \in Hashes /\ call[p].expires \in Nat
          /\ call[p].scope \in Scopes
      BY <1>4, <1>t, CallTypes DEF IssueFindToken
    <2>3. CASE UNCHANGED bearers
      BY <1>4, <1>h, <1>t, <2>1, <2>3 DEF IssueFindToken, TypeOK
    <2>4. CASE Matches(tokens[call[p].hash], call[p].user)
      <3> DEFINE b == [signed |-> process, user |-> call[p].user, hash |-> call[p].hash,
                       repository |-> call[p].scope[1], actions |-> call[p].scope[2],
                       expires |-> call[p].expires]
      <3>1. b \in Bearer
        BY <1>t, <2>2, ScopeTypes DEF Bearer, TypeOK
      <3>2. tokens[b.hash].owner = b.user
        BY <2>4 DEF Matches
      <3>3. bearers' = bearers \cup {b}
        BY <1>4, <2>4 DEF IssueFindToken
      <3>4. bearers' \subseteq Bearer
        BY <1>t, <3>1, <3>3 DEF TypeOK
      <3>5. QED
        BY <1>4, <1>h, <2>1, <2>2, <3>2, <3>3, <3>4 DEF IssueFindToken
    <2>5. QED
      BY <1>4, <2>3, <2>4 DEF IssueFindToken
  <1>5. ASSUME NEW p \in Requests, NEW b \in bearers, NEW need \in Needs, BeginRequest(p, b, need)
        PROVE  AccessInv'
    <2>1. Covers(b, need) /\ b \in Bearer
      BY <1>5, <1>t DEF BeginRequest, TypeOK
    <2>2. CASE b.user = Nobody
      <3> DEFINE c == [at |-> "serving", user |-> Nobody, need |-> need, entitled |-> TRUE]
      <3>1. call' = [call EXCEPT ![p] = c] /\ c \in Calls
        BY <1>5, <2>2 DEF BeginRequest, Start, Calls
      <3>2. CallInv(p)'
        BY <1>t, <2>1, <2>2, <3>1 DEF CallInv, Covers, TypeOK
      <3>3. QED
        BY <1>5, <1>h, <1>t, <3>1, <3>2, OthersUndisturbed DEF BeginRequest, TypeOK
    <2>3. CASE b.user # Nobody
      <3> DEFINE c == [at |-> "requestToken", user |-> b.user, hash |-> b.hash, need |-> need,
                       entitled |-> Entitles(b.hash)]
      <3>1. b.user \in Users /\ b.hash \in Hashes /\ tokens[b.hash].owner = b.user
        BY <1>t, <2>1, <2>3 DEF Bearer, BearersKept
      <3>2. call' = [call EXCEPT ![p] = c]
        BY <1>5, <2>3 DEF BeginRequest, Start
      <3>3. tokens[b.hash] \in DockerToken /\ Entitles(b.hash) \in BOOLEAN
        BY <1>t, <3>1 DEF TypeOK, Entitles
      <3>4. c \in Calls
        BY <3>1, <3>3 DEF Calls
      <3>5. ~Entitles(b.hash) => Spent(tokens[b.hash])
        BY <1>t, <3>1, <3>3 DEF Entitles, Spent, DisabledAreRevoked, DockerToken, TypeOK
      <3>6. CallInv(p)'
        BY <1>5, <1>t, <3>1, <3>2, <3>5 DEF BeginRequest, CallInv, Spent, TypeOK
      <3>7. QED
        BY <1>5, <1>h, <1>t, <3>2, <3>4, <3>6, OthersUndisturbed DEF BeginRequest, TypeOK
    <2>4. QED
      BY <2>2, <2>3
  <1>6. ASSUME NEW p \in Requests, RequestFindToken(p)
        PROVE  AccessInv'
    <2> DEFINE c == [at |-> "requestUser", user |-> call[p].user, token |-> tokens[call[p].hash],
                     need |-> call[p].need, entitled |-> call[p].entitled]
    <2>1. call' = [call EXCEPT ![p] = c] /\ call[p].at = "requestToken"
      BY <1>6 DEF RequestFindToken
    <2>2. c \in Calls
      BY <1>t, <2>1, CallTypes DEF Calls, TypeOK
    <2>3. CallInv(p)'
      BY <1>6, <1>t, <2>1 DEF RequestFindToken, CallInv, Spent, TypeOK
    <2>4. QED
      BY <1>6, <1>h, <1>t, <2>1, <2>2, <2>3, OthersUndisturbed DEF RequestFindToken, TypeOK
  <1>7. ASSUME NEW p \in Requests, RequestFindUser(p)
        PROVE  AccessInv'
    <2> DEFINE c == [at |-> "serving", user |-> call[p].user, need |-> call[p].need,
                     entitled |-> call[p].entitled]
    <2>1. /\ call[p].at = "requestUser" /\ call[p].user \in Users /\ call[p].token \in DockerToken
          /\ call[p].need \in Needs /\ call[p].entitled \in BOOLEAN
      BY <1>7, <1>t, CallTypes DEF RequestFindUser
    <2>2. ASSUME Matches(call[p].token, call[p].user), call' = [call EXCEPT ![p] = c]
          PROVE  Calls1
      <3>1. c \in Calls
        BY <2>1 DEF Calls
      <3>2. ~Spent(call[p].token)
        BY <1>t, <2>1, <2>2 DEF Matches, Spent, DockerToken, TypeOK
      <3>3. call[p].entitled
        BY <1>t, <2>1, <3>2 DEF CallInv
      <3>4. CallInv(p)'
        BY <1>n, <1>t, <2>1, <2>2, <3>3 DEF CallInv, TypeOK
      <3>5. QED
        BY <1>7, <2>2, <3>1, <3>4, OthersUndisturbed DEF RequestFindUser
    <2>3. Calls1
      BY <1>7, <2>2, AnswersIdle DEF RequestFindUser
    <2>4. QED
      BY <1>7, <1>h, <1>t, <2>3 DEF RequestFindUser, TypeOK
  <1>8. ASSUME NEW p \in Requests, Served(p)
        PROVE  AccessInv'
    BY <1>8, <1>h, <1>t, AnswersIdle DEF Served, TypeOK
  <1>r. ASSUME UNCHANGED <<process, bearers, call>>, now' \in Nat, now <= now',
               tokens' \in [Hashes -> DockerToken],
               \A h \in Hashes : tokens[h].owner # Nobody =>
                  /\ tokens'[h].owner = tokens[h].owner /\ tokens'[h].expires = tokens[h].expires
                  /\ tokens[h].revoked => tokens'[h].revoked,
               enabled' \subseteq Users, DisabledAreRevoked', nameOf' \in [Users -> Usernames],
               \A u, v \in Users : nameOf'[u] = nameOf'[v] => u = v
        PROVE  AccessInv'
    <2>1. \A q \in Requests : CallInv(q)'
      BY <1>r, <1>t, RequestsUndisturbed
    <2>2. TypeOK'
      BY <1>r, <1>t DEF TypeOK
    <2>3. BearersKept'
      BY <1>r, <1>t, <1>n DEF BearersKept
    <2>4. QED
      BY <1>r, <2>1, <2>2, <2>3 DEF AccessInv
  <1>9. ASSUME NEW u \in Users, NEW h \in Hashes, NEW e \in 1..MaxClock, CreateDockerToken(u, h, e)
        PROVE  AccessInv'
    <2>1. e \in Nat
      BY TokenConstants
    <2>2. /\ tokens' = [tokens EXCEPT ![h] = [owner |-> u, revoked |-> FALSE, expires |-> e]]
          /\ u \in enabled /\ tokens[h].owner = Nobody
          /\ UNCHANGED <<now, process, enabled, nameOf, bearers, call>>
      BY <1>9 DEF CreateDockerToken
    <2>3. tokens' \in [Hashes -> DockerToken]
      BY <1>t, <2>1, <2>2 DEF TypeOK, DockerToken
    <2>4. DisabledAreRevoked'
      BY <1>t, <2>2 DEF DisabledAreRevoked, TypeOK
    <2>5. QED
      BY <1>r, <1>t, <2>2, <2>3, <2>4 DEF TypeOK
  <1>10. ASSUME NEW h \in Hashes, RevokeDockerToken(h)
         PROVE  AccessInv'
    <2>1. /\ tokens' = [tokens EXCEPT ![h] = [tokens[h] EXCEPT !.revoked = TRUE]]
          /\ UNCHANGED <<now, process, enabled, nameOf, bearers, call>>
      BY <1>10 DEF RevokeDockerToken
    <2>2. /\ [tokens[h] EXCEPT !.revoked = TRUE] \in DockerToken
          /\ [tokens[h] EXCEPT !.revoked = TRUE].owner = tokens[h].owner
          /\ [tokens[h] EXCEPT !.revoked = TRUE].expires = tokens[h].expires
          /\ [tokens[h] EXCEPT !.revoked = TRUE].revoked
      BY <1>t DEF TypeOK, DockerToken
    <2>3. tokens' \in [Hashes -> DockerToken]
      BY <1>t, <2>1, <2>2 DEF TypeOK
    <2>4. DisabledAreRevoked'
      BY <1>t, <2>1, <2>2 DEF DisabledAreRevoked, TypeOK
    <2>5. QED
      BY <1>r, <1>t, <2>1, <2>2, <2>3, <2>4 DEF TypeOK
  <1>11. ASSUME NEW u \in Users, Disable(u)
         PROVE  AccessInv'
    <2>r. /\ tokens' \in [Hashes -> DockerToken]
          /\ \A h \in Hashes : /\ tokens'[h].owner = tokens[h].owner
                              /\ tokens'[h].expires = tokens[h].expires
                              /\ tokens'[h].revoked = (tokens[h].revoked \/ tokens[h].owner = u)
      <3>1. tokens' = Revoked(u)
        BY <1>11 DEF Disable
      <3>2. QED
        BY <1>t, <3>1, RevokedTokens
    <2>1. DisabledAreRevoked'
      BY <1>11, <1>t, <2>r DEF Disable, DisabledAreRevoked
    <2>2. \A h \in Hashes : tokens[h].revoked => tokens'[h].revoked
      BY <2>r
    <2>3. /\ UNCHANGED <<process, bearers, call, now, nameOf>> /\ enabled' \subseteq Users
          /\ now \in Nat /\ now <= now
      BY <1>11, <1>t DEF Disable, TypeOK
    <2>4. QED
      BY <1>r, <1>t, <2>r, <2>1, <2>2, <2>3 DEF TypeOK
  <1>12. ASSUME NEW u \in Users, Enable(u)
         PROVE  AccessInv'
    BY <1>12, <1>r, <1>t DEF Enable, DisabledAreRevoked, TypeOK
  <1>13. ASSUME NEW u \in Users, NEW name \in Usernames, Rename(u, name)
         PROVE  AccessInv'
    <2>r. /\ tokens' \in [Hashes -> DockerToken]
          /\ \A h \in Hashes : /\ tokens'[h].owner = tokens[h].owner
                              /\ tokens'[h].expires = tokens[h].expires
                              /\ tokens'[h].revoked = (tokens[h].revoked \/ tokens[h].owner = u)
      <3>1. tokens' = Revoked(u)
        BY <1>13 DEF Rename
      <3>2. QED
        BY <1>t, <3>1, RevokedTokens
    <2>1. DisabledAreRevoked'
      BY <1>13, <1>t, <2>r DEF Rename, DisabledAreRevoked
    <2>2. /\ nameOf' \in [Users -> Usernames]
          /\ \A v, w \in Users : nameOf'[v] = nameOf'[w] => v = w
      BY <1>13, <1>t DEF Rename, TypeOK
    <2>3. \A h \in Hashes : tokens[h].revoked => tokens'[h].revoked
      BY <2>r
    <2>4. /\ UNCHANGED <<process, bearers, call, now, enabled>> /\ enabled \subseteq Users
          /\ now \in Nat /\ now <= now
      BY <1>13, <1>t DEF Rename, TypeOK
    <2>5. QED
      BY <1>r, <2>r, <2>1, <2>2, <2>3, <2>4
  <1>14. CASE Tick
    BY <1>14, <1>r, <1>t DEF Tick, DisabledAreRevoked, TypeOK
  <1>15. CASE Restart
    BY <1>15, <1>t, TokenConstants
    DEF Restart, AccessInv, TypeOK, DisabledAreRevoked, BearersKept, CallInv, Idle, Calls
  <1>16. CASE UNCHANGED vars
    BY <1>16, <1>t DEF vars, AccessInv, TypeOK, DisabledAreRevoked, BearersKept, CallInv, Spent
  <1>17. QED
    BY <1>1, <1>2, <1>3, <1>4, <1>5, <1>6, <1>7, <1>8, <1>9, <1>10, <1>11, <1>12, <1>13, <1>14, <1>15,
       <1>16
    DEF Next, Handle

\* Issue and Authenticate: a bearer names the owner of its Docker token and an
\* anonymous one never pushes, while names change hands between the two reads
\* of its issue and processes draw new keys.
THEOREM BearersAreSound == Spec => []BearersInv
  <1>1. AccessInv => BearersInv
    BY DEF AccessInv, BearersInv, AnonymousNeverPushes, BearerNamesOwner, BearersKept, CallInv
  <1>2. AccessInv /\ [Next]_vars => AccessInv'
    BY StepAccessInv
  <1>3. QED
    BY InitAccessInv, <1>1, <1>2, PTL DEF Spec

\* ValidateHash: although token and owner are read apart, a request is served
\* as a user only if its token was live and its owner enabled when it began.
THEOREM RevocationIsImmediate == Spec => []ServedWasEntitled
  <1>1. AccessInv => ServedWasEntitled
    BY DEF AccessInv, ServedWasEntitled, CallInv
  <1>2. AccessInv /\ [Next]_vars => AccessInv'
    BY StepAccessInv
  <1>3. QED
    BY InitAccessInv, <1>1, <1>2, PTL DEF Spec

=============================================================================
