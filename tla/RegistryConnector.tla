------------------------- MODULE RegistryConnector -------------------------
(***************************************************************************)
(* One HTTPConnector and the registry and token service it talks to.       *)
(* Calls run side by side and share the connector's cache of tokens: a     *)
(* request that is challenged is repeated once, with credentials or with a *)
(* token that was cached or is exchanged for.  The registry chooses how it *)
(* challenges, where an upload goes on and whether it sends requests on to *)
(* another host; tokens expire and may be withdrawn, and every request may *)
(* fail on the way.                                                        *)
(***************************************************************************)
EXTENDS Integers, FiniteSets

CONSTANTS
    Calls,        \* calls of the connector under way
    Repos,        \* repositories they are for
    Configs,      \* connectors and registries, see Config
    Margin,       \* a cached token is not used this long before its end
    None,
    MaxTime,      \* bound: the clock
    MaxCalls      \* bound: calls begun

ASSUME ConnectorConstants ==
    Margin \in Nat /\ Repos # {} /\ MaxTime \in Nat /\ MaxCalls \in Nat

\* ResolveManifest and OpenBlob read.
Ops == {"read", "putBlob", "putManifest", "verifyPush"}

\* basic: the connector has credentials, which the registry accepts if valid;
\* preemptive: it sends them unasked; scheme, realm, life, public: how the
\* registry challenges, where its token service is, for how long tokens last
\* and whether it gives them to the anonymous; redirects: a request may be
\* answered from another host.
Config == [basic : BOOLEAN, preemptive : BOOLEAN, valid : BOOLEAN, public : BOOLEAN,
           scheme : {"none", "basic", "bearer", "other"}, realm : {"approved", "foreign"},
           life : Nat, redirects : BOOLEAN]

ASSUME ConfigAssumption == Configs \subseteq Config

VARIABLES
    now,          \* the clock
    era,          \* the token service's signing key: tokens of older ones are refused
    tokens,       \* the connector's cache, by scope
    call,         \* what each call is doing
    begun,        \* calls begun
    config        \* the connector and registry of this behaviour

vars == <<now, era, tokens, call, begun, config>>

-----------------------------------------------------------------------------

Action(op) == IF op = "read" THEN "pull" ELSE "push"

\* The scope a challenge names, and VerifyPushScope asks for.
Scopes == [repo : Repos, action : {"pull", "push"}]
ScopeOf(c) == [repo |-> call[c].repo, action |-> Action(call[c].op)]

NoAuth == [kind |-> "none"]
Basic == [kind |-> "basic"]
TokenAuth(token) == [kind |-> "token", token |-> token]

\* target: whose URL is asked; sentTo: who saw the credentials or a token.
Idle == [pc |-> "idle", op |-> "read", repo |-> CHOOSE r \in Repos : TRUE, auth |-> NoAuth,
         target |-> "registry", stage |-> 1, tries |-> 0, token |-> None, sentTo |-> {},
         answer |-> ""]

Active(c) == call[c].pc \notin {"idle", "answered"}
Set(c, new) == call' = [call EXCEPT ![c] = new]
OnlyCall == UNCHANGED <<now, era, tokens, begun, config>>

\* What a call was refused with is remembered, for RefusalIsReal.
Answered(c, answer) ==
    [Idle EXCEPT !.pc = "answered", !.answer = answer, !.op = call[c].op, !.repo = call[c].repo,
                 !.sentTo = call[c].sentTo,
                 !.auth = IF answer = "authentication" THEN call[c].auth ELSE NoAuth]

\* authorize: credentials are sent unasked only if so configured.
Preemptive == IF config.basic /\ config.preemptive THEN Basic ELSE NoAuth

\* VerifyPushScope needs credentials, and sends its first request without.
Start(c) ==
    /\ ~Active(c) /\ begun < MaxCalls
    /\ \E op \in Ops, r \in Repos :
          Set(c, [Idle EXCEPT !.op = op, !.repo = r,
                    !.pc = IF op = "verifyPush" /\ ~config.basic THEN "answered" ELSE "send",
                    !.answer = IF op = "verifyPush" /\ ~config.basic THEN "authentication" ELSE "",
                    !.auth = IF op = "verifyPush" THEN NoAuth ELSE Preemptive])
    /\ begun' = begun + 1
    /\ UNCHANGED <<now, era, tokens, config>>

-----------------------------------------------------------------------------
(* The registry (external).                                                *)

Accepts(auth, scope) ==
    CASE config.scheme = "none"   -> TRUE
      [] config.scheme = "basic"  -> auth.kind = "basic" /\ config.valid
      [] config.scheme = "bearer" -> /\ auth.kind = "token"
                                     /\ auth.token.scope = scope
                                     /\ auth.token.era = era /\ now <= auth.token.end
      [] OTHER -> FALSE

\* A redirected request is repeated by Go's client, which leaves Authorization
\* out on another host; that host answers as it likes.
MayAnswer(c)    == Accepts(call[c].auth, ScopeOf(c)) \/ config.redirects
MayChallenge(c) == ~Accepts(call[c].auth, ScopeOf(c)) \/ config.redirects

Seen(c) == IF call[c].auth.kind # "none" THEN call[c].sentTo \cup {call[c].target} ELSE call[c].sentTo

-----------------------------------------------------------------------------
(* doAuthenticated and what its callers make of the response.              *)

\* registryAccessError, and the statuses each operation tells apart.
Classified(op, status) ==
    CASE status = "200" -> "ok"
      [] status = "401" -> "authentication"
      [] status = "403" -> "authorization"
      [] status = "404" /\ op # "putBlob" -> "notFound"
      [] status = "500" -> "unavailable"
      [] OTHER -> "failed"

\* Mutant: an upload goes on wherever its Location points.
AnyLocation(origin) == TRUE

\* resolveLocation: a Location without an origin is one of the registry.
SameOrigin(origin) == origin = "registry"

\* Mutant: the PUT of an upload counts the retries of its POST.
FinishCountingOn(c, status) ==
    IF call[c].op = "putBlob" /\ call[c].stage = 1 /\ status = "200"
    THEN \E origin \in {"registry", "foreign"} :
            IF SameOrigin(origin)
            THEN Set(c, [call[c] EXCEPT !.stage = 2, !.target = origin, !.auth = Preemptive,
                                        !.sentTo = Seen(c)])
            ELSE Set(c, [Answered(c, "failed") EXCEPT !.sentTo = Seen(c)])
    ELSE Set(c, [Answered(c, Classified(call[c].op, status)) EXCEPT !.sentTo = Seen(c)])

\* A successful POST of PutBlob is followed by the PUT to its Location.
Finish(c, status) ==
    IF call[c].op = "putBlob" /\ call[c].stage = 1 /\ status = "200"
    THEN \E origin \in {"registry", "foreign"} :
            IF SameOrigin(origin)
            THEN Set(c, [call[c] EXCEPT !.stage = 2, !.target = origin, !.tries = 0,
                                        !.auth = Preemptive, !.sentTo = Seen(c)])
            ELSE Set(c, [Answered(c, "failed") EXCEPT !.sentTo = Seen(c)])
    ELSE Set(c, [Answered(c, Classified(call[c].op, status)) EXCEPT !.sentTo = Seen(c)])

\* The request got through the authentication; VerifyPushScope expects not to.
Responds(c) ==
    /\ call[c].pc = "send" /\ MayAnswer(c)
    /\ IF call[c].op = "verifyPush" THEN Set(c, Answered(c, "failed"))
       ELSE \E status \in {"200", "400", "403", "404", "500"} : Finish(c, status)
    /\ OnlyCall

\* A challenge the connector can meet, once for each request.
Challenges(c) ==
    \/ config.scheme = "bearer"
    \/ config.scheme = "basic" /\ config.basic /\ call[c].op # "verifyPush"

\* Mutant: the retry is challenged and retried like the first request.
MayRetryAlways(c) == Challenges(c)

MayRetry(c) == Challenges(c) /\ call[c].tries = 0

\* Mutant: the retry goes where the challenge came from.
RetriesWhereChallenged(c) ==
    /\ call[c].pc = "send" /\ MayChallenge(c)
    /\ config.scheme = "basic" /\ MayRetry(c)
    /\ Set(c, [call[c] EXCEPT !.auth = Basic, !.tries = @ + 1, !.sentTo = Seen(c),
                              !.target = IF config.redirects THEN "foreign" ELSE @])
    /\ OnlyCall

\* The retry is a copy of the request, for the URL that was asked first.
RetriesWithBasic(c) ==
    /\ call[c].pc = "send" /\ MayChallenge(c)
    /\ config.scheme = "basic" /\ MayRetry(c)
    /\ Set(c, [call[c] EXCEPT !.auth = Basic, !.tries = @ + 1, !.sentTo = Seen(c)])
    /\ OnlyCall

\* Mutant: the retry with a token is not counted.
NeedsTokenUncounted(c) ==
    /\ call[c].pc = "send" /\ MayChallenge(c)
    /\ config.scheme = "bearer" /\ MayRetry(c)
    /\ Set(c, [call[c] EXCEPT !.pc = "token", !.sentTo = Seen(c)])
    /\ OnlyCall

NeedsToken(c) ==
    /\ call[c].pc = "send" /\ MayChallenge(c)
    /\ config.scheme = "bearer" /\ MayRetry(c)
    /\ Set(c, [call[c] EXCEPT !.pc = "token", !.tries = @ + 1, !.sentTo = Seen(c)])
    /\ OnlyCall

IsRefused(c) ==
    /\ call[c].pc = "send" /\ MayChallenge(c)
    /\ ~MayRetry(c)
    /\ IF call[c].op = "verifyPush" THEN Set(c, Answered(c, "failed")) ELSE Finish(c, "401")
    /\ OnlyCall

\* The transport fails or the client's timeout ends the call.
IsLost(c) ==
    /\ call[c].pc \in {"send", "exchange"}
    /\ Set(c, [Answered(c, "unavailable") EXCEPT
                  !.sentTo = IF call[c].pc = "send" THEN Seen(c) ELSE @])
    /\ OnlyCall

-----------------------------------------------------------------------------
(* bearerToken.                                                            *)

\* Mutant: the cache is looked up without the scope.
AnyCached(scope) == IF \E s \in Scopes : tokens[s] # None
                    THEN tokens[CHOOSE s \in Scopes : tokens[s] # None] ELSE None

Cached(scope) == tokens[scope]

\* Mutant: a cached token is used until the connector takes it to have ended.
UsableToTheEnd(entry) == entry # None /\ now <= entry.expires

Usable(entry) == entry # None /\ now + Margin < entry.expires

\* tokenGrantsRepositoryAction: the grant may be narrower than what was asked.
Grants(token, scope) == token.scope.repo = scope.repo /\ token.grant = "push"

\* Mutant: any token will do.
WithTokenUnread(c, token) ==
    IF call[c].op = "verifyPush" THEN [Answered(c, "ok") EXCEPT !.auth = TokenAuth(token)]
    ELSE [call[c] EXCEPT !.pc = "send", !.auth = TokenAuth(token), !.token = None]

\* What a call does with its token: the request again, or a look at its grant.
WithToken(c, token) ==
    IF call[c].op = "verifyPush"
    THEN [Answered(c, CASE token.grant = "opaque" -> "failed"
                        [] Grants(token, ScopeOf(c)) -> "ok"
                        [] OTHER -> "authorization")
            EXCEPT !.auth = TokenAuth(token)]
    ELSE [call[c] EXCEPT !.pc = "send", !.auth = TokenAuth(token), !.token = None]

UseCachedToken(c) ==
    /\ call[c].pc = "token" /\ Usable(Cached(ScopeOf(c)))
    /\ Set(c, WithToken(c, Cached(ScopeOf(c)).token))
    /\ OnlyCall

\* Mutant: the realm of a challenge is taken as it comes.
AnyRealm == TRUE

RealmApproved == config.realm = "approved"

\* The errors of bearerToken that are not of its classes are wrapped by the
\* callers of doAuthenticated.
Unclassified(c) == IF call[c].op = "verifyPush" THEN "failed" ELSE "unavailable"

AskForToken(c) ==
    /\ call[c].pc = "token" /\ ~Usable(Cached(ScopeOf(c)))
    /\ IF RealmApproved
       THEN Set(c, [call[c] EXCEPT !.pc = "exchange",
                       !.sentTo = IF config.basic THEN @ \cup {config.realm} ELSE @])
       ELSE Set(c, Answered(c, Unclassified(c)))
    /\ OnlyCall

\* The token service grants (external); its answer is on the way until it is
\* stored.  A token for a push may grant less, or be one that cannot be read.
TokenGranted(c) ==
    /\ call[c].pc = "exchange"
    /\ IF config.basic THEN config.valid ELSE config.public
    /\ \E grant \in {"push", "less", "opaque"} :
          /\ grant = "push" => config.basic
          /\ grant # "less" => ScopeOf(c).action = "push"
          /\ Set(c, [call[c] EXCEPT !.pc = "store",
                        !.token = [scope |-> ScopeOf(c), era |-> era, end |-> now + config.life,
                                   grant |-> grant]])
    /\ OnlyCall

\* 401 or 403 of the token service is a failure to authenticate.
TokenRefused(c) ==
    /\ call[c].pc = "exchange"
    /\ ~(IF config.basic THEN config.valid ELSE config.public)
    /\ Set(c, Answered(c, "authentication"))
    /\ OnlyCall

\* Another error status, or a response without a token.
TokenServiceFails(c) ==
    /\ call[c].pc = "exchange"
    /\ \E answer \in {"unavailable", Unclassified(c)} : Set(c, Answered(c, answer))
    /\ OnlyCall

\* The connector counts the token's life from the answer's arrival.
StoreToken(c) ==
    /\ call[c].pc = "store"
    /\ tokens' = [tokens EXCEPT ![ScopeOf(c)] =
                     [token |-> call[c].token, expires |-> now + config.life]]
    /\ Set(c, WithToken(c, call[c].token))
    /\ UNCHANGED <<now, era, begun, config>>

-----------------------------------------------------------------------------

Tick ==
    /\ now < MaxTime
    /\ now' = now + 1
    /\ UNCHANGED <<era, tokens, call, begun, config>>

\* The token service's keys are replaced, once.
WithdrawTokens ==
    /\ config.scheme = "bearer" /\ era = 0
    /\ era' = 1
    /\ UNCHANGED <<now, tokens, call, begun, config>>

Init ==
    /\ config \in Configs
    /\ now = 0 /\ era = 0 /\ begun = 0
    /\ tokens = [s \in Scopes |-> None]
    /\ call = [c \in Calls |-> Idle]

Step(c) ==
    \/ Responds(c) \/ RetriesWithBasic(c) \/ NeedsToken(c) \/ IsRefused(c) \/ IsLost(c)
    \/ UseCachedToken(c) \/ AskForToken(c)
    \/ TokenGranted(c) \/ TokenRefused(c) \/ TokenServiceFails(c) \/ StoreToken(c)

Next == (\E c \in Calls : Start(c) \/ Step(c)) \/ Tick \/ WithdrawTokens

\* Every request has a timeout, after which its call goes on.
Fairness == \A c \in Calls : WF_vars(Step(c))

Spec == Init /\ [][Next]_vars /\ Fairness

-----------------------------------------------------------------------------
(* Properties.                                                             *)

\* No request is repeated more than once, however often it is challenged.
TypeOK ==
    /\ config \in Configs /\ now \in 0 .. MaxTime /\ begun \in 0 .. MaxCalls
    /\ \A s \in Scopes : tokens[s] # None => tokens[s].token.scope = s
    /\ \A c \in Calls :
          /\ call[c].pc \in {"idle", "send", "token", "exchange", "store", "answered"}
          /\ call[c].tries \in 0 .. 1 /\ call[c].stage \in 1 .. 2
          /\ (call[c].pc = "answered") = (call[c].answer # "")

\* A request carries a token for what it asks, whoever else filled the cache
\* (the cache key of bearerToken).
TokenFitsRequest ==
    \A c \in Calls :
       call[c].pc = "send" /\ call[c].auth.kind = "token" => call[c].auth.token.scope = ScopeOf(c)

\* Credentials and the tokens got for them reach the registry and approved
\* token services and nobody else, whatever realm a challenge names, wherever
\* an upload is sent to and from wherever a request is answered.
CredentialsStay ==
    \A c \in Calls : call[c].sentTo \subseteq {"registry", "approved"}

\* Whether the registry's rules let the connector in.
MayAccess(c) ==
    /\ call[c].op = "verifyPush" => config.basic
    /\ CASE config.scheme = "none"   -> TRUE
         [] config.scheme = "basic"  -> config.basic /\ config.valid
         [] config.scheme = "bearer" -> IF config.basic THEN config.valid ELSE config.public
         [] OTHER -> FALSE

\* A call is answered as not authenticated, which ends a pull's candidate loop
\* (pull.go:147), only if the connector lacks the right, or the token it came
\* with had been withdrawn or had ended meanwhile; never because credentials
\* or a fresh token were held back, used up or got for another call.
RefusalIsReal ==
    \A c \in Calls :
       call[c].answer = "authentication" /\ MayAccess(c) /\ ~config.redirects =>
          /\ call[c].auth.kind = "token"
          /\ call[c].auth.token.era < era \/ call[c].auth.token.end < now

\* VerifyPushScope succeeds only if the token service granted the valid
\* credentials a push to that repository, and not merely a pull.
VerifiedMayPush ==
    \A c \in Calls :
       call[c].op = "verifyPush" /\ call[c].answer = "ok" =>
          /\ config.basic /\ config.valid
          /\ call[c].auth.token.scope = ScopeOf(c) /\ call[c].auth.token.grant = "push"

\* A cached token has not ended when it is used, unless its exchange took the
\* margin or longer.
CachedIsAlive ==
    \A s \in Scopes :
       Usable(tokens[s]) /\ tokens[s].expires - tokens[s].token.end <= Margin =>
          now < tokens[s].token.end

\* Tokens shared by calls that run side by side (bearerToken, doAuthenticated).
TokensInv == TypeOK /\ TokenFitsRequest /\ CachedIsAlive

\* Every call of the connector is answered.
CallsAnswered == \A c \in Calls : Active(c) ~> ~Active(c)

=============================================================================
