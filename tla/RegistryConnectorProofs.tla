---------------------- MODULE RegistryConnectorProofs ----------------------
(***************************************************************************)
(* Proofs about RegistryConnector, for every set of calls, repositories    *)
(* and registries, every margin and every history of expiry, withdrawal    *)
(* and failure within the bounds on the clock and the number of calls.     *)
(***************************************************************************)
EXTENDS RegistryConnector, TLAPS

Token == [scope : Scopes, era : {0, 1}, end : Nat, grant : {"push", "less", "opaque"}]
CacheEntry == [token : Token, expires : Nat]

Answers == {"", "ok", "authentication", "authorization", "notFound", "unavailable", "failed"}
PCs == {"idle", "send", "token", "exchange", "store", "answered"}

\* What a call may be at; it asks the registry, and credentials and tokens have
\* been seen by these places at most.
CallState ==
    [pc : PCs, op : Ops, repo : Repos,
     auth : {NoAuth, Basic} \cup {TokenAuth(t) : t \in Token},
     target : {"registry"}, stage : {1, 2}, tries : {0, 1}, token : Token \cup {None},
     sentTo : SUBSET {"registry", "approved"}, answer : Answers]

ScopeIn(r) == [repo |-> r.repo, action |-> Action(r.op)]

\* The token service grants a push to valid credentials only, and signs with
\* no key that is still to come.
Sound(token) ==
    /\ token.grant = "push" => config.basic /\ config.valid
    /\ token.era <= era

Ended(token) == token.era < era \/ token.end < now

Entitled(r) ==
    /\ r.op = "verifyPush" => config.basic
    /\ CASE config.scheme = "none"   -> TRUE
         [] config.scheme = "basic"  -> config.basic /\ config.valid
         [] config.scheme = "bearer" -> IF config.basic THEN config.valid ELSE config.public
         [] OTHER -> FALSE

\* With what it came, a call may be refused as not authenticated.
Refusable(r) ==
    Entitled(r) /\ ~config.redirects => r.auth.kind = "token" /\ Ended(r.auth.token)

\* A request that is repeated carries what its challenge asked for.
Repeated(r) ==
    \/ config.scheme = "basic" /\ r.auth = Basic
    \/ config.scheme = "bearer" /\ r.auth.kind = "token"

\* What holds of a call wherever it stands.
Good(r) ==
    /\ r \in CallState
    /\ (r.pc = "answered") = (r.answer # "")
    /\ r.pc = "send" /\ r.auth.kind = "token" =>
          r.auth.token.scope = ScopeIn(r) /\ Sound(r.auth.token)
    /\ r.pc = "send" /\ r.tries = 1 => Repeated(r)
    /\ r.pc \in {"token", "exchange", "store"} => config.scheme = "bearer"
    /\ r.pc = "store" => r.token \in Token /\ r.token.scope = ScopeIn(r) /\ Sound(r.token)
    /\ r.answer = "authentication" => Refusable(r)
    /\ r.op = "verifyPush" /\ r.answer = "ok" =>
          /\ r.auth.kind = "token"
          /\ r.auth.token.scope = ScopeIn(r) /\ r.auth.token.grant = "push"
          /\ Sound(r.auth.token)

CacheInv ==
    /\ tokens \in [Scopes -> CacheEntry \cup {None}]
    /\ \A s \in Scopes : tokens[s] # None =>
          tokens[s] \in CacheEntry /\ tokens[s].token.scope = s /\ Sound(tokens[s].token)

ConnectorInv ==
    /\ config \in Configs /\ now \in 0 .. MaxTime /\ begun \in 0 .. MaxCalls /\ era \in {0, 1}
    /\ CacheInv
    /\ call \in [Calls -> CallState]
    /\ \A c \in Calls : Good(call[c])

LEMMA ConfigTypes ==
    ASSUME config \in Configs
    PROVE  /\ config.basic \in BOOLEAN /\ config.valid \in BOOLEAN
           /\ config.realm \in {"approved", "foreign"} /\ config.life \in Nat
  BY ConfigAssumption DEF Config

LEMMA ScopeTypes ==
    ASSUME NEW r \in CallState
    PROVE  ScopeIn(r) \in Scopes
  BY DEF CallState, ScopeIn, Scopes, Action

\* A token that was sound stays so, and one that had ended stays ended, while
\* time passes and keys are withdrawn.
LEMMA TokensAge ==
    ASSUME NEW token \in Token, now \in Nat, now' \in Nat, now <= now',
           era \in {0, 1}, era' \in {era, 1}, config' = config
    PROVE  (Sound(token) => Sound(token)') /\ (Ended(token) => Ended(token)')
  BY DEF Token, Sound, Ended

\* What a call holds good for it stays good while others go on.
LEMMA GoodAges ==
    ASSUME NEW c \in Calls, Good(call[c]), now \in Nat, now' \in Nat, now <= now',
           era \in {0, 1}, era' \in {era, 1}, config' = config, call' = call
    PROVE  Good(call[c])'
  <1> DEFINE r == call[c]
  <1>1. r \in CallState /\ call'[c] = r
    BY DEF Good
  <1>2. ASSUME r.auth.kind = "token"
        PROVE  /\ Sound(r.auth.token) => Sound(r.auth.token)'
               /\ Ended(r.auth.token) => Ended(r.auth.token)'
    <2>1. PICK t \in Token : r.auth = TokenAuth(t)
      BY <1>1, <1>2 DEF CallState, NoAuth, Basic
    <2>2. r.auth.token = t
      BY <2>1 DEF TokenAuth
    <2>3. QED
      BY <2>2, TokensAge
  <1>3. ASSUME r.token \in Token
        PROVE  Sound(r.token) => Sound(r.token)'
    BY <1>3, TokensAge
  <1>4. Refusable(r) => Refusable(r)'
    BY <1>2 DEF Refusable, Entitled
  <1>5. QED
    BY <1>1, <1>2, <1>3, <1>4 DEF Good, ScopeIn, Repeated

LEMMA IdleGood == Good(Idle) /\ Idle \in CallState
  <1>1. (CHOOSE r \in Repos : TRUE) \in Repos
    BY ConnectorConstants
  <1>2. Idle \in CallState
    BY <1>1 DEF Idle, CallState, PCs, Ops, Answers
  <1>3. QED
    BY <1>2 DEF Good, Idle, NoAuth

\* An answer is given to the call there is, and forgets how it was come by.
LEMMA AnsweredFields ==
    ASSUME NEW c \in Calls, call[c] \in CallState, NEW answer \in Answers
    PROVE  /\ Answered(c, answer) \in CallState
           /\ Answered(c, answer).pc = "answered" /\ Answered(c, answer).answer = answer
           /\ Answered(c, answer).op = call[c].op /\ Answered(c, answer).repo = call[c].repo
           /\ Answered(c, answer).auth = IF answer = "authentication" THEN call[c].auth ELSE NoAuth
           /\ Answered(c, answer).sentTo = call[c].sentTo
  <1>1. Idle \in CallState
    BY IdleGood
  <1>2. PICK auth : auth = IF answer = "authentication" THEN call[c].auth ELSE NoAuth
    OBVIOUS
  <1>3. auth \in {NoAuth, Basic} \cup {TokenAuth(t) : t \in Token}
    BY <1>2 DEF CallState
  <1>4. Answered(c, answer) =
           [Idle EXCEPT !.pc = "answered", !.answer = answer, !.op = call[c].op,
                        !.repo = call[c].repo, !.sentTo = call[c].sentTo, !.auth = auth]
    BY <1>2 DEF Answered
  <1>5. /\ "answered" \in PCs /\ call[c].op \in Ops /\ call[c].repo \in Repos
        /\ call[c].sentTo \in SUBSET {"registry", "approved"}
    BY DEF CallState, PCs
  <1> DEFINE r == [Idle EXCEPT !.pc = "answered", !.answer = answer, !.op = call[c].op,
                               !.repo = call[c].repo, !.sentTo = call[c].sentTo, !.auth = auth]
  <1>6. /\ r \in CallState /\ r.pc = "answered" /\ r.answer = answer /\ r.op = call[c].op
        /\ r.repo = call[c].repo /\ r.sentTo = call[c].sentTo /\ r.auth = auth
    BY <1>1, <1>3, <1>5 DEF CallState
  <1>7. Answered(c, answer) = r
    BY <1>4
  <1> HIDE DEF r
  <1>8. QED
    BY <1>2, <1>6, <1>7

LEMMA AnsweredGood ==
    ASSUME NEW c \in Calls, Good(call[c]), NEW answer \in Answers \ {"", "ok"},
           answer = "authentication" => Refusable(call[c])
    PROVE  /\ Good(Answered(c, answer))
           /\ \A seen \in SUBSET {"registry", "approved"} :
                 Good([Answered(c, answer) EXCEPT !.sentTo = seen])
  <1>1. /\ Answered(c, answer) \in CallState
        /\ Answered(c, answer).pc = "answered" /\ Answered(c, answer).answer = answer
        /\ Answered(c, answer).op = call[c].op
        /\ Answered(c, answer).auth = IF answer = "authentication" THEN call[c].auth ELSE NoAuth
    BY AnsweredFields DEF Good
  <1>2. ASSUME NEW r \in CallState, r.pc = "answered", r.answer = answer, r.op = call[c].op,
               r.auth = IF answer = "authentication" THEN call[c].auth ELSE NoAuth
        PROVE  Good(r)
    <2>1. answer = "authentication" => Refusable(r)
      BY <1>2 DEF Refusable, Entitled
    <2>2. QED
      BY <1>2, <2>1 DEF Good
  <1>3. Good(Answered(c, answer))
    BY <1>1, <1>2
  <1>4. ASSUME NEW seen \in SUBSET {"registry", "approved"}
        PROVE  Good([Answered(c, answer) EXCEPT !.sentTo = seen])
    <2> DEFINE a == Answered(c, answer)
               r == [a EXCEPT !.sentTo = seen]
    <2>1. /\ a \in CallState /\ a.pc = "answered" /\ a.answer = answer /\ a.op = call[c].op
          /\ a.auth = IF answer = "authentication" THEN call[c].auth ELSE NoAuth
      BY <1>1
    <2> HIDE DEF a
    <2>2. /\ r \in CallState /\ r.pc = a.pc /\ r.answer = a.answer /\ r.op = a.op /\ r.auth = a.auth
      BY <2>1 DEF CallState
    <2> HIDE DEF r
    <2>3. Good(r)
      BY <1>2, <2>1, <2>2
    <2>4. QED
      BY <2>3 DEF a, r
  <1>5. QED
    BY <1>3, <1>4

\* Credentials are seen by the registry at most.
LEMMA SeenTypes ==
    ASSUME NEW c \in Calls, Good(call[c])
    PROVE  Seen(c) \in SUBSET {"registry", "approved"}
  BY DEF Seen, Good, CallState

LEMMA PreemptiveTypes == Preemptive \in {NoAuth, Basic} /\ Preemptive.kind # "token"
  BY DEF Preemptive, NoAuth, Basic

\* A call that is put into a good state leaves the others in theirs.
LEMMA SetGood ==
    ASSUME ConnectorInv, NEW c \in Calls, NEW r, Good(r), Set(c, r), UNCHANGED <<config, era, now>>
    PROVE  call' \in [Calls -> CallState] /\ \A d \in Calls : Good(call[d])'
  <1>1. r \in CallState /\ call' = [call EXCEPT ![c] = r] /\ call \in [Calls -> CallState]
    BY DEF Good, Set, ConnectorInv
  <1>2. \A d \in Calls : call'[d] = IF d = c THEN r ELSE call[d]
    BY <1>1
  <1>3. \A d \in Calls : Good(call'[d])
    BY <1>2 DEF ConnectorInv
  <1>4. ASSUME NEW d \in Calls
        PROVE  Good(call'[d]) = Good(call[d])'
    BY DEF Good, Sound, ScopeIn, Refusable, Entitled, Ended, Repeated
  <1>5. QED
    BY <1>1, <1>3, <1>4

LEMMA StartGood ==
    ASSUME ConnectorInv, NEW c \in Calls, Start(c)
    PROVE  \E r : Good(r) /\ Set(c, r)
  <1>1. PICK op \in Ops, repo \in Repos :
           Set(c, [Idle EXCEPT !.op = op, !.repo = repo,
                     !.pc = IF op = "verifyPush" /\ ~config.basic THEN "answered" ELSE "send",
                     !.answer = IF op = "verifyPush" /\ ~config.basic THEN "authentication" ELSE "",
                     !.auth = IF op = "verifyPush" THEN NoAuth ELSE Preemptive])
    BY DEF Start
  <1> DEFINE r == [Idle EXCEPT !.op = op, !.repo = repo,
                     !.pc = IF op = "verifyPush" /\ ~config.basic THEN "answered" ELSE "send",
                     !.answer = IF op = "verifyPush" /\ ~config.basic THEN "authentication" ELSE "",
                     !.auth = IF op = "verifyPush" THEN NoAuth ELSE Preemptive]
  <1>2. Idle \in CallState /\ Idle.tries = 0
    BY IdleGood DEF Idle
  <1>3. Preemptive \in {NoAuth, Basic} /\ Preemptive.kind # "token" /\ NoAuth.kind # "token"
    BY PreemptiveTypes DEF NoAuth
  <1>4. r \in CallState
    <2> DEFINE pc == IF op = "verifyPush" /\ ~config.basic THEN "answered" ELSE "send"
               answer == IF op = "verifyPush" /\ ~config.basic THEN "authentication" ELSE ""
               auth == IF op = "verifyPush" THEN NoAuth ELSE Preemptive
    <2>1. pc \in PCs /\ answer \in Answers /\ auth \in {NoAuth, Basic}
      BY <1>3 DEF PCs, Answers
    <2> HIDE DEF pc, answer, auth
    <2>2. [Idle EXCEPT !.op = op, !.repo = repo, !.pc = pc, !.answer = answer, !.auth = auth]
             \in CallState
      BY <1>2, <2>1 DEF CallState
    <2>3. QED
      BY <2>2 DEF pc, answer, auth
  <1>5. /\ r.pc = (IF op = "verifyPush" /\ ~config.basic THEN "answered" ELSE "send")
        /\ r.answer = (IF op = "verifyPush" /\ ~config.basic THEN "authentication" ELSE "")
        /\ r.auth = (IF op = "verifyPush" THEN NoAuth ELSE Preemptive)
        /\ r.op = op
    BY <1>2 DEF CallState
  <1>t. r.tries = 0
    BY <1>2 DEF CallState
  <1> HIDE DEF r
  <1>6. Good(r)
    <2>1. r.answer = "authentication" => Refusable(r)
      BY <1>5 DEF Refusable, Entitled
    <2>2. \/ r.pc = "answered" /\ r.answer = "authentication"
          \/ r.pc = "send" /\ r.answer = ""
      BY <1>5
    <2>3. (r.pc = "answered") = (r.answer # "")
      BY <2>2
    <2>4. r.answer # "ok" /\ r.pc \notin {"token", "exchange", "store"} /\ r.pc # "store"
      BY <2>2
    <2>5. ~(r.tries = 1)
      BY <1>t
    <2>6. r.auth.kind # "token"
      BY <1>3, <1>5
    <2>7. QED
      BY <1>4, <2>1, <2>3, <2>4, <2>5, <2>6, Zenon DEF Good
  <1>7. QED
    BY <1>1, <1>6 DEF r

\* doAuthenticated: a response that is not retried ends the call, or begins
\* the second request of PutBlob.
LEMMA FinishGood ==
    ASSUME ConnectorInv, NEW c \in Calls, call[c].pc = "send", call[c].op # "verifyPush",
           NEW status \in {"200", "400", "401", "403", "404", "500"}, Finish(c, status),
           status = "401" => Refusable(call[c])
    PROVE  \E r : Good(r) /\ Set(c, r)
  <1>0. Good(call[c]) /\ call[c] \in CallState
    BY DEF ConnectorInv, Good
  <1>1. Seen(c) \in SUBSET {"registry", "approved"}
    BY <1>0, SeenTypes
  <1>2. ASSUME NEW origin, SameOrigin(origin),
               Set(c, [call[c] EXCEPT !.stage = 2, !.target = origin, !.tries = 0,
                                      !.auth = Preemptive, !.sentTo = Seen(c)])
        PROVE  \E r : Good(r) /\ Set(c, r)
    <2> DEFINE r == [call[c] EXCEPT !.stage = 2, !.target = origin, !.tries = 0,
                                    !.auth = Preemptive, !.sentTo = Seen(c)]
    <2>0. origin = "registry" /\ Preemptive \in {NoAuth, Basic}
      BY <1>2, PreemptiveTypes DEF SameOrigin
    <2>1. r \in CallState
      BY <1>0, <1>1, <2>0 DEF CallState
    <2>2. /\ r.pc = "send" /\ r.auth = Preemptive /\ r.op = call[c].op
          /\ r.answer = call[c].answer /\ r.tries = 0
      BY <1>0 DEF CallState
    <2>3. Set(c, r) /\ call[c].answer = ""
      BY <1>0, <1>2 DEF Good
    <2> HIDE DEF r
    <2>4. r.auth.kind # "token"
      BY <2>2, PreemptiveTypes
    <2>5. r.pc = "send" /\ r.answer = ""
      BY <2>2, <2>3
    <2>6. /\ r.pc # "answered" /\ r.pc \notin {"token", "exchange", "store"} /\ r.pc # "store"
          /\ r.answer # "authentication" /\ r.answer # "ok"
      BY <2>5
    <2>7. ~(r.tries = 1)
      BY <2>2
    <2>8. Good(r)
      BY <2>1, <2>4, <2>5, <2>6, <2>7, Zenon DEF Good
    <2>9. QED
      BY <2>3, <2>8
  <1>3. ASSUME Set(c, [Answered(c, "failed") EXCEPT !.sentTo = Seen(c)])
        PROVE  \E r : Good(r) /\ Set(c, r)
    BY <1>0, <1>1, <1>3, AnsweredGood DEF Answers
  <1>4. ASSUME Set(c, [Answered(c, Classified(call[c].op, status)) EXCEPT !.sentTo = Seen(c)])
        PROVE  \E r : Good(r) /\ Set(c, r)
    <2> DEFINE a == Answered(c, Classified(call[c].op, status))
               r == [a EXCEPT !.sentTo = Seen(c)]
    <2>1. /\ Classified(call[c].op, status) \in Answers \ {""}
          /\ Classified(call[c].op, status) = "authentication" => status = "401"
      BY DEF Classified, Answers
    <2>2. CASE Classified(call[c].op, status) # "ok"
      BY <1>0, <1>1, <1>4, <2>1, <2>2, AnsweredGood
    <2>3. CASE Classified(call[c].op, status) = "ok"
      <3>1. /\ a \in CallState /\ a.pc = "answered" /\ a.answer = "ok" /\ a.op = call[c].op
        BY <1>0, <2>1, <2>3, AnsweredFields
      <3> HIDE DEF a
      <3>2. r \in CallState /\ r.pc = "answered" /\ r.answer = "ok" /\ r.op = call[c].op
        BY <1>1, <3>1 DEF CallState
      <3> HIDE DEF r
      <3>3. Good(r)
        BY <3>2 DEF Good
      <3>4. QED
        BY <1>4, <3>3 DEF a, r
    <2>4. QED
      BY <2>2, <2>3
  <1>5. QED
    BY <1>2, <1>3, <1>4 DEF Finish

\* A request is refused for good only with nothing left to try: it is not one
\* the registry challenges, or came with what the challenge asked for.
LEMMA RefusedRightly ==
    ASSUME ConnectorInv, NEW c \in Calls, IsRefused(c), call[c].op # "verifyPush"
    PROVE  Refusable(call[c])
  <1> SUFFICES ASSUME Entitled(call[c]), ~config.redirects
               PROVE  call[c].auth.kind = "token" /\ Ended(call[c].auth.token)
    BY DEF Refusable
  <1>1. /\ Good(call[c]) /\ call[c] \in CallState /\ call[c].pc = "send"
        /\ ~Accepts(call[c].auth, ScopeOf(c)) /\ ~MayRetry(c)
    BY DEF ConnectorInv, Good, IsRefused, MayChallenge
  <1>2. config.scheme \in {"basic", "bearer"}
    BY <1>1 DEF Entitled, Accepts
  <1>3. Challenges(c)
    BY <1>2 DEF Challenges, Entitled
  <1>4. call[c].tries = 1
    BY <1>1, <1>3 DEF MayRetry, CallState
  <1>5. Repeated(call[c])
    BY <1>1, <1>4 DEF Good
  <1>6. CASE config.scheme = "basic"
    BY <1>1, <1>5, <1>6 DEF Repeated, Entitled, Accepts, Basic
  <1>7. CASE config.scheme = "bearer"
    <2>1. /\ call[c].auth.kind = "token" /\ call[c].auth.token.scope = ScopeOf(c)
          /\ Sound(call[c].auth.token)
      BY <1>1, <1>5, <1>7 DEF Repeated, Good, ScopeOf, ScopeIn
    <2>2. call[c].auth \in {TokenAuth(t) : t \in Token}
      BY <1>1, <2>1 DEF CallState, NoAuth, Basic
    <2>3. call[c].auth.token \in Token
      BY <2>2 DEF TokenAuth
    <2>4. call[c].auth.token.era # era \/ ~(now <= call[c].auth.token.end)
      BY <1>1, <1>7, <2>1 DEF Accepts
    <2>5. PICK e \in {0, 1}, t \in Nat, n \in Nat :
             e = call[c].auth.token.era /\ t = call[c].auth.token.end /\ n = now
      BY <2>3, ConnectorConstants DEF Token, ConnectorInv
    <2>6. Ended(call[c].auth.token)
      BY <2>1, <2>4, <2>5 DEF Sound, Ended, ConnectorInv
    <2>7. QED
      BY <2>1, <2>6
  <1>8. QED
    BY <1>2, <1>6, <1>7

\* A request that is challenged is sent again once, with credentials or with
\* a token that is looked for first.
LEMMA RetryGood ==
    ASSUME ConnectorInv, NEW c \in Calls, RetriesWithBasic(c) \/ NeedsToken(c)
    PROVE  \E r : Good(r) /\ Set(c, r)
  <1>1. /\ Good(call[c]) /\ call[c] \in CallState
        /\ call[c].pc = "send" /\ call[c].tries = 0 /\ call[c].answer = ""
    BY DEF ConnectorInv, Good, RetriesWithBasic, NeedsToken, MayRetry
  <1>2. Seen(c) \in SUBSET {"registry", "approved"}
    BY <1>1, SeenTypes
  <1>n. call[c].tries + 1 \in {0, 1}
    <2>1. 0 + 1 = 1
      OBVIOUS
    <2>2. QED
      BY <1>1, <2>1
  <1>3. CASE RetriesWithBasic(c)
    <2> DEFINE r == [call[c] EXCEPT !.auth = Basic, !.tries = @ + 1, !.sentTo = Seen(c)]
    <2>1. r \in CallState
      BY <1>1, <1>2, <1>n DEF CallState
    <2>2. r.pc = "send" /\ r.auth = Basic /\ r.answer = "" /\ Basic.kind = "basic"
      BY <1>1 DEF CallState, Basic
    <2>3. Set(c, r) /\ config.scheme = "basic"
      BY <1>3 DEF RetriesWithBasic
    <2> HIDE DEF r
    <2>4. Good(r)
      BY <2>1, <2>2, <2>3 DEF Good, Repeated
    <2>5. QED
      BY <2>3, <2>4
  <1>4. CASE NeedsToken(c)
    <2> DEFINE r == [call[c] EXCEPT !.pc = "token", !.tries = @ + 1, !.sentTo = Seen(c)]
    <2>1. r \in CallState
      BY <1>1, <1>2, <1>n DEF CallState, PCs
    <2>2. r.pc = "token" /\ r.answer = ""
      BY <1>1 DEF CallState
    <2>3. Set(c, r) /\ config.scheme = "bearer"
      BY <1>4 DEF NeedsToken
    <2> HIDE DEF r
    <2>4. Good(r)
      BY <2>1, <2>2, <2>3 DEF Good
    <2>5. QED
      BY <2>3, <2>4
  <1>5. QED
    BY <1>3, <1>4

\* bearerToken's callers: the token is for the scope that was asked for, and a
\* verification is answered by what it grants.
LEMMA WithTokenGood ==
    ASSUME NEW c \in Calls, Good(call[c]), NEW token \in Token,
           call[c].pc \in {"token", "exchange", "store"}, token.scope = ScopeOf(c), Sound(token)
    PROVE  Good(WithToken(c, token))
  <1>1. /\ call[c] \in CallState /\ call[c].answer = "" /\ TokenAuth(token).kind = "token"
        /\ TokenAuth(token).token = token /\ ScopeOf(c) = ScopeIn(call[c])
        /\ TokenAuth(token) \in {TokenAuth(t) : t \in Token} /\ config.scheme = "bearer"
    BY DEF Good, ScopeOf, ScopeIn, TokenAuth
  <1>2. CASE call[c].op # "verifyPush"
    <2> DEFINE r == [call[c] EXCEPT !.pc = "send", !.auth = TokenAuth(token), !.token = None]
    <2>1. r \in CallState
      BY <1>1 DEF CallState, PCs
    <2>2. /\ r.pc = "send" /\ r.auth = TokenAuth(token) /\ r.answer = ""
          /\ r.op = call[c].op /\ r.repo = call[c].repo
      BY <1>1 DEF CallState
    <2>3. WithToken(c, token) = r
      BY <1>2 DEF WithToken
    <2> HIDE DEF r
    <2>4. Good(r)
      BY <1>1, <2>1, <2>2 DEF Good, ScopeIn, Repeated
    <2>5. QED
      BY <2>3, <2>4
  <1>3. CASE call[c].op = "verifyPush"
    <2> DEFINE answer == CASE token.grant = "opaque" -> "failed"
                           [] Grants(token, ScopeOf(c)) -> "ok"
                           [] OTHER -> "authorization"
               a == Answered(c, answer)
               r == [a EXCEPT !.auth = TokenAuth(token)]
    <2>1. answer \in Answers \ {"", "authentication"} /\ (answer = "ok" => token.grant = "push")
      BY DEF Grants, Answers
    <2> HIDE DEF answer
    <2>2. /\ a \in CallState /\ a.pc = "answered" /\ a.answer = answer
          /\ a.op = call[c].op /\ a.repo = call[c].repo
      BY <1>1, <2>1, AnsweredFields
    <2> HIDE DEF a
    <2>3. r \in CallState
      BY <1>1, <2>2 DEF CallState
    <2>4. /\ r.pc = "answered" /\ r.answer = answer /\ r.auth = TokenAuth(token)
          /\ r.op = call[c].op /\ r.repo = call[c].repo
      BY <2>2 DEF CallState
    <2>5. WithToken(c, token) = r
      BY <1>3 DEF WithToken, a, answer
    <2> HIDE DEF r
    <2>6. Good(r)
      BY <1>1, <2>1, <2>3, <2>4 DEF Good, ScopeIn
    <2>7. QED
      BY <2>5, <2>6
  <1>4. QED
    BY <1>2, <1>3

\* Every step puts the call that takes it into a good state.
LEMMA StepGood ==
    ASSUME ConnectorInv, NEW c \in Calls, Step(c)
    PROVE  \E r : Good(r) /\ Set(c, r)
  <1>1. Good(call[c]) /\ call[c] \in CallState /\ (call[c].pc # "answered" => call[c].answer = "")
    BY DEF ConnectorInv, Good
  <1>2. ScopeOf(c) = ScopeIn(call[c]) /\ ScopeOf(c) \in Scopes
    BY <1>1, ScopeTypes DEF ScopeOf, ScopeIn
  <1>3. /\ config.basic \in BOOLEAN /\ config.valid \in BOOLEAN
        /\ config.realm \in {"approved", "foreign"} /\ config.life \in Nat
    BY ConfigTypes DEF ConnectorInv
  <1>4. /\ Unclassified(c) \in Answers \ {"", "ok", "authentication"}
        /\ {"failed", "unavailable", "authentication"} \subseteq Answers
    BY DEF Unclassified, Answers
  <1>5. ASSUME NEW answer \in Answers \ {"", "ok", "authentication"}, Set(c, Answered(c, answer))
        PROVE  \E r : Good(r) /\ Set(c, r)
    BY <1>1, <1>5, AnsweredGood
  <1>6. CASE Responds(c) \/ IsRefused(c)
    <2>1. CASE call[c].op = "verifyPush"
      BY <1>4, <1>5, <1>6, <2>1 DEF Responds, IsRefused
    <2>2. CASE call[c].op # "verifyPush" /\ Responds(c)
      BY <2>2, FinishGood DEF Responds
    <2>3. CASE call[c].op # "verifyPush" /\ IsRefused(c)
      BY <2>3, RefusedRightly, FinishGood DEF IsRefused
    <2>4. QED
      BY <1>6, <2>1, <2>2, <2>3
  <1>7. CASE RetriesWithBasic(c) \/ NeedsToken(c)
    BY <1>7, RetryGood
  <1>8. CASE IsLost(c)
    <2>1. Seen(c) \in SUBSET {"registry", "approved"}
      BY <1>1, SeenTypes
    <2>2. "unavailable" \in Answers \ {"", "ok"}
      BY DEF Answers
    <2> DEFINE a == Answered(c, "unavailable")
               seen == IF call[c].pc = "send" THEN Seen(c) ELSE a.sentTo
    <2>3. a.sentTo = call[c].sentTo /\ call[c].sentTo \in SUBSET {"registry", "approved"}
      <3>1. a.sentTo = call[c].sentTo
        BY <1>1, <1>4, AnsweredFields
      <3>2. call[c].sentTo \in SUBSET {"registry", "approved"}
        BY <1>1 DEF CallState
      <3>3. QED
        BY <3>1, <3>2
    <2>4. seen \in SUBSET {"registry", "approved"}
      BY <2>1, <2>3
    <2>5. Good([a EXCEPT !.sentTo = seen])
      BY <1>1, <2>2, <2>4, AnsweredGood
    <2>6. Set(c, [a EXCEPT !.sentTo = seen])
      BY <1>8 DEF IsLost
    <2>7. QED
      BY <2>5, <2>6
  <1>9. CASE UseCachedToken(c)
    <2>1. tokens[ScopeOf(c)] # None
      BY <1>9 DEF UseCachedToken, Usable, Cached
    <2>2. LET token == tokens[ScopeOf(c)].token IN
             token \in Token /\ token.scope = ScopeOf(c) /\ Sound(token)
      BY <1>2, <2>1 DEF ConnectorInv, CacheInv, CacheEntry
    <2>3. Good(WithToken(c, Cached(ScopeOf(c)).token))
      BY <1>1, <1>9, <2>2, WithTokenGood DEF UseCachedToken, Cached
    <2>4. QED
      BY <1>9, <2>3 DEF UseCachedToken
  <1>10. CASE AskForToken(c)
    <2>1. CASE ~RealmApproved
      BY <1>4, <1>5, <1>10, <2>1 DEF AskForToken
    <2>2. CASE RealmApproved
      <3> DEFINE r == [call[c] EXCEPT !.pc = "exchange",
                         !.sentTo = IF config.basic THEN @ \cup {config.realm} ELSE @]
      <3>1. r \in CallState
        BY <1>1, <1>3, <2>2 DEF CallState, PCs, RealmApproved
      <3>2. r.pc = "exchange" /\ r.answer = call[c].answer
        BY <1>1 DEF CallState
      <3>3. Set(c, r) /\ call[c].answer = "" /\ config.scheme = "bearer"
        BY <1>1, <1>10, <2>2 DEF AskForToken, Good
      <3> HIDE DEF r
      <3>4. Good(r)
        BY <3>1, <3>2, <3>3 DEF Good
      <3>5. QED
        BY <3>3, <3>4
    <2>3. QED
      BY <2>1, <2>2
  <1>11. CASE TokenGranted(c)
    <2>1. PICK grant \in {"push", "less", "opaque"} :
             /\ grant = "push" => config.basic
             /\ Set(c, [call[c] EXCEPT !.pc = "store",
                          !.token = [scope |-> ScopeOf(c), era |-> era, end |-> now + config.life,
                                     grant |-> grant]])
      BY <1>11 DEF TokenGranted
    <2> DEFINE token == [scope |-> ScopeOf(c), era |-> era, end |-> now + config.life,
                         grant |-> grant]
               r == [call[c] EXCEPT !.pc = "store", !.token = token]
    <2>2. token \in Token
      <3>1. era \in {0, 1} /\ now + config.life \in Nat
        BY <1>3, ConnectorConstants DEF ConnectorInv
      <3>2. QED
        BY <1>2, <3>1 DEF Token
    <2>3. token.scope = ScopeIn(call[c]) /\ Sound(token) /\ config.scheme = "bearer"
      <3>1. era <= era
        BY DEF ConnectorInv
      <3>2. QED
        BY <1>1, <1>2, <1>11, <2>1, <3>1 DEF TokenGranted, Sound, Good
    <2> HIDE DEF token
    <2>4. r \in CallState
      BY <1>1, <2>2 DEF CallState, PCs
    <2>5. /\ r.pc = "store" /\ r.answer = "" /\ r.token = token
          /\ r.op = call[c].op /\ r.repo = call[c].repo
      BY <1>1, <1>11 DEF CallState, TokenGranted
    <2>6. Set(c, r)
      BY <2>1 DEF token
    <2> HIDE DEF r
    <2>7. Good(r)
      BY <2>2, <2>3, <2>4, <2>5 DEF Good, ScopeIn
    <2>8. QED
      BY <2>6, <2>7
  <1>12. CASE TokenRefused(c)
    <2>1. config.scheme = "bearer"
      BY <1>1, <1>12 DEF TokenRefused, Good
    <2>2. ~Entitled(call[c])
      BY <1>12, <2>1 DEF TokenRefused, Entitled
    <2>3. Good(Answered(c, "authentication"))
      BY <1>1, <1>4, <2>2, AnsweredGood DEF Refusable
    <2>4. QED
      BY <1>12, <2>3 DEF TokenRefused
  <1>13. CASE TokenServiceFails(c)
    BY <1>4, <1>5, <1>13 DEF TokenServiceFails
  <1>14. CASE StoreToken(c)
    <2>1. call[c].token \in Token /\ call[c].token.scope = ScopeOf(c) /\ Sound(call[c].token)
      BY <1>1, <1>2, <1>14 DEF StoreToken, Good
    <2>2. Good(WithToken(c, call[c].token))
      BY <1>1, <1>14, <2>1, WithTokenGood DEF StoreToken
    <2>3. QED
      BY <1>14, <2>2 DEF StoreToken
  <1>15. QED
    BY <1>6, <1>7, <1>8, <1>9, <1>10, <1>11, <1>12, <1>13, <1>14 DEF Step

-----------------------------------------------------------------------------
LEMMA InitConnectorInv == Init => ConnectorInv
  <1> SUFFICES ASSUME Init PROVE ConnectorInv
    OBVIOUS
  <1>1. call \in [Calls -> CallState] /\ \A c \in Calls : Good(call[c])
    BY IdleGood DEF Init
  <1>2. QED
    BY <1>1, ConnectorConstants DEF Init, ConnectorInv, CacheInv

LEMMA StepConnectorInv ==
    ASSUME ConnectorInv, [Next]_vars
    PROVE  ConnectorInv'
  <1>t. /\ config \in Configs /\ now \in 0 .. MaxTime /\ begun \in 0 .. MaxCalls /\ era \in {0, 1}
        /\ call \in [Calls -> CallState] /\ \A c \in Calls : Good(call[c])
    BY DEF ConnectorInv
  <1>c. ASSUME UNCHANGED <<tokens, config>>, era' \in {era, 1}
        PROVE  CacheInv'
    <2>1. ASSUME NEW s \in Scopes, tokens[s] # None
          PROVE  /\ tokens[s] \in CacheEntry /\ tokens[s].token.scope = s
                 /\ Sound(tokens[s].token)'
      <3>1. /\ tokens[s] \in CacheEntry /\ tokens[s].token \in Token
            /\ tokens[s].token.scope = s /\ Sound(tokens[s].token)
        BY <2>1 DEF ConnectorInv, CacheInv, CacheEntry
      <3>2. tokens[s].token.era \in {0, 1}
        BY <3>1 DEF Token
      <3>3. QED
        BY <1>c, <1>t, <3>1, <3>2 DEF Sound
    <2>2. QED
      BY <1>c, <2>1 DEF ConnectorInv, CacheInv
  <1>1. ASSUME NEW c \in Calls, Start(c)
        PROVE  ConnectorInv'
    <2>1. /\ begun' \in 0 .. MaxCalls /\ UNCHANGED <<now, era, tokens, config>>
      BY <1>1, <1>t, ConnectorConstants DEF Start
    <2>2. PICK r : Good(r) /\ Set(c, r)
      BY <1>1, StartGood
    <2>3. call' \in [Calls -> CallState] /\ \A d \in Calls : Good(call[d])'
      BY <2>1, <2>2, SetGood
    <2>4. QED
      BY <1>t, <1>c, <2>1, <2>3 DEF ConnectorInv
  <1>2. ASSUME NEW c \in Calls, Step(c)
        PROVE  ConnectorInv'
    <2>1. UNCHANGED <<now, era, begun, config>>
      BY <1>2
      DEF Step, Responds, RetriesWithBasic, NeedsToken, IsRefused, IsLost, UseCachedToken, AskForToken,
          TokenGranted, TokenRefused, TokenServiceFails, StoreToken, OnlyCall
    <2>2. PICK r : Good(r) /\ Set(c, r)
      BY <1>2, StepGood
    <2>3. call' \in [Calls -> CallState] /\ \A d \in Calls : Good(call[d])'
      BY <2>1, <2>2, SetGood
    <2>4. CacheInv'
      <3>1. CASE StoreToken(c)
        <4>1. /\ call[c].token \in Token /\ call[c].token.scope = ScopeOf(c)
              /\ Sound(call[c].token) /\ ScopeOf(c) \in Scopes
          <5>1. ScopeOf(c) = ScopeIn(call[c]) /\ call[c] \in CallState
            BY <1>t DEF ScopeOf, ScopeIn
          <5>2. QED
            BY <1>t, <3>1, <5>1, ScopeTypes DEF StoreToken, Good
        <4>2. now + config.life \in Nat
          BY <1>t, ConfigTypes, ConnectorConstants
        <4> DEFINE entry == [token |-> call[c].token, expires |-> now + config.life]
        <4>3. entry \in CacheEntry /\ entry.token = call[c].token
          BY <4>1, <4>2 DEF CacheEntry
        <4>4. tokens' = [tokens EXCEPT ![ScopeOf(c)] = entry]
          BY <3>1 DEF StoreToken
        <4> HIDE DEF entry
        <4>5. tokens' \in [Scopes -> CacheEntry \cup {None}]
          BY <4>1, <4>3, <4>4 DEF ConnectorInv, CacheInv
        <4>6. ASSUME NEW s \in Scopes, tokens'[s] # None
              PROVE  /\ tokens'[s] \in CacheEntry /\ tokens'[s].token.scope = s
                     /\ Sound(tokens'[s].token)
          <5>1. CASE s = ScopeOf(c)
            BY <4>1, <4>3, <4>4, <5>1 DEF ConnectorInv, CacheInv
          <5>2. CASE s # ScopeOf(c)
            BY <4>4, <4>6, <5>2 DEF ConnectorInv, CacheInv
          <5>3. QED
            BY <5>1, <5>2
        <4>7. QED
          BY <2>1, <4>5, <4>6 DEF CacheInv, Sound
      <3>2. CASE ~StoreToken(c)
        BY <1>2, <1>c, <2>1, <3>2
        DEF Step, Responds, RetriesWithBasic, NeedsToken, IsRefused, IsLost, UseCachedToken,
            AskForToken, TokenGranted, TokenRefused, TokenServiceFails, OnlyCall
      <3>3. QED
        BY <3>1, <3>2
    <2>5. QED
      BY <1>t, <2>1, <2>3, <2>4 DEF ConnectorInv
  <1>3. ASSUME Tick \/ WithdrawTokens \/ UNCHANGED vars
        PROVE  ConnectorInv'
    <2>1. /\ now' \in 0 .. MaxTime /\ now <= now' /\ era' \in {era, 1}
          /\ UNCHANGED <<tokens, call, begun, config>>
      BY <1>3, <1>t, ConnectorConstants DEF Tick, WithdrawTokens, vars
    <2>2. \A c \in Calls : Good(call[c])'
      BY <1>t, <2>1, GoodAges, ConnectorConstants
    <2>3. QED
      BY <1>t, <1>c, <2>1, <2>2 DEF ConnectorInv
  <1>4. QED
    BY <1>1, <1>2, <1>3 DEF Next

LEMMA ConnectorInvariant == Spec => []ConnectorInv
  <1>1. ConnectorInv /\ [Next]_vars => ConnectorInv'
    BY StepConnectorInv
  <1>2. QED
    BY InitConnectorInv, <1>1, PTL DEF Spec

\* doAuthenticated and bearerToken: however calls interleave, share the cache
\* and are challenged, none is retried twice, a request carries a token for
\* its own scope, and a cached token is alive when it is used, margin allowing.
THEOREM TokensAreSound == Spec => []TokensInv
  <1>1. ASSUME ConnectorInv
        PROVE  TokensInv
    <2>1. ASSUME NEW c \in Calls
          PROVE  /\ call[c].pc \in PCs /\ call[c].tries \in 0 .. 1 /\ call[c].stage \in 1 .. 2
                 /\ (call[c].pc = "answered") = (call[c].answer # "")
                 /\ call[c].pc = "send" /\ call[c].auth.kind = "token" =>
                       call[c].auth.token.scope = ScopeOf(c)
      <3>1. Good(call[c]) /\ call[c] \in CallState
        BY <1>1 DEF ConnectorInv
      <3>2. call[c].pc \in PCs /\ call[c].tries \in {0, 1} /\ call[c].stage \in {1, 2}
        BY <3>1 DEF CallState
      <3>3. call[c].tries \in 0 .. 1 /\ call[c].stage \in 1 .. 2
        BY <3>2
      <3>4. QED
        BY <3>1, <3>2, <3>3 DEF Good, ScopeOf, ScopeIn
    <2>2. CachedIsAlive
      BY <1>1, ConnectorConstants DEF ConnectorInv, CacheInv, CacheEntry, Token, CachedIsAlive, Usable
    <2>3. QED
      BY <1>1, <2>1, <2>2 DEF ConnectorInv, CacheInv, TokensInv, TypeOK, TokenFitsRequest, PCs
  <1>2. QED
    BY <1>1, ConnectorInvariant, PTL

\* approvedRealm, resolveLocation, cloneRequest and authorize: credentials, and
\* the tokens got for them, are seen by the registry and by approved token
\* services only, whatever realm a challenge names, wherever an upload is sent
\* and from wherever a request is answered.
THEOREM CredentialsAreKept == Spec => []CredentialsStay
  <1>1. ConnectorInv => CredentialsStay
    BY DEF ConnectorInv, CallState, CredentialsStay
  <1>2. QED
    BY <1>1, ConnectorInvariant, PTL

\* doAuthenticated and registryAccessError: a connector that the registry's
\* rules let in is refused only with a token that was withdrawn or ended on the
\* way, whatever else the call was challenged for before.
THEOREM RefusalsAreReal == Spec => []RefusalIsReal
  <1>1. ASSUME ConnectorInv, NEW c \in Calls, call[c].answer = "authentication",
               MayAccess(c), ~config.redirects
        PROVE  /\ call[c].auth.kind = "token"
               /\ call[c].auth.token.era < era \/ call[c].auth.token.end < now
    <2>1. Refusable(call[c])
      BY <1>1 DEF ConnectorInv, Good
    <2>2. Entitled(call[c])
      BY <1>1 DEF MayAccess, Entitled
    <2>3. QED
      BY <1>1, <2>1, <2>2 DEF Refusable, Ended
  <1>2. ConnectorInv => RefusalIsReal
    BY <1>1 DEF RefusalIsReal
  <1>3. QED
    BY <1>2, ConnectorInvariant, PTL

\* VerifyPushScope: whatever token its challenge led it to, it succeeds only for
\* valid credentials that were granted a push there.
THEOREM VerificationsAreSound == Spec => []VerifiedMayPush
  <1>1. ConnectorInv => VerifiedMayPush
    BY DEF ConnectorInv, Good, Sound, ScopeOf, ScopeIn, VerifiedMayPush
  <1>2. QED
    BY <1>1, ConnectorInvariant, PTL

=============================================================================
