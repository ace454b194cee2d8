---------------------------- MODULE PullResolver ----------------------------
(***************************************************************************)
(* The pull path of the gateway (internal/resolution/pull.go) with the     *)
(* parts it drives: the credential selector of                             *)
(* internal/auth/runtime_credentials.go, the content store, and the cache  *)
(* bindings, tag mappings and provenance of the metadata repository.       *)
(*                                                                         *)
(* Every request is a goroutine.  One action is one step whose effect the  *)
(* other requests, the administrators and a crash can see: a repository    *)
(* transaction, a content-store write, or the answer of an upstream.       *)
(* Upstream registries are external: any answer the OCI protocol allows    *)
(* may come back at any time.                                              *)
(***************************************************************************)
EXTENDS Naturals, Sequences, FiniteSets

CONSTANTS
    Requests,     \* request slots: goroutines that may be in flight together
    Users,        \* local users
    Anonymous,    \* the principal without an account (empty principal ID)
    Repos,        \* logical repositories
    Routes,       \* route names
    Sources,      \* upstream registries
    SourceRank,   \* the order of the source IDs in the binding listing
    Tags,         \* tag references
    Manifests,    \* manifest digests
    Blobs,        \* config and layer digests
    BlobsOf,      \* the blobs a manifest lists
    Keys,         \* credential encryption keys
    NoKey,        \* no key configured; no credential saved
    Configs,      \* the configuration files the service may be started with
    Asks,         \* the requests clients make
    NoRow,        \* what a query that finds nothing returns
    TTL,          \* how long a tag mapping is fresh (24 hours in the code)
    MaxClock,     \* bound: clock ticks of a behaviour
    MaxRequests   \* bound: requests of a behaviour

Principals == Users \cup {Anonymous}
Objects    == Manifests \cup Blobs
Access     == {"challenge", "proxy", "current_user_required"}

\* The objects of an image: the manifest and every blob it lists.
Image(m) == {m} \cup BlobsOf[m]

\* A validated configuration.  sources holds the candidate list of a route
\* after the policy engine has cut it at the authoritative source.
Config == [route    : [Repos -> Routes],
           sources  : [Routes -> Seq(Sources)],
           enabled  : SUBSET Sources,
           strategy : [Sources -> Access],
           key      : Keys \cup {NoKey}]

\* A client request: a manifest pull by tag or digest, or a blob read.
Ask == [op : {"pull", "blob"}, who : Principals, repo : Repos, ref : Tags \cup Objects]

Binding == [repo : Repos, route : Routes, source : Sources, manifest : Manifests,
            object : Objects, access : Access, user : Principals]

Mapping == [digest : Manifests, source : Sources, route : Routes, until : Nat]

Provenance == [repo : Repos, ref : Tags \cup Objects, digest : Manifests, source : Sources]

ASSUME PullConstants ==
    /\ Anonymous \notin Users
    /\ NoKey \notin Keys
    /\ SourceRank \in [Sources -> Nat]
    /\ Tags \cap Objects = {}
    /\ Manifests \cap Blobs = {}
    /\ BlobsOf \in [Manifests -> SUBSET Blobs]
    /\ \A c \in Configs :
          /\ c.route \in [Repos -> Routes]
          /\ DOMAIN c.sources = Routes
          /\ \A r \in Routes : c.sources[r] \in Seq(Sources)
          /\ c.enabled \in SUBSET Sources
          /\ c.strategy \in [Sources -> Access]
          /\ c.key \in Keys \cup {NoKey}
    /\ \A a \in Asks :
          /\ a.op \in {"pull", "blob"}
          /\ a.who \in Principals
          /\ a.repo \in Repos
          /\ a.ref \in Tags \cup Objects
          /\ a.op = "blob" => a.ref \in Objects
    /\ Configs # {} /\ Asks # {} /\ Manifests # {}
    /\ NoRow \notin Mapping
    /\ TTL \in Nat /\ MaxClock \in Nat /\ MaxRequests \in Nat

VARIABLES
    config,       \* the configuration the process was started with
    store,        \* content store: digests with a finished file
    bindings,     \* cache_bindings table
    mappings,     \* tag mappings, by logical repository and tag
    provenance,   \* provenance records
    enabledUsers, \* users with Enabled = true
    creds,        \* the key each saved registry credential is sealed with
    clock,        \* time, in ticks
    started,      \* requests begun so far (bound)
    pc,           \* where each request stands
    ask,          \* what each request asks for
    found,        \* the fresh tag mapping tryCache works from
    rest,         \* the listed bindings authorizeCachedObject has still to try
    turn,         \* index of the candidate source in the pull loop
    via,          \* credential source of the selected connector
    got,          \* the manifest the upstream returned
    todo,         \* objects cacheManifest has still to store
    tried,        \* outcome of every candidate left behind
    answer,       \* how the request was answered
    fetched,      \* history: which identity obtained which image upstream
    seen,         \* history: the principal was enabled at some moment since
                  \*   the bindings were listed
    live          \* history: sources it held a credential for at such a
                  \*   moment or later

durable == <<store, bindings, mappings, provenance>>
people  == <<enabledUsers, creds>>
since   == <<seen, live>>
ghosts  == <<fetched, since>>
vars == <<config, store, bindings, mappings, provenance, enabledUsers, creds,
          clock, started, pc, ask, found, rest, turn, via, got, todo, tried, answer,
          fetched, seen, live>>

-----------------------------------------------------------------------------
(* Routing and credentials *)

Provider    == config.key # NoKey            \* WithConnectorProvider was given
RouteOf(r)  == config.route[r]
Candidates(r) == config.sources[RouteOf(r)]
CandidateSet(r) == {Candidates(r)[i] : i \in 1..Len(Candidates(r))}

Connected == {"anonymous", "proxy", "current_user"}
StopErrors == {"credential_required", "credential_unavailable", "authorization"}

\* RuntimeCredentialSelector.ConnectorFor for a pull, up to its first read:
\* the identity a source is contacted with, the error that keeps it from being
\* contacted, or that the credential is to be read.  Without a selector the
\* shared connector is used; it exists for enabled sources.
UserRead(who, s) ==
    CASE s \notin config.enabled -> "unavailable"
      [] s \in config.enabled /\ ~Provider -> "anonymous"
      [] s \in config.enabled /\ Provider /\ who = Anonymous ->
            IF config.strategy[s] = "challenge" THEN "anonymous" ELSE "credential_required"
      [] s \in config.enabled /\ Provider /\ who # Anonymous ->
            IF who \notin enabledUsers THEN "authorization"
            ELSE IF config.strategy[s] = "proxy" THEN "proxy" ELSE "enabled"

\* The second read, and whether the keyring opens what it finds.
CredentialRead(who, s) ==
    CASE creds[who][s] = NoKey ->
            IF config.strategy[s] = "challenge" THEN "anonymous" ELSE "credential_required"
      [] creds[who][s] = config.key -> "current_user"
      [] OTHER -> "credential_unavailable"

\* Mutant: a replay of a user-bound object forgets whose it is.
MayReplayAnyUser(who, b) == Provider /\ b.source \in config.enabled /\ who # Anonymous

\* What RuntimeCredentialSelector.AuthorizeCache asks of a binding that is not
\* public before it reads the user and the credential.
MayReplay(who, b) ==
    /\ Provider
    /\ b.source \in config.enabled
    /\ who # Anonymous
    /\ b.access = "current_user_required" => who = b.user

\* What it would answer if nothing changed meanwhile.
Grants(who, b) ==
    \/ b.access = "challenge"
    \/ /\ MayReplay(who, b)
       /\ who \in enabledUsers
       /\ b.access = "current_user_required" => creds[who][b.source] # NoKey

\* Mutant: the listing forgets the route a binding was recorded under.
UsableOnAnyRoute(r, o) == {b \in bindings : /\ b.repo = r
                                            /\ b.object = o
                                            /\ b.source \in CandidateSet(r)}

\* authorizeCachedObject: the bindings of an object under the current route
\* whose source is still a candidate, and the ones among them that grant.
Usable(r, o) == {b \in bindings : /\ b.repo = r
                                  /\ b.route = RouteOf(r)
                                  /\ b.object = o
                                  /\ b.source \in CandidateSet(r)}
Granting(who, r, o) == {b \in Usable(r, o) : Grants(who, b)}

\* The listing is ordered by source; whatever orders the bindings of a source
\* is left open.
FirstOf(bs) == {b \in bs : \A c \in bs : SourceRank[b.source] <= SourceRank[c.source]}

-----------------------------------------------------------------------------
(* Request steps *)

Active(p)  == pc[p] \notin {"idle", "done"}
IsTagPull(p) == ask[p].op = "pull" /\ ask[p].ref \in Tags
Source(p)  == Candidates(ask[p].repo)[turn[p]]
Wanted(p)  == IF found[p] # NoRow THEN found[p].digest ELSE ask[p].ref

Goto(p, label) == pc' = [pc EXCEPT ![p] = label]
Finish(p, a)   == /\ Goto(p, "done")
                  /\ answer' = [answer EXCEPT ![p] = a]

\* The sources for which who holds a credential.
Held(who, cr) == {s \in Sources : who \in Users /\ cr[who][s] # NoKey}

\* The gateway has authenticated the principal: a local user is enabled now.
StartRequest(p, a) ==
    /\ ~Active(p)
    /\ started < MaxRequests
    /\ a.who \in enabledUsers \cup {Anonymous}
    /\ started' = started + 1
    /\ ask'    = [ask EXCEPT ![p] = a]
    /\ Goto(p, IF a.op = "pull" /\ a.ref \in Tags THEN "lookup" ELSE "authorize")
    /\ found'  = [found EXCEPT ![p] = NoRow]
    /\ turn'   = [turn EXCEPT ![p] = 1]
    /\ tried'  = [tried EXCEPT ![p] = <<>>]
    /\ answer' = [answer EXCEPT ![p] = "none"]
    /\ UNCHANGED <<config, durable, people, clock, rest, via, got, todo, ghosts>>

\* tryCache for a tag: FindTagMapping and mappingIsFresh.
LookupTag(p) ==
    LET m == mappings[ask[p].repo][ask[p].ref] IN
    /\ pc[p] = "lookup"
    /\ \/ /\ m = NoRow
          /\ Goto(p, "select")
          /\ UNCHANGED found
       \/ /\ m # NoRow /\ m.until < clock
          /\ Goto(p, "select")
          /\ UNCHANGED found
       \/ /\ m # NoRow /\ m.until >= clock
          /\ Goto(p, "authorize")
          /\ found' = [found EXCEPT ![p] = m]
    /\ UNCHANGED <<config, durable, people, clock, started, ask, rest, turn, via,
                   got, todo, tried, answer, ghosts>>

\* A cache miss sends a pull upstream and ends a blob read with not found.
MissCache(p) ==
    /\ \/ ask[p].op = "pull" /\ Goto(p, "select") /\ UNCHANGED answer
       \/ ask[p].op = "blob" /\ Finish(p, "not_found")
    /\ found' = [found EXCEPT ![p] = NoRow]

\* authorizeCachedObject finds no binding.
CacheMiss(p) ==
    /\ pc[p] = "authorize"
    /\ Usable(ask[p].repo, Wanted(p)) = {}
    /\ MissCache(p)
    /\ UNCHANGED <<config, durable, people, clock, started, ask, rest, turn, via, got,
                   todo, tried, ghosts>>

\* ListCacheBindings: the bindings of this moment are tried one after the other.
ListCacheBindings(p) ==
    /\ pc[p] = "authorize"
    /\ Usable(ask[p].repo, Wanted(p)) # {}
    /\ rest' = [rest EXCEPT ![p] = Usable(ask[p].repo, Wanted(p))]
    /\ Goto(p, "binding")
    /\ seen' = [seen EXCEPT ![p] = ask[p].who \in enabledUsers]
    /\ live' = [live EXCEPT ![p] = IF ask[p].who \in enabledUsers
                                   THEN Held(ask[p].who, creds) ELSE {}]
    /\ UNCHANGED <<config, durable, people, clock, started, ask, found, turn, via, got,
                   todo, tried, answer, fetched>>

\* A binding grants.  A tag hit must come from the mapping's own source and
\* manifest, else the pull goes upstream.
UseBinding(p, b) ==
    /\ rest' = [rest EXCEPT ![p] = {}]
    /\ IF found[p] # NoRow /\ (b.source # found[p].source \/ b.manifest # found[p].digest)
       THEN MissCache(p)
       ELSE Goto(p, "serve") /\ UNCHANGED <<found, answer>>

\* A binding is refused and the next one tried.  After the last the denial is
\* returned, without an upstream attempt and without a request event.
PassBinding(p, b) ==
    /\ rest' = [rest EXCEPT ![p] = @ \ {b}]
    /\ IF rest[p] = {b} THEN Finish(p, "denied") ELSE Goto(p, "binding") /\ UNCHANGED answer
    /\ UNCHANGED found

\* Mutant: a credential is taken for a sign that its user is enabled.
CheckOwnerOnly(p) ==
    /\ pc[p] = "binding"
    /\ \E b \in FirstOf(rest[p]) :
         \/ b.access = "challenge" /\ UseBinding(p, b)
         \/ b.access # "challenge" /\ PassBinding(p, b)
         \/ /\ b.access = "proxy" /\ MayReplay(ask[p].who, b) /\ ask[p].who \in enabledUsers
            /\ UseBinding(p, b)
         \/ /\ b.access = "current_user_required" /\ MayReplay(ask[p].who, b)
            /\ Goto(p, "credential") /\ UNCHANGED <<found, rest, answer>>
    /\ UNCHANGED <<config, durable, people, clock, started, ask, turn, via, got,
                   todo, tried, ghosts>>

\* The next binding, as far as the read of the user: a public one grants;
\* another is refused if it may not be replayed, the user is disabled or the
\* read fails; with the shared identity an enabled user is enough.
CheckUser(p) ==
    /\ pc[p] = "binding"
    /\ \E b \in FirstOf(rest[p]) :
         \/ b.access = "challenge" /\ UseBinding(p, b)
         \/ b.access # "challenge" /\ PassBinding(p, b)
         \/ /\ b.access # "challenge" /\ MayReplay(ask[p].who, b) /\ ask[p].who \in enabledUsers
            /\ \/ b.access = "proxy" /\ UseBinding(p, b)
               \/ /\ b.access = "current_user_required" /\ Goto(p, "credential")
                  /\ UNCHANGED <<found, rest, answer>>
    /\ UNCHANGED <<config, durable, people, clock, started, ask, turn, via, got,
                   todo, tried, ghosts>>

\* The read of the credential, which may fail; whether it can still be
\* decrypted is not asked.
CheckCredential(p) ==
    /\ pc[p] = "credential"
    /\ \E b \in FirstOf(rest[p]) :
         /\ b.access = "current_user_required" /\ MayReplay(ask[p].who, b)
         /\ \/ creds[ask[p].who][b.source] # NoKey /\ UseBinding(p, b)
            \/ PassBinding(p, b)
    /\ UNCHANGED <<config, durable, people, clock, started, ask, turn, via, got,
                   todo, tried, ghosts>>

\* cachedManifestByDigest or OpenBlob on the store, then recordCacheHit.
ServeCached(p) ==
    /\ pc[p] = "serve"
    /\ IF Wanted(p) \in store
       THEN Finish(p, "hit") /\ UNCHANGED found
       ELSE MissCache(p)
    /\ UNCHANGED <<config, durable, people, clock, started, ask, rest, turn, via, got,
                   todo, tried, ghosts>>

-----------------------------------------------------------------------------
(* The candidate loop *)

LeaveSource(p, outcome) == tried' = [tried EXCEPT ![p] = Append(@, outcome)]

NextSource(p, outcome) ==
    /\ LeaveSource(p, outcome)
    /\ turn' = [turn EXCEPT ![p] = @ + 1]
    /\ Goto(p, "select")

\* What ConnectorFor says of the source whose turn it is, after its first read
\* or, with the label "secret", after its second.
Selecting(p) == pc[p] \in {"select", "secret"} /\ turn[p] <= Len(Candidates(ask[p].repo))
ConnectorFor(p) == IF pc[p] = "select" THEN UserRead(ask[p].who, Source(p))
                                       ELSE CredentialRead(ask[p].who, Source(p))

\* The user is enabled; the credential is read next.
FindCredential(p) ==
    /\ Selecting(p)
    /\ ConnectorFor(p) = "enabled"
    /\ Goto(p, "secret")
    /\ UNCHANGED <<config, durable, people, clock, started, ask, found, rest, turn, via,
                   got, todo, tried, answer, ghosts>>

SelectConnector(p) ==
    /\ Selecting(p)
    /\ ConnectorFor(p) \in Connected
    /\ via' = [via EXCEPT ![p] = ConnectorFor(p)]
    /\ Goto(p, "resolve")
    /\ UNCHANGED <<config, durable, people, clock, started, ask, found, rest, turn, got,
                   todo, tried, answer, ghosts>>

\* A disabled source, or a repository read that fails inside the selector,
\* moves the loop to the next candidate.
SkipSource(p) ==
    /\ Selecting(p)
    /\ \/ ConnectorFor(p) = "unavailable" /\ NextSource(p, "unavailable")
       \/ /\ Provider /\ ask[p].who # Anonymous /\ Source(p) \in config.enabled
          /\ NextSource(p, "repository_fault")
    /\ UNCHANGED <<config, durable, people, clock, started, ask, found, rest, via, got,
                   todo, answer, ghosts>>

\* Mutant: a credential failure falls through to the next source.
RefusalContinues(p) ==
    /\ Selecting(p)
    /\ ConnectorFor(p) \in StopErrors
    /\ NextSource(p, ConnectorFor(p))
    /\ UNCHANGED <<config, durable, people, clock, started, ask, found, rest, via, got,
                   todo, answer, ghosts>>

\* Missing or unreadable credentials and disabled users end the loop.
RefuseSource(p) ==
    /\ Selecting(p)
    /\ ConnectorFor(p) \in StopErrors
    /\ LeaveSource(p, ConnectorFor(p))
    /\ Goto(p, "fail")
    /\ UNCHANGED <<config, durable, people, clock, started, ask, found, rest, turn, via,
                   got, todo, answer, ghosts>>

Exhausted(p) ==
    /\ pc[p] = "select"
    /\ turn[p] > Len(Candidates(ask[p].repo))
    /\ Goto(p, "fail")
    /\ UNCHANGED <<config, durable, people, clock, started, ask, found, rest, turn, via,
                   got, todo, tried, answer, ghosts>>

\* Mutant: the credential source is recorded as the access class.
AccessUntranslated(p) == via[p]

\* Who an object fetched with the selected connector belongs to.
AccessOf(p) == IF via[p] = "current_user" THEN "current_user_required"
               ELSE IF via[p] = "proxy" THEN "proxy" ELSE "challenge"
OwnerOf(p)  == IF via[p] = "current_user" THEN ask[p].who ELSE Anonymous

Fetch(p, m) == [repo |-> ask[p].repo, route |-> RouteOf(ask[p].repo),
                source |-> Source(p), manifest |-> m,
                access |-> AccessOf(p), user |-> OwnerOf(p)]

\* The upstream returns a manifest: the one its response names, which is not
\* compared with a digest that was asked for.
ResolveManifest(p) ==
    /\ pc[p] = "resolve"
    /\ \E m \in Manifests :
         /\ got'  = [got EXCEPT ![p] = m]
         /\ todo' = [todo EXCEPT ![p] = Image(m)]
         /\ fetched' = fetched \cup {Fetch(p, m)}
    /\ Goto(p, "cache")
    /\ UNCHANGED <<config, durable, people, clock, started, ask, found, rest, turn, via,
                   tried, answer, since>>

\* 401 ends the loop ...
UpstreamUnauthenticated(p) ==
    /\ pc[p] = "resolve"
    /\ LeaveSource(p, "upstream_401")
    /\ Goto(p, "fail")
    /\ UNCHANGED <<config, durable, people, clock, started, ask, found, rest, turn, via,
                   got, todo, answer, ghosts>>

\* Mutant: a failed source is tried again, without end.
RetrySource(p) ==
    /\ pc[p] = "resolve"
    /\ Goto(p, "select")
    /\ UNCHANGED <<config, durable, people, clock, started, ask, found, rest, turn, via, got,
                   todo, tried, answer, ghosts>>

\* ... and every other failure of ResolveManifest continues with the next
\* candidate: 404, 5xx and timeouts, 403, and unparsable answers.
UpstreamFails(p) ==
    /\ pc[p] = "resolve"
    /\ \E e \in {"upstream_404", "upstream_5xx", "upstream_403", "upstream_other"} :
          NextSource(p, e)
    /\ UNCHANGED <<config, durable, people, clock, started, ask, found, rest, via, got,
                   todo, answer, ghosts>>

-----------------------------------------------------------------------------
(* Caching and recording a resolved image *)

\* Mutant: the bindings are written before the blobs have been stored.
CacheManifestOnly(p) ==
    /\ pc[p] = "cache"
    /\ store' = store \cup {got[p]}
    /\ todo'  = [todo EXCEPT ![p] = {}]
    /\ Goto(p, "bind")
    /\ UNCHANGED <<config, bindings, mappings, provenance, people, clock, started,
                   ask, found, rest, turn, via, got, tried, answer, ghosts>>

\* cacheManifest: PutBlob of the manifest, then of each blob.  PutBlob
\* publishes by rename, so an object is in the store completely or not at all.
CacheObject(p) ==
    /\ pc[p] = "cache"
    /\ \E o \in todo[p] :
         /\ got[p] \in todo[p] => o = got[p]
         /\ store' = store \cup {o}
         /\ todo'  = [todo EXCEPT ![p] = @ \ {o}]
         /\ Goto(p, IF todo[p] = {o} THEN "bind" ELSE "cache")
    /\ UNCHANGED <<config, bindings, mappings, provenance, people, clock, started,
                   ask, found, rest, turn, via, got, tried, answer, ghosts>>

\* OpenBlob of the source, the digest check or the disk fails: the error is
\* returned without a request event.
CacheObjectFails(p) ==
    /\ pc[p] = "cache"
    /\ Finish(p, "error")
    /\ UNCHANGED <<config, durable, people, clock, started, ask, found, rest, turn, via,
                   got, todo, tried, ghosts>>

NewBinding(p, o) == [repo |-> ask[p].repo, route |-> RouteOf(ask[p].repo),
                     source |-> Source(p), manifest |-> got[p], object |-> o,
                     access |-> AccessOf(p), user |-> OwnerOf(p)]

\* Mutant: only the manifest is bound.
BindManifestOnly(p) ==
    /\ pc[p] = "bind"
    /\ bindings' = bindings \cup {NewBinding(p, got[p])}
    /\ Goto(p, "provenance")
    /\ UNCHANGED <<config, store, mappings, provenance, people, clock, started, ask,
                   found, rest, turn, via, got, todo, tried, answer, ghosts>>

\* recordCacheBindings: manifest and blobs in one transaction.
RecordCacheBindings(p) ==
    /\ pc[p] = "bind"
    /\ bindings' = bindings \cup {NewBinding(p, o) : o \in Image(got[p])}
    /\ Goto(p, "provenance")
    /\ UNCHANGED <<config, store, mappings, provenance, people, clock, started, ask,
                   found, rest, turn, via, got, todo, tried, answer, ghosts>>

\* Mutant: a reference that has a provenance record already gets no other.
ProvenanceOncePerRef(p) ==
    /\ pc[p] = "provenance"
    /\ provenance' = provenance \cup
          {x \in {[repo |-> ask[p].repo, ref |-> ask[p].ref, digest |-> got[p],
                   source |-> Source(p)]} :
             \A y \in provenance : y.repo # x.repo \/ y.ref # x.ref}
    /\ Goto(p, IF ask[p].ref \in Tags THEN "map" ELSE "event")
    /\ UNCHANGED <<config, store, bindings, mappings, people, clock, started, ask,
                   found, rest, turn, via, got, todo, tried, answer, ghosts>>

\* recordSuccessfulPull writes provenance, then the tag mapping, then the event.
RecordProvenance(p) ==
    /\ pc[p] = "provenance"
    /\ provenance' = provenance \cup
          {[repo |-> ask[p].repo, ref |-> ask[p].ref, digest |-> got[p], source |-> Source(p)]}
    /\ Goto(p, IF ask[p].ref \in Tags THEN "map" ELSE "event")
    /\ UNCHANGED <<config, store, bindings, mappings, people, clock, started, ask,
                   found, rest, turn, via, got, todo, tried, answer, ghosts>>

RecordTagMapping(p) ==
    /\ pc[p] = "map"
    /\ mappings' = [mappings EXCEPT ![ask[p].repo][ask[p].ref] =
                      [digest |-> got[p], source |-> Source(p),
                       route |-> RouteOf(ask[p].repo), until |-> clock + TTL]]
    /\ Goto(p, "event")
    /\ UNCHANGED <<config, store, bindings, provenance, people, clock, started, ask,
                   found, rest, turn, via, got, todo, tried, answer, ghosts>>

RecordPullEvent(p) ==
    /\ \/ pc[p] = "event" /\ Finish(p, "pulled")
       \/ pc[p] = "fail" /\ Finish(p, "failed")
    /\ UNCHANGED <<config, durable, people, clock, started, ask, found, rest, turn, via,
                   got, todo, tried, ghosts>>

\* A repository call fails: the request ends with an error where it stands.
RepositoryFault(p) ==
    /\ pc[p] \in {"lookup", "authorize", "serve", "bind", "provenance", "map", "event", "fail"}
    /\ Finish(p, "error")
    /\ UNCHANGED <<config, durable, people, clock, started, ask, found, rest, turn, via,
                   got, todo, tried, ghosts>>

-----------------------------------------------------------------------------
(* Administrators, users, time and restarts *)

\* Requests that are trying bindings notice who is enabled and what is held.
Scanning(p) == pc[p] \in {"binding", "credential"}
Watch(en, cr) ==
    LET noted(p) == seen[p] \/ (Scanning(p) /\ ask[p].who \in en) IN
    /\ seen' = [p \in Requests |-> noted(p)]
    /\ live' = [p \in Requests |-> IF Scanning(p) /\ noted(p)
                                  THEN live[p] \cup Held(ask[p].who, cr) ELSE live[p]]

requestVars == <<started, pc, ask, found, rest, turn, via, got, todo, tried, answer, fetched>>

SetUserEnabled(u, on) ==
    /\ on # (u \in enabledUsers)
    /\ enabledUsers' = IF on THEN enabledUsers \cup {u} ELSE enabledUsers \ {u}
    /\ Watch(enabledUsers', creds)
    /\ UNCHANGED <<config, durable, creds, clock, requestVars>>

\* RegistryCredentialService.VerifyAndSave and Remove, as the pull path sees
\* them: the row of (user, source) appears, is replaced or disappears.  Neither
\* asks whether the user is still enabled.
SaveCredential(u, s) ==
    /\ Provider /\ s \in config.enabled
    /\ creds[u][s] # config.key
    /\ creds' = [creds EXCEPT ![u][s] = config.key]
    /\ Watch(enabledUsers, creds')
    /\ UNCHANGED <<config, durable, enabledUsers, clock, requestVars>>

RemoveCredential(u, s) ==
    /\ Provider /\ s \in config.enabled
    /\ creds[u][s] # NoKey
    /\ creds' = [creds EXCEPT ![u][s] = NoKey]
    /\ UNCHANGED <<config, durable, enabledUsers, clock, requestVars, since>>

Tick ==
    /\ clock < MaxClock
    /\ clock' = clock + 1
    /\ UNCHANGED <<config, durable, people, requestVars, since>>

\* A crash or an orderly restart, possibly with an edited configuration:
\* requests in flight are gone, the repository and the store stay.
Restart(c) ==
    /\ config' = c
    /\ pc'     = [p \in Requests |-> "idle"]
    /\ found'  = [p \in Requests |-> NoRow]
    /\ tried'  = [p \in Requests |-> <<>>]
    /\ answer' = [p \in Requests |-> "none"]
    /\ rest'   = [p \in Requests |-> {}]
    /\ seen'   = [p \in Requests |-> FALSE]
    /\ live'   = [p \in Requests |-> {}]
    /\ UNCHANGED <<durable, people, clock, started, ask, turn, via, got, todo, fetched>>

-----------------------------------------------------------------------------
Init ==
    /\ config \in Configs
    /\ store = {} /\ bindings = {} /\ provenance = {}
    /\ mappings = [r \in Repos |-> [t \in Tags |-> NoRow]]
    /\ enabledUsers = Users
    /\ creds = [u \in Users |-> [s \in Sources |-> NoKey]]
    /\ clock = 0 /\ started = 0
    /\ pc = [p \in Requests |-> "idle"]
    /\ ask = [p \in Requests |-> CHOOSE a \in Asks : TRUE]
    /\ found = [p \in Requests |-> NoRow]
    /\ rest = [p \in Requests |-> {}]
    /\ turn = [p \in Requests |-> 1]
    /\ via = [p \in Requests |-> "anonymous"]
    /\ got = [p \in Requests |-> CHOOSE m \in Manifests : TRUE]
    /\ todo = [p \in Requests |-> {}]
    /\ tried = [p \in Requests |-> <<>>]
    /\ answer = [p \in Requests |-> "none"]
    /\ fetched = {}
    /\ seen = [p \in Requests |-> FALSE]
    /\ live = [p \in Requests |-> {}]

Step(p) ==
    \/ LookupTag(p) \/ CacheMiss(p) \/ ListCacheBindings(p)
    \/ CheckUser(p) \/ CheckCredential(p) \/ ServeCached(p)
    \/ FindCredential(p) \/ SelectConnector(p) \/ SkipSource(p) \/ RefuseSource(p) \/ Exhausted(p)
    \/ ResolveManifest(p) \/ UpstreamUnauthenticated(p) \/ UpstreamFails(p)
    \/ CacheObject(p) \/ CacheObjectFails(p)
    \/ RecordCacheBindings(p) \/ RecordProvenance(p) \/ RecordTagMapping(p)
    \/ RecordPullEvent(p) \/ RepositoryFault(p)

Environment ==
    \/ \E u \in Users, on \in BOOLEAN : SetUserEnabled(u, on)
    \/ \E u \in Users, s \in Sources : SaveCredential(u, s) \/ RemoveCredential(u, s)
    \/ Tick
    \/ \E c \in Configs : Restart(c)

Next ==
    \/ \E p \in Requests : Step(p) \/ \E a \in Asks : StartRequest(p, a)
    \/ Environment

Spec == Init /\ [][Next]_vars

\* A goroutine that can step eventually does: the Go scheduler is fair and
\* every upstream call is bounded by the connector's 30 second timeout.
FairSpec == Spec /\ \A p \in Requests : WF_vars(Step(p))

-----------------------------------------------------------------------------
(* Properties *)

Labels == {"idle", "lookup", "authorize", "binding", "credential", "serve", "select",
           "secret", "resolve", "cache",
           "bind", "provenance", "map", "event", "fail", "done"}
Outcomes == StopErrors \cup {"unavailable", "repository_fault", "upstream_401",
             "upstream_403", "upstream_404", "upstream_5xx", "upstream_other"}
Answers == {"none", "hit", "pulled", "denied", "not_found", "failed", "error"}
FetchRecord == [repo : Repos, route : Routes, source : Sources, manifest : Manifests,
                access : Access, user : Principals]

\* The type invariant of the pull path.
TypeOK ==
    /\ config \in Configs
    /\ store \subseteq Objects
    /\ bindings \subseteq Binding
    /\ mappings \in [Repos -> [Tags -> Mapping \cup {NoRow}]]
    /\ provenance \subseteq Provenance
    /\ enabledUsers \subseteq Users
    /\ creds \in [Users -> [Sources -> Keys \cup {NoKey}]]
    /\ clock \in Nat /\ started \in Nat
    /\ pc \in [Requests -> Labels]
    /\ ask \in [Requests -> Asks]
    /\ found \in [Requests -> Mapping \cup {NoRow}]
    /\ rest \in [Requests -> SUBSET Binding]
    /\ turn \in [Requests -> Nat \ {0}]
    /\ via \in [Requests -> Connected]
    /\ got \in [Requests -> Manifests]
    /\ todo \in [Requests -> SUBSET Objects]
    /\ tried \in [Requests -> Seq(Outcomes)]
    /\ answer \in [Requests -> Answers]
    /\ fetched \subseteq FetchRecord
    /\ seen \in [Requests -> BOOLEAN]
    /\ live \in [Requests -> SUBSET Sources]

\* cacheManifest runs before recordCacheBindings, and the bindings of an image
\* are one transaction: whatever was interrupted, a binding's image is in the
\* store with every blob, and every blob carries the same binding.
Whole(b) ==
    \A o \in Image(b.manifest) : o \in store /\ [b EXCEPT !.object = o] \in bindings
BindingBacked == \A b \in bindings : Whole(b)

\* recordSuccessfulPull comes last: a tag mapping, whichever concurrent pull
\* wrote it last and wherever that pull or a crash stopped, names a digest
\* bound under its own source and route and explained by a provenance record.
MappingBacked ==
    \A r \in Repos, t \in Tags :
        mappings[r][t] # NoRow =>
            LET m == mappings[r][t] IN
            /\ \E b \in bindings : /\ b.repo = r /\ b.route = m.route
                                   /\ b.source = m.source
                                   /\ b.manifest = m.digest /\ b.object = m.digest
            /\ [repo |-> r, ref |-> t, digest |-> m.digest, source |-> m.source] \in provenance

\* What the cache holds is complete, and its tags lead to it, at every moment.
CacheSound == BindingBacked /\ MappingBacked

\* Outage replay (ADR-0010): a principal allowed to replay a manifest from the
\* cache can also replay every blob of it, with no upstream to ask.
ReplayComplete ==
    \A w \in Principals, r \in Repos, m \in Manifests :
        Granting(w, r, m) # {} =>
            \A o \in Image(m) : o \in store /\ Granting(w, r, o) # {}

\* Some upstream fetch entitles the requester to the object it wants: one made
\* for the same repository and route, either publicly, or with the shared
\* identity for a user who was enabled at some moment since the bindings were
\* listed, or by this very user, who was enabled at such a moment and held a
\* credential for that source then or later.  The two need not be one moment:
\* the code reads the user first and the credential after.
Justified(p) ==
    \E f \in fetched :
        /\ f.repo = ask[p].repo /\ f.route = RouteOf(ask[p].repo)
        /\ Wanted(p) \in Image(f.manifest)
        /\ \/ f.access = "challenge"
           \/ f.access = "proxy" /\ ask[p].who # Anonymous /\ seen[p]
           \/ /\ f.access = "current_user_required"
              /\ f.user = ask[p].who
              /\ f.source \in live[p]

\* ADR-0010: presence in the deduplicated store never grants access, and
\* credential removal and disablement block replay, however they fall between
\* the listing and the two reads of AuthorizeCache: what was withdrawn before
\* the listing and not restored never counts.  Every object answered from the
\* cache is justified by an upstream fetch.
ReplayAuthorized ==
    \A p \in Requests : pc[p] = "done" /\ answer[p] = "hit" => Justified(p)

\* ImageCache: the concurrent pulls, with the store, the bindings and the tag
\* mappings they write one after the other, amount to a cache that keeps whole
\* images as they were fetched and replies only with what the requester may be
\* given.  An image of which only some objects are bound or stored is not kept.
KeptImage(b) ==
    [repo |-> b.repo, route |-> b.route, source |-> b.source,
     manifest |-> b.manifest, access |-> b.access, user |-> b.user]
ReplyTo(p) ==
    IF pc[p] = "done" /\ answer[p] = "hit"
    THEN [who |-> ask[p].who, repo |-> ask[p].repo, route |-> RouteOf(ask[p].repo),
          object |-> Wanted(p)]
    ELSE NoRow
Cache == INSTANCE ImageCache WITH
    Objects  <- Image,
    Entitled <- LAMBDA who, f : \/ f.access = "challenge"
                                \/ f.access = "proxy" /\ who # Anonymous
                                \/ f.access = "current_user_required" /\ f.user = who,
    NoReply  <- NoRow,
    kept     <- {KeptImage(b) : b \in {x \in bindings : Whole(x)}},
    replies  <- [p \in Requests |-> ReplyTo(p)]
KeepsImages == Cache!Spec

\* The pull loop stops where a credential is missing, unreadable or rejected
\* with 401, or the user is disabled: no later candidate is contacted, no
\* later outcome is recorded and the pull does not succeed.
FinalOutcomes == StopErrors \cup {"upstream_401"}
CredentialFailureEndsFallback ==
    \A p \in Requests : \A i \in 1..Len(tried[p]) :
        tried[p][i] \in FinalOutcomes =>
            /\ i = Len(tried[p])
            /\ pc[p] \in {"fail", "done"}
            /\ answer[p] \notin {"pulled", "hit"}

\* Every request is answered, whatever the upstreams do.
RequestsAnswered ==
    \A p \in Requests : Active(p) ~> ~Active(p)

=============================================================================
