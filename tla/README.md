# A TLA+ model of Regstair

Regstair is an OCI registry gateway: Docker clients pull and push through it, routes decide which
upstream registry serves a repository, users keep credentials for those registries, and whatever
was pulled is kept in a deduplicated content store and may be replayed from it. This directory
holds TLA+ modules of that program, TLC configurations that check them, and TLAPS proofs about
them. Paths below are relative to the repository.

## 1. Inventory

| Component | Code | State | Operations | Talks to |
| --- | --- | --- | --- | --- |
| Pull resolution and cache | `internal/resolution/pull.go` | none of its own; blobs, cache bindings, provenance, tag mappings, events | `Pull`, `OpenBlob` | policy, credential selector, connectors, content store, repository |
| Credential selection | `internal/auth/runtime_credentials.go` | reads users, credentials | `ConnectorFor`, `AuthorizeCache` | repository, keyring, connectors |
| Push resolution | `internal/resolution/push.go` | provenance, events | `Push` | policy, selector, content store, connector |
| Gateway uploads | `internal/gateway/server.go` | upload sessions in memory | start, PATCH, PUT | content store |
| Gateway access | `internal/gateway/server.go`, `internal/auth/oci_tokens.go` | HMAC key of the process | token exchange, bearer validation | limiter, Docker tokens, users |
| Content store | `internal/content/store.go` | files named by digest | `PutBlob`, `HasBlob`, `OpenBlob` | file system |
| Accounts, sessions, Docker tokens | `internal/auth/accounts.go`, `internal/metadata/sqlite_security.go`, `internal/admin/server.go` | users, web_sessions, docker_tokens | setup, sign-in and -out, passwords, tokens, user administration | SQLite transactions |
| Registry credentials, keyring | `internal/auth/registry_credentials.go`, `internal/auth/secrets.go` | registry_credentials | verify-and-save, remove, rotate key, readiness | registry, SQLite |
| Failure limiter | `internal/security/rate_limit.go` | failures by address and account | `Allow`, `Failure`, `Success` | sign-in, token endpoint, registry requests |
| Routing policy | `internal/policy/policy.go`, `internal/config` | ordered routes | `NewEngine`, `ResolvePull`, `ResolvePush` | both resolvers |
| Registry connector | `internal/registry` | cache of upstream tokens | read a manifest or blob, publish, verify a push | registries, their token services |
| Commands and TLS identity | `cmd/regstair`, `internal/tlsidentity` | key and certificate files, archives, restored roots | start, `tls init`, backup, restore, rotate key, reset password | file system, repository |
| Request events | `internal/metadata/sqlite_repository.go`, `internal/admin/server.go` | append-only events and provenance | record, page through with a cursor, details | pulls and pushes; administrators' browsers |
| Other admin pages, frontend, audit log, scripts | `internal/admin`, `frontend` | read-only views; append-only log | | |

Requests are goroutines. SQLite has one connection, so a repository call is atomic and a handler
that makes two calls is not; files appear by rename; uploads share memory without a lock; upstream
registries answer as they like and their answers can be lost; the process may die between any two
calls. What has to hold in spite of that:

* *pull*: the cache never answers a principal whom no upstream fetch entitles; what it may answer it
  can answer completely; a failing credential does not send the pull to another registry; every
  request ends.
* *push*: a file holds the bytes its digest names; a manifest is published after its blobs;
  provenance tells the truth.
* *accounts*: an administrator always remains; no update is lost; sessions and tokens end with the
  identity they were issued for.
* *credentials*: a secret opens only in the record it was sealed for; what is stored was verified;
  a rotation is all or nothing.
* *access*: a revoked token or disabled user is refused from the next request on; failures are
  limited under concurrency.
* *connector*: credentials go to the registry and approved token services only; a connector that has
  the right is not refused; every call is answered.
* *commands*: files written one by one by processes that fail, die and overlap belong together; a
  server serves what the next one will find; a closed archive and a reported restore are whole.
* *request events*: paging through a growing log shows every event once and finds its way back.
* *policy*: one route decides, whatever the order of the file, and fallback ends at the
  authoritative source.

The hazards behind these are listed in `PROJECT.json`, each at its line.

## 2. Modules

| Module | Models | Instances | Proofs |
| --- | --- | --- | --- |
| `PullResolver` | pulls, blob reads, cache authorization, and all the writes of a pull | `MCPullResolver` | `PullResolverProofs` |
| `Accounts` | users, sessions, Docker tokens, every handler that changes them | `MCAccounts` | `AccountsProofs` |
| `PushPath` | upload sessions, `PutBlob` step by step, publication and its records | `MCPushPath` | `PushPathProofs` |
| `Credentials` | saved credentials, keyring, readiness probe, key rotation, starts and stops | `MCCredentials` | `CredentialsProofs` |
| `FailureLimiter` | the limiter and the three handlers that call it | `MCFailureLimiter` | `FailureLimiterProofs` |
| `OCITokens` | exchange of Docker tokens for bearers, and validation of bearers | `MCOCITokens` | `OCITokensProofs` |
| `RoutePolicy` | validation, ordering and matching of routes | `MCRoutePolicy` | `PullResolverProofs` |
| `LocalCommands` | starts, `tls init`, backup and restore as processes over the host's files | `MCLocalCommands` | `LocalCommandsProofs` |
| `RequestEvents` | recording of requests and the pages that show them | `MCRequestEvents` | `PullResolverProofs` |
| `RegistryConnector` | challenges, token exchange and cache of one connector | `MCRegistryConnector` | `RegistryConnectorProofs` |
| `ImageCache` | abstract: what the pull cache promises; implemented by `PullResolver` | | `PullResolverProofs` |
| `ImagePublication` | abstract: what a push promises; implemented by `PushPath` | | `PushPathProofs` |

Conventions. A request has a program counter (`pc`, or the field `at` of its call record) that names
the repository or network call it makes next; one action is one such call, with everything the
handler computes before the next. Variables marked *history* in the declarations are written but
never read by the actions; the properties use them. Mutants are operators marked as such, next to
the definition they vary; no specification uses them. An invariant whose name ends in `Inv` in the
table of runs is the conjunction of the module's type invariant and of named parts that are
explained where they are defined. `PROJECT.json` maps each definition to its lines.

**PullResolver.** `StartRequest` takes a manifest or blob request. `LookupTag`, `ListCacheBindings`
(or `CacheMiss`), `CheckUser`, `CheckCredential` and `ServeCached` are `tryCache` and `OpenBlob`:
the bindings of one moment are listed, and for each that is not public `AuthorizeCache` reads the
user and then the credential, in steps of their own; `UseBinding` and `PassBinding` are its
outcomes. `FindCredential` parts the same two reads of `ConnectorFor`; `SelectConnector`,
`SkipSource` and `RefuseSource` are its outcomes in the loop; `ResolveManifest`,
`UpstreamUnauthenticated` and `UpstreamFails` those of the upstream; `CacheObject` is one blob of
`cacheManifest`; then `RecordCacheBindings`, `RecordProvenance`, `RecordTagMapping`,
`RecordPullEvent`. `RepositoryFault` fails any write. Administrators change users and credentials,
and `Restart` stands for a crash, after which another configuration may be loaded. Abstractions:
digests are model values and the store is the set of those with a finished file (the steps of
`PutBlob` are in `PushPath`); upstream registries are external and may answer any manifest, 401,
403, 404 or a transport error.

**Accounts.** The labels of a request are the repository calls of its handler: `CheckSession` and
`CheckUser` (`requireUser`, `requireCSRF`), `Login` and `CreateSession`, `LoadUser`, `CompareUser`,
`CountAdmins`, `CommitUpdate` (`AdminAccountService.Update` and the transaction
`UpdateUserSecurity`), `SetPassword`, `IssueToken`, `RevokeToken`, `Setup`, `RecoverPassword`.
Passwords are numbers and every hash is new.

**PushPath.** `OpenUpload`, `AppendBody` and `DeleteUpload` are `handleUpload`; `BlobExists`,
`CopyBlob`, `RenameBlob` and `PutBlobFails` are `PutBlob`. The upload body is not locked: a request
whose use of it overlapped another's append may find any bytes (`raced`). `SelectDestination`,
`PublishBlob`, `PublishManifest`, `RecordProvenance` and `RecordEvent` are `Push`; a destination
may fail before or after it has acted. The two reads of `ConnectorFor`, which `PullResolver` parts, are
one step here.

**Credentials.** An envelope records the key, the record id, user and source it was sealed with,
which is what decides whether `Decrypt` succeeds. `Verify`, `FindExisting` and `SaveRow` are
`VerifyAndSave`; `StartProbe` and `ProbeUser` are `handleReady`, one user at a time; `StartRotation`,
`RotateUser` and `RotateCommit` are the command. The command
runs only while the service is stopped, as `docs/BACKUP_KEY_LIFECYCLE.md` tells the operator.

**FailureLimiter.** The surfaces `login` and `token` check, validate and report; `request`
validates, checks and reports. Limits and times are small numbers with the proportions of the code:
the block is longer than the window. Anonymous requests do not reach the limiter and are left out.

**OCITokens.** A bearer carries the number of the process that signed it in place of its HMAC.
`IssueFindUser` and `IssueFindToken`, `RequestFindToken` and `RequestFindUser` are the two reads of
`AuthenticateWithToken` and `ValidateHash`. `Disable` and `Rename` revoke tokens in the same
transaction, as `Accounts` shows in detail.

**LocalCommands.** A command is a process with a program counter; a step is one system call, or a
group of reads, of `ensure` and `EnsureExact` (`internal/tlsidentity`), `ensureCredentialKey` and
the start of the server (`cmd/regstair/main.go`), `runAdminBackup` and `runAdminRestore`
(`backup.go`). A file is absent, created but not fully written, or holds a value; an archive is the
sequence of its entries and whether it was closed. Private keys are numbers, a certificate records
its key, signer, hosts and date. `CommandFails` fails any call, with the cleanup the code does then;
`CommandDies` runs no cleanup. The content root changes (`StoreBlob`, `RecordBlob`) except while a
backup is in progress (`Offline`): no code sees to that, it is the rule
`docs/BACKUP_KEY_LIFECYCLE.md:19` gives the operator, and `ArchivesWhole` holds for backups made by it.

**RequestEvents.** `StartRecord` takes the time; `RecordRetrieval` (the code's `RecordProvenance`)
and `RecordRequestEvent` are the two writes that follow, in steps of their own, so ids and times
need not agree. A window opens the page (`OpenRequests`, the query), gets the number of matches by
a second query (`ShowCount`) and follows the links (`FollowNext`, `FollowPrevious`). `WithinCursor`
and `Listed` are the conditions and order of `QueryRequestEvents`; `NextTrail` is the list of
cursors `requestPageURLs` keeps in the link back.

**RegistryConnector.** A call is the loop of `doAuthenticated`: `send`, perhaps `token`, `exchange`
and `store` (`bearerToken`), and once more `send`. The registry is external and free to challenge
with Basic, Bearer, another scheme or none, to name a foreign token service, to give a token less
than was asked, or one that does not say what it grants, to expire tokens and to withdraw all it has
issued; any request or answer may be lost. It may send an upload on to another host, which
`SameOrigin` refuses, and redirect a request, which is then answered by a host that says what it
likes: Go's client, which is external, leaves the authorization out when the host changes, and a
request that is repeated goes to the URL it was first made for. `MayRetry`, `RealmApproved`,
`SameOrigin`, `Cached`, `Usable` and `Classified` are the decisions of the code. Both resolvers use the
connector's outcomes only.

**ImageCache, ImagePublication.** The abstract modules keep an image in one step and publish it in
one step. `PullResolver.Cache` maps the images that are bound and stored with every object to the
images kept, and a finished request that was answered from the cache to its reply, which the fetch
of a kept image must entitle the requester to (a public one everybody, one with the shared identity
every user, one with a user's credential that user); the store, tag mappings, provenance and program
counters disappear. `PushPath.Publication` maps the store to what is staged, the manifests at a
destination to what is published and the provenance records to what is recorded. `KeepsImages` and
`PublishesImages` say that the detailed specifications implement them.

**RoutePolicy.** A repository is a sequence of components, a pattern a path with or without `/**`.
Names of routes, rewriting and the characters of a repository are left out.

## 3. Runs

| Run | Checks | Bounds |
| --- | --- | --- |
| `pull_isolation` | `ReplayAuthorized`, `ReplayComplete`; implements `ImageCache` (`KeepsImages`) | 2 users and anonymous, 2 repositories and routes, 1 source, 2 requests in flight at once; users, credentials and configurations change between any two steps, the two reads of an authorization included |
| `pull_fallback` | `CacheSound` (`BindingBacked`, `MappingBacked`), `CredentialFailureEndsFallback`, `RequestsAnswered` | 2 sources, public or behind a credential or disabled, 2 pulls in flight of a tag that moves between 2 images with a shared blob; a mapping ends at the next tick of the clock, so that it is found fresh or over, and is written again by a pull that overlaps or follows |
| `accounts` | `AdminRemains`, `DisabledHoldNoTokens`, `IdentityChangeRevokes`, `NoLostUpdate` | 2 users, 3 names, 2 sessions, 2 handlers in flight, 4 requests, a clock that may stand still |
| `push` | `StoreInv` (`StoreSound`, `AcknowledgedStored`), `DestinationComplete`; implements `ImagePublication` (`PublishesImages`) | two workloads: 2 handlers on 2 upload sessions with 2 chunks, 4 requests; and 2 images with a shared blob, 5 requests; restarts in both |
| `credentials_service` | `SecretsInv` (`SealedForRecord`, `StoredPairVerified`), `ReadyStaysTrue`, `RotationRekeysAll` | 2 users, 2 accounts at one registry, 2 keys, 3 ids, 2 starts |
| `limiter` | `FailuresInv` (`OvershootBounded`, `BurstBounded`), `BlockHolds` | 2 handlers of the two surfaces that share a limiter (sign-in has one of its own and the steps of the token endpoint), limit 2, window 2, block 3, clock beyond window plus block |
| `oci_tokens` | `BearersInv` (`AnonymousNeverPushes`, `BearerNamesOwner`), `ServedWasEntitled` | 2 users, 3 names, 2 tokens, 2 bearers, 2 processes; one handler, because handlers meet only in the tables, which change at every step anyway |
| `policy_decisions` | `LowestPrecedenceDecides`, `AuthorityIsLast` | all pairs of routes over 5 patterns, 2 precedences, known and unknown sources |
| `local_commands` | `FilesInv` (`OneIdentity`), `ServesWhatIsKept`, `IssuedForHosts`, `ArchivesWhole`, `RestoresAll`, `NothingOverwritten` | 2 processes at a time, one of which may die; 3 starts or `tls init`s with names of 2 hosts over the life of the authority (certificate 1 year, authority 2), or 4 backups and restores of 2 blobs, 2 archives, 1 root |
| `request_events` | `PagesInv` (`WalkInOrder`, `TotalCoversPage`), `WalkShowsAll`, `TrailLeadsBack`, `DetailNotOlder` | 2 requests recorded at once, 3 events over 4 instants, 1 window, 5 pages of 1 or 2 rows in either order and filtered, a trail of 1 cursor |
| `connector` | `TokensInv` (`TokenFitsRequest`, `CachedIsAlive`), `CredentialsStay`, `RefusalIsReal`, `VerifiedMayPush`, `CallsAnswered` | 2 calls on 1 repository, so 2 scopes; every scheme of challenge, tokens of 1 or 2 ticks with a margin of 1, valid and wrong credentials, approved and foreign token services, uploads sent to another host, redirects |

Each module's `TypeOK` is checked by one of its runs. `policy_decisions` loads routes under
configured sources only; without any (`NewEngine` then asks nothing of a route's sources) the
theorems about `RoutePolicy` hold too. `RotationRekeysAll` is about rotations with the service
stopped, which nothing can change under. `accounts` lets one administrator act on both from two
browsers, and `local_commands` runs two processes at a time; the proofs cover the rest. Two of
everything is enough for the races modelled here: each is between one operation and another that
overtakes it, and the number of requests leaves room to set the scene and to look at the outcome. In
`local_commands` two processes share a file at most pairwise and a third start finds what they left;
in `request_events` three events and pages of one row make a walk of several pages with ties, late
rows and a trail longer than its limit; in `connector` a token can be cached by one call, found by
the other, end and be withdrawn. Deadlock is checked in every run whose configuration does not say
otherwise; the runs with a bound on requests end in states where the environment can still act,
while `local_commands`, `request_events` and `connector` stop when their bounds are used up and the
last command, window or call is finished.

Fairness is assumed in two runs. In `pull_fallback` a request in flight is eventually taken on: the
Go scheduler runs every goroutine, and the HTTP client gives up after 30 seconds
(`internal/registry/http.go:70`), so an upstream that hangs becomes a failure. In `connector` the
same holds for the next step of each call, which may be its failure; that a call ends is then a
matter of the loop of `doAuthenticated`, which a registry that challenges for ever must not keep
going.

## 4. Disagreements between the code and its documents

One run is expected to be violated. It checks the sentence of a test:

* `policy_ambiguity`: `a/b/**` written before `a/**` at one precedence is accepted as unambiguous
  (`internal/policy/policy.go:297`), against `policy_test.go:28` and the error message of
  `policy.go:228`.

Read in the code while modelling, without a run:

* `README.md:180` says that an authorization failure does not advance pull fallback. A 403 of one
  source falls into the last branch of the loop (`internal/resolution/pull.go:159`), and the pull goes
  on to the next source. `UpstreamFails` has the behaviour.
* `docs/UI_UX_DESIGN.md:301` and ADR-0004 say that a password reset revokes sessions immediately.
  `handleLogin` verifies the password (`internal/admin/server.go:668`) and inserts the session in a
  later call (line 675) that checks nothing about the user, so a sign-in with the old password may
  insert its session after the reset. `Login` and `CreateSession` are two steps of `Accounts`.
* `README.md:178` says pulls are attempted anonymously. Once an image is bound through one user's
  credential, `tryCache` (`internal/resolution/pull.go:262`) answers an anonymous pull of it with
  the denial and does not ask the source.
* `README.md:178` says a push uses the user's saved credential. `ConnectorFor`
  (`internal/auth/runtime_credentials.go:67`) gives a user without one the shared anonymous
  connector when the strategy is `challenge`.
* ADR-0004 speaks of 30 minutes idle. `idle_expires_at` is set when the session is made
  (`internal/auth/accounts.go:244`) and use does not extend it.
* `docs/THREAT_MODEL.md:69` puts the limiter's check before validation. `authenticate`
  (`internal/gateway/server.go:248`) validates the bearer first.
* `docs/BACKUP_KEY_LIFECYCLE.md:80` says a changed credential set leaves all ciphertext unchanged.
  The transaction (`internal/metadata/sqlite_security.go:465`) compares ids, which a replacement
  keeps. With the service stopped, as the document asks, `credentials_service` shows that the
  rotation is correct.

Behaviour that no document speaks of, and that the modules have:

* A replay may be granted to a user who is enabled at one moment and has a credential at another:
  `AuthorizeCache` reads the user (`internal/auth/runtime_credentials.go:99`) and then the credential
  (line 106), and saving a credential does not ask whether its user is still enabled. What
  `ReplayAuthorized` says allows for that, and no more.
* A pull by digest takes the digest of the upstream's answer for granted
  (`internal/registry/http.go:143`); it is not compared with the one that was asked for.
* A cached upstream token that the registry refuses is not dropped (`internal/registry/http.go:501`):
  until it ends, every call of its scope fails after one retry. Its end is reckoned from the arrival
  of the answer, less 15 seconds, while a request may take 30; `CachedIsAlive` says when that margin
  is enough.
* An expired server certificate fails the check of `ensure` (`internal/tlsidentity/identity.go:85`),
  so later starts and `tls init` are refused until the files are removed by hand.
* The mapping of a tag is that of the pull that wrote it last, which need not be the one that asked
  the registry last (`internal/resolution/pull.go:429`).
* Bearers that fail name no user and share one key of the limiter (`internal/gateway/server.go:253`);
  once it is blocked, a client with an expired bearer is answered 429 instead of a challenge.
* Upload sessions that are never completed stay in memory (`internal/gateway/server.go:384`).
* The page and the number of matches are two queries (`internal/admin/server.go:1107`);
  `TotalCoversPage` holds because the count comes second and the log only grows.

## 5. Proofs

The theorems hold for all values of the constants that satisfy the named assumptions of the modules
(`PullConstants`, `AccountConstants`, `PushConstants`, `CredentialConstants`, `LimiterConstants`,
`TokenConstants`, `ConnectorConstants` and `ConfigAssumption`, `HostConstants` and `LifeAssumption`,
`PolicyConstants`, and the four of `RequestEvents`, which the lemma `LogConstants` gathers),
and TLC evaluates the assumptions in every run. They say that the constants have their types, that
the values standing for "none" are told from the others, that a few sets are finite, and the
following about the program: a block of the limiter is no shorter than its window (15 and 5 minutes in
`internal/app/app.go:109`), and a server certificate lives less long than its authority (1 and 10
years in `internal/tlsidentity/identity.go`). The bounds on clocks, requests and commands are
constants too, so a theorem holds for whatever bound is chosen.

Each proof has the same shape: an inductive invariant, one lemma for each action that it survives
that action, and the properties drawn from it. None of the properties below is inductive by itself;
what had to be added is said with each. Properties of steps follow from the invariant and the action
in the same way.

`PullResolverProofs`:

* `TypeCorrect` rests on `TypeInv`, which adds to `TypeOK` that a request in contact with a source
  has a valid index into the candidates and that only tag pulls touch mappings.
* `CacheConsistent` (`CacheSound`, which is `BindingBacked` and `MappingBacked`): a step that
  records a binding or a mapping relies on earlier steps of the same request. `Progress(p)` says
  what request p has made durable at each label; since the store, the bindings and the provenance
  only grow, no other request can take it back (`OthersKeep`).
* `ReplayIsAuthorized` (`ReplayAuthorized`). The histories `seen` and `live` say whether the requester
  has been enabled, and what credentials it held then or later, at any moment since its bindings were
  listed, so that what was withdrawn before does not count. `ReplayInv` ties every binding to the
  fetch it was recorded for and every request that is caching to its own fetch; `ScanKnown` says
  that a request that tries bindings has the present among its histories, that what it has still to
  try was recorded, and that one on its way to the credential has been seen enabled; `ServeJustified`
  is the property from the moment of the grant on.
* `ReplayIsComplete` follows from `BindingBacked`: a grant for a manifest is a grant for each of
  its blobs, because the access and user of a binding are those of the image.
* `ImplementsImageCache` (`KeepsImages`). A fetch, a binding transaction and a reply map to the three
  actions of `ImageCache`, all else to stuttering. That only whole images count as kept costs
  nothing, as `BindingBacked` makes every binding whole (`AllWhole`). The reply comes a step after its
  grant, when credentials may have changed: `GrantKept` says that the image that entitled the
  requester is still there.
* `CredentialFailuresAreFinal` (`CredentialFailureEndsFallback`): `Unanswered` adds that a request in
  progress has no answer yet.

The same module proves what surrounds a pull: the policy that decides its candidates and the log it
writes to. It extends `RoutePolicy` and `RequestEvents` next to `PullResolver`, which is why those two
call their specifications `PolicySpec` and `LogSpec` and their type invariants `PolicyTypeOK` and
`LogTypeOK`; the three specifications share no variable, and a proof about one of them cites only
its own assumptions.

* `PolicyTypes`, `LowestPrecedence` (`LowestPrecedenceDecides`) and `AuthorityEndsCandidates`
  (`AuthorityIsLast`), with configured sources or without: what they say of the sources of a route
  is said where there are some. `PolicyInv` says that the engine is the ordered configuration and
  that the last decision is the answer of the first match (`Answered`). `SortExists`, the lemma
  below everything ordered here, says that a finite set with a strict total order is the range of a
  sorted sequence: it counts the elements below each, so no induction is needed. `OrderedRoutes`
  draws from it that the ordering keeps every route and ascends in precedence, so the first match
  has the lowest.
* `DetailsNotOlder` (`DetailNotOlder`). `ProvenanceFirst` says that an event of a miss, written or about
  to be, has its own record of provenance; the latest of them is no older.
* `PagesAgree` (`PagesInv`), `WalkComplete` (`WalkShowsAll`) and `TrailRetraces` (`TrailLeadsBack`)
  come from `WindowsInv`. `SelectedList` and `PageOfListing` say that a query lists all that matches
  beyond the cursor, and that what a page cuts off comes after its next cursor. `OnwardInv`: every
  event that was present when a walk began and still matches has been shown or comes after the
  cursor. It survives the next page because the start of a relative window only moves forward, so
  what matches later matched before (`OnwardGrows`), and what the log gains meanwhile because rows
  never change (`WindowStays`). `CountInv` is the case where the count, made later, sees at least
  the events of the page and the one that says there are more. `TrailInv`: the trail is the end of
  the path, and the path begins with the first page.

`AccountsProofs`:

* `AccountsTypeCorrect` rests on `TypeInv`: what a handler read is a version of the row, present or
  older (`Version`), and modification times identify versions.
* `UpdatesAreNotLost`: `nextUpdatedAt` makes times strictly increase (`NextIsLater`, `RowsGrow`),
  so an equal time means an equal row.
* `AnAdminRemains`: an accepted update judged the row it replaces (`CommitRow`), and the count in
  the transaction includes another administrator.
* `IdentityChangesRevoke`, `DisabledUsersHoldNoTokens`: a step opens a session or token for the
  user it acts for under the present epoch, or ends it (`SessionMoves`, `TokenMoves`).

`PushPathProofs`:

* `StoreIsSound` (`StoreInv`) and `PublishedImagesAreComplete` (`DestinationComplete`) come from one
  invariant, `PushInv`. `RequestInv` says which operation a label belongs to and that its upload
  session is there; `StagedInv` says what a push has put into the store and sent to its
  destination by the time it has reached blob `turn` of its list. The store and the destinations
  only grow, so a racing push, a restart or an answer lost takes nothing away. Bytes that raced
  need no clause: `PutBlob` hashes what it has copied, and
  renames only if that is the digest asked for.
* `ImplementsImagePublication` (`PublishesImages`): a finished file maps to staging, an accepted
  manifest to publication, whether its answer was lost or not, and the provenance record to
  recording.

`CredentialsProofs`:

* `SecretsAreSound` (`SecretsInv`). `RecordsInv` adds what a save in progress has had verified
  (`RequestInv`), that an id belongs to one place, the chosen but unwritten ids of saves
  included (`IdsInv`), and that a rotation holds the rows that are at rest (`RotationInv`).
* `RotationsRekeyAll` (`RotationRekeysAll`) is the same invariant at the commit: no request is in
  progress, the ids are those that were read, and each envelope opened with the old key.
* `ReadinessIsLasting` (`ReadyStaysTrue`). `ProbeInv`: while a probe runs, every user it is done with
  passes, and goes on to, since what is saved meanwhile is sealed with the key of the process.

`FailureLimiterProofs`:

* `BlocksHold` (`BlockHolds`). `EntryInv` adds that the block of a full window lasts at least
  `BlockFor` from its start, so that neither cleanup nor a new window opens it early.
* `OvershootIsBounded`. `OvershootInv`: in a full window, failures and handlers that may yet report
  (`Pending`) never exceed limit plus handlers less one; a handler passes from one number to the
  other.
* `FailuresAreBounded` (`FailuresInv`, with `BurstBounded`). `BurstInv` splits the recent failures
  of a key at the start of its window (`Before`, `After`): each part is below the limit, or covered by
  a block that has outlasted it.

`OCITokensProofs`:

* `BearersAreSound` (`BearersInv`): `BearersKept` adds that the token of a bearer is its user's.
* `RevocationIsImmediate` (`ServedWasEntitled`). The two reads may see different moments. `CallInv`:
  a request that was not entitled when it began holds a token that is already revoked or over, which
  lasts (`Spent`), and `DisabledAreRevoked` extends this to users who were disabled and enabled again.

`RegistryConnectorProofs`: `ConnectorInv` says `Good(call)` of each call and `CacheInv` of the cache.

* `TokensAreSound` (`TokensInv`) and `VerificationsAreSound` (`VerifiedMayPush`): a token at hand or in
  the cache is for the scope it is kept under, and one that grants a push was given to valid credentials
  (`Sound`).
* `CredentialsAreKept` (`CredentialsStay`): wherever a call stands, it asks the registry and has been
  seen by the registry and approved token services at most.
* `RefusalsAreReal` (`RefusalIsReal`): a request that is repeated carries what its challenge asked
  for (`Repeated`), so a refusal of somebody entitled is a refusal of a token, and `RefusedRightly`
  says that the token has ended or been withdrawn. Calls go on while time passes and keys change:
  `TokensAge` and `GoodAges` say that what was sound stays so and what had ended stays ended.

`LocalCommandsProofs`: `HostInv` has four parts, and each theorem uses some of them.

* `HostTypes`: types, which operation a label belongs to, and that the database of the root in
  service names stored blobs only.
* `LocalInv`, for `FilesAreSound` (`FilesInv`), `ServersServeWhatIsKept` (`ServesWhatIsKept`) and
  `CertificatesAreIssuedForHosts` (`IssuedForHosts`). The four files of the identity appear in
  their order (`IdentityInv`), and exclusive creation of the first lets one command make the rest
  (`MakingInv`, `Making`); a command past its look at them found them whole, and they
  stay (`SettledInv`); likewise for the credential key (`KeyInv`).
* `ArchivesInv`, for `ArchivesAreWhole` (`ArchivesWhole`): an archive that is not closed belongs to
  one backup and holds that much of the contents, or was left by a death. What it
  must hold when it is closed is then a matter of `Contents`: every blob stored is an entry, and the
  database names no other.
* `RestoresInv`, for `RestoresAreComplete` (`RestoresAll`). A restore may open an archive that is
  still being written: what it reads only grows, and it can reach the end only of a closed one. What it
  has restored is in place, and two restores never copy to one target.
* `FilesAreKept` (`NothingOverwritten`) follows from `HostInv` and the step: a path that is written
  to was created by the command that writes.

Only model-checked: liveness (`RequestsAnswered`, `CallsAnswered`), which is out of the prover's
reach. Every invariant and every property of steps that a run checks is stated by a theorem.
The order of routes and of listings is defined as a sorted arrangement (`CHOOSE` among the
functions or sequences that `IsSorted` holds of) rather than as a sorting algorithm: `sort.SliceStable`
and SQLite are taken at their word, and that such an arrangement exists is proved.

## 6. Not modelled

* In modelled components: certificates that the operator supplies, discovery of addresses, symbolic
  links, the temporary file that a death may leave behind, an `os.Remove` of an unfinished archive
  that itself fails (`cmd/regstair/backup.go:54`), and host names that are wildcards or differ in
  case only (`LocalCommands`): `Covers` takes `VerifyHostname` for membership, and with either of
  these the check of `internal/tlsidentity/identity.go:88`, that every host is covered and that
  there are as many names as hosts, would not imply that the names are the hosts, as
  `IssuedForHosts` says; rotations against a service that is running, and the check in the loop of a
  rotation that what was sealed again opens with the new key alone (`cmd/regstair/main.go:227`)
  (`Credentials`); summaries and percentiles (`RequestEvents`); what other hosts do with a request
  that is redirected, content types, `Health` and the in-memory connector of the demo
  (`RegistryConnector`); namespace rewriting and names of routes (`RoutePolicy`); inventories and
  the migration of old databases.
* The audit log: its rows are inserted in the transaction of the change they record, and the page
  that lists them only reads.
* Password hashing and safe errors, which are pure functions; the in-memory repository of the tests,
  the other admin pages, the frontend and the scripts, which keep no state of the service.

## 7. Plan

1. Extend: a composition of pull and push that says what a client sees after its own push; rewriting
   in `RoutePolicy`; wildcard host names in `LocalCommands`.
2. Prove: what the extensions of item 1 add.
