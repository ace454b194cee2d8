------------------------------ MODULE PushPath ------------------------------
(***************************************************************************)
(* The push path: the blob upload sessions of internal/gateway/server.go,  *)
(* the content store's PutBlob, and the push resolver of                   *)
(* internal/resolution/push.go, which publishes a staged image to the      *)
(* destination the route names.                                            *)
(*                                                                         *)
(* A request is a goroutine; one action is one step the others can see.    *)
(* The sessions live in memory and their bodies are not locked: requests   *)
(* that append to one body at the same time race, and a race may leave any *)
(* bytes.  Destination registries are external; an answer of theirs may be *)
(* lost after they have acted.                                             *)
(***************************************************************************)
EXTENDS Naturals, Sequences, FiniteSets

CONSTANTS
    Requests,     \* request slots: goroutines that may be in flight together
    Users,        \* local users
    Anonymous,    \* the principal without an account (gateway without authenticator)
    Repos,        \* logical repositories
    Physical,     \* repositories at the destinations
    Sources,      \* upstream registries
    Denied,       \* the destination of a route that denies pushes
    Tags,         \* references manifests are pushed under
    Bodies,       \* what an upload body may hold: sequences of chunks
    Chunks,       \* what one request body holds
    Manifests,    \* manifests, with their digests
    BlobsOf,      \* the blob digests a manifest lists, in order
    Keys, NoKey,  \* credential encryption keys; no key, no credential
    Workloads,    \* the configuration files the service may be started with, the
                  \*   requests clients then make, and how many of them (bound)
    NoUpload,     \* the absent upload session
    MaxUploads    \* bound: upload sessions of a process

\* sha256 does not collide: the digest of some bytes stands for those bytes.
Hash(bytes) == bytes
Digests == Bodies \cup Manifests

Principals == Users \cup {Anonymous}
Access     == {"challenge", "proxy", "current_user_required"}
UploadOps  == {"start", "patch", "put"}

\* A client request: start an upload, append to one, complete one under a
\* claimed digest, or push a manifest.
Ask == [op : UploadOps \cup {"push"}, who : Principals, repo : Repos, id : 1..MaxUploads,
        chunk : Chunks, digest : Digests, manifest : Manifests, tag : Tags]

\* open: the session is still in the uploads map.
Session   == [repo : Repos, body : Bodies, open : BOOLEAN]
File      == [digest : Digests, body : Digests]
Published == [dest : Sources, repo : Physical, tag : Tags, manifest : Manifests,
              via : {"anonymous", "proxy", "current_user"}]

ASSUME PushConstants ==
    /\ Anonymous \notin Users /\ NoKey \notin Keys /\ Denied \notin Sources
    /\ <<>> \in Bodies /\ Bodies \cap Manifests = {}
    /\ NoUpload \notin Session
    /\ BlobsOf \in [Manifests -> Seq(Bodies)]
    /\ \A w \in Workloads :
          /\ \A c \in w.configs :
                /\ c.dest \in [Repos -> Sources \cup {Denied}]
                /\ c.physical \in [Repos -> Physical]
                /\ c.enabled \in SUBSET Sources
                /\ c.strategy \in [Sources -> Access]
                /\ c.key \in Keys \cup {NoKey}
          /\ w.asks \subseteq Ask
          /\ w.configs # {} /\ w.asks # {} /\ w.requests \in Nat
    /\ MaxUploads \in Nat

VARIABLES
    workload,     \* what is configured and asked for in this behaviour
    config,       \* the configuration the process was started with
    enabledUsers, \* users with Enabled = true
    creds,        \* the key each saved registry credential is sealed with
    uploads,      \* upload sessions, by id
    nextID,       \* the last upload id given out
    files,        \* content store: finished files
    destBlobs,    \* blobs at the destinations
    destManifests,\* manifests at the destinations, with the identity that put them
    provenance,   \* provenance records
    started,      \* requests begun so far (bound)
    pc,           \* where each request stands
    ask,          \* what each request asks for
    raced,        \* whether the request's use of the body overlapped another's append
    held,         \* the bytes given to PutBlob, and then its temporary file
    turn,         \* index of the blob to publish
    via,          \* credential source of the selected connector
    answer        \* how the request was answered

external == <<destBlobs, destManifests>>
people   == <<enabledUsers, creds>>
memory   == <<uploads, nextID>>
local    == <<ask, raced, held, turn, via>>
setting == <<workload, config>>
vars == <<setting, enabledUsers, creds, uploads, nextID, files, destBlobs, destManifests,
          provenance, started, pc, ask, raced, held, turn, via, answer>>

-----------------------------------------------------------------------------
HasFile(d) == \E f \in files : f.digest = d
Active(p)  == pc[p] \notin {"idle", "done"}
Dest(p)    == config.dest[ask[p].repo]
BlobList(p) == BlobsOf[ask[p].manifest]

\* Mutant: the rewrite of the route is forgotten.
TargetUnwritten(p) == ask[p].repo

\* Rewrite.Apply: the repository at the destination.
Target(p) == config.physical[ask[p].repo]

Goto(p, label) == pc' = [pc EXCEPT ![p] = label] /\ UNCHANGED answer
Finish(p, a)   == pc' = [pc EXCEPT ![p] = "done"] /\ answer' = [answer EXCEPT ![p] = a]

\* RuntimeCredentialSelector.ConnectorFor for a push, and the shared connector
\* of an enabled source when no credential key is configured.
ConnectorFor(who, s) ==
    CASE s \notin config.enabled -> "unavailable"
      [] s \in config.enabled /\ config.key = NoKey -> "anonymous"
      [] s \in config.enabled /\ config.key # NoKey ->
            IF who \notin enabledUsers THEN "authorization"
            ELSE IF config.strategy[s] = "proxy" THEN "proxy"
            ELSE IF creds[who][s] = NoKey
                 THEN IF config.strategy[s] = "challenge" THEN "anonymous"
                                                          ELSE "credential_required"
            ELSE IF creds[who][s] = config.key THEN "current_user"
            ELSE "credential_unavailable"
Connected == {"anonymous", "proxy", "current_user"}

\* The gateway has authenticated the principal: a local user is enabled now.
StartRequest(p, a) ==
    /\ ~Active(p)
    /\ started < workload.requests
    /\ a.who \in enabledUsers \cup {Anonymous}
    /\ started' = started + 1
    /\ ask'    = [ask EXCEPT ![p] = a]
    /\ raced'  = [raced EXCEPT ![p] = FALSE]
    /\ turn'   = [turn EXCEPT ![p] = 1]
    /\ pc'     = [pc EXCEPT ![p] = a.op]
    /\ answer' = [answer EXCEPT ![p] = "none"]
    /\ UNCHANGED <<setting, people, memory, files, external, provenance, held, via>>

-----------------------------------------------------------------------------
(* Upload sessions *)

\* handleStartUpload.
StartUpload(p) ==
    /\ pc[p] = "start"
    /\ nextID < MaxUploads
    /\ nextID'  = nextID + 1
    /\ uploads' = [uploads EXCEPT ![nextID + 1] = [repo |-> ask[p].repo, body |-> <<>>, open |-> TRUE]]
    /\ Finish(p, "accepted")
    /\ UNCHANGED <<setting, people, files, external, provenance, started, local>>

\* The requests that are appending to the body of the session p names, or are
\* about to take its bytes.
Using(p) ==
    {q \in Requests \ {p} : /\ pc[q] \in {"append", "exists"}
                           /\ ask[q].op # "push" /\ ask[q].id = ask[p].id}

\* handleUpload finds the session, and io.Copy starts to append to its body.
\* From here on the request holds the session, whatever happens to the map.
OpenUpload(p) ==
    LET u == uploads[ask[p].id]
        found == u # NoUpload /\ u.open /\ u.repo = ask[p].repo
    IN  /\ pc[p] \in {"patch", "put"}
        /\ \/ ~found /\ Finish(p, "not_found") /\ UNCHANGED raced
           \/ /\ found
              /\ raced' = [q \in Requests |-> \/ raced[q]
                                              \/ q \in Using(p)
                                              \/ q = p /\ Using(p) # {}]
              /\ Goto(p, "append")
        /\ UNCHANGED <<setting, people, memory, files, external, provenance, started, ask, held,
                       turn, via>>

\* What the append leaves in the body: the chunk at its end, or anything when
\* another append ran into it.
Appended(p) ==
    IF raced[p] THEN Bodies ELSE {b \in Bodies : b = Append(uploads[ask[p].id].body, ask[p].chunk)}

\* io.Copy ends.  A PATCH answers; a PUT goes on to PutBlob.
AppendBody(p) ==
    /\ pc[p] = "append"
    /\ \E b \in Appended(p) : uploads' = [uploads EXCEPT ![ask[p].id].body = b]
    /\ \/ ask[p].op = "patch" /\ Finish(p, "accepted")
       \/ ask[p].op = "put" /\ Goto(p, "exists")
    /\ UNCHANGED <<setting, people, nextID, files, external, provenance, started, local>>

\* The client's body breaks off: what was read of it stays in the session.
AppendFails(p) ==
    /\ pc[p] = "append"
    /\ \/ UNCHANGED uploads
       \/ \E b \in Appended(p) : uploads' = [uploads EXCEPT ![ask[p].id].body = b]
    /\ Finish(p, "bad_request")
    /\ UNCHANGED <<setting, people, nextID, files, external, provenance, started, local>>

-----------------------------------------------------------------------------
(* PutBlob, for an upload and for the manifest of a push *)

Claimed(p) == IF ask[p].op = "put" THEN ask[p].digest ELSE ask[p].manifest

\* The bytes to store: the body of the session as it is now, or the manifest.
Payload(p) == IF ask[p].op = "put" THEN uploads[ask[p].id].body ELSE ask[p].manifest

\* A finished file under the digest ends PutBlob at once, the bytes unread.
BlobExists(p) ==
    /\ pc[p] = "exists"
    /\ \E b \in IF raced[p] THEN Bodies ELSE {Payload(p)} : held' = [held EXCEPT ![p] = b]
    /\ Goto(p, IF ~HasFile(Claimed(p)) THEN "copy"
               ELSE IF ask[p].op = "put" THEN "delete" ELSE "publish")
    /\ UNCHANGED <<setting, people, memory, files, external, provenance, started, ask, raced,
                   turn, via>>

\* Into the temporary file, through the hash.  An append that raced with this
\* request may still be writing into the bytes being copied.
CopyBlob(p) ==
    /\ pc[p] = "copy"
    /\ \E b \in IF raced[p] THEN Bodies ELSE {held[p]} : held' = [held EXCEPT ![p] = b]
    /\ Goto(p, "rename")
    /\ UNCHANGED <<setting, people, memory, files, external, provenance, started, ask, raced,
                   turn, via>>

\* Mutant: the file is published without looking at the hash.
RenameUnverified(p) ==
    /\ pc[p] = "rename"
    /\ files' = files \cup {[digest |-> Claimed(p), body |-> held[p]]}
    /\ Goto(p, IF ask[p].op = "put" THEN "delete" ELSE "publish")
    /\ UNCHANGED <<setting, people, memory, external, provenance, started, local>>

\* Mutant: the file is published under the digest it turned out to have.
RenameToActual(p) ==
    /\ pc[p] = "rename"
    /\ files' = files \cup {[digest |-> Hash(held[p]), body |-> held[p]]}
    /\ Goto(p, IF ask[p].op = "put" THEN "delete" ELSE "publish")
    /\ UNCHANGED <<setting, people, memory, external, provenance, started, local>>

\* The hash decides; the rename publishes.  A rename over a file that appeared
\* meanwhile replaces it.
RenameBlob(p) ==
    /\ pc[p] = "rename"
    /\ \/ /\ Hash(held[p]) # Claimed(p)
          /\ Finish(p, "bad_request")
          /\ UNCHANGED files
       \/ /\ Hash(held[p]) = Claimed(p)
          /\ files' = {f \in files : f.digest # Claimed(p)} \cup
                      {[digest |-> Claimed(p), body |-> held[p]]}
          /\ Goto(p, IF ask[p].op = "put" THEN "delete" ELSE "publish")
    /\ UNCHANGED <<setting, people, memory, external, provenance, started, local>>

\* The disk or the client's context fails; the temporary file is removed.
PutBlobFails(p) ==
    /\ pc[p] \in {"exists", "copy", "rename"}
    /\ Finish(p, "error")
    /\ UNCHANGED <<setting, people, memory, files, external, provenance, started, local>>

DeleteUpload(p) ==
    /\ pc[p] = "delete"
    /\ uploads' = [uploads EXCEPT ![ask[p].id].open = FALSE]
    /\ Finish(p, "created")
    /\ UNCHANGED <<setting, people, nextID, files, external, provenance, started, local>>

-----------------------------------------------------------------------------
(* The push resolver *)

\* Policy and authorization, then the connector; a refusal is recorded and
\* returned.
SelectDestination(p) ==
    /\ pc[p] = "push"
    /\ \/ /\ Dest(p) = Denied \/ ask[p].who = Anonymous
          /\ Finish(p, "denied")
          /\ UNCHANGED via
       \/ /\ Dest(p) # Denied /\ ask[p].who # Anonymous
          /\ ConnectorFor(ask[p].who, Dest(p)) \notin Connected
          /\ Finish(p, "refused")
          /\ UNCHANGED via
       \/ /\ Dest(p) # Denied /\ ask[p].who # Anonymous
          /\ ConnectorFor(ask[p].who, Dest(p)) \in Connected
          /\ via'  = [via EXCEPT ![p] = ConnectorFor(ask[p].who, Dest(p))]
          /\ Goto(p, "exists")
    /\ UNCHANGED <<setting, people, memory, files, external, provenance, started, ask, raced, held,
                   turn>>

\* Mutant: a blob that is not staged is taken to be at the destination.
PublishStagedOnly(p) ==
    LET d == BlobList(p)[turn[p]] IN
    /\ pc[p] = "publish"
    /\ turn[p] <= Len(BlobList(p))
    /\ destBlobs' = IF HasFile(d)
                    THEN destBlobs \cup {[dest |-> Dest(p), repo |-> Target(p), digest |-> d]}
                    ELSE destBlobs
    /\ turn' = [turn EXCEPT ![p] = @ + 1]
    /\ Goto(p, "publish")
    /\ UNCHANGED <<setting, people, memory, files, destManifests, provenance, started, ask, raced,
                   held, via>>

\* publishBlob: the staged file, hashed once more by the connector, goes to
\* the destination.
PublishBlob(p) ==
    LET d == BlobList(p)[turn[p]] IN
    /\ pc[p] = "publish"
    /\ turn[p] <= Len(BlobList(p))
    /\ \/ /\ ~HasFile(d)
          /\ Finish(p, "blob_missing")
          /\ UNCHANGED <<destBlobs, turn>>
       \/ /\ \E f \in files : f.digest = d /\ Hash(f.body) = d
          /\ destBlobs' = destBlobs \cup {[dest |-> Dest(p), repo |-> Target(p), digest |-> d]}
          /\ turn' = [turn EXCEPT ![p] = @ + 1]
          /\ Goto(p, "publish")
    /\ UNCHANGED <<setting, people, memory, files, destManifests, provenance, started, ask, raced,
                   held, via>>

\* PutManifest, after the last blob.
PublishManifest(p) ==
    /\ pc[p] = "publish"
    /\ turn[p] > Len(BlobList(p))
    /\ destManifests' = destManifests \cup
          {[dest |-> Dest(p), repo |-> Target(p), tag |-> ask[p].tag,
            manifest |-> ask[p].manifest, via |-> via[p]]}
    /\ Goto(p, "provenance")
    /\ UNCHANGED <<setting, people, memory, files, destBlobs, provenance, started, local>>

\* Mutant: the failure of the destination is not noticed.
PublishUnchecked(p) ==
    /\ pc[p] = "publish"
    /\ Goto(p, "provenance")
    /\ UNCHANGED <<setting, people, memory, files, external, provenance, started, local>>

\* The destination rejects the request, is unavailable, or its answer is lost
\* after it has stored the blob or the manifest.
PublishFails(p) ==
    /\ pc[p] = "publish"
    /\ \/ UNCHANGED external
       \/ /\ turn[p] <= Len(BlobList(p)) /\ HasFile(BlobList(p)[turn[p]])
          /\ destBlobs' = destBlobs \cup {[dest |-> Dest(p), repo |-> Target(p),
                                           digest |-> BlobList(p)[turn[p]]]}
          /\ UNCHANGED destManifests
       \/ /\ turn[p] > Len(BlobList(p))
          /\ destManifests' = destManifests \cup
                {[dest |-> Dest(p), repo |-> Target(p), tag |-> ask[p].tag,
                  manifest |-> ask[p].manifest, via |-> via[p]]}
          /\ UNCHANGED destBlobs
    /\ Finish(p, "failed")
    /\ UNCHANGED <<setting, people, memory, files, provenance, started, local>>

\* recordSuccessfulPush: provenance, then the request event.
RecordProvenance(p) ==
    /\ pc[p] = "provenance"
    /\ provenance' = provenance \cup
          {[repo |-> ask[p].repo, tag |-> ask[p].tag, manifest |-> ask[p].manifest,
            dest |-> Dest(p), physical |-> Target(p)]}
    /\ Goto(p, "event")
    /\ UNCHANGED <<setting, people, memory, files, external, started, local>>

RecordEvent(p) ==
    /\ pc[p] = "event"
    /\ Finish(p, "created")
    /\ UNCHANGED <<setting, people, memory, files, external, provenance, started, local>>

\* The repository fails: the client is told of an error, the image is published.
RecordFails(p) ==
    /\ pc[p] \in {"provenance", "event"}
    /\ Finish(p, "error")
    /\ UNCHANGED <<setting, people, memory, files, external, provenance, started, local>>

-----------------------------------------------------------------------------
(* Administrators and restarts *)

DisableUser(u) ==
    /\ u \in enabledUsers
    /\ enabledUsers' = enabledUsers \ {u}
    /\ UNCHANGED <<setting, creds, memory, files, external, provenance, started, pc, local, answer>>

SaveCredential(u, s) ==
    /\ config.key # NoKey /\ s \in config.enabled
    /\ creds[u][s] # config.key
    /\ creds' = [creds EXCEPT ![u][s] = config.key]
    /\ UNCHANGED <<setting, enabledUsers, memory, files, external, provenance, started, pc, local,
                   answer>>

\* A crash or restart: the sessions are gone and the ids start again.
Restart(c) ==
    /\ config' = c
    /\ uploads' = [i \in 1..MaxUploads |-> NoUpload]
    /\ nextID' = 0
    /\ pc'     = [p \in Requests |-> "idle"]
    /\ answer' = [p \in Requests |-> "none"]
    /\ UNCHANGED <<workload, people, files, external, provenance, started, local>>

Init ==
    /\ workload \in Workloads
    /\ config \in workload.configs
    /\ enabledUsers = Users
    /\ creds = [u \in Users |-> [s \in Sources |-> NoKey]]
    /\ uploads = [i \in 1..MaxUploads |-> NoUpload]
    /\ nextID = 0 /\ started = 0
    /\ files = {} /\ destBlobs = {} /\ destManifests = {} /\ provenance = {}
    /\ pc = [p \in Requests |-> "idle"]
    /\ ask = [p \in Requests |-> CHOOSE a \in workload.asks : TRUE]
    /\ raced = [p \in Requests |-> FALSE]
    /\ held = [p \in Requests |-> <<>>]
    /\ turn = [p \in Requests |-> 1]
    /\ via = [p \in Requests |-> "anonymous"]
    /\ answer = [p \in Requests |-> "none"]

Step(p) ==
    \/ StartUpload(p) \/ OpenUpload(p) \/ AppendBody(p) \/ AppendFails(p)
    \/ BlobExists(p) \/ CopyBlob(p) \/ RenameBlob(p) \/ PutBlobFails(p) \/ DeleteUpload(p)
    \/ SelectDestination(p) \/ PublishBlob(p) \/ PublishManifest(p) \/ PublishFails(p)
    \/ RecordProvenance(p) \/ RecordEvent(p) \/ RecordFails(p)

Next ==
    \/ \E p \in Requests : Step(p) \/ \E a \in workload.asks : StartRequest(p, a)
    \/ \E u \in Users : DisableUser(u) \/ \E s \in Sources : SaveCredential(u, s)
    \/ \E c \in workload.configs : Restart(c)

Spec == Init /\ [][Next]_vars

-----------------------------------------------------------------------------
(* Properties *)

Labels == UploadOps \cup {"idle", "done", "append", "exists", "copy", "rename", "delete",
                          "push", "publish", "provenance", "event"}
Answers == {"none", "accepted", "created", "not_found", "bad_request", "error", "denied",
            "refused", "blob_missing", "failed"}

\* The type invariant of the push path.
TypeOK ==
    /\ workload \in Workloads /\ config \in workload.configs
    /\ enabledUsers \subseteq Users
    /\ creds \in [Users -> [Sources -> Keys \cup {NoKey}]]
    /\ uploads \in [1..MaxUploads -> Session \cup {NoUpload}]
    /\ nextID \in 0..MaxUploads /\ started \in Nat
    /\ files \subseteq File
    /\ destBlobs \subseteq [dest : Sources, repo : Physical, digest : Bodies]
    /\ destManifests \subseteq Published
    /\ provenance \subseteq [repo : Repos, tag : Tags, manifest : Manifests, dest : Sources,
                             physical : Physical]
    /\ pc \in [Requests -> Labels]
    /\ ask \in [Requests -> workload.asks]
    /\ raced \in [Requests -> BOOLEAN]
    /\ held \in [Requests -> Digests]
    /\ turn \in [Requests -> Nat \ {0}]
    /\ via \in [Requests -> Connected]
    /\ answer \in [Requests -> Answers]

\* PutBlob: however appends, uploads and crashes fall together, a finished file
\* holds the bytes its digest names, and there is one file to a digest.
StoreSound ==
    \A f \in files : Hash(f.body) = f.digest /\ \A g \in files : g.digest = f.digest => g = f

\* Push publishes every blob before the manifest: a manifest at a destination,
\* however its push ended, has all its blobs there.
DestinationComplete ==
    \A m \in destManifests : \A i \in 1..Len(BlobsOf[m.manifest]) :
        [dest |-> m.dest, repo |-> m.repo, digest |-> BlobsOf[m.manifest][i]] \in destBlobs

\* An upload answered with 201 is in the store under the digest the client
\* claimed, and stays there.
AcknowledgedStored ==
    \A p \in Requests :
        ask[p].op = "put" /\ pc[p] = "done" /\ answer[p] = "created" => HasFile(ask[p].digest)

\* What the store holds is typed, sound and all that was acknowledged, whatever
\* uploads overlap and wherever the process stops (handleUpload, PutBlob).
StoreInv == TypeOK /\ StoreSound /\ AcknowledgedStored

\* ImagePublication: whatever uploads, lost answers, restarts and concurrent
\* pushes do, an image is at a destination only when all its digests were staged
\* before, and provenance is recorded only of images that are at a destination.
Image(dest, repo, tag, m) == [at |-> <<dest, repo, tag>>, manifest |-> m]
Publication == INSTANCE ImagePublication WITH
    Needs     <- LAMBDA m : {m} \cup {BlobsOf[m][i] : i \in 1..Len(BlobsOf[m])},
    staged    <- {f.digest : f \in files},
    published <- {Image(d.dest, d.repo, d.tag, d.manifest) : d \in destManifests},
    recorded  <- {Image(r.dest, r.physical, r.tag, r.manifest) : r \in provenance}
PublishesImages == Publication!Spec

=============================================================================
