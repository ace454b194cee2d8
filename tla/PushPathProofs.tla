--------------------------- MODULE PushPathProofs ---------------------------
(***************************************************************************)
(* Proofs about PushPath, for every set of clients, sessions, contents and *)
(* destinations, and any number of requests in flight.                     *)
(***************************************************************************)
EXTENDS PushPath, TLAPS

\* What a request is entitled to assume at each label: which operation it
\* carries out, that its session exists, that its destination is not denied.
Storing    == {"exists", "copy", "rename"}
Publishing == {"publish", "provenance", "event"}

RequestInv(p) ==
    /\ pc[p] \in UploadOps \cup {"push"} => ask[p].op = pc[p]
    /\ pc[p] = "append" => ask[p].op \in {"patch", "put"}
    /\ pc[p] \in Storing => ask[p].op \in {"put", "push"}
    /\ pc[p] = "delete" => ask[p].op = "put"
    /\ pc[p] \in Publishing => ask[p].op = "push"
    /\ pc[p] \in {"append", "delete"} \cup Storing /\ ask[p].op # "push" =>
          uploads[ask[p].id] # NoUpload
    /\ pc[p] \in Storing \cup Publishing /\ ask[p].op = "push" => Dest(p) # Denied

TypeInv == TypeOK /\ \A p \in Requests : RequestInv(p)

\* What the parts of the configuration in force and of a request are.
LEMMA ConfigTypes ==
    ASSUME TypeOK
    PROVE  /\ workload.asks \subseteq Ask
           /\ \A c \in workload.configs :
                 /\ c.dest \in [Repos -> Sources \cup {Denied}]
                 /\ c.physical \in [Repos -> Physical]
                 /\ c.key \in Keys \cup {NoKey}
           /\ \A p \in Requests :
                 /\ ask[p] \in workload.asks /\ ask[p] \in Ask
                 /\ ask[p].repo \in Repos /\ ask[p].id \in 1..MaxUploads
                 /\ ask[p].chunk \in Chunks /\ ask[p].digest \in Digests
                 /\ ask[p].manifest \in Manifests /\ ask[p].tag \in Tags
                 /\ ask[p].op \in UploadOps \cup {"push"}
                 /\ Dest(p) \in Sources \cup {Denied} /\ Target(p) \in Physical
                 /\ BlobList(p) \in Seq(Bodies)
  <1>1. workload \in Workloads /\ config \in workload.configs /\ ask \in [Requests -> workload.asks]
    BY DEF TypeOK
  <1>2. workload.asks \subseteq Ask
    BY <1>1, PushConstants
  <1>3. \A c \in workload.configs :
           /\ c.dest \in [Repos -> Sources \cup {Denied}]
           /\ c.physical \in [Repos -> Physical]
           /\ c.key \in Keys \cup {NoKey}
    BY <1>1, PushConstants
  <1>4. ASSUME NEW p \in Requests
        PROVE  /\ ask[p] \in workload.asks /\ ask[p] \in Ask
               /\ ask[p].repo \in Repos /\ ask[p].id \in 1..MaxUploads
               /\ ask[p].chunk \in Chunks /\ ask[p].digest \in Digests
               /\ ask[p].manifest \in Manifests /\ ask[p].tag \in Tags
               /\ ask[p].op \in UploadOps \cup {"push"}
    BY <1>1, <1>2 DEF Ask
  <1>5. \A p \in Requests : Dest(p) \in Sources \cup {Denied} /\ Target(p) \in Physical
    BY <1>1, <1>3, <1>4 DEF Dest, Target
  <1>6. \A p \in Requests : BlobList(p) \in Seq(Bodies)
    BY <1>4, PushConstants DEF BlobList
  <1>7. QED
    BY <1>2, <1>3, <1>4, <1>5, <1>6

\* The type invariant holds of a process that has just been started.
LEMMA InitTypeInv == Init => TypeInv
  <1> SUFFICES ASSUME Init PROVE TypeInv
    OBVIOUS
  <1>1. (CHOOSE a \in workload.asks : TRUE) \in workload.asks
    BY PushConstants DEF Init
  <1>2. TypeOK
    BY <1>1, PushConstants DEF Init, TypeOK, Labels, UploadOps, Answers, Digests, Connected
  <1>3. \A p \in Requests : RequestInv(p)
    BY DEF Init, RequestInv, Storing, Publishing, UploadOps
  <1>4. QED
    BY <1>2, <1>3 DEF TypeInv

\* A step of one request that keeps the sessions leaves the others entitled to
\* what they assume.
LEMMA OthersKeep ==
    ASSUME TypeInv, NEW p \in Requests, UNCHANGED config,
           \A q \in Requests \ {p} : pc'[q] = pc[q] /\ ask'[q] = ask[q],
           \A i \in 1..MaxUploads : uploads[i] # NoUpload => uploads'[i] # NoUpload,
           RequestInv(p)'
    PROVE  \A q \in Requests : RequestInv(q)'
  <1>1. ASSUME NEW q \in Requests, q # p
        PROVE  RequestInv(q)'
    <2>1. ask[q].id \in 1..MaxUploads /\ RequestInv(q)
      BY ConfigTypes DEF TypeInv
    <2>2. QED
      BY <1>1, <2>1 DEF RequestInv, Dest
  <1>2. QED
    BY <1>1

\* Every step of the system preserves the types and what requests assume.
LEMMA StepTypeInv ==
    ASSUME TypeInv, [Next]_vars
    PROVE  TypeInv'
  <1> USE DEF TypeInv
  <1>t. TypeOK /\ \A q \in Requests : RequestInv(q)
    OBVIOUS
  <1>c. /\ NoUpload \notin Session /\ <<>> \in Bodies /\ MaxUploads \in Nat
        /\ Bodies \subseteq Digests /\ Manifests \subseteq Digests
    BY PushConstants DEF Digests
  <1>u. \A i \in 1..MaxUploads : uploads[i] # NoUpload =>
           /\ uploads[i] \in Session /\ uploads[i].body \in Bodies
           /\ [uploads[i] EXCEPT !.open = FALSE] \in Session
           /\ \A b \in Bodies : [uploads[i] EXCEPT !.body = b] \in Session
    BY DEF TypeOK, Session
  <1>1. ASSUME NEW p \in Requests, NEW a \in workload.asks, StartRequest(p, a)
        PROVE  TypeInv'
    <2>1. a.op \in UploadOps \cup {"push"}
      BY ConfigTypes DEF Ask
    <2>2. TypeOK'
      BY <1>1, <2>1 DEF StartRequest, TypeOK, setting, people, memory, external, Labels, Answers
    <2>3. RequestInv(p)'
      BY <1>1, <2>1
      DEF StartRequest, TypeOK, RequestInv, Storing, Publishing, UploadOps
    <2>4. QED
      BY <1>1, <2>2, <2>3, OthersKeep DEF StartRequest, setting, memory, TypeOK
  <1>2. ASSUME NEW p \in Requests, StartUpload(p)
        PROVE  TypeInv'
    <2>1. [repo |-> ask[p].repo, body |-> <<>>, open |-> TRUE] \in Session
      BY <1>c, ConfigTypes DEF Session
    <2>2. TypeOK'
      BY <1>2, <1>c, <2>1
      DEF StartUpload, TypeOK, setting, people, local, external, Finish, Labels, Answers
    <2>3. RequestInv(p)'
      BY <1>2 DEF StartUpload, Finish, TypeOK, RequestInv, Storing, Publishing, UploadOps
    <2>4. QED
      BY <1>2, <1>c, <2>1, <2>2, <2>3, OthersKeep
      DEF StartUpload, Finish, setting, local, TypeOK
  <1>3. ASSUME NEW p \in Requests, OpenUpload(p)
        PROVE  TypeInv'
    <2>1. TypeOK'
      BY <1>3
      DEF OpenUpload, TypeOK, setting, people, memory, external, Finish, Goto, Labels, Answers
    <2>2. RequestInv(p)'
      BY <1>3, <1>t, ConfigTypes
      DEF OpenUpload, Finish, Goto, memory, TypeOK, RequestInv, Storing, Publishing, UploadOps
    <2>3. QED
      BY <1>3, <2>1, <2>2, OthersKeep DEF OpenUpload, Finish, Goto, setting, memory, TypeOK
  <1>4. ASSUME NEW p \in Requests, AppendBody(p) \/ AppendFails(p)
        PROVE  TypeInv'
    <2>1. ask[p].op # "push" /\ ask[p].id \in 1..MaxUploads /\ uploads[ask[p].id] # NoUpload
      BY <1>4, <1>t, ConfigTypes DEF AppendBody, AppendFails, RequestInv
    <2>2. /\ uploads' \in [1..MaxUploads -> Session \cup {NoUpload}]
          /\ \A i \in 1..MaxUploads : uploads[i] # NoUpload => uploads'[i] # NoUpload
      <3>1. Appended(p) \subseteq Bodies
        BY DEF Appended
      <3>2. ASSUME NEW b \in Bodies, uploads' = [uploads EXCEPT ![ask[p].id].body = b]
            PROVE  /\ uploads' \in [1..MaxUploads -> Session \cup {NoUpload}]
                   /\ \A i \in 1..MaxUploads : uploads[i] # NoUpload => uploads'[i] # NoUpload
        <4>1. [uploads[ask[p].id] EXCEPT !.body = b] \in Session
          BY <1>u, <2>1
        <4>2. QED
          BY <1>c, <2>1, <3>2, <4>1 DEF TypeOK
      <3>3. QED
        BY <1>4, <3>1, <3>2 DEF AppendBody, AppendFails, TypeOK
    <2>3. TypeOK'
      BY <1>4, <2>2
      DEF AppendBody, AppendFails, TypeOK, setting, people, local, external, Finish, Goto, Labels,
          Answers
    <2>4. RequestInv(p)'
      BY <1>4, <1>t, <2>1, <2>2
      DEF AppendBody, AppendFails, Finish, Goto, local, TypeOK, RequestInv, Storing, Publishing,
          UploadOps
    <2>5. QED
      BY <1>4, <2>2, <2>3, <2>4, OthersKeep
      DEF AppendBody, AppendFails, Finish, Goto, setting, local, TypeOK
  <1>5. ASSUME NEW p \in Requests, BlobExists(p)
        PROVE  TypeInv'
    <2>1. Payload(p) \in Digests
      BY <1>5, <1>t, <1>c, <1>u, ConfigTypes DEF BlobExists, Payload, RequestInv, Storing, Digests
    <2>2. held' \in [Requests -> Digests]
      BY <1>5, <1>c, <2>1 DEF BlobExists, TypeOK
    <2>3. TypeOK'
      BY <1>5, <2>2
      DEF BlobExists, TypeOK, setting, people, memory, external, Goto, Labels, Answers
    <2>4. RequestInv(p)'
      BY <1>5, <1>t
      DEF BlobExists, Goto, memory, setting, TypeOK, RequestInv, Storing, Publishing, UploadOps, Dest
    <2>5. QED
      BY <1>5, <2>3, <2>4, OthersKeep DEF BlobExists, Goto, setting, memory, TypeOK
  <1>6. ASSUME NEW p \in Requests, CopyBlob(p)
        PROVE  TypeInv'
    <2>1. TypeOK'
      BY <1>6, <1>c
      DEF CopyBlob, TypeOK, setting, people, memory, external, Goto, Labels, Answers
    <2>2. RequestInv(p)'
      BY <1>6, <1>t
      DEF CopyBlob, Goto, memory, setting, TypeOK, RequestInv, Storing, Publishing, UploadOps, Dest
    <2>3. QED
      BY <1>6, <2>1, <2>2, OthersKeep DEF CopyBlob, Goto, setting, memory, TypeOK
  <1>7. ASSUME NEW p \in Requests, RenameBlob(p)
        PROVE  TypeInv'
    <2>1. Claimed(p) \in Digests /\ held[p] \in Digests
      BY <1>c, ConfigTypes DEF Claimed, TypeOK
    <2>2. files' \subseteq File
      BY <1>7, <2>1 DEF RenameBlob, TypeOK, File
    <2>3. TypeOK'
      BY <1>7, <2>2
      DEF RenameBlob, TypeOK, setting, people, memory, external, local, Finish, Goto, Labels, Answers
    <2>4. RequestInv(p)'
      BY <1>7, <1>t
      DEF RenameBlob, Goto, Finish, memory, setting, local, TypeOK, RequestInv, Storing, Publishing,
          UploadOps, Dest
    <2>5. QED
      BY <1>7, <2>3, <2>4, OthersKeep DEF RenameBlob, Goto, Finish, setting, memory, local, TypeOK
  <1>8. ASSUME NEW p \in Requests,
               PutBlobFails(p) \/ RecordEvent(p) \/ RecordFails(p)
        PROVE  TypeInv'
    <2>1. TypeOK'
      BY <1>8
      DEF PutBlobFails, RecordEvent, RecordFails, TypeOK, setting, people, memory, external, local,
          Finish, Labels, Answers
    <2>2. RequestInv(p)'
      BY <1>8
      DEF PutBlobFails, RecordEvent, RecordFails, Finish, TypeOK, RequestInv, Storing, Publishing,
          UploadOps
    <2>3. QED
      BY <1>8, <2>1, <2>2, OthersKeep
      DEF PutBlobFails, RecordEvent, RecordFails, Finish, setting, memory, local, TypeOK
  <1>9. ASSUME NEW p \in Requests, DeleteUpload(p)
        PROVE  TypeInv'
    <2>1. ask[p].id \in 1..MaxUploads /\ uploads[ask[p].id] # NoUpload
      BY <1>9, <1>t, ConfigTypes DEF DeleteUpload, RequestInv
    <2>2. /\ uploads' \in [1..MaxUploads -> Session \cup {NoUpload}]
          /\ \A i \in 1..MaxUploads : uploads[i] # NoUpload => uploads'[i] # NoUpload
      BY <1>9, <1>c, <1>u, <2>1 DEF DeleteUpload, TypeOK
    <2>3. TypeOK'
      BY <1>9, <2>2
      DEF DeleteUpload, TypeOK, setting, people, external, local, Finish, Labels, Answers
    <2>4. RequestInv(p)'
      BY <1>9 DEF DeleteUpload, Finish, TypeOK, RequestInv, Storing, Publishing, UploadOps
    <2>5. QED
      BY <1>9, <2>2, <2>3, <2>4, OthersKeep DEF DeleteUpload, Finish, setting, local, TypeOK
  <1>10. ASSUME NEW p \in Requests, SelectDestination(p)
         PROVE  TypeInv'
    <2>1. TypeOK'
      BY <1>10
      DEF SelectDestination, TypeOK, setting, people, memory, external, Finish, Goto, Labels, Answers
    <2>2. RequestInv(p)'
      BY <1>10, <1>t
      DEF SelectDestination, Goto, Finish, memory, setting, TypeOK, RequestInv, Storing, Publishing,
          UploadOps, Dest
    <2>3. QED
      BY <1>10, <2>1, <2>2, OthersKeep DEF SelectDestination, Goto, Finish, setting, memory, TypeOK
  <1>11. ASSUME NEW p \in Requests,
                PublishBlob(p) \/ PublishManifest(p) \/ PublishFails(p) \/ RecordProvenance(p)
         PROVE  TypeInv'
    <2>1. ask[p].op = "push" /\ Dest(p) \in Sources /\ Target(p) \in Physical
      BY <1>11, <1>t, ConfigTypes
      DEF PublishBlob, PublishManifest, PublishFails, RecordProvenance, RequestInv, Publishing
    <2>2. turn[p] <= Len(BlobList(p)) => BlobList(p)[turn[p]] \in Bodies
      BY ConfigTypes DEF TypeOK
    <2>3. /\ turn[p] <= Len(BlobList(p)) =>
                [dest |-> Dest(p), repo |-> Target(p), digest |-> BlobList(p)[turn[p]]]
                   \in [dest : Sources, repo : Physical, digest : Bodies]
          /\ [dest |-> Dest(p), repo |-> Target(p), tag |-> ask[p].tag,
              manifest |-> ask[p].manifest, via |-> via[p]] \in Published
          /\ [repo |-> ask[p].repo, tag |-> ask[p].tag, manifest |-> ask[p].manifest,
              dest |-> Dest(p), physical |-> Target(p)]
                \in [repo : Repos, tag : Tags, manifest : Manifests, dest : Sources,
                     physical : Physical]
      BY <2>1, <2>2, ConfigTypes DEF TypeOK, Published, Connected
    <2>4. /\ destBlobs' \subseteq [dest : Sources, repo : Physical, digest : Bodies]
          /\ destManifests' \subseteq Published
          /\ provenance' \subseteq [repo : Repos, tag : Tags, manifest : Manifests, dest : Sources,
                                    physical : Physical]
      BY <1>11, <2>3
      DEF PublishBlob, PublishManifest, PublishFails, RecordProvenance, TypeOK, external
    <2>5. /\ pc' \in [Requests -> Labels] /\ answer' \in [Requests -> Answers]
          /\ turn' \in [Requests -> Nat \ {0}]
      <3>1. turn[p] + 1 \in Nat \ {0}
        BY DEF TypeOK
      <3>2. turn' = turn \/ turn' = [turn EXCEPT ![p] = turn[p] + 1]
        BY <1>11 DEF PublishBlob, PublishManifest, PublishFails, RecordProvenance, local
      <3>3. pc' \in [Requests -> Labels] /\ answer' \in [Requests -> Answers]
        BY <1>11
        DEF PublishBlob, PublishManifest, PublishFails, RecordProvenance, TypeOK, Finish, Goto,
            Labels, Answers
      <3>4. QED
        BY <3>1, <3>2, <3>3 DEF TypeOK
    <2>6. TypeOK'
      BY <1>11, <2>4, <2>5
      DEF PublishBlob, PublishManifest, PublishFails, RecordProvenance, TypeOK, setting, people,
          memory, local
    <2>7. RequestInv(p)'
      BY <1>11, <1>t, <2>1, PushConstants
      DEF PublishBlob, PublishManifest, PublishFails, RecordProvenance, Goto, Finish, memory, setting,
          local, TypeOK, RequestInv, Storing, Publishing, UploadOps, Dest
    <2>8. QED
      BY <1>11, <2>6, <2>7, OthersKeep
      DEF PublishBlob, PublishManifest, PublishFails, RecordProvenance, Goto, Finish, setting, memory,
          local, TypeOK
  <1>12. ASSUME NEW u \in Users,
                DisableUser(u) \/ \E s \in Sources : SaveCredential(u, s)
         PROVE  TypeInv'
    <2>1. enabledUsers' \subseteq Users /\ creds' \in [Users -> [Sources -> Keys \cup {NoKey}]]
      <3>1. CASE DisableUser(u)
        BY <3>1 DEF DisableUser, TypeOK
      <3>2. ASSUME NEW s \in Sources, SaveCredential(u, s)
            PROVE  enabledUsers' \subseteq Users /\ creds' \in [Users -> [Sources -> Keys \cup {NoKey}]]
        <4>1. config.key \in Keys \cup {NoKey}
          BY ConfigTypes DEF TypeOK
        <4>2. QED
          BY <3>2, <4>1 DEF SaveCredential, TypeOK
      <3>3. QED
        BY <1>12, <3>1, <3>2
    <2>2. TypeOK'
      BY <1>12, <2>1 DEF DisableUser, SaveCredential, TypeOK, setting, memory, external, local
    <2>3. UNCHANGED <<config, pc, ask, uploads>>
      BY <1>12 DEF DisableUser, SaveCredential, setting, memory, local
    <2>4. QED
      BY <1>t, <2>2, <2>3 DEF RequestInv, Dest
  <1>13. ASSUME NEW c \in workload.configs, Restart(c)
         PROVE  TypeInv'
    <2>1. TypeOK'
      BY <1>13, <1>c DEF Restart, TypeOK, people, external, local, Labels, Answers
    <2>2. \A q \in Requests : RequestInv(q)'
      BY <1>13 DEF Restart, RequestInv, Storing, Publishing, UploadOps
    <2>3. QED
      BY <2>1, <2>2
  <1>14. ASSUME UNCHANGED vars
         PROVE  TypeInv'
    BY <1>14, <1>t DEF vars, setting, TypeOK, RequestInv, Dest
  <1>15. QED
    BY <1>1, <1>2, <1>3, <1>4, <1>5, <1>6, <1>7, <1>8, <1>9, <1>10, <1>11, <1>12, <1>13, <1>14
    DEF Next, Step

-----------------------------------------------------------------------------
(***************************************************************************)
(* The store and the destinations.  A push stages its manifest first, then *)
(* sends blob after blob from the store, and only then the manifest: what  *)
(* it may rely on grows with its turn and is lost by no step of another.   *)
(***************************************************************************)
AtDestination(p, d) == [dest |-> Dest(p), repo |-> Target(p), digest |-> d]
ManifestAt(p) == [dest |-> Dest(p), repo |-> Target(p), tag |-> ask[p].tag,
                  manifest |-> ask[p].manifest, via |-> via[p]]

StagedInv(p) ==
    /\ pc[p] = "delete" => HasFile(ask[p].digest)
    /\ pc[p] \in {"push"} \cup Storing /\ ask[p].op = "push" => turn[p] = 1
    /\ pc[p] \in Publishing =>
          /\ HasFile(ask[p].manifest)
          /\ \A i \in 1..Len(BlobList(p)) : i < turn[p] =>
                HasFile(BlobList(p)[i]) /\ AtDestination(p, BlobList(p)[i]) \in destBlobs
    /\ pc[p] = "provenance" => ManifestAt(p) \in destManifests
    /\ pc[p] = "done" /\ ask[p].op = "put" /\ answer[p] = "created" => HasFile(ask[p].digest)

PushInv == TypeInv /\ StoreSound /\ DestinationComplete /\ \A p \in Requests : StagedInv(p)

\* Only PutBlob's rename changes the files, and what is at a destination, or
\* recorded of it, stays.
LEMMA DurableSteps ==
    ASSUME [Next]_vars
    PROVE  /\ (\E p \in Requests : RenameBlob(p)) \/ UNCHANGED files
           /\ destBlobs \subseteq destBlobs' /\ destManifests \subseteq destManifests'
           /\ provenance \subseteq provenance'
  <1> DEFINE Grows == /\ destBlobs \subseteq destBlobs' /\ destManifests \subseteq destManifests'
                      /\ provenance \subseteq provenance'
  <1>1. ASSUME NEW p \in Requests, StartUpload(p) \/ OpenUpload(p) \/ AppendBody(p) \/ AppendFails(p)
        PROVE  UNCHANGED files /\ Grows
    BY <1>1 DEF StartUpload, OpenUpload, AppendBody, AppendFails, external
  <1>2. ASSUME NEW p \in Requests, BlobExists(p) \/ CopyBlob(p) \/ PutBlobFails(p) \/ DeleteUpload(p)
        PROVE  UNCHANGED files /\ Grows
    BY <1>2 DEF BlobExists, CopyBlob, PutBlobFails, DeleteUpload, external
  <1>3. ASSUME NEW p \in Requests, RenameBlob(p)
        PROVE  Grows
    BY <1>3 DEF RenameBlob, external
  <1>4. ASSUME NEW p \in Requests, SelectDestination(p) \/ PublishBlob(p) \/ PublishManifest(p)
        PROVE  UNCHANGED files /\ Grows
    BY <1>4 DEF SelectDestination, PublishBlob, PublishManifest, external
  <1>5. ASSUME NEW p \in Requests, PublishFails(p)
        PROVE  UNCHANGED files /\ Grows
    BY <1>5 DEF PublishFails, external
  <1>6. ASSUME NEW p \in Requests, RecordProvenance(p) \/ RecordEvent(p) \/ RecordFails(p)
        PROVE  UNCHANGED files /\ Grows
    BY <1>6 DEF RecordProvenance, RecordEvent, RecordFails, external
  <1>7. ASSUME NEW p \in Requests, NEW a, StartRequest(p, a)
        PROVE  UNCHANGED files /\ Grows
    BY <1>7 DEF StartRequest, external
  <1>8. ASSUME NEW u, NEW s, NEW c, DisableUser(u) \/ SaveCredential(u, s) \/ Restart(c)
        PROVE  UNCHANGED files /\ Grows
    BY <1>8 DEF DisableUser, SaveCredential, Restart, external
  <1>9. UNCHANGED vars => UNCHANGED files /\ Grows
    BY DEF vars
  <1> HIDE DEF Grows
  <1>10. ASSUME NEW p \in Requests, Step(p)
         PROVE  (RenameBlob(p) \/ UNCHANGED files) /\ Grows
    BY <1>10, <1>1, <1>2, <1>3, <1>4, <1>5, <1>6 DEF Step
  <1>11. ((\E p \in Requests : RenameBlob(p)) \/ UNCHANGED files) /\ Grows
    <2>1. CASE \E p \in Requests : Step(p)
      BY <2>1, <1>10
    <2>2. CASE \E p \in Requests : \E a \in workload.asks : StartRequest(p, a)
      BY <2>2, <1>7
    <2>3. CASE \/ \E u \in Users : DisableUser(u) \/ \E s \in Sources : SaveCredential(u, s)
               \/ \E c \in workload.configs : Restart(c)
      BY <2>3, <1>8
    <2>4. CASE UNCHANGED vars
      BY <2>4, <1>9
    <2>5. QED
      BY <2>1, <2>2, <2>3, <2>4 DEF Next
  <1>12. QED
    BY <1>11 DEF Grows

\* No step takes a digest out of the store or anything from a destination.
LEMMA NothingLost ==
    ASSUME [Next]_vars
    PROVE  /\ \A d : HasFile(d) => HasFile(d)'
           /\ destBlobs \subseteq destBlobs' /\ destManifests \subseteq destManifests'
           /\ provenance \subseteq provenance'
  <1>1. ASSUME NEW p \in Requests, RenameBlob(p), NEW d, HasFile(d)
        PROVE  HasFile(d)'
    <2>1. PICK f \in files : f.digest = d
      BY <1>1 DEF HasFile
    <2>2. CASE files' = {g \in files : g.digest # Claimed(p)} \cup
                        {[digest |-> Claimed(p), body |-> held[p]]}
      <3>1. [digest |-> Claimed(p), body |-> held[p]] \in files'
        BY <2>2
      <3>2. d # Claimed(p) => f \in files'
        BY <2>1, <2>2
      <3>3. QED
        BY <2>1, <3>1, <3>2 DEF HasFile
    <2>3. CASE UNCHANGED files
      BY <1>1, <2>3 DEF HasFile
    <2>4. QED
      BY <1>1, <2>2, <2>3 DEF RenameBlob
  <1>2. QED
    BY <1>1, DurableSteps DEF HasFile

\* PutBlob keeps the store sound: a file that is added holds what its digest
\* names and replaces the file that had the digest.
LEMMA StepStoreSound ==
    ASSUME StoreSound, [Next]_vars
    PROVE  StoreSound'
  <1>1. ASSUME NEW p \in Requests, RenameBlob(p)
        PROVE  StoreSound'
    BY <1>1 DEF RenameBlob, StoreSound
  <1>2. CASE UNCHANGED files
    BY <1>2 DEF StoreSound
  <1>3. QED
    BY <1>1, <1>2, DurableSteps

\* A manifest reaches a destination after the blobs it lists.
LEMMA StepDestinationComplete ==
    ASSUME PushInv, [Next]_vars
    PROVE  DestinationComplete'
  <1>1. destBlobs \subseteq destBlobs'
    BY NothingLost
  <1>2. ASSUME NEW p \in Requests, PublishManifest(p) \/ PublishFails(p),
               destManifests' # destManifests
        PROVE  DestinationComplete'
    <2>1. /\ destManifests' = destManifests \cup {ManifestAt(p)}
          /\ pc[p] = "publish" /\ turn[p] > Len(BlobList(p))
      BY <1>2 DEF PublishManifest, PublishFails, ManifestAt, external
    <2>2. \A i \in 1..Len(BlobList(p)) : AtDestination(p, BlobList(p)[i]) \in destBlobs
      <3>1. TypeOK /\ turn[p] \in Nat
        BY DEF PushInv, TypeInv, TypeOK
      <3>2. Len(BlobList(p)) \in Nat
        BY <3>1, ConfigTypes
      <3>3. \A i \in 1..Len(BlobList(p)) : i < turn[p] =>
               AtDestination(p, BlobList(p)[i]) \in destBlobs
        BY <2>1 DEF PushInv, StagedInv, Publishing
      <3>4. QED
        BY <2>1, <3>1, <3>2, <3>3
    <2>3. \A i \in 1..Len(BlobsOf[ManifestAt(p).manifest]) :
             [dest |-> ManifestAt(p).dest, repo |-> ManifestAt(p).repo,
              digest |-> BlobsOf[ManifestAt(p).manifest][i]] \in destBlobs
      BY <2>2 DEF ManifestAt, AtDestination, BlobList
    <2>4. QED
      BY <1>1, <2>1, <2>3 DEF PushInv, DestinationComplete
  <1>3. CASE UNCHANGED destManifests
    BY <1>1, <1>3 DEF PushInv, DestinationComplete
  <1>4. QED
    BY <1>2, <1>3
    DEF Next, Step, StartRequest, StartUpload, OpenUpload, AppendBody, AppendFails, BlobExists,
       CopyBlob, RenameBlob, PutBlobFails, DeleteUpload, SelectDestination, PublishBlob,
       RecordProvenance, RecordEvent, RecordFails, DisableUser, SaveCredential, Restart, external,
       vars

\* A step of p is a step of p alone: the others stay where they are.
LEMMA ActsAlone ==
    ASSUME TypeOK, NEW p \in Requests, Step(p)
    PROVE  /\ UNCHANGED config
           /\ \A q \in Requests \ {p} :
                 /\ pc'[q] = pc[q] /\ ask'[q] = ask[q] /\ turn'[q] = turn[q]
                 /\ via'[q] = via[q] /\ answer'[q] = answer[q]
  <1>1. UNCHANGED <<config, ask>>
    BY DEF Step, StartUpload, OpenUpload, AppendBody, AppendFails, BlobExists, CopyBlob, RenameBlob,
       PutBlobFails, DeleteUpload, SelectDestination, PublishBlob, PublishManifest, PublishFails,
       RecordProvenance, RecordEvent, RecordFails, setting, local
  <1>2. (\E l \in Labels : Goto(p, l)) \/ (\E a \in Answers : Finish(p, a))
    BY DEF Step, StartUpload, OpenUpload, AppendBody, AppendFails, BlobExists, CopyBlob, RenameBlob,
       PutBlobFails, DeleteUpload, SelectDestination, PublishBlob, PublishManifest, PublishFails,
       RecordProvenance, RecordEvent, RecordFails, Labels, Answers
  <1>3. /\ turn' = turn \/ turn' = [turn EXCEPT ![p] = turn[p] + 1]
        /\ via' = via \/ \E c : via' = [via EXCEPT ![p] = c]
    BY DEF Step, StartUpload, OpenUpload, AppendBody, AppendFails, BlobExists, CopyBlob, RenameBlob,
       PutBlobFails, DeleteUpload, SelectDestination, PublishBlob, PublishManifest, PublishFails,
       RecordProvenance, RecordEvent, RecordFails, local
  <1>4. QED
    BY <1>1, <1>2, <1>3 DEF Goto, Finish, TypeOK

\* A step that leaves a request where it is leaves it what it relies on.
LEMMA OthersStaged ==
    ASSUME PushInv, [Next]_vars, NEW q \in Requests, UNCHANGED config,
           pc'[q] = pc[q], ask'[q] = ask[q], turn'[q] = turn[q], via'[q] = via[q],
           answer'[q] = answer[q]
    PROVE  StagedInv(q)'
  <1>1. StagedInv(q)
    BY DEF PushInv
  <1>2. /\ BlobList(q)' = BlobList(q) /\ ManifestAt(q)' = ManifestAt(q)
        /\ \A d : AtDestination(q, d)' = AtDestination(q, d)
    BY DEF BlobList, ManifestAt, AtDestination, Dest, Target
  <1>3. /\ \A d : HasFile(d) => HasFile(d)'
        /\ destBlobs \subseteq destBlobs' /\ destManifests \subseteq destManifests'
    BY NothingLost
  <1>4. QED
    BY <1>1, <1>2, <1>3 DEF StagedInv

\* Every step keeps what the store, the destinations and the requests promise.
LEMMA StepPushInv ==
    ASSUME PushInv, [Next]_vars
    PROVE  PushInv'
  <1>t. TypeOK /\ \A q \in Requests : RequestInv(q) /\ StagedInv(q)
    BY DEF PushInv, TypeInv
  <1>m. /\ \A d : HasFile(d) => HasFile(d)'
        /\ destBlobs \subseteq destBlobs' /\ destManifests \subseteq destManifests'
    BY NothingLost
  <1> DEFINE Staged == \A q \in Requests : StagedInv(q)'
  <1>o. ASSUME NEW p \in Requests, Step(p), StagedInv(p)'
        PROVE  Staged
    BY <1>o, <1>t, ActsAlone, OthersStaged
  <1>1. ASSUME NEW p \in Requests, NEW a \in workload.asks, StartRequest(p, a)
        PROVE  Staged
    <2>1. StagedInv(p)'
      BY <1>1, ConfigTypes, <1>t
      DEF StartRequest, StagedInv, Storing, Publishing, UploadOps, TypeOK, Ask
    <2>2. QED
      BY <1>1, <1>t, <2>1, OthersStaged DEF StartRequest, setting, TypeOK
  <1>2. ASSUME NEW p \in Requests,
               StartUpload(p) \/ OpenUpload(p) \/ AppendBody(p) \/ AppendFails(p) \/ CopyBlob(p)
        PROVE  Staged
    <2>1. StagedInv(p)'
      BY <1>2, <1>t
      DEF StartUpload, OpenUpload, AppendBody, AppendFails, CopyBlob, Finish, Goto, local, StagedInv,
          RequestInv, Storing, Publishing, UploadOps, TypeOK
    <2>2. QED
      BY <1>2, <1>o, <2>1 DEF Step
  <1>3. ASSUME NEW p \in Requests,
               PutBlobFails(p) \/ RecordEvent(p) \/ RecordFails(p) \/ SelectDestination(p)
        PROVE  Staged
    <2>1. StagedInv(p)'
      BY <1>3, <1>t
      DEF PutBlobFails, RecordEvent, RecordFails, SelectDestination, Finish, Goto, local, StagedInv,
          RequestInv, Storing, Publishing, UploadOps, TypeOK
    <2>2. QED
      BY <1>3, <1>o, <2>1 DEF Step
  <1>4. ASSUME NEW p \in Requests, BlobExists(p)
        PROVE  Staged
    <2>1. StagedInv(p)'
      BY <1>4, <1>t
      DEF BlobExists, Claimed, HasFile, Goto, StagedInv, RequestInv, Storing, Publishing, TypeOK
    <2>2. QED
      BY <1>4, <1>o, <2>1 DEF Step
  <1>5. ASSUME NEW p \in Requests, RenameBlob(p)
        PROVE  Staged
    <2>1. Hash(held[p]) = Claimed(p) => HasFile(Claimed(p))'
      <3>1. ASSUME Hash(held[p]) = Claimed(p)
            PROVE  /\ [digest |-> Claimed(p), body |-> held[p]] \in files'
                   /\ Claimed(p)' = Claimed(p)
        BY <1>5, <3>1 DEF RenameBlob, Claimed, local
      <3>2. QED
        BY <3>1 DEF HasFile
    <2>2. StagedInv(p)'
      BY <1>5, <1>t, <2>1
      DEF RenameBlob, Claimed, Finish, Goto, local, StagedInv, RequestInv, Storing, Publishing, TypeOK
    <2>3. QED
      BY <1>5, <1>o, <2>2 DEF Step
  <1>6. ASSUME NEW p \in Requests, DeleteUpload(p)
        PROVE  Staged
    <2>1. StagedInv(p)'
      BY <1>6, <1>t, <1>m DEF DeleteUpload, Finish, local, StagedInv, RequestInv, Storing, Publishing, TypeOK
    <2>2. QED
      BY <1>6, <1>o, <2>1 DEF Step
  <1>7. ASSUME NEW p \in Requests, PublishBlob(p)
        PROVE  Staged
    <2>1. CASE ~HasFile(BlobList(p)[turn[p]])
      <3>1. StagedInv(p)'
        <4>1. pc'[p] = "done" /\ ask'[p] = ask[p] /\ ask[p].op = "push"
          BY <1>7, <1>t, <2>1
          DEF PublishBlob, HasFile, Finish, RequestInv, Publishing, TypeOK
        <4>2. QED
          BY <4>1 DEF StagedInv, Storing, Publishing
      <3>2. QED
        BY <1>7, <1>o, <3>1 DEF Step
    <2>2. CASE HasFile(BlobList(p)[turn[p]])
      <3>1. /\ turn[p] \in Nat /\ turn'[p] = turn[p] + 1 /\ pc'[p] = "publish" /\ UNCHANGED <<ask, config>>
            /\ AtDestination(p, BlobList(p)[turn[p]]) \in destBlobs'
            /\ turn[p] <= Len(BlobList(p)) /\ pc[p] = "publish"
        <4>1. /\ destBlobs' = destBlobs \cup {AtDestination(p, BlobList(p)[turn[p]])}
              /\ turn' = [turn EXCEPT ![p] = turn[p] + 1] /\ Goto(p, "publish")
              /\ turn[p] <= Len(BlobList(p)) /\ pc[p] = "publish" /\ UNCHANGED <<ask, config>>
          BY <1>7, <2>2 DEF PublishBlob, AtDestination, setting
        <4>2. QED
          BY <1>t, <4>1 DEF Goto, TypeOK
      <3>2. \A i \in 1..Len(BlobList(p)) : i < turn[p] + 1 => i < turn[p] \/ i = turn[p]
        BY <3>1, ConfigTypes
      <3>3. /\ BlobList(p)' = BlobList(p)
            /\ \A d : AtDestination(p, d)' = AtDestination(p, d)
        BY <3>1 DEF BlobList, AtDestination, Dest, Target
      <3>4. \A i \in 1..Len(BlobList(p)) : i < turn[p] =>
               HasFile(BlobList(p)[i]) /\ AtDestination(p, BlobList(p)[i]) \in destBlobs
        BY <1>t, <3>1 DEF StagedInv, Publishing
      <3>5. \A i \in 1..Len(BlobList(p)) : i < turn[p] + 1 =>
               HasFile(BlobList(p)[i])' /\ AtDestination(p, BlobList(p)[i]) \in destBlobs'
        <4>1. ASSUME NEW i \in 1..Len(BlobList(p)), i < turn[p] + 1
              PROVE  HasFile(BlobList(p)[i]) /\ AtDestination(p, BlobList(p)[i]) \in destBlobs'
          BY <1>m, <2>2, <3>1, <3>2, <3>4, <4>1
        <4>2. \A d : HasFile(d) => HasFile(d)'
          BY <1>m
        <4>3. QED
          BY <3>3, <4>1, <4>2 DEF HasFile
      <3>6. HasFile(ask[p].manifest)'
        BY <1>m, <1>t, <3>1 DEF StagedInv, Publishing
      <3>7. StagedInv(p)'
        BY <3>1, <3>3, <3>5, <3>6 DEF StagedInv, Storing, Publishing
      <3>8. QED
        BY <1>7, <1>o, <3>7 DEF Step
    <2>3. QED
      BY <2>1, <2>2
  <1>8. ASSUME NEW p \in Requests, PublishManifest(p) \/ PublishFails(p) \/ RecordProvenance(p)
        PROVE  Staged
    <2>1. /\ UNCHANGED <<config, ask, turn, via>> /\ ask[p].op = "push"
          /\ pc[p] \in {"publish", "provenance"}
          /\ pc'[p] \in {"provenance", "event", "done"}
          /\ pc'[p] = "provenance" => ManifestAt(p) \in destManifests'
      BY <1>8, <1>t
      DEF PublishManifest, PublishFails, RecordProvenance, Finish, Goto, local, setting, ManifestAt,
          TypeOK, RequestInv, Publishing
    <2>2. /\ BlobList(p)' = BlobList(p) /\ ManifestAt(p)' = ManifestAt(p)
          /\ \A d : AtDestination(p, d)' = AtDestination(p, d)
      BY <2>1 DEF BlobList, AtDestination, ManifestAt, Dest, Target
    <2>3. StagedInv(p)'
      BY <1>m, <1>t, <2>1, <2>2 DEF StagedInv, Storing, Publishing
    <2>4. QED
      BY <1>8, <1>o, <2>3 DEF Step
  <1>9. ASSUME \/ \E u \in Users : DisableUser(u) \/ \E s \in Sources : SaveCredential(u, s)
               \/ UNCHANGED vars
        PROVE  Staged
    <2>1. UNCHANGED <<config, pc, ask, turn, via, answer>>
      BY <1>9 DEF DisableUser, SaveCredential, setting, local, vars
    <2>2. QED
      BY <2>1, OthersStaged
  <1>10. ASSUME NEW c \in workload.configs, Restart(c)
         PROVE  Staged
    BY <1>10 DEF Restart, StagedInv, Storing, Publishing
  <1>11. Staged
    BY <1>1, <1>2, <1>3, <1>4, <1>5, <1>6, <1>7, <1>8, <1>9, <1>10 DEF Next, Step
  <1>12. TypeInv' /\ StoreSound' /\ DestinationComplete'
    BY StepTypeInv, StepStoreSound, StepDestinationComplete DEF PushInv
  <1>13. QED
    BY <1>11, <1>12 DEF PushInv

\* A process that has just been started has nothing in its store.
LEMMA InitPushInv == Init => PushInv
  BY InitTypeInv
  DEF Init, PushInv, StoreSound, DestinationComplete, StagedInv, Storing, Publishing

\* PutBlob and the upload handlers: for any number of clients that append to,
\* complete and abandon each other's uploads across restarts, a file holds the
\* bytes its digest names and what was answered with 201 is there.
THEOREM StoreIsSound == Spec => []StoreInv
  <1>1. PushInv => StoreInv
    BY DEF PushInv, TypeInv, StoreInv, AcknowledgedStored, StagedInv
  <1>2. PushInv /\ [Next]_vars => PushInv'
    BY StepPushInv
  <1>3. QED
    BY InitPushInv, <1>1, <1>2, PTL DEF Spec

\* Push: a manifest at a destination has every blob it lists there, whichever
\* pushes failed half-way, lost an answer or raced for the same image.
THEOREM PublishedImagesAreComplete == Spec => []DestinationComplete
  <1>1. PushInv => DestinationComplete
    BY DEF PushInv
  <1>2. PushInv /\ [Next]_vars => PushInv'
    BY StepPushInv
  <1>3. QED
    BY InitPushInv, <1>1, <1>2, PTL DEF Spec

-----------------------------------------------------------------------------
(***************************************************************************)
(* ImagePublication.  What it calls staged, published and recorded, in     *)
(* terms of the store, the destinations and the provenance records.        *)
(***************************************************************************)
StagedDigests   == {f.digest : f \in files}
PublishedImages == {Image(d.dest, d.repo, d.tag, d.manifest) : d \in destManifests}
RecordedImages  == {Image(r.dest, r.physical, r.tag, r.manifest) : r \in provenance}
DigestsOf(m)    == {m} \cup {BlobsOf[m][i] : i \in 1..Len(BlobsOf[m])}

\* Each step adds to at most one of the three.
LEMMA AddsToOne ==
    ASSUME [Next]_vars
    PROVE  \/ UNCHANGED <<files, destManifests, provenance>>
           \/ \E p \in Requests : RenameBlob(p)
           \/ \E p \in Requests : (PublishManifest(p) \/ PublishFails(p)) /\ destManifests' # destManifests
           \/ \E p \in Requests : RecordProvenance(p)
  <1>1. ASSUME NEW p \in Requests, Step(p)
        PROVE  \/ UNCHANGED <<files, destManifests, provenance>>
               \/ RenameBlob(p) \/ RecordProvenance(p)
               \/ (PublishManifest(p) \/ PublishFails(p)) /\ destManifests' # destManifests
    <2>1. CASE StartUpload(p) \/ OpenUpload(p) \/ AppendBody(p) \/ AppendFails(p) \/ BlobExists(p)
      BY <2>1 DEF StartUpload, OpenUpload, AppendBody, AppendFails, BlobExists, external
    <2>2. CASE \/ CopyBlob(p) \/ PutBlobFails(p) \/ DeleteUpload(p) \/ SelectDestination(p)
               \/ PublishBlob(p) \/ RecordEvent(p) \/ RecordFails(p)
      BY <2>2
      DEF CopyBlob, PutBlobFails, DeleteUpload, SelectDestination, PublishBlob, RecordEvent,
          RecordFails, external
    <2>3. CASE PublishManifest(p) \/ PublishFails(p)
      BY <2>3 DEF PublishManifest, PublishFails, external
    <2>4. QED
      BY <1>1, <2>1, <2>2, <2>3 DEF Step
  <1>2. CASE ~\E p \in Requests : Step(p)
    BY <1>2 DEF Next, StartRequest, DisableUser, SaveCredential, Restart, external, vars
  <1>3. QED
    BY <1>1, <1>2

\* Every step of the push path is a step of ImagePublication, or none.
LEMMA StepPublication ==
    ASSUME PushInv, RecordedImages \subseteq PublishedImages, [Next]_vars
    PROVE  [Publication!Next]_<<StagedDigests, PublishedImages, RecordedImages>>
  <1>t. \A q \in Requests : StagedInv(q) /\ turn[q] \in Nat /\ BlobList(q) \in Seq(Bodies)
    BY ConfigTypes DEF PushInv, TypeInv, TypeOK
  <1>1. CASE UNCHANGED <<files, destManifests, provenance>>
    BY <1>1 DEF StagedDigests, PublishedImages, RecordedImages
  <1>2. ASSUME NEW p \in Requests, RenameBlob(p)
        PROVE  Publication!Stage
    <2>1. UNCHANGED <<PublishedImages, RecordedImages>>
      BY <1>2 DEF RenameBlob, external, PublishedImages, RecordedImages
    <2>2. StagedDigests \subseteq StagedDigests'
      BY NothingLost DEF StagedDigests, HasFile
    <2>3. QED
      BY <2>1, <2>2 DEF Publication!Stage, StagedDigests, PublishedImages, RecordedImages
  <1>3. ASSUME NEW p \in Requests, PublishManifest(p) \/ PublishFails(p),
               destManifests' # destManifests
        PROVE  Publication!Publish
    <2>1. /\ destManifests' = destManifests \cup {ManifestAt(p)}
          /\ pc[p] = "publish" /\ turn[p] > Len(BlobList(p)) /\ UNCHANGED <<files, provenance>>
      BY <1>3 DEF PublishManifest, PublishFails, ManifestAt, external
    <2>2. DigestsOf(ask[p].manifest) \subseteq StagedDigests
      <3>1. HasFile(ask[p].manifest)
        BY <1>t, <2>1 DEF StagedInv, Publishing
      <3>2. \A i \in 1..Len(BlobList(p)) : HasFile(BlobList(p)[i])
        BY <1>t, <2>1 DEF StagedInv, Publishing
      <3>3. \A d : HasFile(d) => d \in StagedDigests
        BY DEF HasFile, StagedDigests
      <3>4. QED
        BY <3>1, <3>2, <3>3 DEF DigestsOf, BlobList
    <2>3. PublishedImages' = PublishedImages \cup
             {Image(Dest(p), Target(p), ask[p].tag, ask[p].manifest)}
      <3>1. Image(ManifestAt(p).dest, ManifestAt(p).repo, ManifestAt(p).tag, ManifestAt(p).manifest)
               = Image(Dest(p), Target(p), ask[p].tag, ask[p].manifest)
        BY DEF ManifestAt
      <3>2. QED
        BY <2>1, <3>1 DEF PublishedImages
    <2>4. \A i \in PublishedImages' \ PublishedImages : DigestsOf(i.manifest) \subseteq StagedDigests
      BY <2>2, <2>3 DEF Image
    <2>5. UNCHANGED <<StagedDigests, RecordedImages>>
      BY <2>1 DEF StagedDigests, RecordedImages
    <2>6. QED
      BY <2>3, <2>4, <2>5
      DEF Publication!Publish, StagedDigests, PublishedImages, RecordedImages, DigestsOf
  <1>4. ASSUME NEW p \in Requests, RecordProvenance(p)
        PROVE  Publication!Record
    <2> DEFINE record == [repo |-> ask[p].repo, tag |-> ask[p].tag, manifest |-> ask[p].manifest,
                          dest |-> Dest(p), physical |-> Target(p)]
               image == Image(Dest(p), Target(p), ask[p].tag, ask[p].manifest)
    <2>1. /\ ManifestAt(p) \in destManifests /\ UNCHANGED <<files, destManifests>>
          /\ provenance' = provenance \cup {record}
      BY <1>4, <1>t DEF RecordProvenance, StagedInv, Publishing, external
    <2>2. RecordedImages' = RecordedImages \cup {image}
      <3>1. Image(record.dest, record.physical, record.tag, record.manifest) = image
        OBVIOUS
      <3>2. HIDE DEF record
      <3>3. QED
        BY <2>1, <3>1 DEF RecordedImages
    <2>3. image \in PublishedImages
      <3>1. Image(ManifestAt(p).dest, ManifestAt(p).repo, ManifestAt(p).tag, ManifestAt(p).manifest)
               = image
        BY DEF ManifestAt
      <3>2. QED
        BY <2>1, <3>1 DEF PublishedImages
    <2>4. QED
      BY <2>1, <2>2, <2>3
      DEF Publication!Record, StagedDigests, PublishedImages, RecordedImages
  <1>5. QED
    BY AddsToOne, <1>1, <1>2, <1>3, <1>4 DEF Publication!Next

\* The push path implements ImagePublication: whatever uploads, lost answers,
\* crashes and concurrent pushes do, an image is at a destination only when
\* all of it had been staged, and provenance is kept only of what is there.
THEOREM ImplementsImagePublication == Spec => PublishesImages
  <1> DEFINE Recorded == RecordedImages \subseteq PublishedImages
  <1>1. Init => Publication!Init /\ Recorded
    BY DEF Init, Publication!Init, RecordedImages, PublishedImages
  <1>2. PushInv /\ [Next]_vars => PushInv'
    BY StepPushInv
  <1>3. PushInv /\ Recorded /\ [Next]_vars
           => [Publication!Next]_<<StagedDigests, PublishedImages, RecordedImages>>
    BY StepPublication
  <1>4. Recorded /\ [Publication!Next]_<<StagedDigests, PublishedImages, RecordedImages>> => Recorded'
    BY DEF Publication!Next, Publication!Stage, Publication!Publish, Publication!Record,
       StagedDigests, PublishedImages, RecordedImages
  <1>5. QED
    BY InitPushInv, <1>1, <1>2, <1>3, <1>4, PTL
    DEF Spec, PublishesImages, Publication!Spec, StagedDigests, PublishedImages, RecordedImages

=============================================================================
