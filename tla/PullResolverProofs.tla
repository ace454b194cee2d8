-------------------------- MODULE PullResolverProofs --------------------------
(***************************************************************************)
(* Proofs about PullResolver, for every set of users, sources, images,     *)
(* configurations and requests in flight; and about what surrounds a pull: *)
(* the RoutePolicy that decides its candidates, for every set of routes,   *)
(* and the RequestEvents it leaves in the log, for every number of pulls   *)
(* and of windows that show them.                                          *)
(***************************************************************************)
EXTENDS PullResolver, RoutePolicy, RequestEvents, FiniteSetTheorems, FunctionTheorems, TLAPS

\* What a request knows at each label: its source is a candidate of the
\* current configuration, and only tag pulls look up or write a mapping.
Contacting == {"resolve", "cache", "bind", "provenance", "map", "event"}
LabelInv ==
    \A p \in Requests :
        /\ pc[p] \in Contacting => turn[p] \in 1..Len(Candidates(ask[p].repo))
        /\ pc[p] \in {"lookup", "map"} => ask[p].ref \in Tags

TypeInv == TypeOK /\ LabelInv

\* The configured candidate list of a repository is a sequence of sources.
LEMMA CandidatesType ==
    ASSUME config \in Configs, NEW r \in Repos
    PROVE  /\ RouteOf(r) \in Routes
           /\ Candidates(r) \in Seq(Sources)
  BY PullConstants DEF RouteOf, Candidates

\* The source a request is in contact with is a configured source.
LEMMA SourceType ==
    ASSUME TypeInv, NEW p \in Requests, pc[p] \in Contacting
    PROVE  /\ Source(p) \in Sources
           /\ Source(p) \in CandidateSet(ask[p].repo)
           /\ RouteOf(ask[p].repo) \in Routes
           /\ ask[p].repo \in Repos
           /\ ask[p].who \in Principals
           /\ ask[p].ref \in Tags \cup Objects
  <1>1. ask[p] \in Asks
    BY DEF TypeInv, TypeOK
  <1>2. /\ ask[p].repo \in Repos
        /\ ask[p].who \in Principals
        /\ ask[p].ref \in Tags \cup Objects
    BY <1>1, PullConstants
  <1>3. /\ RouteOf(ask[p].repo) \in Routes
        /\ Candidates(ask[p].repo) \in Seq(Sources)
    BY <1>2, CandidatesType DEF TypeInv, TypeOK
  <1>4. turn[p] \in 1..Len(Candidates(ask[p].repo))
    BY DEF TypeInv, LabelInv
  <1>5. Candidates(ask[p].repo)[turn[p]] \in Sources
    BY <1>3, <1>4
  <1>6. QED
    BY <1>2, <1>3, <1>4, <1>5 DEF Source, CandidateSet

\* Every object of an image is an object.
LEMMA ImageType ==
    ASSUME NEW m \in Manifests
    PROVE  Image(m) \subseteq Objects /\ m \in Image(m)
  BY PullConstants DEF Image, Objects

\* The access class and owner recorded for a fetched image are well formed.
LEMMA RecordTypes ==
    ASSUME TypeInv, NEW p \in Requests, pc[p] \in Contacting, NEW m \in Manifests
    PROVE  /\ Fetch(p, m) \in FetchRecord
           /\ \A o \in Image(got[p]) : NewBinding(p, o) \in Binding
  <1>1. AccessOf(p) \in Access
    BY DEF AccessOf, Access
  <1>2. OwnerOf(p) \in Principals
    BY SourceType DEF OwnerOf, Principals
  <1>3. got[p] \in Manifests
    BY DEF TypeInv, TypeOK
  <1>4. Fetch(p, m) \in FetchRecord
    BY <1>1, <1>2, SourceType DEF Fetch, FetchRecord
  <1>5. \A o \in Image(got[p]) : NewBinding(p, o) \in Binding
    BY <1>1, <1>2, <1>3, SourceType, ImageType DEF NewBinding, Binding
  <1>6. QED
    BY <1>4, <1>5

\* The type invariant holds before the first request.
LEMMA InitTypeInv == Init => TypeInv
  <1> SUFFICES ASSUME Init PROVE TypeInv
    OBVIOUS
  <1>1. (CHOOSE a \in Asks : TRUE) \in Asks /\ (CHOOSE m \in Manifests : TRUE) \in Manifests
    BY PullConstants
  <1>2. TypeOK
    BY <1>1, PullConstants DEF Init, TypeOK, Labels, Connected, Answers
  <1>3. LabelInv
    BY DEF Init, LabelInv, Contacting
  <1>4. QED
    BY <1>2, <1>3 DEF TypeInv

\* The type of the variables an action leaves alone carries over.
LEMMA StepTypeInv ==
    ASSUME TypeInv, [Next]_vars
    PROVE  TypeInv'
  <1> USE DEF TypeInv, TypeOK, LabelInv, Contacting, Goto, Finish,
              durable, people, ghosts, since, Candidates, RouteOf, Labels, Answers
  <1>1. ASSUME NEW p \in Requests, NEW a \in Asks, StartRequest(p, a)
        PROVE  TypeInv'
    BY <1>1, PullConstants DEF StartRequest
  <1>2. ASSUME NEW p \in Requests, LookupTag(p)
        PROVE  TypeInv'
    <2>1. ask[p].repo \in Repos /\ ask[p].ref \in Tags
      BY <1>2, PullConstants DEF LookupTag
    <2>2. mappings[ask[p].repo][ask[p].ref] \in Mapping \cup {NoRow}
      BY <2>1
    <2>3. found' \in [Requests -> Mapping \cup {NoRow}]
      BY <1>2, <2>2 DEF LookupTag
    <2>4. pc' \in [Requests -> Labels]
      BY <1>2 DEF LookupTag
    <2>5. UNCHANGED <<config, durable, people, clock, started, ask, rest, turn, via, got, todo,
                      tried, answer, ghosts>>
      BY <1>2 DEF LookupTag
    <2>6. PICK at \in {"select", "authorize"} : pc' = [pc EXCEPT ![p] = at]
      BY <1>2 DEF LookupTag
    <2>7. LabelInv'
      BY <2>5, <2>6
    <2>8. QED
      BY <2>3, <2>4, <2>5, <2>7
  <1>3. ASSUME NEW p \in Requests, ListCacheBindings(p)
        PROVE  TypeInv'
    <2>1. Held(ask[p].who, creds) \subseteq Sources /\ Usable(ask[p].repo, Wanted(p)) \subseteq Binding
      BY DEF Held, Usable
    <2>2. /\ rest' \in [Requests -> SUBSET Binding] /\ seen' \in [Requests -> BOOLEAN]
          /\ live' \in [Requests -> SUBSET Sources]
      BY <1>3, <2>1 DEF ListCacheBindings
    <2>3. pc' = [pc EXCEPT ![p] = "binding"]
      BY <1>3 DEF ListCacheBindings
    <2>4. UNCHANGED <<config, durable, people, clock, started, ask, found, turn, via, got, todo,
                      tried, answer, fetched>>
      BY <1>3 DEF ListCacheBindings
    <2>5. LabelInv' /\ pc' \in [Requests -> Labels]
      BY <2>3, <2>4
    <2>6. QED
      BY <2>2, <2>4, <2>5
  <1>4. ASSUME NEW p \in Requests, CheckUser(p) \/ CheckCredential(p)
        PROVE  TypeInv'
    <2>1. PICK b \in Binding : \/ UseBinding(p, b) \/ PassBinding(p, b)
                               \/ Goto(p, "credential") /\ UNCHANGED <<found, rest, answer>>
      BY <1>4 DEF CheckUser, CheckCredential, FirstOf
    <2>2. PICK at \in {"select", "done", "serve", "binding", "credential"} :
             pc' = [pc EXCEPT ![p] = at]
      BY <2>1 DEF UseBinding, PassBinding, MissCache
    <2>3. found' \in [Requests -> Mapping \cup {NoRow}]
      <3>1. found' = found \/ found' = [found EXCEPT ![p] = NoRow]
        BY <2>1 DEF UseBinding, PassBinding, MissCache
      <3>2. QED
        BY <3>1
    <2>4. answer' \in [Requests -> Answers]
      <3>1. PICK an \in {"not_found", "denied"} :
               answer' = answer \/ answer' = [answer EXCEPT ![p] = an]
        BY <2>1 DEF UseBinding, PassBinding, MissCache
      <3>2. QED
        BY <3>1
    <2>4a. rest' \in [Requests -> SUBSET Binding]
      <3>1. PICK left \in {{}, rest[p], rest[p] \ {b}} :
               rest' = rest \/ rest' = [rest EXCEPT ![p] = left]
        BY <2>1 DEF UseBinding, PassBinding
      <3>2. left \subseteq Binding
        BY <3>1
      <3>3. QED
        BY <3>1, <3>2
    <2>5. UNCHANGED <<config, durable, people, clock, started, ask, turn, via, got, todo, tried, ghosts>>
      BY <1>4 DEF CheckUser, CheckCredential
    <2>6. LabelInv' /\ pc' \in [Requests -> Labels]
      BY <2>2, <2>5
    <2>7. QED
      BY <2>3, <2>4, <2>4a, <2>5, <2>6
  <1>5. ASSUME NEW p \in Requests, CacheMiss(p)
        PROVE  TypeInv'
    <2>1. MissCache(p)
      BY <1>5 DEF CacheMiss
    <2>2. PICK at \in {"select", "done"} : pc' = [pc EXCEPT ![p] = at]
      BY <2>1 DEF MissCache
    <2>3. found' \in [Requests -> Mapping \cup {NoRow}] /\ answer' \in [Requests -> Answers]
      BY <2>1 DEF MissCache
    <2>4. UNCHANGED <<config, durable, people, clock, started, ask, rest, turn, via, got, todo, tried,
                      ghosts>>
      BY <1>5 DEF CacheMiss
    <2>5. LabelInv' /\ pc' \in [Requests -> Labels]
      BY <2>2, <2>4
    <2>6. QED
      BY <2>3, <2>4, <2>5
  <1>6. ASSUME NEW p \in Requests, ServeCached(p)
        PROVE  TypeInv'
    <2>1. MissCache(p) \/ (Finish(p, "hit") /\ UNCHANGED found)
      BY <1>6 DEF ServeCached
    <2>2. PICK at \in {"select", "done"} : pc' = [pc EXCEPT ![p] = at]
      BY <2>1 DEF MissCache
    <2>3. found' \in [Requests -> Mapping \cup {NoRow}] /\ answer' \in [Requests -> Answers]
      BY <2>1 DEF MissCache
    <2>4. UNCHANGED <<config, durable, people, clock, started, ask, rest, turn, via, got, todo, tried,
                      ghosts>>
      BY <1>6 DEF ServeCached
    <2>5. LabelInv' /\ pc' \in [Requests -> Labels]
      BY <2>2, <2>4
    <2>6. QED
      BY <2>3, <2>4, <2>5
  <1>7. ASSUME NEW p \in Requests, SelectConnector(p)
        PROVE  TypeInv'
    <2>1. ConnectorFor(p) \in Connected
          /\ turn[p] \in 1..Len(Candidates(ask[p].repo))
      BY <1>7 DEF SelectConnector, Selecting
    <2>2. via' \in [Requests -> Connected]
      BY <1>7, <2>1 DEF SelectConnector
    <2>3. QED
      BY <1>7, <2>1, <2>2 DEF SelectConnector
  <1>7a. ASSUME NEW p \in Requests, FindCredential(p)
         PROVE  TypeInv'
    BY <1>7a DEF FindCredential
  <1>8. ASSUME NEW p \in Requests, SkipSource(p)
        PROVE  TypeInv'
    <2>1. PICK e \in Outcomes : NextSource(p, e)
      BY <1>8 DEF SkipSource, Outcomes
    <2>2. /\ tried' \in [Requests -> Seq(Outcomes)]
          /\ turn' \in [Requests -> Nat \ {0}]
          /\ pc' \in [Requests -> Labels]
      BY <2>1 DEF NextSource, LeaveSource
    <2>3. LabelInv'
      BY <1>8, <2>1 DEF SkipSource, NextSource
    <2>4. QED
      BY <1>8, <2>2, <2>3 DEF SkipSource
  <1>9. ASSUME NEW p \in Requests, RefuseSource(p)
        PROVE  TypeInv'
    <2>1. tried' \in [Requests -> Seq(Outcomes)] /\ pc' = [pc EXCEPT ![p] = "fail"]
      BY <1>9 DEF RefuseSource, LeaveSource, Outcomes
    <2>2. QED
      BY <1>9, <2>1 DEF RefuseSource
  <1>10. ASSUME NEW p \in Requests, Exhausted(p)
         PROVE  TypeInv'
    BY <1>10 DEF Exhausted
  <1>11. ASSUME NEW p \in Requests, ResolveManifest(p)
         PROVE  TypeInv'
    <2>1. PICK m \in Manifests : /\ got' = [got EXCEPT ![p] = m]
                                /\ todo' = [todo EXCEPT ![p] = Image(m)]
                                /\ fetched' = fetched \cup {Fetch(p, m)}
      BY <1>11 DEF ResolveManifest
    <2>2. fetched' \subseteq FetchRecord
      BY <1>11, <2>1, RecordTypes DEF ResolveManifest
    <2>3. QED
      BY <1>11, <2>1, <2>2, ImageType DEF ResolveManifest
  <1>12. ASSUME NEW p \in Requests, UpstreamUnauthenticated(p)
         PROVE  TypeInv'
    BY <1>12 DEF UpstreamUnauthenticated, LeaveSource, Outcomes
  <1>13. ASSUME NEW p \in Requests, UpstreamFails(p)
         PROVE  TypeInv'
    BY <1>13 DEF UpstreamFails, NextSource, LeaveSource, Outcomes
  <1>14. ASSUME NEW p \in Requests, CacheObject(p)
         PROVE  TypeInv'
    BY <1>14 DEF CacheObject
  <1>15. ASSUME NEW p \in Requests, CacheObjectFails(p)
         PROVE  TypeInv'
    BY <1>15 DEF CacheObjectFails
  <1>16. ASSUME NEW p \in Requests, RecordCacheBindings(p)
         PROVE  TypeInv'
    <2>1. bindings' \subseteq Binding
      BY <1>16, RecordTypes DEF RecordCacheBindings
    <2>2. QED
      BY <1>16, <2>1 DEF RecordCacheBindings
  <1>17. ASSUME NEW p \in Requests, RecordProvenance(p)
         PROVE  TypeInv'
    BY <1>17, SourceType DEF RecordProvenance, Provenance
  <1>18. ASSUME NEW p \in Requests, RecordTagMapping(p)
         PROVE  TypeInv'
    <2> DEFINE m == [digest |-> got[p], source |-> Source(p),
                     route |-> RouteOf(ask[p].repo), until |-> clock + TTL]
    <2>1. m \in Mapping
      BY <1>18, SourceType, PullConstants DEF RecordTagMapping, Mapping
    <2>2. ask[p].repo \in Repos /\ ask[p].ref \in Tags
      BY <1>18, PullConstants DEF RecordTagMapping
    <2>3. mappings' = [mappings EXCEPT ![ask[p].repo][ask[p].ref] = m]
      BY <1>18 DEF RecordTagMapping
    <2> HIDE DEF m
    <2>4. mappings' \in [Repos -> [Tags -> Mapping \cup {NoRow}]]
      BY <2>1, <2>2, <2>3
    <2>5. QED
      BY <1>18, <2>4 DEF RecordTagMapping
  <1>19. ASSUME NEW p \in Requests, RecordPullEvent(p)
         PROVE  TypeInv'
    BY <1>19 DEF RecordPullEvent
  <1>20. ASSUME NEW p \in Requests, RepositoryFault(p)
         PROVE  TypeInv'
    BY <1>20 DEF RepositoryFault
  <1>w. ASSUME NEW en, NEW cr, Watch(en, cr)
        PROVE  seen' \in [Requests -> BOOLEAN] /\ live' \in [Requests -> SUBSET Sources]
    BY <1>w DEF Watch, Held, Scanning
  <1>21. ASSUME NEW u \in Users, NEW on \in BOOLEAN, SetUserEnabled(u, on)
         PROVE  TypeInv'
    <2>1. seen' \in [Requests -> BOOLEAN] /\ live' \in [Requests -> SUBSET Sources]
      BY <1>21, <1>w DEF SetUserEnabled
    <2>2. QED
      BY <1>21, <2>1 DEF SetUserEnabled, requestVars
  <1>22. ASSUME NEW u \in Users, NEW s \in Sources, SaveCredential(u, s)
         PROVE  TypeInv'
    <2>1. seen' \in [Requests -> BOOLEAN] /\ live' \in [Requests -> SUBSET Sources]
      BY <1>22, <1>w DEF SaveCredential
    <2>2. creds' \in [Users -> [Sources -> Keys \cup {NoKey}]]
      BY <1>22, PullConstants DEF SaveCredential, Provider
    <2>3. QED
      BY <1>22, <2>1, <2>2 DEF SaveCredential, requestVars
  <1>23. ASSUME NEW u \in Users, NEW s \in Sources, RemoveCredential(u, s)
         PROVE  TypeInv'
    BY <1>23, PullConstants DEF RemoveCredential, requestVars
  <1>24. CASE Tick
    BY <1>24 DEF Tick, requestVars
  <1>25. ASSUME NEW c \in Configs, Restart(c)
         PROVE  TypeInv'
    BY <1>25 DEF Restart
  <1>26. CASE UNCHANGED vars
    BY <1>26 DEF vars
  <1>27. QED
    BY <1>1, <1>2, <1>3, <1>4, <1>5, <1>6, <1>7, <1>7a, <1>8, <1>9, <1>10, <1>11, <1>12,
       <1>13, <1>14, <1>15, <1>16, <1>17, <1>18, <1>19, <1>20, <1>21, <1>22, <1>23,
       <1>24, <1>25, <1>26
    DEF Next, Step, Environment

\* The pull path keeps its type.
THEOREM TypeCorrect == Spec => []TypeOK
  <1>1. Init => TypeInv
    BY InitTypeInv
  <1>2. TypeInv /\ [Next]_vars => TypeInv'
    BY StepTypeInv
  <1>3. TypeInv => TypeOK
    BY DEF TypeInv
  <1>4. QED
    BY <1>1, <1>2, <1>3, PTL DEF Spec

-----------------------------------------------------------------------------
(***************************************************************************)
(* Write order.  MappingBacked and BindingBacked are not inductive alone:  *)
(* what a request in flight has already made durable has to be known at    *)
(* each label.                                                             *)
(***************************************************************************)
Progress(p) ==
        /\ pc[p] = "cache" => Image(got[p]) \ todo[p] \subseteq store
        /\ pc[p] = "bind" => Image(got[p]) \subseteq store
        /\ pc[p] \in {"provenance", "map"} => NewBinding(p, got[p]) \in bindings
        /\ pc[p] = "map" =>
              [repo |-> ask[p].repo, ref |-> ask[p].ref, digest |-> got[p],
               source |-> Source(p)] \in provenance
ProgressInv == \A p \in Requests : Progress(p)

WriteInv == TypeInv /\ ProgressInv /\ BindingBacked /\ MappingBacked

\* A step that writes nothing durable and moves no request into the caching
\* phase preserves the write order.
Caching == {"cache", "bind", "provenance", "map"}
LEMMA QuietStep ==
    ASSUME WriteInv, UNCHANGED <<durable, config>>,
           \A q \in Requests : pc'[q] \in Caching =>
               /\ pc'[q] = pc[q] /\ ask'[q] = ask[q] /\ turn'[q] = turn[q]
               /\ via'[q] = via[q] /\ got'[q] = got[q] /\ todo'[q] = todo[q]
    PROVE  ProgressInv' /\ BindingBacked' /\ MappingBacked'
  <1>1. BindingBacked' /\ MappingBacked'
    BY DEF WriteInv, BindingBacked, Whole, MappingBacked, durable
  <1>2. ASSUME NEW q \in Requests, pc'[q] \in Caching
        PROVE  NewBinding(q, got[q])' = NewBinding(q, got[q]) /\ Source(q)' = Source(q)
    BY <1>2 DEF NewBinding, Source, Candidates, RouteOf, AccessOf, OwnerOf
  <1>3. ProgressInv'
    BY <1>2 DEF WriteInv, ProgressInv, Progress, durable, Caching
  <1>4. QED
    BY <1>1, <1>3

\* What the other requests have achieved survives a step that only adds to the
\* durable state.
LEMMA OthersKeep ==
    ASSUME WriteInv, UNCHANGED <<config, ask, turn, via, got>>,
           store \subseteq store', bindings \subseteq bindings', provenance \subseteq provenance',
           NEW q \in Requests, pc'[q] = pc[q], todo'[q] = todo[q]
    PROVE  Progress(q)'
  <1>1. NewBinding(q, got[q])' = NewBinding(q, got[q]) /\ Source(q)' = Source(q)
    BY DEF NewBinding, Source, Candidates, RouteOf, AccessOf, OwnerOf
  <1>2. QED
    BY <1>1 DEF WriteInv, ProgressInv, Progress

\* PutBlob adds an object of the request's image; what is already bound stays
\* complete, and the request reaches "bind" with its whole image stored.
LEMMA CacheObjectKeeps ==
    ASSUME WriteInv, NEW p \in Requests, CacheObject(p)
    PROVE  ProgressInv' /\ BindingBacked' /\ MappingBacked'
  <1>1. PICK o \in todo[p] : /\ store' = store \cup {o}
                             /\ todo' = [todo EXCEPT ![p] = @ \ {o}]
                             /\ Goto(p, IF todo[p] = {o} THEN "bind" ELSE "cache")
    BY DEF CacheObject
  <1>2. BindingBacked' /\ MappingBacked'
    BY <1>1 DEF CacheObject, WriteInv, BindingBacked, Whole, MappingBacked
  <1>3. pc \in [Requests -> Labels] /\ todo \in [Requests -> SUBSET Objects] /\ pc[p] = "cache"
    BY DEF WriteInv, TypeInv, TypeOK, CacheObject
  <1>4. Image(got[p]) \ todo'[p] \subseteq store' /\ pc'[p] \in {"bind", "cache"}
        /\ (pc'[p] = "bind" => todo'[p] = {})
    BY <1>1, <1>3 DEF WriteInv, ProgressInv, Progress, Goto
  <1>5. ASSUME NEW q \in Requests, q # p
        PROVE  pc'[q] = pc[q] /\ todo'[q] = todo[q]
    BY <1>1, <1>3, <1>5 DEF Goto
  <1>6. UNCHANGED <<config, ask, turn, via, got, bindings, provenance>> /\ store \subseteq store'
    BY <1>1 DEF CacheObject
  <1>7. ProgressInv'
    <2> SUFFICES ASSUME NEW q \in Requests PROVE Progress(q)'
      BY DEF ProgressInv
    <2>1. CASE q = p
      BY <1>4, <1>6, <2>1 DEF Progress
    <2>2. CASE q # p
      BY <1>5, <1>6, <2>2, OthersKeep
    <2>3. QED
      BY <2>1, <2>2
  <1>8. QED
    BY <1>2, <1>7

\* The binding transaction covers the whole image, which is stored by then.
LEMMA RecordBindingsKeeps ==
    ASSUME WriteInv, NEW p \in Requests, RecordCacheBindings(p)
    PROVE  ProgressInv' /\ BindingBacked' /\ MappingBacked'
  <1>1. /\ pc \in [Requests -> Labels] /\ pc[p] = "bind" /\ got[p] \in Manifests
        /\ pc' = [pc EXCEPT ![p] = "provenance"]
        /\ bindings' = bindings \cup {NewBinding(p, o) : o \in Image(got[p])}
        /\ UNCHANGED <<config, ask, turn, via, got, todo, store, provenance, mappings>>
    BY DEF WriteInv, TypeInv, TypeOK, RecordCacheBindings, Goto
  <1>2. BindingBacked'
    <2> SUFFICES ASSUME NEW b \in bindings', NEW o \in Image(b.manifest)
                 PROVE  o \in store' /\ [b EXCEPT !.object = o] \in bindings'
      BY DEF BindingBacked, Whole
    <2>1. CASE b \in bindings
      BY <1>1, <2>1 DEF WriteInv, BindingBacked, Whole
    <2>2. CASE b \notin bindings
      <3>1. PICK o1 \in Image(got[p]) : b = NewBinding(p, o1)
        BY <1>1, <2>2
      <3>2. b.manifest = got[p] /\ [b EXCEPT !.object = o] = NewBinding(p, o)
        BY <3>1 DEF NewBinding
      <3>3. QED
        BY <1>1, <3>2 DEF WriteInv, ProgressInv, Progress
    <2>3. QED
      BY <2>1, <2>2
  <1>3. MappingBacked'
    BY <1>1 DEF WriteInv, MappingBacked
  <1>4. NewBinding(p, got[p]) \in bindings'
    BY <1>1, ImageType
  <1>5. ProgressInv'
    <2> SUFFICES ASSUME NEW q \in Requests PROVE Progress(q)'
      BY DEF ProgressInv
    <2>1. CASE q = p
      <3>1. NewBinding(p, got[p])' = NewBinding(p, got[p])
        BY <1>1 DEF NewBinding, Source, Candidates, RouteOf, AccessOf, OwnerOf
      <3>2. QED
        BY <1>1, <1>4, <2>1, <3>1 DEF Progress
    <2>2. CASE q # p
      BY <1>1, <2>2, OthersKeep
    <2>3. QED
      BY <2>1, <2>2
  <1>6. QED
    BY <1>2, <1>3, <1>5

\* A provenance record is added after the bindings it explains.
LEMMA RecordProvenanceKeeps ==
    ASSUME WriteInv, NEW p \in Requests, RecordProvenance(p)
    PROVE  ProgressInv' /\ BindingBacked' /\ MappingBacked'
  <1> DEFINE rec == [repo |-> ask[p].repo, ref |-> ask[p].ref, digest |-> got[p],
                     source |-> Source(p)]
  <1>1. /\ pc \in [Requests -> Labels] /\ pc[p] = "provenance"
        /\ pc'[p] \in {"map", "event"}
        /\ \A q \in Requests : q # p => pc'[q] = pc[q]
        /\ provenance' = provenance \cup {rec}
        /\ UNCHANGED <<config, ask, turn, via, got, todo, store, bindings, mappings>>
    BY DEF WriteInv, TypeInv, TypeOK, RecordProvenance, Goto
  <1>2. BindingBacked' /\ MappingBacked'
    BY <1>1 DEF WriteInv, BindingBacked, Whole, MappingBacked
  <1>3. NewBinding(p, got[p])' = NewBinding(p, got[p]) /\ Source(p)' = Source(p)
    BY <1>1 DEF NewBinding, Source, Candidates, RouteOf, AccessOf, OwnerOf
  <1>4. ProgressInv'
    <2> SUFFICES ASSUME NEW q \in Requests PROVE Progress(q)'
      BY DEF ProgressInv
    <2>1. CASE q = p
      BY <1>1, <1>3, <2>1 DEF WriteInv, ProgressInv, Progress
    <2>2. CASE q # p
      BY <1>1, <2>2, OthersKeep
    <2>3. QED
      BY <2>1, <2>2
  <1>5. QED
    BY <1>2, <1>4

\* The tag mapping is written when its binding and provenance are there.
LEMMA RecordMappingKeeps ==
    ASSUME WriteInv, NEW p \in Requests, RecordTagMapping(p)
    PROVE  ProgressInv' /\ BindingBacked' /\ MappingBacked'
  <1> DEFINE m == [digest |-> got[p], source |-> Source(p),
                   route |-> RouteOf(ask[p].repo), until |-> clock + TTL]
  <1>1. /\ pc \in [Requests -> Labels] /\ pc[p] = "map"
        /\ pc' = [pc EXCEPT ![p] = "event"]
        /\ mappings \in [Repos -> [Tags -> Mapping \cup {NoRow}]]
        /\ mappings' = [mappings EXCEPT ![ask[p].repo][ask[p].ref] = m]
        /\ UNCHANGED <<config, ask, turn, via, got, todo, store, bindings, provenance>>
    BY DEF WriteInv, TypeInv, TypeOK, RecordTagMapping, Goto
  <1>2. BindingBacked'
    BY <1>1 DEF WriteInv, BindingBacked, Whole
  <1>3. ASSUME NEW r \in Repos, NEW t \in Tags, mappings'[r][t] # NoRow
        PROVE  /\ \E b \in bindings' : /\ b.repo = r /\ b.route = mappings'[r][t].route
                                        /\ b.source = mappings'[r][t].source
                                        /\ b.manifest = mappings'[r][t].digest
                                        /\ b.object = mappings'[r][t].digest
               /\ [repo |-> r, ref |-> t, digest |-> mappings'[r][t].digest,
                   source |-> mappings'[r][t].source] \in provenance'
    <2>1. CASE r = ask[p].repo /\ t = ask[p].ref
      <3>1. mappings'[r][t] = m
        BY <1>1, <2>1
      <3>2. NewBinding(p, got[p]) \in bindings
            /\ [repo |-> r, ref |-> t, digest |-> got[p], source |-> Source(p)] \in provenance
        BY <1>1, <2>1 DEF WriteInv, ProgressInv, Progress
      <3>3. QED
        BY <1>1, <2>1, <3>1, <3>2 DEF NewBinding
    <2>2. CASE ~(r = ask[p].repo /\ t = ask[p].ref)
      <3>1. mappings'[r][t] = mappings[r][t]
        <4> HIDE DEF m
        <4>1. CASE r # ask[p].repo
          BY <1>1, <4>1
        <4>2. CASE r = ask[p].repo
          <5>1. mappings'[r] = [mappings[r] EXCEPT ![ask[p].ref] = m]
            BY <1>1, <4>2
          <5>2. t # ask[p].ref /\ mappings[r] \in [Tags -> Mapping \cup {NoRow}]
            BY <1>1, <2>2, <4>2
          <5>3. QED
            BY <5>1, <5>2
        <4>3. QED
          BY <4>1, <4>2
      <3>2. UNCHANGED <<bindings, provenance>>
        BY <1>1
      <3> HIDE DEF m
      <3>3. QED
        BY <1>3, <3>1, <3>2 DEF WriteInv, MappingBacked
    <2>3. QED
      BY <2>1, <2>2
  <1>4. MappingBacked'
    BY <1>3 DEF MappingBacked
  <1>5. ProgressInv'
    <2> SUFFICES ASSUME NEW q \in Requests PROVE Progress(q)'
      BY DEF ProgressInv
    <2>1. CASE q = p
      BY <1>1, <2>1 DEF Progress
    <2>2. CASE q # p
      BY <1>1, <2>2, OthersKeep
    <2>3. QED
      BY <2>1, <2>2
  <1>6. QED
    BY <1>2, <1>4, <1>5

\* The upstream's answer starts the caching phase with everything to store.
LEMMA ResolveManifestKeeps ==
    ASSUME WriteInv, NEW p \in Requests, ResolveManifest(p)
    PROVE  ProgressInv' /\ BindingBacked' /\ MappingBacked'
  <1>1. /\ pc \in [Requests -> Labels] /\ pc' = [pc EXCEPT ![p] = "cache"]
        /\ got \in [Requests -> Manifests] /\ todo \in [Requests -> SUBSET Objects]
        /\ UNCHANGED <<config, durable, ask, turn, via>>
    BY DEF WriteInv, TypeInv, TypeOK, ResolveManifest, Goto
  <1>2. PICK m \in Manifests : /\ got' = [got EXCEPT ![p] = m]
                              /\ todo' = [todo EXCEPT ![p] = Image(m)]
    BY DEF ResolveManifest
  <1>3. BindingBacked' /\ MappingBacked'
    BY <1>1 DEF WriteInv, BindingBacked, Whole, MappingBacked, durable
  <1>4. ProgressInv'
    <2> SUFFICES ASSUME NEW q \in Requests PROVE Progress(q)'
      BY DEF ProgressInv
    <2>1. CASE q = p
      BY <1>1, <1>2, <2>1 DEF Progress
    <2>2. CASE q # p
      <3>1. pc'[q] = pc[q] /\ got'[q] = got[q] /\ todo'[q] = todo[q]
        BY <1>1, <1>2, <2>2
      <3>2. NewBinding(q, got[q])' = NewBinding(q, got[q]) /\ Source(q)' = Source(q)
        BY <1>1, <3>1 DEF NewBinding, Source, Candidates, RouteOf, AccessOf, OwnerOf
      <3>3. QED
        BY <1>1, <3>1, <3>2 DEF WriteInv, ProgressInv, Progress, durable
    <2>3. QED
      BY <2>1, <2>2
  <1>5. QED
    BY <1>3, <1>4

\* Every step of the pull path keeps the write order.
LEMMA StepWriteInv ==
    ASSUME WriteInv, [Next]_vars
    PROVE  WriteInv'
  <1> USE DEF Goto, Finish, Caching, durable
  <1>0. TypeInv'
    BY StepTypeInv DEF WriteInv
  <1>t. /\ pc \in [Requests -> Labels] /\ ask \in [Requests -> Asks]
        /\ turn \in [Requests -> Nat \ {0}] /\ via \in [Requests -> Connected]
        /\ got \in [Requests -> Manifests] /\ todo \in [Requests -> SUBSET Objects]
    BY DEF WriteInv, TypeInv, TypeOK
  <1> DEFINE Kept == ProgressInv' /\ BindingBacked' /\ MappingBacked'
  <1>1. ASSUME NEW p \in Requests, NEW a \in Asks, StartRequest(p, a)
        PROVE  Kept
    BY <1>1, <1>t, QuietStep DEF StartRequest
  <1>2. ASSUME NEW p \in Requests, LookupTag(p)
        PROVE  Kept
    BY <1>2, <1>t, QuietStep DEF LookupTag
  <1>3. ASSUME NEW p \in Requests, ListCacheBindings(p)
        PROVE  Kept
    BY <1>3, <1>t, QuietStep DEF ListCacheBindings
  <1>4. ASSUME NEW p \in Requests, CheckUser(p) \/ CheckCredential(p)
        PROVE  Kept
    <2>1. PICK b : \/ UseBinding(p, b) \/ PassBinding(p, b)
                   \/ Goto(p, "credential") /\ UNCHANGED <<found, rest, answer>>
      BY <1>4 DEF CheckUser, CheckCredential
    <2>2. PICK at \in {"select", "done", "serve", "binding", "credential"} :
             pc' = [pc EXCEPT ![p] = at]
      BY <2>1 DEF UseBinding, PassBinding, MissCache
    <2>3. UNCHANGED <<durable, config, ask, turn, via, got, todo>>
      BY <1>4 DEF CheckUser, CheckCredential
    <2>4. QED
      BY <2>2, <2>3, <1>t, QuietStep
  <1>5. ASSUME NEW p \in Requests, CacheMiss(p)
        PROVE  Kept
    BY <1>5, <1>t, QuietStep DEF CacheMiss, MissCache
  <1>6. ASSUME NEW p \in Requests, ServeCached(p)
        PROVE  Kept
    BY <1>6, <1>t, QuietStep DEF ServeCached, MissCache
  <1>7. ASSUME NEW p \in Requests, SelectConnector(p)
        PROVE  Kept
    BY <1>7, <1>t, QuietStep DEF SelectConnector
  <1>7a. ASSUME NEW p \in Requests, FindCredential(p)
        PROVE  Kept
    BY <1>7a, <1>t, QuietStep DEF FindCredential
  <1>8. ASSUME NEW p \in Requests, SkipSource(p)
        PROVE  Kept
    BY <1>8, <1>t, QuietStep DEF SkipSource, NextSource, LeaveSource
  <1>9. ASSUME NEW p \in Requests, RefuseSource(p)
        PROVE  Kept
    BY <1>9, <1>t, QuietStep DEF RefuseSource, LeaveSource
  <1>10. ASSUME NEW p \in Requests, Exhausted(p)
        PROVE  Kept
    BY <1>10, <1>t, QuietStep DEF Exhausted
  <1>11. ASSUME NEW p \in Requests, UpstreamUnauthenticated(p)
        PROVE  Kept
    BY <1>11, <1>t, QuietStep DEF UpstreamUnauthenticated, LeaveSource
  <1>12. ASSUME NEW p \in Requests, UpstreamFails(p)
        PROVE  Kept
    BY <1>12, <1>t, QuietStep DEF UpstreamFails, NextSource, LeaveSource
  <1>13. ASSUME NEW p \in Requests, CacheObjectFails(p)
        PROVE  Kept
    BY <1>13, <1>t, QuietStep DEF CacheObjectFails
  <1>14. ASSUME NEW p \in Requests, RecordPullEvent(p)
        PROVE  Kept
    BY <1>14, <1>t, QuietStep DEF RecordPullEvent
  <1>15. ASSUME NEW p \in Requests, RepositoryFault(p)
        PROVE  Kept
    BY <1>15, <1>t, QuietStep DEF RepositoryFault
  <1>16. ASSUME NEW p \in Requests, ResolveManifest(p)
        PROVE  Kept
    BY <1>16, ResolveManifestKeeps
  <1>17. ASSUME NEW p \in Requests, CacheObject(p)
        PROVE  Kept
    BY <1>17, CacheObjectKeeps
  <1>18. ASSUME NEW p \in Requests, RecordCacheBindings(p)
        PROVE  Kept
    BY <1>18, RecordBindingsKeeps
  <1>19. ASSUME NEW p \in Requests, RecordProvenance(p)
        PROVE  Kept
    BY <1>19, RecordProvenanceKeeps
  <1>20. ASSUME NEW p \in Requests, RecordTagMapping(p)
        PROVE  Kept
    BY <1>20, RecordMappingKeeps
  <1>21. ASSUME NEW u \in Users, NEW on \in BOOLEAN, SetUserEnabled(u, on)
        PROVE  Kept
    BY <1>21, QuietStep DEF SetUserEnabled, requestVars
  <1>22. ASSUME NEW u \in Users, NEW s \in Sources, SaveCredential(u, s)
        PROVE  Kept
    BY <1>22, QuietStep DEF SaveCredential, requestVars
  <1>23. ASSUME NEW u \in Users, NEW s \in Sources, RemoveCredential(u, s)
        PROVE  Kept
    BY <1>23, QuietStep DEF RemoveCredential, requestVars
  <1>24. ASSUME Tick
        PROVE  Kept
    BY <1>24, QuietStep DEF Tick, requestVars
  <1>25. ASSUME NEW c \in Configs, Restart(c)
        PROVE  Kept
    BY <1>25 DEF Restart, WriteInv, ProgressInv, Progress, BindingBacked, Whole, MappingBacked
  <1>26. ASSUME UNCHANGED vars
        PROVE  Kept
    BY <1>26, QuietStep DEF vars
  <1>27. Kept
    BY <1>1, <1>2, <1>3, <1>4, <1>5, <1>6, <1>7, <1>7a, <1>8, <1>9, <1>10, <1>11, <1>12, <1>13,
       <1>14, <1>15, <1>16, <1>17, <1>18, <1>19, <1>20, <1>21, <1>22, <1>23, <1>24, <1>25, <1>26
    DEF Next, Step, Environment
  <1>28. QED
    BY <1>0, <1>27 DEF WriteInv

\* The empty repository and store satisfy the write order.
LEMMA InitWriteInv == Init => WriteInv
  BY InitTypeInv, PullConstants
  DEF Init, WriteInv, ProgressInv, Progress, BindingBacked, Whole, MappingBacked

\* The write order of a pull (content, then bindings in one transaction, then
\* provenance and tag mapping) leaves, at every interruption and under every
\* interleaving, only bindings whose image is complete and mappings that are
\* bound and explained.
THEOREM CacheConsistent == Spec => []CacheSound
  <1>1. WriteInv /\ [Next]_vars => WriteInv'
    BY StepWriteInv
  <1>2. WriteInv => CacheSound
    BY DEF WriteInv, CacheSound
  <1>3. QED
    BY InitWriteInv, <1>1, <1>2, PTL DEF Spec

-----------------------------------------------------------------------------
(***************************************************************************)
(* Authorization of replays.  The inductive invariant ties each binding to *)
(* the upstream fetch it was recorded for, each request in the caching     *)
(* phase to its own fetch, and each request that tries bindings to what    *)
(* has been noted since it listed them: its principal, if enabled now, has *)
(* been seen enabled, and what it holds now is among what it held.         *)
(***************************************************************************)
BindingsJustified == \A b \in bindings : b.object \in Image(b.manifest) /\ KeptImage(b) \in fetched
FetchKnown == \A p \in Requests : pc[p] \in {"cache", "bind"} => Fetch(p, got[p]) \in fetched
Noted(p) ==
    /\ ask[p].who \in enabledUsers => seen[p]
    /\ seen[p] => Held(ask[p].who, creds) \subseteq live[p]
    /\ rest[p] \subseteq Usable(ask[p].repo, Wanted(p))
    /\ pc[p] = "credential" => seen[p]
ScanKnown  == \A p \in Requests : Scanning(p) => Noted(p)
Serving(p) == pc[p] = "serve" \/ (pc[p] = "done" /\ answer[p] = "hit")
ServeJustified == \A p \in Requests : Serving(p) => Justified(p)

ReplayInv == TypeInv /\ BindingsJustified /\ FetchKnown /\ ScanKnown /\ ServeJustified

ReplyOf(p) == [who |-> ask[p].who, repo |-> ask[p].repo, route |-> RouteOf(ask[p].repo),
               object |-> Wanted(p)]

\* What a binding is used on: it is public; or it was fetched with the shared
\* identity and the user has just been found enabled; or it is the user's own
\* and the credential has just been found.
Allowed(p, b) ==
    \/ b.access = "challenge"
    \/ b.access = "proxy" /\ ask[p].who # Anonymous /\ ask[p].who \in enabledUsers
    \/ /\ b.access = "current_user_required" /\ b.user = ask[p].who /\ ask[p].who # Anonymous
       /\ pc[p] = "credential" /\ creds[ask[p].who][b.source] # NoKey

\* A step of the scan tries one of the listed bindings and uses it, passes on,
\* or goes on to read the credential of a user found enabled.
LEMMA ScanStep ==
    ASSUME NEW p \in Requests, CheckUser(p) \/ CheckCredential(p)
    PROVE  /\ Scanning(p)
           /\ UNCHANGED <<config, people, ghosts, ask, bindings, turn, via, got>>
           /\ \E b \in rest[p] :
                 \/ UseBinding(p, b) /\ Allowed(p, b)
                 \/ PassBinding(p, b)
                 \/ /\ ask[p].who \in enabledUsers
                    /\ Goto(p, "credential") /\ UNCHANGED <<found, rest, answer>>
  <1>1. CASE CheckUser(p)
    BY <1>1 DEF CheckUser, FirstOf, MayReplay, Scanning, Allowed, durable
  <1>2. CASE CheckCredential(p)
    BY <1>2 DEF CheckCredential, FirstOf, MayReplay, Scanning, Allowed, durable
  <1>3. QED
    BY <1>1, <1>2

\* A binding that is used justifies the request, and its image the reply.
LEMMA UseJustifies ==
    ASSUME ReplayInv, NEW p \in Requests, Scanning(p), NEW b \in rest[p], Allowed(p, b)
    PROVE  /\ Justified(p)
           /\ KeptImage(b) \in {KeptImage(x) : x \in bindings}
           /\ Cache!Justifies(KeptImage(b), ReplyOf(p))
  <1>1. Noted(p)
    BY DEF ReplayInv, ScanKnown
  <1>2. /\ b \in bindings /\ b.repo = ask[p].repo /\ b.route = RouteOf(ask[p].repo)
        /\ b.object = Wanted(p)
    BY <1>1 DEF Noted, Usable
  <1>3. b \in Binding
    BY <1>2 DEF ReplayInv, TypeInv, TypeOK
  <1>4. KeptImage(b) \in fetched /\ b.object \in Image(b.manifest)
    BY <1>2 DEF ReplayInv, BindingsJustified
  <1>5. b.access = "proxy" => ask[p].who # Anonymous /\ seen[p]
    BY <1>1 DEF Noted, Allowed
  <1>6. ask[p].who \in Principals
    BY PullConstants DEF ReplayInv, TypeInv, TypeOK
  <1>7. b.access = "current_user_required" => b.user = ask[p].who /\ b.source \in live[p]
    BY <1>1, <1>3, <1>6 DEF Noted, Allowed, Held, Binding, Principals
  <1>8. b.access \in Access
    BY <1>3 DEF Binding
  <1>9. Justified(p)
    BY <1>2, <1>4, <1>5, <1>7, <1>8 DEF Justified, KeptImage, Access
  <1>10. Cache!Justifies(KeptImage(b), ReplyOf(p))
    BY <1>2, <1>4, <1>5, <1>7, <1>8 DEF Cache!Justifies, KeptImage, ReplyOf, Access
  <1>11. QED
    BY <1>2, <1>9, <1>10

\* A step that keeps the configuration, forgets no fetch, nothing that was
\* noted, and starts no serving leaves the justifications in place.
LEMMA StillJustified ==
    ASSUME ReplayInv, UNCHANGED config, fetched \subseteq fetched',
           \A q \in Requests : Serving(q)' =>
               /\ Serving(q) /\ ask'[q] = ask[q] /\ found'[q] = found[q]
               /\ seen[q] => seen'[q]
               /\ live[q] \subseteq live'[q]
    PROVE  ServeJustified'
  <1> SUFFICES ASSUME NEW q \in Requests, Serving(q)' PROVE Justified(q)'
    BY DEF ServeJustified
  <1>1. Justified(q)
    BY DEF ReplayInv, ServeJustified
  <1>2. Wanted(q)' = Wanted(q) /\ RouteOf(ask[q].repo)' = RouteOf(ask[q].repo)
    BY DEF Wanted, RouteOf
  <1>3. QED
    BY <1>1, <1>2 DEF Justified

\* Fetches stay known while the request that made them keeps its place.
LEMMA FetchStays ==
    ASSUME ReplayInv, UNCHANGED config, fetched \subseteq fetched',
           NEW q \in Requests, pc'[q] \in {"cache", "bind"}, pc[q] \in {"cache", "bind"},
           ask'[q] = ask[q], turn'[q] = turn[q], via'[q] = via[q], got'[q] = got[q]
    PROVE  Fetch(q, got[q])' \in fetched'
  <1>1. Fetch(q, got[q])' = Fetch(q, got[q])
    BY DEF Fetch, Source, Candidates, RouteOf, AccessOf, OwnerOf
  <1>2. QED
    BY <1>1 DEF ReplayInv, FetchKnown

\* The bindings listed for a request stay usable: rows are only added, and the
\* configuration is the one it was started under.
LEMMA RestStays ==
    ASSUME UNCHANGED config, bindings \subseteq bindings', NEW q \in Requests, Noted(q),
           ask'[q] = ask[q], found'[q] = found[q], rest'[q] \subseteq rest[q]
    PROVE  rest'[q] \subseteq Usable(ask[q].repo, Wanted(q))'
  <1>1. Wanted(q)' = Wanted(q) /\ RouteOf(ask[q].repo)' = RouteOf(ask[q].repo)
        /\ CandidateSet(ask[q].repo)' = CandidateSet(ask[q].repo)
    BY DEF Wanted, RouteOf, CandidateSet, Candidates
  <1>2. Usable(ask[q].repo, Wanted(q)) \subseteq Usable(ask[q].repo, Wanted(q))'
    BY <1>1 DEF Usable
  <1>3. QED
    BY <1>2 DEF Noted

\* A request that goes on trying the bindings it has listed, while accounts
\* and credentials stay as they are, knows what it knew.
LEMMA ScanStays ==
    ASSUME ReplayInv, UNCHANGED <<config, people, since>>, bindings \subseteq bindings',
           \A q \in Requests : Scanning(q)' =>
               /\ Scanning(q) /\ ask'[q] = ask[q] /\ found'[q] = found[q]
               /\ rest'[q] \subseteq rest[q]
               /\ pc'[q] = "credential" => pc[q] = "credential" \/ ask[q].who \in enabledUsers
    PROVE  ScanKnown'
  <1> SUFFICES ASSUME NEW q \in Requests, Scanning(q)' PROVE Noted(q)'
    BY DEF ScanKnown
  <1>1. Noted(q)
    BY DEF ReplayInv, ScanKnown
  <1>2. rest'[q] \subseteq Usable(ask[q].repo, Wanted(q))'
    BY <1>1, RestStays
  <1>3. Held(ask[q].who, creds)' = Held(ask[q].who, creds)
    BY DEF Held, people
  <1>4. QED
    BY <1>1, <1>2, <1>3 DEF Noted, people, since

\* A step that touches neither people, bindings nor fetches, and starts
\* neither a scan, a caching phase nor a replay.
LEMMA CalmStep ==
    ASSUME ReplayInv, UNCHANGED <<config, people, ghosts, ask, bindings>>,
           \A q \in Requests :
               /\ Scanning(q)' =>
                     /\ Scanning(q) /\ found'[q] = found[q] /\ rest'[q] \subseteq rest[q]
                     /\ pc'[q] = "credential" =>
                           pc[q] = "credential" \/ ask[q].who \in enabledUsers
               /\ pc'[q] \in {"cache", "bind"} =>
                     /\ pc[q] \in {"cache", "bind"} /\ turn'[q] = turn[q]
                     /\ via'[q] = via[q] /\ got'[q] = got[q]
               /\ Serving(q)' => Serving(q) /\ found'[q] = found[q]
    PROVE  BindingsJustified' /\ FetchKnown' /\ ScanKnown' /\ ServeJustified'
  <1>1. BindingsJustified'
    BY DEF ReplayInv, BindingsJustified, ghosts, KeptImage
  <1>2. FetchKnown'
    BY FetchStays DEF FetchKnown, ghosts
  <1>3. ScanKnown'
    BY ScanStays DEF ghosts
  <1>4. ServeJustified'
    BY StillJustified DEF ghosts, since
  <1>5. QED
    BY <1>1, <1>2, <1>3, <1>4

\* A request starts to serve only what a binding justifies that it may use.
LEMMA ScanJustified ==
    ASSUME ReplayInv, NEW p \in Requests, CheckUser(p) \/ CheckCredential(p)
    PROVE  BindingsJustified' /\ FetchKnown' /\ ScanKnown' /\ ServeJustified'
  <1>1. /\ UNCHANGED <<config, people, ghosts, ask, bindings, turn, via, got>>
        /\ pc \in [Requests -> Labels] /\ Scanning(p)
        /\ answer \in [Requests -> Answers] /\ found \in [Requests -> Mapping \cup {NoRow}]
        /\ rest \in [Requests -> SUBSET Binding]
    BY ScanStep DEF ReplayInv, TypeInv, TypeOK
  <1>2. PICK b \in rest[p] :
           \/ UseBinding(p, b) /\ Allowed(p, b)
           \/ PassBinding(p, b)
           \/ /\ ask[p].who \in enabledUsers
              /\ Goto(p, "credential") /\ UNCHANGED <<found, rest, answer>>
    BY ScanStep
  <1>3. CASE PassBinding(p, b)
    BY <1>1, <1>3, CalmStep DEF PassBinding, Goto, Finish, Scanning, Serving
  <1>4. CASE ask[p].who \in enabledUsers /\ Goto(p, "credential") /\ UNCHANGED <<found, rest, answer>>
    BY <1>1, <1>4, CalmStep DEF Goto, Scanning, Serving
  <1>5. CASE UseBinding(p, b) /\ MissCache(p)
    BY <1>1, <1>5, CalmStep DEF UseBinding, MissCache, Goto, Finish, Scanning, Serving
  <1>6. CASE UseBinding(p, b) /\ Allowed(p, b) /\ Goto(p, "serve") /\ UNCHANGED <<found, answer>>
    <2>1. Justified(p)
      BY <1>1, <1>6, UseJustifies
    <2>2. BindingsJustified'
      BY <1>1 DEF ReplayInv, BindingsJustified, ghosts, KeptImage
    <2>3. FetchKnown'
      BY <1>1, <1>6, FetchStays DEF FetchKnown, ghosts, Goto
    <2>4. ScanKnown'
      BY <1>1, <1>6, ScanStays DEF ghosts, Goto, UseBinding, Scanning
    <2>5. ASSUME NEW q \in Requests, Serving(q)'
          PROVE  Justified(q)'
      <3>1. Justified(q)
        BY <1>1, <1>6, <2>1, <2>5 DEF Serving, Goto, ReplayInv, ServeJustified
      <3>2. Wanted(q)' = Wanted(q) /\ RouteOf(ask[q].repo)' = RouteOf(ask[q].repo)
        BY <1>1, <1>6 DEF Wanted, RouteOf
      <3>3. QED
        BY <1>1, <3>1, <3>2 DEF Justified, ghosts, since
    <2>6. QED
      BY <2>2, <2>3, <2>4, <2>5 DEF ServeJustified
  <1>7. QED
    BY <1>2, <1>3, <1>4, <1>5, <1>6 DEF UseBinding

\* The listing notes who is enabled and what is held at its moment.
LEMMA ListJustified ==
    ASSUME ReplayInv, NEW p \in Requests, ListCacheBindings(p)
    PROVE  BindingsJustified' /\ FetchKnown' /\ ScanKnown' /\ ServeJustified'
  <1>1. /\ UNCHANGED <<config, people, fetched, ask, bindings, found, turn, via, got, answer>>
        /\ pc \in [Requests -> Labels] /\ rest \in [Requests -> SUBSET Binding]
        /\ seen \in [Requests -> BOOLEAN] /\ live \in [Requests -> SUBSET Sources]
        /\ pc' = [pc EXCEPT ![p] = "binding"] /\ pc[p] = "authorize"
        /\ \A q \in Requests : q # p =>
              rest'[q] = rest[q] /\ seen'[q] = seen[q] /\ live'[q] = live[q]
    BY DEF ListCacheBindings, Goto, durable, ReplayInv, TypeInv, TypeOK
  <1>2. BindingsJustified'
    BY <1>1 DEF ReplayInv, BindingsJustified, KeptImage
  <1>3. FetchKnown'
    BY <1>1, FetchStays DEF FetchKnown
  <1>4. ScanKnown'
    <2> SUFFICES ASSUME NEW q \in Requests, Scanning(q)' PROVE Noted(q)'
      BY DEF ScanKnown
    <2>1. CASE q = p
      <3>1. /\ rest'[p] = Usable(ask[p].repo, Wanted(p))
            /\ seen'[p] = (ask[p].who \in enabledUsers)
            /\ live'[p] = IF ask[p].who \in enabledUsers THEN Held(ask[p].who, creds) ELSE {}
        BY <1>1 DEF ListCacheBindings
      <3>2. Usable(ask[p].repo, Wanted(p))' = Usable(ask[p].repo, Wanted(p))
        BY <1>1 DEF Usable, Wanted, RouteOf, CandidateSet, Candidates
      <3>3. Held(ask[p].who, creds)' = Held(ask[p].who, creds)
        BY <1>1 DEF Held, people
      <3>4. pc'[p] = "binding"
        BY <1>1
      <3>5. QED
        BY <1>1, <2>1, <3>1, <3>2, <3>3, <3>4 DEF Noted, people
    <2>2. CASE q # p
      <3>1. Scanning(q) /\ pc'[q] = pc[q]
        BY <1>1, <2>2 DEF Scanning
      <3>2. Noted(q)
        BY <3>1 DEF ReplayInv, ScanKnown
      <3>3. rest'[q] \subseteq Usable(ask[q].repo, Wanted(q))'
        BY <1>1, <2>2, <3>2, RestStays
      <3>4. Held(ask[q].who, creds)' = Held(ask[q].who, creds)
        BY <1>1 DEF Held, people
      <3>5. QED
        BY <1>1, <2>2, <3>1, <3>2, <3>3, <3>4 DEF Noted, people
    <2>3. QED
      BY <2>1, <2>2
  <1>5. ServeJustified'
    BY <1>1, StillJustified DEF Serving
  <1>6. QED
    BY <1>2, <1>3, <1>4, <1>5

\* An upstream answer adds the fetch its request is then known to have made.
LEMMA ResolveJustified ==
    ASSUME ReplayInv, NEW p \in Requests, ResolveManifest(p)
    PROVE  BindingsJustified' /\ FetchKnown' /\ ScanKnown' /\ ServeJustified'
  <1>1. /\ UNCHANGED <<config, people, since, ask, bindings, turn, via, found, rest, answer>>
        /\ pc \in [Requests -> Labels] /\ pc' = [pc EXCEPT ![p] = "cache"]
        /\ pc[p] = "resolve" /\ got \in [Requests -> Manifests]
    BY DEF ResolveManifest, durable, Goto, ReplayInv, TypeInv, TypeOK
  <1>2. PICK m \in Manifests : /\ got' = [got EXCEPT ![p] = m]
                              /\ fetched' = fetched \cup {Fetch(p, m)}
    BY DEF ResolveManifest
  <1>3. BindingsJustified'
    BY <1>1, <1>2 DEF ReplayInv, BindingsJustified, KeptImage
  <1>4. ASSUME NEW q \in Requests, pc'[q] \in {"cache", "bind"}
        PROVE  Fetch(q, got[q])' \in fetched'
    <2>1. CASE q = p
      <3>1. Fetch(p, got[p])' = Fetch(p, m)
        BY <1>1, <1>2 DEF Fetch, Source, Candidates, RouteOf, AccessOf, OwnerOf
      <3>2. QED
        BY <1>2, <2>1, <3>1
    <2>2. CASE q # p
      BY <1>1, <1>2, <1>4, <2>2, FetchStays
    <2>3. QED
      BY <2>1, <2>2
  <1>5. ScanKnown'
    BY <1>1, ScanStays DEF Scanning
  <1>6. ServeJustified'
    BY <1>1, <1>2, StillJustified DEF Serving, since
  <1>7. QED
    BY <1>3, <1>4, <1>5, <1>6 DEF FetchKnown

\* The bindings written are those of the request's own upstream fetch.
LEMMA BindJustified ==
    ASSUME ReplayInv, NEW p \in Requests, RecordCacheBindings(p)
    PROVE  BindingsJustified' /\ FetchKnown' /\ ScanKnown' /\ ServeJustified'
  <1>1. /\ UNCHANGED <<config, people, ghosts, ask, turn, via, got, found, rest, answer>>
        /\ pc \in [Requests -> Labels] /\ pc' = [pc EXCEPT ![p] = "provenance"]
        /\ pc[p] = "bind"
        /\ bindings' = bindings \cup {NewBinding(p, o) : o \in Image(got[p])}
    BY DEF RecordCacheBindings, Goto, ReplayInv, TypeInv, TypeOK
  <1>2. \A o \in Image(got[p]) : /\ NewBinding(p, o).object = o
                                 /\ NewBinding(p, o).manifest = got[p]
                                 /\ KeptImage(NewBinding(p, o)) = Fetch(p, got[p])
    BY DEF NewBinding, KeptImage, Fetch
  <1>3. Fetch(p, got[p]) \in fetched
    BY <1>1 DEF ReplayInv, FetchKnown
  <1>4. ASSUME NEW b \in bindings'
        PROVE  KeptImage(b) \in fetched /\ b.object \in Image(b.manifest)
    <2>1. CASE b \in bindings
      BY <2>1 DEF ReplayInv, BindingsJustified
    <2>2. CASE b \notin bindings
      <3>1. PICK o \in Image(got[p]) : b = NewBinding(p, o)
        BY <1>1, <1>4, <2>2
      <3>2. QED
        BY <1>2, <1>3, <3>1
    <2>3. QED
      BY <2>1, <2>2
  <1>4a. BindingsJustified'
    BY <1>1, <1>4 DEF BindingsJustified, ghosts, KeptImage
  <1>5. FetchKnown'
    BY <1>1, FetchStays DEF FetchKnown, ghosts
  <1>6. ScanKnown'
    BY <1>1, ScanStays DEF ghosts, Scanning
  <1>7. ServeJustified'
    BY <1>1, StillJustified DEF Serving, ghosts, since
  <1>8. QED
    BY <1>4a, <1>5, <1>6, <1>7

\* A new request looks up its tag or lists the bindings first.
LEMMA StartJustified ==
    ASSUME ReplayInv, NEW p \in Requests, NEW a \in Asks, StartRequest(p, a)
    PROVE  BindingsJustified' /\ FetchKnown' /\ ScanKnown' /\ ServeJustified'
  <1>1. /\ UNCHANGED <<config, people, ghosts, bindings, via, got, rest>>
        /\ pc \in [Requests -> Labels] /\ ask \in [Requests -> Asks]
        /\ found \in [Requests -> Mapping \cup {NoRow}]
        /\ turn \in [Requests -> Nat \ {0}] /\ answer \in [Requests -> Answers]
        /\ pc'[p] \in {"lookup", "authorize"}
        /\ \A q \in Requests : q # p =>
              /\ pc'[q] = pc[q] /\ ask'[q] = ask[q] /\ found'[q] = found[q]
              /\ turn'[q] = turn[q] /\ answer'[q] = answer[q]
    BY DEF StartRequest, Goto, durable, ReplayInv, TypeInv, TypeOK
  <1>2. BindingsJustified'
    BY <1>1 DEF ReplayInv, BindingsJustified, KeptImage, ghosts
  <1>3. FetchKnown'
    BY <1>1, FetchStays DEF FetchKnown, ghosts
  <1>4. ScanKnown'
    BY <1>1, ScanStays DEF Scanning, ghosts
  <1>5. ServeJustified'
    BY <1>1, StillJustified DEF Serving, ghosts, since
  <1>6. QED
    BY <1>2, <1>3, <1>4, <1>5

\* Accounts and credentials change: the requests that try bindings note it.
LEMMA PeopleJustified ==
    ASSUME ReplayInv, UNCHANGED <<config, durable, requestVars>>,
           \A q \in Requests :
               /\ seen[q] => seen'[q]
               /\ live[q] \subseteq live'[q]
               /\ Scanning(q) =>
                     /\ ask[q].who \in enabledUsers' => seen'[q]
                     /\ seen'[q] => Held(ask[q].who, creds') \subseteq live'[q]
    PROVE  BindingsJustified' /\ FetchKnown' /\ ScanKnown' /\ ServeJustified'
  <1>1. BindingsJustified'
    BY DEF ReplayInv, BindingsJustified, KeptImage, durable, requestVars
  <1>2. FetchKnown'
    BY FetchStays DEF FetchKnown, requestVars
  <1>3. ScanKnown'
    <2> SUFFICES ASSUME NEW q \in Requests, Scanning(q)' PROVE Noted(q)'
      BY DEF ScanKnown
    <2>1. Scanning(q) /\ UNCHANGED <<pc, ask, found, rest, bindings>>
      BY DEF Scanning, requestVars, durable
    <2>2. Noted(q)
      BY <2>1 DEF ReplayInv, ScanKnown
    <2>3. rest'[q] \subseteq Usable(ask[q].repo, Wanted(q))'
      BY <2>1, <2>2, RestStays
    <2>4. Held(ask[q].who, creds)' = Held(ask[q].who, creds')
      BY <2>1 DEF Held
    <2>5. QED
      BY <2>1, <2>2, <2>3, <2>4 DEF Noted
  <1>4. ServeJustified'
    BY StillJustified DEF Serving, requestVars
  <1>5. QED
    BY <1>1, <1>2, <1>3, <1>4

\* Watch notes what the requests that try bindings have to know.
LEMMA WatchNotes ==
    ASSUME seen \in [Requests -> BOOLEAN], live \in [Requests -> SUBSET Sources],
           NEW en, NEW cr, Watch(en, cr), NEW q \in Requests
    PROVE  /\ seen[q] => seen'[q]
           /\ live[q] \subseteq live'[q]
           /\ Scanning(q) =>
                 /\ ask[q].who \in en => seen'[q]
                 /\ seen'[q] => Held(ask[q].who, cr) \subseteq live'[q]
  BY DEF Watch

\* Every step keeps the replay invariant.
LEMMA StepReplayInv ==
    ASSUME ReplayInv, [Next]_vars
    PROVE  ReplayInv'
  <1>0. TypeInv'
    BY StepTypeInv DEF ReplayInv
  <1>t. /\ pc \in [Requests -> Labels] /\ turn \in [Requests -> Nat \ {0}]
        /\ via \in [Requests -> Connected] /\ got \in [Requests -> Manifests]
        /\ found \in [Requests -> Mapping \cup {NoRow}]
        /\ answer \in [Requests -> Answers]
        /\ seen \in [Requests -> BOOLEAN] /\ live \in [Requests -> SUBSET Sources]
        /\ creds \in [Users -> [Sources -> Keys \cup {NoKey}]]
    BY DEF ReplayInv, TypeInv, TypeOK
  <1> DEFINE Kept == BindingsJustified' /\ FetchKnown' /\ ScanKnown' /\ ServeJustified'
  <1>1. ASSUME NEW p \in Requests, NEW a \in Asks, StartRequest(p, a)
        PROVE  Kept
    BY <1>1, StartJustified
  <1>2. ASSUME NEW p \in Requests, LookupTag(p)
        PROVE  Kept
    BY <1>2, <1>t, CalmStep DEF LookupTag, Goto, Finish, Scanning, Serving, durable
  <1>3. ASSUME NEW p \in Requests, ListCacheBindings(p)
        PROVE  Kept
    BY <1>3, ListJustified
  <1>4. ASSUME NEW p \in Requests, CacheMiss(p)
        PROVE  Kept
    BY <1>4, <1>t, CalmStep DEF CacheMiss, MissCache, Goto, Finish, Scanning, Serving, durable
  <1>5. ASSUME NEW p \in Requests, ServeCached(p)
        PROVE  Kept
    BY <1>5, <1>t, CalmStep DEF ServeCached, MissCache, Goto, Finish, Scanning, Serving, durable
  <1>6. ASSUME NEW p \in Requests, SelectConnector(p) \/ FindCredential(p)
        PROVE  Kept
    BY <1>6, <1>t, CalmStep
    DEF SelectConnector, FindCredential, Goto, Finish, Scanning, Serving, durable
  <1>7. ASSUME NEW p \in Requests, SkipSource(p)
        PROVE  Kept
    BY <1>7, <1>t, CalmStep DEF SkipSource, NextSource, LeaveSource, Goto, Finish, Scanning, Serving, durable
  <1>8. ASSUME NEW p \in Requests, RefuseSource(p)
        PROVE  Kept
    BY <1>8, <1>t, CalmStep DEF RefuseSource, LeaveSource, Goto, Finish, Scanning, Serving, durable
  <1>9. ASSUME NEW p \in Requests, Exhausted(p)
        PROVE  Kept
    BY <1>9, <1>t, CalmStep DEF Exhausted, Goto, Finish, Scanning, Serving, durable
  <1>10. ASSUME NEW p \in Requests, UpstreamUnauthenticated(p)
        PROVE  Kept
    BY <1>10, <1>t, CalmStep DEF UpstreamUnauthenticated, LeaveSource, Goto, Finish, Scanning, Serving, durable
  <1>11. ASSUME NEW p \in Requests, UpstreamFails(p)
        PROVE  Kept
    BY <1>11, <1>t, CalmStep DEF UpstreamFails, NextSource, LeaveSource, Goto, Finish, Scanning, Serving, durable
  <1>12. ASSUME NEW p \in Requests, CacheObject(p)
        PROVE  Kept
    BY <1>12, <1>t, CalmStep DEF CacheObject, Goto, Finish, Scanning, Serving, durable
  <1>13. ASSUME NEW p \in Requests, CacheObjectFails(p)
        PROVE  Kept
    BY <1>13, <1>t, CalmStep DEF CacheObjectFails, Goto, Finish, Scanning, Serving, durable
  <1>14. ASSUME NEW p \in Requests, RecordProvenance(p)
        PROVE  Kept
    BY <1>14, <1>t, CalmStep DEF RecordProvenance, Goto, Finish, Scanning, Serving, durable
  <1>15. ASSUME NEW p \in Requests, RecordTagMapping(p)
        PROVE  Kept
    BY <1>15, <1>t, CalmStep DEF RecordTagMapping, Goto, Finish, Scanning, Serving, durable
  <1>16. ASSUME NEW p \in Requests, RecordPullEvent(p)
        PROVE  Kept
    BY <1>16, <1>t, CalmStep DEF RecordPullEvent, Goto, Finish, Scanning, Serving, durable
  <1>17. ASSUME NEW p \in Requests, RepositoryFault(p)
        PROVE  Kept
    BY <1>17, <1>t, CalmStep DEF RepositoryFault, Goto, Finish, Scanning, Serving, durable
  <1>18. ASSUME NEW p \in Requests, CheckUser(p) \/ CheckCredential(p)
        PROVE  Kept
    BY <1>18, ScanJustified
  <1>19. ASSUME NEW p \in Requests, ResolveManifest(p)
        PROVE  Kept
    BY <1>19, ResolveJustified
  <1>20. ASSUME NEW p \in Requests, RecordCacheBindings(p)
        PROVE  Kept
    BY <1>20, BindJustified
  <1>21. ASSUME NEW u \in Users, NEW on \in BOOLEAN, SetUserEnabled(u, on)
        PROVE  Kept
    BY <1>21, <1>t, WatchNotes, PeopleJustified DEF SetUserEnabled
  <1>22. ASSUME NEW u \in Users, NEW s \in Sources, SaveCredential(u, s)
        PROVE  Kept
    BY <1>22, <1>t, WatchNotes, PeopleJustified DEF SaveCredential
  <1>23. ASSUME NEW u \in Users, NEW s \in Sources, RemoveCredential(u, s)
        PROVE  Kept
    <2>1. ASSUME NEW q \in Requests, Scanning(q)
          PROVE  /\ ask[q].who \in enabledUsers => seen[q]
                 /\ seen[q] => Held(ask[q].who, creds) \subseteq live[q]
      BY <2>1 DEF ReplayInv, ScanKnown, Noted
    <2>2. ASSUME NEW w PROVE Held(w, creds') \subseteq Held(w, creds)
      BY <1>23, <1>t DEF RemoveCredential, Held
    <2>3. UNCHANGED <<seen, live, enabledUsers, config, durable, requestVars>>
      BY <1>23 DEF RemoveCredential, since
    <2>4. QED
      BY <2>1, <2>2, <2>3, PeopleJustified
  <1>24. ASSUME Tick
        PROVE  Kept
    BY <1>24, CalmStep DEF Tick, requestVars, people, ghosts, durable, Scanning, Serving
  <1>25. ASSUME NEW c \in Configs, Restart(c)
        PROVE  Kept
    BY <1>25 DEF Restart, durable, ReplayInv, BindingsJustified, KeptImage, FetchKnown,
             ScanKnown, Scanning, ServeJustified, Serving
  <1>26. ASSUME UNCHANGED vars
        PROVE  Kept
    BY <1>26, CalmStep DEF vars, people, ghosts, since, Scanning, Serving
  <1>27. Kept
    BY <1>1, <1>2, <1>3, <1>4, <1>5, <1>6, <1>7, <1>8, <1>9, <1>10, <1>11, <1>12, <1>13,
       <1>14, <1>15, <1>16, <1>17, <1>18, <1>19, <1>20, <1>21, <1>22, <1>23, <1>24, <1>25, <1>26
    DEF Next, Step, Environment
  <1>28. QED
    BY <1>0, <1>27 DEF ReplayInv

\* The replay invariant holds before the first request.
LEMMA InitReplayInv == Init => ReplayInv
  BY InitTypeInv
  DEF Init, ReplayInv, BindingsJustified, FetchKnown, ScanKnown, Scanning, ServeJustified, Serving

\* ADR-0010 for every deployment: whatever users, credentials, configurations,
\* crashes and concurrent pulls there are, and however accounts and credentials
\* change between the listing of the bindings and the two reads that authorize
\* one, an object answered from the cache is justified by an upstream fetch
\* that entitles the requester to it.
THEOREM ReplayIsAuthorized == Spec => []ReplayAuthorized
  <1>1. ReplayInv /\ [Next]_vars => ReplayInv'
    BY StepReplayInv
  <1>2. ReplayInv => ReplayAuthorized
    BY DEF ReplayInv, ServeJustified, Serving, ReplayAuthorized
  <1>3. QED
    BY InitReplayInv, <1>1, <1>2, PTL DEF Spec

\* Outage replay for every deployment: whoever may replay a manifest may replay
\* every blob of it, because one transaction binds a whole, stored image.
THEOREM ReplayIsComplete == Spec => []ReplayComplete
  <1>1. WriteInv /\ [Next]_vars => WriteInv'
    BY StepWriteInv
  <1>2. ReplayInv /\ [Next]_vars => ReplayInv'
    BY StepReplayInv
  <1>3. ASSUME WriteInv, ReplayInv
        PROVE  ReplayComplete
    <2> SUFFICES ASSUME NEW w \in Principals, NEW r \in Repos, NEW m \in Manifests,
                        NEW b \in Granting(w, r, m), NEW o \in Image(m)
                 PROVE  o \in store /\ Granting(w, r, o) # {}
      BY DEF ReplayComplete
    <2>1. b \in bindings /\ b \in Binding /\ b.object = m
      BY <1>3 DEF Granting, Usable, WriteInv, TypeInv, TypeOK
    <2>2. b.manifest = m
      BY <1>3, <2>1, PullConstants DEF ReplayInv, BindingsJustified, Image, Binding
    <2>3. o \in store /\ [b EXCEPT !.object = o] \in bindings
      BY <1>3, <2>1, <2>2 DEF WriteInv, BindingBacked, Whole
    <2>4. [b EXCEPT !.object = o] \in Granting(w, r, o)
      BY <2>1, <2>3 DEF Granting, Usable, Grants, MayReplay, Binding
    <2>5. QED
      BY <2>3, <2>4
  <1>4. QED
    BY InitWriteInv, InitReplayInv, <1>1, <1>2, <1>3, PTL DEF Spec

-----------------------------------------------------------------------------
(***************************************************************************)
(* The cache as others see it.  A reply is given in one step with nothing  *)
(* to look up any more, so the image that entitles the requester has to be *)
(* in the cache from the moment its binding was used.                      *)
(***************************************************************************)
KeptImages == {KeptImage(b) : b \in bindings}
GrantKept  == \A p \in Requests :
                 pc[p] = "serve" => \E image \in KeptImages : Cache!Justifies(image, ReplyOf(p))

\* Steps that leave the cache and the routes alone, and bring no request to the
\* point of serving, keep what granted replays rest on.
LEMMA GrantStays ==
    ASSUME GrantKept, UNCHANGED config, bindings \subseteq bindings',
           \A q \in Requests : pc'[q] = "serve" =>
               pc[q] = "serve" /\ ask'[q] = ask[q] /\ found'[q] = found[q]
    PROVE  GrantKept'
  <1> SUFFICES ASSUME NEW q \in Requests, pc'[q] = "serve"
               PROVE  \E image \in KeptImages' : Cache!Justifies(image, ReplyOf(q))'
    BY DEF GrantKept
  <1>1. ReplyOf(q)' = ReplyOf(q)
    BY DEF ReplyOf, RouteOf, Wanted
  <1>2. KeptImages \subseteq KeptImages'
    BY DEF KeptImages, KeptImage
  <1>3. QED
    BY <1>1, <1>2 DEF GrantKept, Cache!Justifies

\* A request begins to serve with the image of the binding it uses.
LEMMA ScanGrantKept ==
    ASSUME ReplayInv, GrantKept, NEW p \in Requests, CheckUser(p) \/ CheckCredential(p)
    PROVE  GrantKept'
  <1>1. /\ UNCHANGED <<config, ask, bindings>> /\ pc \in [Requests -> Labels] /\ Scanning(p)
        /\ found \in [Requests -> Mapping \cup {NoRow}]
    BY ScanStep DEF ReplayInv, TypeInv, TypeOK
  <1>2. PICK b \in rest[p] :
           \/ UseBinding(p, b) /\ Allowed(p, b)
           \/ PassBinding(p, b)
           \/ /\ ask[p].who \in enabledUsers
              /\ Goto(p, "credential") /\ UNCHANGED <<found, rest, answer>>
    BY ScanStep
  <1>3. CASE PassBinding(p, b) \/ (Goto(p, "credential") /\ UNCHANGED <<found, rest, answer>>)
    BY <1>1, <1>3, GrantStays DEF PassBinding, Goto, Finish
  <1>4. CASE MissCache(p)
    BY <1>1, <1>4, GrantStays DEF MissCache, Goto, Finish
  <1>5. CASE Allowed(p, b) /\ Goto(p, "serve") /\ UNCHANGED <<found, answer>>
    <2>1. KeptImages' = KeptImages
      BY <1>1 DEF KeptImages, KeptImage
    <2>2. \E image \in KeptImages : Cache!Justifies(image, ReplyOf(p))
      BY <1>1, <1>5, UseJustifies DEF KeptImages
    <2>3. ASSUME NEW q \in Requests, pc'[q] = "serve"
          PROVE  \E image \in KeptImages : Cache!Justifies(image, ReplyOf(q))
      BY <1>1, <1>5, <2>2, <2>3 DEF GrantKept, Goto
    <2>4. \A q \in Requests : ReplyOf(q)' = ReplyOf(q)
      BY <1>1, <1>5 DEF ReplyOf, RouteOf, Wanted
    <2>5. QED
      BY <2>1, <2>3, <2>4 DEF GrantKept, Cache!Justifies
  <1>6. QED
    BY <1>2, <1>3, <1>4, <1>5 DEF UseBinding

\* Every step keeps granted replays founded on the cache.
LEMMA StepGrantKept ==
    ASSUME ReplayInv, GrantKept, [Next]_vars
    PROVE  GrantKept'
  <1>t. pc \in [Requests -> Labels] /\ ask \in [Requests -> Asks]
        /\ found \in [Requests -> Mapping \cup {NoRow}]
    BY DEF ReplayInv, TypeInv, TypeOK
  <1>1. ASSUME NEW p \in Requests, NEW a \in Asks, StartRequest(p, a)
        PROVE  GrantKept'
    BY <1>1, <1>t, GrantStays DEF StartRequest, Goto, durable
  <1>2. ASSUME NEW p \in Requests, CheckUser(p) \/ CheckCredential(p)
        PROVE  GrantKept'
    BY <1>2, ScanGrantKept
  <1>3. ASSUME NEW p \in Requests, Step(p), ~CheckUser(p), ~CheckCredential(p)
        PROVE  GrantKept'
    <2>1. /\ UNCHANGED <<config, ask>> /\ bindings \subseteq bindings'
      BY <1>3 DEF Step, LookupTag, CacheMiss, ListCacheBindings, ServeCached, FindCredential,
               SelectConnector, SkipSource, RefuseSource, Exhausted, ResolveManifest,
               UpstreamUnauthenticated, UpstreamFails, CacheObject, CacheObjectFails,
               RecordCacheBindings, RecordProvenance, RecordTagMapping, RecordPullEvent,
               RepositoryFault, durable
    <2>2. \A q \in Requests : pc'[q] = "serve" => pc[q] = "serve" /\ found'[q] = found[q]
      BY <1>3, <1>t
         DEF Step, LookupTag, CacheMiss, ListCacheBindings, MissCache, ServeCached,
             FindCredential, SelectConnector, SkipSource, NextSource, RefuseSource, Exhausted,
             ResolveManifest, UpstreamUnauthenticated, UpstreamFails, CacheObject,
             CacheObjectFails, RecordCacheBindings, RecordProvenance, RecordTagMapping,
             RecordPullEvent, RepositoryFault, Goto, Finish
    <2>3. QED
      BY <2>1, <2>2, GrantStays
  <1>4. ASSUME Environment
        PROVE  GrantKept'
    <2>1. CASE \E c \in Configs : Restart(c)
      BY <2>1 DEF Restart, GrantKept
    <2>2. CASE ~\E c \in Configs : Restart(c)
      BY <1>4, <2>2, GrantStays
      DEF Environment, SetUserEnabled, SaveCredential, RemoveCredential, Tick, requestVars, durable
    <2>3. QED
      BY <2>1, <2>2
  <1>5. CASE UNCHANGED vars
    BY <1>5, GrantStays DEF vars
  <1>6. QED
    BY <1>1, <1>2, <1>3, <1>4, <1>5 DEF Next

-----------------------------------------------------------------------------
(***************************************************************************)
(* The pull path implements ImageCache.  Since every binding is part of a  *)
(* whole, stored image, the images kept are those of all bindings.         *)
(***************************************************************************)
WholeImages == {KeptImage(b) : b \in {x \in bindings : Whole(x)}}
CacheVars == <<fetched, WholeImages, [p \in Requests |-> ReplyTo(p)]>>

LEMMA AllWhole == BindingBacked => WholeImages = KeptImages
  BY DEF BindingBacked, WholeImages, KeptImages

\* Only serving a granted replay answers from the cache.
LEMMA RepliesStay ==
    ASSUME UNCHANGED config,
           \A q \in Requests :
              \/ /\ pc'[q] = pc[q] /\ answer'[q] = answer[q]
                 /\ ask'[q] = ask[q] /\ found'[q] = found[q]
              \/ ReplyTo(q) = NoRow /\ ~(pc'[q] = "done" /\ answer'[q] = "hit")
    PROVE  \A q \in Requests : ReplyTo(q)' = ReplyTo(q)
  BY DEF ReplyTo, RouteOf, Wanted

\* Each step of the pull path is a fetch, the keeping of an image, a reply or
\* nothing at all to ImageCache.
LEMMA StepCache ==
    ASSUME ReplayInv, GrantKept, ReplayInv', BindingBacked, BindingBacked', [Next]_vars
    PROVE  [Cache!Next]_CacheVars
  <1>t. /\ pc \in [Requests -> Labels] /\ ask \in [Requests -> Asks]
        /\ answer \in [Requests -> Answers]
        /\ found \in [Requests -> Mapping \cup {NoRow}]
    BY DEF ReplayInv, TypeInv, TypeOK
  <1>d. /\ DOMAIN [p \in Requests |-> ReplyTo(p)] = Requests
        /\ DOMAIN [p \in Requests |-> ReplyTo(p)]' = Requests
        /\ \A p \in Requests : /\ [q \in Requests |-> ReplyTo(q)][p] = ReplyTo(p)
                               /\ [q \in Requests |-> ReplyTo(q)]'[p] = ReplyTo(p)'
    OBVIOUS
  <1>e. BindingBacked' => WholeImages' = KeptImages'
    BY DEF BindingBacked, WholeImages, KeptImages
  <1>w. WholeImages = KeptImages /\ WholeImages' = KeptImages'
    BY <1>e, AllWhole
  <1> DEFINE SameCache   == UNCHANGED <<fetched, bindings>>
             SameReplies == \A q \in Requests : ReplyTo(q)' = ReplyTo(q)
  <1>k. UNCHANGED bindings => KeptImages' = KeptImages
    BY DEF KeptImages, KeptImage
  <1>s. SameCache /\ SameReplies => UNCHANGED CacheVars
    BY <1>k, <1>w DEF CacheVars
  <1>r. ASSUME SameCache,
               \A q \in Requests :
                  ReplyTo(q)' \notin {ReplyTo(q), NoRow} =>
                     \E image \in KeptImages : Cache!Justifies(image, ReplyTo(q)')
        PROVE  Cache!Reply
    <2>1. \A q \in Requests :
             [p \in Requests |-> ReplyTo(p)]'[q] \notin {[p \in Requests |-> ReplyTo(p)][q], NoRow} =>
                \E image \in WholeImages : Cache!Justifies(image, [p \in Requests |-> ReplyTo(p)]'[q])
      BY <1>r, <1>d, <1>w
    <2>2. UNCHANGED <<fetched, WholeImages>>
      BY <1>r, <1>k, <1>w
    <2>3. QED
      BY <2>1, <2>2, <1>d DEF Cache!Reply, WholeImages
  <1>1. ASSUME NEW p \in Requests, NEW a \in Asks, StartRequest(p, a)
        PROVE  Cache!Reply
    <2>1. ReplyTo(p)' = NoRow
      BY <1>1, <1>t DEF StartRequest, Goto, ReplyTo
    <2>2. \A q \in Requests : q # p => ReplyTo(q)' = ReplyTo(q)
      BY <1>1, <1>t DEF StartRequest, Goto, ReplyTo, RouteOf, Wanted
    <2>3. SameCache
      BY <1>1 DEF StartRequest, durable, ghosts
    <2>4. QED
      BY <2>1, <2>2, <2>3, <1>r
  <1>2. ASSUME NEW p \in Requests, ServeCached(p)
        PROVE  Cache!Reply
    <2>1. SameCache /\ pc[p] = "serve" /\ UNCHANGED <<config, ask>>
      BY <1>2 DEF ServeCached, durable, ghosts
    <2>2. \A q \in Requests : q # p => ReplyTo(q)' = ReplyTo(q)
      BY <1>2, <1>t, <2>1 DEF ServeCached, MissCache, Goto, Finish, ReplyTo, RouteOf, Wanted
    <2>3. CASE Finish(p, "hit") /\ UNCHANGED found
      <3>1. ReplyTo(p)' = ReplyOf(p)
        BY <2>1, <2>3, <1>t DEF Finish, Goto, ReplyTo, ReplyOf, RouteOf, Wanted
      <3>2. \E image \in KeptImages : Cache!Justifies(image, ReplyOf(p))
        BY <2>1 DEF GrantKept
      <3>3. QED
        BY <2>1, <2>2, <3>1, <3>2, <1>r
    <2>4. CASE MissCache(p)
      <3>1. ReplyTo(p)' = NoRow
        BY <2>1, <2>4, <1>t DEF MissCache, Finish, Goto, ReplyTo
      <3>2. QED
        BY <2>1, <2>2, <3>1, <1>r
    <2>5. QED
      BY <1>2, <2>3, <2>4 DEF ServeCached
  <1>3. ASSUME NEW p \in Requests, ResolveManifest(p)
        PROVE  Cache!Fetch
    <2>1. fetched \subseteq fetched' /\ UNCHANGED bindings
      BY <1>3 DEF ResolveManifest, durable
    <2>2. SameReplies
      BY <1>3, <1>t, RepliesStay DEF ResolveManifest, Goto, ReplyTo
    <2>3. UNCHANGED WholeImages
      BY <2>1, <1>k, <1>w
    <2>4. QED
      BY <2>1, <2>2, <2>3 DEF Cache!Fetch, WholeImages
  <1>4. ASSUME NEW p \in Requests, RecordCacheBindings(p)
        PROVE  Cache!Keep
    <2>1. bindings \subseteq bindings' /\ UNCHANGED fetched
      BY <1>4 DEF RecordCacheBindings, ghosts
    <2>2. SameReplies
      BY <1>4, <1>t, RepliesStay DEF RecordCacheBindings, Goto, ReplyTo
    <2>3. KeptImages \subseteq KeptImages'
      BY <2>1 DEF KeptImages, KeptImage
    <2>4. KeptImages' \subseteq fetched
      BY <2>1 DEF KeptImages, KeptImage, ReplayInv, BindingsJustified
    <2>5. WholeImages \subseteq WholeImages' /\ WholeImages' \subseteq fetched
      BY <2>3, <2>4, <1>w
    <2>6. QED
      BY <2>1, <2>2, <2>5 DEF Cache!Keep, WholeImages
  <1>c. ASSUME NEW p \in Requests, CheckUser(p) \/ CheckCredential(p)
        PROVE  UNCHANGED CacheVars
    <2>1. SameCache /\ UNCHANGED <<config, ask>> /\ Scanning(p)
      BY <1>c, ScanStep DEF ghosts
    <2>2. PICK b : \/ UseBinding(p, b) \/ PassBinding(p, b)
                   \/ Goto(p, "credential") /\ UNCHANGED <<found, rest, answer>>
      BY <1>c, ScanStep
    <2>3. \A q \in Requests :
             \/ pc'[q] = pc[q] /\ answer'[q] = answer[q] /\ found'[q] = found[q]
             \/ pc[q] # "done" /\ ~(pc'[q] = "done" /\ answer'[q] = "hit")
      BY <2>1, <2>2, <1>t DEF UseBinding, PassBinding, MissCache, Goto, Finish, Scanning
    <2>4. SameReplies
      BY <2>1, <2>3, RepliesStay DEF ReplyTo
    <2>5. QED
      BY <2>1, <2>4, <1>s
  <1>5. ASSUME NEW p \in Requests, Step(p), ~ServeCached(p), ~ResolveManifest(p),
               ~RecordCacheBindings(p), ~CheckUser(p), ~CheckCredential(p)
        PROVE  UNCHANGED CacheVars
    <2>1. SameCache /\ UNCHANGED <<config, ask>>
      BY <1>5
      DEF Step, LookupTag, CacheMiss, ListCacheBindings, FindCredential, SelectConnector,
          SkipSource, RefuseSource, Exhausted, UpstreamUnauthenticated, UpstreamFails,
          CacheObject, CacheObjectFails, RecordProvenance, RecordTagMapping, RecordPullEvent,
          RepositoryFault, durable, ghosts
    <2>2. \A q \in Requests :
             \/ pc'[q] = pc[q] /\ answer'[q] = answer[q] /\ found'[q] = found[q]
             \/ pc[q] # "done" /\ ~(pc'[q] = "done" /\ answer'[q] = "hit")
      BY <1>5, <1>t
      DEF Step, LookupTag, CacheMiss, ListCacheBindings, MissCache, FindCredential,
          SelectConnector, Selecting, SkipSource, NextSource, RefuseSource, Exhausted,
          UpstreamUnauthenticated, UpstreamFails, CacheObject, CacheObjectFails,
          RecordProvenance, RecordTagMapping, RecordPullEvent, RepositoryFault, Goto, Finish
    <2>3. SameReplies
      BY <2>1, <2>2, RepliesStay DEF ReplyTo
    <2>4. QED
      BY <2>1, <2>3, <1>s
  <1>6. ASSUME NEW c \in Configs, Restart(c)
        PROVE  Cache!Reply
    <2>1. SameCache /\ \A q \in Requests : ReplyTo(q)' = NoRow
      BY <1>6 DEF Restart, durable, ReplyTo
    <2>2. QED
      BY <2>1, <1>r
  <1>7. ASSUME Environment, ~\E c \in Configs : Restart(c)
        PROVE  UNCHANGED CacheVars
    <2>1. SameCache /\ UNCHANGED <<config, ask, pc, found, answer>>
      BY <1>7 DEF Environment, SetUserEnabled, SaveCredential, RemoveCredential, Tick,
               requestVars, durable
    <2>2. QED
      BY <2>1, <1>s, RepliesStay
  <1>8. CASE UNCHANGED vars
    BY <1>8, <1>s, RepliesStay DEF vars
  <1>9. QED
    BY <1>1, <1>2, <1>3, <1>4, <1>c, <1>5, <1>6, <1>7, <1>8 DEF Next, Cache!Next

\* The pull path implements ImageCache: whoever interleaves, fails or crashes,
\* the store, bindings and mappings amount to a cache that keeps whole images
\* as they were fetched and replies only with what the requester may be given.
THEOREM ImplementsImageCache == Spec => KeepsImages
  <1>1. Init => Cache!Init /\ GrantKept
    BY DEF Init, Cache!Init, GrantKept, ReplyTo
  <1>2. ReplayInv /\ [Next]_vars => ReplayInv'
    BY StepReplayInv
  <1>3. ReplayInv /\ GrantKept /\ [Next]_vars => GrantKept'
    BY StepGrantKept
  <1>4. WriteInv /\ [Next]_vars => WriteInv'
    BY StepWriteInv
  <1>5. WriteInv => BindingBacked
    BY DEF WriteInv
  <1>6. ReplayInv /\ GrantKept /\ ReplayInv' /\ BindingBacked /\ BindingBacked' /\ [Next]_vars
           => [Cache!Next]_<<fetched, {KeptImage(b) : b \in {x \in bindings : Whole(x)}},
                             [p \in Requests |-> ReplyTo(p)]>>
    BY StepCache DEF CacheVars, WholeImages
  <1>7. QED
    BY InitReplayInv, InitWriteInv, <1>1, <1>2, <1>3, <1>4, <1>5, <1>6, PTL
    DEF Spec, KeepsImages, Cache!Spec

-----------------------------------------------------------------------------
(***************************************************************************)
(* Credential failures.  An outcome that ends the candidate loop is the    *)
(* last one noted, and its request can only report the failure; a request  *)
(* in progress has no answer yet.                                          *)
(***************************************************************************)
Unanswered == \A p \in Requests : Active(p) => answer[p] = "none"
FallbackInv == TypeInv /\ Unanswered /\ CredentialFailureEndsFallback

\* A request that has failed on a credential stays where it is or reports
\* failure; another leaves behind outcomes that do not end the loop.
LEMMA FallbackKept ==
    ASSUME FallbackInv,
           \A q \in Requests :
              /\ Active(q)' => answer'[q] = "none"
              /\ \/ tried'[q] = tried[q] /\ pc'[q] = pc[q] /\ answer'[q] = answer[q]
                 \/ /\ tried'[q] = tried[q]
                    /\ \/ pc[q] \notin {"fail", "done"}
                       \/ pc'[q] = "done" /\ answer'[q] \notin {"pulled", "hit"}
                 \/ tried'[q] = <<>>
                 \/ /\ pc[q] \notin {"fail", "done"}
                    /\ \E e \in Outcomes :
                          /\ tried'[q] = Append(tried[q], e)
                          /\ e \in FinalOutcomes =>
                                pc'[q] = "fail" /\ answer'[q] \notin {"pulled", "hit"}
    PROVE  Unanswered' /\ CredentialFailureEndsFallback'
  <1>1. Unanswered'
    BY DEF Unanswered
  <1>2. ASSUME NEW q \in Requests, NEW i \in 1..Len(tried'[q]), tried'[q][i] \in FinalOutcomes
        PROVE  /\ i = Len(tried'[q])
               /\ pc'[q] \in {"fail", "done"}
               /\ answer'[q] \notin {"pulled", "hit"}
    <2>1. tried[q] \in Seq(Outcomes)
      BY DEF FallbackInv, TypeInv, TypeOK
    <2>2. \A j \in 1..Len(tried[q]) :
             tried[q][j] \in FinalOutcomes =>
                /\ j = Len(tried[q]) /\ pc[q] \in {"fail", "done"}
                /\ answer[q] \notin {"pulled", "hit"}
      BY DEF FallbackInv, CredentialFailureEndsFallback
    <2>3. CASE tried'[q] = tried[q]
      BY <1>2, <2>1, <2>2, <2>3
    <2>4. CASE tried'[q] = <<>>
      BY <1>2, <2>4
    <2>5. CASE /\ pc[q] \notin {"fail", "done"}
               /\ \E e \in Outcomes :
                     /\ tried'[q] = Append(tried[q], e)
                     /\ e \in FinalOutcomes =>
                           pc'[q] = "fail" /\ answer'[q] \notin {"pulled", "hit"}
      BY <1>2, <2>1, <2>2, <2>5
    <2>6. QED
      BY <2>3, <2>4, <2>5
  <1>3. QED
    BY <1>1, <1>2 DEF CredentialFailureEndsFallback

\* Every step keeps credential failures final.
LEMMA StepFallbackInv ==
    ASSUME FallbackInv, [Next]_vars
    PROVE  FallbackInv'
  <1>0. TypeInv'
    BY StepTypeInv DEF FallbackInv
  <1>t. /\ pc \in [Requests -> Labels] /\ answer \in [Requests -> Answers]
        /\ tried \in [Requests -> Seq(Outcomes)]
        /\ \A q \in Requests : Active(q) => answer[q] = "none"
    BY DEF FallbackInv, TypeInv, TypeOK, Unanswered
  <1> DEFINE Kept == Unanswered' /\ CredentialFailureEndsFallback'
  <1>1. ASSUME NEW p \in Requests, NEW a \in Asks, StartRequest(p, a)
        PROVE  Kept
    BY <1>1, <1>t, FallbackKept DEF StartRequest, Goto, Active
  <1>2. ASSUME NEW p \in Requests, LookupTag(p) \/ CacheMiss(p) \/ ListCacheBindings(p)
        PROVE  Kept
    BY <1>2, <1>t, FallbackKept
    DEF LookupTag, CacheMiss, ListCacheBindings, MissCache, Goto, Finish, Active
  <1>2a. ASSUME NEW p \in Requests, CheckUser(p) \/ CheckCredential(p)
         PROVE  Kept
    <2>1. UNCHANGED tried /\ pc[p] \in {"binding", "credential"}
      BY <1>2a DEF CheckUser, CheckCredential
    <2>2. PICK b : \/ UseBinding(p, b) \/ PassBinding(p, b)
                   \/ Goto(p, "credential") /\ UNCHANGED <<found, rest, answer>>
      BY <1>2a DEF CheckUser, CheckCredential
    <2>3. PICK at, an : /\ pc' = [pc EXCEPT ![p] = at]
                        /\ \/ answer' = answer /\ at \notin {"idle", "done"}
                           \/ /\ answer' = [answer EXCEPT ![p] = an]
                              /\ at = "done" /\ an \in {"not_found", "denied"}
      BY <2>2 DEF UseBinding, PassBinding, MissCache, Goto, Finish
    <2>4. QED
      BY <2>1, <2>3, <1>t, FallbackKept DEF Active
  <1>3. ASSUME NEW p \in Requests,
               ServeCached(p) \/ FindCredential(p) \/ SelectConnector(p) \/ Exhausted(p)
        PROVE  Kept
    BY <1>3, <1>t, FallbackKept
    DEF ServeCached, MissCache, FindCredential, SelectConnector, Selecting, Exhausted, Goto,
        Finish, Active
  <1>4. ASSUME NEW p \in Requests, NEW e \in Outcomes \ FinalOutcomes, NextSource(p, e),
               pc[p] \in {"select", "secret", "resolve"}, UNCHANGED answer
        PROVE  Kept
    BY <1>4, <1>t, FallbackKept DEF NextSource, LeaveSource, Goto, Active
  <1>5. ASSUME NEW p \in Requests, NEW e \in FinalOutcomes, LeaveSource(p, e), Goto(p, "fail"),
               pc[p] \in {"select", "secret", "resolve"}, UNCHANGED answer
        PROVE  Kept
    <2>1. e \in Outcomes
      BY <1>5 DEF FinalOutcomes, Outcomes
    <2>2. QED
      BY <1>5, <2>1, <1>t, FallbackKept DEF LeaveSource, Goto, Active
  <1>6. ASSUME NEW p \in Requests,
               SkipSource(p) \/ UpstreamFails(p) \/ RefuseSource(p) \/ UpstreamUnauthenticated(p)
        PROVE  Kept
    BY <1>6, <1>4, <1>5
    DEF SkipSource, UpstreamFails, RefuseSource, UpstreamUnauthenticated, Selecting,
        FinalOutcomes, StopErrors, Outcomes
  <1>7. ASSUME NEW p \in Requests,
               ResolveManifest(p) \/ CacheObject(p) \/ CacheObjectFails(p) \/ RecordCacheBindings(p)
        PROVE  Kept
    BY <1>7, <1>t, FallbackKept
    DEF ResolveManifest, CacheObject, CacheObjectFails, RecordCacheBindings, Goto, Finish, Active
  <1>8. ASSUME NEW p \in Requests,
               RecordProvenance(p) \/ RecordTagMapping(p) \/ RecordPullEvent(p) \/ RepositoryFault(p)
        PROVE  Kept
    BY <1>8, <1>t, FallbackKept
    DEF RecordProvenance, RecordTagMapping, RecordPullEvent, RepositoryFault, Goto, Finish, Active
  <1>9. ASSUME NEW c \in Configs, Restart(c)
        PROVE  Kept
    BY <1>9, FallbackKept DEF Restart, Active
  <1>10. ASSUME Environment, ~\E c \in Configs : Restart(c)
         PROVE  Kept
    BY <1>10, <1>t, FallbackKept
    DEF Environment, SetUserEnabled, SaveCredential, RemoveCredential, Tick, requestVars, Active
  <1>11. ASSUME UNCHANGED vars
         PROVE  Kept
    BY <1>11, <1>t, FallbackKept DEF vars, Active
  <1>12. QED
    BY <1>0, <1>1, <1>2, <1>2a, <1>3, <1>6, <1>7, <1>8, <1>9, <1>10, <1>11
    DEF Next, Step, Environment, FallbackInv

\* A missing, unreadable or rejected credential or a disabled user ends the
\* loop over the candidate sources, for any list of candidates and any number
\* of concurrent pulls.
THEOREM CredentialFailuresAreFinal == Spec => []CredentialFailureEndsFallback
  <1>1. Init => FallbackInv
    BY InitTypeInv DEF Init, FallbackInv, Unanswered, Active, CredentialFailureEndsFallback
  <1>2. FallbackInv /\ [Next]_vars => FallbackInv'
    BY StepFallbackInv
  <1>3. FallbackInv => CredentialFailureEndsFallback
    BY DEF FallbackInv
  <1>4. QED
    BY <1>1, <1>2, <1>3, PTL DEF Spec

-----------------------------------------------------------------------------
(* Sorting.                                                                *)

\* A finite set with a strict total order is the range of a sorted sequence:
\* the place of an element is one more than the number of those before it.
LEMMA SortExists ==
    ASSUME NEW S, IsFiniteSet(S), NEW R,
           \A x \in S : <<x, x>> \notin R,
           \A x, y, z \in S : <<x, y>> \in R /\ <<y, z>> \in R => <<x, z>> \in R,
           \A x, y \in S : x # y => <<x, y>> \in R \/ <<y, x>> \in R
    PROVE  \E s \in [1..Cardinality(S) -> S] :
              \A i, j \in 1..Cardinality(S) : i < j => <<s[i], s[j]>> \in R
  <1> DEFINE n == Cardinality(S)
             below(x) == {y \in S : <<y, x>> \in R}
             rank == [x \in S |-> Cardinality(below(x)) + 1]
  <1>n. n \in Nat
    BY FS_CardinalityType
  <1>1. ASSUME NEW x \in S
        PROVE  IsFiniteSet(below(x)) /\ Cardinality(below(x)) \in Nat /\ Cardinality(below(x)) < n
    <2>1. below(x) \in SUBSET (S \ {x})
      OBVIOUS
    <2>2. IsFiniteSet(S \ {x}) /\ Cardinality(S \ {x}) = n - 1
      BY FS_RemoveElement
    <2>3. IsFiniteSet(below(x)) /\ Cardinality(below(x)) <= Cardinality(S \ {x})
      BY <2>1, <2>2, FS_Subset
    <2>4. Cardinality(below(x)) \in Nat
      BY <2>3, FS_CardinalityType
    <2> HIDE DEF below, n
    <2>5. QED
      BY <1>n, <2>2, <2>3, <2>4
  <1>2. ASSUME NEW x \in S, NEW y \in S, <<x, y>> \in R
        PROVE  rank[x] < rank[y]
    <2>1. below(x) \in SUBSET below(y) /\ x \in below(y) /\ x \notin below(x)
      BY <1>2
    <2>2. Cardinality(below(x)) <= Cardinality(below(y)) /\ Cardinality(below(x)) # Cardinality(below(y))
      BY <1>1, <2>1, FS_Subset
    <2>3. rank[x] = Cardinality(below(x)) + 1 /\ rank[y] = Cardinality(below(y)) + 1
      OBVIOUS
    <2> HIDE DEF below, rank
    <2>4. QED
      BY <1>1, <2>2, <2>3
  <1>3. rank \in [S -> 1..n]
    <2>1. ASSUME NEW x \in S
          PROVE  Cardinality(below(x)) + 1 \in 1..n
      <3> HIDE DEF below, n
      <3>1. QED
        BY <1>n, <1>1
    <2> HIDE DEF below, n
    <2>2. QED
      BY <2>1
  <1>4. ASSUME NEW x \in S, NEW y \in S, rank[x] = rank[y]
        PROVE  x = y
    <2> SUFFICES ASSUME x # y
                 PROVE  FALSE
      OBVIOUS
    <2>1. rank[x] \in Int /\ rank[y] \in Int
      BY <1>3
    <2>2. rank[x] < rank[y] \/ rank[y] < rank[x]
      <3> HIDE DEF rank
      <3>1. QED
        BY <1>2
    <2> HIDE DEF rank
    <2>3. QED
      BY <1>4, <2>1, <2>2
  <1>5. rank \in Surjection(S, 1..n)
    <2>1. rank \in Injection(S, 1..n)
      <3> HIDE DEF rank, n
      <3>1. QED
        BY <1>3, <1>4, Fun_IsInj
    <2>2. IsFiniteSet(1..n) /\ Cardinality(1..n) = n
      BY <1>n, FS_Interval
    <2> HIDE DEF rank
    <2>3. QED
      BY <2>1, <2>2, FS_Injection
  <1> DEFINE s == [i \in 1..n |-> CHOOSE x \in S : rank[x] = i]
  <1>6. \A i \in 1..n : s[i] \in S /\ rank[s[i]] = i
    <2> HIDE DEF rank, n
    <2>1. \A i \in 1..n : \E x \in S : rank[x] = i
      BY <1>5, Fun_SurjectionProperties
    <2>2. QED
      BY <2>1
  <1>7. \A i, j \in 1..n : i < j => <<s[i], s[j]>> \in R
    <2> SUFFICES ASSUME NEW i \in 1..n, NEW j \in 1..n, i < j
                 PROVE  <<s[i], s[j]>> \in R
      OBVIOUS
    <2>1. /\ s[i] \in S /\ rank[s[i]] = i
          /\ s[j] \in S /\ rank[s[j]] = j
      BY <1>6
    <2>2. s[i] # s[j] /\ ~(rank[s[j]] < rank[s[i]])
      <3> HIDE DEF rank, s, n
      <3>1. QED
        BY <2>1, <1>n
    <2> HIDE DEF rank, s, n
    <2>3. QED
      BY <1>2, <2>1, <2>2
  <1>8. s \in [1..n -> S]
    BY <1>6
  <1> HIDE DEF s
  <1>9. QED
    BY <1>7, <1>8

\* A set of natural numbers that is not empty has a least element.
LEMMA LeastExists ==
    ASSUME NEW S \in SUBSET Nat, S # {}
    PROVE  \E x \in S : \A y \in S : x <= y
  <1>1. PICK x \in S : \A y \in S : <<y, x>> \notin OpToRel(<, Nat)
    BY NatLessThanWellFounded, WFMin
  <1>2. \A y \in S : ~(y < x)
    BY <1>1 DEF OpToRel
  <1>3. QED
    BY <1>2

-----------------------------------------------------------------------------
(* The routing policy, whose decisions a configuration's candidate lists   *)
(* stand for.                                                              *)

\* The position of the first element that passes a test, 0 if none does.
LEMMA FirstSelected ==
    ASSUME NEW s, Len(s) \in Nat, NEW T \in SUBSET (1..Len(s)),
           NEW n, n = IF T # {} THEN Min(T) ELSE 0
    PROVE  \/ n = 0 /\ T = {}
           \/ n \in T /\ \A i \in T : n <= i
  <1>1. CASE T = {}
    BY <1>1
  <1>2. CASE T # {}
    <2>1. \E x \in T : \A y \in T : x <= y
      BY <1>2, LeastExists
    <2>2. QED
      BY <1>2, <2>1 DEF Min
  <1>3. QED
    BY <1>1, <1>2

\* The engine holds the routes of the configuration, those of a lower
\* precedence first.
LEMMA OrderedRoutes ==
    ASSUME NEW routes \in Seq(RouteSet)
    PROVE  /\ Ordered(routes) \in Seq(RouteSet)
           /\ Len(Ordered(routes)) = Len(routes)
           /\ \A n \in 1..Len(routes) : \E i \in 1..Len(routes) :
                 Ordered(routes)[n] = routes[i]
           /\ \A i \in 1..Len(routes) : \E n \in 1..Len(routes) :
                 Ordered(routes)[n] = routes[i]
           /\ \A m, n \in 1..Len(routes) : m < n =>
                 Ordered(routes)[m].precedence <= Ordered(routes)[n].precedence
  <1> DEFINE D == 1..Len(routes)
             before(i, j) == \/ routes[i].precedence < routes[j].precedence
                             \/ routes[i].precedence = routes[j].precedence /\ i < j
             R == {ij \in D \X D : before(ij[1], ij[2])}
             order == CHOOSE p \in [DOMAIN routes -> DOMAIN routes] : IsSorted(p, before)
  <1>1. Len(routes) \in Nat /\ DOMAIN routes = D /\ \A i \in D : routes[i] \in RouteSet
    OBVIOUS
  <1>2. \A i \in D : routes[i].precedence \in Nat
    BY <1>1, PolicyConstants DEF IsRoute
  <1>3. IsFiniteSet(D) /\ Cardinality(D) = Len(routes)
    <2>1. ASSUME NEW k \in Nat
          PROVE  IsFiniteSet(1..k) /\ Cardinality(1..k) = k
      BY FS_Interval
    <2>2. QED
      BY <1>1, <2>1
  <1>4. \A i, j \in D : <<i, j>> \in R <=> before(i, j)
    OBVIOUS
  <1>5. \E p \in [D -> D] : \A i, j \in D : i < j => before(p[i], p[j])
    <2> DEFINE prec == [i \in D |-> routes[i].precedence]
    <2>p. \A i \in D : prec[i] \in Nat /\ prec[i] = routes[i].precedence
      BY <1>2
    <2>1. \A i \in D : ~before(i, i)
      BY <1>1, <1>2
    <2>2. \A i, j, k \in D : before(i, j) /\ before(j, k) => before(i, k)
      BY <1>1, <1>2
    <2>3. \A i, j \in D : i # j => before(i, j) \/ before(j, i)
      BY <1>1, <1>2
    <2> HIDE DEF before, R, D
    <2>4. \E p \in [1..Cardinality(D) -> D] :
             \A i, j \in 1..Cardinality(D) : i < j => <<p[i], p[j]>> \in R
      BY <1>3, <1>4, <2>1, <2>2, <2>3, SortExists
    <2>5. 1..Cardinality(D) = D
      BY <1>3 DEF D
    <2>6. PICK p \in [D -> D] : \A i, j \in D : i < j => <<p[i], p[j]>> \in R
      BY <2>4, <2>5
    <2>7. QED
      BY <1>4, <2>6
  <1>6. order \in [D -> D] /\ \A i, j \in D : i < j => before(order[i], order[j])
    <2>1. \A p \in [D -> D] : Len(p) = Len(routes)
      BY <1>1
    <2> HIDE DEF before
    <2>2. \E p \in [DOMAIN routes -> DOMAIN routes] : IsSorted(p, before)
      BY <1>1, <1>5, <2>1 DEF IsSorted
    <2>3. order \in [DOMAIN routes -> DOMAIN routes] /\ IsSorted(order, before)
      BY <2>2
    <2> HIDE DEF order
    <2>4. QED
      BY <1>1, <2>1, <2>3 DEF IsSorted
  <1>7. Ordered(routes) = [n \in D |-> routes[order[n]]]
    BY <1>1 DEF Ordered
  <1> HIDE DEF order
  <1>8. \A i \in D : \E n \in D : order[n] = i
    <2>1. order \in Injection(D, D)
      <3>1. \A i, j \in D : order[i] = order[j] => i = j
        BY <1>1, <1>2, <1>6
      <3>2. QED
        BY <1>6, <3>1, Fun_IsInj
    <2>2. order \in Surjection(D, D)
      BY <1>3, <2>1, FS_Injection
    <2> HIDE DEF D
    <2>3. QED
      BY <2>2, Fun_SurjectionProperties
  <1>9. /\ Ordered(routes) \in Seq(RouteSet) /\ Len(Ordered(routes)) = Len(routes)
        /\ \A n \in D : Ordered(routes)[n] = routes[order[n]] /\ order[n] \in D
    <2> HIDE DEF before, R
    <2>1. \A n \in D : order[n] \in D
      <3> HIDE DEF D
      <3>1. QED
        BY <1>6
    <2>2. \A n \in D : routes[order[n]] \in RouteSet
      <3>1. \A i \in D : routes[i] \in RouteSet
        BY <1>1
      <3> HIDE DEF D
      <3>2. QED
        BY <2>1, <3>1
    <2>3. Ordered(routes) \in [D -> RouteSet]
      <3> HIDE DEF D
      <3>1. QED
        BY <1>7, <2>2
    <2>4. Ordered(routes) \in Seq(RouteSet) /\ Len(Ordered(routes)) = Len(routes)
      BY <1>1, <2>3
    <2>5. \A n \in D : Ordered(routes)[n] = routes[order[n]]
      <3> HIDE DEF D
      <3>1. QED
        BY <1>7
    <2>6. QED
      BY <2>1, <2>4, <2>5
  <1>10. \A m, n \in D : m < n => routes[order[m]].precedence <= routes[order[n]].precedence
    <2> SUFFICES ASSUME NEW m \in D, NEW n \in D, m < n
                 PROVE  routes[order[m]].precedence <= routes[order[n]].precedence
      OBVIOUS
    <2>1. /\ routes[order[m]].precedence \in Nat /\ routes[order[n]].precedence \in Nat
          /\ before(order[m], order[n])
      <3> HIDE DEF before
      <3>1. QED
        BY <1>2, <1>6
    <2> HIDE DEF D
    <2>2. QED
      BY <2>1
  <1> HIDE DEF before, R
  <1>11. /\ \A n \in D : \E i \in D : Ordered(routes)[n] = routes[i]
         /\ \A i \in D : \E n \in D : Ordered(routes)[n] = routes[i]
    <2> DEFINE ordered == Ordered(routes)
    <2>1. \A n \in D : ordered[n] = routes[order[n]] /\ order[n] \in D
      BY <1>9
    <2> HIDE DEF ordered, D
    <2>2. \A n \in D : \E i \in D : ordered[n] = routes[i]
      BY <2>1
    <2>3. \A i \in D : \E n \in D : ordered[n] = routes[i]
      BY <1>8, <2>1
    <2>4. QED
      BY <2>2, <2>3 DEF ordered
  <1>12. \A m, n \in D : m < n =>
            Ordered(routes)[m].precedence <= Ordered(routes)[n].precedence
    BY <1>9, <1>10
  <1>13. QED
    BY <1>9, <1>11, <1>12

\* A decision that names a route is the first match of the engine.
LEMMA MatchedRoute ==
    ASSUME engine \in Seq(RouteSet), NEW repository
    PROVE  LET n == MatchRoute(repository)
           IN  \/ n = 0 /\ \A i \in 1..Len(engine) : ~Matches(engine[i], repository)
               \/ /\ n \in 1..Len(engine) /\ Matches(engine[n], repository)
                  /\ \A i \in 1..Len(engine) : Matches(engine[i], repository) => n <= i
  <1> DEFINE T == {i \in 1..Len(engine) : Matches(engine[i], repository)}
             n == MatchRoute(repository)
  <1>1. n = IF T # {} THEN Min(T) ELSE 0
    BY DEF MatchRoute, SelectInSeq
  <1>2. Len(engine) \in Nat /\ T \in SUBSET (1..Len(engine))
    OBVIOUS
  <1> HIDE DEF n
  <1>3. (n = 0 /\ T = {}) \/ (n \in T /\ \A i \in T : n <= i)
    <2> HIDE DEF T
    <2>1. QED
      BY <1>1, <1>2, FirstSelected
  <1>4. (n = 0 /\ \A i \in 1..Len(engine) : ~Matches(engine[i], repository))
        \/ (/\ n \in 1..Len(engine) /\ Matches(engine[n], repository)
            /\ \A i \in 1..Len(engine) : Matches(engine[i], repository) => n <= i)
    BY <1>3
  <1>5. QED
    BY <1>4 DEF n

\* Cutting a list at an element leaves that element at its end only, and there
\* if the list holds it.
LEMMA CutAtTerminal ==
    ASSUME NEW S, NEW values \in Seq(S), NEW terminal
    PROVE  LET cut == TruncateAfter(values, terminal)
           IN  /\ cut \in Seq(S)
               /\ \A i \in 1..Len(cut) : cut[i] = terminal => i = Len(cut)
               /\ (\E i \in 1..Len(values) : values[i] = terminal) =>
                     \E i \in 1..Len(cut) : cut[i] = terminal
  <1> DEFINE T == {i \in 1..Len(values) : values[i] = terminal}
             at == SelectInSeq(values, LAMBDA v : v = terminal)
             cut == TruncateAfter(values, terminal)
  <1>1. at = IF T # {} THEN Min(T) ELSE 0
    BY DEF SelectInSeq
  <1>2. Len(values) \in Nat /\ T \in SUBSET (1..Len(values))
    OBVIOUS
  <1>3. cut = IF at = 0 THEN values ELSE SubSeq(values, 1, at)
    BY DEF TruncateAfter
  <1>4. CASE T # {}
    <2>1. at \in T /\ \A i \in T : at <= i
      <3> HIDE DEF T, at
      <3>1. QED
        BY <1>1, <1>2, <1>4, FirstSelected
    <2>2. cut = SubSeq(values, 1, at)
      <3> HIDE DEF at, cut
      <3>1. QED
        BY <1>2, <1>3, <2>1
    <2> HIDE DEF at, cut
    <2>3. cut \in Seq(S) /\ Len(cut) = at /\ \A i \in 1..at : cut[i] = values[i]
      BY <2>1, <2>2
    <2>4. \A i \in 1..at : values[i] = terminal => i = at
      BY <2>1
    <2>5. at \in 1..at /\ values[at] = terminal
      BY <2>1
    <2>6. QED
      BY <2>3, <2>4, <2>5 DEF cut
  <1>5. CASE T = {}
    <2>1. cut = values
      <3> HIDE DEF T, at, cut
      <3>1. QED
        BY <1>1, <1>3, <1>5
    <2>2. \A i \in 1..Len(values) : values[i] # terminal
      BY <1>5
    <2> HIDE DEF cut, at, T
    <2>3. QED
      BY <2>1, <2>2 DEF cut
  <1>6. QED
    BY <1>4, <1>5

\* The decision is the answer the engine gives for some repository.
Answered(repository) ==
    LET n == MatchRoute(repository)
    IN  \/ n = 0 /\ decision = NoRoute(repository)
        \/ n # 0 /\ decision = [kind |-> "pull", repository |-> repository, route |-> engine[n],
                                candidates |-> CandidateSources(engine[n])]
        \/ /\ n # 0 /\ ~AcceptsPush(engine[n])
           /\ decision = [kind |-> "denied", repository |-> repository, route |-> engine[n]]
        \/ /\ n # 0 /\ AcceptsPush(engine[n])
           /\ decision = [kind |-> "push", repository |-> repository, route |-> engine[n],
                          destination |-> engine[n].push]

\* The engine in service was built from a valid configuration.
PolicyInv ==
    /\ loaded \in BOOLEAN /\ written \in Seq(RouteSet)
    /\ loaded => engine = Ordered(written) /\ RoutesValid(written)
    /\ ~loaded => engine = <<>> /\ decision = NoDecision
    /\ decision = NoDecision \/ \E repository \in Repositories : Answered(repository)

\* Before a configuration is loaded nothing is decided.
LEMMA PolicyBegins == PolicyInit => PolicyInv
  <1> SUFFICES ASSUME PolicyInit
               PROVE  PolicyInv
    OBVIOUS
  <1>1. ~loaded /\ loaded \in BOOLEAN /\ written = <<>> /\ engine = <<>> /\ decision = NoDecision
    BY DEF PolicyInit
  <1>2. <<>> \in Seq(RouteSet)
    OBVIOUS
  <1>3. QED
    BY <1>1, <1>2 DEF PolicyInv

\* Loading orders what was validated, and a decision takes its first match.
LEMMA PolicyKept ==
    ASSUME PolicyInv, [PolicyNext]_policyVars
    PROVE  PolicyInv'
  <1>1. CASE UNCHANGED policyVars
    <2>1. /\ written' = written /\ loaded' = loaded /\ engine' = engine /\ decision' = decision
      BY <1>1 DEF policyVars
    <2>2. ASSUME NEW repository
          PROVE  Answered(repository)' <=> Answered(repository)
      <3>1. MatchRoute(repository)' = MatchRoute(repository)
        BY <2>1 DEF MatchRoute, SelectInSeq, Min
      <3>2. QED
        BY <2>1, <3>1 DEF Answered
    <2>3. QED
      BY <2>1, <2>2 DEF PolicyInv
  <1>2. ASSUME NEW r \in RouteSet, WriteRoute(r)
        PROVE  PolicyInv'
    <2>1. /\ written' = Append(written, r) /\ ~loaded
          /\ loaded' = loaded /\ engine' = engine /\ decision' = decision
      BY <1>2 DEF WriteRoute
    <2>2. QED
      BY <2>1 DEF PolicyInv
  <1>3. CASE NewEngine
    <2>1. /\ loaded' /\ engine' = Ordered(written') /\ RoutesValid(written')
          /\ written' = written /\ decision' = decision /\ ~loaded
      BY <1>3 DEF NewEngine
    <2>2. QED
      BY <2>1 DEF PolicyInv
  <1>4. ASSUME NEW repository \in Repositories, ResolvePull(repository)
        PROVE  PolicyInv'
    <2>1. loaded /\ written' = written /\ loaded' = loaded /\ engine' = engine
      BY <1>4 DEF ResolvePull
    <2>2. MatchRoute(repository)' = MatchRoute(repository)
      BY <2>1 DEF MatchRoute, SelectInSeq, Min
    <2>3. Answered(repository)'
      BY <1>4, <2>1, <2>2 DEF ResolvePull, Answered
    <2>4. QED
      BY <2>1, <2>3 DEF PolicyInv
  <1>5. ASSUME NEW repository \in Repositories, ResolvePush(repository)
        PROVE  PolicyInv'
    <2>1. loaded /\ written' = written /\ loaded' = loaded /\ engine' = engine
      BY <1>5 DEF ResolvePush
    <2>2. MatchRoute(repository)' = MatchRoute(repository)
      BY <2>1 DEF MatchRoute, SelectInSeq, Min
    <2>3. Answered(repository)'
      BY <1>5, <2>1, <2>2 DEF ResolvePush, Answered
    <2>4. QED
      BY <2>1, <2>3 DEF PolicyInv
  <1>6. CASE Stop
    <2>1. ~loaded' /\ written' = <<>> /\ engine' = <<>> /\ decision' = NoDecision
      BY <1>6 DEF Stop
    <2>2. loaded' \in BOOLEAN
      BY <1>6 DEF Stop
    <2>e. <<>> \in Seq(RouteSet)
      OBVIOUS
    <2>3. NoDecision' = NoDecision
      BY DEF NoDecision
    <2>4. QED
      BY <2>1, <2>2, <2>3, <2>e DEF PolicyInv
  <1>7. CASE Discard
    BY <1>7 DEF Discard, PolicyInv
  <1>8. QED
    BY <1>1, <1>2, <1>3, <1>4, <1>5, <1>6, <1>7 DEF PolicyNext

\* The order of the loaded routes and what was decided, in every reachable state.
LEMMA PolicyInvariant == PolicySpec => []PolicyInv
  <1>1. QED
    BY PolicyBegins, PolicyKept, PTL DEF PolicySpec

\* The engine in service holds the routes of the configuration.
LEMMA EngineRoutes ==
    ASSUME PolicyInv, loaded
    PROVE  /\ engine \in Seq(RouteSet) /\ Len(engine) = Len(written)
           /\ DOMAIN written = 1..Len(written)
           /\ \A n \in 1..Len(engine) : engine[n] \in Range(written)
           /\ \A i \in 1..Len(written) : \E n \in 1..Len(engine) : engine[n] = written[i]
           /\ \A n \in 1..Len(engine) : SourcesValid(engine[n])
           /\ \A m, n \in 1..Len(engine) : m <= n => engine[m].precedence <= engine[n].precedence
  <1>1. written \in Seq(RouteSet) /\ engine = Ordered(written) /\ RoutesValid(written)
    BY DEF PolicyInv
  <1>2. /\ engine \in Seq(RouteSet) /\ Len(engine) = Len(written)
        /\ \A n \in 1..Len(written) : \E i \in 1..Len(written) : engine[n] = written[i]
        /\ \A i \in 1..Len(written) : \E n \in 1..Len(written) : engine[n] = written[i]
        /\ \A m, n \in 1..Len(written) : m < n => engine[m].precedence <= engine[n].precedence
    BY <1>1, OrderedRoutes
  <1>3. DOMAIN written = 1..Len(written)
    BY <1>1
  <1>4. \A n \in 1..Len(engine) : engine[n].precedence \in Nat
    BY <1>2, PolicyConstants DEF IsRoute
  <1>5. \A m, n \in 1..Len(engine) : m <= n => engine[m].precedence <= engine[n].precedence
    <2> SUFFICES ASSUME NEW m \in 1..Len(engine), NEW n \in 1..Len(engine), m <= n
                 PROVE  engine[m].precedence <= engine[n].precedence
      OBVIOUS
    <2>1. CASE m = n
      BY <1>4, <2>1
    <2>2. CASE m < n
      BY <1>2, <2>2
    <2>3. QED
      BY <2>1, <2>2
  <1>6. \A n \in 1..Len(engine) : engine[n] \in Range(written)
    BY <1>2, <1>3 DEF Range
  <1>7. \A n \in 1..Len(engine) : SourcesValid(engine[n])
    BY <1>1, <1>2, <1>3 DEF RoutesValid
  <1>8. QED
    BY <1>2, <1>3, <1>5, <1>6, <1>7

\* The sources a route lists, and those a pull is told to try.
LEMMA RouteSources ==
    ASSUME NEW r \in RouteSet, SourcesValid(r)
    PROVE  /\ CandidateSources(r) \in Seq(Range(r.pull))
           /\ PolicySources # {} => CandidateSources(r) \in Seq(PolicySources)
           /\ PolicySources # {} /\ r.push # None => r.push \in PolicySources
           /\ r.authoritative # None /\ ~r.fallback =>
                 /\ \A i \in 1..Len(CandidateSources(r)) :
                       CandidateSources(r)[i] = r.authoritative => i = Len(CandidateSources(r))
                 /\ PolicySources # {} =>
                       \E i \in 1..Len(CandidateSources(r)) :
                          CandidateSources(r)[i] = r.authoritative
  <1>1. r.pull \in Seq(Range(r.pull))
    BY PolicyConstants DEF IsRoute
  <1>2. PolicySources # {} => Range(r.pull) \subseteq PolicySources
    BY DEF SourcesValid, Known
  <1>3. PolicySources # {} /\ r.push # None => r.push \in PolicySources
    BY DEF SourcesValid, Known
  <1>4. CandidateSources(r) \in Seq(Range(r.pull))
    <2>1. TruncateAfter(r.pull, r.authoritative) \in Seq(Range(r.pull))
      BY <1>1, CutAtTerminal
    <2>2. QED
      BY <1>1, <2>1 DEF CandidateSources
  <1>5. PolicySources # {} => CandidateSources(r) \in Seq(PolicySources)
    BY <1>2, <1>4
  <1>6. ASSUME r.authoritative # None, ~r.fallback
        PROVE  /\ \A i \in 1..Len(CandidateSources(r)) :
                     CandidateSources(r)[i] = r.authoritative => i = Len(CandidateSources(r))
               /\ PolicySources # {} =>
                     \E i \in 1..Len(CandidateSources(r)) :
                        CandidateSources(r)[i] = r.authoritative
    <2>1. CandidateSources(r) = TruncateAfter(r.pull, r.authoritative)
      BY <1>6 DEF CandidateSources
    <2>2. PolicySources # {} => \E i \in 1..Len(r.pull) : r.pull[i] = r.authoritative
      BY <1>1, <1>6 DEF SourcesValid, Range
    <2>3. QED
      BY <1>1, <2>1, <2>2, CutAtTerminal
  <1>7. QED
    BY <1>3, <1>4, <1>5, <1>6

\* What was decided, in the terms of the properties.
LEMMA DecisionFacts ==
    ASSUME PolicyInv, decision # NoDecision
    PROVE  /\ loaded /\ decision.repository \in Repositories
           /\ decision.kind \in {"no route", "pull", "push", "denied"}
           /\ decision.kind = "no route" =>
                 \A i \in DOMAIN written : ~Matches(written[i], decision.repository)
           /\ decision.kind \in {"pull", "push", "denied"} =>
                 /\ decision.route \in RouteSet /\ decision.route \in Range(written)
                 /\ SourcesValid(decision.route)
                 /\ Matches(decision.route, decision.repository)
                 /\ \A i \in DOMAIN written : Matches(written[i], decision.repository) =>
                       decision.route.precedence <= written[i].precedence
           /\ decision.kind = "pull" => decision.candidates = CandidateSources(decision.route)
           /\ decision.kind = "push" =>
                 AcceptsPush(decision.route) /\ decision.destination = decision.route.push
  <1>1. loaded
    BY DEF PolicyInv
  <1>2. PICK repository \in Repositories : Answered(repository)
    BY DEF PolicyInv
  <1> DEFINE n == MatchRoute(repository)
  <1>3. \/ n = 0 /\ \A i \in 1..Len(engine) : ~Matches(engine[i], repository)
        \/ /\ n \in 1..Len(engine) /\ Matches(engine[n], repository)
           /\ \A i \in 1..Len(engine) : Matches(engine[i], repository) => n <= i
    BY <1>1, EngineRoutes, MatchedRoute
  <1>4. CASE n = 0
    <2>1. decision = [kind |-> "no route", repository |-> repository]
      BY <1>2, <1>4 DEF Answered, NoRoute
    <2>2. \A i \in 1..Len(engine) : ~Matches(engine[i], repository)
      BY <1>3, <1>4
    <2> HIDE DEF n
    <2>3. \A i \in DOMAIN written : ~Matches(written[i], repository)
      BY <1>1, <2>2, EngineRoutes
    <2>4. QED
      BY <1>1, <2>1, <2>3
  <1>5. CASE n # 0
    <2> DEFINE r == engine[n]
    <2>1. /\ n \in 1..Len(engine) /\ Matches(r, repository)
          /\ \A i \in 1..Len(engine) : Matches(engine[i], repository) => n <= i
      BY <1>3, <1>5
    <2>2. \/ decision = [kind |-> "pull", repository |-> repository, route |-> r,
                         candidates |-> CandidateSources(r)]
          \/ decision = [kind |-> "denied", repository |-> repository, route |-> r]
          \/ /\ decision = [kind |-> "push", repository |-> repository, route |-> r,
                            destination |-> r.push]
             /\ AcceptsPush(r)
      BY <1>2, <1>5 DEF Answered
    <2> HIDE DEF n
    <2>3. r \in RouteSet /\ r \in Range(written) /\ SourcesValid(r)
      BY <1>1, <2>1, EngineRoutes
    <2>4. \A i \in DOMAIN written : Matches(written[i], repository) =>
             r.precedence <= written[i].precedence
      BY <1>1, <2>1, EngineRoutes
    <2> HIDE DEF r
    <2>5. /\ decision.repository = repository /\ decision.route = r
          /\ decision.kind \in {"pull", "push", "denied"}
          /\ decision.kind = "pull" => decision.candidates = CandidateSources(r)
          /\ decision.kind = "push" => AcceptsPush(r) /\ decision.destination = r.push
      BY <2>2
    <2>6. Matches(decision.route, decision.repository)
      BY <2>1, <2>5
    <2>7. QED
      BY <1>1, <2>3, <2>4, <2>5, <2>6
  <1>6. QED
    BY <1>4, <1>5

\* Decisions name routes of the configuration only, and configured sources if
\* there are any.
THEOREM PolicyTypes == PolicySpec => []PolicyTypeOK
  <1>1. ASSUME PolicyInv
        PROVE  PolicyTypeOK
    <2>1. /\ loaded \in BOOLEAN
          /\ \A i \in DOMAIN written : IsRoute(written[i])
      BY <1>1, PolicyConstants DEF PolicyInv
    <2>2. Len(engine) = IF loaded THEN Len(written) ELSE 0
      BY <1>1, EngineRoutes DEF PolicyInv
    <2>3. CASE decision = NoDecision
      BY <2>1, <2>2, <2>3 DEF PolicyTypeOK, NoDecision
    <2>4. CASE decision # NoDecision
      <3>1. decision.kind = "pull" /\ PolicySources # {} =>
               decision.candidates \in Seq(PolicySources)
        BY <1>1, <2>4, DecisionFacts, RouteSources
      <3>2. decision.kind = "push" /\ PolicySources # {} =>
               decision.destination \in PolicySources
        BY <1>1, <2>4, DecisionFacts, RouteSources DEF AcceptsPush
      <3>3. QED
        BY <1>1, <2>1, <2>2, <2>4, <3>1, <3>2, DecisionFacts DEF PolicyTypeOK
    <2>5. QED
      BY <2>3, <2>4
  <1>2. QED
    BY <1>1, PolicyInvariant, PTL

\* No route of a lower precedence matches than the one that decides, whatever
\* the order of the configuration file (NewEngine sorts, MatchRoute takes the
\* first).
THEOREM LowestPrecedence == PolicySpec => []LowestPrecedenceDecides
  <1>1. ASSUME PolicyInv
        PROVE  LowestPrecedenceDecides
    <2>1. CASE decision = NoDecision
      BY <2>1 DEF LowestPrecedenceDecides, Decided, NoDecision
    <2>2. CASE decision # NoDecision
      BY <1>1, <2>2, DecisionFacts DEF LowestPrecedenceDecides, Decided
    <2>3. QED
      BY <2>1, <2>2
  <1>2. QED
    BY <1>1, PolicyInvariant, PTL

\* A pull is not tried beyond the authoritative source of its route, unless
\* fallback is allowed (validateRouteSources and truncateAfter).
THEOREM AuthorityEndsCandidates == PolicySpec => []AuthorityIsLast
  <1>1. ASSUME PolicyInv
        PROVE  AuthorityIsLast
    <2> SUFFICES ASSUME decision.kind = "pull", decision.route.authoritative # None,
                        ~decision.route.fallback
                 PROVE  /\ \A i \in DOMAIN decision.candidates :
                              decision.candidates[i] = decision.route.authoritative
                                 => i = Len(decision.candidates)
                        /\ PolicySources # {} =>
                              \E i \in DOMAIN decision.candidates :
                                 decision.candidates[i] = decision.route.authoritative
      BY DEF AuthorityIsLast, Decided
    <2>1. decision # NoDecision
      BY DEF NoDecision
    <2>2. /\ decision.candidates = CandidateSources(decision.route)
          /\ decision.route \in RouteSet /\ SourcesValid(decision.route)
      BY <1>1, <2>1, DecisionFacts
    <2>3. DOMAIN decision.candidates = 1..Len(decision.candidates)
      BY <2>2, RouteSources
    <2>4. QED
      BY <2>2, <2>3, RouteSources
  <1>2. QED
    BY <1>1, PolicyInvariant, PTL

-----------------------------------------------------------------------------
(* The log of requests, which pulls write to, and the pages that show it.  *)

\* What RequestEvents assumes of its constants.
LEMMA LogConstants ==
    /\ \A query \in Queries :
          query.limit \in Nat \ {0} /\ query.window \in Nat /\ query.oldest \in BOOLEAN
    /\ TrailLimit \in Nat \ {0}
    /\ First \notin Cursors /\ NoValue \notin Cursors
    /\ IsFiniteSet(Pulls) /\ MaxEvents \in Nat /\ MaxTime \in Nat \ {0}
  BY QueryAssumption, TrailAssumption, SentinelAssumption, BoundAssumption

\* A set of natural numbers with a bound, if not empty, has a greatest element.
LEMMA GreatestExists ==
    ASSUME NEW S \in SUBSET Nat, S # {}, NEW n \in Nat, \A x \in S : x <= n
    PROVE  \E x \in S : \A y \in S : x >= y
  <1> DEFINE T == {n - x : x \in S}
  <1>0. \A x \in S : n - x \in Nat
    OBVIOUS
  <1>1. T \in SUBSET Nat /\ T # {}
    BY <1>0
  <1>2. PICK t \in T : \A u \in T : t <= u
    BY <1>1, LeastExists
  <1>3. PICK x \in S : t = n - x
    BY <1>2
  <1>4. ASSUME NEW y \in S
        PROVE  x >= y
    <2>1. n - y \in T
      OBVIOUS
    <2>2. n - x <= n - y
      BY <1>2, <1>3, <2>1
    <2> HIDE DEF T
    <2>3. n \in Nat /\ x \in Nat /\ y \in Nat
      OBVIOUS
    <2>4. QED
      BY <2>2, <2>3
  <1> HIDE DEF T
  <1>5. QED
    BY <1>4

-----------------------------------------------------------------------------
(* Details.                                                                *)

Event == [time : Nat, status : {"miss", "hit"}]
Pull  == [pc : {"idle", "provenance", "event"}, time : Nat, status : {NoValue, "miss", "hit"}]

\* Times were taken from the clock, and the rows and the requests that will
\* add one fit their bound.
RecordsInv ==
    /\ now \in 1..MaxTime
    /\ events \in Seq(Event) /\ recorded \in Seq(Nat)
    /\ pull \in [Pulls -> Pull]
    /\ Len(events) + Cardinality({p \in Pulls : pull[p].pc # "idle"}) <= MaxEvents
    /\ \A p \in Pulls : pull[p].pc = "idle" => pull[p] = NoPull
    /\ \A p \in Pulls : pull[p].pc = "event" => pull[p].status \in {"miss", "hit"}
    /\ \A p \in Pulls : pull[p].pc = "provenance" => pull[p].status = "miss"
    /\ \A p \in Pulls : pull[p].time <= now
    /\ \A i \in 1..Len(recorded) : recorded[i] <= now

\* The provenance of a request that went upstream is recorded before its event.
ProvenanceFirst ==
    /\ \A p \in Pulls : pull[p].pc = "event" /\ pull[p].status = "miss" =>
          \E i \in 1..Len(recorded) : recorded[i] = pull[p].time
    /\ \A k \in 1..Len(events) : events[k].status = "miss" =>
          \E i \in 1..Len(recorded) : recorded[i] = events[k].time

\* The number of requests under way, after one changes its step.
LEMMA UnderWay ==
    ASSUME IsFiniteSet(Pulls), pull \in [Pulls -> Pull], NEW p \in Pulls, NEW to \in Pull,
           pull' = [pull EXCEPT ![p] = to]
    PROVE  LET before == Cardinality({q \in Pulls : pull[q].pc # "idle"})
               after  == Cardinality({q \in Pulls : pull'[q].pc # "idle"})
           IN  /\ before \in Nat /\ after \in Nat
               /\ after = before + (IF to.pc # "idle" THEN 1 ELSE 0)
                                 - (IF pull[p].pc # "idle" THEN 1 ELSE 0)
  <1> DEFINE B == {q \in Pulls : pull[q].pc # "idle"}
             A == {q \in Pulls : pull'[q].pc # "idle"}
             O == B \ {p}
  <1>1. IsFiniteSet(B) /\ IsFiniteSet(A) /\ IsFiniteSet(O)
    BY FS_Subset
  <1>2. B = IF pull[p].pc # "idle" THEN O \cup {p} ELSE O
    OBVIOUS
  <1>3. A = IF to.pc # "idle" THEN O \cup {p} ELSE O
    OBVIOUS
  <1>4. Cardinality(O \cup {p}) = Cardinality(O) + 1
    <2>1. p \notin O
      OBVIOUS
    <2> HIDE DEF O
    <2>2. QED
      BY <1>1, <2>1, FS_AddElement
  <1>5. Cardinality(O) \in Nat
    BY <1>1, FS_CardinalityType
  <1> HIDE DEF A, B, O
  <1>6. Cardinality(B) = Cardinality(O) + (IF pull[p].pc # "idle" THEN 1 ELSE 0)
    BY <1>2, <1>4, <1>5
  <1>7. Cardinality(A) = Cardinality(O) + (IF to.pc # "idle" THEN 1 ELSE 0)
    BY <1>3, <1>4, <1>5
  <1>8. /\ Cardinality(B) \in Nat /\ Cardinality(A) \in Nat
        /\ Cardinality(A) = Cardinality(B) + (IF to.pc # "idle" THEN 1 ELSE 0)
                                           - (IF pull[p].pc # "idle" THEN 1 ELSE 0)
    BY <1>5, <1>6, <1>7
  <1>9. QED
    BY <1>8 DEF A, B

\* The log begins empty.
LEMMA RecordsInit ==
    ASSUME LogInit
    PROVE  RecordsInv /\ ProvenanceFirst
  <1>1. /\ now = 1 /\ events = <<>> /\ recorded = <<>>
        /\ pull = [p \in Pulls |-> NoPull]
    BY DEF LogInit
  <1>2. NoPull \in Pull /\ NoPull.pc = "idle" /\ NoPull.time = 0
    BY DEF NoPull, Pull
  <1>3. {p \in Pulls : pull[p].pc # "idle"} = {}
    BY <1>1, <1>2
  <1>4. Cardinality({p \in Pulls : pull[p].pc # "idle"}) = 0
    BY <1>3, FS_EmptySet
  <1>5. MaxEvents \in Nat /\ MaxTime \in Nat \ {0}
    BY LogConstants
  <1>6. events \in Seq(Event) /\ recorded \in Seq(Nat) /\ Len(events) = 0 /\ Len(recorded) = 0
    BY <1>1
  <1>7. QED
    BY <1>1, <1>2, <1>4, <1>5, <1>6 DEF RecordsInv, ProvenanceFirst

\* recordSuccessfulPull takes the time of a request from the clock.
LEMMA StartRecordKeeps ==
    ASSUME RecordsInv, ProvenanceFirst, NEW p \in Pulls, StartRecord(p)
    PROVE  RecordsInv' /\ ProvenanceFirst'
  <1>1. PICK status \in {"miss", "hit"} :
           pull' = [pull EXCEPT ![p] = [pc |-> IF status = "miss" THEN "provenance" ELSE "event",
                                        time |-> now, status |-> status]]
    BY DEF StartRecord
  <1> DEFINE to == [pc |-> IF status = "miss" THEN "provenance" ELSE "event",
                    time |-> now, status |-> status]
             busy == {q \in Pulls : pull[q].pc # "idle"}
  <1>2. /\ pull[p].pc = "idle" /\ now' = now /\ events' = events /\ recorded' = recorded
        /\ Len(events) + Cardinality(busy) < MaxEvents
    BY DEF StartRecord, Unwritten
  <1>3. /\ to \in Pull /\ to.pc # "idle" /\ to.time = now
        /\ to.pc = "event" => to.status = "hit"
        /\ to.pc = "provenance" => to.status = "miss"
    BY DEF RecordsInv, Pull
  <1>4. pull \in [Pulls -> Pull] /\ IsFiniteSet(Pulls) /\ MaxEvents \in Nat /\ Len(events) \in Nat
    BY LogConstants DEF RecordsInv
  <1>5. pull' = [pull EXCEPT ![p] = to]
    BY <1>1
  <1> HIDE DEF to
  <1>6. Cardinality(busy) \in Nat /\ Cardinality(busy)' = Cardinality(busy) + 1
    <2>1. pull[p].pc = "idle" /\ to.pc # "idle" /\ to \in Pull
      BY <1>2, <1>3
    <2>2. /\ Cardinality(busy) \in Nat /\ Cardinality(busy)' \in Nat
          /\ Cardinality(busy)' = Cardinality(busy) + 1 - 0
      BY <1>4, <1>5, <2>1, UnderWay
    <2> HIDE DEF busy
    <2>3. QED
      BY <2>2
  <1>7. Len(events) + Cardinality(busy) + 1 <= MaxEvents
    <2> HIDE DEF busy
    <2>1. QED
      BY <1>2, <1>4, <1>6
  <1>8. pull' \in [Pulls -> Pull] /\ pull'[p] = to /\ \A q \in Pulls : q # p => pull'[q] = pull[q]
    BY <1>3, <1>4, <1>5
  <1>9. RecordsInv'
    <2>1. Len(events)' + Cardinality(busy)' <= MaxEvents
      <3> HIDE DEF busy
      <3>1. QED
        BY <1>2, <1>4, <1>6, <1>7
    <2>2. \A q \in Pulls : /\ pull'[q].pc = "idle" => pull'[q] = NoPull
                           /\ pull'[q].pc = "event" => pull'[q].status \in {"miss", "hit"}
                           /\ pull'[q].pc = "provenance" => pull'[q].status = "miss"
                           /\ pull'[q].time <= now
      BY <1>3, <1>8 DEF RecordsInv
    <2>3. QED
      BY <1>2, <1>8, <2>1, <2>2 DEF RecordsInv, NoPull
  <1>10. ProvenanceFirst'
    BY <1>2, <1>3, <1>8 DEF ProvenanceFirst
  <1>11. QED
    BY <1>9, <1>10

\* RecordProvenance adds the time of its request.
LEMMA LogProvenanceKeeps ==
    ASSUME RecordsInv, ProvenanceFirst, NEW p \in Pulls, RecordRetrieval(p)
    PROVE  RecordsInv' /\ ProvenanceFirst'
  <1> DEFINE to == [pull[p] EXCEPT !.pc = "event"]
             busy == {q \in Pulls : pull[q].pc # "idle"}
  <1>1. /\ pull[p].pc = "provenance" /\ now' = now /\ events' = events
        /\ recorded' = Append(recorded, pull[p].time)
        /\ pull' = [pull EXCEPT ![p] = to]
    BY DEF RecordRetrieval
  <1>2. /\ pull \in [Pulls -> Pull] /\ IsFiniteSet(Pulls) /\ recorded \in Seq(Nat)
        /\ pull[p] \in Pull /\ pull[p].time <= now /\ pull[p].status = "miss"
    BY <1>1, LogConstants DEF RecordsInv
  <1>3. to \in Pull /\ to.pc = "event" /\ to.time = pull[p].time /\ to.status = "miss"
    BY <1>2 DEF Pull
  <1>4. pull[p].time \in Nat
    BY <1>2 DEF Pull
  <1> HIDE DEF to
  <1>5. Cardinality(busy) \in Nat /\ Cardinality(busy)' = Cardinality(busy)
    BY <1>1, <1>2, <1>3, UnderWay
  <1>6. pull' \in [Pulls -> Pull] /\ pull'[p] = to /\ \A q \in Pulls : q # p => pull'[q] = pull[q]
    BY <1>1, <1>2, <1>3
  <1>7. /\ recorded' \in Seq(Nat) /\ Len(recorded') = Len(recorded) + 1
        /\ recorded'[Len(recorded')] = pull[p].time
        /\ \A i \in 1..Len(recorded) : recorded'[i] = recorded[i]
    <2>1. PICK time : time = pull[p].time
      OBVIOUS
    <2>2. recorded \in Seq(Nat) /\ time \in Nat /\ recorded' = Append(recorded, time)
      BY <1>1, <1>2, <1>4, <2>1
    <2>3. QED
      BY <2>1, <2>2
  <1>8. RecordsInv'
    <2>1. \A q \in Pulls : /\ pull'[q].pc = "idle" => pull'[q] = NoPull
                           /\ pull'[q].pc = "event" => pull'[q].status \in {"miss", "hit"}
                           /\ pull'[q].pc = "provenance" => pull'[q].status = "miss"
                           /\ pull'[q].time <= now
      BY <1>2, <1>3, <1>6 DEF RecordsInv
    <2>2. \A i \in 1..Len(recorded') : recorded'[i] <= now
      <3>1. \A i \in 1..Len(recorded) : recorded[i] <= now
        BY DEF RecordsInv
      <3>2. PICK n : n = Len(recorded)
        OBVIOUS
      <3>3. n \in Nat /\ Len(recorded') = n + 1
        BY <1>2, <1>7, <3>2
      <3>4. \A i \in 1..(n + 1) : i \in 1..n \/ i = n + 1
        BY <3>3
      <3>5. \A i \in 1..n : recorded'[i] <= now
        BY <1>7, <3>1, <3>2
      <3>6. recorded'[n + 1] <= now
        BY <1>2, <1>7, <3>3
      <3>7. QED
        BY <3>3, <3>4, <3>5, <3>6
    <2>3. Len(events)' + Cardinality(busy)' <= MaxEvents
      BY <1>1, <1>5 DEF RecordsInv
    <2>4. QED
      BY <1>1, <1>6, <1>7, <2>1, <2>2, <2>3 DEF RecordsInv, NoPull
  <1>9. ProvenanceFirst'
    <2>1. /\ 1..Len(recorded) \subseteq 1..Len(recorded') /\ Len(recorded') \in 1..Len(recorded')
      BY <1>2, <1>7
    <2>2. QED
      BY <1>1, <1>3, <1>6, <1>7, <2>1 DEF ProvenanceFirst
  <1>10. QED
    BY <1>8, <1>9

\* RecordRequestEvent adds an event whose provenance is there.
LEMMA RecordRequestEventKeeps ==
    ASSUME RecordsInv, ProvenanceFirst, NEW p \in Pulls, RecordRequestEvent(p)
    PROVE  RecordsInv' /\ ProvenanceFirst'
  <1> DEFINE event == [time |-> pull[p].time, status |-> pull[p].status]
             busy == {q \in Pulls : pull[q].pc # "idle"}
  <1>1. /\ pull[p].pc = "event" /\ now' = now /\ recorded' = recorded
        /\ events' = Append(events, event)
        /\ pull' = [pull EXCEPT ![p] = NoPull]
    BY DEF RecordRequestEvent
  <1>2. /\ pull \in [Pulls -> Pull] /\ IsFiniteSet(Pulls) /\ events \in Seq(Event)
        /\ pull[p] \in Pull /\ pull[p].status \in {"miss", "hit"} /\ now \in Nat
    BY <1>1, LogConstants DEF RecordsInv
  <1>3. NoPull \in Pull /\ NoPull.pc = "idle" /\ NoPull.time = 0
    BY DEF NoPull, Pull
  <1>4. event \in Event /\ event.time = pull[p].time /\ event.status = pull[p].status
    BY <1>2 DEF Pull, Event
  <1> HIDE DEF event
  <1>5. Cardinality(busy) \in Nat /\ Cardinality(busy)' = Cardinality(busy) - 1
    <2>1. pull[p].pc # "idle"
      BY <1>1
    <2>2. Cardinality(busy) \in Nat /\ Cardinality(busy)' \in Nat
          /\ Cardinality(busy)' = Cardinality(busy) + 0 - 1
      BY <1>1, <1>2, <1>3, <2>1, UnderWay
    <2> HIDE DEF busy
    <2>3. QED
      BY <2>2
  <1>6. /\ pull' \in [Pulls -> Pull] /\ pull'[p] = NoPull
        /\ \A q \in Pulls : q # p => pull'[q] = pull[q]
    BY <1>1, <1>2, <1>3
  <1>7. /\ events' \in Seq(Event) /\ Len(events') = Len(events) + 1
        /\ events'[Len(events) + 1] = event
        /\ \A i \in 1..Len(events) : events'[i] = events[i]
    BY <1>1, <1>2, <1>4
  <1>8. RecordsInv'
    <2>1. \A q \in Pulls : /\ pull'[q].pc = "idle" => pull'[q] = NoPull
                           /\ pull'[q].pc = "event" => pull'[q].status \in {"miss", "hit"}
                           /\ pull'[q].pc = "provenance" => pull'[q].status = "miss"
                           /\ pull'[q].time <= now
      BY <1>2, <1>3, <1>6 DEF RecordsInv
    <2>2. Len(events)' + Cardinality(busy)' <= MaxEvents
      <3>1. Len(events) + Cardinality(busy) <= MaxEvents /\ Len(events) \in Nat
        BY <1>2 DEF RecordsInv
      <3> HIDE DEF busy
      <3>2. QED
        BY <1>5, <1>7, <3>1
    <2>3. QED
      BY <1>1, <1>6, <1>7, <2>1, <2>2 DEF RecordsInv, NoPull
  <1>9. ProvenanceFirst'
    <2> SUFFICES ASSUME NEW k \in 1..Len(events'), events'[k].status = "miss"
                 PROVE  \E i \in 1..Len(recorded) : recorded[i] = events'[k].time
      BY <1>1, <1>3, <1>6 DEF ProvenanceFirst
    <2>1. CASE k \in 1..Len(events)
      BY <1>7, <2>1 DEF ProvenanceFirst
    <2>2. CASE k = Len(events) + 1
      BY <1>1, <1>4, <1>7, <2>2 DEF ProvenanceFirst
    <2>3. QED
      BY <1>2, <1>7, <2>1, <2>2
  <1>10. QED
    BY <1>8, <1>9

\* A request that records no more leaves what was recorded.
LEMMA AbandonRecordKeeps ==
    ASSUME RecordsInv, ProvenanceFirst, NEW p \in Pulls, AbandonRecord(p)
    PROVE  RecordsInv' /\ ProvenanceFirst'
  <1> DEFINE busy == {q \in Pulls : pull[q].pc # "idle"}
  <1>1. /\ pull[p].pc # "idle" /\ now' = now /\ recorded' = recorded /\ events' = events
        /\ pull' = [pull EXCEPT ![p] = NoPull]
    BY DEF AbandonRecord
  <1>2. /\ pull \in [Pulls -> Pull] /\ IsFiniteSet(Pulls) /\ now \in Nat /\ Len(events) \in Nat
    BY LogConstants DEF RecordsInv
  <1>3. NoPull \in Pull /\ NoPull.pc = "idle" /\ NoPull.time = 0
    BY DEF NoPull, Pull
  <1>4. /\ Cardinality(busy) \in Nat /\ Cardinality(busy)' \in Nat
        /\ Cardinality(busy)' = Cardinality(busy) + 0 - 1
    BY <1>1, <1>2, <1>3, UnderWay
  <1>5. /\ pull' \in [Pulls -> Pull] /\ pull'[p] = NoPull
        /\ \A q \in Pulls : q # p => pull'[q] = pull[q]
    BY <1>1, <1>2, <1>3
  <1>6. RecordsInv'
    <2>1. \A q \in Pulls : /\ pull'[q].pc = "idle" => pull'[q] = NoPull
                           /\ pull'[q].pc = "event" => pull'[q].status \in {"miss", "hit"}
                           /\ pull'[q].pc = "provenance" => pull'[q].status = "miss"
                           /\ pull'[q].time <= now
      BY <1>2, <1>3, <1>5 DEF RecordsInv
    <2>2. Len(events)' + Cardinality(busy)' <= MaxEvents
      <3>1. Len(events) + Cardinality(busy) <= MaxEvents /\ MaxEvents \in Nat
        BY LogConstants DEF RecordsInv
      <3> HIDE DEF busy
      <3>2. QED
        BY <1>1, <1>2, <1>4, <3>1
    <2>3. QED
      BY <1>1, <1>5, <2>1, <2>2 DEF RecordsInv, NoPull
  <1>7. ProvenanceFirst'
    BY <1>1, <1>3, <1>5 DEF ProvenanceFirst
  <1>8. QED
    BY <1>6, <1>7

\* The same for every step of the log and of its windows.
LEMMA RecordsNext ==
    ASSUME RecordsInv, ProvenanceFirst, [LogNext]_logVars
    PROVE  RecordsInv' /\ ProvenanceFirst'
  <1>1. CASE UNCHANGED <<now, events, recorded, pull>>
    <2>1. now' = now /\ events' = events /\ recorded' = recorded /\ pull' = pull
      BY <1>1
    <2>2. QED
      BY <2>1 DEF RecordsInv, ProvenanceFirst, NoPull
  <1>2. CASE PassTime
    <2>1. now' = now + 1 /\ now < MaxTime /\ events' = events /\ recorded' = recorded /\ pull' = pull
      BY <1>2 DEF PassTime, log
    <2>2. now' \in 1..MaxTime
      BY <2>1, LogConstants DEF RecordsInv
    <2>3. /\ \A p \in Pulls : pull[p].time <= now'
          /\ \A i \in 1..Len(recorded) : recorded[i] <= now'
      <3>1. \A p \in Pulls : pull[p].time \in Nat
        BY DEF RecordsInv, Pull
      <3>2. \A i \in 1..Len(recorded) : recorded[i] \in Nat
        BY DEF RecordsInv
      <3>3. now \in Nat
        BY DEF RecordsInv
      <3>4. QED
        BY <2>1, <3>1, <3>2, <3>3 DEF RecordsInv
    <2>4. QED
      BY <2>1, <2>2, <2>3 DEF RecordsInv, ProvenanceFirst, NoPull
  <1>3. CASE \E p \in Pulls : StartRecord(p) \/ RecordRetrieval(p)
                              \/ RecordRequestEvent(p) \/ AbandonRecord(p)
    BY <1>3, StartRecordKeeps, LogProvenanceKeeps, RecordRequestEventKeeps, AbandonRecordKeeps
  <1>4. CASE \E b \in Browsers : OpenRequests(b) \/ ShowCount(b) \/ FollowNext(b)
                                 \/ FollowPrevious(b) \/ Close(b)
    <2>1. UNCHANGED <<now, log>>
      BY <1>4 DEF OpenRequests, ShowCount, FollowNext, FollowPrevious, Close
    <2>2. QED
      BY <1>1, <2>1 DEF log
  <1>5. QED
    BY <1>1, <1>2, <1>3, <1>4 DEF LogNext, logVars, log

\* The details of a request that went upstream show provenance at least as
\* recent as its own (handleRequestDetail), whatever order the records of
\* concurrent requests arrive in.
THEOREM DetailsNotOlder == LogSpec => []DetailNotOlder
  <1>1. LogInit => RecordsInv /\ ProvenanceFirst
    BY RecordsInit
  <1>2. (RecordsInv /\ ProvenanceFirst) /\ [LogNext]_logVars => (RecordsInv /\ ProvenanceFirst)'
    BY RecordsNext
  <1>3. ASSUME RecordsInv, ProvenanceFirst
        PROVE  DetailNotOlder
    <2> SUFFICES ASSUME NEW k \in DOMAIN events, events[k].status = "miss"
                 PROVE  recorded # <<>> /\ Latest(recorded) >= events[k].time
      BY DEF DetailNotOlder
    <2> DEFINE S == Range(recorded)
    <2>1. /\ recorded \in Seq(Nat) /\ events \in Seq(Event) /\ now \in Nat
          /\ \A i \in 1..Len(recorded) : recorded[i] <= now
      BY <1>3 DEF RecordsInv
    <2>2. PICK i \in 1..Len(recorded) : recorded[i] = events[k].time
      BY <1>3, <2>1 DEF ProvenanceFirst
    <2>3. S \in SUBSET Nat /\ events[k].time \in S /\ \A t \in S : t <= now
      BY <2>1, <2>2 DEF Range
    <2> HIDE DEF S
    <2>4. \E t \in S : \A u \in S : t >= u
      BY <2>1, <2>3, GreatestExists
    <2>5. Max(S) >= events[k].time
      BY <2>3, <2>4 DEF Max
    <2>6. QED
      BY <2>1, <2>2, <2>5 DEF S, Latest
  <1>4. QED
    BY <1>1, <1>2, <1>3, PTL DEF LogSpec

-----------------------------------------------------------------------------
(* A listing.                                                              *)

\* The order of events in a listing is strict and total on cursors.
LEMMA ListedOrder ==
    ASSUME NEW query, query.oldest \in BOOLEAN
    PROVE  /\ \A c \in Cursors : ~Listed(c, c, query)
           /\ \A c, d, e \in Cursors :
                 Listed(c, d, query) /\ Listed(d, e, query) => Listed(c, e, query)
           /\ \A c, d \in Cursors : c # d => Listed(c, d, query) \/ Listed(d, c, query)
  BY DEF Listed, Before, Cursors

\* The events of a listing, in order and none left out.
Match(query, cursor) ==
    {id \in DOMAIN events :
       EventMatches(id, query, After(query)) /\ WithinCursor(id, cursor, query)}

\* Events have cursors of their own.
LEMMA CursorTypes ==
    ASSUME events \in Seq(Event)
    PROVE  /\ \A id \in DOMAIN events : Cursor(id) \in Cursors /\ id \in Nat
           /\ \A i, j \in DOMAIN events : Cursor(i) = Cursor(j) => i = j
  <1>1. \A id \in DOMAIN events : events[id] \in Event /\ id \in Nat
    OBVIOUS
  <1>2. QED
    BY <1>1 DEF Cursor, Cursors, Event

\* QueryRequestEvents lists all that matches beyond the cursor, in order.
LEMMA SelectedList ==
    ASSUME events \in Seq(Event), NEW query, query.oldest \in BOOLEAN, NEW cursor
    PROVE  LET list == Selected(query, cursor)
           IN  /\ list \in Seq(Match(query, cursor))
               /\ \A i, j \in 1..Len(list) : i < j =>
                     Listed(Cursor(list[i]), Cursor(list[j]), query)
               /\ \A id \in Match(query, cursor) : \E i \in 1..Len(list) : list[i] = id
  <1> DEFINE S == Match(query, cursor)
             n == Cardinality(S)
             before(i, j) == Listed(Cursor(i), Cursor(j), query)
             R == {ij \in S \X S : before(ij[1], ij[2])}
             list == CHOOSE f \in SetToSeqs(S) : IsSorted(f, before)
  <1>1. S \subseteq DOMAIN events /\ IsFiniteSet(S)
    <2>1. S \subseteq DOMAIN events /\ DOMAIN events = 1..Len(events) /\ Len(events) \in Nat
      BY DEF Match
    <2>2. IsFiniteSet(1..Len(events))
      BY <2>1, FS_Interval
    <2> HIDE DEF S
    <2>3. QED
      BY <2>1, <2>2, FS_Subset
  <1>2. n \in Nat
    BY <1>1, FS_CardinalityType
  <1>3. \A i, j \in S : <<i, j>> \in R <=> before(i, j)
    OBVIOUS
  <1>4. \A i \in S : Cursor(i) \in Cursors
    BY <1>1, CursorTypes
  <1>5. \A i, j \in S : Cursor(i) = Cursor(j) => i = j
    BY <1>1, CursorTypes
  <1> HIDE DEF S
  <1>6. /\ \A i \in S : ~before(i, i)
        /\ \A i, j, k \in S : before(i, j) /\ before(j, k) => before(i, k)
        /\ \A i, j \in S : i # j => before(i, j) \/ before(j, i)
    BY <1>4, <1>5, ListedOrder
  <1> HIDE DEF before, R
  <1>7. PICK sorted \in [1..n -> S] : \A i, j \in 1..n : i < j => before(sorted[i], sorted[j])
    <2>1. \E f \in [1..n -> S] : \A i, j \in 1..n : i < j => <<f[i], f[j]>> \in R
      BY <1>1, <1>3, <1>6, SortExists
    <2> HIDE DEF n
    <2>2. PICK f \in [1..n -> S] : \A i, j \in 1..n : i < j => <<f[i], f[j]>> \in R
      BY <2>1
    <2>3. QED
      BY <1>3, <2>2
  <1> HIDE DEF n
  <1>8. \A f \in [1..n -> S] : Len(f) = n
    BY <1>2
  <1>9. \A f \in [1..n -> S] :
           (\A i, j \in 1..n : i < j => before(f[i], f[j])) =>
              \A i, j \in 1..n : i # j => f[i] # f[j]
    BY <1>2, <1>6
  <1>10. SetToSeqs(S) = {f \in [1..n -> S] : \A i, j \in 1..n : i # j => f[i] # f[j]}
    BY DEF SetToSeqs, n
  <1>11. \E f \in SetToSeqs(S) : IsSorted(f, before)
    BY <1>7, <1>8, <1>9, <1>10 DEF IsSorted
  <1>12. list \in SetToSeqs(S) /\ IsSorted(list, before)
    BY <1>11
  <1>13. Selected(query, cursor) = list
    BY DEF Selected, S, Match, before
  <1> HIDE DEF list
  <1>14. list \in [1..n -> S] /\ Len(list) = n /\ list \in Seq(S)
    BY <1>2, <1>8, <1>10, <1>12
  <1>15. \A i, j \in 1..n : i < j => before(list[i], list[j])
    BY <1>12, <1>14 DEF IsSorted
  <1>16. \A id \in S : \E i \in 1..n : list[i] = id
    <2>1. list \in Injection(1..n, S)
      BY <1>9, <1>14, <1>15, Fun_IsInj
    <2>2. Cardinality(1..n) = n
      BY <1>2, FS_Interval
    <2>3. list \in Surjection(1..n, S)
      BY <1>1, <2>1, <2>2, FS_Injection DEF n
    <2> DEFINE D == 1..n
    <2>4. list \in Surjection(D, S)
      BY <2>3
    <2> HIDE DEF D
    <2>5. \A id \in S : \E i \in D : list[i] = id
      BY <2>4, Fun_SurjectionProperties
    <2>6. QED
      BY <2>5 DEF D
  <1>17. QED
    BY <1>13, <1>14, <1>15, <1>16 DEF before, S

\* A page and its next cursor: the rows are the first of the listing, and what
\* they leave out comes after the cursor.
LEMMA PageOfListing ==
    ASSUME events \in Seq(Event), NEW query \in Queries, NEW cursor
    PROVE  LET rows == Rows(query, cursor)
               next == NextCursor(query, cursor)
           IN  /\ rows \in Seq(Match(query, cursor)) /\ Len(rows) <= query.limit
               /\ \A i, j \in 1..Len(rows) : i < j =>
                     Listed(Cursor(rows[i]), Cursor(rows[j]), query)
               /\ next # NoValue =>
                     /\ next \in Cursors /\ Len(rows) = query.limit
                     /\ next = Cursor(rows[Len(rows)])
                     /\ \E id \in Match(query, cursor) : Listed(next, Cursor(id), query)
               /\ \A id \in Match(query, cursor) :
                     \/ \E i \in 1..Len(rows) : rows[i] = id
                     \/ next # NoValue /\ Listed(next, Cursor(id), query)
  <1> DEFINE S == Match(query, cursor)
             list == Selected(query, cursor)
             rows == Rows(query, cursor)
             next == NextCursor(query, cursor)
             limit == query.limit
             at(id) == Cursor(id)
             listed(i, j) == Listed(at(i), at(j), query)
  <1>1. limit \in Nat \ {0} /\ query.oldest \in BOOLEAN /\ NoValue \notin Cursors
    BY LogConstants
  <1>2. /\ list \in Seq(S)
        /\ \A i, j \in 1..Len(list) : i < j => listed(list[i], list[j])
        /\ \A id \in S : \E i \in 1..Len(list) : list[i] = id
    BY <1>1, SelectedList
  <1>3. \A id \in S : at(id) \in Cursors
    BY CursorTypes DEF Match
  <1>4. CASE Len(list) > limit
    <2>1. rows = SubSeq(list, 1, limit) /\ next = at(Last(rows))
      BY <1>4 DEF Rows, NextCursor, HasMore
    <2> HIDE DEF list, rows, next, S, limit, listed
    <2>2. /\ rows \in Seq(S) /\ Len(rows) = limit
          /\ \A i \in 1..limit : rows[i] = list[i]
      BY <1>1, <1>2, <1>4, <2>1
    <2>3. next = at(list[limit]) /\ next = at(rows[Len(rows)]) /\ list[limit] \in S
      BY <1>1, <1>2, <1>4, <2>1, <2>2 DEF Last
    <2>4. next \in Cursors /\ next # NoValue
      BY <1>1, <1>3, <2>3
    <2>5. \A i, j \in 1..Len(rows) : i < j => listed(rows[i], rows[j])
      <3> SUFFICES ASSUME NEW i \in 1..Len(rows), NEW j \in 1..Len(rows), i < j
                   PROVE  listed(rows[i], rows[j])
        OBVIOUS
      <3>1. i \in 1..limit /\ j \in 1..limit /\ i \in 1..Len(list) /\ j \in 1..Len(list)
        BY <1>1, <1>2, <1>4, <2>2
      <3>2. listed(list[i], list[j])
        BY <1>2, <3>1
      <3>3. QED
        BY <2>2, <3>1, <3>2
    <2>6. limit + 1 \in 1..Len(list) /\ limit \in 1..Len(list) /\ list[limit + 1] \in S
      BY <1>1, <1>2, <1>4
    <2>7. listed(list[limit], list[limit + 1])
      BY <1>1, <1>2, <2>6
    <2>8. \A i \in 1..Len(list) : i > limit => listed(list[limit], list[i])
      BY <1>1, <1>2, <2>6
    <2>9. \A id \in S : (\E i \in 1..Len(rows) : rows[i] = id) \/ listed(list[limit], id)
      <3> SUFFICES ASSUME NEW id \in S
                   PROVE  (\E i \in 1..Len(rows) : rows[i] = id) \/ listed(list[limit], id)
        OBVIOUS
      <3>1. PICK i \in 1..Len(list) : list[i] = id
        BY <1>2
      <3>2. CASE i <= limit
        BY <1>1, <2>2, <3>1, <3>2
      <3>3. CASE i > limit
        BY <2>8, <3>1, <3>3
      <3>4. QED
        BY <1>1, <3>2, <3>3
    <2>10. QED
      BY <1>1, <2>2, <2>3, <2>4, <2>5, <2>6, <2>7, <2>9 DEF rows, next, S, limit, listed
  <1>5. CASE ~(Len(list) > limit)
    <2>1. rows = list /\ next = NoValue
      BY <1>5 DEF Rows, NextCursor, HasMore
    <2>2. Len(list) <= limit
      BY <1>1, <1>2, <1>5
    <2> HIDE DEF list
    <2>3. QED
      BY <1>2, <2>1, <2>2
  <1>6. QED
    BY <1>4, <1>5

-----------------------------------------------------------------------------
(* What a window shows.                                                    *)

Marks == Cursors \cup {First}

PageState == [pc : {"count", "shown"}, query : Queries, cursor : Marks, trail : Seq(Marks),
              after : Int, rows : Seq(Nat), next : Cursors \cup {NoValue}, total : Nat]

WalkState == [present : SUBSET Nat, shown : Seq(Nat), onward : BOOLEAN, path : Seq(Marks),
              pages : Nat]

WindowTypes ==
    /\ page \in [Browsers -> PageState \cup {NoPage}]
    /\ walk \in [Browsers -> WalkState \cup {NoWalk}]

Sorted(ids, query) ==
    \A i, j \in 1..Len(ids) : i < j => Listed(Cursor(ids[i]), Cursor(ids[j]), query)

\* A page as it was queried: its rows and, if there are more, the event that
\* says so.
RowsInv(P) ==
    /\ P.after <= After(P.query)
    /\ \A i \in 1..Len(P.rows) :
          P.rows[i] \in DOMAIN events /\ EventMatches(P.rows[i], P.query, P.after)
    /\ Len(P.rows) <= P.query.limit
    /\ Sorted(P.rows, P.query)
    /\ P.next # NoValue =>
          /\ Len(P.rows) = P.query.limit
          /\ P.next = Cursor(P.rows[Len(P.rows)])
          /\ \E id \in DOMAIN events :
                /\ EventMatches(id, P.query, P.after)
                /\ Listed(P.next, Cursor(id), P.query)

\* What a walk onward has shown, in order and up to the next cursor, is all
\* there was of the events that still match.
OnwardInv(P, W) ==
    /\ ~W.onward => W.shown = <<>>
    /\ W.onward =>
        /\ W.present \subseteq DOMAIN events
        /\ \A i \in 1..Len(W.shown) :
              /\ W.shown[i] \in DOMAIN events
              /\ P.next # NoValue => ~Listed(P.next, Cursor(W.shown[i]), P.query)
        /\ Sorted(W.shown, P.query)
        /\ \A id \in W.present :
              EventMatches(id, P.query, P.after) =>
                 \/ \E i \in 1..Len(W.shown) : W.shown[i] = id
                 \/ P.next # NoValue /\ Listed(P.next, Cursor(id), P.query)

CountInv(P) ==
    P.pc = "shown" => P.total >= Len(P.rows) + (IF P.next = NoValue THEN 0 ELSE 1)

\* The trail is the end of the path, which begins at the first page.
EndOf(s, t) == Len(s) <= Len(t) /\ \A i \in 1..Len(s) : s[i] = t[Len(t) - Len(s) + i]

TrailInv(P, W) ==
    /\ EndOf(P.trail, W.path)
    /\ IF W.path = <<>> THEN P.cursor = First ELSE W.path[1] = First

WindowInv(P, W) ==
    IF P.pc = "closed" THEN P = NoPage /\ W = NoWalk
    ELSE /\ P \in PageState /\ W \in WalkState
         /\ RowsInv(P) /\ OnwardInv(P, W) /\ CountInv(P) /\ TrailInv(P, W)

WindowsInv == WindowTypes /\ \A b \in Browsers : WindowInv(page[b], walk[b])

\* What a window shows stays as it is while the log grows and time passes.
LEMMA WindowStays ==
    ASSUME NEW P, NEW W, WindowInv(P, W),
           events \in Seq(Event), events' \in Seq(Event), Len(events) <= Len(events'),
           \A i \in 1..Len(events) : events'[i] = events[i],
           now \in Nat, now' \in Nat, now <= now'
    PROVE  WindowInv(P, W)'
  <1> SUFFICES ASSUME P.pc # "closed"
               PROVE  WindowInv(P, W)'
    BY DEF WindowInv, NoPage, NoWalk
  <1>0. /\ P \in PageState /\ W \in WalkState
        /\ RowsInv(P) /\ OnwardInv(P, W) /\ CountInv(P) /\ TrailInv(P, W)
    BY DEF WindowInv
  <1>1. DOMAIN events \subseteq DOMAIN events' /\ \A id \in DOMAIN events : events'[id] = events[id]
    OBVIOUS
  <1>2. \A id \in DOMAIN events : Cursor(id)' = Cursor(id)
    BY <1>1 DEF Cursor
  <1>3. ASSUME NEW id \in DOMAIN events, NEW query, NEW after
        PROVE  EventMatches(id, query, after)' <=> EventMatches(id, query, after)
    BY <1>1 DEF EventMatches
  <1>4. P.query \in Queries /\ P.after \in Int
    BY <1>0 DEF PageState
  <1>5. RowsInv(P)'
    <2>1. P.after <= After(P.query)'
      BY <1>0, <1>4, LogConstants DEF RowsInv, After
    <2>2. /\ \A i \in 1..Len(P.rows) : P.rows[i] \in DOMAIN events /\ EventMatches(P.rows[i], P.query, P.after)
          /\ Len(P.rows) <= P.query.limit /\ Sorted(P.rows, P.query)
      BY <1>0 DEF RowsInv
    <2>3. Sorted(P.rows, P.query)'
      BY <1>2, <2>2 DEF Sorted
    <2>4. \A i \in 1..Len(P.rows) :
             P.rows[i] \in DOMAIN events' /\ EventMatches(P.rows[i], P.query, P.after)'
      BY <1>1, <1>3, <2>2
    <2>5. ASSUME P.next # NoValue
          PROVE  /\ Len(P.rows) = P.query.limit
                 /\ P.next = Cursor(P.rows[Len(P.rows)])'
                 /\ \E id \in DOMAIN events' :
                       /\ EventMatches(id, P.query, P.after)'
                       /\ Listed(P.next, Cursor(id)', P.query)
      <3>1. /\ Len(P.rows) = P.query.limit /\ P.next = Cursor(P.rows[Len(P.rows)])
            /\ \E id \in DOMAIN events :
                  /\ EventMatches(id, P.query, P.after)
                  /\ Listed(P.next, Cursor(id), P.query)
        BY <1>0, <2>5 DEF RowsInv
      <3>2. Len(P.rows) \in 1..Len(P.rows)
        BY <1>4, <3>1, LogConstants
      <3>3. QED
        BY <1>1, <1>2, <1>3, <2>2, <3>1, <3>2
    <2>6. QED
      BY <2>1, <2>2, <2>3, <2>4, <2>5 DEF RowsInv
  <1>6. OnwardInv(P, W)'
    <2> SUFFICES ASSUME W.onward
                 PROVE  OnwardInv(P, W)'
      BY <1>0 DEF OnwardInv
    <2>1. /\ W.present \subseteq DOMAIN events
          /\ \A i \in 1..Len(W.shown) : W.shown[i] \in DOMAIN events
          /\ Sorted(W.shown, P.query)
      BY <1>0 DEF OnwardInv
    <2>2. \A i \in 1..Len(W.shown) :
             /\ W.shown[i] \in DOMAIN events'
             /\ P.next # NoValue => ~Listed(P.next, Cursor(W.shown[i])', P.query)
      BY <1>0, <1>1, <1>2, <2>1 DEF OnwardInv
    <2>3. Sorted(W.shown, P.query)'
      BY <1>2, <2>1 DEF Sorted
    <2>4. \A id \in W.present :
              EventMatches(id, P.query, P.after)' =>
                 \/ \E i \in 1..Len(W.shown) : W.shown[i] = id
                 \/ P.next # NoValue /\ Listed(P.next, Cursor(id)', P.query)
      BY <1>0, <1>2, <1>3, <2>1 DEF OnwardInv
    <2>5. QED
      BY <1>1, <2>1, <2>2, <2>3, <2>4 DEF OnwardInv
  <1>7. CountInv(P)' /\ TrailInv(P, W)'
    BY <1>0 DEF CountInv, TrailInv, EndOf
  <1>8. QED
    BY <1>0, <1>5, <1>6, <1>7 DEF WindowInv, PageState, WalkState

\* The page a query makes.
Queried(query, cursor, trail) ==
    [pc |-> "count", query |-> query, cursor |-> cursor, trail |-> trail,
     after |-> After(query), rows |-> Rows(query, cursor),
     next |-> NextCursor(query, cursor), total |-> 0]

\* What holds of it: its rows end where its next cursor begins.
QueriedInv(P, query, cursor, trail) ==
    /\ P \in PageState /\ P.pc = "count" /\ P.query = query /\ P.cursor = cursor
    /\ P.trail = trail /\ P.after = After(query) /\ P.rows = Rows(query, cursor)
    /\ RowsInv(P)
    /\ \A i \in 1..Len(P.rows) :
          /\ WithinCursor(P.rows[i], cursor, query)
          /\ P.next # NoValue => ~Listed(P.next, Cursor(P.rows[i]), query)
    /\ \A id \in Match(query, cursor) :
          \/ \E i \in 1..Len(P.rows) : P.rows[i] = id
          \/ P.next # NoValue /\ Listed(P.next, Cursor(id), query)

\* A query of handleDashboard makes such a page.
LEMMA QueriedPage ==
    ASSUME events \in Seq(Event), now \in Nat, NEW query \in Queries,
           NEW cursor \in Marks, NEW trail \in Seq(Marks),
           NEW P, P = Queried(query, cursor, trail)
    PROVE  QueriedInv(P, query, cursor, trail)
  <1> DEFINE rows == Rows(query, cursor)
             next == NextCursor(query, cursor)
  <1>1. /\ rows \in Seq(Match(query, cursor)) /\ Len(rows) <= query.limit
        /\ Sorted(rows, query)
        /\ next # NoValue =>
              /\ next \in Cursors /\ Len(rows) = query.limit
              /\ next = Cursor(rows[Len(rows)])
              /\ \E id \in Match(query, cursor) : Listed(next, Cursor(id), query)
        /\ \A id \in Match(query, cursor) :
              \/ \E i \in 1..Len(rows) : rows[i] = id
              \/ next # NoValue /\ Listed(next, Cursor(id), query)
    BY PageOfListing DEF Sorted
  <1>2. /\ query.limit \in Nat \ {0} /\ query.oldest \in BOOLEAN /\ query.window \in Nat
    BY LogConstants
  <1>3. After(query) \in Int
    BY <1>2 DEF After
  <1>4. /\ P.pc = "count" /\ P.query = query /\ P.cursor = cursor /\ P.trail = trail
        /\ P.after = After(query) /\ P.rows = rows /\ P.next = next /\ P.total = 0
    BY DEF Queried
  <1> HIDE DEF rows, next
  <1>5. \A id \in Match(query, cursor) :
           /\ id \in DOMAIN events /\ id \in Nat
           /\ EventMatches(id, query, After(query)) /\ WithinCursor(id, cursor, query)
           /\ Cursor(id) \in Cursors
    BY CursorTypes DEF Match
  <1>6. \A i \in 1..Len(rows) : rows[i] \in Match(query, cursor)
    BY <1>1
  <1>7. rows \in Seq(Nat)
    BY <1>1, <1>5
  <1>8. P \in PageState
    <2>1. next \in Cursors \cup {NoValue}
      BY <1>1
    <2>2. P = [pc |-> "count", query |-> query, cursor |-> cursor, trail |-> trail,
               after |-> After(query), rows |-> rows, next |-> next, total |-> 0]
      BY DEF Queried, rows, next
    <2>3. QED
      BY <1>3, <1>7, <2>1, <2>2 DEF PageState
  <1>9. RowsInv(P)
    <2>1. next # NoValue => \E id \in DOMAIN events :
             EventMatches(id, query, After(query)) /\ Listed(next, Cursor(id), query)
      BY <1>1, <1>5
    <2>2. After(query) <= After(query)
      BY <1>3
    <2>3. QED
      BY <1>1, <1>4, <1>5, <1>6, <2>1, <2>2 DEF RowsInv
  <1>10. ASSUME next # NoValue, NEW i \in 1..Len(rows)
         PROVE  ~Listed(next, Cursor(rows[i]), query)
    <2>1. /\ next = Cursor(rows[Len(rows)]) /\ Len(rows) \in Nat /\ next \in Cursors
          /\ Cursor(rows[i]) \in Cursors
      BY <1>1, <1>5, <1>6, <1>10
    <2>2. CASE i = Len(rows)
      BY <1>2, <2>1, <2>2, ListedOrder
    <2>3. CASE i # Len(rows)
      <3>1. i < Len(rows) /\ Len(rows) \in 1..Len(rows)
        BY <2>1, <2>3
      <3>2. Listed(Cursor(rows[i]), next, query)
        BY <1>1, <2>1, <3>1 DEF Sorted
      <3>3. QED
        BY <1>2, <2>1, <3>2, ListedOrder
    <2>4. QED
      BY <2>2, <2>3
  <1>11. QED
    BY <1>1, <1>4, <1>5, <1>6, <1>8, <1>9, <1>10 DEF rows, QueriedInv

\* A window that changes alone.
LEMMA OneWindow ==
    ASSUME RecordsInv, WindowsInv, UNCHANGED <<now, log>>,
           NEW b \in Browsers, NEW P, NEW W,
           page' = [page EXCEPT ![b] = P], walk' = [walk EXCEPT ![b] = W],
           WindowInv(P, W)
    PROVE  WindowsInv'
  <1>1. now' = now /\ events' = events /\ now \in Nat /\ events \in Seq(Event)
    BY DEF log, RecordsInv
  <1>2. P \in PageState \cup {NoPage} /\ W \in WalkState \cup {NoWalk}
    BY DEF WindowInv
  <1>3. /\ page' \in [Browsers -> PageState \cup {NoPage}]
        /\ walk' \in [Browsers -> WalkState \cup {NoWalk}]
        /\ page'[b] = P /\ walk'[b] = W
        /\ \A c \in Browsers : c # b => page'[c] = page[c] /\ walk'[c] = walk[c]
    BY <1>2 DEF WindowsInv, WindowTypes
  <1>4. WindowTypes'
    BY <1>3 DEF WindowTypes, PageState, WalkState, Marks, Cursors, NoPage, NoWalk
  <1>5. ASSUME NEW V, NEW U, WindowInv(V, U)
        PROVE  WindowInv(V, U)'
    BY <1>1, <1>5, WindowStays
  <1>6. ASSUME NEW c \in Browsers
        PROVE  WindowInv(page[c], walk[c])'
    <2>1. PICK V, U : V = page'[c] /\ U = walk'[c]
      OBVIOUS
    <2>2. WindowInv(V, U)
      <3>1. CASE c = b
        BY <1>3, <2>1, <3>1
      <3>2. CASE c # b
        BY <1>3, <2>1, <3>2 DEF WindowsInv
      <3>3. QED
        BY <3>1, <3>2
    <2>3. WindowInv(V, U)'
      BY <1>5, <2>2
    <2>4. QED
      BY <2>1, <2>3
  <1>7. QED
    BY <1>4, <1>6 DEF WindowsInv

\* The first page begins a walk with all that was there.
LEMMA OpenRequestsKeeps ==
    ASSUME RecordsInv, WindowsInv, NEW b \in Browsers, OpenRequests(b)
    PROVE  WindowsInv'
  <1>1. PICK query \in Queries :
           /\ page' = [page EXCEPT ![b] = Queried(query, First, <<>>)]
           /\ walk' = [walk EXCEPT ![b] =
                 [present |-> DOMAIN events, shown |-> Rows(query, First), onward |-> TRUE,
                  path |-> <<>>, pages |-> 1]]
    BY DEF OpenRequests, Show, Queried
  <1>2. PICK P, W : /\ P = Queried(query, First, <<>>)
                    /\ W = [present |-> DOMAIN events, shown |-> Rows(query, First),
                            onward |-> TRUE, path |-> <<>>, pages |-> 1]
    OBVIOUS
  <1>3. events \in Seq(Event) /\ now \in Nat
    BY DEF RecordsInv
  <1>4. First \in Marks /\ <<>> \in Seq(Marks)
    BY DEF Marks
  <1>p. QueriedInv(P, query, First, <<>>)
    BY <1>2, <1>3, <1>4, QueriedPage
  <1>5. /\ P \in PageState /\ P.pc = "count" /\ P.query = query /\ P.cursor = First
        /\ P.trail = <<>> /\ P.after = After(query) /\ P.rows = Rows(query, First)
        /\ RowsInv(P)
        /\ \A i \in 1..Len(P.rows) :
              P.next # NoValue => ~Listed(P.next, Cursor(P.rows[i]), query)
        /\ \A id \in Match(query, First) :
              \/ \E i \in 1..Len(P.rows) : P.rows[i] = id
              \/ P.next # NoValue /\ Listed(P.next, Cursor(id), query)
    BY <1>p DEF QueriedInv
  <1>6. /\ W.present = DOMAIN events /\ W.shown = P.rows /\ W.onward = TRUE /\ W.path = <<>>
        /\ W \in WalkState
    <2>1. DOMAIN events \in SUBSET Nat
      BY <1>3
    <2>2. P.rows \in Seq(Nat)
      BY <1>5 DEF PageState
    <2>3. <<>> \in Seq(Marks)
      BY <1>4
    <2>4. W = [present |-> DOMAIN events, shown |-> P.rows, onward |-> TRUE, path |-> <<>>,
               pages |-> 1]
      BY <1>2, <1>5
    <2>5. QED
      BY <2>1, <2>2, <2>3, <2>4 DEF WalkState
  <1>7. OnwardInv(P, W)
    <2>1. /\ \A i \in 1..Len(P.rows) : P.rows[i] \in DOMAIN events
          /\ Sorted(P.rows, query)
      BY <1>5 DEF RowsInv
    <2>2. \A id \in DOMAIN events : EventMatches(id, query, P.after) => id \in Match(query, First)
      BY <1>5 DEF Match, WithinCursor
    <2>3. QED
      BY <1>5, <1>6, <2>1, <2>2 DEF OnwardInv
  <1>8. CountInv(P) /\ TrailInv(P, W)
    BY <1>5, <1>6 DEF CountInv, TrailInv, EndOf
  <1>9. WindowInv(P, W)
    BY <1>5, <1>6, <1>7, <1>8 DEF WindowInv
  <1>10. UNCHANGED <<now, log>>
    BY DEF OpenRequests
  <1>11. QED
    BY <1>1, <1>2, <1>9, <1>10, OneWindow

\* A closed window shows nothing.
LEMMA CloseKeeps ==
    ASSUME RecordsInv, WindowsInv, NEW b \in Browsers, Close(b)
    PROVE  WindowsInv'
  <1>1. /\ page' = [page EXCEPT ![b] = NoPage] /\ walk' = [walk EXCEPT ![b] = NoWalk]
        /\ UNCHANGED <<now, log>>
    BY DEF Close
  <1>2. WindowInv(NoPage, NoWalk)
    BY DEF WindowInv, NoPage
  <1>3. PICK P, W : P = NoPage /\ W = NoWalk
    OBVIOUS
  <1>4. WindowInv(P, W) /\ page' = [page EXCEPT ![b] = P] /\ walk' = [walk EXCEPT ![b] = W]
    BY <1>1, <1>2, <1>3
  <1>5. QED
    BY <1>1, <1>4, OneWindow

\* The number of a page's rows is that of the events they stand for.
LEMMA RowsCounted ==
    ASSUME events \in Seq(Event), NEW query, query.oldest \in BOOLEAN, NEW rows \in Seq(DOMAIN events),
           Sorted(rows, query), NEW ids, \A i \in 1..Len(rows) : rows[i] \in ids,
           \A id \in ids : \E i \in 1..Len(rows) : rows[i] = id
    PROVE  IsFiniteSet(ids) /\ Cardinality(ids) = Len(rows)
  <1> DEFINE n == Len(rows)
  <1>1. n \in Nat /\ rows \in [1..n -> ids]
    OBVIOUS
  <1>2. \A i, j \in 1..n : i < j => rows[i] # rows[j]
    BY CursorTypes, ListedOrder DEF Sorted
  <1>3. \A i, j \in 1..n : rows[i] = rows[j] => i = j
    BY <1>1, <1>2
  <1>4. \A id \in ids : \E i \in 1..n : rows[i] = id
    OBVIOUS
  <1> HIDE DEF n
  <1>5. rows \in Bijection(1..n, ids)
    BY <1>1, <1>3, <1>4, Fun_IsBij
  <1>6. ExistsBijection(1..n, ids)
    BY <1>5 DEF ExistsBijection
  <1>7. IsFiniteSet(ids) /\ Cardinality(ids) = n
    BY <1>1, <1>6, FS_CountingElements, FS_NatBijection
  <1>8. QED
    BY <1>7 DEF n

\* CountRequestEvents counts the rows of the page and the event after them.
LEMMA ShowCountKeeps ==
    ASSUME RecordsInv, WindowsInv, NEW b \in Browsers, ShowCount(b)
    PROVE  WindowsInv'
  <1> DEFINE total == CountRequestEvents(page[b].query, page[b].after)
  <1>1. /\ page[b].pc = "count"
        /\ page' = [page EXCEPT ![b] = [page[b] EXCEPT !.pc = "shown", !.total = total]]
        /\ walk' = walk /\ UNCHANGED <<now, log>>
    BY DEF ShowCount
  <1>2. PICK O, P, W : O = page[b] /\ P = [O EXCEPT !.pc = "shown", !.total = total] /\ W = walk[b]
    OBVIOUS
  <1>3. /\ O.pc = "count" /\ O \in PageState /\ W \in WalkState
        /\ RowsInv(O) /\ OnwardInv(O, W) /\ TrailInv(O, W)
    BY <1>1, <1>2 DEF WindowsInv, WindowInv
  <1>4. /\ O.query \in Queries /\ O.rows \in Seq(Nat)
        /\ O.query.oldest \in BOOLEAN /\ events \in Seq(Event)
    BY <1>3, LogConstants DEF PageState, RecordsInv
  <1> DEFINE S == {id \in DOMAIN events : EventMatches(id, O.query, O.after)}
             ids == {O.rows[i] : i \in 1..Len(O.rows)}
  <1>5. total = Cardinality(S)
    BY <1>2 DEF CountRequestEvents
  <1>6. IsFiniteSet(S)
    <2>1. Len(events) \in Nat /\ DOMAIN events = 1..Len(events)
      BY <1>4
    <2>2. S \in SUBSET (1..Len(events))
      BY <2>1
    <2>3. IsFiniteSet(1..Len(events))
      BY <2>1, FS_Interval
    <2> HIDE DEF S
    <2>4. QED
      BY <2>2, <2>3, FS_Subset
  <1>7. /\ ids \subseteq S /\ IsFiniteSet(ids) /\ Cardinality(ids) = Len(O.rows)
    <2>1. ids \subseteq S
      BY <1>3 DEF RowsInv
    <2>2. O.rows \in Seq(DOMAIN events)
      BY <1>3, <1>4 DEF RowsInv
    <2>3. Sorted(O.rows, O.query)
      BY <1>3 DEF RowsInv
    <2>4. IsFiniteSet(ids) /\ Cardinality(ids) = Len(O.rows)
      <3>1. PICK rows, query, set : rows = O.rows /\ query = O.query /\ set = ids
        OBVIOUS
      <3>2. /\ \A i \in 1..Len(rows) : rows[i] \in set
            /\ \A id \in set : \E i \in 1..Len(rows) : rows[i] = id
        BY <3>1
      <3>3. rows \in Seq(DOMAIN events) /\ query.oldest \in BOOLEAN /\ Sorted(rows, query)
        BY <1>4, <2>2, <2>3, <3>1
      <3>4. IsFiniteSet(set) /\ Cardinality(set) = Len(rows)
        BY <1>4, <3>2, <3>3, RowsCounted
      <3> HIDE DEF ids, S
      <3>5. QED
        BY <3>1, <3>4
    <2> HIDE DEF ids, S
    <2>5. QED
      BY <2>1, <2>4
  <1>8. O.next # NoValue => \E id \in S : id \notin ids
    <2> SUFFICES ASSUME O.next # NoValue
                 PROVE  \E id \in S : id \notin ids
      OBVIOUS
    <2>1. PICK id \in S : Listed(O.next, Cursor(id), O.query)
      BY <1>3 DEF RowsInv
    <2>2. ASSUME NEW i \in 1..Len(O.rows)
          PROVE  O.rows[i] # id
      <3>1. /\ O.next = Cursor(O.rows[Len(O.rows)]) /\ Len(O.rows) \in 1..Len(O.rows)
            /\ O.rows[i] \in DOMAIN events /\ O.rows[Len(O.rows)] \in DOMAIN events
            /\ i < Len(O.rows) => Listed(Cursor(O.rows[i]), O.next, O.query)
        BY <1>3, <1>4 DEF RowsInv, Sorted
      <3>2. /\ Cursor(O.rows[i]) \in Cursors /\ O.next \in Cursors
        BY <1>4, <3>1, CursorTypes
      <3>3. CASE i = Len(O.rows)
        BY <1>4, <2>1, <3>1, <3>2, <3>3, ListedOrder
      <3>4. CASE i < Len(O.rows)
        BY <1>4, <2>1, <3>1, <3>2, <3>4, ListedOrder
      <3>5. QED
        BY <3>1, <3>3, <3>4
    <2>3. QED
      BY <2>1, <2>2
  <1>9. total \in Nat /\ total >= Len(O.rows) + (IF O.next = NoValue THEN 0 ELSE 1)
    <2> HIDE DEF S, ids, total
    <2>1. total \in Nat /\ Cardinality(ids) <= total
      BY <1>5, <1>6, <1>7, FS_Subset, FS_CardinalityType
    <2>2. CASE O.next = NoValue
      BY <1>4, <1>7, <2>1, <2>2
    <2>3. CASE O.next # NoValue
      <3>1. PICK id \in S : id \notin ids
        BY <1>8, <2>3
      <3>2. Cardinality(ids \cup {id}) = Cardinality(ids) + 1
        BY <1>7, <3>1, FS_AddElement
      <3>3. ids \cup {id} \in SUBSET S
        BY <1>7, <3>1
      <3>4. Cardinality(ids \cup {id}) <= Cardinality(S)
        BY <1>6, <3>3, FS_Subset
      <3>5. QED
        BY <1>4, <1>5, <1>7, <2>1, <2>3, <3>2, <3>4
    <2>4. QED
      BY <2>2, <2>3
  <1> HIDE DEF total
  <1>10. /\ P \in PageState /\ P.pc = "shown" /\ P.total = total /\ P.query = O.query
         /\ P.cursor = O.cursor /\ P.trail = O.trail /\ P.after = O.after /\ P.rows = O.rows
         /\ P.next = O.next
    BY <1>2, <1>3, <1>9 DEF PageState
  <1>11. RowsInv(P) /\ OnwardInv(P, W) /\ TrailInv(P, W) /\ CountInv(P)
    BY <1>3, <1>9, <1>10 DEF RowsInv, OnwardInv, TrailInv, CountInv
  <1>12. WindowInv(P, W)
    BY <1>3, <1>10, <1>11 DEF WindowInv
  <1>13. page' = [page EXCEPT ![b] = P] /\ walk' = [walk EXCEPT ![b] = W]
    BY <1>1, <1>2 DEF WindowsInv, WindowTypes
  <1>14. QED
    BY <1>1, <1>12, <1>13, OneWindow

\* The trail to the next page ends the path there.
LEMMA TrailGrows ==
    ASSUME TrailLimit \in Nat \ {0}, NEW trail \in Seq(Marks), NEW path \in Seq(Marks),
           EndOf(trail, path), NEW cursor \in Marks
    PROVE  /\ NextTrail(trail, cursor) \in Seq(Marks)
           /\ EndOf(NextTrail(trail, cursor), Append(path, cursor))
  <1> DEFINE all == Append(trail, cursor)
             m == Max({1, Len(all) - TrailLimit + 1})
             end == SubSeq(all, m, Len(all))
             way == Append(path, cursor)
  <1>1. /\ all \in Seq(Marks) /\ Len(all) = Len(trail) + 1 /\ all[Len(trail) + 1] = cursor
        /\ \A i \in 1..Len(trail) : all[i] = trail[i]
    OBVIOUS
  <1>2. /\ way \in Seq(Marks) /\ Len(way) = Len(path) + 1 /\ way[Len(path) + 1] = cursor
        /\ \A i \in 1..Len(path) : way[i] = path[i]
    OBVIOUS
  <1>3. Len(trail) \in Nat /\ Len(path) \in Nat /\ Len(trail) <= Len(path)
    BY DEF EndOf
  <1> HIDE DEF all, way
  <1>4. EndOf(all, way)
    <2> SUFFICES ASSUME NEW i \in 1..Len(all)
                 PROVE  all[i] = way[Len(way) - Len(all) + i]
      BY <1>1, <1>2, <1>3 DEF EndOf
    <2>1. CASE i = Len(trail) + 1
      <3>1. Len(way) - Len(all) + i = Len(path) + 1
        BY <1>1, <1>2, <1>3, <2>1
      <3>2. QED
        BY <1>1, <1>2, <2>1, <3>1
    <2>2. CASE i # Len(trail) + 1
      <3>1. i \in 1..Len(trail) /\ Len(path) - Len(trail) + i \in 1..Len(path)
        BY <1>1, <1>3, <2>2
      <3>2. Len(way) - Len(all) + i = Len(path) - Len(trail) + i
        BY <1>1, <1>2, <1>3, <3>1
      <3>3. trail[i] = path[Len(path) - Len(trail) + i]
        BY <3>1 DEF EndOf
      <3>4. QED
        BY <1>1, <1>2, <3>1, <3>2, <3>3
    <2>3. QED
      BY <2>1, <2>2
  <1>5. m \in 1..Len(all)
    <2>1. PICK k : k = Len(all) - TrailLimit + 1
      OBVIOUS
    <2>2. k \in Int /\ k <= Len(all) /\ Len(all) \in Nat /\ Len(all) >= 1
      BY <1>1, <1>3, <2>1
    <2>3. \E x \in {1, k} : \A y \in {1, k} : x >= y
      BY <2>2
    <2>4. Max({1, k}) \in {1, k} /\ Max({1, k}) >= 1
      BY <2>3 DEF Max
    <2>5. QED
      BY <2>1, <2>2, <2>4
  <1> HIDE DEF m
  <1>6. /\ end \in Seq(Marks) /\ Len(end) = Len(all) - m + 1
        /\ \A i \in 1..Len(end) : end[i] = all[m + i - 1]
    BY <1>1, <1>3, <1>5
  <1> HIDE DEF end
  <1>7. EndOf(end, way)
    <2> SUFFICES ASSUME NEW i \in 1..Len(end)
                 PROVE  end[i] = way[Len(way) - Len(end) + i]
      BY <1>1, <1>2, <1>3, <1>5, <1>6 DEF EndOf
    <2>1. m + i - 1 \in 1..Len(all)
      BY <1>1, <1>3, <1>5, <1>6
    <2>2. all[m + i - 1] = way[Len(way) - Len(all) + (m + i - 1)]
      BY <1>4, <2>1 DEF EndOf
    <2>3. Len(way) - Len(all) + (m + i - 1) = Len(way) - Len(end) + i
      BY <1>1, <1>2, <1>3, <1>5, <1>6
    <2>4. QED
      BY <1>6, <2>2, <2>3
  <1>8. QED
    BY <1>6, <1>7 DEF end, m, all, way, NextTrail

\* Two lists in a row: where each element of the whole comes from.
Joined(all, left, right) ==
    /\ \A i \in 1..Len(left) : \E k \in 1..Len(all) : all[k] = left[i]
    /\ \A i \in 1..Len(right) : \E k \in 1..Len(all) : all[k] = right[i]
    /\ \A k \in 1..Len(all) :
          \/ k \in 1..Len(left) /\ all[k] = left[k]
          \/ \E i \in 1..Len(right) : k = Len(left) + i /\ all[k] = right[i]

\* An element of the whole is one of either part.
LEMMA Concatenated ==
    ASSUME NEW left \in Seq(Nat), NEW right \in Seq(Nat), NEW all, all = left \o right
    PROVE  Joined(all, left, right)
  <1>1. PICK m, n : m = Len(left) /\ n = Len(right)
    OBVIOUS
  <1>2. /\ m \in Nat /\ n \in Nat /\ all \in Seq(Nat) /\ Len(all) = m + n
        /\ \A k \in 1..(m + n) : all[k] = IF k <= m THEN left[k] ELSE right[k - m]
    BY <1>1
  <1>3. ASSUME NEW i \in 1..m
        PROVE  i \in 1..(m + n) /\ all[i] = left[i]
    BY <1>2
  <1>4. ASSUME NEW i \in 1..n
        PROVE  m + i \in 1..(m + n) /\ all[m + i] = right[i]
    <2>1. m + i \in 1..(m + n) /\ ~(m + i <= m) /\ (m + i) - m = i
      BY <1>2
    <2>2. QED
      BY <1>2, <2>1
  <1>5. ASSUME NEW k \in 1..(m + n)
        PROVE  \/ k \in 1..m /\ all[k] = left[k]
               \/ \E i \in 1..n : k = m + i /\ all[k] = right[i]
    <2>1. CASE k <= m
      BY <1>2, <2>1
    <2>2. CASE ~(k <= m)
      <3>1. PICK i : i = k - m
        OBVIOUS
      <3>2. i \in 1..n /\ k = m + i
        BY <1>2, <2>2, <3>1
      <3>3. QED
        BY <1>2, <2>2, <3>1, <3>2
    <2>3. QED
      BY <2>1, <2>2
  <1>6. m = Len(left) /\ n = Len(right) /\ m + n = Len(all)
    BY <1>1, <1>2
  <1>7. ASSUME NEW i \in 1..Len(left)
        PROVE  \E k \in 1..Len(all) : all[k] = left[i]
    BY <1>3, <1>6
  <1>8. ASSUME NEW i \in 1..Len(right)
        PROVE  \E k \in 1..Len(all) : all[k] = right[i]
    BY <1>4, <1>6
  <1>9. ASSUME NEW k \in 1..Len(all)
        PROVE  \/ k \in 1..Len(left) /\ all[k] = left[k]
               \/ \E i \in 1..Len(right) : k = Len(left) + i /\ all[k] = right[i]
    <2>1. k \in 1..(m + n)
      BY <1>6
    <2>2. (k \in 1..m /\ all[k] = left[k]) \/ \E i \in 1..n : k = m + i /\ all[k] = right[i]
      BY <1>5, <2>1
    <2>3. QED
      BY <1>6, <2>2
  <1>10. QED
    BY <1>7, <1>8, <1>9 DEF Joined

\* Two lists in order, the first before the second, are a list in order.
LEMMA SortedConcatenated ==
    ASSUME NEW query, NEW left \in Seq(Nat), NEW right \in Seq(Nat), NEW all, all = left \o right,
           Sorted(left, query), Sorted(right, query),
           \A i \in 1..Len(left), j \in 1..Len(right) :
              Listed(Cursor(left[i]), Cursor(right[j]), query)
    PROVE  Sorted(all, query)
  <1> SUFFICES ASSUME NEW i \in 1..Len(all), NEW j \in 1..Len(all), i < j
               PROVE  Listed(Cursor(all[i]), Cursor(all[j]), query)
    BY DEF Sorted
  <1>1. Len(left) \in Nat /\ Len(right) \in Nat
    OBVIOUS
  <1>j. Joined(all, left, right)
    BY Concatenated
  <1>2. CASE j \in 1..Len(left) /\ all[j] = left[j]
    <2>1. i \in 1..Len(left) /\ all[i] = left[i]
      BY <1>1, <1>2, <1>j DEF Joined
    <2>2. QED
      BY <1>2, <2>1 DEF Sorted
  <1>3. CASE \E k \in 1..Len(right) : j = Len(left) + k /\ all[j] = right[k]
    <2>1. PICK k \in 1..Len(right) : j = Len(left) + k /\ all[j] = right[k]
      BY <1>3
    <2>2. CASE i \in 1..Len(left) /\ all[i] = left[i]
      BY <2>1, <2>2
    <2>3. CASE \E l \in 1..Len(right) : i = Len(left) + l /\ all[i] = right[l]
      <3>1. PICK l \in 1..Len(right) : i = Len(left) + l /\ all[i] = right[l]
        BY <2>3
      <3>2. l < k
        BY <1>1, <2>1, <3>1
      <3>3. QED
        BY <2>1, <3>1, <3>2 DEF Sorted
    <2>4. QED
      BY <2>2, <2>3, <1>j DEF Joined
  <1>4. QED
    BY <1>2, <1>3, <1>j DEF Joined

\* A walk onward keeps its order and leaves nothing out from page to page.
LEMMA OnwardGrows ==
    ASSUME events \in Seq(Event), now \in Nat,
           NEW O \in PageState, NEW V \in WalkState, NEW P, NEW W, NEW trail,
           RowsInv(O), OnwardInv(O, V), O.next # NoValue,
           QueriedInv(P, O.query, O.next, trail),
           W.present = V.present, W.onward = V.onward,
           W.shown = IF V.onward THEN V.shown \o P.rows ELSE V.shown
    PROVE  OnwardInv(P, W)
  <1> SUFFICES ASSUME V.onward
               PROVE  OnwardInv(P, W)
    BY DEF OnwardInv
  <1> DEFINE query == O.query
             cur(id) == Cursor(id)
             listed(c, d) == Listed(c, d, query)
  <1>1. query \in Queries /\ query.oldest \in BOOLEAN /\ query.window \in Nat
    BY LogConstants DEF PageState
  <1>2. O.next \in Cursors /\ O.next # First /\ V.shown \in Seq(Nat)
    BY LogConstants DEF PageState, WalkState
  <1>3. /\ P \in PageState /\ P.query = query /\ P.after = After(query) /\ RowsInv(P)
        /\ \A i \in 1..Len(P.rows) :
              /\ WithinCursor(P.rows[i], O.next, query)
              /\ P.next # NoValue => ~listed(P.next, cur(P.rows[i]))
        /\ \A id \in Match(query, O.next) :
              \/ \E i \in 1..Len(P.rows) : P.rows[i] = id
              \/ P.next # NoValue /\ listed(P.next, cur(id))
    BY DEF QueriedInv
  <1>4. /\ P.rows \in Seq(Nat) /\ Sorted(P.rows, query)
        /\ \A i \in 1..Len(P.rows) : P.rows[i] \in DOMAIN events /\ listed(O.next, cur(P.rows[i]))
    BY <1>2, <1>3 DEF PageState, RowsInv, WithinCursor
  <1>5. /\ V.present \subseteq DOMAIN events
        /\ \A i \in 1..Len(V.shown) :
              V.shown[i] \in DOMAIN events /\ ~listed(O.next, cur(V.shown[i]))
        /\ Sorted(V.shown, query)
        /\ \A id \in V.present :
              EventMatches(id, query, O.after) =>
                 (\E i \in 1..Len(V.shown) : V.shown[i] = id) \/ listed(O.next, cur(id))
    BY DEF OnwardInv
  <1>6. \A id \in DOMAIN events : cur(id) \in Cursors
    BY CursorTypes
  <1>7. P.next # NoValue => P.next \in Cursors /\ listed(O.next, P.next)
    <2> SUFFICES ASSUME P.next # NoValue
                 PROVE  P.next \in Cursors /\ listed(O.next, P.next)
      OBVIOUS
    <2>1. P.next = cur(P.rows[Len(P.rows)]) /\ Len(P.rows) \in 1..Len(P.rows)
      BY <1>1, <1>3, <1>4, LogConstants DEF RowsInv
    <2>2. QED
      BY <1>4, <1>6, <2>1
  <1>8. /\ \A c \in Cursors : ~listed(c, c)
        /\ \A c, d, e \in Cursors : listed(c, d) /\ listed(d, e) => listed(c, e)
        /\ \A c, d \in Cursors : c # d => listed(c, d) \/ listed(d, c)
    BY <1>1, ListedOrder
  <1> HIDE DEF cur, listed
  <1>9. \A i \in 1..Len(V.shown), j \in 1..Len(P.rows) : listed(cur(V.shown[i]), cur(P.rows[j]))
    <2> SUFFICES ASSUME NEW i \in 1..Len(V.shown), NEW j \in 1..Len(P.rows)
                 PROVE  listed(cur(V.shown[i]), cur(P.rows[j]))
      OBVIOUS
    <2>1. cur(V.shown[i]) \in Cursors /\ ~listed(O.next, cur(V.shown[i]))
      BY <1>5, <1>6 DEF cur, listed
    <2>2. cur(P.rows[j]) \in Cursors /\ listed(O.next, cur(P.rows[j]))
      BY <1>4, <1>6 DEF cur, listed
    <2>3. QED
      BY <1>2, <1>8, <2>1, <2>2
  <1>10. /\ \A id : Contains(W.shown, id) <=>
                       Contains(V.shown, id) \/ Contains(P.rows, id)
         /\ Sorted(W.shown, query)
    <2>1. PICK left, right, all : left = V.shown /\ right = P.rows /\ all = W.shown
      OBVIOUS
    <2>2. left \in Seq(Nat) /\ right \in Seq(Nat) /\ all = left \o right
      BY <1>2, <1>4, <2>1
    <2>3. Sorted(left, query) /\ Sorted(right, query)
      BY <1>4, <1>5, <2>1
    <2>4. \A i \in 1..Len(left), j \in 1..Len(right) :
             Listed(Cursor(left[i]), Cursor(right[j]), query)
      BY <1>9, <2>1 DEF cur, listed
    <2>5. Sorted(all, query)
      BY <2>2, <2>3, <2>4, SortedConcatenated
    <2>6. \A id : Contains(all, id) <=> Contains(left, id) \/ Contains(right, id)
      <3>1. Joined(all, left, right)
        BY <2>2, Concatenated
      <3>2. ASSUME NEW id, Contains(all, id)
            PROVE  Contains(left, id) \/ Contains(right, id)
        <4>1. PICK k \in 1..Len(all) : all[k] = id
          BY <3>2 DEF Contains
        <4>2. (k \in 1..Len(left) /\ left[k] = id) \/ \E i \in 1..Len(right) : right[i] = id
          BY <3>1, <4>1 DEF Joined
        <4>3. QED
          BY <4>2 DEF Contains
      <3>3. \A id : Contains(left, id) => Contains(all, id)
        BY <3>1 DEF Joined, Contains
      <3>4. \A id : Contains(right, id) => Contains(all, id)
        BY <3>1 DEF Joined, Contains
      <3>5. QED
        BY <3>2, <3>3, <3>4
    <2>7. QED
      BY <2>1, <2>5, <2>6
  <1>11. \A k \in 1..Len(W.shown) :
            /\ W.shown[k] \in DOMAIN events
            /\ P.next # NoValue => ~listed(P.next, cur(W.shown[k]))
    <2> SUFFICES ASSUME NEW k \in 1..Len(W.shown)
                 PROVE  /\ W.shown[k] \in DOMAIN events
                        /\ P.next # NoValue => ~listed(P.next, cur(W.shown[k]))
      OBVIOUS
    <2>1. PICK id : id = W.shown[k]
      OBVIOUS
    <2>2. Contains(W.shown, id)
      BY <2>1 DEF Contains
    <2>3. CASE Contains(V.shown, id)
      <3>1. id \in DOMAIN events /\ ~listed(O.next, cur(id))
        BY <1>5, <2>3 DEF cur, listed, Contains
      <3>2. cur(id) \in Cursors
        BY <1>6, <3>1 DEF cur
      <3>3. QED
        BY <1>2, <1>7, <1>8, <2>1, <3>1, <3>2
    <2>4. CASE Contains(P.rows, id)
      <3>1. PICK i \in 1..Len(P.rows) : P.rows[i] = id
        BY <2>4 DEF Contains
      <3>2. P.rows[i] \in DOMAIN events
        BY <1>4
      <3>3. P.next # NoValue => ~listed(P.next, cur(P.rows[i]))
        BY <1>3 DEF cur, listed
      <3>4. QED
        BY <2>1, <3>1, <3>2, <3>3
    <2>5. QED
      BY <1>10, <2>2, <2>3, <2>4
  <1>12. ASSUME NEW id \in V.present, EventMatches(id, query, P.after)
         PROVE  \/ Contains(W.shown, id)
                \/ P.next # NoValue /\ listed(P.next, cur(id))
    <2>1. O.after \in Int /\ P.after \in Int /\ O.after <= P.after
      BY <1>3 DEF PageState, RowsInv
    <2>2. id \in DOMAIN events /\ events[id].time \in Nat
      <3>1. id \in DOMAIN events
        BY <1>5
      <3>2. events[id] \in Event
        BY <3>1
      <3>3. QED
        BY <3>1, <3>2 DEF Event
    <2>3. EventMatches(id, query, O.after)
      BY <1>12, <2>1, <2>2 DEF EventMatches
    <2>4. CASE Contains(V.shown, id)
      BY <1>10, <2>4
    <2>5. CASE listed(O.next, cur(id))
      <3>1. id \in Match(query, O.next)
        BY <1>3, <1>12, <2>2, <2>5 DEF Match, WithinCursor, cur, listed
      <3>2. Contains(P.rows, id) \/ (P.next # NoValue /\ listed(P.next, cur(id)))
        BY <1>3, <3>1 DEF cur, listed, Contains
      <3>3. QED
        BY <1>10, <3>2
    <2>6. QED
      BY <1>5, <2>3, <2>4, <2>5 DEF cur, listed, Contains
  <1>13. QED
    BY <1>3, <1>5, <1>10, <1>11, <1>12 DEF OnwardInv, cur, listed, Contains

\* The next page goes on where the page before it ended.
LEMMA FollowNextKeeps ==
    ASSUME RecordsInv, WindowsInv, NEW b \in Browsers, FollowNext(b)
    PROVE  WindowsInv'
  <1>1. PICK O, V : O = page[b] /\ V = walk[b]
    OBVIOUS
  <1>2. PICK trail, P, W :
           /\ trail = NextTrail(O.trail, O.cursor)
           /\ P = Queried(O.query, O.next, trail)
           /\ W = [V EXCEPT !.shown = IF V.onward THEN V.shown \o Rows(O.query, O.next) ELSE V.shown,
                            !.path = Append(V.path, O.cursor), !.pages = V.pages + 1]
    OBVIOUS
  <1>3. /\ O.pc = "shown" /\ O.next # NoValue
        /\ page' = [page EXCEPT ![b] = P]
        /\ UNCHANGED <<now, log>>
    BY <1>1, <1>2 DEF FollowNext, Show, Queried
  <1>4. walk' = [walk EXCEPT ![b] = W]
    BY <1>1, <1>2 DEF FollowNext, WindowsInv, WindowTypes
  <1>5. /\ O \in PageState /\ V \in WalkState
        /\ RowsInv(O) /\ OnwardInv(O, V) /\ TrailInv(O, V)
    BY <1>1, <1>3 DEF WindowsInv, WindowInv
  <1>6. /\ O.query \in Queries /\ O.next \in Marks /\ O.cursor \in Marks /\ O.trail \in Seq(Marks)
        /\ V.path \in Seq(Marks) /\ V.shown \in Seq(Nat) /\ V.pages \in Nat
        /\ events \in Seq(Event) /\ now \in Nat
    BY <1>3, <1>5 DEF PageState, WalkState, Marks, RecordsInv
  <1>7. trail \in Seq(Marks) /\ EndOf(trail, Append(V.path, O.cursor))
    BY <1>2, <1>5, <1>6, TrailGrows, LogConstants DEF TrailInv
  <1>8. QueriedInv(P, O.query, O.next, trail)
    BY <1>2, <1>6, <1>7, QueriedPage
  <1>9. /\ P \in PageState /\ P.pc = "count" /\ P.trail = trail /\ P.cursor = O.next
        /\ P.rows = Rows(O.query, O.next) /\ P.rows \in Seq(Nat) /\ RowsInv(P)
    BY <1>8 DEF QueriedInv, PageState
  <1>10. /\ W.present = V.present /\ W.onward = V.onward /\ W.path = Append(V.path, O.cursor)
         /\ W.shown = IF V.onward THEN V.shown \o P.rows ELSE V.shown
         /\ W \in WalkState
    <2>1. PICK shown, path : /\ shown = IF V.onward THEN V.shown \o P.rows ELSE V.shown
                             /\ path = Append(V.path, O.cursor)
      OBVIOUS
    <2>2. shown \in Seq(Nat) /\ path \in Seq(Marks)
      BY <1>6, <1>9, <2>1
    <2>3. W = [V EXCEPT !.shown = shown, !.path = path, !.pages = V.pages + 1]
      BY <1>2, <1>9, <2>1
    <2>4. /\ W.present = V.present /\ W.onward = V.onward /\ W.path = path /\ W.shown = shown
          /\ W \in WalkState
      <3>1. W = [present |-> V.present, shown |-> shown, onward |-> V.onward, path |-> path,
                 pages |-> V.pages + 1]
        BY <1>5, <2>3 DEF WalkState
      <3>2. V.present \in SUBSET Nat /\ V.onward \in BOOLEAN /\ V.pages + 1 \in Nat
        BY <1>5, <1>6 DEF WalkState
      <3>3. QED
        BY <2>2, <3>1, <3>2 DEF WalkState
    <2>5. QED
      BY <2>1, <2>4
  <1>11. OnwardInv(P, W)
    <2>1. events \in Seq(Event) /\ now \in Nat
      BY <1>6
    <2>2. /\ W.present = V.present /\ W.onward = V.onward
          /\ W.shown = IF V.onward THEN V.shown \o P.rows ELSE V.shown
      BY <1>10
    <2>3. O \in PageState /\ V \in WalkState /\ RowsInv(O) /\ OnwardInv(O, V) /\ O.next # NoValue
      BY <1>3, <1>5
    <2>4. QED
      BY <1>8, <2>1, <2>2, <2>3, OnwardGrows
  <1>12. CountInv(P)
    BY <1>9 DEF CountInv
  <1>13. TrailInv(P, W)
    <2>1. PICK path, way : path = V.path /\ way = Append(path, O.cursor)
      OBVIOUS
    <2>2. /\ path \in Seq(Marks) /\ way \in Seq(Marks) /\ way # <<>>
          /\ way[1] = IF path = <<>> THEN O.cursor ELSE path[1]
      <3>1. PICK mark : mark = O.cursor
        OBVIOUS
      <3>2. mark \in Marks /\ path \in Seq(Marks) /\ way = Append(path, mark)
        BY <1>6, <2>1, <3>1
      <3>3. way \in Seq(Marks) /\ way # <<>> /\ way[1] = IF path = <<>> THEN mark ELSE path[1]
        BY <3>2
      <3>4. QED
        BY <3>1, <3>2, <3>3
    <2>3. way[1] = First
      BY <1>5, <2>1, <2>2 DEF TrailInv
    <2>4. P.trail = trail /\ W.path = way /\ EndOf(trail, way)
      BY <1>7, <1>9, <1>10, <2>1
    <2>5. EndOf(P.trail, W.path) /\ W.path # <<>> /\ W.path[1] = First
      BY <2>2, <2>3, <2>4
    <2>6. QED
      BY <2>5 DEF TrailInv
  <1>14. WindowInv(P, W)
    BY <1>9, <1>10, <1>11, <1>12, <1>13 DEF WindowInv
  <1>15. QED
    BY <1>3, <1>4, <1>14, OneWindow

\* The way back is the way here but for its last step.
LEMMA TrailShrinks ==
    ASSUME NEW trail \in Seq(Marks), NEW path \in Seq(Marks), EndOf(trail, path), trail # <<>>,
           path = <<>> \/ path[1] = First
    PROVE  /\ Last(trail) \in Marks /\ Front(trail) \in Seq(Marks)
           /\ Front(path) \in Seq(Marks)
           /\ EndOf(Front(trail), Front(path))
           /\ IF Front(path) = <<>> THEN Last(trail) = First
              ELSE Front(path)[1] = First
  <1>1. PICK m, n : m = Len(trail) /\ n = Len(path)
    OBVIOUS
  <1>2. /\ m \in Nat /\ n \in Nat /\ m >= 1 /\ m <= n
        /\ \A i \in 1..m : trail[i] = path[n - m + i]
    BY <1>1 DEF EndOf
  <1>3. PICK less, shorter : less = SubSeq(trail, 1, m - 1) /\ shorter = SubSeq(path, 1, n - 1)
    OBVIOUS
  <1>4. /\ less \in Seq(Marks) /\ Len(less) = m - 1 /\ \A i \in 1..(m - 1) : less[i] = trail[i]
    BY <1>1, <1>2, <1>3
  <1>5. /\ shorter \in Seq(Marks) /\ Len(shorter) = n - 1
        /\ \A i \in 1..(n - 1) : shorter[i] = path[i]
    BY <1>1, <1>2, <1>3
  <1>6. Last(trail) = trail[m] /\ Front(trail) = less /\ Front(path) = shorter
    BY <1>1, <1>3 DEF Last, Front
  <1>7. trail[m] \in Marks /\ trail[m] = path[n]
    <2>1. n - m + m = n /\ m \in 1..m
      BY <1>2
    <2>2. QED
      BY <1>1, <1>2, <2>1
  <1>8. EndOf(less, shorter)
    <2> SUFFICES ASSUME NEW i \in 1..(m - 1)
                 PROVE  less[i] = shorter[(n - 1) - (m - 1) + i]
      BY <1>2, <1>4, <1>5 DEF EndOf
    <2>1. (n - 1) - (m - 1) + i = n - m + i /\ n - m + i \in 1..(n - 1) /\ i \in 1..m
      BY <1>2
    <2>2. QED
      BY <1>2, <1>4, <1>5, <2>1
  <1>9. path # <<>> /\ path[1] = First
    BY <1>1, <1>2
  <1>10. IF shorter = <<>> THEN trail[m] = First ELSE shorter[1] = First
    <2>1. CASE n = 1
      BY <1>2, <1>5, <1>7, <1>9, <2>1
    <2>2. CASE n # 1
      <3>1. 1 \in 1..(n - 1) /\ shorter # <<>>
        BY <1>2, <1>5, <2>2
      <3>2. QED
        BY <1>5, <1>9, <3>1
    <2>3. QED
      BY <2>1, <2>2
  <1>11. QED
    BY <1>4, <1>5, <1>6, <1>7, <1>8, <1>10

\* The previous page is the one the trail ends with.
LEMMA FollowPreviousKeeps ==
    ASSUME RecordsInv, WindowsInv, NEW b \in Browsers, FollowPrevious(b)
    PROVE  WindowsInv'
  <1>1. PICK O, V : O = page[b] /\ V = walk[b]
    OBVIOUS
  <1>2. PICK cursor, trail, path :
           /\ cursor = IF O.trail = <<>> THEN First ELSE Last(O.trail)
           /\ trail = IF O.trail = <<>> THEN <<>> ELSE Front(O.trail)
           /\ path = IF O.trail = <<>> THEN <<>> ELSE Front(V.path)
    OBVIOUS
  <1>3. PICK P, W :
           /\ P = Queried(O.query, cursor, trail)
           /\ W = [V EXCEPT !.onward = FALSE, !.shown = <<>>, !.pages = V.pages + 1, !.path = path]
    OBVIOUS
  <1>4. O.pc = "shown" /\ UNCHANGED <<now, log>>
    BY <1>1 DEF FollowPrevious
  <1>5. page' = [page EXCEPT ![b] = P]
    <2>1. CASE O.trail = <<>>
      BY <1>1, <1>2, <1>3, <2>1 DEF FollowPrevious, Show, Queried
    <2>2. CASE O.trail # <<>>
      BY <1>1, <1>2, <1>3, <2>2 DEF FollowPrevious, Show, Queried
    <2>3. QED
      BY <2>1, <2>2
  <1>6. walk' = [walk EXCEPT ![b] = W]
    <2>1. walk' = [walk EXCEPT ![b] = [V EXCEPT !.onward = FALSE, !.shown = <<>>, !.pages = V.pages + 1,
                       !.path = IF O.trail = <<>> THEN <<>> ELSE Front(V.path)]]
      BY <1>1 DEF FollowPrevious, WindowsInv, WindowTypes
    <2>2. QED
      BY <1>2, <1>3, <2>1
  <1>7. O \in PageState /\ V \in WalkState /\ TrailInv(O, V)
    BY <1>1, <1>4 DEF WindowsInv, WindowInv
  <1>8. /\ O.query \in Queries /\ O.trail \in Seq(Marks) /\ V.path \in Seq(Marks)
        /\ V.pages \in Nat /\ events \in Seq(Event) /\ now \in Nat
    BY <1>7 DEF PageState, WalkState, RecordsInv
  <1>9. /\ cursor \in Marks /\ trail \in Seq(Marks) /\ path \in Seq(Marks) /\ EndOf(trail, path)
        /\ IF path = <<>> THEN cursor = First ELSE path[1] = First
    <2>1. CASE O.trail = <<>>
      BY <1>2, <2>1 DEF Marks, EndOf
    <2>2. CASE O.trail # <<>>
      <3>1. EndOf(O.trail, V.path) /\ (V.path = <<>> \/ V.path[1] = First)
        BY <1>7 DEF TrailInv
      <3>2. cursor = Last(O.trail) /\ trail = Front(O.trail) /\ path = Front(V.path)
        BY <1>2, <2>2
      <3>3. QED
        BY <1>8, <2>2, <3>1, <3>2, TrailShrinks
    <2>3. QED
      BY <2>1, <2>2
  <1>10. QueriedInv(P, O.query, cursor, trail)
    BY <1>3, <1>8, <1>9, QueriedPage
  <1>11. /\ P \in PageState /\ P.pc = "count" /\ P.trail = trail /\ P.cursor = cursor /\ RowsInv(P)
    BY <1>10 DEF QueriedInv
  <1>12. W \in WalkState /\ ~W.onward /\ W.shown = <<>> /\ W.path = path
    <2>1. W = [present |-> V.present, shown |-> <<>>, onward |-> FALSE, path |-> path,
               pages |-> V.pages + 1]
      BY <1>3, <1>7 DEF WalkState
    <2>2. V.present \in SUBSET Nat /\ <<>> \in Seq(Nat) /\ V.pages + 1 \in Nat
      BY <1>7, <1>8 DEF WalkState
    <2>3. QED
      BY <1>9, <2>1, <2>2 DEF WalkState
  <1>13. OnwardInv(P, W) /\ CountInv(P) /\ TrailInv(P, W)
    BY <1>9, <1>11, <1>12 DEF OnwardInv, CountInv, TrailInv
  <1>14. WindowInv(P, W)
    BY <1>11, <1>12, <1>13 DEF WindowInv
  <1>15. QED
    BY <1>4, <1>5, <1>6, <1>14, OneWindow

\* Windows are closed at first.
LEMMA WindowsInit ==
    ASSUME LogInit
    PROVE  WindowsInv
  <1>1. /\ page = [b \in Browsers |-> NoPage] /\ walk = [b \in Browsers |-> NoWalk]
    BY DEF LogInit
  <1>2. WindowTypes
    BY <1>1 DEF WindowTypes
  <1>3. WindowInv(NoPage, NoWalk)
    BY DEF WindowInv, NoPage
  <1>4. \A b \in Browsers : page[b] = NoPage /\ walk[b] = NoWalk
    BY <1>1
  <1>5. QED
    BY <1>2, <1>3, <1>4 DEF WindowsInv

\* The log only grows, and time only passes.
LEMMA LogGrows ==
    ASSUME RecordsInv, [LogNext]_logVars
    PROVE  /\ events \in Seq(Event) /\ events' \in Seq(Event) /\ Len(events) <= Len(events')
           /\ \A i \in 1..Len(events) : events'[i] = events[i]
           /\ now \in Nat /\ now' \in Nat /\ now <= now'
  <1>1. events \in Seq(Event) /\ now \in Nat /\ pull \in [Pulls -> Pull]
    BY DEF RecordsInv
  <1>2. CASE events' = events /\ now' = now
    BY <1>1, <1>2
  <1>3. CASE PassTime
    BY <1>1, <1>3 DEF PassTime, log
  <1>4. CASE \E p \in Pulls : RecordRequestEvent(p)
    <2>1. PICK p \in Pulls : RecordRequestEvent(p)
      BY <1>4
    <2>2. PICK e : e = [time |-> pull[p].time, status |-> pull[p].status]
      OBVIOUS
    <2>3. e \in Event
      <3>1. pull[p] \in Pull /\ pull[p].status \in {"miss", "hit"}
        BY <1>1, <2>1 DEF RecordsInv, RecordRequestEvent
      <3>2. QED
        BY <2>2, <3>1 DEF Pull, Event
    <2>4. events' = Append(events, e) /\ now' = now
      BY <2>1, <2>2 DEF RecordRequestEvent
    <2>5. QED
      BY <1>1, <2>3, <2>4
  <1>5. QED
    BY <1>2, <1>3, <1>4
    DEF LogNext, logVars, log, StartRecord, RecordRetrieval, AbandonRecord,
        OpenRequests, ShowCount, FollowNext, FollowPrevious, Close

\* Every step keeps what windows show, or makes the next page of it.
LEMMA WindowsNext ==
    ASSUME RecordsInv, WindowsInv, [LogNext]_logVars
    PROVE  WindowsInv'
  <1>1. CASE UNCHANGED <<page, walk>>
    <2>1. \A P, W : WindowInv(P, W) => WindowInv(P, W)'
      BY LogGrows, WindowStays
    <2>2. ASSUME NEW b \in Browsers
          PROVE  WindowInv(page[b], walk[b])'
      <3>1. PICK P, W : P = page'[b] /\ W = walk'[b]
        OBVIOUS
      <3>2. WindowInv(P, W)
        BY <1>1, <3>1 DEF WindowsInv
      <3>3. WindowInv(P, W)'
        BY <2>1, <3>2
      <3>4. QED
        BY <3>1, <3>3
    <2>3. WindowTypes'
      BY <1>1 DEF WindowsInv, WindowTypes, PageState, WalkState, Marks, Cursors, NoPage,
                  NoWalk
    <2>4. QED
      BY <2>2, <2>3 DEF WindowsInv
  <1>2. CASE \E b \in Browsers : OpenRequests(b) \/ ShowCount(b) \/ FollowNext(b)
                                 \/ FollowPrevious(b) \/ Close(b)
    BY <1>2, OpenRequestsKeeps, ShowCountKeeps, FollowNextKeeps, FollowPreviousKeeps, CloseKeeps
  <1>3. CASE PassTime \/ \E p \in Pulls : StartRecord(p) \/ RecordRetrieval(p)
                              \/ RecordRequestEvent(p) \/ AbandonRecord(p)
    BY <1>1, <1>3 DEF PassTime, StartRecord, RecordRetrieval, RecordRequestEvent,
                      AbandonRecord
  <1>4. QED
    BY <1>1, <1>2, <1>3 DEF LogNext, logVars

\* What is recorded and what is shown, together.
LogInv == RecordsInv /\ WindowsInv

\* Both hold in every reachable state.
LEMMA LogInvariant == LogSpec => []LogInv
  <1>1. LogInit => (RecordsInv /\ ProvenanceFirst) /\ WindowsInv
    BY RecordsInit, WindowsInit
  <1>2. ((RecordsInv /\ ProvenanceFirst) /\ WindowsInv) /\ [LogNext]_logVars =>
           ((RecordsInv /\ ProvenanceFirst) /\ WindowsInv)'
    BY RecordsNext, WindowsNext
  <1>3. (RecordsInv /\ ProvenanceFirst) /\ WindowsInv => LogInv
    BY DEF LogInv
  <1>4. QED
    BY <1>1, <1>2, <1>3, PTL DEF LogSpec

\* Pages of a growing log and the counts taken after them agree: rows match
\* what was asked, a walk shows no event twice and keeps its order, and the
\* count covers the page and its next (QueryRequestEvents, CountRequestEvents,
\* handleDashboard).
THEOREM PagesAgree == LogSpec => []PagesInv
  <1>1. ASSUME LogInv
        PROVE  LogTypeOK
    <2>1. now \in 1..MaxTime /\ Len(events) <= MaxEvents
      <3>1. /\ now \in 1..MaxTime
            /\ Len(events) + Cardinality({p \in Pulls : pull[p].pc # "idle"}) <= MaxEvents
            /\ Len(events) \in Nat /\ pull \in [Pulls -> Pull]
        BY <1>1 DEF LogInv, RecordsInv
      <3>2. Cardinality({p \in Pulls : pull[p].pc # "idle"}) \in Nat
        BY FS_Subset, FS_CardinalityType, LogConstants
      <3>3. QED
        BY <3>1, <3>2, LogConstants
    <2>2. ASSUME NEW b \in Browsers, page[b].pc # "closed"
          PROVE  /\ page[b].query \in Queries
                 /\ Len(page[b].rows) <= page[b].query.limit
                 /\ \A i \in DOMAIN page[b].rows :
                       EventMatches(page[b].rows[i], page[b].query, page[b].after)
                 /\ page[b].next # NoValue => Len(page[b].rows) = page[b].query.limit
      <3>1. PICK P, W : P = page[b] /\ W = walk[b]
        OBVIOUS
      <3>2. P \in PageState /\ RowsInv(P)
        BY <1>1, <2>2, <3>1 DEF LogInv, WindowsInv, WindowInv
      <3>3. P.query \in Queries /\ DOMAIN P.rows = 1..Len(P.rows)
        BY <3>2 DEF PageState
      <3>4. QED
        BY <3>1, <3>2, <3>3 DEF RowsInv
    <2>3. QED
      BY <2>1, <2>2 DEF LogTypeOK
  <1>2. ASSUME LogInv, NEW b \in Browsers, NEW i \in DOMAIN walk[b].shown,
               NEW j \in DOMAIN walk[b].shown, i < j
        PROVE  Listed(Cursor(walk[b].shown[i]), Cursor(walk[b].shown[j]), page[b].query)
    <2>1. PICK P, W : P = page[b] /\ W = walk[b]
      OBVIOUS
    <2>2. WindowInv(P, W)
      BY <1>2, <2>1 DEF LogInv, WindowsInv
    <2>3. W.shown # <<>>
      BY <1>2, <2>1
    <2>4. W \in WalkState /\ W.onward /\ OnwardInv(P, W)
      BY <2>2, <2>3 DEF WindowInv, NoWalk, OnwardInv
    <2>5. DOMAIN W.shown = 1..Len(W.shown) /\ Sorted(W.shown, P.query)
      BY <2>4 DEF OnwardInv, WalkState
    <2>6. QED
      BY <1>2, <2>1, <2>5 DEF Sorted
  <1>3. ASSUME LogInv, NEW b \in Browsers, page[b].pc = "shown"
        PROVE  page[b].total >= Len(page[b].rows) + (IF page[b].next = NoValue THEN 0 ELSE 1)
    BY <1>3 DEF LogInv, WindowsInv, WindowInv, CountInv
  <1>4. LogInv => PagesInv
    BY <1>1, <1>2, <1>3 DEF PagesInv, WalkInOrder, TotalCoversPage
  <1>5. QED
    BY <1>4, LogInvariant, PTL

\* A walk from the first page to the last shows every event that was there
\* when it began and still matches, whatever is recorded meanwhile
\* (cursors of QueryRequestEvents).
THEOREM WalkComplete == LogSpec => []WalkShowsAll
  <1>1. ASSUME LogInv, NEW b \in Browsers, page[b].pc # "closed", walk[b].onward,
               page[b].next = NoValue, NEW id \in walk[b].present,
               EventMatches(id, page[b].query, page[b].after)
        PROVE  Contains(walk[b].shown, id)
    <2>1. OnwardInv(page[b], walk[b])
      BY <1>1 DEF LogInv, WindowsInv, WindowInv
    <2>2. QED
      BY <1>1, <2>1 DEF OnwardInv, Contains
  <1>2. LogInv => WalkShowsAll
    BY <1>1 DEF WalkShowsAll
  <1>3. QED
    BY <1>2, LogInvariant, PTL

\* The links back retrace the way here as far as the trail reaches
\* (requestPageURLs keeps a limited number of cursors).
THEOREM TrailRetraces == LogSpec => []TrailLeadsBack
  <1>1. ASSUME NEW s \in Seq(Marks), NEW t \in Seq(Marks), EndOf(s, t)
        PROVE  IsSuffix(s, t)
    <2>1. PICK m, n, r, u : m = Len(s) /\ n = Len(t) /\ r = Reverse(s) /\ u = Reverse(t)
      OBVIOUS
    <2>2. m \in Nat /\ n \in Nat /\ m <= n /\ \A i \in 1..m : s[i] = t[n - m + i]
      BY <1>1, <2>1 DEF EndOf
    <2>3. r = [i \in 1..m |-> s[(m - i) + 1]] /\ u = [i \in 1..n |-> t[(n - i) + 1]]
      BY <2>1 DEF Reverse
    <2>4. Len(r) = m /\ Len(u) = n /\ r \in Seq(Marks) /\ u \in Seq(Marks)
      BY <2>1, <2>2, <2>3
    <2>5. ASSUME NEW i \in 1..m
          PROVE  r[i] = u[i]
      <3>1. (m - i) + 1 \in 1..m /\ n - m + ((m - i) + 1) = (n - i) + 1 /\ i \in 1..n
        BY <2>2
      <3>2. s[(m - i) + 1] = t[(n - i) + 1]
        BY <2>2, <3>1
      <3>3. QED
        BY <2>3, <3>1, <3>2
    <2>6. SubSeq(r, 1, m) = SubSeq(u, 1, m)
      <3>1. PICK v, w : v = SubSeq(r, 1, m) /\ w = SubSeq(u, 1, m)
        OBVIOUS
      <3>2. /\ v \in Seq(Marks) /\ Len(v) = m /\ \A i \in 1..m : v[i] = r[i]
            /\ w \in Seq(Marks) /\ Len(w) = m /\ \A i \in 1..m : w[i] = u[i]
        BY <2>2, <2>4, <3>1
      <3>3. v = w
        BY <2>5, <3>2
      <3>4. QED
        BY <3>1, <3>3
    <2>7. IsPrefix(r, u)
      BY <2>2, <2>4, <2>6 DEF IsPrefix
    <2>8. QED
      BY <2>1, <2>7 DEF IsSuffix
  <1>2. ASSUME LogInv, NEW b \in Browsers
        PROVE  /\ IsSuffix(page[b].trail, walk[b].path)
               /\ page[b].cursor # First /\ Len(walk[b].path) = 1 =>
                     page[b].trail \in {<<>>, <<First>>}
    <2>1. PICK P, W : P = page[b] /\ W = walk[b]
      OBVIOUS
    <2>2. WindowInv(P, W)
      BY <1>2, <2>1 DEF LogInv, WindowsInv
    <2>3. /\ P.trail \in Seq(Marks) /\ W.path \in Seq(Marks) /\ EndOf(P.trail, W.path)
          /\ P.cursor # First => W.path # <<>> /\ W.path[1] = First
      <3>1. CASE P.pc = "closed"
        <4>1. P.trail = <<>> /\ W.path = <<>> /\ P.cursor = First
          BY <2>2, <3>1 DEF WindowInv, NoPage, NoWalk
        <4>2. <<>> \in Seq(Marks) /\ EndOf(<<>>, <<>>)
          BY DEF EndOf
        <4>3. QED
          BY <4>1, <4>2
      <3>2. CASE P.pc # "closed"
        BY <2>2, <3>2 DEF WindowInv, TrailInv, PageState, WalkState
      <3>3. QED
        BY <3>1, <3>2
    <2>4. ASSUME P.cursor # First, Len(W.path) = 1
          PROVE  P.trail \in {<<>>, <<First>>}
      <3>1. PICK s, t : s = P.trail /\ t = W.path
        OBVIOUS
      <3>2. s \in Seq(Marks) /\ Len(s) \in Nat /\ EndOf(s, t) /\ Len(t) = 1 /\ t[1] = First
        BY <2>3, <2>4, <3>1
      <3>3. Len(s) <= 1 /\ \A i \in 1..Len(s) : s[i] = t[1 - Len(s) + i]
        BY <3>2 DEF EndOf
      <3>4. CASE Len(s) = 0
        BY <3>1, <3>2, <3>4
      <3>5. CASE Len(s) = 1
        <4>1. s[1] = t[1 - 1 + 1]
          BY <3>3, <3>5
        <4>2. s[1] = First
          BY <3>2, <4>1
        <4>3. s = <<First>>
          BY <3>2, <3>5, <4>2
        <4>4. QED
          BY <3>1, <4>3
      <3>6. Len(s) = 0 \/ Len(s) = 1
        <4>1. PICK k : k = Len(s)
          OBVIOUS
        <4>2. k \in Nat /\ k <= 1
          BY <3>2, <3>3, <4>1
        <4>3. k = 0 \/ k = 1
          BY <4>2
        <4>4. QED
          BY <4>1, <4>3
      <3>7. QED
        BY <3>4, <3>5, <3>6
    <2>5. QED
      BY <1>1, <2>1, <2>3, <2>4
  <1>3. LogInv => TrailLeadsBack
    BY <1>2 DEF TrailLeadsBack
  <1>4. QED
    BY <1>3, LogInvariant, PTL

=============================================================================
