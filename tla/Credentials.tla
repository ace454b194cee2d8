---------------------------- MODULE Credentials ----------------------------
(***************************************************************************)
(* Saved registry credentials: RegistryCredentialService and its SQLite    *)
(* transactions, the keyring that seals the secrets, the readiness probe   *)
(* that opens them all, and the offline command that rotates the key.      *)
(*                                                                         *)
(* A request of the service, the probe and the command interleave at their *)
(* repository calls; verification at the registry is a long call between   *)
(* them.                                                                   *)
(***************************************************************************)
EXTENDS Naturals, FiniteSets

CONSTANTS
    Requests,       \* request slots: handlers that may be in flight together
    Users,          \* user ids
    Sources,        \* configured registries
    EnabledSources, \* the enabled ones
    Names, Secrets, \* upstream usernames and passwords
    Ids,            \* random credential ids
    Keys, NoKey,    \* credential encryption keys; a service without one
    NoRow,          \* the absent credential
    Asks,           \* the requests users make
    MaxRequests,    \* bound: requests of a behaviour
    MaxStarts       \* bound: service starts of a behaviour

Places == Users \X Sources

\* secretEnvelope: the sealed secret, with the key and the record it is bound to.
Envelope == [key : Keys, id : Ids, place : Places, secret : Secrets]
Row      == [id : Ids, name : Names, envelope : Envelope]
Ask      == [op : {"save", "remove"}, place : Places, name : Names, secret : Secrets]

ASSUME CredentialConstants ==
    /\ EnabledSources \subseteq Sources
    /\ Asks \subseteq Ask /\ Asks # {}
    /\ NoKey \notin Keys /\ NoRow \notin Row
    /\ IsFiniteSet(Users) /\ IsFiniteSet(Sources) /\ Ids # {} /\ Keys # {}
    /\ MaxRequests \in Nat /\ MaxStarts \in Nat

VARIABLES
    users,      \* users table
    rows,       \* registry_credentials table, by user and source
    up,         \* whether the service runs
    key,        \* the key it was started with
    starts,     \* service starts so far (bound)
    started,    \* requests begun so far (bound)
    pc,         \* where each request stands
    ask,        \* what each request asks for
    chosen,     \* the id a save is about to use
    probe,      \* readiness: the users still to look at
    ready,      \* readiness was reported by the process that runs now
    rotating,   \* the command: "no", "reading" or "writing"
    fromKey, toKey, \* the keys given to the command
    unread,     \* the users the command has still to read
    replaced,   \* the rows the command has read
    drawn,      \* history: ids drawn so far
    verified    \* history: what registries accepted

service  == <<up, key, starts>>
requests == <<started, pc, ask, chosen>>
checking == <<probe, ready>>
command  == <<rotating, fromKey, toKey, unread, replaced>>
vars == <<users, rows, up, key, starts, started, pc, ask, chosen, probe, ready, rotating,
          fromKey, toKey, unread, replaced, drawn, verified>>

-----------------------------------------------------------------------------
(* The keyring *)

Encrypt(k, id, place, secret) == [key |-> k, id |-> id, place |-> place, secret |-> secret]

\* Decrypt succeeds with a loaded key and the record the secret was sealed for.
Opens(keys, id, place, e) == e.key \in keys /\ e.id = id /\ e.place = place

\* Mutant: the new envelope is sealed with the old key.
ReencryptOld(place, row) == Encrypt(fromKey, row.id, place, row.envelope.secret)

Reencrypt(place, row) == Encrypt(toKey, row.id, place, row.envelope.secret)

Stored(place)  == rows[place] # NoRow
PlacesOf(u)    == {u} \X Sources
OpensAll(keys, u) ==
    \A place \in PlacesOf(u) :
        Stored(place) => Opens(keys, rows[place].id, place, rows[place].envelope)

-----------------------------------------------------------------------------
(* Requests of the service *)

Goto(p, label) == pc' = [pc EXCEPT ![p] = label]
Place(p) == ask[p].place

StartRequest(p, a) ==
    /\ up /\ key # NoKey
    /\ pc[p] = "idle" /\ started < MaxRequests
    /\ a.place[1] \in users
    /\ started' = started + 1
    /\ ask' = [ask EXCEPT ![p] = a]
    /\ Goto(p, IF a.op = "save" THEN "verify" ELSE "lookup")
    /\ UNCHANGED <<users, rows, service, chosen, checking, command, drawn, verified>>

\* VerifyAndSave: a disabled source ends it, and so does a registry that
\* rejects the credential, cannot be reached or answers in another way.
Verify(p) ==
    /\ pc[p] = "verify"
    /\ \/ /\ Place(p)[2] \in EnabledSources
          /\ verified' = verified \cup
                {[source |-> Place(p)[2], name |-> ask[p].name, secret |-> ask[p].secret]}
          /\ Goto(p, "find")
       \/ Goto(p, "idle") /\ UNCHANGED verified
    /\ UNCHANGED <<users, rows, service, started, ask, chosen, checking, command, drawn>>

\* The id of the record there is, or a new random one.
FindExisting(p) ==
    /\ pc[p] = "find"
    /\ \/ /\ Stored(Place(p))
          /\ chosen' = [chosen EXCEPT ![p] = rows[Place(p)].id]
          /\ UNCHANGED drawn
       \/ /\ ~Stored(Place(p))
          /\ \E i \in Ids \ drawn : chosen' = [chosen EXCEPT ![p] = i] /\ drawn' = drawn \cup {i}
    /\ Goto(p, "save")
    /\ UNCHANGED <<users, rows, service, started, ask, checking, command, verified>>

Sealed(p) == Encrypt(key, chosen[p], Place(p), ask[p].secret)

\* Mutant: the update names the record by user and source and keeps its id.
UpdatedByPlace(p) ==
    IF Stored(Place(p)) THEN [rows[Place(p)] EXCEPT !.name = ask[p].name, !.envelope = Sealed(p)]
    ELSE [id |-> chosen[p], name |-> ask[p].name, envelope |-> Sealed(p)]

\* Mutant: the update leaves the username as it was.
UpdatedSecretOnly(p) ==
    IF Stored(Place(p)) /\ rows[Place(p)].id = chosen[p]
    THEN [rows[Place(p)] EXCEPT !.envelope = Sealed(p)]
    ELSE IF Stored(Place(p)) THEN rows[Place(p)]
    ELSE [id |-> chosen[p], name |-> ask[p].name, envelope |-> Sealed(p)]

\* Mutant: the secret is stored as it came.
UpdatedPlain(p) ==
    IF Stored(Place(p)) /\ rows[Place(p)].id # chosen[p] THEN rows[Place(p)]
    ELSE [id |-> chosen[p], name |-> ask[p].name, envelope |-> ask[p].secret]

\* SaveRegistryCredential: inserts, or updates the record with the same id; a
\* record with another id is a conflict and stays.
Updated(p) ==
    IF Stored(Place(p)) /\ rows[Place(p)].id # chosen[p] THEN rows[Place(p)]
    ELSE [id |-> chosen[p], name |-> ask[p].name, envelope |-> Sealed(p)]

SaveRow(p) ==
    /\ pc[p] = "save"
    /\ rows' = [rows EXCEPT ![Place(p)] = Updated(p)]
    /\ Goto(p, "idle")
    /\ UNCHANGED <<users, service, started, ask, chosen, checking, command, drawn, verified>>

\* Remove reads the record first and deletes by user and source.
FindForRemoval(p) ==
    /\ pc[p] = "lookup"
    /\ Goto(p, IF Place(p)[2] \in EnabledSources /\ Stored(Place(p)) THEN "delete" ELSE "idle")
    /\ UNCHANGED <<users, rows, service, started, ask, chosen, checking, command, drawn, verified>>

DeleteRow(p) ==
    /\ pc[p] = "delete"
    /\ rows' = [rows EXCEPT ![Place(p)] = NoRow]
    /\ Goto(p, "idle")
    /\ UNCHANGED <<users, service, started, ask, chosen, checking, command, drawn, verified>>

\* A repository call fails or the client goes away.
RequestFails(p) ==
    /\ pc[p] \in {"find", "save", "lookup", "delete"}
    /\ Goto(p, "idle")
    /\ UNCHANGED <<users, rows, service, started, ask, chosen, checking, command, drawn, verified>>

-----------------------------------------------------------------------------
(* Readiness *)

\* handleReady lists the users, then the credentials of one user at a time.
StartProbe ==
    /\ up /\ probe = {} /\ ~ready
    /\ probe' = users
    /\ ready' = (users = {})
    /\ UNCHANGED <<users, rows, service, requests, command, drawn, verified>>

\* Mutant: the probe is content with any key.
ProbePasses(u) == (\E s \in Sources : Stored(<<u, s>>)) => key # NoKey

\* Every credential of the user opens with the key of the process.
Passes(u) == OpensAll({key} \ {NoKey}, u)

ProbeUser(u) ==
    /\ u \in probe
    /\ \/ Passes(u) /\ probe' = probe \ {u} /\ ready' = (probe = {u})
       \/ ~Passes(u) /\ probe' = {} /\ ready' = FALSE
    /\ UNCHANGED <<users, rows, service, requests, command, drawn, verified>>

-----------------------------------------------------------------------------
(* The rotate-credential-key command *)

StartRotation(old, new) ==
    /\ rotating = "no" /\ old # new
    /\ ~up
    /\ rotating' = IF users = {} THEN "writing" ELSE "reading"
    /\ fromKey' = old /\ toKey' = new
    /\ unread' = users
    /\ replaced' = [place \in Places |-> NoRow]
    /\ UNCHANGED <<users, rows, service, requests, checking, drawn, verified>>

\* One user's credentials, re-encrypted in memory; one that does not open with
\* the keys given ends the command.
RotateUser(u) ==
    /\ rotating = "reading" /\ u \in unread
    /\ \/ /\ OpensAll({fromKey, toKey}, u)
          /\ replaced' = [place \in Places |-> IF place \in PlacesOf(u) THEN rows[place]
                                                                        ELSE replaced[place]]
          /\ unread' = unread \ {u}
          /\ rotating' = IF unread = {u} THEN "writing" ELSE "reading"
       \/ /\ ~OpensAll({fromKey, toKey}, u)
          /\ rotating' = "no"
          /\ UNCHANGED <<unread, replaced>>
    /\ UNCHANGED <<users, rows, service, requests, checking, fromKey, toKey, drawn, verified>>

IdsOf(table) == {table[place].id : place \in {q \in Places : table[q] # NoRow}}

\* RotateRegistryCredentialSecrets: the ids must be the ones that were read;
\* then every envelope is overwritten, in one transaction.
RotateCommit ==
    /\ rotating = "writing"
    /\ rows' = IF IdsOf(rows) # IdsOf(replaced) THEN rows
               ELSE [place \in Places |->
                  IF rows[place] = NoRow THEN NoRow
                  ELSE LET read == CHOOSE q \in Places : replaced[q] # NoRow
                                                           /\ replaced[q].id = rows[place].id
                       IN  [rows[place] EXCEPT !.envelope = Reencrypt(read, replaced[read])]]
    /\ rotating' = "no"
    /\ UNCHANGED <<users, service, requests, checking, fromKey, toKey, unread, replaced, drawn,
                   verified>>

\* The command is interrupted, or the database fails it.
RotationFails ==
    /\ rotating # "no"
    /\ rotating' = "no"
    /\ UNCHANGED <<users, rows, service, requests, checking, fromKey, toKey, unread, replaced,
                   drawn, verified>>

-----------------------------------------------------------------------------
(* The operator *)

CreateUser(u) ==
    /\ up /\ u \notin users
    /\ users' = users \cup {u}
    /\ UNCHANGED <<rows, service, requests, checking, command, drawn, verified>>

StartService(k) ==
    /\ ~up /\ starts < MaxStarts
    /\ rotating = "no"
    /\ up' = TRUE /\ key' = k /\ starts' = starts + 1
    /\ UNCHANGED <<users, rows, requests, checking, command, drawn, verified>>

\* A stop or a crash: the requests in flight are gone.
StopService ==
    /\ up /\ up' = FALSE
    /\ pc' = [p \in Requests |-> "idle"]
    /\ probe' = {} /\ ready' = FALSE
    /\ UNCHANGED <<users, rows, key, starts, started, ask, chosen, command, drawn, verified>>

Init ==
    /\ users = {} /\ rows = [place \in Places |-> NoRow]
    /\ up = FALSE /\ key = NoKey /\ starts = 0 /\ started = 0
    /\ pc = [p \in Requests |-> "idle"]
    /\ ask = [p \in Requests |-> CHOOSE a \in Asks : TRUE]
    /\ chosen = [p \in Requests |-> CHOOSE i \in Ids : TRUE]
    /\ probe = {} /\ ready = FALSE
    /\ rotating = "no" /\ unread = {} /\ replaced = [place \in Places |-> NoRow]
    /\ fromKey = (CHOOSE k \in Keys : TRUE) /\ toKey = fromKey
    /\ drawn = {} /\ verified = {}

Step(p) ==
    \/ Verify(p) \/ FindExisting(p) \/ SaveRow(p)
    \/ FindForRemoval(p) \/ DeleteRow(p) \/ RequestFails(p)

Next ==
    \/ \E p \in Requests : Step(p) \/ \E a \in Asks : StartRequest(p, a)
    \/ StartProbe \/ \E u \in Users : ProbeUser(u)
    \/ \E old \in Keys, new \in Keys : StartRotation(old, new)
    \/ \E u \in Users : RotateUser(u)
    \/ RotateCommit \/ RotationFails
    \/ \E u \in Users : CreateUser(u)
    \/ \E k \in Keys \cup {NoKey} : StartService(k)
    \/ StopService

Spec == Init /\ [][Next]_vars

-----------------------------------------------------------------------------
(* Properties *)

\* The type invariant; a secret is stored sealed and nothing else.
TypeOK ==
    /\ users \subseteq Users
    /\ rows \in [Places -> Row \cup {NoRow}]
    /\ up \in BOOLEAN /\ key \in Keys \cup {NoKey}
    /\ starts \in Nat /\ started \in Nat
    /\ pc \in [Requests -> {"idle", "verify", "find", "save", "lookup", "delete"}]
    /\ ask \in [Requests -> Asks]
    /\ chosen \in [Requests -> Ids]
    /\ probe \subseteq Users /\ ready \in BOOLEAN
    /\ rotating \in {"no", "reading", "writing"}
    /\ fromKey \in Keys /\ toKey \in Keys
    /\ unread \subseteq Users
    /\ replaced \in [Places -> Row \cup {NoRow}]
    /\ drawn \subseteq Ids
    /\ verified \subseteq [source : Sources, name : Names, secret : Secrets]

\* SaveRegistryCredential reuses or refuses ids, and the rotation keeps them:
\* however saves, removals and rotations interleave, a stored secret is sealed
\* for the record it is stored in, so the key alone decides whether it opens.
SealedForRecord ==
    \A place \in Places : Stored(place) =>
        /\ rows[place].envelope.id = rows[place].id
        /\ rows[place].envelope.place = place

\* VerifyAndSave verifies before it saves, and saves username and secret
\* together: a stored username and secret were accepted together by the source.
StoredPairVerified ==
    \A place \in Places : Stored(place) =>
        [source |-> place[2], name |-> rows[place].name, secret |-> rows[place].envelope.secret]
            \in verified

\* Every stored credential is typed, sealed for its own record and was verified
\* as it is, however saves, removals and rotations interleave.
SecretsInv == TypeOK /\ SealedForRecord /\ StoredPairVerified

\* handleReady looks at one user at a time while credentials are saved and
\* users are created; what it reported holds for as long as the process runs:
\* every stored credential opens with its key.
ReadyStaysTrue ==
    ready => \A u \in Users : OpensAll({key} \ {NoKey}, u)

\* docs/BACKUP_KEY_LIFECYCLE.md: the command replaces all envelopes in one
\* transaction.  When it writes, everything opens with the new key alone, and
\* no id, username or secret changes.
RekeysAll ==
    rotating = "writing" /\ rows' # rows =>
        \A place \in Places : rows[place] # NoRow =>
            /\ rows'[place].id = rows[place].id /\ rows'[place].name = rows[place].name
            /\ rows'[place].envelope.secret = rows[place].envelope.secret
            /\ Opens({toKey}, rows[place].id, place, rows'[place].envelope)
RotationRekeysAll == [][RekeysAll]_vars

=============================================================================
