------------------------- MODULE CredentialsProofs -------------------------
(***************************************************************************)
(* Proofs about Credentials, for every set of users, registries, secrets,  *)
(* ids and keys, and any number of requests, starts and rotations.         *)
(***************************************************************************)
EXTENDS Credentials, TLAPS

\* A request is in progress only while the service runs with a key, for a user
\* there is; what it is about to save was accepted by the registry.
RequestInv(p) ==
    pc[p] # "idle" =>
        /\ up /\ key # NoKey
        /\ Place(p)[1] \in users
        /\ pc[p] \in {"find", "save"} =>
              [source |-> Place(p)[2], name |-> ask[p].name, secret |-> ask[p].secret] \in verified

\* The command runs only while the service is down, and has read, of the rows
\* that are then at rest, those of the users it has looked at.
RotationInv ==
    rotating # "no" =>
        /\ ~up /\ unread \subseteq users
        /\ rotating = "writing" => unread = {}
        /\ \A place \in Places :
              replaced[place] = IF place[1] \in unread THEN NoRow ELSE rows[place]

TypeInv ==
    /\ TypeOK
    /\ \A p \in Requests : RequestInv(p)
    /\ \A place \in Places : Stored(place) => place[1] \in users
    /\ RotationInv

\* An id belongs to the place of the record that has it, or that a save in
\* progress is about to write with it.
HasId(place, i) ==
    \/ Stored(place) /\ rows[place].id = i
    \/ \E p \in Requests : pc[p] = "save" /\ Place(p) = place /\ chosen[p] = i
IdsInv ==
    \A i \in Ids : \A p, q \in Places :
        /\ HasId(p, i) => i \in drawn
        /\ HasId(p, i) /\ HasId(q, i) => p = q

RecordsInv == TypeInv /\ IdsInv /\ SealedForRecord /\ StoredPairVerified

\* What a request is about.
LEMMA AskTypes ==
    ASSUME TypeOK, NEW p \in Requests
    PROVE  /\ Place(p) \in Places /\ Place(p)[1] \in Users /\ Place(p)[2] \in Sources
           /\ ask[p].name \in Names /\ ask[p].secret \in Secrets /\ ask[p].op \in {"save", "remove"}
           /\ chosen[p] \in Ids
  <1>1. ask[p] \in Ask /\ chosen[p] \in Ids
    BY CredentialConstants DEF TypeOK
  <1>2. QED
    BY <1>1 DEF Ask, Place, Places

\* What a record is made of.
LEMMA RowTypes ==
    ASSUME TypeOK, NEW place \in Places, Stored(place)
    PROVE  /\ rows[place] \in Row /\ rows[place].id \in Ids /\ rows[place].name \in Names
           /\ rows[place].envelope \in Envelope
           /\ rows[place].envelope.secret \in Secrets /\ rows[place].envelope.key \in Keys
  BY DEF TypeOK, Stored, Row, Envelope

\* The record a save leaves behind: its own, or the one with another id.
LEMMA UpdatedRow ==
    ASSUME TypeInv, NEW p \in Requests, pc[p] = "save"
    PROVE  /\ Updated(p) \in Row
           /\ \/ Updated(p) = [id |-> chosen[p], name |-> ask[p].name, envelope |-> Sealed(p)]
              \/ Stored(Place(p)) /\ Updated(p) = rows[Place(p)]
           /\ Sealed(p) \in Envelope
           /\ Sealed(p).id = chosen[p] /\ Sealed(p).place = Place(p)
           /\ Sealed(p).secret = ask[p].secret /\ Sealed(p).key = key
  <1>1. key \in Keys
    BY DEF TypeInv, TypeOK, RequestInv
  <1>2. /\ Place(p) \in Places /\ ask[p].name \in Names /\ ask[p].secret \in Secrets
        /\ chosen[p] \in Ids
    BY AskTypes DEF TypeInv
  <1>3. /\ Sealed(p) \in Envelope
        /\ Sealed(p).id = chosen[p] /\ Sealed(p).place = Place(p)
        /\ Sealed(p).secret = ask[p].secret /\ Sealed(p).key = key
    BY <1>1, <1>2 DEF Sealed, Encrypt, Envelope
  <1>4. [id |-> chosen[p], name |-> ask[p].name, envelope |-> Sealed(p)] \in Row
    BY <1>2, <1>3 DEF Row
  <1>5. QED
    BY <1>2, <1>3, <1>4, RowTypes DEF Updated, TypeInv

\* What the command writes: every record as it was, sealed with the new key.
Rekeyed(place) == [rows[place] EXCEPT !.envelope = Reencrypt(place, rows[place])]

LEMMA CommitRekeys ==
    ASSUME RecordsInv, RotateCommit
    PROVE  /\ \A place \in Places :
                 rows'[place] = IF Stored(place) THEN Rekeyed(place) ELSE NoRow
           /\ rows' = [place \in Places |-> rows'[place]]
  <1>t. TypeOK /\ RotationInv /\ IdsInv
    BY DEF RecordsInv, TypeInv
  <1>1. \A place \in Places : replaced[place] = rows[place]
    BY <1>t DEF RotateCommit, RotationInv
  <1>2. IdsOf(rows) = IdsOf(replaced)
    BY <1>1 DEF IdsOf
  <1>3. ASSUME NEW place \in Places, Stored(place)
        PROVE  (CHOOSE q \in Places : replaced[q] # NoRow /\ replaced[q].id = rows[place].id) = place
    <2>1. \A q \in Places : replaced[q] # NoRow /\ replaced[q].id = rows[place].id => q = place
      <3>1. rows[place].id \in Ids
        BY <1>t, <1>3, RowTypes
      <3>2. QED
        BY <1>t, <1>1, <1>3, <3>1 DEF IdsInv, HasId, Stored
    <2>2. replaced[place] # NoRow /\ replaced[place].id = rows[place].id
      BY <1>1, <1>3 DEF Stored
    <2>3. QED
      BY <2>1, <2>2
  <1> DEFINE read(place) == CHOOSE q \in Places : replaced[q] # NoRow
                                                   /\ replaced[q].id = rows[place].id
             new(place)  == IF rows[place] = NoRow THEN NoRow
                            ELSE [rows[place] EXCEPT
                                     !.envelope = Reencrypt(read(place), replaced[read(place)])]
  <1>4. rows' = [place \in Places |-> new(place)]
    BY <1>2 DEF RotateCommit
  <1>5. \A place \in Places : new(place) = IF Stored(place) THEN Rekeyed(place) ELSE NoRow
    BY <1>1, <1>3 DEF Rekeyed, Stored
  <1> HIDE DEF new
  <1>6. QED
    BY <1>4, <1>5

\* A record that was re-encrypted is a record, with its id, name and secret.
LEMMA RekeyedRow ==
    ASSUME TypeOK, NEW place \in Places, Stored(place)
    PROVE  /\ Rekeyed(place) \in Row
           /\ Rekeyed(place).id = rows[place].id /\ Rekeyed(place).name = rows[place].name
           /\ Rekeyed(place).envelope =
                 [key |-> toKey, id |-> rows[place].id, place |-> place,
                  secret |-> rows[place].envelope.secret]
  <1>1. toKey \in Keys
    BY DEF TypeOK
  <1>2. QED
    BY <1>1, RowTypes DEF Rekeyed, Reencrypt, Encrypt, Row, Envelope

LEMMA InitRecordsInv == Init => RecordsInv
  <1> SUFFICES ASSUME Init PROVE RecordsInv
    OBVIOUS
  <1>1. /\ (CHOOSE a \in Asks : TRUE) \in Asks /\ (CHOOSE i \in Ids : TRUE) \in Ids
        /\ (CHOOSE k \in Keys : TRUE) \in Keys
    BY CredentialConstants
  <1>2. TypeOK
    BY <1>1 DEF Init, TypeOK
  <1>3. TypeInv
    BY <1>2 DEF Init, TypeInv, RequestInv, RotationInv, Stored
  <1>4. IdsInv /\ SealedForRecord /\ StoredPairVerified
    BY DEF Init, IdsInv, HasId, Stored, SealedForRecord, StoredPairVerified
  <1>5. QED
    BY <1>3, <1>4 DEF RecordsInv

\* Every step preserves the types, what requests rely on and what the command
\* has read.
LEMMA StepTypeInv ==
    ASSUME RecordsInv, [Next]_vars
    PROVE  TypeInv'
  <1>t. /\ TypeOK /\ RotationInv /\ \A q \in Requests : RequestInv(q)
        /\ \A place \in Places : Stored(place) => place[1] \in users
    BY DEF RecordsInv, TypeInv
  <1>r. ASSUME RotationInv, UNCHANGED <<up, rows, command>>, users \subseteq users'
        PROVE  RotationInv'
    BY <1>r DEF RotationInv, command
  <1>1. ASSUME NEW p \in Requests, NEW a \in Asks, StartRequest(p, a)
        PROVE  TypeInv'
    <2>1. TypeOK' /\ RotationInv'
      BY <1>1, <1>t, <1>r DEF StartRequest, Goto, service, checking, command, TypeOK
    <2>2. RequestInv(p)'
      BY <1>1, <1>t DEF StartRequest, Goto, Place, service, RequestInv, TypeOK
    <2>3. \A q \in Requests \ {p} : RequestInv(q)'
      BY <1>1, <1>t DEF StartRequest, Goto, Place, service, RequestInv, TypeOK
    <2>4. QED
      BY <1>1, <1>t, <2>1, <2>2, <2>3 DEF StartRequest, TypeInv, Stored
  <1>2. ASSUME NEW p \in Requests,
               Verify(p) \/ FindExisting(p) \/ FindForRemoval(p) \/ RequestFails(p)
        PROVE  TypeInv'
    <2>1. /\ UNCHANGED <<users, rows, up, key, starts, started, ask, probe, ready>>
          /\ UNCHANGED command /\ verified \subseteq verified'
      BY <1>2
      DEF Verify, FindExisting, FindForRemoval, RequestFails, service, checking
    <2>2. /\ pc' \in [Requests -> {"idle", "verify", "find", "save", "lookup", "delete"}]
          /\ \A q \in Requests \ {p} : pc'[q] = pc[q]
      BY <1>2, <1>t
      DEF Verify, FindExisting, FindForRemoval, RequestFails, Goto, TypeOK
    <2>3. chosen' \in [Requests -> Ids] /\ drawn' \subseteq Ids
      BY <1>2, <1>t, AskTypes, RowTypes
      DEF Verify, FindExisting, FindForRemoval, RequestFails, TypeOK
    <2>4. verified' \subseteq [source : Sources, name : Names, secret : Secrets]
      BY <1>2, <1>t, AskTypes
      DEF Verify, FindExisting, FindForRemoval, RequestFails, TypeOK
    <2>5. TypeOK'
      BY <1>t, <2>1, <2>2, <2>3, <2>4 DEF TypeOK, command
    <2>6. RequestInv(p)'
      BY <1>2, <1>t, <2>1
      DEF Verify, FindExisting, FindForRemoval, RequestFails, Goto, Place, RequestInv, TypeOK
    <2>7. \A q \in Requests \ {p} : RequestInv(q)'
      BY <1>t, <2>1, <2>2 DEF Place, RequestInv
    <2>8. QED
      BY <1>t, <1>r, <2>1, <2>5, <2>6, <2>7 DEF TypeInv, Stored
  <1>3. ASSUME NEW p \in Requests, SaveRow(p) \/ DeleteRow(p)
        PROVE  TypeInv'
    <2>1. /\ UNCHANGED <<users, up, key, starts, started, ask, chosen, probe, ready, drawn, verified>>
          /\ UNCHANGED command
          /\ pc' = [pc EXCEPT ![p] = "idle"] /\ pc[p] # "idle"
          /\ Place(p) \in Places /\ Place(p)[1] \in users /\ up
      BY <1>3, <1>t, AskTypes DEF SaveRow, DeleteRow, Goto, service, checking, RequestInv
    <2>2. rows' \in [Places -> Row \cup {NoRow}]
      BY <1>3, <1>t, <2>1, UpdatedRow DEF SaveRow, DeleteRow, TypeOK, RecordsInv
    <2>3. \A place \in Places : rows'[place] = rows[place] \/ place = Place(p)
      BY <1>3, <1>t, <2>1 DEF SaveRow, DeleteRow, TypeOK
    <2>4. TypeOK'
      BY <1>t, <2>1, <2>2 DEF TypeOK, command
    <2>5. \A q \in Requests : RequestInv(q)'
      BY <1>t, <2>1 DEF Place, RequestInv, TypeOK
    <2>6. RotationInv'
      BY <1>t, <2>1 DEF RotationInv, command
    <2>7. QED
      BY <1>t, <2>1, <2>3, <2>4, <2>5, <2>6 DEF TypeInv, Stored
  <1>4. ASSUME \/ StartProbe \/ \E u \in Users : ProbeUser(u)
        PROVE  TypeInv'
    <2>1. /\ UNCHANGED <<users, rows, up, key, starts, started, pc, ask, chosen, drawn, verified>>
          /\ UNCHANGED command
          /\ probe' \subseteq Users /\ ready' \in BOOLEAN
      BY <1>4, <1>t DEF StartProbe, ProbeUser, service, requests, TypeOK
    <2>2. QED
      BY <1>t, <1>r, <2>1 DEF TypeInv, TypeOK, RequestInv, Place, Stored, command
  <1>5. ASSUME NEW old \in Keys, NEW new \in Keys, StartRotation(old, new)
        PROVE  TypeInv'
    <2>1. TypeOK'
      BY <1>5, <1>t DEF StartRotation, service, requests, checking, TypeOK
    <2>2. \A q \in Requests : RequestInv(q)'
      BY <1>5, <1>t DEF StartRotation, service, requests, RequestInv, Place
    <2>3. RotationInv'
      BY <1>5, <1>t DEF StartRotation, service, RotationInv, Stored
    <2>4. QED
      BY <1>5, <1>t, <2>1, <2>2, <2>3 DEF StartRotation, TypeInv, Stored
  <1>6. ASSUME NEW u \in Users, RotateUser(u)
        PROVE  TypeInv'
    <2>1. TypeOK'
      BY <1>6, <1>t DEF RotateUser, service, requests, checking, TypeOK
    <2>2. \A q \in Requests : RequestInv(q)'
      BY <1>6, <1>t DEF RotateUser, service, requests, RequestInv, Place
    <2>3. \A place \in Places : place \in PlacesOf(u) <=> place[1] = u
      BY DEF Places, PlacesOf
    <2>4. RotationInv'
      BY <1>6, <1>t, <2>3 DEF RotateUser, service, RotationInv
    <2>5. QED
      BY <1>6, <1>t, <2>1, <2>2, <2>4 DEF RotateUser, TypeInv, Stored
  <1>7. CASE RotateCommit
    <2>1. \A place \in Places : rows'[place] = IF Stored(place) THEN Rekeyed(place) ELSE NoRow
      BY <1>7, CommitRekeys
    <2>2. rows' = [place \in Places |-> rows'[place]]
      BY <1>7, CommitRekeys
    <2>3. rows' \in [Places -> Row \cup {NoRow}]
      BY <1>t, <2>1, <2>2, RekeyedRow
    <2>4. TypeOK'
      BY <1>7, <1>t, <2>3 DEF RotateCommit, service, requests, checking, TypeOK
    <2>5. \A q \in Requests : RequestInv(q)'
      BY <1>7, <1>t DEF RotateCommit, service, requests, RequestInv, Place
    <2>6. QED
      BY <1>7, <1>t, <2>1, <2>4, <2>5 DEF RotateCommit, TypeInv, RotationInv, Stored
  <1>8. CASE RotationFails
    BY <1>8, <1>t
    DEF RotationFails, service, requests, checking, TypeInv, TypeOK, RequestInv, RotationInv, Place,
        Stored
  <1>9. ASSUME NEW u \in Users, CreateUser(u)
        PROVE  TypeInv'
    BY <1>9, <1>t, <1>r
    DEF CreateUser, service, requests, checking, command, TypeInv, TypeOK, RequestInv, Place, Stored
  <1>10. ASSUME NEW k \in Keys \cup {NoKey}, StartService(k)
         PROVE  TypeInv'
    BY <1>10, <1>t
    DEF StartService, requests, checking, command, TypeInv, TypeOK, RequestInv, RotationInv, Place,
        Stored
  <1>11. CASE StopService
    BY <1>11, <1>t
    DEF StopService, command, TypeInv, TypeOK, RequestInv, RotationInv, Stored
  <1>12. CASE UNCHANGED vars
    BY <1>12, <1>t DEF vars, TypeInv, TypeOK, RequestInv, RotationInv, Place, Stored
  <1>13. QED
    BY <1>1, <1>2, <1>3, <1>4, <1>5, <1>6, <1>7, <1>8, <1>9, <1>10, <1>11, <1>12 DEF Next, Step

\* Rows and saves in progress change only in these ways.
LEMMA RecordSteps ==
    ASSUME RecordsInv, [Next]_vars
    PROVE  \/ /\ UNCHANGED rows
              /\ \A p \in Requests : pc'[p] = "save" =>
                    pc[p] = "save" /\ chosen'[p] = chosen[p] /\ Place(p)' = Place(p)
              /\ drawn \subseteq drawn'
           \/ \E p \in Requests : FindExisting(p) \/ SaveRow(p) \/ DeleteRow(p)
           \/ RotateCommit
  <1>t. TypeOK
    BY DEF RecordsInv, TypeInv
  <1>1. ASSUME NEW p \in Requests, NEW a \in Asks, StartRequest(p, a)
        PROVE  /\ UNCHANGED rows
               /\ \A q \in Requests : pc'[q] = "save" =>
                    pc[q] = "save" /\ chosen'[q] = chosen[q] /\ Place(q)' = Place(q)
               /\ drawn \subseteq drawn'
    BY <1>1, <1>t DEF StartRequest, Goto, Place, TypeOK
  <1>2. ASSUME NEW p \in Requests, Verify(p) \/ FindForRemoval(p) \/ RequestFails(p)
        PROVE  /\ UNCHANGED rows
               /\ \A q \in Requests : pc'[q] = "save" =>
                    pc[q] = "save" /\ chosen'[q] = chosen[q] /\ Place(q)' = Place(q)
               /\ drawn \subseteq drawn'
    BY <1>2, <1>t DEF Verify, FindForRemoval, RequestFails, Goto, Place, TypeOK
  <1>3. ASSUME \/ StartProbe \/ RotationFails \/ StopService
               \/ \E u \in Users : ProbeUser(u) \/ RotateUser(u) \/ CreateUser(u)
               \/ \E old \in Keys, new \in Keys : StartRotation(old, new)
               \/ \E k \in Keys \cup {NoKey} : StartService(k)
               \/ UNCHANGED vars
        PROVE  /\ UNCHANGED rows
               /\ \A q \in Requests : pc'[q] = "save" =>
                    pc[q] = "save" /\ chosen'[q] = chosen[q] /\ Place(q)' = Place(q)
               /\ drawn \subseteq drawn'
    BY <1>3
    DEF StartProbe, RotationFails, StopService, ProbeUser, RotateUser, CreateUser, StartRotation,
        StartService, Place, requests, vars
  <1>4. QED
    BY <1>1, <1>2, <1>3 DEF Next, Step

\* Ids stay with the place they were drawn for.
LEMMA StepIdsInv ==
    ASSUME RecordsInv, [Next]_vars
    PROVE  IdsInv'
  <1>t. TypeInv /\ TypeOK /\ IdsInv
    BY DEF RecordsInv, TypeInv
  <1>k. ASSUME \A place \in Places, i \in Ids : HasId(place, i)' => HasId(place, i),
               drawn \subseteq drawn'
        PROVE  IdsInv'
    BY <1>k, <1>t DEF IdsInv
  <1>1. ASSUME UNCHANGED rows,
               \A p \in Requests : pc'[p] = "save" =>
                  pc[p] = "save" /\ chosen'[p] = chosen[p] /\ Place(p)' = Place(p),
               drawn \subseteq drawn'
        PROVE  IdsInv'
    BY <1>1, <1>k DEF HasId, Stored
  <1>2. ASSUME NEW p \in Requests, FindExisting(p)
        PROVE  IdsInv'
    <2>1. /\ UNCHANGED <<rows, ask>> /\ chosen'[p] \in Ids /\ drawn \subseteq drawn'
          /\ \A q \in Requests \ {p} : pc'[q] = pc[q] /\ chosen'[q] = chosen[q]
          /\ \/ Stored(Place(p)) /\ chosen'[p] = rows[Place(p)].id
             \/ chosen'[p] \notin drawn /\ chosen'[p] \in drawn'
      BY <1>2, <1>t, AskTypes, RowTypes DEF FindExisting, Goto, TypeOK
    <2>2. ASSUME NEW place \in Places, NEW i \in Ids, HasId(place, i)'
          PROVE  \/ HasId(place, i)
                 \/ place = Place(p) /\ i = chosen'[p] /\ i \notin drawn /\ i \in drawn'
      <3>1. Place(p)' = Place(p) /\ \A q \in Requests : Place(q)' = Place(q)
        BY <2>1 DEF Place
      <3>2. CASE \E q \in Requests \ {p} : pc'[q] = "save" /\ Place(q)' = place /\ chosen'[q] = i
        BY <2>1, <3>1, <3>2 DEF HasId
      <3>3. CASE rows[place] # NoRow /\ rows[place].id = i
        BY <3>3 DEF HasId, Stored
      <3>4. CASE Place(p) = place /\ chosen'[p] = i
        BY <2>1, <3>4 DEF HasId, Stored
      <3>5. QED
        BY <2>1, <2>2, <3>1, <3>2, <3>3, <3>4 DEF HasId, Stored
    <2>3. QED
      BY <1>t, <2>1, <2>2 DEF IdsInv
  <1>3. ASSUME NEW p \in Requests, SaveRow(p) \/ DeleteRow(p)
        PROVE  IdsInv'
    <2>1. /\ UNCHANGED <<chosen, ask, drawn>> /\ Place(p) \in Places
          /\ \A q \in Requests : pc'[q] = "save" => pc[q] = "save"
      BY <1>3, <1>t, AskTypes DEF SaveRow, DeleteRow, Goto, TypeOK
    <2>2. ASSUME NEW place \in Places, NEW i \in Ids, HasId(place, i)'
          PROVE  HasId(place, i)
      <3>1. CASE \E q \in Requests : pc'[q] = "save" /\ Place(q)' = place /\ chosen'[q] = i
        BY <2>1, <3>1 DEF HasId, Place
      <3>2. CASE rows'[place] # NoRow /\ rows'[place].id = i
        <4>1. CASE place # Place(p)
          BY <1>3, <1>t, <3>2, <4>1 DEF SaveRow, DeleteRow, HasId, Stored, TypeOK
        <4>2. CASE place = Place(p) /\ SaveRow(p)
          <5>1. pc[p] = "save" /\ rows'[place] = Updated(p)
            BY <1>t, <2>1, <4>2 DEF SaveRow, TypeOK
          <5>2. QED
            BY <1>t, <3>2, <4>2, <5>1, UpdatedRow DEF HasId, Stored
        <4>3. CASE place = Place(p) /\ DeleteRow(p)
          BY <1>t, <2>1, <3>2, <4>3 DEF DeleteRow, TypeOK
        <4>4. QED
          BY <1>3, <4>1, <4>2, <4>3
      <3>3. QED
        BY <2>2, <3>1, <3>2 DEF HasId, Stored
    <2>3. QED
      BY <1>k, <2>1, <2>2
  <1>4. CASE RotateCommit
    <2>1. \A place \in Places : rows'[place] = IF Stored(place) THEN Rekeyed(place) ELSE NoRow
      BY <1>4, CommitRekeys
    <2>2. UNCHANGED <<pc, chosen, ask, drawn>>
      BY <1>4 DEF RotateCommit, requests
    <2>3. ASSUME NEW place \in Places, NEW i \in Ids, HasId(place, i)'
          PROVE  HasId(place, i)
      BY <1>t, <2>1, <2>2, <2>3, RekeyedRow DEF HasId, Stored, Place
    <2>4. QED
      BY <1>k, <2>2, <2>3
  <1>5. QED
    BY <1>1, <1>2, <1>3, <1>4, RecordSteps

\* Every record stays sealed for itself and verified as it is.
LEMMA StepSecrets ==
    ASSUME RecordsInv, [Next]_vars
    PROVE  SealedForRecord' /\ StoredPairVerified'
  <1>t. TypeInv /\ TypeOK /\ SealedForRecord /\ StoredPairVerified
    BY DEF RecordsInv, TypeInv
  <1>v. verified \subseteq verified'
    BY DEF Next, Step, StartRequest, Verify, FindExisting, SaveRow, FindForRemoval, DeleteRow,
       RequestFails, StartProbe, ProbeUser, StartRotation, RotateUser, RotateCommit, RotationFails,
       CreateUser, StartService, StopService, vars
  <1>1. CASE UNCHANGED rows
    BY <1>t, <1>v, <1>1 DEF SealedForRecord, StoredPairVerified, Stored
  <1>2. ASSUME NEW p \in Requests, SaveRow(p)
        PROVE  SealedForRecord' /\ StoredPairVerified'
    <2>1. /\ pc[p] = "save" /\ rows' = [rows EXCEPT ![Place(p)] = Updated(p)] /\ Place(p) \in Places
      BY <1>2, <1>t, AskTypes DEF SaveRow
    <2>2. [source |-> Place(p)[2], name |-> ask[p].name, secret |-> ask[p].secret] \in verified
      BY <1>t, <2>1 DEF TypeInv, RequestInv
    <2>3. CASE Updated(p) = [id |-> chosen[p], name |-> ask[p].name, envelope |-> Sealed(p)]
      <3>1. /\ rows'[Place(p)].id = chosen[p] /\ rows'[Place(p)].name = ask[p].name
            /\ rows'[Place(p)].envelope = Sealed(p)
        BY <1>t, <2>1, <2>3 DEF TypeOK
      <3>2. \A place \in Places : place # Place(p) => rows'[place] = rows[place]
        BY <1>t, <2>1 DEF TypeOK
      <3>3. /\ Sealed(p).id = chosen[p] /\ Sealed(p).place = Place(p)
            /\ Sealed(p).secret = ask[p].secret
        BY <1>t, <2>1, UpdatedRow
      <3>4. SealedForRecord'
        BY <1>t, <3>1, <3>2, <3>3 DEF SealedForRecord, Stored
      <3>5. StoredPairVerified'
        BY <1>t, <1>v, <2>2, <3>1, <3>2, <3>3 DEF StoredPairVerified, Stored
      <3>6. QED
        BY <3>4, <3>5
    <2>4. CASE Stored(Place(p)) /\ Updated(p) = rows[Place(p)]
      BY <1>t, <1>v, <2>1, <2>4 DEF SealedForRecord, StoredPairVerified, Stored, TypeOK
    <2>5. QED
      BY <1>t, <2>1, <2>3, <2>4, UpdatedRow
  <1>3. ASSUME NEW p \in Requests, DeleteRow(p)
        PROVE  SealedForRecord' /\ StoredPairVerified'
    BY <1>t, <1>v, <1>3 DEF DeleteRow, SealedForRecord, StoredPairVerified, Stored, TypeOK
  <1>4. CASE RotateCommit
    <2>1. \A place \in Places : rows'[place] = IF Stored(place) THEN Rekeyed(place) ELSE NoRow
      BY <1>4, CommitRekeys
    <2>2. ASSUME NEW place \in Places, Stored(place)'
          PROVE  /\ Stored(place)
                 /\ rows'[place].id = rows[place].id /\ rows'[place].name = rows[place].name
                 /\ rows'[place].envelope.id = rows[place].id
                 /\ rows'[place].envelope.place = place
                 /\ rows'[place].envelope.secret = rows[place].envelope.secret
      <3>1. Stored(place) /\ rows'[place] = Rekeyed(place)
        BY <2>1, <2>2 DEF Stored
      <3>2. /\ Rekeyed(place).id = rows[place].id /\ Rekeyed(place).name = rows[place].name
            /\ Rekeyed(place).envelope =
                  [key |-> toKey, id |-> rows[place].id, place |-> place,
                   secret |-> rows[place].envelope.secret]
        BY <1>t, <3>1, RekeyedRow
      <3>3. QED
        BY <3>1, <3>2
    <2>3. SealedForRecord'
      BY <2>2 DEF SealedForRecord
    <2>4. StoredPairVerified'
      BY <1>t, <1>v, <2>2 DEF StoredPairVerified
    <2>5. QED
      BY <2>3, <2>4
  <1>5. QED
    BY <1>1, <1>2, <1>3, <1>4, RecordSteps DEF FindExisting

LEMMA StepRecordsInv ==
    ASSUME RecordsInv, [Next]_vars
    PROVE  RecordsInv'
  BY StepTypeInv, StepIdsInv, StepSecrets DEF RecordsInv

\* VerifyAndSave and the rotation: whatever saves, removals and rotations
\* interleave, a stored secret is typed, sealed for the record it is in, and
\* was accepted by the registry together with the username beside it.
THEOREM SecretsAreSound == Spec => []SecretsInv
  <1>1. RecordsInv => SecretsInv
    BY DEF RecordsInv, TypeInv, SecretsInv
  <1>2. RecordsInv /\ [Next]_vars => RecordsInv'
    BY StepRecordsInv
  <1>3. QED
    BY InitRecordsInv, <1>1, <1>2, PTL DEF Spec

\* What a commit of the command does to the records, from the records it read.
LEMMA CommitRekeysAll ==
    ASSUME RecordsInv, RotateCommit
    PROVE  RekeysAll
  <1>t. TypeOK
    BY DEF RecordsInv, TypeInv
  <1>1. ASSUME NEW place \in Places, Stored(place)
        PROVE  /\ rows'[place].id = rows[place].id /\ rows'[place].name = rows[place].name
               /\ rows'[place].envelope.secret = rows[place].envelope.secret
               /\ Opens({toKey}, rows[place].id, place, rows'[place].envelope)
    <2>1. rows'[place] = Rekeyed(place)
      BY <1>1, CommitRekeys
    <2>2. /\ Rekeyed(place).id = rows[place].id /\ Rekeyed(place).name = rows[place].name
          /\ Rekeyed(place).envelope =
                [key |-> toKey, id |-> rows[place].id, place |-> place,
                 secret |-> rows[place].envelope.secret]
      BY <1>t, <1>1, RekeyedRow
    <2>3. QED
      BY <2>1, <2>2 DEF Opens
  <1>2. QED
    BY <1>1 DEF RekeysAll, Stored

\* rotate-credential-key writes all envelopes in one transaction: when it does,
\* no request is in progress, the ids are those it read, and every record keeps
\* its id, username and secret and opens with the new key alone.
THEOREM RotationsRekeyAll == Spec => RotationRekeysAll
  <1>1. RecordsInv /\ [Next]_vars => RecordsInv'
    BY StepRecordsInv
  <1>2. ASSUME RecordsInv, [Next]_vars
        PROVE  RekeysAll
    <2>1. CASE UNCHANGED rows
      BY <2>1 DEF RekeysAll
    <2>2. ASSUME NEW p \in Requests, SaveRow(p) \/ DeleteRow(p)
          PROVE  rotating = "no"
      BY <1>2, <2>2 DEF SaveRow, DeleteRow, RecordsInv, TypeInv, RequestInv, RotationInv
    <2>3. CASE RotateCommit
      BY <1>2, <2>3, CommitRekeysAll
    <2>4. QED
      BY <1>2, <2>1, <2>2, <2>3, RecordSteps DEF FindExisting, RekeysAll
  <1>3. QED
    BY InitRecordsInv, <1>1, <1>2, PTL DEF Spec, RotationRekeysAll

-----------------------------------------------------------------------------
\* What a probe has found out while it runs: every credential of a user it is
\* done with, or that came after it began, opens with the key of the process.
ProbeInv ==
    /\ ~up => probe = {} /\ ~ready
    /\ ready => probe = {}
    /\ probe # {} \/ ready => \A u \in Users \ probe : Passes(u)

\* A record that is not touched opens as before.
LEMMA PassesStays ==
    ASSUME NEW u \in Users, Passes(u), key' = key,
           \A place \in PlacesOf(u) : Stored(place)' =>
              \/ Stored(place) /\ rows'[place] = rows[place]
              \/ Opens({key} \ {NoKey}, rows'[place].id, place, rows'[place].envelope)
    PROVE  Passes(u)'
  BY DEF Passes, OpensAll, PlacesOf, Stored, Opens

\* A save writes what the key of the process opens, or leaves the record.
LEMMA SavePasses ==
    ASSUME RecordsInv, NEW p \in Requests, SaveRow(p), NEW u \in Users, Passes(u)
    PROVE  Passes(u)'
  <1>t. TypeInv /\ TypeOK
    BY DEF RecordsInv, TypeInv
  <1>1. /\ pc[p] = "save" /\ key' = key /\ Place(p) \in Places
        /\ rows' = [rows EXCEPT ![Place(p)] = Updated(p)]
        /\ key \in {key} \ {NoKey}
    BY <1>t, AskTypes DEF SaveRow, service, TypeInv, RequestInv
  <1>2. ASSUME NEW place \in PlacesOf(u), Stored(place)'
        PROVE  \/ Stored(place) /\ rows'[place] = rows[place]
               \/ Opens({key} \ {NoKey}, rows'[place].id, place, rows'[place].envelope)
    <2>0. place \in Places
      BY DEF PlacesOf, Places
    <2>1. CASE place # Place(p)
      BY <1>t, <1>1, <1>2, <2>0, <2>1 DEF Stored, TypeOK
    <2>2. CASE place = Place(p)
      <3>1. rows'[place] = Updated(p)
        BY <1>t, <1>1, <2>0, <2>2 DEF TypeOK
      <3>2. /\ \/ Updated(p) = [id |-> chosen[p], name |-> ask[p].name, envelope |-> Sealed(p)]
               \/ Stored(Place(p)) /\ Updated(p) = rows[Place(p)]
            /\ Sealed(p).id = chosen[p] /\ Sealed(p).place = Place(p) /\ Sealed(p).key = key
        BY <1>t, <1>1, UpdatedRow
      <3>3. CASE Stored(Place(p)) /\ Updated(p) = rows[Place(p)]
        BY <2>2, <3>1, <3>3
      <3>4. CASE Updated(p) = [id |-> chosen[p], name |-> ask[p].name, envelope |-> Sealed(p)]
        <4>1. rows'[place].id = chosen[p] /\ rows'[place].envelope = Sealed(p)
          BY <3>1, <3>4
        <4>2. QED
          BY <1>1, <2>2, <3>2, <4>1 DEF Opens
      <3>5. QED
        BY <3>2, <3>3, <3>4
    <2>3. QED
      BY <2>1, <2>2
  <1>3. QED
    BY <1>1, <1>2, PassesStays

\* No step takes away what the probe has found out.
LEMMA StepProbeInv ==
    ASSUME RecordsInv, ProbeInv, [Next]_vars
    PROVE  ProbeInv'
  <1>t. TypeInv /\ TypeOK /\ \A q \in Requests : RequestInv(q)
    BY DEF RecordsInv, TypeInv
  <1>n. \A u \in Users \ users : Passes(u)
    BY <1>t DEF TypeInv, Passes, OpensAll, PlacesOf, Places
  <1>k. ASSUME UNCHANGED <<probe, ready, up>>, \A u \in Users : Passes(u) => Passes(u)'
        PROVE  ProbeInv'
    BY <1>k DEF ProbeInv
  <1>1. ASSUME UNCHANGED <<probe, ready, up, key, rows>>
        PROVE  ProbeInv'
    BY <1>k, <1>1 DEF Passes, OpensAll, Stored
  <1>2. ASSUME NEW p \in Requests, SaveRow(p)
        PROVE  ProbeInv'
    BY <1>2, <1>k, SavePasses DEF SaveRow, service, checking
  <1>3. ASSUME NEW p \in Requests, DeleteRow(p)
        PROVE  ProbeInv'
    <2>1. \A place \in Places : rows'[place] # NoRow => rows'[place] = rows[place]
      BY <1>3, <1>t DEF DeleteRow, TypeOK
    <2>2. ASSUME NEW u \in Users, Passes(u)
          PROVE  Passes(u)'
      BY <1>3, <2>1, <2>2, PassesStays DEF DeleteRow, service, PlacesOf, Places, Stored
    <2>3. QED
      BY <1>3, <1>k, <2>2 DEF DeleteRow, service, checking
  <1>4. CASE StartProbe
    <2>1. probe' = users /\ ready' = (users = {}) /\ up' /\ UNCHANGED <<key, rows>>
      BY <1>4 DEF StartProbe, service
    <2>2. \A u \in Users \ users : Passes(u)'
      BY <1>n, <2>1 DEF Passes, OpensAll, Stored
    <2>3. QED
      BY <2>1, <2>2 DEF ProbeInv
  <1>5. ASSUME NEW u \in Users, ProbeUser(u)
        PROVE  ProbeInv'
    <2>1. UNCHANGED <<up, key, rows>> /\ u \in probe
      BY <1>5 DEF ProbeUser, service
    <2>2. \A v \in Users : Passes(v)' <=> Passes(v)
      BY <2>1 DEF Passes, OpensAll, Stored
    <2>3. CASE Passes(u) /\ probe' = probe \ {u} /\ ready' = (probe = {u})
      BY <2>1, <2>2, <2>3 DEF ProbeInv
    <2>4. CASE probe' = {} /\ ready' = FALSE
      BY <2>4 DEF ProbeInv
    <2>5. QED
      BY <1>5, <2>3, <2>4 DEF ProbeUser
  <1>6. CASE RotateCommit
    BY <1>6, <1>t DEF RotateCommit, service, checking, ProbeInv, TypeInv, RotationInv
  <1>7. ASSUME NEW k \in Keys \cup {NoKey}, StartService(k)
        PROVE  ProbeInv'
    BY <1>7 DEF StartService, checking, ProbeInv
  <1>8. CASE StopService
    BY <1>8 DEF StopService, ProbeInv
  <1>9. ASSUME \/ \E p \in Requests :
                    \/ \E a \in Asks : StartRequest(p, a)
                    \/ Verify(p) \/ FindExisting(p) \/ FindForRemoval(p) \/ RequestFails(p)
               \/ \E old \in Keys, new \in Keys : StartRotation(old, new)
               \/ \E u \in Users : RotateUser(u) \/ CreateUser(u)
               \/ RotationFails \/ UNCHANGED vars
        PROVE  UNCHANGED <<probe, ready, up, key, rows>>
    BY <1>9
    DEF StartRequest, Verify, FindExisting, FindForRemoval, RequestFails, StartRotation, RotateUser,
        CreateUser, RotationFails, service, checking, vars
  <1>10. QED
    BY <1>1, <1>2, <1>3, <1>4, <1>5, <1>6, <1>7, <1>8, <1>9 DEF Next, Step

\* handleReady opens one user's credentials after another while saves go on and
\* users are created, and the command keeps away while the service runs: once
\* reported, readiness stays true of that process.
THEOREM ReadinessIsLasting == Spec => []ReadyStaysTrue
  <1>1. Init => RecordsInv /\ ProbeInv
    BY InitRecordsInv DEF Init, ProbeInv
  <1>2. RecordsInv /\ ProbeInv /\ [Next]_vars => (RecordsInv /\ ProbeInv)'
    BY StepRecordsInv, StepProbeInv
  <1>3. ProbeInv => ReadyStaysTrue
    BY DEF ProbeInv, ReadyStaysTrue, Passes
  <1>4. QED
    BY <1>1, <1>2, <1>3, PTL DEF Spec

=============================================================================
