------------------------ MODULE LocalCommandsProofs ------------------------
(***************************************************************************)
(* Proofs about LocalCommands, for every set of commands that overlap,     *)
(* fail and die, and every host, content root and workload.                *)
(***************************************************************************)
EXTENDS LocalCommands, FiniteSetTheorems, TLAPS

-----------------------------------------------------------------------------
(* Types.                                                                  *)

Value == {Absent, Created} \cup CACertificate \cup ServerCertificate \cup Nat \cup Content
         \cup ArchiveFile
Identity == [Range(IdentityFiles) -> CACertificate \cup ServerCertificate \cup Nat]
Carried == Value \cup {Nothing} \cup Identity
Asked == Ask \cup {NoAsk}
Seen == SUBSET (Range(IdentityFiles) \cup {"manifest", "config", "content"})

ProcState ==
    [pc : PCs, ask : Asked, at : Nat, seen : Seen, has : Carried, secret : Value, raced : BOOLEAN]

\* A command is at a step of the operation it was asked for.
OperationInv(q) ==
    /\ (proc[q].pc = "idle") = (proc[q].ask = NoAsk)
    /\ proc[q].pc \in {"stat", "create", "encode", "authority", "rename"} =>
          proc[q].ask.op \in {"serve", "init"}
    /\ proc[q].pc = "initialized" => proc[q].ask.op = "init"
    /\ proc[q].pc \in {"keystat", "keycreate", "keywrite", "keyload", "listen", "serving"} =>
          proc[q].ask.op = "serve"
    /\ proc[q].pc \in {"output", "open", "archive"} => proc[q].ask.op = "backup"
    /\ proc[q].pc \in {"target", "settings", "next", "copy", "restored"} =>
          proc[q].ask.op = "restore"

\* The content root in service: the database names blobs that are stored.
LiveInv ==
    /\ live \in [config : {{"routes"}}, blobs : SUBSET Blobs, database : SUBSET Blobs]
    /\ live.database \subseteq live.blobs

HostTypes ==
    /\ files \in [Paths -> Value]
    /\ proc \in [Commands -> ProcState]
    /\ \A q \in Commands : OperationInv(q)
    /\ LiveInv
    /\ now \in Nat /\ keys \in Nat /\ workload \in Workloads
    /\ begun \in 0 .. workload.commands /\ crashes \in 0 .. MaxCrashes

\* What is on the command lines.
LEMMA AskTypes ==
    ASSUME NEW ask \in Ask
    PROVE  /\ ask.op \in {"serve", "init"} => ask.hosts \in SUBSET Hosts
           /\ ask.op \in {"backup", "restore"} => ask.archive \in Archives
           /\ ask.op = "restore" => ask.root \in Roots /\ ask.config \in ConfigOutputs
           /\ ask.op \in {"serve", "init", "backup", "restore"}
  BY DEF Ask

LEMMA IdentityNames ==
    /\ Len(IdentityFiles) = 4 /\ IdentityFiles[1] = "ca.crt" /\ IdentityFiles[2] = "ca.key"
    /\ IdentityFiles[3] = "server.crt" /\ IdentityFiles[4] = "server.key"
    /\ Range(IdentityFiles) = {"ca.crt", "ca.key", "server.crt", "server.key"}
    /\ Range(IdentityFiles) = {IdentityFiles[i] : i \in 1 .. 4}
  BY DEF IdentityFiles, Range

LEMMA NamesDiffer ==
    ASSUME NEW i \in 1 .. 4, NEW j \in 1 .. 4
    PROVE  /\ IdentityFiles[i] = IdentityFiles[j] => i = j
           /\ IdentityFiles[i] # CredentialKey
           /\ IdentityFiles[i] \in Range(IdentityFiles)
  BY IdentityNames DEF CredentialKey

LEMMA PathsDiffer ==
    /\ \A name, other : TLS(name) = TLS(other) => name = other
    /\ \A a, b : Archive(a) = Archive(b) => a = b
    /\ \A c, d : ConfigFile(c) = ConfigFile(d) => c = d
    /\ \A root, name, other : Restored(root, name) = Restored(root, other) => name = other
    /\ \A name, a, c : TLS(name) # Archive(a) /\ TLS(name) # ConfigFile(c)
                         /\ Archive(a) # ConfigFile(c)
    /\ \A root \in Roots : \A name, other, a, c :
          /\ Restored(root, name) # TLS(other) /\ Restored(root, name) # Archive(a)
          /\ Restored(root, name) # ConfigFile(c)
  BY HostConstants DEF TLS, Archive, ConfigFile, Restored

LEMMA PathTypes ==
    /\ \A name \in Range(IdentityFiles) : TLS(name) \in Paths
    /\ TLS(CredentialKey) \in Paths
    /\ \A a \in Archives : Archive(a) \in Paths
    /\ \A c \in ConfigOutputs : ConfigFile(c) \in Paths
    /\ \A root \in Roots, name \in Names : Restored(root, name) \in Paths
  BY DEF Paths, Names

\* The values a command takes up keep to the types.
LEMMA IdleTypes ==
    /\ Idle \in ProcState /\ Idle.pc = "idle" /\ Idle.ask = NoAsk /\ Idle.at = 0
    /\ Idle.seen = {} /\ Idle.has = Nothing /\ ~Idle.raced
  BY DEF Idle, ProcState, PCs, Value, Carried, Asked, Seen

\* A move to another label, which starts over with the counter.
LEMMA GotoFields ==
    ASSUME proc \in [Commands -> ProcState], NEW p \in Commands, NEW label \in PCs, Goto(p, label)
    PROVE  /\ proc' \in [Commands -> ProcState]
           /\ \A q \in Commands \ {p} : proc'[q] = proc[q]
           /\ proc'[p].pc = label /\ proc'[p].at = 0 /\ proc'[p].ask = proc[p].ask
           /\ proc'[p].seen = proc[p].seen /\ proc'[p].has = proc[p].has
           /\ proc'[p].secret = proc[p].secret /\ proc'[p].raced = proc[p].raced
  BY DEF Goto, ProcState

\* One command goes on with what it was asked for.
Moves(p) ==
    /\ proc' \in [Commands -> ProcState]
    /\ \A q \in Commands \ {p} : proc'[q] = proc[q]
    /\ proc'[p].ask = proc[p].ask /\ proc'[p].raced = proc[p].raced

\* The files of the identity and the key hold values.
LEMMA LocalFiles ==
    ASSUME HostTypes
    PROVE  /\ \A i \in 1 .. 4 : files[TLS(IdentityFiles[i])] \in Value
           /\ files[TLS("server.crt")] \in Value /\ files[TLS(CredentialKey)] \in Value
  BY PathTypes, IdentityNames, NamesDiffer DEF HostTypes

LEMMA MoveWith ==
    ASSUME proc \in [Commands -> ProcState], NEW p \in Commands, NEW label \in PCs, NEW at \in Nat,
           NEW has \in Carried,
           proc' = [proc EXCEPT ![p].pc = label, ![p].at = at, ![p].has = has]
    PROVE  /\ Moves(p) /\ proc'[p].pc = label /\ proc'[p].at = at /\ proc'[p].has = has
  BY DEF ProcState, Moves

LEMMA MoveHaving ==
    ASSUME proc \in [Commands -> ProcState], NEW p \in Commands, NEW label \in PCs,
           NEW has \in Carried, proc' = [proc EXCEPT ![p].pc = label, ![p].has = has]
    PROVE  /\ Moves(p) /\ proc'[p].pc = label /\ proc'[p].has = has
           /\ proc'[p].secret = proc[p].secret
  BY DEF ProcState, Moves

LEMMA MoveKnowing ==
    ASSUME proc \in [Commands -> ProcState], NEW p \in Commands, NEW label \in PCs,
           NEW secret \in Value, proc' = [proc EXCEPT ![p].pc = label, ![p].secret = secret]
    PROVE  /\ Moves(p) /\ proc'[p].pc = label /\ proc'[p].secret = secret
  BY DEF ProcState, Moves

LEMMA Labels ==
    {"idle", "stat", "create", "encode", "authority", "rename", "initialized", "keystat",
     "keycreate", "keywrite", "keyload", "listen", "serving", "output", "open", "archive",
     "target", "settings", "next", "copy", "restored"} = PCs
  BY DEF PCs

LEMMA Carries == Value \subseteq Carried /\ Identity \subseteq Carried /\ Nothing \in Carried
                   /\ ServerCertificate \subseteq Value /\ Nat \subseteq Value
                   /\ ArchiveFile \subseteq Value /\ Content \subseteq Value
                   /\ Absent \in Value /\ Created \in Value /\ CACertificate \subseteq Value
  BY DEF Carried, Value

LEMMA StatFields ==
    ASSUME HostTypes, NEW p \in Commands, StatIdentity(p)
    PROVE  Moves(p) /\ UNCHANGED files /\ proc'[p].pc = "stat"
  <1>t. proc \in [Commands -> ProcState] /\ proc[p].pc = "stat"
    BY DEF HostTypes, StatIdentity
  <1> DEFINE name == IdentityFiles[proc[p].at + 1]
             look == IF Exists(TLS(name)) THEN proc[p].seen \cup {name} ELSE proc[p].seen
  <1>1. name \in Range(IdentityFiles)
    <2>1. proc[p].at + 1 \in 1 .. 4
      BY <1>t, IdentityNames DEF StatIdentity, ProcState
    <2>2. QED
      BY <2>1, NamesDiffer
  <1>2. look \in Seen /\ proc[p].at + 1 \in Nat
    BY <1>t, <1>1 DEF ProcState, Seen
  <1>3. UNCHANGED files /\ proc' = [proc EXCEPT ![p].at = @ + 1, ![p].seen = look]
    BY DEF StatIdentity, OnlyReads
  <1> HIDE DEF look
  <1>4. QED
    BY <1>t, <1>2, <1>3 DEF ProcState, Moves

LEMMA IdentityTypes ==
    ASSUME HostTypes, NEW hosts \in SUBSET Hosts
    PROVE  LET has == NewIdentity(hosts) IN
           /\ has \in Identity
           /\ has["ca.crt"] \in CACertificate /\ has["ca.key"] \in Nat
           /\ has["server.crt"] \in ServerCertificate /\ has["server.key"] \in Nat
           /\ has["ca.crt"].key = has["ca.key"] /\ has["server.crt"].key = has["server.key"]
           /\ has["server.crt"].signer = has["ca.key"] /\ has["server.crt"].hosts = hosts
  <1>1. keys + 1 \in Nat /\ keys + 2 \in Nat /\ now \in Nat
    BY DEF HostTypes
  <1>2. /\ [key |-> keys + 1, from |-> now] \in CACertificate
        /\ [key |-> keys + 2, signer |-> keys + 1, hosts |-> hosts, from |-> now]
              \in ServerCertificate
    BY <1>1 DEF CACertificate, ServerCertificate
  <1>3. LET has == NewIdentity(hosts) IN
        /\ has["ca.crt"] = [key |-> keys + 1, from |-> now] /\ has["ca.key"] = keys + 1
        /\ has["server.crt"] = [key |-> keys + 2, signer |-> keys + 1, hosts |-> hosts, from |-> now]
        /\ has["server.key"] = keys + 2
        /\ has \in Identity
    BY <1>1, <1>2, IdentityNames DEF NewIdentity, Identity
  <1>4. QED
    BY <1>1, <1>2, <1>3

LEMMA GenerateFields ==
    ASSUME HostTypes, NEW p \in Commands, GenerateIdentity(p)
    PROVE  /\ Moves(p) /\ UNCHANGED files /\ keys' \in Nat
           /\ proc'[p].pc = "create" /\ proc'[p].at = 0
           /\ proc'[p].has = NewIdentity(proc[p].ask.hosts)
           /\ proc[p].ask.hosts \in SUBSET Hosts
  <1>t. proc \in [Commands -> ProcState] /\ keys \in Nat
    BY DEF HostTypes
  <1>1. proc[p].ask.hosts \in SUBSET Hosts
    BY <1>t, AskTypes DEF HostTypes, OperationInv, GenerateIdentity, Counted, ProcState, Asked
  <1>2. NewIdentity(proc[p].ask.hosts) \in Identity
    BY <1>1, IdentityTypes
  <1>3. /\ proc' = [proc EXCEPT ![p].pc = "create", ![p].at = 0,
                             ![p].has = NewIdentity(proc[p].ask.hosts)]
        /\ UNCHANGED files /\ keys' \in Nat
    BY <1>t DEF GenerateIdentity
  <1>4. NewIdentity(proc[p].ask.hosts) \in Carried /\ "create" \in PCs
    BY <1>2, Carries DEF PCs
  <1>5. QED
    BY <1>t, <1>1, <1>3, <1>4, MoveWith

LEMMA LoadFields ==
    ASSUME HostTypes, NEW p \in Commands, LoadServerPair(p)
    PROVE  /\ Moves(p) /\ UNCHANGED files
           /\ proc'[p].pc = "authority" /\ proc'[p].has = files[TLS("server.crt")]
  <1>t. proc \in [Commands -> ProcState]
    BY DEF HostTypes
  <1>1. /\ UNCHANGED files
        /\ proc' = [proc EXCEPT ![p].pc = "authority", ![p].at = 0, ![p].has = files[TLS("server.crt")]]
    BY DEF LoadServerPair, OnlyReads
  <1>2. files[TLS("server.crt")] \in Carried /\ "authority" \in PCs
    BY LocalFiles, Carries DEF PCs
  <1> DEFINE leaf == files[TLS("server.crt")]
  <1>3. leaf \in Carried /\ proc' = [proc EXCEPT ![p].pc = "authority", ![p].at = 0, ![p].has = leaf]
    BY <1>1, <1>2
  <1> HIDE DEF leaf
  <1>4. Moves(p) /\ proc'[p].pc = "authority" /\ proc'[p].has = leaf
    BY <1>t, <1>2, <1>3, MoveWith
  <1>5. QED
    BY <1>1, <1>4 DEF leaf

LEMMA SignFields ==
    ASSUME HostTypes, NEW p \in Commands, SignCertificate(p), proc[p].has \in ServerCertificate
    PROVE  /\ Moves(p) /\ UNCHANGED files /\ proc'[p].pc = "rename"
           /\ proc'[p].has \in ServerCertificate
           /\ proc'[p].has.key = proc[p].has.key /\ proc'[p].has.signer = proc[p].has.signer
           /\ proc'[p].has.hosts = proc[p].ask.hosts
  <1>t. proc \in [Commands -> ProcState] /\ now \in Nat
    BY DEF HostTypes
  <1>1. proc[p].ask.hosts \in SUBSET Hosts
    BY <1>t, AskTypes DEF HostTypes, OperationInv, SignCertificate, ProcState, Asked
  <1> DEFINE leaf == [proc[p].has EXCEPT !.hosts = proc[p].ask.hosts, !.from = now]
  <1>2. /\ leaf \in ServerCertificate /\ leaf.key = proc[p].has.key
        /\ leaf.signer = proc[p].has.signer /\ leaf.hosts = proc[p].ask.hosts
    BY <1>t, <1>1 DEF ServerCertificate
  <1>3. Moves(p) /\ UNCHANGED files /\ proc'[p].pc = "rename" /\ proc'[p].has = leaf
    <2>1. proc' = [proc EXCEPT ![p].pc = "rename", ![p].has = leaf] /\ UNCHANGED files
      BY DEF SignCertificate, OnlyReads
    <2>2. leaf \in Carried
      BY <1>2, Carries
    <2> HIDE DEF leaf
    <2>3. [proc[p] EXCEPT !.pc = "rename", !.has = leaf] \in ProcState
      <3>1. proc[p] \in ProcState /\ "rename" \in PCs
        BY <1>t DEF PCs
      <3>2. QED
        BY <2>2, <3>1 DEF ProcState
    <2>4. proc' = [proc EXCEPT ![p] = [proc[p] EXCEPT !.pc = "rename", !.has = leaf]]
      BY <1>t, <2>1 DEF ProcState
    <2>5. proc'[p] = [proc[p] EXCEPT !.pc = "rename", !.has = leaf]
      BY <1>t, <2>4
    <2>6. /\ proc'[p].pc = "rename" /\ proc'[p].has = leaf /\ proc'[p].ask = proc[p].ask
          /\ proc'[p].raced = proc[p].raced
      BY <1>t, <2>5 DEF ProcState
    <2>7. QED
      BY <1>t, <2>1, <2>3, <2>4, <2>6 DEF Moves
  <1>4. QED
    BY <1>2, <1>3

LEMMA LoadKeyFields ==
    ASSUME HostTypes, NEW p \in Commands, LoadCredentialKey(p)
    PROVE  /\ Moves(p) /\ UNCHANGED files
           /\ proc'[p].pc = "listen" /\ proc'[p].secret = files[TLS(CredentialKey)]
  <1>t. proc \in [Commands -> ProcState]
    BY DEF HostTypes
  <1>1. /\ UNCHANGED files
        /\ proc' = [proc EXCEPT ![p].pc = "listen", ![p].secret = files[TLS(CredentialKey)]]
    BY DEF LoadCredentialKey, OnlyReads
  <1>2. files[TLS(CredentialKey)] \in Value /\ "listen" \in PCs
    BY LocalFiles DEF PCs
  <1>3. QED
    BY <1>t, <1>1, <1>2, MoveKnowing

LEMMA ListenFields ==
    ASSUME HostTypes, NEW p \in Commands, Listen(p)
    PROVE  /\ Moves(p) /\ UNCHANGED files
           /\ proc'[p].pc = "serving" /\ proc'[p].secret = proc[p].secret
           /\ proc'[p].has = files[TLS("server.crt")]
  <1>t. proc \in [Commands -> ProcState]
    BY DEF HostTypes
  <1>1. /\ UNCHANGED files
        /\ proc' = [proc EXCEPT ![p].pc = "serving", ![p].has = files[TLS("server.crt")]]
    BY DEF Listen, OnlyReads
  <1>2. files[TLS("server.crt")] \in Carried /\ "serving" \in PCs
    BY LocalFiles, Carries DEF PCs
  <1>3. QED
    BY <1>t, <1>1, <1>2, MoveHaving

\* The steps of ensure and ensureCredentialKey that write a file.
LEMMA CreateFields ==
    ASSUME HostTypes, NEW p \in Commands, CreateIdentityFile(p)
    PROVE  /\ Moves(p) /\ proc'[p].pc = "encode" /\ proc'[p].has = proc[p].has
           /\ proc'[p].at = proc[p].at
           /\ files' = [files EXCEPT ![TLS(IdentityFiles[proc[p].at + 1])] = Created]
           /\ files[TLS(IdentityFiles[proc[p].at + 1])] = Absent
           /\ proc[p].pc = "create" /\ proc[p].at \in 0 .. 3
  <1>t. proc \in [Commands -> ProcState]
    BY DEF HostTypes
  <1>1. proc[p].pc = "create" /\ proc[p].at \in 0 .. 3
    BY <1>t, IdentityNames DEF CreateIdentityFile, ProcState
  <1>2. proc' = [proc EXCEPT ![p].pc = "encode"] /\ "encode" \in PCs
    BY DEF CreateIdentityFile, PCs
  <1>3. /\ Moves(p) /\ proc'[p].pc = "encode" /\ proc'[p].has = proc[p].has
        /\ proc'[p].at = proc[p].at
    BY <1>t, <1>2 DEF ProcState, Moves
  <1>4. QED
    BY <1>1, <1>3 DEF CreateIdentityFile, CreateExclusive

LEMMA WriteFields ==
    ASSUME HostTypes, NEW p \in Commands, WriteIdentityFile(p)
    PROVE  /\ Moves(p) /\ proc'[p].pc = "create" /\ proc'[p].has = proc[p].has
           /\ proc'[p].at = proc[p].at + 1
           /\ files' = [files EXCEPT ![TLS(IdentityFiles[proc[p].at + 1])] =
                           proc[p].has[IdentityFiles[proc[p].at + 1]]]
           /\ proc[p].pc = "encode"
  <1>t. proc \in [Commands -> ProcState]
    BY DEF HostTypes
  <1>1. proc' = [proc EXCEPT ![p].pc = "create", ![p].at = @ + 1] /\ "create" \in PCs
    BY DEF WriteIdentityFile, PCs
  <1>2. proc[p].at + 1 \in Nat
    BY <1>t DEF ProcState
  <1>3. /\ Moves(p) /\ proc'[p].pc = "create" /\ proc'[p].has = proc[p].has
        /\ proc'[p].at = proc[p].at + 1
    BY <1>t, <1>1, <1>2 DEF ProcState, Moves
  <1>4. QED
    BY <1>3 DEF WriteIdentityFile, WriteFile

LEMMA EnsuredTypes ==
    ASSUME HostTypes, NEW p \in Commands, proc[p].pc \in {"create", "authority", "rename"}
    PROVE  /\ Ensured(p) \in PCs /\ Ensured(p) \in {"keystat", "initialized"}
           /\ Ensured(p) = "keystat" => proc[p].ask.op = "serve"
           /\ Ensured(p) = "initialized" => proc[p].ask.op = "init"
           /\ proc[p].ask.hosts \in SUBSET Hosts
  <1>1. proc[p].ask.op \in {"serve", "init"} /\ proc[p].ask \in Asked /\ proc[p].ask # NoAsk
    BY DEF HostTypes, OperationInv, ProcState
  <1>2. proc[p].ask.hosts \in SUBSET Hosts
    BY <1>1, AskTypes DEF Asked
  <1>3. QED
    BY <1>1, <1>2 DEF Ensured, PCs

LEMMA MovedState ==
    ASSUME NEW r \in ProcState, NEW label \in PCs
    PROVE  LET moved == [r EXCEPT !.pc = label, !.at = 0] IN
           /\ moved \in ProcState /\ moved.pc = label /\ moved.ask = r.ask
           /\ moved.has = r.has /\ moved.raced = r.raced
  BY DEF ProcState

LEMMA ReplaceFields ==
    ASSUME HostTypes, NEW p \in Commands, ReplaceCertificate(p)
    PROVE  /\ proc' \in [Commands -> ProcState]
           /\ proc'[p].pc = Ensured(p) /\ proc'[p].ask = proc[p].ask
           /\ proc'[p].has = proc[p].has
           /\ proc'[p].raced = proc[p].raced
           /\ \A q \in Commands \ {p} :
                 /\ proc'[q].pc = proc[q].pc /\ proc'[q].ask = proc[q].ask
                 /\ proc'[q].has = proc[q].has /\ proc'[q].at = proc[q].at
                 /\ proc'[q].secret = proc[q].secret /\ proc'[q].seen = proc[q].seen
                 /\ proc'[q].raced = (proc[q].raced \/ proc[q].pc # "idle")
           /\ files' = [files EXCEPT ![TLS("server.crt")] = proc[p].has]
           /\ proc[p].pc = "rename"
  <1>t. proc \in [Commands -> ProcState]
    BY DEF HostTypes
  <1>1. proc' = [q \in Commands |->
                   IF q = p THEN [proc[p] EXCEPT !.pc = Ensured(p), !.at = 0]
                   ELSE [proc[q] EXCEPT !.raced = @ \/ proc[q].pc # "idle"]]
    BY DEF ReplaceCertificate
  <1>2. Ensured(p) \in PCs
    BY EnsuredTypes DEF ReplaceCertificate
  <1>3. ASSUME NEW q \in Commands, q # p
        PROVE  /\ proc'[q] \in ProcState
               /\ proc'[q].pc = proc[q].pc /\ proc'[q].ask = proc[q].ask
               /\ proc'[q].has = proc[q].has /\ proc'[q].at = proc[q].at
               /\ proc'[q].secret = proc[q].secret /\ proc'[q].seen = proc[q].seen
               /\ proc'[q].raced = (proc[q].raced \/ proc[q].pc # "idle")
    <2>1. (proc[q].raced \/ proc[q].pc # "idle") \in BOOLEAN
      BY <1>t DEF ProcState
    <2>2. proc'[q] = [proc[q] EXCEPT !.raced = @ \/ proc[q].pc # "idle"] /\ proc[q] \in ProcState
      BY <1>t, <1>1, <1>3
    <2>3. QED
      BY <2>1, <2>2 DEF ProcState
  <1>4. /\ proc'[p] \in ProcState /\ proc'[p].pc = Ensured(p) /\ proc'[p].ask = proc[p].ask
        /\ proc'[p].has = proc[p].has /\ proc'[p].raced = proc[p].raced
    <2>1. proc'[p] = [proc[p] EXCEPT !.pc = Ensured(p), !.at = 0] /\ proc[p] \in ProcState
      BY <1>t, <1>1
    <2> DEFINE label == Ensured(p)
               moved == [proc[p] EXCEPT !.pc = label, !.at = 0]
    <2>2. proc'[p] = moved /\ label \in PCs
      BY <1>2, <2>1
    <2> HIDE DEF label
    <2>3. /\ moved \in ProcState /\ moved.pc = label /\ moved.ask = proc[p].ask
          /\ moved.has = proc[p].has /\ moved.raced = proc[p].raced
      BY <2>1, <2>2, MovedState
    <2> HIDE DEF moved
    <2>4. QED
      BY <2>2, <2>3 DEF label
  <1>5. proc' \in [Commands -> ProcState]
    BY <1>1, <1>3, <1>4
  <1>6. QED
    BY <1>3, <1>4, <1>5 DEF ReplaceCertificate, WriteFile

-----------------------------------------------------------------------------
(* What leaves the identity and the credential key alone.                  *)

LocalNames == Range(IdentityFiles) \cup {CredentialKey}
LocalSame == \A name \in LocalNames : files'[TLS(name)] = files[TLS(name)]

\* The steps at which something is known of the identity or the key.
LocalPCs == {"create", "encode", "authority", "rename", "initialized", "keystat", "keycreate",
             "keywrite", "keyload", "listen", "serving"}
LocalStays == \A q \in Commands : proc'[q] = proc[q] \/ proc'[q].pc \notin LocalPCs

LEMMA TargetIsElsewhere ==
    ASSUME HostTypes, NEW p \in Commands, proc[p].pc \in {"next", "copy"}, NEW name \in LocalNames
    PROVE  Target(p) # TLS(name)
  <1>1. proc[p].ask \in Ask /\ proc[p].ask.op = "restore"
    BY HostConstants DEF HostTypes, OperationInv, ProcState, Asked
  <1>2. proc[p].ask.root \in Roots
    BY <1>1, AskTypes
  <1>3. QED
    BY <1>2, PathsDiffer DEF Target

LEMMA LocalPathTypes ==
    ASSUME HostTypes
    PROVE  \A name \in LocalNames : TLS(name) \in Paths /\ TLS(name) \in DOMAIN files
  BY PathTypes DEF LocalNames, HostTypes

LEMMA ExitLocal ==
    ASSUME HostTypes, NEW p \in Commands, Exit(p)
    PROVE  LocalSame /\ LocalStays
  <1>t. proc \in [Commands -> ProcState] /\ files \in [Paths -> Value]
    BY DEF HostTypes
  <1>1. LocalSame
    BY <1>t, PathsDiffer, LocalPathTypes DEF Exit, Output, LocalSame
  <1>2. ASSUME NEW q \in Commands
        PROVE  proc'[q] = proc[q] \/ proc'[q].pc \notin LocalPCs
    <2>1. CASE q = p
      <3>1. proc'[q].pc = "idle"
        BY <2>1, IdleTypes DEF Exit
      <3>2. QED
        BY <3>1 DEF LocalPCs
    <2>2. CASE q # p /\ BackingUp(p) /\ Opened(q, Output(p))
      <3>1. proc'[q] = [proc[q] EXCEPT !.has = files[Output(p)]] /\ proc[q] \in ProcState
        BY <1>t, <2>2 DEF Exit
      <3>2. proc'[q].pc \in {"next", "copy"}
        BY <2>2, <3>1 DEF Opened, ProcState
      <3>3. QED
        BY <3>2 DEF LocalPCs
    <2>3. CASE q # p /\ ~(BackingUp(p) /\ Opened(q, Output(p)))
      BY <2>3 DEF Exit
    <2>4. QED
      BY <2>1, <2>2, <2>3
  <1>3. QED
    BY <1>1, <1>2 DEF LocalStays

LEMMA BackupLocal ==
    ASSUME HostTypes, NEW p \in Commands,
           StatOutput(p) \/ CreateOutput(p) \/ WriteEntry(p) \/ CloseOutput(p)
    PROVE  LocalSame /\ LocalStays
  <1>t. proc \in [Commands -> ProcState] /\ files \in [Paths -> Value]
    BY DEF HostTypes
  <1>1. LocalSame
    BY <1>t, PathsDiffer, LocalPathTypes
    DEF StatOutput, CreateOutput, WriteEntry, CloseOutput, OnlyReads, WriteFile, Output, LocalSame
  <1>2. ASSUME NEW q \in Commands
        PROVE  proc'[q] = proc[q] \/ proc'[q].pc \in {"idle", "open", "archive"}
    <2>1. CASE StatOutput(p) \/ CreateOutput(p)
      BY <1>t, <2>1 DEF StatOutput, CreateOutput, Goto, ProcState
    <2>2. CASE WriteEntry(p)
      <3>1. proc' = [proc EXCEPT ![p].at = @ + 1] /\ proc[p].pc = "archive"
        BY <2>2 DEF WriteEntry, Advance, BackingUp
      <3>2. QED
        BY <1>t, <3>1 DEF ProcState
    <2>3. CASE CloseOutput(p)
      BY <1>t, <2>3, IdleTypes DEF CloseOutput
    <2>4. QED
      BY <2>1, <2>2, <2>3
  <1>3. QED
    BY <1>1, <1>2 DEF LocalStays, LocalPCs

LEMMA RestoreLocal ==
    ASSUME HostTypes, NEW p \in Commands,
           \/ StatTarget(p) \/ OpenArchive(p) \/ ReadManifest(p) \/ CreateTarget(p)
           \/ CopyEntry(p) \/ FinishRestore(p)
    PROVE  LocalSame /\ LocalStays
  <1>t. proc \in [Commands -> ProcState] /\ files \in [Paths -> Value]
    BY DEF HostTypes
  <1>1. LocalSame
    <2>1. CASE CreateTarget(p) \/ CopyEntry(p)
      <3>1. PICK value : files' = [files EXCEPT ![Target(p)] = value]
        BY <2>1 DEF CreateTarget, CopyEntry, CreateExclusive, WriteFile
      <3>2. \A name \in LocalNames : Target(p) # TLS(name)
        BY <2>1, TargetIsElsewhere DEF CreateTarget, CopyEntry, HasNext
      <3>3. QED
        BY <1>t, <3>1, <3>2, LocalPathTypes DEF LocalSame
    <2>2. CASE StatTarget(p) \/ OpenArchive(p) \/ ReadManifest(p) \/ FinishRestore(p)
      BY <2>2 DEF StatTarget, OpenArchive, ReadManifest, FinishRestore, OnlyReads, LocalSame
    <2>3. QED
      BY <2>1, <2>2
  <1>2. ASSUME NEW q \in Commands
        PROVE  proc'[q] = proc[q] \/ proc'[q].pc \in {"settings", "next", "copy", "restored"}
    <2>1. CASE StatTarget(p) \/ OpenArchive(p) \/ FinishRestore(p)
      BY <1>t, <2>1 DEF StatTarget, OpenArchive, FinishRestore, Goto, ProcState
    <2>2. CASE ReadManifest(p)
      BY <1>t, <2>2 DEF ReadManifest, HasNext, ProcState
    <2>3. CASE CreateTarget(p)
      BY <1>t, <2>3 DEF CreateTarget, ProcState
    <2>4. CASE CopyEntry(p)
      BY <1>t, <2>4 DEF CopyEntry, ProcState
    <2>5. QED
      BY <2>1, <2>2, <2>3, <2>4
  <1>3. QED
    BY <1>1, <1>2 DEF LocalStays, LocalPCs

LEMMA OtherLocal ==
    ASSUME HostTypes,
           \/ \E p \in Commands : Run(p) \/ Stop(p) \/ CommandDies(p)
           \/ StoreBlob \/ RecordBlob \/ Tick \/ UNCHANGED vars
    PROVE  LocalSame /\ LocalStays
  <1>t. proc \in [Commands -> ProcState]
    BY DEF HostTypes
  <1>1. LocalSame
    BY DEF Run, Stop, CommandDies, StoreBlob, RecordBlob, Tick, vars, OnlyReads, LocalSame
  <1>2. ASSUME NEW p \in Commands, NEW q \in Commands, Run(p)
        PROVE  proc'[q] = proc[q] \/ proc'[q].pc \notin LocalPCs
    <2>1. PICK ask \in workload.asks :
             proc' = [proc EXCEPT ![p] = [Idle EXCEPT !.pc = FirstStep(ask.op), !.ask = ask]]
      BY <1>2 DEF Run
    <2>2. ask.op \in {"serve", "init", "backup", "restore"}
      BY AskTypes, HostConstants DEF HostTypes
    <2>3. FirstStep(ask.op) \in {"stat", "output", "target"}
      BY <2>2 DEF FirstStep
    <2>4. CASE q = p
      <3>1. proc'[q].pc = FirstStep(ask.op)
        BY <1>t, <2>1, <2>4, IdleTypes DEF ProcState
      <3>2. QED
        BY <2>3, <3>1 DEF LocalPCs
    <2>5. CASE q # p
      BY <2>1, <2>5
    <2>6. QED
      BY <2>4, <2>5
  <1>3. ASSUME NEW p \in Commands, NEW q \in Commands, Stop(p) \/ CommandDies(p)
        PROVE  proc'[q] = proc[q] \/ proc'[q].pc \notin LocalPCs
    <2>1. proc'[q] = proc[q] \/ proc'[q] = Idle
      BY <1>t, <1>3 DEF Stop, CommandDies
    <2>2. QED
      BY <2>1, IdleTypes DEF LocalPCs
  <1>4. QED
    BY <1>1, <1>2, <1>3 DEF StoreBlob, RecordBlob, Tick, vars, LocalStays

-----------------------------------------------------------------------------
(* The identity and the credential key.                                    *)

File(i) == files[TLS(IdentityFiles[i])]
Whole(i) == Written(TLS(IdentityFiles[i]))
KeyFile == files[TLS(CredentialKey)]

\* The files are made in their order, and belong together.
IdentityInv ==
    /\ \A i, j \in 1 .. 4 : i < j /\ File(j) # Absent => Whole(i)
    /\ Whole(3) => File(3) \in ServerCertificate
    /\ Whole(1) /\ Whole(2) => File(1).key = File(2)
    /\ Whole(3) /\ Whole(4) => File(3).key = File(4)
    /\ Whole(1) /\ Whole(3) => File(3).signer = File(1).key

\* A command that has made one of the files; there is one at a time.
Making(q) == proc[q].pc = "encode" \/ (proc[q].pc = "create" /\ proc[q].at > 0)

\* The identity a command makes, and how far it has come with it.
MakingInv(q) ==
    LET has == proc[q].has IN
    /\ proc[q].pc \in {"create", "encode"} =>
          /\ proc[q].at \in 0 .. 4 /\ (proc[q].pc = "encode" => proc[q].at < 4)
          /\ has["ca.crt"] \in CACertificate /\ has["ca.key"] \in Nat
          /\ has["server.crt"] \in ServerCertificate /\ has["server.key"] \in Nat
          /\ has["ca.crt"].key = has["ca.key"] /\ has["server.crt"].key = has["server.key"]
          /\ has["server.crt"].signer = has["ca.key"]
          /\ has["server.crt"].hosts = proc[q].ask.hosts
    /\ Making(q) =>
          /\ \A i \in 1 .. proc[q].at : Whole(i) /\ (i # 3 => File(i) = has[IdentityFiles[i]])
          /\ proc[q].at > 2 =>
                /\ File(3).key = has["server.crt"].key /\ File(3).signer = has["server.crt"].signer
                /\ ~proc[q].raced => File(3).hosts = proc[q].ask.hosts
          /\ proc[q].pc = "encode" => File(proc[q].at + 1) = Created
          /\ \A i \in 1 .. 4 : i > proc[q].at + 1 => File(i) = Absent
          /\ proc[q].pc = "create" /\ proc[q].at < 4 => File(proc[q].at + 1) = Absent

\* A command past its look at the identity, which is whole.
Settled == {"authority", "rename", "initialized", "keystat", "keycreate", "keywrite", "keyload",
            "listen", "serving"}
SettledInv(q) ==
    /\ proc[q].pc \in Settled => \A i \in 1 .. 4 : Whole(i)
    /\ proc[q].pc \in {"authority", "rename", "serving"} =>
          /\ proc[q].has \in ServerCertificate
          /\ proc[q].has.key = File(3).key /\ proc[q].has.signer = File(3).signer
    /\ proc[q].pc = "authority" /\ ~proc[q].raced => proc[q].has.hosts = File(3).hosts
    /\ proc[q].pc = "rename" => proc[q].has.hosts = proc[q].ask.hosts
    /\ proc[q].pc \in Settled \ {"authority", "rename"} /\ ~proc[q].raced =>
          /\ proc[q].ask.hosts \subseteq File(3).hosts
          /\ proc[q].ask.op = "init" => File(3).hosts = proc[q].ask.hosts
    /\ proc[q].pc = "serving" /\ ~proc[q].raced => proc[q].ask.hosts \subseteq proc[q].has.hosts

\* A command that makes the credential key, or has loaded it.
KeyInv(q) ==
    /\ proc[q].pc = "keywrite" => KeyFile = Created
    /\ proc[q].pc \in {"listen", "serving"} =>
          KeyFile \notin {Absent, Created} /\ proc[q].secret = KeyFile

CommandInv(q) == MakingInv(q) /\ SettledInv(q) /\ KeyInv(q)

LocalInv ==
    /\ IdentityInv
    /\ \A q \in Commands : CommandInv(q)
    /\ \A q, r \in Commands : Making(q) /\ Making(r) => q = r
    /\ \A q, r \in Commands : proc[q].pc = "keywrite" /\ proc[r].pc = "keywrite" => q = r

LEMMA SameFiles ==
    ASSUME LocalSame
    PROVE  /\ \A i \in 1 .. 4 : File(i)' = File(i) /\ Whole(i)' = Whole(i)
           /\ KeyFile' = KeyFile
  <1>1. \A i \in 1 .. 4 : IdentityFiles[i] \in LocalNames
    BY NamesDiffer DEF LocalNames
  <1>2. QED
    BY <1>1 DEF LocalSame, LocalNames, File, Whole, Written, KeyFile

\* Nothing is known of a command at another step.
LEMMA OutsideInv ==
    ASSUME NEW q \in Commands, proc[q].pc \notin LocalPCs
    PROVE  CommandInv(q) /\ ~Making(q) /\ proc[q].pc # "keywrite"
  BY DEF LocalPCs, CommandInv, MakingInv, SettledInv, KeyInv, Settled, Making

\* What is known of a command that stays, while the files do.
LEMMA CommandStays ==
    ASSUME LocalInv, LocalSame, NEW q \in Commands, proc'[q] = proc[q]
    PROVE  CommandInv(q)' /\ Making(q)' = Making(q)
  <1>1. CommandInv(q)
    BY DEF LocalInv
  <1>2. MakingInv(q)'
    <2>1. MakingInv(q)
      BY <1>1 DEF CommandInv
    <2>2. proc[q].pc \in {"create", "encode"} => proc[q].at \in 0 .. 4
      BY <2>1 DEF MakingInv
    <2>3. Making(q)' = Making(q)
      BY DEF Making
    <2>4. QED
      BY <2>1, <2>2, <2>3, SameFiles DEF MakingInv, Making
  <1>3. SettledInv(q)'
    BY <1>1, SameFiles DEF CommandInv, SettledInv
  <1>4. KeyInv(q)'
    BY <1>1, SameFiles DEF CommandInv, KeyInv
  <1>5. QED
    BY <1>2, <1>3, <1>4 DEF CommandInv, Making

LEMMA LocalInvStays ==
    ASSUME LocalInv, LocalSame, LocalStays
    PROVE  LocalInv'
  <1>1. IdentityInv'
    BY SameFiles DEF LocalInv, IdentityInv
  <1>2. ASSUME NEW q \in Commands
        PROVE  /\ CommandInv(q)'
               /\ Making(q)' => Making(q)
               /\ proc'[q].pc = "keywrite" => proc[q].pc = "keywrite"
    <2>1. CASE proc'[q] = proc[q]
      BY <2>1, CommandStays
    <2>2. CASE proc'[q].pc \notin LocalPCs
      BY <2>2 DEF LocalPCs, CommandInv, MakingInv, SettledInv, KeyInv, Settled, Making
    <2>3. QED
      BY <2>1, <2>2 DEF LocalStays
  <1>3. QED
    BY <1>1, <1>2 DEF LocalInv

LEMMA MoverKeepsLocal ==
    ASSUME LocalInv, UNCHANGED files, NEW p \in Commands, Moves(p), CommandInv(p)',
           Making(p)' => Making(p), proc'[p].pc = "keywrite" => proc[p].pc = "keywrite"
    PROVE  LocalInv'
  <1>1. LocalSame
    BY DEF LocalSame
  <1>2. IdentityInv'
    BY <1>1, SameFiles DEF LocalInv, IdentityInv
  <1>3. ASSUME NEW q \in Commands
        PROVE  /\ CommandInv(q)'
               /\ Making(q)' => Making(q)
               /\ proc'[q].pc = "keywrite" => proc[q].pc = "keywrite"
    BY <1>1, CommandStays DEF Moves
  <1>4. QED
    BY <1>2, <1>3 DEF LocalInv

LEMMA FileNames ==
    /\ File(1) = files[TLS("ca.crt")] /\ File(2) = files[TLS("ca.key")]
    /\ File(3) = files[TLS("server.crt")] /\ File(4) = files[TLS("server.key")]
    /\ Whole(1) = Written(TLS("ca.crt")) /\ Whole(2) = Written(TLS("ca.key"))
    /\ Whole(3) = Written(TLS("server.crt")) /\ Whole(4) = Written(TLS("server.key"))
    /\ \A i \in 1 .. 4 : Whole(i) = (File(i) \notin {Absent, Created})
  BY IdentityNames DEF File, Whole, Written

LEMMA GenerateLocal ==
    ASSUME HostTypes, LocalInv, NEW p \in Commands, GenerateIdentity(p)
    PROVE  LocalInv'
  <1>1. /\ Moves(p) /\ UNCHANGED files
        /\ proc'[p].pc = "create" /\ proc'[p].at = 0
        /\ proc'[p].has = NewIdentity(proc[p].ask.hosts)
        /\ proc[p].ask.hosts \in SUBSET Hosts
    BY GenerateFields
  <1>2. LET has == proc'[p].has IN
        /\ has["ca.crt"] \in CACertificate /\ has["ca.key"] \in Nat
        /\ has["server.crt"] \in ServerCertificate /\ has["server.key"] \in Nat
        /\ has["ca.crt"].key = has["ca.key"] /\ has["server.crt"].key = has["server.key"]
        /\ has["server.crt"].signer = has["ca.key"]
        /\ has["server.crt"].hosts = proc'[p].ask.hosts
    BY <1>1, IdentityTypes DEF Moves
  <1>3. ~Making(p)' /\ MakingInv(p)'
    BY <1>1, <1>2 DEF Making, MakingInv
  <1>4. SettledInv(p)' /\ KeyInv(p)'
    BY <1>1 DEF SettledInv, Settled, KeyInv
  <1>5. QED
    BY <1>1, <1>3, <1>4, MoverKeepsLocal DEF CommandInv

LEMMA LoadLocal ==
    ASSUME HostTypes, LocalInv, NEW p \in Commands, LoadServerPair(p)
    PROVE  LocalInv'
  <1>1. /\ Moves(p) /\ UNCHANGED files
        /\ proc'[p].pc = "authority" /\ proc'[p].has = File(3)
    BY LoadFields, FileNames
  <1>2. \A i \in 1 .. 4 : Whole(i)
    <2>1. Whole(3) /\ Whole(4)
      BY FileNames DEF LoadServerPair, Loads
    <2>2. File(4) # Absent
      BY <2>1 DEF Whole, Written, File
    <2>3. \A i \in 1 .. 3 : Whole(i)
      BY <2>2 DEF LocalInv, IdentityInv
    <2>4. QED
      BY <2>1, <2>3
  <1>3. File(3) \in ServerCertificate
    BY <1>2 DEF LocalInv, IdentityInv
  <1>4. LocalSame
    BY <1>1 DEF LocalSame
  <1>5. SettledInv(p)'
    BY <1>1, <1>2, <1>3, <1>4, SameFiles DEF SettledInv, Settled
  <1>6. MakingInv(p)' /\ KeyInv(p)' /\ ~Making(p)'
    BY <1>1 DEF Making, MakingInv, KeyInv
  <1>7. QED
    BY <1>1, <1>5, <1>6, MoverKeepsLocal DEF CommandInv

LEMMA SignLocal ==
    ASSUME HostTypes, LocalInv, NEW p \in Commands, SignCertificate(p)
    PROVE  LocalInv'
  <1>0. SettledInv(p) /\ proc[p].pc = "authority"
    BY DEF LocalInv, CommandInv, SignCertificate
  <1>1. /\ proc[p].has \in ServerCertificate /\ \A i \in 1 .. 4 : Whole(i)
        /\ proc[p].has.key = File(3).key /\ proc[p].has.signer = File(3).signer
    BY <1>0 DEF SettledInv, Settled
  <1>2. /\ Moves(p) /\ UNCHANGED files /\ proc'[p].pc = "rename"
        /\ proc'[p].has \in ServerCertificate
        /\ proc'[p].has.key = proc[p].has.key /\ proc'[p].has.signer = proc[p].has.signer
        /\ proc'[p].has.hosts = proc[p].ask.hosts
    BY <1>1, SignFields
  <1>3. LocalSame
    BY <1>2 DEF LocalSame
  <1>4. SettledInv(p)'
    BY <1>1, <1>2, <1>3, SameFiles DEF SettledInv, Settled, Moves
  <1>5. MakingInv(p)' /\ KeyInv(p)' /\ ~Making(p)'
    BY <1>2 DEF Making, MakingInv, KeyInv
  <1>6. QED
    BY <1>2, <1>4, <1>5, MoverKeepsLocal DEF CommandInv

\* A certificate that is kept covers the hosts, and for tls init no others.
LEMMA CoversExactly ==
    ASSUME NEW leaf \in ServerCertificate, NEW ask, ask.hosts \in SUBSET Hosts, Covers(leaf, ask)
    PROVE  /\ ask.hosts \subseteq leaf.hosts
           /\ ask.op = "init" => leaf.hosts = ask.hosts
  <1>1. leaf.hosts \in SUBSET Hosts
    BY DEF ServerCertificate
  <1>2. IsFiniteSet(leaf.hosts) /\ IsFiniteSet(ask.hosts)
    BY <1>1, HostConstants, FS_Subset
  <1>3. ask.hosts \subseteq leaf.hosts
    BY DEF Covers
  <1>4. ASSUME ask.op = "init"
        PROVE  leaf.hosts = ask.hosts
    <2>1. Cardinality(leaf.hosts) = Cardinality(ask.hosts)
      BY <1>4 DEF Covers
    <2>2. QED
      BY <1>2, <1>3, <2>1, FS_Subset
  <1>5. QED
    BY <1>3, <1>4

LEMMA EnsuredLocal ==
    ASSUME HostTypes, LocalInv, NEW p \in Commands, KeepCertificate(p) \/ IdentityGenerated(p)
    PROVE  LocalInv'
  <1>t. proc \in [Commands -> ProcState] /\ SettledInv(p) /\ MakingInv(p)
    BY DEF HostTypes, LocalInv, CommandInv
  <1>0. proc[p].pc \in {"create", "authority"} /\ UNCHANGED files /\ Goto(p, Ensured(p))
    BY DEF KeepCertificate, IdentityGenerated, Generated, OnlyReads
  <1>1. /\ Ensured(p) \in PCs /\ Ensured(p) \in {"keystat", "initialized"}
        /\ proc[p].ask.hosts \in SUBSET Hosts
    BY <1>0, EnsuredTypes
  <1>2. Moves(p) /\ proc'[p].pc = Ensured(p)
    BY <1>t, <1>0, <1>1, GotoFields DEF Moves
  <1>3. /\ \A i \in 1 .. 4 : Whole(i)
        /\ ~proc[p].raced => /\ proc[p].ask.hosts \subseteq File(3).hosts
                             /\ proc[p].ask.op = "init" => File(3).hosts = proc[p].ask.hosts
    <2>1. CASE KeepCertificate(p)
      <3>1. /\ proc[p].pc = "authority" /\ proc[p].has \in ServerCertificate
            /\ \A i \in 1 .. 4 : Whole(i)
            /\ ~proc[p].raced => proc[p].has.hosts = File(3).hosts
        BY <1>t, <2>1 DEF KeepCertificate, SettledInv, Settled
      <3>2. Covers(proc[p].has, proc[p].ask)
        BY <2>1 DEF KeepCertificate
      <3>3. /\ proc[p].ask.hosts \subseteq proc[p].has.hosts
            /\ proc[p].ask.op = "init" => proc[p].has.hosts = proc[p].ask.hosts
        BY <1>1, <3>1, <3>2, CoversExactly
      <3>4. QED
        BY <3>1, <3>3
    <2>2. CASE IdentityGenerated(p)
      <3>1. proc[p].pc = "create" /\ proc[p].at = 4 /\ Making(p)
        BY <2>2, IdentityNames DEF IdentityGenerated, Generated, Making
      <3>2. QED
        BY <1>t, <3>1 DEF MakingInv
    <2>3. QED
      BY <2>1, <2>2
  <1>4. LocalSame
    BY <1>0 DEF LocalSame
  <1>5. SettledInv(p)'
    BY <1>1, <1>2, <1>3, <1>4, SameFiles DEF SettledInv, Settled, Moves
  <1>6. MakingInv(p)' /\ KeyInv(p)' /\ ~Making(p)' /\ proc'[p].pc # "keywrite"
    BY <1>1, <1>2 DEF Making, MakingInv, KeyInv
  <1>7. QED
    BY <1>0, <1>2, <1>5, <1>6, MoverKeepsLocal DEF CommandInv

LEMMA KeyStepsLocal ==
    ASSUME HostTypes, LocalInv, NEW p \in Commands,
           StatCredentialKey(p) \/ LoadCredentialKey(p) \/ Listen(p)
    PROVE  LocalInv'
  <1>t. proc \in [Commands -> ProcState] /\ SettledInv(p) /\ KeyInv(p) /\ IdentityInv
    BY DEF HostTypes, LocalInv, CommandInv
  <1>1. /\ Moves(p) /\ UNCHANGED files
        /\ proc[p].pc \in {"keystat", "keyload", "listen"}
        /\ proc'[p].pc \in {"keyload", "keycreate", "listen", "serving"}
        /\ proc'[p].pc = "listen" => proc'[p].secret = KeyFile /\ KeyFile \notin {Absent, Created}
        /\ proc'[p].pc = "serving" =>
              /\ proc'[p].secret = proc[p].secret /\ proc'[p].has = File(3)
              /\ proc[p].pc = "listen"
    <2>1. CASE StatCredentialKey(p)
      <3>1. PICK label \in {"keyload", "keycreate"} : Goto(p, label)
        BY <2>1 DEF StatCredentialKey
      <3>2. Moves(p) /\ proc'[p].pc = label
        BY <1>t, <3>1, GotoFields, Labels DEF Moves
      <3>3. QED
        BY <2>1, <3>2 DEF StatCredentialKey, OnlyReads
    <2>2. CASE LoadCredentialKey(p)
      BY <2>2, LoadKeyFields DEF LoadCredentialKey, KeyFile, Written
    <2>3. CASE Listen(p)
      BY <2>3, ListenFields, FileNames DEF Listen
    <2>4. QED
      BY <2>1, <2>2, <2>3
  <1>2. LocalSame
    BY <1>1 DEF LocalSame
  <1>3. /\ \A i \in 1 .. 4 : Whole(i)
        /\ ~proc[p].raced => /\ proc[p].ask.hosts \subseteq File(3).hosts
                             /\ proc[p].ask.op = "init" => File(3).hosts = proc[p].ask.hosts
    BY <1>t, <1>1 DEF SettledInv, Settled
  <1>4. File(3) \in ServerCertificate
    BY <1>t, <1>3 DEF IdentityInv
  <1>5. SettledInv(p)'
    BY <1>1, <1>2, <1>3, <1>4, SameFiles DEF SettledInv, Settled, Moves
  <1>6. KeyInv(p)'
    BY <1>t, <1>1, <1>2, SameFiles DEF KeyInv
  <1>7. MakingInv(p)' /\ ~Making(p)' /\ proc'[p].pc # "keywrite"
    BY <1>1 DEF Making, MakingInv
  <1>8. QED
    BY <1>1, <1>5, <1>6, <1>7, MoverKeepsLocal DEF CommandInv

LEMMA StatLocal ==
    ASSUME HostTypes, LocalInv, NEW p \in Commands, StatIdentity(p)
    PROVE  LocalInv'
  <1>1. Moves(p) /\ UNCHANGED files /\ proc'[p].pc = "stat"
    BY StatFields
  <1>2. CommandInv(p)' /\ ~Making(p)' /\ proc'[p].pc # "keywrite"
    BY <1>1 DEF CommandInv, MakingInv, SettledInv, KeyInv, Settled, Making
  <1>3. QED
    BY <1>1, <1>2, MoverKeepsLocal

\* The credential key is made and written by one command.
LEMMA CreateKeyLocal ==
    ASSUME HostTypes, LocalInv, NEW p \in Commands, CreateCredentialKey(p) \/ WriteCredentialKey(p)
    PROVE  LocalInv'
  <1>t. proc \in [Commands -> ProcState] /\ files \in [Paths -> Value] /\ keys \in Nat
        /\ TLS(CredentialKey) \in Paths /\ SettledInv(p) /\ KeyInv(p)
    BY PathTypes DEF HostTypes, LocalInv, CommandInv
  <1>1. PICK value \in {Created, keys + 1} : files' = [files EXCEPT ![TLS(CredentialKey)] = value]
    BY DEF CreateCredentialKey, WriteCredentialKey, CreateExclusive, WriteFile
  <1>2. \A i \in 1 .. 4 : File(i)' = File(i) /\ Whole(i)' = Whole(i)
    BY <1>t, <1>1, PathsDiffer, NamesDiffer, PathTypes DEF File, Whole, Written
  <1>3. PICK label \in {"keywrite", "keyload"} : Goto(p, label)
    BY DEF CreateCredentialKey, WriteCredentialKey
  <1>4. Moves(p) /\ proc'[p].pc = label
    BY <1>t, <1>3, GotoFields, Labels DEF Moves
  <1>5. KeyFile' = value
    BY <1>t, <1>1 DEF KeyFile
  <1>6. ASSUME NEW q \in Commands \ {p}
        PROVE  CommandInv(q)' /\ Making(q)' = Making(q) /\ proc'[q].pc # "keywrite"
    <2>0. proc'[q] = proc[q] /\ CommandInv(q)
      BY <1>4 DEF Moves, LocalInv
    <2>1. proc[q].pc # "keywrite" /\ proc[q].pc \notin {"listen", "serving"}
      <3>1. CASE CreateCredentialKey(p)
        <4>1. KeyFile = Absent
          BY <3>1 DEF CreateCredentialKey, CreateExclusive, KeyFile
        <4>2. QED
          BY <2>0, <4>1, HostConstants DEF CommandInv, KeyInv
      <3>2. CASE WriteCredentialKey(p)
        <4>1. KeyFile = Created /\ proc[p].pc = "keywrite"
          BY <1>t, <3>2 DEF WriteCredentialKey, KeyInv
        <4>2. QED
          BY <2>0, <4>1 DEF LocalInv, CommandInv, KeyInv
      <3>3. QED
        BY <3>1, <3>2
    <2>2. MakingInv(q)' /\ Making(q)' = Making(q)
      <3>1. MakingInv(q)
        BY <2>0 DEF CommandInv
      <3>2. Making(q)' = Making(q)
        BY <2>0 DEF Making
      <3>3. QED
        BY <1>2, <2>0, <3>1, <3>2 DEF MakingInv, Making
    <2>3. SettledInv(q)'
      BY <1>2, <2>0 DEF CommandInv, SettledInv
    <2>4. KeyInv(q)'
      BY <2>0, <2>1 DEF KeyInv
    <2>5. QED
      BY <2>0, <2>1, <2>2, <2>3, <2>4 DEF CommandInv
  <1>7. SettledInv(p)'
    <2>1. proc[p].pc \in {"keycreate", "keywrite"}
      BY DEF CreateCredentialKey, WriteCredentialKey
    <2>2. QED
      BY <1>t, <1>2, <1>4, <2>1 DEF SettledInv, Settled, Moves
  <1>8. KeyInv(p)'
    <2>1. CASE CreateCredentialKey(p)
      BY <1>t, <1>4, <1>5, <2>1 DEF KeyInv, KeyFile, CreateCredentialKey, CreateExclusive
    <2>2. CASE WriteCredentialKey(p)
      <3>1. proc'[p].pc = "keyload"
        BY <1>t, <2>2, GotoFields, Labels DEF WriteCredentialKey
      <3>2. QED
        BY <3>1 DEF KeyInv
    <2>3. QED
      BY <2>1, <2>2
  <1>9. MakingInv(p)' /\ ~Making(p)'
    BY <1>4 DEF Making, MakingInv
  <1>10. IdentityInv'
    BY <1>2 DEF LocalInv, IdentityInv
  <1>11. QED
    BY <1>6, <1>7, <1>8, <1>9, <1>10 DEF LocalInv, CommandInv

\* One of the files of the identity is created, written or replaced.
LEMMA WriteAt ==
    ASSUME HostTypes, NEW k \in 1 .. 4, NEW value,
           files' = [files EXCEPT ![TLS(IdentityFiles[k])] = value]
    PROVE  /\ \A i \in 1 .. 4 \ {k} : File(i)' = File(i) /\ Whole(i)' = Whole(i)
           /\ File(k)' = value /\ Whole(k)' = (value \notin {Absent, Created})
           /\ KeyFile' = KeyFile
  BY PathsDiffer, PathTypes, NamesDiffer DEF HostTypes, File, Whole, Written, KeyFile

LEMMA CreateLocal ==
    ASSUME HostTypes, LocalInv, NEW p \in Commands, CreateIdentityFile(p)
    PROVE  LocalInv'
  <1>0. proc[p].at \in 0 .. 3
    BY CreateFields
  <1>2. PICK k \in 1 .. 4 : k = proc[p].at + 1
    BY <1>0
  <1>1. /\ Moves(p) /\ proc'[p].pc = "encode" /\ proc'[p].has = proc[p].has
        /\ proc'[p].at = proc[p].at
        /\ files' = [files EXCEPT ![TLS(IdentityFiles[k])] = Created]
        /\ files[TLS(IdentityFiles[k])] = Absent
        /\ proc[p].pc = "create" /\ proc[p].at \in 0 .. 3
    BY <1>2, CreateFields
  <1>3. /\ \A i \in 1 .. 4 \ {k} : File(i)' = File(i) /\ Whole(i)' = Whole(i)
        /\ File(k)' = Created /\ ~Whole(k)' /\ KeyFile' = KeyFile
    BY <1>1, <1>2, WriteAt
  <1>4. MakingInv(p) /\ File(k) = Absent /\ ~Whole(k)
    BY <1>1 DEF LocalInv, CommandInv, File, Whole, Written
  <1>5. \A i \in 1 .. 4 : i < k => Whole(i)
    BY <1>1, <1>2, <1>4 DEF MakingInv, Making
  <1>6. \A i \in 1 .. 4 : i > k => File(i) = Absent
    <2>1. CASE proc[p].at = 0
      BY <1>2, <1>4, <2>1 DEF LocalInv, IdentityInv
    <2>2. CASE proc[p].at > 0
      BY <1>1, <1>2, <1>4, <2>2 DEF MakingInv, Making
    <2>3. QED
      BY <1>1, <2>1, <2>2
  <1>7. IdentityInv'
    BY <1>2, <1>3, <1>4, <1>5, <1>6 DEF LocalInv, IdentityInv
  <1>8. ASSUME NEW q \in Commands \ {p}
        PROVE  /\ CommandInv(q)' /\ ~Making(q) /\ ~Making(q)'
               /\ proc'[q].pc = "keywrite" => proc[q].pc = "keywrite"
    <2>0. proc'[q] = proc[q] /\ CommandInv(q)
      BY <1>1 DEF Moves, LocalInv
    <2>1. ~Making(q)
      <3>1. CASE proc[p].at > 0
        BY <1>1, <3>1 DEF LocalInv, Making
      <3>2. CASE proc[p].at = 0
        <4>1. File(1) = Absent /\ ~Whole(1)
          BY <1>2, <1>4, <3>2
        <4>2. QED
          BY <2>0, <4>1, HostConstants DEF CommandInv, MakingInv, Making
      <3>3. QED
        BY <1>1, <3>1, <3>2
    <2>2. ~Making(q)'
      BY <2>0, <2>1 DEF Making
    <2>3. MakingInv(q)'
      BY <2>0, <2>2 DEF CommandInv, MakingInv, Making
    <2>4. proc[q].pc \notin Settled
      BY <1>2, <1>4, <2>0 DEF CommandInv, SettledInv
    <2>5. SettledInv(q)'
      BY <2>0, <2>4 DEF SettledInv, Settled
    <2>6. KeyInv(q)'
      BY <1>3, <2>0 DEF CommandInv, KeyInv
    <2>7. QED
      BY <2>0, <2>1, <2>2, <2>3, <2>5, <2>6 DEF CommandInv
  <1>9. MakingInv(p)'
    <2>1. \A i \in 1 .. proc[p].at : Whole(i) /\ (i # 3 => File(i) = proc[p].has[IdentityFiles[i]])
      BY <1>1, <1>4 DEF MakingInv, Making
    <2>2. \A i \in 1 .. proc[p].at : i \in 1 .. 4 \ {k}
      BY <1>1, <1>2
    <2>3. \A i \in 1 .. proc'[p].at : /\ Whole(i)'
                                      /\ i # 3 => File(i)' = proc'[p].has[IdentityFiles[i]]
      BY <1>1, <1>3, <2>1, <2>2
    <2>4. proc[p].at > 2 =>
             /\ File(3)' = File(3)
             /\ File(3).key = proc[p].has["server.crt"].key
             /\ File(3).signer = proc[p].has["server.crt"].signer
             /\ ~proc[p].raced => File(3).hosts = proc[p].ask.hosts
      BY <1>1, <1>2, <1>3, <1>4 DEF MakingInv, Making
    <2>5. \A i \in 1 .. 4 : i > k => File(i)' = Absent
      BY <1>3, <1>6
    <2>6. File(k)' = Created /\ k = proc'[p].at + 1
      BY <1>1, <1>2, <1>3
    <2>7. QED
      BY <1>1, <1>2, <1>4, <2>3, <2>4, <2>5, <2>6 DEF MakingInv, Making, Moves
  <1>10. SettledInv(p)' /\ KeyInv(p)'
    BY <1>1 DEF SettledInv, Settled, KeyInv
  <1>11. QED
    BY <1>1, <1>7, <1>8, <1>9, <1>10 DEF LocalInv, CommandInv

\* What is written is told from Absent and Created.
LEMMA WrittenValues ==
    \A value :
       value \in CACertificate \/ value \in ServerCertificate \/ value \in Nat
         \/ value \in Content \/ value \in ArchiveFile => value \notin {Absent, Created}
  BY HostConstants

LEMMA WriteLocal ==
    ASSUME HostTypes, LocalInv, NEW p \in Commands, WriteIdentityFile(p)
    PROVE  LocalInv'
  <1>0. MakingInv(p) /\ proc[p].pc = "encode" /\ proc[p].at \in 0 .. 4 /\ proc[p].at < 4
    BY WriteFields DEF LocalInv, CommandInv, MakingInv
  <1>1. PICK k \in 1 .. 4 : k = proc[p].at + 1
    BY <1>0
  <1>2. /\ Moves(p) /\ proc'[p].pc = "create" /\ proc'[p].has = proc[p].has /\ proc'[p].at = k
        /\ files' = [files EXCEPT ![TLS(IdentityFiles[k])] = proc[p].has[IdentityFiles[k]]]
    BY <1>1, WriteFields
  <1>3. PICK value : value = proc[p].has[IdentityFiles[k]]
    OBVIOUS
  <1>4. /\ \A i \in 1 .. 4 \ {k} : File(i)' = File(i) /\ Whole(i)' = Whole(i)
        /\ File(k)' = value /\ Whole(k)' = (value \notin {Absent, Created}) /\ KeyFile' = KeyFile
    BY <1>2, <1>3, WriteAt
  <1>5. /\ k = 1 => value = proc[p].has["ca.crt"] /\ value \in CACertificate
        /\ k = 2 => value = proc[p].has["ca.key"] /\ value \in Nat
        /\ k = 3 => value = proc[p].has["server.crt"] /\ value \in ServerCertificate
        /\ k = 4 => value = proc[p].has["server.key"] /\ value \in Nat
    BY <1>0, <1>3, IdentityNames DEF MakingInv
  <1>6. Whole(k)'
    <2>1. value \in CACertificate \/ value \in ServerCertificate \/ value \in Nat
      BY <1>5
    <2>2. value \notin {Absent, Created}
      BY <2>1, WrittenValues
    <2>3. QED
      BY <1>4, <2>2
  <1>7. /\ \A i \in 1 .. 4 : i < k => Whole(i) /\ (i # 3 => File(i) = proc[p].has[IdentityFiles[i]])
        /\ File(k) = Created /\ \A i \in 1 .. 4 : i > k => File(i) = Absent
        /\ k > 3 => /\ File(3).key = proc[p].has["server.crt"].key
                    /\ File(3).signer = proc[p].has["server.crt"].signer
                    /\ ~proc[p].raced => File(3).hosts = proc[p].ask.hosts
    BY <1>0, <1>1 DEF MakingInv, Making
  <1>8. /\ \A i \in 1 .. 4 : i <= k => /\ Whole(i)'
                                       /\ i # 3 => File(i)' = proc[p].has[IdentityFiles[i]]
        /\ \A i \in 1 .. 4 : i > k => File(i)' = Absent /\ ~Whole(i)'
    <2>1. ASSUME NEW i \in 1 .. 4, i <= k
          PROVE  Whole(i)' /\ (i # 3 => File(i)' = proc[p].has[IdentityFiles[i]])
      BY <1>3, <1>4, <1>6, <1>7, <2>1
    <2>2. ASSUME NEW i \in 1 .. 4, i > k
          PROVE  File(i)' = Absent /\ ~Whole(i)'
      BY <1>4, <1>7, <2>2 DEF File, Whole, Written
    <2>3. QED
      BY <2>1, <2>2
  <1>9. k > 2 => /\ File(3)'.key = proc[p].has["server.crt"].key
                 /\ File(3)'.signer = proc[p].has["server.crt"].signer
                 /\ ~proc[p].raced => File(3)'.hosts = proc[p].ask.hosts
                 /\ File(3)' \in ServerCertificate
    <2>1. CASE k = 3
      BY <1>0, <1>4, <1>5, <2>1 DEF MakingInv
    <2>2. CASE k = 4
      BY <1>4, <1>7, <2>2 DEF LocalInv, IdentityInv
    <2>3. QED
      BY <2>1, <2>2
  <1>10. MakingInv(p)'
    <2>1. \A i \in 1 .. k : i \in 1 .. 4 /\ i <= k
      OBVIOUS
    <2>2. k < 4 => k + 1 \in 1 .. 4 /\ k + 1 > k
      OBVIOUS
    <2>3. \A i \in 1 .. 4 : i > k + 1 => i > k
      OBVIOUS
    <2>4. k < 4 => File(k + 1)' = Absent
      BY <1>8, <2>2
    <2>5. QED
      BY <1>0, <1>2, <1>8, <1>9, <2>1, <2>3, <2>4 DEF MakingInv, Making, Moves
  <1>11. IdentityInv'
    <2>1. /\ File(1)' = proc[p].has["ca.crt"]
          /\ k > 1 => File(2)' = proc[p].has["ca.key"]
          /\ k > 3 => File(4)' = proc[p].has["server.key"]
      BY <1>8, IdentityNames
    <2>2. /\ proc[p].has["ca.crt"].key = proc[p].has["ca.key"]
          /\ proc[p].has["server.crt"].key = proc[p].has["server.key"]
          /\ proc[p].has["server.crt"].signer = proc[p].has["ca.key"]
      BY <1>0 DEF MakingInv
    <2>3. \A i, j \in 1 .. 4 : i < j /\ File(j)' # Absent => Whole(i)'
      BY <1>8
    <2>4. /\ Whole(2)' => k > 1
          /\ Whole(3)' => k > 2
          /\ Whole(4)' => k > 3
      BY <1>8
    <2>5. QED
      BY <1>9, <2>1, <2>2, <2>3, <2>4 DEF IdentityInv
  <1>12. ASSUME NEW q \in Commands \ {p}
         PROVE  /\ CommandInv(q)' /\ ~Making(q)'
                /\ proc'[q].pc = "keywrite" => proc[q].pc = "keywrite"
    <2>0. proc'[q] = proc[q] /\ CommandInv(q)
      BY <1>2 DEF Moves, LocalInv
    <2>1. ~Making(q)
      BY <1>0 DEF LocalInv, Making
    <2>2. ~Making(q)' /\ MakingInv(q)'
      BY <2>0, <2>1 DEF CommandInv, MakingInv, Making
    <2>3. proc[q].pc \notin Settled
      <3>1. ~Whole(k)
        BY <1>7 DEF Whole, Written, File
      <3>2. QED
        BY <2>0, <3>1 DEF CommandInv, SettledInv
    <2>4. SettledInv(q)'
      BY <2>0, <2>3 DEF SettledInv, Settled
    <2>5. KeyInv(q)'
      BY <1>4, <2>0 DEF CommandInv, KeyInv
    <2>6. QED
      BY <2>0, <2>2, <2>4, <2>5 DEF CommandInv
  <1>13. SettledInv(p)' /\ KeyInv(p)'
    BY <1>2 DEF SettledInv, Settled, KeyInv
  <1>14. QED
    BY <1>2, <1>10, <1>11, <1>12, <1>13 DEF LocalInv, CommandInv

\* Whoever replaces the certificate knows its key and its authority.
LEMMA ReplaceLocal ==
    ASSUME HostTypes, LocalInv, NEW p \in Commands, ReplaceCertificate(p)
    PROVE  LocalInv'
  <1>1. /\ proc' \in [Commands -> ProcState]
        /\ proc'[p].pc = Ensured(p) /\ proc'[p].ask = proc[p].ask
        /\ proc'[p].has = proc[p].has
        /\ proc'[p].raced = proc[p].raced
        /\ \A q \in Commands \ {p} :
              /\ proc'[q].pc = proc[q].pc /\ proc'[q].ask = proc[q].ask
              /\ proc'[q].has = proc[q].has /\ proc'[q].at = proc[q].at
              /\ proc'[q].secret = proc[q].secret /\ proc'[q].seen = proc[q].seen
              /\ proc'[q].raced = (proc[q].raced \/ proc[q].pc # "idle")
        /\ files' = [files EXCEPT ![TLS("server.crt")] = proc[p].has]
        /\ proc[p].pc = "rename"
    BY ReplaceFields
  <1>2. PICK leaf : leaf = proc[p].has
    OBVIOUS
  <1>3. /\ \A i \in 1 .. 4 \ {3} : File(i)' = File(i) /\ Whole(i)' = Whole(i)
        /\ File(3)' = leaf /\ Whole(3)' = (leaf \notin {Absent, Created}) /\ KeyFile' = KeyFile
    <2>1. files' = [files EXCEPT ![TLS(IdentityFiles[3])] = leaf]
      BY <1>1, <1>2, IdentityNames
    <2>2. 3 \in 1 .. 4
      OBVIOUS
    <2>3. QED
      BY <2>1, <2>2, WriteAt
  <1>4. /\ leaf \in ServerCertificate /\ \A i \in 1 .. 4 : Whole(i)
        /\ leaf.key = File(3).key /\ leaf.signer = File(3).signer /\ leaf.hosts = proc[p].ask.hosts
    BY <1>1, <1>2 DEF LocalInv, CommandInv, SettledInv, Settled
  <1>5. \A i \in 1 .. 4 : Whole(i)'
    BY <1>3, <1>4, HostConstants
  <1>6. IdentityInv'
    BY <1>3, <1>4, <1>5 DEF LocalInv, IdentityInv
  <1>7. ASSUME NEW q \in Commands \ {p}
        PROVE  CommandInv(q)' /\ Making(q)' = Making(q) /\ proc'[q].pc = proc[q].pc
    <2>0. /\ proc'[q].pc = proc[q].pc /\ proc'[q].ask = proc[q].ask
          /\ proc'[q].has = proc[q].has /\ proc'[q].at = proc[q].at
          /\ proc'[q].secret = proc[q].secret
          /\ CommandInv(q) /\ (proc[q].pc # "idle" => proc'[q].raced)
      BY <1>1 DEF LocalInv
    <2>1. Making(q)' = Making(q)
      BY <2>0 DEF Making
    <2>2. MakingInv(q)'
      <3>1. CASE ~Making(q)
        BY <2>0, <2>1, <3>1 DEF CommandInv, MakingInv
      <3>2. CASE Making(q)
        <4>1. MakingInv(q) /\ proc[q].at \in 0 .. 4 /\ proc[q].pc \in {"create", "encode"}
          BY <2>0, <3>2 DEF CommandInv, MakingInv, Making
        <4>2. proc[q].at = 4 /\ proc[q].pc = "create"
          <5>1. \A i \in 1 .. 4 : File(i) \notin {Absent, Created}
            BY <1>4 DEF Whole, Written, File
          <5>2. proc[q].pc = "encode" => proc[q].at + 1 \in 1 .. 4
            BY <4>1 DEF MakingInv
          <5>3. proc[q].pc # "encode"
            BY <3>2, <4>1, <5>1, <5>2 DEF MakingInv
          <5>4. proc[q].at < 4 => proc[q].at + 1 \in 1 .. 4
            BY <4>1
          <5>5. QED
            BY <3>2, <4>1, <5>1, <5>3, <5>4 DEF MakingInv
        <4>3. /\ \A i \in 1 .. 4 : Whole(i) /\ (i # 3 => File(i) = proc[q].has[IdentityFiles[i]])
              /\ File(3).key = proc[q].has["server.crt"].key
              /\ File(3).signer = proc[q].has["server.crt"].signer
          BY <3>2, <4>1, <4>2 DEF MakingInv
        <4>4. /\ \A i \in 1 .. 4 : /\ Whole(i)'
                                   /\ i # 3 => File(i)' = proc'[q].has[IdentityFiles[i]]
              /\ File(3)'.key = proc'[q].has["server.crt"].key
              /\ File(3)'.signer = proc'[q].has["server.crt"].signer
          BY <1>3, <1>4, <1>5, <2>0, <4>3
        <4>5. proc'[q].at = 4 /\ proc'[q].pc = "create" /\ proc'[q].raced
          BY <2>0, <4>2
        <4>6. \A i \in 1 .. 4 : ~(i > 4 + 1)
          OBVIOUS
        <4>7. QED
          BY <2>0, <4>1, <4>4, <4>5, <4>6 DEF MakingInv, Making
      <3>3. QED
        BY <3>1, <3>2
    <2>3. SettledInv(q)'
      BY <1>3, <1>4, <1>5, <2>0 DEF CommandInv, SettledInv, Settled
    <2>4. KeyInv(q)'
      BY <1>3, <2>0 DEF CommandInv, KeyInv
    <2>5. QED
      BY <2>0, <2>1, <2>2, <2>3, <2>4 DEF CommandInv
  <1>8. Ensured(p) \in {"keystat", "initialized"}
    BY <1>1, EnsuredTypes
  <1>9. SettledInv(p)'
    BY <1>1, <1>3, <1>4, <1>5, <1>8 DEF SettledInv, Settled
  <1>10. MakingInv(p)' /\ KeyInv(p)' /\ ~Making(p)' /\ proc'[p].pc # "keywrite"
    BY <1>1, <1>8 DEF Making, MakingInv, KeyInv
  <1>11. QED
    BY <1>6, <1>7, <1>9, <1>10 DEF LocalInv, CommandInv

\* Every step keeps the invariant of the identity and the credential key.
LEMMA LocalNext ==
    ASSUME HostTypes, LocalInv, [Next]_vars
    PROVE  LocalInv'
  <1>1. CASE \E p \in Commands : Run(p) \/ Stop(p) \/ CommandDies(p)
    BY <1>1, OtherLocal, LocalInvStays
  <1>2. CASE StoreBlob \/ RecordBlob \/ Tick \/ UNCHANGED vars
    BY <1>2, OtherLocal, LocalInvStays
  <1>3. ASSUME NEW p \in Commands, Step(p) \/ CommandFails(p)
        PROVE  LocalInv'
    <2>1. CASE CommandRefuses(p) \/ CommandFails(p)
      BY <2>1, ExitLocal, LocalInvStays DEF CommandRefuses, CommandFails
    <2>2. CASE StatOutput(p) \/ CreateOutput(p) \/ WriteEntry(p) \/ CloseOutput(p)
      BY <2>2, BackupLocal, LocalInvStays
    <2>3. CASE \/ StatTarget(p) \/ OpenArchive(p) \/ ReadManifest(p) \/ CreateTarget(p)
               \/ CopyEntry(p) \/ FinishRestore(p)
      BY <2>3, RestoreLocal, LocalInvStays
    <2>4. CASE StatIdentity(p) \/ GenerateIdentity(p) \/ LoadServerPair(p) \/ SignCertificate(p)
      BY <2>4, StatLocal, GenerateLocal, LoadLocal, SignLocal
    <2>5. CASE CreateIdentityFile(p) \/ WriteIdentityFile(p) \/ ReplaceCertificate(p)
      BY <2>5, CreateLocal, WriteLocal, ReplaceLocal
    <2>6. CASE IdentityGenerated(p) \/ KeepCertificate(p)
      BY <2>6, EnsuredLocal
    <2>7. CASE StatCredentialKey(p) \/ LoadCredentialKey(p) \/ Listen(p)
      BY <2>7, KeyStepsLocal
    <2>8. CASE CreateCredentialKey(p) \/ WriteCredentialKey(p)
      BY <2>8, CreateKeyLocal
    <2>9. QED
      BY <1>3, <2>1, <2>2, <2>3, <2>4, <2>5, <2>6, <2>7, <2>8 DEF Step
  <1>4. QED
    BY <1>1, <1>2, <1>3 DEF Next

\* What the invariant says of the files and of servers.
LEMMA LocalResults ==
    ASSUME HostTypes, LocalInv
    PROVE  OneIdentity /\ ServesWhatIsKept /\ IssuedForHosts
  <1>1. OneIdentity
    BY FileNames DEF LocalInv, IdentityInv, OneIdentity
  <1>2. ServesWhatIsKept
    <2>1. SUFFICES ASSUME NEW p \in Commands, proc[p].pc = "serving"
                   PROVE  /\ \A name \in Range(IdentityFiles) : Written(TLS(name))
                          /\ proc[p].has.key = files[TLS("server.key")]
                          /\ proc[p].has.signer = files[TLS("ca.crt")].key
                          /\ proc[p].secret = files[TLS(CredentialKey)]
      BY DEF ServesWhatIsKept
    <2>2. SettledInv(p) /\ KeyInv(p) /\ IdentityInv
      BY DEF LocalInv, CommandInv
    <2>3. /\ \A i \in 1 .. 4 : Whole(i)
          /\ proc[p].has.key = File(3).key /\ proc[p].has.signer = File(3).signer
      BY <2>1, <2>2 DEF SettledInv, Settled
    <2>4. File(3).key = File(4) /\ File(3).signer = File(1).key
      BY <2>2, <2>3 DEF IdentityInv
    <2>5. proc[p].secret = KeyFile
      BY <2>1, <2>2 DEF KeyInv
    <2>6. QED
      BY <2>3, <2>4, <2>5, FileNames, IdentityNames DEF KeyFile
  <1>3. IssuedForHosts
    <2>1. ASSUME NEW p \in Commands, ~proc[p].raced
          PROVE  /\ proc[p].pc = "serving" => proc[p].ask.hosts \subseteq proc[p].has.hosts
                 /\ proc[p].pc = "initialized" =>
                       files[TLS("server.crt")].hosts = proc[p].ask.hosts
      <3>1. SettledInv(p) /\ (proc[p].pc = "initialized" => proc[p].ask.op = "init")
        BY DEF LocalInv, CommandInv, HostTypes, OperationInv
      <3>2. QED
        BY <2>1, <3>1, FileNames DEF SettledInv, Settled
    <2>2. QED
      BY <2>1 DEF IssuedForHosts
  <1>4. QED
    BY <1>1, <1>2, <1>3

-----------------------------------------------------------------------------
(* Archives.                                                               *)

\* The blobs are listed once each.
LEMMA ListsAll ==
    ASSUME NEW S, IsFiniteSet(S)
    PROVE  LET list == SetToSeq(S) IN
           /\ Cardinality(S) \in Nat
           /\ list \in [1 .. Cardinality(S) -> S]
           /\ \A b \in S : \E i \in 1 .. Cardinality(S) : list[i] = b
  <1> DEFINE n == Cardinality(S)
  <1>1. n \in Nat /\ ExistsBijection(1 .. n, S)
    BY FS_CardinalityType
  <1>2. PICK g \in [1 .. n -> S] : IsInjective(g)
    BY <1>1 DEF ExistsBijection, Bijection, Injection, IsInjective
  <1>3. SetToSeq(S) \in [1 .. n -> S] /\ IsInjective(SetToSeq(S))
    BY <1>2 DEF SetToSeq
  <1> DEFINE list == SetToSeq(S)
  <1>4. list \in Injection(1 .. n, S)
    BY <1>3 DEF Injection, IsInjective
  <1>5. IsFiniteSet(1 .. n) /\ Cardinality(1 .. n) = n
    BY <1>1, FS_Interval
  <1>6. list \in Surjection(1 .. n, S)
    BY <1>4, <1>5, FS_Injection
  <1>7. QED
    BY <1>1, <1>3, <1>6 DEF Surjection

\* An entry of the archive of a content root.
GoodEntry(e) ==
    /\ e \in EntryRecord
    /\ e.kind = "config" => e.value = {"routes"}
    /\ e.kind = "content" => e.name \in Names

LEMMA EntryTypes ==
    /\ \A b \in Blobs : GoodEntry(Entry("content", b, {b}))
    /\ GoodEntry(Entry("manifest", "manifest", {}))
    /\ LiveInv => /\ GoodEntry(Entry("config", "config", live.config))
                  /\ GoodEntry(Entry("content", Database, live.database))
  BY DEF GoodEntry, Entry, EntryRecord, Content, Names, LiveInv

\* Two entries, then n, then one.
LEMMA Walk ==
    ASSUME NEW a, NEW b, NEW n \in Nat, NEW walk, DOMAIN walk = 1 .. n,
           walk = [i \in 1 .. n |-> walk[i]], NEW z
    PROVE  LET all == <<a, b>> \o walk \o <<z>> IN
           /\ Len(all) = n + 3 /\ all[1] = a /\ all[2] = b /\ all[n + 3] = z
           /\ \A i \in 1 .. n : all[i + 2] = walk[i]
  <1> DEFINE S == {a, b, z} \cup {walk[i] : i \in 1 .. n}
  <1>1. walk \in Seq(S) /\ Len(walk) = n
    <2>1. walk \in [1 .. n -> S]
      OBVIOUS
    <2>2. QED
      BY <2>1
  <1>2. <<a, b>> \in Seq(S) /\ <<z>> \in Seq(S) /\ Len(<<a, b>>) = 2 /\ Len(<<z>>) = 1
    OBVIOUS
  <1>3. /\ <<a, b>> \o walk \in Seq(S) /\ Len(<<a, b>> \o walk) = n + 2
        /\ (<<a, b>> \o walk)[1] = a /\ (<<a, b>> \o walk)[2] = b
        /\ \A i \in 1 .. n : (<<a, b>> \o walk)[i + 2] = walk[i]
    BY <1>1, <1>2
  <1>4. QED
    BY <1>2, <1>3

\* The walk of the content root lists every blob, and then the database.
LEMMA ContentsAre ==
    ASSUME LiveInv
    PROVE  /\ Len(Contents) \in Nat
           /\ \A k \in 1 .. Len(Contents) : GoodEntry(Contents[k])
           /\ \E k \in 1 .. Len(Contents) : Contents[k].kind = "manifest"
           /\ \E k \in 1 .. Len(Contents) : Contents[k].kind = "config"
           /\ \E k \in 1 .. Len(Contents) :
                 Contents[k].name = Database /\ Contents[k].value = live.database
           /\ \A b \in live.blobs : \E k \in 1 .. Len(Contents) :
                 Contents[k].kind = "content" /\ Contents[k].name = b
  <1> DEFINE n == Cardinality(live.blobs)
             list == SetToSeq(live.blobs)
             walk == [i \in 1 .. n |-> LET b == SetToSeq(live.blobs)[i] IN Entry("content", b, {b})]
             a == Entry("manifest", "manifest", {})
             c == Entry("config", "config", live.config)
             z == Entry("content", Database, live.database)
  <1>0. live.blobs \in SUBSET Blobs /\ live.database \subseteq live.blobs
    BY DEF LiveInv
  <1>1. /\ n \in Nat /\ list \in [1 .. n -> live.blobs]
        /\ \A b \in live.blobs : \E i \in 1 .. n : list[i] = b
    <2>1. IsFiniteSet(live.blobs)
      BY <1>0, HostConstants, FS_Subset
    <2>2. QED
      BY <2>1, ListsAll
  <1>2. \A i \in 1 .. n : walk[i] = Entry("content", list[i], {list[i]}) /\ list[i] \in Blobs
    BY <1>0, <1>1
  <1>3. DOMAIN walk = 1 .. n /\ walk = [i \in 1 .. n |-> walk[i]]
    OBVIOUS
  <1>4. Contents = <<a, c>> \o walk \o <<z>>
    BY DEF Contents
  <1>5. GoodEntry(a) /\ GoodEntry(c) /\ GoodEntry(z) /\ \A i \in 1 .. n : GoodEntry(walk[i])
    BY <1>2, EntryTypes
  <1>6. /\ a.kind = "manifest" /\ c.kind = "config"
        /\ z.name = Database /\ z.value = live.database
        /\ \A i \in 1 .. n : walk[i].kind = "content" /\ walk[i].name = list[i]
    BY <1>2 DEF Entry
  <1> HIDE DEF n, list, walk, a, c, z
  <1>7. /\ Len(Contents) = n + 3 /\ Contents[1] = a /\ Contents[2] = c /\ Contents[n + 3] = z
        /\ \A i \in 1 .. n : Contents[i + 2] = walk[i]
    BY <1>1, <1>3, <1>4, Walk
  <1>8. /\ 1 \in 1 .. n + 3 /\ 2 \in 1 .. n + 3 /\ n + 3 \in 1 .. n + 3
        /\ \A i \in 1 .. n : i + 2 \in 1 .. n + 3
        /\ \A k \in 1 .. n + 3 : k = 1 \/ k = 2 \/ k = n + 3 \/ \E i \in 1 .. n : k = i + 2
    <2>1. \A k \in 1 .. n + 3 : k = 1 \/ k = 2 \/ k = n + 3 \/ (k - 2 \in 1 .. n /\ k = (k - 2) + 2)
      BY <1>1
    <2>2. QED
      BY <1>1, <2>1
  <1>9. \A k \in 1 .. Len(Contents) : GoodEntry(Contents[k])
    BY <1>5, <1>7, <1>8
  <1>10. \A b \in live.blobs : \E k \in 1 .. Len(Contents) :
            Contents[k].kind = "content" /\ Contents[k].name = b
    <2>1. ASSUME NEW b \in live.blobs
          PROVE  \E k \in 1 .. Len(Contents) :
                    Contents[k].kind = "content" /\ Contents[k].name = b
      <3>1. PICK i \in 1 .. n : list[i] = b
        BY <1>1
      <3>2. i + 2 \in 1 .. Len(Contents) /\ Contents[i + 2] = walk[i]
        BY <1>7, <1>8
      <3>3. QED
        BY <1>6, <3>1, <3>2
    <2>2. QED
      BY <2>1
  <1>11. n + 3 \in Nat
    BY <1>1
  <1>12. QED
    BY <1>6, <1>7, <1>8, <1>9, <1>10, <1>11

\* What an archive file is at any time, and once it is closed.
SoundArchive(f) ==
    LET e == f.entries IN
    /\ f \in ArchiveFile
    /\ \A k \in 1 .. Len(e) : GoodEntry(e[k])
    /\ f.closed =>
          /\ \E k \in 1 .. Len(e) : e[k].kind = "manifest"
          /\ \E k \in 1 .. Len(e) : e[k].kind = "config"
          /\ \E k \in 1 .. Len(e) :
                /\ e[k].name = Database
                /\ \A b \in e[k].value : \E m \in 1 .. Len(e) : e[m].kind = "content" /\ e[m].name = b

\* g is f, or f with more entries, or closed.
Extends(f, g) ==
    /\ Len(f.entries) <= Len(g.entries)
    /\ \A k \in 1 .. Len(f.entries) : g.entries[k] = f.entries[k]
    /\ f.closed => g = f

LEMMA NewArchive ==
    LET f == [entries |-> <<>>, closed |-> FALSE] IN
    /\ SoundArchive(f) /\ ~f.closed /\ Len(f.entries) = 0
  BY DEF SoundArchive, ArchiveFile

LEMMA Appended ==
    ASSUME NEW f, SoundArchive(f), ~f.closed, NEW e, GoodEntry(e)
    PROVE  LET g == [f EXCEPT !.entries = Append(@, e)] IN
           /\ SoundArchive(g) /\ ~g.closed /\ Extends(f, g)
           /\ Len(g.entries) = Len(f.entries) + 1 /\ g.entries[Len(f.entries) + 1] = e
  <1> DEFINE g == [f EXCEPT !.entries = Append(@, e)]
  <1>0. f \in ArchiveFile /\ f.entries \in Seq(EntryRecord) /\ e \in EntryRecord
    BY DEF SoundArchive, ArchiveFile, GoodEntry
  <1>1. g.entries = Append(f.entries, e) /\ g.closed = f.closed /\ g \in ArchiveFile
    BY <1>0 DEF ArchiveFile
  <1>2. /\ Len(g.entries) = Len(f.entries) + 1 /\ Len(f.entries) \in Nat
        /\ g.entries[Len(f.entries) + 1] = e
        /\ \A k \in 1 .. Len(f.entries) : g.entries[k] = f.entries[k]
    BY <1>0, <1>1
  <1>3. \A k \in 1 .. Len(g.entries) : k \in 1 .. Len(f.entries) \/ k = Len(f.entries) + 1
    BY <1>2
  <1> HIDE DEF g
  <1>4. QED
    BY <1>1, <1>2, <1>3 DEF SoundArchive, Extends, g

LEMMA Closed ==
    ASSUME LiveInv, NEW f, SoundArchive(f), ~f.closed, Len(f.entries) = Len(Contents),
           \A k \in 1 .. Len(f.entries) : f.entries[k] = Contents[k]
    PROVE  LET g == [f EXCEPT !.closed = TRUE] IN
           SoundArchive(g) /\ g.closed /\ Extends(f, g)
  <1> DEFINE g == [f EXCEPT !.closed = TRUE]
             n == Len(Contents)
  <1>1. g.entries = f.entries /\ g.closed /\ g \in ArchiveFile /\ f.entries \in Seq(EntryRecord)
    BY DEF SoundArchive, ArchiveFile
  <1>2. /\ n \in Nat /\ \E k \in 1 .. n : Contents[k].kind = "manifest"
        /\ \E k \in 1 .. n : Contents[k].kind = "config"
        /\ \E k \in 1 .. n : Contents[k].name = Database /\ Contents[k].value = live.database
        /\ \A b \in live.blobs : \E k \in 1 .. n :
              Contents[k].kind = "content" /\ Contents[k].name = b
        /\ live.database \subseteq live.blobs
    BY ContentsAre DEF LiveInv
  <1>3. Len(g.entries) = n /\ \A k \in 1 .. n : g.entries[k] = Contents[k]
    BY <1>1
  <1> HIDE DEF g, n
  <1>4. \E k \in 1 .. n :
           /\ g.entries[k].name = Database
           /\ \A b \in g.entries[k].value :
                 \E m \in 1 .. n : g.entries[m].kind = "content" /\ g.entries[m].name = b
    <2>1. PICK k \in 1 .. n : Contents[k].name = Database /\ Contents[k].value = live.database
      BY <1>2
    <2>2. g.entries[k].name = Database /\ g.entries[k].value = live.database
      BY <1>3, <2>1
    <2>3. ASSUME NEW b \in live.database
          PROVE  \E m \in 1 .. n : g.entries[m].kind = "content" /\ g.entries[m].name = b
      <3>1. b \in live.blobs
        BY <1>2
      <3>2. PICK m \in 1 .. n : Contents[m].kind = "content" /\ Contents[m].name = b
        BY <1>2, <3>1
      <3>3. g.entries[m] = Contents[m]
        BY <1>3
      <3>4. QED
        BY <3>2, <3>3
    <2>4. QED
      BY <2>2, <2>3
  <1>5. /\ \E k \in 1 .. n : g.entries[k].kind = "manifest"
        /\ \E k \in 1 .. n : g.entries[k].kind = "config"
    BY <1>2, <1>3
  <1>6. \A k \in 1 .. n : GoodEntry(g.entries[k])
    BY <1>1, <1>3 DEF SoundArchive
  <1>7. SoundArchive(g)
    BY <1>1, <1>3, <1>4, <1>5, <1>6 DEF SoundArchive
  <1>8. Extends(f, g)
    <2>1. Len(f.entries) \in Nat /\ Len(g.entries) = Len(f.entries)
      BY <1>1
    <2>2. QED
      BY <1>1, <2>1 DEF Extends
  <1>9. QED
    BY <1>1, <1>7, <1>8 DEF g

-----------------------------------------------------------------------------
(* Backups.                                                                *)

ArchiveAt(a) == files[Archive(a)]

BackupInv(q) ==
    BackingUp(q) =>
       LET f == files[Output(q)] IN
       /\ f # Absent /\ ~f.closed
       /\ Len(f.entries) = proc[q].at /\ proc[q].at <= Len(Contents)
       /\ \A k \in 1 .. Len(f.entries) : f.entries[k] = Contents[k]

ArchivesInv ==
    /\ \A a \in Archives : ArchiveAt(a) # Absent => SoundArchive(ArchiveAt(a))
    /\ \A a \in Archives : ArchiveAt(a) # Absent /\ ~ArchiveAt(a).closed =>
          crashes > 0 \/ \E q \in Commands : BackingUp(q) /\ proc[q].ask.archive = a
    /\ \A q \in Commands : BackupInv(q)
    /\ \A q, r \in Commands : BackingUp(q) /\ BackingUp(r) /\ Output(q) = Output(r) => q = r

\* What a step does to an archive: nothing, or a backup adds to or closes it.
ArchiveSame == \A a \in Archives : ArchiveAt(a)' = ArchiveAt(a)

LEMMA OutputTypes ==
    ASSUME HostTypes, NEW p \in Commands, proc[p].pc \in {"output", "open", "archive"}
    PROVE  proc[p].ask.archive \in Archives /\ Output(p) \in Paths
  <1>1. proc[p].ask.op = "backup" /\ proc[p].ask \in Ask
    BY HostConstants DEF HostTypes, OperationInv, ProcState, Asked
  <1>2. QED
    BY <1>1, AskTypes, PathTypes DEF Output

LEMMA RestoreTypes ==
    ASSUME HostTypes, NEW p \in Commands,
           proc[p].pc \in {"target", "settings", "next", "copy", "restored"}
    PROVE  /\ proc[p].ask.archive \in Archives /\ proc[p].ask.root \in Roots
           /\ proc[p].ask.config \in ConfigOutputs
  <1>1. proc[p].ask.op = "restore" /\ proc[p].ask \in Ask
    BY HostConstants DEF HostTypes, OperationInv, ProcState, Asked
  <1>2. QED
    BY <1>1, AskTypes

\* Commands that make no backup leave the archives as they are.
LEMMA ArchivesStay ==
    ASSUME HostTypes, ArchivesInv, ArchiveSame, crashes' \in Nat, crashes' >= crashes,
           \A q \in Commands : BackingUp(q)' =>
              proc'[q] = proc[q] \/ (BackingUp(q) /\ proc'[q].ask = proc[q].ask
                                                  /\ proc'[q].at = proc[q].at),
           \A q \in Commands : BackingUp(q) => BackingUp(q)' \/ crashes' > 0,
           (\E q \in Commands : BackingUp(q)) => live' = live
    PROVE  ArchivesInv'
  <1>1. ASSUME NEW q \in Commands, BackingUp(q)'
        PROVE  /\ BackingUp(q) /\ proc'[q].ask = proc[q].ask /\ proc'[q].at = proc[q].at
               /\ Output(q)' = Output(q) /\ files'[Output(q)] = files[Output(q)]
               /\ BackupInv(q)'
    <2>1. BackingUp(q) /\ proc'[q].ask = proc[q].ask /\ proc'[q].at = proc[q].at
      BY <1>1 DEF BackingUp
    <2>2. Output(q)' = Output(q) /\ files'[Output(q)] = files[Output(q)]
      BY <2>1, OutputTypes DEF Output, BackingUp, ArchiveSame, ArchiveAt
    <2>3. Contents' = Contents
      BY <2>1 DEF Contents
    <2>4. QED
      BY <2>1, <2>2, <2>3 DEF ArchivesInv, BackupInv
  <1>2. \A q \in Commands : BackupInv(q)'
    BY <1>1 DEF BackupInv
  <1>3. QED
    BY <1>1, <1>2 DEF ArchivesInv, ArchiveSame, HostTypes

\* A backup writes f over its own output, which nobody else is making.
LEMMA BackupWrites ==
    ASSUME HostTypes, ArchivesInv, NEW p \in Commands, proc[p].pc \in {"open", "archive"},
           BackingUp(p) \/ files[Output(p)] = Absent,
           NEW f, f # Absent => SoundArchive(f), files' = [files EXCEPT ![Output(p)] = f],
           live' = live, crashes' = crashes,
           \A q \in Commands \ {p} : /\ proc'[q].pc = proc[q].pc /\ proc'[q].ask = proc[q].ask
                                     /\ proc'[q].at = proc[q].at,
           f # Absent /\ ~f.closed => BackingUp(p)',
           BackingUp(p)' => /\ f # Absent /\ ~f.closed /\ proc'[p].ask = proc[p].ask
                            /\ Len(f.entries) = proc'[p].at /\ proc'[p].at <= Len(Contents)
                            /\ \A k \in 1 .. Len(f.entries) : f.entries[k] = Contents[k]
    PROVE  ArchivesInv'
  <1>0. PICK a \in Archives : a = proc[p].ask.archive
    BY OutputTypes
  <1>1. /\ Output(p) = Archive(a) /\ Archive(a) \in Paths
        /\ ArchiveAt(a)' = f /\ \A b \in Archives \ {a} : ArchiveAt(b)' = ArchiveAt(b)
    BY <1>0, PathsDiffer, PathTypes DEF Output, ArchiveAt, HostTypes
  <1>2. \A q \in Commands \ {p} : BackingUp(q) => proc[q].ask.archive \in Archives \ {a}
    <2>1. ASSUME NEW q \in Commands \ {p}, BackingUp(q)
          PROVE  Output(q) # Output(p)
      BY <2>1 DEF ArchivesInv, BackupInv
    <2>2. QED
      BY <1>1, <2>1, OutputTypes DEF BackingUp, Output
  <1>3. Contents' = Contents
    BY DEF Contents
  <1>4. ASSUME NEW q \in Commands \ {p}, BackingUp(q)'
        PROVE  /\ BackingUp(q) /\ Output(q)' = Output(q) /\ files'[Output(q)] = files[Output(q)]
               /\ BackupInv(q)'
    <2>1. BackingUp(q) /\ proc'[q].ask = proc[q].ask /\ proc'[q].at = proc[q].at
      BY <1>4 DEF BackingUp
    <2>2. Output(q)' = Output(q) /\ files'[Output(q)] = files[Output(q)]
      BY <1>1, <1>2, <2>1 DEF Output, ArchiveAt
    <2>3. QED
      BY <1>3, <2>1, <2>2 DEF ArchivesInv, BackupInv
  <1>5. BackupInv(p)' /\ (BackingUp(p)' => Output(p)' = Archive(a) /\ proc'[p].ask.archive = a)
    <2>1. CASE ~BackingUp(p)'
      BY <2>1 DEF BackupInv
    <2>2. CASE BackingUp(p)'
      <3>1. Output(p)' = Archive(a) /\ files'[Archive(a)] = f
        BY <1>1, <2>2 DEF Output, ArchiveAt
      <3>2. QED
        BY <1>0, <1>3, <2>2, <3>1 DEF BackupInv
    <2>3. QED
      BY <2>1, <2>2
  <1>6. \A b \in Archives : ArchiveAt(b)' # Absent => SoundArchive(ArchiveAt(b)')
    BY <1>1 DEF ArchivesInv
  <1>7. ASSUME NEW b \in Archives, ArchiveAt(b)' # Absent, ~ArchiveAt(b)'.closed
        PROVE  crashes' > 0 \/ \E q \in Commands : BackingUp(q)' /\ proc'[q].ask.archive = b
    <2>1. CASE b = a
      BY <1>1, <1>5, <1>7, <2>1
    <2>2. CASE b # a
      <3>1. crashes > 0 \/ \E q \in Commands : BackingUp(q) /\ proc[q].ask.archive = b
        BY <1>1, <1>7, <2>2 DEF ArchivesInv
      <3>2. ASSUME NEW q \in Commands, BackingUp(q), proc[q].ask.archive = b
            PROVE  BackingUp(q)' /\ proc'[q].ask.archive = b
        BY <1>0, <2>2, <3>2 DEF BackingUp
      <3>3. QED
        BY <3>1, <3>2
    <2>3. QED
      BY <2>1, <2>2
  <1>8. ASSUME NEW q \in Commands, NEW r \in Commands, BackingUp(q)', BackingUp(r)',
               Output(q)' = Output(r)'
        PROVE  q = r
    <2>1. CASE q = p \/ r = p
      BY <1>1, <1>2, <1>4, <1>5, <1>8, <2>1, PathsDiffer DEF Output
    <2>2. CASE q # p /\ r # p
      BY <1>4, <1>8, <2>2 DEF ArchivesInv
    <2>3. QED
      BY <2>1, <2>2
  <1>9. \A q \in Commands : BackupInv(q)'
    BY <1>4, <1>5 DEF BackupInv
  <1>10. QED
    BY <1>6, <1>7, <1>8, <1>9 DEF ArchivesInv

\* One entry more of what is to be written.
LEMMA OneMore ==
    ASSUME HostTypes, ArchivesInv, NEW p \in Commands, BackingUp(p)
    PROVE  LET f == files[Output(p)] IN
           /\ f # Absent /\ SoundArchive(f) /\ ~f.closed
           /\ Len(f.entries) = proc[p].at /\ proc[p].at \in Nat /\ Len(Contents) \in Nat
           /\ \A k \in 1 .. Len(f.entries) : f.entries[k] = Contents[k]
           /\ proc[p].at < Len(Contents) => GoodEntry(Contents[proc[p].at + 1])
  <1>1. BackupInv(p) /\ proc[p].ask.archive \in Archives
    BY OutputTypes DEF ArchivesInv, BackingUp
  <1>2. proc[p].at \in Nat /\ Len(Contents) \in Nat
    BY ContentsAre DEF HostTypes, ProcState
  <1>3. proc[p].at < Len(Contents) => proc[p].at + 1 \in 1 .. Len(Contents)
    BY <1>2
  <1>4. proc[p].at < Len(Contents) => GoodEntry(Contents[proc[p].at + 1])
    BY <1>3, ContentsAre DEF HostTypes
  <1>5. QED
    BY <1>1, <1>2, <1>4 DEF ArchivesInv, BackupInv, Output, ArchiveAt

-----------------------------------------------------------------------------
(* What the steps of a starting server leave alone.                        *)

ServicePCs == Settled \cup {"stat", "create", "encode"}

\* The other commands keep their places.
Others(p) ==
    \A q \in Commands \ {p} :
       /\ proc'[q].pc = proc[q].pc /\ proc'[q].ask = proc[q].ask /\ proc'[q].at = proc[q].at
       /\ proc'[q].seen = proc[q].seen /\ proc'[q].has = proc[q].has

ServiceStep(p) ==
    \/ StatIdentity(p) \/ GenerateIdentity(p) \/ CreateIdentityFile(p) \/ WriteIdentityFile(p)
    \/ IdentityGenerated(p) \/ LoadServerPair(p) \/ KeepCertificate(p)
    \/ SignCertificate(p) \/ ReplaceCertificate(p)
    \/ StatCredentialKey(p) \/ CreateCredentialKey(p) \/ WriteCredentialKey(p)
    \/ LoadCredentialKey(p) \/ Listen(p)

LEMMA MovesOthers ==
    ASSUME NEW p \in Commands, Moves(p)
    PROVE  Others(p)
  BY DEF Moves, Others

LEMMA ServiceMoves ==
    ASSUME HostTypes, LocalInv, NEW p \in Commands, ServiceStep(p)
    PROVE  /\ proc' \in [Commands -> ProcState] /\ Others(p)
           /\ proc'[p].ask = proc[p].ask
           /\ proc[p].pc \in ServicePCs /\ proc'[p].pc \in ServicePCs
           /\ OperationInv(p)'
  <1>t. proc \in [Commands -> ProcState] /\ OperationInv(p)
    BY DEF HostTypes
  <1>1. CASE StatIdentity(p)
    <2>1. Moves(p) /\ proc[p].pc = "stat" /\ proc'[p].pc = "stat"
      BY <1>1, StatFields DEF StatIdentity
    <2>2. QED
      BY <1>t, <2>1, MovesOthers DEF Moves, ServicePCs, OperationInv
  <1>2. CASE GenerateIdentity(p)
    <2>1. Moves(p) /\ proc[p].pc = "stat" /\ proc'[p].pc = "create"
      BY <1>2, GenerateFields DEF GenerateIdentity, Counted
    <2>2. QED
      BY <1>t, <2>1, MovesOthers DEF Moves, ServicePCs, OperationInv
  <1>3. CASE CreateIdentityFile(p)
    <2>1. Moves(p) /\ proc[p].pc = "create" /\ proc'[p].pc = "encode"
      BY <1>3, CreateFields
    <2>2. QED
      BY <1>t, <2>1, MovesOthers DEF Moves, ServicePCs, OperationInv
  <1>4. CASE WriteIdentityFile(p)
    <2>1. Moves(p) /\ proc[p].pc = "encode" /\ proc'[p].pc = "create"
      BY <1>4, WriteFields
    <2>2. QED
      BY <1>t, <2>1, MovesOthers DEF Moves, ServicePCs, OperationInv
  <1>5. CASE IdentityGenerated(p) \/ KeepCertificate(p)
    <2>1. proc[p].pc \in {"create", "authority"} /\ Goto(p, Ensured(p))
      BY <1>5 DEF KeepCertificate, IdentityGenerated, Generated
    <2>2. /\ Ensured(p) \in PCs /\ Ensured(p) \in {"keystat", "initialized"}
          /\ Ensured(p) = "keystat" => proc[p].ask.op = "serve"
          /\ Ensured(p) = "initialized" => proc[p].ask.op = "init"
      BY <2>1, EnsuredTypes
    <2>3. Moves(p) /\ proc'[p].pc = Ensured(p)
      BY <1>t, <2>1, <2>2, GotoFields DEF Moves
    <2>4. QED
      BY <1>t, <2>1, <2>2, <2>3, MovesOthers DEF Moves, ServicePCs, Settled, OperationInv
  <1>6. CASE LoadServerPair(p)
    <2>1. Moves(p) /\ proc[p].pc = "stat" /\ proc'[p].pc = "authority"
      BY <1>6, LoadFields DEF LoadServerPair, Counted
    <2>2. QED
      BY <1>t, <2>1, MovesOthers DEF Moves, ServicePCs, Settled, OperationInv
  <1>7. CASE SignCertificate(p)
    <2>1. proc[p].pc = "authority" /\ proc[p].has \in ServerCertificate
      BY <1>7 DEF SignCertificate, LocalInv, CommandInv, SettledInv
    <2>2. Moves(p) /\ proc'[p].pc = "rename"
      BY <1>7, <2>1, SignFields
    <2>3. QED
      BY <1>t, <2>1, <2>2, MovesOthers DEF Moves, ServicePCs, Settled, OperationInv
  <1>8. CASE ReplaceCertificate(p)
    <2>1. /\ proc' \in [Commands -> ProcState] /\ Others(p)
          /\ proc'[p].ask = proc[p].ask /\ proc'[p].pc = Ensured(p) /\ proc[p].pc = "rename"
      BY <1>8, ReplaceFields DEF Others
    <2>2. /\ Ensured(p) \in {"keystat", "initialized"}
          /\ Ensured(p) = "keystat" => proc[p].ask.op = "serve"
          /\ Ensured(p) = "initialized" => proc[p].ask.op = "init"
      BY <2>1, EnsuredTypes
    <2>3. QED
      BY <1>t, <2>1, <2>2 DEF ServicePCs, Settled, OperationInv
  <1>9. CASE StatCredentialKey(p) \/ CreateCredentialKey(p) \/ WriteCredentialKey(p)
    <2>1. PICK label \in {"keyload", "keycreate", "keywrite"} : Goto(p, label)
      BY <1>9 DEF StatCredentialKey, CreateCredentialKey, WriteCredentialKey
    <2>2. Moves(p) /\ proc'[p].pc = label
      BY <1>t, <2>1, GotoFields, Labels DEF Moves
    <2>3. proc[p].pc \in {"keystat", "keycreate", "keywrite"}
      BY <1>9 DEF StatCredentialKey, CreateCredentialKey, WriteCredentialKey
    <2>4. QED
      BY <1>t, <2>2, <2>3, MovesOthers DEF Moves, ServicePCs, Settled, OperationInv
  <1>10. CASE LoadCredentialKey(p)
    <2>1. Moves(p) /\ proc[p].pc = "keyload" /\ proc'[p].pc = "listen"
      BY <1>10, LoadKeyFields DEF LoadCredentialKey
    <2>2. QED
      BY <1>t, <2>1, MovesOthers DEF Moves, ServicePCs, Settled, OperationInv
  <1>11. CASE Listen(p)
    <2>1. Moves(p) /\ proc[p].pc = "listen" /\ proc'[p].pc = "serving"
      BY <1>11, ListenFields DEF Listen
    <2>2. QED
      BY <1>t, <2>1, MovesOthers DEF Moves, ServicePCs, Settled, OperationInv
  <1>12. QED
    BY <1>1, <1>2, <1>3, <1>4, <1>5, <1>6, <1>7, <1>8, <1>9, <1>10, <1>11 DEF ServiceStep

LEMMA ServiceFiles ==
    ASSUME HostTypes, LocalInv, NEW p \in Commands, ServiceStep(p)
    PROVE  /\ \/ files' = files
              \/ \E name \in LocalNames : \E value \in Value :
                    files' = [files EXCEPT ![TLS(name)] = value]
           /\ keys' \in Nat /\ UNCHANGED <<live, now, begun, crashes, workload>>
  <1>t. keys \in Nat /\ keys + 1 \in Nat /\ keys + 2 \in Nat /\ CommandInv(p)
    BY DEF HostTypes, LocalInv
  <1>1. CASE CreateIdentityFile(p)
    <2>1. /\ files' = [files EXCEPT ![TLS(IdentityFiles[proc[p].at + 1])] = Created]
          /\ proc[p].at \in 0 .. 3
      BY <1>1, CreateFields
    <2>2. PICK k \in 1 .. 4 : k = proc[p].at + 1
      BY <2>1
    <2>3. IdentityFiles[k] \in LocalNames
      BY NamesDiffer DEF LocalNames
    <2>4. QED
      BY <1>t, <1>1, <2>1, <2>2, <2>3, Carries DEF CreateIdentityFile, OnlyFiles
  <1>2. CASE WriteIdentityFile(p)
    <2>1. MakingInv(p) /\ proc[p].pc = "encode" /\ proc[p].at \in 0 .. 4 /\ proc[p].at < 4
      BY <1>t, <1>2, WriteFields DEF CommandInv, MakingInv
    <2>2. PICK k \in 1 .. 4 : k = proc[p].at + 1
      BY <2>1
    <2>3. files' = [files EXCEPT ![TLS(IdentityFiles[k])] = proc[p].has[IdentityFiles[k]]]
      BY <1>2, <2>2, WriteFields
    <2>4. proc[p].has[IdentityFiles[k]] \in Value
      BY <2>1, IdentityNames, Carries DEF MakingInv
    <2>5. IdentityFiles[k] \in LocalNames
      BY NamesDiffer DEF LocalNames
    <2>6. QED
      BY <1>t, <1>2, <2>3, <2>4, <2>5 DEF WriteIdentityFile, OnlyFiles
  <1>3. CASE ReplaceCertificate(p)
    <2>1. files' = [files EXCEPT ![TLS("server.crt")] = proc[p].has] /\ proc[p].pc = "rename"
      BY <1>3, ReplaceFields
    <2>2. proc[p].has \in Value /\ "server.crt" \in LocalNames
      BY <1>t, <2>1, Carries, IdentityNames DEF CommandInv, SettledInv, LocalNames
    <2>3. QED
      BY <1>t, <1>3, <2>1, <2>2 DEF ReplaceCertificate, OnlyFiles
  <1>4. CASE CreateCredentialKey(p) \/ WriteCredentialKey(p)
    <2>1. CredentialKey \in LocalNames /\ Created \in Value /\ keys + 1 \in Value
      BY <1>t, Carries DEF LocalNames
    <2>2. QED
      BY <1>t, <1>4, <2>1
      DEF CreateCredentialKey, CreateExclusive, WriteCredentialKey, WriteFile, OnlyFiles
  <1>5. CASE \/ StatIdentity(p) \/ IdentityGenerated(p) \/ LoadServerPair(p)
             \/ KeepCertificate(p) \/ SignCertificate(p) \/ StatCredentialKey(p)
             \/ LoadCredentialKey(p) \/ Listen(p) \/ GenerateIdentity(p)
    BY <1>t, <1>5
    DEF StatIdentity, IdentityGenerated, LoadServerPair, KeepCertificate, SignCertificate,
        StatCredentialKey, LoadCredentialKey, Listen, GenerateIdentity, OnlyReads, OnlyFiles
  <1>6. QED
    BY <1>1, <1>2, <1>3, <1>4, <1>5 DEF ServiceStep

-----------------------------------------------------------------------------
(* Restores.                                                               *)

Reading == {"next", "copy", "restored"}

RestoreInv(q) ==
    LET e == Source(q).entries IN
    /\ proc[q].pc \in {"target", "settings"} => proc[q].has = Nothing /\ proc[q].seen = {}
    /\ proc[q].pc \in Reading =>
          /\ SoundArchive(Source(q)) /\ (proc[q].has # Nothing => ~Source(q).closed)
          /\ proc[q].at <= Len(e)
          /\ \A k \in 1 .. Len(e) :
                (k <= proc[q].at \/ proc[q].pc = "restored") /\ e[k].kind = "content" =>
                   files[Restored(proc[q].ask.root, e[k].name)] = e[k].value
          /\ "config" \in proc[q].seen => files[ConfigFile(proc[q].ask.config)] = {"routes"}
    /\ proc[q].pc = "restored" => Source(q).closed /\ "config" \in proc[q].seen
    /\ proc[q].pc = "copy" =>
          /\ proc[q].at < Len(e) /\ Header(q).kind # "manifest" /\ files[Target(q)] = Created

RestoresInv ==
    /\ \A q \in Commands : RestoreInv(q)
    /\ \A q, r \in Commands :
          proc[q].pc = "copy" /\ proc[r].pc = "copy" /\ Target(q) = Target(r) => q = r

RestorePaths ==
    {ConfigFile(c) : c \in ConfigOutputs} \cup {Restored(r, n) : r \in Roots, n \in Names}

\* What is restored stays, and the archive that is read only grows.
LEMMA RestoreStays ==
    ASSUME HostTypes, NEW q \in Commands, RestoreInv(q),
           proc'[q].pc = proc[q].pc, proc'[q].ask = proc[q].ask, proc'[q].at = proc[q].at,
           proc'[q].seen = proc[q].seen,
           proc[q].pc \notin Reading => proc'[q].has = proc[q].has,
           proc[q].pc \in Reading =>
              /\ SoundArchive(Source(q)') /\ Extends(Source(q), Source(q)')
              /\ proc'[q].has # Nothing => ~Source(q)'.closed,
           \A path \in RestorePaths : files[path] \in Content => files'[path] = files[path],
           proc[q].pc = "copy" => files'[Target(q)] = files[Target(q)]
    PROVE  /\ RestoreInv(q)'
           /\ proc[q].pc = "copy" => Target(q)' = Target(q)
  <1>1. CASE proc[q].pc \notin Reading
    BY <1>1 DEF RestoreInv, Reading
  <1>2. CASE proc[q].pc \in Reading
    <2> DEFINE f == Source(q)
               g == Source(q)'
    <2>1. /\ SoundArchive(f) /\ SoundArchive(g) /\ Extends(f, g) /\ Len(f.entries) \in Nat
          /\ Len(g.entries) \in Nat
      <3>1. SoundArchive(f) /\ SoundArchive(g) /\ Extends(f, g)
        BY <1>2 DEF RestoreInv
      <3>2. f.entries \in Seq(EntryRecord) /\ g.entries \in Seq(EntryRecord)
        BY <3>1 DEF SoundArchive, ArchiveFile
      <3>3. QED
        BY <3>1, <3>2
    <2>2. proc[q].ask.root \in Roots /\ proc[q].ask.config \in ConfigOutputs /\ proc[q].at \in Nat
      BY <1>2, RestoreTypes DEF Reading, HostTypes, ProcState
    <2>3. files'[ConfigFile(proc[q].ask.config)] = {"routes"}
          \/ files[ConfigFile(proc[q].ask.config)] # {"routes"}
      BY <2>2 DEF RestorePaths, Content
    <2>4. ASSUME NEW k \in 1 .. Len(f.entries), f.entries[k].kind = "content",
                 files[Restored(proc[q].ask.root, f.entries[k].name)] = f.entries[k].value
          PROVE  files'[Restored(proc[q].ask.root, f.entries[k].name)] = f.entries[k].value
      <3>1. f.entries[k].name \in Names /\ f.entries[k].value \in Content
        BY <2>1, <2>4 DEF SoundArchive, GoodEntry, EntryRecord
      <3>2. QED
        BY <2>2, <2>4, <3>1 DEF RestorePaths
    <2>5. /\ proc[q].at <= Len(f.entries) /\ (proc[q].pc = "restored" => g = f)
          /\ proc[q].at <= Len(g.entries)
          /\ \A k \in 1 .. Len(g.entries) : k <= proc[q].at \/ proc[q].pc = "restored" =>
                k \in 1 .. Len(f.entries) /\ g.entries[k] = f.entries[k]
      BY <1>2, <2>1, <2>2 DEF RestoreInv, Extends
    <2>6. proc[q].pc = "copy" => /\ proc[q].at + 1 \in 1 .. Len(f.entries)
                                 /\ Header(q)' = Header(q) /\ Target(q)' = Target(q)
      <3>1. proc[q].pc = "copy" => proc[q].at + 1 \in 1 .. Len(f.entries)
        BY <2>1, <2>2 DEF RestoreInv
      <3>2. proc[q].pc = "copy" => Header(q)' = Header(q)
        BY <2>1, <3>1 DEF Extends, Header
      <3>3. QED
        BY <3>1, <3>2 DEF Target
    <2>7. ASSUME NEW k \in 1 .. Len(g.entries), k <= proc[q].at \/ proc[q].pc = "restored",
                 g.entries[k].kind = "content"
          PROVE  files'[Restored(proc[q].ask.root, g.entries[k].name)] = g.entries[k].value
      <3>1. k \in 1 .. Len(f.entries) /\ g.entries[k] = f.entries[k]
        BY <2>5, <2>7
      <3>2. QED
        BY <1>2, <2>4, <2>7, <3>1 DEF RestoreInv
    <2>8. QED
      <3>1. proc[q].pc = "copy" => proc[q].at < Len(g.entries)
        BY <2>1, <2>2 DEF RestoreInv, Extends
      <3>2. Source(q).closed => Source(q)'.closed
        BY <2>1 DEF Extends
      <3> HIDE DEF f
      <3>3. QED
        BY <1>2, <2>1, <2>3, <2>5, <2>6, <2>7, <3>1, <3>2 DEF RestoreInv, Reading
  <1>3. QED
    BY <1>1, <1>2

KeepsPlace(q) ==
    /\ proc'[q].pc = proc[q].pc /\ proc'[q].ask = proc[q].ask /\ proc'[q].at = proc[q].at
    /\ proc'[q].seen = proc[q].seen
    /\ proc[q].pc \notin Reading => proc'[q].has = proc[q].has

SourceStays(q) ==
    /\ SoundArchive(Source(q)') /\ Extends(Source(q), Source(q)')
    /\ proc'[q].has # Nothing => ~Source(q)'.closed

RestoresKept ==
    /\ \A path \in RestorePaths : files[path] \in Content => files'[path] = files[path]
    /\ \A q \in Commands : proc[q].pc = "copy" => files'[Target(q)] = files[Target(q)]

LEMMA SourceSame ==
    ASSUME HostTypes, NEW q \in Commands, RestoreInv(q), proc[q].pc \in Reading,
           proc'[q].has = proc[q].has, proc'[q].ask = proc[q].ask, ArchiveSame
    PROVE  SourceStays(q)
  <1>1. Source(q)' = Source(q)
    <2>1. proc[q].ask.archive \in Archives
      BY RestoreTypes DEF Reading
    <2>2. QED
      BY <2>1 DEF Source, ArchiveSame, ArchiveAt
  <1>2. SoundArchive(Source(q)) /\ (proc[q].has # Nothing => ~Source(q).closed)
    BY DEF RestoreInv
  <1>3. Len(Source(q).entries) \in Nat
    BY <1>2 DEF SoundArchive, ArchiveFile
  <1>4. QED
    BY <1>1, <1>2, <1>3 DEF SourceStays, Extends

\* Steps that are not of a restore keep what restores have done.
LEMMA RestoresStay ==
    ASSUME HostTypes, RestoresInv, RestoresKept,
           \A q \in Commands :
              \/ KeepsPlace(q) /\ (proc[q].pc \in Reading => SourceStays(q))
              \/ proc'[q].pc \notin Reading \cup {"target", "settings"}
              \/ proc'[q].pc = "target" /\ proc'[q].has = Nothing /\ proc'[q].seen = {}
    PROVE  RestoresInv'
  <1>1. ASSUME NEW q \in Commands
        PROVE  /\ RestoreInv(q)'
               /\ proc'[q].pc = "copy" => proc[q].pc = "copy" /\ Target(q)' = Target(q)
    <2>1. CASE KeepsPlace(q) /\ (proc[q].pc \in Reading => SourceStays(q))
      BY <2>1, RestoreStays DEF RestoresInv, RestoresKept, KeepsPlace, SourceStays
    <2>2. CASE proc'[q].pc \notin Reading \cup {"target", "settings"}
      BY <2>2 DEF RestoreInv, Reading
    <2>3. CASE proc'[q].pc = "target" /\ proc'[q].has = Nothing /\ proc'[q].seen = {}
      BY <2>3 DEF RestoreInv, Reading
    <2>4. QED
      BY <2>1, <2>2, <2>3
  <1>2. QED
    BY <1>1 DEF RestoresInv

LEMMA RestorePathTypes ==
    /\ RestorePaths \subseteq Paths
    /\ \A path \in RestorePaths : /\ \A name \in LocalNames : path # TLS(name)
                                  /\ \A a \in Archives : path # Archive(a)
  BY PathTypes, PathsDiffer DEF RestorePaths, LocalNames

\* The target of a restore is a path of its own root, or its configuration.
LEMMA TargetTypes ==
    ASSUME HostTypes, NEW q \in Commands, proc[q].pc \in Reading, SoundArchive(Source(q)),
           proc[q].at < Len(Source(q).entries), Header(q).kind # "manifest"
    PROVE  /\ Target(q) \in RestorePaths /\ GoodEntry(Header(q))
           /\ Header(q).kind \in {"config", "content"}
           /\ proc[q].at + 1 \in 1 .. Len(Source(q).entries)
  <1>1. /\ proc[q].ask.root \in Roots /\ proc[q].ask.config \in ConfigOutputs /\ proc[q].at \in Nat
        /\ Len(Source(q).entries) \in Nat
    BY RestoreTypes DEF Reading, HostTypes, ProcState, SoundArchive, ArchiveFile
  <1>2. proc[q].at + 1 \in 1 .. Len(Source(q).entries)
    BY <1>1
  <1>3. GoodEntry(Header(q))
    BY <1>2 DEF SoundArchive, Header
  <1>4. Header(q).kind = "config" \/ (Header(q).kind = "content" /\ Header(q).name \in Names)
    BY <1>3 DEF GoodEntry, EntryRecord
  <1>5. QED
    BY <1>1, <1>2, <1>3, <1>4 DEF Target, RestorePaths

LEMMA CopyTarget ==
    ASSUME HostTypes, NEW q \in Commands, RestoreInv(q), proc[q].pc = "copy"
    PROVE  Target(q) \in RestorePaths /\ files[Target(q)] = Created
  BY TargetTypes DEF RestoreInv, Reading

\* Steps of a starting server leave archives and restores alone.
LEMMA ServiceElsewhere ==
    ASSUME HostTypes, LocalInv, ArchivesInv, RestoresInv, NEW p \in Commands, ServiceStep(p)
    PROVE  ArchivesInv' /\ RestoresInv'
  <1>1. \A path \in Paths : (\A name \in LocalNames : path # TLS(name)) => files'[path] = files[path]
    BY ServiceFiles DEF HostTypes
  <1>2. ArchiveSame
    BY <1>1, PathsDiffer, PathTypes DEF ArchiveSame, ArchiveAt
  <1>3. RestoresKept
    BY <1>1, RestorePathTypes, CopyTarget DEF RestoresKept, RestoresInv
  <1>4. /\ Others(p) /\ proc[p].pc \in ServicePCs /\ proc'[p].pc \in ServicePCs
        /\ live' = live /\ crashes' = crashes /\ crashes \in Nat
    BY ServiceMoves, ServiceFiles, HostConstants DEF HostTypes
  <1>5. proc[p].pc # "archive" /\ proc'[p].pc # "archive"
        /\ proc'[p].pc \notin Reading \cup {"target", "settings"}
    BY <1>4 DEF ServicePCs, Settled, Reading
  <1>6. ArchivesInv'
    BY <1>2, <1>4, <1>5, ArchivesStay DEF Others, BackingUp
  <1>7. ASSUME NEW q \in Commands \ {p}
        PROVE  KeepsPlace(q) /\ (proc[q].pc \in Reading => SourceStays(q))
    BY <1>2, <1>4, SourceSame DEF Others, KeepsPlace, RestoresInv
  <1>8. RestoresInv'
    BY <1>3, <1>5, <1>7, RestoresStay
  <1>9. QED
    BY <1>6, <1>8

\* Commands that begin, stop or die, the service and time.
LEMMA BeginTypes ==
    ASSUME HostTypes, NEW p \in Commands, Run(p)
    PROVE  /\ HostTypes' /\ UNCHANGED <<files, live, crashes>>
           /\ \A q \in Commands \ {p} : proc'[q] = proc[q]
           /\ proc[p].pc \in {"idle", "initialized", "restored"}
           /\ proc'[p].pc \in {"stat", "output", "target"}
           /\ proc'[p].has = Nothing /\ proc'[p].seen = {}
  <1>1. PICK ask \in workload.asks :
           proc' = [proc EXCEPT ![p] = [Idle EXCEPT !.pc = FirstStep(ask.op), !.ask = ask]]
    BY DEF Run
  <1>2. ask \in Ask /\ ask # NoAsk
    BY HostConstants DEF HostTypes
  <1>3. ask.op \in {"serve", "init", "backup", "restore"}
    BY <1>2, AskTypes
  <1>4. PICK label \in {"stat", "output", "target"} : label = FirstStep(ask.op)
    BY <1>3 DEF FirstStep
  <1>5. /\ label = "stat" => ask.op \in {"serve", "init"}
        /\ label = "output" => ask.op = "backup"
        /\ label = "target" => ask.op = "restore"
    BY <1>3, <1>4 DEF FirstStep
  <1>6. PICK r : r = [Idle EXCEPT !.pc = label, !.ask = ask]
    OBVIOUS
  <1>7. r \in ProcState /\ r.pc = label /\ r.ask = ask /\ r.has = Nothing /\ r.seen = {}
    <2>1. label \in PCs /\ ask \in Asked
      BY <1>2 DEF PCs, Asked
    <2>2. QED
      BY <1>6, <2>1, IdleTypes DEF ProcState
  <1>8. proc' = [proc EXCEPT ![p] = r] /\ UNCHANGED <<files, live, now, keys, crashes, workload>>
    BY <1>1, <1>4, <1>6 DEF Run
  <1>9. /\ proc' \in [Commands -> ProcState] /\ \A q \in Commands \ {p} : proc'[q] = proc[q]
        /\ proc'[p] = r
    BY <1>7, <1>8 DEF HostTypes
  <1>10. \A q \in Commands : OperationInv(q)'
    <2>0. proc'[p].pc = label /\ proc'[p].ask = ask
      BY <1>7, <1>9
    <2>1. OperationInv(p)'
      <3>1. CASE label = "stat"
        BY <1>2, <1>5, <2>0, <3>1 DEF OperationInv
      <3>2. CASE label = "output"
        BY <1>2, <1>5, <2>0, <3>2 DEF OperationInv
      <3>3. CASE label = "target"
        BY <1>2, <1>5, <2>0, <3>3 DEF OperationInv
      <3>4. QED
        BY <3>1, <3>2, <3>3
    <2>2. \A q \in Commands \ {p} : OperationInv(q)'
      BY <1>9 DEF HostTypes, OperationInv
    <2>3. QED
      BY <2>1, <2>2
  <1>11. begun' \in 0 .. workload.commands
    <2>1. workload.commands \in Nat /\ begun < workload.commands /\ begun' = begun + 1
      BY HostConstants DEF HostTypes, Run
    <2>2. QED
      BY <2>1 DEF HostTypes
  <1>12. HostTypes'
    BY <1>8, <1>9, <1>10, <1>11 DEF HostTypes, LiveInv
  <1>13. proc[p].pc \in {"idle", "initialized", "restored"}
    BY DEF Run, Running
  <1>14. QED
    BY <1>7, <1>8, <1>9, <1>12, <1>13

LEMMA EndTypes ==
    ASSUME HostTypes, NEW p \in Commands, Stop(p) \/ CommandDies(p)
    PROVE  /\ HostTypes' /\ UNCHANGED <<files, live>> /\ crashes' >= crashes /\ crashes' \in Nat
           /\ \A q \in Commands \ {p} : proc'[q] = proc[q]
           /\ proc'[p].pc = "idle" /\ (proc[p].pc = "archive" => crashes' > 0)
  <1>1. proc' = [proc EXCEPT ![p] = Idle] /\ UNCHANGED <<files, live, now, keys, begun, workload>>
    BY DEF Stop, CommandDies, OnlyReads, OnlyFiles
  <1>2. /\ crashes \in Nat /\ crashes' \in 0 .. MaxCrashes /\ crashes' >= crashes
        /\ proc[p].pc = "archive" => crashes' > 0
    BY HostConstants DEF HostTypes, Stop, CommandDies, OnlyReads, OnlyFiles
  <1>3. /\ proc' \in [Commands -> ProcState] /\ \A q \in Commands \ {p} : proc'[q] = proc[q]
        /\ proc'[p].pc = "idle" /\ proc'[p].ask = NoAsk
    BY <1>1, IdleTypes DEF HostTypes
  <1>4. \A q \in Commands : OperationInv(q)'
    <2>1. OperationInv(p)'
      BY <1>3 DEF OperationInv
    <2>2. \A q \in Commands \ {p} : OperationInv(q)'
      BY <1>3 DEF HostTypes, OperationInv
    <2>3. QED
      BY <2>1, <2>2
  <1>5. QED
    BY <1>1, <1>2, <1>3, <1>4 DEF HostTypes, LiveInv

LEMMA ServiceLives ==
    ASSUME HostTypes, StoreBlob \/ RecordBlob \/ Tick \/ UNCHANGED vars
    PROVE  /\ HostTypes' /\ UNCHANGED <<files, proc, crashes>>
           /\ (\E q \in Commands : BackingUp(q)) => live' = live
  <1>1. LiveInv'
    <2>1. ASSUME NEW b \in workload.blobs \ live.blobs, live' = [live EXCEPT !.blobs = @ \cup {b}]
          PROVE  LiveInv'
      <3>1. b \in Blobs
        BY HostConstants DEF HostTypes
      <3>2. QED
        BY <2>1, <3>1 DEF HostTypes, LiveInv
    <2>2. ASSUME NEW b \in live.blobs \ live.database,
                 live' = [live EXCEPT !.database = @ \cup {b}]
          PROVE  LiveInv'
      BY <2>2 DEF HostTypes, LiveInv
    <2>3. live' = live => LiveInv'
      BY DEF HostTypes, LiveInv
    <2>4. QED
      BY <2>1, <2>2, <2>3 DEF StoreBlob, RecordBlob, Tick, vars
  <1>2. /\ UNCHANGED <<files, proc, crashes, keys, begun, workload>> /\ now' \in Nat
        /\ (\E q \in Commands : BackingUp(q)) => live' = live
    BY DEF StoreBlob, RecordBlob, Tick, vars, HostTypes, Offline, BackingUp
  <1>3. QED
    BY <1>1, <1>2 DEF HostTypes, OperationInv

LEMMA OthersElsewhere ==
    ASSUME HostTypes, ArchivesInv, RestoresInv,
           \/ \E p \in Commands : Run(p) \/ Stop(p) \/ CommandDies(p)
           \/ StoreBlob \/ RecordBlob \/ Tick \/ UNCHANGED vars
    PROVE  HostTypes' /\ ArchivesInv' /\ RestoresInv'
  <1>0. crashes \in Nat
    BY HostConstants DEF HostTypes
  <1>1. ASSUME files' = files, NEW p \in Commands, \A q \in Commands \ {p} : proc'[q] = proc[q],
               live' = live, crashes' \in Nat, crashes' >= crashes,
               proc[p].pc = "archive" => crashes' > 0, proc'[p].pc # "archive",
               \/ proc'[p].pc \notin Reading \cup {"target", "settings"}
               \/ proc'[p].pc = "target" /\ proc'[p].has = Nothing /\ proc'[p].seen = {}
        PROVE  ArchivesInv' /\ RestoresInv'
    <2>1. ArchiveSame /\ RestoresKept
      BY <1>1 DEF ArchiveSame, ArchiveAt, RestoresKept
    <2>2. ArchivesInv'
      BY <1>1, <2>1, ArchivesStay DEF BackingUp
    <2>3. ASSUME NEW q \in Commands \ {p}
          PROVE  KeepsPlace(q) /\ (proc[q].pc \in Reading => SourceStays(q))
      BY <1>1, <2>1, SourceSame DEF KeepsPlace, RestoresInv
    <2>4. RestoresInv'
      BY <1>1, <2>1, <2>3, RestoresStay
    <2>5. QED
      BY <2>2, <2>4
  <1>2. ASSUME NEW p \in Commands, Run(p)
        PROVE  HostTypes' /\ ArchivesInv' /\ RestoresInv'
    <2>1. /\ HostTypes' /\ UNCHANGED <<files, live, crashes>>
          /\ \A q \in Commands \ {p} : proc'[q] = proc[q]
          /\ proc[p].pc \in {"idle", "initialized", "restored"}
          /\ proc'[p].pc \in {"stat", "output", "target"}
          /\ proc'[p].has = Nothing /\ proc'[p].seen = {}
      BY <1>2, BeginTypes
    <2>2. QED
      BY <1>0, <1>1, <2>1 DEF Reading
  <1>3. ASSUME NEW p \in Commands, Stop(p) \/ CommandDies(p)
        PROVE  HostTypes' /\ ArchivesInv' /\ RestoresInv'
    <2>1. /\ HostTypes' /\ UNCHANGED <<files, live>> /\ crashes' >= crashes /\ crashes' \in Nat
          /\ \A q \in Commands \ {p} : proc'[q] = proc[q]
          /\ proc'[p].pc = "idle" /\ (proc[p].pc = "archive" => crashes' > 0)
      BY <1>3, EndTypes
    <2>2. QED
      BY <1>1, <2>1 DEF Reading
  <1>4. CASE StoreBlob \/ RecordBlob \/ Tick \/ UNCHANGED vars
    <2>1. /\ HostTypes' /\ UNCHANGED <<files, proc, crashes>>
          /\ (\E q \in Commands : BackingUp(q)) => live' = live
      BY <1>4, ServiceLives
    <2>2. ArchiveSame /\ RestoresKept
      BY <2>1 DEF ArchiveSame, ArchiveAt, RestoresKept
    <2>3. ArchivesInv'
      BY <1>0, <2>1, <2>2, ArchivesStay DEF BackingUp
    <2>4. ASSUME NEW q \in Commands
          PROVE  KeepsPlace(q) /\ (proc[q].pc \in Reading => SourceStays(q))
      BY <2>1, <2>2, SourceSame DEF KeepsPlace, RestoresInv
    <2>5. RestoresInv'
      BY <2>2, <2>4, RestoresStay
    <2>6. QED
      BY <2>1, <2>3, <2>5
  <1>5. QED
    BY <1>2, <1>3, <1>4

-----------------------------------------------------------------------------
(* Steps of backups, and commands that return an error.                    *)

\* A write of its own output disturbs no restored file and no other archive.
LEMMA OutputWritten ==
    ASSUME HostTypes, RestoresInv, NEW p \in Commands, proc[p].pc \in {"open", "archive"},
           NEW f, f \in Value, files' = [files EXCEPT ![Output(p)] = f]
    PROVE  /\ RestoresKept /\ files' \in [Paths -> Value] /\ files'[Output(p)] = f
           /\ \A a \in Archives : Archive(a) # Output(p) => ArchiveAt(a)' = ArchiveAt(a)
  <1>1. proc[p].ask.archive \in Archives /\ Output(p) \in Paths
    BY OutputTypes
  <1>2. \A path \in RestorePaths : files'[path] = files[path]
    BY <1>1, RestorePathTypes DEF Output, HostTypes
  <1>3. RestoresKept
    BY <1>2, CopyTarget DEF RestoresKept, RestoresInv
  <1>4. QED
    BY <1>1, <1>3, PathTypes DEF ArchiveAt, HostTypes

\* The archive a restore reads is not one that was absent or is closed.
LEMMA OutputGrows ==
    ASSUME HostTypes, RestoresInv, NEW p \in Commands, proc[p].pc \in {"open", "archive"},
           NEW f, f \in Value, files' = [files EXCEPT ![Output(p)] = f],
           NEW old, old = files[Output(p)],
           old # Absent => SoundArchive(f) /\ Extends(old, f),
           Others(p), proc'[p].pc \in {"idle", "archive"}
    PROVE  RestoresInv'
  <1>1. /\ RestoresKept /\ files'[Output(p)] = f
        /\ \A a \in Archives : Archive(a) # Output(p) => ArchiveAt(a)' = ArchiveAt(a)
    BY OutputWritten
  <1>2. ASSUME NEW q \in Commands \ {p}, proc[q].pc \in Reading
        PROVE  SourceStays(q)
    <2>1. /\ SoundArchive(Source(q)) /\ (proc[q].has # Nothing => ~Source(q).closed)
          /\ proc[q].ask.archive \in Archives
          /\ proc'[q].has = proc[q].has /\ proc'[q].ask = proc[q].ask
      BY <1>2, RestoreTypes DEF RestoresInv, RestoreInv, Others, Reading
    <2>2. Len(Source(q).entries) \in Nat
      BY <2>1 DEF SoundArchive, ArchiveFile
    <2>3. CASE proc[q].has # Nothing \/ Archive(proc[q].ask.archive) # Output(p)
      <3>1. Source(q)' = Source(q)
        BY <1>1, <2>1, <2>3 DEF Source, ArchiveAt
      <3>2. QED
        BY <2>1, <2>2, <3>1 DEF SourceStays, Extends
    <2>4. CASE proc[q].has = Nothing /\ Archive(proc[q].ask.archive) = Output(p)
      <3>1. Source(q) = old /\ Source(q)' = f
        BY <1>1, <2>1, <2>4 DEF Source
      <3>2. old # Absent
        BY <2>1, <3>1, WrittenValues DEF SoundArchive
      <3>3. QED
        BY <2>1, <2>4, <3>1, <3>2 DEF SourceStays
    <2>5. QED
      BY <2>3, <2>4
  <1>3. \A q \in Commands \ {p} : KeepsPlace(q)
    BY DEF Others, KeepsPlace
  <1>4. proc'[p].pc \notin Reading \cup {"target", "settings"}
    BY DEF Reading
  <1>5. QED
    BY <1>1, <1>2, <1>3, <1>4, RestoresStay

LEMMA StatOutputKeeps ==
    ASSUME HostTypes, ArchivesInv, RestoresInv, NEW p \in Commands, StatOutput(p)
    PROVE  HostTypes' /\ ArchivesInv' /\ RestoresInv'
  <1>1. /\ proc[p].pc = "output" /\ Goto(p, "open")
        /\ UNCHANGED <<files, live, now, keys, begun, crashes, workload>>
        /\ crashes \in Nat
    BY HostConstants DEF StatOutput, OnlyReads, OnlyFiles, HostTypes
  <1>2. Moves(p) /\ proc'[p].pc = "open" /\ Others(p)
    BY <1>1, GotoFields, Labels, MovesOthers DEF HostTypes, Moves
  <1>3. \A q \in Commands : OperationInv(q)'
    BY <1>1, <1>2 DEF HostTypes, OperationInv, Moves
  <1>4. HostTypes'
    BY <1>1, <1>2, <1>3 DEF HostTypes, LiveInv, Moves
  <1>5. ArchiveSame /\ RestoresKept
    BY <1>1 DEF ArchiveSame, ArchiveAt, RestoresKept
  <1>6. ArchivesInv'
    BY <1>1, <1>2, <1>5, ArchivesStay DEF BackingUp, Moves
  <1>7. ASSUME NEW q \in Commands \ {p}
        PROVE  KeepsPlace(q) /\ (proc[q].pc \in Reading => SourceStays(q))
    BY <1>2, <1>5, SourceSame DEF KeepsPlace, RestoresInv, Others
  <1>8. RestoresInv'
    BY <1>2, <1>5, <1>7, RestoresStay DEF Reading
  <1>9. QED
    BY <1>4, <1>6, <1>8

LEMMA CreateOutputKeeps ==
    ASSUME HostTypes, ArchivesInv, RestoresInv, NEW p \in Commands, CreateOutput(p)
    PROVE  HostTypes' /\ ArchivesInv' /\ RestoresInv'
  <1>1. PICK f : f = [entries |-> <<>>, closed |-> FALSE]
    OBVIOUS
  <1>2. /\ proc[p].pc = "open" /\ Goto(p, "archive") /\ files[Output(p)] = Absent
        /\ files' = [files EXCEPT ![Output(p)] = f]
        /\ UNCHANGED <<live, now, keys, begun, crashes, workload>>
    BY <1>1 DEF CreateOutput, OnlyFiles, WriteFile
  <1>3. SoundArchive(f) /\ ~f.closed /\ Len(f.entries) = 0 /\ f \in Value /\ f # Absent
    BY <1>1, NewArchive, Carries, WrittenValues DEF SoundArchive
  <1>4. Moves(p) /\ proc'[p].pc = "archive" /\ proc'[p].at = 0 /\ Others(p)
    BY <1>2, GotoFields, Labels, MovesOthers DEF HostTypes, Moves
  <1>5. \A q \in Commands : OperationInv(q)'
    BY <1>2, <1>4 DEF HostTypes, OperationInv, Moves
  <1>6. files' \in [Paths -> Value]
    BY <1>2, <1>3, OutputWritten
  <1>7. HostTypes'
    BY <1>2, <1>4, <1>5, <1>6 DEF HostTypes, LiveInv, Moves
  <1>8. Len(Contents) \in Nat
    BY ContentsAre DEF HostTypes
  <1>9. ArchivesInv'
    <2>1. BackingUp(p)'
      BY <1>4 DEF BackingUp
    <2>2. /\ f # Absent /\ ~f.closed /\ proc'[p].ask = proc[p].ask
          /\ Len(f.entries) = proc'[p].at /\ proc'[p].at <= Len(Contents)
          /\ \A k \in 1 .. Len(f.entries) : f.entries[k] = Contents[k]
      BY <1>3, <1>4, <1>8 DEF Moves
    <2>3. \A q \in Commands \ {p} : /\ proc'[q].pc = proc[q].pc /\ proc'[q].ask = proc[q].ask
                                    /\ proc'[q].at = proc[q].at
      BY <1>4 DEF Others
    <2>4. QED
      BY <1>2, <1>3, <2>1, <2>2, <2>3, BackupWrites
  <1>10. RestoresInv'
    BY <1>2, <1>3, <1>4, OutputGrows
  <1>11. QED
    BY <1>7, <1>9, <1>10

LEMMA WriteEntryKeeps ==
    ASSUME HostTypes, ArchivesInv, RestoresInv, NEW p \in Commands, WriteEntry(p)
    PROVE  HostTypes' /\ ArchivesInv' /\ RestoresInv'
  <1>t. proc \in [Commands -> ProcState] /\ files \in [Paths -> Value]
    BY DEF HostTypes
  <1>0. /\ BackingUp(p) /\ proc[p].pc = "archive" /\ proc[p].at < Len(Contents)
        /\ UNCHANGED <<live, now, keys, begun, crashes, workload>>
    BY DEF WriteEntry, BackingUp, OnlyFiles
  <1>1. PICK old : old = files[Output(p)]
    OBVIOUS
  <1>2. PICK e : e = Contents[proc[p].at + 1]
    OBVIOUS
  <1>3. /\ old # Absent /\ SoundArchive(old) /\ ~old.closed
        /\ Len(old.entries) = proc[p].at /\ proc[p].at \in Nat /\ Len(Contents) \in Nat
        /\ \A k \in 1 .. Len(old.entries) : old.entries[k] = Contents[k]
        /\ GoodEntry(e)
    BY <1>0, <1>1, <1>2, OneMore
  <1>4. PICK f : f = [old EXCEPT !.entries = Append(@, e)]
    OBVIOUS
  <1>5. /\ SoundArchive(f) /\ ~f.closed /\ Extends(old, f)
        /\ Len(f.entries) = proc[p].at + 1 /\ f.entries[proc[p].at + 1] = e
    BY <1>3, <1>4, Appended
  <1>6. f \in Value /\ f # Absent
    BY <1>5, Carries, WrittenValues DEF SoundArchive
  <1>7. files' = [files EXCEPT ![Output(p)] = f]
    BY <1>1, <1>2, <1>4 DEF WriteEntry
  <1>8. Moves(p) /\ proc'[p].pc = "archive" /\ proc'[p].at = proc[p].at + 1
    <2>1. proc' = [proc EXCEPT ![p].at = @ + 1]
      BY DEF WriteEntry, Advance
    <2>2. proc[p].at + 1 \in Nat
      BY <1>3
    <2>3. QED
      BY <1>t, <1>0, <2>1, <2>2 DEF ProcState, Moves
  <1>9. \A q \in Commands : OperationInv(q)'
    BY <1>0, <1>8 DEF HostTypes, OperationInv, Moves
  <1>10. files' \in [Paths -> Value]
    BY <1>0, <1>6, <1>7, OutputWritten
  <1>11. HostTypes'
    BY <1>0, <1>8, <1>9, <1>10 DEF HostTypes, LiveInv, Moves
  <1>12. Others(p)
    BY <1>8, MovesOthers
  <1>13. ArchivesInv'
    <2>1. /\ Len(f.entries) = proc'[p].at /\ proc'[p].at <= Len(Contents)
          /\ proc'[p].ask = proc[p].ask
      BY <1>0, <1>3, <1>5, <1>8 DEF Moves
    <2>2. ASSUME NEW k \in 1 .. Len(f.entries)
          PROVE  f.entries[k] = Contents[k]
      <3>1. k \in 1 .. Len(old.entries) \/ k = proc[p].at + 1
        BY <1>3, <1>5
      <3>2. QED
        BY <1>2, <1>3, <1>5, <3>1 DEF Extends
    <2>3. \A q \in Commands \ {p} : /\ proc'[q].pc = proc[q].pc /\ proc'[q].ask = proc[q].ask
                                    /\ proc'[q].at = proc[q].at
      BY <1>12 DEF Others
    <2>4. BackingUp(p)'
      BY <1>8 DEF BackingUp
    <2>5. QED
      BY <1>0, <1>5, <1>6, <1>7, <2>1, <2>2, <2>3, <2>4, BackupWrites
  <1>14. RestoresInv'
    BY <1>0, <1>1, <1>5, <1>6, <1>7, <1>8, <1>12, OutputGrows
  <1>15. QED
    BY <1>11, <1>13, <1>14

LEMMA CloseOutputKeeps ==
    ASSUME HostTypes, ArchivesInv, RestoresInv, NEW p \in Commands, CloseOutput(p)
    PROVE  HostTypes' /\ ArchivesInv' /\ RestoresInv'
  <1>t. proc \in [Commands -> ProcState] /\ files \in [Paths -> Value]
    BY DEF HostTypes
  <1>0. /\ BackingUp(p) /\ proc[p].pc = "archive" /\ proc[p].at = Len(Contents)
        /\ proc' = [proc EXCEPT ![p] = Idle]
        /\ UNCHANGED <<live, now, keys, begun, crashes, workload>>
    BY DEF CloseOutput, BackingUp, OnlyFiles
  <1>1. PICK old : old = files[Output(p)]
    OBVIOUS
  <1>2. /\ old # Absent /\ SoundArchive(old) /\ ~old.closed /\ Len(old.entries) = Len(Contents)
        /\ \A k \in 1 .. Len(old.entries) : old.entries[k] = Contents[k]
    BY <1>0, <1>1, OneMore
  <1>3. PICK f : f = [old EXCEPT !.closed = TRUE]
    OBVIOUS
  <1>4. SoundArchive(f) /\ f.closed /\ Extends(old, f)
    BY <1>2, <1>3, Closed DEF HostTypes
  <1>5. f \in Value /\ f # Absent
    BY <1>4, Carries, WrittenValues DEF SoundArchive
  <1>6. files' = [files EXCEPT ![Output(p)] = f]
    BY <1>1, <1>3 DEF CloseOutput
  <1>7. /\ proc' \in [Commands -> ProcState] /\ \A q \in Commands \ {p} : proc'[q] = proc[q]
        /\ proc'[p].pc = "idle" /\ proc'[p].ask = NoAsk
    BY <1>t, <1>0, IdleTypes
  <1>8. \A q \in Commands : OperationInv(q)'
    <2>1. OperationInv(p)'
      BY <1>7 DEF OperationInv
    <2>2. \A q \in Commands \ {p} : OperationInv(q)'
      BY <1>7 DEF HostTypes, OperationInv
    <2>3. QED
      BY <2>1, <2>2
  <1>9. files' \in [Paths -> Value]
    BY <1>0, <1>5, <1>6, OutputWritten
  <1>10. HostTypes'
    BY <1>0, <1>7, <1>8, <1>9 DEF HostTypes, LiveInv
  <1>11. Others(p) /\ ~BackingUp(p)'
    BY <1>7 DEF Others, BackingUp
  <1>12. ArchivesInv'
    <2>1. \A q \in Commands \ {p} : /\ proc'[q].pc = proc[q].pc /\ proc'[q].ask = proc[q].ask
                                    /\ proc'[q].at = proc[q].at
      BY <1>11 DEF Others
    <2>2. QED
      BY <1>0, <1>4, <1>6, <1>11, <2>1, BackupWrites
  <1>13. RestoresInv'
    BY <1>0, <1>1, <1>4, <1>5, <1>6, <1>7, <1>11, OutputGrows
  <1>14. QED
    BY <1>10, <1>12, <1>13

\* A command that returns an error: only its own unfinished archive goes, and
\* who reads that has it open.
LEMMA ExitProcs ==
    ASSUME HostTypes, NEW p \in Commands, Exit(p)
    PROVE  /\ proc' \in [Commands -> ProcState]
           /\ proc'[p].pc = "idle" /\ proc'[p].ask = NoAsk
           /\ \A q \in Commands \ {p} :
                 /\ proc'[q].pc = proc[q].pc /\ proc'[q].ask = proc[q].ask
                 /\ proc'[q].at = proc[q].at /\ proc'[q].seen = proc[q].seen
                 /\ proc'[q].has = IF BackingUp(p) /\ Opened(q, Output(p)) THEN files[Output(p)]
                                   ELSE proc[q].has
           /\ \A q \in Commands : OperationInv(q)'
           /\ UNCHANGED <<live, now, keys, begun, crashes, workload>>
  <1>t. proc \in [Commands -> ProcState] /\ files \in [Paths -> Value]
    BY DEF HostTypes
  <1>1. /\ proc' = [q \in Commands |->
                      IF q = p THEN Idle
                      ELSE IF BackingUp(p) /\ Opened(q, Output(p))
                      THEN [proc[q] EXCEPT !.has = files[Output(p)]] ELSE proc[q]]
        /\ UNCHANGED <<live, now, keys, begun, crashes, workload>>
    BY DEF Exit
  <1>2. proc'[p] = Idle
    BY <1>1
  <1>3. ASSUME NEW q \in Commands \ {p}
        PROVE  /\ proc'[q] \in ProcState
               /\ proc'[q].pc = proc[q].pc /\ proc'[q].ask = proc[q].ask
               /\ proc'[q].at = proc[q].at /\ proc'[q].seen = proc[q].seen
               /\ proc'[q].has = IF BackingUp(p) /\ Opened(q, Output(p)) THEN files[Output(p)]
                                 ELSE proc[q].has
    <2>1. CASE BackingUp(p) /\ Opened(q, Output(p))
      <3>1. PICK old \in Carried : old = files[Output(p)]
        BY <1>t, <2>1, OutputTypes, Carries DEF BackingUp
      <3>2. proc'[q] = [proc[q] EXCEPT !.has = old] /\ proc[q] \in ProcState
        BY <1>t, <1>1, <2>1, <3>1
      <3>3. QED
        BY <2>1, <3>1, <3>2 DEF ProcState
    <2>2. CASE ~(BackingUp(p) /\ Opened(q, Output(p)))
      BY <1>t, <1>1, <2>2
    <2>3. QED
      BY <2>1, <2>2
  <1>4. proc' \in [Commands -> ProcState]
    BY <1>1, <1>2, <1>3, IdleTypes
  <1>5. \A q \in Commands : OperationInv(q)'
    <2>1. OperationInv(p)'
      BY <1>2, IdleTypes DEF OperationInv
    <2>2. \A q \in Commands \ {p} : OperationInv(q)'
      BY <1>3 DEF HostTypes, OperationInv
    <2>3. QED
      BY <2>1, <2>2
  <1>6. QED
    BY <1>1, <1>2, <1>3, <1>4, <1>5, IdleTypes

LEMMA ExitKeeps ==
    ASSUME HostTypes, ArchivesInv, RestoresInv, NEW p \in Commands, Exit(p)
    PROVE  HostTypes' /\ ArchivesInv' /\ RestoresInv'
  <1>t. files \in [Paths -> Value] /\ crashes \in Nat
    BY HostConstants DEF HostTypes
  <1>1. /\ proc' \in [Commands -> ProcState]
        /\ proc'[p].pc = "idle" /\ proc'[p].ask = NoAsk
        /\ \A q \in Commands \ {p} :
              /\ proc'[q].pc = proc[q].pc /\ proc'[q].ask = proc[q].ask
              /\ proc'[q].at = proc[q].at /\ proc'[q].seen = proc[q].seen
              /\ proc'[q].has = IF BackingUp(p) /\ Opened(q, Output(p)) THEN files[Output(p)]
                                ELSE proc[q].has
        /\ \A q \in Commands : OperationInv(q)'
        /\ UNCHANGED <<live, now, keys, begun, crashes, workload>>
    BY ExitProcs
  <1>2. ~BackingUp(p)' /\ proc'[p].pc \notin Reading \cup {"target", "settings"}
    BY <1>1 DEF BackingUp, Reading
  <1>3. \A q \in Commands \ {p} : KeepsPlace(q)
    BY <1>1 DEF KeepsPlace, Opened, Reading
  <1>4. CASE BackingUp(p)
    <2>0. proc[p].pc = "archive" /\ files' = [files EXCEPT ![Output(p)] = Absent]
      BY <1>4 DEF BackingUp, Exit
    <2>1. PICK old : old = files[Output(p)]
      OBVIOUS
    <2>2. old # Absent /\ SoundArchive(old) /\ ~old.closed /\ old # Nothing
      BY <1>4, <2>1, OneMore, HostConstants DEF SoundArchive
    <2>3. /\ RestoresKept /\ files' \in [Paths -> Value]
          /\ \A a \in Archives : Archive(a) # Output(p) => ArchiveAt(a)' = ArchiveAt(a)
      BY <2>0, Carries, OutputWritten
    <2>4. ArchivesInv'
      BY <1>1, <1>2, <1>4, <2>0, BackupWrites
    <2>5. ASSUME NEW q \in Commands \ {p}, proc[q].pc \in Reading
          PROVE  SourceStays(q)
      <3>1. /\ SoundArchive(Source(q)) /\ (proc[q].has # Nothing => ~Source(q).closed)
            /\ proc[q].ask.archive \in Archives /\ proc'[q].ask = proc[q].ask
            /\ proc[q].pc = "restored" => Source(q).closed
        BY <1>1, <2>5, RestoreTypes DEF RestoresInv, RestoreInv, Reading
      <3>2. Len(Source(q).entries) \in Nat
        BY <3>1 DEF SoundArchive, ArchiveFile
      <3>3. CASE Opened(q, Output(p))
        <4>1. Source(q) = old /\ proc'[q].has = old
          BY <1>1, <1>4, <2>1, <3>3 DEF Opened, Source
        <4>2. Source(q)' = old
          BY <2>2, <4>1 DEF Source
        <4>3. QED
          BY <2>2, <3>2, <4>1, <4>2 DEF SourceStays, Extends
      <3>4. CASE ~Opened(q, Output(p))
        <4>1. proc'[q].has = proc[q].has
          BY <1>1, <3>4
        <4>2. proc[q].has = Nothing => Archive(proc[q].ask.archive) # Output(p)
          <5>1. CASE proc[q].pc = "restored"
            BY <2>1, <2>2, <3>1, <5>1 DEF Source
          <5>2. CASE proc[q].pc \in {"next", "copy"}
            BY <3>4, <5>2 DEF Opened
          <5>3. QED
            BY <2>5, <5>1, <5>2 DEF Reading
        <4>3. Source(q)' = Source(q)
          BY <2>3, <3>1, <4>1, <4>2 DEF Source, ArchiveAt
        <4>4. QED
          BY <3>1, <3>2, <4>1, <4>3 DEF SourceStays, Extends
      <3>5. QED
        BY <3>3, <3>4
    <2>6. RestoresInv'
      BY <1>2, <1>3, <2>3, <2>5, RestoresStay
    <2>7. HostTypes'
      BY <1>1, <2>3 DEF HostTypes, LiveInv
    <2>8. QED
      BY <2>4, <2>6, <2>7
  <1>5. CASE ~BackingUp(p)
    <2>1. files' = files
      BY <1>5 DEF Exit
    <2>2. ArchiveSame /\ RestoresKept
      BY <2>1 DEF ArchiveSame, ArchiveAt, RestoresKept
    <2>3. ArchivesInv'
      BY <1>t, <1>1, <1>2, <1>5, <2>2, ArchivesStay DEF BackingUp
    <2>4. \A q \in Commands \ {p} : proc[q].pc \in Reading => SourceStays(q)
      BY <1>1, <1>5, <2>2, SourceSame DEF RestoresInv
    <2>5. RestoresInv'
      BY <1>2, <1>3, <2>2, <2>4, RestoresStay
    <2>6. HostTypes'
      BY <1>t, <1>1, <2>1 DEF HostTypes, LiveInv
    <2>7. QED
      BY <2>3, <2>5, <2>6
  <1>6. QED
    BY <1>4, <1>5

-----------------------------------------------------------------------------
(* Steps of restores.                                                      *)

RestorePCs == Reading \cup {"target", "settings"}

\* A restore moves on, and what it does is its own.
LEMMA RestoreMoves ==
    ASSUME HostTypes, ArchivesInv, RestoresInv, NEW p \in Commands, Others(p),
           proc[p].pc \in RestorePCs, proc'[p].pc \in RestorePCs,
           ArchiveSame, live' = live, crashes' = crashes,
           \A path \in RestorePaths : files[path] \in Content => files'[path] = files[path],
           \A q \in Commands \ {p} : proc[q].pc = "copy" =>
              /\ files'[Target(q)] = files[Target(q)]
              /\ proc'[p].pc = "copy" => Target(q) # Target(p)',
           RestoreInv(p)'
    PROVE  ArchivesInv' /\ RestoresInv'
  <1>0. crashes \in Nat
    BY HostConstants DEF HostTypes
  <1>1. ArchivesInv'
    <2>1. ~BackingUp(p) /\ ~BackingUp(p)'
      BY DEF RestorePCs, Reading, BackingUp
    <2>2. QED
      BY <1>0, <2>1, ArchivesStay DEF Others, BackingUp
  <1>2. ASSUME NEW q \in Commands \ {p}
        PROVE  /\ RestoreInv(q)' /\ proc'[q].pc = proc[q].pc
               /\ proc[q].pc = "copy" => Target(q)' = Target(q)
    <2>1. /\ proc'[q].pc = proc[q].pc /\ proc'[q].ask = proc[q].ask /\ proc'[q].at = proc[q].at
          /\ proc'[q].seen = proc[q].seen /\ proc'[q].has = proc[q].has /\ RestoreInv(q)
      BY DEF Others, RestoresInv
    <2>2. proc[q].pc \in Reading => SourceStays(q)
      BY <2>1, SourceSame
    <2>3. QED
      BY <2>1, <2>2, RestoreStays DEF SourceStays
  <1>3. ASSUME NEW q \in Commands, NEW r \in Commands, proc'[q].pc = "copy", proc'[r].pc = "copy",
               Target(q)' = Target(r)'
        PROVE  q = r
    BY <1>2, <1>3 DEF RestoresInv
  <1>4. QED
    BY <1>1, <1>2, <1>3 DEF RestoresInv

\* Steps that write nothing.
LEMMA RestoreReads ==
    ASSUME HostTypes, ArchivesInv, RestoresInv, NEW p \in Commands, Moves(p), files' = files,
           UNCHANGED <<live, now, keys, begun, crashes, workload>>,
           proc[p].pc \in RestorePCs, proc'[p].pc \in RestorePCs \ {"copy"},
           RestoreInv(p)'
    PROVE  HostTypes' /\ ArchivesInv' /\ RestoresInv'
  <1>1. ArchiveSame /\ Others(p)
    BY MovesOthers DEF ArchiveSame, ArchiveAt
  <1>2. \A q \in Commands : OperationInv(q)'
    <2>1. OperationInv(p)'
      BY DEF HostTypes, OperationInv, Moves, RestorePCs, Reading
    <2>2. \A q \in Commands \ {p} : OperationInv(q)'
      BY DEF HostTypes, OperationInv, Moves
    <2>3. QED
      BY <2>1, <2>2
  <1>3. HostTypes'
    BY <1>2 DEF HostTypes, LiveInv, Moves
  <1>4. proc'[p].pc # "copy"
    OBVIOUS
  <1>5. ArchivesInv' /\ RestoresInv'
    BY <1>1, <1>4, RestoreMoves
  <1>6. QED
    BY <1>3, <1>5

LEMMA StatTargetKeeps ==
    ASSUME HostTypes, ArchivesInv, RestoresInv, NEW p \in Commands, StatTarget(p)
    PROVE  HostTypes' /\ ArchivesInv' /\ RestoresInv'
  <1>1. /\ proc[p].pc = "target" /\ Goto(p, "settings") /\ files' = files
        /\ UNCHANGED <<live, now, keys, begun, crashes, workload>>
    BY DEF StatTarget, OnlyReads, OnlyFiles
  <1>2. /\ Moves(p) /\ proc'[p].pc = "settings" /\ proc'[p].has = proc[p].has
        /\ proc'[p].seen = proc[p].seen
    BY <1>1, GotoFields, Labels DEF HostTypes, Moves
  <1>3. RestoreInv(p)'
    BY <1>1, <1>2 DEF RestoresInv, RestoreInv, Reading
  <1>4. QED
    BY <1>1, <1>2, <1>3, RestoreReads DEF RestorePCs

LEMMA OpenArchiveKeeps ==
    ASSUME HostTypes, ArchivesInv, RestoresInv, NEW p \in Commands, OpenArchive(p)
    PROVE  HostTypes' /\ ArchivesInv' /\ RestoresInv'
  <1>1. /\ proc[p].pc = "settings" /\ Goto(p, "next") /\ files' = files
        /\ files[Archive(proc[p].ask.archive)] # Absent
        /\ UNCHANGED <<live, now, keys, begun, crashes, workload>>
    BY DEF OpenArchive, OnlyReads, OnlyFiles, Exists
  <1>2. /\ Moves(p) /\ proc'[p].pc = "next" /\ proc'[p].has = proc[p].has /\ proc'[p].at = 0
        /\ proc'[p].seen = proc[p].seen
    BY <1>1, GotoFields, Labels DEF HostTypes, Moves
  <1>3. proc[p].has = Nothing /\ proc[p].seen = {} /\ proc[p].ask.archive \in Archives
    BY <1>1, RestoreTypes DEF RestoresInv, RestoreInv
  <1>4. Source(p)' = files[Archive(proc[p].ask.archive)]
    BY <1>1, <1>2, <1>3 DEF Source, Moves
  <1>5. SoundArchive(Source(p)')
    BY <1>1, <1>3, <1>4 DEF ArchivesInv, ArchiveAt
  <1>6. Len(Source(p)'.entries) \in Nat
    BY <1>5 DEF SoundArchive, ArchiveFile
  <1>7. RestoreInv(p)'
    BY <1>2, <1>3, <1>5, <1>6 DEF RestoreInv, Reading
  <1>8. QED
    BY <1>1, <1>2, <1>7, RestoreReads DEF RestorePCs, Reading

LEMMA ReadManifestKeeps ==
    ASSUME HostTypes, ArchivesInv, RestoresInv, NEW p \in Commands, ReadManifest(p)
    PROVE  HostTypes' /\ ArchivesInv' /\ RestoresInv'
  <1>t. proc \in [Commands -> ProcState] /\ proc[p].at \in Nat /\ RestoreInv(p)
    BY DEF HostTypes, ProcState, RestoresInv
  <1>1. /\ proc[p].pc = "next" /\ proc[p].at < Len(Source(p).entries)
        /\ Header(p).kind = "manifest" /\ files' = files
        /\ UNCHANGED <<live, now, keys, begun, crashes, workload>>
    BY DEF ReadManifest, HasNext, OnlyReads, OnlyFiles
  <1>2. PICK at \in Nat : at = proc[p].at + 1
    BY <1>t
  <1>3. PICK seen \in Seen : seen = proc[p].seen \cup {"manifest"}
    BY <1>t DEF ProcState, Seen
  <1>4. proc' = [proc EXCEPT ![p].at = at, ![p].seen = seen]
    BY <1>2, <1>3 DEF ReadManifest
  <1>5. /\ Moves(p) /\ proc'[p].pc = "next" /\ proc'[p].at = at /\ proc'[p].seen = seen
        /\ proc'[p].has = proc[p].has
    BY <1>t, <1>1, <1>4 DEF ProcState, Moves
  <1>6. Source(p)' = Source(p)
    BY <1>1, <1>5 DEF Source, Moves
  <1>7. "config" \in seen => "config" \in proc[p].seen
    BY <1>3
  <1>8. Len(Source(p).entries) \in Nat
    BY <1>t, <1>1 DEF RestoreInv, Reading, SoundArchive, ArchiveFile
  <1>9. ASSUME NEW k \in 1 .. Len(Source(p).entries), k <= at, Source(p).entries[k].kind = "content"
        PROVE  k <= proc[p].at
    BY <1>t, <1>1, <1>2, <1>9 DEF Header
  <1>10. RestoreInv(p)'
    BY <1>t, <1>1, <1>2, <1>5, <1>6, <1>7, <1>8, <1>9 DEF RestoreInv, Reading, Moves
  <1>11. QED
    BY <1>1, <1>5, <1>10, RestoreReads DEF RestorePCs, Reading

LEMMA FinishRestoreKeeps ==
    ASSUME HostTypes, ArchivesInv, RestoresInv, NEW p \in Commands, FinishRestore(p)
    PROVE  HostTypes' /\ ArchivesInv' /\ RestoresInv'
  <1>t. proc \in [Commands -> ProcState] /\ proc[p].at \in Nat /\ RestoreInv(p)
    BY DEF HostTypes, ProcState, RestoresInv
  <1>1. /\ proc[p].pc = "next" /\ proc[p].at = Len(Source(p).entries) /\ Source(p).closed
        /\ "config" \in proc[p].seen /\ Goto(p, "restored") /\ files' = files
        /\ UNCHANGED <<live, now, keys, begun, crashes, workload>>
    BY DEF FinishRestore, AtEnd, OnlyReads, OnlyFiles
  <1>2. /\ Moves(p) /\ proc'[p].pc = "restored" /\ proc'[p].at = 0
        /\ proc'[p].seen = proc[p].seen /\ proc'[p].has = proc[p].has
    BY <1>t, <1>1, GotoFields, Labels DEF Moves
  <1>3. Source(p)' = Source(p)
    BY <1>1, <1>2 DEF Source, Moves
  <1>4. RestoreInv(p)'
    BY <1>t, <1>1, <1>2, <1>3 DEF RestoreInv, Reading, Moves
  <1>5. QED
    BY <1>1, <1>2, <1>4, RestoreReads DEF RestorePCs, Reading

\* A write of the target, which was absent or being made by this restore.
LEMMA TargetWritten ==
    ASSUME HostTypes, RestoresInv, NEW p \in Commands, NEW T \in RestorePaths,
           NEW value \in Value, files[T] \in {Absent, Created},
           files' = [files EXCEPT ![T] = value]
    PROVE  /\ files' \in [Paths -> Value] /\ ArchiveSame /\ files'[T] = value
           /\ \A path \in RestorePaths : files[path] \in Content =>
                 path # T /\ files'[path] = files[path]
           /\ \A path \in Paths : path # T => files'[path] = files[path]
  <1>1. T \in Paths /\ files \in [Paths -> Value]
    BY RestorePathTypes DEF HostTypes
  <1>2. ArchiveSame
    BY <1>1, RestorePathTypes, PathTypes DEF ArchiveSame, ArchiveAt
  <1>3. \A path \in RestorePaths : files[path] \in Content => path # T
    BY WrittenValues
  <1>4. QED
    BY <1>1, <1>2, <1>3, RestorePathTypes

\* What a restore has put in place is not its next target.
LEMMA InPlace ==
    ASSUME HostTypes, NEW q \in Commands, RestoreInv(q), proc[q].pc \in Reading
    PROVE  /\ SoundArchive(Source(q)) /\ Len(Source(q).entries) \in Nat /\ proc[q].at \in Nat
           /\ proc[q].ask.root \in Roots /\ proc[q].ask.config \in ConfigOutputs
           /\ ConfigFile(proc[q].ask.config) \in RestorePaths /\ {"routes"} \in Content
           /\ \A k \in 1 .. Len(Source(q).entries) :
                 Source(q).entries[k].kind = "content" =>
                    /\ Restored(proc[q].ask.root, Source(q).entries[k].name) \in RestorePaths
                    /\ Source(q).entries[k].value \in Content
  <1>1. /\ SoundArchive(Source(q)) /\ proc[q].at \in Nat /\ proc[q].ask.root \in Roots
        /\ proc[q].ask.config \in ConfigOutputs
    BY RestoreTypes DEF RestoreInv, Reading, HostTypes, ProcState
  <1>2. Len(Source(q).entries) \in Nat
    BY <1>1 DEF SoundArchive, ArchiveFile
  <1>3. \A k \in 1 .. Len(Source(q).entries) : GoodEntry(Source(q).entries[k])
    BY <1>1 DEF SoundArchive
  <1>4. QED
    BY <1>1, <1>2, <1>3 DEF GoodEntry, EntryRecord, RestorePaths, Content

LEMMA CreateTargetKeeps ==
    ASSUME HostTypes, ArchivesInv, RestoresInv, NEW p \in Commands, CreateTarget(p)
    PROVE  HostTypes' /\ ArchivesInv' /\ RestoresInv'
  <1>t. proc \in [Commands -> ProcState] /\ RestoreInv(p)
    BY DEF HostTypes, RestoresInv
  <1>1. /\ proc[p].pc = "next" /\ proc[p].at < Len(Source(p).entries)
        /\ Header(p).kind # "manifest" /\ files[Target(p)] = Absent
        /\ files' = [files EXCEPT ![Target(p)] = Created]
        /\ proc' = [proc EXCEPT ![p].pc = "copy"]
        /\ UNCHANGED <<live, now, keys, begun, crashes, workload>>
    BY DEF CreateTarget, CreateExclusive, HasNext, OnlyFiles
  <1>2. /\ SoundArchive(Source(p)) /\ Len(Source(p).entries) \in Nat /\ proc[p].at \in Nat
        /\ ConfigFile(proc[p].ask.config) \in RestorePaths /\ {"routes"} \in Content
        /\ \A k \in 1 .. Len(Source(p).entries) :
              Source(p).entries[k].kind = "content" =>
                 /\ Restored(proc[p].ask.root, Source(p).entries[k].name) \in RestorePaths
                 /\ Source(p).entries[k].value \in Content
    BY <1>t, <1>1, InPlace DEF Reading
  <1>3. PICK T \in RestorePaths : T = Target(p)
    BY <1>1, <1>2, TargetTypes DEF Reading
  <1>4. /\ files' \in [Paths -> Value] /\ ArchiveSame /\ files'[T] = Created
        /\ \A path \in RestorePaths : files[path] \in Content =>
              path # T /\ files'[path] = files[path]
        /\ \A path \in Paths : path # T => files'[path] = files[path]
    <2>1. files' = [files EXCEPT ![T] = Created] /\ files[T] = Absent
      BY <1>1, <1>3
    <2>2. T \in Paths /\ files \in [Paths -> Value] /\ Created \in Value
      BY RestorePathTypes, Carries DEF HostTypes
    <2>3. files' \in [Paths -> Value] /\ files'[T] = Created
      BY <2>1, <2>2
    <2>4. \A path \in Paths : path # T => files'[path] = files[path]
      BY <2>1, <2>2
    <2>5. ArchiveSame
      BY <2>4, RestorePathTypes, PathTypes DEF ArchiveSame, ArchiveAt
    <2>6. \A path \in RestorePaths : files[path] \in Content => path # T
      BY <2>1, WrittenValues
    <2>7. QED
      BY <2>3, <2>4, <2>5, <2>6, RestorePathTypes
  <1>5. /\ Moves(p) /\ proc'[p].pc = "copy" /\ proc'[p].at = proc[p].at
        /\ proc'[p].seen = proc[p].seen /\ proc'[p].has = proc[p].has
    <2>1. proc \in [Commands -> ProcState] /\ proc' = [proc EXCEPT ![p].pc = "copy"]
      BY <1>t, <1>1
    <2>2. "copy" \in PCs
      BY Labels
    <2>3. QED
      BY <2>1, <2>2 DEF ProcState, Moves
  <1>6. Source(p)' = Source(p)
    BY <1>4, <1>5, RestoreTypes, <1>1 DEF Source, Moves, ArchiveSame, ArchiveAt
  <1>7. Header(p)' = Header(p) /\ Target(p)' = T
    BY <1>3, <1>5, <1>6 DEF Header, Target, Moves
  <1>8. ASSUME NEW q \in Commands \ {p}, proc[q].pc = "copy"
        PROVE  files'[Target(q)] = files[Target(q)] /\ Target(q) # T
    <2>1. Target(q) \in RestorePaths /\ files[Target(q)] = Created
      BY <1>8, CopyTarget DEF RestoresInv
    <2>2. Target(q) # T
      BY <1>1, <1>3, <2>1, HostConstants
    <2>3. QED
      BY <1>4, <2>1, <2>2, RestorePathTypes
  <1>9. RestoreInv(p)'
    <2>1. \A k \in 1 .. Len(Source(p).entries) :
             k <= proc[p].at /\ Source(p).entries[k].kind = "content" =>
                files'[Restored(proc[p].ask.root, Source(p).entries[k].name)]
                   = Source(p).entries[k].value
      BY <1>t, <1>1, <1>2, <1>4 DEF RestoreInv, Reading
    <2>2. "config" \in proc[p].seen => files'[ConfigFile(proc[p].ask.config)] = {"routes"}
      BY <1>t, <1>1, <1>2, <1>4 DEF RestoreInv, Reading
    <2>3. proc[p].has # Nothing => ~Source(p).closed
      BY <1>t, <1>1 DEF RestoreInv, Reading
    <2>4. proc[p].at <= Len(Source(p).entries)
      BY <1>1, <1>2
    <2>5. files'[Target(p)'] = Created
      BY <1>4, <1>7
    <2>6. QED
      BY <1>1, <1>2, <1>5, <1>6, <1>7, <2>1, <2>2, <2>3, <2>4, <2>5 DEF RestoreInv, Reading, Moves
  <1>10. ArchivesInv' /\ RestoresInv'
    <2>1. Others(p)
      BY <1>5, MovesOthers
    <2>2. proc[p].pc \in RestorePCs /\ proc'[p].pc \in RestorePCs
      BY <1>1, <1>5 DEF RestorePCs, Reading
    <2>3. QED
      BY <1>1, <1>4, <1>7, <1>8, <1>9, <2>1, <2>2, RestoreMoves
  <1>11. \A q \in Commands : OperationInv(q)'
    <2>1. OperationInv(p)'
      BY <1>1, <1>5 DEF HostTypes, OperationInv, Moves
    <2>2. \A q \in Commands \ {p} : OperationInv(q)'
      BY <1>5 DEF HostTypes, OperationInv, Moves
    <2>3. QED
      BY <2>1, <2>2
  <1>12. HostTypes'
    BY <1>1, <1>4, <1>5, <1>11 DEF HostTypes, LiveInv, Moves
  <1>13. QED
    BY <1>10, <1>12

LEMMA MoveSeeing ==
    ASSUME proc \in [Commands -> ProcState], NEW p \in Commands, NEW label \in PCs, NEW at \in Nat,
           NEW seen \in Seen,
           proc' = [proc EXCEPT ![p].pc = label, ![p].at = at, ![p].seen = seen]
    PROVE  /\ Moves(p) /\ proc'[p].pc = label /\ proc'[p].at = at /\ proc'[p].seen = seen
           /\ proc'[p].has = proc[p].has
  BY DEF ProcState, Moves

LEMMA CopyEntryKeeps ==
    ASSUME HostTypes, ArchivesInv, RestoresInv, NEW p \in Commands, CopyEntry(p)
    PROVE  HostTypes' /\ ArchivesInv' /\ RestoresInv'
  <1>t. proc \in [Commands -> ProcState] /\ RestoreInv(p) /\ proc[p].pc = "copy"
    BY DEF HostTypes, RestoresInv, CopyEntry
  <1>1. /\ proc[p].at < Len(Source(p).entries) /\ Header(p).kind # "manifest"
        /\ files[Target(p)] = Created
        /\ files' = [files EXCEPT ![Target(p)] = Header(p).value]
        /\ UNCHANGED <<live, now, keys, begun, crashes, workload>>
    BY <1>t DEF CopyEntry, RestoreInv, WriteFile, OnlyFiles
  <1>2. /\ SoundArchive(Source(p)) /\ Len(Source(p).entries) \in Nat /\ proc[p].at \in Nat
        /\ ConfigFile(proc[p].ask.config) \in RestorePaths /\ {"routes"} \in Content
        /\ \A k \in 1 .. Len(Source(p).entries) :
              Source(p).entries[k].kind = "content" =>
                 /\ Restored(proc[p].ask.root, Source(p).entries[k].name) \in RestorePaths
                 /\ Source(p).entries[k].value \in Content
    BY <1>t, InPlace DEF Reading
  <1>3. PICK T \in RestorePaths : T = Target(p)
    BY <1>t, <1>1, <1>2, TargetTypes DEF Reading
  <1>h. PICK h : h = Header(p)
    OBVIOUS
  <1>g. /\ GoodEntry(h) /\ h.kind \in {"config", "content"} /\ h.value \in Value
        /\ proc[p].at + 1 \in 1 .. Len(Source(p).entries)
        /\ Source(p).entries[proc[p].at + 1] = h
    <2>1. GoodEntry(h) /\ h.kind \in {"config", "content"}
            /\ proc[p].at + 1 \in 1 .. Len(Source(p).entries)
      BY <1>t, <1>1, <1>2, <1>h, TargetTypes DEF Reading
    <2>2. QED
      BY <1>h, <2>1, Carries DEF GoodEntry, EntryRecord, Header
  <1>4. /\ files' \in [Paths -> Value] /\ ArchiveSame /\ files'[T] = h.value
        /\ \A path \in RestorePaths : files[path] \in Content =>
              path # T /\ files'[path] = files[path]
        /\ \A path \in Paths : path # T => files'[path] = files[path]
    BY <1>1, <1>3, <1>h, <1>g, TargetWritten
  <1>s. PICK seen \in Seen : seen = proc[p].seen \cup {h.kind}
    BY <1>t, <1>g DEF ProcState, Seen
  <1>a. PICK at \in Nat : at = proc[p].at + 1
    BY <1>2
  <1>5. /\ Moves(p) /\ proc'[p].pc = "next" /\ proc'[p].at = at
        /\ proc'[p].seen = seen /\ proc'[p].has = proc[p].has
    <2>1. proc' = [proc EXCEPT ![p].pc = "next", ![p].at = at, ![p].seen = seen]
      BY <1>h, <1>s, <1>a DEF CopyEntry
    <2>2. PICK label \in PCs : label = "next"
      BY Labels
    <2>3. proc' = [proc EXCEPT ![p].pc = label, ![p].at = at, ![p].seen = seen]
      BY <2>1, <2>2
    <2>4. proc \in [Commands -> ProcState] /\ at \in Nat /\ seen \in Seen
      BY <1>t
    <2>5. /\ Moves(p) /\ proc'[p].pc = label /\ proc'[p].at = at /\ proc'[p].seen = seen
          /\ proc'[p].has = proc[p].has
      BY <2>3, <2>4, MoveSeeing
    <2>6. QED
      BY <2>2, <2>5
  <1>6. Source(p)' = Source(p)
    BY <1>t, <1>4, <1>5, RestoreTypes DEF Source, Moves, ArchiveSame, ArchiveAt
  <1>7. ASSUME NEW q \in Commands \ {p}, proc[q].pc = "copy"
        PROVE  files'[Target(q)] = files[Target(q)]
    <2>1. Target(q) \in RestorePaths /\ Target(q) # T
      BY <1>t, <1>3, <1>7, CopyTarget DEF RestoresInv
    <2>2. QED
      BY <1>4, <2>1, RestorePathTypes
  <1>8. RestoreInv(p)'
    <2>1. ASSUME NEW k \in 1 .. Len(Source(p).entries), k <= at,
                 Source(p).entries[k].kind = "content"
          PROVE  files'[Restored(proc[p].ask.root, Source(p).entries[k].name)]
                    = Source(p).entries[k].value
      <3>1. CASE k <= proc[p].at
        BY <1>t, <1>2, <1>4, <2>1, <3>1 DEF RestoreInv, Reading
      <3>2. CASE k = proc[p].at + 1
        <4>1. Source(p).entries[k] = h /\ T = Restored(proc[p].ask.root, h.name)
          BY <1>3, <1>h, <1>g, <2>1, <3>2 DEF Target
        <4>2. QED
          BY <1>4, <4>1
      <3>3. QED
        BY <1>2, <1>a, <2>1, <3>1, <3>2
    <2>2. "config" \in seen => files'[ConfigFile(proc[p].ask.config)] = {"routes"}
      <3>1. CASE "config" \in proc[p].seen
        BY <1>t, <1>2, <1>4, <3>1 DEF RestoreInv, Reading
      <3>2. CASE h.kind = "config"
        BY <1>3, <1>4, <1>h, <1>g, <3>2 DEF Target, GoodEntry
      <3>3. QED
        BY <1>s, <3>1, <3>2
    <2>3. proc[p].has # Nothing => ~Source(p).closed
      BY <1>t DEF RestoreInv, Reading
    <2>4. at <= Len(Source(p).entries)
      BY <1>1, <1>2, <1>a
    <2>5. QED
      BY <1>2, <1>5, <1>6, <2>1, <2>2, <2>3, <2>4 DEF RestoreInv, Reading, Moves
  <1>9. ArchivesInv' /\ RestoresInv'
    <2>1. Others(p)
      BY <1>5, MovesOthers
    <2>2. /\ proc[p].pc \in RestorePCs /\ proc'[p].pc \in RestorePCs
          /\ proc'[p].pc # "copy"
      BY <1>t, <1>5 DEF RestorePCs, Reading
    <2>3. QED
      BY <1>1, <1>4, <1>7, <1>8, <2>1, <2>2, RestoreMoves
  <1>10. \A q \in Commands : OperationInv(q)'
    <2>1. OperationInv(p)'
      BY <1>t, <1>5 DEF HostTypes, OperationInv, Moves
    <2>2. \A q \in Commands \ {p} : OperationInv(q)'
      BY <1>5 DEF HostTypes, OperationInv, Moves
    <2>3. QED
      BY <2>1, <2>2
  <1>11. HostTypes'
    BY <1>1, <1>4, <1>5, <1>10 DEF HostTypes, LiveInv, Moves
  <1>12. QED
    BY <1>9, <1>11

-----------------------------------------------------------------------------
(* The invariant of the host.                                              *)

HostInv == HostTypes /\ LocalInv /\ ArchivesInv /\ RestoresInv

LEMMA HostInit == Init => HostInv
  <1> SUFFICES ASSUME Init
               PROVE  HostInv
    OBVIOUS
  <1>1. /\ \A path \in Paths : files[path] = Absent
        /\ \A q \in Commands : proc[q] = Idle
    BY DEF Init
  <1>2. \A q \in Commands : proc[q].pc = "idle" /\ proc[q].ask = NoAsk
    BY <1>1, IdleTypes
  <1>3. HostTypes
    <2>1. files \in [Paths -> Value] /\ proc \in [Commands -> ProcState]
      BY Carries, IdleTypes DEF Init
    <2>2. \A q \in Commands : OperationInv(q)
      BY <1>2 DEF OperationInv
    <2>3. LiveInv /\ now \in Nat /\ keys \in Nat /\ workload \in Workloads
      BY DEF Init, LiveInv
    <2>4. begun \in 0 .. workload.commands /\ crashes \in 0 .. MaxCrashes
      BY <2>3, HostConstants DEF Init
    <2>5. QED
      BY <2>1, <2>2, <2>3, <2>4 DEF HostTypes
  <1>4. LocalInv
    <2>1. \A i \in 1 .. 4 : File(i) = Absent /\ ~Whole(i)
      BY <1>1, PathTypes, NamesDiffer DEF File, Whole, Written
    <2>2. IdentityInv
      BY <2>1 DEF IdentityInv
    <2>3. \A q \in Commands : CommandInv(q) /\ ~Making(q) /\ proc[q].pc # "keywrite"
      BY <1>2, OutsideInv DEF LocalPCs
    <2>4. QED
      BY <2>2, <2>3 DEF LocalInv
  <1>5. ArchivesInv
    <2>1. \A a \in Archives : ArchiveAt(a) = Absent
      BY <1>1, PathTypes DEF ArchiveAt
    <2>2. \A q \in Commands : ~BackingUp(q)
      BY <1>2 DEF BackingUp
    <2>3. QED
      BY <2>1, <2>2 DEF ArchivesInv, BackupInv
  <1>6. RestoresInv
    BY <1>2 DEF RestoresInv, RestoreInv, Reading
  <1>7. QED
    BY <1>3, <1>4, <1>5, <1>6 DEF HostInv

LEMMA ServiceKeeps ==
    ASSUME HostTypes, LocalInv, NEW p \in Commands, ServiceStep(p)
    PROVE  HostTypes'
  <1>1. /\ proc' \in [Commands -> ProcState] /\ Others(p) /\ OperationInv(p)'
        /\ keys' \in Nat /\ UNCHANGED <<live, now, begun, crashes, workload>>
    BY ServiceMoves, ServiceFiles
  <1>2. files' \in [Paths -> Value]
    <2>1. files \in [Paths -> Value]
      BY DEF HostTypes
    <2>2. QED
      BY <2>1, ServiceFiles
  <1>3. \A q \in Commands \ {p} : OperationInv(q)'
    BY <1>1 DEF HostTypes, OperationInv, Others
  <1>4. \A q \in Commands : OperationInv(q)'
    BY <1>1, <1>3
  <1>5. QED
    BY <1>1, <1>2, <1>4 DEF HostTypes, LiveInv

LEMMA HostNext == HostInv /\ [Next]_vars => HostInv'
  <1> SUFFICES ASSUME HostInv, [Next]_vars
               PROVE  HostInv'
    OBVIOUS
  <1>0. HostTypes /\ LocalInv /\ ArchivesInv /\ RestoresInv
    BY DEF HostInv
  <1>1. LocalInv'
    BY <1>0, LocalNext
  <1>2. CASE \/ \E p \in Commands : Run(p) \/ Stop(p) \/ CommandDies(p)
             \/ StoreBlob \/ RecordBlob \/ Tick \/ UNCHANGED vars
    BY <1>0, <1>1, <1>2, OthersElsewhere DEF HostInv
  <1>3. ASSUME NEW p \in Commands, Step(p) \/ CommandFails(p)
        PROVE  HostInv'
    <2>1. CASE ServiceStep(p)
      BY <1>0, <1>1, <2>1, ServiceKeeps, ServiceElsewhere DEF HostInv
    <2>2. CASE StatOutput(p) \/ CreateOutput(p) \/ WriteEntry(p) \/ CloseOutput(p)
      BY <1>0, <1>1, <2>2, StatOutputKeeps, CreateOutputKeeps, WriteEntryKeeps, CloseOutputKeeps
      DEF HostInv
    <2>3. CASE \/ StatTarget(p) \/ OpenArchive(p) \/ ReadManifest(p) \/ CreateTarget(p)
               \/ CopyEntry(p) \/ FinishRestore(p)
      BY <1>0, <1>1, <2>3, StatTargetKeeps, OpenArchiveKeeps, ReadManifestKeeps, CreateTargetKeeps,
         CopyEntryKeeps, FinishRestoreKeeps DEF HostInv
    <2>4. CASE CommandRefuses(p) \/ CommandFails(p)
      BY <1>0, <1>1, <2>4, ExitKeeps DEF HostInv, CommandRefuses, CommandFails
    <2>5. QED
      BY <1>3, <2>1, <2>2, <2>3, <2>4 DEF Step, ServiceStep
  <1>4. QED
    BY <1>2, <1>3 DEF Next

LEMMA HostAlways == Spec => []HostInv
  BY HostInit, HostNext, PTL DEF Spec

-----------------------------------------------------------------------------
(* Results.                                                                *)

\* ensure and writeExclusivePEM: whatever commands overlap, fail or die, the
\* files of the TLS identity that are whole belong together, because they are
\* created in their order and by one command.
THEOREM FilesAreSound == Spec => []FilesInv
  <1>1. HostInv => FilesInv
    <2> SUFFICES ASSUME HostInv
                 PROVE  FilesInv
      OBVIOUS
    <2>0. HostTypes /\ LocalInv /\ ArchivesInv /\ RestoresInv
      BY DEF HostInv
    <2>1. ASSUME NEW p \in Commands
          PROVE  /\ proc[p].pc \in PCs
                 /\ (proc[p].pc = "idle") = (proc[p].ask = NoAsk)
                 /\ proc[p].pc = "copy" => files[Target(p)] = Created
                 /\ proc[p].pc = "keywrite" => files[TLS(CredentialKey)] = Created
                 /\ BackingUp(p) => ~files[Output(p)].closed
      <3>1. OperationInv(p) /\ KeyInv(p) /\ BackupInv(p) /\ RestoreInv(p) /\ proc[p] \in ProcState
        BY <2>0 DEF HostTypes, LocalInv, CommandInv, ArchivesInv, RestoresInv
      <3>2. QED
        BY <3>1 DEF OperationInv, KeyInv, KeyFile, BackupInv, RestoreInv, ProcState
    <2>2. /\ DOMAIN files = Paths
          /\ begun \in 0 .. workload.commands /\ crashes \in 0 .. MaxCrashes
      BY <2>0 DEF HostTypes
    <2>3. TypeOK
      BY <2>1, <2>2 DEF TypeOK
    <2>4. QED
      BY <2>0, <2>3, LocalResults DEF FilesInv
  <1>2. QED
    BY <1>1, HostAlways, PTL

\* A server presents a certificate of the host's identity and seals with the
\* credential key that the next start finds (ensureCredentialKey,
\* ListenAndServeTLS).
THEOREM ServersServeWhatIsKept == Spec => []ServesWhatIsKept
  <1>1. HostInv => ServesWhatIsKept
    BY LocalResults DEF HostInv
  <1>2. QED
    BY <1>1, HostAlways, PTL

\* Unless another command replaces the certificate meanwhile, it is issued
\* for the hosts that were asked for (Ensure and EnsureExact).
THEOREM CertificatesAreIssuedForHosts == Spec => []IssuedForHosts
  <1>1. HostInv => IssuedForHosts
    BY LocalResults DEF HostInv
  <1>2. QED
    BY <1>1, HostAlways, PTL

\* An archive that was closed is complete, and an unfinished one is being
\* written or was left by a command that died (Backup).
THEOREM ArchivesAreWhole == Spec => []ArchivesWhole
  <1>1. HostInv => ArchivesWhole
    <2> SUFFICES ASSUME HostInv, NEW a \in Archives, Exists(Archive(a))
                 PROVE  \/ /\ ~files[Archive(a)].closed
                           /\ crashes > 0 \/ \E p \in Commands : BackingUp(p) /\ Output(p) = Archive(a)
                        \/ /\ \E e \in Entries(Archive(a)) : e.kind = "manifest"
                           /\ \E e \in Entries(Archive(a)) : e.kind = "config"
                           /\ \E e \in Entries(Archive(a)) :
                                 e.name = Database /\ e.value \subseteq Held(Archive(a))
      BY DEF ArchivesWhole
    <2>1. PICK f : f = files[Archive(a)]
      OBVIOUS
    <2>2. SoundArchive(f) /\ f.entries \in Seq(EntryRecord)
      <3>1. SoundArchive(f)
        BY <2>1 DEF HostInv, ArchivesInv, ArchiveAt, Exists
      <3>2. QED
        BY <3>1 DEF SoundArchive, ArchiveFile
    <2>3. CASE ~f.closed
      BY <2>1, <2>3 DEF HostInv, ArchivesInv, ArchiveAt, Exists, Output
    <2>4. CASE f.closed
      <3>1. \A k \in 1 .. Len(f.entries) : f.entries[k] \in Entries(Archive(a))
        BY <2>1, <2>2 DEF Entries, Range
      <3>2. PICK k \in 1 .. Len(f.entries) :
               /\ f.entries[k].name = Database
               /\ \A b \in f.entries[k].value : \E m \in 1 .. Len(f.entries) :
                     f.entries[m].kind = "content" /\ f.entries[m].name = b
        BY <2>2, <2>4 DEF SoundArchive
      <3>3. f.entries[k].value \subseteq Held(Archive(a))
        BY <3>1, <3>2 DEF Held
      <3>4. /\ \E e \in Entries(Archive(a)) : e.kind = "manifest"
            /\ \E e \in Entries(Archive(a)) : e.kind = "config"
        BY <2>2, <2>4, <3>1 DEF SoundArchive
      <3>5. QED
        BY <3>1, <3>2, <3>3, <3>4
    <2>5. QED
      BY <2>3, <2>4
  <1>2. QED
    BY <1>1, HostAlways, PTL

\* A restore that reported success left every entry of a closed archive in
\* place, whatever ran meanwhile (Restore, restoreTarFile).
THEOREM RestoresAreComplete == Spec => []RestoresAll
  <1>1. HostInv => RestoresAll
    <2> SUFFICES ASSUME HostInv, NEW p \in Commands, proc[p].pc = "restored"
                 PROVE  LET archive == files[Archive(proc[p].ask.archive)] IN
                        /\ archive.closed
                        /\ files[ConfigFile(proc[p].ask.config)] = live.config
                        /\ \A e \in Range(archive.entries) :
                              e.kind = "content" =>
                                 files[Restored(proc[p].ask.root, e.name)] = e.value
      BY DEF RestoresAll
    <2>0. RestoreInv(p) /\ live.config = {"routes"}
      BY DEF HostInv, RestoresInv, HostTypes, LiveInv
    <2>1. PICK f : f = Source(p)
      OBVIOUS
    <2>2. /\ SoundArchive(f) /\ f.closed /\ proc[p].has = Nothing
          /\ files[ConfigFile(proc[p].ask.config)] = {"routes"}
          /\ \A k \in 1 .. Len(f.entries) : f.entries[k].kind = "content" =>
                files[Restored(proc[p].ask.root, f.entries[k].name)] = f.entries[k].value
      BY <2>0, <2>1 DEF RestoreInv, Reading
    <2>3. f = files[Archive(proc[p].ask.archive)]
      BY <2>1, <2>2 DEF Source
    <2>4. \A e \in Range(f.entries) : \E k \in 1 .. Len(f.entries) : e = f.entries[k]
      BY <2>2 DEF Range, SoundArchive, ArchiveFile
    <2>5. \A e \in Range(f.entries) :
             e.kind = "content" => files[Restored(proc[p].ask.root, e.name)] = e.value
      BY <2>2, <2>4
    <2>6. QED
      BY <2>0, <2>2, <2>3, <2>5
  <1>2. QED
    BY <1>1, HostAlways, PTL

\* What a starting server writes was absent or being made, or is the server
\* certificate, with the key and the authority it had.
LEMMA ServiceOverwrites ==
    ASSUME HostTypes, LocalInv, NEW p \in Commands, ServiceStep(p)
    PROVE  \/ files' = files
           \/ \E path \in Paths : \E value :
                 /\ files' = [files EXCEPT ![path] = value]
                 /\ \/ files[path] \in {Absent, Created}
                    \/ /\ path = TLS("server.crt")
                       /\ value.key = files[path].key /\ value.signer = files[path].signer
  <1>t. CommandInv(p)
    BY DEF LocalInv
  <1>1. CASE CreateIdentityFile(p)
    <2>1. /\ files' = [files EXCEPT ![TLS(IdentityFiles[proc[p].at + 1])] = Created]
          /\ files[TLS(IdentityFiles[proc[p].at + 1])] = Absent /\ proc[p].at \in 0 .. 3
      BY <1>1, CreateFields
    <2>2. PICK k \in 1 .. 4 : k = proc[p].at + 1
      BY <2>1
    <2>3. TLS(IdentityFiles[k]) \in Paths
      BY PathTypes, NamesDiffer
    <2>4. QED
      BY <2>1, <2>2, <2>3
  <1>2. CASE WriteIdentityFile(p)
    <2>1. MakingInv(p) /\ proc[p].pc = "encode" /\ proc[p].at \in 0 .. 4 /\ proc[p].at < 4
      BY <1>t, <1>2, WriteFields DEF CommandInv, MakingInv
    <2>2. PICK k \in 1 .. 4 : k = proc[p].at + 1
      BY <2>1
    <2>3. files' = [files EXCEPT ![TLS(IdentityFiles[k])] = proc[p].has[IdentityFiles[k]]]
      BY <1>2, <2>2, WriteFields
    <2>4. TLS(IdentityFiles[k]) \in Paths /\ File(k) = Created
      BY <2>1, <2>2, PathTypes, NamesDiffer DEF MakingInv, Making
    <2>5. QED
      BY <2>3, <2>4 DEF File
  <1>3. CASE ReplaceCertificate(p)
    <2>1. files' = [files EXCEPT ![TLS("server.crt")] = proc[p].has] /\ proc[p].pc = "rename"
      BY <1>3, ReplaceFields
    <2>2. /\ proc[p].has.key = files[TLS("server.crt")].key
          /\ proc[p].has.signer = files[TLS("server.crt")].signer
          /\ TLS("server.crt") \in Paths
      BY <1>t, <2>1, FileNames, PathTypes, IdentityNames DEF CommandInv, SettledInv
    <2>3. QED
      BY <2>1, <2>2
  <1>4. CASE CreateCredentialKey(p) \/ WriteCredentialKey(p)
    <2>1. KeyFile \in {Absent, Created} /\ TLS(CredentialKey) \in Paths
      BY <1>t, <1>4, PathTypes
      DEF CommandInv, KeyInv, KeyFile, CreateCredentialKey, CreateExclusive, WriteCredentialKey
    <2>2. QED
      BY <1>4, <2>1
      DEF KeyFile, CreateCredentialKey, CreateExclusive, WriteCredentialKey, WriteFile
  <1>5. CASE \/ StatIdentity(p) \/ IdentityGenerated(p) \/ LoadServerPair(p)
             \/ KeepCertificate(p) \/ SignCertificate(p) \/ StatCredentialKey(p)
             \/ LoadCredentialKey(p) \/ Listen(p) \/ GenerateIdentity(p)
    BY <1>5
    DEF StatIdentity, IdentityGenerated, LoadServerPair, KeepCertificate, SignCertificate,
        StatCredentialKey, LoadCredentialKey, Listen, GenerateIdentity, OnlyReads
  <1>6. QED
    BY <1>1, <1>2, <1>3, <1>4, <1>5 DEF ServiceStep

\* What any step writes was not written yet, or is the server certificate,
\* or an archive that is not closed.
LEMMA NextOverwrites ==
    ASSUME HostInv, [Next]_vars
    PROVE  \/ files' = files
           \/ \E path \in Paths : \E value :
                 /\ files' = [files EXCEPT ![path] = value]
                 /\ \/ files[path] \in {Absent, Created}
                    \/ /\ path = TLS("server.crt")
                       /\ value.key = files[path].key /\ value.signer = files[path].signer
                    \/ \E a \in Archives : path = Archive(a) /\ ~files[path].closed
  <1>0. HostTypes /\ LocalInv /\ ArchivesInv /\ RestoresInv
    BY DEF HostInv
  <1>1. CASE \/ \E p \in Commands : Run(p) \/ Stop(p) \/ CommandDies(p)
             \/ StoreBlob \/ RecordBlob \/ Tick \/ UNCHANGED vars
    BY <1>1 DEF Run, Stop, CommandDies, StoreBlob, RecordBlob, Tick, vars, OnlyReads
  <1>2. ASSUME NEW p \in Commands, BackingUp(p) \/ CreateOutput(p)
        PROVE  /\ Output(p) \in Paths
               /\ \/ files[Output(p)] = Absent
                  \/ \E a \in Archives : Output(p) = Archive(a) /\ ~files[Output(p)].closed
    <2>1. proc[p].ask.archive \in Archives /\ Output(p) \in Paths
      BY <1>0, <1>2, OutputTypes DEF BackingUp, CreateOutput
    <2>2. BackingUp(p) => ~files[Output(p)].closed
      BY <1>0 DEF ArchivesInv, BackupInv
    <2>3. QED
      BY <1>2, <2>1, <2>2 DEF Output, CreateOutput
  <1>3. ASSUME NEW p \in Commands, Step(p) \/ CommandFails(p)
        PROVE  \/ files' = files
               \/ \E path \in Paths : \E value :
                     /\ files' = [files EXCEPT ![path] = value]
                     /\ \/ files[path] \in {Absent, Created}
                        \/ /\ path = TLS("server.crt")
                           /\ value.key = files[path].key /\ value.signer = files[path].signer
                        \/ \E a \in Archives : path = Archive(a) /\ ~files[path].closed
    <2>1. CASE ServiceStep(p)
      BY <1>0, <2>1, ServiceOverwrites
    <2>2. CASE CreateOutput(p) \/ WriteEntry(p) \/ CloseOutput(p) \/ CommandRefuses(p) \/ CommandFails(p)
      <3>1. \/ files' = files
            \/ /\ BackingUp(p) \/ CreateOutput(p)
               /\ \E value : files' = [files EXCEPT ![Output(p)] = value]
        BY <2>2 DEF CreateOutput, WriteEntry, CloseOutput, WriteFile, CommandRefuses, CommandFails, Exit
      <3>2. QED
        BY <1>2, <3>1
    <2>3. CASE CreateTarget(p) \/ CopyEntry(p)
      <3>1. /\ \E value : files' = [files EXCEPT ![Target(p)] = value]
            /\ Target(p) \in Paths /\ files[Target(p)] \in {Absent, Created}
        <4>1. CASE CreateTarget(p)
          <5>1. proc[p].pc = "next" /\ RestoreInv(p)
            BY <1>0, <4>1 DEF CreateTarget, HasNext, RestoresInv
          <5>2. Target(p) \in RestorePaths
            BY <1>0, <4>1, <5>1, TargetTypes DEF RestoreInv, Reading, CreateTarget, HasNext
          <5>3. QED
            BY <4>1, <5>2, RestorePathTypes DEF CreateTarget, CreateExclusive
        <4>2. CASE CopyEntry(p)
          BY <1>0, <4>2, CopyTarget, RestorePathTypes DEF CopyEntry, WriteFile, RestoresInv
        <4>3. QED
          BY <2>3, <4>1, <4>2
      <3>2. QED
        BY <3>1
    <2>4. CASE \/ StatOutput(p) \/ StatTarget(p) \/ OpenArchive(p) \/ ReadManifest(p)
               \/ FinishRestore(p)
      BY <2>4 DEF StatOutput, StatTarget, OpenArchive, ReadManifest, FinishRestore, OnlyReads
    <2>5. QED
      BY <1>3, <2>1, <2>2, <2>3, <2>4 DEF Step, ServiceStep
  <1>4. QED
    BY <1>1, <1>3 DEF Next

\* What a file holds is kept: only the server certificate is replaced, by one
\* of the same key and authority, and only unfinished archives are removed
\* (replacePEM, Backup).
THEOREM FilesAreKept == Spec => NothingOverwritten
  <1>1. HostInv /\ [Next]_vars => [\A path \in Paths : Written(path) => Keeps(path)]_files
    <2> SUFFICES ASSUME HostInv, [Next]_vars, files' # files, NEW path \in Paths, Written(path)
                 PROVE  Keeps(path)
      OBVIOUS
    <2>1. PICK written \in Paths : \E value :
                 /\ files' = [files EXCEPT ![written] = value]
                 /\ \/ files[written] \in {Absent, Created}
                    \/ /\ written = TLS("server.crt")
                       /\ value.key = files[written].key /\ value.signer = files[written].signer
                    \/ \E a \in Archives : written = Archive(a) /\ ~files[written].closed
      BY NextOverwrites
    <2>2. files \in [Paths -> Value]
      BY DEF HostInv, HostTypes
    <2>3. CASE path # written
      BY <2>1, <2>2, <2>3 DEF Keeps
    <2>4. CASE path = written
      BY <2>1, <2>2, <2>4 DEF Keeps, Written
    <2>5. QED
      BY <2>3, <2>4
  <1>2. QED
    BY <1>1, HostAlways, PTL DEF Spec, NothingOverwritten

=============================================================================
