--------------------------- MODULE LocalCommands ---------------------------
(***************************************************************************)
(* The commands an operator runs on the host and the files they leave:     *)
(*   regstair            finds or makes its TLS identity and credential    *)
(*                       key, then serves                                  *)
(*   regstair tls init   makes an identity for exactly the given hosts     *)
(*   regstair admin backup, regstair admin restore                         *)
(* Commands are processes: several may run at once, each step of one is a  *)
(* system call or a group of reads, any call may fail, and a process may   *)
(* die between two of them.  A file is Absent, Created (it exists and is   *)
(* not fully written) or holds what was written to it.                     *)
(***************************************************************************)
EXTENDS Integers, Sequences, FiniteSets, SequencesExt

CONSTANTS
    Commands,      \* processes
    Blobs,         \* files of the content root, besides the database
    Archives,      \* backup paths
    Roots,         \* content roots restored into
    ConfigOutputs, \* restored configuration paths
    Hosts,         \* host names
    Workloads,     \* asks to choose from, how many commands, blobs and years to come
    CertLife,      \* years a server certificate is valid
    CALife,        \* years the certificate authority is valid
    Absent, Created, NoAsk, Nothing,
    MaxCrashes     \* bound: commands that die

ASSUME LifeAssumption == CertLife \in Nat /\ CALife \in Nat /\ CertLife < CALife

VARIABLES
    files,         \* the host's files
    live,          \* the content root and configuration in service
    now,           \* the clock
    keys,          \* private keys generated so far
    begun,         \* commands begun
    crashes,       \* commands that died
    proc,          \* what each command is doing
    workload       \* the workload of this behaviour

vars == <<files, live, now, keys, begun, crashes, proc, workload>>

-----------------------------------------------------------------------------
(* Files.                                                                  *)

\* In the order in which ensure looks for and writes them.
IdentityFiles == <<"ca.crt", "ca.key", "server.crt", "server.key">>
CredentialKey == "credential.key"
Database == "db"

Archive(a) == <<"archive", a>>
ConfigFile(c) == <<"config", c>>
Restored(root, name) == <<root, name>>
TLS(name) == <<"local", name>>

Paths ==
    {TLS(name) : name \in Range(IdentityFiles) \cup {CredentialKey}}
    \cup {Archive(a) : a \in Archives} \cup {ConfigFile(c) : c \in ConfigOutputs}
    \cup {Restored(root, name) : root \in Roots, name \in Blobs \cup {Database}}

\* The command lines.
Ask == [op : {"serve", "init"}, hosts : SUBSET Hosts]
       \cup [op : {"backup"}, archive : Archives]
       \cup [op : {"restore"}, archive : Archives, root : Roots, config : ConfigOutputs]

\* What files hold: keys are numbers, a certificate names the key it is for,
\* the key that signed it and when it was issued; a set is what a file of the
\* content root or a configuration contains or names.
CACertificate == [key : Nat, from : Nat]
ServerCertificate == [key : Nat, signer : Nat, hosts : SUBSET Hosts, from : Nat]
Content == SUBSET (Blobs \cup {"routes"})
EntryRecord == [kind : {"manifest", "config", "content"},
                name : Blobs \cup {Database, "manifest", "config"}, value : Content]
ArchiveFile == [entries : Seq(EntryRecord), closed : BOOLEAN]

\* Absent and Created are told from what was written, and paths from another.
ASSUME HostConstants ==
    /\ IsFiniteSet(Hosts) /\ IsFiniteSet(Blobs)
    /\ Database \notin Blobs /\ "local" \notin Roots /\ "archive" \notin Roots /\ "config" \notin Roots
    /\ NoAsk \notin Ask /\ Nothing \notin ArchiveFile
    /\ Absent # Created
    /\ \A unwritten \in {Absent, Created} :
          /\ unwritten \notin CACertificate /\ unwritten \notin ServerCertificate
          /\ unwritten \notin Nat /\ unwritten \notin ArchiveFile
          /\ \A value \in Content : value # unwritten
    /\ \A w \in Workloads :
          w.asks \subseteq Ask /\ w.blobs \subseteq Blobs /\ w.commands \in Nat /\ w.years \in Nat
    /\ MaxCrashes \in Nat

Exists(path) == files[path] # Absent
Written(path) == files[path] \notin {Absent, Created}

\* A certificate authority and its server, with new keys.
NewIdentity(hosts) ==
    [name \in Range(IdentityFiles) |->
        CASE name = "ca.crt"     -> [key |-> keys + 1, from |-> now]
          [] name = "ca.key"     -> keys + 1
          [] name = "server.crt" -> [key |-> keys + 2, signer |-> keys + 1,
                                     hosts |-> hosts, from |-> now]
          [] name = "server.key" -> keys + 2]

-----------------------------------------------------------------------------
(* Processes.                                                              *)

Idle == [pc |-> "idle", ask |-> NoAsk, at |-> 0, seen |-> {}, has |-> Nothing,
         secret |-> 0, raced |-> FALSE]

Running(p) == proc[p].pc \notin {"idle", "serving", "initialized", "restored"}

Goto(p, pc) == proc' = [proc EXCEPT ![p].pc = pc, ![p].at = 0]
Advance(p) == proc' = [proc EXCEPT ![p].at = @ + 1]

FirstStep(op) ==
    CASE op \in {"serve", "init"} -> "stat"
      [] op = "backup" -> "output"
      [] op = "restore" -> "target"

\* The operator runs a command.
Run(p) ==
    /\ proc[p].pc # "serving" /\ ~Running(p)
    /\ begun < workload.commands
    /\ \E ask \in workload.asks :
          proc' = [proc EXCEPT ![p] = [Idle EXCEPT !.pc = FirstStep(ask.op), !.ask = ask]]
    /\ begun' = begun + 1
    /\ UNCHANGED <<files, live, now, keys, crashes, workload>>

\* os.OpenFile with O_EXCL.
CreateExclusive(path) ==
    /\ files[path] = Absent
    /\ files' = [files EXCEPT ![path] = Created]

WriteFile(path, value) == files' = [files EXCEPT ![path] = value]

OnlyFiles == UNCHANGED <<live, now, keys, begun, crashes, workload>>
OnlyReads == files' = files /\ OnlyFiles

-----------------------------------------------------------------------------
(* The TLS identity.                                                       *)

\* The stat of one of the four files.
StatIdentity(p) ==
    /\ proc[p].pc = "stat" /\ proc[p].at < Len(IdentityFiles)
    /\ LET name == IdentityFiles[proc[p].at + 1] IN
          proc' = [proc EXCEPT ![p].at = @ + 1,
                               ![p].seen = IF Exists(TLS(name)) THEN @ \cup {name} ELSE @]
    /\ OnlyReads

Counted(p) == proc[p].pc = "stat" /\ proc[p].at = Len(IdentityFiles)

\* None of the files is there: all are made, and then written one by one.
GenerateIdentity(p) ==
    /\ Counted(p) /\ proc[p].seen = {}
    /\ proc' = [proc EXCEPT ![p].pc = "create", ![p].at = 0,
                            ![p].has = NewIdentity(proc[p].ask.hosts)]
    /\ keys' = keys + 2
    /\ UNCHANGED <<files, live, now, begun, crashes, workload>>

CreateIdentityFile(p) ==
    /\ proc[p].pc = "create" /\ proc[p].at < Len(IdentityFiles)
    /\ CreateExclusive(TLS(IdentityFiles[proc[p].at + 1]))
    /\ proc' = [proc EXCEPT ![p].pc = "encode"]
    /\ OnlyFiles

WriteIdentityFile(p) ==
    /\ proc[p].pc = "encode"
    /\ LET name == IdentityFiles[proc[p].at + 1] IN WriteFile(TLS(name), proc[p].has[name])
    /\ proc' = [proc EXCEPT ![p].pc = "create", ![p].at = @ + 1]
    /\ OnlyFiles

Generated(p) == proc[p].pc = "create" /\ proc[p].at = Len(IdentityFiles)

\* A pair loads when both files are whole and the key is the certificate's.
Loads(cert, key) ==
    /\ Written(TLS(cert)) /\ Written(TLS(key))
    /\ files[TLS(cert)].key = files[TLS(key)]

\* LoadX509KeyPair of the server's pair, for ensure and again to listen.
LoadServerPair(p) ==
    /\ Counted(p) /\ Cardinality(proc[p].seen) = Len(IdentityFiles)
    /\ Loads("server.crt", "server.key")
    /\ proc' = [proc EXCEPT ![p].pc = "authority", ![p].at = 0,
                            ![p].has = files[TLS("server.crt")]]
    /\ OnlyReads

\* The chain of a leaf to the authority, at the present time.
Verifies(leaf, ca) ==
    /\ leaf.signer = ca.key
    /\ now <= leaf.from + CertLife
    /\ now <= ca.from + CALife

\* Mutant: names that are no longer asked for are not counted.
CoversAtLeast(leaf, ask) == ask.hosts \subseteq leaf.hosts

Covers(leaf, ask) ==
    /\ ask.hosts \subseteq leaf.hosts
    /\ ask.op = "init" => Cardinality(leaf.hosts) = Cardinality(ask.hosts)

AuthorityUsable(p) ==
    /\ Loads("ca.crt", "ca.key")
    /\ Verifies(proc[p].has, files[TLS("ca.crt")])

\* Where a command goes on once it has an identity.
Ensured(p) == IF proc[p].ask.op = "serve" THEN "keystat" ELSE "initialized"

KeepCertificate(p) ==
    /\ proc[p].pc = "authority" /\ AuthorityUsable(p)
    /\ Covers(proc[p].has, proc[p].ask)
    /\ Goto(p, Ensured(p))
    /\ OnlyReads

\* Mutant: a reissued certificate comes with a new key.
SignForNewKey(p) ==
    /\ proc[p].pc = "authority" /\ AuthorityUsable(p)
    /\ ~Covers(proc[p].has, proc[p].ask)
    /\ proc' = [proc EXCEPT ![p].pc = "rename",
                            ![p].has = [@ EXCEPT !.key = keys + 1, !.hosts = proc[p].ask.hosts,
                                                 !.from = now]]
    /\ keys' = keys + 1
    /\ UNCHANGED <<files, live, now, begun, crashes, workload>>

\* The certificate is signed anew for the same key; replacePEM comes later.
SignCertificate(p) ==
    /\ proc[p].pc = "authority" /\ AuthorityUsable(p)
    /\ ~Covers(proc[p].has, proc[p].ask)
    /\ proc' = [proc EXCEPT ![p].pc = "rename",
                            ![p].has = [@ EXCEPT !.hosts = proc[p].ask.hosts, !.from = now]]
    /\ OnlyReads

\* The rename of the temporary file; a command that runs meanwhile is raced.
ReplaceCertificate(p) ==
    /\ proc[p].pc = "rename"
    /\ WriteFile(TLS("server.crt"), proc[p].has)
    /\ proc' = [q \in Commands |->
                  IF q = p THEN [proc[p] EXCEPT !.pc = Ensured(p), !.at = 0]
                  ELSE [proc[q] EXCEPT !.raced = @ \/ proc[q].pc # "idle"]]
    /\ OnlyFiles

IdentityGenerated(p) ==
    /\ Generated(p)
    /\ Goto(p, Ensured(p))
    /\ OnlyReads

-----------------------------------------------------------------------------
(* The credential key and the start of the server.                         *)

\* ensureCredentialKey takes any file that is there.
StatCredentialKey(p) ==
    /\ proc[p].pc = "keystat"
    /\ Goto(p, IF Exists(TLS(CredentialKey)) THEN "keyload" ELSE "keycreate")
    /\ OnlyReads

\* Mutant: the key is written over whatever is there by now.
CreateCredentialKeyOver(p) ==
    /\ proc[p].pc = "keycreate"
    /\ WriteFile(TLS(CredentialKey), Created)
    /\ Goto(p, "keywrite")
    /\ OnlyFiles

CreateCredentialKey(p) ==
    /\ proc[p].pc = "keycreate"
    /\ CreateExclusive(TLS(CredentialKey))
    /\ Goto(p, "keywrite")
    /\ OnlyFiles

WriteCredentialKey(p) ==
    /\ proc[p].pc = "keywrite"
    /\ WriteFile(TLS(CredentialKey), keys + 1)
    /\ keys' = keys + 1
    /\ Goto(p, "keyload")
    /\ UNCHANGED <<live, now, begun, crashes, workload>>

\* Mutant: the length of the key is not looked at.
LoadAnyCredentialKey(p) ==
    /\ proc[p].pc = "keyload" /\ Exists(TLS(CredentialKey))
    /\ proc' = [proc EXCEPT ![p].pc = "listen", ![p].secret = files[TLS(CredentialKey)]]
    /\ OnlyReads

\* LoadSecretKeyring refuses a file that is not 32 bytes long.
LoadCredentialKey(p) ==
    /\ proc[p].pc = "keyload" /\ Written(TLS(CredentialKey))
    /\ proc' = [proc EXCEPT ![p].pc = "listen", ![p].secret = files[TLS(CredentialKey)]]
    /\ OnlyReads

\* ListenAndServeTLS reads the pair once and serves it until the process ends.
Listen(p) ==
    /\ proc[p].pc = "listen" /\ Loads("server.crt", "server.key")
    /\ proc' = [proc EXCEPT ![p].pc = "serving", ![p].has = files[TLS("server.crt")]]
    /\ OnlyReads

Stop(p) ==
    /\ proc[p].pc = "serving"
    /\ proc' = [proc EXCEPT ![p] = Idle]
    /\ OnlyReads

-----------------------------------------------------------------------------
(* Backup.  The content root holds blobs and the database, which names the *)
(* blobs it needs; a value is the set of what a file contains or names, and *)
(* an archive is a sequence of entries that is closed last.                *)

Entry(kind, name, value) == [kind |-> kind, name |-> name, value |-> value]

\* The blobs come before the database in the walk of the content root.
Contents ==
    <<Entry("manifest", "manifest", {}), Entry("config", "config", live.config)>>
    \o [i \in 1 .. Cardinality(live.blobs) |->
           LET b == SetToSeq(live.blobs)[i] IN Entry("content", b, {b})]
    \o <<Entry("content", Database, live.database)>>

BackingUp(p) == proc[p].pc = "archive"
Output(p) == Archive(proc[p].ask.archive)

StatOutput(p) ==
    /\ proc[p].pc = "output" /\ ~Exists(Output(p))
    /\ Goto(p, "open")
    /\ OnlyReads

CreateOutput(p) ==
    /\ proc[p].pc = "open"
    /\ files[Output(p)] = Absent
    /\ WriteFile(Output(p), [entries |-> <<>>, closed |-> FALSE])
    /\ Goto(p, "archive")
    /\ OnlyFiles

\* manifest.json, the configuration and the walk of the content root.
WriteEntry(p) ==
    /\ BackingUp(p) /\ proc[p].at < Len(Contents)
    /\ files' = [files EXCEPT ![Output(p)].entries = Append(@, Contents[proc[p].at + 1])]
    /\ Advance(p)
    /\ OnlyFiles

\* The tar and gzip trailers.
CloseOutput(p) ==
    /\ BackingUp(p) /\ proc[p].at = Len(Contents)
    /\ files' = [files EXCEPT ![Output(p)].closed = TRUE]
    /\ proc' = [proc EXCEPT ![p] = Idle]
    /\ OnlyFiles

-----------------------------------------------------------------------------
(* Restore.                                                                *)

Names == Blobs \cup {Database}

\* The file a restore has open, which it keeps when a failed backup removes it.
Source(p) == IF proc[p].has = Nothing THEN files[Archive(proc[p].ask.archive)] ELSE proc[p].has
Opened(q, archive) == proc[q].pc \in {"next", "copy"} /\ proc[q].has = Nothing
                        /\ Archive(proc[q].ask.archive) = archive

\* The content root is absent or empty.
StatTarget(p) ==
    /\ proc[p].pc = "target"
    /\ \A name \in Names : ~Exists(Restored(proc[p].ask.root, name))
    /\ Goto(p, "settings")
    /\ OnlyReads

\* There is no configuration yet, and there is an archive.
OpenArchive(p) ==
    /\ proc[p].pc = "settings"
    /\ ~Exists(ConfigFile(proc[p].ask.config)) /\ Exists(Archive(proc[p].ask.archive))
    /\ Goto(p, "next")
    /\ OnlyReads

HasNext(p) == proc[p].pc = "next" /\ proc[p].at < Len(Source(p).entries)
Header(p) == Source(p).entries[proc[p].at + 1]

Target(p) ==
    IF Header(p).kind = "config" THEN ConfigFile(proc[p].ask.config)
    ELSE Restored(proc[p].ask.root, Header(p).name)

ReadManifest(p) ==
    /\ HasNext(p) /\ Header(p).kind = "manifest"
    /\ proc' = [proc EXCEPT ![p].at = @ + 1, ![p].seen = @ \cup {"manifest"}]
    /\ OnlyReads

\* Mutant: the target may exist already.
CreateTargetOver(p) ==
    /\ HasNext(p) /\ Header(p).kind # "manifest"
    /\ WriteFile(Target(p), Created)
    /\ proc' = [proc EXCEPT ![p].pc = "copy"]
    /\ OnlyFiles

\* restoreTarFile creates the target, and then copies into it.
CreateTarget(p) ==
    /\ HasNext(p) /\ Header(p).kind # "manifest"
    /\ CreateExclusive(Target(p))
    /\ proc' = [proc EXCEPT ![p].pc = "copy"]
    /\ OnlyFiles

CopyEntry(p) ==
    /\ proc[p].pc = "copy"
    /\ WriteFile(Target(p), Header(p).value)
    /\ proc' = [proc EXCEPT ![p].pc = "next", ![p].at = @ + 1,
                            ![p].seen = @ \cup {Header(p).kind}]
    /\ OnlyFiles

\* Mutant: the end of a truncated archive is an end like any other.
AtAnyEnd(p) == proc[p].pc = "next" /\ proc[p].at = Len(Source(p).entries)

\* io.EOF comes only from an archive that was closed.
AtEnd(p) == proc[p].pc = "next" /\ proc[p].at = Len(Source(p).entries) /\ Source(p).closed

FinishRestore(p) ==
    /\ AtEnd(p) /\ {"manifest", "config"} \subseteq proc[p].seen
    /\ Goto(p, "restored")
    /\ OnlyReads

-----------------------------------------------------------------------------
(* What ends a command early.                                              *)

\* Mutant: the unfinished archive of a failed backup stays.
ExitLeaving(p) ==
    /\ proc' = [proc EXCEPT ![p] = Idle]
    /\ UNCHANGED <<files, live, now, keys, begun, crashes, workload>>

\* A command that returns an error removes its own unfinished archive.
Exit(p) ==
    /\ files' = IF BackingUp(p) THEN [files EXCEPT ![Output(p)] = Absent] ELSE files
    /\ proc' = [q \in Commands |->
                  IF q = p THEN Idle
                  ELSE IF BackingUp(p) /\ Opened(q, Output(p))
                  THEN [proc[q] EXCEPT !.has = files[Output(p)]] ELSE proc[q]]
    /\ UNCHANGED <<live, now, keys, begun, crashes, workload>>

\* What the command itself finds wrong.
Refused(p) ==
    \/ Counted(p) /\ Cardinality(proc[p].seen) \in 1 .. Len(IdentityFiles) - 1
    \/ Counted(p) /\ Cardinality(proc[p].seen) = Len(IdentityFiles)
          /\ ~Loads("server.crt", "server.key")
    \/ proc[p].pc = "authority" /\ ~AuthorityUsable(p)
    \/ proc[p].pc = "create" /\ ~Generated(p)
          /\ Exists(TLS(IdentityFiles[proc[p].at + 1]))
    \/ proc[p].pc = "keycreate" /\ Exists(TLS(CredentialKey))
    \/ proc[p].pc = "keyload" /\ ~Written(TLS(CredentialKey))
    \/ proc[p].pc = "listen" /\ ~Loads("server.crt", "server.key")
    \/ proc[p].pc \in {"output", "open"} /\ Exists(Output(p))
    \/ proc[p].pc = "target" /\ \E name \in Names : Exists(Restored(proc[p].ask.root, name))
    \/ proc[p].pc = "settings"
          /\ (Exists(ConfigFile(proc[p].ask.config)) \/ ~Exists(Archive(proc[p].ask.archive)))
    \/ HasNext(p) /\ Header(p).kind # "manifest" /\ Exists(Target(p))
    \/ proc[p].pc = "next" /\ proc[p].at = Len(Source(p).entries) /\ ~Source(p).closed
    \/ AtEnd(p) /\ ~({"manifest", "config"} \subseteq proc[p].seen)

CommandRefuses(p) == Refused(p) /\ Exit(p)

\* Any system call may fail.
CommandFails(p) == Running(p) /\ Exit(p)

CommandDies(p) ==
    /\ Running(p) \/ proc[p].pc = "serving"
    /\ crashes < MaxCrashes
    /\ crashes' = crashes + 1
    /\ proc' = [proc EXCEPT ![p] = Idle]
    /\ UNCHANGED <<files, live, now, keys, begun, workload>>

-----------------------------------------------------------------------------
(* The service that owns the content root, and time.                       *)

\* Backups are made while it is stopped, as their document demands.
Offline == \E p \in Commands : proc[p].pc \in {"output", "open", "archive"}

StoreBlob ==
    /\ ~Offline
    /\ \E b \in workload.blobs \ live.blobs : live' = [live EXCEPT !.blobs = @ \cup {b}]
    /\ UNCHANGED <<files, now, keys, begun, crashes, proc, workload>>

RecordBlob ==
    /\ ~Offline
    /\ \E b \in live.blobs \ live.database : live' = [live EXCEPT !.database = @ \cup {b}]
    /\ UNCHANGED <<files, now, keys, begun, crashes, proc, workload>>

Tick ==
    /\ now < workload.years
    /\ now' = now + 1
    /\ UNCHANGED <<files, live, keys, begun, crashes, proc, workload>>

Init ==
    /\ files = [path \in Paths |-> Absent]
    /\ live = [config |-> {"routes"}, blobs |-> {}, database |-> {}]
    /\ now = 0 /\ keys = 0 /\ begun = 0 /\ crashes = 0
    /\ proc = [p \in Commands |-> Idle]
    /\ workload \in Workloads

Step(p) ==
    \/ StatIdentity(p) \/ GenerateIdentity(p) \/ CreateIdentityFile(p) \/ WriteIdentityFile(p)
    \/ IdentityGenerated(p) \/ LoadServerPair(p) \/ KeepCertificate(p)
    \/ SignCertificate(p) \/ ReplaceCertificate(p)
    \/ StatCredentialKey(p) \/ CreateCredentialKey(p) \/ WriteCredentialKey(p)
    \/ LoadCredentialKey(p) \/ Listen(p)
    \/ StatOutput(p) \/ CreateOutput(p) \/ WriteEntry(p) \/ CloseOutput(p)
    \/ StatTarget(p) \/ OpenArchive(p) \/ ReadManifest(p) \/ CreateTarget(p)
    \/ CopyEntry(p) \/ FinishRestore(p)
    \/ CommandRefuses(p)

Next ==
    \/ \E p \in Commands :
          Run(p) \/ Step(p) \/ Stop(p) \/ CommandFails(p) \/ CommandDies(p)
    \/ StoreBlob \/ RecordBlob \/ Tick

Spec == Init /\ [][Next]_vars

-----------------------------------------------------------------------------
(* Properties.                                                             *)

PCs == {"idle", "stat", "create", "encode", "authority", "rename", "initialized", "keystat",
        "keycreate", "keywrite", "keyload", "listen", "serving", "output", "open", "archive",
        "target", "settings", "next", "copy", "restored"}

\* Every command is at a step of its own operation, whoever else runs, and
\* only a path that some command is making is Created, unless one has failed
\* there or died.
TypeOK ==
    /\ DOMAIN files = Paths
    /\ \A p \in Commands :
          /\ proc[p].pc \in PCs
          /\ (proc[p].pc = "idle") = (proc[p].ask = NoAsk)
          /\ proc[p].pc = "copy" => files[Target(p)] = Created
          /\ proc[p].pc = "keywrite" => files[TLS(CredentialKey)] = Created
          /\ BackingUp(p) => ~files[Output(p)].closed
    /\ begun \in 0 .. workload.commands /\ crashes \in 0 .. MaxCrashes

\* Whoever ran, failed or died, the whole files of the identity belong
\* together: no file is of another generation than the rest (ensure writes
\* four files one by one, and two first starts may do so at once).
OneIdentity ==
    LET whole(name) == Written(TLS(name))
        value(name) == files[TLS(name)] IN
    /\ whole("ca.crt") /\ whole("ca.key") => value("ca.crt").key = value("ca.key")
    /\ whole("server.crt") /\ whole("server.key") => value("server.crt").key = value("server.key")
    /\ whole("server.crt") /\ whole("ca.crt") => value("server.crt").signer = value("ca.crt").key

\* The files of commands that overlap, fail and die (ensure, ensureCredentialKey).
FilesInv == TypeOK /\ OneIdentity

\* A server presents a certificate of the host's whole identity and seals
\* credentials with the key that the next start will find.
ServesWhatIsKept ==
    \A p \in Commands : proc[p].pc = "serving" =>
       /\ \A name \in Range(IdentityFiles) : Written(TLS(name))
       /\ proc[p].has.key = files[TLS("server.key")]
       /\ proc[p].has.signer = files[TLS("ca.crt")].key
       /\ proc[p].secret = files[TLS(CredentialKey)]

\* Unless another command replaced the certificate meanwhile, a server's
\* covers its hosts, and tls init leaves one for exactly its own
\* (EnsureExact, identity.go:39).
IssuedForHosts ==
    \A p \in Commands : ~proc[p].raced =>
       /\ proc[p].pc = "serving" => proc[p].ask.hosts \subseteq proc[p].has.hosts
       /\ proc[p].pc = "initialized" => files[TLS("server.crt")].hosts = proc[p].ask.hosts

\* An archive that was closed holds a configuration and a content root whose
\* database names only blobs that are in the archive too.
Entries(archive) == Range(files[archive].entries)
Held(archive) == {e.name : e \in {e \in Entries(archive) : e.kind = "content"}}
ArchivesWhole ==
    \A a \in Archives : Exists(Archive(a)) =>
       \/ /\ ~files[Archive(a)].closed
          /\ crashes > 0 \/ \E p \in Commands : BackingUp(p) /\ Output(p) = Archive(a)
       \/ /\ \E e \in Entries(Archive(a)) : e.kind = "manifest"
          /\ \E e \in Entries(Archive(a)) : e.kind = "config"
          /\ \E e \in Entries(Archive(a)) :
                e.name = Database /\ e.value \subseteq Held(Archive(a))

\* A restore that reported success left every entry of a closed archive in
\* place, whole, whatever ran at the same time.
RestoresAll ==
    \A p \in Commands : proc[p].pc = "restored" =>
       LET archive == files[Archive(proc[p].ask.archive)] IN
       /\ archive.closed
       /\ files[ConfigFile(proc[p].ask.config)] = live.config
       /\ \A e \in Range(archive.entries) :
             e.kind = "content" => files[Restored(proc[p].ask.root, e.name)] = e.value

\* What a file holds is kept: only the server certificate is ever replaced,
\* by one of the same key and authority (README.md:213), and only an
\* unfinished archive is removed.
Keeps(path) ==
    \/ files'[path] = files[path]
    \/ path = TLS("server.crt")
         /\ files'[path].key = files[path].key /\ files'[path].signer = files[path].signer
    \/ \E a \in Archives : path = Archive(a) /\ ~files[path].closed
NothingOverwritten == [][\A path \in Paths : Written(path) => Keeps(path)]_files

=============================================================================
