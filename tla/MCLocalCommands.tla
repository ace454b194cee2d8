-------------------------- MODULE MCLocalCommands --------------------------
(* Two commands at a time: first an identity, a credential key and servers; *)
(* or else backups and restores of a content root of two blobs.             *)
EXTENDS LocalCommands, TLC

CONSTANTS c1, c2, b1, b2, a1, a2, root, y1, y2, h1, h2

Serve(hosts) == [op |-> "serve", hosts |-> hosts]
TLSInit(hosts) == [op |-> "init", hosts |-> hosts]
Backup(a) == [op |-> "backup", archive |-> a]
Restore(a, y) == [op |-> "restore", archive |-> a, root |-> root, config |-> y]

MCWorkloads ==
    { [asks |-> {Serve({h2}), TLSInit({h1}), TLSInit({h1, h2})},
       blobs |-> {}, years |-> CALife + 1, commands |-> 3],
      [asks |-> {Backup(a1), Backup(a2), Restore(a1, y1), Restore(a2, y2)},
       blobs |-> {b1, b2}, years |-> 0, commands |-> 4] }

Symmetry == Permutations({c1, c2})

=============================================================================
