----------------------------- MODULE MCAccounts -----------------------------
(***************************************************************************)
(* Instances of Accounts for TLC.                                          *)
(***************************************************************************)
EXTENDS Accounts, TLC

CONSTANTS u1, u2, n1, n2, n3, s1, s2, d1

Plain == [set |-> {}, name |-> n2, access |-> "admin", enabled |-> TRUE]
Order(op, s, u, n, c) ==
    [op |-> op, session |-> s, target |-> u, token |-> d1, name |-> n, change |-> c]

Demote  == [Plain EXCEPT !.set = {"access"}, !.access = "user"]
Disable == [Plain EXCEPT !.set = {"enabled"}, !.enabled = FALSE]
Rename  == [Plain EXCEPT !.set = {"name"}, !.name = n3]

\* An administrator, signed in once or twice, creates another one, and acts on
\* that one and on himself from several browsers at once: demotes, disables and
\* renames, changes passwords in every way there is, and issues and revokes
\* tokens meanwhile.
AllOrders ==
    {Order(op, s1, u1, n1, Plain) : op \in {"setup", "recover", "login", "logout", "issue",
                                            "revoke", "password", "reset", "create"}} \cup
    {Order("edit", s1, u1, n1, c) : c \in {Disable, Rename}} \cup
    {Order("edit", s1, u2, n1, Demote)}

RequestSymmetry == Permutations(Requests)

=============================================================================
