--------------------------- MODULE MCCredentials ---------------------------
(***************************************************************************)
(* Instances of Credentials for TLC: two users save, replace and remove    *)
(* one credential each.                                                    *)
(***************************************************************************)
EXTENDS Credentials, TLC

CONSTANTS u1, u2, s1, n1, n2, x1, x2

Saving(u, s, n, x) == [op |-> "save", place |-> <<u, s>>, name |-> n, secret |-> x]
Removing(u, s)     == [op |-> "remove", place |-> <<u, s>>, name |-> n1, secret |-> x1]

\* Two accounts at one registry.  Permutations of the keys, users and accounts are
\* not used for symmetry: the asks name them.
ServiceAsks == {Saving(u1, s1, n1, x1), Saving(u1, s1, n2, x2), Removing(u1, s1), Saving(u2, s1, n1, x1)}

Symmetric == Permutations(Requests) \cup Permutations(Ids)

=============================================================================
