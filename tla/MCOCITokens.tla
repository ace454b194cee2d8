---------------------------- MODULE MCOCITokens ----------------------------
(***************************************************************************)
(* Instances of OCITokens for TLC.                                         *)
(***************************************************************************)
EXTENDS OCITokens, TLC

Symmetric == Permutations(Requests) \cup Permutations(Users) \cup Permutations(Usernames)
                 \cup Permutations(Hashes)

=============================================================================
