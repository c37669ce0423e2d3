--------------------------- MODULE MCCredentials ---------------------------
(* Small instances of Credentials. *)
EXTENDS Credentials, TLC

Symmetry == Permutations(Workers)
=============================================================================
