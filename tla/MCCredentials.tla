--------------------------- MODULE MCCredentials ---------------------------
(* Instance of Credentials for TLC. *)
EXTENDS Credentials, TLC

CredentialsSymmetry == Permutations(Requests) \cup Permutations(Secrets)
=============================================================================
