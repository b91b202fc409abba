---------------------------- MODULE MCOAuthServer ----------------------------
(***************************************************************************)
(* Small instances of OAuthServer for TLC.                                 *)
(***************************************************************************)
EXTENDS OAuthServer, TLC

\* Codes, rows and calls are interchangeable.
OAuthSymmetry == Permutations(Codes) \cup Permutations(Tokens) \cup Permutations(Calls)
=============================================================================
