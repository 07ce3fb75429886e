------------------------------ MODULE MCSecrets -------------------------------
(* Small instances of Secrets.                                             *)
EXTENDS SecretsProps

CONSTANTS password, token, key
=============================================================================
