----------------------------- MODULE MCSecretStore -----------------------------
(* Model values for SecretStore; the commands are interchangeable. *)
EXTENDS SecretStore, TLC

CONSTANTS a, b, c

Commands == Permutations({a, b, c})
=============================================================================
