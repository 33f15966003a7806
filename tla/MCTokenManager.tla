--------------------------- MODULE MCTokenManager ---------------------------
(***************************************************************************)
(* Instances of TokenManager for TLC.                                      *)
(***************************************************************************)
EXTENDS TokenManager, TLC

\* Tasks run any command, so permuting them changes nothing a safety property
\* can see.
TaskSymmetry == Permutations(Tasks)

Racing == {"owner", "plan", "login", "config"}
Requests == {"plain", "share", "login", "logout"}
Managers == {"plain", "login"}
=============================================================================
