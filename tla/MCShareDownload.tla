---------------------------- MODULE MCShareDownload ----------------------------
(* Model values for ShareDownload. *)
EXTENDS ShareDownload

CONSTANTS u1, u2
=============================================================================
