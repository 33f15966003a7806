----------------------------- MODULE MCTosUpload -----------------------------
(* Instances of TosUpload for TLC. *)
EXTENDS TosUpload

\* What "force" does is part of what "newer" may do.
Chosen == {[guarded |-> FALSE, strategy |-> "newer"], [guarded |-> TRUE, strategy |-> "no_clobber"]}

Forced == {[guarded |-> FALSE, strategy |-> "force"]}
=============================================================================
