-------------------------- MODULE DurableCompletions --------------------------
(***************************************************************************)
(* What a share-download checkpoint promises: the digest recorded for a    *)
(* file is the one a resume recovers, and once a completion was            *)
(* acknowledged as durable nothing takes it back.                          *)
(***************************************************************************)
CONSTANTS
    Files,    \* entries of the download manifest
    Digests,  \* SHA-256 digests of downloaded contents
    None      \* no completion recorded

VARIABLES
    done,     \* done[i]: the digest a resume recovers for file i, or None
    acked     \* files whose completion was acknowledged as durable

TypeOK ==
    /\ done \in [Files -> Digests \cup {None}]
    /\ acked \subseteq {i \in Files : done[i] # None}

Init ==
    /\ done \in [Files -> Digests \cup {None}]
    /\ acked = {}

\* A completion is recorded once.
Credit(i, d) ==
    /\ done[i] = None
    /\ done' = [done EXCEPT ![i] = d]
    /\ UNCHANGED acked

\* The process tells its caller that the completions in S survive a crash.
Acknowledge(S) ==
    /\ \A i \in S : done[i] # None
    /\ acked' = acked \cup S
    /\ UNCHANGED done

\* A power loss may take back completions nobody was told about.
Lose(S) ==
    /\ S \cap acked = {}
    /\ done' = [i \in Files |-> IF i \in S THEN None ELSE done[i]]
    /\ UNCHANGED acked

Next ==
    \/ \E i \in Files, d \in Digests : Credit(i, d)
    \/ \E S \in SUBSET Files : Acknowledge(S) \/ Lose(S)

Spec == Init /\ [][Next]_<<done, acked>>
=============================================================================
