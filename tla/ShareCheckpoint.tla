---------------------------- MODULE ShareCheckpoint ----------------------------
(***************************************************************************)
(* The recovery journal of `ve-adrive share download`: an immutable JSON   *)
(* snapshot (Checkpoint) and, beside it, a ledger of fixed-size completion *)
(* records that is appended and fsynced as files complete (LedgerWriter),  *)
(* together with the part of the download driver that publishes a file     *)
(* before it records it (finish_file), the resume that verifies what it    *)
(* recovered (validate_resume) and a lock-free reader (the dry-run plan).  *)
(*                                                                         *)
(* Abstractions.                                                           *)
(*   - The manifest is the set Files; its fingerprint, with the identity   *)
(*     and the completions of the snapshot, is the binding that ties a     *)
(*     ledger to its snapshot.  Of the identity only api_origin matters:   *)
(*     a snapshot of an older release lacks it (old) and is normalised on  *)
(*     load.                                                               *)
(*   - A ledger body is a sequence of records and of Torn, the trace of a  *)
(*     write that stopped half way.  A reader ignores Torn at the end and  *)
(*     finds no valid record from a Torn in the middle on.                 *)
(*   - publish (fsync of the staged file, rename or link+unlink, fsync of  *)
(*     the directory) leaves the file, or replaces it and then fails or is *)
(*     killed before the directory is synced, or succeeds.  fallback is    *)
(*     the snapshot a power loss may bring back meanwhile.  A ledger that  *)
(*     comes back is one with the same completions, so it has no fallback. *)
(*   - Only this program touches the checkpoint files; the user may edit   *)
(*     downloaded files.                                                   *)
(***************************************************************************)
EXTENDS Naturals, Sequences, SequencesExt

CONSTANTS
    Files,      \* entries of the download manifest
    Digests,    \* contents a file can be downloaded with
    None,       \* no digest
    Edited,     \* content the user gave a downloaded file
    Procs,      \* download processes using the same checkpoint name
    NoProc,     \* the sidecar lock is free
    Torn,       \* a partial record
    OrderedMetadata, \* any fsync also commits earlier renames (journalled
                     \* file systems); POSIX promises it for the directory only
    MaxRuns     \* bound on the number of commands started

ASSUME ConstantsAssumption ==
    /\ IsFiniteSet(Files)
    /\ None \notin Digests \cup Files
    /\ Torn \notin [file : Files, digest : Digests]
    /\ Edited \notin Digests \cup {None}
    /\ NoProc \notin Procs
    /\ OrderedMetadata \in BOOLEAN
    /\ MaxRuns \in Nat

Completions == [Files -> Digests \cup {None}]
Empty == [i \in Files |-> None]
Done(c) == {i \in Files : c[i] # None}

\* fingerprint(journal): identity normalised or not, and the base completions.
Bindings == [old : BOOLEAN, base : Completions]
Snapshots == [marked : BOOLEAN, old : BOOLEAN, base : Completions]
Records == [file : Files, digest : Digests]
NoFile == [absent |-> TRUE]

VARIABLES
    snapshot,  \* <checkpoint>: a Snapshot or NoFile
    fallback,  \* the snapshot a power loss may restore
    ledger,    \* <checkpoint>.completed/ledger.bin, or NoFile
    local,     \* local[i]: content of the downloaded file i
    landed,    \* landed[i]: contents this program ever published at i
    lock,      \* holder of <checkpoint>.lock
    runs,      \* commands started so far
    pc,        \* pc[p]: where process p is
    journal,   \* journal[p]: Journal.completed
    durable,   \* durable[p]: State.durable_completions
    binding,   \* binding[p]: State.binding
    pending,   \* pending[p]: State.is_snapshot_pending
    fresh,     \* fresh[p]: the run was not started with --resume
    poisoned,  \* poisoned[p]: LedgerWriter.is_poisoned
    current,   \* current[p]: the file whose completion is being saved
    acked,     \* completions reported as recoverable (CheckpointAvailable)
    seen       \* the reader: the snapshot it read, or NoFile

disk == <<snapshot, fallback, ledger, local, landed>>
memory == <<journal, durable, binding, pending, fresh, poisoned, current>>
vars == <<disk, lock, runs, pc, memory, acked, seen>>

Locations == {"idle", "load", "verify", "ledger", "snapshot", "transfer",
              "append", "sync"}

\* synced: how many leading entries of the body fsync has covered.  by: the
\* process whose open handle is this inode.
Ledgers == [binding : Bindings, body : Seq(Records \cup {Torn}), synced : Nat,
            by : Procs]

TypeOK ==
    /\ {snapshot, fallback} \subseteq Snapshots \cup {NoFile}
    /\ ledger \in Ledgers \cup {NoFile}
    /\ local \in [Files -> Digests \cup {None, Edited}]
    /\ landed \in [Files -> SUBSET Digests]
    /\ lock \in Procs \cup {NoProc}
    /\ runs \in 0 .. MaxRuns
    /\ pc \in [Procs -> Locations]
    /\ journal \in [Procs -> Completions]
    /\ durable \in [Procs -> Completions]
    /\ binding \in [Procs -> Bindings]
    /\ pending \in [Procs -> BOOLEAN]
    /\ fresh \in [Procs -> BOOLEAN]
    /\ poisoned \in [Procs -> BOOLEAN]
    /\ current \in [Procs -> Files \cup {None}]
    /\ acked \subseteq Files
    /\ seen \in Snapshots \cup {NoFile}

NoBinding == [old |-> FALSE, base |-> Empty]

\* The directory is new, or holds a snapshot written by an older release (no
\* ledger; its completions were published before they were saved).
Init ==
    /\ snapshot \in {NoFile} \cup {s \in Snapshots : ~s.marked}
    /\ fallback = snapshot
    /\ ledger = NoFile
    /\ local = [i \in Files |-> IF snapshot = NoFile THEN None
                                ELSE snapshot.base[i]]
    /\ landed = [i \in Files |-> {local[i]} \ {None}]
    /\ lock = NoProc
    /\ runs = 0
    /\ pc = [p \in Procs |-> "idle"]
    /\ journal = [p \in Procs |-> Empty]
    /\ durable = [p \in Procs |-> Empty]
    /\ binding = [p \in Procs |-> NoBinding]
    /\ pending = [p \in Procs |-> FALSE]
    /\ fresh = [p \in Procs |-> FALSE]
    /\ poisoned = [p \in Procs |-> FALSE]
    /\ current = [p \in Procs |-> None]
    /\ acked = {}
    /\ seen = NoFile

-----------------------------------------------------------------------------
(* Reading snapshot and ledger. *)

\* The fingerprint of the snapshot as it was saved, and the one an interrupted
\* upgrade of an unmarked snapshot may have prepared.
SnapshotBinding(s) == [old |-> s.old, base |-> s.base]

\* Mutant: no binding for an interrupted upgrade.
AcceptsOwnOnly(s, b) == b = SnapshotBinding(s)

Accepts(s, b) ==
    \/ b = SnapshotBinding(s)
    \/ ~s.marked /\ b = [old |-> FALSE, base |-> s.base]

\* read_record: an incomplete final record is never credited.
Readable(body) ==
    IF body # <<>> /\ Last(body) = Torn THEN Front(body) ELSE body

\* merge_record: every record is whole, new and compatible with the snapshot.
ValidBody(s, body) ==
    \A n \in 1 .. Len(body) :
        /\ body[n] # Torn
        /\ s.base[body[n].file] \in {None, body[n].digest}
        /\ \A m \in 1 .. n - 1 : body[m].file # body[n].file

Merge(s, body) ==
    [i \in Files |->
        IF \E n \in 1 .. Len(body) : body[n].file = i
        THEN body[CHOOSE n \in 1 .. Len(body) : body[n].file = i].digest
        ELSE s.base[i]]

\* completion_ledger::load accepts snapshot s with ledger l.
Loads(s, l) ==
    /\ s # NoFile
    /\ IF l = NoFile THEN ~s.marked
       ELSE Accepts(s, l.binding) /\ ValidBody(s, Readable(l.body))

Loaded(s, l) == IF l = NoFile THEN s.base ELSE Merge(s, Readable(l.body))

\* What a resume recovers from the disk as it is.
Recoverable ==
    IF Loads(snapshot, ledger) THEN Loaded(snapshot, ledger) ELSE Empty

-----------------------------------------------------------------------------
(* One run of the command. *)

Goto(p, l) == pc' = [pc EXCEPT ![p] = l]

\* The command ends, in success or error, or its process dies: the OS releases
\* the sidecar lock and the memory of the run is gone.
End(p) ==
    /\ Goto(p, "idle")
    /\ lock' = NoProc
    /\ journal' = [journal EXCEPT ![p] = Empty]
    /\ durable' = [durable EXCEPT ![p] = Empty]
    /\ binding' = [binding EXCEPT ![p] = NoBinding]
    /\ pending' = [pending EXCEPT ![p] = FALSE]
    /\ fresh' = [fresh EXCEPT ![p] = FALSE]
    /\ poisoned' = [poisoned EXCEPT ![p] = FALSE]
    /\ current' = [current EXCEPT ![p] = None]

\* A successful fsync.
Settle == fallback' = IF OrderedMetadata THEN snapshot ELSE fallback

\* Checkpoint::open: the lock, then the fresh/resume policy.  A refused command
\* changes nothing.  A fresh run enumerates the manifest before it saves.
Open(p, resume) ==
    /\ pc[p] = "idle" /\ runs < MaxRuns
    /\ lock = NoProc
    /\ resume = (snapshot # NoFile)
    /\ runs' = runs + 1
    /\ lock' = p
    /\ Goto(p, IF resume THEN "load" ELSE "ledger")
    /\ fresh' = [fresh EXCEPT ![p] = ~resume]
    /\ pending' = [pending EXCEPT ![p] = ~resume]
    /\ UNCHANGED <<disk, journal, durable, binding, poisoned, current, acked,
                   seen>>

\* Checkpoint::load and State::new.
Load(p) ==
    /\ pc[p] = "load"
    /\ \/ /\ ~Loads(snapshot, ledger)
          /\ End(p)
       \/ /\ Loads(snapshot, ledger)
          /\ journal' = [journal EXCEPT ![p] = Loaded(snapshot, ledger)]
          /\ durable' = [durable EXCEPT ![p] = Loaded(snapshot, ledger)]
          /\ binding' = [binding EXCEPT ![p] = SnapshotBinding(snapshot)]
          /\ pending' = [pending EXCEPT ![p] = ~snapshot.marked]
          /\ Goto(p, "verify")
          /\ UNCHANGED <<lock, fresh, poisoned, current>>
    /\ UNCHANGED <<disk, runs, acked, seen>>

\* validate_resume: every recovered completion must still be the local bytes;
\* otherwise, or when the remote file changed, the command ends.
Verify(p) ==
    /\ pc[p] = "verify"
    /\ \/ End(p)
       \/ /\ \A i \in Done(journal[p]) : local[i] = journal[p][i]
          /\ Goto(p, "ledger")
          /\ UNCHANGED <<lock, memory>>
    /\ UNCHANGED <<disk, runs, acked, seen>>

\* The records of a new ledger, in file order.
RecordsOf(c) ==
    LET files == SetToSeq(Done(c)) IN
    [n \in 1 .. Len(files) |-> [file |-> files[n], digest |-> c[files[n]]]]

\* Mutant: the binding found by load is kept for a pending snapshot.
StaleBinding(p) == binding[p]

\* The header binds a snapshot that is still pending to what it will hold.
HeaderBinding(p) ==
    IF pending[p] THEN [old |-> FALSE, base |-> journal[p]] ELSE binding[p]

\* prepare_writer and LedgerWriter::create.
PublishLedger(p) ==
    LET b == HeaderBinding(p)
        d == IF pending[p] THEN journal[p] ELSE durable[p]
        body == RecordsOf(d) IN
    /\ pc[p] = "ledger"
    /\ \/ \* the ledger already exists, or nothing could be published
          /\ End(p)
          /\ UNCHANGED <<ledger, fallback>>
       \/ /\ ~(fresh[p] /\ ledger # NoFile)
          /\ ledger' = [binding |-> b, body |-> body, synced |-> Len(body),
                        by |-> p]
          /\ \/ \* published, but the directory was not synced
                /\ End(p)
                /\ UNCHANGED fallback
             \/ /\ Settle
                /\ binding' = [binding EXCEPT ![p] = b]
                /\ durable' = [durable EXCEPT ![p] = d]
                /\ Goto(p, IF pending[p] THEN "snapshot" ELSE "transfer")
                /\ UNCHANGED <<lock, journal, pending, fresh, poisoned, current>>
    /\ acked' = IF pc'[p] = "transfer" THEN acked \cup Done(journal[p])
                                       ELSE acked
    /\ UNCHANGED <<snapshot, local, landed, runs, seen>>

\* State::save publishes the pending snapshot after its ledger.
PublishSnapshot(p) ==
    /\ pc[p] = "snapshot"
    /\ \/ /\ End(p)
          /\ UNCHANGED <<snapshot, fallback, acked>>
       \/ /\ snapshot' = [marked |-> TRUE, old |-> FALSE, base |-> journal[p]]
          /\ \/ \* replaced, but the directory was not synced
                /\ End(p)
                /\ UNCHANGED <<fallback, acked>>
             \/ /\ fallback' = snapshot'
                /\ Goto(p, "transfer")
                /\ pending' = [pending EXCEPT ![p] = FALSE]
                /\ acked' = acked \cup Done(journal[p])
                /\ UNCHANGED <<lock, journal, durable, binding, fresh, poisoned,
                               current>>
    /\ UNCHANGED <<ledger, local, landed, runs, seen>>

\* Mutant: the completion is recorded before the file is published.
RecordFirst(p, i, d) ==
    /\ pc[p] = "transfer"
    /\ journal[p][i] = None
    /\ journal' = [journal EXCEPT ![p][i] = d]
    /\ current' = [current EXCEPT ![p] = i]
    /\ Goto(p, "append")
    /\ UNCHANGED <<disk, lock, runs, durable, binding, pending, fresh, poisoned,
                   acked, seen>>

\* finish_file: the staged file is published, then its completion is recorded.
\* Outcomes of jobs already running are accepted after a tracking failure too.
PublishFile(p, i, d) ==
    /\ pc[p] = "transfer"
    /\ journal[p][i] = None
    /\ local' = [local EXCEPT ![i] = d]
    /\ landed' = [landed EXCEPT ![i] = @ \cup {d}]
    /\ \/ \* replaced, but the directory was not synced: the file failed
          UNCHANGED <<pc, journal, current>>
       \/ /\ journal' = [journal EXCEPT ![p][i] = d]
          /\ current' = [current EXCEPT ![p] = i]
          /\ Goto(p, "append")
    /\ UNCHANGED <<snapshot, fallback, ledger, lock, runs, durable, binding,
                   pending, fresh, poisoned, acked, seen>>

Back(p) ==
    /\ Goto(p, "transfer")
    /\ current' = [current EXCEPT ![p] = None]
    /\ UNCHANGED <<lock, journal, binding, pending, fresh>>

\* Mutant: a failed append is forgotten.
AlwaysUsable(p) == TRUE

\* ensure_usable
Usable(p) == ~poisoned[p]

\* save_completion and append: refused by a poisoned writer or a replaced
\* ledger; the write may stop half way or not happen.
Append_(p) ==
    LET i == current[p]
        entry == [file |-> i, digest |-> journal[p][i]] IN
    /\ pc[p] = "append"
    /\ \/ /\ ~Usable(p)
          /\ Back(p)
          /\ UNCHANGED <<ledger, poisoned>>
       \/ /\ Usable(p)
          /\ poisoned' = [poisoned EXCEPT ![p] = TRUE]
          /\ \/ /\ Back(p)
                /\ UNCHANGED ledger
             \/ /\ ledger.by = p
                /\ ledger' = [ledger EXCEPT !.body = Append(@, Torn)]
                /\ Back(p)
             \/ /\ ledger.by = p
                /\ ledger' = [ledger EXCEPT !.body = Append(@, entry)]
                /\ Goto(p, "sync")
                /\ UNCHANGED <<lock, journal, binding, pending, fresh, current>>
    /\ UNCHANGED <<snapshot, fallback, local, landed, runs, durable, acked,
                   seen>>

\* fsync: only now is the completion durable and the writer usable again.
Sync(p) ==
    /\ pc[p] = "sync"
    /\ \/ UNCHANGED <<ledger, fallback, durable, poisoned, acked>>
       \/ /\ Settle
          /\ ledger' = [ledger EXCEPT !.synced = Len(ledger.body)]
          /\ durable' = [durable EXCEPT ![p][current[p]] = journal[p][current[p]]]
          /\ poisoned' = [poisoned EXCEPT ![p] = FALSE]
          /\ acked' = acked \cup {current[p]}
    /\ Back(p)
    /\ UNCHANGED <<snapshot, local, landed, runs, seen>>

\* The command finishes, is interrupted, or its process is killed.
Stop(p) ==
    /\ pc[p] # "idle"
    /\ End(p)
    /\ UNCHANGED <<disk, runs, acked, seen>>

-----------------------------------------------------------------------------
(* The environment and the reader. *)

\* Power loss: every process dies, a snapshot whose directory was not synced may
\* revert, and what fsync had not covered of the ledger may be whole, torn or
\* gone.
PowerLoss ==
    /\ snapshot' \in {snapshot, fallback}
    /\ fallback' = snapshot'
    /\ \/ UNCHANGED ledger
       \/ /\ ledger # NoFile
          /\ ledger.synced < Len(ledger.body)
          /\ \E tail \in {<<>>, <<Torn>>} :
                ledger' = [ledger EXCEPT
                              !.body = SubSeq(@, 1, ledger.synced) \o tail]
    /\ lock' = NoProc
    /\ pc' = [p \in Procs |-> "idle"]
    /\ journal' = [p \in Procs |-> Empty]
    /\ durable' = [p \in Procs |-> Empty]
    /\ binding' = [p \in Procs |-> NoBinding]
    /\ pending' = [p \in Procs |-> FALSE]
    /\ fresh' = [p \in Procs |-> FALSE]
    /\ poisoned' = [p \in Procs |-> FALSE]
    /\ current' = [p \in Procs |-> None]
    /\ seen' = NoFile
    /\ UNCHANGED <<local, landed, runs, acked>>

EditFile(i) ==
    /\ local[i] \in Digests
    /\ local' = [local EXCEPT ![i] = Edited]
    /\ UNCHANGED <<snapshot, fallback, ledger, landed, lock, runs, pc, memory, acked, seen>>

\* Checkpoint::read_only takes no lock: it reads the snapshot ...
ReadSnapshot ==
    /\ seen = NoFile
    /\ snapshot # NoFile
    /\ seen' = snapshot
    /\ UNCHANGED <<disk, lock, runs, pc, memory, acked>>

\* ... and later the ledger, as it is then.
ReadLedger ==
    /\ seen # NoFile
    /\ seen' = NoFile
    /\ UNCHANGED <<disk, lock, runs, pc, memory, acked>>

Step(p) ==
    \/ \E resume \in BOOLEAN : Open(p, resume)
    \/ Load(p) \/ Verify(p) \/ PublishLedger(p) \/ PublishSnapshot(p)
    \/ \E i \in Files, d \in Digests : PublishFile(p, i, d)
    \/ Append_(p) \/ Sync(p) \/ Stop(p)

Next ==
    \/ \E p \in Procs : Step(p)
    \/ PowerLoss
    \/ \E i \in Files : EditFile(i)
    \/ ReadSnapshot \/ ReadLedger

Spec == Init /\ [][Next]_vars

-----------------------------------------------------------------------------
(* Properties. *)

Promise == INSTANCE DurableCompletions WITH done <- Recoverable

\* A completion reported as available to --resume (CheckpointAvailable) is still
\* recovered, with the same digest, after any crash, failed or torn append, later
\* run or power loss: the journal implements DurableCompletions.
KeepsCompletions == Promise!Spec

\* A resume never credits a file with bytes this program did not publish there:
\* finish_file publishes before it records, and no reader accepts a partial
\* record.
NoFalseCredit ==
    \A i \in Files : Recoverable[i] # None => Recoverable[i] \in landed[i]

\* A checkpoint that exists can be resumed, whatever step of a run (first save,
\* upgrade of an older snapshot, append) was the last one to happen.
ResumeLoads == snapshot # NoFile => Loads(snapshot, ledger)

\* The dry run reads the snapshot and then, later, the ledger, without the lock:
\* the pair it ends with is accepted although a download replaced either file in
\* between, and holds every completion acknowledged so far.
ReaderConsistent ==
    seen # NoFile =>
        /\ Loads(seen, ledger)
        /\ \A i \in acked : Loaded(seen, ledger)[i] = Recoverable[i]

\* "snapshot must be durably saved before completion records"
\* (share_completion_ledger.rs:173): once a record is synced, no power loss takes
\* back the snapshot it belongs to.
SnapshotDurableBeforeRecords ==
    \A p \in Procs : pc[p] = "sync" => fallback = snapshot
=============================================================================
