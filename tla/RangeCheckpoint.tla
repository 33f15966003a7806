---------------------------- MODULE RangeCheckpoint ----------------------------
(* One large file of a share download, fetched as byte ranges.             *)
(*                                                                         *)
(* The ranges are fetched by at most Concurrency futures.  With a          *)
(* checkpoint every range is kept as a part file and a receipt (the part's *)
(* SHA-256), the file is assembled from the parts, verified as a whole and *)
(* published; a later run reuses the parts.  Without one the ranges are    *)
(* written straight into the staged file.                                  *)
(*                                                                         *)
(* Around the program: the remote file changes to another version and      *)
(* back, bytes are damaged on the way, other programs spoil the stored     *)
(* parts, calls fail, and the process is interrupted or loses power.       *)
(*                                                                         *)
(* Simplifications:                                                        *)
(*  - the bytes of a range are the version they belong to, and a digest    *)
(*    is the bytes it was computed from;                                   *)
(*  - the three attempts of a range are one step: the last one counts;     *)
(*  - another version has the same size (a different size is refused like  *)
(*    a failed request);                                                   *)
(*  - the file lock is left out: the directory belongs to one journal,     *)
(*    which is locked.                                                     *)
EXTENDS Naturals, FiniteSets

CONSTANTS
    N,             \* number of ranges of the file
    Concurrency,   \* futures that run_ranges keeps in flight
    Identities,    \* what the manifest pins: records [etag, crc |-> BOOLEAN]
    Checkpoints,   \* whether a checkpoint directory is configured
    MaxFaults      \* bound: failures, interruptions and outside damage

ASSUME SizesAssumption ==
    N \in Nat \ {0} /\ Concurrency \in Nat \ {0} /\ MaxFaults \in Nat

\* The caller falls back to a single GET without a pinned identity.
ASSUME HasIdentity ==
    /\ Identities \subseteq [etag : BOOLEAN, crc : BOOLEAN]
    /\ \A id \in Identities : id.etag \/ id.crc
    /\ Checkpoints \subseteq BOOLEAN

VARIABLES
    identity,      \* what this file's manifest entry pins
    checkpoint,    \* whether ranges are stored
    source,        \* the version the server has now
    part,          \* the stored parts
    receipt,       \* their receipts
    flushed,       \* parts and receipts that are safely on disk
    pc,            \* what the process is doing
    task,          \* the state of each range's future
    received,      \* bytes in a range's staged part
    output,        \* the staged file
    cursor,        \* next range to assemble, or next name to clear
    published,     \* the destination file
    journaled,     \* whether the completion is recorded
    warned,        \* cleanup_warning
    faults         \* faults so far

vars == <<identity, checkpoint, source, part, receipt, flushed, pc, task,
          received, output, cursor, published, journaled, warned, faults>>
disk == <<part, receipt>>
file == <<published, journaled>>

Ranges == 1..N
Versions == {"manifest", "other"}
Bytes == Versions \cup {"damaged"}
Stored == Bytes \cup {"absent", "spoiled"}
\* "garbled": a receipt that does not parse or names another range.
Receipts == Bytes \cup {"absent", "garbled"}
Written == Bytes \cup {"zeros"}   \* set_len leaves zeros until a range is written

Active == {"restore", "unpart", "unreceipt", "transfer", "publish", "receipt"}

Empty == [n \in Ranges |-> "zeros"]

-----------------------------------------------------------------------------
Init ==
    /\ identity \in Identities
    /\ checkpoint \in Checkpoints
    /\ source = "manifest"
    /\ part = [n \in Ranges |-> "absent"]
    /\ receipt = [n \in Ranges |-> "absent"]
    /\ flushed = [part |-> part, receipt |-> receipt]
    /\ pc = "down"
    /\ task = [n \in Ranges |-> "todo"]
    /\ received = [n \in Ranges |-> "zeros"]
    /\ output = Empty
    /\ cursor = 1
    /\ published = Empty
    /\ journaled = FALSE
    /\ warned = FALSE
    /\ faults = 0

\* A run starts, or resumes: the remote identity is compared with the
\* manifest first, and a fresh staged file gets its length.
Open ==
    /\ pc = "down"
    /\ ~journaled
    /\ source = "manifest"
    /\ pc' = "ranges"
    /\ task' = [n \in Ranges |-> "todo"]
    /\ received' = [n \in Ranges |-> "zeros"]
    /\ output' = Empty
    /\ UNCHANGED <<identity, checkpoint, source, disk, flushed, cursor, file,
                   warned, faults>>

\* The run returns: the staged files go with it, and so do the futures that
\* were still in flight.  What is stored stays.
Return(to) ==
    /\ pc' = to
    /\ task' = [n \in Ranges |-> "todo"]
    /\ received' = [n \in Ranges |-> "zeros"]
    /\ output' = Empty
    /\ cursor' = 1

Fault ==
    /\ faults < MaxFaults
    /\ faults' = faults + 1

-----------------------------------------------------------------------------
(* run_ranges: the stream is taken in order, Concurrency at a time *)

Started(n) == task[n] # "todo"

CanStart(n) ==
    /\ pc = "ranges"
    /\ task[n] = "todo"
    /\ \A m \in 1..(n - 1) : Started(m)
    /\ Cardinality({m \in Ranges : task[m] \in Active}) < Concurrency

Start(n) ==
    /\ CanStart(n)
    /\ task' = [task EXCEPT ![n] = IF checkpoint THEN "restore" ELSE "transfer"]
    /\ UNCHANGED <<identity, checkpoint, source, disk, flushed, pc, received,
                   output, cursor, file, warned, faults>>

Move(n, from, to) ==
    /\ pc = "ranges"
    /\ task[n] = from
    /\ task' = [task EXCEPT ![n] = to]

\* receipt(): a pair whose receipt can be read and belongs to this range.
Paired(n) ==
    /\ part[n] # "absent"
    /\ receipt[n] \notin {"absent", "garbled"}

\* restore(): the stored bytes still have the recorded digest.
Restorable(n) == Paired(n) /\ part[n] = receipt[n]

\* Mutant: stored ranges are never reused.
RestoreNever(n) ==
    /\ Move(n, "restore", "unpart")
    /\ UNCHANGED <<identity, checkpoint, source, disk, flushed, pc, received,
                   output, cursor, file, warned, faults>>

Restore(n) ==
    /\ \/ Restorable(n) /\ Move(n, "restore", "done")
       \/ ~Restorable(n) /\ Move(n, "restore", "unpart")
    /\ UNCHANGED <<identity, checkpoint, source, disk, flushed, pc, received,
                   output, cursor, file, warned, faults>>

\* discard(): the part goes first, its receipt second.
DiscardPart(n) ==
    /\ Move(n, "unpart", "unreceipt")
    /\ part' = [part EXCEPT ![n] = "absent"]
    /\ UNCHANGED <<identity, checkpoint, source, receipt, flushed, pc, received,
                   output, cursor, file, warned, faults>>

DiscardReceipt(n) ==
    /\ Move(n, "unreceipt", "transfer")
    /\ receipt' = [receipt EXCEPT ![n] = "absent"]
    /\ UNCHANGED <<identity, checkpoint, source, part, flushed, pc, received,
                   output, cursor, file, warned, faults>>

\* A response is accepted: with a pinned ETag only the manifest's version is.
Accepted(v) == identity.etag => v = "manifest"

\* The bytes arrive in the range's staged part, or in the staged file.
Receive(n, bytes) ==
    IF checkpoint
    THEN /\ Move(n, "transfer", "publish")
         /\ received' = [received EXCEPT ![n] = bytes]
         /\ UNCHANGED output
    ELSE /\ Move(n, "transfer", "done")
         /\ output' = [output EXCEPT ![n] = bytes]
         /\ UNCHANGED received

Transfer(n) ==
    /\ Accepted(source)
    /\ Receive(n, source)
    /\ UNCHANGED <<identity, checkpoint, source, disk, flushed, pc, cursor, file,
                   warned, faults>>

\* Damage on the way is only caught where the manifest has a CRC64.
Garble(n) ==
    /\ identity.crc
    /\ Accepted(source)
    /\ Receive(n, "damaged")
    /\ Fault
    /\ UNCHANGED <<identity, checkpoint, source, disk, flushed, pc, cursor, file,
                   warned>>

\* The ETag differs: the range fails, and with it the run.
Refuse(n) ==
    /\ pc = "ranges"
    /\ task[n] = "transfer"
    /\ ~Accepted(source)
    /\ Return("down")
    /\ UNCHANGED <<identity, checkpoint, source, disk, flushed, file, warned,
                   faults>>

\* complete(): publish the part without replacing, then the receipt.  A part
\* in the way would fail the publication; here it would block the range, and
\* Recovers says that does not happen.
PublishPart(n) ==
    /\ part[n] = "absent"
    /\ Move(n, "publish", "receipt")
    /\ part' = [part EXCEPT ![n] = received[n]]
    /\ UNCHANGED <<identity, checkpoint, source, receipt, flushed, pc, received,
                   output, cursor, file, warned, faults>>

PublishReceipt(n) ==
    /\ Move(n, "receipt", "done")
    /\ receipt' = [receipt EXCEPT ![n] = received[n]]
    /\ UNCHANGED <<identity, checkpoint, source, part, flushed, pc, received,
                   output, cursor, file, warned, faults>>

\* A call of any range fails for good: the first failure ends the run.
RangeFails(n) ==
    /\ pc = "ranges"
    /\ task[n] \in Active
    /\ Fault
    /\ Return("down")
    /\ UNCHANGED <<identity, checkpoint, source, disk, flushed, file, warned>>

AllDone == \A n \in Ranges : task[n] = "done"

Gathered ==
    /\ pc = "ranges"
    /\ AllDone
    /\ pc' = IF checkpoint THEN "assemble" ELSE "verify"
    /\ cursor' = 1
    /\ UNCHANGED <<identity, checkpoint, source, disk, flushed, task, received,
                   output, file, warned, faults>>

-----------------------------------------------------------------------------
(* download: assembly, verification, and what follows *)

\* Mutant: the receipt is trusted after the restore.
TrustReceipt(n) == n \in Ranges

\* assemble: the part's bytes are hashed again while they are copied.
Intact(n) == part[n] = receipt[n]

Assemble ==
    /\ pc = "assemble"
    /\ cursor \in Ranges
    /\ Paired(cursor)
    /\ Intact(cursor)
    /\ output' = [output EXCEPT ![cursor] = part[cursor]]
    /\ cursor' = cursor + 1
    /\ UNCHANGED <<identity, checkpoint, source, disk, flushed, pc, task,
                   received, file, warned, faults>>

\* The part changed since it was restored: fail, and leave it to the next
\* restore.
Changed ==
    /\ pc = "assemble"
    /\ cursor \in Ranges
    /\ Paired(cursor)
    /\ ~Intact(cursor)
    /\ Return("down")
    /\ UNCHANGED <<identity, checkpoint, source, disk, flushed, file, warned,
                   faults>>

\* open_completed() finds no pair: it discards what is left, and the
\* assembly fails.  A kill between the two removals leaves the receipt.
Missing ==
    /\ pc = "assemble"
    /\ cursor \in Ranges
    /\ ~Paired(cursor)
    /\ part' = [part EXCEPT ![cursor] = "absent"]
    /\ receipt' \in {[receipt EXCEPT ![cursor] = r] : r \in {"absent", receipt[cursor]}}
    /\ Return("down")
    /\ UNCHANGED <<identity, checkpoint, source, flushed, file, warned, faults>>

Assembled ==
    /\ pc = "assemble"
    /\ cursor = N + 1
    /\ pc' = "verify"
    /\ UNCHANGED <<identity, checkpoint, source, disk, flushed, task, received,
                   output, cursor, file, warned, faults>>

\* verify_file: the size is always right after set_len; the CRC64 is
\* compared when the manifest has one.
VerifyFile == identity.crc => \A n \in Ranges : output[n] = "manifest"

Verified ==
    /\ pc = "verify"
    /\ VerifyFile
    /\ pc' = "staged"
    /\ UNCHANGED <<identity, checkpoint, source, disk, flushed, task, received,
                   output, cursor, file, warned, faults>>

\* Mutant: an integrity failure leaves the stored ranges alone.
InvalidKeeps ==
    /\ pc = "verify" /\ ~VerifyFile
    /\ Return("down")
    /\ UNCHANGED <<identity, checkpoint, source, disk, flushed, file, warned,
                   faults>>

\* An integrity failure invalidates the stored ranges.
Invalid ==
    /\ pc = "verify"
    /\ ~VerifyFile
    /\ IF checkpoint
       THEN /\ pc' = "invalidate"
            /\ cursor' = 1
            /\ UNCHANGED <<task, received, output>>
       ELSE Return("down")
    /\ UNCHANGED <<identity, checkpoint, source, disk, flushed, file, warned,
                   faults>>

\* clear(): the names of every range in turn, part and receipt alternating.
Clearing == pc \in {"invalidate", "cleanup"}

Clear ==
    /\ Clearing
    /\ cursor \in 1..(2 * N)
    /\ LET n == (cursor + 1) \div 2
       IN  IF cursor % 2 = 1
           THEN part' = [part EXCEPT ![n] = "absent"] /\ UNCHANGED receipt
           ELSE receipt' = [receipt EXCEPT ![n] = "absent"] /\ UNCHANGED part
    /\ cursor' = cursor + 1
    /\ UNCHANGED <<identity, checkpoint, source, flushed, pc, task, received,
                   output, file, warned, faults>>

\* Mutant: the last name is not removed.
ClearedEarly ==
    /\ Clearing /\ cursor \in {2 * N, 2 * N + 1}
    /\ Return(IF pc = "cleanup" THEN "ended" ELSE "down")
    /\ UNCHANGED <<identity, checkpoint, source, disk, flushed, file, warned,
                   faults>>

Cleared ==
    /\ Clearing
    /\ cursor = 2 * N + 1
    /\ Return(IF pc = "cleanup" THEN "ended" ELSE "down")
    /\ UNCHANGED <<identity, checkpoint, source, disk, flushed, file, warned,
                   faults>>

\* Clearing fails: before publication the error ends the run, after it the
\* run only warns.
ClearFails ==
    /\ Clearing
    /\ Fault
    /\ warned' = (pc = "cleanup")
    /\ Return(IF pc = "cleanup" THEN "ended" ELSE "down")
    /\ UNCHANGED <<identity, checkpoint, source, disk, flushed, file>>

\* The driver renames the staged file over the destination, ...
Publish ==
    /\ pc = "staged"
    /\ published' = output
    /\ pc' = "save"
    /\ UNCHANGED <<identity, checkpoint, source, disk, flushed, task, received,
                   output, cursor, journaled, warned, faults>>

\* ... records the completion, and only then removes the ranges.
Save ==
    /\ pc = "save"
    /\ journaled' = TRUE
    /\ IF checkpoint
       THEN /\ pc' = "cleanup"
            /\ cursor' = 1
            /\ UNCHANGED <<task, received, output>>
       ELSE Return("ended")
    /\ UNCHANGED <<identity, checkpoint, source, disk, flushed, published, warned,
                   faults>>

\* Publication or the record fails: the run ends with the ranges in place.
DriverFails ==
    /\ pc \in {"assemble", "verify", "staged", "save"}
    /\ Fault
    /\ Return("down")
    /\ UNCHANGED <<identity, checkpoint, source, disk, flushed, file, warned>>

-----------------------------------------------------------------------------
(* the surroundings *)

\* Ctrl-C or a kill, anywhere: the directory keeps what was renamed into it.
Kill ==
    /\ pc \notin {"down", "ended"}
    /\ Fault
    /\ Return("down")
    /\ UNCHANGED <<identity, checkpoint, source, disk, flushed, file, warned>>

\* Power fails.  The files' bytes were synced before their rename, the
\* directory is not: each name is what it is now or what it was last time.
PowerLoss ==
    /\ checkpoint
    /\ pc # "ended"
    /\ Fault
    /\ \E lost \in SUBSET (Ranges \X {"part", "receipt"}) :
          /\ part' = [n \in Ranges |->
                 IF <<n, "part">> \in lost THEN flushed.part[n] ELSE part[n]]
          /\ receipt' = [n \in Ranges |->
                 IF <<n, "receipt">> \in lost THEN flushed.receipt[n] ELSE receipt[n]]
    /\ flushed' = [part |-> part', receipt |-> receipt']
    /\ Return("down")
    /\ UNCHANGED <<identity, checkpoint, source, file, warned>>

\* Another program spoils or removes a stored file.
Tamper(n) ==
    /\ checkpoint
    /\ pc # "ended"
    /\ Fault
    /\ \/ /\ part[n] # "absent"
          /\ part' \in {[part EXCEPT ![n] = p] : p \in {"spoiled", "absent"}}
          /\ UNCHANGED receipt
       \/ /\ receipt[n] # "absent"
          /\ receipt' \in {[receipt EXCEPT ![n] = r] : r \in {"garbled", "absent"}}
          /\ UNCHANGED part
    /\ UNCHANGED <<identity, checkpoint, source, flushed, pc, task, received,
                   output, cursor, file, warned>>

\* The owner of the share uploads another version, or the old one again.
ChangeSource ==
    /\ pc # "ended"
    /\ source' \in Versions \ {source}
    /\ UNCHANGED <<identity, checkpoint, disk, flushed, pc, task, received,
                   output, cursor, file, warned, faults>>

-----------------------------------------------------------------------------
Range(n) ==
    \/ Start(n) \/ Restore(n) \/ DiscardPart(n) \/ DiscardReceipt(n)
    \/ Transfer(n) \/ Refuse(n) \/ PublishPart(n) \/ PublishReceipt(n)

Finish ==
    \/ Gathered \/ Assemble \/ Changed \/ Missing \/ Assembled
    \/ Verified \/ Invalid \/ Clear \/ Cleared \/ Publish \/ Save

\* What the run does when nothing goes wrong around it.
Advance == Finish \/ \E n \in Ranges : Range(n)

Outside ==
    \/ ClearFails \/ DriverFails \/ Kill \/ PowerLoss \/ ChangeSource
    \/ \E n \in Ranges : Garble(n) \/ RangeFails(n) \/ Tamper(n)

Next == Open \/ Advance \/ Outside

\* The process runs when it can, and the user resumes an unfinished download.
Fairness == WF_vars(Open) /\ WF_vars(Advance)

Spec == Init /\ [][Next]_vars
FairSpec == Spec /\ Fairness

-----------------------------------------------------------------------------
TypeOK ==
    /\ identity \in Identities
    /\ checkpoint \in Checkpoints
    /\ source \in Versions
    /\ part \in [Ranges -> Stored]
    /\ receipt \in [Ranges -> Receipts]
    /\ flushed \in [part : [Ranges -> Stored], receipt : [Ranges -> Receipts]]
    /\ pc \in {"down", "ranges", "assemble", "verify", "invalidate", "staged",
               "save", "cleanup", "ended"}
    /\ task \in [Ranges -> Active \cup {"todo", "done"}]
    /\ received \in [Ranges -> Written]
    /\ output \in [Ranges -> Written]
    /\ cursor \in 1..(2 * N + 1)
    /\ published \in [Ranges -> Written]
    /\ journaled \in BOOLEAN
    /\ warned \in BOOLEAN
    /\ faults \in 0..MaxFaults

\* A published file is the manifest's version throughout: no range of another
\* version, no damaged bytes, no hole that was never written - whichever runs
\* its ranges come from, and whatever happened to the stored parts meanwhile.
PublishedIsManifest ==
    published # Empty => \A n \in Ranges : published[n] = "manifest"

\* The ranges a completed download leaves behind are announced, unless the
\* process was stopped: a run that ends by itself has removed them or warns.
LeftoversWarned ==
    pc = "ended" /\ ~warned =>
        \A n \in Ranges : part[n] = "absent" /\ receipt[n] = "absent"

\* Interruptions keep work: a range that is stored and intact goes only when
\* the whole file failed verification, when its download is complete, or when
\* something other than this program (or a power loss) takes it.
WorkKept ==
    [][\A n \in Ranges : Restorable(n) =>
          \/ part'[n] = part[n] /\ receipt'[n] = receipt[n]
          \/ pc \in {"invalidate", "cleanup"}
          \/ PowerLoss
          \/ Tamper(n)]_vars

\* No stored state blocks the download for good: once the server has the
\* manifest's version and keeps it, resuming ends with the file published.
\* In particular, bytes that failed the whole-file check are not restored by
\* every later run.
Recovers == <>[](source = "manifest") => <>journaled
=============================================================================
