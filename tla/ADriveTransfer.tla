---------------------------- MODULE ADriveTransfer ----------------------------
(* ve-adrive cp --recursive, sync and mv --recursive: one command, repeated  *)
(* by its user, takes a tree of files from a source to a destination.        *)
(*                                                                           *)
(* The three commands share the copy stage.  A planned run lists every file  *)
(* first; a streaming run (--no-manifest) lists while it transfers.  sync    *)
(* may then remove what only the destination has, mv removes the source: a   *)
(* planned mv when the copy stage is over, a streaming mv file by file.      *)
(* Where the source is remote a transfer is pinned to the listed ETag; an    *)
(* upload reads what the file has then, and compares it again afterwards.    *)
(*                                                                           *)
(* Simplifications: a file is its name and a version number; folders are not *)
(* modelled; a transfer is whole-file (its parts are RangeCheckpoint's,      *)
(* PartDownload's and TosUpload's subject); the service reports a CRC64 for  *)
(* every upload; nobody else writes to the destination.                      *)
EXTENDS Integers, FiniteSets

CONSTANTS
    Files,        \* relative names that occur in either tree
    Matching,     \* those that pass the --include and --exclude of a filtered task
    Tasks,        \* the commands that may be given
    Concurrency,  \* batch_concurrency
    MaxVersion,   \* bound: the last version the owner of the source writes
    MaxFaults     \* bound: failures, kills and lost answers

Absent == 0
Torn == -1    \* a local file that was truncated and not yet written
Old == 1      \* what the destination had before the first run
First == 2    \* what the source has before the first run
Versions == 1..MaxVersion

Task == [command : {"cp", "sync", "mv"}, streaming : BOOLEAN,
         from : {"local", "remote"}, to : {"local", "remote"},
         filtered : BOOLEAN, checkpoint : BOOLEAN, delete : BOOLEAN,
         strategy : {"force", "no-clobber", "newer"}]

ASSUME FilesAssumption == IsFiniteSet(Files) /\ Matching \subseteq Files

\* sync always keeps a checkpoint; mv never does, and always overwrites.
ASSUME TasksAssumption ==
    /\ Tasks \subseteq Task
    /\ \A t \in Tasks :
          /\ t.from = "remote" \/ t.to = "remote"
          /\ t.command = "sync" => t.checkpoint
          /\ t.command = "mv" => ~t.checkpoint /\ t.strategy = "force"
          /\ t.delete => t.command = "sync"

ASSUME BoundsAssumption ==
    /\ Concurrency \in Nat \ {0}
    /\ MaxVersion \in Nat /\ MaxVersion >= First
    /\ MaxFaults \in Nat

VARIABLES
    task,       \* the command line, the same for every run
    version,    \* the last version written at the source
    source,     \* what the source has under each name
    dest,       \* what the destination has
    saved,      \* the checkpoint file: its keys, and whether it can be parsed
    pc,         \* the stage of the run
    item,       \* the progress of each file in this run
    listed,     \* the version each listed file had
    bytes,      \* what a transfer has read
    completed,  \* the keys of the checkpoint in memory
    failed,     \* the batch report has a failed row
    fatal,      \* discovery, draining or planning failed
    wanted,     \* sync: names the source had when the deletion was planned
    plan,       \* sync: the extras that are still to be removed
    present,    \* history: names at the source ever since the run began
    faults

vars == <<task, version, source, dest, saved, pc, item, listed, bytes, completed,
          failed, fatal, wanted, plan, present, faults>>

-----------------------------------------------------------------------------
Selected == IF task.filtered THEN Matching ELSE Files
Moves == task.command = "mv"

\* The job of a file is among the futures of the driver.
InFlight == {"open", "read", "torn", "landed", "sent", "broke", "removed", "kept"}
Ended == {"gone", "skipped", "copied", "failed", "moved", "stuck"}
Phases == InFlight \cup Ended \cup {"unseen", "listed"}

Those(phase) == {f \in Selected : item[f] = phase}
Discovered == Those("unseen") = {}
Idle == pc \in {"down", "ended"}

Fault ==
    /\ faults < MaxFaults
    /\ faults' = faults + 1

Init ==
    /\ task \in Tasks
    /\ version = First
    /\ source \in [Files -> {Absent, First}]
    /\ dest \in [Files -> {Absent, Old}]
    /\ saved = [keys |-> {}, torn |-> FALSE]
    /\ pc = "down"
    /\ item = [f \in Files |-> "unseen"]
    /\ listed = [f \in Files |-> Absent]
    /\ bytes = [f \in Files |-> Absent]
    /\ completed = {}
    /\ failed = FALSE
    /\ fatal = FALSE
    /\ wanted = {}
    /\ plan = {}
    /\ present = {}
    /\ faults = 0

Fresh ==
    /\ item' = [f \in Files |-> "unseen"]
    /\ listed' = [f \in Files |-> Absent]
    /\ bytes' = [f \in Files |-> Absent]
    /\ failed' = FALSE
    /\ fatal' = FALSE
    /\ wanted' = {}
    /\ plan' = {}

\* A run starts.  A checkpoint that does not parse fails every run.
Open ==
    /\ Idle
    /\ ~(task.checkpoint /\ saved.torn)
    /\ pc' = "copy"
    /\ Fresh
    /\ completed' = IF task.checkpoint THEN saved.keys ELSE {}
    /\ present' = {f \in Files : source[f] # Absent}
    /\ UNCHANGED <<task, version, source, dest, saved, faults>>

\* The process is gone, or it returns the error without a report; futures in
\* flight are dropped with it.
Stop ==
    /\ pc' = "down"
    /\ Fresh
    /\ completed' = {}
    /\ present' = {}
    /\ UNCHANGED <<task, version, source, dest>>

-----------------------------------------------------------------------------
(* The copy stage: discovery, and what becomes of a listed file *)

Discover(f) ==
    /\ pc = "copy"
    /\ ~fatal
    /\ f \in Those("unseen")
    /\ item' = [item EXCEPT ![f] = IF source[f] = Absent THEN "gone" ELSE "listed"]
    /\ listed' = [listed EXCEPT ![f] = source[f]]
    /\ UNCHANGED <<task, version, source, dest, saved, pc, bytes, completed,
                   failed, fatal, wanted, plan, present, faults>>

\* A planned run takes up no file before it has listed all of them.
Ready(f) ==
    /\ pc = "copy"
    /\ ~fatal
    /\ f \in Those("listed")
    /\ task.streaming \/ Discovered

\* "newer" compares time stamps, which may speak for either.
MaySkip(f) == dest[f] # Absent /\ task.strategy # "force"
MayTransfer(f) == dest[f] = Absent \/ task.strategy # "no-clobber"

Skip(f) ==
    /\ Ready(f)
    /\ MaySkip(f) \/ f \in completed
    /\ item' = [item EXCEPT ![f] = "skipped"]
    /\ UNCHANGED <<task, version, source, dest, saved, pc, listed, bytes,
                   completed, failed, fatal, wanted, plan, present, faults>>

Start(f) ==
    /\ Ready(f)
    /\ MayTransfer(f)
    /\ f \notin completed
    /\ Cardinality({g \in Selected : item[g] \in InFlight}) < Concurrency
    /\ item' = [item EXCEPT ![f] = "open"]
    /\ UNCHANGED <<task, version, source, dest, saved, pc, listed, bytes,
                   completed, failed, fatal, wanted, plan, present, faults>>

-----------------------------------------------------------------------------
(* The job of one file *)

Job(f, phase) ==
    /\ pc = "copy"
    /\ f \in Those(phase)

\* What the transfer can get at: a remote source only in the listed version.
Readable(f) ==
    /\ source[f] # Absent
    /\ task.from = "remote" => source[f] = listed[f]

Read(f) ==
    /\ Job(f, "open")
    /\ Readable(f)
    /\ "local" \in {task.from, task.to}
    /\ bytes' = [bytes EXCEPT ![f] = source[f]]
    /\ item' = [item EXCEPT ![f] = "read"]
    /\ UNCHANGED <<task, version, source, dest, saved, pc, listed, completed,
                   failed, fatal, wanted, plan, present, faults>>

Refuse(f) ==
    /\ Job(f, "open")
    /\ ~Readable(f)
    /\ item' = [item EXCEPT ![f] = "broke"]
    /\ UNCHANGED <<task, version, source, dest, saved, pc, listed, bytes,
                   completed, failed, fatal, wanted, plan, present, faults>>

\* upload_adrive_file_simple: the PUT takes effect at once, ...
Put(f) ==
    /\ Job(f, "read")
    /\ task.to = "remote"
    /\ dest' = [dest EXCEPT ![f] = bytes[f]]
    /\ item' = [item EXCEPT ![f] = "landed"]
    /\ UNCHANGED <<task, version, source, saved, pc, listed, bytes, completed,
                   failed, fatal, wanted, plan, present, faults>>

\* ... and the file is read again for its CRC64.
Compare(f) ==
    /\ Job(f, "landed")
    /\ item' = [item EXCEPT ![f] = IF source[f] = bytes[f] THEN "sent" ELSE "broke"]
    /\ UNCHANGED <<task, version, source, dest, saved, pc, listed, bytes,
                   completed, failed, fatal, wanted, plan, present, faults>>

\* download_adrive_file_simple: tokio::fs::write truncates the destination,
\* then fills it.
Truncate(f) ==
    /\ Job(f, "read")
    /\ task.to = "local"
    /\ dest' = [dest EXCEPT ![f] = Torn]
    /\ item' = [item EXCEPT ![f] = "torn"]
    /\ UNCHANGED <<task, version, source, saved, pc, listed, bytes, completed,
                   failed, fatal, wanted, plan, present, faults>>

Fill(f) ==
    /\ Job(f, "torn")
    /\ dest' = [dest EXCEPT ![f] = bytes[f]]
    /\ item' = [item EXCEPT ![f] = "sent"]
    /\ UNCHANGED <<task, version, source, saved, pc, listed, bytes, completed,
                   failed, fatal, wanted, plan, present, faults>>

\* copy_adrive_file_simple: one conditional call.
CopyAtService(f) ==
    /\ Job(f, "open")
    /\ Readable(f)
    /\ task.from = "remote" /\ task.to = "remote"
    /\ dest' = [dest EXCEPT ![f] = source[f]]
    /\ item' = [item EXCEPT ![f] = "sent"]
    /\ UNCHANGED <<task, version, source, saved, pc, listed, bytes, completed,
                   failed, fatal, wanted, plan, present, faults>>

\* The call took effect and its answer is lost.
CopyUnanswered(f) ==
    /\ Job(f, "open")
    /\ Readable(f)
    /\ task.from = "remote" /\ task.to = "remote"
    /\ Fault
    /\ dest' = [dest EXCEPT ![f] = source[f]]
    /\ item' = [item EXCEPT ![f] = "broke"]
    /\ UNCHANGED <<task, version, source, saved, pc, listed, bytes, completed,
                   failed, fatal, wanted, plan, present>>

\* Mutant: the error of a transfer is swallowed.
JobFailsSilently(f) ==
    /\ \E phase \in {"open", "read", "torn", "landed"} : Job(f, phase)
    /\ Fault
    /\ item' = [item EXCEPT ![f] = "sent"]
    /\ UNCHANGED <<task, version, source, dest, saved, pc, listed, bytes,
                   completed, failed, fatal, wanted, plan, present>>

\* A call of the job fails, or its answer is lost.
JobFails(f) ==
    /\ \E phase \in {"open", "read", "torn", "landed"} : Job(f, phase)
    /\ Fault
    /\ item' = [item EXCEPT ![f] = "broke"]
    /\ UNCHANGED <<task, version, source, dest, saved, pc, listed, bytes,
                   completed, failed, fatal, wanted, plan, present>>

\* A streaming mv removes the file in the same job, without a condition.
RemoveSource(f) ==
    /\ Job(f, "sent")
    /\ Moves /\ task.streaming
    /\ source' = [source EXCEPT ![f] = Absent]
    /\ item' = [item EXCEPT ![f] = IF source[f] = Absent THEN "kept" ELSE "removed"]
    /\ UNCHANGED <<task, version, dest, saved, pc, listed, bytes, completed,
                   failed, fatal, wanted, plan, present, faults>>

RemoveSourceFails(f) ==
    /\ Job(f, "sent")
    /\ Moves /\ task.streaming
    /\ Fault
    /\ source' \in {source, [source EXCEPT ![f] = Absent]}
    /\ item' = [item EXCEPT ![f] = "kept"]
    /\ UNCHANGED <<task, version, dest, saved, pc, listed, bytes, completed,
                   failed, fatal, wanted, plan, present>>

-----------------------------------------------------------------------------
(* The driver takes a result off the futures *)

\* record_adrive_batch_result: the row, and for a success the checkpoint.
RecordCopy(f) ==
    /\ Job(f, "sent")
    /\ ~(Moves /\ task.streaming)
    /\ item' = [item EXCEPT ![f] = "copied"]
    /\ completed' = completed \cup {f}
    /\ saved' = IF task.checkpoint THEN [keys |-> completed', torn |-> FALSE] ELSE saved
    /\ UNCHANGED <<task, version, source, dest, pc, listed, bytes, failed, fatal, wanted,
                   plan, present, faults>>

\* Mutant: a failed copy is counted as skipped.
RecordFailureSkipped(f) ==
    /\ Job(f, "broke")
    /\ item' = [item EXCEPT ![f] = "failed"]
    /\ UNCHANGED <<task, version, source, dest, saved, pc, listed, bytes,
                   completed, failed, fatal, wanted, plan, present, faults>>

\* Mutant: the key is saved whatever the result.
RecordFailureDone(f) ==
    /\ Job(f, "broke")
    /\ item' = [item EXCEPT ![f] = "failed"]
    /\ failed' = TRUE
    /\ completed' = completed \cup {f}
    /\ saved' = IF task.checkpoint THEN [keys |-> completed', torn |-> FALSE] ELSE saved
    /\ UNCHANGED <<task, version, source, dest, pc, listed, bytes, fatal, wanted,
                   plan, present, faults>>

\* A failed copy; a streaming mv skips the removal.
RecordFailure(f) ==
    /\ Job(f, "broke")
    /\ item' = [item EXCEPT ![f] = "failed"]
    /\ failed' = TRUE
    /\ UNCHANGED <<task, version, source, dest, saved, pc, listed, bytes,
                   completed, fatal, wanted, plan, present, faults>>

\* record_adrive_stream_move_result: one row for the copy, one for the removal.
RecordMove(f) ==
    /\ \/ /\ Job(f, "removed")
          /\ item' = [item EXCEPT ![f] = "moved"]
          /\ UNCHANGED failed
       \/ /\ Job(f, "kept")
          /\ item' = [item EXCEPT ![f] = "stuck"]
          /\ failed' = TRUE
    /\ UNCHANGED <<task, version, source, dest, saved, pc, listed, bytes,
                   completed, fatal, wanted, plan, present, faults>>

\* The checkpoint cannot be written, and may be left truncated.  A planned run
\* returns.  A streaming run stops discovering and drains; while it drains, a
\* second failure drops what is still in flight.
SaveFails(f) ==
    /\ Job(f, "sent")
    /\ task.checkpoint
    /\ Fault
    /\ saved' \in {saved, [saved EXCEPT !.torn = TRUE]}
    /\ IF task.streaming
       THEN /\ item' = [item EXCEPT ![f] = "copied"]
            /\ completed' = completed \cup {f}
            /\ fatal' = TRUE
            /\ pc' = IF fatal \/ (Discovered /\ Those("listed") = {}) THEN "ended" ELSE pc
            /\ UNCHANGED <<task, version, source, dest, listed, bytes, failed,
                           wanted, plan, present>>
       ELSE Stop

\* A call of the driver fails: a listing, or the look at the destination; or
\* a listed local file is gone when its modification time is asked for.
Vanished(f) ==
    /\ Ready(f)
    /\ task.from = "local"
    /\ source[f] = Absent
    /\ ~(Moves /\ task.streaming)

DriverFails ==
    /\ pc = "copy"
    /\ ~fatal
    /\ \/ /\ \E f \in Selected : Vanished(f)
          /\ UNCHANGED faults
       \/ /\ Those("unseen") \cup Those("listed") # {}
          /\ Fault
    /\ IF task.streaming
       THEN /\ fatal' = TRUE
            /\ UNCHANGED <<task, version, source, dest, pc, item, listed, bytes,
                           completed, failed, wanted, plan, present>>
       ELSE Stop
    /\ UNCHANGED saved

-----------------------------------------------------------------------------
(* After the copy stage *)

Drained ==
    /\ pc = "copy"
    /\ \A f \in Selected : item[f] \notin InFlight
    /\ fatal \/ \A f \in Selected : item[f] \in Ended

Listed == {f \in Selected : listed[f] # Absent}

\* Mutant: failed copies do not keep the sources.
NextStageUngated ==
    CASE task.command = "sync" -> IF task.delete /\ ~fatal THEN "plan" ELSE "ended"
      [] Moves -> IF ~task.filtered THEN "cleanup"
                  ELSE IF task.streaming THEN "ended" ELSE "delete"
      [] OTHER -> "ended"

\* Mutant: the removal of filtered sources is forgotten.
NextStageUnfiltered ==
    CASE task.command = "sync" -> IF task.delete /\ ~fatal THEN "plan" ELSE "ended"
      [] Moves -> IF fatal \/ failed \/ task.filtered THEN "ended" ELSE "cleanup"
      [] OTHER -> "ended"

\* cp ends here.  sync goes on to plan its deletions unless the stage broke
\* off.  A planned mv whose copies all succeeded removes the sources: one by
\* one when a filter is set, else the whole tree.  A streaming mv, which has
\* removed the files by now, removes the rest of an unfiltered tree.
NextStage ==
    CASE task.command = "sync" -> IF task.delete /\ ~fatal THEN "plan" ELSE "ended"
      [] Moves -> IF fatal \/ failed THEN "ended"
                  ELSE IF ~task.filtered THEN "cleanup"
                  ELSE IF task.streaming THEN "ended" ELSE "delete"
      [] OTHER -> "ended"

EndCopy ==
    /\ Drained
    /\ pc' = NextStage
    /\ UNCHANGED <<task, version, source, dest, saved, item, listed, bytes,
                   completed, failed, fatal, wanted, plan, present, faults>>

\* delete_filtered_move_sources: no condition on what is removed.
DeleteSource(f) ==
    /\ pc = "delete"
    /\ Moves
    /\ f \in Those("copied")
    /\ source' = [source EXCEPT ![f] = Absent]
    /\ IF source[f] = Absent
       THEN item' = [item EXCEPT ![f] = "stuck"] /\ failed' = TRUE
       ELSE item' = [item EXCEPT ![f] = "moved"] /\ UNCHANGED failed
    /\ UNCHANGED <<task, version, dest, saved, pc, listed, bytes, completed,
                   fatal, wanted, plan, present, faults>>

DeleteSourceFails(f) ==
    /\ pc = "delete"
    /\ Moves
    /\ f \in Those("copied")
    /\ Fault
    /\ source' \in {source, [source EXCEPT ![f] = Absent]}
    /\ item' = [item EXCEPT ![f] = "stuck"]
    /\ failed' = TRUE
    /\ UNCHANGED <<task, version, dest, saved, pc, listed, bytes, completed,
                   fatal, wanted, plan, present>>

\* cleanup_recursive_move_source: the tree goes with everything in it.
Cleanup ==
    /\ pc = "cleanup"
    /\ source' = [f \in Files |-> Absent]
    /\ item' = [f \in Files |-> IF item[f] = "copied" THEN "moved" ELSE item[f]]
    /\ pc' = "ended"
    /\ UNCHANGED <<task, version, dest, saved, listed, bytes, completed, failed,
                   fatal, wanted, plan, present, faults>>

\* A planned run has a failed row for each copied file, if there is any; a
\* streaming run has one for the root.
CleanupFails ==
    /\ pc = "cleanup"
    /\ Fault
    /\ \E left \in SUBSET Files :
          source' = [f \in Files |-> IF f \in left THEN source[f] ELSE Absent]
    /\ item' = [f \in Files |-> IF item[f] = "copied" THEN "stuck" ELSE item[f]]
    /\ failed' = (failed \/ task.streaming \/ Those("copied") # {})
    /\ pc' = "ended"
    /\ UNCHANGED <<task, version, dest, saved, listed, bytes, completed, fatal,
                   wanted, plan, present>>

-----------------------------------------------------------------------------
(* sync --delete *)

\* Mutant: what this run has transferred is kept, what it skipped is not.
PlanTransferred ==
    /\ pc = "plan"
    /\ wanted' = Those("copied")
    /\ pc' = "extras"
    /\ UNCHANGED <<task, version, source, dest, saved, item, listed, bytes,
                   completed, failed, fatal, plan, present, faults>>

\* build_adrive_sync_delete_plan lists the source once more, ...
PlanSource ==
    /\ pc = "plan"
    /\ wanted' = {f \in Selected : source[f] # Absent}
    /\ pc' = "extras"
    /\ UNCHANGED <<task, version, source, dest, saved, item, listed, bytes,
                   completed, failed, fatal, plan, present, faults>>

\* ... then the destination.  After a failed copy the plan becomes skipped rows.
PlanExtras ==
    /\ pc = "extras"
    /\ IF failed
       THEN pc' = "ended" /\ UNCHANGED plan
       ELSE /\ pc' = "delete"
            /\ plan' = {f \in Selected : dest[f] # Absent /\ f \notin wanted}
    /\ UNCHANGED <<task, version, source, dest, saved, item, listed, bytes,
                   completed, failed, fatal, wanted, present, faults>>

\* The report of the copies is written all the same.
PlanFails ==
    /\ pc \in {"plan", "extras"}
    /\ Fault
    /\ fatal' = TRUE
    /\ pc' = "ended"
    /\ UNCHANGED <<task, version, source, dest, saved, item, listed, bytes,
                   completed, failed, wanted, plan, present>>

DeleteExtra(f) ==
    /\ pc = "delete"
    /\ f \in plan
    /\ dest' = [dest EXCEPT ![f] = Absent]
    /\ plan' = plan \ {f}
    /\ UNCHANGED <<task, version, source, saved, pc, item, listed, bytes,
                   completed, failed, fatal, wanted, present, faults>>

DeleteExtraFails(f) ==
    /\ pc = "delete"
    /\ f \in plan
    /\ Fault
    /\ dest' \in {dest, [dest EXCEPT ![f] = Absent]}
    /\ plan' = plan \ {f}
    /\ failed' = TRUE
    /\ UNCHANGED <<task, version, source, saved, pc, item, listed, bytes,
                   completed, fatal, wanted, present>>

EndDelete ==
    /\ pc = "delete"
    /\ plan = {}
    /\ Moves => Those("copied") = {}
    /\ pc' = "ended"
    /\ UNCHANGED <<task, version, source, dest, saved, item, listed, bytes,
                   completed, failed, fatal, wanted, plan, present, faults>>

-----------------------------------------------------------------------------
(* The surroundings *)

\* A kill, anywhere; in the middle of a save it leaves the checkpoint torn.
Kill ==
    /\ ~Idle
    /\ Fault
    /\ Stop
    /\ \/ UNCHANGED saved
       \/ /\ task.checkpoint
          /\ pc = "copy"
          /\ Those("sent") # {}
          /\ saved' = [saved EXCEPT !.torn = TRUE]

\* The user removes a checkpoint that no run can parse.
Discard ==
    /\ Idle
    /\ saved.torn
    /\ saved' = [keys |-> {}, torn |-> FALSE]
    /\ UNCHANGED <<task, version, source, dest, pc, item, listed, bytes, completed,
                   failed, fatal, wanted, plan, present, faults>>

\* The owner of the source writes, creates or removes a file.
Edit(f) ==
    /\ version < MaxVersion
    /\ version' = version + 1
    /\ \/ source' = [source EXCEPT ![f] = version']
       \/ source[f] # Absent /\ source' = [source EXCEPT ![f] = Absent]
    /\ present' = {g \in present : source'[g] # Absent}
    /\ UNCHANGED <<task, dest, saved, pc, item, listed, bytes, completed, failed,
                   fatal, wanted, plan, faults>>

-----------------------------------------------------------------------------
File(f) ==
    \/ Discover(f) \/ Skip(f) \/ Start(f)
    \/ Read(f) \/ Refuse(f) \/ Put(f) \/ Compare(f) \/ Truncate(f) \/ Fill(f)
    \/ CopyAtService(f) \/ RemoveSource(f)
    \/ RecordCopy(f) \/ RecordFailure(f) \/ RecordMove(f)
    \/ DeleteSource(f) \/ DeleteExtra(f)

Run ==
    \/ EndCopy \/ PlanSource \/ PlanExtras \/ Cleanup \/ EndDelete
    \/ \E f \in Files : File(f)

Outside ==
    \/ DriverFails \/ CleanupFails \/ PlanFails \/ Kill \/ Discard
    \/ \E f \in Files :
          \/ JobFails(f) \/ CopyUnanswered(f) \/ RemoveSourceFails(f) \/ SaveFails(f)
          \/ DeleteSourceFails(f) \/ DeleteExtraFails(f) \/ Edit(f)

Next == Open \/ Run \/ Outside

\* The run goes on while it can, and the user repeats the command.
Fairness == WF_vars(Open) /\ WF_vars(Run)

Spec == Init /\ [][Next]_vars
FairSpec == Spec /\ Fairness

-----------------------------------------------------------------------------
TypeOK ==
    /\ task \in Tasks
    /\ version \in First..MaxVersion
    /\ source \in [Files -> {Absent} \cup Versions]
    /\ dest \in [Files -> {Absent, Torn} \cup Versions]
    /\ saved \in [keys : SUBSET Files, torn : BOOLEAN]
    /\ pc \in {"down", "copy", "plan", "extras", "delete", "cleanup", "ended"}
    /\ item \in [Files -> Phases]
    /\ listed \in [Files -> {Absent} \cup Versions]
    /\ bytes \in [Files -> {Absent} \cup Versions]
    /\ completed \subseteq Files
    /\ failed \in BOOLEAN
    /\ fatal \in BOOLEAN
    /\ wanted \subseteq Files
    /\ plan \subseteq Files
    /\ present \subseteq Files
    /\ faults \in 0..MaxFaults

\* The command, not the owner, takes f away from the source.
Removes(f) == source[f] # Absent /\ source'[f] = Absent /\ version' = version

\* mv loses nothing: a file that is still what the run listed leaves the
\* source only when the destination has that very version.
MovedIsKept ==
    [][\A f \in Files : Removes(f) /\ source[f] = listed[f] => dest[f] = source[f]]_vars

\* A planned mv removes no source before every listed file has been copied
\* ("Do not delete sources until the copy stage is fully successful"), and no
\* mv removes a whole tree of which it has seen or copied only a part.
CopiedBeforeRemoved ==
    [][(\E f \in Files : Removes(f)) /\ (~task.streaming \/ pc = "cleanup")
         => /\ \A g \in Selected : item[g] \in {"gone", "copied", "moved", "stuck"}
            /\ pc = "cleanup" => Selected = Files]_vars

\* sync --delete removes nothing the source has had since the run began,
\* nothing the filters leave out, and nothing at all after a failed copy or a
\* listing that broke off.
ExtrasOnly ==
    [][\A f \in Files :
          dest[f] # Absent /\ dest'[f] = Absent
            => /\ f \in Selected \ present
               /\ \A g \in Selected : item[g] \in {"gone", "skipped", "copied"}]_vars

\* A run that reports success has brought every file it listed, whole and at
\* least as new as listed: unless an earlier run, or a strategy other than
\* force, answered for it.
Succeeded == pc = "ended" /\ ~fatal /\ ~failed

SuccessIsReal ==
    Succeeded /\ task.strategy = "force" /\ ~task.checkpoint
      => \A f \in Listed :
            /\ dest[f] >= listed[f]
            /\ task.from = "remote" => dest[f] = listed[f]

\* The checkpoint names no file whose transfer did not end: a file its owner
\* left alone is at the destination as soon as a run has saved its key.
CheckpointIsReal ==
    \A f \in saved.keys : source[f] = First => dest[f] = First

\* "Treat the source as authoritative for this one-way operation"
\* (skill_guides/sync.en.md:4): after a sync that reports success, a file the
\* run listed and nobody has touched since is at the destination as it is at
\* the source.  The code does not promise it: no run ever removes the
\* checkpoint, so a file that was changed after an earlier sync is skipped as
\* completed, in every later run.
SyncFollows ==
    Succeeded /\ task.command = "sync" /\ task.strategy = "force"
      => \A f \in Listed : source[f] = listed[f] => dest[f] = source[f]

\* Repeating the command brings it to its end.  Once the owner leaves the
\* source alone, a mv ends with the selected files gone from it, a forced copy
\* with each of them at the destination - for a checkpointed command the files
\* that were never changed, as long as the checkpoint stays readable.
Arrived(f) ==
    IF Moves THEN source[f] = Absent ELSE source[f] # Absent => dest[f] = source[f]

Answered(f) == task.checkpoint => source[f] \in {Absent, First} /\ ~saved.torn

Converges ==
    task.strategy = "force"
      => \A f \in Files :
            <>(f \notin Selected) \/ []<>Arrived(f) \/ <>~Answered(f)
=============================================================================
