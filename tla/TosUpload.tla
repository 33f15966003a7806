------------------------------ MODULE TosUpload ------------------------------
(***************************************************************************)
(* The resumable multipart transfer of `cp` into a bucket: upload of a     *)
(* local file (upload_local_to_tos_multipart) and, with Guarded, the       *)
(* server-side multipart copy (copy_tos_to_tos_multipart), whose parts     *)
(* carry x-tos-copy-source-if-match.                                       *)
(*                                                                         *)
(* Several runs of the same command may overlap.  Each keeps its task in a *)
(* checkpoint file named by a hash of the task and the source's identity,  *)
(* protected by a lock file that the run creates with create_new and that  *)
(* Drop removes: a killed process leaves it behind.  The source may change *)
(* at any moment, and every change gives it a new identity (mtime or       *)
(* ETag); the identity is the version number below.  A part's ETag stands  *)
(* for its content, so it is the version the part was read at.             *)
(*                                                                         *)
(* Simplifications: file and part sizes do not vary (they are part of the  *)
(* checkpoint's name, hash collisions are left out); a part request that   *)
(* fails is one whose retries were used up.  A lock file that a power      *)
(* failure brings back only refuses later runs, and is left out.           *)
(***************************************************************************)
EXTENDS Naturals, FiniteSets

CONSTANTS
    Runs,         \* executions of the command
    N,            \* parts of the file, numbered from 1
    Concurrency,  \* multipart_concurrency
    MaxVersion,   \* bound on the versions of the source
    MaxUploads,   \* bound on the multipart uploads the service creates
    Commands,     \* the commands that may be run, of AllCommands
    Faults,       \* which of FaultKinds may happen
    MaxFaults,    \* bound on how many of them
    None,         \* absent checkpoint, upload id, part, lock holder, object
    Torn,         \* a checkpoint file that does not parse
    Sent,         \* a part request without a reply
    Foreign       \* an object somebody else wrote

Parts == 1..N
Versions == 1..MaxVersion
Ids == 1..MaxUploads

\* request: a call to the service, or saving the checkpoint, fails without
\* effect.  reply: the call has its effect, the answer is lost (or names no
\* UploadId).  kill: a process dies.  power: the machine does.  edit: the
\* source changes.  other: somebody else writes the destination object.
\* output: the pid cannot be written into the lock file, or what follows a
\* published transfer fails: its result's output, the checkpoint's removal.
FaultKinds == {"request", "reply", "kill", "power", "edit", "other", "output"}

\* guarded: remote copy, part requests conditional on the ETag.
AllCommands == [guarded : BOOLEAN, strategy : {"force", "no_clobber", "newer"}]

ASSUME Bounds == /\ N \in Nat \ {0} /\ Concurrency \in Nat \ {0}
                 /\ MaxVersion \in Nat \ {0} /\ MaxUploads \in Nat \ {0}
                 /\ MaxFaults \in Nat
ASSUME Finite == IsFiniteSet(Runs)
ASSUME Modes == Commands \subseteq AllCommands /\ Faults \subseteq FaultKinds
ASSUME Distinct == /\ None \notin Nat \cup Runs \cup {Torn, Sent, Foreign}
                   /\ Sent \notin Nat

VARIABLES
    command,    \* the command all runs execute
    source,     \* current version of the file or source object
    disturbed,  \* versions replaced while a run was transferring them
    disk,       \* checkpoint file of each version: None, Torn or a Checkpoint
    former,     \* what each held before, since the last power loss: nothing is synced
    lock,       \* lock file of each version: None or the run that created it
    pc,         \* where each run stands
    stamp,      \* identity of the source each run works under
    memory,     \* the Checkpoint each run holds
    flight,     \* part requests of each run: None, Sent, or the reply's ETag
    late,       \* requests of ended runs the service may still receive
    uploads,    \* the service: each multipart upload's state and stored parts
    object,     \* destination: None, Foreign, or identity and parts
    spent,      \* faults so far
    leaking,    \* how many upload ids the faults made the client forget
    blocking    \* whether one of them can block later runs

vars == <<command, source, disturbed, disk, former, lock, pc, stamp, memory, flight,
          late, uploads, object, spent, leaking, blocking>>
service == <<uploads, object>>
files == <<disk, former>>
fixture == <<command, source, disturbed>>
world == <<fixture, spent, leaking, blocking>>

Guarded == command.guarded
Strategy == command.strategy

Etags == [Parts -> Versions \cup {None}]
NoParts == [p \in Parts |-> None]
Checkpoint == [id : Ids \cup {None}, parts : Etags]
NewCheckpoint == [id |-> None, parts |-> NoParts]

ASSUME Sentinels == None \notin Checkpoint /\ Torn \notin Checkpoint

\* The part of checkpoint_path that varies here: which file holds the
\* checkpoint (and, beside it, the lock) of a task on version v.
PathOf(v) == v

Transferring == {"create", "created", "list", "upload"}
Working == Transferring \cup {"completed"}

Init ==
    /\ command \in Commands
    /\ source = 1 /\ disturbed = {}
    /\ disk = [v \in Versions |-> None]
    /\ former = [v \in Versions |-> {}]
    /\ lock = [v \in Versions |-> None]
    /\ pc = [r \in Runs |-> "idle"]
    /\ stamp = [r \in Runs |-> 1]
    /\ memory = [r \in Runs |-> NewCheckpoint]
    /\ flight = [r \in Runs |-> NoParts]
    /\ late = {}
    /\ uploads = [i \in Ids |-> [state |-> "unused", parts |-> NoParts]]
    /\ object = None
    /\ spent = 0 /\ leaking = 0 /\ blocking = FALSE

-----------------------------------------------------------------------------
(***************************************************************************)
(* One run.                                                                *)
(***************************************************************************)

\* should_skip_upload_for_overwrite_strategy: HEAD of the destination.  For
\* "newer" the comparison of the two times may go either way.  A remote copy
\* takes the source's ETag from the HEAD that precedes this one.
Skip(r) ==
    /\ pc[r] = "idle"
    /\ object # None /\ Strategy # "force"
    /\ pc' = [pc EXCEPT ![r] = "skipped"]
    /\ UNCHANGED <<files, lock, stamp, memory, flight, late, service, world>>

Proceed(r) ==
    /\ pc[r] = "idle"
    /\ object = None \/ Strategy # "no_clobber"
    /\ pc' = [pc EXCEPT ![r] = "probed"]
    /\ stamp' = [stamp EXCEPT ![r] = source]
    /\ UNCHANGED <<files, lock, memory, flight, late, service, world>>

\* A local upload reads the file's metadata again; then the checkpoint's path
\* is computed, its lock taken and the checkpoint loaded or begun.
Identity(r) == IF Guarded THEN stamp[r] ELSE source

Claim(r) ==
    LET path == PathOf(Identity(r)) IN
    /\ pc[r] = "probed"
    /\ lock[path] = None /\ disk[path] # Torn
    /\ LET loaded == IF disk[path] = None THEN NewCheckpoint ELSE disk[path] IN
         /\ memory' = [memory EXCEPT ![r] = loaded]
         /\ pc' = [pc EXCEPT ![r] =
                       IF loaded.id = None THEN "create" ELSE "list"]
    /\ stamp' = [stamp EXCEPT ![r] = Identity(r)]
    /\ lock' = [lock EXCEPT ![path] = r]
    /\ UNCHANGED <<files, flight, late, service, world>>

\* Mutant: a run that finds the lock removes it.
RefusedUnlocking(r) ==
    LET path == PathOf(Identity(r)) IN
    /\ pc[r] = "probed"
    /\ lock[path] # None \/ disk[path] = Torn
    /\ pc' = [pc EXCEPT ![r] = "idle"]
    /\ lock' = [lock EXCEPT ![path] = None]
    /\ UNCHANGED <<files, stamp, memory, flight, late, service, world>>

\* The lock exists (Conflict), or the checkpoint does not parse.
Refused(r) ==
    LET path == PathOf(Identity(r)) IN
    /\ pc[r] = "probed"
    /\ lock[path] # None \/ disk[path] = Torn
    /\ pc' = [pc EXCEPT ![r] = "idle"]
    /\ UNCHANGED <<files, lock, stamp, memory, flight, late, service, world>>

\* A change of a checkpoint file, which the file system has not yet made
\* durable.
Rewrite(path, content) ==
    /\ disk' = [disk EXCEPT ![path] = content]
    /\ former' = [former EXCEPT ![path] = @ \cup {disk[path]}]

Save(r, checkpoint) ==
    /\ memory' = [memory EXCEPT ![r] = checkpoint]
    /\ Rewrite(PathOf(stamp[r]), checkpoint)

\* CreateMultipartUpload at the service; the only request of the transfer
\* that carries if-none-match.
CreateAccepted == Strategy = "no_clobber" => object = None

FreshUpload(i) ==
    /\ uploads[i].state = "unused" /\ \A j \in Ids : j < i => uploads[j].state # "unused"
    /\ uploads' = [uploads EXCEPT ![i].state = "open"]

\* The upload is open at the service, its id in memory only.
Create(r) ==
    /\ pc[r] = "create" /\ CreateAccepted
    /\ \E i \in Ids : /\ FreshUpload(i)
                      /\ memory' = [memory EXCEPT ![r].id = i]
    /\ pc' = [pc EXCEPT ![r] = "created"]
    /\ UNCHANGED <<files, lock, stamp, flight, late, object, world>>

\* Mutant: the checkpoint is first saved with its first part.
CreatedUnsaved(r) ==
    /\ pc[r] = "created"
    /\ pc' = [pc EXCEPT ![r] = "list"]
    /\ UNCHANGED <<files, lock, stamp, memory, flight, late, service, world>>

SaveCreated(r) ==
    /\ pc[r] = "created"
    /\ Save(r, memory[r])
    /\ pc' = [pc EXCEPT ![r] = "list"]
    /\ UNCHANGED <<lock, stamp, flight, late, service, world>>

UploadOf(r) == uploads[memory[r].id]

\* list_uploaded_part_numbers, and retain: only part numbers are compared.
List(r) ==
    /\ pc[r] = "list"
    /\ UploadOf(r).state = "open"
    /\ Save(r, [memory[r] EXCEPT !.parts =
                    [p \in Parts |-> IF UploadOf(r).parts[p] = None
                                     THEN None ELSE memory[r].parts[p]]])
    /\ pc' = [pc EXCEPT ![r] = "upload"]
    /\ UNCHANGED <<lock, stamp, flight, late, service, world>>

\* The pending parts go out in order, at most Concurrency at a time.
Pending(r) == {p \in Parts : memory[r].parts[p] = None /\ flight[r][p] = None}

Send(r) ==
    /\ pc[r] = "upload"
    /\ Cardinality({p \in Parts : flight[r][p] # None}) < Concurrency
    /\ \E p \in Pending(r) :
         /\ \A q \in Pending(r) : p <= q
         /\ flight' = [flight EXCEPT ![r][p] = Sent]
    /\ UNCHANGED <<files, lock, pc, stamp, memory, late, service, world>>

\* Mutant: the copy is not conditional.
StoreAnything(r, p) ==
    /\ flight[r][p] = Sent
    /\ UploadOf(r).state = "open"
    /\ uploads' = [uploads EXCEPT ![memory[r].id].parts[p] = source]
    /\ flight' = [flight EXCEPT ![r][p] = source]
    /\ UNCHANGED <<files, lock, pc, stamp, memory, late, object, world>>

\* The service stores a part: what the request body reads now or, for a
\* copy, what the condition on the source's ETag lets through.
Store(r, p) ==
    /\ flight[r][p] = Sent
    /\ Guarded => source = stamp[r]
    /\ UploadOf(r).state = "open"
    /\ uploads' = [uploads EXCEPT ![memory[r].id].parts[p] = source]
    /\ flight' = [flight EXCEPT ![r][p] = source]
    /\ UNCHANGED <<files, lock, pc, stamp, memory, late, object, world>>

\* Mutant: a part is recorded when its request ends, whatever the answer.
RecordUnanswered(r, p) ==
    /\ pc[r] = "upload" /\ flight[r][p] # None
    /\ Save(r, [memory[r] EXCEPT !.parts[p] = flight[r][p]])
    /\ flight' = [flight EXCEPT ![r][p] = None]
    /\ UNCHANGED <<lock, pc, stamp, late, service, world>>

\* A reply: the part joins the checkpoint, which is saved.
Record(r, p) ==
    /\ pc[r] = "upload" /\ flight[r][p] \in Versions
    /\ Save(r, [memory[r] EXCEPT !.parts[p] = flight[r][p]])
    /\ flight' = [flight EXCEPT ![r][p] = None]
    /\ UNCHANGED <<lock, pc, stamp, late, service, world>>

\* CompleteMultipartUpload at the service, which compares every ETag.
CompleteAccepted(r) == /\ UploadOf(r).state = "open"
                       /\ UploadOf(r).parts = memory[r].parts

Publish(r) ==
    /\ uploads' = [uploads EXCEPT ![memory[r].id].state = "done"]
    /\ object' = [stamp |-> stamp[r], parts |-> memory[r].parts]

Transferred(r) == /\ pc[r] = "upload"
                  /\ \A p \in Parts : memory[r].parts[p] # None
                  /\ flight[r] = NoParts

Complete(r) ==
    /\ Transferred(r) /\ CompleteAccepted(r)
    /\ Publish(r)
    /\ pc' = [pc EXCEPT ![r] = "completed"]
    /\ UNCHANGED <<files, lock, stamp, memory, flight, late, world>>

\* Drop of the CheckpointLock.
Unlock(r) == lock' = [lock EXCEPT ![PathOf(stamp[r])] = None]

\* remove_checkpoint, the report, and the end of the function.
Finish(r) ==
    /\ pc[r] = "completed"
    /\ Rewrite(PathOf(stamp[r]), None)
    /\ Unlock(r)
    /\ pc' = [pc EXCEPT ![r] = "done"]
    /\ memory' = [memory EXCEPT ![r] = NewCheckpoint]
    /\ UNCHANGED <<stamp, flight, late, service, world>>

-----------------------------------------------------------------------------
(***************************************************************************)
(* Every way out that is not success: `?` drops what is in flight and the  *)
(* lock.  A request already on its way may reach the service afterwards.   *)
(***************************************************************************)
OnTheWay(r) ==
    {[id |-> memory[r].id, part |-> p, etag |-> Identity(r)] :
         p \in {q \in Parts : flight[r][q] = Sent}}

\* What a run that ends has held is gone.
Stop(r) ==
    /\ pc' = [pc EXCEPT ![r] = "idle"]
    /\ stamp' = [stamp EXCEPT ![r] = 1]
    /\ memory' = [memory EXCEPT ![r] = NewCheckpoint]
    /\ flight' = [flight EXCEPT ![r] = NoParts]
    /\ late' = late \cup OnTheWay(r)

\* Mutant: a failing run leaves its lock.
AbandonLocked(r) ==
    /\ Stop(r)
    /\ UNCHANGED <<files, lock>>

Abandon(r) ==
    /\ Stop(r)
    /\ Unlock(r)
    /\ UNCHANGED files

\* The service's refusals: the condition of Create, an unknown upload id, a
\* changed source, an ETag that is not the stored one.
Rejected(r) ==
    /\ \/ pc[r] = "create" /\ ~CreateAccepted
       \/ pc[r] = "list" /\ UploadOf(r).state # "open"
       \/ Guarded /\ source # stamp[r] /\ \E p \in Parts : flight[r][p] = Sent
       \/ Transferred(r) /\ ~CompleteAccepted(r)
    /\ Abandon(r)
    /\ UNCHANGED <<service, world>>

\* A fault, after which that many upload ids are known to nobody.
Strike(kind, forgotten) ==
    /\ kind \in Faults /\ spent < MaxFaults
    /\ spent' = spent + 1
    /\ leaking' = leaking + forgotten
    /\ blocking' = (blocking \/ kind \in {"reply", "kill", "power", "output"})

\* The id of an upload just created is nowhere but in the run's memory.
Unsaved(r) == IF pc[r] = "created" THEN 1 ELSE 0

RequestLost(r) ==
    /\ pc[r] \in Transferring
    /\ Strike("request", Unsaved(r)) /\ Abandon(r)
    /\ UNCHANGED <<service, fixture>>

\* The lock file is created, its pid cannot be written: no guard exists yet
\* that would remove it.
LockUnwritten(r) ==
    LET path == PathOf(Identity(r)) IN
    /\ pc[r] = "probed" /\ lock[path] = None
    /\ Strike("output", 0)
    /\ lock' = [lock EXCEPT ![path] = r]
    /\ pc' = [pc EXCEPT ![r] = "idle"]
    /\ UNCHANGED <<files, stamp, memory, flight, late, service, fixture>>

\* output_result comes before remove_checkpoint.
OutputFails(r) ==
    /\ pc[r] = "completed"
    /\ Strike("output", 0) /\ Abandon(r)
    /\ UNCHANGED <<service, fixture>>

\* The calls that are not repeated by the client take effect, but fail.
CreateUnanswered(r) ==
    /\ pc[r] = "create" /\ CreateAccepted
    /\ \E i \in Ids : FreshUpload(i)
    /\ Strike("reply", 1)
    /\ UNCHANGED object

CompleteUnanswered(r) ==
    /\ Transferred(r) /\ CompleteAccepted(r)
    /\ Publish(r)
    /\ Strike("reply", 0)

ReplyLost(r) ==
    /\ CreateUnanswered(r) \/ CompleteUnanswered(r)
    /\ Abandon(r)
    /\ UNCHANGED fixture

\* Nothing is dropped: the lock file stays.  No signal is handled here.
Killed(r) ==
    /\ pc[r] \in Working
    /\ Strike("kill", Unsaved(r)) /\ Stop(r)
    /\ UNCHANGED <<files, lock, service, fixture>>

\* save_checkpoint renames a file it has not synced, and remove_checkpoint
\* syncs nothing either: any checkpoint file changed since the last power loss
\* may turn up empty, or as it was before some of the changes.  A lock file
\* may be gone.  A request that got out is stored before the machine is back.
Survivors(v) == {disk[v]} \cup former[v] \cup (IF former[v] = {} THEN {} ELSE {Torn})

\* The files that held an id and do not any longer.
Saved(v) == disk[v] \notin {None, Torn}
Forgets(v) == Saved(v) /\ ~(Saved(v)' /\ disk'[v].id = disk[v].id)

PowerLoss ==
    /\ disk' \in {d \in [Versions -> UNION {Survivors(v) : v \in Versions}] :
                     \A v \in Versions : d[v] \in Survivors(v)}
    /\ former' = [v \in Versions |-> {}]
    /\ lock' \in {l \in [Versions -> Runs \cup {None}] :
                     \A v \in Versions : l[v] \in {lock[v], None}}
    /\ Strike("power", Cardinality({v \in Versions : Forgets(v)})
                         + Cardinality({r \in Runs : pc[r] = "created"}))
    /\ pc' = [r \in Runs |-> IF pc[r] \in Working \cup {"probed"} THEN "idle" ELSE pc[r]]
    /\ flight' = [r \in Runs |-> NoParts]
    /\ stamp' = [r \in Runs |-> 1]
    /\ memory' = [r \in Runs |-> NewCheckpoint]
    /\ UNCHANGED <<late, service, fixture>>

\* The source is rewritten, with a new identity.
Edit ==
    /\ source < MaxVersion
    /\ Strike("edit", 0)
    /\ source' = source + 1
    /\ disturbed' = disturbed \cup {stamp[r] : r \in {q \in Runs : pc[q] \in Transferring}}
    /\ UNCHANGED <<files, lock, pc, stamp, memory, flight, late, service,
                   command>>

OtherWrites ==
    /\ Strike("other", 0)
    /\ object' = Foreign
    /\ UNCHANGED <<files, lock, pc, stamp, memory, flight, late, uploads,
                   fixture>>

StoreLate ==
    \E m \in late :
        /\ uploads[m.id].state = "open"
        /\ uploads' = [uploads EXCEPT ![m.id].parts[m.part] = m.etag]
        /\ late' = late \ {m}
        /\ UNCHANGED <<files, lock, pc, stamp, memory, flight, object, world>>

Step(r) ==
    \/ Skip(r) \/ Proceed(r) \/ Claim(r) \/ Refused(r) \/ Create(r)
    \/ SaveCreated(r) \/ List(r) \/ Send(r) \/ Complete(r) \/ Finish(r) \/ Rejected(r)
    \/ \E p \in Parts : Store(r, p) \/ Record(r, p)

Next ==
    \/ \E r \in Runs : \/ Step(r)
                      \/ RequestLost(r) \/ LockUnwritten(r) \/ OutputFails(r)
                      \/ ReplyLost(r) \/ Killed(r)
    \/ PowerLoss \/ Edit \/ OtherWrites \/ StoreLate

Spec == Init /\ [][Next]_vars

\* The user repeats the command until it succeeds, and the program goes on.
FairSpec == Spec /\ \A r \in Runs : WF_vars(Step(r))

-----------------------------------------------------------------------------
TypeOK ==
    /\ command \in Commands /\ blocking \in BOOLEAN
    /\ source \in Versions /\ disturbed \subseteq Versions
    /\ disk \in [Versions -> Checkpoint \cup {None, Torn}]
    /\ former \in [Versions -> SUBSET (Checkpoint \cup {None, Torn})]
    /\ lock \in [Versions -> Runs \cup {None}]
    /\ pc \in [Runs -> Working \cup {"idle", "probed", "skipped", "done"}]
    /\ stamp \in [Runs -> Versions]
    /\ memory \in [Runs -> Checkpoint]
    /\ flight \in [Runs -> [Parts -> Versions \cup {None, Sent}]]
    /\ late \subseteq [id : Ids, part : Parts, etag : Versions]
    /\ uploads \in [Ids -> [state : {"unused", "open", "done"}, parts : Etags]]
    /\ object \in {None, Foreign} \cup [stamp : Versions, parts : Etags]
    /\ spent \in 0..MaxFaults /\ leaking \in Nat

\* The published object is one version of the source, through any number of
\* failed and resumed runs: parts saved for one version are never combined
\* with those of another.  A local file that changes while a run is reading
\* it is the one exception; a copy's parts are conditional, and it has none.
ObjectWhole ==
    \/ object \in {None, Foreign}
    \/ \A p \in Parts : object.parts[p] = object.stamp
    \/ ~Guarded /\ object.stamp \in disturbed

\* Two runs never work on one checkpoint, whatever died or was refused in
\* between: Drop removes only a lock its own process created.
Exclusive ==
    \A r, q \in Runs :
        /\ pc[r] \in Working => lock[PathOf(stamp[r])] = r
        /\ pc[r] \in Working /\ pc[q] \in Working /\ PathOf(stamp[r]) = PathOf(stamp[q])
               => r = q

\* A part the checkpoint counts as done is at the service, as counted, while
\* the upload is open: resuming skips nothing that is missing.  (Repeated
\* delivery of a part read from a changing file is the exception.)
CheckpointHonest ==
    \A v \in Versions \ disturbed, p \in Parts :
        (/\ disk[v] \notin {None, Torn}
         /\ uploads[disk[v].id].state = "open"
         /\ disk[v].parts[p] # None)
        => uploads[disk[v].id].parts[p] = disk[v].parts[p]

\* Uploads left open at the service whose id is in no checkpoint file, nor
\* with a run about to save it: nobody will ever complete them, and they are
\* billed.
Named == {disk[v].id : v \in {w \in Versions : Saved(w)}}
             \cup {memory[r].id : r \in {q \in Runs : pc[q] = "created"}}
Leaked == {i \in Ids : uploads[i].state = "open" /\ i \notin Named}

\* An upload leaks only where its id is lost between its creation and the
\* first save_checkpoint, by a lost answer, a failing save or a stop, one for
\* each, or with a checkpoint file that a power loss damages or takes back.
\* Failures and kills at any other point, and repeating the command, leak
\* none.
LeaksFromFaults == Cardinality(Leaked) <= leaking

\* An existing destination is left alone when the user asked for that.  It does
\* not hold: only the request that creates the upload is conditional.
NoClobber ==
    [][Strategy = "no_clobber" /\ object # None => object' = object]_vars

Across == \E r \in Runs : pc[r] \in {"done", "skipped"}

\* Repeating the command gets the file across in the end: neither a failed
\* request nor a changed source, of any run, leaves a state that blocks later
\* runs.
Finishes == <>(blocking \/ Across)

\* "Enable checkpoint for resumable transfer": whatever stopped a run.
Resumes == <>Across
=============================================================================
