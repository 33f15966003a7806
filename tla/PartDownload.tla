----------------------------- MODULE PartDownload -----------------------------
(* cp --checkpoint of one large object to a local file, in ranges.           *)
(*                                                                           *)
(* Each range goes to a part file beside the destination.  The names of the  *)
(* parts are hashed from the destination, the ETag and the size, so that the *)
(* next run finds what the last one left; a part is taken over when its      *)
(* length is right.  There is no lock: a second run of the command shares    *)
(* the parts of the first.  ve-tos assembles the parts in a temporary file,  *)
(* verifies it and renames it; ve-adrive assembles them in the destination   *)
(* and verifies that.                                                        *)
(*                                                                           *)
(* A file is the sequence of its blocks.  A handle writes at its own offset: *)
(* after another one has truncated the file, that leaves a hole.  A handle   *)
(* follows its file through a rename and outlives its removal (POSIX).       *)
EXTENDS Integers, Sequences, FiniteSets

CONSTANTS
    Slots,         \* runs of the command that may be alive together
    Parts,         \* number of ranges
    Blocks,        \* blocks per range
    Concurrency,   \* multipart_concurrency
    Absent,        \* no such file
    MaxVersion,    \* bound: the last version of the object
    MaxRivals,     \* bound: runs started while another one is alive
    MaxFaults      \* bound: failed attempts, kills and power losses

Old == 1     \* what the destination had before the first run
First == 2   \* the object before the first run
Versions == First..MaxVersion
Ranges == 1..Parts
Size == Parts * Blocks

Block == (Old..MaxVersion) \X (1..Size)
Hole == <<0, 0>>
Content == Seq(Block \cup {Hole})
Whole(v) == [k \in 1..Size |-> <<v, k>>]

Runs == 1..Slots

ASSUME PartsAssumption == Parts \in Nat \ {0} /\ Blocks \in Nat \ {0}
ASSUME AbsentAssumption == Absent \notin Content
ASSUME BoundsAssumption ==
    /\ Slots \in Nat \ {0} /\ Concurrency \in Nat \ {0}
    /\ MaxVersion \in Nat /\ MaxVersion >= First
    /\ MaxRivals \in Nat
    /\ MaxFaults \in Nat

VARIABLES
    service,   \* "tos" or "adrive"
    crc,       \* the object has a CRC64
    version,   \* its current version
    part,      \* the part files, by the version hashed into their names
    temp,      \* ve-tos: the temporary files, likewise
    dest,      \* the destination
    pc,        \* the stage of each run
    etag,      \* the version it is pinned to
    task,      \* what has become of each range in it
    offset,    \* blocks written by a range's handle
    astray,    \* the ranges whose handle has lost its file
    output,    \* where the handle of the assembly leads
    next,      \* the part to be copied or removed next
    pos,       \* blocks written by the assembly
    alone,     \* history: the run since whose start no other one was alive, or 0
    mingled,   \* history: two runs, or a power loss, have touched the parts
    crossed,   \* history: runs pinned to different versions were alive together
    rivals,
    faults

object_vars == <<service, crc, version>>
range_vars == <<etag, task, offset>>
assembly_vars == <<output, next, pos>>
history_vars == <<alone, mingled, crossed, rivals>>
vars == <<service, crc, version, part, temp, dest, pc, etag, task, offset, astray,
          output, next, pos, alone, mingled, crossed, rivals, faults>>

-----------------------------------------------------------------------------
(* Files *)

\* data written by a handle that stands at block `at`.
WriteAt(file, at, data) ==
    LET end == at + Len(data)
    IN  [k \in 1..(IF end > Len(file) THEN end ELSE Len(file)) |->
            IF k \in (at + 1)..end THEN data[k - at]
            ELSE IF k <= Len(file) THEN file[k] ELSE Hole]

\* Mutant: the ETag is not hashed into the name.
BaseShared(v) == First

\* range_download_base_path: the version that the names of the parts depend on.
Base(v) == v

Part(r, n) == part[Base(etag[r])][n]
Temp(r) == temp[Base(etag[r])]

Live == {r \in Runs : pc[r] \notin {"down", "ended"}}

\* The runs that have the same part names.
Sharing(r) == {q \in Runs : Base(etag[q]) = Base(etag[r])}

\* A part file loses its name: handles on it write to nobody's file.
Unlinked(r, names) ==
    [q \in Runs |-> IF q \in Sharing(r)
                    THEN astray[q] \cup {n \in names : task[q][n] = "open"}
                    ELSE astray[q]]

Remove(r, names) ==
    part' = [part EXCEPT ![Base(etag[r])] =
                [n \in Ranges |-> IF n \in names THEN Absent ELSE @[n]]]

\* Likewise for the handle of an assembly.
Severed(file, runs) ==
    [q \in Runs |-> IF output[q] = file /\ q \in runs THEN "lost" ELSE output[q]]

Fault ==
    /\ faults < MaxFaults
    /\ faults' = faults + 1

-----------------------------------------------------------------------------
Init ==
    /\ service \in {"tos", "adrive"}
    /\ crc \in BOOLEAN
    /\ version = First
    /\ part = [v \in Versions |-> [n \in Ranges |-> Absent]]
    /\ temp = [v \in Versions |-> Absent]
    /\ dest \in {Absent, Whole(Old)}
    /\ pc = [r \in Runs |-> "down"]
    /\ etag = [r \in Runs |-> First]
    /\ task = [r \in Runs |-> [n \in Ranges |-> "todo"]]
    /\ offset = [r \in Runs |-> [n \in Ranges |-> 0]]
    /\ astray = [r \in Runs |-> {}]
    /\ output = [r \in Runs |-> "none"]
    /\ next = [r \in Runs |-> 1]
    /\ pos = [r \in Runs |-> 0]
    /\ alone = 0
    /\ mingled = FALSE
    /\ crossed = FALSE
    /\ rivals = 0
    /\ faults = 0

\* The HEAD request tells length, ETag and CRC64.
Launch(r) ==
    /\ r \notin Live
    /\ \A q \in 1..(r - 1) : q \in Live   \* the slots are only labels
    /\ pc' = [q \in Runs |-> IF q = r THEN "ranges"
                             ELSE IF q \in Live THEN pc[q] ELSE "down"]
    /\ etag' = [q \in Runs |-> IF q = r THEN version
                               ELSE IF q \in Live THEN etag[q] ELSE First]
    /\ IF Live = {}
       THEN alone' = r /\ UNCHANGED <<mingled, rivals>>
       ELSE /\ rivals < MaxRivals
            /\ rivals' = rivals + 1
            /\ mingled' = TRUE
            /\ alone' = 0
    /\ crossed' = (crossed \/ \E q \in Live : etag[q] # version)
    /\ UNCHANGED <<object_vars, part, temp, dest, task, offset, astray,
                   assembly_vars, faults>>

\* The process is gone: nothing of the run is left but what it has reported.
Leave(r, report) ==
    /\ pc' = [pc EXCEPT ![r] = report]
    /\ task' = [task EXCEPT ![r] = [n \in Ranges |-> "todo"]]
    /\ offset' = [offset EXCEPT ![r] = [n \in Ranges |-> 0]]
    /\ next' = [next EXCEPT ![r] = 1]
    /\ pos' = [pos EXCEPT ![r] = 0]
    /\ etag' = [etag EXCEPT ![r] = IF report = "ended" THEN @ ELSE First]

-----------------------------------------------------------------------------
(* The ranges *)

\* Mutant: whatever part file there is.
ReusableAny(file) == file # Absent

\* What is taken over: a part file of the right length.
Reusable(file) == file # Absent /\ Len(file) = Blocks

InFlight(r) == {n \in Ranges : task[r][n] \in {"asked", "open"}}

\* The ranges are looked at in order, each when there is room for its request.
Check(r, n) ==
    /\ pc[r] = "ranges"
    /\ task[r][n] = "todo"
    /\ \A m \in 1..(n - 1) : task[r][m] # "todo"
    /\ Cardinality(InFlight(r)) < Concurrency
    /\ task' = [task EXCEPT ![r][n] = IF Reusable(Part(r, n)) THEN "done" ELSE "asked"]
    /\ UNCHANGED <<object_vars, part, temp, dest, pc, etag, offset, astray,
                   assembly_vars, history_vars, faults>>

\* The answer is in: the part file is created, or truncated.
Create(r, n) ==
    /\ pc[r] = "ranges"
    /\ task[r][n] = "asked"
    /\ version = etag[r]
    /\ task' = [task EXCEPT ![r][n] = "open"]
    /\ offset' = [offset EXCEPT ![r][n] = 0]
    /\ astray' = [astray EXCEPT ![r] = @ \ {n}]
    /\ part' = [part EXCEPT ![Base(etag[r])][n] = << >>]
    /\ UNCHANGED <<object_vars, temp, dest, pc, etag, assembly_vars, history_vars,
                   faults>>

BlockOf(r, n) == <<etag[r], (n - 1) * Blocks + offset[r][n] + 1>>

Receive(r, n) ==
    /\ pc[r] = "ranges"
    /\ task[r][n] = "open"
    /\ part' = IF n \in astray[r] THEN part
               ELSE [part EXCEPT ![Base(etag[r])][n] =
                        WriteAt(@, offset[r][n], <<BlockOf(r, n)>>)]
    /\ offset' = [offset EXCEPT ![r][n] = @ + 1]
    /\ task' = [task EXCEPT ![r][n] = IF offset'[r][n] = Blocks THEN "done" ELSE "open"]
    /\ astray' = IF offset'[r][n] = Blocks THEN [astray EXCEPT ![r] = @ \ {n}] ELSE astray
    /\ UNCHANGED <<object_vars, temp, dest, pc, etag, assembly_vars, history_vars,
                   faults>>

\* The body breaks off and the request is repeated, from the range's start.
Retry(r, n) ==
    /\ pc[r] = "ranges"
    /\ task[r][n] = "open"
    /\ Fault
    /\ task' = [task EXCEPT ![r][n] = "asked"]
    /\ offset' = [offset EXCEPT ![r][n] = 0]
    /\ astray' = [astray EXCEPT ![r] = @ \ {n}]
    /\ UNCHANGED <<object_vars, part, temp, dest, pc, etag, assembly_vars, history_vars>>

\* The error of one range removes its part and ends the run; what its siblings
\* have written stays.
PartFails(r, n) ==
    /\ pc[r] = "ranges"
    /\ \/ task[r][n] = "asked" /\ version # etag[r] /\ UNCHANGED faults
       \/ n \in InFlight(r) /\ Fault
    /\ Remove(r, {n})
    /\ astray' = [Unlinked(r, {n}) EXCEPT ![r] = {}]
    /\ Leave(r, "down")
    /\ UNCHANGED <<object_vars, temp, dest, output, history_vars>>

-----------------------------------------------------------------------------
(* The assembly *)

\* ve-tos creates or truncates the temporary file, ve-adrive the destination.
BeginAssembly(r) ==
    /\ pc[r] = "ranges"
    /\ \A n \in Ranges : task[r][n] = "done"
    /\ pc' = [pc EXCEPT ![r] = "assemble"]
    /\ next' = [next EXCEPT ![r] = 1]
    /\ pos' = [pos EXCEPT ![r] = 0]
    /\ IF service = "tos"
       THEN /\ temp' = [temp EXCEPT ![Base(etag[r])] = << >>]
            /\ output' = [output EXCEPT ![r] = "temp"]
            /\ UNCHANGED dest
       ELSE /\ dest' = << >>
            /\ output' = [output EXCEPT ![r] = "dest"]
            /\ UNCHANGED temp
    /\ UNCHANGED <<object_vars, part, range_vars, astray, history_vars, faults>>

Copied(r, data) ==
    /\ temp' = IF output[r] = "temp"
               THEN [temp EXCEPT ![Base(etag[r])] = WriteAt(@, pos[r], data)] ELSE temp
    /\ dest' = IF output[r] = "dest" THEN WriteAt(dest, pos[r], data) ELSE dest
    /\ pos' = [pos EXCEPT ![r] = @ + Len(data)]

\* ve-adrive removes the parts at once, ve-tos verifies first.
CopyPart(r) ==
    /\ pc[r] = "assemble"
    /\ Part(r, next[r]) # Absent
    /\ Copied(r, Part(r, next[r]))
    /\ IF next[r] < Parts
       THEN /\ next' = [next EXCEPT ![r] = @ + 1]
            /\ UNCHANGED <<pc, output>>
       ELSE /\ next' = [next EXCEPT ![r] = 1]
            /\ pc' = [pc EXCEPT ![r] = IF service = "tos" THEN "verify" ELSE "clean"]
            /\ output' = [output EXCEPT ![r] = "none"]
    /\ UNCHANGED <<object_vars, part, range_vars, astray, history_vars, faults>>

\* A part file is missing: another run has removed it.
CopyFails(r) ==
    /\ pc[r] = "assemble"
    /\ Part(r, next[r]) = Absent
    /\ Leave(r, "down")
    /\ output' = [output EXCEPT ![r] = "none"]
    /\ UNCHANGED <<object_vars, part, temp, dest, astray, history_vars, faults>>

\* Mutant: the length is compared instead.
MatchesLength(r, file) == ~crc \/ Len(file) = Size

\* The CRC64 compared is that of the file which now has the name.
Matches(r, file) == ~crc \/ file = Whole(etag[r])

\* Mutant: the parts of a file that did not match are left.
VerifyTempKeeps(r) ==
    /\ pc[r] = "verify"
    /\ service = "tos"
    /\ IF ~Matches(r, Temp(r))
       THEN Leave(r, "down")
       ELSE /\ pc' = [pc EXCEPT ![r] = "place"]
            /\ UNCHANGED <<range_vars, next, pos>>
    /\ UNCHANGED <<object_vars, part, temp, dest, astray, output, history_vars, faults>>

\* ve-tos: a temporary file that another run has renamed away is an error.
VerifyTemp(r) ==
    /\ pc[r] = "verify"
    /\ service = "tos"
    /\ IF crc /\ Temp(r) = Absent
       THEN Leave(r, "down")
       ELSE /\ pc' = [pc EXCEPT ![r] = IF Matches(r, Temp(r)) THEN "place" ELSE "discard"]
            /\ UNCHANGED <<range_vars, next, pos>>
    /\ UNCHANGED <<object_vars, part, temp, dest, astray, output, history_vars, faults>>

\* persist_downloaded_file: the destination is removed, ...
Displace(r) ==
    /\ pc[r] = "place"
    /\ dest' = Absent
    /\ output' = Severed("dest", Runs)
    /\ pc' = [pc EXCEPT ![r] = "rename"]
    /\ UNCHANGED <<object_vars, part, temp, range_vars, astray, next, pos,
                   history_vars, faults>>

\* ... then the temporary file is renamed, if it is still there; a handle that
\* another run has on it leads to the destination from now on.
Rename(r) ==
    /\ pc[r] = "rename"
    /\ Temp(r) # Absent
    /\ pc' = [pc EXCEPT ![r] = "clean"]
    /\ dest' = Temp(r)
    /\ temp' = [temp EXCEPT ![Base(etag[r])] = Absent]
    /\ output' = [q \in Runs |-> IF output[q] = "temp" /\ q \in Sharing(r) THEN "dest"
                                 ELSE Severed("dest", Runs)[q]]
    /\ UNCHANGED <<object_vars, part, range_vars, astray, next, pos, history_vars,
                   faults>>

RenameFails(r) ==
    /\ pc[r] = "rename"
    /\ Temp(r) = Absent
    /\ Leave(r, "down")
    /\ UNCHANGED <<object_vars, part, temp, dest, astray, output, history_vars, faults>>

\* The parts are removed one by one.
CleanPart(r) ==
    /\ pc[r] \in {"clean", "discard"}
    /\ next[r] <= Parts
    /\ Remove(r, {next[r]})
    /\ astray' = Unlinked(r, {next[r]})
    /\ next' = [next EXCEPT ![r] = @ + 1]
    /\ UNCHANGED <<object_vars, temp, dest, pc, range_vars, output, pos, history_vars,
                   faults>>

\* ve-tos is done; ve-adrive verifies the destination.
Cleaned(r) ==
    /\ pc[r] = "clean"
    /\ next[r] > Parts
    /\ IF service = "tos" THEN Leave(r, "ended")
       ELSE pc' = [pc EXCEPT ![r] = "verify"] /\ UNCHANGED <<range_vars, next, pos>>
    /\ UNCHANGED <<object_vars, part, temp, dest, astray, output, history_vars, faults>>

\* A temporary file that did not match is removed after its parts.
Discard(r) ==
    /\ pc[r] = "discard"
    /\ next[r] > Parts
    /\ temp' = [temp EXCEPT ![Base(etag[r])] = Absent]
    /\ output' = Severed("temp", Sharing(r))
    /\ Leave(r, "down")
    /\ UNCHANGED <<object_vars, part, dest, astray, history_vars, faults>>

\* A destination that does not match is removed.
VerifyDest(r) ==
    /\ pc[r] = "verify"
    /\ service = "adrive"
    /\ IF Matches(r, dest)
       THEN Leave(r, "ended") /\ UNCHANGED <<dest, output>>
       ELSE Leave(r, "down") /\ dest' = Absent /\ output' = Severed("dest", Runs)
    /\ UNCHANGED <<object_vars, part, temp, astray, history_vars, faults>>

-----------------------------------------------------------------------------
(* The surroundings *)

Kill(r) ==
    /\ r \in Live
    /\ Fault
    /\ Leave(r, "down")
    /\ astray' = [astray EXCEPT ![r] = {}]
    /\ output' = [output EXCEPT ![r] = "none"]
    /\ UNCHANGED <<object_vars, part, temp, dest, history_vars>>

\* Nothing is synced, no file and no directory: after a power loss any file
\* may have its length and no data, or be gone.  (Where a removal, a rename or a
\* truncation is taken back as well, it leaves what a power loss before that
\* step leaves.)
Blank(file) == IF file = Absent THEN Absent ELSE [k \in 1..Len(file) |-> Hole]
Remnants(file) == {file, Blank(file), Absent}

\* What is left of a temporary file nobody reads: every run truncates it first.
PowerLoss ==
    /\ Fault
    /\ part' \in {p \in [Versions -> [Ranges -> UNION {Remnants(part[v][n]) :
                                                     v \in Versions, n \in Ranges}]] :
                    \A v \in Versions, n \in Ranges : p[v][n] \in Remnants(part[v][n])}
    /\ temp' = [v \in Versions |-> Absent]
    /\ dest' \in Remnants(dest)
    /\ mingled' = TRUE
    /\ pc' = [r \in Runs |-> "down"]
    /\ task' = [r \in Runs |-> [n \in Ranges |-> "todo"]]
    /\ offset' = [r \in Runs |-> [n \in Ranges |-> 0]]
    /\ astray' = [r \in Runs |-> {}]
    /\ output' = [r \in Runs |-> "none"]
    /\ next' = [r \in Runs |-> 1]
    /\ pos' = [r \in Runs |-> 0]
    /\ etag' = [r \in Runs |-> First]
    /\ UNCHANGED <<object_vars, alone, crossed, rivals>>

\* The owner of the object overwrites it.
Overwrite ==
    /\ version < MaxVersion
    /\ version' = version + 1
    /\ UNCHANGED <<service, crc, part, temp, dest, pc, range_vars, astray,
                   assembly_vars, history_vars, faults>>

-----------------------------------------------------------------------------
Step(r) ==
    \/ \E n \in Ranges : Check(r, n) \/ Create(r, n) \/ Receive(r, n)
    \/ \E n \in Ranges : PartFails(r, n) /\ UNCHANGED faults
    \/ BeginAssembly(r) \/ CopyPart(r) \/ CopyFails(r) \/ VerifyTemp(r)
    \/ Displace(r) \/ Rename(r) \/ RenameFails(r) \/ CleanPart(r) \/ Cleaned(r) \/ Discard(r)
    \/ VerifyDest(r)

Next ==
    \/ \E r \in Runs :
          \/ Launch(r) \/ Step(r) \/ Kill(r)
          \/ \E n \in Ranges : Retry(r, n) \/ PartFails(r, n)
    \/ PowerLoss \/ Overwrite

Spec == Init /\ [][Next]_vars

\* A live run goes on, and the command is given again when none is alive.
Repeat == Live = {} /\ \E r \in Runs : Launch(r)
FairSpec == Spec /\ WF_vars(Repeat) /\ \A r \in Runs : WF_vars(Step(r))

-----------------------------------------------------------------------------
TypeOK ==
    /\ service \in {"tos", "adrive"}
    /\ crc \in BOOLEAN
    /\ version \in Versions
    /\ part \in [Versions -> [Ranges -> Content \cup {Absent}]]
    /\ temp \in [Versions -> Content \cup {Absent}]
    /\ dest \in Content \cup {Absent}
    /\ pc \in [Runs -> {"down", "ranges", "assemble", "verify", "place", "rename",
                        "clean", "discard", "ended"}]
    /\ etag \in [Runs -> Versions]
    /\ task \in [Runs -> [Ranges -> {"todo", "asked", "open", "done"}]]
    /\ offset \in [Runs -> [Ranges -> 0..Blocks]]
    /\ astray \in [Runs -> SUBSET Ranges]
    /\ output \in [Runs -> {"none", "temp", "dest", "lost"}]
    /\ next \in [Runs -> 1..(Parts + 1)]
    /\ pos \in [Runs -> Nat]
    /\ alone \in 0..Slots
    /\ mingled \in BOOLEAN
    /\ crossed \in BOOLEAN
    /\ rivals \in 0..MaxRivals
    /\ faults \in 0..MaxFaults

Of(v, file) == \A k \in DOMAIN file : file[k] = Hole \/ file[k][1] = v

\* The destination never holds blocks of two versions, however many runs, kills
\* and power losses share its parts and whatever the owner does: the names of
\* the parts depend on the ETag.  ve-adrive, which writes them into the
\* destination itself, can say so only while no two runs of different versions
\* were alive together.
NeverMixed ==
    service = "tos" \/ ~crossed
      => dest = Absent \/ \E v \in Old..MaxVersion : Of(v, dest)

\* A run that was alone and reports success has saved the version it is pinned
\* to, whatever parts it found - if the object has a CRC64, or if the parts have
\* only ever been written by runs that were alone.  (A power loss may take it
\* away again: nothing is synced.)
SuccessIsWhole ==
    \A r \in Runs :
        pc[r] = "ended" /\ alone = r /\ (crc \/ ~mingled) => dest = Whole(etag[r])

\* ve-tos: as long as runs are alone, none of their steps leaves the destination
\* torn, wherever a kill may stop them and whatever parts they found: it is whole,
\* or for a moment absent.  The power loss itself is excluded: it may tear a
\* destination that was renamed into place, because nothing is synced.
NeverTorn ==
    [][service = "tos" /\ Live = {alone} /\ (crc \/ ~mingled) /\ dest' # dest /\ ~PowerLoss
         => dest' = Absent \/ \E v \in Versions : dest' = Whole(v)]_vars

\* Giving the command again repairs whatever earlier runs have left: an object
\* with a CRC64 gets to the destination once its owner leaves it alone.
Repairs == []<>(crc => dest = Whole(version))
=============================================================================
