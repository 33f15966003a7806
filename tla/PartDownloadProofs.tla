-------------------------- MODULE PartDownloadProofs --------------------------
(* Proofs that a destination never mixes versions, however many runs, kills  *)
(* and power losses share its part files.                                    *)
(*                                                                           *)
(* The part files and the temporary file keep to the version in their names  *)
(* (PartsPure, TempsPure).  A handle on the destination is what needs care:  *)
(* a rename turns a handle on the temporary file into one on the destination *)
(* (DestPure, OneWriter).                                                    *)
(*                                                                           *)
(* A run that is alone also finishes what it claims: what it has read,       *)
(* written and compared is a prefix of its version, and parts that only ever *)
(* were written alone are kept as they were (Solitary).                      *)
EXTENDS PartDownload, TLAPS

File == Content \cup {Absent}

-----------------------------------------------------------------------------
(* Files. *)

LEMMA SizeNat == Size \in Nat /\ Size > 0 /\ Parts \in Nat /\ Parts > 0 /\ Blocks \in Nat /\ Blocks > 0
  BY PartsAssumption DEF Size

LEMMA VersionValues ==
  /\ First \in Versions /\ Versions \subseteq Old..MaxVersion /\ Old \in Old..MaxVersion
  /\ \A v \in Versions : v \in Int /\ (v < MaxVersion => v + 1 \in Versions)
  BY BoundsAssumption DEF First, Old, Versions

LEMMA EmptyFile == << >> \in Content /\ \A v : Of(v, << >>)
  BY DEF Content, Of

LEMMA WriteType ==
  ASSUME NEW file \in Content, NEW at \in Nat, NEW data \in Content
  PROVE  /\ WriteAt(file, at, data) \in Content
         /\ WriteAt(file, at, data) # Absent
         /\ at + Len(data) \in Nat
  <1> DEFINE end == at + Len(data)
  <1> DEFINE top == IF end > Len(file) THEN end ELSE Len(file)
  <1>1. Len(file) \in Nat /\ Len(data) \in Nat
    BY DEF Content
  <1>2. top \in Nat
    BY <1>1
  <1>3. \A k \in 1..top :
           (IF k \in (at + 1)..end THEN data[k - at]
            ELSE IF k <= Len(file) THEN file[k] ELSE Hole) \in Block \cup {Hole}
    <2> TAKE k \in 1..top
    <2>1. CASE k \in (at + 1)..end
      <3>1. k - at \in 1..Len(data)
        BY <1>1, <2>1
      <3>2. data[k - at] \in Block \cup {Hole}
        BY <3>1 DEF Content
      <3> QED
        BY <2>1, <3>2
    <2>2. CASE k \notin (at + 1)..end /\ k <= Len(file)
      <3>1. file[k] \in Block \cup {Hole}
        BY <1>1, <1>2, <2>2 DEF Content
      <3> QED
        BY <2>2, <3>1
    <2>3. CASE k \notin (at + 1)..end /\ ~(k <= Len(file))
      BY <2>3
    <2> QED
      BY <2>1, <2>2, <2>3
  <1>4. [k \in 1..top |-> IF k \in (at + 1)..end THEN data[k - at]
                          ELSE IF k <= Len(file) THEN file[k] ELSE Hole]
           \in Seq(Block \cup {Hole})
    BY <1>2, <1>3
  <1>5. WriteAt(file, at, data) \in Content
    BY <1>4 DEF WriteAt, Content
  <1> QED
    BY <1>1, <1>5, AbsentAssumption

\* What is written keeps to a version when file and data do.
LEMMA WriteOf ==
  ASSUME NEW v, NEW file \in Content, NEW at \in Nat, NEW data \in Content,
         Of(v, file), Of(v, data)
  PROVE  Of(v, WriteAt(file, at, data))
  <1>1. Len(file) \in Nat /\ Len(data) \in Nat /\ DOMAIN file = 1..Len(file)
        /\ DOMAIN data = 1..Len(data)
    BY DEF Content
  <1>2. ASSUME NEW k \in DOMAIN WriteAt(file, at, data)
        PROVE  \/ WriteAt(file, at, data)[k] = Hole
               \/ \E j \in DOMAIN data : WriteAt(file, at, data)[k] = data[j]
               \/ \E j \in DOMAIN file : WriteAt(file, at, data)[k] = file[j]
    <2> DEFINE end == at + Len(data)
    <2> DEFINE top == IF end > Len(file) THEN end ELSE Len(file)
    <2>1. top \in Nat
      BY <1>1
    <2>2. k \in 1..top
      BY <1>2 DEF WriteAt
    <2>3. CASE k \in (at + 1)..end
      <3>1. WriteAt(file, at, data)[k] = data[k - at]
        BY <2>2, <2>3 DEF WriteAt
      <3>2. k - at \in DOMAIN data
        BY <1>1, <2>3
      <3> QED
        BY <3>1, <3>2
    <2>4. CASE k \notin (at + 1)..end /\ k <= Len(file)
      <3>1. WriteAt(file, at, data)[k] = file[k]
        BY <2>2, <2>4 DEF WriteAt
      <3>2. k \in DOMAIN file
        BY <1>1, <2>1, <2>2, <2>4
      <3> QED
        BY <3>1, <3>2
    <2>5. CASE k \notin (at + 1)..end /\ ~(k <= Len(file))
      BY <2>2, <2>5 DEF WriteAt
    <2> QED
      BY <2>3, <2>4, <2>5
  <1> QED
    BY <1>2 DEF Of

LEMMA WholeFile ==
  ASSUME NEW v \in Old..MaxVersion
  PROVE  Whole(v) \in Content /\ Of(v, Whole(v))
  <1>1. \A k \in 1..Size : <<v, k>> \in Block
    BY DEF Block
  <1>2. [k \in 1..Size |-> <<v, k>>] \in Seq(Block \cup {Hole})
    BY <1>1, SizeNat
  <1> QED
    BY <1>2 DEF Whole, Content, Of

LEMMA BlankFile ==
  ASSUME NEW file \in File
  PROVE  Blank(file) \in File /\ (Blank(file) # Absent => file # Absent)
         /\ \A v : Blank(file) # Absent => Of(v, Blank(file))
  <1>1. CASE file = Absent
    BY <1>1 DEF Blank, File
  <1>2. CASE file \in Content /\ file # Absent
    <2>1. Len(file) \in Nat
      BY <1>2 DEF Content
    <2>2. [k \in 1..Len(file) |-> Hole] \in Seq(Block \cup {Hole})
      BY <2>1
    <2>3. Blank(file) = [k \in 1..Len(file) |-> Hole]
      BY <1>2 DEF Blank
    <2> QED
      BY <1>2, <2>2, <2>3 DEF File, Content, Of
  <1> QED
    BY <1>1, <1>2 DEF File

-----------------------------------------------------------------------------
(* The invariant. *)

\* What the handles of a run lead to.
Handles(r) ==
    /\ \A n \in Ranges :
          task[r][n] = "open"
            => /\ pc[r] = "ranges"
               /\ offset[r][n] < Blocks
               /\ n \notin astray[r] => part[etag[r]][n] # Absent
    /\ output[r] # "none" => pc[r] = "assemble"
    /\ output[r] = "temp" => temp[etag[r]] # Absent
    /\ output[r] = "dest" => dest # Absent
    /\ pc[r] = "assemble" => next[r] <= Parts

\* Part files and temporary files keep to the version in their names.
PartsPure == \A v \in Versions, n \in Ranges : part[v][n] # Absent => Of(v, part[v][n])
TempsPure == \A v \in Versions : temp[v] # Absent => Of(v, temp[v])

\* The runs that have a handle on the destination are of one version.
OneWriter ==
    \A q, r \in Runs : output[q] = "dest" /\ output[r] = "dest" => etag[q] = etag[r]

DestPure ==
    service = "tos" \/ ~crossed
      => /\ dest = Absent \/ \E v \in Old..MaxVersion : Of(v, dest)
         /\ \A r \in Runs : output[r] = "dest" => Of(etag[r], dest)
         /\ OneWriter

Uncrossed == ~crossed => \A q, r \in Live : etag[q] = etag[r]

AllHandles == \A r \in Runs : Handles(r)

IInv == TypeOK /\ AllHandles /\ PartsPure /\ TempsPure /\ DestPure /\ Uncrossed

-----------------------------------------------------------------------------
(* Types. *)

LEMMA InitTypes == Init => TypeOK
  <1> SUFFICES ASSUME Init PROVE TypeOK
    OBVIOUS
  <1>1. part \in [Versions -> [Ranges -> Content \cup {Absent}]]
        /\ temp \in [Versions -> Content \cup {Absent}]
    BY DEF Init
  <1>2. dest \in Content \cup {Absent}
    BY WholeFile, VersionValues DEF Init
  <1>3. /\ pc \in [Runs -> {"down", "ranges", "assemble", "verify", "place", "rename",
                            "clean", "discard", "ended"}]
        /\ task \in [Runs -> [Ranges -> {"todo", "asked", "open", "done"}]]
        /\ astray \in [Runs -> SUBSET Ranges]
        /\ output \in [Runs -> {"none", "temp", "dest", "lost"}]
    BY DEF Init
  <1>4. /\ etag \in [Runs -> Versions] /\ version \in Versions
        /\ offset \in [Runs -> [Ranges -> 0..Blocks]]
        /\ next \in [Runs -> 1..(Parts + 1)]
        /\ pos \in [Runs -> Nat]
    BY VersionValues, SizeNat DEF Init
  <1>5. alone \in 0..Slots /\ rivals \in 0..MaxRivals /\ faults \in 0..MaxFaults
    BY BoundsAssumption DEF Init
  <1> QED
    BY <1>1, <1>2, <1>3, <1>4, <1>5 DEF Init, TypeOK

LEMMA FaultTypes ==
  ASSUME TypeOK, Fault
  PROVE  faults' \in 0..MaxFaults
  BY BoundsAssumption DEF TypeOK, Fault

LEMMA LeaveTypes ==
  ASSUME TypeOK, NEW r \in Runs, NEW report \in {"down", "ended"}, Leave(r, report)
  PROVE  /\ pc' \in [Runs -> {"down", "ranges", "assemble", "verify", "place", "rename",
                              "clean", "discard", "ended"}]
         /\ task' \in [Runs -> [Ranges -> {"todo", "asked", "open", "done"}]]
         /\ offset' \in [Runs -> [Ranges -> 0..Blocks]]
         /\ next' \in [Runs -> 1..(Parts + 1)]
         /\ pos' \in [Runs -> Nat]
         /\ etag' \in [Runs -> Versions]
  <1>1. 0 \in 0..Blocks /\ 1 \in 1..(Parts + 1)
    BY SizeNat
  <1> QED
    BY <1>1, VersionValues DEF Leave, TypeOK

LEMMA UnlinkedTypes ==
  ASSUME TypeOK, NEW r \in Runs, NEW names \in SUBSET Ranges
  PROVE  Unlinked(r, names) \in [Runs -> SUBSET Ranges]
  BY DEF Unlinked, TypeOK

LEMMA RemoveTypes ==
  ASSUME TypeOK, NEW r \in Runs, NEW names \in SUBSET Ranges, Remove(r, names)
  PROVE  part' \in [Versions -> [Ranges -> Content \cup {Absent}]]
  <1>1. [n \in Ranges |-> IF n \in names THEN Absent ELSE part[etag[r]][n]]
           \in [Ranges -> Content \cup {Absent}]
    BY DEF TypeOK
  <1> QED
    BY <1>1 DEF Remove, Base, TypeOK

LEMMA SeveredTypes ==
  ASSUME TypeOK, NEW file, NEW runs
  PROVE  Severed(file, runs) \in [Runs -> {"none", "temp", "dest", "lost"}]
  BY DEF Severed, TypeOK

LEMMA LaunchTypes == TypeOK /\ (\E r \in Runs : Launch(r)) => TypeOK'
  <1> SUFFICES ASSUME TypeOK, NEW r \in Runs, Launch(r) PROVE TypeOK'
    OBVIOUS
  <1>1. pc' \in [Runs -> {"down", "ranges", "assemble", "verify", "place", "rename",
                          "clean", "discard", "ended"}]
    BY DEF Launch, TypeOK
  <1>2. etag' \in [Runs -> Versions]
    BY VersionValues DEF Launch, TypeOK
  <1>3. alone' \in 0..Slots /\ rivals' \in 0..MaxRivals
    BY BoundsAssumption DEF Launch, TypeOK, Runs
  <1>4. mingled' \in BOOLEAN /\ crossed' \in BOOLEAN
    BY DEF Launch, TypeOK
  <1> QED
    BY <1>1, <1>2, <1>3, <1>4 DEF Launch, TypeOK, object_vars, assembly_vars

\* The block that a range's handle writes next is one of the object.
LEMMA BlockTypes ==
  ASSUME TypeOK, NEW r \in Runs, NEW n \in Ranges, offset[r][n] < Blocks
  PROVE  BlockOf(r, n) \in Block /\ <<BlockOf(r, n)>> \in Content
         /\ Of(etag[r], <<BlockOf(r, n)>>)
  <1>1. n \in Nat /\ n >= 1 /\ n <= Parts /\ offset[r][n] \in Nat
    BY SizeNat DEF Ranges, TypeOK
  <1>2. (n - 1) * Blocks \in Nat /\ (n - 1) * Blocks + Blocks <= Parts * Blocks
    BY <1>1, SizeNat
  <1>3. (n - 1) * Blocks + offset[r][n] + 1 \in 1..Size
    BY <1>1, <1>2, SizeNat DEF Size
  <1>4. etag[r] \in Old..MaxVersion
    BY VersionValues DEF TypeOK
  <1>5. BlockOf(r, n) \in Block /\ BlockOf(r, n)[1] = etag[r]
    BY <1>3, <1>4 DEF BlockOf, Block
  <1> QED
    BY <1>5 DEF Content, Of

LEMMA RangeTypes ==
  ASSUME TypeOK, NEW r \in Runs, NEW n \in Ranges, Handles(r),
         Check(r, n) \/ Create(r, n) \/ Receive(r, n) \/ Retry(r, n) \/ PartFails(r, n)
  PROVE  TypeOK'
  <1>1. CASE Check(r, n)
    BY <1>1 DEF Check, TypeOK, object_vars, assembly_vars, history_vars
  <1>2. CASE Create(r, n)
    <2>1. part' \in [Versions -> [Ranges -> Content \cup {Absent}]]
      BY <1>2, EmptyFile DEF Create, TypeOK, Base
    <2>2. task' \in [Runs -> [Ranges -> {"todo", "asked", "open", "done"}]]
          /\ offset' \in [Runs -> [Ranges -> 0..Blocks]]
          /\ astray' \in [Runs -> SUBSET Ranges]
      BY <1>2, SizeNat DEF Create, TypeOK
    <2> QED
      BY <1>2, <2>1, <2>2 DEF Create, TypeOK, object_vars, assembly_vars, history_vars
  <1>3. CASE Receive(r, n)
    <2>1. task[r][n] = "open" /\ offset[r][n] < Blocks /\ offset[r][n] \in Nat
          /\ (n \notin astray[r] => part[etag[r]][n] # Absent)
      BY <1>3, SizeNat DEF Receive, Handles, TypeOK
    <2>2. part' \in [Versions -> [Ranges -> Content \cup {Absent}]]
      <3>1. CASE n \in astray[r]
        BY <1>3, <3>1 DEF Receive, TypeOK
      <3>2. CASE n \notin astray[r]
        <4>1. part[etag[r]][n] \in Content /\ etag[r] \in Versions
          BY <2>1, <3>2 DEF TypeOK
        <4>2. WriteAt(part[etag[r]][n], offset[r][n], <<BlockOf(r, n)>>) \in Content
          BY <2>1, <4>1, BlockTypes, WriteType
        <4> QED
          BY <1>3, <3>2, <4>1, <4>2 DEF Receive, Base, TypeOK
      <3> QED
        BY <3>1, <3>2
    <2>3. offset' \in [Runs -> [Ranges -> 0..Blocks]]
      BY <1>3, <2>1, SizeNat DEF Receive, TypeOK
    <2>4. task' \in [Runs -> [Ranges -> {"todo", "asked", "open", "done"}]]
          /\ astray' \in [Runs -> SUBSET Ranges]
      BY <1>3 DEF Receive, TypeOK
    <2> QED
      BY <1>3, <2>2, <2>3, <2>4 DEF Receive, TypeOK, object_vars, assembly_vars, history_vars
  <1>4. CASE Retry(r, n)
    <2>1. task' \in [Runs -> [Ranges -> {"todo", "asked", "open", "done"}]]
          /\ offset' \in [Runs -> [Ranges -> 0..Blocks]]
          /\ astray' \in [Runs -> SUBSET Ranges]
      BY <1>4, SizeNat DEF Retry, TypeOK
    <2> QED
      BY <1>4, <2>1, FaultTypes DEF Retry, TypeOK, object_vars, assembly_vars, history_vars
  <1>5. CASE PartFails(r, n)
    <2>1. astray' \in [Runs -> SUBSET Ranges]
      BY <1>5, UnlinkedTypes DEF PartFails
    <2>2. faults' \in 0..MaxFaults
      BY <1>5, FaultTypes DEF PartFails, TypeOK
    <2>3. part' \in [Versions -> [Ranges -> Content \cup {Absent}]]
      BY <1>5, RemoveTypes DEF PartFails
    <2>4. Leave(r, "down")
      BY <1>5 DEF PartFails
    <2> QED
      BY <1>5, <2>1, <2>2, <2>3, <2>4, LeaveTypes
      DEF PartFails, TypeOK, object_vars, history_vars
  <1> QED
    BY <1>1, <1>2, <1>3, <1>4, <1>5

LEMMA BeginAssemblyTypes ==
  ASSUME TypeOK, NEW r \in Runs, BeginAssembly(r)
  PROVE  TypeOK'
  <1>1. next' \in [Runs -> 1..(Parts + 1)] /\ pos' \in [Runs -> Nat]
    BY SizeNat DEF BeginAssembly, TypeOK
  <1>2. temp' \in [Versions -> Content \cup {Absent}] /\ dest' \in Content \cup {Absent}
        /\ output' \in [Runs -> {"none", "temp", "dest", "lost"}]
    <2>1. CASE service = "tos"
      <3>1. /\ temp' = [temp EXCEPT ![etag[r]] = << >>]
            /\ output' = [output EXCEPT ![r] = "temp"]
            /\ dest' = dest
        BY <2>1 DEF BeginAssembly, Base
      <3> QED
        BY <3>1, EmptyFile DEF TypeOK
    <2>2. CASE service # "tos"
      BY <2>2, EmptyFile DEF BeginAssembly, TypeOK
    <2> QED
      BY <2>1, <2>2
  <1>3. pc' \in [Runs -> {"down", "ranges", "assemble", "verify", "place", "rename",
                          "clean", "discard", "ended"}]
    BY DEF BeginAssembly, TypeOK
  <1> QED
    BY <1>1, <1>2, <1>3 DEF BeginAssembly, TypeOK, object_vars, range_vars, history_vars

LEMMA CopyPartTypes ==
  ASSUME TypeOK, NEW r \in Runs, Handles(r), CopyPart(r)
  PROVE  TypeOK'
  <1> DEFINE data == part[etag[r]][next[r]]
  <1>1. etag[r] \in Versions /\ next[r] \in Ranges
    BY SizeNat DEF CopyPart, Handles, TypeOK, Ranges
  <1>2. data \in Content /\ Copied(r, data) /\ pos[r] \in Nat
    BY <1>1 DEF CopyPart, Part, Base, TypeOK
  <1>3. pos[r] + Len(data) \in Nat
    BY <1>2, WriteType, EmptyFile
  <1>4. temp' \in [Versions -> Content \cup {Absent}]
    <2>1. CASE output[r] = "temp"
      <3>1. temp[etag[r]] \in Content
        BY <1>1, <2>1 DEF Handles, TypeOK
      <3>2. WriteAt(temp[etag[r]], pos[r], data) \in Content
        BY <1>2, <3>1, WriteType
      <3> QED
        BY <1>1, <1>2, <2>1, <3>2 DEF Copied, Base, TypeOK
    <2>2. CASE output[r] # "temp"
      BY <1>2, <2>2 DEF Copied, TypeOK
    <2> QED
      BY <2>1, <2>2
  <1>5. dest' \in Content \cup {Absent}
    <2>1. CASE output[r] = "dest"
      <3>1. dest \in Content
        BY <2>1 DEF Handles, TypeOK
      <3> QED
        BY <1>2, <2>1, <3>1, WriteType DEF Copied
    <2>2. CASE output[r] # "dest"
      BY <1>2, <2>2 DEF Copied, TypeOK
    <2> QED
      BY <2>1, <2>2
  <1>6. pos' \in [Runs -> Nat]
    BY <1>2, <1>3 DEF Copied, TypeOK
  <1>7. next' \in [Runs -> 1..(Parts + 1)]
    <2>1. 1 \in 1..(Parts + 1) /\ next[r] + 1 \in 1..(Parts + 1)
      BY <1>1, SizeNat DEF Ranges
    <2>2. next' = [next EXCEPT ![r] = next[r] + 1] \/ next' = [next EXCEPT ![r] = 1]
      BY DEF CopyPart
    <2> QED
      BY <2>1, <2>2 DEF TypeOK
  <1>8. pc' \in [Runs -> {"down", "ranges", "assemble", "verify", "place", "rename",
                          "clean", "discard", "ended"}]
        /\ output' \in [Runs -> {"none", "temp", "dest", "lost"}]
    BY DEF CopyPart, TypeOK
  <1> QED
    BY <1>4, <1>5, <1>6, <1>7, <1>8
    DEF CopyPart, TypeOK, object_vars, range_vars, history_vars

\* The steps that go on to another stage, or leave.
LEMMA StageTypes ==
  ASSUME TypeOK, NEW r \in Runs,
         CopyFails(r) \/ VerifyTemp(r) \/ RenameFails(r) \/ Cleaned(r) \/ VerifyDest(r)
  PROVE  TypeOK'
  <1>1. CASE CopyFails(r)
    <2>1. Leave(r, "down") /\ output' \in [Runs -> {"none", "temp", "dest", "lost"}]
      BY <1>1 DEF CopyFails, TypeOK
    <2> QED
      BY <1>1, <2>1, LeaveTypes DEF CopyFails, TypeOK, object_vars, history_vars
  <1>2. CASE VerifyTemp(r)
    <2>1. CASE Leave(r, "down")
      BY <1>2, <2>1, LeaveTypes DEF VerifyTemp, TypeOK, object_vars, history_vars
    <2>2. CASE ~Leave(r, "down")
      BY <1>2, <2>2 DEF VerifyTemp, TypeOK, object_vars, range_vars, history_vars
    <2> QED
      BY <2>1, <2>2
  <1>3. CASE RenameFails(r)
    <2>1. Leave(r, "down")
      BY <1>3 DEF RenameFails
    <2> QED
      BY <1>3, <2>1, LeaveTypes DEF RenameFails, TypeOK, object_vars, history_vars
  <1>4. CASE Cleaned(r)
    <2>1. CASE Leave(r, "ended")
      BY <1>4, <2>1, LeaveTypes DEF Cleaned, TypeOK, object_vars, history_vars
    <2>2. CASE ~Leave(r, "ended")
      BY <1>4, <2>2 DEF Cleaned, TypeOK, object_vars, range_vars, history_vars
    <2> QED
      BY <2>1, <2>2
  <1>5. CASE VerifyDest(r)
    <2>1. \E report \in {"down", "ended"} : Leave(r, report)
      BY <1>5 DEF VerifyDest
    <2>2. dest' \in Content \cup {Absent} /\ output' \in [Runs -> {"none", "temp", "dest", "lost"}]
      BY <1>5, SeveredTypes DEF VerifyDest, TypeOK
    <2> QED
      BY <1>5, <2>1, <2>2, LeaveTypes DEF VerifyDest, TypeOK, object_vars, history_vars
  <1> QED
    BY <1>1, <1>2, <1>3, <1>4, <1>5

\* The steps that move or remove a file.
LEMMA PlaceTypes ==
  ASSUME TypeOK, NEW r \in Runs,
         Displace(r) \/ Rename(r) \/ CleanPart(r) \/ Discard(r)
  PROVE  TypeOK'
  <1>1. CASE Displace(r)
    BY <1>1, SeveredTypes DEF Displace, TypeOK, object_vars, range_vars, history_vars
  <1>2. CASE Rename(r)
    <2>1. \A q \in Runs : Severed("dest", Runs)[q] \in {"none", "temp", "dest", "lost"}
      BY SeveredTypes
    <2>2. output' \in [Runs -> {"none", "temp", "dest", "lost"}]
      BY <1>2, <2>1 DEF Rename
    <2>3. dest' \in Content \cup {Absent} /\ temp' \in [Versions -> Content \cup {Absent}]
      BY <1>2 DEF Rename, Temp, Base, TypeOK
    <2>4. pc' \in [Runs -> {"down", "ranges", "assemble", "verify", "place", "rename",
                            "clean", "discard", "ended"}]
      BY <1>2 DEF Rename, TypeOK
    <2> QED
      BY <1>2, <2>2, <2>3, <2>4 DEF Rename, TypeOK, object_vars, range_vars, history_vars
  <1>3. CASE CleanPart(r)
    <2>1. next[r] \in Ranges /\ next[r] + 1 \in 1..(Parts + 1)
      BY <1>3, SizeNat DEF CleanPart, TypeOK, Ranges
    <2>2. part' \in [Versions -> [Ranges -> Content \cup {Absent}]]
      BY <1>3, <2>1, RemoveTypes DEF CleanPart
    <2>3. astray' \in [Runs -> SUBSET Ranges]
      BY <1>3, <2>1, UnlinkedTypes DEF CleanPart
    <2>4. next' \in [Runs -> 1..(Parts + 1)]
      BY <1>3, <2>1 DEF CleanPart, TypeOK
    <2> QED
      BY <1>3, <2>2, <2>3, <2>4 DEF CleanPart, TypeOK, object_vars, range_vars, history_vars
  <1>4. CASE Discard(r)
    <2>1. Leave(r, "down") /\ temp' \in [Versions -> Content \cup {Absent}]
      BY <1>4 DEF Discard, TypeOK, Base
    <2>2. output' \in [Runs -> {"none", "temp", "dest", "lost"}]
      BY <1>4, SeveredTypes DEF Discard
    <2> QED
      BY <1>4, <2>1, <2>2, LeaveTypes DEF Discard, TypeOK, object_vars, history_vars
  <1> QED
    BY <1>1, <1>2, <1>3, <1>4

\* What a power loss leaves of a file.
LEMMA RemnantFile ==
  ASSUME NEW file \in File, NEW left \in Remnants(file)
  PROVE  left \in File /\ \A v : left # Absent => file # Absent /\ (Of(v, file) => Of(v, left))
  <1>1. left \in {file, Blank(file), Absent}
    BY DEF Remnants
  <1> QED
    BY <1>1, BlankFile DEF File

LEMMA PowerLossFiles ==
  ASSUME TypeOK, PowerLoss
  PROVE  /\ part' \in [Versions -> [Ranges -> File]]
         /\ \A v \in Versions, n \in Ranges : part'[v][n] \in Remnants(part[v][n])
         /\ temp' = [v \in Versions |-> Absent]
         /\ dest' \in File
         /\ dest' \in Remnants(dest)
  <1>1. /\ part' \in [Versions -> [Ranges -> UNION {Remnants(part[v][n]) :
                                                   v \in Versions, n \in Ranges}]]
        /\ \A v \in Versions, n \in Ranges : part'[v][n] \in Remnants(part[v][n])
        /\ temp' = [v \in Versions |-> Absent]
        /\ dest' \in Remnants(dest)
    BY DEF PowerLoss
  <1>2. ASSUME NEW v \in Versions, NEW n \in Ranges
        PROVE  part'[v][n] \in File
    <2> DEFINE file == part[v][n]
    <2> DEFINE left == part'[v][n]
    <2>1. file \in File /\ left \in Remnants(file)
      BY <1>1 DEF TypeOK, File
    <2> HIDE DEF file, left
    <2>2. left \in File
      BY <2>1, RemnantFile
    <2> QED
      BY <2>2 DEF left
  <1>3. part' \in [Versions -> [Ranges -> File]]
    <2>1. \A v \in Versions : part'[v] = [n \in Ranges |-> part'[v][n]]
      BY <1>1
    <2>2. \A v \in Versions : part'[v] \in [Ranges -> File]
      BY <1>2, <2>1
    <2> QED
      BY <1>1, <2>2
  <1>4. dest' \in File
    BY <1>1, RemnantFile DEF TypeOK, File
  <1> QED
    BY <1>1, <1>3, <1>4

LEMMA OutsideTypes ==
  ASSUME TypeOK, (\E r \in Runs : Kill(r)) \/ PowerLoss \/ Overwrite
  PROVE  TypeOK'
  <1>1. ASSUME NEW r \in Runs, Kill(r) PROVE TypeOK'
    <2>1. Leave(r, "down") /\ astray' \in [Runs -> SUBSET Ranges]
          /\ output' \in [Runs -> {"none", "temp", "dest", "lost"}]
      BY <1>1 DEF Kill, TypeOK
    <2>2. faults' \in 0..MaxFaults
      BY <1>1, FaultTypes DEF Kill
    <2> QED
      BY <1>1, <2>1, <2>2, LeaveTypes DEF Kill, TypeOK, object_vars, history_vars
  <1>2. CASE PowerLoss
    <2>1. /\ part' \in [Versions -> [Ranges -> Content \cup {Absent}]]
          /\ temp' \in [Versions -> Content \cup {Absent}]
          /\ dest' \in Content \cup {Absent}
      BY <1>2, PowerLossFiles DEF File
    <2>2. /\ offset' \in [Runs -> [Ranges -> 0..Blocks]]
          /\ next' \in [Runs -> 1..(Parts + 1)]
          /\ pos' \in [Runs -> Nat]
          /\ etag' \in [Runs -> Versions]
      BY <1>2, SizeNat, VersionValues DEF PowerLoss
    <2>3. faults' \in 0..MaxFaults
      BY <1>2, FaultTypes DEF PowerLoss
    <2>4. /\ pc' \in [Runs -> {"down", "ranges", "assemble", "verify", "place", "rename",
                               "clean", "discard", "ended"}]
          /\ task' \in [Runs -> [Ranges -> {"todo", "asked", "open", "done"}]]
          /\ astray' \in [Runs -> SUBSET Ranges]
          /\ output' \in [Runs -> {"none", "temp", "dest", "lost"}]
      BY <1>2 DEF PowerLoss
    <2> QED
      BY <1>2, <2>1, <2>2, <2>3, <2>4 DEF PowerLoss, TypeOK, object_vars
  <1>3. CASE Overwrite
    <2>1. version' \in Versions
      BY <1>3, VersionValues DEF Overwrite, TypeOK
    <2> QED
      BY <1>3, <2>1 DEF Overwrite, TypeOK, range_vars, assembly_vars, history_vars
  <1> QED
    BY <1>1, <1>2, <1>3

LEMMA StepTypes == TypeOK /\ AllHandles /\ [Next]_vars => TypeOK'
  <1> SUFFICES ASSUME TypeOK, AllHandles, [Next]_vars PROVE TypeOK'
    OBVIOUS
  <1>1. ASSUME NEW r \in Runs, Launch(r) \/ Kill(r) PROVE TypeOK'
    BY <1>1, LaunchTypes, OutsideTypes
  <1>2. ASSUME NEW r \in Runs, NEW n \in Ranges,
               Check(r, n) \/ Create(r, n) \/ Receive(r, n) \/ Retry(r, n) \/ PartFails(r, n)
        PROVE  TypeOK'
    BY <1>2, RangeTypes DEF AllHandles
  <1>3. ASSUME NEW r \in Runs,
               \/ BeginAssembly(r) \/ CopyPart(r) \/ CopyFails(r) \/ VerifyTemp(r)
               \/ Displace(r) \/ Rename(r) \/ RenameFails(r) \/ CleanPart(r)
               \/ Cleaned(r) \/ Discard(r) \/ VerifyDest(r)
        PROVE  TypeOK'
    BY <1>3, BeginAssemblyTypes, CopyPartTypes, StageTypes, PlaceTypes DEF AllHandles
  <1>4. CASE PowerLoss \/ Overwrite
    BY <1>4, OutsideTypes
  <1>5. CASE UNCHANGED vars
    BY <1>5 DEF vars, TypeOK
  <1> QED
    BY <1>1, <1>2, <1>3, <1>4, <1>5 DEF Next, Step

-----------------------------------------------------------------------------
(* Handles. *)

\* A run that has left has no handles.
LEMMA LeaveHandles ==
  ASSUME TypeOK, NEW r \in Runs, NEW report \in {"down", "ended"}, Leave(r, report),
         output'[r] = "none"
  PROVE  Handles(r)'
  <1>1. pc'[r] = report /\ \A n \in Ranges : task'[r][n] = "todo"
    BY DEF Leave, TypeOK
  <1> QED
    BY <1>1 DEF Handles

LEMMA LaunchHandles ==
  ASSUME TypeOK, AllHandles, NEW r \in Runs, Launch(r)
  PROVE  AllHandles'
  <1>1. ASSUME NEW q \in Runs PROVE Handles(q)'
    <2>1. Handles(q) /\ UNCHANGED <<part, temp, dest, task, offset, astray, output, next>>
      BY DEF AllHandles, Launch, assembly_vars
    <2>2. CASE q \in Live /\ q # r
      <3>1. pc'[q] = pc[q] /\ etag'[q] = etag[q]
        BY <2>2 DEF Launch
      <3> QED
        BY <2>1, <3>1 DEF Handles
    <2>3. CASE q \notin Live \/ q = r
      <3>1. pc[q] \in {"down", "ended"} /\ pc'[q] \in {"down", "ranges"}
        BY <2>3 DEF Launch, Live
      <3> QED
        BY <2>1, <3>1 DEF Handles
    <2> QED
      BY <2>2, <2>3
  <1> QED
    BY <1>1 DEF AllHandles

LEMMA RangeHandles ==
  ASSUME TypeOK, AllHandles, NEW r \in Runs, NEW n \in Ranges,
         Check(r, n) \/ Create(r, n) \/ Receive(r, n) \/ Retry(r, n)
  PROVE  AllHandles'
  <1>1. UNCHANGED <<pc, etag, output, next, temp, dest>>
    BY DEF Check, Create, Receive, Retry, object_vars, assembly_vars, history_vars
  <1>2. ASSUME NEW q \in Runs PROVE Handles(q)'
    <2>1. Handles(q)
      BY DEF AllHandles
    <2>2. \A v \in Versions, m \in Ranges : part[v][m] # Absent => part'[v][m] # Absent
      <3>1. CASE Check(r, n) \/ Retry(r, n)
        BY <3>1 DEF Check, Retry
      <3>2. CASE Create(r, n)
        BY <3>2, EmptyFile, AbsentAssumption DEF Create, Base, TypeOK
      <3>3. CASE Receive(r, n)
        <4>1. CASE n \in astray[r]
          BY <3>3, <4>1 DEF Receive
        <4>2. CASE n \notin astray[r]
          <5>1. Handles(r) /\ task[r][n] = "open" /\ offset[r][n] \in Nat
            BY <3>3 DEF AllHandles, Receive, TypeOK
          <5>2. offset[r][n] < Blocks /\ part[etag[r]][n] # Absent
            BY <4>2, <5>1 DEF Handles
          <5>3. part[etag[r]][n] \in Content
            BY <5>2 DEF TypeOK
          <5>4. WriteAt(part[etag[r]][n], offset[r][n], <<BlockOf(r, n)>>) # Absent
            BY <5>1, <5>2, <5>3, BlockTypes, WriteType
          <5> QED
            BY <3>3, <4>2, <5>4 DEF Receive, Base, TypeOK
        <4> QED
          BY <4>1, <4>2
      <3> QED
        BY <3>1, <3>2, <3>3
    <2>3. CASE q # r
      <3>1. UNCHANGED <<task[q], offset[q], astray[q]>>
        BY <2>3 DEF Check, Create, Receive, Retry, TypeOK, range_vars
      <3>2. etag[q] \in Versions
        BY DEF TypeOK
      <3> QED
        BY <1>1, <2>1, <2>2, <3>1, <3>2 DEF Handles
    <2>4. CASE q = r
      <3>1. \A m \in Ranges \ {n} :
               task'[r][m] = task[r][m] /\ offset'[r][m] = offset[r][m]
               /\ (m \in astray[r] => m \in astray'[r])
        BY DEF Check, Create, Receive, Retry, TypeOK
      <3>2. pc[r] = "ranges" /\ etag[r] \in Versions
        BY DEF Check, Create, Receive, Retry, TypeOK
      <3>3. task'[r][n] = "open" => offset'[r][n] < Blocks
        <4>1. CASE Check(r, n) \/ Retry(r, n)
          BY <4>1 DEF Check, Retry, TypeOK
        <4>2. CASE Create(r, n)
          BY <4>2, SizeNat DEF Create, TypeOK
        <4>3. CASE Receive(r, n)
          <5>1. task[r][n] = "open" /\ offset[r][n] < Blocks /\ offset[r][n] \in Nat
            BY <2>1, <2>4, <4>3, SizeNat DEF Receive, Handles, TypeOK
          <5>2. offset'[r][n] = offset[r][n] + 1
            BY <4>3 DEF Receive, TypeOK
          <5>3. task'[r][n] = IF offset'[r][n] = Blocks THEN "done" ELSE "open"
            BY <4>3 DEF Receive, TypeOK
          <5> QED
            BY <5>1, <5>2, <5>3, SizeNat
        <4> QED
          BY <4>1, <4>2, <4>3
      <3>4. task'[r][n] = "open" /\ n \notin astray'[r] => part'[etag[r]][n] # Absent
        <4>1. CASE Check(r, n) \/ Retry(r, n)
          BY <4>1 DEF Check, Retry, TypeOK
        <4>2. CASE Create(r, n)
          BY <3>2, <4>2, EmptyFile, AbsentAssumption DEF Create, Base, TypeOK
        <4>3. CASE Receive(r, n)
          <5>1. task'[r][n] = "open" => (n \in astray[r] => n \in astray'[r])
            BY <4>3 DEF Receive, TypeOK
          <5> QED
            BY <2>1, <2>2, <2>4, <3>2, <4>3, <5>1 DEF Receive, Handles
        <4> QED
          BY <4>1, <4>2, <4>3
      <3> QED
        BY <1>1, <2>1, <2>2, <2>4, <3>1, <3>2, <3>3, <3>4 DEF Handles
    <2> QED
      BY <2>3, <2>4
  <1> QED
    BY <1>2 DEF AllHandles

\* A part file is removed: its handles are astray.
LEMMA RemovedPart ==
  ASSUME TypeOK, NEW r \in Runs, NEW names \in SUBSET Ranges, Remove(r, names),
         NEW q \in Runs, NEW n \in Ranges, task[q][n] = "open",
         n \notin Unlinked(r, names)[q], part[etag[q]][n] # Absent
  PROVE  part'[etag[q]][n] # Absent
  <1>1. etag[q] \in Versions /\ etag[r] \in Versions
    BY DEF TypeOK
  <1>2. CASE etag[q] # etag[r]
    BY <1>1, <1>2 DEF Remove, Base, TypeOK
  <1>3. CASE etag[q] = etag[r]
    <2>1. q \in Sharing(r)
      BY <1>3 DEF Sharing, Base
    <2>2. n \notin names
      BY <2>1 DEF Unlinked
    <2> QED
      BY <1>1, <1>3, <2>2 DEF Remove, Base, TypeOK
  <1> QED
    BY <1>2, <1>3

LEMMA RemovalHandles ==
  ASSUME TypeOK, AllHandles, NEW r \in Runs,
         CleanPart(r) \/ \E n \in Ranges : PartFails(r, n)
  PROVE  AllHandles'
  <1>1. ASSUME NEW names \in SUBSET Ranges, NEW q \in Runs, Remove(r, names),
               astray'[q] = Unlinked(r, names)[q],
               UNCHANGED <<pc[q], etag[q], task[q], offset[q], output, temp, dest>>,
               pc[q] = "assemble" => next'[q] = next[q]
        PROVE  Handles(q)'
    <2>1. Handles(q)
      BY DEF AllHandles
    <2>2. astray[q] \subseteq astray'[q]
      BY <1>1 DEF Unlinked
    <2>3. \A n \in Ranges : task[q][n] = "open" /\ n \notin astray'[q]
                            /\ part[etag[q]][n] # Absent => part'[etag[q]][n] # Absent
      BY <1>1, RemovedPart
    <2> QED
      BY <1>1, <2>1, <2>2, <2>3 DEF Handles
  <1>2. CASE CleanPart(r)
    <2>1. next[r] \in Ranges /\ {next[r]} \in SUBSET Ranges
      BY <1>2, SizeNat DEF CleanPart, TypeOK, Ranges
    <2>2. ASSUME NEW q \in Runs PROVE Handles(q)'
      <3>1. /\ Remove(r, {next[r]}) /\ astray'[q] = Unlinked(r, {next[r]})[q]
            /\ UNCHANGED <<pc[q], etag[q], task[q], offset[q], output, temp, dest>>
        BY <1>2 DEF CleanPart, range_vars
      <3>2. pc[q] = "assemble" => next'[q] = next[q]
        BY <1>2 DEF CleanPart, TypeOK
      <3> QED
        BY <1>1, <2>1, <3>1, <3>2
    <2> QED
      BY <2>2 DEF AllHandles
  <1>3. ASSUME NEW n \in Ranges, PartFails(r, n) PROVE AllHandles'
    <2>1. Leave(r, "down") /\ pc[r] = "ranges" /\ UNCHANGED <<output, temp, dest>>
      BY <1>3 DEF PartFails
    <2>2. output[r] = "none"
      BY <2>1 DEF AllHandles, Handles, TypeOK
    <2>3. Handles(r)'
      BY <2>1, <2>2, LeaveHandles
    <2>4. ASSUME NEW q \in Runs \ {r} PROVE Handles(q)'
      <3>1. UNCHANGED <<pc[q], etag[q], task[q], offset[q], next[q]>>
        BY <2>1 DEF Leave, TypeOK
      <3>2. Remove(r, {n}) /\ astray'[q] = Unlinked(r, {n})[q] /\ {n} \in SUBSET Ranges
        BY <1>3, UnlinkedTypes DEF PartFails
      <3> QED
        BY <1>1, <2>1, <3>1, <3>2
    <2> QED
      BY <2>3, <2>4 DEF AllHandles
  <1> QED
    BY <1>2, <1>3

\* A step of one run that leaves the part files alone.
LEMMA AssemblyHandles ==
  ASSUME TypeOK, AllHandles, NEW r \in Runs, part' = part, astray' = astray,
         \A q \in Runs \ {r} : UNCHANGED <<pc[q], etag[q], task[q], offset[q], next[q]>>,
         \A q \in Runs \ {r} :
            /\ output'[q] # "none" => output[q] # "none"
            /\ output'[q] = "temp" => output[q] = "temp" /\ temp'[etag[q]] # Absent
            /\ output'[q] = "dest" => dest' # Absent,
         Handles(r)'
  PROVE  AllHandles'
  <1>1. ASSUME NEW q \in Runs \ {r} PROVE Handles(q)'
    <2>1. Handles(q)
      BY DEF AllHandles
    <2> QED
      BY <2>1 DEF Handles
  <1> QED
    BY <1>1 DEF AllHandles

LEMMA BeginAssemblyHandles ==
  ASSUME TypeOK, AllHandles, NEW r \in Runs, BeginAssembly(r)
  PROVE  AllHandles'
  <1>1. part' = part /\ astray' = astray /\ pc[r] = "ranges"
        /\ UNCHANGED <<etag, task, offset>>
        /\ \A n \in Ranges : task[r][n] = "done"
    BY DEF BeginAssembly, range_vars
  <1>2. \A q \in Runs \ {r} : UNCHANGED <<pc[q], next[q], output[q]>>
    BY DEF BeginAssembly, TypeOK
  <1>3. << >> # Absent /\ etag[r] \in Versions
    BY EmptyFile, AbsentAssumption DEF TypeOK
  <1>4. \A q \in Runs : temp[etag[q]] # Absent => temp'[etag[q]] # Absent
    BY <1>3 DEF BeginAssembly, Base, TypeOK
  <1>5. dest # Absent => dest' # Absent
    BY <1>3 DEF BeginAssembly
  <1>6. \A q \in Runs \ {r} :
            /\ output'[q] = "temp" => output[q] = "temp" /\ temp'[etag[q]] # Absent
            /\ output'[q] = "dest" => dest' # Absent
    BY <1>2, <1>4, <1>5 DEF AllHandles, Handles
  <1>7. Handles(r)'
    <2>1. pc'[r] = "assemble" /\ next'[r] = 1
      BY DEF BeginAssembly, TypeOK
    <2>2. CASE service = "tos"
      <3>1. output'[r] = "temp" /\ temp'[etag'[r]] # Absent
        BY <1>1, <1>3, <2>2 DEF BeginAssembly, Base, TypeOK
      <3> QED
        BY <1>1, <2>1, <3>1, SizeNat DEF Handles
    <2>3. CASE service # "tos"
      <3>1. output'[r] = "dest" /\ dest' # Absent
        BY <1>3, <2>3 DEF BeginAssembly, TypeOK
      <3> QED
        BY <1>1, <2>1, <3>1, SizeNat DEF Handles
    <2> QED
      BY <2>2, <2>3
  <1> QED
    BY <1>1, <1>2, <1>6, <1>7, AssemblyHandles

LEMMA CopyPartHandles ==
  ASSUME TypeOK, AllHandles, NEW r \in Runs, CopyPart(r)
  PROVE  AllHandles'
  <1> DEFINE data == part[etag[r]][next[r]]
  <1>1. part' = part /\ astray' = astray /\ pc[r] = "assemble"
        /\ UNCHANGED <<etag, task, offset>>
    BY DEF CopyPart, range_vars
  <1>2. Handles(r) /\ etag[r] \in Versions
    BY DEF AllHandles, TypeOK
  <1>3. next[r] \in Ranges
    BY <1>1, <1>2, SizeNat DEF Handles, TypeOK, Ranges
  <1>4. data \in Content /\ Copied(r, data) /\ pos[r] \in Nat
    BY <1>2, <1>3 DEF CopyPart, Part, Base, TypeOK
  <1>5. \A q \in Runs : temp[etag[q]] # Absent => temp'[etag[q]] # Absent
    <2>1. CASE output[r] = "temp"
      <3>1. WriteAt(temp[etag[r]], pos[r], data) # Absent
        BY <1>2, <1>4, <2>1, WriteType DEF Handles, TypeOK
      <3> QED
        BY <1>2, <1>4, <2>1, <3>1 DEF Copied, Base, TypeOK
    <2>2. CASE output[r] # "temp"
      BY <1>4, <2>2 DEF Copied
    <2> QED
      BY <2>1, <2>2
  <1>6. dest # Absent => dest' # Absent
    BY <1>4, WriteType DEF Copied, TypeOK
  <1>7. \A q \in Runs \ {r} : UNCHANGED <<pc[q], next[q], output[q]>>
    BY DEF CopyPart, TypeOK
  <1>8. \A q \in Runs \ {r} :
            /\ output'[q] = "temp" => output[q] = "temp" /\ temp'[etag[q]] # Absent
            /\ output'[q] = "dest" => dest' # Absent
    BY <1>5, <1>6, <1>7 DEF AllHandles, Handles
  <1>9. Handles(r)'
    <2>1. CASE next[r] < Parts
      <3>1. pc'[r] = "assemble" /\ output'[r] = output[r] /\ next'[r] <= Parts
        BY <1>1, <1>3, <2>1, SizeNat DEF CopyPart, TypeOK, Ranges
      <3> QED
        BY <1>1, <1>2, <1>5, <1>6, <3>1 DEF Handles
    <2>2. CASE ~(next[r] < Parts)
      <3>1. pc'[r] \in {"verify", "clean"} /\ output'[r] = "none"
        BY <2>2 DEF CopyPart, TypeOK
      <3> QED
        BY <1>1, <1>2, <3>1 DEF Handles
    <2> QED
      BY <2>1, <2>2
  <1> QED
    BY <1>1, <1>7, <1>8, <1>9, AssemblyHandles

\* A run that does not assemble has no handle but those on its parts.
LEMMA PlaceHandles ==
  ASSUME TypeOK, AllHandles, NEW r \in Runs,
         \/ CopyFails(r) \/ VerifyTemp(r) \/ Displace(r) \/ Rename(r)
         \/ RenameFails(r) \/ Cleaned(r) \/ Discard(r) \/ VerifyDest(r)
  PROVE  AllHandles'
  <1>1. part' = part /\ astray' = astray
    BY DEF CopyFails, VerifyTemp, Displace, Rename, RenameFails, Cleaned, Discard, VerifyDest
  <1>2. \A q \in Runs \ {r} : UNCHANGED <<pc[q], etag[q], task[q], offset[q], next[q]>>
    BY DEF CopyFails, VerifyTemp, Displace, Rename, RenameFails, Cleaned, Discard,
           VerifyDest, Leave, range_vars, TypeOK
  <1>3. pc[r] # "ranges" /\ pc'[r] \notin {"ranges", "assemble"}
    BY DEF CopyFails, VerifyTemp, Displace, Rename, RenameFails, Cleaned, Discard,
           VerifyDest, Leave, TypeOK
  <1>4. pc[r] # "assemble" => output[r] = "none"
    BY DEF AllHandles, Handles, TypeOK
  <1>5. output'[r] = "none"
    <2>1. CASE CopyFails(r)
      BY <2>1 DEF CopyFails, TypeOK
    <2>2. CASE VerifyTemp(r) \/ RenameFails(r) \/ Cleaned(r)
      BY <1>4, <2>2 DEF VerifyTemp, RenameFails, Cleaned
    <2>3. CASE Displace(r) \/ Discard(r) \/ VerifyDest(r)
      BY <1>4, <2>3 DEF Displace, Discard, VerifyDest, Severed
    <2>4. CASE Rename(r)
      BY <1>4, <2>4 DEF Rename, Severed
    <2> QED
      BY <2>1, <2>2, <2>3, <2>4
  <1>6. Handles(r)'
    <2>1. \A n \in Ranges : task'[r][n] # "open"
      <3>1. \A n \in Ranges : task[r][n] # "open"
        BY <1>3 DEF AllHandles, Handles
      <3> QED
        BY <3>1 DEF CopyFails, VerifyTemp, Displace, Rename, RenameFails, Cleaned, Discard,
                    VerifyDest, Leave, range_vars, TypeOK
    <2> QED
      BY <1>3, <1>5, <2>1 DEF Handles
  <1>7. \A q \in Runs \ {r} : Handles(q) /\ etag[q] \in Versions /\ etag[r] \in Versions
    BY DEF AllHandles, TypeOK
  <1>8. ASSUME NEW q \in Runs \ {r}
        PROVE  /\ output'[q] # "none" => output[q] # "none"
               /\ output'[q] = "temp" => output[q] = "temp" /\ temp'[etag[q]] # Absent
               /\ output'[q] = "dest" => dest' # Absent
    <2>1. CASE CopyFails(r)
      BY <1>7, <2>1 DEF CopyFails, Handles, TypeOK
    <2>2. CASE VerifyTemp(r) \/ RenameFails(r) \/ Cleaned(r)
      BY <1>7, <2>2 DEF VerifyTemp, RenameFails, Cleaned, Handles
    <2>3. CASE Displace(r)
      BY <1>7, <2>3 DEF Displace, Severed, Handles
    <2>4. CASE VerifyDest(r)
      BY <1>7, <2>4 DEF VerifyDest, Severed, Handles
    <2>5. CASE Discard(r)
      BY <1>7, <2>5 DEF Discard, Severed, Sharing, Base, Handles, TypeOK
    <2>6. CASE Rename(r)
      <3>1. /\ Temp(r) # Absent /\ dest' = Temp(r)
            /\ temp' = [temp EXCEPT ![etag[r]] = Absent]
        BY <2>6 DEF Rename, Base
      <3>2. output'[q] = IF output[q] = "temp" /\ etag[q] = etag[r] THEN "dest"
                         ELSE IF output[q] = "dest" THEN "lost" ELSE output[q]
        BY <2>6 DEF Rename, Severed, Sharing, Base
      <3> QED
        BY <1>7, <3>1, <3>2 DEF Handles, TypeOK
    <2> QED
      BY <2>1, <2>2, <2>3, <2>4, <2>5, <2>6
  <1> QED
    BY <1>1, <1>2, <1>6, <1>8, AssemblyHandles

LEMMA OutsideHandles ==
  ASSUME TypeOK, AllHandles, (\E r \in Runs : Kill(r)) \/ PowerLoss \/ Overwrite
  PROVE  AllHandles'
  <1>1. ASSUME NEW r \in Runs, Kill(r) PROVE AllHandles'
    <2>1. Leave(r, "down") /\ output'[r] = "none" /\ UNCHANGED <<part, temp, dest>>
      BY <1>1 DEF Kill, TypeOK
    <2>2. Handles(r)'
      BY <2>1, LeaveHandles
    <2>3. ASSUME NEW q \in Runs \ {r} PROVE Handles(q)'
      <3>1. UNCHANGED <<pc[q], etag[q], task[q], offset[q], next[q], astray[q], output[q]>>
        BY <1>1, <2>1 DEF Kill, Leave, TypeOK
      <3>2. Handles(q)
        BY DEF AllHandles
      <3> QED
        BY <2>1, <3>1, <3>2 DEF Handles
    <2> QED
      BY <2>2, <2>3 DEF AllHandles
  <1>2. CASE PowerLoss
    BY <1>2 DEF PowerLoss, AllHandles, Handles
  <1>3. CASE Overwrite
    BY <1>3 DEF Overwrite, AllHandles, Handles, range_vars, assembly_vars
  <1> QED
    BY <1>1, <1>2, <1>3

LEMMA StepHandles == TypeOK /\ AllHandles /\ [Next]_vars => AllHandles'
  <1> SUFFICES ASSUME TypeOK, AllHandles, [Next]_vars PROVE AllHandles'
    OBVIOUS
  <1>1. ASSUME NEW r \in Runs, Launch(r) \/ Kill(r) PROVE AllHandles'
    BY <1>1, LaunchHandles, OutsideHandles
  <1>2. ASSUME NEW r \in Runs, NEW n \in Ranges,
               Check(r, n) \/ Create(r, n) \/ Receive(r, n) \/ Retry(r, n) \/ PartFails(r, n)
        PROVE  AllHandles'
    BY <1>2, RangeHandles, RemovalHandles
  <1>3. ASSUME NEW r \in Runs,
               \/ BeginAssembly(r) \/ CopyPart(r) \/ CopyFails(r) \/ VerifyTemp(r)
               \/ Displace(r) \/ Rename(r) \/ RenameFails(r) \/ CleanPart(r)
               \/ Cleaned(r) \/ Discard(r) \/ VerifyDest(r)
        PROVE  AllHandles'
    BY <1>3, BeginAssemblyHandles, CopyPartHandles, PlaceHandles, RemovalHandles
  <1>4. CASE PowerLoss \/ Overwrite
    BY <1>4, OutsideHandles
  <1>5. CASE UNCHANGED vars
    BY <1>5 DEF vars, AllHandles, Handles
  <1> QED
    BY <1>1, <1>2, <1>3, <1>4, <1>5 DEF Next, Step

-----------------------------------------------------------------------------
(* Versions do not mix. *)

LEMMA RangePure ==
  ASSUME IInv, NEW r \in Runs, NEW n \in Ranges,
         Check(r, n) \/ Create(r, n) \/ Receive(r, n) \/ Retry(r, n) \/ PartFails(r, n)
  PROVE  PartsPure'
  <1>0. TypeOK /\ PartsPure /\ Handles(r) /\ etag[r] \in Versions
    BY DEF IInv, AllHandles, TypeOK
  <1>1. CASE Check(r, n) \/ Retry(r, n)
    BY <1>0, <1>1 DEF Check, Retry, PartsPure
  <1>2. CASE Create(r, n)
    BY <1>0, <1>2, EmptyFile DEF Create, Base, PartsPure, TypeOK
  <1>3. CASE PartFails(r, n)
    BY <1>0, <1>3 DEF PartFails, Remove, Base, PartsPure, TypeOK
  <1>4. CASE Receive(r, n)
    <2>1. CASE n \in astray[r]
      BY <1>0, <1>4, <2>1 DEF Receive, PartsPure
    <2>2. CASE n \notin astray[r]
      <3>1. /\ offset[r][n] < Blocks /\ offset[r][n] \in Nat
            /\ part[etag[r]][n] \in Content /\ part[etag[r]][n] # Absent
        BY <1>0, <1>4, <2>2 DEF Receive, Handles, TypeOK
      <3>2. Of(etag[r], WriteAt(part[etag[r]][n], offset[r][n], <<BlockOf(r, n)>>))
        BY <1>0, <3>1, BlockTypes, WriteOf DEF PartsPure
      <3>3. part' = [part EXCEPT ![etag[r]] =
                       [part[etag[r]] EXCEPT ![n] =
                           WriteAt(part[etag[r]][n], offset[r][n], <<BlockOf(r, n)>>)]]
        BY <1>4, <2>2 DEF Receive, Base
      <3> QED
        BY <1>0, <3>2, <3>3 DEF PartsPure, TypeOK
    <2> QED
      BY <2>1, <2>2
  <1> QED
    BY <1>1, <1>2, <1>3, <1>4

\* Nothing else writes a part file; a power loss leaves holes.
LEMMA PartsStayPure ==
  ASSUME IInv, [Next]_vars
  PROVE  PartsPure'
  <1>0. TypeOK /\ PartsPure
    BY DEF IInv
  <1>1. ASSUME NEW r \in Runs, NEW n \in Ranges,
               Check(r, n) \/ Create(r, n) \/ Receive(r, n) \/ Retry(r, n) \/ PartFails(r, n)
        PROVE  PartsPure'
    BY <1>1, RangePure
  <1>2. ASSUME NEW r \in Runs,
               \/ Launch(r) \/ Kill(r)
               \/ BeginAssembly(r) \/ CopyPart(r) \/ CopyFails(r) \/ VerifyTemp(r)
               \/ Displace(r) \/ Rename(r) \/ RenameFails(r)
               \/ Cleaned(r) \/ Discard(r) \/ VerifyDest(r)
        PROVE  PartsPure'
    <2>1. part' = part
      BY <1>2 DEF Launch, Kill, BeginAssembly, CopyPart, CopyFails, VerifyTemp, Displace,
                  Rename, RenameFails, Cleaned, Discard, VerifyDest
    <2> QED
      BY <1>0, <2>1 DEF PartsPure
  <1>3. ASSUME NEW r \in Runs, CleanPart(r) PROVE PartsPure'
    BY <1>0, <1>3 DEF CleanPart, Remove, Base, PartsPure, TypeOK
  <1>4. CASE PowerLoss
    <2>1. \A v \in Versions, n \in Ranges : part'[v][n] \in Remnants(part[v][n])
      BY <1>0, <1>4, PowerLossFiles
    <2>2. ASSUME NEW w \in Versions, NEW n \in Ranges, part'[w][n] # Absent
          PROVE  Of(w, part'[w][n])
      <3>1. part[w][n] \in File
        BY <1>0 DEF TypeOK, File
      <3> QED
        BY <1>0, <2>1, <2>2, <3>1, RemnantFile DEF PartsPure
    <2> QED
      BY <2>2 DEF PartsPure
  <1>5. CASE Overwrite \/ UNCHANGED vars
    BY <1>0, <1>5 DEF Overwrite, vars, PartsPure
  <1> QED
    BY <1>1, <1>2, <1>3, <1>4, <1>5 DEF Next, Step

\* What the assembly copies.
LEMMA CopiedData ==
  ASSUME IInv, NEW r \in Runs, CopyPart(r)
  PROVE  LET data == part[etag[r]][next[r]]
         IN  /\ data \in Content /\ Of(etag[r], data) /\ Copied(r, data)
             /\ pos[r] \in Nat /\ etag[r] \in Versions
  <1>1. TypeOK /\ Handles(r) /\ PartsPure /\ etag[r] \in Versions
    BY DEF IInv, AllHandles, TypeOK
  <1>2. next[r] \in Ranges
    BY <1>1, SizeNat DEF CopyPart, Handles, TypeOK, Ranges
  <1>3. part[etag[r]][next[r]] # Absent
    BY DEF CopyPart, Part, Base
  <1> QED
    BY <1>1, <1>2, <1>3 DEF CopyPart, Part, Base, PartsPure, TypeOK

LEMMA TempsStayPure ==
  ASSUME IInv, [Next]_vars
  PROVE  TempsPure'
  <1>0. TypeOK /\ TempsPure
    BY DEF IInv
  <1>1. ASSUME NEW r \in Runs, BeginAssembly(r) PROVE TempsPure'
    BY <1>0, <1>1, EmptyFile DEF BeginAssembly, Base, TempsPure, TypeOK
  <1>2. ASSUME NEW r \in Runs, CopyPart(r) PROVE TempsPure'
    <2> DEFINE data == part[etag[r]][next[r]]
    <2>1. /\ data \in Content /\ Of(etag[r], data) /\ Copied(r, data)
          /\ pos[r] \in Nat /\ etag[r] \in Versions
      BY <1>2, CopiedData
    <2>2. CASE output[r] = "temp"
      <3>1. temp[etag[r]] \in Content /\ temp[etag[r]] # Absent
        BY <1>0, <2>1, <2>2 DEF IInv, AllHandles, Handles, TypeOK
      <3>2. Of(etag[r], WriteAt(temp[etag[r]], pos[r], data))
        BY <1>0, <2>1, <3>1, WriteOf DEF TempsPure
      <3> QED
        BY <1>0, <2>1, <2>2, <3>2 DEF Copied, Base, TempsPure, TypeOK
    <2>3. CASE output[r] # "temp"
      BY <1>0, <2>1, <2>3 DEF Copied, TempsPure
    <2> QED
      BY <2>2, <2>3
  <1>3. ASSUME NEW r \in Runs, Rename(r) \/ Discard(r) PROVE TempsPure'
    BY <1>0, <1>3 DEF Rename, Discard, Base, TempsPure, TypeOK
  <1>4. ASSUME NEW r \in Runs,
               \/ Launch(r) \/ Kill(r) \/ CopyFails(r) \/ VerifyTemp(r) \/ Displace(r)
               \/ RenameFails(r) \/ CleanPart(r) \/ Cleaned(r) \/ VerifyDest(r)
               \/ \E n \in Ranges : \/ Check(r, n) \/ Create(r, n) \/ Receive(r, n)
                                    \/ Retry(r, n) \/ PartFails(r, n)
        PROVE  TempsPure'
    <2>1. temp' = temp
      BY <1>4 DEF Launch, Kill, CopyFails, VerifyTemp, Displace, RenameFails, CleanPart,
                  Cleaned, VerifyDest, Check, Create, Receive, Retry, PartFails
    <2> QED
      BY <1>0, <2>1 DEF TempsPure
  <1>5. CASE PowerLoss \/ Overwrite \/ UNCHANGED vars
    BY <1>0, <1>5 DEF PowerLoss, Overwrite, vars, TempsPure
  <1> QED
    BY <1>1, <1>2, <1>3, <1>4, <1>5 DEF Next, Step

\* A handle on the destination belongs to a live run.
LEMMA WritersLive ==
  ASSUME IInv, NEW r \in Runs, output[r] # "none"
  PROVE  r \in Live /\ pc[r] = "assemble"
  BY DEF IInv, AllHandles, Handles, Live

LEMMA UncrossedKept ==
  ASSUME IInv, [Next]_vars
  PROVE  Uncrossed'
  <1>0. TypeOK /\ Uncrossed
    BY DEF IInv
  <1>1. ASSUME NEW r \in Runs, Launch(r) PROVE Uncrossed'
    <2>1. \A q \in Live' : q \in Runs /\ (q = r \/ q \in Live)
      BY <1>1 DEF Launch, Live
    <2>2. \A q \in Live' : etag'[q] = IF q = r THEN version ELSE etag[q]
      BY <1>1, <2>1 DEF Launch
    <2>3. ~crossed' => ~crossed /\ \A q \in Live : etag[q] = version
      BY <1>0, <1>1 DEF Launch, TypeOK
    <2> QED
      BY <1>0, <2>1, <2>2, <2>3 DEF Uncrossed
  <1>2. ASSUME Live' \subseteq Live, \A q \in Live' : etag'[q] = etag[q], crossed' = crossed
        PROVE  Uncrossed'
    BY <1>0, <1>2 DEF Uncrossed
  <1>3. ASSUME NEW r \in Runs, pc[r] \notin {"down", "ended"}, crossed' = crossed,
               \A q \in Runs \ {r} : pc'[q] = pc[q] /\ etag'[q] = etag[q],
               etag'[r] = etag[r] \/ pc'[r] = "down"
        PROVE  Uncrossed'
    BY <1>2, <1>3 DEF Live
  <1>4. ASSUME NEW r \in Runs, NEW n \in Ranges,
               Check(r, n) \/ Create(r, n) \/ Receive(r, n) \/ Retry(r, n)
        PROVE  Uncrossed'
    BY <1>3, <1>4 DEF Check, Create, Receive, Retry, history_vars
  <1>5. ASSUME NEW r \in Runs,
               \/ BeginAssembly(r) \/ CopyPart(r) \/ Displace(r) \/ Rename(r) \/ CleanPart(r)
        PROVE  Uncrossed'
    <2>1. pc[r] \notin {"down", "ended"} /\ crossed' = crossed /\ etag' = etag
      BY <1>5 DEF BeginAssembly, CopyPart, Displace, Rename, CleanPart, history_vars, range_vars
    <2>2. \A q \in Runs \ {r} : pc'[q] = pc[q]
      BY <1>0, <1>5 DEF BeginAssembly, CopyPart, Displace, Rename, CleanPart, TypeOK
    <2> QED
      BY <1>3, <2>1, <2>2
  <1>6. ASSUME NEW r \in Runs,
               \/ CopyFails(r) \/ VerifyTemp(r) \/ RenameFails(r) \/ Cleaned(r)
               \/ Discard(r) \/ VerifyDest(r) \/ Kill(r) \/ \E n \in Ranges : PartFails(r, n)
        PROVE  Uncrossed'
    <2>1. pc[r] \notin {"down", "ended"} /\ crossed' = crossed
      BY <1>6 DEF CopyFails, VerifyTemp, RenameFails, Cleaned, Discard, VerifyDest, Kill,
                  Live, PartFails, history_vars
    <2>2. \/ etag' = etag /\ \A q \in Runs \ {r} : pc'[q] = pc[q]
          \/ \E report \in {"down", "ended"} : Leave(r, report)
      BY <1>0, <1>6 DEF CopyFails, VerifyTemp, RenameFails, Cleaned, Discard, VerifyDest, Kill,
                  PartFails, range_vars, TypeOK
    <2>3. \A q \in Runs \ {r} : pc'[q] = pc[q] /\ etag'[q] = etag[q]
      BY <1>0, <2>2 DEF Leave, TypeOK
    <2>4. etag'[r] = etag[r] \/ pc'[r] = "down"
      BY <1>0, <2>2 DEF Leave, TypeOK
    <2> QED
      BY <1>3, <2>1, <2>3, <2>4
  <1>7. CASE PowerLoss
    BY <1>7 DEF PowerLoss, Uncrossed, Live
  <1>8. CASE Overwrite \/ UNCHANGED vars
    BY <1>0, <1>8 DEF Overwrite, vars, range_vars, history_vars, Uncrossed, Live
  <1> QED
    BY <1>1, <1>4, <1>5, <1>6, <1>7, <1>8 DEF Next, Step

\* A step that neither writes the destination nor adds a handle on it.
LEMMA DestKept ==
  ASSUME IInv, dest' = dest, service' = service, crossed => crossed',
         \A q \in Runs : output'[q] = "dest" => output[q] = "dest" /\ etag'[q] = etag[q]
  PROVE  DestPure'
  BY DEF IInv, DestPure, OneWriter

\* The destination goes, with all handles on it.
LEMMA DestGone ==
  ASSUME IInv, dest' = Absent, \A q \in Runs : output'[q] # "dest"
  PROVE  DestPure'
  BY DEF DestPure, OneWriter

LEMMA BeginAssemblyPure ==
  ASSUME IInv, NEW r \in Runs, BeginAssembly(r)
  PROVE  DestPure'
  <1>0. TypeOK /\ Uncrossed /\ etag[r] \in Old..MaxVersion /\ r \in Live
    BY VersionValues DEF IInv, TypeOK, BeginAssembly, Live
  <1>1. UNCHANGED <<service, crossed, etag>>
    BY DEF BeginAssembly, object_vars, range_vars, history_vars
  <1>2. CASE service = "tos"
    <2>1. dest' = dest /\ \A q \in Runs : output'[q] = "dest" => output[q] = "dest"
      BY <1>0, <1>2 DEF BeginAssembly, TypeOK
    <2> QED
      BY <1>1, <2>1, DestKept
  <1>3. CASE service # "tos"
    <2>1. dest' = << >>
      BY <1>3 DEF BeginAssembly
    <2>2. \A q \in Runs : output'[q] = "dest" => q \in Live
      <3>1. output' = [output EXCEPT ![r] = "dest"]
        BY <1>3 DEF BeginAssembly
      <3>2. ASSUME NEW q \in Runs \ {r}, output'[q] = "dest" PROVE q \in Live
        <4>1. output[q] # "none"
          BY <1>0, <3>1, <3>2 DEF TypeOK
        <4> QED
          BY <4>1, WritersLive
      <3> QED
        BY <1>0, <3>2
    <2>3. ~crossed => OneWriter'
      BY <1>0, <1>1, <2>2 DEF Uncrossed, OneWriter
    <2> QED
      BY <1>0, <1>1, <1>3, <2>1, <2>3, EmptyFile DEF DestPure
  <1> QED
    BY <1>2, <1>3

LEMMA CopyPartPure ==
  ASSUME IInv, NEW r \in Runs, CopyPart(r)
  PROVE  DestPure'
  <1> DEFINE data == part[etag[r]][next[r]]
  <1>0. TypeOK /\ DestPure /\ etag[r] \in Old..MaxVersion
    BY VersionValues DEF IInv, TypeOK
  <1>1. UNCHANGED <<service, crossed, etag>>
    BY DEF CopyPart, object_vars, range_vars, history_vars
  <1>2. \A q \in Runs : output'[q] = "dest" => output[q] = "dest"
    BY <1>0 DEF CopyPart, TypeOK
  <1>3. /\ data \in Content /\ Of(etag[r], data) /\ Copied(r, data) /\ pos[r] \in Nat
    BY CopiedData
  <1>4. CASE output[r] # "dest"
    <2>1. dest' = dest
      BY <1>3, <1>4 DEF Copied
    <2> QED
      BY <1>1, <1>2, <2>1, DestKept
  <1>5. CASE output[r] = "dest" /\ (service = "tos" \/ ~crossed)
    <2>1. dest \in Content
      BY <1>0, <1>5 DEF IInv, AllHandles, Handles, TypeOK
    <2>2. Of(etag[r], dest) /\ OneWriter
      BY <1>0, <1>5 DEF DestPure
    <2>3. Of(etag[r], dest')
      BY <1>3, <1>5, <2>1, <2>2, WriteOf DEF Copied
    <2>4. OneWriter'
      BY <1>1, <1>2, <2>2 DEF OneWriter
    <2>5. \A q \in Runs : output'[q] = "dest" => Of(etag'[q], dest')
      BY <1>1, <1>2, <1>5, <2>2, <2>3 DEF OneWriter
    <2> QED
      BY <1>0, <2>3, <2>4, <2>5 DEF DestPure
  <1>6. CASE ~(service = "tos" \/ ~crossed)
    BY <1>1, <1>6 DEF DestPure
  <1> QED
    BY <1>4, <1>5, <1>6

\* Handles on the temporary file now lead to the destination, which has the
\* version in the name of that file; all others on the destination are lost.
LEMMA RenamePure ==
  ASSUME IInv, NEW r \in Runs, Rename(r)
  PROVE  DestPure'
  <1>0. TypeOK /\ TempsPure /\ etag[r] \in Versions /\ etag[r] \in Old..MaxVersion
    BY VersionValues DEF IInv, TypeOK
  <1>1. etag' = etag /\ dest' = temp[etag[r]] /\ dest' # Absent
    BY DEF Rename, Temp, Base, range_vars
  <1>2. Of(etag[r], dest')
    BY <1>0, <1>1 DEF TempsPure
  <1>3. \A q \in Runs : output'[q] = "dest" => etag[q] = etag[r]
    BY DEF Rename, Severed, Sharing, Base
  <1> QED
    BY <1>0, <1>1, <1>2, <1>3 DEF DestPure, OneWriter

LEMMA DestStaysPure ==
  ASSUME IInv, [Next]_vars
  PROVE  DestPure'
  <1>0. TypeOK
    BY DEF IInv
  <1>1. ASSUME NEW r \in Runs, BeginAssembly(r) \/ CopyPart(r) \/ Rename(r) PROVE DestPure'
    BY <1>1, BeginAssemblyPure, CopyPartPure, RenamePure
  <1>2. ASSUME NEW r \in Runs, Displace(r) PROVE DestPure'
    BY <1>2, DestGone DEF Displace, Severed
  <1>3. ASSUME NEW r \in Runs, Launch(r) PROVE DestPure'
    <2>1. \A q \in Runs : output[q] = "dest" => etag'[q] = etag[q]
      BY <1>3, WritersLive DEF Launch
    <2>2. dest' = dest /\ output' = output /\ service' = service /\ (crossed => crossed')
      BY <1>3 DEF Launch, object_vars, assembly_vars
    <2> QED
      BY <2>1, <2>2, DestKept
  <1>4. ASSUME NEW r \in Runs, NEW n \in Ranges,
               Check(r, n) \/ Create(r, n) \/ Receive(r, n) \/ Retry(r, n)
        PROVE  DestPure'
    BY <1>4, DestKept DEF Check, Create, Receive, Retry, object_vars, assembly_vars,
                          history_vars
  <1>5. ASSUME NEW r \in Runs, output'[r] = "none", dest' = dest, service' = service,
               crossed' = crossed,
               \A q \in Runs \ {r} : etag'[q] = etag[q]
                                     /\ (output'[q] = "dest" => output[q] = "dest")
        PROVE  DestPure'
    BY <1>5, DestKept
  <1>6. ASSUME NEW r \in Runs,
               \/ CopyFails(r) \/ VerifyTemp(r) \/ RenameFails(r) \/ Cleaned(r) \/ CleanPart(r)
               \/ Discard(r) \/ Kill(r) \/ (\E n \in Ranges : PartFails(r, n))
               \/ (VerifyDest(r) /\ Matches(r, dest))
        PROVE  DestPure'
    <2>1. dest' = dest /\ service' = service /\ crossed' = crossed
      BY <1>6 DEF CopyFails, VerifyTemp, RenameFails, Cleaned, CleanPart, Discard, Kill,
                  PartFails, VerifyDest, object_vars, history_vars
    <2>2. \/ etag' = etag
          \/ \E report \in {"down", "ended"} : Leave(r, report)
      BY <1>6 DEF CopyFails, VerifyTemp, RenameFails, Cleaned, CleanPart, Discard, Kill,
                  PartFails, VerifyDest, range_vars
    <2>3. \A q \in Runs \ {r} : etag'[q] = etag[q]
      BY <1>0, <2>2 DEF Leave, TypeOK
    <2>4. \A q \in Runs \ {r} : output'[q] = "dest" => output[q] = "dest"
      BY <1>0, <1>6 DEF CopyFails, VerifyTemp, RenameFails, Cleaned, CleanPart, Discard, Kill,
                  PartFails, VerifyDest, Severed, TypeOK
    <2>5. pc[r] # "assemble" => output[r] = "none"
      BY WritersLive
    <2>6. output'[r] = "none"
      <3>1. CASE CopyFails(r) \/ Kill(r)
        BY <1>0, <3>1 DEF CopyFails, Kill, TypeOK
      <3>2. CASE Discard(r)
        BY <2>5, <3>2 DEF Discard, Severed
      <3>3. CASE ~(CopyFails(r) \/ Kill(r) \/ Discard(r))
        BY <1>6, <2>5, <3>3 DEF VerifyTemp, RenameFails, Cleaned, CleanPart, PartFails,
                                VerifyDest
      <3> QED
        BY <3>1, <3>2, <3>3
    <2> QED
      BY <1>5, <2>1, <2>3, <2>4, <2>6
  <1>7. ASSUME NEW r \in Runs, VerifyDest(r), ~Matches(r, dest) PROVE DestPure'
    BY <1>7, DestGone DEF VerifyDest, Severed
  <1>8. CASE PowerLoss
    <2>1. dest \in File /\ dest' \in Remnants(dest)
      BY <1>0, <1>8, PowerLossFiles DEF TypeOK, File
    <2>2. /\ service' = service /\ crossed' = crossed
          /\ \A q \in Runs : output'[q] # "dest"
      BY <1>8 DEF PowerLoss, object_vars
    <2>3. DestPure
      BY DEF IInv
    <2> QED
      BY <2>1, <2>2, <2>3, RemnantFile DEF DestPure, OneWriter
  <1>9. CASE Overwrite \/ UNCHANGED vars
    BY <1>9, DestKept DEF Overwrite, vars, range_vars, assembly_vars, history_vars
  <1> QED
    BY <1>1, <1>2, <1>3, <1>4, <1>6, <1>7, <1>8, <1>9 DEF Next, Step

-----------------------------------------------------------------------------
(* Results. *)

LEMMA InitInvariant == Init => IInv
  <1> SUFFICES ASSUME Init PROVE IInv
    OBVIOUS
  <1>1. TypeOK
    BY InitTypes
  <1>2. AllHandles
    BY DEF Init, AllHandles, Handles
  <1>3. PartsPure /\ TempsPure /\ Uncrossed
    <2>1. \A q \in Live : q \in Runs
      BY DEF Live
    <2> QED
      BY <2>1 DEF Init, PartsPure, TempsPure, Uncrossed
  <1>4. dest = Absent \/ Of(Old, dest)
    BY VersionValues, WholeFile DEF Init
  <1>5. DestPure
    BY <1>4, VersionValues DEF Init, DestPure, OneWriter
  <1> QED
    BY <1>1, <1>2, <1>3, <1>5 DEF IInv

LEMMA StepInvariant == IInv /\ [Next]_vars => IInv'
  <1> SUFFICES ASSUME IInv, [Next]_vars PROVE IInv'
    OBVIOUS
  <1>1. TypeOK' /\ AllHandles'
    BY StepTypes, StepHandles DEF IInv
  <1> QED
    BY <1>1, PartsStayPure, TempsStayPure, DestStaysPure, UncrossedKept DEF IInv

\* What any number of runs share keeps to the versions in the file names: the
\* invariant from which the results below follow.
THEOREM Invariant == Spec => []IInv
  BY InitInvariant, StepInvariant, PTL DEF Spec

\* Every state of any number of runs, parts and blocks has values of the
\* declared kinds: no handle writes where there is no file.
THEOREM TypeCorrect == Spec => []TypeOK
  <1>1. IInv => TypeOK
    BY DEF IInv
  <1> QED
    BY <1>1, Invariant, PTL

\* The destination has blocks of one version only, whatever the runs of the
\* command, their ends and the owner of the object do to the shared parts.
THEOREM VersionsDoNotMix == Spec => []NeverMixed
  <1>1. IInv => NeverMixed
    BY DEF IInv, DestPure, NeverMixed
  <1> QED
    BY <1>1, Invariant, PTL

-----------------------------------------------------------------------------
(* A run that is alone. *)

\* A part file holds a beginning of its range.
Prefix(v, n, file) ==
    /\ Len(file) <= Blocks
    /\ \A k \in 1..Len(file) : file[k] = <<v, (n - 1) * Blocks + k>>

\* A file holds the first blocks of the object, and nothing else.
Begun(v, file, length) ==
    /\ Len(file) = length
    /\ \A k \in 1..length : file[k] = <<v, k>>

PartsKept == \A v \in Versions, n \in Ranges : part[v][n] # Absent => Prefix(v, n, part[v][n])

\* Where the parts are assembled.
Target(r) == IF service = "tos" THEN temp[etag[r]] ELSE dest

\* Nobody else has touched the parts: a handle stands at the end of its part,
\* a range that is done is complete, and so is what the assembly has copied.
Private(r) ==
    /\ \A n \in Ranges :
          /\ task[r][n] = "open"
             => /\ n \notin astray[r]
                /\ part[etag[r]][n] # Absent
                /\ Len(part[etag[r]][n]) = offset[r][n]
          /\ task[r][n] = "done" /\ pc[r] \in {"ranges", "assemble"}
             => part[etag[r]][n] # Absent /\ Len(part[etag[r]][n]) = Blocks
    /\ pc[r] = "assemble"
       => /\ \A n \in Ranges : task[r][n] = "done"
          /\ pos[r] = (next[r] - 1) * Blocks
          /\ Begun(etag[r], Target(r), pos[r])
    /\ pc[r] = "verify" => Target(r) = Whole(etag[r])
    /\ pc[r] = "clean" /\ service = "adrive" => dest = Whole(etag[r])

\* What was verified, or needed no verification, is whole from then on.
Accepted(r) ==
    /\ pc[r] \in {"place", "rename"} => temp[etag[r]] = Whole(etag[r])
    /\ pc[r] = "clean" /\ service = "tos" => dest = Whole(etag[r])
    /\ pc[r] = "ended" => dest = Whole(etag[r])

Alone(r) ==
    /\ pc[r] = "assemble" => output[r] = IF service = "tos" THEN "temp" ELSE "dest"
    /\ pc[r] \in {"place", "rename"} => service = "tos"
    /\ crc \/ ~mingled => Accepted(r)
    /\ ~mingled => Private(r)

\* Runs that are not alive have forgotten their ranges.
Lonely ==
    /\ alone # 0 \/ ~mingled => Live \subseteq {alone}
    /\ \A r \in Runs \ Live, n \in Ranges : task[r][n] = "todo"

Solitary ==
    /\ Lonely
    /\ ~mingled => PartsKept
    /\ alone \in Runs => Alone(alone)

-----------------------------------------------------------------------------
(* Writing at the end of a file. *)

LEMMA WriteEnd ==
  ASSUME NEW file \in Content, NEW data \in Content
  PROVE  LET result == WriteAt(file, Len(file), data)
         IN  /\ Len(result) = Len(file) + Len(data)
             /\ \A k \in 1..Len(file) : result[k] = file[k]
             /\ \A k \in (Len(file) + 1)..(Len(file) + Len(data)) : result[k] = data[k - Len(file)]
  <1> DEFINE len == Len(file)
             end == len + Len(data)
             top == IF end > len THEN end ELSE len
             result == WriteAt(file, len, data)
  <1>1. len \in Nat /\ Len(data) \in Nat
    BY DEF Content
  <1>2. top = end /\ end \in Nat /\ len <= end
    BY <1>1
  <1>3. result = [k \in 1..end |-> IF k \in (len + 1)..end THEN data[k - len]
                                   ELSE IF k <= len THEN file[k] ELSE Hole]
    BY <1>2 DEF WriteAt
  <1>4. result \in Content
    BY <1>1, WriteType
  <1>5. Len(result) = end
    <2>1. DOMAIN result = 1..end
      BY <1>3
    <2>2. DOMAIN result = 1..Len(result) /\ Len(result) \in Nat
      BY <1>4 DEF Content
    <2> HIDE DEF result
    <2> QED
      BY <1>2, <2>1, <2>2
  <1>6. \A k \in 1..len : result[k] = file[k]
    <2> TAKE k \in 1..len
    <2>1. k \in 1..end /\ k \notin (len + 1)..end /\ k <= len
      BY <1>1, <1>2
    <2> QED
      BY <1>3, <2>1
  <1>7. \A k \in (len + 1)..end : result[k] = data[k - len]
    <2> TAKE k \in (len + 1)..end
    <2>1. k \in 1..end
      BY <1>1, <1>2
    <2> QED
      BY <1>3, <2>1
  <1> QED
    BY <1>5, <1>6, <1>7

\* The next block of a range continues its beginning.
LEMMA PrefixGrows ==
  ASSUME NEW v \in Versions, NEW n \in Ranges, NEW file \in Content,
         Prefix(v, n, file), Len(file) < Blocks,
         NEW block, block = <<v, (n - 1) * Blocks + Len(file) + 1>>, <<block>> \in Content
  PROVE  /\ Prefix(v, n, WriteAt(file, Len(file), <<block>>))
         /\ Len(WriteAt(file, Len(file), <<block>>)) = Len(file) + 1
  <1> DEFINE result == WriteAt(file, Len(file), <<block>>)
  <1>1. Len(file) \in Nat /\ Len(<<block>>) = 1 /\ <<block>>[1] = block
    BY DEF Content
  <1>2. /\ Len(result) = Len(file) + 1
        /\ \A k \in 1..Len(file) : result[k] = file[k]
        /\ \A k \in (Len(file) + 1)..(Len(file) + 1) : result[k] = <<block>>[k - Len(file)]
    BY <1>1, WriteEnd
  <1> HIDE DEF result
  <1>3. result[Len(file) + 1] = block
    <2>1. Len(file) + 1 \in (Len(file) + 1)..(Len(file) + 1) /\ Len(file) + 1 - Len(file) = 1
      BY <1>1
    <2> QED
      BY <1>1, <1>2, <2>1
  <1>4. (n - 1) * Blocks \in Int
    BY SizeNat DEF Ranges
  <1>5. ASSUME NEW k \in 1..Len(result) PROVE result[k] = <<v, (n - 1) * Blocks + k>>
    <2>1. CASE k \in 1..Len(file)
      BY <1>2, <2>1 DEF Prefix
    <2>2. CASE k = Len(file) + 1
      BY <1>1, <1>3, <1>4, <2>2
    <2> QED
      BY <1>1, <1>2, <2>1, <2>2
  <1>6. Len(result) <= Blocks
    BY <1>1, <1>2, SizeNat
  <1> QED
    BY <1>2, <1>5, <1>6 DEF Prefix, result

\* A complete part continues what was copied before it.
LEMMA BegunGrows ==
  ASSUME NEW v \in Versions, NEW n \in Ranges, NEW file \in Content, NEW data \in Content,
         Begun(v, file, (n - 1) * Blocks), Prefix(v, n, data), Len(data) = Blocks
  PROVE  Begun(v, WriteAt(file, (n - 1) * Blocks, data), n * Blocks)
  <1> DEFINE start == (n - 1) * Blocks
             result == WriteAt(file, start, data)
  <1>1. start \in Nat /\ start + Blocks = n * Blocks /\ Len(file) = start
    BY SizeNat DEF Ranges, Begun
  <1>2. /\ Len(result) = start + Blocks
        /\ \A k \in 1..start : result[k] = file[k]
        /\ \A k \in (start + 1)..(start + Blocks) : result[k] = data[k - start]
    <2> HIDE DEF start
    <2>1. result = WriteAt(file, Len(file), data)
      BY <1>1
    <2> HIDE DEF result
    <2> QED
      BY <1>1, <2>1, WriteEnd
  <1>3. \A k \in 1..start : file[k] = <<v, k>>
    BY DEF Begun
  <1>4. \A k \in 1..Blocks : data[k] = <<v, start + k>>
    BY DEF Prefix
  <1> HIDE DEF start, result
  <1>5. ASSUME NEW k \in 1..(start + Blocks) PROVE result[k] = <<v, k>>
    <2>1. CASE k \in 1..start
      BY <1>2, <1>3, <2>1
    <2>2. CASE k \in (start + 1)..(start + Blocks)
      <3>1. k - start \in 1..Blocks /\ start + (k - start) = k
        BY <1>1, <2>2, SizeNat
      <3> QED
        BY <1>2, <1>4, <2>2, <3>1
    <2> QED
      BY <1>1, <2>1, <2>2, SizeNat
  <1> QED
    BY <1>1, <1>2, <1>5 DEF Begun, start, result

LEMMA BegunIsWhole ==
  ASSUME NEW v, NEW file \in Content, Begun(v, file, Size)
  PROVE  file = Whole(v)
  <1>1. DOMAIN file = 1..Size /\ file = [k \in DOMAIN file |-> file[k]]
    BY SizeNat DEF Begun, Content
  <1>2. \A k \in 1..Size : file[k] = <<v, k>>
    BY DEF Begun
  <1> QED
    BY <1>1, <1>2 DEF Whole

-----------------------------------------------------------------------------
(* Who is alive. *)

\* The steps of a run that is alive.
RunStep(r) ==
    \/ Step(r) \/ Kill(r)
    \/ \E n \in Ranges : Retry(r, n) \/ PartFails(r, n)

\* Only live runs take steps; they start nobody, and keep the history.
LEMMA RunAlive ==
  ASSUME TypeOK, NEW r \in Runs, RunStep(r)
  PROVE  /\ r \in Live
         /\ UNCHANGED <<alone, mingled, service, crc>>
         /\ \A q \in Runs \ {r} : UNCHANGED <<pc[q], task[q]>>
         /\ \/ pc'[r] \notin {"down", "ended"}
            \/ \A n \in Ranges : task'[r][n] = "todo"
  <1> USE DEF Live, history_vars, object_vars, range_vars
  <1>1. CASE \E n \in Ranges : Check(r, n) \/ Create(r, n) \/ Receive(r, n) \/ Retry(r, n)
    <2>1. PICK n \in Ranges : Check(r, n) \/ Create(r, n) \/ Receive(r, n) \/ Retry(r, n)
      BY <1>1
    <2>2. pc[r] = "ranges" /\ pc' = pc /\ UNCHANGED <<alone, mingled, service, crc>>
      BY <2>1 DEF Check, Create, Receive, Retry
    <2>3. \A q \in Runs \ {r} : task'[q] = task[q]
      BY <2>1 DEF Check, Create, Receive, Retry, TypeOK
    <2> QED
      BY <2>2, <2>3
  <1>2. CASE BeginAssembly(r) \/ CopyPart(r) \/ Displace(r) \/ Rename(r) \/ CleanPart(r)
    <2>1. r \in Live /\ UNCHANGED <<alone, mingled, service, crc, task>>
      BY <1>2 DEF BeginAssembly, CopyPart, Displace, Rename, CleanPart
    <2>2. (\A q \in Runs \ {r} : pc'[q] = pc[q]) /\ pc'[r] \notin {"down", "ended"}
      BY <1>2 DEF BeginAssembly, CopyPart, Displace, Rename, CleanPart, TypeOK
    <2> QED
      BY <2>1, <2>2
  <1>3. CASE (\E n \in Ranges : PartFails(r, n)) \/ CopyFails(r) \/ VerifyTemp(r)
             \/ RenameFails(r) \/ Cleaned(r) \/ Discard(r) \/ VerifyDest(r) \/ Kill(r)
    <2>1. r \in Live /\ UNCHANGED <<alone, mingled, service, crc>>
      BY <1>3 DEF PartFails, CopyFails, VerifyTemp, RenameFails, Cleaned, Discard,
                  VerifyDest, Kill
    <2>2. \/ Leave(r, "down") \/ Leave(r, "ended")
          \/ \E stage \in {"place", "discard", "verify"} :
                pc' = [pc EXCEPT ![r] = stage] /\ task' = task
      BY <1>3 DEF PartFails, CopyFails, VerifyTemp, RenameFails, Cleaned, Discard,
                  VerifyDest, Kill
    <2>3. CASE Leave(r, "down") \/ Leave(r, "ended")
      BY <2>1, <2>3 DEF Leave, TypeOK
    <2>4. CASE \E stage \in {"place", "discard", "verify"} :
                  pc' = [pc EXCEPT ![r] = stage] /\ task' = task
      BY <2>1, <2>4 DEF TypeOK
    <2> QED
      BY <2>2, <2>3, <2>4
  <1> QED
    BY <1>1, <1>2, <1>3 DEF RunStep, Step

LEMMA RunLonely ==
  ASSUME TypeOK, Lonely, NEW r \in Runs, RunStep(r)
  PROVE  Lonely'
  <1>1. Live' \subseteq Live
    BY RunAlive DEF Live
  <1>2. \A q \in Runs \ Live', n \in Ranges : task'[q][n] = "todo"
    BY RunAlive DEF Lonely, Live
  <1> QED
    BY <1>1, <1>2, RunAlive DEF Lonely

\* A launch begins a new time alone, or ends the one there was.
LEMMA LaunchSolitary ==
  ASSUME TypeOK, Solitary, NEW r \in Runs, Launch(r)
  PROVE  Solitary'
  <1>1. /\ UNCHANGED <<part, temp, dest, task, offset, astray, output, next, pos, service, crc>>
        /\ r \notin Live
    BY DEF Launch, object_vars, assembly_vars
  <1>2. /\ \A q \in Live : pc'[q] = pc[q] /\ etag'[q] = etag[q]
        /\ \A q \in Runs \ Live : q # r => pc'[q] = "down"
        /\ pc'[r] = "ranges"
    BY <1>1 DEF Launch, Live
  <1>3. Live' = Live \cup {r}
    BY <1>2 DEF Live
  <1>4. \A n \in Ranges : task'[r][n] = "todo"
    BY <1>1 DEF Solitary, Lonely
  <1>5. \A q \in Runs \ Live', n \in Ranges : task'[q][n] = "todo"
    BY <1>1, <1>3 DEF Solitary, Lonely
  <1>6. ~mingled => PartsKept'
    BY <1>1 DEF Solitary, PartsKept
  <1>7. CASE Live = {}
    <2>1. alone' = r /\ mingled' = mingled
      BY <1>7 DEF Launch
    <2>2. Lonely'
      BY <1>3, <1>5, <1>7, <2>1 DEF Lonely
    <2>3. Alone(r)'
      BY <1>1, <1>2, <1>4 DEF Alone, Accepted, Private
    <2> QED
      BY <1>6, <2>1, <2>2, <2>3 DEF Solitary
  <1>8. CASE Live # {}
    <2>1. alone' = 0 /\ mingled' = TRUE
      BY <1>8 DEF Launch
    <2>2. 0 \notin Runs
      BY BoundsAssumption DEF Runs
    <2> QED
      BY <1>5, <2>1, <2>2 DEF Solitary, Lonely
  <1> QED
    BY <1>7, <1>8

\* With the process the claims about it go.
LEMMA DownAlone ==
  ASSUME TypeOK, NEW r \in Runs, pc'[r] = "down", \A n \in Ranges : task'[r][n] = "todo"
  PROVE  Alone(r)'
  BY DEF Alone, Accepted, Private

\* A step of a run says something only of the run that is alone.
LEMMA OneSolitary ==
  ASSUME TypeOK, Solitary, NEW r \in Runs, RunStep(r),
         alone = r => Alone(r)',
         alone = r /\ ~mingled => PartsKept'
  PROVE  Solitary'
  <1>1. /\ r \in Live /\ alone' = alone /\ mingled' = mingled
        /\ Lonely'
    BY RunAlive, RunLonely DEF Solitary
  <1>2. alone # 0 \/ ~mingled => alone = r
    BY <1>1 DEF Solitary, Lonely
  <1>3. 0 \notin Runs
    BY BoundsAssumption DEF Runs
  <1>4. alone' \in Runs => Alone(alone)'
    <2>1. CASE alone = r
      BY <1>1, <2>1
    <2>2. CASE alone # r
      BY <1>1, <1>2, <1>3, <2>2
    <2> QED
      BY <2>1, <2>2
  <1> QED
    BY <1>1, <1>2, <1>4 DEF Solitary

-----------------------------------------------------------------------------
(* Its ranges. *)

\* A range that changes in a run that nobody has interfered with.
LEMMA RangeAlone ==
  ASSUME TypeOK, NEW r \in Runs, NEW n \in Ranges, Handles(r),
         Alone(r), mingled' = mingled, mingled \in BOOLEAN, ~mingled => PartsKept,
         pc[r] = "ranges", UNCHANGED <<pc, etag>>,
         \A m \in Ranges \ {n} : /\ task'[r][m] = task[r][m]
                                 /\ offset'[r][m] = offset[r][m]
                                 /\ m \in astray'[r] => m \in astray[r],
         \A v \in Versions, m \in Ranges :
            v # etag[r] \/ m # n => part'[v][m] = part[v][m],
         ~mingled =>
            /\ task'[r][n] = "open"
               => /\ n \notin astray'[r]
                  /\ part'[etag[r]][n] # Absent
                  /\ Len(part'[etag[r]][n]) = offset'[r][n]
            /\ task'[r][n] = "done"
               => part'[etag[r]][n] # Absent /\ Len(part'[etag[r]][n]) = Blocks
            /\ part'[etag[r]][n] # Absent => Prefix(etag[r], n, part'[etag[r]][n])
  PROVE  Alone(r)' /\ (~mingled => PartsKept')
  <1>1. etag[r] \in Versions
    BY DEF TypeOK
  <1>2. ~mingled => PartsKept'
    BY DEF PartsKept
  <1>3. ASSUME ~mingled PROVE Private(r)'
    <2>1. Private(r)
      BY <1>3 DEF Alone
    <2>2. \A m \in Ranges :
            /\ task'[r][m] = "open"
               => /\ m \notin astray'[r]
                  /\ part'[etag[r]][m] # Absent
                  /\ Len(part'[etag[r]][m]) = offset'[r][m]
            /\ task'[r][m] = "done"
               => part'[etag[r]][m] # Absent /\ Len(part'[etag[r]][m]) = Blocks
      <3> TAKE m \in Ranges
      <3>1. CASE m = n
        BY <1>3, <3>1
      <3>2. CASE m # n
        BY <1>1, <2>1, <3>2 DEF Private
      <3> QED
        BY <3>1, <3>2
    <2> QED
      BY <2>2 DEF Private
  <1> QED
    BY <1>2, <1>3 DEF Alone, Accepted

LEMMA CheckAlone ==
  ASSUME TypeOK, NEW r \in Runs, NEW n \in Ranges, Handles(r), Alone(r),
         ~mingled => PartsKept, Check(r, n) \/ Retry(r, n)
  PROVE  Alone(r)' /\ (~mingled => PartsKept')
  <1>1. /\ pc[r] = "ranges" /\ UNCHANGED <<pc, etag, part, mingled>> /\ mingled \in BOOLEAN
        /\ etag[r] \in Versions
    BY DEF Check, Retry, range_vars, history_vars, TypeOK
  <1>2. \A m \in Ranges \ {n} : /\ task'[r][m] = task[r][m]
                                /\ offset'[r][m] = offset[r][m]
                                /\ m \in astray'[r] => m \in astray[r]
    BY DEF Check, Retry, TypeOK
  <1>3. task'[r][n] # "open"
    BY DEF Check, Retry, TypeOK
  <1>4. task'[r][n] = "done"
           => part'[etag[r]][n] # Absent /\ Len(part'[etag[r]][n]) = Blocks
    BY DEF Check, Retry, TypeOK, Reusable, Part, Base
  <1>5. ~mingled /\ part'[etag[r]][n] # Absent => Prefix(etag[r], n, part'[etag[r]][n])
    BY <1>1 DEF PartsKept
  <1> QED
    BY <1>1, <1>2, <1>3, <1>4, <1>5, RangeAlone

LEMMA CreateAlone ==
  ASSUME TypeOK, NEW r \in Runs, NEW n \in Ranges, Handles(r), Alone(r),
         ~mingled => PartsKept, Create(r, n)
  PROVE  Alone(r)' /\ (~mingled => PartsKept')
  <1>1. /\ pc[r] = "ranges" /\ UNCHANGED <<pc, etag, mingled>> /\ mingled \in BOOLEAN
        /\ etag[r] \in Versions
    BY DEF Create, history_vars, TypeOK
  <1>2. \A m \in Ranges \ {n} : /\ task'[r][m] = task[r][m]
                                /\ offset'[r][m] = offset[r][m]
                                /\ m \in astray'[r] => m \in astray[r]
    BY DEF Create, TypeOK
  <1>3. task'[r][n] = "open" /\ offset'[r][n] = 0 /\ n \notin astray'[r]
    BY DEF Create, TypeOK
  <1>4. /\ part'[etag[r]][n] = << >>
        /\ \A v \in Versions, m \in Ranges : v # etag[r] \/ m # n => part'[v][m] = part[v][m]
    BY <1>1 DEF Create, Base, TypeOK
  <1>5. << >> # Absent /\ Prefix(etag[r], n, << >>)
    BY EmptyFile, AbsentAssumption, SizeNat DEF Prefix
  <1> QED
    BY <1>1, <1>2, <1>3, <1>4, <1>5, RangeAlone

LEMMA ReceiveAlone ==
  ASSUME TypeOK, NEW r \in Runs, NEW n \in Ranges, Handles(r), Alone(r),
         ~mingled => PartsKept, Receive(r, n)
  PROVE  Alone(r)' /\ (~mingled => PartsKept')
  <1>1. /\ pc[r] = "ranges" /\ UNCHANGED <<pc, etag, mingled>> /\ mingled \in BOOLEAN
        /\ etag[r] \in Versions /\ task[r][n] = "open"
    BY DEF Receive, history_vars, TypeOK
  <1>2. \A m \in Ranges \ {n} : /\ task'[r][m] = task[r][m]
                                /\ offset'[r][m] = offset[r][m]
                                /\ m \in astray'[r] => m \in astray[r]
    BY DEF Receive, TypeOK
  <1>3. /\ offset[r][n] \in Nat /\ offset[r][n] < Blocks
        /\ offset'[r][n] = offset[r][n] + 1
        /\ task'[r][n] = IF offset'[r][n] = Blocks THEN "done" ELSE "open"
        /\ n \notin astray[r] => n \notin astray'[r]
    BY <1>1, SizeNat DEF Receive, Handles, TypeOK
  <1>4. \A v \in Versions, m \in Ranges : v # etag[r] \/ m # n => part'[v][m] = part[v][m]
    BY <1>1 DEF Receive, Base, TypeOK
  <1>5. ASSUME ~mingled
        PROVE  /\ n \notin astray'[r]
               /\ part'[etag[r]][n] # Absent
               /\ Len(part'[etag[r]][n]) = offset'[r][n]
               /\ Prefix(etag[r], n, part'[etag[r]][n])
    <2> DEFINE file == part[etag[r]][n]
    <2>1. n \notin astray[r] /\ file # Absent /\ Len(file) = offset[r][n]
      BY <1>1, <1>5 DEF Alone, Private
    <2>2. file \in Content /\ Prefix(etag[r], n, file)
      BY <1>1, <1>5, <2>1 DEF TypeOK, PartsKept
    <2>3. part'[etag[r]][n] = WriteAt(file, Len(file), <<BlockOf(r, n)>>)
      BY <1>1, <2>1 DEF Receive, Base, TypeOK
    <2>4. <<BlockOf(r, n)>> \in Content
      BY <1>3, BlockTypes
    <2>5. BlockOf(r, n) = <<etag[r], (n - 1) * Blocks + Len(file) + 1>>
      BY <2>1 DEF BlockOf
    <2>6. /\ Prefix(etag[r], n, part'[etag[r]][n])
          /\ Len(part'[etag[r]][n]) = Len(file) + 1
      <3> HIDE DEF file
      <3> QED
        BY <1>1, <1>3, <2>1, <2>2, <2>3, <2>4, <2>5, PrefixGrows
    <2>7. part'[etag[r]][n] # Absent
      BY <1>3, <2>1, <2>2, <2>3, <2>4, WriteType
    <2> QED
      BY <1>3, <2>1, <2>6, <2>7
  <1> QED
    BY <1>1, <1>2, <1>3, <1>4, <1>5, RangeAlone

LEMMA RemoveKeeps ==
  ASSUME TypeOK, NEW r \in Runs, NEW names \in SUBSET Ranges, Remove(r, names), PartsKept
  PROVE  PartsKept'
  <1>1. ASSUME NEW v \in Versions, NEW n \in Ranges, part'[v][n] # Absent
        PROVE  part'[v][n] = part[v][n]
    BY <1>1 DEF Remove, Base, TypeOK
  <1> QED
    BY <1>1 DEF PartsKept

LEMMA LeaveDown ==
  ASSUME TypeOK, NEW r \in Runs, Leave(r, "down")
  PROVE  Alone(r)'
  <1>1. pc'[r] = "down" /\ \A n \in Ranges : task'[r][n] = "todo"
    BY DEF Leave, TypeOK
  <1> QED
    BY <1>1, DownAlone

LEMMA RangesSolitary ==
  ASSUME TypeOK, AllHandles, Solitary, NEW r \in Runs, NEW n \in Ranges,
         Check(r, n) \/ Create(r, n) \/ Receive(r, n) \/ Retry(r, n) \/ PartFails(r, n)
  PROVE  Solitary'
  <1>1. RunStep(r)
    BY DEF RunStep, Step, PartFails
  <1>2. CASE PartFails(r, n)
    <2>1. Leave(r, "down") /\ Remove(r, {n}) /\ {n} \in SUBSET Ranges
      BY <1>2 DEF PartFails
    <2> QED
      BY <1>1, <2>1, LeaveDown, RemoveKeeps, OneSolitary DEF Solitary
  <1>3. CASE Check(r, n) \/ Create(r, n) \/ Receive(r, n) \/ Retry(r, n)
    <2>1. Handles(r) /\ (~mingled => PartsKept)
      BY DEF AllHandles, Solitary
    <2>2. alone = r => Alone(r)
      BY DEF Solitary
    <2> QED
      BY <1>1, <1>3, <2>1, <2>2, CheckAlone, CreateAlone, ReceiveAlone, OneSolitary
  <1> QED
    BY <1>2, <1>3

-----------------------------------------------------------------------------
(* Its assembly. *)

LEMMA BeginAlone ==
  ASSUME TypeOK, NEW r \in Runs, Handles(r), Alone(r), BeginAssembly(r)
  PROVE  Alone(r)'
  <1>1. /\ UNCHANGED <<service, crc, mingled, part, etag, task, offset, astray>>
        /\ pc'[r] = "assemble" /\ next'[r] = 1 /\ pos'[r] = 0 /\ pc[r] = "ranges"
        /\ \A n \in Ranges : task[r][n] = "done"
        /\ etag[r] \in Versions
    BY DEF BeginAssembly, object_vars, range_vars, history_vars, TypeOK
  <1>2. /\ output'[r] = IF service = "tos" THEN "temp" ELSE "dest"
        /\ Target(r)' = << >>
    BY <1>1 DEF BeginAssembly, Target, Base, TypeOK
  <1>3. Begun(etag[r], << >>, 0) /\ 0 = (1 - 1) * Blocks
    BY SizeNat DEF Begun
  <1>4. ASSUME ~mingled PROVE Private(r)'
    <2>1. Private(r)
      BY <1>4 DEF Alone
    <2> QED
      BY <1>1, <1>2, <1>3, <2>1 DEF Private
  <1> QED
    BY <1>1, <1>2, <1>4 DEF Alone, Accepted

\* A complete part is copied to the end of what was copied before.
LEMMA CopiedAlone ==
  ASSUME TypeOK, NEW r \in Runs, Handles(r), Alone(r), ~mingled, PartsKept, CopyPart(r)
  PROVE  /\ Target(r)' \in Content
         /\ pos'[r] = next[r] * Blocks
         /\ Begun(etag[r], Target(r)', next[r] * Blocks)
  <1> DEFINE n == next[r]
             file == Target(r)
             data == part[etag[r]][n]
  <1>1. /\ pc[r] = "assemble" /\ n \in Ranges /\ etag[r] \in Versions
        /\ output[r] = IF service = "tos" THEN "temp" ELSE "dest"
        /\ service \in {"tos", "adrive"}
    BY SizeNat DEF CopyPart, Alone, Handles, TypeOK, Ranges
  <1>2. /\ data # Absent /\ Len(data) = Blocks
        /\ pos[r] = (n - 1) * Blocks
        /\ Begun(etag[r], file, (n - 1) * Blocks)
    BY <1>1 DEF Alone, Private
  <1>3. data \in Content /\ Prefix(etag[r], n, data)
    BY <1>1, <1>2 DEF TypeOK, PartsKept
  <1>4. file \in Content
    BY <1>1 DEF Handles, Target, TypeOK
  <1>5. Copied(r, data) /\ etag' = etag /\ service' = service
    BY DEF CopyPart, Part, Base, range_vars, object_vars
  <1>6. Target(r)' = WriteAt(file, (n - 1) * Blocks, data)
    BY <1>1, <1>2, <1>5 DEF Copied, Target, Base, TypeOK
  <1>7. pos'[r] = (n - 1) * Blocks + Blocks
    BY <1>2, <1>5 DEF Copied, TypeOK
  <1>8. (n - 1) * Blocks + Blocks = n * Blocks /\ (n - 1) * Blocks \in Nat
    BY <1>1, SizeNat DEF Ranges
  <1> HIDE DEF n, file, data
  <1>9. Begun(etag[r], WriteAt(file, (n - 1) * Blocks, data), n * Blocks)
    BY <1>1, <1>2, <1>3, <1>4, BegunGrows
  <1>10. WriteAt(file, (n - 1) * Blocks, data) \in Content
    BY <1>3, <1>4, <1>8, WriteType
  <1> QED
    BY <1>6, <1>7, <1>8, <1>9, <1>10 DEF n

LEMMA CopyAlone ==
  ASSUME TypeOK, NEW r \in Runs, Handles(r), Alone(r), ~mingled => PartsKept, CopyPart(r)
  PROVE  Alone(r)'
  <1>1. /\ UNCHANGED <<service, crc, mingled, part, etag, task, offset, astray>>
        /\ pc[r] = "assemble" /\ next[r] <= Parts /\ next[r] \in Nat
        /\ etag[r] \in Versions /\ service \in {"tos", "adrive"}
    BY DEF CopyPart, object_vars, range_vars, history_vars, TypeOK, Handles
  <1>2. ASSUME ~mingled
        PROVE  /\ Target(r)' \in Content
               /\ pos'[r] = next[r] * Blocks
               /\ Begun(etag[r], Target(r)', next[r] * Blocks)
    BY <1>2, CopiedAlone
  <1>3. CASE next[r] < Parts
    <2>1. pc'[r] = "assemble" /\ next'[r] = next[r] + 1 /\ output'[r] = output[r]
      BY <1>1, <1>3 DEF CopyPart, TypeOK
    <2>2. next'[r] - 1 = next[r]
      BY <1>1, <2>1
    <2>3. ASSUME ~mingled PROVE Private(r)'
      <3>1. Private(r)
        BY <2>3 DEF Alone
      <3> QED
        BY <1>1, <1>2, <2>1, <2>2, <2>3, <3>1 DEF Private
    <2> QED
      BY <1>1, <2>1, <2>3 DEF Alone, Accepted
  <1>4. CASE ~(next[r] < Parts)
    <2>1. pc'[r] = IF service = "tos" THEN "verify" ELSE "clean"
      BY <1>1, <1>4 DEF CopyPart, TypeOK
    <2>2. next[r] * Blocks = Size
      BY <1>1, <1>4, SizeNat DEF Size
    <2>3. ASSUME ~mingled PROVE Target(r)' = Whole(etag[r])
      BY <1>2, <2>2, <2>3, BegunIsWhole
    <2>4. ASSUME ~mingled PROVE Private(r)'
      <3>1. \A n \in Ranges : task'[r][n] # "open"
        BY <1>1, <2>4 DEF Alone, Private
      <3> QED
        BY <1>1, <2>1, <2>3, <2>4, <3>1 DEF Private, Target
    <2> QED
      BY <1>1, <2>1, <2>4 DEF Alone, Accepted
  <1> QED
    BY <1>3, <1>4

\* What is accepted is whole: it was compared with the CRC64, or nobody else
\* had a hand in it.
LEMMA VerifyAlone ==
  ASSUME TypeOK, NEW r \in Runs, Handles(r), Alone(r), VerifyTemp(r) \/ VerifyDest(r)
  PROVE  Alone(r)'
  <1>1. /\ UNCHANGED <<service, crc, mingled, part>>
        /\ pc[r] = "verify" /\ etag[r] \in Versions /\ crc \in BOOLEAN
    BY DEF VerifyTemp, VerifyDest, object_vars, history_vars, TypeOK
  <1>2. \A n \in Ranges : task[r][n] # "open"
    BY <1>1 DEF Handles
  <1>3. CASE VerifyTemp(r)
    <2>1. CASE crc /\ Temp(r) = Absent
      BY <1>3, <2>1, LeaveDown DEF VerifyTemp
    <2>2. CASE ~(crc /\ Temp(r) = Absent)
      <3>1. /\ pc'[r] = IF Matches(r, Temp(r)) THEN "place" ELSE "discard"
            /\ UNCHANGED <<etag, task, temp, dest>>
            /\ service = "tos"
        BY <1>3, <2>2 DEF VerifyTemp, range_vars, TypeOK
      <3>2. Matches(r, Temp(r)) /\ (crc \/ ~mingled) => temp[etag[r]] = Whole(etag[r])
        <4>1. ~mingled => temp[etag[r]] = Whole(etag[r])
          BY <1>1, <3>1 DEF Alone, Private, Target
        <4> QED
          BY <4>1 DEF Matches, Temp, Base
      <3>3. crc \/ ~mingled => Accepted(r)'
        BY <3>1, <3>2 DEF Accepted
      <3>4. ~mingled => Private(r)'
        BY <1>2, <3>1 DEF Private
      <3> QED
        BY <1>1, <3>1, <3>3, <3>4 DEF Alone
    <2> QED
      BY <2>1, <2>2
  <1>4. CASE VerifyDest(r)
    <2>1. CASE ~Matches(r, dest)
      BY <1>4, <2>1, LeaveDown DEF VerifyDest
    <2>2. CASE Matches(r, dest)
      <3>1. Leave(r, "ended") /\ dest' = dest
        BY <1>4, <2>2 DEF VerifyDest
      <3>2. pc'[r] = "ended" /\ etag'[r] = etag[r] /\ \A n \in Ranges : task'[r][n] = "todo"
        BY <3>1 DEF Leave, TypeOK
      <3>3. crc \/ ~mingled => dest = Whole(etag[r])
        <4>1. ~mingled => dest = Whole(etag[r])
          BY <1>1, <1>4 DEF VerifyDest, Alone, Private, Target
        <4> QED
          BY <2>2, <4>1 DEF Matches
      <3>4. crc \/ ~mingled => Accepted(r)'
        BY <3>1, <3>2, <3>3 DEF Accepted
      <3>5. Private(r)'
        BY <3>2 DEF Private
      <3> QED
        BY <1>1, <3>2, <3>4, <3>5 DEF Alone
    <2> QED
      BY <2>1, <2>2
  <1> QED
    BY <1>3, <1>4

LEMMA PlaceAlone ==
  ASSUME TypeOK, NEW r \in Runs, Handles(r), Alone(r),
         Displace(r) \/ Rename(r) \/ CleanPart(r)
  PROVE  Alone(r)'
  <1>1. /\ UNCHANGED <<service, crc, mingled, etag, task, offset>>
        /\ pc[r] \in {"place", "rename", "clean", "discard"} /\ etag[r] \in Versions
    BY DEF Displace, Rename, CleanPart, object_vars, range_vars, history_vars, TypeOK
  <1>2. \A n \in Ranges : task[r][n] # "open"
    BY <1>1 DEF Handles
  <1>3. CASE Displace(r)
    <2>1. pc'[r] = "rename" /\ temp' = temp /\ pc[r] = "place"
      BY <1>3 DEF Displace, TypeOK
    <2> QED
      BY <1>1, <1>2, <2>1 DEF Alone, Accepted, Private
  <1>4. CASE Rename(r)
    <2>1. pc'[r] = "clean" /\ dest' = temp[etag[r]] /\ pc[r] = "rename"
      BY <1>4 DEF Rename, Temp, Base, TypeOK
    <2> QED
      BY <1>1, <1>2, <2>1 DEF Alone, Accepted, Private
  <1>5. CASE CleanPart(r)
    <2>1. pc' = pc /\ UNCHANGED <<temp, dest>> /\ pc[r] \in {"clean", "discard"}
      BY <1>5 DEF CleanPart
    <2> QED
      BY <1>1, <1>2, <2>1 DEF Alone, Accepted, Private
  <1> QED
    BY <1>3, <1>4, <1>5

LEMMA CleanedAlone ==
  ASSUME TypeOK, NEW r \in Runs, Handles(r), Alone(r), Cleaned(r)
  PROVE  Alone(r)'
  <1>1. /\ UNCHANGED <<service, crc, mingled, dest, temp>> /\ service \in {"tos", "adrive"}
        /\ pc[r] = "clean" /\ \A n \in Ranges : task[r][n] # "open"
    BY DEF Cleaned, object_vars, history_vars, TypeOK, Handles
  <1>2. CASE service = "tos"
    <2>1. pc'[r] = "ended" /\ etag'[r] = etag[r] /\ \A n \in Ranges : task'[r][n] = "todo"
      BY <1>2 DEF Cleaned, Leave, TypeOK
    <2> QED
      BY <1>1, <1>2, <2>1 DEF Alone, Accepted, Private
  <1>3. CASE service = "adrive"
    <2>1. pc'[r] = "verify" /\ UNCHANGED <<etag, task>>
      BY <1>3 DEF Cleaned, range_vars, TypeOK
    <2> QED
      BY <1>1, <1>3, <2>1 DEF Alone, Accepted, Private, Target
  <1> QED
    BY <1>1, <1>2, <1>3

LEMMA AssemblySolitary ==
  ASSUME TypeOK, AllHandles, Solitary, NEW r \in Runs,
         \/ BeginAssembly(r) \/ CopyPart(r) \/ CopyFails(r) \/ VerifyTemp(r)
         \/ Displace(r) \/ Rename(r) \/ RenameFails(r) \/ CleanPart(r) \/ Cleaned(r)
         \/ Discard(r) \/ VerifyDest(r) \/ Kill(r)
  PROVE  Solitary'
  <1>1. RunStep(r)
    BY DEF RunStep, Step
  <1>2. Handles(r) /\ (~mingled => PartsKept) /\ (alone = r => Alone(r))
    BY DEF AllHandles, Solitary
  <1>3. ~mingled => PartsKept'
    <2>1. CASE CleanPart(r)
      <3>1. Remove(r, {next[r]}) /\ {next[r]} \in SUBSET Ranges
        BY <2>1, SizeNat DEF CleanPart, TypeOK, Ranges
      <3> QED
        BY <1>2, <3>1, RemoveKeeps
    <2>2. CASE ~CleanPart(r)
      <3>1. part' = part
        BY <2>2 DEF BeginAssembly, CopyPart, CopyFails, VerifyTemp, Displace, Rename,
                    RenameFails, Cleaned, Discard, VerifyDest, Kill
      <3> QED
        BY <1>2, <3>1 DEF PartsKept
    <2> QED
      BY <2>1, <2>2
  <1>4. alone = r => Alone(r)'
    <2>1. CASE CopyFails(r) \/ RenameFails(r) \/ Discard(r) \/ Kill(r)
      BY <2>1, LeaveDown DEF CopyFails, RenameFails, Discard, Kill
    <2> QED
      BY <1>2, <2>1, BeginAlone, CopyAlone, VerifyAlone, PlaceAlone, CleanedAlone
  <1> QED
    BY <1>1, <1>3, <1>4, OneSolitary

LEMMA InitSolitary == Init => Solitary
  <1> SUFFICES ASSUME Init PROVE Solitary
    OBVIOUS
  <1>1. Live = {} /\ alone = 0 /\ 0 \notin Runs
    BY BoundsAssumption DEF Init, Live, Runs
  <1>2. \A v \in Versions, n \in Ranges : part[v][n] = Absent
    BY DEF Init
  <1>3. \A r \in Runs, n \in Ranges : task[r][n] = "todo"
    BY DEF Init
  <1> QED
    BY <1>1, <1>2, <1>3 DEF Solitary, Lonely, PartsKept

LEMMA StepSolitary == IInv /\ Solitary /\ [Next]_vars => Solitary'
  <1> SUFFICES ASSUME TypeOK, AllHandles, Solitary, [Next]_vars PROVE Solitary'
    BY DEF IInv
  <1>1. ASSUME NEW r \in Runs, Launch(r) PROVE Solitary'
    BY <1>1, LaunchSolitary
  <1>2. ASSUME NEW r \in Runs, RunStep(r) PROVE Solitary'
    BY <1>2, RangesSolitary, AssemblySolitary DEF RunStep, Step
  <1>3. CASE PowerLoss
    <2>1. /\ \A r \in Runs : pc'[r] = "down"
          /\ \A r \in Runs : \A n \in Ranges : task'[r][n] = "todo"
          /\ mingled' = TRUE
      BY <1>3 DEF PowerLoss
    <2>2. Live' = {}
      BY <2>1 DEF Live
    <2>3. \A r \in Runs : Alone(r)'
      BY <2>1, DownAlone
    <2> QED
      BY <2>1, <2>2, <2>3 DEF Solitary, Lonely
  <1>4. CASE Overwrite \/ UNCHANGED vars
    <2>1. UNCHANGED <<service, crc, part, temp, dest, pc, etag, task, offset, astray,
                      output, next, pos, alone, mingled>>
      BY <1>4 DEF Overwrite, vars, range_vars, assembly_vars, history_vars
    <2>2. Live' = Live
      BY <2>1 DEF Live
    <2> QED
      BY <2>1, <2>2 DEF Solitary, Lonely, PartsKept, Alone, Accepted, Private, Target
  <1> QED
    BY <1>1, <1>2, <1>3, <1>4 DEF Next, RunStep

LEMMA EverSolitary == Spec => []Solitary
  <1> QED
    BY InitSolitary, StepSolitary, Invariant, PTL DEF Spec

\* A run that was alone and reports success has saved the version it is pinned
\* to, whatever it found: for any number of ranges and blocks, however many
\* runs, kills and power losses came before it.
THEOREM SuccessSavesWhole == Spec => []SuccessIsWhole
  <1>1. Solitary => SuccessIsWhole
    BY DEF Solitary, Alone, Accepted, SuccessIsWhole
  <1> QED
    BY <1>1, EverSolitary, PTL

\* Only these steps change the destination.
LEMMA DestChangers ==
  ASSUME TypeOK, [Next]_vars, dest' # dest, ~PowerLoss
  PROVE  \E r \in Live :
            \/ BeginAssembly(r) \/ CopyPart(r) \/ Displace(r) \/ Rename(r) \/ VerifyDest(r)
  <1>1. ASSUME NEW r \in Runs, RunStep(r)
        PROVE  /\ r \in Live
               /\ \/ BeginAssembly(r) \/ CopyPart(r) \/ Displace(r) \/ Rename(r)
                  \/ VerifyDest(r)
    <2>1. ~(\E n \in Ranges : \/ Check(r, n) \/ Create(r, n) \/ Receive(r, n)
                              \/ Retry(r, n) \/ PartFails(r, n))
      BY DEF Check, Create, Receive, Retry, PartFails
    <2>2. ~(\/ CopyFails(r) \/ VerifyTemp(r) \/ RenameFails(r) \/ CleanPart(r)
            \/ Cleaned(r) \/ Discard(r) \/ Kill(r))
      BY DEF CopyFails, VerifyTemp, RenameFails, CleanPart, Cleaned, Discard, Kill
    <2> QED
      BY <1>1, <2>1, <2>2, RunAlive DEF RunStep, Step
  <1>2. ~(\E r \in Runs : Launch(r)) /\ ~Overwrite /\ ~UNCHANGED vars
    BY DEF Launch, Overwrite, vars
  <1> QED
    BY <1>1, <1>2 DEF Next, RunStep

\* ve-tos: as long as runs are alone, each of their steps leaves the destination
\* whole, or for a moment absent.  What a power loss makes of an unsynced
\* destination is excluded.
THEOREM DestinationNotTorn == Spec => NeverTorn
  <1> DEFINE Untorn ==
        service = "tos" /\ Live = {alone} /\ (crc \/ ~mingled) /\ dest' # dest /\ ~PowerLoss
          => dest' = Absent \/ \E v \in Versions : dest' = Whole(v)
  <1>1. IInv /\ Solitary /\ [Next]_vars => Untorn
    <2> SUFFICES ASSUME TypeOK, Solitary, [Next]_vars, service = "tos", Live = {alone},
                        crc \/ ~mingled, dest' # dest, ~PowerLoss
                 PROVE  dest' = Absent \/ \E v \in Versions : dest' = Whole(v)
      BY DEF IInv
    <2>1. PICK r \in Live :
            BeginAssembly(r) \/ CopyPart(r) \/ Displace(r) \/ Rename(r) \/ VerifyDest(r)
      BY DestChangers
    <2>2. r = alone /\ r \in Runs /\ etag[r] \in Versions
      BY <2>1 DEF Live, TypeOK
    <2>3. Alone(r) /\ Accepted(r)
      BY <2>2 DEF Solitary, Alone
    <2>4. ~BeginAssembly(r) /\ ~VerifyDest(r)
      BY DEF BeginAssembly, VerifyDest
    <2>5. CASE CopyPart(r)
      BY <2>3, <2>5 DEF CopyPart, Copied, Alone
    <2>6. CASE Displace(r)
      BY <2>6 DEF Displace
    <2>7. CASE Rename(r)
      BY <2>2, <2>3, <2>7 DEF Rename, Temp, Base, Accepted
    <2> QED
      BY <2>1, <2>4, <2>5, <2>6, <2>7
  <1>2. IInv /\ Solitary /\ [Next]_vars => [Untorn]_vars
    BY <1>1
  <1>3. Spec => [][Untorn]_vars
    BY <1>2, Invariant, EverSolitary, PTL DEF Spec
  <1> QED
    BY <1>3 DEF NeverTorn

=============================================================================
