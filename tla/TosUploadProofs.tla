---------------------------- MODULE TosUploadProofs ----------------------------
(* Proofs that overlapping and repeated transfers never work on one checkpoint *)
(* and never publish parts of different versions.                              *)
(*                                                                             *)
(* Requests are in flight only while parts are transferred, under a known      *)
(* upload (Uploading); whoever works holds the lock of its checkpoint          *)
(* (Locked); and what is saved, held or answered for a version is of that      *)
(* version, unless a local file was replaced under a run (VersionKept).        *)
(*                                                                             *)
(* What a checkpoint says, or will say when a power loss takes back what was   *)
(* not synced, is true because each names an upload of its own and the run     *)
(* working on it remembers what it saved (Books), and because nothing still    *)
(* under way can undo a part that is counted (Stock).                          *)
EXTENDS TosUpload, FiniteSetTheorems, TLAPS

-----------------------------------------------------------------------------
(* The inductive invariant. *)

UploadingFor(r) ==
    /\ pc[r] \in {"created", "list", "upload", "completed"} => memory[r].id \in Ids
    /\ pc[r] # "upload" => flight[r] = NoParts

Uploading == \A r \in Runs : UploadingFor(r)

Locked == \A r \in Runs : pc[r] \in Working => lock[PathOf(stamp[r])] = r

\* Versions no run was reading while they were replaced.
Steady(v) == Guarded \/ v \notin disturbed

Pure(v, parts) == \A p \in Parts : parts[p] \in {None, v}

\* What the checkpoint file of a version holds, or may hold after a power loss.
Contents(v) == (former[v] \cup {disk[v]}) \ {None, Torn}

SavedPure == \A v \in Versions : Steady(v) => \A c \in Contents(v) : Pure(v, c.parts)

HeldPure(r) ==
    Steady(stamp[r]) =>
        /\ pc[r] \in Working => Pure(stamp[r], memory[r].parts)
        /\ \A p \in Parts : flight[r][p] \in {None, Sent, stamp[r]}

Current(r) ==
    ~Guarded /\ pc[r] \in Transferring => source = stamp[r] \/ stamp[r] \in disturbed

VersionKept == SavedPure /\ \A r \in Runs : HeldPure(r) /\ Current(r)

IInv == TypeOK /\ Uploading /\ Locked /\ VersionKept /\ ObjectWhole

USE DEF files

-----------------------------------------------------------------------------
(* Types. *)

LEMMA Constants ==
  /\ 1 \in Versions /\ Versions \subseteq Nat /\ Parts \subseteq Nat /\ Ids \subseteq Nat
  /\ None \notin Versions /\ None \notin Ids /\ None \notin Runs /\ Sent \notin Versions
  /\ None # Sent /\ None # Torn
  BY Bounds, Distinct DEF Versions, Parts, Ids

LEMMA EmptyTypes == NoParts \in Etags /\ NewCheckpoint \in Checkpoint
  BY DEF NoParts, Etags, NewCheckpoint, Checkpoint

LEMMA InitTypes == Init => TypeOK /\ Uploading
  <1> SUFFICES ASSUME Init PROVE TypeOK /\ Uploading
    OBVIOUS
  <1>1. NoParts \in [Parts -> Versions \cup {None, Sent}]
    BY DEF NoParts
  <1>2. [r \in Runs |-> NoParts] \in [Runs -> [Parts -> Versions \cup {None, Sent}]]
    BY <1>1
  <1>3. [i \in Ids |-> [state |-> "unused", parts |-> NoParts]]
           \in [Ids -> [state : {"unused", "open", "done"}, parts : Etags]]
    BY EmptyTypes
  <1>4. MaxFaults \in Nat
    BY Bounds
  <1>5. /\ command \in Commands /\ source \in Versions /\ disturbed \subseteq Versions
        /\ blocking \in BOOLEAN /\ spent \in 0..MaxFaults /\ leaking \in Nat
    <2>1. spent = 0 /\ leaking = 0
      BY DEF Init
    <2>2. spent \in 0..MaxFaults /\ leaking \in Nat
      BY <1>4, <2>1
    <2> QED
      BY <2>2, Constants DEF Init
  <1>6. /\ disk \in [Versions -> Checkpoint \cup {None, Torn}]
        /\ former \in [Versions -> SUBSET (Checkpoint \cup {None, Torn})]
        /\ lock \in [Versions -> Runs \cup {None}]
        /\ pc \in [Runs -> Working \cup {"idle", "probed", "skipped", "done"}]
        /\ stamp \in [Runs -> Versions]
    BY Constants DEF Init
  <1>7. memory \in [Runs -> Checkpoint]
    BY EmptyTypes DEF Init
  <1>8. TypeOK
    BY <1>2, <1>3, <1>5, <1>6, <1>7 DEF Init, TypeOK
  <1> QED
    BY <1>8 DEF Init, Uploading, UploadingFor

\* The values a run holds.
RunTypes(r) ==
    /\ stamp[r] \in Versions /\ PathOf(stamp[r]) \in Versions /\ Identity(r) \in Versions
    /\ PathOf(Identity(r)) \in Versions
    /\ memory[r] \in Checkpoint /\ memory[r].id \in Ids \cup {None} /\ memory[r].parts \in Etags
    /\ flight[r] \in [Parts -> Versions \cup {None, Sent}]
    /\ pc[r] \in Working \cup {"idle", "probed", "skipped", "done"}

LEMMA RunValues == TypeOK => \A r \in Runs : RunTypes(r)
  BY DEF TypeOK, RunTypes, PathOf, Identity, Checkpoint

LEMMA RewriteTypes ==
  ASSUME TypeOK, NEW path \in Versions, NEW content \in Checkpoint \cup {None},
         Rewrite(path, content)
  PROVE  /\ disk' \in [Versions -> Checkpoint \cup {None, Torn}]
         /\ former' \in [Versions -> SUBSET (Checkpoint \cup {None, Torn})]
         /\ disk'[path] = content /\ former'[path] = former[path] \cup {disk[path]}
         /\ \A v \in Versions \ {path} : disk'[v] = disk[v] /\ former'[v] = former[v]
  BY DEF Rewrite, TypeOK

LEMMA SaveTypes ==
  ASSUME TypeOK, NEW r \in Runs, NEW checkpoint \in Checkpoint, Save(r, checkpoint)
  PROVE  /\ memory' \in [Runs -> Checkpoint]
         /\ disk' \in [Versions -> Checkpoint \cup {None, Torn}]
         /\ former' \in [Versions -> SUBSET (Checkpoint \cup {None, Torn})]
         /\ memory'[r] = checkpoint
         /\ \A q \in Runs \ {r} : memory'[q] = memory[q]
         /\ disk'[PathOf(stamp[r])] = checkpoint
         /\ former'[PathOf(stamp[r])] = former[PathOf(stamp[r])] \cup {disk[PathOf(stamp[r])]}
         /\ \A v \in Versions \ {PathOf(stamp[r])} : disk'[v] = disk[v] /\ former'[v] = former[v]
  <1>1. PathOf(stamp[r]) \in Versions /\ Rewrite(PathOf(stamp[r]), checkpoint)
        /\ memory' = [memory EXCEPT ![r] = checkpoint]
    BY RunValues DEF Save, RunTypes
  <1> QED
    BY <1>1, RewriteTypes DEF TypeOK

\* The requests a run leaves behind are those of the upload it knows.
LEMMA OnTheWayTypes ==
  ASSUME TypeOK, Uploading, NEW r \in Runs
  PROVE  OnTheWay(r) \subseteq [id : Ids, part : Parts, etag : Versions]
  <1> SUFFICES ASSUME NEW p \in Parts, flight[r][p] = Sent
               PROVE  [id |-> memory[r].id, part |-> p, etag |-> Identity(r)]
                         \in [id : Ids, part : Parts, etag : Versions]
    BY DEF OnTheWay
  <1>1. flight[r] # NoParts
    BY Constants DEF NoParts
  <1>2. memory[r].id \in Ids
    BY <1>1 DEF Uploading, UploadingFor
  <1> QED
    BY <1>2, RunValues DEF RunTypes

LEMMA StopTypes ==
  ASSUME TypeOK, Uploading, NEW r \in Runs, Stop(r)
  PROVE  /\ pc' \in [Runs -> Working \cup {"idle", "probed", "skipped", "done"}]
         /\ stamp' \in [Runs -> Versions]
         /\ memory' \in [Runs -> Checkpoint]
         /\ flight' \in [Runs -> [Parts -> Versions \cup {None, Sent}]]
         /\ late' \subseteq [id : Ids, part : Parts, etag : Versions]
         /\ Uploading'
  <1>1. NoParts \in [Parts -> Versions \cup {None, Sent}]
    BY DEF NoParts
  <1> QED
    BY <1>1, OnTheWayTypes, EmptyTypes, Constants DEF Stop, TypeOK, Uploading, UploadingFor

LEMMA UnlockTypes ==
  ASSUME TypeOK, NEW r \in Runs, Unlock(r)
  PROVE  lock' \in [Versions -> Runs \cup {None}]
  BY RunValues DEF Unlock, TypeOK, RunTypes

LEMMA FullAbandonTypes ==
  ASSUME TypeOK, Uploading, NEW r \in Runs, Abandon(r)
  PROVE  /\ pc' \in [Runs -> Working \cup {"idle", "probed", "skipped", "done"}]
         /\ stamp' \in [Runs -> Versions]
         /\ memory' \in [Runs -> Checkpoint]
         /\ flight' \in [Runs -> [Parts -> Versions \cup {None, Sent}]]
         /\ late' \subseteq [id : Ids, part : Parts, etag : Versions]
         /\ lock' \in [Versions -> Runs \cup {None}]
         /\ UNCHANGED files
         /\ Uploading'
  BY StopTypes, UnlockTypes DEF Abandon

LEMMA StrikeTypes ==
  ASSUME TypeOK, NEW kind, NEW n \in Nat, Strike(kind, n)
  PROVE  spent' \in 0..MaxFaults /\ leaking' \in Nat /\ blocking' \in BOOLEAN
  <1>1. MaxFaults \in Nat /\ spent \in 0..MaxFaults /\ leaking \in Nat /\ spent < MaxFaults
    BY Bounds DEF TypeOK, Strike
  <1>2. spent' = spent + 1 /\ leaking' = leaking + n /\ blocking' \in BOOLEAN
    BY DEF Strike
  <1> QED
    BY <1>1, <1>2

LEMMA UnsavedTypes == \A r \in Runs : Unsaved(r) \in Nat
  BY DEF Unsaved

\* How many ids a power loss can cost.
LEMMA PowerCounts ==
  /\ IsFiniteSet({v \in Versions : Forgets(v)}) /\ IsFiniteSet({r \in Runs : pc[r] = "created"})
  /\ Cardinality({v \in Versions : Forgets(v)}) \in Nat
  /\ Cardinality({r \in Runs : pc[r] = "created"}) \in Nat
  <1>1. IsFiniteSet(Versions) /\ IsFiniteSet(Runs)
    BY Bounds, Finite, FS_Interval DEF Versions
  <1> DEFINE F == {v \in Versions : Forgets(v)}
             C == {r \in Runs : pc[r] = "created"}
  <1>2. F \subseteq Versions /\ C \subseteq Runs
    OBVIOUS
  <1> HIDE DEF F, C
  <1>3. IsFiniteSet(F) /\ IsFiniteSet(C)
    BY <1>1, <1>2, FS_Subset
  <1>4. Cardinality(F) \in Nat /\ Cardinality(C) \in Nat
    BY <1>3, FS_CardinalityType
  <1> QED
    BY <1>3, <1>4 DEF F, C

LEMMA PowerTypes ==
  ASSUME TypeOK, PowerLoss
  PROVE  /\ disk' \in [Versions -> Checkpoint \cup {None, Torn}]
         /\ \A v \in Versions : disk'[v] \in Survivors(v) /\ former'[v] = {}
         /\ former' \in [Versions -> SUBSET (Checkpoint \cup {None, Torn})]
         /\ lock' \in [Versions -> Runs \cup {None}]
         /\ spent' \in 0..MaxFaults /\ leaking' \in Nat /\ blocking' \in BOOLEAN
  <1>1. \A v \in Versions : Survivors(v) \subseteq Checkpoint \cup {None, Torn}
    BY DEF Survivors, TypeOK
  <1>2. /\ disk' \in [Versions -> UNION {Survivors(v) : v \in Versions}]
        /\ \A v \in Versions : disk'[v] \in Survivors(v)
        /\ former' = [v \in Versions |-> {}]
        /\ lock' \in [Versions -> Runs \cup {None}]
    BY DEF PowerLoss
  <1>3. disk' \in [Versions -> Checkpoint \cup {None, Torn}]
    BY <1>1, <1>2
  <1> DEFINE n == Cardinality({v \in Versions : Forgets(v)})
                    + Cardinality({r \in Runs : pc[r] = "created"})
  <1>4. n \in Nat
    BY PowerCounts
  <1>5. Strike("power", n)
    BY DEF PowerLoss
  <1> HIDE DEF n
  <1> QED
    BY <1>2, <1>3, <1>4, <1>5, StrikeTypes

LEMMA FreshTypes ==
  ASSUME TypeOK, NEW i \in Ids, FreshUpload(i)
  PROVE  uploads' \in [Ids -> [state : {"unused", "open", "done"}, parts : Etags]]
  BY DEF FreshUpload, TypeOK

LEMMA StoredTypes ==
  ASSUME TypeOK, NEW i \in Ids, NEW p \in Parts, NEW v \in Versions,
         uploads' = [uploads EXCEPT ![i].parts[p] = v]
  PROVE  uploads' \in [Ids -> [state : {"unused", "open", "done"}, parts : Etags]]
  <1>1. uploads[i] \in [state : {"unused", "open", "done"}, parts : Etags]
    BY DEF TypeOK
  <1>2. [uploads[i].parts EXCEPT ![p] = v] \in Etags
    BY <1>1 DEF Etags
  <1>3. [uploads[i] EXCEPT !.parts = [uploads[i].parts EXCEPT ![p] = v]]
           \in [state : {"unused", "open", "done"}, parts : Etags]
    BY <1>1, <1>2
  <1> QED
    BY <1>3 DEF TypeOK

LEMMA PublishTypes ==
  ASSUME TypeOK, Uploading, NEW r \in Runs, Transferred(r), Publish(r)
  PROVE  /\ uploads' \in [Ids -> [state : {"unused", "open", "done"}, parts : Etags]]
         /\ object' \in {None, Foreign} \cup [stamp : Versions, parts : Etags]
  <1>1. memory[r].id \in Ids
    BY DEF Transferred, Uploading, UploadingFor
  <1>2. uploads[memory[r].id] \in [state : {"unused", "open", "done"}, parts : Etags]
    BY <1>1 DEF TypeOK
  <1>3. [uploads[memory[r].id] EXCEPT !.state = "done"]
           \in [state : {"unused", "open", "done"}, parts : Etags]
    BY <1>2
  <1>4. uploads' \in [Ids -> [state : {"unused", "open", "done"}, parts : Etags]]
    BY <1>1, <1>3 DEF Publish, TypeOK
  <1>5. [stamp |-> stamp[r], parts |-> memory[r].parts] \in [stamp : Versions, parts : Etags]
    BY RunValues DEF RunTypes
  <1> QED
    BY <1>4, <1>5 DEF Publish

LEMMA PartTypes ==
  ASSUME NEW c \in Checkpoint, NEW p \in Parts, NEW v \in Versions \cup {None}
  PROVE  /\ [c EXCEPT !.parts[p] = v] \in Checkpoint
         /\ [c EXCEPT !.parts[p] = v].id = c.id
         /\ \A q \in Parts : [c EXCEPT !.parts[p] = v].parts[q] =
                                IF q = p THEN v ELSE c.parts[q]
  <1>1. c.parts \in Etags
    BY DEF Checkpoint
  <1>2. [c.parts EXCEPT ![p] = v] \in Etags
    BY <1>1 DEF Etags
  <1>3. [c EXCEPT !.parts[p] = v] = [c EXCEPT !.parts = [c.parts EXCEPT ![p] = v]]
    OBVIOUS
  <1>4. [c EXCEPT !.parts[p] = v].parts = [c.parts EXCEPT ![p] = v]
    BY <1>3 DEF Checkpoint
  <1>5. [c EXCEPT !.parts[p] = v] \in Checkpoint
    BY <1>2, <1>3 DEF Checkpoint
  <1> QED
    BY <1>1, <1>4, <1>5 DEF Etags, Checkpoint

\* Each step keeps the types.  The variables a step leaves alone are typed as
\* before; the others are typed by the lemmas above.
LEMMA ProbeTypes ==
  ASSUME TypeOK, Uploading, NEW r \in Runs, Skip(r) \/ Proceed(r) \/ Refused(r)
  PROVE  TypeOK' /\ Uploading'
  <1>1. CASE Skip(r)
    BY <1>1 DEF Skip, TypeOK, Uploading, UploadingFor, service, world, fixture, Strategy
  <1>2. CASE Proceed(r)
    BY <1>2 DEF Proceed, TypeOK, Uploading, UploadingFor, service, world, fixture, Strategy
  <1>3. CASE Refused(r)
    BY <1>3 DEF Refused, TypeOK, Uploading, UploadingFor, service, world, fixture
  <1> QED
    BY <1>1, <1>2, <1>3

LEMMA ClaimTypes ==
  ASSUME TypeOK, Uploading, NEW r \in Runs, Claim(r)
  PROVE  TypeOK' /\ Uploading'
  <1> DEFINE path == PathOf(Identity(r))
  <1> DEFINE loaded == IF disk[path] = None THEN NewCheckpoint ELSE disk[path]
  <1>1. path \in Versions /\ Identity(r) \in Versions
    BY RunValues DEF RunTypes
  <1>2. loaded \in Checkpoint
    BY <1>1, EmptyTypes DEF Claim, TypeOK
  <1>3. /\ pc[r] = "probed"
        /\ memory' = [memory EXCEPT ![r] = loaded]
        /\ pc' = [pc EXCEPT ![r] = IF loaded.id = None THEN "create" ELSE "list"]
        /\ stamp' = [stamp EXCEPT ![r] = Identity(r)]
        /\ lock' = [lock EXCEPT ![path] = r]
        /\ UNCHANGED <<files, flight, late, service, world>>
    BY DEF Claim
  <1> HIDE DEF path, loaded
  <1>4. memory' \in [Runs -> Checkpoint] /\ stamp' \in [Runs -> Versions]
        /\ lock' \in [Versions -> Runs \cup {None}]
    BY <1>1, <1>2, <1>3 DEF TypeOK
  <1>5. pc' \in [Runs -> Working \cup {"idle", "probed", "skipped", "done"}]
    BY <1>3 DEF TypeOK, Working, Transferring
  <1>6. TypeOK'
    BY <1>3, <1>4, <1>5 DEF TypeOK, service, world, fixture
  <1>7. pc'[r] = "list" => loaded.id \in Ids
    BY <1>2, <1>3 DEF TypeOK, Checkpoint
  <1>8. Uploading'
    BY <1>2, <1>3, <1>7 DEF Uploading, UploadingFor, TypeOK
  <1> QED
    BY <1>6, <1>8

LEMMA CreateTypes ==
  ASSUME TypeOK, Uploading, NEW r \in Runs, Create(r)
  PROVE  TypeOK' /\ Uploading'
  <1>1. PICK i \in Ids : FreshUpload(i) /\ memory' = [memory EXCEPT ![r].id = i]
    BY DEF Create
  <1>2. [memory[r] EXCEPT !.id = i] \in Checkpoint /\ [memory[r] EXCEPT !.id = i].id = i
    BY RunValues DEF RunTypes, Checkpoint
  <1>3. /\ memory' \in [Runs -> Checkpoint] /\ memory'[r].id = i
        /\ \A q \in Runs \ {r} : memory'[q] = memory[q]
    BY <1>1, <1>2 DEF TypeOK
  <1>4. pc' \in [Runs -> Working \cup {"idle", "probed", "skipped", "done"}]
    BY DEF Create, TypeOK, Working, Transferring
  <1>5. TypeOK'
    BY <1>1, <1>3, <1>4, FreshTypes DEF Create, TypeOK, world, fixture
  <1>6. Uploading'
    BY <1>3 DEF Create, Uploading, UploadingFor, TypeOK
  <1> QED
    BY <1>5, <1>6

LEMMA SaveCreatedTypes ==
  ASSUME TypeOK, Uploading, NEW r \in Runs, SaveCreated(r)
  PROVE  TypeOK' /\ Uploading'
  <1>1. Save(r, memory[r]) /\ memory[r] \in Checkpoint
    BY RunValues DEF SaveCreated, RunTypes
  <1>2. pc' \in [Runs -> Working \cup {"idle", "probed", "skipped", "done"}]
    BY DEF SaveCreated, TypeOK, Working, Transferring
  <1>3. TypeOK'
    BY <1>1, <1>2, SaveTypes DEF SaveCreated, TypeOK, service, world, fixture
  <1>4. \A q \in Runs : memory'[q] = memory[q]
    BY <1>1, SaveTypes
  <1>5. Uploading'
    BY <1>4 DEF SaveCreated, Uploading, UploadingFor, TypeOK
  <1> QED
    BY <1>3, <1>5

LEMMA ListTypes ==
  ASSUME TypeOK, Uploading, NEW r \in Runs, List(r)
  PROVE  TypeOK' /\ Uploading'
  <1> DEFINE parts == [p \in Parts |-> IF UploadOf(r).parts[p] = None
                                       THEN None ELSE memory[r].parts[p]]
  <1>1. parts \in Etags
    BY RunValues DEF RunTypes, Etags
  <1>2. [memory[r] EXCEPT !.parts = parts] \in Checkpoint
        /\ [memory[r] EXCEPT !.parts = parts].id = memory[r].id
    BY <1>1, RunValues DEF RunTypes, Checkpoint
  <1>3. Save(r, [memory[r] EXCEPT !.parts = parts])
    BY DEF List
  <1> HIDE DEF parts
  <1>4. pc' \in [Runs -> Working \cup {"idle", "probed", "skipped", "done"}]
    BY DEF List, TypeOK, Working, Transferring
  <1>5. TypeOK'
    BY <1>2, <1>3, <1>4, SaveTypes DEF List, TypeOK, service, world, fixture
  <1>6. ASSUME NEW q \in Runs PROVE UploadingFor(q)'
    <2>1. CASE q = r
      <3>1. memory'[r].id \in Ids
        BY <1>2, <1>3, SaveTypes DEF List, Uploading, UploadingFor
      <3> QED
        BY <2>1, <3>1 DEF List, Uploading, UploadingFor, TypeOK
    <2>2. CASE q # r
      <3>1. memory'[q] = memory[q]
        BY <1>2, <1>3, <2>2, SaveTypes
      <3> QED
        BY <2>2, <3>1 DEF List, Uploading, UploadingFor, TypeOK
    <2> QED
      BY <2>1, <2>2
  <1> QED
    BY <1>5, <1>6 DEF Uploading

LEMMA SendTypes ==
  ASSUME TypeOK, Uploading, NEW r \in Runs, Send(r)
  PROVE  TypeOK' /\ Uploading'
  <1>1. PICK p \in Parts : flight' = [flight EXCEPT ![r][p] = Sent]
    BY DEF Send, Pending
  <1>2. [flight[r] EXCEPT ![p] = Sent] \in [Parts -> Versions \cup {None, Sent}]
    BY RunValues DEF RunTypes
  <1>3. flight' \in [Runs -> [Parts -> Versions \cup {None, Sent}]]
    BY <1>1, <1>2 DEF TypeOK
  <1> QED
    BY <1>1, <1>3 DEF Send, TypeOK, Uploading, UploadingFor, service, world, fixture

LEMMA StoreTypes ==
  ASSUME TypeOK, Uploading, NEW r \in Runs, NEW p \in Parts, Store(r, p)
  PROVE  TypeOK' /\ Uploading'
  <1>1. flight[r] # NoParts
    BY Constants DEF NoParts, Store
  <1>2. memory[r].id \in Ids /\ pc[r] = "upload"
    BY <1>1 DEF Uploading, UploadingFor
  <1>3. source \in Versions
    BY DEF TypeOK
  <1>4. [flight[r] EXCEPT ![p] = source] \in [Parts -> Versions \cup {None, Sent}]
    BY <1>3, RunValues DEF RunTypes
  <1>5. flight' \in [Runs -> [Parts -> Versions \cup {None, Sent}]]
    BY <1>4 DEF Store, TypeOK
  <1>6. uploads' \in [Ids -> [state : {"unused", "open", "done"}, parts : Etags]]
    BY <1>2, <1>3, StoredTypes DEF Store
  <1> QED
    BY <1>2, <1>5, <1>6 DEF Store, TypeOK, Uploading, UploadingFor, world, fixture

LEMMA RecordTypes ==
  ASSUME TypeOK, Uploading, NEW r \in Runs, NEW p \in Parts, Record(r, p)
  PROVE  TypeOK' /\ Uploading'
  <1> DEFINE c == [memory[r] EXCEPT !.parts[p] = flight[r][p]]
  <1>1. c \in Checkpoint /\ c.id = memory[r].id
    BY RunValues, PartTypes DEF RunTypes, Record
  <1>2. [flight[r] EXCEPT ![p] = None] \in [Parts -> Versions \cup {None, Sent}]
    BY RunValues DEF RunTypes
  <1>3. flight' \in [Runs -> [Parts -> Versions \cup {None, Sent}]]
    BY <1>2 DEF Record, TypeOK
  <1>4. Save(r, c)
    BY DEF Record
  <1> HIDE DEF c
  <1>5. TypeOK'
    BY <1>1, <1>3, <1>4, SaveTypes DEF Record, TypeOK, service, world, fixture
  <1>6. Uploading'
    BY <1>1, <1>4, SaveTypes DEF Record, Uploading, UploadingFor, TypeOK
  <1> QED
    BY <1>5, <1>6

LEMMA EndTypes ==
  ASSUME TypeOK, Uploading, NEW r \in Runs, Complete(r) \/ Finish(r) \/ Rejected(r)
  PROVE  TypeOK' /\ Uploading'
  <1>1. CASE Complete(r)
    <2>1. pc' \in [Runs -> Working \cup {"idle", "probed", "skipped", "done"}]
      BY <1>1 DEF Complete, TypeOK, Working
    <2>2. TypeOK'
      BY <1>1, <2>1, PublishTypes DEF Complete, TypeOK, world, fixture
    <2>3. Uploading'
      BY <1>1 DEF Complete, Transferred, TypeOK, Uploading, UploadingFor
    <2> QED
      BY <2>2, <2>3
  <1>2. CASE Finish(r)
    <2>1. /\ disk' \in [Versions -> Checkpoint \cup {None, Torn}]
          /\ former' \in [Versions -> SUBSET (Checkpoint \cup {None, Torn})]
      BY <1>2, RunValues, RewriteTypes DEF Finish, RunTypes
    <2>2. /\ pc' \in [Runs -> Working \cup {"idle", "probed", "skipped", "done"}]
          /\ memory' \in [Runs -> Checkpoint]
      BY <1>2, EmptyTypes DEF Finish, TypeOK
    <2>3. TypeOK'
      BY <1>2, <2>1, <2>2, UnlockTypes DEF Finish, TypeOK, service, world, fixture
    <2>4. Uploading'
      BY <1>2 DEF Finish, TypeOK, Uploading, UploadingFor
    <2> QED
      BY <2>3, <2>4
  <1>3. CASE Rejected(r)
    <2>1. Abandon(r) /\ UNCHANGED <<service, world>>
      BY <1>3 DEF Rejected
    <2> QED
      BY <2>1, FullAbandonTypes DEF TypeOK, service, world, fixture
  <1> QED
    BY <1>1, <1>2, <1>3

LEMMA RunFaultTypes ==
  ASSUME TypeOK, Uploading, NEW r \in Runs,
         RequestLost(r) \/ LockUnwritten(r) \/ OutputFails(r) \/ ReplyLost(r) \/ Killed(r)
  PROVE  TypeOK' /\ Uploading'
  <1>1. ASSUME NEW kind, NEW n \in Nat, Strike(kind, n), Abandon(r), UNCHANGED fixture,
               /\ uploads' \in [Ids -> [state : {"unused", "open", "done"}, parts : Etags]]
               /\ object' \in {None, Foreign} \cup [stamp : Versions, parts : Etags]
        PROVE  TypeOK' /\ Uploading'
    BY <1>1, StrikeTypes, FullAbandonTypes DEF TypeOK, fixture
  <1>2. CASE RequestLost(r) \/ OutputFails(r)
    <2>1. /\ uploads' \in [Ids -> [state : {"unused", "open", "done"}, parts : Etags]]
          /\ object' \in {None, Foreign} \cup [stamp : Versions, parts : Etags]
      BY <1>2 DEF RequestLost, OutputFails, TypeOK, service
    <2> QED
      BY <1>1, <1>2, <2>1, UnsavedTypes DEF RequestLost, OutputFails
  <1>3. CASE LockUnwritten(r)
    <2>1. Strike("output", 0) /\ PathOf(Identity(r)) \in Versions
      BY <1>3, RunValues DEF LockUnwritten, RunTypes
    <2>2. spent' \in 0..MaxFaults /\ leaking' \in Nat /\ blocking' \in BOOLEAN
      BY <2>1, StrikeTypes
    <2> QED
      BY <1>3, <2>1, <2>2 DEF LockUnwritten, TypeOK, Uploading, UploadingFor, service, fixture
  <1>4. CASE ReplyLost(r)
    <2>1. /\ uploads' \in [Ids -> [state : {"unused", "open", "done"}, parts : Etags]]
          /\ object' \in {None, Foreign} \cup [stamp : Versions, parts : Etags]
      BY <1>4, FreshTypes, PublishTypes
      DEF ReplyLost, CreateUnanswered, CompleteUnanswered, TypeOK
    <2> QED
      BY <1>1, <1>4, <2>1 DEF ReplyLost, CreateUnanswered, CompleteUnanswered
  <1>5. CASE Killed(r)
    <2>1. /\ Stop(r) /\ Strike("kill", Unsaved(r))
          /\ UNCHANGED <<files, lock, service, fixture>>
      BY <1>5 DEF Killed
    <2> QED
      BY <2>1, StopTypes, StrikeTypes, UnsavedTypes DEF TypeOK, service, fixture
  <1> QED
    BY <1>2, <1>3, <1>4, <1>5

LEMMA WorldTypes ==
  ASSUME TypeOK, Uploading, PowerLoss \/ Edit \/ OtherWrites \/ StoreLate \/ UNCHANGED vars
  PROVE  TypeOK' /\ Uploading'
  <1>1. CASE PowerLoss
    <2>1. NoParts \in [Parts -> Versions \cup {None, Sent}]
      BY DEF NoParts
    <2>2. /\ stamp' \in [Runs -> Versions] /\ memory' \in [Runs -> Checkpoint]
      BY <1>1, EmptyTypes, Constants DEF PowerLoss
    <2>3. pc' \in [Runs -> Working \cup {"idle", "probed", "skipped", "done"}]
      BY <1>1 DEF PowerLoss, TypeOK, Working
    <2>4. flight' \in [Runs -> [Parts -> Versions \cup {None, Sent}]]
      BY <1>1, <2>1 DEF PowerLoss
    <2>5. TypeOK'
      BY <1>1, <2>2, <2>3, <2>4, PowerTypes DEF PowerLoss, TypeOK, service, fixture
    <2>6. Uploading'
      BY <1>1 DEF PowerLoss, TypeOK, Uploading, UploadingFor, Working, Transferring
    <2> QED
      BY <2>5, <2>6
  <1>2. CASE Edit
    <2>1. source' \in Versions
      BY <1>2, Bounds DEF Edit, TypeOK, Versions
    <2>2. disturbed' \subseteq Versions
      BY <1>2, RunValues DEF Edit, TypeOK, RunTypes
    <2> QED
      BY <1>2, <2>1, <2>2, StrikeTypes DEF Edit, TypeOK, Uploading, UploadingFor, service
  <1>3. CASE OtherWrites
    BY <1>3, StrikeTypes DEF OtherWrites, TypeOK, Uploading, UploadingFor, fixture
  <1>4. CASE StoreLate
    <2>1. PICK m \in late : /\ uploads' = [uploads EXCEPT ![m.id].parts[m.part] = m.etag]
                            /\ late' = late \ {m}
      BY <1>4 DEF StoreLate
    <2>2. m \in [id : Ids, part : Parts, etag : Versions]
      BY DEF TypeOK
    <2>3. m.id \in Ids /\ m.part \in Parts /\ m.etag \in Versions
      BY <2>2
    <2>4. uploads' \in [Ids -> [state : {"unused", "open", "done"}, parts : Etags]]
      BY <2>1, <2>3, StoredTypes
    <2>5. late' \subseteq [id : Ids, part : Parts, etag : Versions]
      BY <2>1 DEF TypeOK
    <2> QED
      BY <1>4, <2>4, <2>5 DEF StoreLate, TypeOK, Uploading, UploadingFor, world, fixture
  <1>5. CASE UNCHANGED vars
    BY <1>5 DEF vars, TypeOK, Uploading, UploadingFor
  <1> QED
    BY <1>1, <1>2, <1>3, <1>4, <1>5

LEMMA StepTypes == TypeOK /\ Uploading /\ [Next]_vars => TypeOK' /\ Uploading'
  <1> SUFFICES ASSUME TypeOK, Uploading, [Next]_vars PROVE TypeOK' /\ Uploading'
    OBVIOUS
  <1>1. ASSUME NEW r \in Runs, Step(r) PROVE TypeOK' /\ Uploading'
    BY <1>1, ProbeTypes, ClaimTypes, CreateTypes, SaveCreatedTypes, ListTypes, SendTypes, StoreTypes, RecordTypes,
       EndTypes DEF Step
  <1> QED
    BY <1>1, RunFaultTypes, WorldTypes DEF Next

-----------------------------------------------------------------------------
(* What the checkpoint files hold, or held since the last power loss. *)

\* A checkpoint is neither absent nor a file that does not parse.
LEMMA NoCheckpoint == \A c \in Checkpoint : c \notin {None, Torn}
  BY Sentinels

LEMMA ContentsTypes ==
  TypeOK => \A v \in Versions : /\ Contents(v) \subseteq Checkpoint
                                /\ Saved(v) => disk[v] \in Contents(v)
  BY DEF Contents, Saved, TypeOK

LEMMA ContentsSaved ==
  ASSUME TypeOK, NEW r \in Runs, NEW c \in Checkpoint, Save(r, c)
  PROVE  /\ stamp[r] \in Versions
         /\ \A v \in Versions :
               Contents(v)' = IF v = stamp[r] THEN Contents(v) \cup {c} ELSE Contents(v)
  <1>1. /\ stamp[r] \in Versions
        /\ disk'[stamp[r]] = c /\ former'[stamp[r]] = former[stamp[r]] \cup {disk[stamp[r]]}
        /\ \A v \in Versions \ {stamp[r]} : disk'[v] = disk[v] /\ former'[v] = former[v]
    BY SaveTypes, RunValues DEF PathOf, RunTypes
  <1>2. c \notin {None, Torn}
    BY NoCheckpoint
  <1>3. ASSUME NEW v \in Versions, v = stamp[r] PROVE Contents(v)' = Contents(v) \cup {c}
    <2>1. disk'[v] = c /\ former'[v] = former[v] \cup {disk[v]}
      BY <1>1, <1>3
    <2> QED
      BY <1>2, <2>1 DEF Contents
  <1>4. \A v \in Versions \ {stamp[r]} : Contents(v)' = Contents(v)
    BY <1>1 DEF Contents
  <1> QED
    BY <1>1, <1>3, <1>4

\* What is removed may come back.
LEMMA ContentsRemoved ==
  ASSUME TypeOK, NEW v \in Versions, Rewrite(v, None)
  PROVE  \A w \in Versions : Contents(w)' = Contents(w)
  BY RewriteTypes DEF Contents

LEMMA ContentsSurvive ==
  ASSUME TypeOK, PowerLoss
  PROVE  \A v \in Versions : Contents(v)' \subseteq Contents(v)
  <1> SUFFICES ASSUME NEW v \in Versions PROVE Contents(v)' \subseteq Contents(v)
    OBVIOUS
  <1>1. disk'[v] \in Survivors(v) /\ former'[v] = {}
    BY PowerTypes
  <1> QED
    BY <1>1 DEF Contents, Survivors

-----------------------------------------------------------------------------
(* Locks. *)

Faulty(r) ==
    RequestLost(r) \/ LockUnwritten(r) \/ OutputFails(r) \/ ReplyLost(r) \/ Killed(r)

\* A step of a run touches no other run, and a lock only if it is free or its
\* own; whatever it ends with, it holds the lock it works under.
LockRule(r) ==
    /\ \A q \in Runs \ {r} : /\ pc'[q] = pc[q] /\ stamp'[q] = stamp[q]
                             /\ memory'[q] = memory[q] /\ flight'[q] = flight[q]
    /\ \A v \in Versions : lock'[v] # lock[v] => lock[v] \in {None, r}
    /\ pc'[r] \in Working => lock'[PathOf(stamp'[r])] = r

LEMMA AbandonRule ==
  ASSUME TypeOK, Locked, NEW r \in Runs, pc[r] \in Working, Abandon(r)
  PROVE  LockRule(r)
  <1>1. lock[PathOf(stamp[r])] = r /\ PathOf(stamp[r]) \in Versions
    BY RunValues DEF Locked, RunTypes
  <1>2. pc'[r] = "idle"
    BY DEF Abandon, Stop, TypeOK
  <1> QED
    BY <1>1, <1>2 DEF Abandon, Stop, Unlock, LockRule, TypeOK, Working, Transferring

LEMMA RunRule ==
  ASSUME TypeOK, Uploading, Locked, NEW r \in Runs, Step(r) \/ Faulty(r)
  PROVE  LockRule(r)
  <1>0. RunTypes(r) /\ (pc[r] \in Working => lock[PathOf(stamp[r])] = r)
    BY RunValues DEF Locked
  <1>1. CASE Skip(r)
    BY <1>1 DEF Skip, LockRule, TypeOK, Working, Transferring
  <1>2. CASE Proceed(r)
    BY <1>2 DEF Proceed, LockRule, TypeOK, Working, Transferring
  <1>3. CASE Refused(r)
    BY <1>3 DEF Refused, LockRule, TypeOK, Working, Transferring
  <1>4. CASE Claim(r)
    <2>1. /\ stamp' = [stamp EXCEPT ![r] = Identity(r)]
          /\ lock' = [lock EXCEPT ![PathOf(Identity(r))] = r]
          /\ lock[PathOf(Identity(r))] = None
      BY <1>4 DEF Claim
    <2>2. lock'[PathOf(stamp'[r])] = r
      BY <1>0, <2>1 DEF TypeOK, RunTypes
    <2>3. \A q \in Runs \ {r} : /\ pc'[q] = pc[q] /\ stamp'[q] = stamp[q]
                                /\ memory'[q] = memory[q] /\ flight'[q] = flight[q]
      BY <1>4 DEF Claim, TypeOK
    <2>4. \A v \in Versions : lock'[v] # lock[v] => lock[v] \in {None, r}
      BY <2>1 DEF TypeOK
    <2> QED
      BY <2>2, <2>3, <2>4 DEF LockRule
  <1>5. CASE Create(r)
    BY <1>0, <1>5 DEF Create, LockRule, TypeOK, Working, Transferring
  <1>15. CASE SaveCreated(r)
    BY <1>0, <1>15 DEF SaveCreated, Save, LockRule, TypeOK, Working, Transferring
  <1>6. CASE List(r)
    BY <1>0, <1>6 DEF List, Save, LockRule, TypeOK, Working, Transferring
  <1>7. CASE Send(r)
    BY <1>0, <1>7 DEF Send, LockRule, TypeOK, Working, Transferring
  <1>8. ASSUME NEW p \in Parts, Store(r, p) PROVE LockRule(r)
    BY <1>0, <1>8 DEF Store, LockRule, TypeOK
  <1>9. ASSUME NEW p \in Parts, Record(r, p) PROVE LockRule(r)
    BY <1>0, <1>9 DEF Record, Save, LockRule, TypeOK
  <1>10. CASE Complete(r)
    BY <1>0, <1>10 DEF Complete, Transferred, LockRule, TypeOK, Working, Transferring
  <1>11. CASE Finish(r)
    BY <1>0, <1>11 DEF Finish, Unlock, LockRule, TypeOK, RunTypes, Working, Transferring
  <1>12. CASE Rejected(r)
    <2>1. Abandon(r)
      BY <1>12 DEF Rejected
    <2>2. ASSUME NEW p \in Parts, flight[r][p] = Sent PROVE pc[r] = "upload"
      BY <2>2, Constants DEF Uploading, UploadingFor, NoParts
    <2>3. pc[r] \in Working
      BY <1>12, <2>2 DEF Rejected, Transferred, Working, Transferring
    <2> QED
      BY <2>1, <2>3, AbandonRule
  <1>13. CASE RequestLost(r) \/ OutputFails(r) \/ ReplyLost(r)
    <2>1. pc[r] \in Working /\ Abandon(r)
      BY <1>13 DEF RequestLost, OutputFails, ReplyLost, CreateUnanswered, CompleteUnanswered,
                   Transferred, Working, Transferring
    <2> QED
      BY <2>1, AbandonRule
  <1>14. CASE Killed(r)
    BY <1>14 DEF Killed, Stop, LockRule, TypeOK, Working, Transferring
  <1>16. CASE LockUnwritten(r)
    BY <1>0, <1>16 DEF LockUnwritten, LockRule, TypeOK, RunTypes, Working, Transferring
  <1> QED
    BY <1>1, <1>2, <1>3, <1>4, <1>5, <1>6, <1>7, <1>8, <1>9, <1>10, <1>11, <1>12, <1>13, <1>14,
       <1>15, <1>16 DEF Step, Faulty

LEMMA StepLocked == TypeOK /\ Uploading /\ Locked /\ [Next]_vars => Locked'
  <1> SUFFICES ASSUME TypeOK, Uploading, Locked, [Next]_vars PROVE Locked'
    OBVIOUS
  <1>1. ASSUME NEW r \in Runs, Step(r) \/ Faulty(r) PROVE Locked'
    <2> SUFFICES ASSUME NEW q \in Runs, pc'[q] \in Working
                 PROVE  lock'[PathOf(stamp'[q])] = q
      BY DEF Locked, PathOf
    <2>1. LockRule(r)
      BY <1>1, RunRule
    <2>2. CASE q = r
      BY <2>1, <2>2 DEF LockRule
    <2>3. CASE q # r
      <3>1. lock[PathOf(stamp[q])] = q /\ PathOf(stamp[q]) \in Versions /\ stamp'[q] = stamp[q]
        BY <2>1, <2>3, RunValues DEF LockRule, Locked, RunTypes
      <3> QED
        BY <2>1, <2>3, <3>1, Constants DEF LockRule
    <2> QED
      BY <2>2, <2>3
  <1>2. CASE PowerLoss
    BY <1>2 DEF PowerLoss, TypeOK, Locked, Working, Transferring
  <1>3. CASE Edit \/ OtherWrites \/ StoreLate \/ UNCHANGED vars
    BY <1>3 DEF Edit, OtherWrites, StoreLate, Locked, vars
  <1> QED
    BY <1>1, <1>2, <1>3 DEF Next, Faulty

-----------------------------------------------------------------------------
(* Versions. *)

LEMMA EmptyPure == \A v : Pure(v, NoParts) /\ Pure(v, NewCheckpoint.parts)
  BY DEF Pure, NoParts, NewCheckpoint

LEMMA RunWorld ==
  ASSUME NEW r \in Runs, Step(r) \/ Faulty(r)
  PROVE  UNCHANGED <<command, source, disturbed>>
  BY DEF Step, Faulty, Skip, Proceed, Claim, Refused, Create, SaveCreated, List, Send, Store,
         Record, Complete, Finish, Rejected, RequestLost, LockUnwritten, OutputFails, ReplyLost,
         Killed, world, fixture

\* A version that is steady after a step was steady before it.
LEMMA SteadyBefore ==
  ASSUME TypeOK, [Next]_vars
  PROVE  /\ UNCHANGED command /\ disturbed \subseteq disturbed'
         /\ \A v : Steady(v)' => Steady(v)
  <1>1. ASSUME NEW r \in Runs, Step(r) \/ Faulty(r)
        PROVE  UNCHANGED command /\ disturbed \subseteq disturbed'
    BY <1>1, RunWorld
  <1>2. ASSUME PowerLoss \/ Edit \/ OtherWrites \/ StoreLate \/ UNCHANGED vars
        PROVE  UNCHANGED command /\ disturbed \subseteq disturbed'
    <2>1. CASE Edit
      BY <2>1 DEF Edit
    <2>2. CASE PowerLoss \/ OtherWrites \/ StoreLate \/ UNCHANGED vars
      <3>1. UNCHANGED <<command, disturbed>>
        BY <2>2 DEF PowerLoss, OtherWrites, StoreLate, world, fixture, vars
      <3> QED
        BY <3>1
    <2> QED
      BY <1>2, <2>1, <2>2
  <1>3. UNCHANGED command /\ disturbed \subseteq disturbed'
    BY <1>1, <1>2 DEF Next, Faulty
  <1> QED
    BY <1>3 DEF Steady, Guarded

LEMMA OthersKept ==
  ASSUME TypeOK, NEW r \in Runs, NEW q \in Runs \ {r}, LockRule(r), HeldPure(q), Current(q),
         UNCHANGED <<command, source, disturbed>>
  PROVE  HeldPure(q)' /\ Current(q)'
  BY DEF LockRule, HeldPure, Current, Steady, Guarded, Pure

\* A run that does not work and sends nothing holds nothing that matters.
LEMMA Resting ==
  ASSUME NEW r \in Runs, pc'[r] \notin Working, flight'[r] = NoParts
  PROVE  HeldPure(r)' /\ Current(r)'
  BY EmptyPure DEF HeldPure, Current, NoParts, Working

\* What a run saves is pure: the file stays so, and so does its memory.
LEMMA SavePure ==
  ASSUME TypeOK, SavedPure, NEW r \in Runs, NEW c \in Checkpoint, Save(r, c),
         UNCHANGED <<command, disturbed, stamp>>, Steady(stamp[r]) => Pure(stamp[r], c.parts)
  PROVE  SavedPure' /\ (Steady(stamp[r])' => Pure(stamp[r], memory[r].parts)')
  <1>1. \A v : Steady(v)' <=> Steady(v)
    BY DEF Steady, Guarded
  <1>2. ASSUME NEW v \in Versions, Steady(v), NEW d \in Contents(v)'
        PROVE  Pure(v, d.parts)
    BY <1>2, ContentsSaved DEF SavedPure
  <1>3. SavedPure'
    BY <1>1, <1>2 DEF SavedPure, Pure
  <1>4. memory'[r] = c
    BY SaveTypes
  <1> QED
    BY <1>1, <1>3, <1>4 DEF Pure

\* A step that adds nothing to what the files hold.
LEMMA SavedPureKept ==
  ASSUME SavedPure, UNCHANGED command, disturbed \subseteq disturbed',
         \A v \in Versions : Contents(v)' \subseteq Contents(v)
  PROVE  SavedPure'
  BY DEF SavedPure, Steady, Guarded, Pure

\* Each step of a run keeps what is saved, and what that run holds.
LEMMA ProbePure ==
  ASSUME TypeOK, Uploading, VersionKept, NEW r \in Runs, Skip(r) \/ Proceed(r) \/ Refused(r)
  PROVE  SavedPure' /\ HeldPure(r)' /\ Current(r)'
  <1>1. UNCHANGED <<disk, former, command, disturbed, flight>>
    BY DEF Skip, Proceed, Refused, world, fixture
  <1>2. pc[r] # "upload" /\ pc'[r] \notin Working
    BY DEF Skip, Proceed, Refused, TypeOK, Working, Transferring
  <1>3. SavedPure'
    BY <1>1, SavedPureKept DEF VersionKept, Contents
  <1> QED
    BY <1>1, <1>2, <1>3, Resting DEF Uploading, UploadingFor

LEMMA ClaimPure ==
  ASSUME TypeOK, Uploading, VersionKept, NEW r \in Runs, Claim(r)
  PROVE  SavedPure' /\ HeldPure(r)' /\ Current(r)'
  <1> DEFINE v == Identity(r)
  <1> DEFINE loaded == IF disk[v] = None THEN NewCheckpoint ELSE disk[v]
  <1>1. UNCHANGED <<disk, former, source, command, disturbed, flight>>
    BY DEF Claim, world, fixture
  <1>2. SavedPure'
    BY <1>1, SavedPureKept DEF VersionKept, Contents
  <1>3. stamp'[r] = v /\ v \in Versions /\ memory'[r] = loaded /\ pc[r] = "probed" /\ disk[v] # Torn
    BY RunValues DEF Claim, TypeOK, RunTypes, PathOf
  <1>4. Steady(v) => Pure(v, loaded.parts)
    BY <1>3, EmptyPure, ContentsTypes DEF VersionKept, SavedPure, Saved
  <1>5. flight'[r] = NoParts
    BY <1>1, <1>3 DEF Uploading, UploadingFor
  <1> HIDE DEF loaded
  <1>6. HeldPure(r)'
    BY <1>1, <1>3, <1>4, <1>5 DEF HeldPure, Steady, Guarded, Pure, NoParts
  <1>7. Current(r)'
    BY <1>1, <1>3 DEF Current, Identity, Guarded
  <1> QED
    BY <1>2, <1>6, <1>7

LEMMA CreatePure ==
  ASSUME TypeOK, Uploading, VersionKept, NEW r \in Runs, Create(r)
  PROVE  SavedPure' /\ HeldPure(r)' /\ Current(r)'
  <1>1. PICK i \in Ids : memory' = [memory EXCEPT ![r].id = i]
    BY DEF Create
  <1>2. memory'[r].parts = memory[r].parts
    BY <1>1, RunValues DEF RunTypes, TypeOK, Checkpoint
  <1>3. /\ UNCHANGED <<disk, former, stamp, source, command, disturbed, flight>>
        /\ pc[r] = "create" /\ pc'[r] = "created"
    BY DEF Create, world, fixture, TypeOK
  <1>4. SavedPure'
    BY <1>3, SavedPureKept DEF VersionKept, Contents
  <1>5. HeldPure(r)'
    BY <1>2, <1>3 DEF VersionKept, HeldPure, Steady, Guarded, Pure, Working, Transferring
  <1>6. Current(r)'
    BY <1>3 DEF VersionKept, Current, Guarded, Transferring
  <1> QED
    BY <1>4, <1>5, <1>6

LEMMA SaveCreatedPure ==
  ASSUME TypeOK, Uploading, VersionKept, NEW r \in Runs, SaveCreated(r)
  PROVE  SavedPure' /\ HeldPure(r)' /\ Current(r)'
  <1>1. Save(r, memory[r]) /\ memory[r] \in Checkpoint
    BY RunValues DEF SaveCreated, RunTypes
  <1>2. /\ UNCHANGED <<stamp, source, command, disturbed, flight>>
        /\ pc[r] = "created" /\ pc'[r] = "list"
    BY DEF SaveCreated, world, fixture, TypeOK
  <1>3. Steady(stamp[r]) => Pure(stamp[r], memory[r].parts)
    BY <1>2 DEF VersionKept, HeldPure, Working, Transferring
  <1>4. SavedPure' /\ (Steady(stamp[r])' => Pure(stamp[r], memory[r].parts)')
    BY <1>1, <1>2, <1>3, SavePure DEF VersionKept
  <1>5. HeldPure(r)'
    BY <1>2, <1>4 DEF VersionKept, HeldPure, Steady, Guarded, Pure
  <1>6. Current(r)'
    BY <1>2 DEF VersionKept, Current, Guarded, Transferring
  <1> QED
    BY <1>4, <1>5, <1>6

LEMMA ListPure ==
  ASSUME TypeOK, Uploading, VersionKept, NEW r \in Runs, List(r)
  PROVE  SavedPure' /\ HeldPure(r)' /\ Current(r)'
  <1> DEFINE parts == [p \in Parts |-> IF UploadOf(r).parts[p] = None
                                       THEN None ELSE memory[r].parts[p]]
  <1>1. parts \in Etags
    BY RunValues DEF RunTypes, Etags
  <1>2. /\ [memory[r] EXCEPT !.parts = parts] \in Checkpoint
        /\ [memory[r] EXCEPT !.parts = parts].parts = parts
    BY <1>1, RunValues DEF RunTypes, Checkpoint
  <1>3. /\ UNCHANGED <<stamp, source, command, disturbed, flight>>
        /\ pc[r] = "list" /\ pc'[r] = "upload"
        /\ Save(r, [memory[r] EXCEPT !.parts = parts])
    BY DEF List, service, world, fixture, TypeOK
  <1>4. Steady(stamp[r]) => Pure(stamp[r], parts)
    BY <1>3 DEF VersionKept, HeldPure, Working, Transferring, Pure
  <1> HIDE DEF parts
  <1>5. SavedPure' /\ (Steady(stamp[r])' => Pure(stamp[r], memory[r].parts)')
    BY <1>2, <1>3, <1>4, SavePure DEF VersionKept
  <1>6. HeldPure(r)'
    BY <1>3, <1>5 DEF VersionKept, HeldPure, Steady, Guarded, Pure
  <1>7. Current(r)'
    BY <1>3 DEF VersionKept, Current, Guarded, Transferring
  <1> QED
    BY <1>5, <1>6, <1>7

LEMMA SendPure ==
  ASSUME TypeOK, Uploading, VersionKept, NEW r \in Runs, Send(r)
  PROVE  SavedPure' /\ HeldPure(r)' /\ Current(r)'
  <1>1. PICK p \in Parts : flight' = [flight EXCEPT ![r][p] = Sent]
    BY DEF Send, Pending
  <1>2. UNCHANGED <<disk, former, pc, stamp, memory, source, command, disturbed>>
    BY DEF Send, world, fixture
  <1>3. \A q \in Parts : flight'[r][q] \in {Sent, flight[r][q]}
    BY <1>1, RunValues DEF TypeOK, RunTypes
  <1>4. SavedPure' /\ Current(r)'
    BY <1>2, SavedPureKept DEF VersionKept, Contents, Current, Guarded
  <1>5. HeldPure(r)'
    BY <1>2, <1>3 DEF VersionKept, HeldPure, Steady, Guarded, Pure
  <1> QED
    BY <1>4, <1>5

\* A part is read from the current source: the run's version, or one that
\* replaced it under the run.
LEMMA StorePure ==
  ASSUME TypeOK, Uploading, VersionKept, NEW r \in Runs, NEW p \in Parts, Store(r, p)
  PROVE  SavedPure' /\ HeldPure(r)' /\ Current(r)'
  <1>1. flight' = [flight EXCEPT ![r][p] = source]
    BY DEF Store
  <1>2. UNCHANGED <<disk, former, pc, stamp, memory, source, command, disturbed>>
    BY DEF Store, world, fixture
  <1>3. \A q \in Parts : flight'[r][q] \in {source, flight[r][q]}
    BY <1>1, RunValues DEF TypeOK, RunTypes
  <1>4. SavedPure' /\ Current(r)'
    BY <1>2, SavedPureKept DEF VersionKept, Contents, Current, Guarded
  <1>5. pc[r] = "upload"
    BY Constants DEF Store, Uploading, UploadingFor, NoParts
  <1>6. Steady(stamp[r]) => source = stamp[r]
    BY <1>5 DEF Store, VersionKept, Current, Steady, Transferring
  <1>7. HeldPure(r)'
    BY <1>2, <1>3, <1>6 DEF VersionKept, HeldPure, Steady, Guarded, Pure
  <1> QED
    BY <1>4, <1>7

LEMMA RecordPure ==
  ASSUME TypeOK, Uploading, VersionKept, NEW r \in Runs, NEW p \in Parts, Record(r, p)
  PROVE  SavedPure' /\ HeldPure(r)' /\ Current(r)'
  <1> DEFINE c == [memory[r] EXCEPT !.parts[p] = flight[r][p]]
  <1>1. /\ pc[r] = "upload" /\ flight[r][p] \in Versions /\ Save(r, c)
        /\ flight' = [flight EXCEPT ![r][p] = None]
        /\ UNCHANGED <<pc, stamp, source, command, disturbed>>
    BY DEF Record, service, world, fixture
  <1>2. /\ c \in Checkpoint
        /\ \A q \in Parts : c.parts[q] = IF q = p THEN flight[r][p] ELSE memory[r].parts[q]
    BY <1>1, RunValues, PartTypes DEF RunTypes
  <1>3. Steady(stamp[r]) => Pure(stamp[r], c.parts)
    <2> SUFFICES ASSUME Steady(stamp[r]) PROVE Pure(stamp[r], c.parts)
      OBVIOUS
    <2>1. Pure(stamp[r], memory[r].parts) /\ flight[r][p] \in {None, Sent, stamp[r]}
      BY <1>1 DEF VersionKept, HeldPure, Working, Transferring
    <2>2. flight[r][p] \in {None, stamp[r]}
      BY <1>1, <2>1, Constants
    <2> QED
      BY <1>2, <2>1, <2>2 DEF Pure
  <1> HIDE DEF c
  <1>4. SavedPure' /\ (Steady(stamp[r])' => Pure(stamp[r], memory[r].parts)')
    BY <1>1, <1>2, <1>3, SavePure DEF VersionKept
  <1>5. \A q \in Parts : flight'[r][q] \in {None, flight[r][q]}
    BY <1>1, RunValues DEF TypeOK, RunTypes
  <1>6. HeldPure(r)'
    BY <1>1, <1>4, <1>5 DEF VersionKept, HeldPure, Steady, Guarded, Pure
  <1>7. Current(r)'
    BY <1>1 DEF VersionKept, Current, Guarded
  <1> QED
    BY <1>4, <1>6, <1>7

LEMMA EndPure ==
  ASSUME TypeOK, Uploading, VersionKept, NEW r \in Runs,
         Complete(r) \/ Finish(r) \/ Rejected(r) \/ Faulty(r)
  PROVE  SavedPure' /\ HeldPure(r)' /\ Current(r)'
  <1>0. UNCHANGED <<source, command, disturbed>>
    BY RunWorld DEF Step
  <1>1. CASE Complete(r)
    <2>1. UNCHANGED <<disk, former, stamp, memory, flight>> /\ pc'[r] = "completed" /\ pc[r] = "upload"
      BY <1>1 DEF Complete, Transferred, TypeOK
    <2>2. SavedPure' /\ Current(r)'
      BY <1>0, <2>1, SavedPureKept DEF VersionKept, Contents, Current, Guarded, Transferring
    <2>3. HeldPure(r)'
      BY <1>0, <2>1 DEF VersionKept, HeldPure, Steady, Guarded, Pure, Working, Transferring
    <2> QED
      BY <2>2, <2>3
  <1>2. CASE Finish(r)
    <2>1. pc[r] = "completed" /\ pc'[r] = "done" /\ flight' = flight
      BY <1>2 DEF Finish, TypeOK
    <2>2. flight'[r] = NoParts /\ pc'[r] \notin Working
      BY <2>1 DEF Uploading, UploadingFor, Working, Transferring
    <2>3. \A v \in Versions : Contents(v)' = Contents(v)
      BY <1>2, RunValues, ContentsRemoved DEF Finish, RunTypes
    <2>4. SavedPure'
      BY <1>0, <2>3, SavedPureKept DEF VersionKept
    <2> QED
      BY <2>2, <2>4, Resting
  <1>3. CASE Rejected(r) \/ Faulty(r)
    <2>1. UNCHANGED <<disk, former>> /\ flight'[r] = NoParts /\ pc'[r] \notin Working
      <3>1. CASE LockUnwritten(r)
        BY <3>1 DEF LockUnwritten, Uploading, UploadingFor, TypeOK, Working, Transferring
      <3>2. CASE ~LockUnwritten(r)
        BY <1>3, <3>2 DEF Rejected, Faulty, RequestLost, OutputFails, ReplyLost, Killed, Abandon,
                          Stop, TypeOK, Working, Transferring
      <3> QED
        BY <3>1, <3>2
    <2>2. SavedPure'
      BY <1>0, <2>1, SavedPureKept DEF VersionKept, Contents
    <2> QED
      BY <2>1, <2>2, Resting
  <1> QED
    BY <1>1, <1>2, <1>3

LEMMA StepPure == TypeOK /\ Uploading /\ Locked /\ VersionKept /\ [Next]_vars => VersionKept'
  <1> SUFFICES ASSUME TypeOK, Uploading, Locked, VersionKept, [Next]_vars PROVE VersionKept'
    OBVIOUS
  <1>1. ASSUME NEW r \in Runs, Step(r) \/ Faulty(r) PROVE VersionKept'
    <2>1. SavedPure' /\ HeldPure(r)' /\ Current(r)'
      BY <1>1, ProbePure, ClaimPure, CreatePure, SaveCreatedPure, ListPure, SendPure, StorePure,
         RecordPure, EndPure DEF Step
    <2>2. ASSUME NEW q \in Runs \ {r} PROVE HeldPure(q)' /\ Current(q)'
      BY <1>1, RunRule, RunWorld, OthersKept DEF VersionKept
    <2> QED
      BY <2>1, <2>2 DEF VersionKept
  <1>2. CASE PowerLoss
    <2>1. UNCHANGED <<source, command, disturbed>>
      BY <1>2 DEF PowerLoss, fixture
    <2>2. SavedPure'
      BY <1>2, <2>1, ContentsSurvive, SavedPureKept DEF VersionKept
    <2>3. ASSUME NEW r \in Runs PROVE HeldPure(r)' /\ Current(r)'
      <3>1. flight'[r] = NoParts /\ pc'[r] \notin Working
        BY <1>2 DEF PowerLoss, Working, Transferring
      <3> QED
        BY <3>1, Resting
    <2> QED
      BY <2>2, <2>3 DEF VersionKept
  <1>3. CASE Edit
    <2>1. /\ UNCHANGED <<disk, former, pc, stamp, memory, flight, command>>
          /\ \A r \in Runs : pc[r] \in Transferring => stamp[r] \in disturbed'
      BY <1>3 DEF Edit
    <2>2. SavedPure' /\ \A r \in Runs : HeldPure(r)'
      BY <2>1, SteadyBefore, SavedPureKept DEF VersionKept, Contents, HeldPure, Pure
    <2>3. \A r \in Runs : Current(r)'
      BY <2>1 DEF Current
    <2> QED
      BY <2>2, <2>3 DEF VersionKept
  <1>4. CASE OtherWrites \/ StoreLate \/ UNCHANGED vars
    <2>1. UNCHANGED <<disk, former, pc, stamp, memory, flight, command, source, disturbed>>
      BY <1>4 DEF OtherWrites, StoreLate, vars, world, fixture
    <2>2. SavedPure'
      BY <2>1, SavedPureKept DEF VersionKept, Contents
    <2> QED
      BY <2>1, <2>2 DEF VersionKept, HeldPure, Current, Steady, Guarded, Pure
  <1> QED
    BY <1>1, <1>2, <1>3, <1>4 DEF Next, Faulty

-----------------------------------------------------------------------------
(* The published object. *)

\* What a run publishes is whole: every part is there, and of its version.
LEMMA PublishWhole ==
  ASSUME TypeOK, VersionKept, NEW r \in Runs, Transferred(r), Publish(r), UNCHANGED fixture
  PROVE  ObjectWhole'
  <1>1. pc[r] \in Working /\ \A p \in Parts : memory[r].parts[p] # None
    BY DEF Transferred, Working, Transferring
  <1>2. Steady(stamp[r]) => \A p \in Parts : memory[r].parts[p] = stamp[r]
    BY <1>1 DEF VersionKept, HeldPure, Pure
  <1>3. object'.stamp = stamp[r] /\ object'.parts = memory[r].parts
    BY DEF Publish
  <1> QED
    BY <1>2, <1>3 DEF ObjectWhole, Steady, Guarded, fixture

LEMMA StepWhole == TypeOK /\ VersionKept /\ ObjectWhole /\ [Next]_vars => ObjectWhole'
  <1> SUFFICES ASSUME TypeOK, VersionKept, ObjectWhole, [Next]_vars PROVE ObjectWhole'
    OBVIOUS
  <1>1. CASE UNCHANGED object
    BY <1>1, SteadyBefore DEF ObjectWhole, Guarded
  <1>2. ASSUME NEW r \in Runs, Complete(r) PROVE ObjectWhole'
    BY <1>2, PublishWhole DEF Complete, world
  <1>3. ASSUME NEW r \in Runs, ReplyLost(r), object' # object PROVE ObjectWhole'
    BY <1>3, PublishWhole DEF ReplyLost, CreateUnanswered, CompleteUnanswered
  <1>4. CASE OtherWrites
    BY <1>4 DEF OtherWrites, ObjectWhole
  <1>5. ASSUME NEW r \in Runs, Step(r) \/ Faulty(r), object' # object
        PROVE  Complete(r) \/ ReplyLost(r)
    <2>1. CASE Step(r)
      BY <1>5, <2>1 DEF Step, Skip, Proceed, Claim, Refused, Create, SaveCreated, List, Send,
                        Store, Record, Finish, Rejected, service
    <2>2. CASE Faulty(r)
      BY <1>5, <2>2 DEF Faulty, RequestLost, LockUnwritten, OutputFails, Killed, service
    <2> QED
      BY <1>5, <2>1, <2>2
  <1>6. PowerLoss \/ Edit \/ StoreLate \/ UNCHANGED vars => UNCHANGED object
    BY DEF PowerLoss, Edit, StoreLate, service, vars
  <1> QED
    BY <1>1, <1>2, <1>3, <1>4, <1>5, <1>6 DEF Next, Faulty

-----------------------------------------------------------------------------
(* Checkpoints and uploads.  The checkpoint file is what the run that works on *)
(* it holds (Anchored), no two checkpoint files name one upload, or could      *)
(* after a power loss (OwnUpload, JustCreated), and an upload named for an     *)
(* undisturbed version stores parts of that version only, among them those the *)
(* checkpoint counts as done (Stocked).                                        *)

Started == {"list", "upload", "completed"}

Anchored(r) ==
    /\ pc[r] \in {"create", "created"} => disk[stamp[r]] = None /\ memory[r].parts = NoParts
    /\ pc[r] \in Started => disk[stamp[r]] = memory[r]
    /\ pc[r] = "completed" => UploadOf(r).state = "done"

\* An upload the service has created.
Known(i) == i \in Ids /\ uploads[i].state # "unused"

OwnUpload(v) ==
    \A c \in Contents(v) :
        /\ Known(c.id)
        /\ \A w \in Versions : \A d \in Contents(w) : d.id = c.id => w = v

\* The upload a run has just created is named nowhere else, and is empty.
JustCreated(r) ==
    pc[r] = "created" =>
        /\ Known(memory[r].id) /\ uploads[memory[r].id].parts = NoParts
        /\ \A v \in Versions : \A c \in Contents(v) : c.id # memory[r].id
        /\ \A m \in late : m.id # memory[r].id
        /\ \A q \in Runs : pc[q] = "created" /\ memory[q].id = memory[r].id => q = r

Books == /\ \A r \in Runs : Anchored(r) /\ JustCreated(r)
         /\ \A v \in Versions : OwnUpload(v)
         /\ \A m \in late : Known(m.id)
         /\ \A i \in Ids : uploads[i].state = "unused" => uploads[i].parts = NoParts

Stocked(v) ==
    v \notin disturbed =>
        /\ \A c \in Contents(v) :
              /\ \A p \in Parts :
                    /\ uploads[c.id].parts[p] \in {None, v}
                    /\ c.parts[p] # None => uploads[c.id].parts[p] = v
              /\ \A m \in late : m.id = c.id => m.etag = v
        /\ \A r \in Runs, p \in Parts :
              stamp[r] = v /\ flight[r][p] \in Versions => uploads[memory[r].id].parts[p] = v

Stock == \A v \in Versions : Stocked(v)

\* No upload becomes unused, none is reopened, and an unused one stores nothing.
UploadRule ==
    \A i \in Ids :
        /\ uploads'[i].state = "unused" => uploads'[i] = uploads[i]
        /\ uploads[i].state = "done" => uploads'[i].state = "done"

LEMMA FreshRule ==
  ASSUME TypeOK, NEW i \in Ids, FreshUpload(i)
  PROVE  /\ UploadRule
         /\ uploads[i].state = "unused" /\ uploads'[i].state = "open"
         /\ uploads'[i].parts = uploads[i].parts
         /\ \A j \in Ids \ {i} : uploads'[j] = uploads[j]
  BY DEF FreshUpload, TypeOK, UploadRule

LEMMA StoredRule ==
  ASSUME TypeOK, NEW i \in Ids, NEW p \in Parts, NEW v \in Versions,
         uploads[i].state = "open", uploads' = [uploads EXCEPT ![i].parts[p] = v]
  PROVE  /\ UploadRule
         /\ uploads'[i].state = "open" /\ uploads'[i].parts[p] = v
         /\ \A q \in Parts \ {p} : uploads'[i].parts[q] = uploads[i].parts[q]
         /\ \A j \in Ids \ {i} : uploads'[j] = uploads[j]
  <1>1. uploads[i] \in [state : {"unused", "open", "done"}, parts : Etags]
    BY DEF TypeOK
  <1>2. uploads'[i] = [uploads[i] EXCEPT !.parts = [uploads[i].parts EXCEPT ![p] = v]]
        /\ \A j \in Ids \ {i} : uploads'[j] = uploads[j]
    BY DEF TypeOK
  <1>3. uploads'[i].state = "open" /\ uploads'[i].parts = [uploads[i].parts EXCEPT ![p] = v]
    BY <1>1, <1>2
  <1> QED
    BY <1>1, <1>2, <1>3 DEF UploadRule, Etags

LEMMA PublishRule ==
  ASSUME TypeOK, Uploading, NEW r \in Runs, Transferred(r), CompleteAccepted(r), Publish(r)
  PROVE  /\ UploadRule
         /\ memory[r].id \in Ids /\ uploads[memory[r].id].state = "open"
         /\ uploads'[memory[r].id].state = "done"
         /\ \A i \in Ids : uploads'[i].parts = uploads[i].parts
         /\ \A i \in Ids \ {memory[r].id} : uploads'[i] = uploads[i]
  <1>1. memory[r].id \in Ids
    BY DEF Transferred, Uploading, UploadingFor
  <1>2. uploads[memory[r].id] \in [state : {"unused", "open", "done"}, parts : Etags]
    BY <1>1 DEF TypeOK
  <1>3. /\ uploads'[memory[r].id] = [uploads[memory[r].id] EXCEPT !.state = "done"]
        /\ \A i \in Ids \ {memory[r].id} : uploads'[i] = uploads[i]
    BY <1>1 DEF Publish, TypeOK
  <1> QED
    BY <1>1, <1>2, <1>3 DEF CompleteAccepted, UploadOf, UploadRule

\* A request or a reply is in flight only while parts are transferred.
LEMMA InFlight ==
  ASSUME Uploading, NEW r \in Runs, NEW p \in Parts, flight[r][p] # None
  PROVE  pc[r] = "upload" /\ memory[r].id \in Ids
  BY DEF Uploading, UploadingFor, NoParts

\* A run changes no checkpoint file but that of its version, and only while it
\* works.
DiskRule(r) ==
    /\ stamp'[r] # stamp[r] => disk' = disk
    /\ disk' # disk => pc[r] \in Working
    /\ \A v \in Versions \ {stamp[r]} : disk'[v] = disk[v]

LEMMA OthersAnchored ==
  ASSUME TypeOK, Uploading, Locked, Books, NEW r \in Runs, NEW q \in Runs \ {r},
         LockRule(r), DiskRule(r), UploadRule
  PROVE  Anchored(q)'
  <1>1. /\ pc'[q] = pc[q] /\ stamp'[q] = stamp[q] /\ memory'[q] = memory[q]
        /\ stamp[q] \in Versions
    BY RunValues DEF LockRule, RunTypes
  <1>2. ASSUME pc[q] \in Working
        PROVE  disk'[stamp[q]] = disk[stamp[q]]
    <2>1. CASE pc[r] \in Working
      <3>1. stamp[q] # stamp[r]
        BY <1>2, <2>1 DEF Locked, PathOf
      <3> QED
        BY <1>1, <3>1 DEF DiskRule
    <2> QED
      BY <2>1 DEF DiskRule
  <1>3. pc[q] = "completed" => memory[q].id \in Ids
    BY DEF Uploading, UploadingFor
  <1>4. Anchored(q)
    BY DEF Books
  <1> QED
    BY <1>1, <1>2, <1>3, <1>4
    DEF Anchored, UploadRule, UploadOf, Working, Transferring, Started

\* A step that writes no id into a file that was not in one.
SameIds == \A v \in Versions : \A c \in Contents(v)' : \E d \in Contents(v) : d.id = c.id

LEMMA IdsKept ==
  ASSUME TypeOK, Books, UploadRule, SameIds
  PROVE  \A v \in Versions : OwnUpload(v)'
  <1> SUFFICES ASSUME NEW v \in Versions, NEW c \in Contents(v)',
                      NEW w \in Versions, NEW d \in Contents(w)'
               PROVE  Known(c.id)' /\ (d.id = c.id => w = v)
    <2>1. (\A v \in Versions : OwnUpload(v)') <=>
          \A v \in Versions : \A c \in Contents(v)' :
             Known(c.id)' /\ \A w \in Versions : \A d \in Contents(w)' : d.id = c.id => w = v
      BY DEF OwnUpload
    <2> QED
      BY <2>1
  <1>1. PICK e \in Contents(v) : e.id = c.id
    BY DEF SameIds
  <1>2. PICK f \in Contents(w) : f.id = d.id
    BY DEF SameIds
  <1>3. Known(e.id) /\ (f.id = e.id => w = v)
    BY DEF Books, OwnUpload
  <1> QED
    BY <1>1, <1>2, <1>3 DEF Known, UploadRule

\* A request of a run names the upload of its checkpoint.
LEMMA OnTheWayKnown ==
  ASSUME TypeOK, Uploading, Books, NEW r \in Runs, NEW m \in OnTheWay(r)
  PROVE  /\ pc[r] = "upload" /\ stamp[r] \in Versions /\ Saved(stamp[r])
         /\ disk[stamp[r]] \in Contents(stamp[r])
         /\ m.id = disk[stamp[r]].id /\ m.etag = Identity(r)
         /\ Known(m.id)
  <1>1. PICK p \in Parts : /\ flight[r][p] = Sent
                           /\ m = [id |-> memory[r].id, part |-> p, etag |-> Identity(r)]
    BY DEF OnTheWay
  <1>2. pc[r] = "upload" /\ memory[r].id \in Ids
    BY <1>1, InFlight, Constants
  <1>3. /\ disk[stamp[r]] = memory[r] /\ stamp[r] \in Versions /\ memory[r] \in Checkpoint
        /\ m.id = memory[r].id /\ m.etag = Identity(r)
    BY <1>1, <1>2, RunValues DEF Books, Anchored, Started, RunTypes
  <1>4. Saved(stamp[r]) /\ disk[stamp[r]] \in Contents(stamp[r])
    BY <1>3, NoCheckpoint, ContentsTypes DEF Saved
  <1> QED
    BY <1>2, <1>3, <1>4 DEF Books, OwnUpload

LEMMA LateKept ==
  ASSUME TypeOK, Uploading, Books, UploadRule, NEW r \in Runs,
         late' \subseteq late \cup OnTheWay(r)
  PROVE  \A m \in late' : Known(m.id)'
  BY OnTheWayKnown DEF Books, UploadRule, Known

\* A step of a run that creates no upload, and stores nothing in one just
\* created.
LEMMA JustCreatedKept ==
  ASSUME TypeOK, Uploading, Books, UploadRule, NEW r \in Runs, LockRule(r), SameIds,
         late' \subseteq late \cup OnTheWay(r), pc'[r] # "created",
         \A q \in Runs : pc[q] = "created" =>
                            uploads'[memory[q].id].parts = uploads[memory[q].id].parts
  PROVE  \A q \in Runs : JustCreated(q)'
  <1> SUFFICES ASSUME NEW q \in Runs, pc'[q] = "created" PROVE JustCreated(q)'
    BY DEF JustCreated
  <1>1. /\ q # r /\ pc[q] = "created" /\ memory'[q] = memory[q]
        /\ \A t \in Runs : pc'[t] = "created" => pc[t] = "created" /\ memory'[t] = memory[t]
    BY DEF LockRule
  <1>2. JustCreated(q)
    BY DEF Books
  <1>3. Known(memory[q].id)' /\ uploads'[memory[q].id].parts = NoParts
    BY <1>1, <1>2 DEF JustCreated, Known, UploadRule
  <1>4. \A v \in Versions : \A c \in Contents(v)' : c.id # memory[q].id
    BY <1>1, <1>2 DEF JustCreated, SameIds
  <1>5. \A m \in late' : m.id # memory[q].id
    <2> SUFFICES ASSUME NEW m \in OnTheWay(r) PROVE m.id # memory[q].id
      BY <1>1, <1>2 DEF JustCreated
    <2>1. stamp[r] \in Versions /\ disk[stamp[r]] \in Contents(stamp[r]) /\ m.id = disk[stamp[r]].id
      BY OnTheWayKnown
    <2> QED
      BY <1>1, <1>2, <2>1 DEF JustCreated
  <1> QED
    BY <1>1, <1>2, <1>3, <1>4, <1>5 DEF JustCreated, Known

\* A step of a run that leaves the files and uploads alone.
LEMMA QuietBooks ==
  ASSUME TypeOK, Uploading, Locked, Books, NEW r \in Runs, LockRule(r),
         UNCHANGED <<disk, former, uploads>>, late' \subseteq late \cup OnTheWay(r),
         Anchored(r)', pc'[r] # "created"
  PROVE  Books'
  <1>1. UploadRule /\ SameIds
    BY DEF UploadRule, SameIds, Contents
  <1>2. DiskRule(r)
    BY DEF DiskRule
  <1>3. \A v \in Versions : OwnUpload(v)'
    BY <1>1, IdsKept
  <1>4. \A q \in Runs : JustCreated(q)'
    BY <1>1, JustCreatedKept
  <1> QED
    BY <1>1, <1>2, <1>3, <1>4, OthersAnchored, LateKept DEF Books

\* Ways out of a transfer, and steps before it.
LEMMA OutBooks ==
  ASSUME TypeOK, Uploading, Locked, Books, NEW r \in Runs,
         \/ Skip(r) \/ Proceed(r) \/ Refused(r) \/ Send(r) \/ Rejected(r)
         \/ RequestLost(r) \/ LockUnwritten(r) \/ OutputFails(r) \/ Killed(r)
  PROVE  Books'
  <1>1. LockRule(r)
    BY RunRule DEF Step, Faulty
  <1>2. UNCHANGED <<disk, former, uploads>> /\ late' \subseteq late \cup OnTheWay(r)
    BY DEF Skip, Proceed, Refused, Send, Rejected, RequestLost, LockUnwritten, OutputFails,
           Killed, Abandon, Stop, service
  <1>3. \/ pc'[r] \in {"idle", "probed", "skipped"}
        \/ pc[r] = "upload" /\ UNCHANGED <<pc, stamp, memory>>
    BY DEF Skip, Proceed, Refused, Send, Rejected, RequestLost, LockUnwritten, OutputFails,
           Killed, Abandon, Stop, TypeOK
  <1>4. Anchored(r)' /\ pc'[r] # "created"
    <2>1. CASE pc'[r] \in {"idle", "probed", "skipped"}
      BY <2>1 DEF Anchored, Started
    <2>2. CASE pc[r] = "upload" /\ UNCHANGED <<pc, stamp, memory>>
      BY <1>2, <2>2 DEF Books, Anchored, UploadOf
    <2> QED
      BY <1>3, <2>1, <2>2
  <1> QED
    BY <1>1, <1>2, <1>4, QuietBooks

LEMMA ClaimBooks ==
  ASSUME TypeOK, Uploading, Locked, Books, NEW r \in Runs, Claim(r)
  PROVE  Books'
  <1> DEFINE v == Identity(r)
  <1> DEFINE loaded == IF disk[v] = None THEN NewCheckpoint ELSE disk[v]
  <1>1. /\ UNCHANGED <<disk, former, uploads, late>> /\ v \in Versions /\ disk[v] # Torn
        /\ stamp'[r] = v /\ memory'[r] = loaded
        /\ pc'[r] = IF loaded.id = None THEN "create" ELSE "list"
    BY RunValues DEF Claim, PathOf, TypeOK, RunTypes, service
  <1>2. CASE disk[v] = None
    <2>1. loaded = NewCheckpoint /\ pc'[r] = "create"
      BY <1>1, <1>2 DEF NewCheckpoint
    <2> QED
      BY <1>1, <1>2, <2>1, QuietBooks, RunRule DEF Anchored, NewCheckpoint, Started, Step
  <1>3. CASE disk[v] # None
    <2>1. loaded.id \in Ids
      BY <1>1, <1>3, ContentsTypes DEF Books, OwnUpload, Saved, Known
    <2>2. pc'[r] = "list" /\ memory'[r] = disk[v]
      BY <1>1, <1>3, <2>1, Constants
    <2> QED
      BY <1>1, <2>2, QuietBooks, RunRule DEF Anchored, Started, Step
  <1> QED
    BY <1>2, <1>3

LEMMA CreateBooks ==
  ASSUME TypeOK, Uploading, Locked, Books, NEW r \in Runs, Create(r)
  PROVE  Books'
  <1>1. PICK i \in Ids : FreshUpload(i) /\ memory' = [memory EXCEPT ![r].id = i]
    BY DEF Create
  <1>2. /\ memory'[r].id = i /\ memory'[r].parts = memory[r].parts
        /\ \A q \in Runs \ {r} : memory'[q] = memory[q]
    BY <1>1, RunValues DEF RunTypes, Checkpoint, TypeOK
  <1>3. /\ pc[r] = "create" /\ pc'[r] = "created" /\ \A q \in Runs \ {r} : pc'[q] = pc[q]
        /\ UNCHANGED <<disk, former, late, stamp>>
    BY DEF Create, TypeOK
  <1>4. LockRule(r) /\ DiskRule(r) /\ SameIds
    BY <1>3, RunRule DEF Step, DiskRule, SameIds, Contents
  <1>5. UploadRule /\ uploads[i].state = "unused" /\ uploads'[i].state = "open"
        /\ uploads'[i].parts = uploads[i].parts /\ \A j \in Ids \ {i} : uploads'[j] = uploads[j]
    BY <1>1, FreshRule
  <1>6. Anchored(r)'
    BY <1>2, <1>3 DEF Books, Anchored, Started
  <1>7. JustCreated(r)'
    <2>1. Known(i)' /\ uploads'[i].parts = NoParts
      BY <1>5 DEF Known, Books
    <2>2. \A v \in Versions : \A c \in Contents(v)' : c.id # i
      BY <1>3, <1>5 DEF Books, OwnUpload, Known, Contents
    <2>3. \A m \in late' : m.id # i
      BY <1>3, <1>5 DEF Books, Known
    <2>4. ASSUME NEW q \in Runs \ {r}, pc'[q] = "created" PROVE memory'[q].id # i
      BY <1>2, <1>3, <1>5, <2>4 DEF Books, JustCreated, Known
    <2> QED
      BY <1>2, <2>1, <2>2, <2>3, <2>4 DEF JustCreated, Known
  <1>8. ASSUME NEW q \in Runs \ {r} PROVE JustCreated(q)'
    <2> SUFFICES ASSUME pc'[q] = "created" PROVE JustCreated(q)'
      BY DEF JustCreated
    <2>1. JustCreated(q) /\ pc[q] = "created" /\ memory'[q] = memory[q]
      BY <1>2, <1>3 DEF Books
    <2>2. memory[q].id # i /\ Known(memory[q].id)
      BY <1>5, <2>1 DEF JustCreated, Known
    <2>3. uploads'[memory[q].id] = uploads[memory[q].id]
      BY <1>5, <2>2 DEF Known
    <2> QED
      BY <1>2, <1>3, <2>1, <2>2, <2>3 DEF JustCreated, Known, Contents
  <1>9. \A v \in Versions : OwnUpload(v)'
    BY <1>4, <1>5, IdsKept
  <1>10. \A m \in late' : Known(m.id)'
    BY <1>3, <1>5, LateKept
  <1>11. \A j \in Ids : uploads'[j].state = "unused" => uploads'[j].parts = NoParts
    BY <1>5 DEF Books
  <1> QED
    BY <1>4, <1>5, <1>6, <1>7, <1>8, <1>9, <1>10, <1>11, OthersAnchored DEF Books

\* The id of the new upload reaches the disk.
LEMMA SaveCreatedBooks ==
  ASSUME TypeOK, Uploading, Locked, Books, NEW r \in Runs, SaveCreated(r)
  PROVE  Books'
  <1>1. /\ Save(r, memory[r]) /\ memory[r] \in Checkpoint /\ stamp[r] \in Versions
        /\ pc[r] = "created" /\ pc'[r] = "list" /\ \A q \in Runs \ {r} : pc'[q] = pc[q]
        /\ UNCHANGED <<uploads, late, stamp>>
    BY RunValues DEF SaveCreated, RunTypes, TypeOK, service
  <1>2. /\ \A q \in Runs : memory'[q] = memory[q]
        /\ disk'[stamp[r]] = memory[r] /\ \A v \in Versions \ {stamp[r]} : disk'[v] = disk[v]
    BY <1>1, SaveTypes DEF PathOf
  <1>3. \A v \in Versions :
           Contents(v)' = IF v = stamp[r] THEN Contents(v) \cup {memory[r]} ELSE Contents(v)
    BY <1>1, ContentsSaved
  <1>4. LockRule(r) /\ DiskRule(r) /\ UploadRule
    BY <1>1, <1>2, RunRule DEF Step, DiskRule, UploadRule, Working, Transferring
  <1>5. Anchored(r)'
    BY <1>1, <1>2 DEF Anchored, Started
  <1>6. JustCreated(r) /\ Known(memory[r].id)
    BY <1>1 DEF Books, JustCreated
  <1>7. ASSUME NEW q \in Runs PROVE JustCreated(q)'
    <2> SUFFICES ASSUME pc'[q] = "created" PROVE JustCreated(q)'
      BY DEF JustCreated
    <2>1. JustCreated(q) /\ pc[q] = "created" /\ q # r
      BY <1>1 DEF Books
    <2>2. memory[q].id # memory[r].id
      BY <1>1, <1>6, <2>1 DEF JustCreated
    <2>3. \A v \in Versions : \A c \in Contents(v)' : c.id # memory[q].id
      BY <1>1, <1>3, <2>1, <2>2 DEF JustCreated
    <2> QED
      BY <1>1, <1>2, <2>1, <2>3 DEF JustCreated, Known
  <1>8. ASSUME NEW v \in Versions PROVE OwnUpload(v)'
    <2> SUFFICES ASSUME NEW c \in Contents(v)', NEW w \in Versions, NEW d \in Contents(w)'
                 PROVE  Known(c.id)' /\ (d.id = c.id => w = v)
      BY DEF OwnUpload
    <2>1. c \in Contents(v) \/ (c = memory[r] /\ v = stamp[r])
      BY <1>1, <1>3
    <2>2. d \in Contents(w) \/ (d = memory[r] /\ w = stamp[r])
      BY <1>1, <1>3
    <2> QED
      BY <1>1, <1>6, <2>1, <2>2 DEF Books, OwnUpload, JustCreated, Known
  <1>9. \A m \in late' : Known(m.id)'
    BY <1>1, <1>4, LateKept
  <1>10. \A j \in Ids : uploads'[j].state = "unused" => uploads'[j].parts = NoParts
    BY <1>1 DEF Books
  <1> QED
    BY <1>1, <1>4, <1>5, <1>7, <1>8, <1>9, <1>10, OthersAnchored DEF Books

\* The run saves its checkpoint again, under the same upload.
LEMMA SaveBooks ==
  ASSUME TypeOK, Uploading, Locked, Books, NEW r \in Runs, LockRule(r), NEW c \in Checkpoint,
         Save(r, c), pc[r] \in {"list", "upload"}, pc'[r] = "upload", c.id = memory[r].id,
         UNCHANGED <<uploads, late, stamp>>
  PROVE  Books'
  <1>1. /\ memory'[r] = c /\ stamp[r] \in Versions /\ disk'[stamp[r]] = c
        /\ \A v \in Versions \ {stamp[r]} : disk'[v] = disk[v]
    BY SaveTypes, RunValues DEF PathOf, RunTypes
  <1>2. disk[stamp[r]] = memory[r] /\ memory[r] \in Checkpoint
    BY RunValues DEF Books, Anchored, Started, RunTypes
  <1>3. disk[stamp[r]] \in Contents(stamp[r])
    BY <1>1, <1>2, NoCheckpoint, ContentsTypes DEF Saved
  <1>4. DiskRule(r) /\ UploadRule
    BY <1>1 DEF DiskRule, UploadRule, Working, Transferring
  <1>5. Anchored(r)'
    BY <1>1 DEF Anchored, Started
  <1>6. SameIds
    BY <1>2, <1>3, ContentsSaved DEF SameIds
  <1>7. \A q \in Runs : JustCreated(q)'
    BY <1>4, <1>6, JustCreatedKept
  <1>8. \A v \in Versions : OwnUpload(v)'
    BY <1>4, <1>6, IdsKept
  <1>9. \A m \in late' : Known(m.id)'
    BY <1>4, LateKept
  <1> QED
    BY <1>4, <1>5, <1>7, <1>8, <1>9, OthersAnchored DEF Books

LEMMA TransferBooks ==
  ASSUME TypeOK, Uploading, Locked, Books, NEW r \in Runs,
         List(r) \/ \E p \in Parts : Record(r, p)
  PROVE  Books'
  <1>1. LockRule(r)
    BY RunRule DEF Step
  <1>2. CASE List(r)
    <2> DEFINE parts == [p \in Parts |-> IF UploadOf(r).parts[p] = None
                                         THEN None ELSE memory[r].parts[p]]
    <2>1. parts \in Etags
      BY RunValues DEF RunTypes, Etags
    <2>2. [memory[r] EXCEPT !.parts = parts] \in Checkpoint
          /\ [memory[r] EXCEPT !.parts = parts].id = memory[r].id
      BY <2>1, RunValues DEF RunTypes, Checkpoint
    <2>3. /\ Save(r, [memory[r] EXCEPT !.parts = parts])
          /\ pc[r] = "list" /\ pc'[r] = "upload" /\ UNCHANGED <<uploads, late, stamp>>
      BY <1>2 DEF List, TypeOK, service
    <2> HIDE DEF parts
    <2> QED
      BY <1>1, <2>2, <2>3, SaveBooks
  <1>3. ASSUME NEW p \in Parts, Record(r, p) PROVE Books'
    <2> DEFINE c == [memory[r] EXCEPT !.parts[p] = flight[r][p]]
    <2>1. c \in Checkpoint /\ c.id = memory[r].id
      BY <1>3, RunValues, PartTypes DEF RunTypes, Record
    <2>2. /\ Save(r, c) /\ pc[r] = "upload" /\ pc'[r] = "upload"
          /\ UNCHANGED <<uploads, late, stamp>>
      BY <1>3 DEF Record, service
    <2> HIDE DEF c
    <2> QED
      BY <1>1, <2>1, <2>2, SaveBooks
  <1> QED
    BY <1>2, <1>3

\* The service changes an upload; the files stay.
LEMMA ServiceBooks ==
  ASSUME TypeOK, Uploading, Locked, Books, NEW r \in Runs, LockRule(r), UploadRule,
         UNCHANGED <<disk, former>>, late' \subseteq late \cup OnTheWay(r), Anchored(r)',
         pc'[r] # "created",
         \A q \in Runs : pc[q] = "created" =>
                            uploads'[memory[q].id].parts = uploads[memory[q].id].parts
  PROVE  Books'
  <1>1. DiskRule(r) /\ SameIds
    BY DEF DiskRule, SameIds, Contents
  <1>2. \A v \in Versions : OwnUpload(v)'
    BY <1>1, IdsKept
  <1>3. \A i \in Ids : uploads'[i].state = "unused" => uploads'[i].parts = NoParts
    BY DEF Books, UploadRule
  <1>4. \A q \in Runs : JustCreated(q)'
    BY <1>1, JustCreatedKept
  <1> QED
    BY <1>1, <1>2, <1>3, <1>4, OthersAnchored, LateKept DEF Books

LEMMA StoreBooks ==
  ASSUME TypeOK, Uploading, Locked, Books, NEW r \in Runs, NEW p \in Parts, Store(r, p)
  PROVE  Books'
  <1>1. pc[r] = "upload" /\ memory[r].id \in Ids /\ source \in Versions
    BY InFlight, Constants DEF Store, TypeOK
  <1>2. UploadRule /\ \A i \in Ids \ {memory[r].id} : uploads'[i] = uploads[i]
    BY <1>1, StoredRule DEF Store, UploadOf
  <1>3. UNCHANGED <<disk, former, pc, stamp, memory, late>>
    BY DEF Store
  <1>4. Anchored(r)'
    BY <1>1, <1>3 DEF Books, Anchored
  <1>5. ASSUME NEW q \in Runs, pc[q] = "created" PROVE uploads'[memory[q].id] = uploads[memory[q].id]
    <2>1. stamp[r] \in Versions /\ memory[r] \in Contents(stamp[r])
      BY <1>1, RunValues, NoCheckpoint, ContentsTypes
      DEF Books, Anchored, Started, RunTypes, Saved
    <2> QED
      BY <1>2, <1>5, <2>1 DEF Books, JustCreated, Known
  <1> QED
    BY <1>1, <1>2, <1>3, <1>4, <1>5, RunRule, ServiceBooks DEF Step

LEMMA CompleteBooks ==
  ASSUME TypeOK, Uploading, Locked, Books, NEW r \in Runs, Complete(r)
  PROVE  Books'
  <1>1. /\ UploadRule /\ uploads'[memory[r].id].state = "done"
        /\ \A i \in Ids : uploads'[i].parts = uploads[i].parts
    BY PublishRule DEF Complete
  <1>2. UNCHANGED <<disk, former, stamp, memory, late>> /\ pc[r] = "upload" /\ pc'[r] = "completed"
    BY DEF Complete, Transferred, TypeOK
  <1>3. Anchored(r)'
    BY <1>1, <1>2 DEF Books, Anchored, Started, UploadOf
  <1>4. \A q \in Runs : pc[q] = "created" => memory[q].id \in Ids
    BY DEF Uploading, UploadingFor
  <1> QED
    BY <1>1, <1>2, <1>3, <1>4, RunRule, ServiceBooks DEF Step

LEMMA ReplyBooks ==
  ASSUME TypeOK, Uploading, Locked, Books, NEW r \in Runs, ReplyLost(r)
  PROVE  Books'
  <1>1. UploadRule /\ \A i \in Ids : uploads'[i].parts = uploads[i].parts
    <2>1. CASE CreateUnanswered(r)
      <3>1. PICK i \in Ids : FreshUpload(i)
        BY <2>1 DEF CreateUnanswered
      <3> QED
        BY <3>1, FreshRule
    <2>2. CASE CompleteUnanswered(r)
      BY <2>2, PublishRule DEF CompleteUnanswered
    <2> QED
      BY <2>1, <2>2 DEF ReplyLost
  <1>2. UNCHANGED <<disk, former>> /\ late' \subseteq late \cup OnTheWay(r) /\ pc'[r] = "idle"
    BY DEF ReplyLost, Abandon, Stop, TypeOK
  <1>3. Anchored(r)'
    BY <1>2 DEF Anchored, Started
  <1>4. \A q \in Runs : pc[q] = "created" => memory[q].id \in Ids
    BY DEF Uploading, UploadingFor
  <1> QED
    BY <1>1, <1>2, <1>3, <1>4, RunRule, ServiceBooks DEF Faulty

LEMMA FinishBooks ==
  ASSUME TypeOK, Uploading, Locked, Books, NEW r \in Runs, Finish(r)
  PROVE  Books'
  <1>1. /\ UNCHANGED <<uploads, late, stamp>> /\ pc[r] = "completed" /\ pc'[r] = "done"
        /\ Rewrite(stamp[r], None) /\ stamp[r] \in Versions
    BY RunValues DEF Finish, TypeOK, RunTypes, service, PathOf
  <1>2. DiskRule(r) /\ UploadRule
    BY <1>1 DEF DiskRule, UploadRule, Rewrite, TypeOK, Working
  <1>3. Anchored(r)'
    BY <1>1 DEF Anchored, Started
  <1>4. SameIds
    BY <1>1, ContentsRemoved DEF SameIds
  <1>5. LockRule(r)
    BY RunRule DEF Step
  <1>6. \A i \in Ids : uploads'[i].state = "unused" => uploads'[i].parts = NoParts
    BY <1>1 DEF Books
  <1>7. \A q \in Runs : JustCreated(q)'
    BY <1>1, <1>2, <1>4, <1>5, JustCreatedKept
  <1> QED
    BY <1>1, <1>2, <1>3, <1>4, <1>5, <1>6, <1>7, IdsKept, LateKept, OthersAnchored DEF Books

LEMMA WorldBooks ==
  ASSUME TypeOK, Uploading, Books, PowerLoss \/ Edit \/ OtherWrites \/ StoreLate \/ UNCHANGED vars
  PROVE  Books'
  <1>1. CASE PowerLoss
    <2>1. /\ UNCHANGED <<uploads, late>> /\ \A r \in Runs : pc'[r] \notin Working
      BY <1>1 DEF PowerLoss, service, Working, Transferring
    <2>2. UploadRule /\ SameIds
      BY <1>1, <2>1, ContentsSurvive DEF UploadRule, SameIds
    <2>3. \A r \in Runs : Anchored(r)' /\ JustCreated(r)'
      BY <2>1 DEF Anchored, JustCreated, Started, Working, Transferring
    <2>4. \A v \in Versions : OwnUpload(v)'
      BY <2>2, IdsKept
    <2> QED
      BY <2>1, <2>3, <2>4 DEF Books, Known
  <1>2. CASE StoreLate
    <2>1. PICK m \in late : /\ uploads[m.id].state = "open"
                            /\ uploads' = [uploads EXCEPT ![m.id].parts[m.part] = m.etag]
                            /\ late' = late \ {m}
                            /\ UNCHANGED <<disk, former, pc, stamp, memory>>
      BY <1>2 DEF StoreLate
    <2>2. m.id \in Ids /\ m.part \in Parts /\ m.etag \in Versions
      BY DEF TypeOK
    <2>3. UploadRule
      BY <2>1, <2>2, StoredRule
    <2>4. \A v \in Versions : OwnUpload(v)'
      BY <2>1, <2>3, IdsKept DEF SameIds, Contents
    <2>5. \A n \in late' : Known(n.id)'
      BY <2>1, <2>3 DEF Books, UploadRule, Known
    <2>6. ASSUME NEW r \in Runs PROVE Anchored(r)'
      <3>1. pc[r] = "completed" => memory[r].id \in Ids
        BY DEF Uploading, UploadingFor
      <3> QED
        BY <2>1, <2>3, <3>1 DEF Books, Anchored, UploadRule, UploadOf
    <2>8. ASSUME NEW r \in Runs PROVE JustCreated(r)'
      <3> SUFFICES ASSUME pc[r] = "created" PROVE JustCreated(r)'
        BY <2>1 DEF JustCreated
      <3>1. JustCreated(r) /\ memory[r].id \in Ids \ {m.id}
        BY DEF Books, JustCreated, Known
      <3>2. uploads'[memory[r].id] = uploads[memory[r].id]
        BY <2>1, <2>2, <3>1, StoredRule
      <3> QED
        BY <2>1, <3>1, <3>2 DEF JustCreated, Known, Contents
    <2>7. \A i \in Ids : uploads'[i].state = "unused" => uploads'[i].parts = NoParts
      BY <2>3 DEF Books, UploadRule
    <2> QED
      BY <2>4, <2>5, <2>6, <2>7, <2>8 DEF Books
  <1>3. CASE Edit \/ OtherWrites \/ UNCHANGED vars
    <2>1. UNCHANGED <<disk, former, uploads, late, pc, stamp, memory>>
      BY <1>3 DEF Edit, OtherWrites, vars, service
    <2> QED
      BY <2>1 DEF Books, Anchored, JustCreated, OwnUpload, Known, Contents, UploadOf
  <1> QED
    BY <1>1, <1>2, <1>3

LEMMA StepBooks == TypeOK /\ Uploading /\ Locked /\ Books /\ [Next]_vars => Books'
  <1> SUFFICES ASSUME TypeOK, Uploading, Locked, Books, [Next]_vars PROVE Books'
    OBVIOUS
  <1>1. ASSUME NEW r \in Runs, Step(r) PROVE Books'
    BY <1>1, OutBooks, ClaimBooks, CreateBooks, SaveCreatedBooks, TransferBooks, StoreBooks,
       CompleteBooks, FinishBooks DEF Step
  <1> QED
    BY <1>1, OutBooks, ReplyBooks, WorldBooks DEF Next

\* A request left behind by a run carries the version it was meant for.
LEMMA LateVersion ==
  ASSUME TypeOK, Uploading, VersionKept, Books, NEW r \in Runs, NEW m \in OnTheWay(r),
         NEW v \in Versions \ disturbed, NEW c \in Contents(v), m.id = c.id
  PROVE  m.etag = v
  <1>1. /\ pc[r] = "upload" /\ stamp[r] \in Versions /\ disk[stamp[r]] \in Contents(stamp[r])
        /\ m.id = disk[stamp[r]].id /\ m.etag = Identity(r)
    BY OnTheWayKnown
  <1>2. v = stamp[r]
    BY <1>1 DEF Books, OwnUpload
  <1>3. ~Guarded => source = stamp[r]
    BY <1>1, <1>2 DEF VersionKept, Current, Transferring
  <1> QED
    BY <1>1, <1>2, <1>3 DEF Identity

\* A step of a run that stores nothing, and counts a part as done only on a
\* reply.
LEMMA StockForward ==
  ASSUME TypeOK, Uploading, VersionKept, Books, Stock, NEW r \in Runs, LockRule(r),
         disturbed \subseteq disturbed', late' \subseteq late \cup OnTheWay(r),
         \A i \in Ids, p \in Parts : uploads'[i].parts[p] = uploads[i].parts[p],
         \A v \in Versions : \A c \in Contents(v)' : \E d \in Contents(v) :
            /\ c.id = d.id
            /\ \A p \in Parts : c.parts[p] # None =>
                  d.parts[p] # None \/ (stamp[r] = v /\ memory[r].id = d.id /\ flight[r][p] \in Versions),
         \A p \in Parts : flight'[r][p] \in Versions =>
            flight[r][p] \in Versions /\ stamp'[r] = stamp[r] /\ memory'[r].id = memory[r].id
  PROVE  Stock'
  <1> SUFFICES ASSUME NEW v \in Versions, v \notin disturbed'
               PROVE  Stocked(v)'
    BY DEF Stock, Stocked
  <1>1. v \notin disturbed /\ Stocked(v)
    BY DEF Stock
  <1>2. ASSUME NEW c \in Contents(v)'
        PROVE  /\ \A p \in Parts : /\ uploads'[c.id].parts[p] \in {None, v}
                                   /\ c.parts[p] # None => uploads'[c.id].parts[p] = v
               /\ \A m \in late' : m.id = c.id => m.etag = v
    <2>1. PICK d \in Contents(v) :
            /\ c.id = d.id
            /\ \A p \in Parts : c.parts[p] # None =>
                  d.parts[p] # None \/ (stamp[r] = v /\ memory[r].id = d.id /\ flight[r][p] \in Versions)
      OBVIOUS
    <2>2. d.id \in Ids
      BY DEF Books, OwnUpload, Known
    <2>3. \A p \in Parts : /\ uploads'[c.id].parts[p] \in {None, v}
                           /\ c.parts[p] # None => uploads'[c.id].parts[p] = v
      BY <1>1, <2>1, <2>2 DEF Stocked
    <2>4. \A m \in late' : m.id = c.id => m.etag = v
      BY <1>1, <2>1, LateVersion DEF Stocked
    <2> QED
      BY <2>3, <2>4
  <1>3. ASSUME NEW q \in Runs, NEW p \in Parts, stamp'[q] = v, flight'[q][p] \in Versions
        PROVE  uploads'[memory'[q].id].parts[p] = v
    <2>1. stamp[q] = v /\ flight[q][p] \in Versions /\ memory'[q].id = memory[q].id
      BY <1>3 DEF LockRule
    <2>2. memory[q].id \in Ids
      BY <2>1, InFlight, Constants
    <2> QED
      BY <1>1, <2>1, <2>2 DEF Stocked
  <1> QED
    BY <1>1, <1>2, <1>3 DEF Stocked, Contents

LEMMA OutStock ==
  ASSUME TypeOK, Uploading, Locked, VersionKept, Books, Stock, NEW r \in Runs,
         \/ Skip(r) \/ Proceed(r) \/ Claim(r) \/ Refused(r) \/ Create(r) \/ Send(r) \/ Complete(r)
         \/ Finish(r) \/ Rejected(r) \/ Faulty(r)
  PROVE  Stock'
  <1>1. LockRule(r) /\ disturbed \subseteq disturbed'
    BY RunRule, RunWorld DEF Step
  <1>2. late' \subseteq late \cup OnTheWay(r)
    BY DEF Skip, Proceed, Claim, Refused, Create, Send, Complete, Finish, Rejected, Faulty,
           RequestLost, LockUnwritten, OutputFails, ReplyLost, Killed, Abandon, Stop
  <1>3. \A v \in Versions : Contents(v)' = Contents(v)
    <2>1. CASE Finish(r)
      BY <2>1, RunValues, ContentsRemoved DEF Finish, RunTypes
    <2>2. CASE ~Finish(r)
      <3>1. UNCHANGED <<disk, former>>
        BY <2>2 DEF Skip, Proceed, Claim, Refused, Create, Send, Complete, Rejected, Faulty,
                    RequestLost, LockUnwritten, OutputFails, ReplyLost, Killed, Abandon
      <3> QED
        BY <3>1 DEF Contents
    <2> QED
      BY <2>1, <2>2
  <1>4. \A i \in Ids, p \in Parts : uploads'[i].parts[p] = uploads[i].parts[p]
    <2>2. CASE Create(r) \/ (ReplyLost(r) /\ CreateUnanswered(r))
      <3>1. PICK i \in Ids : FreshUpload(i)
        BY <2>2 DEF Create, CreateUnanswered
      <3>2. uploads'[i].parts = uploads[i].parts /\ \A j \in Ids \ {i} : uploads'[j] = uploads[j]
        BY <3>1, FreshRule
      <3> QED
        BY <3>2
    <2>3. CASE Complete(r) \/ (ReplyLost(r) /\ CompleteUnanswered(r))
      <3>1. \A i \in Ids : uploads'[i].parts = uploads[i].parts
        BY <2>3, PublishRule DEF Complete, CompleteUnanswered
      <3> QED
        BY <3>1
    <2>4. CASE \/ Skip(r) \/ Proceed(r) \/ Claim(r) \/ Refused(r) \/ Send(r) \/ Finish(r)
               \/ Rejected(r) \/ RequestLost(r) \/ LockUnwritten(r) \/ OutputFails(r) \/ Killed(r)
      BY <2>4 DEF Skip, Proceed, Claim, Refused, Send, Finish, Rejected, RequestLost,
                  LockUnwritten, OutputFails, Killed, service
    <2>5. ReplyLost(r) => CreateUnanswered(r) \/ CompleteUnanswered(r)
      BY DEF ReplyLost
    <2> QED
      BY <2>2, <2>3, <2>4, <2>5 DEF Faulty
  <1>5. ASSUME NEW p \in Parts, flight'[r][p] \in Versions
        PROVE  /\ flight[r][p] \in Versions /\ stamp'[r] = stamp[r]
               /\ memory'[r].id = memory[r].id
    <2>1. CASE Send(r)
      <3>1. PICK q \in Parts : flight' = [flight EXCEPT ![r][q] = Sent]
        BY <2>1 DEF Send, Pending
      <3>2. flight'[r][p] \in {Sent, flight[r][p]}
        BY <3>1, RunValues DEF TypeOK, RunTypes
      <3> QED
        BY <1>5, <2>1, <3>2, Constants DEF Send
    <2>2. CASE \/ Skip(r) \/ Proceed(r) \/ Claim(r) \/ Refused(r) \/ Create(r) \/ Finish(r)
               \/ LockUnwritten(r)
      <3>1. pc[r] # "upload" /\ flight' = flight
        BY <2>2 DEF Skip, Proceed, Claim, Refused, Create, Finish, LockUnwritten
      <3> QED
        BY <1>5, <3>1, InFlight, Constants
    <2>3. CASE Complete(r)
      BY <1>5, <2>3 DEF Complete
    <2>4. CASE Rejected(r) \/ RequestLost(r) \/ OutputFails(r) \/ ReplyLost(r) \/ Killed(r)
      <3>1. flight'[r] = NoParts
        BY <2>4 DEF Rejected, RequestLost, OutputFails, ReplyLost, Killed, Abandon, Stop, TypeOK
      <3> QED
        BY <1>5, <3>1, Constants DEF NoParts
    <2> QED
      BY <2>1, <2>2, <2>3, <2>4 DEF Faulty
  <1> QED
    BY <1>1, <1>2, <1>3, <1>4, <1>5, StockForward

LEMMA TransferStock ==
  ASSUME TypeOK, Uploading, Locked, VersionKept, Books, Stock, NEW r \in Runs,
         List(r) \/ \E p \in Parts : Record(r, p)
  PROVE  Stock'
  <1>1. LockRule(r) /\ disturbed \subseteq disturbed'
    BY RunRule, RunWorld DEF Step
  <1>2. UNCHANGED <<uploads, late, stamp>> /\ pc[r] \in Started
    BY DEF List, Record, service, Started
  <1>3. stamp[r] \in Versions /\ disk[stamp[r]] = memory[r] /\ memory[r] \in Checkpoint
    BY <1>2, RunValues DEF Books, Anchored, RunTypes
  <1>4. memory[r] \in Contents(stamp[r])
    BY <1>3, NoCheckpoint, ContentsTypes DEF Saved
  <1>5. ASSUME NEW c \in Checkpoint, Save(r, c), c.id = memory[r].id,
               \A p \in Parts : c.parts[p] # None =>
                   memory[r].parts[p] # None \/ flight[r][p] \in Versions,
               \A p \in Parts : flight'[r][p] \in Versions => flight[r][p] \in Versions
        PROVE  Stock'
    <2>1. memory'[r].id = memory[r].id
      BY <1>5, SaveTypes
    <2>2. ASSUME NEW v \in Versions, NEW d \in Contents(v)'
          PROVE  \E e \in Contents(v) :
                    /\ d.id = e.id
                    /\ \A p \in Parts : d.parts[p] # None =>
                          e.parts[p] # None
                            \/ (stamp[r] = v /\ memory[r].id = e.id /\ flight[r][p] \in Versions)
      <3>1. CASE d \in Contents(v)
        BY <3>1
      <3>2. CASE d \notin Contents(v)
        <4>1. d = c /\ v = stamp[r]
          BY <1>5, <2>2, <3>2, ContentsSaved
        <4> QED
          BY <1>4, <1>5, <4>1
      <3> QED
        BY <3>1, <3>2
    <2> QED
      BY <1>1, <1>2, <1>5, <2>1, <2>2, StockForward
  <1>6. CASE List(r)
    <2> DEFINE parts == [p \in Parts |-> IF UploadOf(r).parts[p] = None
                                         THEN None ELSE memory[r].parts[p]]
    <2>1. parts \in Etags
      BY RunValues DEF RunTypes, Etags
    <2>2. /\ [memory[r] EXCEPT !.parts = parts] \in Checkpoint
          /\ [memory[r] EXCEPT !.parts = parts].id = memory[r].id
          /\ [memory[r] EXCEPT !.parts = parts].parts = parts
      BY <2>1, RunValues DEF RunTypes, Checkpoint
    <2>3. \A p \in Parts : parts[p] # None => memory[r].parts[p] # None
      OBVIOUS
    <2>4. Save(r, [memory[r] EXCEPT !.parts = parts]) /\ flight' = flight
      BY <1>6 DEF List
    <2> HIDE DEF parts
    <2> QED
      BY <1>5, <2>2, <2>3, <2>4
  <1>7. ASSUME NEW p \in Parts, Record(r, p) PROVE Stock'
    <2> DEFINE c == [memory[r] EXCEPT !.parts[p] = flight[r][p]]
    <2>1. /\ flight[r][p] \in Versions /\ Save(r, c)
          /\ flight' = [flight EXCEPT ![r][p] = None]
      BY <1>7 DEF Record
    <2>2. /\ c \in Checkpoint /\ c.id = memory[r].id
          /\ \A q \in Parts : c.parts[q] = IF q = p THEN flight[r][p] ELSE memory[r].parts[q]
      BY <1>3, <2>1, PartTypes
    <2>3. \A q \in Parts : flight'[r][q] \in {None, flight[r][q]}
      BY <2>1, RunValues DEF TypeOK, RunTypes
    <2> HIDE DEF c
    <2> QED
      BY <1>5, <2>1, <2>2, <2>3, Constants
  <1> QED
    BY <1>6, <1>7

LEMMA SaveCreatedStock ==
  ASSUME TypeOK, Uploading, Locked, VersionKept, Books, Stock, NEW r \in Runs, SaveCreated(r)
  PROVE  Stock'
  <1>1. /\ Save(r, memory[r]) /\ memory[r] \in Checkpoint /\ pc[r] = "created"
        /\ UNCHANGED <<uploads, late, stamp, flight, disturbed>>
    BY RunValues DEF SaveCreated, RunTypes, service, world, fixture
  <1>2. /\ \A v \in Versions :
              Contents(v)' = IF v = stamp[r] THEN Contents(v) \cup {memory[r]} ELSE Contents(v)
        /\ \A q \in Runs : memory'[q] = memory[q]
    BY <1>1, ContentsSaved, SaveTypes
  <1>3. /\ uploads[memory[r].id].parts = NoParts /\ memory[r].parts = NoParts
        /\ \A m \in late : m.id # memory[r].id
    BY <1>1 DEF Books, JustCreated, Anchored
  <1> SUFFICES ASSUME NEW v \in Versions, v \notin disturbed PROVE Stocked(v)'
    BY <1>1 DEF Stock, Stocked
  <1>4. Stocked(v)
    BY DEF Stock
  <1>5. ASSUME NEW c \in Contents(v)'
        PROVE  /\ \A p \in Parts : /\ uploads[c.id].parts[p] \in {None, v}
                                   /\ c.parts[p] # None => uploads[c.id].parts[p] = v
               /\ \A m \in late : m.id = c.id => m.etag = v
    <2>1. CASE c \in Contents(v)
      BY <1>4, <2>1 DEF Stocked
    <2>2. CASE c = memory[r]
      BY <1>3, <2>2 DEF NoParts
    <2> QED
      BY <1>2, <2>1, <2>2
  <1> QED
    BY <1>1, <1>2, <1>4, <1>5 DEF Stocked, Contents

\* What a run transferring parts holds is in its checkpoint file.
LEMMA Holding ==
  ASSUME TypeOK, Uploading, Books, NEW r \in Runs, NEW p \in Parts, flight[r][p] # None
  PROVE  /\ pc[r] = "upload" /\ stamp[r] \in Versions /\ memory[r] \in Contents(stamp[r])
         /\ memory[r].id \in Ids
         /\ \A v \in Versions : \A c \in Contents(v) : c.id = memory[r].id => v = stamp[r]
  <1>1. pc[r] = "upload" /\ memory[r].id \in Ids
    BY InFlight
  <1>2. stamp[r] \in Versions /\ disk[stamp[r]] = memory[r] /\ memory[r] \in Checkpoint
    BY <1>1, RunValues DEF Books, Anchored, Started, RunTypes
  <1>3. memory[r] \in Contents(stamp[r])
    BY <1>2, NoCheckpoint, ContentsTypes DEF Saved
  <1> QED
    BY <1>1, <1>2, <1>3 DEF Books, OwnUpload

\* Part p of upload i is stored as version e, and at most reported to runs of
\* that version.
Fits(i, p, e) ==
    /\ \A v \in Versions \ disturbed : \A c \in Contents(v) : c.id = i => e = v
    /\ \A r \in Runs, q \in Parts :
          flight'[r][q] # flight[r][q] =>
              /\ q = p /\ memory[r].id = i /\ flight[r][q] # None
              /\ stamp[r] \notin disturbed => e = stamp[r]

LEMMA StoringStock ==
  ASSUME TypeOK, Uploading, Books, Stock, NEW i \in Ids, NEW p \in Parts, NEW e \in Versions,
         uploads[i].state = "open", uploads' = [uploads EXCEPT ![i].parts[p] = e],
         UNCHANGED <<disk, former, stamp, memory, disturbed>>, late' \subseteq late,
         Fits(i, p, e)
  PROVE  Stock'
  <1>1. /\ uploads'[i].parts[p] = e
        /\ \A q \in Parts \ {p} : uploads'[i].parts[q] = uploads[i].parts[q]
        /\ \A j \in Ids \ {i} : uploads'[j] = uploads[j]
    BY StoredRule
  <1> SUFFICES ASSUME NEW v \in Versions, v \notin disturbed PROVE Stocked(v)'
    BY DEF Stock, Stocked
  <1>2. Stocked(v)
    BY DEF Stock
  <1>3. ASSUME NEW c \in Contents(v)
        PROVE  /\ \A q \in Parts : /\ uploads'[c.id].parts[q] \in {None, v}
                                   /\ c.parts[q] # None => uploads'[c.id].parts[q] = v
               /\ \A m \in late' : m.id = c.id => m.etag = v
    <2>1. c.id \in Ids /\ (c.id = i => e = v)
      BY DEF Books, OwnUpload, Known, Fits
    <2> QED
      BY <1>1, <1>2, <2>1 DEF Stocked
  <1>4. ASSUME NEW r \in Runs, NEW q \in Parts, stamp[r] = v, flight'[r][q] \in Versions
        PROVE  uploads'[memory[r].id].parts[q] = v
    <2>1. flight[r][q] # None
      BY <1>4, Constants DEF Fits
    <2>2. memory[r].id \in Ids /\ memory[r] \in Contents(v)
      BY <1>4, <2>1, Holding
    <2>3. memory[r].id = i => e = v
      BY <2>2 DEF Fits
    <2>4. CASE flight'[r][q] # flight[r][q]
      BY <1>1, <2>3, <2>4 DEF Fits
    <2>5. CASE flight'[r][q] = flight[r][q]
      BY <1>1, <1>2, <1>4, <2>2, <2>3, <2>5 DEF Stocked
    <2> QED
      BY <2>4, <2>5
  <1> QED
    BY <1>2, <1>3, <1>4 DEF Stocked, Contents

LEMMA StoreStock ==
  ASSUME TypeOK, Uploading, Locked, VersionKept, Books, Stock, NEW r \in Runs, NEW p \in Parts,
         Store(r, p)
  PROVE  Stock'
  <1>1. /\ flight[r][p] # None /\ source \in Versions
        /\ uploads[memory[r].id].state = "open"
        /\ uploads' = [uploads EXCEPT ![memory[r].id].parts[p] = source]
        /\ UNCHANGED <<disk, former, stamp, memory, late, disturbed>>
        /\ flight' = [flight EXCEPT ![r][p] = source]
    BY Constants DEF Store, UploadOf, world, fixture, TypeOK
  <1>2. /\ pc[r] = "upload" /\ stamp[r] \in Versions /\ memory[r].id \in Ids
        /\ \A v \in Versions : \A c \in Contents(v) : c.id = memory[r].id => v = stamp[r]
    BY <1>1, Holding
  <1>3. stamp[r] \notin disturbed => source = stamp[r]
    BY <1>2 DEF Store, VersionKept, Current, Transferring
  <1>4. ASSUME NEW q \in Runs, NEW x \in Parts, flight'[q][x] # flight[q][x]
        PROVE  q = r /\ x = p
    BY <1>1, <1>4, RunValues DEF TypeOK, RunTypes
  <1>5. \A v \in Versions \ disturbed : \A c \in Contents(v) : c.id = memory[r].id => source = v
    BY <1>2, <1>3
  <1>6. \A q \in Runs, x \in Parts :
           flight'[q][x] # flight[q][x] =>
               /\ x = p /\ memory[q].id = memory[r].id /\ flight[q][x] # None
               /\ stamp[q] \notin disturbed => source = stamp[q]
    BY <1>1, <1>3, <1>4
  <1>7. Fits(memory[r].id, p, source) /\ late' \subseteq late
    BY <1>1, <1>5, <1>6 DEF Fits
  <1> QED
    BY <1>1, <1>2, <1>7, StoringStock

LEMMA WorldStock ==
  ASSUME TypeOK, Uploading, Books, Stock,
         PowerLoss \/ Edit \/ OtherWrites \/ StoreLate \/ UNCHANGED vars
  PROVE  Stock'
  <1>1. CASE PowerLoss
    <2>1. /\ UNCHANGED <<uploads, late, disturbed>>
          /\ \A r \in Runs, p \in Parts : flight'[r][p] = None
      BY <1>1 DEF PowerLoss, service, fixture, NoParts
    <2> SUFFICES ASSUME NEW v \in Versions, v \notin disturbed PROVE Stocked(v)'
      BY <2>1 DEF Stock, Stocked
    <2>2. Stocked(v) /\ \A c \in Contents(v)' : c \in Contents(v)
      BY <1>1, ContentsSurvive DEF Stock
    <2>3. \A r \in Runs, p \in Parts : flight'[r][p] \notin Versions
      BY <2>1, Constants
    <2> QED
      BY <2>1, <2>2, <2>3 DEF Stocked
  <1>2. CASE StoreLate
    <2>1. PICK m \in late : /\ uploads[m.id].state = "open"
                            /\ uploads' = [uploads EXCEPT ![m.id].parts[m.part] = m.etag]
                            /\ late' = late \ {m}
                            /\ UNCHANGED <<disk, former, stamp, memory, flight, disturbed>>
      BY <1>2 DEF StoreLate, world, fixture
    <2>2. m.id \in Ids /\ m.part \in Parts /\ m.etag \in Versions
      BY DEF TypeOK
    <2>3. Fits(m.id, m.part, m.etag)
      BY <2>1 DEF Stock, Stocked, Fits
    <2> QED
      BY <2>1, <2>2, <2>3, StoringStock
  <1>3. CASE Edit
    <2>1. UNCHANGED <<disk, former, stamp, memory, flight, late, uploads>>
          /\ disturbed \subseteq disturbed'
      BY <1>3 DEF Edit, service
    <2> QED
      BY <2>1 DEF Stock, Stocked, Contents
  <1>4. CASE OtherWrites \/ UNCHANGED vars
    <2>1. UNCHANGED <<disk, former, stamp, memory, flight, late, uploads, disturbed>>
      BY <1>4 DEF OtherWrites, vars, fixture
    <2> QED
      BY <2>1 DEF Stock, Stocked, Contents
  <1> QED
    BY <1>1, <1>2, <1>3, <1>4

LEMMA StepStock ==
  TypeOK /\ Uploading /\ Locked /\ VersionKept /\ Books /\ Stock /\ [Next]_vars => Stock'
  <1> SUFFICES ASSUME TypeOK, Uploading, Locked, VersionKept, Books, Stock, [Next]_vars
               PROVE  Stock'
    OBVIOUS
  <1>1. ASSUME NEW r \in Runs, Step(r) \/ Faulty(r) PROVE Stock'
    BY <1>1, OutStock, TransferStock, SaveCreatedStock, StoreStock DEF Step
  <1> QED
    BY <1>1, WorldStock DEF Next, Faulty

-----------------------------------------------------------------------------
(* Uploads nobody names. *)

LEMMA LeakedFinite == IsFiniteSet(Leaked) /\ Cardinality(Leaked) \in Nat
  <1>1. IsFiniteSet(Ids)
    BY Bounds, FS_Interval DEF Ids
  <1>2. IsFiniteSet(Leaked)
    BY <1>1, FS_Subset DEF Leaked
  <1> QED
    BY <1>2, FS_CardinalityType

LEMMA UnionBound ==
  ASSUME NEW S, NEW T, IsFiniteSet(S), IsFiniteSet(T)
  PROVE  IsFiniteSet(S \cup T) /\ Cardinality(S \cup T) <= Cardinality(S) + Cardinality(T)
  <1>1. /\ IsFiniteSet(S \cup T)
        /\ Cardinality(S \cup T) = Cardinality(S) + Cardinality(T) - Cardinality(S \cap T)
    BY FS_Union
  <1>2. IsFiniteSet(S \cap T)
    BY FS_Intersection
  <1>3. /\ Cardinality(S) \in Nat /\ Cardinality(T) \in Nat /\ Cardinality(S \cup T) \in Nat
        /\ Cardinality(S \cap T) \in Nat
    BY <1>1, <1>2, FS_CardinalityType
  <1> QED
    BY <1>1, <1>3

\* A step that forgets the ids of L pays for each.
LEMMA Paid ==
  ASSUME TypeOK, LeaksFromFaults, NEW L, NEW n \in Nat, IsFiniteSet(L), Cardinality(L) <= n,
         Leaked' \subseteq Leaked \cup L, leaking' = leaking + n
  PROVE  LeaksFromFaults'
  <1>1. /\ IsFiniteSet(Leaked \cup L)
        /\ Cardinality(Leaked \cup L) <= Cardinality(Leaked) + Cardinality(L)
    BY LeakedFinite, UnionBound
  <1>2. Cardinality(Leaked') <= Cardinality(Leaked \cup L) /\ IsFiniteSet(Leaked')
    BY <1>1, FS_Subset
  <1>3. /\ Cardinality(Leaked') \in Nat /\ Cardinality(Leaked \cup L) \in Nat
        /\ Cardinality(L) \in Nat /\ Cardinality(Leaked) \in Nat /\ leaking \in Nat
    BY <1>1, <1>2, LeakedFinite, FS_CardinalityType DEF TypeOK
  <1> QED
    BY <1>1, <1>2, <1>3 DEF LeaksFromFaults

\* No upload outside L becomes open without a name or, being open, loses its
\* name.
LEMMA LeakedKept ==
  ASSUME NEW L,
         \A j \in Ids \ L : uploads'[j].state = "open" => uploads[j].state = "open",
         \A j \in Named \cap Ids : j \in Named' \/ j \in L \/ uploads'[j].state # "open"
  PROVE  Leaked' \subseteq Leaked \cup L
  BY DEF Leaked

LEMMA NamedKept ==
  ASSUME NEW r \in Runs, LockRule(r), UNCHANGED disk, pc[r] # "created", pc'[r] # "created"
  PROVE  Named' = Named
  BY DEF Named, Saved, LockRule

\* What a step of a run does to the ids.
NothingForgotten == Leaked' \subseteq Leaked /\ leaking' = leaking
OneForgotten == leaking' = leaking + 1 /\ \E i : Leaked' \subseteq Leaked \cup {i}

LEMMA QuietLeaks ==
  ASSUME TypeOK, Uploading, Locked, NEW r \in Runs,
         \/ Skip(r) \/ Proceed(r) \/ Claim(r) \/ Refused(r) \/ Send(r) \/ Rejected(r)
         \/ RequestLost(r) \/ LockUnwritten(r) \/ OutputFails(r) \/ Killed(r)
  PROVE  NothingForgotten \/ OneForgotten
  <1>1. LockRule(r) /\ leaking \in Nat
    BY RunRule DEF Step, Faulty, TypeOK
  <1>2. UNCHANGED <<disk, uploads>> /\ pc'[r] # "created"
    <2>1. CASE Skip(r) \/ Proceed(r) \/ Claim(r) \/ Refused(r) \/ LockUnwritten(r) \/ Send(r)
      BY <2>1 DEF Skip, Proceed, Claim, Refused, LockUnwritten, Send, service, TypeOK
    <2>2. CASE Rejected(r) \/ RequestLost(r) \/ OutputFails(r) \/ Killed(r)
      BY <2>2 DEF Rejected, RequestLost, OutputFails, Killed, Abandon, Stop, service, TypeOK
    <2> QED
      BY <2>1, <2>2
  <1>3. CASE pc[r] = "created"
    <2>1. RequestLost(r) \/ Killed(r)
      <3>1. Rejected(r) => pc[r] # "created"
        BY InFlight, Constants DEF Rejected, Transferred
      <3> QED
        BY <1>3, <3>1 DEF Skip, Proceed, Claim, Refused, LockUnwritten, Send, OutputFails
    <2>2. leaking' = leaking + 1
      BY <1>3, <2>1 DEF RequestLost, Killed, Strike, Unsaved
    <2>3. \A j \in Named : j \in Named' \/ j = memory[r].id
      BY <1>1, <1>2 DEF Named, Saved, LockRule
    <2>4. Leaked' \subseteq Leaked \cup {memory[r].id}
      BY <1>2, <2>3, LeakedKept
    <2> QED
      BY <2>2, <2>4 DEF OneForgotten
  <1>4. CASE pc[r] # "created"
    <2>1. Leaked' = Leaked
      BY <1>1, <1>2, <1>4, NamedKept DEF Leaked
    <2>2. leaking' = leaking
      <3>1. CASE RequestLost(r) \/ LockUnwritten(r) \/ OutputFails(r) \/ Killed(r)
        <4>1. leaking' = leaking + 0
          BY <1>4, <3>1 DEF RequestLost, LockUnwritten, OutputFails, Killed, Strike, Unsaved
        <4> QED
          BY <1>1, <4>1
      <3>2. CASE Skip(r) \/ Proceed(r) \/ Claim(r) \/ Refused(r) \/ Send(r) \/ Rejected(r)
        BY <3>2 DEF Skip, Proceed, Claim, Refused, Send, Rejected, world
      <3> QED
        BY <3>1, <3>2
    <2> QED
      BY <2>1, <2>2 DEF NothingForgotten
  <1> QED
    BY <1>3, <1>4

LEMMA CreateLeaks ==
  ASSUME TypeOK, Uploading, Locked, NEW r \in Runs, Create(r)
  PROVE  NothingForgotten
  <1>1. PICK i \in Ids : FreshUpload(i) /\ memory' = [memory EXCEPT ![r].id = i]
    BY DEF Create
  <1>2. memory'[r].id = i
    BY <1>1, RunValues DEF RunTypes, Checkpoint, TypeOK
  <1>3. /\ pc[r] = "create" /\ pc'[r] = "created" /\ UNCHANGED <<disk, leaking>>
        /\ \A q \in Runs \ {r} : pc'[q] = pc[q] /\ memory'[q] = memory[q]
    BY RunRule DEF Create, TypeOK, world, Step, LockRule
  <1>4. i \in Named' /\ \A j \in Named : j \in Named'
    BY <1>2, <1>3 DEF Named, Saved
  <1>5. \A j \in Ids \ {i} : uploads'[j] = uploads[j]
    BY <1>1, FreshRule
  <1>6. Leaked' \subseteq Leaked \cup {i}
    BY <1>4, <1>5 DEF Leaked
  <1> QED
    BY <1>3, <1>4, <1>6 DEF Leaked, NothingForgotten

\* A save under the id the file already holds, or the first one.
LEMMA SaveLeaks ==
  ASSUME TypeOK, Uploading, Locked, Books, NEW r \in Runs,
         SaveCreated(r) \/ List(r) \/ \E p \in Parts : Record(r, p)
  PROVE  NothingForgotten
  <1>1. LockRule(r) /\ UNCHANGED <<uploads, leaking, stamp>> /\ pc'[r] # "created"
    BY RunRule DEF Step, SaveCreated, List, Record, service, world, TypeOK
  <1>2. PICK c \in Checkpoint : Save(r, c) /\ c.id = memory[r].id
    <2>1. CASE SaveCreated(r)
      BY <2>1, RunValues DEF SaveCreated, RunTypes
    <2>2. CASE List(r)
      <3> DEFINE parts == [p \in Parts |-> IF UploadOf(r).parts[p] = None
                                           THEN None ELSE memory[r].parts[p]]
      <3>1. parts \in Etags
        BY RunValues DEF RunTypes, Etags
      <3>2. [memory[r] EXCEPT !.parts = parts] \in Checkpoint
            /\ [memory[r] EXCEPT !.parts = parts].id = memory[r].id
        BY <3>1, RunValues DEF RunTypes, Checkpoint
      <3>3. Save(r, [memory[r] EXCEPT !.parts = parts])
        BY <2>2 DEF List
      <3> HIDE DEF parts
      <3> QED
        BY <3>2, <3>3
    <2>3. ASSUME NEW p \in Parts, Record(r, p)
          PROVE  \E c \in Checkpoint : Save(r, c) /\ c.id = memory[r].id
      <3> DEFINE d == [memory[r] EXCEPT !.parts[p] = flight[r][p]]
      <3>1. d \in Checkpoint /\ d.id = memory[r].id
        BY <2>3, RunValues, PartTypes DEF RunTypes, Record
      <3>2. Save(r, d)
        BY <2>3 DEF Record
      <3> HIDE DEF d
      <3> QED
        BY <3>1, <3>2
    <2> QED
      BY <2>1, <2>2, <2>3
  <1>3. /\ stamp[r] \in Versions /\ disk'[stamp[r]] = c /\ c \notin {None, Torn}
        /\ \A v \in Versions \ {stamp[r]} : disk'[v] = disk[v]
    BY <1>2, SaveTypes, RunValues, NoCheckpoint DEF PathOf, RunTypes
  <1>4. Saved(stamp[r]) => disk[stamp[r]].id = memory[r].id
    BY DEF Books, Anchored, Started, Saved, SaveCreated, List, Record
  <1>5. memory[r].id \in Named'
    BY <1>2, <1>3 DEF Named, Saved
  <1>6. ASSUME NEW j \in Named PROVE j \in Named'
    <2>1. CASE \E v \in Versions : Saved(v) /\ j = disk[v].id
      BY <1>3, <1>4, <1>5, <2>1 DEF Named, Saved
    <2>2. CASE \E q \in Runs : pc[q] = "created" /\ j = memory[q].id
      BY <1>1, <1>5, <2>2 DEF Named, LockRule
    <2> QED
      BY <2>1, <2>2 DEF Named
  <1>7. Leaked' \subseteq Leaked \cup {}
    BY <1>1, <1>6, LeakedKept
  <1> QED
    BY <1>1, <1>7 DEF NothingForgotten

LEMMA ServiceLeaks ==
  ASSUME TypeOK, Uploading, Locked, NEW r \in Runs, Complete(r) \/ \E p \in Parts : Store(r, p)
  PROVE  NothingForgotten
  <1>1. LockRule(r) /\ UNCHANGED <<disk, leaking>> /\ pc[r] # "created" /\ pc'[r] # "created"
    BY RunRule, InFlight, Constants DEF Step, Complete, Store, Transferred, world, TypeOK
  <1>2. \A j \in Ids : uploads'[j].state = "open" => uploads[j].state = "open"
    <2>1. CASE Complete(r)
      BY <2>1, PublishRule DEF Complete
    <2>2. ASSUME NEW p \in Parts, Store(r, p)
          PROVE  \A j \in Ids : uploads'[j].state = "open" => uploads[j].state = "open"
      <3>1. memory[r].id \in Ids /\ source \in Versions
        BY <2>2, InFlight, Constants DEF Store, TypeOK
      <3>2. /\ uploads[memory[r].id].state = "open"
            /\ uploads' = [uploads EXCEPT ![memory[r].id].parts[p] = source]
        BY <2>2 DEF Store, UploadOf
      <3>3. /\ uploads'[memory[r].id].state = "open"
            /\ \A j \in Ids \ {memory[r].id} : uploads'[j] = uploads[j]
        BY <3>1, <3>2, StoredRule
      <3> QED
        BY <3>2, <3>3
    <2> QED
      BY <2>1, <2>2
  <1> QED
    BY <1>1, <1>2, NamedKept DEF Leaked, NothingForgotten

LEMMA FinishLeaks ==
  ASSUME TypeOK, Uploading, Locked, Books, NEW r \in Runs, Finish(r)
  PROVE  NothingForgotten
  <1>1. /\ UNCHANGED <<uploads, leaking>> /\ pc[r] = "completed" /\ pc'[r] = "done"
        /\ Rewrite(stamp[r], None) /\ stamp[r] \in Versions /\ LockRule(r)
    BY RunValues, RunRule DEF Finish, TypeOK, RunTypes, service, world, PathOf, Step
  <1>2. disk[stamp[r]].id = memory[r].id /\ uploads[memory[r].id].state = "done"
    BY <1>1 DEF Books, Anchored, Started, UploadOf
  <1>3. \A v \in Versions \ {stamp[r]} : disk'[v] = disk[v]
    BY <1>1, RewriteTypes
  <1>4. ASSUME NEW j \in Named, j # memory[r].id PROVE j \in Named'
    BY <1>1, <1>2, <1>3, <1>4 DEF Named, Saved, LockRule
  <1>5. Leaked' \subseteq Leaked \cup {}
    BY <1>1, <1>2, <1>4, LeakedKept
  <1> QED
    BY <1>1, <1>5 DEF NothingForgotten

LEMMA ReplyLeaks ==
  ASSUME TypeOK, Uploading, Locked, NEW r \in Runs, ReplyLost(r)
  PROVE  NothingForgotten \/ OneForgotten
  <1>1. LockRule(r) /\ UNCHANGED disk /\ pc[r] # "created" /\ pc'[r] # "created"
    BY RunRule DEF Faulty, ReplyLost, CreateUnanswered, CompleteUnanswered, Transferred,
                   Abandon, Stop, TypeOK
  <1>2. Named' = Named
    BY <1>1, NamedKept
  <1>3. CASE CreateUnanswered(r)
    <2>1. PICK i \in Ids : FreshUpload(i)
      BY <1>3 DEF CreateUnanswered
    <2>2. \A j \in Ids \ {i} : uploads'[j] = uploads[j]
      BY <2>1, FreshRule
    <2>3. Leaked' \subseteq Leaked \cup {i}
      BY <1>2, <2>2 DEF Leaked
    <2> QED
      BY <1>3, <2>3 DEF CreateUnanswered, Strike, OneForgotten
  <1>4. CASE CompleteUnanswered(r)
    <2>1. \A j \in Ids : uploads'[j].state = "open" => uploads[j].state = "open"
      BY <1>4, PublishRule DEF CompleteUnanswered
    <2>2. leaking' = leaking + 0 /\ leaking \in Nat
      BY <1>4 DEF CompleteUnanswered, Strike, TypeOK
    <2> QED
      BY <1>2, <2>1, <2>2 DEF Leaked, NothingForgotten
  <1> QED
    BY <1>3, <1>4 DEF ReplyLost

LEMMA RunLeaks ==
  ASSUME TypeOK, Uploading, Locked, Books, NEW r \in Runs, Step(r) \/ Faulty(r)
  PROVE  NothingForgotten \/ OneForgotten
  BY QuietLeaks, CreateLeaks, SaveLeaks, ServiceLeaks, FinishLeaks, ReplyLeaks DEF Step, Faulty

\* A power loss can damage or take back several checkpoints at once.
LEMMA PowerLeaks ==
  ASSUME TypeOK, Books, LeaksFromFaults, PowerLoss
  PROVE  LeaksFromFaults'
  <1> DEFINE F == {v \in Versions : Forgets(v)}
             C == {r \in Runs : pc[r] = "created"}
             LF == {disk[v].id : v \in F}
             LC == {memory[r].id : r \in C}
             f == [v \in F |-> disk[v].id]
             g == [r \in C |-> memory[r].id]
  <1>1. /\ IsFiniteSet(F) /\ IsFiniteSet(C) /\ Cardinality(F) \in Nat /\ Cardinality(C) \in Nat
        /\ leaking' = leaking + (Cardinality(F) + Cardinality(C)) /\ UNCHANGED uploads
    BY PowerCounts DEF PowerLoss, Strike, service
  <1>2. f \in Surjection(F, LF) /\ g \in Surjection(C, LC)
    BY DEF Surjection
  <1>3. \A j \in Named : j \in Named' \/ j \in LF \cup LC
    BY DEF Named, Forgets
  <1> HIDE DEF F, C, LF, LC, f, g
  <1>4. /\ IsFiniteSet(LF) /\ Cardinality(LF) <= Cardinality(F)
        /\ IsFiniteSet(LC) /\ Cardinality(LC) <= Cardinality(C)
    BY <1>1, <1>2, FS_Surjection
  <1>5. /\ IsFiniteSet(LF \cup LC)
        /\ Cardinality(LF \cup LC) <= Cardinality(LF) + Cardinality(LC)
    BY <1>4, UnionBound
  <1>6. /\ Cardinality(LF) \in Nat /\ Cardinality(LC) \in Nat /\ Cardinality(LF \cup LC) \in Nat
    BY <1>4, <1>5, FS_CardinalityType
  <1>7. Cardinality(LF \cup LC) <= Cardinality(F) + Cardinality(C)
        /\ Cardinality(F) + Cardinality(C) \in Nat
    BY <1>1, <1>4, <1>5, <1>6
  <1>8. Leaked' \subseteq Leaked \cup (LF \cup LC)
    BY <1>1, <1>3, LeakedKept
  <1> QED
    BY <1>1, <1>5, <1>7, <1>8, Paid

LEMMA StepLeaks ==
  TypeOK /\ Uploading /\ Locked /\ Books /\ LeaksFromFaults /\ [Next]_vars => LeaksFromFaults'
  <1> SUFFICES ASSUME TypeOK, Uploading, Locked, Books, LeaksFromFaults, [Next]_vars
               PROVE  LeaksFromFaults'
    OBVIOUS
  <1>1. ASSUME Leaked' \subseteq Leaked, leaking' = leaking PROVE LeaksFromFaults'
    <2>1. Cardinality({}) = 0 /\ IsFiniteSet({}) /\ leaking' = leaking + 0
      BY <1>1, FS_EmptySet DEF TypeOK
    <2> QED
      BY <1>1, <2>1, Paid
  <1>2. ASSUME NEW i, Leaked' \subseteq Leaked \cup {i}, leaking' = leaking + 1
        PROVE  LeaksFromFaults'
    <2>1. Cardinality({i}) = 1 /\ IsFiniteSet({i})
      BY FS_Singleton
    <2> QED
      BY <1>2, <2>1, Paid
  <1>3. ASSUME NEW r \in Runs, Step(r) \/ Faulty(r) PROVE LeaksFromFaults'
    BY <1>1, <1>2, <1>3, RunLeaks DEF NothingForgotten, OneForgotten
  <1>4. CASE Edit \/ OtherWrites \/ UNCHANGED vars
    <2>1. UNCHANGED <<disk, uploads, pc, memory>> /\ leaking' = leaking
      <3>1. CASE Edit \/ OtherWrites
        <4>1. leaking' = leaking + 0 /\ leaking \in Nat
          BY <3>1 DEF Edit, OtherWrites, Strike, TypeOK
        <4> QED
          BY <3>1, <4>1 DEF Edit, OtherWrites, service
      <3>2. CASE UNCHANGED vars
        BY <3>2 DEF vars
      <3> QED
        BY <1>4, <3>1, <3>2
    <2> QED
      BY <1>1, <2>1 DEF Leaked, Named, Saved
  <1>5. CASE StoreLate
    <2>1. PICK m \in late : /\ uploads[m.id].state = "open"
                            /\ uploads' = [uploads EXCEPT ![m.id].parts[m.part] = m.etag]
                            /\ UNCHANGED <<disk, pc, memory, leaking>>
      BY <1>5 DEF StoreLate, world
    <2>2. m.id \in Ids /\ m.part \in Parts /\ m.etag \in Versions
      BY DEF TypeOK
    <2>3. \A j \in Ids : uploads'[j].state = "open" => uploads[j].state = "open"
      BY <2>1, <2>2, StoredRule
    <2> QED
      BY <1>1, <2>1, <2>3 DEF Leaked, Named, Saved
  <1> QED
    BY <1>3, <1>4, <1>5, PowerLeaks DEF Next, Faulty

-----------------------------------------------------------------------------
(* Results. *)

LEMMA InitInvariant == Init => IInv
  <1> SUFFICES ASSUME Init PROVE IInv
    OBVIOUS
  <1>1. TypeOK /\ Uploading /\ Locked /\ ObjectWhole
    BY InitTypes DEF Init, Locked, Working, Transferring, ObjectWhole
  <1>2. SavedPure
    BY DEF Init, SavedPure, Contents
  <1>3. ASSUME NEW r \in Runs PROVE HeldPure(r) /\ Current(r)
    BY <1>3 DEF Init, HeldPure, Current, NoParts, Working, Transferring
  <1> QED
    BY <1>1, <1>2, <1>3 DEF IInv, VersionKept

LEMMA StepInvariant == IInv /\ [Next]_vars => IInv'
  BY StepTypes, StepLocked, StepPure, StepWhole DEF IInv

\* Requests belong to an upload, workers hold their locks, and what is saved or
\* held is of its version: the invariant from which the results below follow.
THEOREM Invariant == Spec => []IInv
  BY InitInvariant, StepInvariant, PTL DEF Spec

\* Any number of runs, parts, versions, uploads and faults: every value is of
\* its kind, and no request is in flight without an upload.
THEOREM TypeCorrect == Spec => []TypeOK
  <1>1. IInv => TypeOK
    BY DEF IInv
  <1> QED
    BY <1>1, Invariant, PTL

\* Of any number of runs only the one that holds a checkpoint's lock works on
\* it, whatever is refused, fails, dies or loses power (CheckpointLock).
THEOREM LocksExclude == Spec => []Exclusive
  <1>1. IInv => Exclusive
    BY DEF IInv, Locked, Exclusive
  <1> QED
    BY <1>1, Invariant, PTL

\* What a transfer publishes is one version of the source, after any number of
\* failed and resumed runs and late requests, unless a local file was replaced
\* while a run was reading that version.
THEOREM PublishesOneVersion == Spec => []ObjectWhole
  <1>1. IInv => ObjectWhole
    BY DEF IInv
  <1> QED
    BY <1>1, Invariant, PTL

LEMMA BooksKept == Spec => [](Books /\ Stock /\ LeaksFromFaults)
  <1>1. Init => Books /\ Stock /\ LeaksFromFaults
    <2> SUFFICES ASSUME Init PROVE Books /\ Stock /\ LeaksFromFaults
      OBVIOUS
    <2>1. Books
      BY DEF Init, Books, Anchored, JustCreated, OwnUpload, Contents, Started
    <2>2. Stock
      BY Constants DEF Init, Stock, Stocked, Contents, NoParts
    <2>3. Leaked = {}
      BY DEF Init, Leaked
    <2>4. LeaksFromFaults
      BY <2>3, FS_EmptySet DEF LeaksFromFaults, Init
    <2> QED
      BY <2>1, <2>2, <2>4
  <1>2. IInv /\ Books /\ Stock /\ LeaksFromFaults /\ [Next]_vars
          => (Books /\ Stock /\ LeaksFromFaults)'
    BY StepBooks, StepStock, StepLeaks DEF IInv
  <1> QED
    BY <1>1, <1>2, Invariant, PTL DEF Spec

\* Resuming skips nothing that is missing: a part that the checkpoint of an
\* undisturbed version counts as done is stored at the open upload as counted,
\* whatever failed, died or arrived late (save_checkpoint after each part,
\* retain after list_uploaded_part_numbers).
THEOREM ResumesFromTruth == Spec => []CheckpointHonest
  <1>1. IInv /\ Stock => CheckpointHonest
    <2> SUFFICES ASSUME IInv, Stock, NEW v \in Versions \ disturbed, NEW p \in Parts,
                        disk[v] \notin {None, Torn}, disk[v].parts[p] # None
                 PROVE  uploads[disk[v].id].parts[p] = disk[v].parts[p]
      BY DEF CheckpointHonest
    <2>1. disk[v] \in Contents(v)
      BY ContentsTypes DEF IInv, Saved
    <2>2. disk[v].parts[p] = v
      BY <2>1 DEF IInv, VersionKept, SavedPure, Steady, Pure
    <2> QED
      BY <2>1, <2>2 DEF Stock, Stocked
  <1> QED
    BY <1>1, Invariant, BooksKept, PTL

\* An upload that is open and named by no checkpoint lost its name between its
\* creation and the first save_checkpoint, through a lost answer, a failing save
\* or a stop, each counted once, or with a checkpoint file that a power loss
\* damaged or took back.  Failing, being killed and repeating the command at any
\* other point leaks none, because every later save keeps the id and it is removed
\* only once the upload is complete (remove_checkpoint).
THEOREM OnlyFaultsLeak == Spec => []LeaksFromFaults
  BY BooksKept, PTL
===============================================================================
