-------------------------- MODULE ADriveTransferProofs --------------------------
(* Proofs that mv loses no file, that sync removes only extras, and that     *)
(* success and checkpoint claim no file that did not arrive.                 *)
(*                                                                           *)
(* The invariant says of each file, by the progress it has made, what its    *)
(* source, its listing, the bytes read and its destination have to do with   *)
(* each other (FileOK), and of each stage what all files have reached        *)
(* (StageOK).  A step changes one file, or one stage; the other files keep   *)
(* what was said of them (OthersKeep).                                       *)
(*                                                                           *)
(* That a success is real and a saved key honest needs more: what a forced   *)
(* run has brought of each file, and which files nobody touched since their  *)
(* key was saved (Delivered).                                                *)
EXTENDS ADriveTransfer, TLAPS

LEMMA Commands ==
  ASSUME task \in Tasks
  PROVE  /\ task.command \in {"cp", "sync", "mv"}
         /\ task.streaming \in BOOLEAN /\ task.filtered \in BOOLEAN
         /\ task.checkpoint \in BOOLEAN /\ task.delete \in BOOLEAN
         /\ Moves => ~task.checkpoint /\ task.strategy = "force"
         /\ Selected \subseteq Files
  BY TasksAssumption, FilesAssumption DEF Task, Moves, Selected

LEMMA VersionValues ==
  /\ First \in Versions /\ Old \in Versions /\ First \in First..MaxVersion
  /\ \A v \in First..MaxVersion : v < MaxVersion => v + 1 \in First..MaxVersion
  /\ First..MaxVersion \subseteq Versions
  /\ Absent \notin Versions /\ Torn \notin Versions /\ Torn # Absent
  /\ \A v \in First..MaxVersion : Absent <= v
  BY BoundsAssumption DEF First, Old, Versions, Absent, Torn

LEMMA FaultTypes ==
  ASSUME TypeOK, Fault
  PROVE  faults' \in 0..MaxFaults
  BY BoundsAssumption DEF TypeOK, Fault

-----------------------------------------------------------------------------
(* Types. *)

LEMMA InitTypes == Init => TypeOK
  <1> SUFFICES ASSUME Init PROVE TypeOK
    OBVIOUS
  <1>1. /\ source \in [Files -> {Absent} \cup Versions]
        /\ dest \in [Files -> {Absent, Torn} \cup Versions]
        /\ listed \in [Files -> {Absent} \cup Versions]
        /\ bytes \in [Files -> {Absent} \cup Versions]
    BY VersionValues DEF Init
  <1>2. item \in [Files -> Phases]
    BY DEF Init, Phases
  <1>3. version \in First..MaxVersion /\ faults \in 0..MaxFaults
    BY VersionValues, BoundsAssumption DEF Init
  <1>4. saved \in [keys : SUBSET Files, torn : BOOLEAN]
    BY DEF Init
  <1>5. /\ completed \subseteq Files /\ wanted \subseteq Files
        /\ plan \subseteq Files /\ present \subseteq Files
    BY DEF Init
  <1>6. /\ failed \in BOOLEAN /\ fatal \in BOOLEAN
        /\ task \in Tasks
        /\ pc \in {"down", "copy", "plan", "extras", "delete", "cleanup", "ended"}
    BY DEF Init
  <1> QED
    BY <1>1, <1>2, <1>3, <1>4, <1>5, <1>6 DEF TypeOK

\* What a fresh run, or a stopped one, has forgotten.
LEMMA FreshTypes ==
  ASSUME Fresh
  PROVE  /\ item' \in [Files -> Phases]
         /\ listed' \in [Files -> {Absent} \cup Versions]
         /\ bytes' \in [Files -> {Absent} \cup Versions]
         /\ failed' \in BOOLEAN /\ fatal' \in BOOLEAN
         /\ wanted' \subseteq Files /\ plan' \subseteq Files
  BY DEF Fresh, Phases

LEMMA OpenTypes == TypeOK /\ Open => TypeOK'
  <1> SUFFICES ASSUME TypeOK, Open PROVE TypeOK'
    OBVIOUS
  <1>1. Fresh
    BY DEF Open
  <1>2. completed' \subseteq Files /\ present' \subseteq Files
    BY DEF Open, TypeOK
  <1> QED
    BY <1>1, <1>2, FreshTypes DEF TypeOK, Open

LEMMA StopTypes ==
  ASSUME TypeOK, Stop, saved' \in [keys : SUBSET Files, torn : BOOLEAN],
         faults' \in 0..MaxFaults
  PROVE  TypeOK'
  BY FreshTypes DEF TypeOK, Stop

LEMMA CopyTypes ==
  ASSUME TypeOK, NEW f \in Files,
         \/ Discover(f) \/ Skip(f) \/ Start(f) \/ Read(f) \/ Refuse(f) \/ Put(f)
         \/ Compare(f) \/ Truncate(f) \/ Fill(f) \/ CopyAtService(f) \/ CopyUnanswered(f)
  PROVE  TypeOK'
  <1> USE VersionValues
  <1>1. CASE Discover(f)
    BY <1>1 DEF Discover, TypeOK, Phases, Ended
  <1>2. CASE Skip(f)
    BY <1>2 DEF Skip, TypeOK, Phases, Ended
  <1>3. CASE Start(f)
    BY <1>3 DEF Start, TypeOK, Phases, InFlight
  <1>4. CASE Read(f)
    BY <1>4 DEF Read, TypeOK, Phases, InFlight
  <1>5. CASE Refuse(f)
    BY <1>5 DEF Refuse, TypeOK, Phases, InFlight
  <1>6. CASE Put(f)
    BY <1>6 DEF Put, TypeOK, Phases, InFlight
  <1>7. CASE Compare(f)
    BY <1>7 DEF Compare, TypeOK, Phases, InFlight
  <1>8. CASE Truncate(f)
    BY <1>8 DEF Truncate, TypeOK, Phases, InFlight
  <1>9. CASE Fill(f)
    BY <1>9 DEF Fill, TypeOK, Phases, InFlight
  <1>10. CASE CopyAtService(f)
    BY <1>10 DEF CopyAtService, TypeOK, Phases, InFlight
  <1>11. CASE CopyUnanswered(f)
    BY <1>11, FaultTypes DEF CopyUnanswered, TypeOK, Phases, InFlight
  <1> QED
    BY <1>1, <1>2, <1>3, <1>4, <1>5, <1>6, <1>7, <1>8, <1>9, <1>10, <1>11

LEMMA ResultTypes ==
  ASSUME TypeOK, NEW f \in Files,
         \/ JobFails(f) \/ RemoveSource(f) \/ RemoveSourceFails(f)
         \/ RecordCopy(f) \/ RecordFailure(f) \/ RecordMove(f) \/ SaveFails(f)
  PROVE  TypeOK'
  <1>1. CASE JobFails(f)
    BY <1>1, FaultTypes DEF JobFails, TypeOK, Phases, InFlight
  <1>2. CASE RemoveSource(f)
    BY <1>2 DEF RemoveSource, TypeOK, Phases, InFlight
  <1>3. CASE RemoveSourceFails(f)
    BY <1>3, FaultTypes DEF RemoveSourceFails, TypeOK, Phases, InFlight
  <1>4. CASE RecordCopy(f)
    BY <1>4 DEF RecordCopy, TypeOK, Phases, Ended
  <1>5. CASE RecordFailure(f)
    BY <1>5 DEF RecordFailure, TypeOK, Phases, Ended
  <1>6. CASE RecordMove(f)
    BY <1>6 DEF RecordMove, TypeOK, Phases, Ended
  <1>7. CASE SaveFails(f)
    <2>1. saved' \in [keys : SUBSET Files, torn : BOOLEAN] /\ faults' \in 0..MaxFaults
      BY <1>7, FaultTypes DEF SaveFails, TypeOK
    <2>2. CASE task.streaming
      BY <1>7, <2>1, <2>2 DEF SaveFails, TypeOK, Phases, Ended
    <2>3. CASE ~task.streaming
      BY <1>7, <2>1, <2>3, StopTypes DEF SaveFails
    <2> QED
      BY <2>2, <2>3
  <1> QED
    BY <1>1, <1>2, <1>3, <1>4, <1>5, <1>6, <1>7

LEMMA StageTypes ==
  ASSUME TypeOK,
         \/ EndCopy \/ PlanSource \/ PlanExtras \/ PlanFails \/ EndDelete
         \/ Cleanup \/ CleanupFails \/ DriverFails \/ Kill \/ Discard
  PROVE  TypeOK'
  <1>1. CASE EndCopy
    BY <1>1 DEF EndCopy, NextStage, TypeOK
  <1>2. CASE PlanSource
    BY <1>2, Commands DEF PlanSource, TypeOK
  <1>3. CASE PlanExtras
    BY <1>3, Commands DEF PlanExtras, TypeOK
  <1>4. CASE PlanFails
    BY <1>4, FaultTypes DEF PlanFails, TypeOK
  <1>5. CASE EndDelete
    BY <1>5 DEF EndDelete, TypeOK
  <1>6. CASE Cleanup
    BY <1>6 DEF Cleanup, TypeOK, Phases, Ended
  <1>7. CASE CleanupFails
    <2>1. source' \in [Files -> {Absent} \cup Versions]
      BY <1>7 DEF CleanupFails, TypeOK
    <2>2. item' \in [Files -> Phases]
      BY <1>7 DEF CleanupFails, TypeOK, Phases, Ended
    <2>3. failed' \in BOOLEAN
      BY <1>7 DEF CleanupFails
    <2> QED
      BY <1>7, <2>1, <2>2, <2>3, FaultTypes DEF CleanupFails, TypeOK
  <1>8. CASE DriverFails
    <2>1. faults' \in 0..MaxFaults /\ saved' = saved
      BY <1>8, FaultTypes DEF DriverFails, TypeOK
    <2>2. CASE task.streaming
      BY <1>8, <2>1, <2>2 DEF DriverFails, TypeOK
    <2>3. CASE ~task.streaming
      BY <1>8, <2>1, <2>3, StopTypes DEF DriverFails, TypeOK
    <2> QED
      BY <2>2, <2>3
  <1>9. CASE Kill
    <2>1. saved' \in [keys : SUBSET Files, torn : BOOLEAN] /\ faults' \in 0..MaxFaults
      BY <1>9, FaultTypes DEF Kill, TypeOK
    <2> QED
      BY <1>9, <2>1, StopTypes DEF Kill
  <1>10. CASE Discard
    BY <1>10 DEF Discard, TypeOK
  <1> QED
    BY <1>1, <1>2, <1>3, <1>4, <1>5, <1>6, <1>7, <1>8, <1>9, <1>10

LEMMA RemovalTypes ==
  ASSUME TypeOK, NEW f \in Files,
         \/ DeleteSource(f) \/ DeleteSourceFails(f) \/ DeleteExtra(f)
         \/ DeleteExtraFails(f) \/ Edit(f)
  PROVE  TypeOK'
  <1>1. CASE DeleteSource(f)
    BY <1>1 DEF DeleteSource, TypeOK, Phases, Ended
  <1>2. CASE DeleteSourceFails(f)
    BY <1>2, FaultTypes DEF DeleteSourceFails, TypeOK, Phases, Ended
  <1>3. CASE DeleteExtra(f)
    BY <1>3 DEF DeleteExtra, TypeOK
  <1>4. CASE DeleteExtraFails(f)
    BY <1>4, FaultTypes DEF DeleteExtraFails, TypeOK
  <1>5. CASE Edit(f)
    <2>1. version' \in First..MaxVersion /\ version' \in Versions
      BY <1>5, VersionValues DEF Edit, TypeOK
    <2>2. source' \in [Files -> {Absent} \cup Versions] /\ present' \subseteq Files
      BY <1>5, <2>1 DEF Edit, TypeOK
    <2> QED
      BY <1>5, <2>1, <2>2 DEF Edit, TypeOK
  <1> QED
    BY <1>1, <1>2, <1>3, <1>4, <1>5

LEMMA StepTypes == TypeOK /\ [Next]_vars => TypeOK'
  <1> SUFFICES ASSUME TypeOK, [Next]_vars PROVE TypeOK'
    OBVIOUS
  <1>1. CASE Open
    BY <1>1, OpenTypes
  <1>2. CASE Run
    BY <1>2, CopyTypes, ResultTypes, StageTypes, RemovalTypes DEF Run, File
  <1>3. CASE Outside
    BY <1>3, CopyTypes, ResultTypes, StageTypes, RemovalTypes DEF Outside
  <1>4. CASE UNCHANGED vars
    BY <1>4 DEF vars, TypeOK
  <1> QED
    BY <1>1, <1>2, <1>3, <1>4 DEF Next

\* Every state has values of the declared kinds, for every tree and command.
THEOREM TypeCorrect == Spec => []TypeOK
  <1>1. Init => TypeOK
    BY InitTypes
  <1>2. TypeOK /\ [Next]_vars => TypeOK'
    BY StepTypes
  <1> QED
    BY <1>1, <1>2, PTL DEF Spec

-----------------------------------------------------------------------------
(* The invariant. *)

\* What the bytes on their way, and the destination, have to do with the
\* version that was listed.
Follows(f) ==
    /\ item[f] \in {"read", "torn", "landed"}
       => bytes[f] # Absent /\ (source[f] = listed[f] => bytes[f] = listed[f])
    /\ item[f] = "landed" => dest[f] = bytes[f]
    /\ Moves /\ item[f] \in {"sent", "copied", "removed", "kept", "moved", "stuck"}
             /\ source[f] = listed[f]
       => dest[f] = listed[f]

\* Which ends a file can come to.
Ends(f) ==
    /\ item[f] \in {"failed", "stuck"} => failed
    /\ Moves => item[f] # "skipped"
    /\ Moves /\ f \in completed => item[f] \in {"copied", "moved", "stuck"}
    /\ ~Moves => item[f] \notin {"removed", "kept", "moved", "stuck"}

FileOK(f) ==
    /\ source[f] <= version /\ listed[f] <= version
    /\ item[f] \notin {"unseen", "gone"} => listed[f] # Absent
    /\ item[f] = "gone" => listed[f] = Absent
    /\ Follows(f)
    /\ Ends(f)
    /\ ~Moves /\ f \in present => source[f] # Absent

\* What every listed file has reached when the copy stage is over.
AllIn(phases) == \A f \in Selected : item[f] \in phases

StageOK ==
    /\ pc \in {"plan", "extras"} => ~Moves /\ AllIn(Ended)
    /\ pc = "extras" => Selected \cap present \subseteq wanted
    /\ plan # {} => ~Moves /\ pc = "delete" /\ AllIn({"gone", "skipped", "copied"})
    /\ plan \subseteq Selected \ present
    /\ Moves /\ pc \in {"delete", "cleanup"} => AllIn({"gone", "copied", "moved", "stuck"})
    /\ pc = "cleanup" => Moves /\ ~task.filtered

FilesOK == \A f \in Files : FileOK(f)

IInv == TypeOK /\ StageOK /\ FilesOK

\* A step that leaves every file but f alone.
Others(f) ==
    /\ task' = task
    /\ version' = version
    /\ failed => failed'
    /\ completed' \subseteq completed \cup {f}
    /\ present' \subseteq present
    /\ \A g \in Files \ {f} :
          /\ item'[g] = item[g] /\ listed'[g] = listed[g] /\ bytes'[g] = bytes[g]
          /\ source'[g] = source[g] /\ dest'[g] = dest[g]

LEMMA OneFile ==
  ASSUME FilesOK, NEW f \in Files, Others(f), FileOK(f)'
  PROVE  FilesOK'
  <1>1. ASSUME NEW g \in Files \ {f} PROVE FileOK(g)'
    <2>1. FileOK(g)
      BY DEF FilesOK
    <2>2. Follows(g)'
      BY <2>1 DEF FileOK, Follows, Others, Moves
    <2>3. Ends(g)'
      BY <2>1 DEF FileOK, Ends, Others, Moves
    <2> QED
      BY <2>1, <2>2, <2>3 DEF FileOK, Others, Moves
  <1> QED
    BY <1>1 DEF FilesOK

-----------------------------------------------------------------------------
(* Steps of the copy stage. *)

LEMMA DiscoverKeeps ==
  ASSUME TypeOK, FilesOK, NEW f \in Files, Discover(f)
  PROVE  FilesOK'
  <1>1. Others(f)
    BY DEF Discover, Others, TypeOK
  <1>2. FileOK(f)
    BY DEF FilesOK
  <1>3. FileOK(f)'
    BY <1>2 DEF Discover, Those, FileOK, Follows, Ends, Moves, TypeOK
  <1> QED
    BY <1>1, <1>3, OneFile

LEMMA SkipKeeps ==
  ASSUME TypeOK, FilesOK, NEW f \in Files, Skip(f)
  PROVE  FilesOK'
  <1>1. Others(f)
    BY DEF Skip, Others, TypeOK
  <1>2. FileOK(f)
    BY DEF FilesOK
  <1>3. FileOK(f)'
    BY <1>2, Commands DEF Skip, Ready, Those, MaySkip, FileOK, Follows, Ends, Moves, TypeOK
  <1> QED
    BY <1>1, <1>3, OneFile

LEMMA StartKeeps ==
  ASSUME TypeOK, FilesOK, NEW f \in Files, Start(f)
  PROVE  FilesOK'
  <1>1. Others(f)
    BY DEF Start, Others, TypeOK
  <1>2. FileOK(f)
    BY DEF FilesOK
  <1>3. FileOK(f)'
    BY <1>2 DEF Start, Ready, Those, FileOK, Follows, Ends, Moves, TypeOK
  <1> QED
    BY <1>1, <1>3, OneFile

LEMMA ReadKeeps ==
  ASSUME TypeOK, FilesOK, NEW f \in Files, Read(f)
  PROVE  FilesOK'
  <1>1. Others(f)
    BY DEF Read, Others, TypeOK
  <1>2. FileOK(f)
    BY DEF FilesOK
  <1>3. FileOK(f)'
    BY <1>2 DEF Read, Job, Those, Readable, FileOK, Follows, Ends, Moves, TypeOK
  <1> QED
    BY <1>1, <1>3, OneFile

LEMMA RefuseKeeps ==
  ASSUME TypeOK, FilesOK, NEW f \in Files, Refuse(f)
  PROVE  FilesOK'
  <1>1. Others(f)
    BY DEF Refuse, Others, TypeOK
  <1>2. FileOK(f)
    BY DEF FilesOK
  <1>3. FileOK(f)'
    BY <1>2 DEF Refuse, Job, Those, FileOK, Follows, Ends, Moves, TypeOK
  <1> QED
    BY <1>1, <1>3, OneFile

LEMMA PutKeeps ==
  ASSUME TypeOK, FilesOK, NEW f \in Files, Put(f)
  PROVE  FilesOK'
  <1>1. Others(f)
    BY DEF Put, Others, TypeOK
  <1>2. FileOK(f)
    BY DEF FilesOK
  <1>3. FileOK(f)'
    BY <1>2 DEF Put, Job, Those, FileOK, Follows, Ends, Moves, TypeOK
  <1> QED
    BY <1>1, <1>3, OneFile

LEMMA CompareKeeps ==
  ASSUME TypeOK, FilesOK, NEW f \in Files, Compare(f)
  PROVE  FilesOK'
  <1>1. Others(f)
    BY DEF Compare, Others, TypeOK
  <1>2. FileOK(f)
    BY DEF FilesOK
  <1>3. FileOK(f)'
    BY <1>2 DEF Compare, Job, Those, FileOK, Follows, Ends, Moves, TypeOK
  <1> QED
    BY <1>1, <1>3, OneFile

LEMMA TruncateKeeps ==
  ASSUME TypeOK, FilesOK, NEW f \in Files, Truncate(f)
  PROVE  FilesOK'
  <1>1. Others(f)
    BY DEF Truncate, Others, TypeOK
  <1>2. FileOK(f)
    BY DEF FilesOK
  <1>3. FileOK(f)'
    BY <1>2 DEF Truncate, Job, Those, FileOK, Follows, Ends, Moves, TypeOK
  <1> QED
    BY <1>1, <1>3, OneFile

LEMMA FillKeeps ==
  ASSUME TypeOK, FilesOK, NEW f \in Files, Fill(f)
  PROVE  FilesOK'
  <1>1. Others(f)
    BY DEF Fill, Others, TypeOK
  <1>2. FileOK(f)
    BY DEF FilesOK
  <1>3. FileOK(f)'
    BY <1>2 DEF Fill, Job, Those, FileOK, Follows, Ends, Moves, TypeOK
  <1> QED
    BY <1>1, <1>3, OneFile

LEMMA CopyAtServiceKeeps ==
  ASSUME TypeOK, FilesOK, NEW f \in Files, CopyAtService(f)
  PROVE  FilesOK'
  <1>1. Others(f)
    BY DEF CopyAtService, Others, TypeOK
  <1>2. FileOK(f)
    BY DEF FilesOK
  <1>3. FileOK(f)'
    BY <1>2 DEF CopyAtService, Job, Those, Readable, FileOK, Follows, Ends, Moves, TypeOK
  <1> QED
    BY <1>1, <1>3, OneFile

LEMMA CopyUnansweredKeeps ==
  ASSUME TypeOK, FilesOK, NEW f \in Files, CopyUnanswered(f)
  PROVE  FilesOK'
  <1>1. Others(f)
    BY DEF CopyUnanswered, Others, TypeOK
  <1>2. FileOK(f)
    BY DEF FilesOK
  <1>3. FileOK(f)'
    BY <1>2 DEF CopyUnanswered, Job, Those, Readable, FileOK, Follows, Ends, Moves, TypeOK
  <1> QED
    BY <1>1, <1>3, OneFile

LEMMA JobFailsKeeps ==
  ASSUME TypeOK, FilesOK, NEW f \in Files, JobFails(f)
  PROVE  FilesOK'
  <1>1. Others(f)
    BY DEF JobFails, Others, TypeOK
  <1>2. FileOK(f)
    BY DEF FilesOK
  <1>3. FileOK(f)'
    BY <1>2 DEF JobFails, Job, Those, FileOK, Follows, Ends, Moves, TypeOK
  <1> QED
    BY <1>1, <1>3, OneFile

LEMMA RemoveSourceKeeps ==
  ASSUME TypeOK, FilesOK, NEW f \in Files, RemoveSource(f)
  PROVE  FilesOK'
  <1>1. Others(f)
    BY DEF RemoveSource, Others, TypeOK
  <1>2. FileOK(f)
    BY DEF FilesOK
  <1>3. FileOK(f)'
    BY <1>2, VersionValues DEF RemoveSource, Job, Those, FileOK, Follows, Ends, Moves, TypeOK
  <1> QED
    BY <1>1, <1>3, OneFile

LEMMA RemoveSourceFailsKeeps ==
  ASSUME TypeOK, FilesOK, NEW f \in Files, RemoveSourceFails(f)
  PROVE  FilesOK'
  <1>1. Others(f)
    BY DEF RemoveSourceFails, Others, TypeOK
  <1>2. FileOK(f)
    BY DEF FilesOK
  <1>3. FileOK(f)'
    BY <1>2, VersionValues DEF RemoveSourceFails, Job, Those, FileOK, Follows, Ends, Moves, TypeOK
  <1> QED
    BY <1>1, <1>3, OneFile

LEMMA RecordCopyKeeps ==
  ASSUME TypeOK, FilesOK, NEW f \in Files, RecordCopy(f)
  PROVE  FilesOK'
  <1>1. Others(f)
    BY DEF RecordCopy, Others, TypeOK
  <1>2. FileOK(f)
    BY DEF FilesOK
  <1>3. FileOK(f)'
    BY <1>2 DEF RecordCopy, Job, Those, FileOK, Follows, Ends, Moves, TypeOK
  <1> QED
    BY <1>1, <1>3, OneFile

LEMMA RecordFailureKeeps ==
  ASSUME TypeOK, FilesOK, NEW f \in Files, RecordFailure(f)
  PROVE  FilesOK'
  <1>1. Others(f)
    BY DEF RecordFailure, Others, TypeOK
  <1>2. FileOK(f)
    BY DEF FilesOK
  <1>3. FileOK(f)'
    BY <1>2 DEF RecordFailure, Job, Those, FileOK, Follows, Ends, Moves, TypeOK
  <1> QED
    BY <1>1, <1>3, OneFile

LEMMA RecordMoveKeeps ==
  ASSUME TypeOK, FilesOK, NEW f \in Files, RecordMove(f)
  PROVE  FilesOK'
  <1>1. Others(f)
    BY DEF RecordMove, Others, TypeOK
  <1>2. FileOK(f)
    BY DEF FilesOK
  <1>3. FileOK(f)'
    BY <1>2 DEF RecordMove, Job, Those, FileOK, Follows, Ends, Moves, TypeOK
  <1> QED
    BY <1>1, <1>3, OneFile

\* A run that has not begun, or has forgotten everything, says nothing.
LEMMA StopKeeps ==
  ASSUME TypeOK, FilesOK, Stop
  PROVE  FilesOK' /\ StageOK'
  <1>1. ASSUME NEW f \in Files PROVE FileOK(f)'
    <2>1. FileOK(f)
      BY DEF FilesOK
    <2>2. Follows(f)' /\ Ends(f)'
      BY DEF Stop, Fresh, Follows, Ends, Moves
    <2> QED
      BY <2>1, <2>2, VersionValues DEF FileOK, Stop, Fresh, TypeOK
  <1>2. StageOK'
    BY DEF StageOK, Stop, Fresh
  <1> QED
    BY <1>1, <1>2 DEF FilesOK

LEMMA OpenKeeps ==
  ASSUME TypeOK, FilesOK, Open
  PROVE  FilesOK' /\ StageOK'
  <1>1. ASSUME NEW f \in Files PROVE FileOK(f)'
    <2>1. FileOK(f)
      BY DEF FilesOK
    <2>2. Follows(f)'
      BY DEF Open, Fresh, Follows
    <2>3. Ends(f)'
      BY Commands DEF Open, Fresh, Ends, Moves, TypeOK
    <2> QED
      BY <2>1, <2>2, <2>3, VersionValues DEF FileOK, Open, Fresh, TypeOK, Moves
  <1>2. StageOK'
    BY DEF StageOK, Open, Fresh
  <1> QED
    BY <1>1, <1>2 DEF FilesOK

\* The copy stage has planned nothing yet.
LEMMA CopyStage ==
  ASSUME StageOK, pc = "copy", pc' \in {"copy", "ended"}, plan' = plan
  PROVE  StageOK'
  BY DEF StageOK

LEMMA SaveFailsKeeps ==
  ASSUME TypeOK, FilesOK, StageOK, NEW f \in Files, SaveFails(f)
  PROVE  FilesOK' /\ StageOK'
  <1>1. CASE ~task.streaming
    BY <1>1, StopKeeps DEF SaveFails
  <1>2. CASE task.streaming
    <2>1. Others(f)
      BY <1>2 DEF SaveFails, Others, TypeOK
    <2>2. FileOK(f)
      BY DEF FilesOK
    <2>3. FileOK(f)'
      BY <1>2, <2>2 DEF SaveFails, Job, Those, FileOK, Follows, Ends, Moves, TypeOK
    <2>4. StageOK'
      BY <1>2, CopyStage DEF SaveFails, Job
    <2> QED
      BY <2>1, <2>3, <2>4, OneFile
  <1> QED
    BY <1>1, <1>2

LEMMA DriverFailsKeeps ==
  ASSUME TypeOK, FilesOK, StageOK, DriverFails
  PROVE  FilesOK' /\ StageOK'
  <1>1. CASE ~task.streaming
    BY <1>1, StopKeeps DEF DriverFails
  <1>2. CASE task.streaming
    <2>1. FilesOK'
      BY <1>2 DEF DriverFails, FilesOK, FileOK, Follows, Ends, Moves
    <2>2. StageOK'
      BY <1>2, CopyStage DEF DriverFails
    <2> QED
      BY <2>1, <2>2
  <1> QED
    BY <1>1, <1>2

LEMMA EndedStage ==
  ASSUME pc' = "ended", plan' = {}
  PROVE  StageOK'
  BY DEF StageOK

\* The copy stage ends: no copy has failed when a mv goes on to its sources.
LEMMA EndCopyKeeps ==
  ASSUME TypeOK, FilesOK, StageOK, EndCopy
  PROVE  FilesOK' /\ StageOK'
  <1>1. FilesOK'
    BY DEF EndCopy, FilesOK, FileOK, Follows, Ends, Moves
  <1>2. plan' = {}
    BY DEF EndCopy, Drained, StageOK
  <1>3. ~fatal => AllIn(Ended)
    BY DEF EndCopy, Drained, AllIn
  <1>4. Moves /\ ~fatal /\ ~failed => AllIn({"gone", "copied", "moved", "stuck"})
    BY <1>3, Commands DEF AllIn, Ended, FilesOK, FileOK, Ends, TypeOK
  <1>5. task.command = "sync" => ~Moves
    BY DEF Moves
  <1>6. AllIn(Ended) => AllIn(Ended)'
    BY DEF AllIn, EndCopy, Selected
  <1>7. AllIn({"gone", "copied", "moved", "stuck"})
           => AllIn({"gone", "copied", "moved", "stuck"})'
    BY DEF AllIn, EndCopy, Selected
  <1>8. pc' = NextStage /\ task' = task /\ (Moves' <=> Moves)
    BY DEF EndCopy, Moves
  <1>9. CASE task.command = "sync"
    <2>1. pc' = "ended" \/ (pc' = "plan" /\ ~fatal)
      BY <1>5, <1>8, <1>9 DEF NextStage
    <2> QED
      BY <1>1, <2>1, <1>2, <1>3, <1>5, <1>6, <1>8, <1>9 DEF StageOK
  <1>10. CASE Moves
    <2>1. \/ pc' = "ended"
          \/ pc' \in {"cleanup", "delete"} /\ ~fatal /\ ~failed
      BY <1>8, <1>10 DEF NextStage, Moves
    <2>2. pc' = "cleanup" => ~task.filtered
      BY <1>8, <1>10 DEF NextStage, Moves
    <2> QED
      BY <1>1, <2>1, <2>2, <1>2, <1>4, <1>7, <1>8, <1>10 DEF StageOK
  <1>11. CASE task.command \notin {"sync", "mv"}
    <2>1. pc' = "ended"
      BY <1>8, <1>11 DEF NextStage, Moves
    <2> QED
      BY <1>1, <2>1, <1>2 DEF StageOK
  <1> QED
    BY <1>9, <1>10, <1>11 DEF Moves

-----------------------------------------------------------------------------
(* Steps after the copy stage. *)

LEMMA PlanKeeps ==
  ASSUME TypeOK, FilesOK, StageOK, PlanSource \/ PlanFails
  PROVE  FilesOK' /\ StageOK'
  <1>1. CASE PlanSource
    <2>1. FilesOK'
      BY <1>1 DEF PlanSource, FilesOK, FileOK, Follows, Ends, Moves
    <2>2. Selected' = Selected /\ (AllIn(Ended) => AllIn(Ended)')
      BY <1>1 DEF PlanSource, Selected, AllIn
    <2>3. ~Moves /\ ~Moves' /\ AllIn(Ended)
      BY <1>1 DEF PlanSource, StageOK, Moves
    <2>4. \A f \in Selected \cap present : source[f] # Absent
      BY <2>3, Commands DEF FilesOK, FileOK, TypeOK
    <2>5. Selected \cap present \subseteq wanted'
      BY <1>1, <2>4 DEF PlanSource
    <2> QED
      BY <1>1, <2>1, <2>2, <2>3, <2>5 DEF PlanSource, StageOK
  <1>2. CASE PlanFails
    <2>1. FilesOK'
      BY <1>2 DEF PlanFails, FilesOK, FileOK, Follows, Ends, Moves
    <2> QED
      BY <1>2, <2>1 DEF PlanFails, StageOK
  <1> QED
    BY <1>1, <1>2

\* What is planned for removal is at neither list of the source.
LEMMA PlanExtrasKeeps ==
  ASSUME TypeOK, FilesOK, StageOK, PlanExtras
  PROVE  FilesOK' /\ StageOK'
  <1>1. FilesOK'
    BY DEF PlanExtras, FilesOK, FileOK, Follows, Ends, Moves
  <1>2. ~Moves /\ AllIn(Ended) /\ Selected \cap present \subseteq wanted /\ plan = {}
    BY DEF PlanExtras, StageOK
  <1>3. CASE failed
    BY <1>1, <1>2, <1>3 DEF PlanExtras, StageOK
  <1>4. CASE ~failed
    <2>1. AllIn({"gone", "skipped", "copied"})
      BY <1>2, <1>4, Commands DEF AllIn, Ended, FilesOK, FileOK, Ends, TypeOK
    <2>2. AllIn({"gone", "skipped", "copied"})' /\ ~Moves'
      BY <1>2, <2>1 DEF PlanExtras, AllIn, Selected, Moves
    <2>3. plan' \subseteq Selected' \ present'
      BY <1>2, <1>4 DEF PlanExtras, Selected
    <2>4. pc' = "delete"
      BY <1>4 DEF PlanExtras
    <2> QED
      BY <1>1, <2>2, <2>3, <2>4 DEF StageOK
  <1> QED
    BY <1>3, <1>4

LEMMA DeleteSourceKeeps ==
  ASSUME TypeOK, FilesOK, StageOK, NEW f \in Files,
         DeleteSource(f) \/ DeleteSourceFails(f)
  PROVE  FilesOK' /\ StageOK'
  <1>1. Others(f)
    BY DEF DeleteSource, DeleteSourceFails, Others, TypeOK
  <1>2. FileOK(f) /\ item[f] = "copied" /\ Moves /\ Moves'
    BY DEF FilesOK, DeleteSource, DeleteSourceFails, Those, Moves
  <1>3. /\ item'[f] \in {"moved", "stuck"} /\ source'[f] \in {source[f], Absent}
        /\ item'[f] = "stuck" => failed'
        /\ UNCHANGED <<version, listed, bytes, dest, completed, present>>
    BY DEF DeleteSource, DeleteSourceFails, TypeOK
  <1>4. FileOK(f)'
    BY <1>2, <1>3, VersionValues DEF FileOK, Follows, Ends, TypeOK
  <1>5. FilesOK'
    BY <1>1, <1>4, OneFile
  <1>6. AllIn({"gone", "copied", "moved", "stuck"})'
    <2>1. pc = "delete" /\ task' = task
      BY DEF DeleteSource, DeleteSourceFails
    <2>2. AllIn({"gone", "copied", "moved", "stuck"})
      BY <1>2, <2>1 DEF StageOK
    <2>3. \A g \in Selected : item'[g] = item[g] \/ g = f
      BY <1>1, Commands DEF Others, TypeOK
    <2> QED
      BY <1>3, <2>1, <2>2, <2>3 DEF AllIn, Selected
  <1>7. plan' = {} /\ pc' = "delete"
    BY <1>2 DEF DeleteSource, DeleteSourceFails, StageOK
  <1> QED
    BY <1>2, <1>5, <1>6, <1>7 DEF StageOK

LEMMA DeleteExtraKeeps ==
  ASSUME TypeOK, FilesOK, StageOK, NEW f \in Files,
         DeleteExtra(f) \/ DeleteExtraFails(f)
  PROVE  FilesOK' /\ StageOK'
  <1>1. /\ UNCHANGED <<task, version, source, item, listed, bytes, completed, present, pc>>
        /\ failed => failed'
        /\ pc = "delete" /\ f \in plan /\ plan' \subseteq plan
    BY DEF DeleteExtra, DeleteExtraFails
  <1>2. ~Moves /\ AllIn({"gone", "skipped", "copied"}) /\ plan \subseteq Selected \ present
    <2>1. plan # {}
      BY <1>1
    <2> QED
      BY <2>1 DEF StageOK
  <1>3. Others(f)
    BY <1>1 DEF Others, DeleteExtra, DeleteExtraFails, TypeOK
  <1>4. f \in Selected
    BY <1>1, <1>2
  <1>5. item[f] \in {"gone", "skipped", "copied"}
    BY <1>2, <1>4 DEF AllIn
  <1>6. FileOK(f)'
    BY <1>1, <1>2, <1>5 DEF FilesOK, FileOK, Follows, Ends, Moves
  <1>7. FilesOK'
    BY <1>3, <1>6, OneFile
  <1>8. AllIn({"gone", "skipped", "copied"})' /\ ~Moves' /\ Selected' = Selected
    BY <1>1, <1>2 DEF AllIn, Selected, Moves
  <1>9. pc' = "delete" /\ plan' \subseteq Selected' \ present'
    BY <1>1, <1>2, <1>8
  <1> QED
    BY <1>7, <1>8, <1>9 DEF StageOK

LEMMA EndDeleteKeeps ==
  ASSUME TypeOK, FilesOK, StageOK, EndDelete
  PROVE  FilesOK' /\ StageOK'
  <1>1. FilesOK'
    BY DEF EndDelete, FilesOK, FileOK, Follows, Ends, Moves
  <1> QED
    BY <1>1 DEF EndDelete, StageOK

\* The whole tree goes: the filters leave nothing out, every file was copied.
LEMMA CleanupKeeps ==
  ASSUME TypeOK, FilesOK, StageOK, Cleanup \/ CleanupFails
  PROVE  FilesOK' /\ StageOK'
  <1>1. Selected = Files /\ Moves /\ Moves' /\ plan = {}
        /\ AllIn({"gone", "copied", "moved", "stuck"})
    BY DEF Cleanup, CleanupFails, StageOK, Selected, Moves
  <1>2. /\ UNCHANGED <<task, version, listed, bytes, dest, completed, present, plan>>
        /\ failed => failed'
        /\ pc' = "ended"
    <2>1. CASE Cleanup
      BY <2>1 DEF Cleanup
    <2>2. CASE CleanupFails
      BY <2>2 DEF CleanupFails
    <2> QED
      BY <2>1, <2>2
  <1>3. ASSUME NEW f \in Files PROVE FileOK(f)'
    <2>1. FileOK(f) /\ item[f] \in {"gone", "copied", "moved", "stuck"}
      BY <1>1 DEF FilesOK, AllIn
    <2>2. source'[f] \in {source[f], Absent}
      BY DEF Cleanup, CleanupFails, TypeOK
    <2>3. /\ item[f] # "copied" => item'[f] = item[f]
          /\ item[f] = "copied" => item'[f] \in {"moved", "stuck"}
      BY DEF Cleanup, CleanupFails, TypeOK
    <2>4. item'[f] = "stuck" => failed'
      BY <1>1, <2>1 DEF Cleanup, CleanupFails, FileOK, Ends, Those
    <2> QED
      BY <1>1, <1>2, <2>1, <2>2, <2>3, <2>4, VersionValues
      DEF FileOK, Follows, Ends, TypeOK
  <1> QED
    BY <1>1, <1>2, <1>3, EndedStage DEF FilesOK

\* A written version is none that was ever listed.
LEMMA EditKeeps ==
  ASSUME TypeOK, FilesOK, StageOK, NEW f \in Files, Edit(f)
  PROVE  FilesOK' /\ StageOK'
  <1>1. /\ version' = version + 1 /\ version \in Nat
        /\ UNCHANGED <<task, dest, item, listed, bytes, completed, failed, pc, plan, wanted>>
    BY BoundsAssumption DEF Edit, TypeOK, First
  <1>2. ASSUME NEW g \in Files PROVE FileOK(g)'
    <2>1. FileOK(g) /\ source[g] \in Int /\ listed[g] \in Int
      BY DEF FilesOK, TypeOK, Versions, Absent
    <2>2. source'[g] \in {source[g], version', Absent}
      BY DEF Edit, TypeOK
    <2>3. source'[g] <= version' /\ listed'[g] <= version'
      BY <1>1, <2>1, <2>2 DEF FileOK, Absent
    <2>4. source'[g] = listed'[g] => source'[g] = source[g] \/ listed[g] = Absent
      BY <1>1, <2>1, <2>2 DEF FileOK, Absent
    <2>5. g \in present' => g \in present /\ source'[g] # Absent
      BY DEF Edit
    <2>6. Follows(g)'
      BY <1>1, <2>1, <2>4 DEF FileOK, Follows, Moves
    <2>7. Ends(g)'
      BY <1>1, <2>1 DEF FileOK, Ends, Moves
    <2> QED
      BY <1>1, <2>1, <2>3, <2>5, <2>6, <2>7 DEF FileOK, Moves
  <1>3. present' \subseteq present
    BY DEF Edit
  <1>4. Selected' = Selected /\ (Moves' <=> Moves)
    BY <1>1 DEF Selected, Moves
  <1>5. \A phases : AllIn(phases)' <=> AllIn(phases)
    BY <1>1, <1>4 DEF AllIn
  <1>6. StageOK'
    BY <1>1, <1>3, <1>4 DEF StageOK, AllIn
  <1> QED
    BY <1>2, <1>6 DEF FilesOK

-----------------------------------------------------------------------------
(* The invariant holds. *)

LEMMA InitInvariant == Init => IInv
  <1> SUFFICES ASSUME Init PROVE IInv
    OBVIOUS
  <1>1. TypeOK
    BY InitTypes
  <1>2. ASSUME NEW f \in Files PROVE FileOK(f)
    <2>1. source[f] <= version /\ listed[f] <= version
      BY DEF Init, Absent, First
    <2>2. item[f] = "unseen"
      BY DEF Init
    <2> QED
      BY <2>1, <2>2, Commands DEF Init, FileOK, Follows, Ends
  <1>3. StageOK
    BY DEF Init, StageOK
  <1> QED
    BY <1>1, <1>2, <1>3 DEF IInv, FilesOK

LEMMA CopyKeeps ==
  ASSUME TypeOK, FilesOK, StageOK, NEW f \in Files,
         \/ Discover(f) \/ Skip(f) \/ Start(f) \/ Read(f) \/ Refuse(f) \/ Put(f)
         \/ Compare(f) \/ Truncate(f) \/ Fill(f) \/ CopyAtService(f) \/ JobFails(f)
         \/ CopyUnanswered(f) \/ RemoveSource(f) \/ RemoveSourceFails(f)
         \/ RecordCopy(f) \/ RecordFailure(f) \/ RecordMove(f)
  PROVE  FilesOK' /\ StageOK'
  <1>1. FilesOK'
    BY DiscoverKeeps, SkipKeeps, StartKeeps, ReadKeeps, RefuseKeeps, PutKeeps,
       CompareKeeps, TruncateKeeps, FillKeeps, CopyAtServiceKeeps, JobFailsKeeps,
       CopyUnansweredKeeps, RemoveSourceKeeps, RemoveSourceFailsKeeps, RecordCopyKeeps, RecordFailureKeeps,
       RecordMoveKeeps
  <1>2. pc = "copy" /\ pc' = pc /\ plan' = plan
    BY DEF Discover, Skip, Ready, Start, Read, Refuse, Put, Compare, Truncate, Fill,
           CopyAtService, JobFails, CopyUnanswered, RemoveSource, RemoveSourceFails,
           RecordCopy, RecordFailure, RecordMove, Job
  <1> QED
    BY <1>1, <1>2, CopyStage

LEMMA StepInvariant == IInv /\ [Next]_vars => IInv'
  <1> SUFFICES ASSUME TypeOK, FilesOK, StageOK, [Next]_vars PROVE FilesOK' /\ StageOK'
    BY StepTypes DEF IInv
  <1>1. CASE Open
    BY <1>1, OpenKeeps
  <1>2. CASE Run
    <2>1. CASE EndCopy
      BY <2>1, EndCopyKeeps
    <2>2. CASE PlanSource \/ PlanExtras
      BY <2>2, PlanKeeps, PlanExtrasKeeps
    <2>3. CASE Cleanup \/ EndDelete
      BY <2>3, CleanupKeeps, EndDeleteKeeps
    <2>4. CASE \E f \in Files : File(f)
      BY <2>4, CopyKeeps, DeleteSourceKeeps, DeleteExtraKeeps DEF File
    <2> QED
      BY <1>2, <2>1, <2>2, <2>3, <2>4 DEF Run
  <1>3. CASE Outside
    <2>1. CASE DriverFails \/ CleanupFails \/ PlanFails
      BY <2>1, DriverFailsKeeps, CleanupKeeps, PlanKeeps
    <2>2. CASE Kill
      BY <2>2, StopKeeps DEF Kill
    <2>3. CASE Discard
      BY <2>3 DEF Discard, FilesOK, FileOK, Follows, Ends, Moves, StageOK, AllIn, Selected
    <2>4. CASE \E f \in Files :
                  \/ JobFails(f) \/ CopyUnanswered(f) \/ RemoveSourceFails(f) \/ SaveFails(f)
                  \/ DeleteSourceFails(f) \/ DeleteExtraFails(f) \/ Edit(f)
      BY <2>4, CopyKeeps, SaveFailsKeeps, DeleteSourceKeeps, DeleteExtraKeeps, EditKeeps
    <2> QED
      BY <1>3, <2>1, <2>2, <2>3, <2>4 DEF Outside
  <1>4. CASE UNCHANGED vars
    BY <1>4 DEF vars, FilesOK, FileOK, Follows, Ends, Moves, StageOK, AllIn, Selected
  <1> QED
    BY <1>1, <1>2, <1>3, <1>4 DEF Next

\* In every run each file is where its progress says, and each stage begins
\* only when the one before it has left nothing open.
THEOREM Invariant == Spec => []IInv
  <1> QED
    BY InitInvariant, StepInvariant, PTL DEF Spec

-----------------------------------------------------------------------------
(* What follows from it. *)

\* Only these steps of a command take something away from the source.
LEMMA Removers ==
  ASSUME TypeOK, StageOK, [Next]_vars, NEW f \in Files, Removes(f)
  PROVE  \/ RemoveSource(f) \/ RemoveSourceFails(f)
         \/ DeleteSource(f) \/ DeleteSourceFails(f)
         \/ Cleanup \/ CleanupFails
  <1>1. source' # source /\ version' = version /\ source[f] # source'[f]
    BY DEF Removes
  <1>2. CASE Open
    BY <1>1, <1>2 DEF Open
  <1>3. CASE Run
    <2>1. ASSUME NEW g \in Files, File(g)
          PROVE  g = f /\ (RemoveSource(f) \/ DeleteSource(f))
      <3>1. RemoveSource(g) \/ DeleteSource(g)
        BY <1>1, <2>1 DEF File, Discover, Skip, Start, Read, Refuse, Put, Compare,
                          Truncate, Fill, CopyAtService, RecordCopy, RecordFailure,
                          RecordMove, DeleteExtra
      <3>2. source' = [source EXCEPT ![g] = Absent]
        BY <3>1 DEF RemoveSource, DeleteSource
      <3> QED
        BY <1>1, <3>1, <3>2 DEF TypeOK
    <2>2. CASE \E g \in Files : File(g)
      BY <2>1, <2>2
    <2>3. CASE EndCopy \/ PlanSource \/ PlanExtras \/ Cleanup \/ EndDelete
      BY <1>1, <2>3 DEF EndCopy, PlanSource, PlanExtras, EndDelete
    <2> QED
      BY <1>3, <2>2, <2>3 DEF Run
  <1>4. CASE Outside
    <2>1. ASSUME NEW g \in Files, RemoveSourceFails(g) \/ DeleteSourceFails(g)
          PROVE  g = f
      <3>1. source' \in {source, [source EXCEPT ![g] = Absent]}
        BY <2>1 DEF RemoveSourceFails, DeleteSourceFails
      <3> QED
        BY <1>1, <3>1 DEF TypeOK
    <2>2. ASSUME NEW g \in Files,
                 \/ JobFails(g) \/ CopyUnanswered(g) \/ SaveFails(g)
                 \/ DeleteExtraFails(g) \/ Edit(g)
          PROVE  FALSE
      BY <1>1, <2>2 DEF JobFails, CopyUnanswered, SaveFails, Stop, DeleteExtraFails, Edit, TypeOK
    <2>3. CASE DriverFails \/ CleanupFails \/ PlanFails \/ Kill \/ Discard
      BY <1>1, <2>3 DEF DriverFails, Stop, PlanFails, Kill, Discard
    <2> QED
      BY <1>4, <2>1, <2>2, <2>3 DEF Outside
  <1>5. CASE UNCHANGED vars
    BY <1>1, <1>5 DEF vars
  <1> QED
    BY <1>2, <1>3, <1>4, <1>5 DEF Next

\* mv loses nothing: what leaves the source as it was listed is at the
\* destination, for every tree, filter, direction and history of failures.
THEOREM NothingLost == Spec => MovedIsKept
  <1> DEFINE Kept == \A f \in Files :
                        Removes(f) /\ source[f] = listed[f] => dest[f] = source[f]
  <1>1. IInv /\ [Next]_vars => Kept
    <2> SUFFICES ASSUME IInv, [Next]_vars, NEW f \in Files,
                        Removes(f), source[f] = listed[f]
                 PROVE  dest[f] = source[f]
      OBVIOUS
    <2>1. FileOK(f) /\ StageOK /\ TypeOK
      BY DEF IInv, FilesOK
    <2>2. source[f] # Absent
      BY DEF Removes
    <2>3. CASE RemoveSource(f) \/ RemoveSourceFails(f)
      <3>1. item[f] = "sent" /\ Moves
        BY <2>3 DEF RemoveSource, RemoveSourceFails, Job, Those
      <3> QED
        BY <2>1, <3>1 DEF FileOK, Follows
    <2>4. CASE DeleteSource(f) \/ DeleteSourceFails(f)
      <3>1. item[f] = "copied" /\ Moves
        BY <2>4 DEF DeleteSource, DeleteSourceFails, Those
      <3> QED
        BY <2>1, <3>1 DEF FileOK, Follows
    <2>5. CASE Cleanup \/ CleanupFails
      <3>1. pc = "cleanup"
        BY <2>5 DEF Cleanup, CleanupFails
      <3>2. Moves /\ item[f] \in {"gone", "copied", "moved", "stuck"}
        BY <2>1, <3>1 DEF StageOK, AllIn, Selected
      <3> QED
        BY <2>1, <2>2, <3>2 DEF FileOK, Follows
    <2> QED
      BY <2>1, <2>3, <2>4, <2>5, Removers
  <1>2. IInv /\ [Next]_vars => [Kept]_vars
    BY <1>1
  <1>3. Spec => [][Kept]_vars
    BY <1>2, Invariant, PTL DEF Spec
  <1> QED
    BY <1>3 DEF MovedIsKept

\* A planned mv removes its sources, and any mv a whole tree, only after every
\* selected file was copied.
THEOREM CopiesFirst == Spec => CopiedBeforeRemoved
  <1> DEFINE Gate ==
        (\E f \in Files : Removes(f)) /\ (~task.streaming \/ pc = "cleanup")
          => /\ \A g \in Selected : item[g] \in {"gone", "copied", "moved", "stuck"}
             /\ pc = "cleanup" => Selected = Files
  <1>1. IInv /\ [Next]_vars => Gate
    <2> SUFFICES ASSUME IInv, [Next]_vars, NEW f \in Files, Removes(f),
                        ~task.streaming \/ pc = "cleanup"
                 PROVE  /\ \A g \in Selected :
                              item[g] \in {"gone", "copied", "moved", "stuck"}
                        /\ pc = "cleanup" => Selected = Files
      OBVIOUS
    <2>1. StageOK /\ TypeOK
      BY DEF IInv
    <2>2. \/ RemoveSource(f) \/ RemoveSourceFails(f)
          \/ DeleteSource(f) \/ DeleteSourceFails(f)
          \/ Cleanup \/ CleanupFails
      BY <2>1, Removers
    <2>3. CASE RemoveSource(f) \/ RemoveSourceFails(f)
      BY <2>3 DEF RemoveSource, RemoveSourceFails, Job
    <2>4. CASE DeleteSource(f) \/ DeleteSourceFails(f)
      BY <2>1, <2>4 DEF DeleteSource, DeleteSourceFails, StageOK, AllIn
    <2>5. CASE Cleanup \/ CleanupFails
      BY <2>1, <2>5 DEF Cleanup, CleanupFails, StageOK, AllIn, Selected
    <2> QED
      BY <2>2, <2>3, <2>4, <2>5
  <1>2. IInv /\ [Next]_vars => [Gate]_vars
    BY <1>1
  <1>3. Spec => [][Gate]_vars
    BY <1>2, Invariant, PTL DEF Spec
  <1> QED
    BY <1>3 DEF CopiedBeforeRemoved

\* A destination loses nothing but what sync has planned.
LEMMA Deleters ==
  ASSUME IInv, [Next]_vars, NEW f \in Files, dest[f] # Absent, dest'[f] = Absent
  PROVE  DeleteExtra(f) \/ DeleteExtraFails(f)
  <1>0. TypeOK /\ StageOK /\ FilesOK
    BY DEF IInv
  <1>1. CASE Open \/ UNCHANGED vars
    BY <1>1 DEF Open, vars
  <1>2. ASSUME NEW g \in Files, File(g) PROVE DeleteExtra(f)
    <2>1. CASE Put(g) \/ Fill(g)
      <3>1. bytes[g] # Absent /\ dest' = [dest EXCEPT ![g] = bytes[g]]
        BY <1>0, <2>1 DEF Put, Fill, Job, Those, FilesOK, FileOK, Follows
      <3> QED
        BY <1>0, <3>1 DEF TypeOK
    <2>2. CASE Truncate(g)
      BY <1>0, <2>2, VersionValues DEF Truncate, TypeOK
    <2>3. CASE CopyAtService(g)
      BY <1>0, <2>3 DEF CopyAtService, Readable, TypeOK
    <2>4. CASE DeleteExtra(g)
      <3>1. g = f
        BY <1>0, <2>4 DEF DeleteExtra, TypeOK
      <3> QED
        BY <2>4, <3>1
    <2> QED
      BY <1>2, <2>1, <2>2, <2>3, <2>4
      DEF File, Discover, Skip, Start, Read, Refuse, Compare, RemoveSource, RecordCopy,
          RecordFailure, RecordMove, DeleteSource
  <1>3. CASE EndCopy \/ PlanSource \/ PlanExtras \/ Cleanup \/ EndDelete
    BY <1>3 DEF EndCopy, PlanSource, PlanExtras, Cleanup, EndDelete
  <1>4. CASE DriverFails \/ CleanupFails \/ PlanFails \/ Kill \/ Discard
    BY <1>4 DEF DriverFails, Stop, CleanupFails, PlanFails, Kill, Discard
  <1>5. ASSUME NEW g \in Files, DeleteExtraFails(g) PROVE g = f
    <2>1. dest' \in {dest, [dest EXCEPT ![g] = Absent]}
      BY <1>5 DEF DeleteExtraFails
    <2> QED
      BY <1>0, <2>1 DEF TypeOK
  <1>6. ASSUME NEW g \in Files,
               \/ JobFails(g) \/ RemoveSourceFails(g) \/ SaveFails(g)
               \/ DeleteSourceFails(g) \/ Edit(g)
        PROVE  FALSE
    BY <1>6 DEF JobFails, RemoveSourceFails, SaveFails, Stop, DeleteSourceFails, Edit
  <1>7. ASSUME NEW g \in Files, CopyUnanswered(g) PROVE FALSE
    BY <1>0, <1>7 DEF CopyUnanswered, Readable, TypeOK
  <1> QED
    BY <1>1, <1>2, <1>3, <1>4, <1>5, <1>6, <1>7 DEF Next, Run, Outside

\* sync --delete removes only selected extras, after a copy stage that left no
\* failed file: whatever the owner does to the source meanwhile.
THEOREM OnlyExtrasGo == Spec => ExtrasOnly
  <1> DEFINE Extra == \A f \in Files :
          dest[f] # Absent /\ dest'[f] = Absent
            => /\ f \in Selected \ present
               /\ \A g \in Selected : item[g] \in {"gone", "skipped", "copied"}
  <1>1. IInv /\ [Next]_vars => Extra
    <2> SUFFICES ASSUME IInv, [Next]_vars, NEW f \in Files,
                        dest[f] # Absent, dest'[f] = Absent
                 PROVE  /\ f \in Selected \ present
                        /\ \A g \in Selected : item[g] \in {"gone", "skipped", "copied"}
      OBVIOUS
    <2>1. f \in plan
      BY Deleters DEF DeleteExtra, DeleteExtraFails
    <2>2. plan # {} /\ StageOK
      BY <2>1 DEF IInv
    <2> QED
      BY <2>1, <2>2 DEF StageOK, AllIn
  <1>2. IInv /\ [Next]_vars => [Extra]_vars
    BY <1>1
  <1>3. Spec => [][Extra]_vars
    BY <1>2, Invariant, PTL DEF Spec
  <1> QED
    BY <1>3 DEF ExtrasOnly

-----------------------------------------------------------------------------
(* What a transfer has brought. *)

\* A file is overwritten whatever the destination has, in this run or never.
Forced == task.strategy = "force" /\ ~task.checkpoint

AsListed(f, v) == v >= listed[f] /\ (task.from = "remote" => v = listed[f])

Settled == {"sent", "copied", "removed", "kept", "moved", "stuck"}

\* A forced run has read, and then has brought, at least what it listed.
Brought(f) ==
    /\ source[f] # Absent => source[f] >= listed[f]
    /\ Forced => /\ item[f] # "skipped"
                 /\ f \in completed => item[f] \in Settled
                 /\ item[f] \in {"read", "torn", "landed"} => AsListed(f, bytes[f])
                 /\ item[f] \in Settled => AsListed(f, dest[f])

\* A file its owner left alone since before the first run: what is read of it
\* is that first version, and once it has arrived nothing replaces it.
Untouched(f) ==
    /\ f \in completed => item[f] \notin InFlight
    /\ source[f] = First =>
          /\ pc # "down" => f \in present
          /\ item[f] \in {"read", "torn", "landed"} => bytes[f] = First
          /\ item[f] \in {"sent", "copied"} => dest[f] = First
          /\ f \in completed \cup saved.keys => dest[f] = First

\* The stages after the copies have left no file open; only sync plans
\* deletions, and only what the checkpoint in memory has is on disk.
RunOK ==
    /\ pc \notin {"down", "copy"} /\ ~fatal => AllIn(Ended)
    /\ pc \in {"plan", "extras"} \/ plan # {} => task.command = "sync"
    /\ ~Idle => saved.keys \subseteq completed
    /\ ~task.checkpoint => saved.keys = {}

Delivered == RunOK /\ \A f \in Files : Brought(f) /\ Untouched(f)

\* The values that versions are compared with.
LEMMA Numbers ==
  ASSUME TypeOK, NEW f \in Files
  PROVE  /\ source[f] \in Int /\ listed[f] \in Int /\ bytes[f] \in Int /\ dest[f] \in Int
         /\ source[f] # Absent => source[f] \in Versions
         /\ \A v \in Int : v >= v
  BY DEF TypeOK, Versions, Absent, Torn

\* The job of f brings f, and nothing else.
JobStep(f) ==
    \/ Discover(f) \/ Skip(f) \/ Start(f) \/ Read(f) \/ Refuse(f) \/ Put(f)
    \/ Compare(f) \/ Truncate(f) \/ Fill(f) \/ CopyAtService(f) \/ JobFails(f)
    \/ CopyUnanswered(f) \/ RemoveSource(f) \/ RemoveSourceFails(f)
    \/ RecordCopy(f) \/ RecordFailure(f) \/ RecordMove(f)

LEMMA JobBrings ==
  ASSUME TypeOK, NEW f \in Files, FileOK(f), Brought(f), Untouched(f), RunOK, JobStep(f)
  PROVE  Brought(f)'
  <1> USE Numbers DEF Brought, Forced, AsListed, Settled
  <1>1. CASE Discover(f)
    BY <1>1, VersionValues DEF Discover, Those, Phases, TypeOK
  <1>2. CASE Skip(f)
    BY <1>2 DEF Skip, Ready, Those, MaySkip, TypeOK
  <1>3. CASE Start(f)
    BY <1>3 DEF Start, Ready, Those, TypeOK
  <1>4. CASE Read(f)
    BY <1>4 DEF Read, Job, Those, Readable, TypeOK
  <1>5. CASE Refuse(f)
    BY <1>5 DEF Refuse, Job, Those, TypeOK
  <1>6. CASE Put(f)
    BY <1>6 DEF Put, Job, Those, FileOK, Follows, TypeOK
  <1>7. CASE Compare(f)
    BY <1>7 DEF Compare, Job, Those, FileOK, Follows, TypeOK
  <1>8. CASE Truncate(f)
    BY <1>8 DEF Truncate, Job, Those, TypeOK
  <1>9. CASE Fill(f)
    BY <1>9 DEF Fill, Job, Those, TypeOK
  <1>10. CASE CopyAtService(f)
    BY <1>10 DEF CopyAtService, Job, Those, Readable, TypeOK
  <1>11. CASE JobFails(f)
    BY <1>11 DEF JobFails, Job, Those, TypeOK
  <1>12. CASE RemoveSource(f)
    BY <1>12 DEF RemoveSource, Job, Those, TypeOK
  <1>13. CASE RemoveSourceFails(f)
    BY <1>13 DEF RemoveSourceFails, Job, Those, TypeOK
  <1>14. CASE RecordCopy(f)
    BY <1>14 DEF RecordCopy, Job, Those, TypeOK
  <1>15. CASE RecordFailure(f)
    BY <1>15 DEF RecordFailure, Job, Those, TypeOK
  <1>16. CASE RecordMove(f)
    BY <1>16 DEF RecordMove, Job, Those, TypeOK
  <1>17. CASE CopyUnanswered(f)
    BY <1>17 DEF CopyUnanswered, Job, Those, Readable, TypeOK
  <1> QED
    BY <1>1, <1>2, <1>3, <1>4, <1>5, <1>6, <1>7, <1>8,
       <1>9, <1>10, <1>11, <1>12, <1>13, <1>14, <1>15, <1>16, <1>17
    DEF JobStep

LEMMA JobLeaves ==
  ASSUME TypeOK, NEW f \in Files, FileOK(f), Brought(f), Untouched(f), RunOK, JobStep(f)
  PROVE  Untouched(f)'
  <1> USE Numbers DEF Untouched, RunOK, Idle, InFlight
  <1>1. CASE Discover(f)
    BY <1>1, VersionValues DEF Discover, Those, Phases, TypeOK
  <1>2. CASE Skip(f)
    BY <1>2 DEF Skip, Ready, Those, MaySkip, TypeOK
  <1>3. CASE Start(f)
    BY <1>3 DEF Start, Ready, Those, TypeOK
  <1>4. CASE Read(f)
    BY <1>4 DEF Read, Job, Those, Readable, TypeOK
  <1>5. CASE Refuse(f)
    BY <1>5 DEF Refuse, Job, Those, TypeOK
  <1>6. CASE Put(f)
    BY <1>6 DEF Put, Job, Those, FileOK, Follows, TypeOK
  <1>7. CASE Compare(f)
    BY <1>7 DEF Compare, Job, Those, FileOK, Follows, TypeOK
  <1>8. CASE Truncate(f)
    BY <1>8 DEF Truncate, Job, Those, TypeOK
  <1>9. CASE Fill(f)
    BY <1>9 DEF Fill, Job, Those, TypeOK
  <1>10. CASE CopyAtService(f)
    BY <1>10 DEF CopyAtService, Job, Those, Readable, TypeOK
  <1>11. CASE JobFails(f)
    BY <1>11 DEF JobFails, Job, Those, TypeOK
  <1>12. CASE RemoveSource(f)
    BY <1>12, VersionValues DEF RemoveSource, Job, Those, TypeOK
  <1>13. CASE RemoveSourceFails(f)
    BY <1>13, VersionValues DEF RemoveSourceFails, Job, Those, TypeOK
  <1>14. CASE RecordCopy(f)
    BY <1>14 DEF RecordCopy, Job, Those, TypeOK
  <1>15. CASE RecordFailure(f)
    BY <1>15 DEF RecordFailure, Job, Those, TypeOK
  <1>16. CASE RecordMove(f)
    BY <1>16 DEF RecordMove, Job, Those, TypeOK
  <1>17. CASE CopyUnanswered(f)
    BY <1>17 DEF CopyUnanswered, Job, Those, Readable, TypeOK
  <1> QED
    BY <1>1, <1>2, <1>3, <1>4, <1>5, <1>6, <1>7, <1>8,
       <1>9, <1>10, <1>11, <1>12, <1>13, <1>14, <1>15, <1>16, <1>17
    DEF JobStep

\* A step of the job of f: what it changes elsewhere.
LEMMA JobFrame ==
  ASSUME TypeOK, NEW f \in Files, RunOK, JobStep(f)
  PROVE  /\ Others(f)
         /\ pc = "copy" /\ pc' = pc /\ plan' = plan
         /\ present' = present
         /\ completed \subseteq completed'
         /\ saved'.keys \subseteq saved.keys \cup completed'
         /\ ~task.checkpoint => saved' = saved
  <1> USE DEF JobStep
  <1>1. Others(f)
    BY DEF Others, TypeOK, Discover, Skip, Start, Read, Refuse, Put, Compare, Truncate,
           Fill, CopyAtService, JobFails, CopyUnanswered, RemoveSource, RemoveSourceFails,
           RecordCopy, RecordFailure, RecordMove
  <1>2. pc = "copy" /\ pc' = pc /\ plan' = plan /\ present' = present
    BY DEF Discover, Skip, Ready, Start, Read, Refuse, Put, Compare, Truncate, Fill,
           CopyAtService, JobFails, CopyUnanswered, RemoveSource, RemoveSourceFails,
           RecordCopy, RecordFailure, RecordMove, Job
  <1>3. \/ completed' = completed /\ saved' = saved
        \/ /\ completed' = completed \cup {f}
           /\ saved' = IF task.checkpoint THEN [keys |-> completed', torn |-> FALSE]
                       ELSE saved
    BY DEF Discover, Skip, Start, Read, Refuse, Put, Compare, Truncate, Fill,
           CopyAtService, JobFails, CopyUnanswered, RemoveSource, RemoveSourceFails,
           RecordCopy, RecordFailure, RecordMove
  <1>4. saved'.keys \subseteq saved.keys \cup completed' /\ completed \subseteq completed'
    BY <1>3
  <1> QED
    BY <1>1, <1>2, <1>3, <1>4

\* What a step of one file leaves of the others.
LEMMA OneBrought ==
  ASSUME NEW f \in Files, Others(f), pc # "down", present' = present,
         saved'.keys \subseteq saved.keys \cup completed',
         \A g \in Files : Brought(g) /\ Untouched(g),
         Brought(f)', Untouched(f)'
  PROVE  \A g \in Files : Brought(g)' /\ Untouched(g)'
  <1> SUFFICES ASSUME NEW g \in Files \ {f} PROVE Brought(g)' /\ Untouched(g)'
    OBVIOUS
  <1>1. Brought(g) /\ Untouched(g)
    OBVIOUS
  <1>2. /\ task' = task /\ item'[g] = item[g] /\ listed'[g] = listed[g]
        /\ bytes'[g] = bytes[g] /\ source'[g] = source[g] /\ dest'[g] = dest[g]
        /\ g \in completed' => g \in completed
        /\ g \in saved'.keys => g \in completed \cup saved.keys
    BY DEF Others
  <1>3. Brought(g)'
    BY <1>1, <1>2 DEF Brought, Forced, AsListed
  <1>4. Untouched(g)'
    BY <1>1, <1>2 DEF Untouched
  <1> QED
    BY <1>3, <1>4

LEMMA JobDelivers ==
  ASSUME TypeOK, FilesOK, StageOK, Delivered, NEW f \in Files, JobStep(f)
  PROVE  Delivered'
  <1>1. FileOK(f) /\ Brought(f) /\ Untouched(f) /\ RunOK
    BY DEF Delivered, FilesOK
  <1>2. /\ Others(f) /\ pc = "copy" /\ pc' = pc /\ plan' = plan /\ present' = present
        /\ completed \subseteq completed'
        /\ saved'.keys \subseteq saved.keys \cup completed'
        /\ ~task.checkpoint => saved' = saved
    BY <1>1, JobFrame
  <1>3. \A g \in Files : Brought(g)' /\ Untouched(g)'
    BY <1>1, <1>2, JobBrings, JobLeaves, OneBrought DEF Delivered
  <1>4. RunOK'
    BY <1>1, <1>2 DEF RunOK, Idle, Others
  <1> QED
    BY <1>3, <1>4 DEF Delivered

\* A stopped run claims nothing, and an arrived file stays.
LEMMA StopDelivers ==
  ASSUME TypeOK, Delivered, Stop, saved'.keys = saved.keys
  PROVE  Delivered'
  <1>1. ASSUME NEW f \in Files PROVE Brought(f)' /\ Untouched(f)'
    <2>1. Brought(f) /\ Untouched(f) /\ (source[f] # Absent => source[f] >= Absent)
      BY Numbers DEF Delivered, Versions, Absent
    <2>2. /\ item'[f] = "unseen" /\ listed'[f] = Absent /\ completed' = {}
          /\ pc' = "down"
          /\ UNCHANGED <<task, source, dest>>
      BY DEF Stop, Fresh
    <2>3. Brought(f)'
      BY <2>1, <2>2 DEF Brought, Forced, AsListed, Settled
    <2>4. Untouched(f)'
      BY <2>1, <2>2 DEF Untouched
    <2> QED
      BY <2>3, <2>4
  <1>2. RunOK'
    BY DEF Delivered, RunOK, Stop, Fresh, Idle
  <1> QED
    BY <1>1, <1>2 DEF Delivered

LEMMA OpenDelivers ==
  ASSUME TypeOK, Delivered, Open
  PROVE  Delivered'
  <1>1. ASSUME NEW f \in Files PROVE Brought(f)' /\ Untouched(f)'
    <2>1. /\ Brought(f) /\ Untouched(f)
          /\ source[f] # Absent => source[f] >= Absent
          /\ First # Absent
      BY Numbers, VersionValues DEF Delivered, Versions, Absent, First
    <2>2. /\ item'[f] = "unseen" /\ listed'[f] = Absent
          /\ UNCHANGED <<task, source, dest, saved>>
          /\ f \in completed' => f \in saved.keys /\ task.checkpoint
          /\ source[f] # Absent => f \in present'
      BY DEF Open, Fresh
    <2>3. Brought(f)'
      BY <2>1, <2>2 DEF Brought, Forced, AsListed, Settled
    <2>4. Untouched(f)'
      BY <2>1, <2>2 DEF Untouched, InFlight
    <2> QED
      BY <2>3, <2>4
  <1>2. RunOK'
    BY DEF Delivered, RunOK, Open, Fresh, Idle
  <1> QED
    BY <1>1, <1>2 DEF Delivered

\* A key that could not be saved is still in memory.
LEMMA SaveFailsDelivers ==
  ASSUME TypeOK, FilesOK, StageOK, Delivered, NEW f \in Files, SaveFails(f)
  PROVE  Delivered'
  <1>1. saved'.keys = saved.keys
    BY DEF SaveFails, TypeOK
  <1>2. CASE ~task.streaming
    BY <1>1, <1>2, StopDelivers DEF SaveFails
  <1>3. CASE task.streaming
    <2>1. /\ Others(f) /\ pc = "copy" /\ plan' = plan /\ present' = present
          /\ completed' = completed \cup {f} /\ pc' \in {"copy", "ended"} /\ fatal'
          /\ item[f] = "sent" /\ item'[f] = "copied" /\ task.checkpoint
          /\ UNCHANGED <<task, source, dest, listed, bytes>>
      BY <1>3 DEF SaveFails, Others, TypeOK, Job, Those
    <2>2. Brought(f) /\ Untouched(f) /\ RunOK
      BY DEF Delivered
    <2>3. Brought(f)'
      BY <2>1, <2>2 DEF Brought, Forced
    <2>4. Untouched(f)'
      BY <1>1, <2>1, <2>2 DEF Untouched, InFlight
    <2>5. \A g \in Files : Brought(g)' /\ Untouched(g)'
      BY <1>1, <2>1, <2>3, <2>4, OneBrought DEF Delivered
    <2>6. RunOK'
      BY <1>1, <2>1, <2>2 DEF RunOK, Idle, StageOK
    <2> QED
      BY <2>5, <2>6 DEF Delivered
  <1> QED
    BY <1>2, <1>3

-----------------------------------------------------------------------------
(* The stages after it. *)

\* What no file notices.
LEMMA Unnoticed ==
  ASSUME \A f \in Files : Brought(f) /\ Untouched(f),
         UNCHANGED <<task, source, dest, item, listed, bytes, completed, present>>,
         saved'.keys \subseteq saved.keys, pc # "down"
  PROVE  \A f \in Files : Brought(f)' /\ Untouched(f)'
  BY DEF Brought, Forced, AsListed, Untouched

LEMMA DriverFailsDelivers ==
  ASSUME TypeOK, StageOK, Delivered, DriverFails
  PROVE  Delivered'
  <1>1. CASE ~task.streaming
    BY <1>1, StopDelivers DEF DriverFails
  <1>2. CASE task.streaming
    <2>1. /\ UNCHANGED <<task, source, dest, item, listed, bytes, completed, present,
                         saved, pc, plan>>
          /\ fatal' /\ pc = "copy"
      BY <1>2 DEF DriverFails
    <2>2. RunOK'
      BY <2>1 DEF Delivered, RunOK, Idle
    <2> QED
      BY <2>1, <2>2, Unnoticed DEF Delivered
  <1> QED
    BY <1>1, <1>2

\* The copy stage is left with every file ended, or broken off.
LEMMA EndCopyDelivers ==
  ASSUME TypeOK, StageOK, Delivered, EndCopy
  PROVE  Delivered'
  <1>1. /\ UNCHANGED <<task, source, dest, item, listed, bytes, completed, present,
                       saved, plan, fatal>>
        /\ pc = "copy" /\ pc' = NextStage
    BY DEF EndCopy, Drained
  <1>2. ~fatal => AllIn(Ended)
    BY DEF EndCopy, Drained, AllIn
  <1>3. AllIn(Ended)' <=> AllIn(Ended)
    BY <1>1 DEF AllIn, Selected
  <1>4. pc' # "extras" /\ (pc' = "plan" => task.command = "sync")
    BY <1>1 DEF NextStage, Moves
  <1>5. plan = {}
    BY <1>1 DEF StageOK
  <1>6. RunOK'
    BY <1>1, <1>2, <1>3, <1>4, <1>5 DEF Delivered, RunOK, Idle
  <1> QED
    BY <1>1, <1>6, Unnoticed DEF Delivered

LEMMA PlanDelivers ==
  ASSUME TypeOK, StageOK, Delivered,
         PlanSource \/ PlanExtras \/ PlanFails \/ EndDelete
  PROVE  Delivered'
  <1>1. /\ UNCHANGED <<task, source, dest, item, listed, bytes, completed, present, saved>>
        /\ pc \in {"plan", "extras", "delete"}
        /\ pc' \in {"extras", "delete", "ended"}
        /\ fatal => fatal'
    BY DEF PlanSource, PlanExtras, PlanFails, EndDelete
  <1>2. AllIn(Ended)' <=> AllIn(Ended)
    BY <1>1 DEF AllIn, Selected
  <1>3. pc' = "extras" \/ plan' # {} => task.command = "sync"
    BY DEF PlanSource, PlanExtras, PlanFails, EndDelete, Delivered, RunOK
  <1>4. RunOK'
    BY <1>1, <1>2, <1>3 DEF Delivered, RunOK, Idle
  <1> QED
    BY <1>1, <1>4, Unnoticed DEF Delivered

\* A source goes; what was brought stays.
LEMMA SourceGone ==
  ASSUME TypeOK, NEW f \in Files, Brought(f), Untouched(f), pc # "down",
         UNCHANGED <<task, dest, listed, bytes, completed, present, saved>>,
         source'[f] \in {source[f], Absent},
         item'[f] = item[f] \/ (item[f] = "copied" /\ item'[f] \in {"moved", "stuck"})
  PROVE  Brought(f)' /\ Untouched(f)'
  <1>1. First # Absent
    BY DEF First, Absent
  <1>2. Brought(f)'
    BY DEF Brought, Forced, AsListed, Settled
  <1>3. Untouched(f)'
    BY <1>1 DEF Untouched, InFlight
  <1> QED
    BY <1>2, <1>3

LEMMA DeleteSourceDelivers ==
  ASSUME TypeOK, StageOK, Delivered, NEW f \in Files,
         DeleteSource(f) \/ DeleteSourceFails(f)
  PROVE  Delivered'
  <1>1. /\ UNCHANGED <<task, dest, listed, bytes, completed, present, saved, pc, plan, fatal>>
        /\ pc = "delete" /\ item[f] = "copied"
        /\ \A g \in Files : /\ source'[g] \in {source[g], Absent}
                            /\ item'[g] = item[g] \/ g = f
        /\ item'[f] \in {"moved", "stuck"}
    BY DEF DeleteSource, DeleteSourceFails, TypeOK, Those
  <1>2. \A g \in Files : Brought(g)' /\ Untouched(g)'
    BY <1>1, SourceGone DEF Delivered
  <1>3. AllIn(Ended) => AllIn(Ended)'
    BY <1>1, Commands DEF AllIn, Ended, Selected, TypeOK
  <1>4. RunOK'
    BY <1>1, <1>3 DEF Delivered, RunOK, Idle
  <1> QED
    BY <1>2, <1>4 DEF Delivered

LEMMA CleanupDelivers ==
  ASSUME TypeOK, StageOK, Delivered, Cleanup \/ CleanupFails
  PROVE  Delivered'
  <1>1. /\ UNCHANGED <<task, dest, listed, bytes, completed, present, saved, plan, fatal>>
        /\ pc = "cleanup" /\ pc' = "ended"
        /\ \A g \in Files :
              /\ source'[g] \in {source[g], Absent}
              /\ item'[g] = item[g] \/ (item[g] = "copied" /\ item'[g] \in {"moved", "stuck"})
    BY DEF Cleanup, CleanupFails, TypeOK
  <1>2. \A g \in Files : Brought(g)' /\ Untouched(g)'
    BY <1>1, SourceGone DEF Delivered
  <1>3. AllIn(Ended) => AllIn(Ended)'
    BY <1>1, Commands DEF AllIn, Ended, Selected, TypeOK
  <1>4. RunOK'
    BY <1>1, <1>3 DEF Delivered, RunOK, Idle
  <1> QED
    BY <1>2, <1>4 DEF Delivered

\* An extra is no file that was at the source all along, and only a
\* checkpointed command removes any.
LEMMA DeleteExtraDelivers ==
  ASSUME TypeOK, StageOK, Delivered, NEW f \in Files,
         DeleteExtra(f) \/ DeleteExtraFails(f)
  PROVE  Delivered'
  <1>1. /\ UNCHANGED <<task, source, item, listed, bytes, completed, present, saved, pc, fatal>>
        /\ pc = "delete" /\ f \in plan /\ plan' \subseteq plan
        /\ \A g \in Files \ {f} : dest'[g] = dest[g]
    BY DEF DeleteExtra, DeleteExtraFails, TypeOK
  <1>2. RunOK /\ Brought(f) /\ Untouched(f)
    BY DEF Delivered
  <1>3. plan # {} /\ f \notin present
    BY <1>1 DEF StageOK
  <1>4. task.checkpoint
    BY <1>2, <1>3, TasksAssumption DEF RunOK, TypeOK
  <1>5. source[f] # First
    BY <1>1, <1>2, <1>3 DEF Untouched
  <1>6. Brought(f)' /\ Untouched(f)'
    BY <1>1, <1>2, <1>4, <1>5 DEF Brought, Forced, Untouched
  <1>7. \A g \in Files : Brought(g)' /\ Untouched(g)'
    <2>1. ASSUME NEW g \in Files \ {f} PROVE Brought(g)' /\ Untouched(g)'
      <3>1. Brought(g) /\ Untouched(g)
        BY DEF Delivered
      <3> QED
        BY <1>1, <3>1 DEF Brought, Forced, AsListed, Untouched
    <2> QED
      BY <1>6, <2>1
  <1>8. AllIn(Ended)' <=> AllIn(Ended)
    BY <1>1 DEF AllIn, Selected
  <1>9. RunOK'
    BY <1>1, <1>2, <1>3, <1>8 DEF RunOK, Idle
  <1> QED
    BY <1>7, <1>9 DEF Delivered

\* What its owner writes is newer than what was listed, and no first version.
LEMMA EditDelivers ==
  ASSUME TypeOK, FilesOK, Delivered, NEW f \in Files, Edit(f)
  PROVE  Delivered'
  <1>1. /\ UNCHANGED <<task, dest, saved, pc, item, listed, bytes, completed, fatal, plan>>
        /\ version' = version + 1 /\ version \in Int /\ version >= First
        /\ \A g \in Files : source'[g] \in {source[g], version', Absent}
        /\ present' = {g \in present : source'[g] # Absent}
    BY BoundsAssumption DEF Edit, TypeOK, First
  <1>2. ASSUME NEW g \in Files PROVE Brought(g)' /\ Untouched(g)'
    <2>1. Brought(g) /\ Untouched(g) /\ listed[g] <= version /\ listed[g] \in Int
      BY Numbers DEF Delivered, FilesOK, FileOK
    <2>2. source'[g] # Absent => source'[g] >= listed'[g]
      BY <1>1, <2>1 DEF Brought
    <2>3. source'[g] = First => source[g] = First
      BY <1>1 DEF First, Absent
    <2>4. Brought(g)'
      BY <1>1, <2>1, <2>2 DEF Brought, Forced, AsListed
    <2>5. Untouched(g)'
      BY <1>1, <2>1, <2>3 DEF Untouched, First, Absent
    <2> QED
      BY <2>4, <2>5
  <1>3. AllIn(Ended)' <=> AllIn(Ended)
    BY <1>1 DEF AllIn, Selected
  <1>4. RunOK'
    BY <1>1, <1>3 DEF Delivered, RunOK, Idle
  <1> QED
    BY <1>2, <1>4 DEF Delivered

-----------------------------------------------------------------------------
(* What was brought stays brought. *)

LEMMA InitDelivered == Init => Delivered
  <1> SUFFICES ASSUME Init PROVE Delivered
    OBVIOUS
  <1>1. First >= Absent /\ ~(First = Absent)
    BY DEF First, Absent
  <1>2. ASSUME NEW f \in Files PROVE Brought(f) /\ Untouched(f)
    <2>1. /\ item[f] = "unseen" /\ listed[f] = Absent /\ source[f] \in {Absent, First}
          /\ completed = {} /\ saved.keys = {} /\ pc = "down"
      BY DEF Init
    <2>2. Brought(f)
      BY <1>1, <2>1 DEF Brought, Settled
    <2>3. Untouched(f)
      BY <2>1 DEF Untouched, InFlight
    <2> QED
      BY <2>2, <2>3
  <1>3. RunOK
    BY DEF Init, RunOK, Idle
  <1> QED
    BY <1>2, <1>3 DEF Delivered

LEMMA StepDelivered == IInv /\ Delivered /\ [Next]_vars => Delivered'
  <1> SUFFICES ASSUME TypeOK, FilesOK, StageOK, Delivered, [Next]_vars PROVE Delivered'
    BY DEF IInv
  <1>1. CASE Open
    BY <1>1, OpenDelivers
  <1>2. CASE \E f \in Files : JobStep(f)
    BY <1>2, JobDelivers
  <1>3. CASE \E f \in Files : SaveFails(f) \/ Edit(f)
    BY <1>3, SaveFailsDelivers, EditDelivers
  <1>4. CASE DriverFails \/ EndCopy
    BY <1>4, DriverFailsDelivers, EndCopyDelivers
  <1>5. CASE PlanSource \/ PlanExtras \/ PlanFails \/ EndDelete
    BY <1>5, PlanDelivers
  <1>6. CASE Cleanup \/ CleanupFails
    BY <1>6, CleanupDelivers
  <1>7. CASE \E f \in Files : DeleteSource(f) \/ DeleteSourceFails(f)
    BY <1>7, DeleteSourceDelivers
  <1>8. CASE \E f \in Files : DeleteExtra(f) \/ DeleteExtraFails(f)
    BY <1>8, DeleteExtraDelivers
  <1>9. CASE Kill
    <2>1. saved'.keys = saved.keys /\ Stop
      BY <1>9 DEF Kill, TypeOK
    <2> QED
      BY <2>1, StopDelivers
  <1>10. CASE Discard
    <2>1. /\ UNCHANGED <<task, source, dest, item, listed, bytes, completed, present,
                         pc, plan, fatal>>
          /\ saved'.keys = {} /\ Idle
      BY <1>10 DEF Discard
    <2>2. ASSUME NEW f \in Files PROVE Brought(f)' /\ Untouched(f)'
      <3>1. Brought(f) /\ Untouched(f)
        BY DEF Delivered
      <3> QED
        BY <2>1, <3>1 DEF Brought, Forced, AsListed, Untouched
    <2>3. AllIn(Ended)' <=> AllIn(Ended)
      BY <2>1 DEF AllIn, Selected
    <2>4. RunOK'
      BY <2>1, <2>3 DEF Delivered, RunOK, Idle
    <2> QED
      BY <2>2, <2>4 DEF Delivered
  <1>11. CASE UNCHANGED vars
    BY <1>11 DEF vars, Delivered, RunOK, Idle, AllIn, Selected, Brought, Forced, AsListed,
                 Untouched
  <1> QED
    BY <1>1, <1>2, <1>3, <1>4, <1>5, <1>6, <1>7, <1>8, <1>9, <1>10, <1>11
    DEF Next, Run, Outside, File, JobStep

LEMMA EverDelivered == Spec => []Delivered
  <1> QED
    BY InitDelivered, StepDelivered, Invariant, PTL DEF Spec

\* A forced run without a checkpoint that reports success has brought every
\* file it listed, at least as new as listed, and from a remote source exactly.
THEOREM SuccessBringsAll == Spec => []SuccessIsReal
  <1>1. IInv /\ Delivered => SuccessIsReal
    <2> SUFFICES ASSUME IInv, Delivered, Succeeded, Forced, NEW f \in Listed
                 PROVE  dest[f] >= listed[f] /\ (task.from = "remote" => dest[f] = listed[f])
      BY DEF SuccessIsReal, Forced
    <2>1. f \in Files /\ listed[f] # Absent /\ f \in Selected
      BY Commands DEF Listed, IInv, TypeOK
    <2>2. FileOK(f) /\ Brought(f)
      BY <2>1 DEF IInv, FilesOK, Delivered
    <2>3. item[f] \in Ended
      BY <2>1 DEF Succeeded, Delivered, RunOK, AllIn
    <2>4. item[f] \in Settled
      BY <2>1, <2>2, <2>3 DEF Succeeded, FileOK, Ends, Brought, Ended, Settled
    <2> QED
      BY <2>2, <2>4 DEF Brought, AsListed
  <1> QED
    BY <1>1, Invariant, EverDelivered, PTL

\* A saved key is the key of a file that arrived: as long as its owner leaves
\* it alone, no later run, deletion or interruption takes it from the
\* destination.
THEOREM SavedKeysArrived == Spec => []CheckpointIsReal
  <1>1. IInv /\ Delivered => CheckpointIsReal
    BY DEF CheckpointIsReal, Delivered, Untouched, IInv, TypeOK
  <1> QED
    BY <1>1, Invariant, EverDelivered, PTL

=============================================================================
