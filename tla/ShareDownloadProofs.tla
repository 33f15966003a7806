-------------------------- MODULE ShareDownloadProofs --------------------------
(* Proofs that a share download accounts for what it did: for the quota it   *)
(* used, the recipient it used it for, the files it published and saved, the *)
(* rows of its report and the identity of its error.                         *)
(*                                                                           *)
(* The invariant gives each variable of the account its meaning in terms of  *)
(* the states of the files (FileOK, IssuanceOK, Row, Counts), and says what  *)
(* error and phase allow of them (ErrorOK, PhaseOK).                         *)
(*                                                                           *)
(* The last section is about the end of a run: no step goes back (Further),  *)
(* and a driver that waits has somebody to wait for (AwaitsSomething).       *)
EXTENDS ShareDownload, SequenceTheorems, FiniteSetTheorems, TLAPS

Ordinary == error.kind \in {"none", "file", "directory"}
Doubtful == {"sent", "unusable"}

\* Result, lists and place in the schedule of a file, by its state.
FileOK(i) ==
    /\ phase # "ended" =>
          /\ outcome[i] = "ok" => state[i] = "done"
          /\ outcome[i] = "error" => state[i] \in {"scheduled", "done"}
          /\ outcome[i] = "unknown" => state[i] = "issuing"
    /\ i \in completed => state[i] \in {"unscheduled", "completed"}
    /\ i \in completed /\ ~resume => state[i] = "completed"
    /\ state[i] = "completed" => i \in completed
    /\ state[i] = "failed" <=> i \in failures
    /\ state[i] = "skipped" <=> i \in skippedFiles
    /\ i >= next => state[i] = "unscheduled"
    /\ i < next => i \in completed \/ state[i] # "unscheduled"

\* The issuances of a file and what is known of them.
IssuanceOK(i) ==
    /\ state[i] \in {"unscheduled", "scheduled"} => answer[i] = "none" /\ issues[i] = 0
    /\ state[i] = "issuing" => answer[i] \in Doubtful
    /\ state[i] = "downloading" => answer[i] = "url"
    /\ state[i] = "done" => answer[i] \in {"url", "refused"}
    /\ issues[i] <= 1

Admitted ==
    issuing <=> \E i \in Files : state[i] # "issuing" /\ answer[i] \in Doubtful

\* The row of a file in a report that has lost none.
Row(i) ==
    IF state[i] \in {"failed", "skipped"} THEN <<state[i]>>
    ELSE IF state[i] = "completed" THEN <<"succeeded">>
    ELSE IF i \in completed /\ i < next THEN <<"skipped">>
    ELSE <<>>

RowsOK == report \in {"open", "published"} => \A i \in Files : rows[i] = Row(i)

Resumed == {i \in completed \cap verified : state[i] # "completed"}
Counts == skipped = Cardinality(skippedFiles) + Cardinality(Resumed)

JournalOK ==
    /\ ~checkpointed => ~durable
    /\ poisoned => ~durable
    /\ checkpointed /\ ~poisoned => completed \subseteq saved

SessionOK == sessionUser = Recipient /\ issuers \subseteq {Recipient}

ErrorOK ==
    /\ phase = "transfer" =>
          /\ error.kind \in {"none", "file", "tracking"}
          /\ tracking <=> error.kind = "tracking"
          /\ error = NoError <=> failures = {} /\ ~tracking
    /\ stopped => issuing \/ tracking
    /\ issuing => failures # {}
    /\ failures # {} => error # NoError
    /\ tracking => ~Ordinary
    /\ error = NoError /\ phase \notin {"check", "ended"} => report = "open"
    /\ error = NoError /\ phase = "ended" => report = "published"
    /\ error = NoError /\ phase # "check" => durable = checkpointed
    /\ blame # None => \/ error = [kind |-> "file", file |-> blame]
                       \/ phase = "final" /\ error.kind = "interrupted"

\* Nothing has been transferred while the resume is being verified.
Fresh ==
    /\ next = 1 /\ state = [i \in Files |-> "unscheduled"]
    /\ outcome = [i \in Files |-> None]
    /\ failures = {} /\ skippedFiles = {}
    /\ error = NoError /\ ~tracking /\ ~stopped /\ blame = None
    /\ report = "closed" /\ rows = [i \in Files |-> <<>>]
    /\ ~poisoned /\ ~durable /\ completed \subseteq saved

PhaseOK ==
    /\ phase = "check" => Fresh
    /\ \/ phase = "transfer" \/ report \in {"open", "published"}
       \/ phase \in {"final", "ended"} /\ Ordinary
       => verified = Files /\ active = None
    /\ phase = "final" /\ Ordinary => Incomplete = {}
    /\ phase \in {"final", "ended"} /\ Ordinary => stopped \/ next = N + 1
    /\ phase = "ended" => Incomplete = {}
    /\ report = "published" => phase = "ended"

\* The file each actor is busy with.
TurnsOK ==
    /\ active # None => active \notin verified
    /\ finishing # None =>
          phase = "transfer" /\ state[finishing] = "done" /\ outcome[finishing] = "ok"
    /\ lock # None =>
          phase = "transfer" /\ state[lock] = "scheduled" /\ outcome[lock] = None

IInv ==
    /\ TypeOK
    /\ \A i \in Files : FileOK(i) /\ IssuanceOK(i)
    /\ Admitted /\ RowsOK /\ Counts /\ JournalOK /\ SessionOK
    /\ ErrorOK /\ PhaseOK /\ TurnsOK

-----------------------------------------------------------------------------
(* Arithmetic and the steps a step consists of. *)

LEMMA FilesFinite == IsFiniteSet(Files) /\ Cardinality(Files) = N
  BY FS_Interval, ConstantsAssumption DEF Files

LEMMA FileValues ==
  /\ Files \subseteq Nat /\ None \notin Files
  /\ None # "ok" /\ None # "error" /\ None # "unknown"
  /\ \A i \in Files : i >= 1 /\ i <= N
  /\ N \in Nat /\ 1 \in 1 .. N + 1
  BY ConstantsAssumption DEF Files

LEMMA AppendOnce ==
  ASSUME NEW kind \in RowKinds, NEW s \in Seq(RowKinds)
  PROVE  Append(s, kind) \in Seq(RowKinds) /\ Append(<<>>, kind) = <<kind>>
  BY AppendProperties

LEMMA ErrorValues ==
  /\ NoError \in Errors
  /\ \A i \in Files : [kind |-> "file", file |-> i] \in Errors
  /\ \A k \in {"tracking", "directory", "interrupted", "setup", "artifacts"} :
        Fatal(k) \in Errors
  BY DEF Errors, NoError, Fatal

LEMMA ErrorKinds ==
  /\ \A e \in Errors : e = NoError <=> e.kind = "none"
  /\ \A e \in Errors : e.kind = "file" => e.file \in Files /\ e = [kind |-> "file", file |-> e.file]
  /\ NoError.kind = "none"
  /\ \A i \in Files : [kind |-> "file", file |-> i].kind = "file"
  /\ \A k \in {"tracking", "directory", "interrupted", "setup", "artifacts"} :
        Fatal(k).kind = k
  BY DEF Errors, NoError, Fatal

\* Every step is one of these.
LEMMA StepCases ==
  ASSUME [Next]_vars
  PROVE  \/ VerifyStart \/ VerifyEnd \/ SetupFails \/ Begin
         \/ Schedule \/ (\E i \in Files : Accept(i)) \/ PublishFails \/ Publish
         \/ TransferEnds \/ Interrupt \/ Finalize
         \/ \E i \in Files : \/ EnsureSession(i) \/ RefreshSession(i) \/ Issued(i)
                             \/ Refused(i) \/ IssuanceUnknown(i) \/ Download(i)
                             \/ CreateLocal(i)
         \/ Expire \/ SwitchAccount \/ UNCHANGED vars
  BY DEF Next, Check, Driver, Job

-----------------------------------------------------------------------------
(* Types. *)

\* All of the type invariant but the range of the counter.
Types ==
    /\ resume \in BOOLEAN /\ checkpointed \in BOOLEAN /\ directoryFailed \in BOOLEAN
    /\ tracking \in BOOLEAN /\ stopped \in BOOLEAN /\ issuing \in BOOLEAN
    /\ durable \in BOOLEAN /\ poisoned \in BOOLEAN /\ expired \in BOOLEAN
    /\ policy \in Policies /\ slots \in 1 .. Concurrency
    /\ phase \in {"check", "transfer", "final", "ended"}
    /\ active \in Files \cup {None} /\ finishing \in Files \cup {None}
    /\ lock \in Files \cup {None} /\ blame \in Files \cup {None}
    /\ next \in 1 .. N + 1
    /\ state \in [Files -> Running \cup {"unscheduled", "failed", "completed",
                                         "skipped"}]
    /\ outcome \in [Files -> {None, "ok", "error", "unknown"}]
    /\ completed \subseteq Files /\ verified \subseteq Files /\ saved \subseteq Files
    /\ skippedFiles \subseteq Files /\ failures \subseteq Files
    /\ error \in Errors
    /\ report \in {"closed", "open", "broken", "published"}
    /\ rows \in [Files -> Seq(RowKinds)]
    /\ local \in [Files -> {"absent", "older", "newer", "ours"}]
    /\ sessionUser \in Users /\ account \in Users /\ issuers \subseteq Users
    /\ answer \in [Files -> {"none", "sent", "url", "unusable", "refused"}]
    /\ issues \in [Files -> Nat]

\* The options of the run, and the receiver's session with the service.
FixedTypes ==
    /\ resume \in BOOLEAN /\ checkpointed \in BOOLEAN /\ directoryFailed \in BOOLEAN
    /\ policy \in Policies /\ slots \in 1 .. Concurrency
    /\ account \in Users

ServiceTypes ==
    /\ expired \in BOOLEAN /\ lock \in Files \cup {None} /\ sessionUser \in Users
    /\ issuers \subseteq Users
    /\ answer \in [Files -> {"none", "sent", "url", "unusable", "refused"}]
    /\ issues \in [Files -> Nat]

\* A failed file, a skipped one: what record, track_error and the report leave.
TrackTypes ==
    /\ state \in [Files -> Running \cup {"unscheduled", "failed", "completed",
                                         "skipped"}]
    /\ outcome \in [Files -> {None, "ok", "error", "unknown"}]
    /\ skippedFiles \cup failures \subseteq Files
    /\ tracking \in BOOLEAN /\ stopped \in BOOLEAN
    /\ blame \in Files \cup {None}
    /\ error \in Errors
    /\ report \in {"closed", "open", "broken", "published"}
    /\ rows \in [Files -> Seq(RowKinds)]

\* What a step of a job may change, apart from the session.
JobTypes ==
    /\ state \in [Files -> Running \cup {"unscheduled", "failed", "completed",
                                         "skipped"}]
    /\ outcome \in [Files -> {None, "ok", "error", "unknown"}]
    /\ answer \in [Files -> {"none", "sent", "url", "unusable", "refused"}]
    /\ issues \in [Files -> Nat]
    /\ issuers \subseteq Users

LEMMA FixedStay ==
  ASSUME Types, UNCHANGED <<options, account>>
  PROVE  FixedTypes'
  BY DEF Types, FixedTypes, options

LEMMA ServiceStays ==
  ASSUME Types, UNCHANGED <<session, service>>
  PROVE  ServiceTypes'
  BY DEF Types, ServiceTypes, session, service

LEMMA SettledTypes ==
  ASSUME Types, NEW i \in Files,
         NEW s \in Running \cup {"unscheduled", "failed", "completed", "skipped"},
         Settled(i, s)
  PROVE  /\ state' \in [Files -> Running \cup {"unscheduled", "failed",
                                               "completed", "skipped"}]
         /\ outcome' \in [Files -> {None, "ok", "error", "unknown"}]
  BY DEF Types, Settled

LEMMA WroteTypes ==
  ASSUME Types, NEW i \in Files, NEW kind \in RowKinds,
         Wrote(i, kind) \/ NotWritten
  PROVE  /\ report' \in {"closed", "open", "broken", "published"}
         /\ rows' \in [Files -> Seq(RowKinds)]
  <1>1. CASE Wrote(i, kind)
    <2>1. Append(rows[i], kind) \in Seq(RowKinds)
      BY AppendOnce DEF Types
    <2> QED
      BY <1>1, <2>1 DEF Types, Wrote
  <1>2. CASE NotWritten
    BY <1>2 DEF Types, NotWritten
  <1> QED
    BY <1>1, <1>2

LEMMA TrackErrorTypes ==
  ASSUME Types, NEW i \in Files, NEW u \in BOOLEAN,
         TrackFile(i, u) \/ TrackTracking
  PROVE  tracking' \in BOOLEAN /\ stopped' \in BOOLEAN /\ error' \in Errors
  <1>1. CASE TrackFile(i, u)
    BY <1>1, ErrorValues DEF Types, TrackFile
  <1>2. CASE TrackTracking
    BY <1>2, ErrorValues DEF Types, TrackTracking
  <1> QED
    BY <1>1, <1>2

LEMMA FailFileTypes ==
  ASSUME Types, NEW i \in Files, NEW u \in BOOLEAN, FailFile(i, u)
  PROVE  TrackTypes'
  <1>1. "failed" \in RowKinds /\ Settled(i, "failed")
    BY DEF FailFile, RowKinds
  <1>2. /\ state' \in [Files -> Running \cup {"unscheduled", "failed",
                                               "completed", "skipped"}]
        /\ outcome' \in [Files -> {None, "ok", "error", "unknown"}]
    BY <1>1, SettledTypes
  <1>3. /\ report' \in {"closed", "open", "broken", "published"}
        /\ rows' \in [Files -> Seq(RowKinds)]
    BY <1>1, WroteTypes DEF FailFile
  <1>4. tracking' \in BOOLEAN /\ stopped' \in BOOLEAN /\ error' \in Errors
    BY TrackErrorTypes DEF FailFile
  <1>5. blame' \in Files \cup {None} /\ skippedFiles' \cup failures' \subseteq Files
    BY DEF FailFile, TrackTracking, Types
  <1> QED
    BY <1>2, <1>3, <1>4, <1>5 DEF TrackTypes

LEMMA MarkSkippedTypes ==
  ASSUME Types, NEW i \in Files, MarkSkipped(i)
  PROVE  TrackTypes'
  <1>1. "skipped" \in RowKinds /\ Settled(i, "skipped")
    BY DEF MarkSkipped, RowKinds
  <1>2. /\ state' \in [Files -> Running \cup {"unscheduled", "failed",
                                               "completed", "skipped"}]
        /\ outcome' \in [Files -> {None, "ok", "error", "unknown"}]
    BY <1>1, SettledTypes
  <1>3. /\ report' \in {"closed", "open", "broken", "published"}
        /\ rows' \in [Files -> Seq(RowKinds)]
    BY <1>1, WroteTypes DEF MarkSkipped
  <1>4. /\ tracking' \in BOOLEAN /\ stopped' \in BOOLEAN /\ error' \in Errors
        /\ blame' \in Files \cup {None} /\ skippedFiles' \cup failures' \subseteq Files
    BY ErrorValues DEF MarkSkipped, TrackTracking, Types, result
  <1> QED
    BY <1>2, <1>3, <1>4 DEF TrackTypes

LEMMA InitTypes == Init => Types
  <1> SUFFICES ASSUME Init PROVE Types
    OBVIOUS
  <1>1. /\ {resume, checkpointed, directoryFailed, tracking, stopped, issuing,
            durable, poisoned, expired} \subseteq BOOLEAN
        /\ policy \in Policies /\ slots \in 1 .. Concurrency
        /\ phase \in {"check", "transfer", "final", "ended"}
        /\ {active, finishing, lock, blame} \subseteq Files \cup {None}
        /\ next \in 1 .. N + 1
        /\ report \in {"closed", "open", "broken", "published"}
        /\ {sessionUser, account} \cup issuers \subseteq Users
    BY FileValues, ConstantsAssumption DEF Init
  <1>2. /\ state \in [Files -> Running \cup {"unscheduled", "failed", "completed",
                                             "skipped"}]
        /\ outcome \in [Files -> {None, "ok", "error", "unknown"}]
    BY DEF Init
  <1>3. completed \subseteq Files
    BY DEF Init
  <1>4. completed \cup verified \cup skippedFiles \cup failures \cup saved
           \subseteq Files
    BY <1>3 DEF Init
  <1>5. error \in Errors
    BY ErrorValues DEF Init
  <1>6. <<>> \in Seq(RowKinds)
    BY EmptySeq
  <1>7. /\ rows \in [Files -> Seq(RowKinds)]
        /\ local \in [Files -> {"absent", "older", "newer", "ours"}]
        /\ answer \in [Files -> {"none", "sent", "url", "unusable", "refused"}]
        /\ issues \in [Files -> Nat]
    BY <1>6 DEF Init
  <1> QED
    BY <1>1, <1>2, <1>4, <1>5, <1>7 DEF Types

LEMMA CheckTypes ==
  ASSUME Types, VerifyStart \/ VerifyEnd \/ SetupFails \/ Begin
  PROVE  Types'
  <1>1. CASE VerifyStart
    <2>1. active' \in Files
      BY <1>1 DEF VerifyStart, Types
    <2> QED
      BY <1>1, <2>1 DEF VerifyStart, Types, options, result, journal, artifacts,
                        session, service
  <1>2. CASE VerifyEnd
    BY <1>2 DEF VerifyEnd, Types, options, result, journal, artifacts, session, service
  <1>3. CASE SetupFails
    <2>1. durable' \in BOOLEAN /\ report' \in {"closed", "open", "broken", "published"}
      BY <1>3 DEF SetupFails, Types
    <2> QED
      BY <1>3, <2>1, ErrorValues DEF SetupFails, Types, options, session, service
  <1>4. CASE Begin
    BY <1>4 DEF Begin, Types, options, result, session, service
  <1> QED
    BY <1>1, <1>2, <1>3, <1>4

LEMMA ScheduleTypes ==
  ASSUME Types, Schedule
  PROVE  Types'
  <1>1. next \in Files /\ next' \in 1 .. N + 1
    BY FileValues DEF Schedule, CanSchedule, Types, Files
  <1>2. TrackTypes'
    <2>1. CASE next \in completed
      <3>1. "skipped" \in RowKinds
        BY DEF RowKinds
      <3>2. /\ report' \in {"closed", "open", "broken", "published"}
            /\ rows' \in [Files -> Seq(RowKinds)]
        BY <1>1, <2>1, <3>1, WroteTypes DEF Schedule
      <3> QED
        BY <2>1, <3>2, ErrorValues DEF Schedule, TrackTracking, Types, TrackTypes, result
    <2>2. CASE FailFile(next, FALSE)
      BY <1>1, <2>2, FailFileTypes
    <2>3. CASE MarkSkipped(next)
      BY <1>1, <2>3, MarkSkippedTypes
    <2>4. CASE state' = [state EXCEPT ![next] = "scheduled"]
               /\ UNCHANGED <<outcome, skipped, skippedFiles, failures, result, artifacts>>
      BY <2>4 DEF Types, TrackTypes, Running, result, artifacts
    <2> QED
      BY <2>1, <2>2, <2>3, <2>4 DEF Schedule
  <1>3. UNCHANGED <<options, phase, finishing, active, completed, verified, issuing, journal,
                    local, session, account, service>>
    BY DEF Schedule
  <1>4. FixedTypes' /\ ServiceTypes'
    BY <1>3, FixedStay, ServiceStays
  <1>5. /\ issuing' \in BOOLEAN /\ finishing' \in Files \cup {None}
        /\ phase' \in {"check", "transfer", "final", "ended"}
        /\ active' \in Files \cup {None}
        /\ completed' \subseteq Files /\ verified' \subseteq Files /\ saved' \subseteq Files
        /\ durable' \in BOOLEAN /\ poisoned' \in BOOLEAN
        /\ local' \in [Files -> {"absent", "older", "newer", "ours"}]
    BY <1>3 DEF Types, journal
  <1> QED
    BY <1>1, <1>2, <1>4, <1>5 DEF Types, TrackTypes, FixedTypes, ServiceTypes

LEMMA AcceptTypes ==
  ASSUME Types, NEW i \in Files, Accept(i)
  PROVE  Types'
  <1>1. TrackTypes' /\ finishing' \in Files \cup {None}
    <2>1. CASE \E u \in BOOLEAN : FailFile(i, u) /\ UNCHANGED finishing
      BY <2>1, FailFileTypes DEF Types
    <2>2. CASE MarkSkipped(i) /\ UNCHANGED finishing
      BY <2>2, MarkSkippedTypes DEF Types
    <2>3. CASE finishing' = i /\ UNCHANGED <<state, outcome, skipped, skippedFiles,
                                             failures, result, artifacts>>
      BY <2>3 DEF Types, TrackTypes, result, artifacts
    <2> QED
      BY <2>1, <2>2, <2>3 DEF Accept
  <1>2. /\ UNCHANGED <<options, phase, next, active, completed, verified, journal, local,
                       session, account, service>>
        /\ issuing' = (issuing \/ outcome[i] = "unknown")
    BY DEF Accept
  <1>3. FixedTypes' /\ ServiceTypes'
    BY <1>2, FixedStay, ServiceStays
  <1>4. /\ issuing' \in BOOLEAN
        /\ phase' \in {"check", "transfer", "final", "ended"}
        /\ active' \in Files \cup {None} /\ next' \in 1 .. N + 1
        /\ completed' \subseteq Files /\ verified' \subseteq Files /\ saved' \subseteq Files
        /\ durable' \in BOOLEAN /\ poisoned' \in BOOLEAN
        /\ local' \in [Files -> {"absent", "older", "newer", "ours"}]
    BY <1>2 DEF Types, journal
  <1> QED
    BY <1>1, <1>3, <1>4 DEF Types, TrackTypes, FixedTypes, ServiceTypes

LEMMA PublishFailsTypes ==
  ASSUME Types, PublishFails
  PROVE  Types'
  <1>1. finishing \in Files /\ FailFile(finishing, FALSE)
    BY DEF PublishFails, Types
  <1>2. TrackTypes'
    BY <1>1, FailFileTypes
  <1>3. local' \in [Files -> {"absent", "older", "newer", "ours"}]
    BY <1>1 DEF PublishFails, Types
  <1>4. UNCHANGED <<options, phase, next, active, completed, verified, issuing, journal,
                    session, account, service>> /\ finishing' = None
    BY DEF PublishFails
  <1>5. FixedTypes' /\ ServiceTypes'
    BY <1>4, FixedStay, ServiceStays
  <1>6. /\ issuing' \in BOOLEAN /\ finishing' \in Files \cup {None}
        /\ phase' \in {"check", "transfer", "final", "ended"}
        /\ active' \in Files \cup {None} /\ next' \in 1 .. N + 1
        /\ completed' \subseteq Files /\ verified' \subseteq Files /\ saved' \subseteq Files
        /\ durable' \in BOOLEAN /\ poisoned' \in BOOLEAN
    BY <1>4 DEF Types, journal
  <1> QED
    BY <1>2, <1>3, <1>5, <1>6 DEF Types, TrackTypes, FixedTypes, ServiceTypes

LEMMA PublishTypes ==
  ASSUME Types, Publish
  PROVE  Types'
  <1>1. finishing \in Files /\ Settled(finishing, "completed")
    BY DEF Publish, Types
  <1>2. /\ state' \in [Files -> Running \cup {"unscheduled", "failed",
                                               "completed", "skipped"}]
        /\ outcome' \in [Files -> {None, "ok", "error", "unknown"}]
    BY <1>1, SettledTypes
  <1>3. /\ report' \in {"closed", "open", "broken", "published"}
        /\ rows' \in [Files -> Seq(RowKinds)]
    <2>1. "succeeded" \in RowKinds
      BY DEF RowKinds
    <2> QED
      BY <1>1, <2>1, WroteTypes DEF Publish
  <1>4. tracking' \in BOOLEAN /\ stopped' \in BOOLEAN /\ error' \in Errors
        /\ blame' \in Files \cup {None}
    BY ErrorValues DEF Publish, TrackTracking, Types, result
  <1>5. /\ local' \in [Files -> {"absent", "older", "newer", "ours"}]
        /\ completed' \cup verified' \cup skippedFiles' \cup failures' \cup saved'
              \subseteq Files
        /\ durable' \in BOOLEAN /\ poisoned' \in BOOLEAN
    BY <1>1 DEF Publish, SaveCompletion, Types, journal
  <1>6. UNCHANGED <<options, phase, next, active, skipped, skippedFiles, failures, issuing,
                    session, account, service>> /\ finishing' = None
    BY DEF Publish
  <1>7. FixedTypes' /\ ServiceTypes'
    BY <1>6, FixedStay, ServiceStays
  <1>8. /\ issuing' \in BOOLEAN /\ finishing' \in Files \cup {None}
        /\ phase' \in {"check", "transfer", "final", "ended"}
        /\ active' \in Files \cup {None} /\ next' \in 1 .. N + 1
        /\ skippedFiles' \subseteq Files /\ failures' \subseteq Files
    BY <1>6 DEF Types
  <1> QED
    BY <1>2, <1>3, <1>4, <1>5, <1>7, <1>8 DEF Types, FixedTypes, ServiceTypes

LEMMA EndTypes ==
  ASSUME Types, TransferEnds \/ Interrupt \/ Finalize
  PROVE  Types'
  <1>1. CASE TransferEnds
    BY <1>1, ErrorValues DEF TransferEnds, Types, options, progress, journal,
                             artifacts, session, service
  <1>2. CASE Interrupt
    BY <1>2, ErrorValues DEF Interrupt, Types, options, progress, journal, artifacts,
                             service
  <1>3. CASE Finalize
    <2>1. CutShort \subseteq Files
      BY DEF CutShort
    <2>2. state' \in [Files -> Running \cup {"unscheduled", "failed",
                                               "completed", "skipped"}]
      BY <1>3 DEF Finalize, Types
    <2>3. "failed" \in RowKinds
      BY DEF RowKinds
    <2>4. \A i \in Files : Append(rows[i], "failed") \in Seq(RowKinds) /\ rows[i] \in Seq(RowKinds)
      BY <2>3, AppendOnce DEF Types
    <2>5. rows' \in [Files -> Seq(RowKinds)]
      BY <1>3, <2>4 DEF Finalize
    <2>6. report' \in {"closed", "open", "broken", "published"}
      BY <1>3 DEF Finalize, Types
    <2>7. error' \in Errors /\ blame' \in Files \cup {None}
      BY <1>3, ErrorValues DEF Finalize, Types
    <2>8. issuing' \in BOOLEAN /\ failures' \subseteq Files
      BY <1>3, <2>1 DEF Finalize, Types
    <2>9. /\ UNCHANGED <<options, next, outcome, finishing, active, completed, verified,
                         skippedFiles, skipped, tracking, stopped, journal, local,
                         session, account, service>>
          /\ phase' = "ended"
      BY <1>3 DEF Finalize
    <2>10. FixedTypes' /\ ServiceTypes'
      BY <2>9, FixedStay, ServiceStays
    <2>11. /\ outcome' \in [Files -> {None, "ok", "error", "unknown"}]
           /\ finishing' \in Files \cup {None} /\ active' \in Files \cup {None}
           /\ next' \in 1 .. N + 1
           /\ completed' \subseteq Files /\ verified' \subseteq Files
           /\ saved' \subseteq Files /\ skippedFiles' \subseteq Files
           /\ tracking' \in BOOLEAN /\ stopped' \in BOOLEAN
           /\ durable' \in BOOLEAN /\ poisoned' \in BOOLEAN
           /\ local' \in [Files -> {"absent", "older", "newer", "ours"}]
      BY <2>9 DEF Types, journal
    <2> QED
      BY <2>2, <2>5, <2>6, <2>7, <2>8, <2>9, <2>10, <2>11
         DEF Types, FixedTypes, ServiceTypes
  <1> QED
    BY <1>1, <1>2, <1>3

LEMMA IssueTypes ==
  ASSUME Types, NEW i \in Files, Issue(i), sessionUser' \in Users
  PROVE  JobTypes'
  BY DEF Types, JobTypes, Issue, Running

LEMMA StepOfJobTypes ==
  ASSUME Types, NEW i \in Files,
         \/ EnsureSession(i) \/ RefreshSession(i) \/ Issued(i)
         \/ Refused(i) \/ IssuanceUnknown(i) \/ Download(i)
  PROVE  Types'
  <1>1. UNCHANGED unchangedByJobs
    BY DEF EnsureSession, RefreshSession, Issued, Refused, IssuanceUnknown, Answered,
           Download
  <1>2. JobTypes
    BY DEF Types, JobTypes
  <1>3. JobTypes' /\ lock' \in Files \cup {None} /\ sessionUser' \in Users /\ expired' \in BOOLEAN
    <2>1. CASE EnsureSession(i)
      <3>1. CASE expired
        BY <2>1, <3>1, <1>2 DEF EnsureSession, Types, JobTypes, service
      <3>2. CASE ~expired
        <4>1. Issue(i) /\ UNCHANGED session
          BY <2>1, <3>2 DEF EnsureSession
        <4> QED
          BY <4>1, IssueTypes DEF Types, session
      <3> QED
        BY <3>1, <3>2
    <2>2. CASE RefreshSession(i)
      <3>1. CASE Issue(i) /\ sessionUser' = account /\ expired' = FALSE
        <4>1. sessionUser' \in Users
          BY <3>1 DEF Types
        <4> QED
          BY <2>2, <3>1, <4>1, IssueTypes DEF RefreshSession
      <3>2. CASE outcome' = [outcome EXCEPT ![i] = "error"]
                 /\ UNCHANGED <<expired, sessionUser, state, service>>
        BY <2>2, <3>2, <1>2 DEF RefreshSession, Types, JobTypes, service
      <3> QED
        BY <2>2, <3>1, <3>2 DEF RefreshSession
    <2>3. CASE Issued(i)
      BY <2>3, <1>2 DEF Issued, Answered, Types, JobTypes, Running, session
    <2>4. CASE Refused(i)
      BY <2>4, <1>2 DEF Refused, Answered, Types, JobTypes, Running, session
    <2>5. CASE IssuanceUnknown(i)
      BY <2>5, <1>2 DEF IssuanceUnknown, Answered, Types, JobTypes, session
    <2>6. CASE Download(i)
      BY <2>6, <1>2 DEF Download, Types, JobTypes, Running, session, service
    <2> QED
      BY <2>1, <2>2, <2>3, <2>4, <2>5, <2>6
  <1>4. UNCHANGED <<options, phase, next, finishing, progress, issuing, result, journal,
                    artifacts, local, account>>
    BY <1>1 DEF unchangedByJobs
  <1>5. FixedTypes'
    BY <1>4, FixedStay
  <1>6. /\ issuing' \in BOOLEAN /\ tracking' \in BOOLEAN /\ stopped' \in BOOLEAN
        /\ durable' \in BOOLEAN /\ poisoned' \in BOOLEAN
        /\ phase' \in {"check", "transfer", "final", "ended"}
        /\ finishing' \in Files \cup {None} /\ blame' \in Files \cup {None}
        /\ active' \in Files \cup {None} /\ next' \in 1 .. N + 1
    BY <1>4 DEF Types, progress, result, journal
  <1>7. /\ completed' \subseteq Files /\ verified' \subseteq Files /\ saved' \subseteq Files
        /\ skippedFiles' \subseteq Files /\ failures' \subseteq Files
        /\ error' \in Errors
        /\ report' \in {"closed", "open", "broken", "published"}
        /\ rows' \in [Files -> Seq(RowKinds)]
        /\ local' \in [Files -> {"absent", "older", "newer", "ours"}]
    BY <1>4 DEF Types, progress, result, journal, artifacts
  <1> QED
    BY <1>3, <1>5, <1>6, <1>7 DEF Types, JobTypes, FixedTypes

LEMMA EnvironmentTypes ==
  ASSUME Types, (\E i \in Files : CreateLocal(i)) \/ Expire \/ SwitchAccount \/ UNCHANGED vars
  PROVE  Types'
  <1> USE DEF options, progress, result, journal, artifacts, session, service
  <1>1. CASE \E i \in Files : CreateLocal(i)
    BY <1>1 DEF CreateLocal, Types
  <1>2. CASE Expire
    BY <1>2 DEF Expire, Types, unchangedByJobs
  <1>3. CASE SwitchAccount
    BY <1>3 DEF SwitchAccount, Types
  <1>4. CASE UNCHANGED vars
    BY <1>4 DEF vars, Types
  <1> QED
    BY <1>1, <1>2, <1>3, <1>4

LEMMA StepTypes == Types /\ [Next]_vars => Types'
  BY StepCases, CheckTypes, ScheduleTypes, AcceptTypes, PublishFailsTypes, PublishTypes,
     EndTypes, StepOfJobTypes, EnvironmentTypes

-----------------------------------------------------------------------------
(* Files: their results, lists and issuances. *)

\* Which files a step gives up or skips, and what it was about to do with them.
LEMMA TurnValues ==
  ASSUME IInv
  PROVE  /\ Types /\ \A i \in Files : FileOK(i) /\ IssuanceOK(i)
         /\ CanSchedule => next \in Files /\ state[next] = "unscheduled"
         /\ finishing # None => finishing \in Files
         /\ lock # None => lock \in Files
  <1>1. Types /\ \A i \in Files : FileOK(i) /\ IssuanceOK(i)
    BY DEF IInv, TypeOK, Types
  <1>2. finishing \in Files \cup {None} /\ lock \in Files \cup {None} /\ next \in 1 .. N + 1
    BY <1>1 DEF Types
  <1>3. CanSchedule => next \in Files
    BY <1>2, FileValues DEF CanSchedule, Files
  <1>4. CanSchedule => state[next] = "unscheduled"
    BY <1>1, <1>2, <1>3, FileValues DEF FileOK
  <1> QED
    BY <1>1, <1>2, <1>3, <1>4

\* One file is given up; what is said of the others stays true.
LEMMA FailFileKeeps ==
  ASSUME Types, NEW i \in Files, NEW u, FailFile(i, u),
         NEW j \in Files, FileOK(j), i = j => i \notin completed,
         state[i] \in Running \cup {"unscheduled"},
         UNCHANGED <<phase, completed, resume>>,
         \/ next' = next /\ i < next
         \/ next' = next + 1 /\ i = next
  PROVE  FileOK(j)'
  <1>1. CASE i = j
    BY <1>1, FileValues DEF Types, FailFile, Settled, FileOK, Running
  <1>2. CASE i # j
    BY <1>2, FileValues DEF Types, FailFile, Settled, FileOK, Running
  <1> QED
    BY <1>1, <1>2

LEMMA MarkSkippedKeeps ==
  ASSUME Types, NEW i \in Files, MarkSkipped(i),
         NEW j \in Files, FileOK(j), i = j => i \notin completed,
         state[i] \in Running \cup {"unscheduled"},
         UNCHANGED <<phase, completed, resume>>,
         \/ next' = next /\ i < next
         \/ next' = next + 1 /\ i = next
  PROVE  FileOK(j)'
  <1>1. CASE i = j
    BY <1>1, FileValues DEF Types, MarkSkipped, Settled, FileOK, Running
  <1>2. CASE i # j
    BY <1>2, FileValues DEF Types, MarkSkipped, Settled, FileOK, Running
  <1> QED
    BY <1>1, <1>2

\* The state of a file that has a job.
LEMMA RunningFile ==
  ASSUME IInv, NEW i \in Files, state[i] \in Running
  PROVE  i < next /\ i \notin completed /\ state[i] \notin {"unscheduled", "completed"}
  BY FileValues DEF IInv, TypeOK, FileOK, Running

\* A job moves its file on, or ends with a result.
LEMMA JobKeeps ==
  ASSUME IInv, NEW i \in Files, state[i] \in Running, NEW j \in Files,
         UNCHANGED <<phase, resume, next, completed, failures, skippedFiles>>,
         j # i => state'[j] = state[j] /\ outcome'[j] = outcome[j],
         state'[i] \in Running,
         outcome'[i] = "ok" => state'[i] = "done",
         outcome'[i] = "error" => state'[i] \in {"scheduled", "done"},
         outcome'[i] = "unknown" => state'[i] = "issuing"
  PROVE  FileOK(j)'
  <1>1. FileOK(j) /\ FileOK(i) /\ i < next /\ i \notin completed /\ i \in Nat /\ next \in Nat
    BY TurnValues, RunningFile, FileValues DEF Types
  <1>2. i \notin failures /\ i \notin skippedFiles
    BY <1>1 DEF FileOK, Running
  <1>3. CASE j # i
    BY <1>1, <1>3 DEF FileOK
  <1>4. CASE j = i
    BY <1>1, <1>2, <1>4 DEF FileOK, Running
  <1> QED
    BY <1>3, <1>4

LEMMA FilesKept ==
  ASSUME IInv, [Next]_vars, NEW j \in Files
  PROVE  FileOK(j)'
  <1> USE TurnValues, FileValues
  <1>1. CASE \/ VerifyStart \/ VerifyEnd \/ SetupFails \/ Begin \/ TransferEnds
             \/ Interrupt \/ Expire \/ SwitchAccount \/ (\E i \in Files : CreateLocal(i))
             \/ UNCHANGED vars
    <2>1. UNCHANGED <<resume, next, state, outcome, completed, skippedFiles, failures>>
      BY <1>1 DEF VerifyStart, VerifyEnd, SetupFails, Begin, TransferEnds, Interrupt,
                  Expire, SwitchAccount, CreateLocal, vars, options, progress,
                  unchangedByJobs
    <2>2. phase' = phase \/ phase # "ended"
      BY <1>1 DEF VerifyStart, VerifyEnd, SetupFails, Begin, TransferEnds, Waiting,
                  Interrupt, Expire, SwitchAccount, CreateLocal, vars, unchangedByJobs
    <2> QED
      BY <2>1, <2>2 DEF FileOK
  <1>2. CASE Schedule
    <2>1. CASE next \in completed
      BY <1>2, <2>1 DEF Schedule, FileOK, Types, options
    <2>2. CASE next \notin completed /\ FailFile(next, FALSE)
      BY <1>2, <2>2, FailFileKeeps DEF Schedule, options
    <2>3. CASE next \notin completed /\ MarkSkipped(next)
      BY <1>2, <2>3, MarkSkippedKeeps DEF Schedule, options
    <2>4. CASE next \notin completed /\ state' = [state EXCEPT ![next] = "scheduled"]
               /\ UNCHANGED <<outcome, skipped, skippedFiles, failures, result, artifacts>>
      <3>1. outcome[next] = None
        BY <1>2 DEF Schedule, FileOK, Types
      <3>2. UNCHANGED <<phase, resume, completed, skippedFiles, failures, outcome>>
            /\ next' = next + 1 /\ next \in Files /\ FileOK(j) /\ FileOK(next)
        BY <1>2, <2>4 DEF Schedule, options
      <3>3. CASE j = next
        BY <2>4, <3>1, <3>2, <3>3 DEF FileOK, Types
      <3>4. CASE j # next
        BY <2>4, <3>2, <3>4 DEF FileOK, Types
      <3> QED
        BY <3>3, <3>4
    <2> QED
      BY <1>2, <2>1, <2>2, <2>3, <2>4 DEF Schedule
  <1>3. ASSUME NEW i \in Files, Accept(i) PROVE FileOK(j)'
    <2>1. UNCHANGED <<phase, next, completed, resume>>
      BY <1>3 DEF Accept, options
    <2>2. state[i] \in Running
      BY <1>3 DEF Accept, Waiting, FileOK, Types, Running
    <2>3. i < next /\ i \notin completed
      BY <1>3, <2>2, RunningFile
    <2>4. CASE \E u \in BOOLEAN : FailFile(i, u)
      BY <1>3, <2>1, <2>2, <2>3, <2>4, FailFileKeeps
    <2>5. CASE MarkSkipped(i)
      BY <1>3, <2>1, <2>2, <2>3, <2>5, MarkSkippedKeeps
    <2>6. CASE UNCHANGED <<state, outcome, skipped, skippedFiles, failures, result, artifacts>>
      BY <1>3, <2>6 DEF Accept, FileOK, options
    <2> QED
      BY <1>3, <2>4, <2>5, <2>6 DEF Accept
  <1>4. CASE PublishFails
    <2>1. finishing \in Files /\ finishing < next /\ finishing \notin completed
          /\ state[finishing] \in Running
      BY <1>4, RunningFile DEF PublishFails, IInv, TurnsOK, Running
    <2>2. FailFile(finishing, FALSE) /\ UNCHANGED <<phase, next, completed, resume>>
      BY <1>4 DEF PublishFails, options
    <2> QED
      BY <2>1, <2>2, FailFileKeeps
  <1>5. CASE Publish
    <2>1. finishing \in Files /\ finishing < next /\ finishing \notin completed
          /\ state[finishing] = "done"
      BY <1>5, RunningFile DEF Publish, IInv, TurnsOK, Running
    <2>2. Settled(finishing, "completed") /\ completed' = completed \cup {finishing}
          /\ UNCHANGED <<options, phase, next, skippedFiles, failures>>
      BY <1>5 DEF Publish
    <2>3. CASE j = finishing
      BY <2>1, <2>2, <2>3 DEF Settled, FileOK, Types, options, Running
    <2>4. CASE j # finishing
      BY <2>1, <2>2, <2>4 DEF Settled, FileOK, Types, options, Running
    <2> QED
      BY <2>3, <2>4
  <1>6. CASE Finalize
    <2>1. /\ failures' = failures \cup CutShort
          /\ state' = [i \in Files |-> IF i \in CutShort THEN "failed" ELSE state[i]]
          /\ UNCHANGED <<options, next, completed, skippedFiles>> /\ phase' = "ended"
      BY <1>6 DEF Finalize
    <2>2. state[j] \in Running => j < next /\ j \notin completed
      BY RunningFile
    <2> QED
      BY <2>1, <2>2 DEF CutShort, FileOK, options, Running
  <1>7. ASSUME NEW i \in Files,
               \/ EnsureSession(i) \/ RefreshSession(i) \/ Issued(i)
               \/ Refused(i) \/ IssuanceUnknown(i) \/ Download(i)
        PROVE  FileOK(j)'
    <2>1. UNCHANGED <<phase, resume, next, completed, failures, skippedFiles>>
      BY <1>7 DEF EnsureSession, RefreshSession, Issued, Refused, IssuanceUnknown, Answered,
                  Download, unchangedByJobs, options, progress
    <2>2. CASE EnsureSession(i)
      <3>1. CASE expired
        BY <2>1, <2>2, <3>1 DEF EnsureSession, service, FileOK
      <3>2. CASE ~expired
        <4>1. /\ state' = [state EXCEPT ![i] = "issuing"]
              /\ UNCHANGED outcome
          BY <2>2, <3>2 DEF EnsureSession, Issue
        <4> QED
          BY <1>7, <2>1, <2>2, <4>1, JobKeeps DEF EnsureSession, Types, Running
      <3> QED
        BY <3>1, <3>2
    <2>3. CASE RefreshSession(i)
      <3>1. state[i] = "scheduled" /\ outcome[i] = None
        BY <1>7, <2>3 DEF RefreshSession, IInv, TurnsOK
      <3>2. CASE Issue(i)
        BY <1>7, <2>1, <3>1, <3>2, JobKeeps DEF Issue, Types, Running
      <3>3. CASE outcome' = [outcome EXCEPT ![i] = "error"] /\ state' = state
        BY <1>7, <2>1, <3>1, <3>3, JobKeeps DEF Types, Running
      <3> QED
        BY <2>3, <3>2, <3>3 DEF RefreshSession
    <2>4. CASE Issued(i)
      BY <1>7, <2>1, <2>4, JobKeeps DEF Issued, Answered, Types, Running
    <2>5. CASE Refused(i)
      BY <1>7, <2>1, <2>5, JobKeeps DEF Refused, Answered, Types, Running
    <2>6. CASE IssuanceUnknown(i)
      BY <1>7, <2>1, <2>6, JobKeeps DEF IssuanceUnknown, Answered, Types, Running
    <2>7. CASE Download(i)
      <3>1. state'[i] = "done" /\ outcome'[i] \in {"ok", "error"} /\ state[i] \in Running
            /\ (j # i => state'[j] = state[j] /\ outcome'[j] = outcome[j])
        BY <1>7, <2>7 DEF Download, Types, Running
      <3> QED
        BY <1>7, <2>1, <3>1, JobKeeps DEF Running
    <2> QED
      BY <1>7, <2>2, <2>3, <2>4, <2>5, <2>6, <2>7
  <1> QED
    BY <1>1, <1>2, <1>3, <1>4, <1>5, <1>6, <1>7, StepCases

\* A step that is not a step of a job settles files, or schedules one.
LEMMA SettledStates ==
  ASSUME IInv, [Next]_vars, UNCHANGED service, NEW j \in Files
  PROVE  \/ state'[j] = state[j]
         \/ state'[j] \in {"failed", "skipped", "completed"}
         \/ state[j] = "unscheduled" /\ state'[j] = "scheduled"
         \/ state[j] = "downloading" /\ state'[j] = "done" /\ answer[j] = "url"
  <1> USE TurnValues
  <1>1. CASE \/ VerifyStart \/ VerifyEnd \/ SetupFails \/ Begin \/ TransferEnds
             \/ Interrupt \/ Expire \/ SwitchAccount \/ (\E i \in Files : CreateLocal(i))
             \/ UNCHANGED vars
    BY <1>1 DEF VerifyStart, VerifyEnd, SetupFails, Begin, TransferEnds, Interrupt,
                Expire, SwitchAccount, CreateLocal, vars, unchangedByJobs
  <1>2. CASE Schedule
    BY <1>2 DEF Schedule, FailFile, MarkSkipped, Settled, Types
  <1>3. ASSUME NEW i \in Files, Accept(i)
        PROVE  state'[j] = state[j] \/ state'[j] \in {"failed", "skipped"}
    BY <1>3 DEF Accept, FailFile, MarkSkipped, Settled, Types
  <1>4. CASE PublishFails
    BY <1>4 DEF PublishFails, FailFile, Settled, Types
  <1>5. CASE Publish
    BY <1>5 DEF Publish, Settled, Types
  <1>6. CASE Finalize
    BY <1>6 DEF Finalize
  <1>7. ASSUME NEW i \in Files,
               \/ EnsureSession(i) \/ RefreshSession(i) \/ Issued(i)
               \/ Refused(i) \/ IssuanceUnknown(i) \/ Download(i)
        PROVE  \/ state'[j] = state[j]
               \/ state[j] = "downloading" /\ state'[j] = "done" /\ answer[j] = "url"
    <2>1. CASE EnsureSession(i)
      <3>1. ~Issue(i)
        BY <1>7 DEF Issue, service, Types
      <3> QED
        BY <1>7, <2>1, <3>1 DEF EnsureSession
    <2>2. CASE RefreshSession(i)
      <3>1. ~Issue(i)
        BY <1>7 DEF Issue, service, Types
      <3> QED
        BY <1>7, <2>2, <3>1 DEF RefreshSession
    <2>3. CASE Issued(i)
      <3>1. answer'[i] = "url" /\ answer[i] \in Doubtful
        BY <1>7, <2>3 DEF Issued, Answered, Types, IssuanceOK
      <3> QED
        BY <3>1 DEF service, Doubtful
    <2>4. CASE Refused(i)
      <3>1. answer'[i] = "refused" /\ answer[i] \in Doubtful
        BY <1>7, <2>4 DEF Refused, Answered, Types, IssuanceOK
      <3> QED
        BY <3>1 DEF service, Doubtful
    <2>5. CASE IssuanceUnknown(i)
      BY <2>5 DEF IssuanceUnknown
    <2>6. CASE Download(i)
      BY <1>7, <2>6 DEF Download, Types, IssuanceOK
    <2> QED
      BY <1>7, <2>1, <2>2, <2>3, <2>4, <2>5, <2>6
  <1> QED
    BY <1>1, <1>2, <1>3, <1>4, <1>5, <1>6, <1>7, StepCases

\* Only the requests of a job, and their answers, change what the service knows.
LEMMA ServiceSteps ==
  ASSUME IInv, [Next]_vars
  PROVE  \/ UNCHANGED service
         \/ /\ UNCHANGED issuing
            /\ \E i \in Files :
                  \/ state[i] = "scheduled" /\ Issue(i)
                  \/ Issued(i) \/ Refused(i) \/ IssuanceUnknown(i)
  <1>1. CASE \/ VerifyStart \/ VerifyEnd \/ SetupFails \/ Begin \/ TransferEnds
             \/ Interrupt \/ Expire \/ SwitchAccount \/ (\E i \in Files : CreateLocal(i))
             \/ UNCHANGED vars
    BY <1>1 DEF VerifyStart, VerifyEnd, SetupFails, Begin, TransferEnds, Interrupt,
                Expire, SwitchAccount, CreateLocal, vars
  <1>2. CASE Schedule \/ (\E i \in Files : Accept(i)) \/ PublishFails \/ Publish \/ Finalize
    BY <1>2 DEF Schedule, Accept, PublishFails, Publish, Finalize
  <1>3. ASSUME NEW i \in Files, EnsureSession(i)
        PROVE  \/ UNCHANGED service
               \/ UNCHANGED issuing /\ state[i] = "scheduled" /\ Issue(i)
    BY <1>3 DEF EnsureSession, unchangedByJobs
  <1>4. ASSUME NEW i \in Files, RefreshSession(i)
        PROVE  \/ UNCHANGED service
               \/ UNCHANGED issuing /\ state[i] = "scheduled" /\ Issue(i)
    <2>1. lock # None /\ lock = i
      BY <1>4, FileValues DEF RefreshSession
    <2>2. state[i] = "scheduled"
      BY <2>1 DEF IInv, TurnsOK
    <2> QED
      BY <1>4, <2>2 DEF RefreshSession, unchangedByJobs
  <1>5. ASSUME NEW i \in Files, Issued(i) \/ Refused(i) \/ IssuanceUnknown(i)
        PROVE  UNCHANGED issuing
    BY <1>5 DEF Issued, Refused, IssuanceUnknown, Answered, unchangedByJobs
  <1>6. ASSUME NEW i \in Files, Download(i) PROVE UNCHANGED service
    BY <1>6 DEF Download
  <1> QED
    BY <1>1, <1>2, <1>3, <1>4, <1>5, <1>6, StepCases

LEMMA IssuancesKept ==
  ASSUME IInv, [Next]_vars, NEW j \in Files
  PROVE  IssuanceOK(j)'
  <1>1. Types /\ IssuanceOK(j) /\ issues[j] \in Nat
    BY TurnValues DEF Types
  <1>2. CASE UNCHANGED service
    <2>1. answer'[j] = answer[j] /\ issues'[j] = issues[j]
      BY <1>2 DEF service
    <2> QED
      BY <1>1, <1>2, <2>1, SettledStates DEF IssuanceOK
  <1>3. ASSUME NEW i \in Files, state[i] = "scheduled", Issue(i)
        PROVE  IssuanceOK(j)'
    <2>1. CASE i = j
      <3>1. state'[j] = "issuing" /\ answer'[j] = "sent" /\ issues'[j] = 1
        BY <1>1, <1>3, <2>1 DEF Issue, IssuanceOK, Types
      <3> QED
        BY <3>1 DEF IssuanceOK, Doubtful
    <2>2. CASE i # j
      BY <1>1, <1>3, <2>2 DEF Issue, IssuanceOK, Types
    <2> QED
      BY <2>1, <2>2
  <1>4. ASSUME NEW i \in Files, Issued(i) \/ Refused(i) \/ IssuanceUnknown(i)
        PROVE  IssuanceOK(j)'
    <2>1. CASE i = j
      BY <1>1, <1>4, <2>1 DEF Issued, Refused, IssuanceUnknown, Answered, IssuanceOK, Types,
                              Doubtful
    <2>2. CASE i # j
      BY <1>1, <1>4, <2>2 DEF Issued, Refused, IssuanceUnknown, Answered, IssuanceOK, Types
    <2> QED
      BY <2>1, <2>2
  <1> QED
    BY <1>2, <1>3, <1>4, ServiceSteps

\* The flag of the run changes with the result it is about.
LEMMA FlagSteps ==
  ASSUME IInv, [Next]_vars, UNCHANGED service
  PROVE  Admitted'
  <1>1. Types /\ Admitted /\ \A j \in Files : FileOK(j) /\ IssuanceOK(j)
    BY TurnValues DEF IInv
  <1>2. \A j \in Files : answer'[j] = answer[j]
    BY DEF service
  <1>3. ASSUME UNCHANGED issuing,
               \A j \in Files : state[j] = "issuing" => state'[j] = "issuing"
        PROVE  Admitted'
    BY <1>1, <1>2, <1>3, SettledStates DEF Admitted, IssuanceOK, Doubtful
  <1>4. ASSUME NEW i \in Files, Accept(i) PROVE Admitted'
    <2>1. issuing' = (issuing \/ outcome[i] = "unknown")
      BY <1>4 DEF Accept
    <2>2. outcome[i] # "unknown" => state[i] # "issuing"
      BY <1>1, <1>4 DEF Accept, Waiting, FileOK, Types
    <2>3. \A j \in Files \ {i} : state'[j] = state[j]
      BY <1>1, <1>4 DEF Accept, FailFile, MarkSkipped, Settled, Types
    <2>4. outcome[i] = "unknown" => state[i] = "issuing" /\ state'[i] = "failed"
      BY <1>1, <1>4 DEF Accept, Waiting, FailFile, Settled, FileOK, Types
    <2>5. outcome[i] # "unknown" => \A j \in Files : state[j] = "issuing" => state'[j] = "issuing"
      BY <2>2, <2>3
    <2>6. CASE outcome[i] = "unknown"
      BY <1>1, <1>2, <2>1, <2>4, <2>6 DEF Admitted, IssuanceOK
    <2>7. CASE outcome[i] # "unknown"
      <3>1. UNCHANGED issuing
        BY <1>1, <2>1, <2>7 DEF Types
      <3> QED
        BY <1>3, <2>5, <2>7, <3>1
    <2> QED
      BY <2>6, <2>7
  <1>5. CASE Finalize
    <2>1. \A j \in Files : state'[j] = IF state[j] \in Running THEN "failed" ELSE state[j]
      BY <1>5 DEF Finalize, CutShort
    <2>2. issuing' = (issuing \/ \E i \in Files : state[i] = "issuing")
      BY <1>5 DEF Finalize
    <2> QED
      BY <1>1, <1>2, <2>1, <2>2 DEF Admitted, IssuanceOK, Running
  <1>6. CASE \/ VerifyStart \/ VerifyEnd \/ SetupFails \/ Begin \/ TransferEnds
             \/ Interrupt \/ Expire \/ SwitchAccount \/ (\E i \in Files : CreateLocal(i))
             \/ UNCHANGED vars
    <2>1. UNCHANGED <<issuing, state>>
      BY <1>6 DEF VerifyStart, VerifyEnd, SetupFails, Begin, TransferEnds, Interrupt,
                Expire, SwitchAccount, CreateLocal, vars, unchangedByJobs
    <2> QED
      BY <1>3, <2>1
  <1>7. CASE Schedule
    <2>1. UNCHANGED issuing /\ state[next] # "issuing"
          /\ \A j \in Files \ {next} : state'[j] = state[j]
      BY <1>1, <1>7, TurnValues DEF Schedule, FailFile, MarkSkipped, Settled, Types
    <2> QED
      BY <1>3, <2>1
  <1>8. CASE PublishFails \/ Publish
    <2>1. UNCHANGED issuing /\ state[finishing] # "issuing"
          /\ \A j \in Files \ {finishing} : state'[j] = state[j]
      BY <1>1, <1>8 DEF PublishFails, Publish, FailFile, Settled, IInv, TurnsOK, Types
    <2> QED
      BY <1>3, <2>1
  <1>9. ASSUME NEW i \in Files,
               \/ EnsureSession(i) \/ RefreshSession(i) \/ Issued(i)
               \/ Refused(i) \/ IssuanceUnknown(i) \/ Download(i)
        PROVE  Admitted'
    <2>1. UNCHANGED issuing
      BY <1>9 DEF EnsureSession, RefreshSession, Issued, Refused, IssuanceUnknown, Answered,
                  Download, unchangedByJobs
    <2>2. \A j \in Files : state[j] = "issuing" /\ state'[j] # "issuing" => state'[j] \in Running
      BY <1>1, <1>9 DEF EnsureSession, RefreshSession, Issued, Refused, IssuanceUnknown,
                        Answered, Download, Issue, Types, Running
    <2>3. \A j \in Files : state[j] = "issuing" => state'[j] = "issuing"
      BY <2>2, SettledStates DEF Running
    <2> QED
      BY <1>3, <2>1, <2>3
  <1> QED
    BY <1>4, <1>5, <1>6, <1>7, <1>8, <1>9, StepCases

LEMMA AdmittedKept ==
  ASSUME IInv, [Next]_vars
  PROVE  Admitted'
  <1>1. Types /\ Admitted /\ \A j \in Files : IssuanceOK(j)
    BY TurnValues DEF IInv
  <1>2. ASSUME UNCHANGED issuing, NEW i \in Files, state[i] = "scheduled", Issue(i)
        PROVE  Admitted'
    BY <1>1, <1>2 DEF Issue, Admitted, IssuanceOK, Types, Doubtful
  <1>3. ASSUME UNCHANGED issuing, NEW i \in Files, Issued(i) \/ Refused(i) \/ IssuanceUnknown(i)
        PROVE  Admitted'
    <2>1. /\ state[i] = "issuing"
          /\ \A j \in Files \ {i} : state'[j] = state[j] /\ answer'[j] = answer[j]
          /\ state'[i] = "issuing" \/ answer'[i] \notin Doubtful
      BY <1>1, <1>3 DEF Issued, Refused, IssuanceUnknown, Answered, Types, Doubtful
    <2> QED
      BY <1>1, <1>3, <2>1 DEF Admitted
  <1> QED
    BY <1>2, <1>3, FlagSteps, ServiceSteps

-----------------------------------------------------------------------------
(* The report. *)

LEMMA WroteRow ==
  ASSUME Types, NEW i \in Files, NEW kind \in RowKinds,
         Wrote(i, kind) \/ NotWritten, report' \in {"open", "published"}
  PROVE  /\ report = "open"
         /\ rows[i] = <<>> => rows'[i] = <<kind>>
         /\ \A j \in Files \ {i} : rows'[j] = rows[j]
  <1>1. report = "open" /\ rows' = [rows EXCEPT ![i] = Append(@, kind)]
    BY DEF Wrote, NotWritten
  <1> QED
    BY <1>1, AppendOnce DEF Types

\* A file without a row is given one, and the state that asks for it.
LEMMA RowWritten ==
  ASSUME IInv, NEW i \in Files, state[i] \in Running \cup {"unscheduled"},
         i >= next \/ i \notin completed,
         NEW kind \in RowKinds, Wrote(i, kind) \/ NotWritten,
         Row(i)' = <<kind>>,
         \A j \in Files \ {i} : Row(j)' = Row(j)
  PROVE  RowsOK'
  <1> SUFFICES ASSUME report' \in {"open", "published"}, NEW j \in Files
               PROVE  rows'[j] = Row(j)'
    BY DEF RowsOK
  <1>1. Types
    BY TurnValues
  <1>2. report = "open" /\ rows[i] = Row(i) /\ rows[j] = Row(j)
    BY <1>1, WroteRow DEF IInv, RowsOK
  <1>3. Row(i) = <<>>
    <2>1. ~(i \in completed /\ i < next)
      BY <1>1, FileValues DEF Types
    <2> QED
      BY <2>1 DEF Row, Running
  <1> QED
    BY <1>1, <1>2, <1>3, WroteRow

LEMMA RowsStay ==
  ASSUME IInv, UNCHANGED <<report, rows>>, \A j \in Files : Row(j)' = Row(j)
  PROVE  RowsOK'
  BY DEF IInv, RowsOK

LEMMA FailedRow ==
  ASSUME IInv, NEW i \in Files, state[i] \in Running \cup {"unscheduled"},
         NEW u, FailFile(i, u) \/ MarkSkipped(i), i \notin completed,
         completed' = completed, next' \in {next, next + 1}, next' = next + 1 => i = next
  PROVE  RowsOK'
  <1>1. Types /\ i \in Nat /\ next \in Nat
    BY TurnValues, FileValues DEF Types
  <1>2. \A j \in Files \ {i} : Row(j)' = Row(j)
    <2>1. \A j \in Files \ {i} : state'[j] = state[j]
      BY <1>1 DEF FailFile, MarkSkipped, Settled, Types
    <2>2. ASSUME NEW j \in Files \ {i} PROVE j < next' <=> j < next
      <3>1. j \in Nat /\ j # i
        BY FileValues
      <3>2. CASE next' = next
        BY <3>2
      <3>3. CASE next' = next + 1
        BY <1>1, <3>1, <3>3
      <3> QED
        BY <3>2, <3>3
    <2> QED
      BY <2>1, <2>2 DEF Row
  <1>3. CASE FailFile(i, u)
    <2>1. Row(i)' = <<"failed">>
      BY <1>1, <1>3 DEF FailFile, Settled, Types, Row
    <2>2. "failed" \in RowKinds /\ (Wrote(i, "failed") \/ NotWritten)
      BY <1>3 DEF FailFile, RowKinds
    <2> QED
      BY <1>2, <2>1, <2>2, RowWritten
  <1>4. CASE MarkSkipped(i)
    <2>1. Row(i)' = <<"skipped">>
      BY <1>1, <1>4 DEF MarkSkipped, Settled, Types, Row
    <2>2. "skipped" \in RowKinds /\ (Wrote(i, "skipped") \/ NotWritten)
      BY <1>4 DEF MarkSkipped, RowKinds
    <2> QED
      BY <1>2, <2>1, <2>2, RowWritten
  <1> QED
    BY <1>3, <1>4

LEMMA FinalRows ==
  ASSUME IInv, Finalize, report' = "published", NEW j \in Files
  PROVE  rows'[j] = Row(j)'
  <1>1. Types /\ Incomplete = CutShort /\ UNCHANGED <<next, completed>>
        /\ state' = [i \in Files |-> IF i \in CutShort THEN "failed" ELSE state[i]]
    BY TurnValues DEF Finalize, Incomplete, CutShort
  <1>2. report \in {"open", "published"} /\ rows[j] = Row(j)
    BY DEF Finalize, IInv, RowsOK
  <1>3. report # "published"
    BY DEF Finalize, IInv, PhaseOK
  <1>4. CASE report = "open"
    <2>1. rows'[j] = IF j \in CutShort THEN Append(rows[j], "failed") ELSE rows[j]
      BY <1>4 DEF Finalize
    <2>2. CASE j \in CutShort
      <3>1. state[j] \in Running /\ j \notin completed
        BY <2>2, RunningFile DEF CutShort
      <3>2. rows[j] = <<>> /\ Row(j)' = <<"failed">>
        BY <1>1, <1>2, <2>2, <3>1 DEF Row, Running
      <3>3. "failed" \in RowKinds /\ <<>> \in Seq(RowKinds)
        BY EmptySeq DEF RowKinds
      <3> QED
        BY <2>1, <2>2, <3>2, <3>3, AppendOnce
    <2>3. CASE j \notin CutShort
      BY <1>1, <1>2, <2>1, <2>3 DEF Row
    <2> QED
      BY <2>2, <2>3
  <1> QED
    BY <1>2, <1>3, <1>4

LEMMA RowsKept ==
  ASSUME IInv, [Next]_vars
  PROVE  RowsOK'
  <1> USE TurnValues, FileValues
  <1>1. CASE VerifyStart \/ VerifyEnd \/ SetupFails \/ Begin
    <2>1. Fresh /\ UNCHANGED <<next, state, rows, completed>>
      BY <1>1 DEF VerifyStart, VerifyEnd, SetupFails, Begin, IInv, PhaseOK, artifacts
    <2>2. \A j \in Files : rows'[j] = <<>> /\ Row(j)' = <<>>
      BY <2>1 DEF Fresh, Row
    <2> QED
      BY <2>2 DEF RowsOK
  <1>2. CASE \/ TransferEnds \/ Interrupt \/ Expire \/ SwitchAccount
             \/ (\E i \in Files : CreateLocal(i)) \/ UNCHANGED vars
    <2>1. UNCHANGED <<report, rows, next, state, completed>>
      BY <1>2 DEF TransferEnds, Interrupt, Expire, SwitchAccount, CreateLocal, vars,
                  unchangedByJobs, artifacts, progress
    <2> QED
      BY <2>1, RowsStay DEF Row
  <1>3. CASE Schedule
    <2>1. PICK i \in Files : i = next
      BY <1>3 DEF Schedule
    <2>2. state[i] = "unscheduled" /\ next' = next + 1 /\ completed' = completed
          /\ next \in Nat /\ \A j \in Files \ {i} : j < next' <=> j < next
      BY <1>3, <2>1 DEF Schedule
    <2>3. CASE i \in completed
      <3>1. state' = state /\ (Wrote(i, "skipped") \/ NotWritten)
        BY <1>3, <2>1, <2>3 DEF Schedule
      <3>2. Row(i)' = <<"skipped">> /\ \A j \in Files \ {i} : Row(j)' = Row(j)
        BY <2>1, <2>2, <2>3, <3>1 DEF Row
      <3>3. i >= next /\ "skipped" \in RowKinds
        BY <2>1, <2>2 DEF RowKinds
      <3> QED
        BY <2>2, <3>1, <3>2, <3>3, RowWritten
    <2>4. CASE i \notin completed /\ (FailFile(i, FALSE) \/ MarkSkipped(i))
      BY <2>1, <2>2, <2>4, FailedRow
    <2>5. CASE i \notin completed /\ state' = [state EXCEPT ![i] = "scheduled"]
               /\ UNCHANGED artifacts
      <3>1. \A j \in Files \ {i} : Row(j)' = Row(j)
        BY <2>2, <2>5 DEF Row, Types
      <3>2. Row(i)' = Row(i)
        BY <2>2, <2>5 DEF Row, Types
      <3> QED
        BY <2>5, <3>1, <3>2, RowsStay DEF artifacts
    <2> QED
      BY <1>3, <2>1, <2>3, <2>4, <2>5 DEF Schedule
  <1>4. ASSUME NEW i \in Files, Accept(i) PROVE RowsOK'
    <2>1. state[i] \in Running /\ UNCHANGED <<next, completed>>
      BY <1>4 DEF Accept, Waiting, FileOK, Types, Running
    <2>2. i \notin completed
      BY <1>4, <2>1, RunningFile
    <2>3. CASE MarkSkipped(i) \/ \E u \in BOOLEAN : FailFile(i, u)
      <3>1. PICK u \in BOOLEAN : FailFile(i, u) \/ MarkSkipped(i)
        BY <2>3
      <3>2. next' \in {next, next + 1} /\ (next' = next + 1 => i = next)
        BY <2>1, TurnValues DEF Types
      <3> QED
        BY <1>4, <2>1, <2>2, <3>1, <3>2, FailedRow
    <2>4. CASE UNCHANGED <<state, artifacts>>
      BY <2>1, <2>4, RowsStay DEF artifacts, Row
    <2> QED
      BY <1>4, <2>3, <2>4 DEF Accept
  <1>5. CASE PublishFails \/ Publish
    <2>1. PICK i \in Files : i = finishing
      BY <1>5 DEF PublishFails, Publish
    <2>2. state[i] \in Running /\ next' = next /\ next \in Nat /\ next # next + 1
      <3>1. finishing # None /\ next' = next /\ next \in 1 .. N + 1
        BY <1>5 DEF PublishFails, Publish, Types
      <3>2. state[i] \in Running
        BY <2>1, <3>1 DEF IInv, TurnsOK, Running
      <3> QED
        BY <3>1, <3>2
    <2>3. i \notin completed
      BY <2>2, RunningFile
    <2>4. CASE PublishFails
      BY <2>1, <2>2, <2>3, <2>4, FailedRow DEF PublishFails
    <2>5. CASE Publish
      <3>1. state' = [state EXCEPT ![i] = "completed"]
            /\ completed' = completed \cup {i}
            /\ (Wrote(i, "succeeded") \/ NotWritten)
        BY <2>1, <2>5 DEF Publish, Settled
      <3>2. state'[i] = "completed" /\ \A j \in Files \ {i} :
               state'[j] = state[j] /\ (j \in completed' <=> j \in completed)
        BY <3>1 DEF Types
      <3>3. \A j \in Files \ {i} : Row(j)' = Row(j)
        BY <2>2, <3>2 DEF Row
      <3>4. Row(i)' = <<"succeeded">> /\ "succeeded" \in RowKinds
        BY <3>2 DEF Row, RowKinds
      <3> QED
        BY <2>2, <2>3, <3>1, <3>3, <3>4, RowWritten
    <2> QED
      BY <1>5, <2>4, <2>5
  <1>6. CASE Finalize
    <2>1. report' # "open"
      BY <1>6 DEF Finalize
    <2> QED
      BY <1>6, <2>1, FinalRows DEF RowsOK
  <1>7. ASSUME NEW i \in Files,
               \/ EnsureSession(i) \/ RefreshSession(i) \/ Issued(i)
               \/ Refused(i) \/ IssuanceUnknown(i) \/ Download(i)
        PROVE  RowsOK'
    <2>1. UNCHANGED <<report, rows, next, completed>>
      BY <1>7 DEF EnsureSession, RefreshSession, Issued, Refused, IssuanceUnknown,
                  Answered, Download, unchangedByJobs, artifacts, progress
    <2>2. \A j \in Files : \/ state'[j] = state[j]
                           \/ state[j] \in Running /\ state'[j] \in Running
      <3>1. RefreshSession(i) => state[i] = "scheduled"
        BY <1>7 DEF RefreshSession, IInv, TurnsOK
      <3> QED
        BY <1>7, <3>1 DEF EnsureSession, RefreshSession, Issued, Refused, IssuanceUnknown,
                  Answered, Download, Issue, Types, Running
    <2>3. \A j \in Files : state[j] \in Running => j \notin completed
      BY RunningFile
    <2> QED
      BY <2>1, <2>2, <2>3, RowsStay DEF Row, Running
  <1> QED
    BY <1>1, <1>2, <1>3, <1>4, <1>5, <1>6, <1>7, StepCases

-----------------------------------------------------------------------------
(* The counter of skipped files. *)

\* What is counted is finite, and no more than the files.
LEMMA CountedFinite ==
  ASSUME IInv
  PROVE  /\ IsFiniteSet(skippedFiles) /\ IsFiniteSet(Resumed) /\ IsFiniteSet(completed)
         /\ Cardinality(skippedFiles) \in Nat /\ Cardinality(Resumed) \in Nat
         /\ skipped \in Nat
  <1>1. skippedFiles \subseteq Files /\ Resumed \subseteq Files /\ completed \subseteq Files
    BY TurnValues DEF Types, Resumed
  <1>2. IsFiniteSet(skippedFiles) /\ IsFiniteSet(Resumed) /\ IsFiniteSet(completed)
    BY <1>1, FilesFinite, FS_Subset
  <1>3. Cardinality(skippedFiles) \in Nat /\ Cardinality(Resumed) \in Nat
    BY <1>2, FS_CardinalityType
  <1> QED
    BY <1>2, <1>3 DEF IInv, Counts

LEMMA TypesComplete == Types /\ skipped \in 0 .. N => TypeOK
  <1> SUFFICES ASSUME Types, skipped \in 0 .. N PROVE TypeOK
    OBVIOUS
  <1>1. /\ {resume, checkpointed, directoryFailed, tracking, stopped, issuing, durable,
            poisoned, expired} \subseteq BOOLEAN
        /\ {active, finishing, lock, blame} \subseteq Files \cup {None}
    BY DEF Types
  <1>2. /\ completed \cup verified \cup skippedFiles \cup failures \cup saved
               \subseteq Files
        /\ {sessionUser, account} \cup issuers \subseteq Users
    BY DEF Types
  <1>3. /\ policy \in Policies /\ slots \in 1 .. Concurrency
        /\ phase \in {"check", "transfer", "final", "ended"}
        /\ next \in 1 .. N + 1 /\ error \in Errors
        /\ state \in [Files -> Running \cup {"unscheduled", "failed", "completed",
                                             "skipped"}]
        /\ outcome \in [Files -> {None, "ok", "error", "unknown"}]
    BY DEF Types
  <1>4. /\ report \in {"closed", "open", "broken", "published"}
        /\ rows \in [Files -> Seq(RowKinds)]
        /\ local \in [Files -> {"absent", "older", "newer", "ours"}]
        /\ answer \in [Files -> {"none", "sent", "url", "unusable", "refused"}]
        /\ issues \in [Files -> Nat]
    BY DEF Types
  <1> QED
    BY <1>1, <1>2, <1>3, <1>4 DEF TypeOK

LEMMA TypesCompleteNext == (Types /\ skipped \in 0 .. N)' => TypeOK'
  BY TypesComplete, PTL

LEMMA CountsBound ==
  ASSUME Types, \A j \in Files : FileOK(j), Counts
  PROVE  skipped \in 0 .. N
  <1>1. skippedFiles \subseteq Files /\ Resumed \subseteq Files
    BY DEF Types, Resumed
  <1>2. skippedFiles \cap Resumed = {}
    BY <1>1 DEF FileOK, Resumed
  <1>3. /\ IsFiniteSet(skippedFiles) /\ IsFiniteSet(Resumed)
        /\ Cardinality(skippedFiles) \in Nat /\ Cardinality(Resumed) \in Nat
    BY <1>1, FilesFinite, FS_Subset, FS_CardinalityType
  <1>4. Cardinality(skippedFiles \cup Resumed)
          = Cardinality(skippedFiles) + Cardinality(Resumed)
            - Cardinality(skippedFiles \cap Resumed)
    BY <1>3, FS_Union
  <1>5. Cardinality(skippedFiles \cap Resumed) = 0
    BY <1>2, FS_EmptySet
  <1>6. skippedFiles \cup Resumed \subseteq Files
    BY <1>1
  <1>7. Cardinality(skippedFiles \cup Resumed) <= N
    BY <1>6, FilesFinite, FS_Subset
  <1>8. Cardinality(skippedFiles) + Cardinality(Resumed) <= N
    BY <1>3, <1>4, <1>5, <1>7, FileValues
  <1> QED
    BY <1>3, <1>8, FileValues DEF Counts

LEMMA CountsStay ==
  ASSUME IInv, UNCHANGED <<skipped, skippedFiles>>, Resumed' = Resumed
  PROVE  Counts'
  BY DEF IInv, Counts

LEMMA SkipCounts ==
  ASSUME IInv, NEW i \in Files, i \notin skippedFiles, MarkSkipped(i), Resumed' = Resumed
  PROVE  Counts'
  <1>1. Cardinality(skippedFiles \cup {i}) = Cardinality(skippedFiles) + 1
    BY CountedFinite, FS_AddElement
  <1>2. skipped' = skipped + 1 /\ skippedFiles' = skippedFiles \cup {i}
    BY DEF MarkSkipped
  <1> QED
    BY <1>1, <1>2, CountedFinite DEF IInv, Counts

\* Files that were not resumed do not matter to the second term.
LEMMA ResumedStays ==
  ASSUME IInv, UNCHANGED <<completed, verified>>,
         \A j \in Files : state'[j] = state[j] \/ j \notin completed
  PROVE  Resumed' = Resumed
  BY TurnValues DEF Types, Resumed

\* Before the transfer only the verification counts.
LEMMA FreshCounts ==
  ASSUME IInv, Fresh, verified = Files
  PROVE  skipped = Cardinality(completed) /\ Resumed = completed
  <1>1. Resumed = completed
    BY TurnValues DEF Fresh, Resumed, Types
  <1>2. Cardinality(skippedFiles) = 0
    BY FS_EmptySet DEF Fresh
  <1> QED
    BY <1>1, <1>2, CountedFinite DEF IInv, Counts

LEMMA CountsKept ==
  ASSUME IInv, [Next]_vars
  PROVE  Counts'
  <1> USE TurnValues, FileValues
  <1>1. CASE VerifyStart \/ Interrupt \/ TransferEnds \/ Expire \/ SwitchAccount
             \/ (\E i \in Files : CreateLocal(i)) \/ UNCHANGED vars
    <2>1. UNCHANGED <<skipped, skippedFiles, completed, verified, state>>
      BY <1>1 DEF VerifyStart, Interrupt, TransferEnds, Expire, SwitchAccount, CreateLocal,
                  vars, unchangedByJobs, progress
    <2> QED
      BY <2>1, CountsStay DEF Resumed
  <1>2. CASE VerifyEnd
    <2>1. PICK i \in Files : i = active
      BY <1>2 DEF VerifyEnd, Types
    <2>2. Fresh /\ i \notin verified /\ verified' = verified \cup {i}
          /\ UNCHANGED <<skippedFiles, completed, state>>
      BY <1>2, <2>1 DEF VerifyEnd, IInv, PhaseOK, TurnsOK
    <2>3. CASE i \in completed
      <3>1. Resumed' = Resumed \cup {i} /\ i \notin Resumed
        BY <2>2, <2>3 DEF Resumed, Fresh
      <3>2. Cardinality(Resumed') = Cardinality(Resumed) + 1
        BY <3>1, CountedFinite, FS_AddElement
      <3>3. skipped' = skipped + 1
        BY <1>2, <2>1, <2>3 DEF VerifyEnd
      <3> QED
        BY <2>2, <3>2, <3>3, CountedFinite DEF IInv, Counts
    <2>4. CASE i \notin completed
      <3>1. Resumed' = Resumed
        BY <2>2, <2>4 DEF Resumed
      <3> QED
        BY <1>2, <2>1, <2>2, <2>4, <3>1, CountsStay DEF VerifyEnd
    <2> QED
      BY <2>3, <2>4
  <1>3. CASE SetupFails \/ Begin
    <2>1. Fresh /\ UNCHANGED <<skippedFiles, completed, verified, state>>
      BY <1>3 DEF SetupFails, Begin, IInv, PhaseOK
    <2>2. Resumed' = Resumed
      BY <2>1 DEF Resumed
    <2>3. skipped' = skipped
      BY <1>3, <2>1, FreshCounts DEF SetupFails, Begin
    <2> QED
      BY <2>1, <2>2, <2>3, CountsStay
  <1>4. CASE Schedule
    <2>1. PICK i \in Files : i = next /\ state[i] = "unscheduled"
      BY <1>4 DEF Schedule
    <2>2. UNCHANGED <<completed, verified>> /\ i \notin skippedFiles
      BY <1>4, <2>1 DEF Schedule, FileOK
    <2>3. CASE i \in completed
      BY <1>4, <2>1, <2>2, <2>3, CountsStay DEF Schedule, Resumed
    <2>4. CASE i \notin completed
      <3>1. Resumed' = Resumed
        BY <1>4, <2>1, <2>2, <2>4, ResumedStays DEF Schedule, FailFile, MarkSkipped, Settled,
                                                    Types
      <3> QED
        BY <1>4, <2>1, <2>2, <2>4, <3>1, CountsStay, SkipCounts DEF Schedule, FailFile
    <2> QED
      BY <2>3, <2>4
  <1>5. ASSUME NEW i \in Files, Accept(i) PROVE Counts'
    <2>1. state[i] \in Running /\ UNCHANGED <<completed, verified>>
      BY <1>5 DEF Accept, Waiting, FileOK, Types, Running
    <2>2. i \notin completed /\ i \notin skippedFiles
      BY <1>5, <2>1, RunningFile DEF FileOK, Running
    <2>3. Resumed' = Resumed
      BY <1>5, <2>1, <2>2, ResumedStays DEF Accept, FailFile, MarkSkipped, Settled, Types
    <2> QED
      BY <1>5, <2>2, <2>3, CountsStay, SkipCounts DEF Accept, FailFile
  <1>6. CASE PublishFails \/ Publish
    <2>1. PICK i \in Files : i = finishing
      BY <1>6 DEF PublishFails, Publish
    <2>2. state[i] \in Running
      BY <1>6, <2>1 DEF PublishFails, Publish, IInv, TurnsOK, Running
    <2>3. i \notin completed /\ UNCHANGED <<skipped, skippedFiles>>
      BY <1>6, <2>2, RunningFile DEF PublishFails, Publish, FailFile
    <2>4. Resumed' = Resumed
      <3>1. CASE PublishFails
        BY <2>1, <2>3, <3>1, ResumedStays DEF PublishFails, FailFile, Settled, Types
      <3>2. CASE Publish
        <4>1. /\ completed' = completed \cup {i} /\ verified' = verified \cup {i}
              /\ state' = [state EXCEPT ![i] = "completed"]
          BY <2>1, <3>2 DEF Publish, Settled
        <4> QED
          BY <2>3, <4>1 DEF Resumed, Types
      <3> QED
        BY <1>6, <3>1, <3>2
    <2> QED
      BY <2>3, <2>4, CountsStay
  <1>7. CASE Finalize
    <2>1. /\ UNCHANGED <<skipped, skippedFiles, completed, verified>>
          /\ \A j \in Files : state'[j] = state[j] \/ state[j] \in Running
      BY <1>7 DEF Finalize, CutShort
    <2>2. Resumed' = Resumed
      BY <2>1, RunningFile, ResumedStays
    <2> QED
      BY <2>1, <2>2, CountsStay
  <1>8. ASSUME NEW i \in Files,
               \/ EnsureSession(i) \/ RefreshSession(i) \/ Issued(i)
               \/ Refused(i) \/ IssuanceUnknown(i) \/ Download(i)
        PROVE  Counts'
    <2>1. UNCHANGED <<skipped, skippedFiles, completed, verified>>
      BY <1>8 DEF EnsureSession, RefreshSession, Issued, Refused, IssuanceUnknown,
                  Answered, Download, unchangedByJobs, progress
    <2>2. state[i] \in Running
      <3>1. RefreshSession(i) => state[i] = "scheduled"
        BY <1>8 DEF RefreshSession, IInv, TurnsOK
      <3> QED
        BY <1>8, <3>1 DEF EnsureSession, Issued, Refused, IssuanceUnknown, Answered, Download,
                          Running
    <2>3. \A j \in Files \ {i} : state'[j] = state[j]
      BY <1>8 DEF EnsureSession, RefreshSession, Issued, Refused, IssuanceUnknown,
                  Answered, Download, Issue, Types
    <2>4. Resumed' = Resumed
      BY <1>8, <2>1, <2>2, <2>3, RunningFile, ResumedStays
    <2> QED
      BY <2>1, <2>4, CountsStay
  <1> QED
    BY <1>1, <1>2, <1>3, <1>4, <1>5, <1>6, <1>7, <1>8, StepCases

-----------------------------------------------------------------------------
(* The journal, the session and the turns. *)

LEMMA JournalKept ==
  ASSUME IInv, [Next]_vars
  PROVE  JournalOK'
  <1> USE TurnValues DEF options
  <1>1. CASE SetupFails \/ Begin
    <2>1. ~poisoned /\ ~durable /\ completed \subseteq saved
          /\ UNCHANGED <<checkpointed, poisoned, completed, saved>>
      BY <1>1 DEF SetupFails, Begin, IInv, PhaseOK, Fresh
    <2>2. ~poisoned' /\ completed' \subseteq saved'
      BY <2>1
    <2>3. durable' \in {durable, FALSE, checkpointed}
      BY <1>1 DEF SetupFails, Begin
    <2>4. ~checkpointed' => ~durable'
      BY <2>1, <2>3
    <2> QED
      BY <2>2, <2>4 DEF JournalOK
  <1>2. CASE Publish
    <2>1. completed' = completed \cup {finishing} /\ checkpointed' = checkpointed
          /\ SaveCompletion(finishing)
      BY <1>2 DEF Publish
    <2> QED
      BY <2>1 DEF SaveCompletion, journal, JournalOK, IInv
  <1>3. CASE VerifyStart \/ VerifyEnd \/ Schedule \/ (\E i \in Files : Accept(i)) \/ PublishFails
             \/ TransferEnds \/ Interrupt \/ Finalize
    <2>1. UNCHANGED <<journal, checkpointed, completed>>
      BY <1>3 DEF VerifyStart, VerifyEnd, Schedule, Accept, PublishFails, TransferEnds,
                  Interrupt, Finalize, progress
    <2> QED
      BY <2>1 DEF journal, JournalOK, IInv
  <1>4. CASE (\E i \in Files : \/ EnsureSession(i) \/ RefreshSession(i) \/ Issued(i)
                               \/ Refused(i) \/ IssuanceUnknown(i) \/ Download(i)
                               \/ CreateLocal(i))
             \/ Expire \/ SwitchAccount \/ UNCHANGED vars
    <2>1. UNCHANGED <<journal, checkpointed, completed>>
      BY <1>4 DEF EnsureSession, RefreshSession, Issued, Refused, IssuanceUnknown, Answered,
                  Download, CreateLocal, Expire, SwitchAccount, vars, unchangedByJobs,
                  progress
    <2> QED
      BY <2>1 DEF journal, JournalOK, IInv
  <1> QED
    BY <1>1, <1>2, <1>3, <1>4, StepCases

LEMMA SessionKept ==
  ASSUME IInv, [Next]_vars
  PROVE  SessionOK'
  <1>1. sessionUser = Recipient /\ issuers \subseteq {Recipient}
    BY DEF IInv, SessionOK
  <1>2. sessionUser' = Recipient
    <2>1. ASSUME NEW i \in Files, RefreshSession(i) PROVE sessionUser' = sessionUser
      BY <2>1 DEF RefreshSession, SameSubject
    <2>2. ASSUME NEW i \in Files, EnsureSession(i) PROVE sessionUser' = sessionUser
      BY <2>2 DEF EnsureSession, session
    <2>3. ASSUME NEW i \in Files,
                 Issued(i) \/ Refused(i) \/ IssuanceUnknown(i) \/ Download(i) \/ CreateLocal(i)
          PROVE  sessionUser' = sessionUser
      BY <2>3 DEF Issued, Refused, IssuanceUnknown, Answered, Download, CreateLocal, session
    <2>4. CASE VerifyStart \/ VerifyEnd \/ SetupFails \/ Begin \/ Schedule
               \/ (\E i \in Files : Accept(i)) \/ PublishFails \/ Publish \/ TransferEnds
               \/ Interrupt \/ Finalize \/ Expire \/ SwitchAccount \/ UNCHANGED vars
      <3>1. sessionUser' = sessionUser
        BY <2>4 DEF VerifyStart, VerifyEnd, SetupFails, Begin, Schedule, Accept,
                    PublishFails, Publish, TransferEnds, Interrupt, Finalize, Expire,
                    SwitchAccount, vars, session
      <3> QED
        BY <1>1, <3>1
    <2> QED
      BY <1>1, <2>1, <2>2, <2>3, <2>4, StepCases
  <1>3. issuers' \in {issuers, issuers \cup {sessionUser'}}
    BY ServiceSteps DEF service, Issue, Issued, Refused, IssuanceUnknown, Answered
  <1> QED
    BY <1>1, <1>2, <1>3 DEF SessionOK

\* A job that holds the mutex, or a file being published, is left to itself.
LEMMA TurnsKept ==
  ASSUME IInv, [Next]_vars
  PROVE  TurnsOK'
  <1> USE TurnValues, FileValues
  <1>0. Types /\ TurnsOK
    BY DEF IInv
  <1>1. CASE VerifyStart \/ VerifyEnd \/ SetupFails \/ Begin
    <2>1. active' # None => active' \notin verified'
      <3>1. CASE VerifyStart \/ VerifyEnd
        BY <3>1 DEF VerifyStart, VerifyEnd
      <3>2. CASE SetupFails \/ Begin
        <4>1. UNCHANGED <<active, verified>>
          BY <3>2 DEF SetupFails, Begin
        <4> QED
          BY <1>0, <4>1 DEF TurnsOK
      <3> QED
        BY <1>1, <3>1, <3>2
    <2>2. phase = "check" /\ finishing' = finishing /\ lock' = lock
      BY <1>1 DEF VerifyStart, VerifyEnd, SetupFails, Begin, session
    <2> QED
      BY <1>0, <2>1, <2>2 DEF TurnsOK
  <1>2. CASE Schedule
    <2>1. finishing = None /\ finishing' = None /\ phase' = phase
          /\ UNCHANGED <<active, verified, lock>>
      BY <1>2 DEF Schedule, session
    <2>2. ASSUME lock # None PROVE state'[lock] = state[lock] /\ outcome'[lock] = outcome[lock]
      <3>1. lock \in Files /\ lock # next
        BY <1>2, <2>2 DEF Schedule, IInv, TurnsOK
      <3> QED
        BY <1>2, <3>1 DEF Schedule, FailFile, MarkSkipped, Settled, Types
    <2> QED
      BY <1>0, <2>1, <2>2 DEF TurnsOK
  <1>3. ASSUME NEW i \in Files, Accept(i) PROVE TurnsOK'
    <2>1. finishing = None /\ phase = "transfer" /\ phase' = phase /\ outcome[i] # None
          /\ UNCHANGED <<active, verified, lock>>
      BY <1>3 DEF Accept, Waiting, session
    <2>2. finishing' # None => finishing' = i /\ outcome[i] = "ok" /\ state' = state
                               /\ outcome' = outcome
      BY <1>3, <2>1 DEF Accept
    <2>3. finishing' # None => state[i] = "done"
      BY <1>3, <2>1, <2>2 DEF FileOK
    <2>4. ASSUME lock # None PROVE state'[lock] = state[lock] /\ outcome'[lock] = outcome[lock]
      <3>1. lock \in Files /\ lock # i
        BY <2>1, <2>4 DEF IInv, TurnsOK
      <3> QED
        BY <1>3, <3>1 DEF Accept, FailFile, MarkSkipped, Settled, Types
    <2> QED
      BY <1>0, <2>1, <2>2, <2>3, <2>4 DEF TurnsOK
  <1>4. CASE PublishFails \/ Publish
    <2>1. finishing' = None /\ finishing \in Files /\ phase' = phase /\ lock' = lock
          /\ active' = active
      <3>1. CASE PublishFails
        BY <3>1 DEF PublishFails, Types, session
      <3>2. CASE Publish
        BY <3>2 DEF Publish, Types, session
      <3> QED
        BY <1>4, <3>1, <3>2
    <2>2. active' # None => active' \notin verified'
      BY <1>4, <2>1 DEF PublishFails, Publish, IInv, PhaseOK, TurnsOK
    <2>3. ASSUME lock # None PROVE state'[lock] = state[lock] /\ outcome'[lock] = outcome[lock]
      <3>1. lock \in Files /\ lock # finishing
        BY <1>4, <2>3 DEF PublishFails, Publish, IInv, TurnsOK
      <3> QED
        BY <1>4, <3>1 DEF PublishFails, Publish, FailFile, Settled, Types
    <2> QED
      BY <1>0, <2>1, <2>2, <2>3 DEF TurnsOK
  <1>5. CASE TransferEnds
    <2>1. finishing' = None /\ UNCHANGED <<active, verified, lock>> /\ Incomplete = {}
      BY <1>5 DEF TransferEnds, Waiting, progress, session
    <2>2. lock = None
      BY <1>0, <2>1 DEF TurnsOK, Incomplete, Running
    <2> QED
      BY <1>0, <2>1, <2>2 DEF TurnsOK
  <1>6. CASE Interrupt
    <2>1. finishing' = None /\ UNCHANGED <<active, verified>> /\ lock' = None
      BY <1>0, <1>6 DEF Interrupt, Waiting, progress, TurnsOK
    <2> QED
      BY <1>0, <2>1 DEF TurnsOK
  <1>7. CASE Finalize
    <2>1. finishing' = None /\ UNCHANGED <<active, verified>> /\ lock' = None
      BY <1>0, <1>7 DEF Finalize, session, TurnsOK
    <2> QED
      BY <1>0, <2>1 DEF TurnsOK
  <1>8. CASE Expire \/ SwitchAccount \/ (\E i \in Files : CreateLocal(i)) \/ UNCHANGED vars
    <2>1. UNCHANGED <<finishing, active, verified, lock, state, outcome, phase>>
      BY <1>8 DEF Expire, SwitchAccount, CreateLocal, vars, unchangedByJobs, progress, session
    <2> QED
      BY <1>0, <2>1 DEF TurnsOK
  <1>9. ASSUME NEW i \in Files,
               \/ EnsureSession(i) \/ RefreshSession(i) \/ Issued(i)
               \/ Refused(i) \/ IssuanceUnknown(i) \/ Download(i)
        PROVE  TurnsOK'
    <2>1. UNCHANGED <<finishing, active, verified, phase>> /\ finishing = None
          /\ phase = "transfer"
      BY <1>9 DEF EnsureSession, RefreshSession, Issued, Refused, IssuanceUnknown, Answered,
                  Download, unchangedByJobs, progress, Waiting
    <2>2. \/ lock' = lock /\ lock # i
          \/ lock' = lock /\ outcome'[i] = outcome[i] /\ state'[i] = state[i]
          \/ lock' = None
          \/ lock' = i /\ state'[i] = "scheduled" /\ outcome'[i] = None
      <3>1. CASE EnsureSession(i)
        BY <1>9, <3>1 DEF EnsureSession, session
      <3>2. CASE RefreshSession(i)
        BY <3>2 DEF RefreshSession
      <3>3. CASE Issued(i) \/ Refused(i) \/ IssuanceUnknown(i)
        <4>1. state[i] = "issuing" /\ lock' = lock
          BY <3>3 DEF Issued, Refused, IssuanceUnknown, Answered, session
        <4> QED
          BY <1>0, <1>9, <4>1 DEF TurnsOK
      <3>4. CASE Download(i)
        <4>1. state[i] = "downloading" /\ lock' = lock
          BY <3>4 DEF Download, session
        <4> QED
          BY <1>0, <1>9, <4>1 DEF TurnsOK
      <3> QED
        BY <1>9, <3>1, <3>2, <3>3, <3>4
    <2>3. \A j \in Files \ {i} : state'[j] = state[j] /\ outcome'[j] = outcome[j]
      BY <1>9 DEF EnsureSession, RefreshSession, Issued, Refused, IssuanceUnknown,
                  Answered, Download, Issue, Types, service
    <2> QED
      BY <1>0, <2>1, <2>2, <2>3 DEF TurnsOK
  <1> QED
    BY <1>1, <1>2, <1>3, <1>4, <1>5, <1>6, <1>7, <1>8, <1>9, StepCases

-----------------------------------------------------------------------------
(* The error of the run and its phases. *)

\* Fatal errors are not ordinary, and no error is another.
LEMMA ErrorFacts ==
  ASSUME IInv
  PROVE  /\ error = NoError <=> error.kind = "none"
         /\ \A i \in Files : /\ [kind |-> "file", file |-> i].kind = "file"
                             /\ [kind |-> "file", file |-> i] # NoError
         /\ \A k \in {"tracking", "directory", "interrupted", "setup", "artifacts"} :
               Fatal(k).kind = k /\ Fatal(k) # NoError
         /\ phase = "transfer" => Types /\ error.kind \in {"none", "file", "tracking"}
  <1>1. error \in Errors
    BY TurnValues DEF Types
  <1> QED
    BY <1>1, TurnValues, ErrorKinds DEF IInv, ErrorOK

\* The whole of ErrorOK, for a step that ends in the transfer.
LEMMA TransferErrors ==
  ASSUME phase' = "transfer",
         error'.kind \in {"none", "file", "tracking"},
         tracking' <=> error'.kind = "tracking",
         error' = NoError <=> failures' = {} /\ ~tracking',
         stopped' => issuing' \/ tracking',
         issuing' => failures' # {},
         failures' # {} => error' # NoError,
         error' = NoError => report' = "open" /\ durable' = checkpointed',
         blame' # None => error' = [kind |-> "file", file |-> blame']
  PROVE  ErrorOK'
  BY DEF ErrorOK, Ordinary

LEMMA TrackedErrors ==
  ASSUME IInv, phase = "transfer", phase' = "transfer", TrackTracking,
         failures \subseteq failures', issuing' => failures' # {}
  PROVE  ErrorOK'
  <1>1. error'.kind = "tracking" /\ error' # NoError /\ tracking' /\ blame' = None
    BY ErrorFacts DEF TrackTracking
  <1> QED
    BY <1>1, TransferErrors

LEMMA QuietErrors ==
  ASSUME IInv, phase = "transfer",
         UNCHANGED <<phase, result, failures, issuing, report, checkpointed>>,
         durable' = durable \/ durable' = checkpointed
  PROVE  ErrorOK'
  BY ErrorFacts, TransferErrors DEF IInv, ErrorOK, result

LEMMA FailedErrors ==
  ASSUME IInv, phase = "transfer", UNCHANGED <<phase, durable, checkpointed>>,
         NEW i \in Files, NEW u \in BOOLEAN, FailFile(i, u), issuing' = (issuing \/ u)
  PROVE  ErrorOK'
  <1>1. failures' = failures \cup {i} /\ failures' # {}
    BY DEF FailFile
  <1>2. CASE TrackTracking
    BY <1>1, <1>2, TrackedErrors
  <1>3. CASE Wrote(i, "failed") /\ TrackFile(i, u)
             /\ blame' = IF failures = {} /\ ~tracking THEN i ELSE blame
    <2>1. report' = report /\ tracking' = tracking /\ stopped' = (stopped \/ u)
          /\ error' = IF error = NoError THEN [kind |-> "file", file |-> i] ELSE error
      BY <1>3 DEF Wrote, TrackFile
    <2>2. /\ error.kind \in {"none", "file", "tracking"}
          /\ tracking <=> error.kind = "tracking"
          /\ error = NoError <=> failures = {} /\ ~tracking
          /\ stopped => issuing \/ tracking
          /\ blame # None => error = [kind |-> "file", file |-> blame]
      BY DEF IInv, ErrorOK
    <2>3. CASE error = NoError
      <3>1. error' = [kind |-> "file", file |-> i] /\ blame' = i /\ ~tracking
        BY <1>3, <2>1, <2>2, <2>3
      <3> QED
        BY <1>1, <2>1, <2>2, <3>1, ErrorFacts, TransferErrors
    <2>4. CASE error # NoError
      <3>1. error' = error /\ blame' = blame
        BY <1>3, <2>1, <2>2, <2>4
      <3> QED
        BY <1>1, <2>1, <2>2, <2>4, <3>1, ErrorFacts, TransferErrors
    <2> QED
      BY <2>3, <2>4
  <1> QED
    BY <1>2, <1>3 DEF FailFile

LEMMA SkippedErrors ==
  ASSUME IInv, phase = "transfer", UNCHANGED <<phase, durable, checkpointed, issuing, failures>>,
         NEW i \in Files, NEW kind,
         (Wrote(i, kind) /\ UNCHANGED result) \/ (NotWritten /\ TrackTracking)
  PROVE  ErrorOK'
  <1>1. CASE TrackTracking
    <2>1. issuing' => failures' # {}
      BY DEF IInv, ErrorOK
    <2> QED
      BY <1>1, <2>1, TrackedErrors
  <1>2. CASE Wrote(i, kind) /\ UNCHANGED result
    BY <1>2, QuietErrors DEF Wrote
  <1> QED
    BY <1>1, <1>2

LEMMA ErrorsKept ==
  ASSUME IInv, [Next]_vars
  PROVE  ErrorOK'
  <1> USE TurnValues
  <1>1. CASE VerifyStart \/ VerifyEnd
    <2>1. UNCHANGED <<phase, error, tracking, failures, stopped, issuing, report, durable,
                      checkpointed, blame>>
      BY <1>1 DEF VerifyStart, VerifyEnd, options, result, journal, artifacts
    <2> QED
      BY <2>1 DEF IInv, ErrorOK, Ordinary
  <1>2. CASE SetupFails
    <2>1. Fresh /\ UNCHANGED <<tracking, failures, stopped, issuing, blame>>
          /\ phase' = "final" /\ error' = Fatal("setup")
      BY <1>2 DEF SetupFails, IInv, PhaseOK
    <2>2. ~issuing
      BY <2>1 DEF Fresh, IInv, ErrorOK
    <2> QED
      BY <2>1, <2>2, ErrorFacts DEF Fresh, ErrorOK, Ordinary
  <1>3. CASE Begin
    <2>1. Fresh /\ UNCHANGED <<result, failures, issuing, checkpointed>>
          /\ phase' = "transfer" /\ report' = "open" /\ durable' = checkpointed
      BY <1>3 DEF Begin, IInv, PhaseOK, options
    <2>2. ~issuing
      BY <2>1 DEF Fresh, IInv, ErrorOK
    <2> QED
      BY <2>1, <2>2, ErrorFacts, TransferErrors DEF Fresh, result
  <1>4. CASE Schedule
    <2>1. phase = "transfer" /\ UNCHANGED <<phase, durable, checkpointed, issuing>>
          /\ next \in Files
      BY <1>4 DEF Schedule, journal, options
    <2>2. CASE FailFile(next, FALSE)
      <3>1. issuing' = (issuing \/ FALSE)
        BY <2>1 DEF Types
      <3> QED
        BY <2>1, <2>2, <3>1, FailedErrors
    <2>3. CASE MarkSkipped(next)
      BY <2>1, <2>3, SkippedErrors DEF MarkSkipped
    <2>4. CASE UNCHANGED failures
               /\ ((Wrote(next, "skipped") /\ UNCHANGED result) \/ (NotWritten /\ TrackTracking))
      BY <2>1, <2>4, SkippedErrors
    <2>5. CASE UNCHANGED <<failures, result, artifacts>>
      BY <2>1, <2>5, QuietErrors DEF artifacts
    <2> QED
      BY <1>4, <2>2, <2>3, <2>4, <2>5 DEF Schedule
  <1>5. ASSUME NEW i \in Files, Accept(i) PROVE ErrorOK'
    <2>1. phase = "transfer" /\ UNCHANGED <<phase, durable, checkpointed>>
          /\ issuing' = (issuing \/ outcome[i] = "unknown")
      BY <1>5 DEF Accept, Waiting, journal, options
    <2>2. CASE \E u \in BOOLEAN : FailFile(i, u) /\ u = (outcome[i] = "unknown")
      BY <1>5, <2>1, <2>2, FailedErrors
    <2>3. outcome[i] = "ok" => issuing' = issuing
      BY <2>1 DEF Types
    <2>4. CASE outcome[i] = "ok" /\ MarkSkipped(i)
      BY <1>5, <2>1, <2>3, <2>4, SkippedErrors DEF MarkSkipped
    <2>5. CASE outcome[i] = "ok" /\ UNCHANGED <<failures, result, artifacts>>
      BY <2>1, <2>3, <2>5, QuietErrors DEF artifacts
    <2>6. CASE outcome[i] = "ok" /\ FailFile(i, FALSE)
      BY <2>2, <2>6
    <2>7. CASE outcome[i] # "ok"
      BY <1>5, <2>2, <2>7 DEF Accept
    <2> QED
      BY <1>5, <2>4, <2>5, <2>6, <2>7 DEF Accept
  <1>6. CASE PublishFails
    <2>1. PICK i \in Files : FailFile(i, FALSE)
      BY <1>6 DEF PublishFails
    <2>2. phase = "transfer" /\ UNCHANGED <<phase, durable, checkpointed>>
          /\ issuing' = (issuing \/ FALSE)
      BY <1>6 DEF PublishFails, journal, options, IInv, TurnsOK, Types
    <2> QED
      BY <2>1, <2>2, FailedErrors
  <1>7. CASE Publish
    <2>1. phase = "transfer" /\ UNCHANGED <<phase, checkpointed, failures, issuing>>
      BY <1>7 DEF Publish, IInv, TurnsOK, options
    <2>2. CASE TrackTracking
      <3>1. issuing' => failures' # {}
        BY <2>1 DEF IInv, ErrorOK
      <3> QED
        BY <2>1, <2>2, <3>1, TrackedErrors
    <2>3. CASE UNCHANGED <<result, report>> /\ durable' = checkpointed
      BY <2>1, <2>3, QuietErrors
    <2> QED
      BY <1>7, <2>2, <2>3 DEF Publish, Wrote
  <1>8. CASE TransferEnds
    <2>1. /\ phase = "transfer" /\ phase' = "final"
          /\ UNCHANGED <<tracking, stopped, issuing, failures, blame, report, durable,
                         checkpointed>>
          /\ error' = IF error = NoError /\ directoryFailed THEN Fatal("directory") ELSE error
      BY <1>8 DEF TransferEnds, Waiting, progress, journal, artifacts, options
    <2>2. CASE error = NoError /\ directoryFailed
      BY <2>1, <2>2, ErrorFacts DEF IInv, ErrorOK, Ordinary
    <2>3. CASE error' = error
      BY <2>1, <2>3, ErrorFacts DEF IInv, ErrorOK, Ordinary
    <2> QED
      BY <2>1, <2>2, <2>3
  <1>9. CASE Interrupt
    <2>1. /\ phase' = "final" /\ error' = Fatal("interrupted")
          /\ UNCHANGED <<tracking, stopped, issuing, failures, blame>>
      BY <1>9 DEF Interrupt, progress
    <2> QED
      BY <2>1, ErrorFacts DEF IInv, ErrorOK, Ordinary
  <1>10. CASE Finalize
    <2>1. /\ phase = "final" /\ phase' = "ended"
          /\ UNCHANGED <<tracking, stopped, durable, checkpointed>>
          /\ issuing' = (issuing \/ \E i \in Files : state[i] = "issuing")
          /\ failures' = failures \cup CutShort
      BY <1>10 DEF Finalize, journal, options
    <2>2. issuing' => failures' # {}
      <3>1. \A i \in Files : state[i] = "issuing" => i \in CutShort
        BY DEF CutShort, Running
      <3> QED
        BY <2>1, <3>1 DEF IInv, ErrorOK
    <2>3. error = NoError => CutShort = {} /\ report = "open" /\ failures = {}
          /\ durable = checkpointed
      BY <2>1, ErrorFacts DEF IInv, PhaseOK, ErrorOK, Ordinary, Incomplete, CutShort
    <2>4. CASE error' = Fatal("artifacts") /\ blame' = None
      BY <2>1, <2>2, <2>4, ErrorFacts DEF IInv, ErrorOK, Ordinary
    <2>5. CASE /\ error' = error
               /\ blame' = IF error.kind = "interrupted" THEN None ELSE blame
               /\ report = "open" => report' = "published"
      <3>1. error = NoError => failures' = {} /\ report' = "published"
        BY <2>1, <2>3, <2>5
      <3>2. blame' # None => error = [kind |-> "file", file |-> blame']
        BY <2>1, <2>5 DEF IInv, ErrorOK
      <3> QED
        BY <2>1, <2>2, <2>3, <2>5, <3>1, <3>2 DEF IInv, ErrorOK, Ordinary
    <2> QED
      BY <1>10, <2>4, <2>5 DEF Finalize
  <1>11. CASE (\E i \in Files : \/ EnsureSession(i) \/ RefreshSession(i) \/ Issued(i)
                                \/ Refused(i) \/ IssuanceUnknown(i) \/ Download(i)
                                \/ CreateLocal(i))
              \/ Expire \/ SwitchAccount \/ UNCHANGED vars
    <2>1. UNCHANGED <<phase, error, tracking, failures, stopped, issuing, report, durable,
                      checkpointed, blame>>
      BY <1>11 DEF EnsureSession, RefreshSession, Issued, Refused, IssuanceUnknown, Answered,
                  Download, CreateLocal, Expire, SwitchAccount, vars, unchangedByJobs,
                  progress, options, result, journal, artifacts
    <2> QED
      BY <2>1 DEF IInv, ErrorOK, Ordinary
  <1> QED
    BY <1>1, <1>2, <1>3, <1>4, <1>5, <1>6, <1>7, <1>8, <1>9, <1>10, <1>11, StepCases

LEMMA CheckPhases ==
  ASSUME IInv, VerifyStart \/ VerifyEnd \/ SetupFails \/ Begin
  PROVE  PhaseOK'
  <1>0. Types /\ Fresh /\ TurnsOK
    BY TurnValues DEF VerifyStart, VerifyEnd, SetupFails, Begin, IInv, PhaseOK
  <1>1. CASE VerifyStart \/ VerifyEnd
    <2>1. UNCHANGED <<phase, next, state, outcome, failures, skippedFiles, error, tracking,
                      stopped, blame, report, rows, poisoned, durable, completed, saved>>
          /\ phase = "check"
      BY <1>1 DEF VerifyStart, VerifyEnd, result, journal, artifacts
    <2> QED
      BY <1>0, <2>1 DEF PhaseOK, Fresh
  <1>2. verified = Files => active = None
    BY <1>0 DEF Types, TurnsOK
  <1>3. CASE SetupFails
    <2>1. phase' = "final" /\ error' = Fatal("setup") /\ UNCHANGED <<active, verified>>
      BY <1>3 DEF SetupFails
    <2>2. report' = "closed" \/ (report' = "open" /\ verified = Files)
      BY <1>0, <1>3 DEF SetupFails, Fresh
    <2> QED
      BY <1>2, <2>1, <2>2, ErrorFacts DEF PhaseOK, Ordinary
  <1>4. CASE Begin
    <2>1. phase' = "transfer" /\ report' = "open" /\ verified = Files
          /\ UNCHANGED <<active, verified>>
      BY <1>4 DEF Begin
    <2> QED
      BY <1>2, <2>1 DEF PhaseOK
  <1> QED
    BY <1>1, <1>3, <1>4

\* A step within the transfer leaves what was verified verified.
LEMMA TransferPhases ==
  ASSUME IInv, phase = "transfer", phase' = "transfer", active' = active,
         verified' = verified \/ (verified' = verified \cup {finishing} /\ finishing \in Files),
         report' # "published"
  PROVE  PhaseOK'
  BY DEF IInv, PhaseOK

LEMMA PhasesKept ==
  ASSUME IInv, [Next]_vars
  PROVE  PhaseOK'
  <1> USE TurnValues
  <1>1. CASE VerifyStart \/ VerifyEnd \/ SetupFails \/ Begin
    BY <1>1, CheckPhases
  <1>2. CASE Schedule \/ (\E i \in Files : Accept(i)) \/ PublishFails \/ Publish
    <2>1. phase = "transfer" /\ phase' = phase /\ active' = active
      BY <1>2 DEF Schedule, Accept, Waiting, PublishFails, Publish, IInv, TurnsOK
    <2>2. report # "published"
      BY <2>1 DEF IInv, PhaseOK
    <2>3. report' # "published"
      BY <1>2, <2>2 DEF Schedule, Accept, PublishFails, Publish, FailFile, MarkSkipped, Wrote,
                        NotWritten, artifacts
    <2>4. verified' = verified \/ (verified' = verified \cup {finishing} /\ finishing \in Files)
      BY <1>2 DEF Schedule, Accept, PublishFails, Publish
    <2> QED
      BY <2>1, <2>3, <2>4, TransferPhases
  <1>3. CASE TransferEnds
    <2>1. phase = "transfer" /\ phase' = "final" /\ Incomplete = {}
          /\ UNCHANGED <<active, verified, state, stopped, next, report>> /\ ~CanSchedule
      BY <1>3 DEF TransferEnds, Waiting, progress, artifacts
    <2>2. Cardinality(Incomplete) = 0
      BY <2>1, FS_EmptySet
    <2>3. slots \in Nat /\ slots > 0 /\ next \in 1 .. N + 1
      BY ConstantsAssumption DEF Types
    <2>4. stopped \/ next = N + 1
      BY <2>1, <2>2, <2>3, FileValues DEF CanSchedule
    <2> QED
      BY <2>1, <2>4 DEF IInv, PhaseOK, Incomplete
  <1>4. CASE Interrupt
    <2>1. phase' = "final" /\ error' = Fatal("interrupted") /\ phase \in {"check", "transfer"}
          /\ UNCHANGED <<active, verified, report>>
      BY <1>4 DEF Interrupt, Waiting, progress, artifacts
    <2> QED
      BY <2>1, ErrorFacts DEF IInv, PhaseOK, Fresh, Ordinary
  <1>5. CASE Finalize
    <2>1. phase = "final" /\ phase' = "ended" /\ UNCHANGED <<active, verified, stopped, next>>
      BY <1>5 DEF Finalize
    <2>2. Incomplete' = {}
      BY <1>5 DEF Finalize, Incomplete, CutShort, Running
    <2>3. error' = error \/ error' = Fatal("artifacts")
      BY <1>5 DEF Finalize
    <2>4. report' = "published" => report \in {"open", "published"}
      BY <1>5 DEF Finalize
    <2>5. report' # "open"
      BY <1>5 DEF Finalize
    <2> QED
      BY <2>1, <2>2, <2>3, <2>4, <2>5, ErrorFacts DEF IInv, PhaseOK, Ordinary
  <1>6. ASSUME NEW i \in Files,
               \/ EnsureSession(i) \/ RefreshSession(i) \/ Issued(i)
               \/ Refused(i) \/ IssuanceUnknown(i) \/ Download(i)
        PROVE  PhaseOK'
    <2>1. phase = "transfer" /\ UNCHANGED <<phase, active, verified, report>>
      BY <1>6 DEF EnsureSession, RefreshSession, Issued, Refused, IssuanceUnknown, Answered,
                  Download, unchangedByJobs, progress, artifacts, Waiting
    <2> QED
      BY <2>1, TransferPhases DEF IInv, PhaseOK
  <1>7. CASE Expire \/ SwitchAccount \/ (\E i \in Files : CreateLocal(i)) \/ UNCHANGED vars
    <2>1. UNCHANGED <<phase, active, verified, report, next, state, outcome, failures,
                      skippedFiles, error, tracking, stopped, blame, rows, poisoned, durable,
                      completed, saved>>
      BY <1>7 DEF Expire, SwitchAccount, CreateLocal, vars, unchangedByJobs, progress,
                  artifacts, result, journal
    <2> QED
      BY <2>1 DEF IInv, PhaseOK, Fresh, Ordinary, Incomplete
  <1> QED
    BY <1>1, <1>2, <1>3, <1>4, <1>5, <1>6, <1>7, StepCases

-----------------------------------------------------------------------------
(* The theorems. *)

LEMMA InitHolds == Init => IInv
  <1> SUFFICES ASSUME Init PROVE IInv
    OBVIOUS
  <1>1. Types
    BY InitTypes
  <1>2. \A i \in Files : FileOK(i) /\ IssuanceOK(i)
    BY FileValues DEF Init, FileOK, IssuanceOK
  <1>3. Admitted /\ RowsOK /\ JournalOK /\ SessionOK
    BY DEF Init, Admitted, RowsOK, JournalOK, SessionOK, Doubtful
  <1>4. Counts
    <2>1. Resumed = {}
      BY DEF Init, Resumed
    <2> QED
      BY <2>1, FS_EmptySet DEF Init, Counts
  <1>5. ErrorOK /\ TurnsOK
    BY DEF Init, ErrorOK, TurnsOK
  <1>6. PhaseOK
    BY DEF Init, PhaseOK, Fresh
  <1>7. TypeOK
    BY <1>1, <1>2, <1>4, CountsBound, TypesComplete
  <1> QED
    BY <1>2, <1>3, <1>4, <1>5, <1>6, <1>7 DEF IInv

LEMMA CountsBounded == Types /\ (\A j \in Files : FileOK(j)) /\ Counts => skipped \in 0 .. N
  BY CountsBound

LEMMA CountsBoundedNext ==
  (Types /\ (\A j \in Files : FileOK(j)) /\ Counts)' => (skipped \in 0 .. N)'
  BY CountsBounded, PTL

LEMMA StepHolds == IInv /\ [Next]_vars => IInv'
  <1> SUFFICES ASSUME IInv, [Next]_vars PROVE IInv'
    OBVIOUS
  <1>1. Types'
    BY TurnValues, StepTypes
  <1>2. \A j \in Files : FileOK(j)' /\ IssuanceOK(j)'
    BY FilesKept, IssuancesKept
  <1>3. Admitted' /\ RowsOK' /\ Counts' /\ JournalOK' /\ SessionOK'
    BY AdmittedKept, RowsKept, CountsKept, JournalKept, SessionKept
  <1>4. ErrorOK' /\ PhaseOK' /\ TurnsOK'
    BY ErrorsKept, PhasesKept, TurnsKept
  <1>5. (skipped \in 0 .. N)'
    BY <1>1, <1>2, <1>3, CountsBoundedNext
  <1>6. TypeOK'
    BY <1>1, <1>5, TypesCompleteNext
  <1> QED
    BY <1>2, <1>3, <1>4, <1>6 DEF IInv

\* The account of a run (Progress, Driver, the report and the receiver session of
\* share_download) fits the states of its files in every reachable state.
THEOREM Invariant == Spec => []IInv
  <1>1. Init => IInv
    BY InitHolds
  <1>2. IInv /\ [Next]_vars => IInv'
    BY StepHolds
  <1> QED
    BY <1>1, <1>2, PTL DEF Spec

\* Every variable of the driver keeps its type; above all, the counter of skipped
\* files (Progress.skipped) never exceeds the files of the manifest.
THEOREM TypeCorrect == Spec => []TypeOK
  <1>1. IInv => TypeOK
    BY DEF IInv
  <1> QED
    BY <1>1, Invariant, PTL

\* run_job requests one issuance per file at most, none for a file that was already
\* complete, and the aggregate admits exactly the outcomes it does not know.
THEOREM AccountsForQuota == Spec => []QuotaAccounted
  <1>1. IInv => IssuedOnce
    <2> SUFFICES ASSUME IInv, NEW i \in Files
                 PROVE  issues[i] <= IF resume /\ i \in completed /\ state[i] # "completed"
                                     THEN 0 ELSE 1
      BY DEF IssuedOnce
    <2>1. FileOK(i) /\ IssuanceOK(i)
      BY DEF IInv
    <2> QED
      BY <2>1 DEF FileOK, IssuanceOK
  <1>2. IInv => IssuanceReported
    BY DEF IInv, IssuanceReported, Ended, Admitted, PhaseOK, Incomplete, Running, Doubtful
  <1> QED
    BY <1>1, <1>2, Invariant, PTL DEF QuotaAccounted

\* Whoever renews the session, and whatever account the profile is switched to, the
\* issuances are requested for the recipient the share was received with.
THEOREM KeepsRecipient == Spec => []SameRecipient
  <1>1. IInv => SameRecipient
    BY DEF IInv, SessionOK, SameRecipient
  <1> QED
    BY <1>1, Invariant, PTL

\* While the aggregate would claim a usable checkpoint, it holds every completion,
\* although jobs go on publishing after a failed save.
THEOREM ClaimsOnlySaved == Spec => []AvailableMeansSaved
  <1>1. IInv => AvailableMeansSaved
    BY DEF IInv, JournalOK, AvailableMeansSaved
  <1> QED
    BY <1>1, Invariant, PTL

\* Unless an issuance is unknown, tracking failed or the run was interrupted, every
\* file of the manifest has been attempted or skipped when the run ends.
LEMMA Attempted ==
  ASSUME IInv, Ended, Ordinary, ~issuing, NEW i \in Files
  PROVE  /\ Status(i) # "pending"
         /\ i \in completed \/ state[i] \in {"skipped", "failed"}
  <1>1. /\ verified = Files /\ active = None /\ Incomplete = {}
        /\ stopped \/ next = N + 1
    BY DEF IInv, PhaseOK, Ended
  <1>2. ~stopped
    BY DEF IInv, ErrorOK
  <1>3. i < next
    BY <1>1, <1>2, FileValues
  <1>4. FileOK(i) /\ Types
    BY TurnValues
  <1>5. state[i] \notin Running
    BY <1>1 DEF Incomplete
  <1>6. i \in completed \/ state[i] \in {"skipped", "failed"}
    BY <1>3, <1>4, <1>5 DEF FileOK, Types
  <1> QED
    BY <1>1, <1>4, <1>6 DEF FileOK, Status

\* Ordinary failures of some files never keep the driver from attempting the others.
THEOREM AttemptsAll == Spec => []IndependentFiles
  <1>1. IInv => IndependentFiles
    BY Attempted DEF IndependentFiles, Ordinary
  <1> QED
    BY <1>1, Invariant, PTL

\* A run without an error has every file, a published report, a checkpoint with every
\* completion, and no issuance it does not know the outcome of.
THEOREM CompleteIsAll == Spec => []CompleteMeansAll
  <1>1. IInv => CompleteMeansAll
    <2> SUFFICES ASSUME IInv, Complete
                 PROVE  /\ \A i \in Files : Status(i) \in {"completed", "skipped"}
                        /\ report = "published"
                        /\ checkpointed => completed \subseteq saved
                        /\ ~issuing
      BY DEF CompleteMeansAll
    <2>1. Ended /\ error = NoError /\ Ordinary
      BY ErrorFacts DEF Complete, Ordinary
    <2>2. ~issuing /\ failures = {} /\ report = "published" /\ durable = checkpointed
      BY <2>1 DEF IInv, ErrorOK, Ended
    <2>3. checkpointed => completed \subseteq saved
      BY <2>2 DEF IInv, JournalOK
    <2>4. ASSUME NEW i \in Files PROVE Status(i) \in {"completed", "skipped"}
      <3>1. FileOK(i) /\ verified = Files
        BY <2>1 DEF IInv, PhaseOK, Ended
      <3>2. i \in completed \/ state[i] \in {"skipped", "failed"}
        BY <2>1, <2>2, Attempted
      <3> QED
        BY <2>2, <3>1, <3>2 DEF FileOK, Status
    <2> QED
      BY <2>2, <2>3, <2>4
  <1> QED
    BY <1>1, Invariant, PTL

\* However a run ends, a published report has one row per settled file that agrees
\* with the aggregate, the shown failure is the first one, and the counter of skipped
\* files is the number of verified resumed files and policy skips.
THEOREM AccountsAgree == Spec => []AccountAgrees
  <1>1. IInv => ReportAgrees
    <2> SUFFICES ASSUME IInv, Ended, report = "published", NEW i \in Files
                 PROVE  /\ rows[i] \in {<<>>} \cup {<<kind>> : kind \in RowKinds}
                        /\ rows[i] = <<"succeeded">> <=> state[i] = "completed"
                        /\ rows[i] = <<"failed">> <=> Status(i) = "failed"
                        /\ rows[i] = <<"skipped">> => Status(i) \in {"skipped", "completed"}
                        /\ rows[i] = <<>> => Status(i) = "pending" \/ (resume /\ i \in completed)
      BY DEF ReportAgrees
    <2>1. verified = Files /\ active = None /\ Incomplete = {} /\ rows[i] = Row(i)
          /\ FileOK(i) /\ Types
      BY TurnValues DEF IInv, PhaseOK, RowsOK, Ended
    <2>2. state[i] \in {"unscheduled", "failed", "completed", "skipped"}
      BY <2>1 DEF Incomplete, Types
    <2>3. CASE state[i] = "failed"
      BY <2>1, <2>3 DEF Row, FileOK, Status, RowKinds
    <2>4. CASE state[i] = "skipped"
      BY <2>1, <2>4 DEF Row, FileOK, Status, RowKinds
    <2>5. CASE state[i] = "completed"
      BY <2>1, <2>5 DEF Row, FileOK, Status, RowKinds
    <2>6. CASE state[i] = "unscheduled"
      <3>1. i \notin skippedFiles /\ i \notin failures /\ i \notin Incomplete
            /\ (i \in completed => resume)
        BY <2>1, <2>6 DEF FileOK
      <3>2. CASE i \in completed
        <4>1. Status(i) = "completed" /\ rows[i] \in {<<>>, <<"skipped">>}
          BY <2>1, <2>6, <3>2 DEF Row, Status
        <4> QED
          BY <2>6, <3>1, <3>2, <4>1 DEF RowKinds
      <3>3. CASE i \notin completed
        <4>1. Status(i) = "pending" /\ rows[i] = <<>>
          BY <2>1, <2>6, <3>1, <3>3, FileValues DEF Row, Status
        <4> QED
          BY <2>6, <3>3, <4>1
      <3> QED
        BY <3>2, <3>3
    <2> QED
      BY <2>2, <2>3, <2>4, <2>5, <2>6
  <1>2. IInv => BlameMatches
    BY DEF IInv, ErrorOK, BlameMatches, Ended
  <1>3. IInv => SkippedCounts
    BY DEF IInv, Counts, Resumed, SkippedCounts
  <1> QED
    BY <1>1, <1>2, <1>3, Invariant, PTL DEF AccountAgrees

\* SafeDir::replace under no-clobber never replaces a file, not even one that another
\* program created after the last overwrite check.
THEOREM ClobbersNothing == Spec => NeverClobbers
  <1>1. TypeOK /\ [Next]_vars
        => [\A i \in Files : policy = "no-clobber" /\ local[i] # "absent"
               => local'[i] = local[i]]_vars
    <2> SUFFICES ASSUME TypeOK, [Next]_vars, NEW i \in Files,
                        policy = "no-clobber", local[i] # "absent"
                 PROVE  local'[i] = local[i]
      OBVIOUS
    <2>1. local \in [Files -> {"absent", "older", "newer", "ours"}]
      BY DEF TypeOK
    <2>2. CASE PublishFails \/ Publish
      BY <2>1, <2>2 DEF PublishFails, Publish, MayPublish
    <2>3. ASSUME NEW j \in Files, CreateLocal(j) PROVE local'[i] = local[i]
      BY <2>1, <2>3 DEF CreateLocal
    <2>4. CASE VerifyStart \/ VerifyEnd \/ SetupFails \/ Begin \/ Schedule
               \/ (\E j \in Files : Accept(j)) \/ TransferEnds \/ Interrupt \/ Finalize
               \/ Expire \/ SwitchAccount \/ UNCHANGED vars
      BY <2>4 DEF VerifyStart, VerifyEnd, SetupFails, Begin, Schedule, Accept, TransferEnds,
                  Interrupt, Finalize, Expire, SwitchAccount, vars, unchangedByJobs
    <2>5. ASSUME NEW j \in Files,
                 \/ EnsureSession(j) \/ RefreshSession(j) \/ Issued(j)
                 \/ Refused(j) \/ IssuanceUnknown(j) \/ Download(j)
          PROVE  local'[i] = local[i]
      BY <2>5 DEF EnsureSession, RefreshSession, Issued, Refused, IssuanceUnknown, Answered,
                  Download, unchangedByJobs
    <2> QED
      BY <2>2, <2>3, <2>4, <2>5, StepCases
  <1> QED
    BY <1>1, TypeCorrect, PTL DEF Spec, NeverClobbers

-----------------------------------------------------------------------------
(* Why a run ends: nothing goes back, every step of the run brings something *)
(* forward, and whoever waits has somebody to wait for.                      *)

Stage(p) == CASE p = "check" -> 1 [] p = "transfer" -> 2 [] p = "final" -> 3
              [] p = "ended" -> 4

\* How far a file has come in the run.
Rank(i) ==
    IF state[i] = "unscheduled" THEN 0
    ELSE IF state[i] \notin Running THEN 8
    ELSE IF finishing = i THEN 7
    ELSE IF outcome[i] # None THEN 6
    ELSE CASE state[i] = "scheduled" -> IF lock = i THEN 2 ELSE 1
           [] state[i] = "issuing" -> 3
           [] state[i] = "downloading" -> 4
           [] OTHER -> 5

\* The run gets further: in the stage, or in what one stage does, where nothing
\* goes back.
Further ==
    \/ Stage(phase) < Stage(phase')
    \/ /\ phase' = phase
       /\ verified \subseteq verified' /\ next <= next'
       /\ \A i \in Files : Rank(i) <= Rank(i)'
       /\ \/ verified' # verified
          \/ active = None /\ active' # None
          \/ next < next'
          \/ \E i \in Files : Rank(i) < Rank(i)'

Works == Check \/ Driver \/ Interrupt \/ Finalize \/ \E i \in Files : Job(i)

Standing == <<phase, active, verified, next, state, outcome, finishing, lock>>

Advances == (Works => Further) /\ (Further \/ UNCHANGED Standing)

\* While the driver waits there is a result to accept, a renewal to finish or a
\* request under way, or nothing is left.  (Everywhere else the driver itself
\* can go on.)
AwaitsSomething ==
    Waiting =>
        \/ Incomplete = {}
        \/ \E i \in Files :
              \/ outcome[i] # None \/ lock = i
              \/ state[i] = "scheduled" /\ lock = None
              \/ state[i] \in {"issuing", "downloading"}

DoneHasOutcome == \A i \in Files : state[i] = "done" => outcome[i] # None

LEMMA StageValues ==
  /\ Stage("check") = 1 /\ Stage("transfer") = 2 /\ Stage("final") = 3
  /\ Stage("ended") = 4
  BY DEF Stage

LEMMA RankValues ==
  ASSUME IInv, NEW i \in Files
  PROVE  /\ Rank(i) \in 0 .. 8
         /\ state[i] = "unscheduled" <=> Rank(i) = 0
         /\ state[i] \in {"failed", "completed", "skipped"} <=> Rank(i) = 8
         /\ state[i] \in Running /\ finishing = i <=> Rank(i) = 7
         /\ state[i] \in Running /\ finishing # i /\ outcome[i] # None <=> Rank(i) = 6
         /\ state[i] = "done" /\ finishing # i /\ outcome[i] = None <=> Rank(i) = 5
         /\ state[i] = "downloading" /\ finishing # i /\ outcome[i] = None <=> Rank(i) = 4
         /\ state[i] = "issuing" /\ finishing # i /\ outcome[i] = None <=> Rank(i) = 3
         /\ state[i] = "scheduled" /\ finishing # i /\ outcome[i] = None /\ lock = i <=> Rank(i) = 2
         /\ state[i] = "scheduled" /\ finishing # i /\ outcome[i] = None /\ lock # i <=> Rank(i) = 1
  <1>1. state[i] \in {"scheduled", "issuing", "downloading", "done", "unscheduled",
                      "failed", "completed", "skipped"}
    BY DEF IInv, TypeOK, Running
  <1>2. CASE state[i] = "scheduled"
    BY <1>2 DEF Rank, Running
  <1>3. CASE state[i] = "issuing"
    BY <1>3 DEF Rank, Running
  <1>4. CASE state[i] = "downloading"
    BY <1>4 DEF Rank, Running
  <1>5. CASE state[i] = "done"
    BY <1>5 DEF Rank, Running
  <1>6. CASE state[i] \in {"unscheduled", "failed", "completed", "skipped"}
    BY <1>6 DEF Rank, Running
  <1> QED
    BY <1>1, <1>2, <1>3, <1>4, <1>5, <1>6

LEMMA RankNumbers ==
  ASSUME NEW i \in Files
  PROVE  Rank(i) \in Nat /\ Rank(i)' \in Nat
  BY DEF Rank

\* A file nobody touches stays where it is.
LEMMA RankStays ==
  ASSUME NEW j \in Files,
         state'[j] = state[j], outcome'[j] = outcome[j],
         finishing' = j <=> finishing = j, lock' = j <=> lock = j
  PROVE  Rank(j)' = Rank(j)
  BY DEF Rank

LEMMA OneAhead ==
  ASSUME IInv, NEW i \in Files, Rank(i) < Rank(i)',
         UNCHANGED <<phase, next>>, verified \subseteq verified',
         \A j \in Files \ {i} :
            /\ state'[j] = state[j] /\ outcome'[j] = outcome[j]
            /\ finishing' = j <=> finishing = j
            /\ lock' = j <=> lock = j
  PROVE  Further
  <1>1. \A j \in Files : Rank(j) \in Nat /\ Rank(j)' \in Nat
    BY RankNumbers
  <1>2. \A j \in Files \ {i} : Rank(j)' = Rank(j)
    BY RankStays
  <1>3. next \in Nat
    BY TurnValues DEF Types
  <1> QED
    BY <1>1, <1>2, <1>3 DEF Further

\* Where a file stands after a step.
LEMMA RankAfter ==
  ASSUME NEW i \in Files
  PROVE  /\ state'[i] \in {"failed", "completed", "skipped"} => Rank(i)' = 8
         /\ state'[i] \in Running /\ finishing' = i => Rank(i)' = 7
         /\ state'[i] \in Running /\ finishing' # i /\ outcome'[i] # None => Rank(i)' = 6
         /\ state'[i] = "downloading" /\ finishing' # i /\ outcome'[i] = None => Rank(i)' = 4
         /\ state'[i] = "issuing" /\ finishing' # i /\ outcome'[i] = None => Rank(i)' = 3
         /\ state'[i] = "scheduled" /\ finishing' # i /\ outcome'[i] = None /\ lock' = i
               => Rank(i)' = 2
  BY DEF Rank, Running

LEMMA SettledAhead ==
  ASSUME IInv, NEW i \in Files, NEW s \in {"failed", "completed", "skipped"}, Settled(i, s),
         state[i] \in Running, UNCHANGED <<phase, lock, next>>, verified \subseteq verified',
         finishing' = finishing \/ (finishing = i /\ finishing' = None)
  PROVE  Further
  <1>1. state'[i] = s /\ \A j \in Files \ {i} : state'[j] = state[j] /\ outcome'[j] = outcome[j]
    BY TurnValues DEF Settled, Types
  <1>2. Rank(i) < 8
    BY RankValues DEF Running
  <1>3. Rank(i)' = 8
    BY <1>1, RankAfter
  <1>4. \A j \in Files \ {i} : finishing' = j <=> finishing = j
    BY FileValues
  <1> QED
    BY <1>1, <1>2, <1>3, <1>4, OneAhead

LEMMA CheckFurther ==
  ASSUME IInv, Check
  PROVE  Further
  <1> USE StageValues
  <1>1. \A j \in Files : Rank(j) \in Nat
    BY RankNumbers
  <1>2. next \in Nat
    BY TurnValues DEF Types
  <1>3. CASE VerifyStart
    <2>1. UNCHANGED <<phase, verified, next, state, outcome, finishing, lock>>
      BY <1>3 DEF VerifyStart, session
    <2>2. active = None /\ active' # None
      BY <1>3, FileValues DEF VerifyStart
    <2> QED
      BY <1>1, <1>2, <2>1, <2>2, RankStays DEF Further
  <1>4. CASE VerifyEnd
    <2>1. UNCHANGED <<phase, next, state, outcome, finishing, lock>>
      BY <1>4 DEF VerifyEnd, session
    <2>2. verified' = verified \cup {active} /\ active \notin verified
      BY <1>4 DEF VerifyEnd, IInv, TurnsOK
    <2> QED
      BY <1>1, <1>2, <2>1, <2>2, RankStays DEF Further
  <1>5. CASE SetupFails \/ Begin
    <2>1. phase = "check" /\ phase' \in {"transfer", "final"}
      BY <1>5 DEF SetupFails, Begin
    <2> QED
      BY <2>1 DEF Further
  <1> QED
    BY <1>3, <1>4, <1>5 DEF Check

LEMMA ScheduleFurther ==
  ASSUME IInv, Schedule
  PROVE  Further
  <1>1. next \in Files /\ next \in Nat /\ state[next] = "unscheduled"
    BY TurnValues DEF Schedule, Types
  <1>2. UNCHANGED <<phase, verified, finishing, lock>> /\ next' = next + 1
    BY DEF Schedule, session
  <1>3. \A j \in Files \ {next} : state'[j] = state[j] /\ outcome'[j] = outcome[j]
    BY TurnValues DEF Schedule, FailFile, MarkSkipped, Settled, Types
  <1>4. \A j \in Files : Rank(j) <= Rank(j)'
    <2>1. Rank(next) = 0
      BY <1>1, RankValues
    <2>2. \A j \in Files \ {next} : Rank(j)' = Rank(j)
      BY <1>2, <1>3, RankStays
    <2> QED
      BY <1>1, <2>1, <2>2, RankNumbers
  <1> QED
    BY <1>1, <1>2, <1>4 DEF Further

LEMMA AcceptFurther ==
  ASSUME IInv, NEW i \in Files, Accept(i)
  PROVE  Further
  <1>1. UNCHANGED <<phase, next, verified, lock>>
    BY DEF Accept, session
  <1>2. state[i] \in Running /\ outcome[i] # None /\ finishing = None
    BY TurnValues DEF Accept, Waiting, FileOK, Types, Running
  <1>3. CASE \E u \in BOOLEAN : FailFile(i, u) /\ UNCHANGED finishing
    BY <1>1, <1>2, <1>3, SettledAhead DEF FailFile
  <1>4. CASE MarkSkipped(i) /\ UNCHANGED finishing
    BY <1>1, <1>2, <1>4, SettledAhead DEF MarkSkipped
  <1>5. CASE finishing' = i /\ UNCHANGED <<state, outcome>>
    <2>1. Rank(i) = 6 /\ Rank(i)' = 7
      BY <1>2, <1>5, RankValues, RankAfter, FileValues
    <2> QED
      BY <1>1, <1>2, <1>5, <2>1, OneAhead, FileValues
  <1> QED
    BY <1>3, <1>4, <1>5 DEF Accept

LEMMA DriverFurther ==
  ASSUME IInv, Driver
  PROVE  Further
  <1>1. CASE PublishFails
    <2>1. finishing \in Files /\ state[finishing] \in Running
      BY <1>1 DEF PublishFails, IInv, TypeOK, TurnsOK, Running
    <2>2. Settled(finishing, "failed") /\ finishing' = None
          /\ UNCHANGED <<phase, next, verified, lock>>
      BY <1>1 DEF PublishFails, FailFile, session
    <2> QED
      BY <2>1, <2>2, SettledAhead
  <1>2. CASE Publish
    <2>1. finishing \in Files /\ state[finishing] \in Running
      BY <1>2 DEF Publish, IInv, TypeOK, TurnsOK, Running
    <2>2. Settled(finishing, "completed") /\ finishing' = None
          /\ verified \subseteq verified' /\ UNCHANGED <<phase, next, lock>>
      BY <1>2 DEF Publish, session
    <2> QED
      BY <2>1, <2>2, SettledAhead
  <1>3. CASE TransferEnds
    BY <1>3, StageValues DEF TransferEnds, Waiting, Further
  <1> QED
    BY <1>1, <1>2, <1>3, ScheduleFurther, AcceptFurther DEF Driver

LEMMA JobFurther ==
  ASSUME IInv, NEW i \in Files, Job(i)
  PROVE  Further
  <1> USE FileValues, RankValues, RankAfter
  <1>1. UNCHANGED <<phase, next, verified, finishing>> /\ finishing = None
    BY DEF Job, EnsureSession, RefreshSession, Issued, Refused, IssuanceUnknown,
           Answered, Download, unchangedByJobs, progress, Waiting
  <1>2. \A j \in Files \ {i} : state'[j] = state[j] /\ outcome'[j] = outcome[j]
    <2>1. CASE EnsureSession(i) \/ RefreshSession(i)
      BY <2>1, TurnValues DEF EnsureSession, RefreshSession, Issue, service, Types
    <2>2. CASE Issued(i) \/ Refused(i) \/ IssuanceUnknown(i) \/ Download(i)
      BY <2>2, TurnValues DEF Issued, Refused, IssuanceUnknown, Download, Types
    <2> QED
      BY <2>1, <2>2 DEF Job
  <1>3. \A j \in Files \ {i} : lock' = j <=> lock = j
    BY DEF Job, EnsureSession, RefreshSession, Issued, Refused, IssuanceUnknown,
           Answered, Download, session
  <1>4. Rank(i) < Rank(i)'
    <2>1. CASE EnsureSession(i)
      <3>1. Rank(i) = 1
        BY <1>1, <2>1 DEF EnsureSession
      <3>2. \/ lock' = i /\ state'[i] = "scheduled" /\ outcome'[i] = None
            \/ state'[i] = "issuing" /\ outcome'[i] = None
        BY <2>1, TurnValues DEF EnsureSession, Issue, Types
      <3> QED
        BY <1>1, <3>1, <3>2
    <2>2. CASE RefreshSession(i)
      <3>1. Rank(i) = 2 /\ state[i] = "scheduled" /\ outcome[i] = None
        BY <1>1, <2>2 DEF RefreshSession, IInv, TurnsOK
      <3>2. \/ state'[i] = "issuing" /\ outcome'[i] = None
            \/ state'[i] = "scheduled" /\ outcome'[i] = "error"
        BY <2>2, <3>1, TurnValues DEF RefreshSession, Issue, Types
      <3> QED
        BY <1>1, <3>1, <3>2 DEF Running
    <2>3. CASE Issued(i) \/ Refused(i) \/ IssuanceUnknown(i)
      <3>1. Rank(i) = 3 /\ state[i] = "issuing" /\ outcome[i] = None
        BY <1>1, <2>3 DEF Issued, Refused, IssuanceUnknown, Answered
      <3>2. \/ state'[i] = "downloading" /\ outcome'[i] = None
            \/ state'[i] = "done" /\ outcome'[i] = "error"
            \/ state'[i] = "issuing" /\ outcome'[i] = "unknown"
        BY <2>3, <3>1, TurnValues DEF Issued, Refused, IssuanceUnknown, Types
      <3> QED
        BY <1>1, <3>1, <3>2 DEF Running
    <2>4. CASE Download(i)
      <3>1. state[i] = "downloading" /\ outcome[i] = None
        BY <2>4, TurnValues DEF Download, Waiting, FileOK, Types
      <3>2. state'[i] = "done" /\ outcome'[i] \in {"ok", "error"}
        BY <2>4, TurnValues DEF Download, Types
      <3> QED
        BY <1>1, <3>1, <3>2 DEF Running
    <2> QED
      BY <2>1, <2>2, <2>3, <2>4 DEF Job
  <1> QED
    BY <1>1, <1>2, <1>3, <1>4, OneAhead

\* A job that is done has a result for the driver to accept.
LEMMA DoneStays ==
  ASSUME IInv, DoneHasOutcome, [Next]_vars
  PROVE  DoneHasOutcome'
  <1> SUFFICES ASSUME NEW j \in Files, state'[j] = "done" PROVE outcome'[j] # None
    BY DEF DoneHasOutcome
  <1> USE DEF DoneHasOutcome
  <1>1. CASE state'[j] = state[j] /\ outcome'[j] = outcome[j]
    BY <1>1
  <1>2. CASE Schedule
    BY <1>2, TurnValues DEF Schedule, FailFile, MarkSkipped, Settled, Types
  <1>3. ASSUME NEW i \in Files, Accept(i) PROVE outcome'[j] # None
    BY <1>3, TurnValues DEF Accept, FailFile, MarkSkipped, Settled, Types
  <1>4. CASE PublishFails \/ Publish
    BY <1>4, TurnValues DEF PublishFails, Publish, FailFile, Settled, Types
  <1>5. CASE Finalize
    BY <1>5 DEF Finalize, CutShort, Running
  <1>6. CASE \/ VerifyStart \/ VerifyEnd \/ SetupFails \/ Begin \/ TransferEnds
             \/ Interrupt \/ Expire \/ SwitchAccount \/ (\E i \in Files : CreateLocal(i))
             \/ UNCHANGED vars
    BY <1>1, <1>6
    DEF VerifyStart, VerifyEnd, SetupFails, Begin, TransferEnds, Interrupt, Expire,
        SwitchAccount, CreateLocal, vars
  <1>7. ASSUME NEW i \in Files, EnsureSession(i) \/ RefreshSession(i)
        PROVE  outcome'[j] # None
    BY <1>7, TurnValues, FileValues
    DEF EnsureSession, RefreshSession, Issue, service, Types
  <1>8. ASSUME NEW i \in Files,
               Issued(i) \/ Refused(i) \/ IssuanceUnknown(i) \/ Download(i)
        PROVE  outcome'[j] # None
    BY <1>8, TurnValues, FileValues
    DEF Issued, Refused, IssuanceUnknown, Answered, Download, Types
  <1> QED
    BY <1>2, <1>3, <1>4, <1>5, <1>6, <1>7, <1>8, StepCases

\* Every step of the run, and Ctrl-C, brings it to a later stage or, within its
\* stage, some entry or file further and none back; what the user, the account
\* and the clock do brings nothing back either.  Stages, entries and places are
\* finitely many, so a run takes finitely many steps however its jobs interleave.
THEOREM RunAdvances == Spec => [][Advances]_vars
  <1>1. ASSUME IInv, Works PROVE Further
    <2>1. CASE Interrupt \/ Finalize
      BY <2>1, StageValues DEF Interrupt, Finalize, Waiting, Further
    <2> QED
      BY <1>1, <2>1, CheckFurther, DriverFurther, JobFurther DEF Works
  <1>2. ASSUME Next PROVE Works \/ UNCHANGED Standing
    <2>1. CASE Expire \/ SwitchAccount \/ \E i \in Files : CreateLocal(i)
      BY <2>1 DEF Expire, SwitchAccount, CreateLocal, Standing, unchangedByJobs,
                  progress, session
    <2> QED
      BY <1>2, <2>1 DEF Next, Works
  <1>3. IInv /\ [Next]_vars => [Advances]_vars
    BY <1>1, <1>2 DEF Advances
  <1> QED
    BY <1>3, Invariant, PTL DEF Spec

\* While the driver awaits its jobs, one of them can move or has a result, or none
\* is left: no job waits behind a renewal that nobody completes, and no result
\* is lost.  With RunAdvances this leaves to Ends only that steps are taken.
THEOREM NobodyStuck == Spec => []AwaitsSomething
  <1>1. Init => DoneHasOutcome
    BY DEF Init, DoneHasOutcome
  <1>2. IInv /\ DoneHasOutcome /\ [Next]_vars => DoneHasOutcome'
    BY DoneStays
  <1>3. IInv /\ DoneHasOutcome => AwaitsSomething
    <2> SUFFICES ASSUME IInv, DoneHasOutcome, NEW i \in Incomplete
                 PROVE  \E j \in Files :
                           \/ outcome[j] # None \/ lock = j
                           \/ state[j] = "scheduled" /\ lock = None
                           \/ state[j] \in {"issuing", "downloading"}
      BY DEF AwaitsSomething
    <2>1. i \in Files /\ state[i] \in Running
      BY DEF Incomplete
    <2>2. lock \in Files \cup {None}
      BY TurnValues DEF Types
    <2> QED
      BY <2>1, <2>2 DEF DoneHasOutcome, Running
  <1> QED
    BY <1>1, <1>2, <1>3, Invariant, PTL DEF Spec
=============================================================================
