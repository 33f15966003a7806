----------------------------- MODULE ShareDownload -----------------------------
(***************************************************************************)
(* The driver of `ve-adrive share download` from the moment its manifest   *)
(* is known: verification of a resumed checkpoint, the bounded job loop    *)
(* (transfer_files, run_job), the renewal of the receiver session shared   *)
(* by the jobs, the publication and tracking of outcomes (accept,          *)
(* finish_file, fail_file), cancellation, and the report and aggregate     *)
(* that are produced however the run ends.                                 *)
(*                                                                         *)
(* Abstractions.                                                           *)
(*   - One task polls the driver and its jobs: a job moves only while the  *)
(*     driver awaits pending.next() (Waiting); everything between two      *)
(*     awaits is one step, except that the user may create a local file    *)
(*     between the overwrite check and the publication.                    *)
(*   - Content transfer is one step with a verified staged file or an      *)
(*     error; the journal is the set saved with the poisoning of its       *)
(*     writer (ShareCheckpoint has the details).                           *)
(*   - The report is not restricted to failures.  A failed CSV write or    *)
(*     rollover loses the current volume and fails every later row.        *)
(***************************************************************************)
EXTENDS Naturals, Sequences, FiniteSets

CONSTANTS
    N,           \* entries of the manifest, scheduled in order
    Concurrency, \* largest --batch-concurrency
    Policies,    \* overwrite strategies a command may choose
    Users,       \* accounts the selected profile may be logged in as
    Recipient,   \* the account the share was first received with
    None

ASSUME ConstantsAssumption ==
    /\ N \in Nat \ {0} /\ Concurrency \in Nat \ {0}
    /\ Policies \subseteq {"force", "no-clobber", "newer"}
    /\ Recipient \in Users
    /\ None \notin Users \cup Nat \cup {"ok", "error", "unknown"}

Files == 1 .. N

VARIABLES
    resume, checkpointed, policy, slots, directoryFailed,  \* fixed by the command
    phase,      \* "check", "transfer", "final", "ended"
    active,     \* the entry validate_resume is verifying
    next,       \* next entry to schedule
    state,      \* state[i]: Progress.states
    outcome,    \* outcome[i]: result of a job that ended and is not accepted
    finishing,  \* the file between its overwrite check and its publication
    completed,  \* entries with a digest in the journal
    verified, skippedFiles, skipped, failures, tracking,  \* Progress
    issuing,    \* Progress.is_issuing
    stopped,    \* is_stopped
    error,      \* the error of the run so far
    blame,      \* file whose status code and request ID the aggregate shows
    durable,    \* Progress.is_checkpoint_durable
    saved,      \* completions the checkpoint would recover
    poisoned,   \* its ledger refuses further records
    report,     \* "closed", "open", "broken", "published"
    rows,       \* rows[i]: report rows of file i
    local,      \* local[i]: what is at the destination of file i
    lock,       \* job that holds the receiver mutex across a renewal
    expired,    \* the share session has expired
    sessionUser,\* ReceiverContext.user_id of the session
    account,    \* the account behind the profile now
    answer,     \* what the service answered to the URL issuance of file i
    issues,     \* issuances requested for file i in this run
    issuers     \* accounts issuances were requested with

options == <<resume, checkpointed, policy, slots, directoryFailed>>
progress == <<active, completed, verified, skippedFiles, skipped, failures>>
result == <<tracking, stopped, error, blame>>
journal == <<durable, saved, poisoned>>
artifacts == <<report, rows>>
session == <<lock, expired, sessionUser>>
service == <<answer, issues, issuers>>
vars == <<options, phase, next, state, outcome, finishing, progress, issuing,
          result, journal, artifacts, local, session, account, service>>

Running == {"scheduled", "issuing", "downloading", "done"}
Incomplete == {i \in Files : state[i] \in Running}

\* Mutant: the range of states ends one too early.
CutShortTo3 == {i \in Files : state[i] \in Running \ {"done"}}

\* The jobs finalize finds unfinished.
CutShort == {i \in Files : state[i] \in Running}

NoError == [kind |-> "none", file |-> None]
Errors == {NoError} \cup [kind : {"file"}, file : Files]
          \cup [kind : {"tracking", "directory", "interrupted", "setup",
                        "artifacts"}, file : {None}]
Fatal(kind) == [kind |-> kind, file |-> None]
RowKinds == {"succeeded", "failed", "skipped"}

TypeOK ==
    /\ {resume, checkpointed, directoryFailed, tracking, stopped, issuing,
        durable, poisoned, expired} \subseteq BOOLEAN
    /\ policy \in Policies /\ slots \in 1 .. Concurrency
    /\ phase \in {"check", "transfer", "final", "ended"}
    /\ {active, finishing, lock, blame} \subseteq Files \cup {None}
    /\ next \in 1 .. N + 1
    /\ state \in [Files -> Running \cup {"unscheduled", "failed", "completed",
                                         "skipped"}]
    /\ outcome \in [Files -> {None, "ok", "error", "unknown"}]
    /\ completed \cup verified \cup skippedFiles \cup failures \cup saved
           \subseteq Files
    /\ skipped \in 0 .. N
    /\ error \in Errors
    /\ report \in {"closed", "open", "broken", "published"}
    /\ rows \in [Files -> Seq(RowKinds)]
    /\ local \in [Files -> {"absent", "older", "newer", "ours"}]
    /\ {sessionUser, account} \cup issuers \subseteq Users
    /\ answer \in [Files -> {"none", "sent", "url", "unusable", "refused"}]
    /\ issues \in [Files -> Nat]

Init ==
    /\ resume \in BOOLEAN
    /\ checkpointed \in BOOLEAN
    /\ resume => checkpointed
    /\ policy \in Policies /\ slots \in 1 .. Concurrency
    /\ directoryFailed \in BOOLEAN
    /\ completed \in IF resume THEN SUBSET Files ELSE {{}}
    /\ verified = IF resume THEN {} ELSE Files
    /\ phase = "check" /\ active = None /\ next = 1 /\ finishing = None
    /\ state = [i \in Files |-> "unscheduled"]
    /\ outcome = [i \in Files |-> None]
    /\ skippedFiles = {} /\ skipped = 0 /\ failures = {} /\ tracking = FALSE
    /\ issuing = FALSE /\ stopped = FALSE /\ error = NoError /\ blame = None
    /\ durable = FALSE /\ saved = completed /\ poisoned = FALSE
    /\ report = "closed" /\ rows = [i \in Files |-> <<>>]
    /\ local = [i \in Files |-> IF i \in completed THEN "ours" ELSE "absent"]
    /\ lock = None /\ expired = FALSE
    /\ sessionUser = Recipient /\ account = Recipient
    /\ answer = [i \in Files |-> "none"] /\ issues = [i \in Files |-> 0]
    /\ issuers = {}

-----------------------------------------------------------------------------
(* Tracking of outcomes. *)

\* A row of the report: written, or the current volume is lost.
Wrote(i, kind) ==
    /\ report = "open"
    /\ rows' = [rows EXCEPT ![i] = Append(@, kind)]
    /\ UNCHANGED report
NotWritten == report' = "broken" /\ UNCHANGED rows

\* Mutant: a file failure stops the batch.
FileFailureStops(i, unknown) ==
    /\ error' = IF error = NoError THEN [kind |-> "file", file |-> i] ELSE error
    /\ stopped' = TRUE
    /\ UNCHANGED tracking

\* track_error, File
TrackFile(i, unknown) ==
    /\ error' = IF error = NoError THEN [kind |-> "file", file |-> i] ELSE error
    /\ stopped' = (stopped \/ unknown)
    /\ UNCHANGED tracking

\* Mutant: the run stops without an error.
TrackQuietly ==
    /\ UNCHANGED error
    /\ stopped' = TRUE /\ tracking' = TRUE /\ blame' = None

\* track_error, Tracking
TrackTracking ==
    /\ error' = Fatal("tracking")
    /\ stopped' = TRUE /\ tracking' = TRUE /\ blame' = None

Settled(i, s) ==
    /\ state' = [state EXCEPT ![i] = s]
    /\ outcome' = [outcome EXCEPT ![i] = None]

\* fail_file: the first failure of the run lends its identity to the aggregate.
FailFile(i, unknown) ==
    /\ failures' = failures \cup {i}
    /\ Settled(i, "failed")
    /\ \/ /\ Wrote(i, "failed")
          /\ blame' = IF failures = {} /\ ~tracking THEN i ELSE blame
          /\ TrackFile(i, unknown)
       \/ NotWritten /\ TrackTracking
    /\ UNCHANGED <<skipped, skippedFiles>>

MarkSkipped(i) ==
    /\ skipped' = skipped + 1
    /\ skippedFiles' = skippedFiles \cup {i}
    /\ Settled(i, "skipped")
    /\ \/ Wrote(i, "skipped") /\ UNCHANGED result
       \/ NotWritten /\ TrackTracking
    /\ UNCHANGED failures

\* should_skip and skip_existing on the file that is there now.
ShouldSkip(i) ==
    \/ policy = "no-clobber" /\ local[i] # "absent"
    \/ policy = "newer" /\ local[i] \in {"newer", "ours"}

-----------------------------------------------------------------------------
(* Before the transfer. *)

\* validate_resume takes the entries in order.
VerifyStart ==
    /\ phase = "check" /\ active = None
    /\ \E i \in Files \ verified :
          /\ \A j \in Files \ verified : i <= j
          /\ active' = i
    /\ UNCHANGED <<options, phase, next, state, outcome, finishing, completed,
                   verified, skippedFiles, skipped, failures, issuing, result,
                   journal, artifacts, local, session, account, service>>

VerifyEnd ==
    /\ phase = "check" /\ active # None
    /\ verified' = verified \cup {active}
    /\ skipped' = IF active \in completed THEN skipped + 1 ELSE skipped
    /\ active' = None
    /\ UNCHANGED <<options, phase, next, state, outcome, finishing, completed,
                   skippedFiles, failures, issuing, result, journal, artifacts,
                   local, session, account, service>>

\* Preflight, a verification, the checkpoint or the report can refuse the run.
SetupFails ==
    /\ phase = "check"
    /\ phase' = "final"
    /\ error' = Fatal("setup")
    /\ IF verified = Files
       THEN /\ durable' \in {FALSE, checkpointed}
            /\ skipped' \in {skipped, Cardinality(completed)}
            /\ report' \in IF durable' = checkpointed THEN {"closed", "open"}
                                                      ELSE {"closed"}
       ELSE UNCHANGED <<durable, skipped, report>>
    /\ UNCHANGED <<options, next, state, outcome, finishing, active, completed,
                   verified, skippedFiles, failures, issuing, tracking, stopped,
                   blame, saved, poisoned, rows, local, session, account,
                   service>>

\* save_progress, begin_transfer_display and Driver::open.
Begin ==
    /\ phase = "check" /\ verified = Files
    /\ durable' = checkpointed
    /\ skipped' = Cardinality(completed)
    /\ report' = "open"
    /\ phase' = "transfer"
    /\ UNCHANGED <<options, next, state, outcome, finishing, active, completed,
                   verified, skippedFiles, failures, issuing, result, saved,
                   poisoned, rows, local, session, account, service>>

-----------------------------------------------------------------------------
(* The driver. *)

CanSchedule ==
    next <= N /\ Cardinality(Incomplete) < slots /\ ~stopped

\* The driver awaits pending.next().
Waiting == phase = "transfer" /\ finishing = None /\ ~CanSchedule

\* The scheduling loop, with prepare_skip.
Schedule ==
    /\ phase = "transfer" /\ finishing = None /\ CanSchedule
    /\ next' = next + 1
    /\ IF next \in completed
       THEN /\ \/ Wrote(next, "skipped") /\ UNCHANGED result
               \/ NotWritten /\ TrackTracking
            /\ UNCHANGED <<state, outcome, skipped, skippedFiles, failures>>
       ELSE \/ FailFile(next, FALSE)
            \/ ShouldSkip(next) /\ MarkSkipped(next)
            \/ /\ ~ShouldSkip(next)
               /\ state' = [state EXCEPT ![next] = "scheduled"]
               /\ UNCHANGED <<outcome, skipped, skippedFiles, failures, result,
                              artifacts>>
    /\ UNCHANGED <<options, phase, finishing, active, completed, verified,
                   issuing, journal, local, session, account, service>>

\* accept, up to the overwrite check of finish_file.
Accept(i) ==
    /\ Waiting /\ outcome[i] # None
    /\ issuing' = (issuing \/ outcome[i] = "unknown")
    /\ IF outcome[i] = "ok"
       THEN \/ MarkSkipped(i) /\ ShouldSkip(i) /\ UNCHANGED finishing
            \/ FailFile(i, FALSE) /\ UNCHANGED finishing
            \/ /\ ~ShouldSkip(i)
               /\ finishing' = i
               /\ UNCHANGED <<state, outcome, skipped, skippedFiles, failures,
                              result, artifacts>>
       ELSE FailFile(i, outcome[i] = "unknown") /\ UNCHANGED finishing
    /\ UNCHANGED <<options, phase, next, active, completed, verified, journal,
                   local, session, account, service>>

\* Mutant: every publication overwrites.
AlwaysPublish(i) == TRUE

\* Publication replaces the destination unless the policy is no-clobber.
MayPublish(i) == policy = "no-clobber" => local[i] = "absent"

PublishFails ==
    /\ finishing # None
    /\ FailFile(finishing, FALSE)
    /\ finishing' = None
    /\ \/ UNCHANGED local
       \/ MayPublish(finishing) /\ local' = [local EXCEPT ![finishing] = "ours"]
    /\ UNCHANGED <<options, phase, next, active, completed, verified, issuing,
                   journal, session, account, service>>

\* Mutant: a failed append does not poison the writer.
SaveForgives(i) ==
    \/ checkpointed /\ durable' = TRUE
       /\ saved' = saved \cup {i} /\ UNCHANGED poisoned
    \/ checkpointed /\ durable' = FALSE /\ UNCHANGED <<saved, poisoned>>
    \/ ~checkpointed /\ UNCHANGED journal

\* save_completion_progress: durable is cleared first and set on success.
SaveCompletion(i) ==
    \/ checkpointed /\ ~poisoned /\ durable' = TRUE
       /\ saved' = saved \cup {i} /\ UNCHANGED poisoned
    \/ checkpointed /\ durable' = FALSE /\ poisoned' = TRUE /\ UNCHANGED saved
    \/ ~checkpointed /\ UNCHANGED journal

Publish ==
    LET i == finishing IN
    /\ i # None /\ MayPublish(i)
    /\ local' = [local EXCEPT ![i] = "ours"]
    /\ completed' = completed \cup {i}
    /\ verified' = verified \cup {i}
    /\ Settled(i, "completed")
    /\ finishing' = None
    /\ SaveCompletion(i)
    /\ \/ /\ Wrote(i, "succeeded")
          /\ IF durable' = checkpointed THEN UNCHANGED result ELSE TrackTracking
       \/ NotWritten /\ TrackTracking
    /\ UNCHANGED <<options, phase, next, active, skipped, skippedFiles, failures,
                   issuing, session, account, service>>

\* Nothing left to schedule or to wait for.
TransferEnds ==
    /\ Waiting /\ Incomplete = {}
    /\ phase' = "final"
    /\ error' = IF error = NoError /\ directoryFailed THEN Fatal("directory")
                                                      ELSE error
    /\ UNCHANGED <<options, next, state, outcome, finishing, progress, issuing,
                   tracking, stopped, blame, journal, artifacts, local, session,
                   account, service>>

\* Ctrl-C drops the run at an await; running jobs are dropped with it.
Interrupt ==
    /\ phase = "check" \/ Waiting
    /\ phase' = "final"
    /\ error' = Fatal("interrupted")
    /\ lock' = None
    /\ UNCHANGED <<options, next, state, outcome, finishing, progress, issuing,
                   tracking, stopped, blame, journal, artifacts, local, expired,
                   sessionUser, account, service>>

\* finalize_execution and finalize: rows for the jobs that were cut short, in
\* order until a row cannot be written, then the publication of the report.
Finalize ==
    /\ phase = "final"
    /\ phase' = "ended"
    /\ issuing' = (issuing \/ \E i \in Files : state[i] = "issuing")
    /\ failures' = failures \cup CutShort
    /\ state' = [i \in Files |-> IF i \in CutShort THEN "failed" ELSE state[i]]
    /\ \E stop \in 1 .. N + 1 :
          LET written == {i \in CutShort : report = "open" /\ i < stop}
              all == written = CutShort IN
          /\ rows' = [i \in Files |-> IF i \in written THEN Append(rows[i], "failed")
                                                       ELSE rows[i]]
          /\ report' \in IF report # "open" THEN {report}
                         ELSE IF all THEN {"published", "broken"} ELSE {"broken"}
          /\ IF ~all \/ (report = "open" /\ report' = "broken")
             THEN error' = Fatal("artifacts") /\ blame' = None
             ELSE /\ blame' = IF error.kind = "interrupted" THEN None ELSE blame
                  /\ UNCHANGED error
    /\ UNCHANGED <<options, next, outcome, finishing, active, completed, verified,
                   skippedFiles, skipped, tracking, stopped, journal, local,
                   session, account, service>>

-----------------------------------------------------------------------------
(* run_job. *)

unchangedByJobs == <<options, phase, next, finishing, progress, issuing, result,
                     journal, artifacts, local, account>>

\* get_file_download_url is sent once; the state is stored before it is.
Issue(i) ==
    /\ state' = [state EXCEPT ![i] = "issuing"]
    /\ answer' = [answer EXCEPT ![i] = "sent"]
    /\ issues' = [issues EXCEPT ![i] = @ + 1]
    /\ issuers' = issuers \cup {sessionUser'}
    /\ UNCHANGED outcome

\* ensure_session under the receiver mutex.
EnsureSession(i) ==
    /\ Waiting /\ state[i] = "scheduled" /\ outcome[i] = None /\ lock = None
    /\ IF expired
       THEN lock' = i /\ UNCHANGED <<state, outcome, service, expired, sessionUser>>
       ELSE UNCHANGED session /\ Issue(i)
    /\ UNCHANGED unchangedByJobs

\* Mutant: the new token's subject is not compared.
AnySubject == TRUE

\* refresh_session refuses a token of another recipient.
SameSubject == account = sessionUser

\* Mutant: a failed renewal leaves the mutex locked.
RefreshKeepsLock(i) ==
    /\ Waiting /\ lock = i /\ outcome[i] = None /\ state[i] = "scheduled"
    /\ \/ /\ SameSubject
          /\ sessionUser' = account
          /\ expired' = FALSE
          /\ lock' = None
          /\ Issue(i)
       \/ /\ outcome' = [outcome EXCEPT ![i] = "error"]
          /\ UNCHANGED <<lock, expired, sessionUser, state, service>>
    /\ UNCHANGED unchangedByJobs

\* refresh_session: one exchange, never replayed.
RefreshSession(i) ==
    /\ Waiting /\ lock = i
    /\ lock' = None
    /\ \/ /\ SameSubject
          /\ sessionUser' = account
          /\ expired' = FALSE
          /\ Issue(i)
       \/ /\ outcome' = [outcome EXCEPT ![i] = "error"]
          /\ UNCHANGED <<expired, sessionUser, state, service>>
    /\ UNCHANGED unchangedByJobs

Answered(i, a) ==
    /\ Waiting /\ state[i] = "issuing" /\ outcome[i] = None
    /\ answer' = [answer EXCEPT ![i] = a]
    /\ UNCHANGED <<unchangedByJobs, session, issues, issuers>>

\* A usable URL.
Issued(i) ==
    /\ Answered(i, "url")
    /\ state' = [state EXCEPT ![i] = "downloading"]
    /\ UNCHANGED outcome

\* map_issuance: a 4xx other than 408 is a known refusal.
Refused(i) ==
    /\ Answered(i, "refused")
    /\ state' = [state EXCEPT ![i] = "done"]
    /\ outcome' = [outcome EXCEPT ![i] = "error"]

\* Mutant: an unknown issuance is sent again.
UnknownReplayed(i) ==
    /\ Waiting /\ state[i] = "issuing" /\ outcome[i] = None
    /\ issues' = [issues EXCEPT ![i] = @ + 1]
    /\ UNCHANGED <<unchangedByJobs, session, state, outcome, answer, issuers>>

\* No answer, a 408 or 5xx, an unreadable answer ("sent"), or an unusable URL.
IssuanceUnknown(i) ==
    /\ Answered(i, "sent") \/ Answered(i, "unusable")
    /\ outcome' = [outcome EXCEPT ![i] = "unknown"]
    /\ UNCHANGED state

Download(i) ==
    /\ Waiting /\ state[i] = "downloading"
    /\ state' = [state EXCEPT ![i] = "done"]
    /\ \E o \in {"ok", "error"} : outcome' = [outcome EXCEPT ![i] = o]
    /\ UNCHANGED <<unchangedByJobs, session, service>>

-----------------------------------------------------------------------------
(* The environment. *)

Expire ==
    /\ ~expired /\ phase = "transfer"
    /\ expired' = TRUE
    /\ UNCHANGED <<unchangedByJobs, state, outcome, lock, sessionUser, service>>

SwitchAccount ==
    /\ account' \in Users \ {account}
    /\ phase = "transfer"
    /\ UNCHANGED <<options, phase, next, state, outcome, finishing, progress,
                   issuing, result, journal, artifacts, local, session, service>>

CreateLocal(i) ==
    /\ phase = "transfer" /\ local[i] = "absent"
    /\ \E l \in {"older", "newer"} : local' = [local EXCEPT ![i] = l]
    /\ UNCHANGED <<options, phase, next, state, outcome, finishing, progress,
                   issuing, result, journal, artifacts, session, account, service>>

Check == VerifyStart \/ VerifyEnd \/ SetupFails \/ Begin
Driver == Schedule \/ (\E i \in Files : Accept(i)) \/ PublishFails \/ Publish
          \/ TransferEnds
Job(i) == EnsureSession(i) \/ RefreshSession(i) \/ Issued(i) \/ Refused(i)
          \/ IssuanceUnknown(i) \/ Download(i)

Next ==
    \/ Check \/ Driver \/ Interrupt \/ Finalize
    \/ \E i \in Files : Job(i) \/ CreateLocal(i)
    \/ Expire \/ SwitchAccount

\* The executor polls every ready future and every request has a timeout; the
\* user and the service owe nothing.
Fairness ==
    /\ WF_vars(Check) /\ WF_vars(Driver) /\ WF_vars(Finalize)
    /\ \A i \in Files : WF_vars(Job(i))

Spec == Init /\ [][Next]_vars /\ Fairness

-----------------------------------------------------------------------------
(* Properties. *)

Ended == phase = "ended"
Complete == Ended /\ error = NoError

\* file_payload
Status(i) ==
    IF i \in completed /\ (resume => i \in verified) THEN "completed"
    ELSE IF i \in skippedFiles THEN "skipped"
    ELSE IF i \in failures \cup {active} \cup Incomplete THEN "failed"
    ELSE "pending"

\* The aggregate flags an unknown issuance exactly when quota may have been used
\* without the program knowing: README "Explicit rejections ... set
\* IssuanceOutcomeUnknown=false".
IssuanceReported ==
    Ended => (issuing <=> \E i \in Files : answer[i] \in {"sent", "unusable"})

\* No file costs two issuances in a run, and one that was complete costs none.
IssuedOnce ==
    \A i \in Files : issues[i] <= IF resume /\ i \in completed
                                     /\ state[i] # "completed" THEN 0 ELSE 1

\* A published report and the aggregate tell the same story, one row per file.
ReportAgrees ==
    Ended /\ report = "published" =>
        \A i \in Files :
            /\ rows[i] \in {<<>>} \cup {<<kind>> : kind \in RowKinds}
            /\ rows[i] = <<"succeeded">> <=> state[i] = "completed"
            /\ rows[i] = <<"failed">> <=> Status(i) = "failed"
            /\ rows[i] = <<"skipped">> => Status(i) \in {"skipped", "completed"}
            /\ rows[i] = <<>> => Status(i) = "pending" \/ (resume /\ i \in completed)

\* Exit code 0 means every file is there or was skipped by policy, the report was
\* published, the checkpoint has every completion and no issuance is unknown.
CompleteMeansAll ==
    Complete =>
        /\ \A i \in Files : Status(i) \in {"completed", "skipped"}
        /\ report = "published"
        /\ checkpointed => completed \subseteq saved
        /\ ~issuing

\* README: ordinary file failures allow other files to continue.  Only an unknown
\* issuance, a tracking failure or an interruption leaves a file unattempted.
IndependentFiles ==
    Ended /\ error.kind \in {"none", "file", "directory"} /\ ~issuing =>
        \A i \in Files : Status(i) # "pending"

\* CheckpointAvailable is claimed only while the checkpoint holds every published
\* completion, although later jobs still publish after a failed save.
AvailableMeansSaved == durable => completed \subseteq saved

\* The status code and request ID of the aggregate belong to the error it shows.
BlameMatches ==
    Ended /\ blame # None => error = [kind |-> "file", file |-> blame]

\* README: Summary.Skipped counts verified resumed files and policy skips.
SkippedCounts ==
    Ended => skipped = Cardinality(skippedFiles)
                       + Cardinality({i \in completed \cap verified :
                                          state[i] # "completed"})

\* Report and aggregate are one account of the run: rows, error identity and
\* counters fit the outcomes, however the run ends.
AccountAgrees == ReportAgrees /\ BlameMatches /\ SkippedCounts

\* The recipient's quota is spent at most once per file, and what the program does
\* not know about it is admitted.
QuotaAccounted == IssuedOnce /\ IssuanceReported

\* Renewal by whichever job finds the session expired keeps the pinned recipient.
SameRecipient == issuers \subseteq {Recipient}

\* no-clobber never replaces a file, even one created after the last check.
NeverClobbers ==
    [][\A i \in Files : policy = "no-clobber" /\ local[i] # "absent"
           => local'[i] = local[i]]_vars

\* README: --overwrite-strategy newer overwrites only older destinations.  It does
\* not hold for a file created between the overwrite check and the rename.
OnlyOlderReplaced ==
    [][\A i \in Files : policy = "newer" /\ local[i] = "newer"
           => local'[i] = local[i]]_vars

\* Every run ends: no job waits for ever, not even behind a renewal.
Ends == <>Ended
=============================================================================
