# TLA+ verification of ve-storage-uni-cli

The repository builds three command-line clients from one Rust workspace:
`ve-adrive-cli` (ADrive, an enterprise drive), `ve-tos-cli` (TOS object storage)
and `tos-cli`. Most of the code turns one command into one request. What is hard
is what outlives a request: credentials that rotate, checkpoints that a later run
trusts, files that concurrent jobs publish, secrets that several processes save.
Those parts are modelled here as eight TLA+ modules translated from the Rust
source. Each is model-checked with TLC, and each has a module of theorems about
it that TLAPS checks for every value of the constants.

All paths below are relative to the repository; `adrive`, `tos` and `tos-core`
stand for `crates/<name>/src`.

## 1. Inventory

| Component | State | Operations | Hard behaviours | What makes it correct |
|---|---|---|---|---|
| OAuth credentials (`adrive/domain/token_manager.rs`) | credentials file (all Profiles), refresh lock per Profile | snapshot, refresh, save, clear after `invalid_grant` | rotation with one-time Refresh Tokens, several tasks and processes, lost responses, kills, lock timeout, whole-file saves | no Refresh Token is presented twice or forgotten; a token stays in its Profile and Instance |
| ADrive requests (`adrive/domain/client.rs`, `client/share.rs`) | attempt counters, rejected token | authenticate, send, retry, forced refresh, one replay | nesting of retries with the refresh | the replay carries another token; every command ends |
| `auth login/logout`, `config set` (`adrive/handler/auth.rs`, `meta.rs`) | none of their own | load and replace the file | no lock | do not disturb other Profiles |
| Device authorization (`adrive/handler/auth.rs`, `domain/oauth.rs`) | polling schedule | poll, slow_down, wait | deadline and Ctrl-C race an answer | interval never shrinks, ends by the deadline |
| Share download driver (`adrive/handler/share_download.rs`, `share_download/jobs.rs`) | progress, jobs, report, aggregate | verify resume, schedule, accept, publish, track, finalize | jobs interleave; quota-consuming calls with unknown outcome; Ctrl-C anywhere | no second issuance; report, aggregate, exit code and checkpoint agree |
| Recovery journal (`share_checkpoint.rs`, `share_completion_ledger.rs`) | snapshot, ledger, sidecar lock | open, load/upgrade, save, append, read-only plan | kill or power loss between any two file operations, torn appends, lock-free reader | an acknowledged completion is never lost, none is invented |
| Range checkpoint (`share_content_ranges.rs`, `share_range_checkpoint.rs`, `download_ranges.rs`) | part and receipt files, staged file | restore, request, stage, publish, assemble, verify, discard, clear | remote changes, sibling cancellation, parts that change after verification | only the manifest's version is published; work is kept; nothing blocks a resume |
| Receiver session (`share_receive.rs`) | session, mutex | ensure, renew | renewal by any job, account switched meanwhile | same recipient throughout |
| Secret store (`tos-core/infra/crypto.rs`, `atomic_file.rs`, `config.rs`, `credentials.rs`) | master key, encrypted files | load, create key, encrypt, replace file | overlapping commands, kills, power loss, Windows replacement | what is stored is readable |
| TOS upload and remote copy (`tos/handler/high_level.rs`, `tos-core/transfer/checkpoint.rs`) | checkpoint file, lock file, multipart upload at the service | probe, claim, create, list, send, record, complete | kills, lost replies, changing sources, overlapping runs, late requests | one version is published, one run per checkpoint, a resume skips nothing missing |
| Range downloads of one file (`tos/handler/high_level.rs`, `adrive/handler/high_level.rs`) | part files, temporary file, destination | fetch, retry, assemble, verify, replace | parts reused by length, no lock between runs, kill in mid-replacement | one version is saved, a torn file is repaired |
| ADrive cp, sync, mv of trees (`adrive/handler/high_level.rs`) | batch checkpoint, report, delete plan | list, transfer, record, remove sources, remove extras | concurrent results, failure between copy and removal, trees that change, repeated runs | nothing is removed that was not copied; success and checkpoint are real |
| TOS mv, sync, rm (`tos/handler/high_level.rs`) | delete plan, report | copy then delete | as for ADrive | as for ADrive |
| Storage client retries (`tos-core/infra/client.rs`, `retry.rs`) | attempt counter | retry, back off, replay | repeat of what took effect | idempotent calls only |
| ZTI credentials, discovery (`tos-core/infra/zti_*.rs`, `discovery.rs`) | token and address caches | get, refresh, background loop | stale reads, refresh races | an expired token is not handed out |
| Rate limiters (`adrive/domain/rate_limiter.rs`, `tos-core/transfer/ratelimit.rs`) | token buckets | acquire | concurrent refill | need real time; `AtomicTokenBucket` has no caller outside tests |
| Low-level commands, MCP server, registries, CLI, packaging | none | one request per call | none | pure I/O, tables and formatting |

How they interact. Every ADrive request, the share download's included,
authenticates through the token manager, which shares one credentials file with
the auth commands and, through the secret store, one master key. The share
download driver starts jobs; a job renews the receiver session, obtains a URL,
fetches ranges through the range checkpoint into a staged file and returns it;
the driver alone publishes it, records it in the journal, then clears its
ranges. The other transfers of ADrive and TOS share only their service clients;
overlapping runs of one command meet in the file system: at a checkpoint and its
lock, at part files, at the destination.

`PROJECT.json` lists every component with its status and the hazards, each at the
line where it bites.

## 2. Modules

| Module | What it is | Its theorems are in |
|---|---|---|
| `TokenManager` | credential lifecycle: `access_token`, forced refresh, the three auth commands, the server's rotation | `TokenManagerProofs` |
| `DurableCompletions` | what a download checkpoint promises (abstract) | |
| `ShareCheckpoint` | the recovery journal; implements `DurableCompletions` | `ShareCheckpointProofs` |
| `ShareDownload` | the driver of a share download, its jobs and the shared session | `ShareDownloadProofs` |
| `RangeCheckpoint` | one large shared file fetched as ranges with receipts | `RangeCheckpointProofs` |
| `SecretStore` | master key and atomic replacement | `SecretStoreProofs` |
| `TosUpload` | resumable multipart upload and remote copy | `TosUploadProofs` |
| `PartDownload` | `cp --checkpoint` of one large object, by ve-tos and by ve-adrive | `PartDownloadProofs` |
| `ADriveTransfer` | recursive cp, sync and mv of ve-adrive | `ADriveTransferProofs` |
| `MC*` | model values, commands and symmetry for TLC | |

Every module opens with its abstractions; constants, variables and bounds are
commented where they are declared. Definitions that start with the comment
"Mutant:" are plausible mistakes in the definition that follows; they are not
used by the specification and serve to confirm that each property can fail.

Correspondence of state and actions:

* **TokenManager.** `file` is `credentials.toml`, one grant number per Profile;
  a save writes back the whole record a task loaded (`buf`), as `save_to_path`
  does. `lock[f]` is the process mutex and the flock of a Profile together.
  `Reload`/`Ask*`/`SaveLoad`/`Save`/`ClearLoad`/`Clear` are the file accesses and
  the request of `refresh_file` in order, so other writers fit between any two.
  `AskLost` is a rotation whose response is lost, `Crash` a kill anywhere,
  `AcquireTimeout` the 10 s limit. `Unauthorized` is the reaction to a 401,
  `SendRetry` the transient retries. Kinds distinguish the call sites: a plain
  request validates the Instance in a load of its own, a share request in the
  snapshot it authenticates with, the owner-default Space creation replays
  without the 60 s window, a plan never refreshes.
* **ShareCheckpoint.** One action per durable operation of `State::save`,
  `LedgerWriter::create/append` and `finish_file`; `Settle` is the fsync of the
  directory. `fallback` is the snapshot a power loss may bring back.
  `ReadSnapshot`/`ReadLedger` are the dry run's two unlocked reads.
* **ShareDownload.** One task polls the driver and its jobs, so everything
  between two awaits is one step and jobs move only while the driver waits
  (`Waiting`). `Publish` is publication, journal append and report row;
  `Finalize` is `finalize_execution`. The journal is abstracted to what was saved
  and whether its writer is poisoned; `ShareCheckpoint` has the details.
* **RangeCheckpoint.** A part and a receipt per range with separate publication
  and removal; `Assemble` copies and hashes the parts again; `VerifyFile` is the
  whole-file CRC64 and `Invalid` the discarding after it fails.
* **SecretStore.** `FindKey`/`ReadKey`/`CreateKey`/`FillKey` are
  `load_or_init_key`; `Replace`, and on Windows `MoveAside` and `Swap`, are
  `replace_file`.
* **TosUpload.** `PathOf(identity)` names checkpoint and lock file; `Claim` is
  `CheckpointLock::acquire` and the load; `Create` is the request, `SaveCreated`
  the first `save_checkpoint`, with the error exits between them; `Abandon` is what
  `?` drops; `Killed` drops nothing, and `LockUnwritten` is the `acquire` that
  fails after `create_new`. `late` holds requests of ended runs the service may
  still receive, `former` what an unsynced checkpoint file may turn back into at a
  power loss. `command` fixes upload or copy and the overwrite strategy.
* **PartDownload.** `Launch` is the HEAD request that pins a run to an ETag,
  `Reusable` the length check that takes parts over; `Create`, `Receive` and
  `Retry` are a range's request, `BeginAssembly` and `CopyPart` the assembly, in
  a temporary file (ve-tos: `VerifyTemp`, `Displace`, `Rename`) or in the
  destination (ve-adrive: `VerifyDest`), `CleanPart` the removal of the parts.
  A file is the sequence of its blocks; an open handle writes at its own offset
  whatever another run has done to the file (`Hole`), follows it through a rename
  and outlives its removal (`astray`, `output`), as POSIX has it. A power loss may
  blank or remove any part and the destination, none of which is synced
  (`Remnants`); what it leaves of a temporary file is never read.
* **ADriveTransfer.** `item` is the progress of a file: listed, in one of the
  phases of its transfer, or ended. `Record*` are the loops that take results
  (`record_adrive_batch_result`, `ADriveStreamCpContext`), each with the save of
  the checkpoint that follows; `NextStage` is the gate between copying and
  removing; `DeleteSource`, `Cleanup` and `DeleteExtra` are the removals of mv
  and sync. A planned run lists before it transfers, a streaming one meanwhile.

## 3. Runs

| Run | Instance | Distinct states (about) | Shows |
|---|---|---|---|
| `token_isolated` | 2 tasks, 1 Profile, 2 Instances, 3 grants, 1 refresh retry | 3.5 M | `GuardExact`, `GrantNotLost`, `ReplayTakesAnotherToken`, `ShareTokenMatchesInstance` |
| `token_races` | 2 tasks, 2 Profiles, 2 grants, 1 send retry, fair | 337 k | `TokensStayInProfile`, `OwnerReplayKeepsToken`, `CommandEnds` |
| `token_lost_update` | as `token_isolated` with 2 Profiles, no retries | violation | a save for another Profile brings a consumed Refresh Token back |
| `checkpoint_crash` | 2 files, 2 digests, 2 processes, 3 commands | 63 k | `NoFalseCredit`, `ResumeLoads`, `ReaderConsistent`, refinement `KeepsCompletions` |
| `share_download` | 2 files, 1 or 2 slots, 3 policies, 2 accounts, fair | 1.9 M | `QuotaAccounted`, `CompleteMeansAll`, `AvailableMeansSaved`, `SameRecipient`, `AccountAgrees`, `IndependentFiles`, `NeverClobbers`, `Ends` |
| `range_download` | 2 ranges, 2 futures, 2 faults, fair | 533 k | `PublishedIsManifest`, `LeftoversWarned`, `WorkKept`, `Recovers` |
| `secret_store` | 3 commands, 2 crashes, 2 power losses, both platforms | 75 k | `Readable`, `SavedStays` |
| `tos_upload` | 2 runs, 2 parts, 2 versions, 3 uploads, 2 faults, 2 commands, fair | 1.8 M | `ObjectWhole`, `Exclusive`, `CheckpointHonest`, `LeaksFromFaults`, `Finishes` |
| `upload_killed` | 1 run, 1 kill, fair | violation | a killed run's lock file refuses every later run |
| `part_download` | 2 runs, 2 parts of 2 blocks, 2 versions, 1 overlap, 1 fault, both services, fair | 1.4 M | `NeverMixed`, `SuccessIsWhole`, `NeverTorn`, `Repairs` |
| `adrive_transfer` | 9 commands, 3 files of which 2 pass the filters, 2 transfers at a time, 1 edit, 1 fault, fair | 798 k | `SuccessIsReal`, `CheckpointIsReal`, `MovedIsKept`, `CopiedBeforeRemoved`, `ExtrasOnly`, `Converges` |
| `sync_repeated` | 2 sync commands, 2 files, no faults | violation | a second sync skips a file that changed after the first |

Why these bounds are enough to be interesting:

* Two tasks are the least that can race for a Refresh Token; three grants allow a
  login between two rotations. A second Profile shows cross-Profile overwrites.
* Two processes and three commands give a journal that is created, cut short
  anywhere, resumed and cut short again while a reader looks on.
* With one slot and two files a failure meets a file that is not yet scheduled,
  with two slots two jobs are in flight when a failure, a Ctrl-C or a session
  renewal happens.
* Two ranges and two futures let one range fail while its sibling is stored, half
  stored or not begun; two faults let a resume fail again.
* Two upload runs, two versions and two faults give overlap, a source that changes
  in mid-transfer, and a second failure while the first is being repaired. The two
  commands are an upload under `newer`, which may do all that `force` does, and a
  remote copy under `no-clobber`.
* Two range downloads of two parts are the least that meet at a part, at the
  assembly and at the destination; two blocks let one of them be half written. One
  range at a time suffices within a run, because the ranges of one run write to
  different files; the overlapping run provides the interleaving.
* Three files of which two pass the filters let one copy fail after another has
  succeeded while a third must be left alone; one edit and one fault can fall
  between any two steps, and the command is repeated without a bound.
* Symmetry is used for interchangeable tasks, processes, digests and commands, and
  in no run with a liveness property.

`CHECK_DEADLOCK FALSE` is set where the modelled program stops: commands that have
all ended, and bounds on crashes and runs that are used up. The runs of
`TokenManager` check for deadlock.

**Fairness.** `WF(Step(t))` in `TokenManager`: every HTTP call and the lock wait
have deadlines, so a command that has begun always takes another step.
`ShareDownload`: weak fairness of the driver and of each job, because the executor
polls what is ready and requests have timeouts; nothing is assumed of the user,
of the service's answers or of expiry. `RangeCheckpoint`: the user resumes an
unfinished download and the run proceeds. `TosUpload`: the user repeats the
command until it succeeds. `PartDownload` and `ADriveTransfer`: the same, with weak
fairness of the repetition and of a run's steps (requests have timeouts); faults,
edits and overlapping runs are bounded and need not happen. No strong fairness is
used.

## 4. Proofs

The theorems hold for every value of the constants that satisfies the modules'
named assumptions (positive bounds, non-empty sets, distinct markers). Every
invariant and every action property of a passing run is stated by one of them; what
the runs alone show is the liveness. In every module the argument is the same: an
invariant stronger than the property, its proof for the initial states and for each
action, and the property as a consequence. What differs is why the property alone is
not inductive.

`TokenManagerProofs`

* `TypeCorrect == Spec => []TypeOK`, by one case per action.
* `GuardIsExact == Spec => []GuardExact`. Inductive as it stands, given types:
  `GuardKept` (steps that stay on one side of the refresh section) and
  `GuardDropped` (steps that release the lock) cover all actions.
* `NoGrantLost == Isolated => (Spec => []GrantNotLost)`. `Isolated` says that one
  Profile is in use and no command replaces the file without changing its OAuth
  group; `token_lost_update` shows that it is needed. `GrantNotLost` does not know
  that a grant not yet saved is known to nobody else, that the token being asked
  with was live when it was read, or that only issued grants are stored:
  `IsolatedInv` adds `NewGrantPrivate`, `AskedGrantKnown`, `OnlyIssuedGrants` and
  `NoConfigWriter`.
* `TokensStayHome` and `ShareTokensMatch` need no such restriction. `Provenance` says
  of every grant in the file, in a loaded copy, in a request or obtained and unsaved
  which Profile it was issued to: a stale save may bring back an old grant of another
  Profile, but never into another record. For a share request it carries the Instance
  as well.
* `ReplayIsFresh == Isolated => (Spec => []ReplayTakesAnotherToken)`. The replay has a
  load of its own, after the forced refresh returned, so what has to be shown is that
  the rejected grant does not come back to the file in between (`Superseded`: it is
  not the current one and nobody is about to save it). A stale whole-file save by a
  command of another Profile, or by config set, could do that; hence `Isolated`.
* `OwnerReplayKeeps == Spec => OwnerReplayKeepsToken`: only a reload by the task
  itself leads it to the request for a rotation.
* `CommandsAdvance`: phase, transient retries, place and refresh retries, in this
  lexicographic order, only go up while a command runs, whoever takes the step. Types
  bound each, so this is why `CommandEnds` holds; that the steps are taken is
  fairness.

`RangeCheckpointProofs`

* `TypeCorrect`: a received range holds received bytes (`Staged`) is needed with
  the types.
* `PublishesManifest == Spec => []PublishedIsManifest`. With a CRC64 the last check
  suffices; with only an ETag nothing looks at the whole file, and `Sound` must say
  that no foreign byte gets in: stored parts are intact, spoiled or absent but
  never another version's, receipts name only the manifest's version, and a copied
  part agrees with its receipt (`EtagOnly`).
* `KeepsWork == Spec => WorkKept`: `Fresh` says that the names of a range about to
  be published are free, so publication never replaces good work.
* `WarnsOfLeftovers == Spec => []LeftoversWarned`: the names before the clearing's
  cursor are gone, and without a checkpoint directory there never were any (`Swept`).

`ShareCheckpointProofs` (all under `OrderedMetadata`, for a finite manifest)

* `ResumesAlways`, `ReadersAgree`, `SnapshotFirst` and `NeverCreditsUnpublished`
  follow from `Journal`: what is on disk, what a power loss would bring back and
  what each process has read are well formed and load (`Wellformed`, `ViewsLoad`),
  a run holds in memory what it would load (`RunOK`), nothing is recorded that was
  not published (`NothingAdded`, `Published`), and acknowledged records are synced
  under a snapshot that stays (`AckedSafe`).
* `Implements == OrderedMetadata => (Spec => KeepsCompletions)` is the refinement:
  with `done` the recoverable completions and `acked` the acknowledged ones, an
  initial state maps to an initial state and every step to a step of
  `DurableCompletions` or to none.
* `OrderedMetadata` (a file system commits renames no later than the appends that
  follow them) is needed: without it a power loss can bring back an unmarked
  snapshot under records appended since.

`ShareDownloadProofs`

* One invariant, `IInv`, carries all theorems. It ties each file's state to the
  lists, the issued URLs and its turn (`FileOK`, `IssuanceOK`), says which row a
  file has and which kind of count it adds to (`RowsOK`, `Counts`), what is saved
  (`JournalOK`), who holds the session (`SessionOK`), which error the aggregate
  shows (`ErrorOK`), what each stage has reached (`PhaseOK`) and which file each
  actor is busy with (`TurnsOK`).
* `AccountsForQuota`, `CompleteIsAll`, `AccountsAgree`, `AttemptsAll`,
  `ClaimsOnlySaved`, `KeepsRecipient` follow state by state, `ClobbersNothing`
  step by step. `AccountsAgree` needs cardinalities: the skip counter is the
  number of files skipped by policy and of files resumed, and no file is both.
* `RunAdvances` and `NobodyStuck` are the safety half of `Ends`. Every step of the run
  leads to a later stage or, within a stage, brings an entry or a file further and
  none back (`Further`, `Rank`); and while the driver waits, some job can move or has
  a result, or none is left (`AwaitsSomething`): whoever holds the receiver mutex can
  finish the renewal, and a job that is done always has a result
  (`DoneHasOutcome`, the only addition to `IInv` that a theorem needs).

`SecretStoreProofs`

* `StaysReadable` speaks of settled keys only (`KeySettled`; see section 5), and
  has two reasons. With an established key nobody generates one,
  and every ciphertext anywhere is under it (`OneKey`). Without one, while commands
  take turns and power stays on, the one running command sees a key nobody changes
  and generates one only while there is no ciphertext (`TurnsTaken`).
* `StaysSaved` adds what a running command has loaded and will write (`Kept`).

`TosUploadProofs`

* `LocksExclude`: whoever works holds the lock of its checkpoint (`Locked`).
* Because nothing is synced, the invariants speak of all a checkpoint file may hold:
  what it has and what a power loss may bring back (`Contents`).
* `PublishesOneVersion`: what is saved, held in memory, in flight or already at the
  service under an upload is of the version in the upload's identity, unless a
  local file was replaced under a run (`VersionKept`, `Uploading`).
* `ResumesFromTruth == Spec => []CheckpointHonest`. Every saved checkpoint names an
  upload the service has created, and no two name the same (`OwnUpload`); a run that
  works on one remembers exactly what is saved (`Anchored`). For an undisturbed
  version, the upload then stores what is counted, and neither a late part nor a part
  in flight can change it (`Stocked`).
* `OnlyFaultsLeak == Spec => []LeaksFromFaults`: a step that is no fault leaves no
  further upload open and unnamed (`RunLeaks`); a lost answer to the creation, a
  failing first save and a stop before it add one each, and a power loss at most one
  for each run that had not saved yet and for each checkpoint file that forgets its
  id, by the same books and the cardinality of finite sets.
* The assumption `Sentinels` (the markers for an absent and a torn file are no
  checkpoints) is needed here.

`PartDownloadProofs`

* `VersionsDoNotMix == Spec => []NeverMixed`. Part files and temporary files keep to
  the version hashed into their names (`PartsPure`, `TempsPure`), by what each
  open handle may write (`Handles`). The destination is what needs care: a rename
  turns a handle on the temporary file into one on the destination (`DestPure`,
  `OneWriter`); ve-adrive's handles, which write the destination itself, are of
  one version while runs of two were never alive together (`Uncrossed`).
* `SuccessSavesWhole == Spec => []SuccessIsWhole` and `DestinationNotTorn ==
  Spec => NeverTorn` are about runs that are alone (`Solitary`). Nobody else writes
  their parts, so a handle stands at the end of its part, a finished range is
  complete and the assembly has copied a prefix of the version (`Private`). Parts
  left by runs that overlapped may be anything; then the CRC64 decides, and what
  passed it stays whole until the end (`Accepted`). `NeverTorn` is about the steps
  of runs, wherever a kill may follow; the power loss itself is excluded from it.

`ADriveTransferProofs`

* `NothingLost`, `CopiesFirst` and `OnlyExtrasGo` follow from an invariant that
  relates, by the progress of a file, its source, its listing, the bytes read and
  its destination (`FileOK`), and says of each stage what all files have reached
  (`StageOK`). A step changes one file or one stage; the others keep what was said
  of them.
* `SuccessBringsAll == Spec => []SuccessIsReal` and `SavedKeysArrived ==
  Spec => []CheckpointIsReal` follow from `Delivered`: what a forced run has read and
  brought is at least what it listed (`Brought`), and a file whose owner left it
  alone is at the destination as soon as its key is in a checkpoint, in memory or
  saved, and stays there (`Untouched`): no deletion plan has it and no other copy
  replaces it.

Out of the prover's reach and checked by TLC only: everything under fairness
(`CommandEnds`, `Ends`, `Recovers`, `Finishes`, `Repairs`, `Converges`) and ENABLED;
what a recursively defined value computes for every input. Of these, `CommandEnds`
and `Ends` have their safety halves proved (`CommandsAdvance`; `RunAdvances` and
`NobodyStuck`).

## 5. Disagreements between the code and its documentation

Three have runs of their own (`token_lost_update`, `upload_killed`,
`sync_repeated`) and are listed under `findings`. The following were met as well;
each is stated as a property in its module, or by weakening one, or follows from
the lines named.

* *A second refresh for one 401.* The README says a first 401 forces one refresh
  and one replay; the replay of any request but the owner-default Space creation
  applies the 60 s window again, and with shorter-lived tokens rotates once more.
  Check `OneRefreshPer401` with `FairSpec`.
* *Instance check.* `validate_instance` and the load that authenticates are
  separate; a login to another Instance fits in between. Check
  `TokenMatchesInstance` under `token_isolated`'s constants.
* *`--overwrite-strategy newer`.* A newer file created between `should_skip` and
  the rename is replaced. Check `OnlyOlderReplaced`; `no-clobber` has no such
  window (`NeverClobbers`).
* *Snapshot durability.* On a file system where only the directory's own fsync
  makes a rename durable, a resume after a kill between rename and fsync appends
  records to a snapshot a power loss can take back. Check
  `SnapshotDurableBeforeRecords` with `OrderedMetadata = FALSE`.
* *Master key.* Two overlapping first commands can each write a key, and a power
  loss can take an unsynced key back while the synced ciphertext stays. Replace
  `KeySettled` by `TRUE` in `Readable`.
* *Windows replacement.* A kill between the two renames leaves no file, which the
  next command reads as an empty store. Drop the platform from `SavedStays`.
* *Lost answer to CompleteMultipartUpload, or a failing output.* The checkpoint
  keeps naming an upload that is gone and every later run fails; a lock file whose
  pid could not be written stays as well. Check `Resumes` with `Faults = {"reply"}`
  or `{"output"}`. `Finishes` exempts these, kills and power losses: it shows that
  failed requests, failing saves and changed sources do not block.
* *A checkpoint that cannot be saved.* The upload exists before its id is on disk:
  with a full disk or an unwritable directory each repetition of the command opens
  one more and forgets it. `LeaksFromFaults` counts each.
* *Unsynced files of transfers.* `save_checkpoint` (`tos/handler/high_level.rs`)
  syncs neither file nor rename, so that one power loss can damage or take back the
  checkpoints of several versions; those that forget their upload leak it. A
  downloaded file is not synced either: a power loss after the rename may leave a
  torn destination, also after success was reported. `NeverTorn` excludes the power
  loss; `Repairs` shows that repeating the command repairs it for an object with a
  CRC64.
* *`--no-clobber` of a multipart upload.* Only the creation of the upload is
  conditional. Check `NoClobber` with `Faults = {"other"}`.
* *A checkpoint that a kill has torn.* `save_batch_checkpoint` writes in place; a
  file cut short does not parse, and every later run of the command fails until
  the user removes it (action `Discard`). `Converges` claims nothing for a
  checkpointed command whose checkpoint was torn.
* *A destination that a kill has torn.* ve-adrive writes downloads in place, and
  under `no-clobber` and `newer` a later run skips the torn file. `SuccessIsReal`
  and `Converges` speak of `force`.
* *Changes between copy and removal.* mv removes a source without a condition: a
  change made after the copy is lost, and the removal of a whole tree takes files
  created after the listing with it. `MovedIsKept` speaks of files that are still
  what was listed.
* *Overlapping range downloads.* With two runs alive, a CRC64 verified and then
  renamed does not exclude a torn destination: the other run still writes through
  its handle. `SuccessIsWhole` and `NeverTorn` speak of runs that were alone.
  Without a CRC64, parts that were shared or lost power are not looked at again.
* *Options of sync without effect.* `--size-only` and `--exact-timestamps`
  (`adrive/cli/high_level.rs:256-261`) are read by no handler.

## 6. Not modelled

See `components` in `PROJECT.json` for every part and the reason. In the modelled
parts: display and progress, wording of errors, listing and manifest enumeration,
the bandwidth limiter, single-GET download, CSV volumes (one write that may fail),
file-name hashing (no collisions), Windows path handling. ADriveTransfer leaves out
folders, the unfiltered mv within a space (one rename request), symbolic links
(which the streaming mv upload follows and the streaming cp does not) and
multipart transfers; `newer` is a choice the clock makes. PartDownload has the
`force` strategy only. A power loss in it does not bring back a removed part, a
removed temporary file or the destination before a rename or truncation: that is
what a power loss before that step leaves. In TosUpload a lock file that a power
loss brings back, which only refuses later runs, is left out, and a request that got
out is stored before the machine is back. Outside: request signing, low-level
commands, the MCP loop, registries, help, packaging.

By lines, most of the repository is of the last kind: of its Rust code the
larger part are command definitions, registries, request builders, per-operation handlers
that send one request and render its answer, and tests. A state machine of such a
handler would restate its one request.

What could follow: the sync and mv of ve-tos, whose stages are those of
`ADriveTransfer` but whose source removal is conditional on the ETag; the ZTI token
cache; `ShareDownload` composed with `ShareCheckpoint` in place of its
`saved`/`poisoned` abstraction.
