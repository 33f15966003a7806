----------------------------- MODULE TokenManager -----------------------------
(***************************************************************************)
(* The OAuth credential lifecycle of ve-adrive: every asynchronous task    *)
(* that authenticates a request (OAuthTokenManager), plus the three        *)
(* commands that rewrite the same credentials file without going through   *)
(* the manager (auth login, auth logout, config set).                      *)
(*                                                                         *)
(* Abstractions.                                                           *)
(*   - A token pair is the number of the grant that issued it: grant g has *)
(*     Access Token g and Refresh Token g.  0 is the empty OAuth group.    *)
(*   - The credentials file is one record per Profile.  load_from reads    *)
(*     all of it and save_to_path replaces all of it in one rename, so a   *)
(*     task that saves writes back every record it loaded.                 *)
(*   - The two-stage refresh lock (process mutex, then flock) is one lock  *)
(*     per Profile; the OS drops it when the holder dies.                  *)
(*   - Time is the age of a grant's Access Token: "fresh", "window" (at    *)
(*     most 60 s left) and "expired".                                      *)
(*   - The Authorization Server rotates: it accepts each Refresh Token     *)
(*     once and answers invalid_grant afterwards.                          *)
(***************************************************************************)
EXTENDS Naturals, FiniteSets

CONSTANTS
    Tasks,             \* concurrent tasks, of one process or of several
    Profiles,          \* Profiles sharing one credentials file
    Instances,         \* ADrive Instances a grant can be bound to
    Kinds,             \* the commands that tasks run
    NoTask,            \* "nobody holds the lock"
    MaxGrant,          \* bound on the grants the server issues
    MaxRefreshRetries, \* request_refresh retries (at most 10 in the code)
    MaxSendRetries     \* transient retries of one resource request

RequestKinds == {"plain", "owner", "share", "plan"}
AllKinds == RequestKinds \cup {"login", "logout", "config"}

ASSUME ConstantsAssumption ==
    /\ NoTask \notin Tasks
    /\ Kinds \subseteq AllKinds
    /\ MaxGrant \in Nat \ {0}
    /\ MaxRefreshRetries \in Nat
    /\ MaxSendRetries \in Nat
    /\ Profiles # {}
    /\ Instances # {}

Grants == 1 .. MaxGrant
Stored == 0 .. MaxGrant      \* what one OAuth group of the file can hold
Ages == {"fresh", "window", "expired"}
Phases == {"first", "forcing", "replay"}

VARIABLES
    file,      \* credentials.toml: the grant stored for each Profile, or 0
    minted,    \* number of grants issued so far
    owner,     \* owner[g]: the Profile grant g was issued to
    inst,      \* inst[g]: the Instance grant g is bound to
    age,       \* age[g]: remaining life of Access Token g
    live,      \* grants whose Refresh Token the server still accepts
    dropped,   \* grants consumed by a rotation whose result was never saved
    lock,      \* lock[f]: the task holding the refresh lock of Profile f
    pc,        \* pc[t]: where task t is
    kind,      \* kind[t]: the command t runs
    prof,      \* prof[t]: its --profile
    want,      \* want[t]: the Instance its request is addressed to
    tok,       \* tok[t]: the Access Token attached to the request in flight
    rejected,  \* rejected[t]: the token that drew the first 401, or 0
    phase,     \* phase[t]: first send, forced refresh, or the one replay
    attempt,   \* attempt[t]: transient retries of the current attempt loop
    tries,     \* tries[t]: refresh requests already retried
    snap,      \* snap[t]: the credentials t loaded under the lock
    got,       \* got[t]: the grant t obtained and has not saved yet
    buf        \* buf[t]: the whole file as loaded before a save

server == <<minted, owner, inst, age, live, dropped>>
command == <<kind, prof, want>>
request == <<tok, rejected, phase, attempt>>
refresh == <<tries, snap, got>>
vars == <<file, server, lock, pc, command, request, refresh, buf>>

Locations == {"idle", "validate", "token", "wait", "reload", "ask",
              "saveload", "save", "reread", "clearload", "clear", "send",
              "loginsave", "logoutsave", "configsave"}

\* Locations inside refresh_file / access_token_and_user_id under the guard.
Guarded == {"reload", "ask", "saveload", "save", "reread", "clearload", "clear"}

SharedTypes ==
    /\ file \in [Profiles -> Stored]
    /\ minted \in Stored
    /\ owner \in [Grants -> Profiles]
    /\ inst \in [Grants -> Instances]
    /\ age \in [Grants -> Ages]
    /\ live \subseteq Grants
    /\ dropped \subseteq Stored
    /\ lock \in [Profiles -> Tasks \cup {NoTask}]

LocalTypes ==
    /\ pc \in [Tasks -> Locations]
    /\ kind \in [Tasks -> AllKinds]
    /\ prof \in [Tasks -> Profiles]
    /\ want \in [Tasks -> Instances]
    /\ tok \in [Tasks -> Stored]
    /\ rejected \in [Tasks -> Stored]
    /\ phase \in [Tasks -> Phases]
    /\ attempt \in [Tasks -> 0 .. MaxSendRetries]
    /\ tries \in [Tasks -> 0 .. MaxRefreshRetries]
    /\ snap \in [Tasks -> Stored]
    /\ got \in [Tasks -> Stored]
    /\ buf \in [Tasks -> [Profiles -> Stored]]

TypeOK == SharedTypes /\ LocalTypes

AnyProfile == CHOOSE f \in Profiles : TRUE
AnyInstance == CHOOSE i \in Instances : TRUE

Init ==
    /\ file = [f \in Profiles |-> 0]
    /\ minted = 0
    /\ owner = [g \in Grants |-> AnyProfile]
    /\ inst = [g \in Grants |-> AnyInstance]
    /\ age = [g \in Grants |-> "fresh"]
    /\ live = {}
    /\ dropped = {}
    /\ lock = [f \in Profiles |-> NoTask]
    /\ pc = [t \in Tasks |-> "idle"]
    /\ kind = [t \in Tasks |-> "plain"]
    /\ prof = [t \in Tasks |-> AnyProfile]
    /\ want = [t \in Tasks |-> AnyInstance]
    /\ tok = [t \in Tasks |-> 0]
    /\ rejected = [t \in Tasks |-> 0]
    /\ phase = [t \in Tasks |-> "first"]
    /\ attempt = [t \in Tasks |-> 0]
    /\ tries = [t \in Tasks |-> 0]
    /\ snap = [t \in Tasks |-> 0]
    /\ got = [t \in Tasks |-> 0]
    /\ buf = [t \in Tasks |-> [f \in Profiles |-> 0]]

-----------------------------------------------------------------------------
(* Helpers. *)

\* The credentials of t's Profile as one load_oauth sees them.
Current(t) == file[prof[t]]

\* reusable_access_token: present and not inside the refresh window / expired.
Usable(g, applyWindow) ==
    /\ g # 0
    /\ age[g] \in IF applyWindow THEN {"fresh"} ELSE {"fresh", "window"}

\* Mutant: the replay applies the window like the first send.
AlwaysAppliesWindow(t) == TRUE

\* The window each call site passes: only the replay of an owner-default Space
\* creation turns it off.
AppliesWindow(t) == ~(kind[t] = "owner" /\ phase[t] = "replay")

\* without_refresh(): a read-only plan never refreshes.
RefreshAllowed(t) == kind[t] # "plan"

\* Mutant: the Instance is not compared in the authenticating snapshot.
ChecksNothing(t) == FALSE

\* Calls that check the Instance in the same snapshot they authenticate with.
ChecksSnapshot(t) == kind[t] \in {"share", "plan"}

\* A grant known to belong to another Instance than the one t addresses.
OtherInstance(t, g) == g # 0 /\ inst[g] # want[t]

\* Where an attempt loop of the request starts.
FirstStep(k) == IF k \in {"plain", "owner"} THEN "validate" ELSE "token"

Goto(t, l) == pc' = [pc EXCEPT ![t] = l]

\* Mutant: a return path forgets the guard.
LockKept(t) == lock

\* Dropping RefreshLockGuard releases the lock the task holds, if any.
LockWithout(t) == [f \in Profiles |-> IF lock[f] = t THEN NoTask ELSE lock[f]]

\* A task that ends between the rotation and the save drops the new grant.
DroppedBy(t) ==
    IF pc[t] \in {"saveload", "save"} THEN dropped \cup {snap[t]} ELSE dropped

\* Locals of a task that is not inside a command.
Forget(t) ==
    /\ Goto(t, "idle")
    /\ kind' = [kind EXCEPT ![t] = "plain"]
    /\ prof' = [prof EXCEPT ![t] = AnyProfile]
    /\ want' = [want EXCEPT ![t] = AnyInstance]
    /\ tok' = [tok EXCEPT ![t] = 0]
    /\ rejected' = [rejected EXCEPT ![t] = 0]
    /\ phase' = [phase EXCEPT ![t] = "first"]
    /\ attempt' = [attempt EXCEPT ![t] = 0]
    /\ tries' = [tries EXCEPT ![t] = 0]
    /\ snap' = [snap EXCEPT ![t] = 0]
    /\ got' = [got EXCEPT ![t] = 0]
    /\ buf' = [buf EXCEPT ![t] = [f \in Profiles |-> 0]]

\* The command ends, in success or error: its guard is dropped, nothing is
\* written.
End(t) ==
    /\ Forget(t)
    /\ lock' = LockWithout(t)
    /\ dropped' = DroppedBy(t)
    /\ UNCHANGED <<file, minted, owner, inst, age, live>>

\* The server issues a grant to Profile f and Instance i; consumed is the set of
\* Refresh Tokens this rotation used up.
Mint(f, i, consumed) ==
    /\ minted < MaxGrant
    /\ minted' = minted + 1
    /\ owner' = [owner EXCEPT ![minted + 1] = f]
    /\ inst' = [inst EXCEPT ![minted + 1] = i]
    /\ \E a \in {"fresh", "window"} : age' = [age EXCEPT ![minted + 1] = a]
    /\ live' = (live \ consumed) \cup {minted + 1}

-----------------------------------------------------------------------------
(* Authenticating a request. *)

\* OAuthTokenManager::new selects the file group if it holds a token.
BeginRequest(t, k, f, i) ==
    /\ pc[t] = "idle"
    /\ k \in Kinds \cap RequestKinds
    /\ file[f] # 0
    /\ kind' = [kind EXCEPT ![t] = k]
    /\ prof' = [prof EXCEPT ![t] = f]
    /\ want' = [want EXCEPT ![t] = i]
    /\ Goto(t, FirstStep(k))
    /\ UNCHANGED <<file, server, lock, request, refresh, buf>>

\* ... and otherwise the process environment: token 0, never refreshed.  (With
\* no environment token either, the command fails before it does anything.)
BeginEnvironment(t, k, f, i) ==
    /\ pc[t] = "idle"
    /\ k \in Kinds \cap RequestKinds
    /\ file[f] = 0
    /\ kind' = [kind EXCEPT ![t] = k]
    /\ prof' = [prof EXCEPT ![t] = f]
    /\ want' = [want EXCEPT ![t] = i]
    /\ Goto(t, "send")
    /\ UNCHANGED <<file, server, lock, request, refresh, buf>>

\* validate_instance: one load of its own, before the load that takes the token.
ValidateInstance(t) ==
    /\ pc[t] = "validate"
    /\ \/ /\ OtherInstance(t, Current(t))
          /\ End(t)
       \/ /\ ~OtherInstance(t, Current(t))
          /\ Goto(t, "token")
          /\ UNCHANGED <<file, server, lock, command, request, refresh, buf>>

\* The token t goes out with; the guard, if held, is dropped.
Attach(t, g) ==
    /\ tok' = [tok EXCEPT ![t] = g]
    /\ Goto(t, "send")
    /\ lock' = LockWithout(t)

\* access_token / access_token_and_user_id up to the lock.
LoadToken(t) ==
    LET g == Current(t)
        mismatch == ChecksSnapshot(t) /\ OtherInstance(t, g)
        usable == Usable(g, AppliesWindow(t)) IN
    /\ pc[t] = "token"
    /\ \/ /\ mismatch \/ (~usable /\ ~RefreshAllowed(t))
          /\ End(t)
       \/ /\ ~mismatch /\ usable
          /\ Attach(t, g)
          /\ UNCHANGED <<file, server, command, rejected, phase, attempt,
                         refresh, buf>>
       \/ /\ ~mismatch /\ ~usable /\ RefreshAllowed(t)
          /\ Goto(t, "wait")
          /\ UNCHANGED <<file, server, lock, command, request, refresh, buf>>

\* Mutant: the lock file is opened but not waited for.
AcquireRegardless(t) ==
    /\ pc[t] = "wait"
    /\ lock' = [lock EXCEPT ![prof[t]] = t]
    /\ Goto(t, "reload")
    /\ UNCHANGED <<file, server, command, request, refresh, buf>>

\* RefreshLockGuard::acquire succeeds.
Acquire(t) ==
    /\ pc[t] = "wait"
    /\ lock[prof[t]] = NoTask
    /\ lock' = [lock EXCEPT ![prof[t]] = t]
    /\ Goto(t, "reload")
    /\ UNCHANGED <<file, server, command, request, refresh, buf>>

\* ... or the 10 s deadline passes while another task holds the lock.
AcquireTimeout(t) ==
    /\ pc[t] = "wait"
    /\ lock[prof[t]] # NoTask
    /\ End(t)

\* force_refresh returned: the request is replayed from its first step.
Replay(t) ==
    /\ Goto(t, FirstStep(kind[t]))
    /\ phase' = [phase EXCEPT ![t] = "replay"]
    /\ lock' = LockWithout(t)

\* Mutant: force_refresh accepts any unexpired token, the rejected one included.
RefreshedWithoutComparison(t, g) ==
    Usable(g, phase[t] # "forcing" /\ AppliesWindow(t))

\* Under the lock another task's refresh may already have done the work.
Refreshed(t, g) ==
    IF phase[t] = "forcing" THEN g # rejected[t] /\ Usable(g, FALSE)
                            ELSE Usable(g, AppliesWindow(t))

Reload(t) ==
    LET g == Current(t)
        mismatch == /\ phase[t] # "forcing"
                    /\ ChecksSnapshot(t) /\ OtherInstance(t, g) IN
    /\ pc[t] = "reload"
    /\ \/ /\ mismatch \/ (g = 0)
          /\ End(t)
       \/ /\ ~mismatch /\ Refreshed(t, g) /\ phase[t] # "forcing"
          /\ Attach(t, g)
          /\ UNCHANGED <<file, server, command, rejected, phase, attempt,
                         refresh, buf>>
       \/ /\ ~mismatch /\ Refreshed(t, g) /\ phase[t] = "forcing"
          /\ Replay(t)
          /\ UNCHANGED <<file, server, command, tok, rejected, attempt, refresh,
                         buf>>
       \/ /\ ~mismatch /\ ~Refreshed(t, g) /\ g # 0
          /\ snap' = [snap EXCEPT ![t] = g]
          /\ Goto(t, "ask")
          /\ UNCHANGED <<file, server, lock, command, request, tries, got, buf>>

-----------------------------------------------------------------------------
(* refresh_locked. *)

\* The server rotates the pair and the response arrives.
AskGranted(t) ==
    /\ pc[t] = "ask"
    /\ snap[t] \in live
    /\ Mint(prof[t], inst[snap[t]], {snap[t]})
    /\ got' = [got EXCEPT ![t] = minted + 1]
    /\ Goto(t, "saveload")
    /\ UNCHANGED <<file, dropped, lock, command, request, tries, snap, buf>>

\* request_refresh sends the same Refresh Token again after a retryable failure.
RetryRefresh(t) ==
    /\ tries[t] < MaxRefreshRetries
    /\ tries' = [tries EXCEPT ![t] = @ + 1]
    /\ UNCHANGED <<lock, pc, command, request, snap, got, buf>>

\* refresh_locked returns the error with the credentials as they are.
GiveUp(t) == Forget(t) /\ lock' = LockWithout(t)

\* The server rotates the pair and the response is lost (a timeout is retried) or
\* unusable (validate_refresh_token; not retried).
AskLost(t) ==
    /\ pc[t] = "ask"
    /\ snap[t] \in live
    /\ Mint(prof[t], inst[snap[t]], {snap[t]})
    /\ dropped' = dropped \cup {snap[t]}
    /\ RetryRefresh(t) \/ GiveUp(t)
    /\ UNCHANGED file

\* The request never reaches the server, or it answers a retryable error.
AskTransient(t) ==
    /\ pc[t] = "ask"
    /\ RetryRefresh(t)
    /\ UNCHANGED <<file, server>>

\* A terminal error other than invalid_grant, or the last retryable one, leaves
\* the credentials alone.
AskTerminal(t) ==
    /\ pc[t] = "ask"
    /\ GiveUp(t)
    /\ UNCHANGED <<file, server>>

\* invalid_grant: clear_invalid_grant runs.
AskInvalidGrant(t) ==
    /\ pc[t] = "ask"
    /\ snap[t] \notin live
    /\ Goto(t, "clearload")
    /\ UNCHANGED <<file, server, lock, command, request, refresh, buf>>

\* save_refreshed_token loads the whole file ...
SaveLoad(t) ==
    /\ pc[t] = "saveload"
    /\ buf' = [buf EXCEPT ![t] = file]
    /\ Goto(t, "save")
    /\ UNCHANGED <<file, server, lock, command, request, refresh>>

\* ... and replaces it.  The guard lives on for the reload of
\* access_token_and_user_id; refresh_file drops it on return.
Save(t) ==
    /\ pc[t] = "save"
    /\ file' = [buf[t] EXCEPT ![prof[t]] = got[t]]
    /\ got' = [got EXCEPT ![t] = 0]
    /\ snap' = [snap EXCEPT ![t] = 0]
    /\ tries' = [tries EXCEPT ![t] = 0]
    /\ buf' = [buf EXCEPT ![t] = [f \in Profiles |-> 0]]
    /\ \/ /\ phase[t] = "forcing"
          /\ Replay(t)
          /\ UNCHANGED tok
       \/ /\ phase[t] # "forcing" /\ kind[t] = "plain"
          /\ Attach(t, got[t])
          /\ UNCHANGED phase
       \/ /\ phase[t] # "forcing" /\ kind[t] # "plain"
          /\ Goto(t, "reread")
          /\ UNCHANGED <<lock, tok, phase>>
    /\ UNCHANGED <<server, command, rejected, attempt>>

\* The write fails: the error is returned and the rotated pair is gone.
SaveFails(t) ==
    /\ pc[t] = "save"
    /\ End(t)

\* access_token_and_user_id reads the token back, without the window.
Reread(t) ==
    LET g == Current(t)
        bad == (ChecksSnapshot(t) /\ OtherInstance(t, g)) \/ ~Usable(g, FALSE) IN
    /\ pc[t] = "reread"
    /\ \/ /\ bad
          /\ End(t)
       \/ /\ ~bad
          /\ Attach(t, g)
          /\ UNCHANGED <<file, server, command, rejected, phase, attempt,
                         refresh, buf>>

\* clear_invalid_grant: only the rejected Refresh Token is cleared.
ClearLoad(t) ==
    /\ pc[t] = "clearload"
    /\ \/ /\ Current(t) # snap[t]
          /\ End(t)
       \/ /\ Current(t) = snap[t]
          /\ buf' = [buf EXCEPT ![t] = file]
          /\ Goto(t, "clear")
          /\ UNCHANGED <<file, server, lock, command, request, refresh>>

Clear(t) ==
    /\ pc[t] = "clear"
    /\ file' = [buf[t] EXCEPT ![prof[t]] = 0]
    /\ Forget(t)
    /\ lock' = LockWithout(t)
    /\ UNCHANGED server

-----------------------------------------------------------------------------
(* The resource request. *)

\* A response other than 401 or a retried failure ends the command.
Answered(t) ==
    /\ pc[t] = "send"
    /\ End(t)

\* Mutant: the attempt loop does not count its attempts.
SendRetryUncounted(t) ==
    /\ pc[t] = "send"
    /\ Goto(t, IF tok[t] = 0 THEN "send" ELSE FirstStep(kind[t]))
    /\ tok' = [tok EXCEPT ![t] = 0]
    /\ UNCHANGED <<file, server, lock, command, rejected, phase, attempt, refresh,
                   buf>>

\* The attempt loop authenticates every transient retry anew.
SendRetry(t) ==
    /\ pc[t] = "send"
    /\ attempt[t] < MaxSendRetries
    /\ attempt' = [attempt EXCEPT ![t] = @ + 1]
    /\ Goto(t, IF tok[t] = 0 THEN "send" ELSE FirstStep(kind[t]))
    /\ tok' = [tok EXCEPT ![t] = 0]
    /\ UNCHANGED <<file, server, lock, command, rejected, phase, refresh, buf>>

\* 401: one forced refresh and one replay; the second 401, an environment token
\* and a read-only plan end in login_required.
Unauthorized(t) ==
    /\ pc[t] = "send"
    /\ \/ /\ phase[t] = "replay" \/ tok[t] = 0 \/ ~RefreshAllowed(t)
          /\ End(t)
       \/ /\ phase[t] = "first" /\ tok[t] # 0 /\ RefreshAllowed(t)
          /\ rejected' = [rejected EXCEPT ![t] = tok[t]]
          /\ phase' = [phase EXCEPT ![t] = "forcing"]
          /\ attempt' = [attempt EXCEPT ![t] = 0]
          /\ tok' = [tok EXCEPT ![t] = 0]
          /\ Goto(t, "wait")
          /\ UNCHANGED <<file, server, lock, command, refresh, buf>>

-----------------------------------------------------------------------------
(* The commands that rewrite the file without the refresh lock. *)

\* auth login: the device flow delivered grant minted+1; validate_and_save_token
\* loads the file ...
LoginLoad(t, f, i) ==
    /\ pc[t] = "idle"
    /\ "login" \in Kinds
    /\ Mint(f, i, {})
    /\ kind' = [kind EXCEPT ![t] = "login"]
    /\ prof' = [prof EXCEPT ![t] = f]
    /\ got' = [got EXCEPT ![t] = minted + 1]
    /\ buf' = [buf EXCEPT ![t] = file]
    /\ Goto(t, "loginsave")
    /\ UNCHANGED <<file, dropped, lock, want, request, tries, snap>>

\* Mutant: the login is stored under the default Profile.
LoginSaveDefaultProfile(t) ==
    /\ pc[t] = "loginsave"
    /\ file' = [buf[t] EXCEPT ![AnyProfile] = got[t]]
    /\ Forget(t)
    /\ UNCHANGED <<server, lock>>

\* ... and replaces it.
LoginSave(t) ==
    /\ pc[t] = "loginsave"
    /\ file' = [buf[t] EXCEPT ![prof[t]] = got[t]]
    /\ Forget(t)
    /\ UNCHANGED <<server, lock>>

\* auth logout: load, check that something is stored, clear, replace.
LogoutLoad(t, f) ==
    /\ pc[t] = "idle"
    /\ "logout" \in Kinds
    /\ file[f] # 0
    /\ kind' = [kind EXCEPT ![t] = "logout"]
    /\ prof' = [prof EXCEPT ![t] = f]
    /\ buf' = [buf EXCEPT ![t] = file]
    /\ Goto(t, "logoutsave")
    /\ UNCHANGED <<file, server, lock, want, request, refresh>>

LogoutSave(t) ==
    /\ pc[t] = "logoutsave"
    /\ file' = [buf[t] EXCEPT ![prof[t]] = 0]
    /\ Forget(t)
    /\ UNCHANGED <<server, lock>>

\* config set of an AK/SK field: same load and replace, no OAuth group changed.
ConfigLoad(t) ==
    /\ pc[t] = "idle"
    /\ "config" \in Kinds
    /\ kind' = [kind EXCEPT ![t] = "config"]
    /\ buf' = [buf EXCEPT ![t] = file]
    /\ Goto(t, "configsave")
    /\ UNCHANGED <<file, server, lock, prof, want, request, refresh>>

ConfigSave(t) ==
    /\ pc[t] = "configsave"
    /\ file' = buf[t]
    /\ Forget(t)
    /\ UNCHANGED <<server, lock>>

-----------------------------------------------------------------------------
(* The environment. *)

Crash(t) ==
    /\ pc[t] # "idle"
    /\ End(t)

GrowOlder(g) ==
    /\ g \in 1 .. minted
    /\ age[g] # "expired"
    /\ age' = [age EXCEPT ![g] = IF @ = "fresh" THEN "window" ELSE "expired"]
    /\ UNCHANGED <<file, minted, owner, inst, live, dropped, lock, pc, command,
                   request, refresh, buf>>

Begin(t) ==
    \/ \E k \in RequestKinds, f \in Profiles, i \in Instances :
          BeginRequest(t, k, f, i) \/ BeginEnvironment(t, k, f, i)
    \/ \E f \in Profiles, i \in Instances : LoginLoad(t, f, i)
    \/ \E f \in Profiles : LogoutLoad(t, f)
    \/ ConfigLoad(t)

\* One step of a command that has begun.
Step(t) ==
    \/ ValidateInstance(t) \/ LoadToken(t) \/ Acquire(t) \/ AcquireTimeout(t)
    \/ Reload(t) \/ AskGranted(t) \/ AskLost(t) \/ AskTransient(t)
    \/ AskTerminal(t) \/ AskInvalidGrant(t) \/ SaveLoad(t) \/ Save(t)
    \/ SaveFails(t) \/ Reread(t) \/ ClearLoad(t) \/ Clear(t) \/ Answered(t)
    \/ SendRetry(t) \/ Unauthorized(t) \/ LoginSave(t) \/ LogoutSave(t)
    \/ ConfigSave(t)

Next ==
    \/ \E t \in Tasks : Begin(t) \/ Step(t) \/ Crash(t)
    \/ \E g \in Grants : GrowOlder(g)

Spec == Init /\ [][Next]_vars

\* Every HTTP call and the lock wait have deadlines, so a command that has begun
\* is always scheduled again.
FairSpec == Spec /\ \A t \in Tasks : WF_vars(Step(t))

-----------------------------------------------------------------------------
(* Properties. *)

\* RefreshLockGuard is held exactly inside the refresh section of the task's own
\* Profile: every return, error, crash and timeout drops it, and two tasks are
\* never inside for the same Profile.
GuardExact ==
    \A t \in Tasks, f \in Profiles :
        lock[f] = t <=> (pc[t] \in Guarded /\ prof[t] = f)

\* A stored Refresh Token that the server no longer accepts is being replaced
\* right now by the one task that consumed it, or its successor was lost in a
\* crash, a failed write or a lost response.
StoredGrantAlive ==
    \A f \in Profiles :
        \/ file[f] = 0 \/ file[f] \in live \cup dropped
        \/ \E t \in Tasks : /\ lock[f] = t
                            /\ pc[t] \in {"saveload", "save"}
                            /\ snap[t] = file[f]

\* "Concurrent managers consume one rotating refresh token": invalid_grant, and
\* the login it costs the user, follows only from such a loss.
InvalidGrantOnlyAfterLoss ==
    \A t \in Tasks : pc[t] \in {"clearload", "clear"} => snap[t] \in dropped

GrantNotLost == StoredGrantAlive /\ InvalidGrantOnlyAfterLoss

\* After the forced refresh the request is not replayed with the very token the
\* server rejected.
ReplayTakesAnotherToken ==
    \A t \in Tasks :
        phase[t] = "replay" /\ pc[t] = "send" => tok[t] # rejected[t]

\* The OAuth group of a Profile, and every token a request carries, was issued
\* to that Profile, whatever whole-file saves interleave.
TokensStayInProfile ==
    /\ \A f \in Profiles : file[f] # 0 => owner[file[f]] = f
    /\ \A t \in Tasks :
          pc[t] = "send" /\ tok[t] # 0 => owner[tok[t]] = prof[t]

\* A share request goes out with a token of the receiver's Instance, even when a
\* login switches the Profile to another Instance at any moment.
ShareTokenMatchesInstance ==
    \A t \in Tasks :
        pc[t] = "send" /\ kind[t] = "share" /\ tok[t] # 0
            => inst[tok[t]] = want[t]

\* validate_instance promises the same for every request that names an Instance.
\* It does not hold: the load it checks is not the load that authenticates.
TokenMatchesInstance ==
    \A t \in Tasks :
        pc[t] = "send" /\ tok[t] # 0 => inst[tok[t]] = want[t]

\* A replay of kind k asks for a second rotation only once the token it would
\* use has really expired.
ReplayAsksOnlyWhenExpired(k) ==
    \A t \in Tasks :
        phase[t] = "replay" /\ kind[t] \in k /\ pc[t] = "reload" /\ pc'[t] = "ask"
            => age[Current(t)] = "expired"

\* The forced-refresh replay of an owner-default Space creation uses the fresh
\* token until expiry.
OwnerReplayKeepsToken == [][ReplayAsksOnlyWhenExpired({"owner"})]_vars

\* "A first resource 401 forces one coordinated refresh and one replay".  It does
\* not hold when tokens live less than the window: the replay of any other kind
\* applies the window again.
OneRefreshPer401 == [][ReplayAsksOnlyWhenExpired(RequestKinds)]_vars

\* Every command that has begun ends: no retry loop, lock wait or replay runs
\* for ever.
CommandEnds == \A t \in Tasks : pc[t] # "idle" ~> pc[t] = "idle"
=============================================================================
