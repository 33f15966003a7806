-------------------------- MODULE TokenManagerProofs --------------------------
(***************************************************************************)
(* Proofs about TokenManager, for any number of tasks, Profiles, Instances *)
(* and grants: types and the refresh lock; that no grant is lost, and that *)
(* a rejected one does not come back, while one Profile is in use and no   *)
(* command rewrites the file unchanged (Isolated); that grants stay in     *)
(* their Profile and Instance; and that a command only gets further.       *)
(***************************************************************************)
EXTENDS TokenManager, TLAPS

USE DEF server, command, request, refresh

-----------------------------------------------------------------------------
(* Types. *)

LEMMA Defaults == AnyProfile \in Profiles /\ AnyInstance \in Instances
  BY ConstantsAssumption DEF AnyProfile, AnyInstance

LEMMA Constants ==
    /\ 0 \in Stored
    /\ Grants \subseteq Stored
    /\ 0 \in 0 .. MaxSendRetries
    /\ 0 \in 0 .. MaxRefreshRetries
    /\ \A g \in Stored : g # 0 => g \in Grants
  BY ConstantsAssumption DEF Stored, Grants

LEMMA InitTypes == Init => TypeOK
  BY Defaults, Constants
  DEF Init, TypeOK, SharedTypes, LocalTypes, Stored, Ages, Phases, Locations,
      AllKinds, RequestKinds

LEMMA ForgetTypes ==
  ASSUME LocalTypes, NEW t \in Tasks, Forget(t)
  PROVE  LocalTypes'
  BY Defaults, Constants
  DEF LocalTypes, Forget, Goto, Phases, Locations, AllKinds, RequestKinds

LEMMA LockWithoutType ==
  ASSUME SharedTypes, NEW t \in Tasks
  PROVE  LockWithout(t) \in [Profiles -> Tasks \cup {NoTask}]
  BY DEF SharedTypes, LockWithout

LEMMA EndTypes ==
  ASSUME TypeOK, NEW t \in Tasks, End(t)
  PROVE  TypeOK'
  <1>1. LocalTypes'
    BY ForgetTypes DEF TypeOK, End
  <1>2. SharedTypes'
    BY LockWithoutType DEF TypeOK, SharedTypes, LocalTypes, End, DroppedBy
  <1> QED
    BY <1>1, <1>2 DEF TypeOK

LEMMA MintTypes ==
  ASSUME SharedTypes, NEW f \in Profiles, NEW i \in Instances,
         NEW consumed, Mint(f, i, consumed)
  PROVE  /\ minted' \in Grants /\ minted' = minted + 1
         /\ owner' \in [Grants -> Profiles]
         /\ inst' \in [Grants -> Instances]
         /\ age' \in [Grants -> Ages]
         /\ live' \subseteq Grants
  <1>1. minted' \in Grants /\ minted' = minted + 1
    BY ConstantsAssumption DEF SharedTypes, Mint, Grants, Stored
  <1> QED
    BY <1>1 DEF SharedTypes, Mint, Ages

LEMMA StepTypes == TypeOK /\ [Next]_vars => TypeOK'
  <1> SUFFICES ASSUME TypeOK, [Next]_vars PROVE TypeOK'
    OBVIOUS
  <1> USE DEF TypeOK, Goto
  <1>1. ASSUME NEW t \in Tasks, NEW k \in RequestKinds, NEW f \in Profiles,
               NEW i \in Instances,
               BeginRequest(t, k, f, i) \/ BeginEnvironment(t, k, f, i)
        PROVE  TypeOK'
    <2>1. CASE BeginRequest(t, k, f, i)
      BY <2>1 DEF SharedTypes, LocalTypes, BeginRequest, FirstStep, Locations,
                  AllKinds
    <2>2. CASE BeginEnvironment(t, k, f, i)
      BY <2>2 DEF SharedTypes, LocalTypes, BeginEnvironment, Locations, AllKinds
    <2> QED
      BY <1>1, <2>1, <2>2
  <1>2. ASSUME NEW t \in Tasks, NEW f \in Profiles, NEW i \in Instances,
               LoginLoad(t, f, i)
        PROVE  TypeOK'
    <2>1. SharedTypes'
      BY <1>2, MintTypes, Constants DEF SharedTypes, LoginLoad
    <2>2. got' \in [Tasks -> Stored]
      BY <1>2, MintTypes, Constants DEF LocalTypes, LoginLoad
    <2>3. LocalTypes'
      BY <1>2, <2>2 DEF SharedTypes, LocalTypes, LoginLoad, Locations, AllKinds
    <2> QED
      BY <2>1, <2>3
  <1>3. ASSUME NEW t \in Tasks, NEW f \in Profiles, LogoutLoad(t, f)
        PROVE  TypeOK'
    BY <1>3 DEF SharedTypes, LocalTypes, LogoutLoad, Locations, AllKinds
  <1>4. ASSUME NEW t \in Tasks, ConfigLoad(t)
        PROVE  TypeOK'
    BY <1>4 DEF SharedTypes, LocalTypes, ConfigLoad, Locations, AllKinds
  <1>0. ASSUME NEW t \in Tasks, Attach(t, Current(t)),
               UNCHANGED <<file, server, command, rejected, phase, attempt,
                           refresh, buf>>
        PROVE  TypeOK'
    <2>1. Current(t) \in Stored
      BY DEF Current, SharedTypes, LocalTypes
    <2>2. lock' \in [Profiles -> Tasks \cup {NoTask}]
      BY <1>0, LockWithoutType DEF Attach
    <2>3. /\ pc' \in [Tasks -> Locations]
          /\ tok' \in [Tasks -> Stored]
      BY <1>0, <2>1 DEF LocalTypes, Attach, Locations
    <2> QED
      BY <1>0, <2>2, <2>3 DEF SharedTypes, LocalTypes
  <1>5. ASSUME NEW t \in Tasks, ValidateInstance(t)
        PROVE  TypeOK'
    BY <1>5, EndTypes
    DEF SharedTypes, LocalTypes, ValidateInstance, Locations
  <1>6. ASSUME NEW t \in Tasks, LoadToken(t)
        PROVE  TypeOK'
    <2> DEFINE g == Current(t)
    <2>0. g \in Stored
      BY DEF Current, SharedTypes, LocalTypes
    <2>1. CASE End(t)
      BY <2>1, EndTypes
    <2>2. CASE Attach(t, g) /\ UNCHANGED <<file, server, command, rejected,
                                           phase, attempt, refresh, buf>>
      BY <1>0, <2>2
    <2>3. CASE Goto(t, "wait") /\ UNCHANGED <<file, server, lock, command,
                                              request, refresh, buf>>
      BY <2>3 DEF SharedTypes, LocalTypes, Locations
    <2> QED
      BY <1>6, <2>1, <2>2, <2>3 DEF LoadToken
  <1>7. ASSUME NEW t \in Tasks, Acquire(t)
        PROVE  TypeOK'
    BY <1>7 DEF SharedTypes, LocalTypes, Acquire, Locations
  <1>8. ASSUME NEW t \in Tasks, Reload(t)
        PROVE  TypeOK'
    <2> DEFINE g == Current(t)
    <2>0. g \in Stored
      BY DEF Current, SharedTypes, LocalTypes
    <2>1. CASE End(t)
      BY <2>1, EndTypes
    <2>2. CASE Attach(t, g) /\ UNCHANGED <<file, server, command, rejected,
                                           phase, attempt, refresh, buf>>
      BY <1>0, <2>2
    <2>3. CASE Replay(t) /\ UNCHANGED <<file, server, command, tok, rejected,
                                        attempt, refresh, buf>>
      BY <2>3, LockWithoutType
      DEF SharedTypes, LocalTypes, Replay, FirstStep, Phases, Locations
    <2>4. CASE /\ snap' = [snap EXCEPT ![t] = g] /\ Goto(t, "ask")
               /\ UNCHANGED <<file, server, lock, command, request, tries, got,
                              buf>>
      BY <2>0, <2>4 DEF SharedTypes, LocalTypes, Locations
    <2> QED
      BY <1>8, <2>1, <2>2, <2>3, <2>4 DEF Reload
  <1>9. ASSUME NEW t \in Tasks, AskGranted(t)
        PROVE  TypeOK'
    <2>1. Mint(prof[t], inst[snap[t]], {snap[t]})
          /\ prof[t] \in Profiles /\ inst[snap[t]] \in Instances
      BY <1>9 DEF SharedTypes, LocalTypes, AskGranted
    <2>2. SharedTypes'
      BY <1>9, <2>1, MintTypes, Constants DEF SharedTypes, AskGranted
    <2>3. got' \in [Tasks -> Stored]
      BY <1>9, <2>1, MintTypes, Constants DEF LocalTypes, AskGranted
    <2>4. LocalTypes'
      BY <1>9, <2>3 DEF LocalTypes, AskGranted, Locations
    <2> QED
      BY <2>2, <2>4
  <1>10. ASSUME NEW t \in Tasks, RetryRefresh(t)
         PROVE  LocalTypes' /\ UNCHANGED lock
    BY <1>10, ConstantsAssumption DEF LocalTypes, RetryRefresh
  <1>11. ASSUME NEW t \in Tasks, GiveUp(t)
         PROVE  LocalTypes' /\ lock' \in [Profiles -> Tasks \cup {NoTask}]
    BY <1>11, ForgetTypes, LockWithoutType DEF GiveUp
  <1>12. ASSUME NEW t \in Tasks, AskLost(t)
         PROVE  TypeOK'
    <2>1. Mint(prof[t], inst[snap[t]], {snap[t]})
          /\ prof[t] \in Profiles /\ inst[snap[t]] \in Instances
      BY <1>12 DEF SharedTypes, LocalTypes, AskLost
    <2>2. LocalTypes' /\ lock' \in [Profiles -> Tasks \cup {NoTask}]
      BY <1>10, <1>11, <1>12 DEF AskLost, SharedTypes
    <2>3. SharedTypes'
      BY <1>12, <2>1, <2>2, MintTypes, Constants
      DEF SharedTypes, LocalTypes, AskLost
    <2> QED
      BY <2>2, <2>3
  <1>13. ASSUME NEW t \in Tasks, AskTransient(t) \/ AskTerminal(t)
         PROVE  TypeOK'
    BY <1>10, <1>11, <1>13 DEF AskTransient, AskTerminal, SharedTypes
  <1>14. ASSUME NEW t \in Tasks,
                AskInvalidGrant(t) \/ SaveLoad(t) \/ SendRetry(t)
         PROVE  TypeOK'
    <2>1. CASE AskInvalidGrant(t)
      BY <2>1 DEF SharedTypes, LocalTypes, AskInvalidGrant, Locations
    <2>2. CASE SaveLoad(t)
      BY <2>2 DEF SharedTypes, LocalTypes, SaveLoad, Locations
    <2>3. CASE SendRetry(t)
      BY <2>3, ConstantsAssumption, Constants
      DEF SharedTypes, LocalTypes, SendRetry, FirstStep, Locations
    <2> QED
      BY <1>14, <2>1, <2>2, <2>3
  <1>15. ASSUME NEW t \in Tasks, Save(t)
         PROVE  TypeOK'
    <2>1. file' \in [Profiles -> Stored]
      BY <1>15 DEF SharedTypes, LocalTypes, Save
    <2>2. lock' \in [Profiles -> Tasks \cup {NoTask}]
      BY <1>15, LockWithoutType DEF Save, Replay, Attach, SharedTypes
    <2>3. SharedTypes'
      BY <1>15, <2>1, <2>2 DEF SharedTypes, Save
    <2>4. LocalTypes'
      BY <1>15, Constants
      DEF LocalTypes, Save, Replay, Attach, FirstStep, Phases, Locations
    <2> QED
      BY <2>3, <2>4
  <1>16. ASSUME NEW t \in Tasks, Reread(t)
         PROVE  TypeOK'
    BY <1>0, <1>16, EndTypes DEF Reread
  <1>17. ASSUME NEW t \in Tasks, ClearLoad(t)
         PROVE  TypeOK'
    <2>1. CASE /\ buf' = [buf EXCEPT ![t] = file] /\ Goto(t, "clear")
               /\ UNCHANGED <<file, server, lock, command, request, refresh>>
      BY <2>1 DEF SharedTypes, LocalTypes, Locations
    <2> QED
      BY <1>17, <2>1, EndTypes DEF ClearLoad
  <1>18. ASSUME NEW t \in Tasks,
                Clear(t) \/ LoginSave(t) \/ LogoutSave(t) \/ ConfigSave(t)
         PROVE  TypeOK'
    <2>1. LocalTypes'
      BY <1>18, ForgetTypes DEF Clear, LoginSave, LogoutSave, ConfigSave
    <2>2. file' \in [Profiles -> Stored]
      <3>1. CASE Clear(t) \/ LogoutSave(t)
        <4>1. file' = [buf[t] EXCEPT ![prof[t]] = 0]
          BY <3>1 DEF Clear, LogoutSave
        <4>2. buf[t] \in [Profiles -> Stored] /\ 0 \in Stored
          BY Constants DEF LocalTypes
        <4> QED
          BY <4>1, <4>2
      <3>2. CASE LoginSave(t)
        BY <3>2 DEF SharedTypes, LocalTypes, LoginSave
      <3>3. CASE ConfigSave(t)
        BY <3>3 DEF SharedTypes, LocalTypes, ConfigSave
      <3> QED
        BY <1>18, <3>1, <3>2, <3>3
    <2>3. lock' \in [Profiles -> Tasks \cup {NoTask}] /\ UNCHANGED server
      BY <1>18, LockWithoutType
      DEF SharedTypes, Clear, LoginSave, LogoutSave, ConfigSave
    <2>4. SharedTypes'
      BY <2>2, <2>3 DEF SharedTypes
    <2> QED
      BY <2>1, <2>4
  <1>19. ASSUME NEW t \in Tasks, Unauthorized(t)
         PROVE  TypeOK'
    <2>1. CASE End(t)
      BY <2>1, EndTypes
    <2>2. CASE /\ rejected' = [rejected EXCEPT ![t] = tok[t]]
               /\ phase' = [phase EXCEPT ![t] = "forcing"]
               /\ attempt' = [attempt EXCEPT ![t] = 0]
               /\ tok' = [tok EXCEPT ![t] = 0]
               /\ Goto(t, "wait")
               /\ UNCHANGED <<file, server, lock, command, refresh, buf>>
      <3>1. 0 \in Stored /\ 0 \in 0 .. MaxSendRetries
        BY Constants
      <3> QED
        BY <2>2, <3>1 DEF SharedTypes, LocalTypes, Phases, Locations
    <2> QED
      BY <1>19, <2>1, <2>2 DEF Unauthorized
  <1>20. ASSUME NEW t \in Tasks,
                AcquireTimeout(t) \/ SaveFails(t) \/ Answered(t) \/ Crash(t)
         PROVE  TypeOK'
    BY <1>20, EndTypes DEF AcquireTimeout, SaveFails, Answered, Crash
  <1>21. ASSUME NEW g \in Grants, GrowOlder(g)
         PROVE  TypeOK'
    BY <1>21 DEF SharedTypes, LocalTypes, GrowOlder, Ages
  <1>22. CASE UNCHANGED vars
    BY <1>22 DEF SharedTypes, LocalTypes, vars
  <1> QED
    BY <1>1, <1>2, <1>3, <1>4, <1>5, <1>6, <1>7, <1>8, <1>9, <1>12, <1>13,
       <1>14, <1>15, <1>16, <1>17, <1>18, <1>19, <1>20, <1>21, <1>22
    DEF Next, Begin, Step

\* Every variable of the credential lifecycle keeps its type, for any number of
\* tasks, Profiles, Instances and grants.
THEOREM TypeCorrect == Spec => []TypeOK
  <1>1. Init => TypeOK
    BY InitTypes
  <1>2. TypeOK /\ [Next]_vars => TypeOK'
    BY StepTypes
  <1> QED
    BY <1>1, <1>2, PTL DEF Spec

-----------------------------------------------------------------------------
(* The refresh lock. *)

\* What a step of task t does to the locations and Profiles of the others.
Moves(t, l) ==
    /\ pc' = [pc EXCEPT ![t] = l]
    /\ prof' \in [Tasks -> Profiles]
    /\ \A u \in Tasks \ {t} : prof'[u] = prof[u]

LEMMA GuardKept ==
  ASSUME TypeOK, GuardExact, NEW t \in Tasks, NEW l, Moves(t, l),
         UNCHANGED lock, pc[t] \in Guarded <=> l \in Guarded,
         pc[t] \in Guarded => prof'[t] = prof[t]
  PROVE  GuardExact'
  BY DEF TypeOK, SharedTypes, LocalTypes, GuardExact, Moves

LEMMA GuardDropped ==
  ASSUME TypeOK, GuardExact, NEW t \in Tasks, NEW l, Moves(t, l),
         lock' = LockWithout(t), l \notin Guarded
  PROVE  GuardExact'
  BY ConstantsAssumption
  DEF TypeOK, SharedTypes, LocalTypes, GuardExact, Moves, LockWithout

LEMMA ForgetMoves ==
  ASSUME TypeOK, NEW t \in Tasks, Forget(t)
  PROVE  Moves(t, "idle")
  BY Defaults DEF TypeOK, LocalTypes, Forget, Goto, Moves

LEMMA GuardEnd ==
  ASSUME TypeOK, GuardExact, NEW t \in Tasks, Forget(t),
         lock' = LockWithout(t)
  PROVE  GuardExact'
  <1>1. "idle" \notin Guarded
    BY DEF Guarded
  <1> QED
    BY <1>1, ForgetMoves, GuardDropped

LEMMA StepGuard == TypeOK /\ GuardExact /\ [Next]_vars => GuardExact'
  <1> SUFFICES ASSUME TypeOK, GuardExact, [Next]_vars PROVE GuardExact'
    OBVIOUS
  <1> USE DEF Goto
  <1>1. ASSUME NEW t \in Tasks, Begin(t)
        PROVE  GuardExact'
    <2> DEFINE Starts == {"validate", "token", "send", "loginsave",
                          "logoutsave", "configsave"}
    <2>1. \E l \in Starts : Moves(t, l)
      <3> USE DEF TypeOK, LocalTypes, Moves
      <3>1. CASE \E k \in RequestKinds, f \in Profiles, i \in Instances :
                    BeginRequest(t, k, f, i)
        <4>1. PICK k \in RequestKinds, f \in Profiles :
                 /\ pc' = [pc EXCEPT ![t] = FirstStep(k)]
                 /\ prof' = [prof EXCEPT ![t] = f]
          BY <3>1 DEF BeginRequest
        <4>2. FirstStep(k) \in Starts
          BY DEF FirstStep
        <4> QED
          BY <4>1, <4>2
      <3>2. CASE \E k \in RequestKinds, f \in Profiles, i \in Instances :
                    BeginEnvironment(t, k, f, i)
        BY <3>2 DEF BeginEnvironment
      <3>3. CASE \E f \in Profiles, i \in Instances : LoginLoad(t, f, i)
        BY <3>3 DEF LoginLoad
      <3>4. CASE \E f \in Profiles : LogoutLoad(t, f)
        BY <3>4 DEF LogoutLoad
      <3>5. CASE ConfigLoad(t)
        BY <3>5 DEF ConfigLoad
      <3> QED
        BY <1>1, <3>1, <3>2, <3>3, <3>4, <3>5 DEF Begin
    <2>2. pc[t] \notin Guarded /\ UNCHANGED lock
      BY <1>1 DEF Begin, BeginRequest, BeginEnvironment, LoginLoad, LogoutLoad,
                  ConfigLoad, Guarded
    <2> QED
      BY <2>1, <2>2, GuardKept DEF Guarded
  <1>2. ASSUME NEW t \in Tasks, NEW l, pc' = [pc EXCEPT ![t] = l],
               UNCHANGED prof
        PROVE  Moves(t, l)
    BY <1>2 DEF TypeOK, LocalTypes, Moves
  <1>3. ASSUME NEW t \in Tasks, End(t)
        PROVE  GuardExact'
    BY <1>3, GuardEnd DEF End
  <1>4. ASSUME NEW t \in Tasks, NEW g, Attach(t, g), UNCHANGED prof
        PROVE  GuardExact'
    BY <1>2, <1>4, GuardDropped DEF Attach, Guarded
  <1>5. ASSUME NEW t \in Tasks, Replay(t), UNCHANGED prof
        PROVE  GuardExact'
    <2>1. FirstStep(kind[t]) \notin Guarded
      BY DEF FirstStep, Guarded
    <2> QED
      BY <1>2, <1>5, <2>1, GuardDropped DEF Replay
  <1>6. ASSUME NEW t \in Tasks, ValidateInstance(t)
        PROVE  GuardExact'
    <2>1. CASE Goto(t, "token") /\ UNCHANGED <<file, server, lock, command,
                                               request, refresh, buf>>
      BY <1>2, <1>6, <2>1, GuardKept DEF ValidateInstance, Guarded
    <2> QED
      BY <1>3, <1>6, <2>1 DEF ValidateInstance
  <1>7. ASSUME NEW t \in Tasks, LoadToken(t)
        PROVE  GuardExact'
    <2>1. CASE Goto(t, "wait") /\ UNCHANGED <<file, server, lock, command,
                                              request, refresh, buf>>
      BY <1>2, <1>7, <2>1, GuardKept DEF LoadToken, Guarded
    <2> QED
      BY <1>3, <1>4, <1>7, <2>1 DEF LoadToken
  <1>8. ASSUME NEW t \in Tasks, Acquire(t)
        PROVE  GuardExact'
    BY <1>8, ConstantsAssumption
    DEF Acquire, Guarded, GuardExact, TypeOK, SharedTypes, LocalTypes
  <1>9. ASSUME NEW t \in Tasks, Reload(t)
        PROVE  GuardExact'
    <2>1. CASE /\ snap' = [snap EXCEPT ![t] = Current(t)] /\ Goto(t, "ask")
               /\ UNCHANGED <<file, server, lock, command, request, tries, got,
                              buf>>
      BY <1>2, <1>9, <2>1, GuardKept DEF Reload, Guarded
    <2> QED
      BY <1>3, <1>4, <1>5, <1>9, <2>1 DEF Reload
  <1>10. ASSUME NEW t \in Tasks, GiveUp(t)
         PROVE  GuardExact'
    BY <1>10, GuardEnd DEF GiveUp
  <1>11. ASSUME NEW t \in Tasks, UNCHANGED <<lock, pc, prof>>
         PROVE  GuardExact'
    BY <1>11 DEF GuardExact
  <1>12. ASSUME NEW t \in Tasks,
                AskGranted(t) \/ AskInvalidGrant(t) \/ SaveLoad(t)
         PROVE  GuardExact'
    BY <1>2, <1>12, GuardKept
    DEF AskGranted, AskInvalidGrant, SaveLoad, Guarded
  <1>13. ASSUME NEW t \in Tasks, AskLost(t) \/ AskTransient(t) \/ AskTerminal(t)
         PROVE  GuardExact'
    BY <1>10, <1>11, <1>13 DEF AskLost, AskTransient, AskTerminal, RetryRefresh
  <1>14. ASSUME NEW t \in Tasks, Save(t)
         PROVE  GuardExact'
    <2>1. CASE Goto(t, "reread") /\ UNCHANGED <<lock, tok, phase>>
      BY <1>2, <1>14, <2>1, GuardKept DEF Save, Guarded
    <2> QED
      BY <1>4, <1>5, <1>14, <2>1 DEF Save
  <1>15. ASSUME NEW t \in Tasks, Reread(t)
         PROVE  GuardExact'
    BY <1>3, <1>4, <1>15 DEF Reread
  <1>16. ASSUME NEW t \in Tasks, ClearLoad(t)
         PROVE  GuardExact'
    <2>1. CASE Goto(t, "clear") /\ UNCHANGED <<lock, command>>
      BY <1>2, <1>16, <2>1, GuardKept DEF ClearLoad, Guarded
    <2> QED
      BY <1>3, <1>16, <2>1 DEF ClearLoad
  <1>17. ASSUME NEW t \in Tasks, Clear(t)
         PROVE  GuardExact'
    BY <1>17, GuardEnd DEF Clear
  <1>18. ASSUME NEW t \in Tasks,
                LoginSave(t) \/ LogoutSave(t) \/ ConfigSave(t)
         PROVE  GuardExact'
    BY <1>18, ForgetMoves, GuardKept
    DEF LoginSave, LogoutSave, ConfigSave, Guarded
  <1>19. ASSUME NEW t \in Tasks, SendRetry(t)
         PROVE  GuardExact'
    BY <1>2, <1>19, GuardKept DEF SendRetry, FirstStep, Guarded
  <1>20. ASSUME NEW t \in Tasks, Unauthorized(t)
         PROVE  GuardExact'
    <2>1. CASE Goto(t, "wait") /\ UNCHANGED <<lock, command>>
      BY <1>2, <1>20, <2>1, GuardKept DEF Unauthorized, Guarded
    <2> QED
      BY <1>3, <1>20, <2>1 DEF Unauthorized
  <1>21. ASSUME NEW t \in Tasks,
                AcquireTimeout(t) \/ SaveFails(t) \/ Answered(t) \/ Crash(t)
         PROVE  GuardExact'
    BY <1>3, <1>21 DEF AcquireTimeout, SaveFails, Answered, Crash
  <1>22. ASSUME NEW g \in Grants, GrowOlder(g)
         PROVE  GuardExact'
    BY <1>22 DEF GrowOlder, GuardExact
  <1>23. CASE UNCHANGED vars
    BY <1>23 DEF vars, GuardExact
  <1> QED
    BY <1>1, <1>6, <1>7, <1>8, <1>9, <1>12, <1>13, <1>14, <1>15, <1>16, <1>17,
       <1>18, <1>19, <1>20, <1>21, <1>22, <1>23
    DEF Next, Step

\* Two tasks are never inside the refresh section of one Profile, and the lock is
\* never held by a task that left it: RefreshLockGuard::acquire and Drop.
THEOREM GuardIsExact == Spec => []GuardExact
  <1>1. Init => GuardExact
    BY ConstantsAssumption DEF Init, GuardExact, Guarded
  <1>2. TypeOK /\ GuardExact /\ [Next]_vars => GuardExact'
    BY StepGuard
  <1> QED
    BY <1>1, <1>2, TypeCorrect, PTL DEF Spec

-----------------------------------------------------------------------------
(* No grant is lost while one Profile is in use and no command replaces the   *)
(* file without changing its OAuth group.                                     *)

Isolated ==
    /\ \A f, g \in Profiles : f = g
    /\ "config" \notin Kinds

HoldsNew(t) == pc[t] \in {"saveload", "save", "loginsave"}

\* A grant that a task has obtained and not saved yet is known to nobody else.
NewGrantPrivate ==
    \A t \in Tasks : HoldsNew(t) =>
        /\ got[t] \in live
        /\ \A f \in Profiles : file[f] # got[t]
        /\ \A u \in Tasks : snap[u] # got[t]
        /\ \A u \in Tasks \ {t} : HoldsNew(u) => got[u] # got[t]

AskedGrantKnown ==
    \A t \in Tasks : pc[t] = "ask" => snap[t] \in live \cup dropped

OnlyIssuedGrants ==
    /\ \A f \in Profiles : file[f] <= minted
    /\ \A t \in Tasks : snap[t] <= minted /\ got[t] <= minted

NoConfigWriter == \A t \in Tasks : pc[t] # "configsave"

IsolatedInv ==
    /\ StoredGrantAlive
    /\ InvalidGrantOnlyAfterLoss
    /\ NewGrantPrivate
    /\ AskedGrantKnown
    /\ OnlyIssuedGrants
    /\ NoConfigWriter

\* A step of t that touches no grant.
OthersKeep(t) ==
    /\ \A u \in Tasks \ {t} :
          pc'[u] = pc[u] /\ snap'[u] = snap[u] /\ got'[u] = got[u]
    /\ \A f \in Profiles, u \in Tasks \ {t} : lock[f] = u => lock'[f] = u

Quiet(t) ==
    /\ UNCHANGED <<file, minted, live, dropped>>
    /\ OthersKeep(t)
    /\ pc[t] \notin {"saveload", "save"}
    /\ pc'[t] \notin {"ask", "saveload", "save", "clearload", "clear",
                      "loginsave", "configsave"}
    /\ snap'[t] \in {0, snap[t]}
    /\ got'[t] \in {0, got[t]}

LEMMA QuietIso ==
  ASSUME TypeOK, IsolatedInv, NEW t \in Tasks, Quiet(t)
  PROVE  IsolatedInv'
  <1> USE DEF IsolatedInv, Quiet, OthersKeep
  <1>1. StoredGrantAlive'
    BY DEF StoredGrantAlive
  <1>2. InvalidGrantOnlyAfterLoss' /\ AskedGrantKnown' /\ NoConfigWriter'
    BY DEF InvalidGrantOnlyAfterLoss, AskedGrantKnown, NoConfigWriter
  <1>3. 0 \notin live
    BY DEF TypeOK, SharedTypes, Grants
  <1>4. NewGrantPrivate'
    BY <1>3 DEF NewGrantPrivate, HoldsNew
  <1>5. OnlyIssuedGrants'
    <2>1. minted' = minted /\ 0 <= minted
      BY ConstantsAssumption DEF TypeOK, SharedTypes, Stored
    <2> QED
      BY <2>1 DEF OnlyIssuedGrants
  <1> QED
    BY <1>1, <1>2, <1>4, <1>5

LEMMA LockWithoutOthers ==
  ASSUME TypeOK, NEW t \in Tasks, lock' = LockWithout(t)
  PROVE  \A f \in Profiles, u \in Tasks \ {t} : lock[f] = u => lock'[f] = u
  BY DEF TypeOK, SharedTypes, LockWithout

LEMMA ForgetOthers ==
  ASSUME TypeOK, NEW t \in Tasks, Forget(t),
         UNCHANGED lock \/ lock' = LockWithout(t)
  PROVE  /\ OthersKeep(t)
         /\ pc'[t] = "idle" /\ snap'[t] = 0 /\ got'[t] = 0
  BY LockWithoutOthers DEF TypeOK, LocalTypes, Forget, Goto, OthersKeep

LEMMA EndIso ==
  ASSUME TypeOK, IsolatedInv, NEW t \in Tasks, End(t)
  PROVE  IsolatedInv'
  <1>1. /\ OthersKeep(t)
        /\ pc'[t] = "idle" /\ snap'[t] = 0 /\ got'[t] = 0
        /\ UNCHANGED <<file, minted, live>>
    BY ForgetOthers DEF End
  <1>2. CASE pc[t] \notin {"saveload", "save"}
    <2>1. dropped' = dropped
      BY <1>2 DEF End, DroppedBy
    <2> QED
      BY <1>1, <1>2, <2>1, QuietIso DEF Quiet
  <1>3. CASE pc[t] \in {"saveload", "save"}
    <2> USE <1>1 DEF IsolatedInv, OthersKeep
    <2>1. dropped' = dropped \cup {snap[t]}
      BY <1>3 DEF End, DroppedBy
    <2>2. StoredGrantAlive'
      BY <2>1 DEF StoredGrantAlive
    <2>3. InvalidGrantOnlyAfterLoss' /\ AskedGrantKnown' /\ NoConfigWriter'
      BY <2>1 DEF InvalidGrantOnlyAfterLoss, AskedGrantKnown, NoConfigWriter
    <2>4. 0 \notin live
      BY DEF TypeOK, SharedTypes, Grants
    <2>5. NewGrantPrivate'
      BY <2>4 DEF NewGrantPrivate, HoldsNew
    <2>6. OnlyIssuedGrants'
      <3>1. minted' = minted /\ 0 <= minted
        BY ConstantsAssumption DEF TypeOK, SharedTypes, Stored
      <3> QED
        BY <3>1 DEF OnlyIssuedGrants
    <2> QED
      BY <2>2, <2>3, <2>5, <2>6
  <1> QED
    BY <1>2, <1>3

\* A whole-file save of the only Profile leaves what it meant to write.
LEMMA SoleRecord ==
  ASSUME TypeOK, Isolated, NEW t \in Tasks, NEW x \in Stored,
         file' = [buf[t] EXCEPT ![prof[t]] = x]
  PROVE  \A f \in Profiles : file'[f] = x
  BY DEF TypeOK, LocalTypes, Isolated

\* A save that ends the command of t.
LEMMA FinalSaveIso ==
  ASSUME TypeOK, IsolatedInv, NEW t \in Tasks, NEW x \in Stored,
         \A f \in Profiles : file'[f] = x, x <= minted,
         x = 0 \/ (x \in live /\ HoldsNew(t) /\ x = got[t]),
         Forget(t), UNCHANGED server, UNCHANGED lock \/ lock' = LockWithout(t)
  PROVE  IsolatedInv'
  <1>1. /\ OthersKeep(t)
        /\ pc'[t] = "idle" /\ snap'[t] = 0 /\ got'[t] = 0
    BY ForgetOthers
  <1> USE <1>1 DEF IsolatedInv, OthersKeep
  <1>2. StoredGrantAlive'
    BY DEF StoredGrantAlive
  <1>3. InvalidGrantOnlyAfterLoss' /\ AskedGrantKnown' /\ NoConfigWriter'
    BY DEF InvalidGrantOnlyAfterLoss, AskedGrantKnown, NoConfigWriter
  <1>4. 0 \notin live
    BY DEF TypeOK, SharedTypes, Grants
  <1>5. NewGrantPrivate'
    BY <1>4 DEF NewGrantPrivate, HoldsNew
  <1>6. OnlyIssuedGrants'
    <2>1. minted' = minted /\ 0 <= minted
      BY ConstantsAssumption DEF TypeOK, SharedTypes, Stored
    <2> QED
      BY <2>1 DEF OnlyIssuedGrants
  <1> QED
    BY <1>2, <1>3, <1>5, <1>6

\* The server issues a grant and at most the Refresh Token of t's snapshot is
\* consumed by it.
LEMMA MintFresh ==
  ASSUME TypeOK, IsolatedInv, NEW f \in Profiles, NEW i \in Instances,
         NEW consumed, Mint(f, i, consumed)
  PROVE  /\ minted' = minted + 1 /\ minted' \in Grants
         /\ live' = (live \ consumed) \cup {minted'}
         /\ \A p \in Profiles : file[p] # minted' /\ file[p] <= minted'
         /\ \A u \in Tasks : /\ snap[u] # minted' /\ got[u] # minted'
                             /\ snap[u] <= minted' /\ got[u] <= minted'
  <1>1. minted' = minted + 1 /\ minted' \in Grants
        /\ live' = (live \ consumed) \cup {minted'}
    BY MintTypes DEF TypeOK, Mint
  <1>2. minted \in Nat
    BY ConstantsAssumption DEF TypeOK, SharedTypes, Stored
  <1>3. /\ \A p \in Profiles : file[p] \in Nat
        /\ \A u \in Tasks : snap[u] \in Nat /\ got[u] \in Nat
    BY DEF TypeOK, SharedTypes, LocalTypes, Stored
  <1> QED
    BY <1>1, <1>2, <1>3 DEF IsolatedInv, OnlyIssuedGrants

LEMMA LoginLoadIso ==
  ASSUME TypeOK, IsolatedInv, NEW t \in Tasks, NEW f \in Profiles,
         NEW i \in Instances, LoginLoad(t, f, i)
  PROVE  IsolatedInv'
  <1>1. Mint(f, i, {})
    BY DEF LoginLoad
  <1>2. /\ OthersKeep(t)
        /\ pc[t] = "idle" /\ pc'[t] = "loginsave"
        /\ snap'[t] = snap[t] /\ got'[t] = minted'
        /\ UNCHANGED <<file, dropped, lock>>
    BY <1>1, MintFresh
    DEF LoginLoad, OthersKeep, Goto, TypeOK, LocalTypes
  <1>3. live \subseteq live' /\ minted' \in live'
    BY <1>1, MintFresh
  <1> USE <1>1, <1>2, <1>3, MintFresh DEF IsolatedInv, OthersKeep
  <1>4. StoredGrantAlive'
    BY DEF StoredGrantAlive
  <1>5. InvalidGrantOnlyAfterLoss' /\ AskedGrantKnown' /\ NoConfigWriter'
    BY DEF InvalidGrantOnlyAfterLoss, AskedGrantKnown, NoConfigWriter
  <1>6. NewGrantPrivate'
    BY DEF NewGrantPrivate, HoldsNew
  <1>7. OnlyIssuedGrants'
    <2>1. minted' <= minted'
      BY DEF Grants
    <2> QED
      BY <2>1 DEF OnlyIssuedGrants
  <1> QED
    BY <1>4, <1>5, <1>6, <1>7

\* While t asks, nobody else has asked with the same grant: it alone holds the
\* lock of the only Profile.
LEMMA SoleAsker ==
  ASSUME TypeOK, GuardExact, Isolated, NEW t \in Tasks, pc[t] \in Guarded
  PROVE  \A u \in Tasks \ {t} : pc[u] \notin Guarded
  BY DEF TypeOK, LocalTypes, GuardExact, Isolated

LEMMA AskGrantedIso ==
  ASSUME TypeOK, GuardExact, Isolated, IsolatedInv, NEW t \in Tasks,
         AskGranted(t)
  PROVE  IsolatedInv'
  <1>1. /\ prof[t] \in Profiles /\ inst[snap[t]] \in Instances
        /\ Mint(prof[t], inst[snap[t]], {snap[t]})
    BY DEF AskGranted, TypeOK, SharedTypes, LocalTypes
  <1>2. /\ OthersKeep(t)
        /\ pc[t] = "ask" /\ pc'[t] = "saveload"
        /\ snap'[t] = snap[t] /\ got'[t] = minted'
        /\ UNCHANGED <<file, dropped, lock>>
    BY <1>1, MintFresh
    DEF AskGranted, OthersKeep, Goto, TypeOK, LocalTypes
  <1>3. live \ {snap[t]} \subseteq live' /\ minted' \in live'
    BY <1>1, MintFresh
  <1>4. \A u \in Tasks \ {t} : pc[u] \notin Guarded
    BY <1>2, SoleAsker DEF Guarded
  <1>5. \A f \in Profiles : lock'[f] = t
    BY <1>2 DEF GuardExact, Guarded, Isolated, TypeOK, LocalTypes
  <1> USE <1>1, <1>2, <1>3, <1>4, <1>5, MintFresh
      DEF IsolatedInv, OthersKeep, Guarded
  <1>6. StoredGrantAlive'
    BY DEF StoredGrantAlive
  <1>7. InvalidGrantOnlyAfterLoss' /\ AskedGrantKnown' /\ NoConfigWriter'
    BY DEF InvalidGrantOnlyAfterLoss, AskedGrantKnown, NoConfigWriter
  <1>8. NewGrantPrivate'
    BY DEF NewGrantPrivate, HoldsNew
  <1>9. OnlyIssuedGrants'
    <2>1. minted' <= minted'
      BY DEF Grants
    <2> QED
      BY <2>1 DEF OnlyIssuedGrants
  <1> QED
    BY <1>6, <1>7, <1>8, <1>9

LEMMA AskLostIso ==
  ASSUME TypeOK, GuardExact, Isolated, IsolatedInv, NEW t \in Tasks, AskLost(t)
  PROVE  IsolatedInv'
  <1>1. /\ prof[t] \in Profiles /\ inst[snap[t]] \in Instances
        /\ Mint(prof[t], inst[snap[t]], {snap[t]})
    BY DEF AskLost, TypeOK, SharedTypes, LocalTypes
  <1>2. /\ OthersKeep(t)
        /\ pc[t] = "ask" /\ pc'[t] \in {"ask", "idle"}
        /\ snap'[t] \in {0, snap[t]} /\ got'[t] \in {0, got[t]}
        /\ pc'[t] = "ask" => snap'[t] = snap[t]
        /\ dropped' = dropped \cup {snap[t]}
        /\ UNCHANGED file
    BY <1>1, ForgetOthers
    DEF AskLost, RetryRefresh, GiveUp, OthersKeep, TypeOK, LocalTypes
  <1>3. live \ {snap[t]} \subseteq live'
    BY <1>1, MintFresh
  <1>4. \A u \in Tasks \ {t} : pc[u] \notin Guarded
    BY <1>2, SoleAsker DEF Guarded
  <1> USE <1>1, <1>2, <1>3, <1>4, MintFresh DEF IsolatedInv, OthersKeep, Guarded
  <1>5. StoredGrantAlive'
    BY DEF StoredGrantAlive
  <1>6. InvalidGrantOnlyAfterLoss' /\ AskedGrantKnown' /\ NoConfigWriter'
    BY DEF InvalidGrantOnlyAfterLoss, AskedGrantKnown, NoConfigWriter
  <1>7. NewGrantPrivate'
    <2>1. 0 \notin live
      BY DEF TypeOK, SharedTypes, Grants
    <2> QED
      BY <2>1 DEF NewGrantPrivate, HoldsNew
  <1>8. OnlyIssuedGrants'
    <2>1. 0 <= minted'
      BY DEF Grants
    <2> QED
      BY <2>1 DEF OnlyIssuedGrants
  <1> QED
    BY <1>5, <1>6, <1>7, <1>8

\* The reload that decides to refresh: the task holds the lock of the only
\* Profile, so nobody is replacing the Refresh Token it read.
LEMMA ReloadAskIso ==
  ASSUME TypeOK, GuardExact, Isolated, IsolatedInv, NEW t \in Tasks,
         pc[t] = "reload", Current(t) # 0,
         snap' = [snap EXCEPT ![t] = Current(t)], Goto(t, "ask"),
         UNCHANGED <<file, server, lock, command, request, tries, got, buf>>
  PROVE  IsolatedInv'
  <1>1. prof[t] \in Profiles /\ lock[prof[t]] = t
    BY DEF GuardExact, Guarded, TypeOK, LocalTypes
  <1>2. /\ OthersKeep(t) /\ pc'[t] = "ask" /\ snap'[t] = file[prof[t]]
        /\ UNCHANGED <<file, minted, live, dropped, lock, got>>
    BY DEF OthersKeep, Goto, TypeOK, LocalTypes, Current
  <1>3. file[prof[t]] \in live \cup dropped
    <2>1. file[prof[t]] # 0
      BY DEF Current
    <2> QED
      BY <1>1, <2>1 DEF IsolatedInv, StoredGrantAlive
  <1> USE <1>1, <1>2, <1>3 DEF IsolatedInv, OthersKeep
  <1>4. StoredGrantAlive'
    BY DEF StoredGrantAlive
  <1>5. InvalidGrantOnlyAfterLoss' /\ AskedGrantKnown' /\ NoConfigWriter'
    BY DEF InvalidGrantOnlyAfterLoss, AskedGrantKnown, NoConfigWriter
  <1>6. NewGrantPrivate'
    BY DEF NewGrantPrivate, HoldsNew
  <1>7. OnlyIssuedGrants'
    BY DEF OnlyIssuedGrants
  <1> QED
    BY <1>4, <1>5, <1>6, <1>7

\* Steps inside the refresh that only change the location of t.
LEMMA AdvanceIso ==
  ASSUME TypeOK, IsolatedInv, NEW t \in Tasks, NEW l, Goto(t, l),
         UNCHANGED <<file, minted, live, dropped, lock, snap, got>>,
         \/ pc[t] = "saveload" /\ l = "save"
         \/ pc[t] = "ask" /\ l = "clearload" /\ snap[t] \notin live
         \/ pc[t] = "clearload" /\ l = "clear"
  PROVE  IsolatedInv'
  <1>1. OthersKeep(t) /\ pc'[t] = l
    BY DEF OthersKeep, Goto, TypeOK, LocalTypes
  <1> USE <1>1 DEF IsolatedInv, OthersKeep
  <1>2. StoredGrantAlive'
    BY DEF StoredGrantAlive
  <1>3. InvalidGrantOnlyAfterLoss' /\ AskedGrantKnown' /\ NoConfigWriter'
    BY DEF InvalidGrantOnlyAfterLoss, AskedGrantKnown, NoConfigWriter
  <1>4. NewGrantPrivate'
    BY DEF NewGrantPrivate, HoldsNew
  <1>5. OnlyIssuedGrants'
    BY DEF OnlyIssuedGrants
  <1> QED
    BY <1>2, <1>3, <1>4, <1>5

LEMMA SaveIso ==
  ASSUME TypeOK, Isolated, IsolatedInv, NEW t \in Tasks, Save(t)
  PROVE  IsolatedInv'
  <1>1. /\ HoldsNew(t) /\ got[t] \in live /\ got[t] \in Stored
        /\ got[t] <= minted
    BY DEF Save, HoldsNew, IsolatedInv, NewGrantPrivate, OnlyIssuedGrants,
           TypeOK, LocalTypes
  <1>2. \A f \in Profiles : file'[f] = got[t]
    BY <1>1, SoleRecord DEF Save
  <1>3. pc'[t] \in {"validate", "token", "send", "reread"}
    BY DEF Save, Replay, Attach, Goto, FirstStep, TypeOK, LocalTypes
  <1>4. /\ OthersKeep(t) /\ snap'[t] = 0 /\ got'[t] = 0
        /\ UNCHANGED <<minted, live, dropped>>
    <2>1. UNCHANGED lock \/ lock' = LockWithout(t)
      BY DEF Save, Replay, Attach
    <2>2. \E l : pc' = [pc EXCEPT ![t] = l]
      BY DEF Save, Replay, Attach, Goto
    <2> QED
      BY <2>1, <2>2, LockWithoutOthers
      DEF Save, OthersKeep, TypeOK, LocalTypes
  <1> USE <1>1, <1>2, <1>3, <1>4 DEF IsolatedInv, OthersKeep
  <1>5. StoredGrantAlive'
    BY DEF StoredGrantAlive
  <1>6. InvalidGrantOnlyAfterLoss' /\ AskedGrantKnown' /\ NoConfigWriter'
    BY DEF InvalidGrantOnlyAfterLoss, AskedGrantKnown, NoConfigWriter
  <1>7. NewGrantPrivate'
    <2>1. 0 \notin live
      BY DEF TypeOK, SharedTypes, Grants
    <2> QED
      BY <2>1 DEF NewGrantPrivate, HoldsNew
  <1>8. OnlyIssuedGrants'
    <2>1. minted' = minted /\ 0 <= minted
      BY ConstantsAssumption DEF TypeOK, SharedTypes, Stored
    <2> QED
      BY <2>1 DEF OnlyIssuedGrants
  <1> QED
    BY <1>5, <1>6, <1>7, <1>8

\* Beginning a command, authenticating and answering touch no grant.
LEMMA GotoQuiet ==
  ASSUME TypeOK, NEW t \in Tasks, NEW l, Goto(t, l),
         UNCHANGED <<file, minted, live, dropped, snap, got>>,
         UNCHANGED lock \/ lock' = LockWithout(t),
         pc[t] \notin {"saveload", "save"},
         l \notin {"ask", "saveload", "save", "clearload", "clear",
                   "loginsave", "configsave"}
  PROVE  Quiet(t)
  BY LockWithoutOthers DEF TypeOK, LocalTypes, Goto, Quiet, OthersKeep

LEMMA QuietSteps ==
  ASSUME TypeOK, GuardExact, Isolated, IsolatedInv, NEW t \in Tasks,
         \/ ValidateInstance(t) \/ LoadToken(t) \/ Acquire(t) \/ Reload(t)
         \/ Reread(t) \/ SendRetry(t) \/ Unauthorized(t)
  PROVE  IsolatedInv'
  <1>1. CASE End(t)
    BY <1>1, EndIso
  <1> DEFINE Plain == {"validate", "token", "wait", "reload", "send"}
  <1>2. CASE /\ \E l \in Plain : Goto(t, l)
             /\ UNCHANGED <<file, minted, live, dropped, snap, got>>
             /\ UNCHANGED lock \/ lock' = LockWithout(t)
             /\ pc[t] \notin {"saveload", "save"}
    BY <1>2, GotoQuiet, QuietIso
  <1>3. \A k : FirstStep(k) \in Plain
    BY DEF FirstStep
  <1>4. CASE ValidateInstance(t)
    BY <1>1, <1>2, <1>4 DEF ValidateInstance
  <1>5. CASE LoadToken(t)
    BY <1>1, <1>2, <1>5 DEF LoadToken, Attach
  <1>6. CASE Acquire(t)
    <2>1. Quiet(t)
      BY <1>6, ConstantsAssumption
      DEF Acquire, Goto, Quiet, OthersKeep, TypeOK, SharedTypes, LocalTypes
    <2> QED
      BY <2>1, QuietIso
  <1>7. CASE Reload(t)
    <2>1. CASE /\ snap' = [snap EXCEPT ![t] = Current(t)] /\ Goto(t, "ask")
               /\ Current(t) # 0
               /\ UNCHANGED <<file, server, lock, command, request, tries, got,
                              buf>>
      BY <1>7, <2>1, ReloadAskIso DEF Reload
    <2>2. CASE /\ Attach(t, Current(t))
               /\ UNCHANGED <<file, server, command, rejected, phase, attempt,
                              refresh, buf>>
      BY <1>2, <1>7, <2>2 DEF Reload, Attach
    <2>3. CASE /\ Replay(t)
               /\ UNCHANGED <<file, server, command, tok, rejected, attempt,
                              refresh, buf>>
      BY <1>2, <1>3, <1>7, <2>3 DEF Reload, Replay
    <2> QED
      BY <1>1, <1>7, <2>1, <2>2, <2>3 DEF Reload
  <1>8. CASE Reread(t)
    BY <1>1, <1>2, <1>8 DEF Reread, Attach
  <1>9. CASE SendRetry(t)
    <2>1. \E l \in Plain : Goto(t, l)
      BY <1>3, <1>9 DEF SendRetry
    <2> QED
      BY <1>2, <1>9, <2>1 DEF SendRetry
  <1>10. CASE Unauthorized(t)
    BY <1>1, <1>2, <1>10 DEF Unauthorized
  <1> QED
    BY <1>4, <1>5, <1>6, <1>7, <1>8, <1>9, <1>10

LEMMA BeginIso ==
  ASSUME TypeOK, Isolated, IsolatedInv, NEW t \in Tasks, Begin(t)
  PROVE  IsolatedInv'
  <1>1. ASSUME NEW k \in RequestKinds, NEW f \in Profiles, NEW i \in Instances,
               BeginRequest(t, k, f, i) \/ BeginEnvironment(t, k, f, i)
        PROVE  IsolatedInv'
    <2>1. \E l \in {"validate", "token", "send"} : Goto(t, l)
      BY <1>1 DEF BeginRequest, BeginEnvironment, FirstStep
    <2>2. /\ UNCHANGED <<file, minted, live, dropped, snap, got, lock>>
          /\ pc[t] = "idle"
      BY <1>1 DEF BeginRequest, BeginEnvironment
    <2> QED
      BY <2>1, <2>2, GotoQuiet, QuietIso
  <1>2. ASSUME NEW f \in Profiles, LogoutLoad(t, f)
        PROVE  IsolatedInv'
    BY <1>2, GotoQuiet, QuietIso DEF LogoutLoad
  <1> QED
    BY <1>1, <1>2, LoginLoadIso DEF Begin, ConfigLoad, Isolated

LEMMA StepIso ==
  TypeOK /\ GuardExact /\ Isolated /\ IsolatedInv /\ [Next]_vars => IsolatedInv'
  <1> SUFFICES ASSUME TypeOK, GuardExact, Isolated, IsolatedInv, [Next]_vars
               PROVE  IsolatedInv'
    OBVIOUS
  <1>1. ASSUME NEW t \in Tasks,
               \/ AcquireTimeout(t) \/ SaveFails(t) \/ Answered(t) \/ Crash(t)
        PROVE  IsolatedInv'
    BY <1>1, EndIso DEF AcquireTimeout, SaveFails, Answered, Crash
  <1>2. ASSUME UNCHANGED <<file, minted, live, dropped, lock, pc, snap, got>>
        PROVE  IsolatedInv'
    BY <1>2
    DEF IsolatedInv, StoredGrantAlive, InvalidGrantOnlyAfterLoss,
        NewGrantPrivate, AskedGrantKnown, OnlyIssuedGrants, NoConfigWriter,
        HoldsNew
  <1>3. ASSUME NEW t \in Tasks, AskTransient(t) \/ AskTerminal(t)
        PROVE  IsolatedInv'
    <2>1. CASE RetryRefresh(t) /\ UNCHANGED <<file, server>>
      BY <1>2, <2>1 DEF RetryRefresh
    <2>2. CASE pc[t] = "ask" /\ GiveUp(t) /\ UNCHANGED <<file, server>>
      BY <2>2, EndIso DEF GiveUp, End, DroppedBy
    <2> QED
      BY <1>3, <2>1, <2>2 DEF AskTransient, AskTerminal
  <1>4. ASSUME NEW t \in Tasks,
               AskInvalidGrant(t) \/ SaveLoad(t) \/ ClearLoad(t)
        PROVE  IsolatedInv'
    BY <1>4, AdvanceIso, EndIso DEF AskInvalidGrant, SaveLoad, ClearLoad
  <1>5. ASSUME NEW t \in Tasks, Clear(t) \/ LogoutSave(t)
        PROVE  IsolatedInv'
    <2>1. 0 \in Stored /\ 0 <= minted
      BY ConstantsAssumption DEF TypeOK, SharedTypes, Stored
    <2>2. \A f \in Profiles : file'[f] = 0
      BY <1>5, <2>1, SoleRecord DEF Clear, LogoutSave
    <2> QED
      BY <1>5, <2>1, <2>2, FinalSaveIso DEF Clear, LogoutSave
  <1>6. ASSUME NEW t \in Tasks, LoginSave(t)
        PROVE  IsolatedInv'
    <2>1. /\ HoldsNew(t) /\ got[t] \in live /\ got[t] \in Stored
          /\ got[t] <= minted
      BY <1>6
      DEF LoginSave, HoldsNew, IsolatedInv, NewGrantPrivate, OnlyIssuedGrants,
          TypeOK, LocalTypes
    <2>2. \A f \in Profiles : file'[f] = got[t]
      BY <1>6, <2>1, SoleRecord DEF LoginSave
    <2> QED
      BY <1>6, <2>1, <2>2, FinalSaveIso DEF LoginSave
  <1>7. ASSUME NEW t \in Tasks, ConfigSave(t)
        PROVE  IsolatedInv'
    BY <1>7 DEF ConfigSave, IsolatedInv, NoConfigWriter
  <1>8. ASSUME NEW g \in Grants, GrowOlder(g)
        PROVE  IsolatedInv'
    BY <1>2, <1>8 DEF GrowOlder
  <1>9. CASE UNCHANGED vars
    BY <1>2, <1>9 DEF vars
  <1> QED
    BY <1>1, <1>3, <1>4, <1>5, <1>6, <1>7, <1>8, <1>9, BeginIso, QuietSteps,
       AskGrantedIso, AskLostIso, SaveIso
    DEF Next, Step

\* With one Profile in use and no config writer, the coordinated refresh never
\* wastes a grant: the stored Refresh Token is the one the server accepts or its
\* loss is explained by a crash, a failed write or a lost response, and
\* clear_invalid_grant erases a login only after such a loss.
THEOREM NoGrantLost == Isolated => (Spec => []GrantNotLost)
  <1> SUFFICES ASSUME Isolated PROVE Spec => []GrantNotLost
    OBVIOUS
  <1>1. Init => IsolatedInv
    BY ConstantsAssumption
    DEF Init, IsolatedInv, StoredGrantAlive, InvalidGrantOnlyAfterLoss,
        NewGrantPrivate, AskedGrantKnown, OnlyIssuedGrants, NoConfigWriter,
        HoldsNew
  <1>2. TypeOK /\ GuardExact /\ IsolatedInv /\ [Next]_vars => IsolatedInv'
    BY StepIso
  <1>3. IsolatedInv => GrantNotLost
    BY DEF IsolatedInv, GrantNotLost
  <1> QED
    BY <1>1, <1>2, <1>3, TypeCorrect, GuardIsExact, PTL DEF Spec
-----------------------------------------------------------------------------
(* Where grants come from: the Profile and the Instance of every stored,      *)
(* buffered, obtained or attached grant.                                      *)

\* Grant g, if there is one, was issued to Profile f.
Belongs(g, f) == g # 0 => g <= minted /\ owner[g] = f

AtHome(t) ==
    /\ Belongs(tok[t], prof[t])
    /\ Belongs(got[t], prof[t])
    /\ \A f \in Profiles : Belongs(buf[t][f], f)
    /\ tok[t] # 0 => pc[t] = "send"
    /\ got[t] # 0 => HoldsNew(t)
    /\ kind[t] = "share" /\ tok[t] # 0 => inst[tok[t]] = want[t]

FileAtHome == \A f \in Profiles : Belongs(file[f], f)

Provenance == FileAtHome /\ \A t \in Tasks : AtHome(t)

\* What was issued stays issued, to the same Profile and Instance.
Kept ==
    /\ \A g \in Stored, f \in Profiles : Belongs(g, f) => Belongs(g, f)'
    /\ \A g \in Grants : g <= minted => inst'[g] = inst[g]

\* The locals of every task but t that say which grants it has.
OthersAway(t) ==
    \A u \in Tasks \ {t} :
        /\ pc'[u] = pc[u] /\ kind'[u] = kind[u] /\ prof'[u] = prof[u]
        /\ want'[u] = want[u] /\ tok'[u] = tok[u] /\ rejected'[u] = rejected[u]
        /\ phase'[u] = phase[u] /\ got'[u] = got[u] /\ buf'[u] = buf[u]

LEMMA MintKeeps ==
  ASSUME TypeOK, NEW f \in Profiles, NEW i \in Instances, NEW consumed,
         Mint(f, i, consumed)
  PROVE  /\ Kept
         /\ minted' \in Grants /\ minted' # 0 /\ minted' = minted + 1
         /\ owner'[minted'] = f /\ inst'[minted'] = i
  <1>1. minted' \in Grants /\ minted' = minted + 1 /\ minted \in Nat
    BY MintTypes, ConstantsAssumption DEF TypeOK, SharedTypes, Stored
  <1>2. /\ owner' = [owner EXCEPT ![minted'] = f]
        /\ inst' = [inst EXCEPT ![minted'] = i]
    BY <1>1 DEF Mint
  <1>3. /\ owner'[minted'] = f /\ inst'[minted'] = i
        /\ \A g \in Grants : g <= minted => owner'[g] = owner[g]
                                            /\ inst'[g] = inst[g]
    BY <1>1, <1>2 DEF TypeOK, SharedTypes, Grants
  <1>4. \A g \in Stored : g # 0 => g \in Grants
    BY Constants
  <1> QED
    BY <1>1, <1>3, <1>4 DEF Kept, Belongs, Grants, Stored

LEMMA NoMintKeeps ==
  ASSUME UNCHANGED <<minted, owner, inst>>
  PROVE  Kept
  BY DEF Kept, Belongs

LEMMA ForgetsAll ==
  ASSUME TypeOK, NEW t \in Tasks, Forget(t)
  PROVE  /\ OthersAway(t)
         /\ pc'[t] = "idle" /\ tok'[t] = 0 /\ got'[t] = 0
         /\ rejected'[t] = 0 /\ phase'[t] = "first"
         /\ \A f \in Profiles : buf'[t][f] = 0
  BY DEF Forget, Goto, OthersAway, TypeOK, LocalTypes

\* A step that issues nothing and writes nothing, of a task that keeps its
\* command.
LEMMA HomeMoves ==
  ASSUME TypeOK, Provenance, NEW t \in Tasks, OthersAway(t), Kept, FileAtHome',
         kind'[t] = kind[t], prof'[t] = prof[t], want'[t] = want[t],
         tok'[t] \in {0, tok[t]}, tok'[t] # 0 => pc'[t] = "send",
         got'[t] \in {0, got[t]}, got'[t] # 0 => HoldsNew(t)',
         buf'[t] \in {buf[t], file} \/ \A f \in Profiles : buf'[t][f] = 0
  PROVE  Provenance'
  <1>1. ASSUME NEW u \in Tasks \ {t}
        PROVE  AtHome(u)'
    <2>1. AtHome(u) /\ tok[u] \in Stored /\ got[u] \in Stored
          /\ prof[u] \in Profiles /\ buf[u] \in [Profiles -> Stored]
          /\ (tok[u] # 0 => tok[u] \in Grants)
      BY Constants DEF Provenance, TypeOK, LocalTypes
    <2> QED
      BY <2>1 DEF AtHome, OthersAway, Kept, HoldsNew, Belongs
  <1>2. /\ AtHome(t) /\ tok[t] \in Stored /\ got[t] \in Stored
        /\ prof[t] \in Profiles /\ (tok[t] # 0 => tok[t] \in Grants)
    BY Constants DEF Provenance, TypeOK, LocalTypes
  <1>3. (\A f \in Profiles : Belongs(buf[t][f], f))'
    <2>1. ASSUME NEW f \in Profiles
          PROVE  /\ file[f] \in Stored /\ Belongs(file[f], f)
                 /\ buf[t][f] \in Stored /\ Belongs(buf[t][f], f)
      BY <1>2 DEF Provenance, FileAtHome, AtHome, TypeOK, SharedTypes, LocalTypes
    <2> QED
      BY <2>1 DEF Kept, Belongs
  <1>4. AtHome(t)'
    BY <1>2, <1>3 DEF AtHome, Kept, Belongs
  <1> QED
    BY <1>1, <1>4 DEF Provenance

\* The file as it was, or replaced by a buffer with one record of its own.
LEMMA FileStays ==
  ASSUME TypeOK, Provenance, Kept, UNCHANGED file
  PROVE  FileAtHome'
  BY DEF TypeOK, SharedTypes, Provenance, FileAtHome, Kept, Belongs

LEMMA FileReplaced ==
  ASSUME TypeOK, Provenance, Kept, NEW t \in Tasks,
         \/ file' = [buf[t] EXCEPT ![prof[t]] = got[t]]
         \/ file' = [buf[t] EXCEPT ![prof[t]] = 0]
         \/ file' = buf[t]
  PROVE  FileAtHome'
  <1>1. ASSUME NEW f \in Profiles
        PROVE  /\ buf[t][f] \in Stored /\ Belongs(buf[t][f], f)
               /\ got[t] \in Stored /\ Belongs(got[t], prof[t])
               /\ file'[f] \in {buf[t][f], 0}
                  \/ (f = prof[t] /\ file'[f] = got[t])
    BY DEF TypeOK, LocalTypes, Provenance, AtHome
  <1> QED
    BY <1>1 DEF FileAtHome, Kept, Belongs

\* The command of t ends.
LEMMA HomeForget ==
  ASSUME TypeOK, Provenance, NEW t \in Tasks, Forget(t), Kept, FileAtHome'
  PROVE  Provenance'
  <1>1. ASSUME NEW u \in Tasks \ {t}
        PROVE  AtHome(u)'
    <2>1. AtHome(u) /\ tok[u] \in Stored /\ got[u] \in Stored
          /\ prof[u] \in Profiles /\ buf[u] \in [Profiles -> Stored]
          /\ (tok[u] # 0 => tok[u] \in Grants)
      BY Constants DEF Provenance, TypeOK, LocalTypes
    <2> QED
      BY <2>1, ForgetsAll DEF AtHome, OthersAway, Kept, HoldsNew, Belongs
  <1>2. AtHome(t)'
    BY ForgetsAll DEF AtHome, Belongs
  <1> QED
    BY <1>1, <1>2 DEF Provenance
\* t attaches a grant of its own Profile.
LEMMA HomeAttach ==
  ASSUME TypeOK, Provenance, NEW t \in Tasks, NEW g \in Stored,
         Belongs(g, prof[t]), tok' = [tok EXCEPT ![t] = g], Goto(t, "send"),
         kind[t] = "share" /\ g # 0 => inst[g] = want[t],
         OthersAway(t), Kept, FileAtHome', UNCHANGED command,
         got'[t] = 0, UNCHANGED buf \/ \A f \in Profiles : buf'[t][f] = 0
  PROVE  Provenance'
  <1>1. ASSUME NEW u \in Tasks \ {t}
        PROVE  AtHome(u)'
    <2>1. AtHome(u) /\ tok[u] \in Stored /\ got[u] \in Stored
          /\ prof[u] \in Profiles /\ buf[u] \in [Profiles -> Stored]
          /\ (tok[u] # 0 => tok[u] \in Grants)
      BY Constants DEF Provenance, TypeOK, LocalTypes
    <2> QED
      BY <2>1 DEF AtHome, OthersAway, Kept, HoldsNew, Belongs
  <1>2. /\ prof'[t] = prof[t] /\ kind'[t] = kind[t] /\ want'[t] = want[t]
        /\ tok'[t] = g /\ pc'[t] = "send" /\ prof[t] \in Profiles
        /\ (g # 0 => g \in Grants)
    BY Constants DEF TypeOK, LocalTypes, Goto
  <1>3. (\A f \in Profiles : Belongs(buf[t][f], f))'
    <2>1. ASSUME NEW f \in Profiles
          PROVE  buf[t][f] \in Stored /\ Belongs(buf[t][f], f)
      BY DEF Provenance, AtHome, TypeOK, LocalTypes
    <2> QED
      BY <2>1 DEF Kept, Belongs
  <1>4. AtHome(t)'
    BY <1>2, <1>3 DEF AtHome, Kept, Belongs
  <1> QED
    BY <1>1, <1>4 DEF Provenance

LEMMA HomeBegin ==
  ASSUME TypeOK, Provenance, NEW t \in Tasks, Begin(t)
  PROVE  Provenance'
  <1>1. pc[t] = "idle" /\ tok[t] = 0 /\ got[t] = 0 /\ UNCHANGED file
    <2>1. pc[t] = "idle" /\ UNCHANGED file
      BY DEF Begin, BeginRequest, BeginEnvironment, LoginLoad, LogoutLoad,
             ConfigLoad
    <2> QED
      BY <2>1 DEF Provenance, AtHome, HoldsNew
  <1>2. ASSUME Kept, OthersAway(t), tok'[t] = 0, NEW f \in Profiles,
               prof'[t] = f,
               \/ got'[t] = 0
               \/ got'[t] = minted' /\ owner'[minted'] = f /\ HoldsNew(t)',
               buf'[t] \in {buf[t], file}
        PROVE  Provenance'
    <2>1. ASSUME NEW u \in Tasks \ {t}
          PROVE  AtHome(u)'
      <3>1. AtHome(u) /\ tok[u] \in Stored /\ got[u] \in Stored
            /\ prof[u] \in Profiles /\ buf[u] \in [Profiles -> Stored]
            /\ (tok[u] # 0 => tok[u] \in Grants)
        BY Constants DEF Provenance, TypeOK, LocalTypes
      <3> QED
        BY <1>2, <3>1 DEF AtHome, OthersAway, Kept, HoldsNew, Belongs
    <2>2. (\A p \in Profiles : Belongs(buf[t][p], p))'
      <3>1. ASSUME NEW p \in Profiles
            PROVE  /\ file[p] \in Stored /\ Belongs(file[p], p)
                   /\ buf[t][p] \in Stored /\ Belongs(buf[t][p], p)
        BY DEF Provenance, FileAtHome, AtHome, TypeOK, SharedTypes, LocalTypes
      <3> QED
        BY <1>2, <3>1 DEF Kept, Belongs
    <2>3. AtHome(t)'
      <3>1. minted' \in Nat => minted' <= minted'
        OBVIOUS
      <3>2. got'[t] # 0 => minted' \in Nat
        BY <1>2, StepTypes DEF TypeOK, SharedTypes, Stored, Next
      <3> QED
        BY <1>2, <2>2, <3>1, <3>2 DEF AtHome, Belongs
    <2> QED
      BY <1>1, <1>2, <2>1, <2>3, FileStays DEF Provenance
  <1>3. ASSUME NEW k \in RequestKinds, NEW f \in Profiles, NEW i \in Instances,
               BeginRequest(t, k, f, i) \/ BeginEnvironment(t, k, f, i)
        PROVE  Provenance'
    <2>1. /\ OthersAway(t) /\ prof'[t] = f
          /\ UNCHANGED <<minted, owner, inst, tok, got, buf>>
      BY <1>3 DEF BeginRequest, BeginEnvironment, OthersAway, Goto, TypeOK,
                  LocalTypes
    <2> QED
      BY <1>1, <1>2, <2>1, NoMintKeeps
  <1>4. ASSUME NEW f \in Profiles, NEW i \in Instances, LoginLoad(t, f, i)
        PROVE  Provenance'
    <2>1. Mint(f, i, {})
      BY <1>4 DEF LoginLoad
    <2>2. /\ OthersAway(t) /\ prof'[t] = f /\ tok' = tok
          /\ got'[t] = minted' /\ buf'[t] = file /\ HoldsNew(t)'
      BY <1>4, <2>1, MintKeeps
      DEF LoginLoad, OthersAway, HoldsNew, Goto, TypeOK, LocalTypes
    <2> QED
      BY <1>1, <1>2, <2>1, <2>2, MintKeeps
  <1>5. ASSUME NEW f \in Profiles, LogoutLoad(t, f)
        PROVE  Provenance'
    <2>1. /\ OthersAway(t) /\ prof'[t] = f /\ buf'[t] = file
          /\ UNCHANGED <<minted, owner, inst, tok, got>>
      BY <1>5 DEF LogoutLoad, OthersAway, Goto, TypeOK, LocalTypes
    <2> QED
      BY <1>1, <1>2, <2>1, NoMintKeeps
  <1>6. CASE ConfigLoad(t)
    <2>1. /\ OthersAway(t) /\ prof'[t] = prof[t] /\ prof[t] \in Profiles
          /\ buf'[t] = file /\ UNCHANGED <<minted, owner, inst, tok, got>>
      BY <1>6 DEF ConfigLoad, OthersAway, Goto, TypeOK, LocalTypes
    <2> QED
      BY <1>1, <1>2, <2>1, NoMintKeeps
  <1> QED
    BY <1>3, <1>4, <1>5, <1>6 DEF Begin

LEMMA HomeEnd ==
  ASSUME TypeOK, Provenance, NEW t \in Tasks, End(t)
  PROVE  Provenance'
  BY NoMintKeeps, FileStays, HomeForget DEF End
\* The grant that t reads from its own Profile.
LEMMA CurrentBelongs ==
  ASSUME TypeOK, Provenance, NEW t \in Tasks
  PROVE  Current(t) \in Stored /\ Belongs(Current(t), prof[t])
  BY DEF Current, TypeOK, SharedTypes, LocalTypes, Provenance, FileAtHome

\* A step that only moves t to location l, dropping the token it carried.
LEMMA HomeGoto ==
  ASSUME TypeOK, Provenance, NEW t \in Tasks, NEW l, Goto(t, l),
         UNCHANGED <<file, minted, owner, inst, command, got>>,
         \A u \in Tasks \ {t} : /\ tok'[u] = tok[u] /\ rejected'[u] = rejected[u]
                                /\ phase'[u] = phase[u] /\ buf'[u] = buf[u],
         tok'[t] \in {0, tok[t]}, tok'[t] # 0 => l = "send",
         HoldsNew(t) => l \in {"saveload", "save"},
         buf'[t] \in {buf[t], file}
  PROVE  Provenance'
  <1>1. OthersAway(t) /\ pc'[t] = l
    BY DEF OthersAway, Goto, TypeOK, LocalTypes
  <1>2. AtHome(t)
    BY DEF Provenance
  <1>3. got'[t] # 0 => HoldsNew(t)'
    BY <1>1, <1>2 DEF AtHome, HoldsNew
  <1> QED
    BY <1>1, <1>3, NoMintKeeps, FileStays, HomeMoves

\* A step that attaches what t reads.
LEMMA HomeTake ==
  ASSUME TypeOK, Provenance, NEW t \in Tasks, Attach(t, Current(t)),
         UNCHANGED <<file, server, command, rejected, phase, attempt, refresh,
                     buf>>,
         ~HoldsNew(t),
         kind[t] = "share" => ~OtherInstance(t, Current(t))
  PROVE  Provenance'
  <1>1. OthersAway(t)
    BY DEF Attach, OthersAway, Goto, TypeOK, LocalTypes
  <1>2. got'[t] = 0
    BY DEF Provenance, AtHome
  <1>3. kind[t] = "share" /\ Current(t) # 0 => inst[Current(t)] = want[t]
    BY DEF OtherInstance
  <1>4. tok' = [tok EXCEPT ![t] = Current(t)] /\ Goto(t, "send")
    BY DEF Attach
  <1> HIDE DEF command
  <1> QED
    BY <1>1, <1>2, <1>3, <1>4, CurrentBelongs, NoMintKeeps, FileStays, HomeAttach

LEMMA HomeAsk ==
  ASSUME TypeOK, Provenance, NEW t \in Tasks,
         \/ AskGranted(t) \/ AskLost(t) \/ AskTransient(t) \/ AskTerminal(t)
         \/ AskInvalidGrant(t)
  PROVE  Provenance'
  <1>1. /\ prof[t] \in Profiles
        /\ snap[t] \in live => inst[snap[t]] \in Instances
    BY DEF TypeOK, SharedTypes, LocalTypes
  <1>2. pc[t] = "ask" /\ tok[t] = 0 /\ got[t] = 0
    <2>1. pc[t] = "ask"
      BY DEF AskGranted, AskLost, AskTransient, AskTerminal, AskInvalidGrant
    <2> QED
      BY <2>1 DEF Provenance, AtHome, HoldsNew
  <1>3. CASE AskGranted(t)
    <2>1. Mint(prof[t], inst[snap[t]], {snap[t]})
      BY <1>3 DEF AskGranted
    <2>2. Kept /\ minted' \in Grants /\ owner'[minted'] = prof[t]
      BY <1>1, <1>3, <2>1, MintKeeps DEF AskGranted
    <2>3. /\ OthersAway(t) /\ pc'[t] = "saveload" /\ got'[t] = minted'
          /\ UNCHANGED <<file, kind, prof, want, tok, buf>>
      BY <1>3, <2>1
      DEF AskGranted, Mint, OthersAway, Goto, TypeOK, LocalTypes
    <2>4. ASSUME NEW u \in Tasks \ {t}
          PROVE  AtHome(u)'
      <3>1. AtHome(u) /\ tok[u] \in Stored /\ got[u] \in Stored
            /\ prof[u] \in Profiles /\ buf[u] \in [Profiles -> Stored]
            /\ (tok[u] # 0 => tok[u] \in Grants)
        BY Constants DEF Provenance, TypeOK, LocalTypes
      <3> QED
        BY <2>2, <2>3, <3>1 DEF AtHome, OthersAway, Kept, HoldsNew, Belongs
    <2>5. (\A f \in Profiles : Belongs(buf[t][f], f))'
      <3>1. ASSUME NEW f \in Profiles
            PROVE  buf[t][f] \in Stored /\ Belongs(buf[t][f], f)
        BY DEF Provenance, AtHome, TypeOK, LocalTypes
      <3> QED
        BY <2>2, <2>3, <3>1 DEF Kept, Belongs
    <2>6. AtHome(t)'
      <3>1. minted' <= minted'
        BY <2>2 DEF Grants
      <3> QED
        BY <1>2, <2>2, <2>3, <2>5, <3>1 DEF AtHome, Belongs, HoldsNew
    <2> QED
      BY <2>2, <2>3, <2>4, <2>6, FileStays DEF Provenance
  <1>4. CASE AskLost(t)
    <2>1. Mint(prof[t], inst[snap[t]], {snap[t]})
      BY <1>4 DEF AskLost
    <2>2. Kept /\ FileAtHome'
      BY <1>1, <1>4, <2>1, MintKeeps, FileStays DEF AskLost
    <2>3. CASE RetryRefresh(t)
      <3>1. OthersAway(t) /\ UNCHANGED <<kind, prof, want, tok, got, buf, pc>>
        BY <2>3 DEF RetryRefresh, OthersAway
      <3> QED
        BY <1>2, <2>2, <3>1, HomeMoves
    <2> QED
      BY <1>4, <2>2, <2>3, HomeForget DEF AskLost, GiveUp
  <1>5. CASE AskTransient(t) \/ AskTerminal(t)
    <2>1. Kept /\ FileAtHome'
      BY <1>5, NoMintKeeps, FileStays DEF AskTransient, AskTerminal
    <2>2. CASE RetryRefresh(t)
      <3>1. OthersAway(t) /\ UNCHANGED <<kind, prof, want, tok, got, buf, pc>>
        BY <2>2 DEF RetryRefresh, OthersAway
      <3> QED
        BY <1>2, <2>1, <3>1, HomeMoves
    <2> QED
      BY <1>5, <2>1, <2>2, HomeForget DEF AskTransient, AskTerminal, GiveUp
  <1>6. CASE AskInvalidGrant(t)
    BY <1>2, <1>6, HomeGoto DEF AskInvalidGrant, HoldsNew
  <1> QED
    BY <1>3, <1>4, <1>5, <1>6

LEMMA HomeSave ==
  ASSUME TypeOK, Provenance, NEW t \in Tasks, Save(t)
  PROVE  Provenance'
  <1>1. Kept /\ FileAtHome'
    BY NoMintKeeps, FileReplaced DEF Save
  <1>2. /\ pc[t] = "save" /\ tok[t] = 0 /\ AtHome(t)
        /\ got[t] \in Stored /\ Belongs(got[t], prof[t])
    BY DEF Save, Provenance, AtHome, TypeOK, LocalTypes
  <1>3. /\ OthersAway(t) /\ got'[t] = 0 /\ UNCHANGED command
        /\ \A f \in Profiles : buf'[t][f] = 0
    BY DEF Save, Replay, Attach, OthersAway, Goto, TypeOK, LocalTypes
  <1>4. CASE kind[t] = "plain" /\ Attach(t, got[t])
    <2>1. tok' = [tok EXCEPT ![t] = got[t]] /\ Goto(t, "send")
      BY <1>4 DEF Attach
    <2> HIDE DEF command
    <2> QED
      BY <1>1, <1>2, <1>3, <1>4, <2>1, HomeAttach
  <1>5. CASE UNCHANGED tok
    BY <1>1, <1>2, <1>3, <1>5, HomeMoves
  <1> QED
    BY <1>4, <1>5 DEF Save
LEMMA HomeSteps ==
  ASSUME TypeOK, Provenance, NEW t \in Tasks, Step(t) \/ Crash(t)
  PROVE  Provenance'
  <1>0. CASE End(t)
    BY <1>0, HomeEnd
  <1>1. ASSUME pc[t] # "send"
        PROVE  tok[t] = 0
    BY <1>1 DEF Provenance, AtHome
  <1>2. CASE ValidateInstance(t)
    <2>1. CASE /\ pc[t] = "validate" /\ Goto(t, "token")
               /\ UNCHANGED <<file, server, lock, command, request, refresh, buf>>
      BY <1>1, <2>1, HomeGoto DEF HoldsNew
    <2> QED
      BY <1>0, <1>2, <2>1 DEF ValidateInstance
  <1>3. CASE LoadToken(t)
    <2>1. CASE /\ pc[t] = "token" /\ Goto(t, "wait")
               /\ UNCHANGED <<file, server, lock, command, request, refresh, buf>>
      BY <1>1, <2>1, HomeGoto DEF HoldsNew
    <2> QED
      BY <1>0, <1>3, <2>1, HomeTake DEF LoadToken, HoldsNew, ChecksSnapshot
  <1>4. CASE Acquire(t)
    BY <1>1, <1>4, HomeGoto DEF Acquire, HoldsNew
  <1>5. CASE Reload(t)
    <2>1. CASE /\ pc[t] = "reload" /\ Goto(t, "ask")
               /\ UNCHANGED <<file, server, lock, command, request, got, buf>>
      BY <1>1, <2>1, HomeGoto DEF HoldsNew
    <2>2. CASE /\ pc[t] = "reload" /\ Replay(t)
               /\ UNCHANGED <<file, server, command, tok, rejected, attempt,
                              refresh, buf>>
      <3>1. \A u \in Tasks \ {t} : phase'[u] = phase[u]
        BY <2>2 DEF Replay, TypeOK, LocalTypes
      <3> QED
        BY <1>1, <2>2, <3>1, HomeGoto DEF Replay, HoldsNew
    <2> QED
      BY <1>0, <1>5, <2>1, <2>2, HomeTake DEF Reload, HoldsNew, ChecksSnapshot
  <1>6. CASE Reread(t)
    BY <1>0, <1>6, HomeTake DEF Reread, HoldsNew, ChecksSnapshot
  <1>7. CASE SaveLoad(t)
    <2>1. /\ \A u \in Tasks \ {t} : buf'[u] = buf[u]
          /\ buf'[t] = file
      BY <1>7 DEF SaveLoad, TypeOK, LocalTypes
    <2> QED
      BY <1>1, <1>7, <2>1, HomeGoto DEF SaveLoad, HoldsNew
  <1>8. CASE ClearLoad(t)
    <2>1. CASE /\ pc[t] = "clearload" /\ Goto(t, "clear")
               /\ buf' = [buf EXCEPT ![t] = file]
               /\ UNCHANGED <<file, server, lock, command, request, refresh>>
      <3>1. /\ \A u \in Tasks \ {t} : buf'[u] = buf[u]
            /\ buf'[t] = file
        BY <2>1 DEF TypeOK, LocalTypes
      <3> QED
        BY <1>1, <2>1, <3>1, HomeGoto DEF HoldsNew
    <2> QED
      BY <1>0, <1>8, <2>1 DEF ClearLoad
  <1>9. CASE SendRetry(t)
    <2>1. /\ tok'[t] = 0
          /\ \A u \in Tasks \ {t} : tok'[u] = tok[u]
      BY <1>9 DEF SendRetry, TypeOK, LocalTypes
    <2> QED
      BY <1>9, <2>1, HomeGoto DEF SendRetry, HoldsNew
  <1>10. CASE Unauthorized(t)
    <2>1. CASE /\ rejected' = [rejected EXCEPT ![t] = tok[t]]
               /\ phase' = [phase EXCEPT ![t] = "forcing"]
               /\ tok' = [tok EXCEPT ![t] = 0]
               /\ pc[t] = "send" /\ Goto(t, "wait")
               /\ UNCHANGED <<file, server, lock, command, refresh, buf>>
      <3>1. /\ tok'[t] = 0
            /\ \A u \in Tasks \ {t} :
                  /\ tok'[u] = tok[u] /\ rejected'[u] = rejected[u]
                  /\ phase'[u] = phase[u]
        BY <2>1 DEF TypeOK, LocalTypes
      <3> QED
        BY <2>1, <3>1, HomeGoto DEF HoldsNew
    <2> QED
      BY <1>0, <1>10, <2>1 DEF Unauthorized
  <1>11. CASE \/ Clear(t) \/ LoginSave(t) \/ LogoutSave(t) \/ ConfigSave(t)
    <2>1. Kept /\ FileAtHome' /\ Forget(t)
      BY <1>11, NoMintKeeps, FileReplaced
      DEF Clear, LoginSave, LogoutSave, ConfigSave
    <2> QED
      BY <2>1, HomeForget
  <1>12. CASE \/ AcquireTimeout(t) \/ SaveFails(t) \/ Answered(t) \/ Crash(t)
    BY <1>0, <1>12 DEF AcquireTimeout, SaveFails, Answered, Crash
  <1> QED
    BY <1>2, <1>3, <1>4, <1>5, <1>6, <1>7, <1>8, <1>9, <1>10, <1>11, <1>12,
       HomeAsk, HomeSave
    DEF Step

LEMMA StepHome == TypeOK /\ Provenance /\ [Next]_vars => Provenance'
  <1> SUFFICES ASSUME TypeOK, Provenance, [Next]_vars PROVE Provenance'
    OBVIOUS
  <1>1. CASE \/ UNCHANGED vars
             \/ \E g \in Grants : GrowOlder(g)
    BY <1>1
    DEF vars, GrowOlder, Provenance, FileAtHome, AtHome, Belongs, HoldsNew
  <1> QED
    BY <1>1, HomeBegin, HomeSteps DEF Next

LEMMA EverHome == Spec => []Provenance
  <1>1. Init => Provenance
    BY DEF Init, Provenance, FileAtHome, AtHome, Belongs
  <1>2. TypeOK /\ Provenance /\ [Next]_vars => Provenance'
    BY StepHome
  <1> QED
    BY <1>1, <1>2, TypeCorrect, PTL DEF Spec

\* Whatever whole-file saves interleave, the OAuth group of a Profile holds a
\* grant issued to that Profile and so does every request: load_from and
\* save_to_path carry the other Profiles' groups along unmixed.
THEOREM TokensStayHome == Spec => []TokensStayInProfile
  <1>1. Provenance => TokensStayInProfile
    BY DEF Provenance, FileAtHome, AtHome, Belongs, TokensStayInProfile
  <1> QED
    BY <1>1, EverHome, PTL

\* A share request is sent with a token of the Instance it is addressed to, even
\* while a login moves the Profile to another one: the Instance is compared in
\* the snapshot that authenticates.
THEOREM ShareTokensMatch == Spec => []ShareTokenMatchesInstance
  <1>1. Provenance => ShareTokenMatchesInstance
    BY DEF Provenance, AtHome, ShareTokenMatchesInstance
  <1> QED
    BY <1>1, EverHome, PTL
-----------------------------------------------------------------------------
(* The one replay after a 401 carries another token than the rejected one:    *)
(* the rejected grant has left the file for good.                             *)

Superseded(t) ==
    /\ rejected[t] <= minted
    /\ phase[t] = "first" <=> rejected[t] = 0
    /\ phase[t] = "replay" => Current(t) # rejected[t] /\ tok[t] # rejected[t]
    /\ \A u \in Tasks : HoldsNew(u) => got[u] # tok[t] /\ got[u] # rejected[t]

Retired == \A t \in Tasks : Superseded(t)

\* What a step of t may do to the file and to its own request so that no rejected
\* grant comes back.
FileForward(t) ==
    \A f \in Profiles : \/ file'[f] \in {0, file[f]}
                        \/ HoldsNew(t) /\ file'[f] = got[t]

TokenForward(t) ==
    /\ \/ tok'[t] \in {0, tok[t], Current(t)}
       \/ HoldsNew(t) /\ tok'[t] = got[t]
    /\ rejected'[t] \in {0, rejected[t], tok[t]}
    /\ phase'[t] = "first" <=> rejected'[t] = 0
    /\ phase'[t] = "replay" =>
          /\ rejected'[t] = rejected[t] /\ prof'[t] = prof[t]
          /\ \/ phase[t] = "replay"
             \/ tok'[t] = 0 /\ file'[prof[t]] # rejected[t]

GotForward(t) ==
    HoldsNew(t)' =>
        /\ \/ HoldsNew(t) /\ got'[t] = got[t]
           \/ got'[t] = minted' /\ minted < minted'
        /\ tok'[t] = 0 /\ rejected'[t] = rejected[t]

LEMMA RetiredForward ==
  ASSUME TypeOK, TypeOK', IsolatedInv, Provenance, Retired, NEW t \in Tasks,
         OthersAway(t), minted <= minted', FileForward(t), TokenForward(t),
         GotForward(t)
  PROVE  Retired'
  <1>1. /\ minted \in Nat /\ minted' \in Nat
        /\ \A u \in Tasks :
              /\ tok[u] \in Nat /\ rejected[u] \in Nat /\ got[u] \in Nat
              /\ tok[u] <= minted /\ rejected[u] <= minted
              /\ Current(u) \in Nat /\ prof[u] \in Profiles
    BY DEF TypeOK, SharedTypes, LocalTypes, Stored, Retired, Superseded,
           Provenance, AtHome, Belongs, Current
  <1>2. \A u \in Tasks : HoldsNew(u) =>
              /\ got[u] # 0
              /\ \A f \in Profiles : file[f] # got[u]
              /\ \A v \in Tasks \ {u} : HoldsNew(v) => got[v] # got[u]
              /\ \A v \in Tasks : got[u] # tok[v] /\ got[u] # rejected[v]
    BY DEF IsolatedInv, NewGrantPrivate, TypeOK, SharedTypes, Grants, Retired,
           Superseded
  <1>3. \A u \in Tasks \ {t} : /\ HoldsNew(u)' <=> HoldsNew(u)
                               /\ got'[u] = got[u] /\ tok'[u] = tok[u]
                               /\ rejected'[u] = rejected[u]
                               /\ phase'[u] = phase[u] /\ prof'[u] = prof[u]
    BY DEF OthersAway, HoldsNew
  <1>4. ASSUME NEW u \in Tasks, HoldsNew(u)', NEW v \in Tasks
        PROVE  got'[u] # tok'[v] /\ got'[u] # rejected'[v]
    <2>1. CASE u # t /\ v # t
      BY <1>2, <1>3, <1>4, <2>1
    <2>2. CASE u # t /\ v = t
      <3>1. Current(t) # got[u]
        BY <1>1, <1>2, <1>3, <1>4, <2>2 DEF Current
      <3> QED
        BY <1>2, <1>3, <1>4, <2>2, <3>1 DEF TokenForward
    <2>3. CASE u = t /\ v # t
      BY <1>1, <1>2, <1>3, <1>4, <2>3 DEF GotForward
    <2>4. CASE u = t /\ v = t
      <3>1. HoldsNew(t)' /\ rejected'[t] = rejected[t] /\ tok'[t] = 0
        BY <1>4, <2>4 DEF GotForward
      <3>2. CASE HoldsNew(t) /\ got'[t] = got[t]
        BY <1>2, <2>4, <3>1, <3>2
      <3>3. CASE got'[t] = minted' /\ minted < minted'
        BY <1>1, <2>4, <3>1, <3>3
      <3> QED
        BY <3>1, <3>2, <3>3 DEF GotForward
    <2> QED
      BY <2>1, <2>2, <2>3, <2>4
  <1>5. ASSUME NEW v \in Tasks, phase[v] = "replay"
        PROVE  file'[prof[v]] # rejected[v]
    <2>1. rejected[v] # 0 /\ file[prof[v]] # rejected[v]
      BY <1>5 DEF Retired, Superseded, Current
    <2> QED
      BY <1>1, <1>2, <2>1 DEF FileForward
  <1>6. ASSUME NEW v \in Tasks \ {t}
        PROVE  Superseded(v)'
    <2>1. Superseded(v)
      BY DEF Retired
    <2> QED
      BY <1>1, <1>3, <1>4, <1>5, <2>1 DEF Superseded, Current
  <1>7. Superseded(t)'
    <2>1. /\ rejected'[t] <= minted'
          /\ phase'[t] = "first" <=> rejected'[t] = 0
      BY <1>1 DEF TokenForward
    <2>2. ASSUME phase'[t] = "replay"
          PROVE  file'[prof'[t]] # rejected'[t] /\ tok'[t] # rejected'[t]
      <3>1. rejected'[t] = rejected[t] /\ prof'[t] = prof[t] /\ rejected[t] # 0
        BY <2>1, <2>2 DEF TokenForward
      <3>2. CASE phase[t] = "replay"
        <4>1. Current(t) # rejected[t] /\ tok[t] # rejected[t]
          BY <3>2 DEF Retired, Superseded
        <4> QED
          BY <1>2, <1>5, <3>1, <3>2, <4>1 DEF TokenForward
      <3> QED
        BY <2>2, <3>1, <3>2 DEF TokenForward
    <2> QED
      BY <1>4, <2>1, <2>2 DEF Superseded, Current
  <1> QED
    BY <1>6, <1>7 DEF Retired
\* A step that issues nothing and keeps the rejected token of t.
LEMMA RetiredMove ==
  ASSUME TypeOK, TypeOK', IsolatedInv, Provenance, Provenance', Retired,
         NEW t \in Tasks,
         OthersAway(t), UNCHANGED minted, FileForward(t),
         \/ tok'[t] \in {0, tok[t], Current(t)}
         \/ HoldsNew(t) /\ tok'[t] = got[t],
         rejected'[t] = rejected[t], prof'[t] = prof[t],
         \/ phase'[t] = phase[t]
         \/ /\ phase[t] = "forcing" /\ phase'[t] = "replay"
            /\ tok'[t] = 0 /\ file'[prof[t]] # rejected[t],
         HoldsNew(t)' => HoldsNew(t) /\ got'[t] = got[t]
  PROVE  Retired'
  <1>1. minted <= minted'
    BY DEF TypeOK, SharedTypes, Stored
  <1>2. phase[t] = "first" <=> rejected[t] = 0
    BY DEF Retired, Superseded
  <1>3. TokenForward(t)
    BY <1>2 DEF TokenForward
  <1>4. HoldsNew(t)' => tok'[t] = 0
    BY DEF Provenance, AtHome, HoldsNew
  <1>5. GotForward(t)
    BY <1>4 DEF GotForward
  <1> QED
    BY <1>1, <1>3, <1>5, RetiredForward

LEMMA RetiredForget ==
  ASSUME TypeOK, TypeOK', IsolatedInv, Provenance, Provenance', Retired,
         NEW t \in Tasks,
         Forget(t), minted <= minted', FileForward(t)
  PROVE  Retired'
  <1>1. OthersAway(t) /\ TokenForward(t) /\ GotForward(t)
    BY ForgetsAll DEF TokenForward, GotForward, HoldsNew
  <1> QED
    BY <1>1, RetiredForward

LEMMA RetiredEnd ==
  ASSUME TypeOK, TypeOK', IsolatedInv, Provenance, Provenance', Retired,
         NEW t \in Tasks,
         End(t)
  PROVE  Retired'
  <1>1. minted <= minted'
    BY DEF End, TypeOK, SharedTypes, Stored
  <1> QED
    BY <1>1, RetiredForget DEF End, FileForward

\* A step that only moves t to location l outside a save, without a new token.
LEMMA RetiredGoto ==
  ASSUME TypeOK, TypeOK', IsolatedInv, Provenance, Provenance', Retired,
         NEW t \in Tasks,
         NEW l, Goto(t, l),
         UNCHANGED <<file, minted, command, got, rejected, phase>>,
         \A u \in Tasks \ {t} : tok'[u] = tok[u] /\ buf'[u] = buf[u],
         tok'[t] \in {0, tok[t], Current(t)},
         l \in {"saveload", "save"} => HoldsNew(t), l # "loginsave"
  PROVE  Retired'
  <1>1. OthersAway(t) /\ pc'[t] = l
    BY DEF OthersAway, Goto, TypeOK, LocalTypes
  <1>2. FileForward(t)
    BY DEF FileForward
  <1> QED
    BY <1>1, <1>2, RetiredMove DEF HoldsNew

LEMMA RetiredBegin ==
  ASSUME TypeOK, TypeOK', IsolatedInv, Provenance, Provenance', Retired,
         Isolated, NEW t \in Tasks, Begin(t)
  PROVE  Retired'
  <1>1. pc[t] = "idle" /\ UNCHANGED <<file, rejected, phase, tok>>
    BY DEF Begin, BeginRequest, BeginEnvironment, LoginLoad, LogoutLoad,
           ConfigLoad
  <1>2. tok[t] = 0 /\ FileForward(t)
    BY <1>1 DEF Provenance, AtHome, FileForward
  <1>3. \A f, g \in Profiles : f = g
    BY DEF Isolated
  <1>4. prof'[t] = prof[t]
    BY <1>3 DEF TypeOK, LocalTypes
  <1>5. ASSUME NEW k \in RequestKinds, NEW f \in Profiles, NEW i \in Instances,
               BeginRequest(t, k, f, i) \/ BeginEnvironment(t, k, f, i)
        PROVE  Retired'
    <2>1. OthersAway(t) /\ UNCHANGED <<minted, got>> /\ ~HoldsNew(t)'
      BY <1>5
      DEF BeginRequest, BeginEnvironment, FirstStep, OthersAway, HoldsNew, Goto,
          TypeOK, LocalTypes
    <2> QED
      BY <1>1, <1>2, <1>4, <2>1, RetiredMove
  <1>6. ASSUME NEW f \in Profiles, LogoutLoad(t, f)
        PROVE  Retired'
    <2>1. OthersAway(t) /\ UNCHANGED <<minted, got>> /\ ~HoldsNew(t)'
      BY <1>6 DEF LogoutLoad, OthersAway, HoldsNew, Goto, TypeOK, LocalTypes
    <2> QED
      BY <1>1, <1>2, <1>4, <2>1, RetiredMove
  <1>7. ASSUME NEW f \in Profiles, NEW i \in Instances, LoginLoad(t, f, i)
        PROVE  Retired'
    <2>1. minted' = minted + 1 /\ minted \in Nat
      BY <1>7, MintKeeps DEF LoginLoad, TypeOK, SharedTypes, Stored
    <2>2. OthersAway(t) /\ got'[t] = minted'
      BY <1>7, <2>1 DEF LoginLoad, OthersAway, Goto, TypeOK, LocalTypes
    <2>3. minted < minted' /\ minted <= minted'
      BY <2>1
    <2>4. TokenForward(t)
      BY <1>1, <1>2, <1>4 DEF TokenForward, Retired, Superseded
    <2>5. GotForward(t)
      BY <1>1, <1>2, <2>2, <2>3 DEF GotForward
    <2> QED
      BY <1>2, <2>2, <2>3, <2>4, <2>5, RetiredForward
  <1> QED
    BY <1>5, <1>6, <1>7 DEF Begin, ConfigLoad, Isolated

LEMMA RetiredAsk ==
  ASSUME TypeOK, TypeOK', IsolatedInv, Provenance, Provenance', Retired,
         NEW t \in Tasks,
         \/ AskGranted(t) \/ AskLost(t) \/ AskTransient(t) \/ AskTerminal(t)
         \/ AskInvalidGrant(t)
  PROVE  Retired'
  <1>1. pc[t] = "ask" /\ UNCHANGED file
    BY DEF AskGranted, AskLost, AskTransient, AskTerminal, AskInvalidGrant
  <1>2. tok[t] = 0 /\ FileForward(t)
    BY <1>1 DEF Provenance, AtHome, FileForward
  <1>3. CASE AskGranted(t)
    <2>1. minted' = minted + 1 /\ minted \in Nat
      BY <1>3 DEF AskGranted, Mint, TypeOK, SharedTypes, Stored
    <2>2. OthersAway(t) /\ got'[t] = minted' /\ UNCHANGED <<request, prof>>
      BY <1>3, <2>1 DEF AskGranted, OthersAway, Goto, TypeOK, LocalTypes
    <2>3. minted < minted' /\ minted <= minted'
      BY <2>1
    <2>4. TokenForward(t)
      BY <1>2, <2>2 DEF TokenForward, Retired, Superseded
    <2>5. GotForward(t)
      BY <1>2, <2>2, <2>3 DEF GotForward
    <2> QED
      BY <1>2, <2>2, <2>3, <2>4, <2>5, RetiredForward
  <1>4. ASSUME RetryRefresh(t), minted <= minted'
        PROVE  Retired'
    <2>1. /\ OthersAway(t) /\ ~HoldsNew(t)'
          /\ UNCHANGED <<request, prof>>
      BY <1>1, <1>4 DEF RetryRefresh, OthersAway, HoldsNew
    <2>2. TokenForward(t) /\ GotForward(t)
      BY <2>1 DEF TokenForward, GotForward, Retired, Superseded
    <2> QED
      BY <1>2, <1>4, <2>1, <2>2, RetiredForward
  <1>5. CASE AskLost(t)
    <2>1. minted <= minted'
      BY <1>5 DEF AskLost, Mint, TypeOK, SharedTypes, Stored
    <2> QED
      BY <1>2, <1>4, <1>5, <2>1, RetiredForget DEF AskLost, GiveUp
  <1>6. CASE AskTransient(t) \/ AskTerminal(t)
    <2>1. minted <= minted'
      BY <1>6 DEF AskTransient, AskTerminal, TypeOK, SharedTypes, Stored
    <2> QED
      BY <1>2, <1>4, <1>6, <2>1, RetiredForget
      DEF AskTransient, AskTerminal, GiveUp
  <1>7. CASE AskInvalidGrant(t)
    BY <1>7, RetiredGoto DEF AskInvalidGrant
  <1> QED
    BY <1>3, <1>5, <1>6, <1>7

LEMMA RetiredSave ==
  ASSUME TypeOK, TypeOK', IsolatedInv, Provenance, Provenance', Retired,
         Isolated, NEW t \in Tasks, Save(t)
  PROVE  Retired'
  <1>1. HoldsNew(t) /\ pc[t] = "save" /\ got[t] \in Stored
    BY DEF Save, HoldsNew, TypeOK, LocalTypes
  <1>2. \A f \in Profiles : file'[f] = got[t]
    BY <1>1, SoleRecord DEF Save
  <1>3. tok[t] = 0 /\ got[t] # rejected[t] /\ FileForward(t)
    BY <1>1, <1>2 DEF Provenance, AtHome, FileForward, Retired, Superseded
  <1>4. /\ OthersAway(t) /\ UNCHANGED <<minted, rejected, prof>>
        /\ ~HoldsNew(t)'
    BY DEF Save, Replay, Attach, FirstStep, OthersAway, HoldsNew, Goto, TypeOK,
           LocalTypes
  <1>5. CASE phase[t] = "forcing" /\ Replay(t) /\ UNCHANGED tok
    <2>1. phase'[t] = "replay" /\ file'[prof[t]] # rejected[t]
      BY <1>2, <1>3, <1>5 DEF Replay, TypeOK, LocalTypes
    <2> QED
      BY <1>3, <1>4, <1>5, <2>1, RetiredMove
  <1>6. CASE UNCHANGED phase /\ Attach(t, got[t])
    <2>1. tok'[t] = got[t]
      BY <1>6 DEF Attach, TypeOK, LocalTypes
    <2> QED
      BY <1>1, <1>3, <1>4, <1>6, <2>1, RetiredMove
  <1>7. CASE UNCHANGED <<tok, phase>>
    BY <1>3, <1>4, <1>7, RetiredMove
  <1> QED
    BY <1>5, <1>6, <1>7 DEF Save
LEMMA RetiredReload ==
  ASSUME TypeOK, TypeOK', IsolatedInv, Provenance, Provenance', Retired,
         NEW t \in Tasks, Reload(t)
  PROVE  Retired'
  <1>1. CASE End(t)
    BY <1>1, RetiredEnd
  <1>2. pc[t] = "reload" /\ tok[t] = 0
    BY DEF Reload, Provenance, AtHome
  <1>3. CASE /\ Attach(t, Current(t))
             /\ UNCHANGED <<file, server, command, rejected, phase, attempt,
                            refresh, buf>>
    <2>1. /\ Goto(t, "send") /\ tok'[t] = Current(t)
          /\ \A u \in Tasks \ {t} : tok'[u] = tok[u]
      BY <1>3 DEF Attach, TypeOK, LocalTypes
    <2> QED
      BY <1>3, <2>1, RetiredGoto
  <1>4. CASE /\ Refreshed(t, Current(t)) /\ phase[t] = "forcing" /\ Replay(t)
             /\ UNCHANGED <<file, server, command, tok, rejected, attempt,
                            refresh, buf>>
    <2>1. /\ phase'[t] = "replay" /\ file'[prof[t]] # rejected[t]
          /\ OthersAway(t) /\ ~HoldsNew(t)' /\ FileForward(t)
      BY <1>4 DEF Refreshed, Replay, FirstStep, Current, Goto, OthersAway,
                  HoldsNew, FileForward, TypeOK, LocalTypes
    <2> QED
      BY <1>2, <1>4, <2>1, RetiredMove
  <1>5. CASE /\ Goto(t, "ask")
             /\ UNCHANGED <<file, server, lock, command, request, got, buf>>
    BY <1>5, RetiredGoto
  <1> QED
    BY <1>1, <1>3, <1>4, <1>5 DEF Reload

LEMMA RetiredTake ==
  ASSUME TypeOK, TypeOK', IsolatedInv, Provenance, Provenance', Retired,
         NEW t \in Tasks, LoadToken(t) \/ Reread(t)
  PROVE  Retired'
  <1>1. CASE End(t)
    BY <1>1, RetiredEnd
  <1>2. CASE /\ Attach(t, Current(t))
             /\ UNCHANGED <<file, server, command, rejected, phase, attempt,
                            refresh, buf>>
    <2>1. /\ Goto(t, "send") /\ tok'[t] = Current(t)
          /\ \A u \in Tasks \ {t} : tok'[u] = tok[u]
      BY <1>2 DEF Attach, TypeOK, LocalTypes
    <2> QED
      BY <1>2, <2>1, RetiredGoto
  <1>3. CASE /\ Goto(t, "wait")
             /\ UNCHANGED <<file, server, lock, command, request, refresh, buf>>
    BY <1>3, RetiredGoto
  <1> QED
    BY <1>1, <1>2, <1>3 DEF LoadToken, Reread

LEMMA RetiredUnauthorized ==
  ASSUME TypeOK, TypeOK', IsolatedInv, Provenance, Provenance', Retired,
         NEW t \in Tasks, Unauthorized(t)
  PROVE  Retired'
  <1>1. CASE End(t)
    BY <1>1, RetiredEnd
  <1>2. CASE /\ tok[t] # 0
             /\ rejected' = [rejected EXCEPT ![t] = tok[t]]
             /\ phase' = [phase EXCEPT ![t] = "forcing"]
             /\ tok' = [tok EXCEPT ![t] = 0]
             /\ Goto(t, "wait")
             /\ UNCHANGED <<file, server, lock, command, refresh, buf>>
    <2>1. /\ OthersAway(t) /\ ~HoldsNew(t)' /\ FileForward(t)
          /\ tok'[t] = 0 /\ rejected'[t] = tok[t] /\ phase'[t] = "forcing"
      BY <1>2 DEF OthersAway, HoldsNew, FileForward, Goto, TypeOK, LocalTypes
    <2>2. TokenForward(t) /\ GotForward(t)
      BY <1>2, <2>1 DEF TokenForward, GotForward
    <2>3. minted <= minted'
      BY <1>2 DEF TypeOK, SharedTypes, Stored
    <2> QED
      BY <2>1, <2>2, <2>3, RetiredForward
  <1> QED
    BY <1>1, <1>2 DEF Unauthorized

LEMMA RetiredSteps ==
  ASSUME TypeOK, TypeOK', IsolatedInv, Provenance, Provenance', Retired,
         Isolated, NEW t \in Tasks, Step(t) \/ Crash(t)
  PROVE  Retired'
  <1>1. CASE End(t)
    BY <1>1, RetiredEnd
  <1>2. CASE ValidateInstance(t) \/ Acquire(t)
    BY <1>1, <1>2, RetiredGoto DEF ValidateInstance, Acquire
  <1>3. CASE SaveLoad(t) \/ ClearLoad(t)
    <2>1. CASE /\ \E l \in {"save", "clear"} : /\ Goto(t, l)
                                               /\ l = "save" => HoldsNew(t)
               /\ buf' = [buf EXCEPT ![t] = file]
               /\ UNCHANGED <<file, server, lock, command, request, refresh>>
      <3>1. \A u \in Tasks \ {t} : tok'[u] = tok[u] /\ buf'[u] = buf[u]
        BY <2>1 DEF TypeOK, LocalTypes
      <3> QED
        BY <2>1, <3>1, RetiredGoto
    <2> QED
      BY <1>1, <1>3, <2>1 DEF SaveLoad, ClearLoad, HoldsNew
  <1>4. CASE SendRetry(t)
    <2>1. /\ tok'[t] = 0
          /\ \A u \in Tasks \ {t} : tok'[u] = tok[u]
      BY <1>4 DEF SendRetry, TypeOK, LocalTypes
    <2>2. \E l \in {"send", "validate", "token"} : Goto(t, l)
      BY <1>4 DEF SendRetry, FirstStep
    <2> QED
      BY <1>4, <2>1, <2>2, RetiredGoto DEF SendRetry
  <1>5. CASE Clear(t) \/ LoginSave(t) \/ LogoutSave(t)
    <2>1. /\ got[t] \in Stored /\ 0 \in Stored
          /\ \/ file' = [buf[t] EXCEPT ![prof[t]] = 0]
             \/ HoldsNew(t) /\ file' = [buf[t] EXCEPT ![prof[t]] = got[t]]
      BY <1>5, Constants
      DEF Clear, LoginSave, LogoutSave, HoldsNew, TypeOK, LocalTypes
    <2>2. FileForward(t)
      BY <2>1, SoleRecord DEF FileForward
    <2>3. Forget(t) /\ minted <= minted'
      BY <1>5 DEF Clear, LoginSave, LogoutSave, TypeOK, SharedTypes, Stored
    <2> QED
      BY <2>2, <2>3, RetiredForget
  <1>6. ~ConfigSave(t)
    BY DEF ConfigSave, IsolatedInv, NoConfigWriter
  <1>7. CASE \/ AcquireTimeout(t) \/ SaveFails(t) \/ Answered(t) \/ Crash(t)
    BY <1>1, <1>7 DEF AcquireTimeout, SaveFails, Answered, Crash
  <1> QED
    BY <1>2, <1>3, <1>4, <1>5, <1>6, <1>7, RetiredTake, RetiredReload,
       RetiredUnauthorized, RetiredAsk, RetiredSave
    DEF Step

\* With one Profile in use and no config writer, the replay that follows a forced
\* refresh never carries the token that drew the 401: whichever task refreshed,
\* the rejected grant does not return to the file.  (A stale whole-file save of
\* another command can bring it back, which is why the theorem is about Isolated
\* use.)
THEOREM ReplayIsFresh == Isolated => (Spec => []ReplayTakesAnotherToken)
  <1> SUFFICES ASSUME Isolated PROVE Spec => []ReplayTakesAnotherToken
    OBVIOUS
  <1>1. Init => IsolatedInv /\ Retired
    BY ConstantsAssumption
    DEF Init, IsolatedInv, StoredGrantAlive, InvalidGrantOnlyAfterLoss,
        NewGrantPrivate, AskedGrantKnown, OnlyIssuedGrants, NoConfigWriter,
        HoldsNew, Retired, Superseded
  <1>2. TypeOK /\ GuardExact /\ IsolatedInv /\ [Next]_vars => IsolatedInv'
    BY StepIso
  <1>3. ASSUME TypeOK, TypeOK', IsolatedInv, Provenance, Provenance', Retired,
               [Next]_vars
        PROVE  Retired'
    <2>1. CASE \/ UNCHANGED vars
               \/ \E g \in Grants : GrowOlder(g)
      BY <1>3, <2>1 DEF vars, GrowOlder, Retired, Superseded, Current, HoldsNew
    <2> QED
      BY <1>3, <2>1, RetiredBegin, RetiredSteps DEF Next
  <1>4. Retired => ReplayTakesAnotherToken
    BY DEF Retired, Superseded, ReplayTakesAnotherToken
  <1> QED
    BY <1>1, <1>2, <1>3, <1>4, TypeCorrect, GuardIsExact, EverHome, PTL DEF Spec

\* reusable_access_token without the refresh window: the replay of an
\* owner-default Space creation asks for a second rotation only when its token
\* has really expired, whatever the other tasks do.
THEOREM OwnerReplayKeeps == Spec => OwnerReplayKeepsToken
  <1> DEFINE Asks(t) == pc[t] = "reload" /\ pc'[t] = "ask"
  <1>1. ASSUME TypeOK, Next, NEW t \in Tasks, Asks(t)
        PROVE  Reload(t)
    <2>1. ASSUME NEW u \in Tasks \ {t}
          PROVE  ~(Begin(u) \/ Step(u) \/ Crash(u))
      <3>1. ASSUME NEW l, Goto(u, l)
            PROVE  pc'[t] = pc[t]
        BY <3>1 DEF Goto, TypeOK, LocalTypes
      <3>2. Begin(u) => pc'[t] = pc[t]
        BY <3>1 DEF Begin, BeginRequest, BeginEnvironment, LoginLoad,
                    LogoutLoad, ConfigLoad
      <3>3. ValidateInstance(u) \/ LoadToken(u) \/ Acquire(u) \/ Reload(u)
              \/ Reread(u) \/ ClearLoad(u) \/ SendRetry(u) \/ Unauthorized(u)
            => pc'[t] = pc[t]
        BY <3>1 DEF ValidateInstance, LoadToken, Acquire, Reload, Reread,
                    ClearLoad, SendRetry, Unauthorized, End, Forget, Attach,
                    Replay
      <3>4. AskGranted(u) \/ AskLost(u) \/ AskTransient(u) \/ AskTerminal(u)
              \/ AskInvalidGrant(u) \/ SaveLoad(u) \/ Save(u)
            => pc'[t] = pc[t]
        BY <3>1 DEF AskGranted, AskLost, AskTransient, AskTerminal,
                    AskInvalidGrant, SaveLoad, Save, RetryRefresh, GiveUp,
                    Forget, Attach, Replay
      <3>5. AcquireTimeout(u) \/ SaveFails(u) \/ Clear(u) \/ Answered(u)
              \/ LoginSave(u) \/ LogoutSave(u) \/ ConfigSave(u) \/ Crash(u)
            => pc'[t] = pc[t]
        BY <3>1 DEF AcquireTimeout, SaveFails, Clear, Answered, LoginSave,
                    LogoutSave, ConfigSave, Crash, End, Forget
      <3> QED
        BY <1>1, <3>2, <3>3, <3>4, <3>5 DEF Step
    <2>2. ~\E g \in Grants : GrowOlder(g)
      BY <1>1 DEF GrowOlder
    <2>3. ~Begin(t) /\ ~Crash(t)
      <3>1. ~Crash(t)
        BY <1>1 DEF Crash, End, Forget, Goto, TypeOK, LocalTypes
      <3> QED
        BY <1>1, <3>1 DEF Begin, BeginRequest, BeginEnvironment, LoginLoad,
                          LogoutLoad, ConfigLoad
    <2>4. Step(t)
      BY <1>1, <2>1, <2>2, <2>3 DEF Next
    <2> QED
      BY <1>1, <2>4
      DEF Step, ValidateInstance, LoadToken, Acquire, AcquireTimeout, AskGranted,
          AskLost, AskTransient, AskTerminal, AskInvalidGrant, SaveLoad, Save,
          SaveFails, Reread, ClearLoad, Clear, Answered, SendRetry, Unauthorized,
          LoginSave, LogoutSave, ConfigSave
  <1>2. ASSUME TypeOK, NEW t \in Tasks, Reload(t), pc'[t] = "ask",
               phase[t] = "replay", kind[t] = "owner"
        PROVE  age[Current(t)] = "expired"
    <2>1. Current(t) \in Stored /\ (Current(t) # 0 => Current(t) \in Grants)
      BY <1>2, Constants DEF Current, TypeOK, SharedTypes, LocalTypes
    <2>2. Current(t) # 0 /\ ~Refreshed(t, Current(t))
      BY <1>2 DEF Reload, End, Forget, Attach, Goto, TypeOK, LocalTypes
    <2>3. age[Current(t)] \notin {"fresh", "window"}
      BY <1>2, <2>2 DEF Refreshed, Usable, AppliesWindow
    <2> QED
      BY <1>2, <2>1, <2>2, <2>3 DEF TypeOK, SharedTypes, Ages
  <1>3. TypeOK /\ [Next]_vars => [ReplayAsksOnlyWhenExpired({"owner"})]_vars
    BY <1>1, <1>2 DEF ReplayAsksOnlyWhenExpired
  <1> QED
    BY <1>3, TypeCorrect, PTL DEF Spec, OwnerReplayKeepsToken
-----------------------------------------------------------------------------
(***************************************************************************)
(* Why a command ends.  TypeCorrect bounds phase, attempt, pc and tries;   *)
(* ordered by them, each step of a command leaves it further on or idle.   *)
(***************************************************************************)

\* Where a location stands on the way through one attempt.
Place(l) ==
    CASE l \in {"validate", "loginsave", "logoutsave", "configsave"} -> 1
      [] l = "token" -> 2
      [] l = "wait" -> 3
      [] l = "reload" -> 4
      [] l = "ask" -> 5
      [] l \in {"saveload", "clearload"} -> 6
      [] l \in {"save", "clear"} -> 7
      [] l = "reread" -> 8
      [] l = "send" -> 9
      [] OTHER -> 0

Turn(p) == CASE p = "first" -> 1 [] p = "forcing" -> 2 [] p = "replay" -> 3

\* t gets further, in the lexicographic order of phase, transient retries, place
\* and refresh retries.
Closer(t) ==
    \/ Turn(phase[t]) < Turn(phase'[t])
    \/ /\ phase'[t] = phase[t]
       /\ \/ attempt[t] < attempt'[t]
          \/ /\ attempt'[t] = attempt[t]
             /\ \/ Place(pc[t]) < Place(pc'[t])
                \/ pc'[t] = pc[t] /\ tries[t] < tries'[t]

Standing(t) == <<pc[t], phase[t], attempt[t], tries[t]>>

Advances(t) ==
    /\ Step(t) => pc'[t] = "idle" \/ Closer(t)
    /\ pc[t] # "idle" =>
          pc'[t] = "idle" \/ Closer(t) \/ UNCHANGED Standing(t)

LEMMA Places ==
    /\ Place("validate") = 1 /\ Place("token") = 2 /\ Place("wait") = 3
    /\ Place("reload") = 4 /\ Place("ask") = 5 /\ Place("saveload") = 6
    /\ Place("clearload") = 6 /\ Place("save") = 7 /\ Place("clear") = 7
    /\ Place("reread") = 8 /\ Place("send") = 9
    /\ Turn("first") = 1 /\ Turn("forcing") = 2 /\ Turn("replay") = 3
  BY DEF Place, Turn

LEMMA Arrives ==
  ASSUME TypeOK, NEW t \in Tasks
  PROVE  /\ \A l : Goto(t, l) => pc'[t] = l
         /\ Forget(t) => pc'[t] = "idle"
         /\ End(t) => pc'[t] = "idle"
         /\ \A g : Attach(t, g) => pc'[t] = "send"
  BY DEF Goto, Forget, End, Attach, TypeOK, LocalTypes

LEMMA OnTheWay ==
  ASSUME TypeOK, NEW t \in Tasks,
         UNCHANGED <<phase, attempt>>, Place(pc[t]) < Place(pc'[t])
  PROVE  Closer(t)
  BY DEF Closer

LEMMA CloserByReplay ==
  ASSUME TypeOK, NEW t \in Tasks, phase[t] = "forcing", Replay(t)
  PROVE  Closer(t)
  <1>1. phase'[t] = "replay"
    BY DEF Replay, TypeOK, LocalTypes
  <1> QED
    BY <1>1, Places DEF Closer

LEMMA CloserByRetry ==
  ASSUME TypeOK, NEW t \in Tasks, RetryRefresh(t)
  PROVE  Closer(t)
  <1>1. tries[t] < tries'[t]
    BY ConstantsAssumption DEF RetryRefresh, TypeOK, LocalTypes
  <1> QED
    BY <1>1 DEF RetryRefresh, Closer, request

LEMMA StepAdvances ==
  ASSUME TypeOK, NEW t \in Tasks, Step(t)
  PROVE  pc'[t] = "idle" \/ Closer(t)
  <1>1. CASE \/ ValidateInstance(t) \/ LoadToken(t) \/ Acquire(t)
             \/ AcquireTimeout(t)
    BY <1>1, Arrives, OnTheWay, Places
    DEF ValidateInstance, LoadToken, Acquire, AcquireTimeout
  <1>2. CASE Reload(t)
    BY <1>2, Arrives, OnTheWay, Places, CloserByReplay DEF Reload
  <1>3. CASE \/ AskGranted(t) \/ AskLost(t) \/ AskTransient(t)
             \/ AskTerminal(t) \/ AskInvalidGrant(t)
    BY <1>3, Arrives, OnTheWay, Places, CloserByRetry
    DEF AskGranted, AskLost, AskTransient, AskTerminal, AskInvalidGrant, GiveUp
  <1>4. CASE Save(t)
    BY <1>4, Arrives, OnTheWay, Places, CloserByReplay DEF Save
  <1>5. CASE SaveLoad(t) \/ Reread(t) \/ ClearLoad(t)
    <2>1. CASE SaveLoad(t)
      BY <2>1, Arrives, OnTheWay, Places DEF SaveLoad
    <2>2. CASE Reread(t)
      <3>1. \/ End(t)
            \/ Attach(t, Current(t)) /\ UNCHANGED <<phase, attempt>>
        BY <2>2 DEF Reread
      <3> QED
        BY <2>2, <3>1, Arrives, OnTheWay, Places DEF Reread
    <2>3. CASE ClearLoad(t)
      BY <2>3, Arrives, OnTheWay, Places DEF ClearLoad
    <2> QED
      BY <1>5, <2>1, <2>2, <2>3
  <1>8. CASE \/ SaveFails(t) \/ Clear(t) \/ Answered(t) \/ LoginSave(t)
             \/ LogoutSave(t) \/ ConfigSave(t)
    BY <1>8, Arrives
    DEF SaveFails, Clear, Answered, LoginSave, LogoutSave, ConfigSave
  <1>6. CASE SendRetry(t)
    <2>1. attempt[t] < attempt'[t] /\ UNCHANGED phase
      BY <1>6, ConstantsAssumption DEF SendRetry, TypeOK, LocalTypes
    <2> QED
      BY <2>1 DEF Closer
  <1>7. CASE Unauthorized(t)
    <2>1. CASE End(t)
      BY <2>1, Arrives
    <2>2. CASE ~End(t)
      <3>1. phase[t] = "first" /\ phase'[t] = "forcing"
        BY <1>7, <2>2 DEF Unauthorized, TypeOK, LocalTypes
      <3> QED
        BY <3>1, Places DEF Closer
    <2> QED
      BY <2>1, <2>2
  <1> QED
    BY <1>1, <1>2, <1>3, <1>4, <1>5, <1>6, <1>7, <1>8 DEF Step

LEMMA OthersStand ==
  ASSUME TypeOK, NEW t \in Tasks, NEW u \in Tasks \ {t},
         Begin(u) \/ Step(u) \/ Crash(u)
  PROVE  UNCHANGED Standing(t)
  <1>1. /\ \A l : Goto(u, l) => pc'[t] = pc[t]
        /\ Forget(u) => UNCHANGED Standing(t)
        /\ RetryRefresh(u) => UNCHANGED Standing(t)
    BY DEF Goto, Forget, RetryRefresh, Standing, TypeOK, LocalTypes
  <1> USE DEF Standing
  <1>3. CASE Begin(u)
    BY <1>1, <1>3 DEF Begin, BeginRequest, BeginEnvironment, LoginLoad,
                      LogoutLoad, ConfigLoad
  <1>4. CASE End(u) \/ Crash(u)
    BY <1>1, <1>4 DEF End, Crash
  <1>5. CASE \/ ValidateInstance(u) \/ LoadToken(u) \/ Acquire(u)
             \/ AcquireTimeout(u) \/ Reread(u) \/ ClearLoad(u) \/ SaveLoad(u)
    BY <1>1, <1>4, <1>5
    DEF ValidateInstance, LoadToken, Acquire, AcquireTimeout, Reread, ClearLoad,
        SaveLoad, Attach
  <1>6. CASE Reload(u) \/ Save(u)
    BY <1>1, <1>4, <1>6
    DEF Reload, Save, Attach, Replay, TypeOK, LocalTypes
  <1>7. CASE \/ AskGranted(u) \/ AskLost(u) \/ AskTransient(u)
             \/ AskTerminal(u) \/ AskInvalidGrant(u)
    BY <1>1, <1>7
    DEF AskGranted, AskLost, AskTransient, AskTerminal, AskInvalidGrant, GiveUp
  <1>8. CASE \/ SaveFails(u) \/ Clear(u) \/ Answered(u) \/ LoginSave(u)
             \/ LogoutSave(u) \/ ConfigSave(u)
    BY <1>1, <1>4, <1>8
    DEF SaveFails, Clear, Answered, LoginSave, LogoutSave, ConfigSave
  <1>9. CASE SendRetry(u) \/ Unauthorized(u)
    BY <1>1, <1>4, <1>9 DEF SendRetry, Unauthorized, TypeOK, LocalTypes
  <1> QED
    BY <1>3, <1>4, <1>5, <1>6, <1>7, <1>8, <1>9 DEF Step

\* Between its begin and its end, each step a command takes, and each step anyone
\* else takes, leaves it ended, further on, or where it was: no retry, wait or
\* replay brings it back.  With the bounds of TypeOK, a command takes finitely
\* many steps; that it takes them is what CommandEnds adds under fairness.
THEOREM CommandsAdvance == Spec => [][\A t \in Tasks : Advances(t)]_vars
  <1>1. ASSUME TypeOK, Next, NEW t \in Tasks, pc[t] # "idle"
        PROVE  pc'[t] = "idle" \/ Closer(t) \/ UNCHANGED Standing(t)
    <2>1. CASE \E u \in Tasks \ {t} : Begin(u) \/ Step(u) \/ Crash(u)
      BY <1>1, <2>1, OthersStand
    <2>2. CASE \E g \in Grants : GrowOlder(g)
      BY <2>2 DEF GrowOlder, Standing, request, refresh
    <2>3. CASE Step(t)
      BY <1>1, <2>3, StepAdvances
    <2>4. CASE Crash(t)
      BY <1>1, <2>4, Arrives DEF Crash
    <2>5. ~Begin(t)
      BY <1>1 DEF Begin, BeginRequest, BeginEnvironment, LoginLoad, LogoutLoad,
                  ConfigLoad
    <2> QED
      BY <1>1, <2>1, <2>2, <2>3, <2>4, <2>5 DEF Next
  <1>2. TypeOK /\ [Next]_vars => [\A t \in Tasks : Advances(t)]_vars
    BY <1>1, StepAdvances DEF Advances
  <1> QED
    BY <1>2, TypeCorrect, PTL DEF Spec
=============================================================================
