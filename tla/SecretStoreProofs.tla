--------------------------- MODULE SecretStoreProofs ---------------------------
(* Proofs that the stored secrets stay readable, and stay.                   *)
(*                                                                           *)
(* Two reasons make the file readable.  With a key older than everything,    *)
(* nobody generates one, so that every ciphertext anywhere is under that key *)
(* (OneKey).  Without one, but with commands that take turns and power that  *)
(* stays on, the one running command sees a key that nobody changes, and     *)
(* generates one only while there is no ciphertext (TurnsTaken).             *)
EXTENDS SecretStore, TLAPS

\* The content of a file is encrypted under one key, as far as it has any.
Under(content, k) == content # Missing => \A q \in Procs : content[q] \in {None, k}

OneKey ==
    established =>
      /\ keyFile = Old /\ keySafe
      /\ Under(file, Old) /\ Under(safe, Old)
      /\ \A p \in Procs :
            /\ pc[p] \notin {"generate", "fill"}
            /\ key[p] \in {None, Old}
            /\ Under(loaded[p], Old) /\ Under(backup[p], Old)
            /\ pc[p] \in {"stage", "swap", "sync"} => key[p] = Old

Turn(p) ==
    /\ Under(loaded[p], keyFile)
    /\ pc[p] = "swap" => Under(backup[p], keyFile)
    /\ pc[p] = "generate" => keyFile = "missing"
    /\ pc[p] = "fill" => keyFile = "empty"
    /\ pc[p] \in {"stage", "swap", "sync"} => key[p] = keyFile

AtMostOne == \A p, q \in Procs : Running(p) /\ Running(q) => p = q

TurnsTaken ==
    ~parallel => /\ AtMostOne
                 /\ ~established /\ losses = 0
                    => Under(file, keyFile) /\ \A p \in Procs : Running(p) => Turn(p)

\* What a command that reported success has left, and what the running one
\* will write.
Kept ==
    ~parallel /\ platform = "unix" =>
      \A p \in Procs :
         /\ pc[p] = "done" => Holds(file, p) /\ Holds(safe, p)
         /\ pc[p] = "done" => \A q \in Procs : Running(q) => loaded[q][p] # None
         /\ pc[p] \in {"stage", "sync"} => key[p] # None
         /\ pc[p] = "sync" => Holds(file, p)
         /\ pc[p] # "swap"

IInv == TypeOK /\ OneKey /\ TurnsTaken /\ Kept

LEMMA Constants ==
  /\ None \notin Keys /\ "missing" \notin Keys /\ "empty" \notin Keys /\ Old \in Keys
  /\ Procs \subseteq Keys /\ Missing \notin Secrets
  /\ NoSecrets \in Secrets
  /\ \A q \in Procs : NoSecrets[q] = None
  BY StoreAssumption DEF Keys, Secrets, NoSecrets

LEMMA CrashTypes ==
  ASSUME TypeOK, Crash
  PROVE  crashes' \in 0..MaxCrashes
  BY StoreAssumption DEF TypeOK, Crash

\* What a command writes: what it loaded, and its own secret.
LEMMA UpdatedSecrets ==
  ASSUME TypeOK, NEW p \in Procs
  PROVE  /\ Updated(p) \in Secrets /\ Updated(p) # Missing
         /\ Updated(p)[p] = key[p]
         /\ \A q \in Procs \ {p} : Updated(p)[q] = loaded[p][q]
  <1>1. Updated(p) \in Secrets
    BY DEF Updated, TypeOK, Secrets
  <1>2. Updated(p) # Missing
    BY <1>1, Constants
  <1> QED
    BY <1>1, <1>2 DEF Updated, TypeOK, Secrets

-----------------------------------------------------------------------------
(* Types. *)

LEMMA InitTypes == Init => TypeOK
  <1> SUFFICES ASSUME Init PROVE TypeOK
    OBVIOUS
  <1>1. /\ loaded \in [Procs -> Secrets] /\ key \in [Procs -> Keys \cup {None}]
        /\ backup \in [Procs -> Secrets \cup {Missing}]
        /\ keyFile \in Keys \cup {"missing", "empty"}
    BY Constants DEF Init
  <1>2. pc \in [Procs -> Ended \cup {Idle, "key", "read", "generate", "fill",
                                   "stage", "swap", "sync"}]
    BY DEF Init
  <1>3. crashes \in 0..MaxCrashes /\ losses \in 0..MaxPowerLosses
    BY StoreAssumption DEF Init
  <1> QED
    BY <1>1, <1>2, <1>3 DEF Init, TypeOK

LEMMA CommandTypes ==
  ASSUME TypeOK, NEW p \in Procs, Step(p)
  PROVE  TypeOK'
  <1>1. CASE Load(p)
    BY <1>1, Constants DEF Load, Goto, TypeOK, Ended, Idle, scenario
  <1>2. CASE FindKey(p)
    BY <1>2 DEF FindKey, Goto, TypeOK, Ended, Idle, scenario
  <1>3. CASE ReadKey(p)
    BY <1>3 DEF ReadKey, Goto, TypeOK, Ended, Idle, scenario
  <1>4. CASE CorruptKey(p)
    BY <1>4 DEF CorruptKey, Goto, TypeOK, Ended, Idle, scenario
  <1>5. CASE CreateKey(p)
    BY <1>5 DEF CreateKey, Goto, TypeOK, Ended, Idle, scenario
  <1>6. CASE FillKey(p)
    BY <1>6, Constants DEF FillKey, Goto, TypeOK, Ended, Idle, scenario
  <1>7. CASE Replace(p)
    BY <1>7, UpdatedSecrets DEF Replace, Goto, TypeOK, Ended, Idle, scenario
  <1>8. CASE MoveAside(p)
    BY <1>8 DEF MoveAside, Goto, TypeOK, Ended, Idle, scenario
  <1>9. CASE Swap(p)
    BY <1>9, UpdatedSecrets DEF Swap, Goto, TypeOK, Ended, Idle, scenario
  <1>10. CASE SwapFails(p)
    BY <1>10, CrashTypes DEF SwapFails, Goto, TypeOK, Ended, Idle, scenario
  <1>11. CASE SyncDirectory(p)
    BY <1>11 DEF SyncDirectory, Goto, TypeOK, Ended, Idle, scenario
  <1>12. CASE SaveFails(p)
    BY <1>12, CrashTypes DEF SaveFails, Goto, TypeOK, Ended, Idle, scenario
  <1>13. CASE Kill(p)
    BY <1>13, CrashTypes DEF Kill, Goto, TypeOK, Ended, Idle, scenario
  <1> QED
    BY <1>1, <1>2, <1>3, <1>4, <1>5, <1>6, <1>7, <1>8, <1>9, <1>10, <1>11, <1>12, <1>13 DEF Step

LEMMA PowerTypes == TypeOK /\ PowerLoss => TypeOK'
  <1> SUFFICES ASSUME TypeOK, PowerLoss PROVE TypeOK'
    OBVIOUS
  <1>1. losses' \in 0..MaxPowerLosses
    BY StoreAssumption DEF PowerLoss, TypeOK
  <1>2. pc' \in [Procs -> Ended \cup {Idle, "key", "read", "generate", "fill",
                                    "stage", "swap", "sync"}]
    BY DEF PowerLoss, TypeOK, Ended
  <1> QED
    BY <1>1, <1>2 DEF PowerLoss, TypeOK, scenario

LEMMA StepTypes == TypeOK /\ [Next]_vars => TypeOK'
  BY CommandTypes, PowerTypes DEF Next, vars, scenario, TypeOK

-----------------------------------------------------------------------------
(* With an old key there is one key. *)

LEMMA UpdatedUnder ==
  ASSUME TypeOK, NEW p \in Procs, NEW k, Under(loaded[p], k), key[p] \in {None, k}
  PROVE  Under(Updated(p), k)
  <1>1. loaded[p] # Missing
    BY Constants DEF TypeOK
  <1>2. ASSUME NEW q \in Procs PROVE Updated(p)[q] \in {None, k}
    <2>1. CASE q = p
      BY <2>1, UpdatedSecrets
    <2>2. CASE q # p
      BY <1>1, <2>2, UpdatedSecrets DEF Under
    <2> QED
      BY <2>1, <2>2
  <1>3. \A q \in Procs : Updated(p)[q] \in {None, k}
    BY <1>2
  <1> QED
    BY <1>3, Zenon DEF Under

LEMMA NothingUnder == \A k : Under(Missing, k) /\ Under(NoSecrets, k)
  BY Constants DEF Under

LEMMA CommandOneKey ==
  ASSUME TypeOK, OneKey, NEW p \in Procs, Step(p)
  PROVE  OneKey'
  <1> SUFFICES ASSUME established PROVE OneKey'
    BY DEF OneKey, Step, Load, FindKey, ReadKey, CorruptKey, CreateKey, FillKey, Replace,
           MoveAside, Swap, SwapFails, SyncDirectory, SaveFails, Kill, scenario
  <1> USE DEF OneKey
  <1>0. Old \in Keys /\ Old # "missing"
    BY Constants
  <1>1. CASE Load(p)
    BY <1>1, NothingUnder DEF Load, Goto, TypeOK, Idle, scenario
  <1>2. CASE FindKey(p)
    BY <1>2, <1>0 DEF FindKey, Goto, TypeOK, Idle, scenario
  <1>3. CASE ReadKey(p)
    BY <1>3 DEF ReadKey, Goto, TypeOK, Idle, scenario
  <1>4. CASE CorruptKey(p)
    BY <1>4 DEF CorruptKey, Goto, TypeOK, Idle, scenario
  <1>5. CASE CreateKey(p)
    BY <1>5 DEF CreateKey, Goto, TypeOK, Idle, scenario
  <1>6. CASE FillKey(p)
    BY <1>6 DEF FillKey, Goto, TypeOK, Idle, scenario
  <1>7. CASE Replace(p)
    BY <1>7, UpdatedUnder DEF Replace, Goto, TypeOK, Idle, scenario
  <1>8. CASE MoveAside(p)
    BY <1>8, NothingUnder DEF MoveAside, Goto, TypeOK, Idle, scenario
  <1>9. CASE Swap(p)
    BY <1>9, UpdatedUnder, NothingUnder DEF Swap, Goto, TypeOK, Idle, scenario
  <1>10. CASE SwapFails(p)
    BY <1>10, NothingUnder DEF SwapFails, Goto, TypeOK, Idle, scenario
  <1>11. CASE SyncDirectory(p)
    BY <1>11 DEF SyncDirectory, Goto, TypeOK, Idle, scenario
  <1>12. CASE SaveFails(p)
    BY <1>12 DEF SaveFails, Goto, TypeOK, Idle, scenario
  <1>13. CASE Kill(p)
    BY <1>13 DEF Kill, Goto, TypeOK, Idle, scenario, Running, Ended
  <1> QED
    BY <1>1, <1>2, <1>3, <1>4, <1>5, <1>6, <1>7, <1>8, <1>9, <1>10, <1>11, <1>12, <1>13 DEF Step

LEMMA StepOneKey == TypeOK /\ OneKey /\ [Next]_vars => OneKey'
  <1> SUFFICES ASSUME TypeOK, OneKey, [Next]_vars PROVE OneKey'
    OBVIOUS
  <1>1. CASE PowerLoss
    BY <1>1 DEF PowerLoss, OneKey, scenario
  <1>2. CASE UNCHANGED vars
    BY <1>2 DEF vars, scenario, OneKey
  <1> QED
    BY <1>1, <1>2, CommandOneKey DEF Next

-----------------------------------------------------------------------------
(* Commands that take turns. *)

\* A command only starts when none runs, and the others stand still.
LEMMA CommandTurn ==
  ASSUME TypeOK, NEW p \in Procs, Step(p)
  PROVE  /\ \A q \in Procs \ {p} : pc'[q] = pc[q] /\ loaded'[q] = loaded[q]
                                   /\ key'[q] = key[q] /\ backup'[q] = backup[q]
         /\ Running(p) \/ (Load(p) /\ pc[p] = Idle)
         /\ UNCHANGED <<scenario, losses>>
  <1>1. CASE Load(p)
    BY <1>1 DEF Load, Goto, TypeOK, Running, Ended, Idle, scenario
  <1>2. CASE FindKey(p)
    BY <1>2 DEF FindKey, Goto, TypeOK, Running, Ended, Idle, scenario
  <1>3. CASE ReadKey(p)
    BY <1>3 DEF ReadKey, Goto, TypeOK, Running, Ended, Idle, scenario
  <1>4. CASE CorruptKey(p)
    BY <1>4 DEF CorruptKey, Goto, TypeOK, Running, Ended, Idle, scenario
  <1>5. CASE CreateKey(p)
    BY <1>5 DEF CreateKey, Goto, TypeOK, Running, Ended, Idle, scenario
  <1>6. CASE FillKey(p)
    BY <1>6 DEF FillKey, Goto, TypeOK, Running, Ended, Idle, scenario
  <1>7. CASE Replace(p)
    BY <1>7 DEF Replace, Goto, TypeOK, Running, Ended, Idle, scenario
  <1>8. CASE MoveAside(p)
    BY <1>8 DEF MoveAside, Goto, TypeOK, Running, Ended, Idle, scenario
  <1>9. CASE Swap(p)
    BY <1>9 DEF Swap, Goto, TypeOK, Running, Ended, Idle, scenario
  <1>10. CASE SwapFails(p)
    BY <1>10 DEF SwapFails, Goto, TypeOK, Running, Ended, Idle, scenario
  <1>11. CASE SyncDirectory(p)
    BY <1>11 DEF SyncDirectory, Goto, TypeOK, Running, Ended, Idle, scenario
  <1>12. CASE SaveFails(p)
    BY <1>12 DEF SaveFails, Goto, TypeOK, Running, Ended, Idle, scenario
  <1>13. CASE Kill(p)
    BY <1>13 DEF Kill, Goto, TypeOK, Running, Ended, Idle, scenario
  <1> QED
    BY <1>1, <1>2, <1>3, <1>4, <1>5, <1>6, <1>7, <1>8, <1>9, <1>10, <1>11, <1>12, <1>13 DEF Step

LEMMA CommandAlone ==
  ASSUME TypeOK, TurnsTaken, ~parallel, NEW p \in Procs, Step(p)
  PROVE  /\ AtMostOne'
         /\ \A q \in Procs \ {p} : ~Running(q) /\ ~Running(q)'
  <1>1. \A q \in Procs \ {p} : ~Running(q)
    BY CommandTurn DEF TurnsTaken, AtMostOne, Load
  <1>2. \A q \in Procs \ {p} : ~Running(q)'
    BY <1>1, CommandTurn DEF Running
  <1> QED
    BY <1>1, <1>2 DEF AtMostOne

\* While a file is under a key that is none, it has no ciphertext, and is
\* under any key.
LEMMA NoCiphertext ==
  ASSUME NEW content \in Secrets \cup {Missing}, NEW k, NEW m \in {"missing", "empty"},
         Under(content, m)
  PROVE  Under(content, k)
  <1>1. ASSUME content # Missing, NEW q \in Procs PROVE content[q] \in {None, k}
    <2>1. content[q] \in Keys \cup {None}
      BY <1>1 DEF Secrets
    <2>2. content[q] \in {None, m}
      BY <1>1 DEF Under
    <2> QED
      BY <2>1, <2>2, Constants
  <1> QED
    BY <1>1 DEF Under

LEMMA CommandKeepsTurn ==
  ASSUME TypeOK, TurnsTaken, ~parallel, ~established, losses = 0, NEW p \in Procs, Step(p)
  PROVE  Under(file, keyFile)' /\ (Running(p) => Turn(p))'
  <1>0. /\ Under(file, keyFile) /\ (Running(p) => Turn(p)) /\ (Running(p) \/ Load(p))
        /\ loaded[p] \in Secrets /\ backup[p] \in Secrets \cup {Missing}
        /\ file \in Secrets \cup {Missing}
    BY CommandTurn DEF TurnsTaken, TypeOK
  <1>1. CASE Load(p)
    <2>1. keyFile' = keyFile /\ file' = file /\ pc'[p] = "key" /\ backup' = backup
          /\ loaded'[p] = IF file = Missing THEN NoSecrets ELSE file
      BY <1>1 DEF Load, Goto, TypeOK
    <2>2. Under(loaded'[p], keyFile)
      BY <1>0, <2>1, NothingUnder
    <2> QED
      BY <1>0, <2>1, <2>2 DEF Turn
  <1>2. CASE FindKey(p)
    BY <1>0, <1>2 DEF FindKey, Turn, Running, Ended, Idle, Goto, TypeOK
  <1>3. CASE ReadKey(p)
    BY <1>0, <1>3 DEF ReadKey, Turn, Running, Ended, Idle, Goto, TypeOK
  <1>4. CASE CorruptKey(p)
    BY <1>0, <1>4 DEF CorruptKey, Turn, Running, Ended, Idle, Goto, TypeOK
  <1>5. CASE CreateKey(p)
    <2>1. pc[p] = "generate" /\ Running(p)
      BY <1>5 DEF CreateKey, Goto, Running, Ended, Idle
    <2>2. keyFile = "missing" /\ Under(loaded[p], keyFile)
      BY <1>0, <2>1 DEF Turn
    <2>3. Under(file, keyFile') /\ Under(loaded[p], keyFile')
      BY <1>0, <2>2, NoCiphertext
    <2>4. /\ UNCHANGED <<file, loaded>>
          /\ pc'[p] = "fill" /\ keyFile' = "empty"
      BY <1>5 DEF CreateKey, Goto, TypeOK
    <2> QED
      BY <2>3, <2>4 DEF Turn
  <1>6. CASE FillKey(p)
    <2>1. pc[p] = "fill" /\ Running(p)
      BY <1>6 DEF FillKey, Goto, Running, Ended, Idle
    <2>2. keyFile = "empty" /\ Under(loaded[p], keyFile)
      BY <1>0, <2>1 DEF Turn
    <2>3. Under(file, keyFile') /\ Under(loaded[p], keyFile')
      BY <1>0, <2>2, NoCiphertext
    <2>4. /\ UNCHANGED <<file, loaded>>
          /\ pc'[p] = "stage" /\ keyFile' = p /\ key'[p] = p
      BY <1>6 DEF FillKey, Goto, TypeOK
    <2> QED
      BY <2>3, <2>4 DEF Turn
  <1>7. CASE Replace(p)
    <2>1. pc[p] = "stage" /\ Running(p)
      BY <1>7 DEF Replace, Goto, Running, Ended, Idle
    <2>2. key[p] = keyFile /\ Under(loaded[p], keyFile)
      BY <1>0, <2>1 DEF Turn
    <2>3. Under(Updated(p), keyFile)
      BY <2>2, UpdatedUnder
    <2>4. /\ file' = Updated(p) /\ pc'[p] = "sync" /\ UNCHANGED <<keyFile, loaded, key>>
          /\ backup'[p] \in {backup[p], Missing}
      BY <1>7 DEF Replace, Goto, TypeOK
    <2> QED
      BY <2>2, <2>3, <2>4 DEF Turn
  <1>8. CASE MoveAside(p)
    BY <1>0, <1>8, NothingUnder DEF MoveAside, Turn, Running, Ended, Idle, Goto, TypeOK
  <1>9. CASE Swap(p)
    <2>1. pc[p] = "swap" /\ Running(p)
      BY <1>9 DEF Swap, Goto, Running, Ended, Idle
    <2>2. key[p] = keyFile /\ Under(loaded[p], keyFile)
      BY <1>0, <2>1 DEF Turn
    <2>3. Under(Updated(p), keyFile)
      BY <2>2, UpdatedUnder
    <2>4. /\ file' = Updated(p) /\ pc'[p] = "sync" /\ UNCHANGED <<keyFile, loaded, key>>
          /\ backup'[p] \in {backup[p], Missing}
      BY <1>9 DEF Swap, Goto, TypeOK
    <2> QED
      BY <2>2, <2>3, <2>4 DEF Turn
  <1>10. CASE SwapFails(p)
    BY <1>0, <1>10, NothingUnder DEF SwapFails, Turn, Running, Ended, Idle, Goto, TypeOK
  <1>11. CASE SyncDirectory(p)
    BY <1>0, <1>11 DEF SyncDirectory, Turn, Running, Ended, Idle, Goto, TypeOK
  <1>12. CASE SaveFails(p)
    BY <1>0, <1>12 DEF SaveFails, Turn, Running, Ended, Idle, Goto, TypeOK
  <1>13. CASE Kill(p)
    BY <1>0, <1>13 DEF Kill, Turn, Running, Ended, Idle, Goto, TypeOK
  <1> QED
    BY <1>1, <1>2, <1>3, <1>4, <1>5, <1>6, <1>7, <1>8, <1>9, <1>10, <1>11, <1>12, <1>13 DEF Step

\* No step changes the platform, the overlap of commands or the established key.
LEMMA ScenarioStays == TypeOK /\ [Next]_vars => UNCHANGED <<platform, parallel, established>>
  <1> SUFFICES ASSUME TypeOK, [Next]_vars PROVE UNCHANGED <<platform, parallel, established>>
    OBVIOUS
  <1>1. ASSUME NEW p \in Procs, Step(p) PROVE UNCHANGED <<platform, parallel, established>>
    BY <1>1, CommandTurn DEF scenario
  <1>2. CASE PowerLoss
    BY <1>2 DEF PowerLoss, scenario
  <1>3. CASE UNCHANGED vars
    BY <1>3 DEF vars, scenario
  <1> QED
    BY <1>1, <1>2, <1>3 DEF Next

LEMMA StepTurns == TypeOK /\ TurnsTaken /\ [Next]_vars => TurnsTaken'
  <1> SUFFICES ASSUME TypeOK, TurnsTaken, [Next]_vars, ~parallel PROVE TurnsTaken'
    BY ScenarioStays DEF TurnsTaken
  <1>1. ASSUME NEW p \in Procs, Step(p) PROVE TurnsTaken'
    <2>1. AtMostOne' /\ \A q \in Procs \ {p} : ~Running(q)'
      BY <1>1, CommandAlone
    <2>2. UNCHANGED <<scenario, losses>>
      BY <1>1, CommandTurn
    <2>3. ~established /\ losses = 0 => Under(file, keyFile)' /\ (Running(p) => Turn(p))'
      BY <1>1, CommandKeepsTurn
    <2> QED
      BY <2>1, <2>2, <2>3 DEF TurnsTaken, scenario
  <1>2. CASE PowerLoss
    <2>1. \A p \in Procs : ~Running(p)'
      BY <1>2 DEF PowerLoss, Running, Ended
    <2>2. losses' # 0
      BY <1>2 DEF PowerLoss, TypeOK
    <2> QED
      BY <2>1, <2>2 DEF TurnsTaken, AtMostOne
  <1>3. CASE UNCHANGED vars
    BY <1>3 DEF vars, scenario, TurnsTaken, AtMostOne, Running, Turn, Under
  <1> QED
    BY <1>1, <1>2, <1>3 DEF Next

-----------------------------------------------------------------------------
(* What was saved stays. *)

KeptFor(p) ==
    /\ pc[p] = "done" => Holds(file, p) /\ Holds(safe, p)
    /\ pc[p] = "done" => \A q \in Procs : Running(q) => loaded[q][p] # None
    /\ pc[p] \in {"stage", "sync"} => key[p] # None
    /\ pc[p] = "sync" => Holds(file, p)
    /\ pc[p] # "swap"

\* Of the command that steps.
LEMMA KeptByStep ==
  ASSUME TypeOK, Kept, TurnsTaken, ~parallel, platform = "unix", NEW p \in Procs, Step(p)
  PROVE  KeptFor(p)'
  <1>0. KeptFor(p) /\ \A q \in Procs \ {p} : ~Running(q)'
    BY CommandAlone DEF Kept, KeptFor
  <1>1. CASE Load(p)
    BY <1>0, <1>1 DEF Load, Goto, TypeOK, KeptFor, Ended, Idle, Running
  <1>2. CASE FindKey(p)
    BY <1>0, <1>2 DEF FindKey, Goto, TypeOK, KeptFor, Ended, Idle, Running
  <1>3. CASE ReadKey(p)
    BY <1>0, <1>3, Constants DEF ReadKey, Goto, TypeOK, KeptFor, Ended, Idle, Running
  <1>4. CASE CorruptKey(p)
    BY <1>0, <1>4 DEF CorruptKey, Goto, TypeOK, KeptFor, Ended, Idle, Running
  <1>5. CASE CreateKey(p)
    BY <1>0, <1>5 DEF CreateKey, Goto, TypeOK, KeptFor, Ended, Idle, Running
  <1>6. CASE FillKey(p)
    BY <1>0, <1>6, Constants DEF FillKey, Goto, TypeOK, KeptFor, Ended, Idle, Running
  <1>7. CASE Replace(p)
    <2>1. pc'[p] = "sync" /\ file' = Updated(p) /\ key' = key /\ key[p] # None
      BY <1>0, <1>7 DEF Replace, Goto, TypeOK, KeptFor
    <2> QED
      BY <2>1, UpdatedSecrets DEF KeptFor, Holds
  <1>8. CASE MoveAside(p)
    BY <1>0, <1>8 DEF MoveAside, Goto, KeptFor
  <1>9. CASE Swap(p)
    BY <1>0, <1>9 DEF Swap, Goto, KeptFor
  <1>10. CASE SwapFails(p)
    BY <1>0, <1>10 DEF SwapFails, Goto, KeptFor
  <1>11. CASE SyncDirectory(p)
    <2>1. pc'[p] = "done" /\ file' = file /\ safe' = file /\ Holds(file, p)
      BY <1>0, <1>11 DEF SyncDirectory, Goto, TypeOK, KeptFor
    <2>2. ~Running(p)'
      BY <2>1 DEF Running, Ended
    <2> QED
      BY <1>0, <2>1, <2>2 DEF KeptFor, Holds
  <1>12. CASE SaveFails(p)
    BY <1>0, <1>12 DEF SaveFails, Goto, TypeOK, KeptFor, Ended, Idle, Running
  <1>13. CASE Kill(p)
    BY <1>0, <1>13 DEF Kill, Goto, TypeOK, KeptFor, Ended, Idle, Running
  <1> QED
    BY <1>1, <1>2, <1>3, <1>4, <1>5, <1>6, <1>7, <1>8, <1>9, <1>10, <1>11, <1>12, <1>13 DEF Step

\* Of the others: the step writes what it loaded, which has their secrets.
LEMMA KeptByOthers ==
  ASSUME TypeOK, Kept, TurnsTaken, ~parallel, platform = "unix", NEW p \in Procs, Step(p),
         NEW q \in Procs \ {p}
  PROVE  KeptFor(q)'
  <1>1. KeptFor(q) /\ KeptFor(p) /\ ~Running(q) /\ pc'[q] = pc[q] /\ ~Running(q)'
    BY CommandAlone, CommandTurn DEF Kept, KeptFor
  <1>2. pc[q] \notin {"stage", "sync", "swap"}
    BY <1>1 DEF Running, Ended, Idle
  <1>3. CASE pc[q] # "done"
    BY <1>1, <1>2, <1>3 DEF KeptFor
  <1>4. CASE pc[q] = "done"
    <2>1. Holds(file, q) /\ Holds(safe, q)
      BY <1>1, <1>4 DEF KeptFor
    <2>2. \A r \in Procs : Running(r)' => r = p
      BY CommandAlone
    <2>3. Running(p)' => loaded'[p][q] # None
      <3>1. CASE Load(p)
        BY <2>1, <3>1 DEF Load, Holds, TypeOK
      <3>2. CASE ~Load(p)
        <4>1. Running(p) /\ loaded' = loaded
          BY <3>2, CommandTurn DEF Step, FindKey, ReadKey, CorruptKey, CreateKey, FillKey,
             Replace, MoveAside, Swap, SwapFails, SyncDirectory, SaveFails, Kill
        <4> QED
          BY <1>1, <1>4, <4>1 DEF KeptFor
      <3> QED
        BY <3>1, <3>2
    <2>4. Holds(file, q)' /\ Holds(safe, q)'
      <3>1. CASE Replace(p)
        <4>1. Running(p) /\ file' = Updated(p) /\ safe' = safe
          BY <3>1 DEF Replace, Goto, Running, Ended, Idle
        <4>2. loaded[p][q] # None
          BY <1>1, <1>4, <4>1 DEF KeptFor
        <4> QED
          BY <2>1, <4>1, <4>2, UpdatedSecrets DEF Holds
      <3>2. CASE SyncDirectory(p)
        BY <2>1, <3>2 DEF SyncDirectory, Holds
      <3>3. CASE MoveAside(p) \/ Swap(p) \/ SwapFails(p)
        BY <1>1, <3>3 DEF MoveAside, Swap, SwapFails, Goto, KeptFor
      <3>4. CASE ~(\/ Replace(p) \/ SyncDirectory(p) \/ MoveAside(p)
                   \/ Swap(p) \/ SwapFails(p))
        <4>1. UNCHANGED <<file, safe>>
          BY <3>4 DEF Step, Load, FindKey, ReadKey, CorruptKey, CreateKey, FillKey,
                      SaveFails, Kill
        <4> QED
          BY <2>1, <4>1 DEF Holds
      <3> QED
        BY <3>1, <3>2, <3>3, <3>4
    <2> QED
      BY <1>1, <1>4, <2>2, <2>3, <2>4 DEF KeptFor
  <1> QED
    BY <1>3, <1>4

LEMMA StepKept == TypeOK /\ Kept /\ TurnsTaken /\ [Next]_vars => Kept'
  <1> SUFFICES ASSUME TypeOK, Kept, TurnsTaken, [Next]_vars, ~parallel, platform = "unix"
               PROVE  \A q \in Procs : KeptFor(q)'
    BY ScenarioStays DEF Kept, KeptFor
  <1>1. ASSUME NEW p \in Procs, Step(p), NEW q \in Procs PROVE KeptFor(q)'
    BY <1>1, KeptByStep, KeptByOthers
  <1>2. CASE PowerLoss
    <2>1. ASSUME NEW q \in Procs PROVE KeptFor(q)'
      <3>1. KeptFor(q) /\ \A r \in Procs : ~Running(r)'
        BY <1>2 DEF Kept, KeptFor, PowerLoss, Running, Ended
      <3>2. pc'[q] \in {pc[q], "killed"} /\ pc'[q] \notin {"stage", "sync", "swap"}
        BY <1>2 DEF PowerLoss, Running, Ended, Idle
      <3> QED
        BY <1>2, <3>1, <3>2 DEF KeptFor, PowerLoss, Holds
    <2> QED
      BY <2>1
  <1>3. CASE UNCHANGED vars
    BY <1>3 DEF vars, scenario, Kept, KeptFor, Running, Holds
  <1> QED
    BY <1>1, <1>2, <1>3 DEF Next

-----------------------------------------------------------------------------
(* Results. *)

LEMMA InitInvariant == Init => IInv
  <1> SUFFICES ASSUME Init PROVE IInv
    OBVIOUS
  <1>1. TypeOK
    BY InitTypes
  <1>2. \A p \in Procs : ~Running(p)
    BY DEF Init, Running, Idle
  <1>3. OneKey
    BY NothingUnder DEF Init, OneKey, Idle
  <1>4. TurnsTaken
    BY <1>2, NothingUnder DEF Init, TurnsTaken, AtMostOne
  <1>5. Kept
    BY DEF Init, Kept, Idle
  <1> QED
    BY <1>1, <1>3, <1>4, <1>5 DEF IInv

\* One settled key, turns of the commands that take turns, and what each of them
\* is about to store: the invariant from which the results below follow.
THEOREM Invariant == Spec => []IInv
  <1>1. IInv /\ [Next]_vars => IInv'
    BY StepTypes, StepOneKey, StepTurns, StepKept DEF IInv
  <1> QED
    BY <1>1, InitInvariant, PTL DEF Spec

\* Every state of any number of commands has values of the declared kinds.
THEOREM TypeCorrect == Spec => []TypeOK
  <1>1. IInv => TypeOK
    BY DEF IInv
  <1> QED
    BY <1>1, Invariant, PTL

\* Wherever the key is settled, what is stored can be read with the key on disk:
\* with a key older than the commands, for any overlap, kill and power failure;
\* without one, while commands take turns and the power stays on, wherever they
\* are killed.  Two commands that race for a new key, and a power failure that
\* takes an unsynced one, are excluded by KeySettled.
THEOREM StaysReadable == Spec => []Readable
  <1>1. IInv => Readable
    BY DEF IInv, OneKey, TurnsTaken, Readable, KeySettled, Holds, Under
  <1> QED
    BY <1>1, Invariant, PTL

\* A secret whose save was reported stays, through kills and power failures
\* of later commands that take turns (Unix).
THEOREM StaysSaved == Spec => []SavedStays
  <1>1. IInv => SavedStays
    BY DEF IInv, Kept, SavedStays
  <1> QED
    BY <1>1, Invariant, PTL

=============================================================================
