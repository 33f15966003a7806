------------------------------ MODULE SecretStore ------------------------------
(* The encrypted configuration: one file of secrets, replaced as a whole,  *)
(* and the master key beside it, created by the first command that saves.  *)
(*                                                                         *)
(* Every process runs one command that stores one secret: it loads the     *)
(* file, obtains the key, and writes the file with its secret encrypted    *)
(* under that key.  No lock covers the file or the key.                    *)
(*                                                                         *)
(* A ciphertext is represented by the key it was made with, a key by the   *)
(* process that generated it.  Simplifications: config.toml and            *)
(* credentials.toml are saved the same way and are one file here; creating *)
(* the temporary file, filling it and syncing it is one step, since no one *)
(* else looks at it; power failures are modelled for Unix only.            *)
EXTENDS Naturals

CONSTANTS
    Procs,          \* commands, each run once
    Platforms,      \* which replace_file is compiled in
    MaxCrashes,     \* bound: kills and failing calls
    MaxPowerLosses, \* bound: power failures
    None,           \* no process, no secret
    Missing         \* no file

\* The key of an established installation is older than every process.
Old == "old"
Keys == Procs \cup {Old}

ASSUME StoreAssumption ==
    /\ {None, "missing", "empty"} \cap Keys = {}
    /\ Missing \notin [Procs -> Keys \cup {None}]
    /\ Platforms \subseteq {"unix", "windows"}
    /\ MaxCrashes \in Nat /\ MaxPowerLosses \in Nat

VARIABLES
    platform,  \* the build
    parallel,  \* whether commands overlap
    established, \* whether the master key was there, and durable, from the start
    keyFile,   \* .key: missing, empty, or a key
    keySafe,   \* whether .key survives a power failure as it is
    file,      \* the stored secrets, or missing
    safe,      \* the file a power failure can fall back to
    pc,        \* progress of each command
    loaded,    \* what it loaded
    key,       \* the key it encrypts with
    backup,    \* Windows: the file it moved aside
    crashes,   \* kills and failures so far
    losses     \* power failures so far

scenario == <<platform, parallel, established>>
vars == <<scenario, keyFile, keySafe, file, safe, pc, loaded, key, backup,
          crashes, losses>>

Secrets == [Procs -> Keys \cup {None}]
NoSecrets == [p \in Procs |-> None]

Idle == "idle"
Ended == {"done", "failed", "killed"}
Running(p) == pc[p] \notin Ended \cup {Idle}

-----------------------------------------------------------------------------
Init ==
    /\ platform \in Platforms
    /\ parallel \in BOOLEAN
    /\ established \in BOOLEAN
    /\ keyFile = IF established THEN Old ELSE "missing"
    /\ keySafe = established
    /\ file = Missing
    /\ safe = Missing
    /\ pc = [p \in Procs |-> Idle]
    /\ loaded = [p \in Procs |-> NoSecrets]
    /\ key = [p \in Procs |-> None]
    /\ backup = [p \in Procs |-> Missing]
    /\ crashes = 0
    /\ losses = 0

Goto(p, from, to) ==
    /\ pc[p] = from
    /\ pc' = [pc EXCEPT ![p] = to]

\* load_from: a missing file is an empty store.
Load(p) ==
    /\ Goto(p, Idle, "key")
    /\ parallel \/ \A q \in Procs : ~Running(q)
    /\ loaded' = [loaded EXCEPT ![p] = IF file = Missing THEN NoSecrets ELSE file]
    /\ UNCHANGED <<scenario, keyFile, keySafe, file, safe, key, backup, crashes,
                   losses>>

(* load_or_init_key *)

\* Mutant: the key is generated whether or not there is one.
FindNoKey(p) ==
    /\ Goto(p, "key", "generate")
    /\ UNCHANGED <<scenario, keyFile, keySafe, file, safe, loaded, key, backup,
                   crashes, losses>>

\* path.exists() decides between reading the key and generating one.
FindKey(p) ==
    /\ Goto(p, "key", IF keyFile = "missing" THEN "generate" ELSE "read")
    /\ UNCHANGED <<scenario, keyFile, keySafe, file, safe, loaded, key, backup,
                   crashes, losses>>

ReadKey(p) ==
    /\ keyFile \in Keys
    /\ Goto(p, "read", "stage")
    /\ key' = [key EXCEPT ![p] = keyFile]
    /\ UNCHANGED <<scenario, keyFile, keySafe, file, safe, loaded, backup,
                   crashes, losses>>

\* Not 32 bytes, or gone since: the command fails.
CorruptKey(p) ==
    /\ keyFile \notin Keys
    /\ Goto(p, "read", "failed")
    /\ UNCHANGED <<scenario, keyFile, keySafe, file, safe, loaded, key, backup,
                   crashes, losses>>

\* fs::write creates or truncates the file, and then fills it; nothing syncs it.
CreateKey(p) ==
    /\ Goto(p, "generate", "fill")
    /\ keyFile' = "empty"
    /\ keySafe' = FALSE
    /\ UNCHANGED <<scenario, file, safe, loaded, key, backup, crashes, losses>>

FillKey(p) ==
    /\ Goto(p, "fill", "stage")
    /\ keyFile' = p
    /\ keySafe' = FALSE
    /\ key' = [key EXCEPT ![p] = p]
    /\ UNCHANGED <<scenario, file, safe, loaded, backup, crashes, losses>>

(* write_owner_only_atomic *)

\* Mutant: only the new secret is written.
OnlyNew(p) == [NoSecrets EXCEPT ![p] = key[p]]

\* What is written: the loaded ciphertexts as they are, and the new one.
Updated(p) == [loaded[p] EXCEPT ![p] = key[p]]

\* rename replaces the file in one step; the directory is synced after it.
Replace(p) ==
    /\ platform = "unix" \/ file = Missing
    /\ Goto(p, "stage", "sync")
    /\ file' = Updated(p)
    /\ UNCHANGED <<scenario, keyFile, keySafe, safe, loaded, key, backup, crashes,
                   losses>>

\* Windows moves the old file aside first, ...
MoveAside(p) ==
    /\ platform = "windows" /\ file # Missing
    /\ Goto(p, "stage", "swap")
    /\ backup' = [backup EXCEPT ![p] = file]
    /\ file' = Missing
    /\ UNCHANGED <<scenario, keyFile, keySafe, safe, loaded, key, crashes, losses>>

\* ... then moves the new one in and removes the old one.
Swap(p) ==
    /\ Goto(p, "swap", "sync")
    /\ file' = Updated(p)
    /\ backup' = [backup EXCEPT ![p] = Missing]
    /\ UNCHANGED <<scenario, keyFile, keySafe, safe, loaded, key, crashes, losses>>

Crash ==
    /\ crashes < MaxCrashes
    /\ crashes' = crashes + 1

\* The second rename fails: the old file is moved back.
SwapFails(p) ==
    /\ Goto(p, "swap", "failed")
    /\ file' = backup[p]
    /\ backup' = [backup EXCEPT ![p] = Missing]
    /\ Crash
    /\ UNCHANGED <<scenario, keyFile, keySafe, safe, loaded, key, losses>>

\* The directory is synced, and the command reports success.
SyncDirectory(p) ==
    /\ Goto(p, "sync", "done")
    /\ safe' = file
    /\ UNCHANGED <<scenario, keyFile, keySafe, file, loaded, key, backup, crashes,
                   losses>>

\* Any other call fails; the temporary file is removed.
SaveFails(p) ==
    /\ pc[p] \in {"key", "read", "generate", "fill", "stage", "sync"}
    /\ pc' = [pc EXCEPT ![p] = "failed"]
    /\ Crash
    /\ UNCHANGED <<scenario, keyFile, keySafe, file, safe, loaded, key, backup,
                   losses>>

-----------------------------------------------------------------------------
(* the surroundings *)

Kill(p) ==
    /\ Running(p)
    /\ pc' = [pc EXCEPT ![p] = "killed"]
    /\ Crash
    /\ UNCHANGED <<scenario, keyFile, keySafe, file, safe, loaded, key, backup,
                   losses>>

\* An unsynced key file may come back empty or not at all, an unsynced
\* rename may not have happened.
PowerLoss ==
    /\ platform = "unix"
    /\ losses < MaxPowerLosses
    /\ losses' = losses + 1
    /\ keyFile' \in {keyFile} \cup (IF keySafe THEN {} ELSE {"empty", "missing"})
    /\ keySafe' = TRUE
    /\ file' \in {file, safe}
    /\ safe' = file'
    /\ pc' = [p \in Procs |-> IF Running(p) THEN "killed" ELSE pc[p]]
    /\ UNCHANGED <<scenario, loaded, key, backup, crashes>>

-----------------------------------------------------------------------------
Step(p) ==
    \/ Load(p) \/ FindKey(p) \/ ReadKey(p) \/ CorruptKey(p)
    \/ CreateKey(p) \/ FillKey(p) \/ Replace(p) \/ MoveAside(p) \/ Swap(p)
    \/ SwapFails(p) \/ SyncDirectory(p) \/ SaveFails(p) \/ Kill(p)

Next == PowerLoss \/ \E p \in Procs : Step(p)

Spec == Init /\ [][Next]_vars

-----------------------------------------------------------------------------
TypeOK ==
    /\ platform \in Platforms
    /\ {parallel, established} \subseteq BOOLEAN
    /\ keyFile \in Keys \cup {"missing", "empty"}
    /\ keySafe \in BOOLEAN
    /\ file \in Secrets \cup {Missing}
    /\ safe \in Secrets \cup {Missing}
    /\ pc \in [Procs -> Ended \cup {Idle, "key", "read", "generate", "fill",
                                    "stage", "swap", "sync"}]
    /\ loaded \in [Procs -> Secrets]
    /\ key \in [Procs -> Keys \cup {None}]
    /\ backup \in [Procs -> Secrets \cup {Missing}]
    /\ crashes \in 0..MaxCrashes
    /\ losses \in 0..MaxPowerLosses

Holds(content, p) == content # Missing /\ content[p] # None

\* What the rest relies on: the key is older than everything that happens, or
\* commands take turns and the power stays on.  Without it two first saves can
\* each generate a key, and a power failure can take back a key that was never
\* synced while the file encrypted with it stays.
KeySettled == established \/ (~parallel /\ losses = 0)

\* Whatever is stored can be decrypted with the key on disk, through every
\* creation of the key, replacement of the file and stop in between.
Readable == KeySettled => \A p \in Procs : Holds(file, p) => keyFile = file[p]

\* A command that reported success leaves its secret in the file, whatever
\* happens to later commands.  Commands that overlap can overwrite each other's
\* secret, and on Windows a stop between the two renames leaves no file.
SavedStays ==
    ~parallel /\ platform = "unix" =>
        \A p \in Procs : pc[p] = "done" => Holds(file, p)
=============================================================================
