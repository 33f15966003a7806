------------------------- MODULE ShareCheckpointProofs -------------------------
(* Proofs that the recovery journal of share downloads credits nothing that   *)
(* was not published, can always be loaded, and implements DurableCompletions. *)
(*                                                                            *)
(* A ledger is Wellformed: one record per file, a partial record only at the  *)
(* end and never before what fsync covered.  It is loaded with one of the     *)
(* snapshots that are on disk, may come back, or were read before the ledger  *)
(* (Views); they all have the same completions.  What the running process     *)
(* knows agrees with both (RunOK), and what was acknowledged is in the part   *)
(* that no power loss takes back (AckedSafe).                                 *)
EXTENDS ShareCheckpoint, FiniteSetTheorems, SequenceTheorems, TLAPS

-----------------------------------------------------------------------------
(* The inductive invariant. *)

\* Entry n of a body is a record.
Whole(body, n) == body[n] # Torn

Wellformed(l) ==
    /\ l.synced \in 0 .. Len(l.body)
    /\ \A n \in 1 .. Len(l.body) :
          ~Whole(l.body, n) => n = Len(l.body) /\ n > l.synced
    /\ \A n, m \in 1 .. Len(l.body) :
          Whole(l.body, n) /\ Whole(l.body, m) /\ l.body[n].file = l.body[m].file => n = m

\* The records contradict none of the completions in base.
Fits(base, body) ==
    \A n \in 1 .. Len(body) : Whole(body, n) => base[body[n].file] \in {None, body[n].digest}

\* The records say nothing that the completions c do not say.
Within(body, c) ==
    \A n \in 1 .. Len(body) : Whole(body, n) => c[body[n].file] = body[n].digest

\* The snapshots a reader may load the ledger with.
Views == {snapshot, fallback, seen} \ {NoFile}

ViewsLoad ==
    /\ snapshot = NoFile => Views = {}
    /\ \A s \in Views :
          /\ s.base = snapshot.base
          /\ s.marked => ~s.old
          /\ ledger = NoFile => ~s.marked
          /\ ledger # NoFile => Accepts(s, ledger.binding) /\ Fits(s.base, ledger.body)

LedgerOK == ledger # NoFile => Wellformed(ledger)

\* An older snapshot has no completions beside its own.
NothingAdded ==
    \A s \in {snapshot, fallback} :
        s # NoFile /\ ~s.marked /\ ledger # NoFile => Within(ledger.body, s.base)

Working(p) == pc[p] \in {"transfer", "append", "sync"}

Locked(p) == pc[p] # "idle" => lock = p

\* Before the first snapshot of a fresh run, and while a resume prepares.
Preparing(p) ==
    /\ pc[p] = "idle" => journal[p] = Empty
    /\ pc[p] = "load" => snapshot # NoFile /\ ~fresh[p]
    /\ pc[p] \in {"verify", "ledger", "snapshot"} =>
          IF fresh[p]
          THEN snapshot = NoFile /\ journal[p] = Empty /\ pending[p] /\ pc[p] # "verify"
          ELSE /\ snapshot # NoFile /\ pending[p] = ~snapshot.marked
               /\ journal[p] = Loaded(snapshot, ledger)
               /\ pc[p] # "snapshot"
                     => durable[p] = journal[p] /\ binding[p] = SnapshotBinding(snapshot)
    /\ pc[p] = "snapshot" =>
          /\ pending[p] /\ ledger # NoFile
          /\ ledger.binding = [old |-> FALSE, base |-> journal[p]]
          /\ \A n \in 1 .. Len(ledger.body) : Whole(ledger.body, n)
          /\ Within(ledger.body, journal[p])

\* While files are transferred and recorded.
Recording(p) ==
    Working(p) =>
        /\ ledger # NoFile /\ snapshot # NoFile /\ snapshot.marked /\ fallback = snapshot
        /\ Within(ledger.body, journal[p])
        /\ \A i \in Files : snapshot.base[i] \in {None, journal[p][i]}
        /\ ~poisoned[p] => \A n \in 1 .. Len(ledger.body) : Whole(ledger.body, n)
        /\ pc[p] # "transfer" =>
              current[p] \in Files /\ journal[p][current[p]] # None
        /\ pc[p] = "append" =>
              /\ snapshot.base[current[p]] = None
              /\ \A n \in 1 .. Len(ledger.body) :
                    Whole(ledger.body, n) => ledger.body[n].file # current[p]
        /\ pc[p] = "sync" =>
              /\ \A n \in 1 .. Len(ledger.body) : Whole(ledger.body, n)
              /\ \E n \in 1 .. Len(ledger.body) : ledger.body[n].file = current[p]

ProcOK(p) == Locked(p) /\ Preparing(p) /\ Recording(p)

RunOK == \A p \in Procs : ProcOK(p)

\* What was acknowledged is in a snapshot or a record that stays.
AckedSafe ==
    \A i \in acked :
        /\ fallback # NoFile
        /\ \/ fallback.base[i] # None
           \/ /\ ledger # NoFile
              /\ \E n \in 1 .. ledger.synced :
                    Whole(ledger.body, n) /\ ledger.body[n].file = i

Kept == LedgerOK /\ ViewsLoad /\ NothingAdded /\ AckedSafe

Journal == TypeOK /\ Kept /\ RunOK

\* Every completion that is saved or held was published.
Landed(c) == \A i \in Files : c[i] # None => c[i] \in landed[i]

RecordsLanded ==
    ledger # NoFile =>
        \A n \in 1 .. Len(ledger.body) :
            Whole(ledger.body, n) => ledger.body[n].digest \in landed[ledger.body[n].file]

Published ==
    /\ \A s \in {snapshot, fallback} : s # NoFile => Landed(s.base)
    /\ RecordsLanded
    /\ \A p \in Procs : Landed(journal[p]) /\ Landed(durable[p])

-----------------------------------------------------------------------------
(* Values. *)

LEMMA Constants ==
  /\ IsFiniteSet(Files) /\ None \notin Digests /\ None \notin Files /\ Torn \notin Records
  /\ NoProc \notin Procs /\ MaxRuns \in Nat
  BY ConstantsAssumption DEF Records

LEMMA NoFileIsNone == NoFile \notin Snapshots /\ NoFile \notin Ledgers
  <1>1. DOMAIN NoFile = {"absent"}
    BY DEF NoFile
  <1>2. \A s \in Snapshots : "marked" \in DOMAIN s
    BY DEF Snapshots
  <1>3. \A l \in Ledgers : "body" \in DOMAIN l
    BY DEF Ledgers
  <1> QED
    BY <1>1, <1>2, <1>3

LEMMA EmptyTypes == Empty \in Completions /\ NoBinding \in Bindings /\ Done(Empty) = {}
  BY DEF Empty, Completions, NoBinding, Bindings, Done

Bodies == Seq(Records \cup {Torn})

\* A body without its torn end is a sequence of the same records.
LEMMA ReadableValue ==
  ASSUME NEW l \in Ledgers, Wellformed(l)
  PROVE  /\ Readable(l.body) \in Seq(Records)
         /\ Len(Readable(l.body)) \in 0 .. Len(l.body)
         /\ \A n \in 1 .. Len(Readable(l.body)) : Readable(l.body)[n] = l.body[n] /\ Whole(l.body, n)
         /\ \A n \in 1 .. Len(l.body) : Whole(l.body, n) => n \in 1 .. Len(Readable(l.body))
  <1> DEFINE body == l.body
  <1>1. body \in Seq(Records \cup {Torn}) /\ Len(body) \in Nat
    BY DEF Ledgers
  <1>2. CASE body # <<>> /\ Last(body) = Torn
    <2>1. Len(body) > 0 /\ body[Len(body)] = Torn
      BY <1>1, <1>2 DEF Last
    <2>2. Readable(body) = SubSeq(body, 1, Len(body) - 1)
      BY <1>2 DEF Readable, Front
    <2>3. /\ Len(Readable(body)) = Len(body) - 1
          /\ \A n \in 1 .. Len(body) - 1 : Readable(body)[n] = body[n]
      BY <1>1, <2>1, <2>2
    <2>4. \A n \in 1 .. Len(body) - 1 : body[n] # Torn /\ body[n] \in Records
      BY <1>1 DEF Wellformed, Whole
    <2>5. Readable(body) = [n \in 1 .. Len(body) - 1 |-> body[n]]
      BY <1>1, <2>1, <2>2
    <2>6. Readable(body) \in Seq(Records)
      BY <1>1, <2>1, <2>4, <2>5
    <2> QED
      BY <1>1, <2>1, <2>3, <2>4, <2>6 DEF Whole
  <1>3. CASE ~(body # <<>> /\ Last(body) = Torn)
    <2>1. Readable(body) = body
      BY <1>3 DEF Readable
    <2>2. \A n \in 1 .. Len(body) : Whole(body, n)
      BY <1>1, <1>3 DEF Wellformed, Whole, Last
    <2>3. \A n \in 1 .. Len(body) : body[n] \in Records
      BY <1>1, <2>2 DEF Whole
    <2>4. body = [n \in 1 .. Len(body) |-> body[n]]
      BY <1>1
    <2>5. body \in Seq(Records)
      BY <1>1, <2>3, <2>4
    <2> QED
      BY <1>1, <2>1, <2>2, <2>5
  <1> QED
    BY <1>2, <1>3

\* What is loaded is what a record says, else what the snapshot says.
LEMMA MergeValue ==
  ASSUME NEW s \in Snapshots, NEW l \in Ledgers, Wellformed(l)
  PROVE  /\ Loaded(s, l) \in Completions
         /\ \A n \in 1 .. Len(l.body) :
               Whole(l.body, n) => Loaded(s, l)[l.body[n].file] = l.body[n].digest
         /\ \A i \in Files :
               (\A n \in 1 .. Len(l.body) : Whole(l.body, n) => l.body[n].file # i)
                   => Loaded(s, l)[i] = s.base[i]
  <1> DEFINE body == l.body
  <1> DEFINE read == Readable(body)
  <1>1. l # NoFile
    BY NoFileIsNone
  <1>2. Loaded(s, l) = Merge(s, read)
    BY <1>1 DEF Loaded
  <1>3. /\ read \in Seq(Records) /\ Len(read) \in 0 .. Len(body)
        /\ \A n \in 1 .. Len(read) : read[n] = body[n] /\ Whole(body, n)
        /\ \A n \in 1 .. Len(body) : Whole(body, n) => n \in 1 .. Len(read)
    BY ReadableValue
  <1>4. Len(body) \in Nat /\ Len(read) \in Nat
    BY DEF Ledgers
  <1>5. \A n \in 1 .. Len(read) : read[n].file \in Files /\ read[n].digest \in Digests
    <2>1. \A n \in 1 .. Len(read) : read[n] \in Records
      BY <1>3
    <2> QED
      BY <2>1 DEF Records
  <1>6. \A n, m \in 1 .. Len(read) : read[n].file = read[m].file => n = m
    BY <1>3, <1>4 DEF Wellformed
  <1>7. s.base \in Completions
    BY DEF Snapshots
  <1> HIDE DEF read, body
  <1>8. ASSUME NEW n \in 1 .. Len(read)
        PROVE  Merge(s, read)[read[n].file] = read[n].digest
    <2> DEFINE i == read[n].file
    <2> DEFINE at == CHOOSE m \in 1 .. Len(read) : read[m].file = i
    <2>1. at \in 1 .. Len(read) /\ read[at].file = i
      OBVIOUS
    <2>2. at = n
      BY <1>6, <2>1
    <2>3. Merge(s, read)[i] = read[at].digest
      BY <1>5 DEF Merge
    <2> QED
      BY <2>2, <2>3
  <1>9. ASSUME NEW i \in Files, \A n \in 1 .. Len(read) : read[n].file # i
        PROVE  Merge(s, read)[i] = s.base[i]
    BY <1>9 DEF Merge
  <1>10. Merge(s, read) \in Completions
    <2>1. Merge(s, read) = [i \in Files |-> Merge(s, read)[i]]
      BY DEF Merge
    <2>2. \A i \in Files : Merge(s, read)[i] \in Digests \cup {None}
      BY <1>5, <1>7, <1>8, <1>9 DEF Completions
    <2> QED
      BY <2>1, <2>2 DEF Completions
  <1> QED
    BY <1>2, <1>3, <1>4, <1>8, <1>9, <1>10 DEF body

\* A new ledger has one record for each completion, and no other.
LEMMA RecordsOfValue ==
  ASSUME NEW c \in Completions
  PROVE  /\ RecordsOf(c) \in Seq(Records)
         /\ \A n, m \in 1 .. Len(RecordsOf(c)) : RecordsOf(c)[n].file = RecordsOf(c)[m].file => n = m
         /\ \A n \in 1 .. Len(RecordsOf(c)) : RecordsOf(c)[n].digest = c[RecordsOf(c)[n].file]
         /\ \A i \in Done(c) : \E n \in 1 .. Len(RecordsOf(c)) : RecordsOf(c)[n].file = i
         /\ \A n \in 1 .. Len(RecordsOf(c)) : RecordsOf(c)[n].file \in Done(c)
  <1> DEFINE S == Done(c)
  <1> DEFINE size == Cardinality(S)
  <1> DEFINE f == SetToSeq(S)
  <1>1. IsFiniteSet(S)
    BY Constants, FS_Subset DEF Done
  <1>2. size \in Nat /\ ExistsBijection(1 .. size, S)
    BY <1>1, FS_CardinalityType
  <1>3. PICK g \in Bijection(1 .. size, S) : TRUE
    BY <1>2 DEF ExistsBijection
  <1>4. g \in [1 .. size -> S] /\ IsInjective(g)
    BY <1>3 DEF Bijection, Injection, IsInjective
  <1>5. f \in [1 .. size -> S] /\ IsInjective(f)
    BY <1>4 DEF SetToSeq
  <1>6. DOMAIN f = 1 .. size /\ Len(f) = size
    BY <1>2, <1>5
  <1> DEFINE r == [n \in 1 .. size |-> [file |-> f[n], digest |-> c[f[n]]]]
  <1>7. RecordsOf(c) = r
    BY <1>6 DEF RecordsOf
  <1>8. \A n \in 1 .. size : f[n] \in S /\ f[n] \in Files /\ c[f[n]] \in Digests
    BY <1>5 DEF Done, Completions
  <1>9. \A n \in 1 .. size : r[n] \in Records
    BY <1>8 DEF Records
  <1>10. r \in Seq(Records) /\ Len(r) = size
    BY <1>2, <1>9
  <1>11. \A n, m \in 1 .. size : r[n].file = r[m].file => n = m
    BY <1>5, <1>6 DEF IsInjective
  <1>12. \A i \in S : \E n \in 1 .. size : f[n] = i
    <2>1. Cardinality(1 .. size) = size
      BY <1>2, FS_Interval
    <2>2. f \in Injection(1 .. size, S)
      BY <1>5 DEF Injection, IsInjective
    <2>3. f \in Surjection(1 .. size, S)
      BY <1>1, <2>1, <2>2, FS_Injection
    <2> QED
      BY <2>3 DEF Surjection
  <1> HIDE DEF f, size
  <1>13. \A n \in 1 .. size : r[n].file = f[n] /\ r[n].digest = c[f[n]]
    OBVIOUS
  <1> HIDE DEF r
  <1>14. \A i \in S : \E n \in 1 .. Len(r) : r[n].file = i
    BY <1>10, <1>12, <1>13
  <1>15. \A n \in 1 .. Len(r) : r[n].digest = c[r[n].file] /\ r[n].file \in S
    BY <1>8, <1>10, <1>13
  <1> QED
    BY <1>7, <1>10, <1>11, <1>14, <1>15

\* The entries of a ledger's body.
LEMMA BodyTypes ==
  ASSUME NEW l \in Ledgers
  PROVE  /\ l.body \in Seq(Records \cup {Torn}) /\ Len(l.body) \in Nat /\ l.synced \in Nat
         /\ l.binding \in Bindings /\ l.by \in Procs
         /\ \A n \in 1 .. Len(l.body) :
               Whole(l.body, n) =>
                   /\ l.body[n] \in Records
                   /\ l.body[n].file \in Files /\ l.body[n].digest \in Digests
                   /\ l.body[n].digest # None
  <1>1. l.body \in Seq(Records \cup {Torn}) /\ Len(l.body) \in Nat
    BY DEF Ledgers
  <1>2. \A n \in 1 .. Len(l.body) : l.body[n] \in Records \cup {Torn}
    BY <1>1
  <1>3. \A n \in 1 .. Len(l.body) : Whole(l.body, n) => l.body[n] \in Records
    BY <1>2 DEF Whole
  <1> QED
    BY <1>1, <1>3, Constants DEF Ledgers, Records

\* Completions that agree with every record, and with the snapshot where there
\* is none, are what is loaded.
LEMMA MergeUnique ==
  ASSUME NEW s \in Snapshots, NEW l \in Ledgers, Wellformed(l), NEW c \in Completions,
         Within(l.body, c),
         \A i \in Files : (\A n \in 1 .. Len(l.body) : Whole(l.body, n) => l.body[n].file # i)
                              => c[i] = s.base[i]
  PROVE  Loaded(s, l) = c
  <1>1. ASSUME NEW i \in Files PROVE Loaded(s, l)[i] = c[i]
    <2>1. CASE \E n \in 1 .. Len(l.body) : Whole(l.body, n) /\ l.body[n].file = i
      BY <2>1, MergeValue DEF Within
    <2>2. CASE \A n \in 1 .. Len(l.body) : Whole(l.body, n) => l.body[n].file # i
      BY <2>2, MergeValue
    <2> QED
      BY <2>1, <2>2
  <1>2. Loaded(s, l) \in Completions
    BY MergeValue
  <1> QED
    BY <1>1, <1>2 DEF Completions

\* What is loaded has all that the snapshot has, and the records are within it.
LEMMA LoadedFits ==
  ASSUME NEW s \in Snapshots, NEW l \in Ledgers, Wellformed(l), Fits(s.base, l.body)
  PROVE  /\ Within(l.body, Loaded(s, l))
         /\ \A i \in Files : s.base[i] \in {None, Loaded(s, l)[i]}
         /\ \A i \in Files : Loaded(s, l)[i] # None =>
               \/ s.base[i] # None
               \/ \E n \in 1 .. Len(l.body) : Whole(l.body, n) /\ l.body[n].file = i
  <1>1. Within(l.body, Loaded(s, l))
    BY MergeValue DEF Within
  <1>2. ASSUME NEW i \in Files
        PROVE  /\ s.base[i] \in {None, Loaded(s, l)[i]}
               /\ Loaded(s, l)[i] # None =>
                     \/ s.base[i] # None
                     \/ \E n \in 1 .. Len(l.body) : Whole(l.body, n) /\ l.body[n].file = i
    <2>1. CASE \E n \in 1 .. Len(l.body) : Whole(l.body, n) /\ l.body[n].file = i
      BY <1>1, <2>1 DEF Fits, Within
    <2>2. CASE \A n \in 1 .. Len(l.body) : Whole(l.body, n) => l.body[n].file # i
      BY <2>2, MergeValue
    <2> QED
      BY <2>1, <2>2
  <1> QED
    BY <1>1, <1>2

\* A well-formed ledger is loaded with every snapshot it is bound to and fits.
LEMMA LoadsWhen ==
  ASSUME NEW s \in Snapshots, NEW l \in Ledgers, Wellformed(l), Accepts(s, l.binding),
         Fits(s.base, l.body)
  PROVE  Loads(s, l)
  <1> DEFINE read == Readable(l.body)
  <1>1. /\ read \in Seq(Records) /\ Len(read) \in 0 .. Len(l.body) /\ Len(l.body) \in Nat
        /\ \A n \in 1 .. Len(read) : read[n] = l.body[n] /\ Whole(l.body, n)
    BY ReadableValue, BodyTypes
  <1> HIDE DEF read
  <1>2. ASSUME NEW n \in 1 .. Len(read)
        PROVE  /\ read[n] # Torn /\ s.base[read[n].file] \in {None, read[n].digest}
               /\ \A m \in 1 .. n - 1 : read[m].file # read[n].file
    <2>1. n \in 1 .. Len(l.body)
      BY <1>1
    <2>2. ASSUME NEW m \in 1 .. n - 1 PROVE read[m].file # read[n].file
      <3>1. m \in 1 .. Len(read) /\ m \in 1 .. Len(l.body) /\ m # n
        BY <1>1
      <3> QED
        BY <1>1, <2>1, <3>1 DEF Wellformed
    <2> QED
      BY <1>1, <2>1, <2>2 DEF Fits, Whole
  <1>3. ValidBody(s, read)
    BY <1>2 DEF ValidBody
  <1> QED
    BY <1>3, NoFileIsNone DEF Loads, read

-----------------------------------------------------------------------------
(* How a ledger changes. *)

\* LedgerWriter::create
LEMMA NewLedger ==
  ASSUME NEW b \in Bindings, NEW c \in Completions, NEW p \in Procs, NEW l,
         l = [binding |-> b, body |-> RecordsOf(c), synced |-> Len(RecordsOf(c)), by |-> p]
  PROVE  /\ l \in Ledgers /\ Wellformed(l) /\ l.binding = b
         /\ \A n \in 1 .. Len(l.body) : Whole(l.body, n)
         /\ Within(l.body, c)
         /\ \A i \in Done(c) : \E n \in 1 .. l.synced : Whole(l.body, n) /\ l.body[n].file = i
         /\ \A base : (\A i \in Files : base[i] \in {None, c[i]}) => Fits(base, l.body)
         /\ \A s \in Snapshots :
               (\A i \in Files : s.base[i] \in {None, c[i]}) => Loaded(s, l) = c
  <1> DEFINE r == RecordsOf(c)
  <1>1. /\ r \in Seq(Records)
        /\ \A n, m \in 1 .. Len(r) : r[n].file = r[m].file => n = m
        /\ \A n \in 1 .. Len(r) : r[n].digest = c[r[n].file]
        /\ \A i \in Done(c) : \E n \in 1 .. Len(r) : r[n].file = i
        /\ \A n \in 1 .. Len(r) : r[n].file \in Done(c)
    BY RecordsOfValue
  <1> HIDE DEF r
  <1>2. l.body = r /\ l.synced = Len(r) /\ l.binding = b /\ l.by = p
    BY DEF r
  <1>3. Len(r) \in Nat /\ \A n \in 1 .. Len(r) : r[n] \in Records
    BY <1>1
  <1>4. \A n \in 1 .. Len(l.body) : Whole(l.body, n)
    BY <1>2, <1>3, Constants DEF Whole
  <1>5. r \in Seq(Records \cup {Torn})
    BY <1>1
  <1>6. l \in Ledgers
    BY <1>3, <1>5 DEF Ledgers, r
  <1>7. Wellformed(l)
    BY <1>1, <1>2, <1>3, <1>4 DEF Wellformed
  <1>8. Within(l.body, c)
    BY <1>1, <1>2 DEF Within
  <1>9. \A base : (\A i \in Files : base[i] \in {None, c[i]}) => Fits(base, l.body)
    BY <1>1, <1>2, <1>3 DEF Fits, Done
  <1>10. ASSUME NEW s \in Snapshots, \A i \in Files : s.base[i] \in {None, c[i]}
         PROVE  Loaded(s, l) = c
    <2>1. ASSUME NEW i \in Files,
                 \A n \in 1 .. Len(l.body) : Whole(l.body, n) => l.body[n].file # i
          PROVE  c[i] = s.base[i]
      <3>1. i \notin Done(c)
        BY <1>1, <1>2, <1>4, <2>1
      <3> QED
        BY <1>10, <3>1 DEF Done
    <2> QED
      BY <1>6, <1>7, <1>8, <2>1, MergeUnique
  <1> QED
    BY <1>1, <1>2, <1>4, <1>6, <1>7, <1>8, <1>9, <1>10

\* append: k is l with one entry more.
Extends(k, l, e) ==
    /\ k \in Ledgers /\ k.binding = l.binding /\ k.synced = l.synced
    /\ k.body = Append(l.body, e)

\* The entry may be torn, what it follows is not.
LEMMA LongerLedger ==
  ASSUME NEW l \in Ledgers, Wellformed(l), \A n \in 1 .. Len(l.body) : Whole(l.body, n),
         NEW e \in Records \cup {Torn}, NEW k, Extends(k, l, e),
         e # Torn => \A n \in 1 .. Len(l.body) : l.body[n].file # e.file
  PROVE  /\ Wellformed(k)
         /\ Len(k.body) = Len(l.body) + 1
         /\ k.body[Len(l.body) + 1] = e
         /\ \A n \in 1 .. Len(l.body) : k.body[n] = l.body[n] /\ Whole(k.body, n)
  <1>1. /\ l.body \in Seq(Records \cup {Torn}) /\ Len(l.body) \in Nat /\ l.synced \in Nat
        /\ \A n \in 1 .. Len(l.body) : l.body[n] \in Records
    BY BodyTypes
  <1>2. /\ k.body = Append(l.body, e) /\ k.binding = l.binding /\ k.synced = l.synced
        /\ k \in Ledgers
    BY DEF Extends
  <1>3. /\ k.body \in Seq(Records \cup {Torn})
        /\ Len(k.body) = Len(l.body) + 1
        /\ k.body[Len(l.body) + 1] = e
        /\ \A n \in 1 .. Len(l.body) : k.body[n] = l.body[n]
    BY <1>1, <1>2
  <1>5. \A n \in 1 .. Len(l.body) : Whole(k.body, n)
    BY <1>3 DEF Whole
  <1>6. \A n \in 1 .. Len(k.body) : n \in 1 .. Len(l.body) \/ n = Len(l.body) + 1
    BY <1>1, <1>3
  <1>7. k.synced \in 0 .. Len(k.body) /\ k.synced < Len(k.body)
    BY <1>1, <1>2, <1>3 DEF Wellformed
  <1>8. \A n \in 1 .. Len(k.body) : ~Whole(k.body, n) => n = Len(k.body) /\ n > k.synced
    BY <1>3, <1>5, <1>6, <1>7
  <1>9. ASSUME NEW n \in 1 .. Len(k.body), NEW m \in 1 .. Len(k.body),
               Whole(k.body, n), Whole(k.body, m), k.body[n].file = k.body[m].file
        PROVE  n = m
    <2>1. CASE n \in 1 .. Len(l.body) /\ m \in 1 .. Len(l.body)
      BY <1>3, <1>9, <2>1 DEF Wellformed, Whole
    <2>2. CASE n = Len(l.body) + 1 /\ m \in 1 .. Len(l.body)
      BY <1>3, <1>9, <2>2 DEF Whole
    <2>3. CASE m = Len(l.body) + 1 /\ n \in 1 .. Len(l.body)
      BY <1>3, <1>9, <2>3 DEF Whole
    <2> QED
      BY <1>6, <2>1, <2>2, <2>3
  <1>10. Wellformed(k)
    BY <1>7, <1>8, <1>9 DEF Wellformed
  <1> QED
    BY <1>2, <1>3, <1>5, <1>10

\* A torn entry is read by nobody.
LEMMA TornLedger ==
  ASSUME NEW l \in Ledgers, Wellformed(l), \A n \in 1 .. Len(l.body) : Whole(l.body, n),
         NEW k, Extends(k, l, Torn)
  PROVE  /\ Wellformed(k)
         /\ \A base : Fits(base, l.body) => Fits(base, k.body)
         /\ \A c : Within(l.body, c) => Within(k.body, c)
         /\ \A n \in 1 .. Len(l.body) : k.body[n] = l.body[n]
         /\ \A n \in 1 .. Len(k.body) : Whole(k.body, n) => n \in 1 .. Len(l.body)
         /\ \A s \in Snapshots : Loaded(s, k) = Loaded(s, l)
  <1>1. /\ k \in Ledgers /\ Wellformed(k)
        /\ Len(k.body) = Len(l.body) + 1
        /\ k.body[Len(l.body) + 1] = Torn
        /\ \A n \in 1 .. Len(l.body) : k.body[n] = l.body[n] /\ Whole(k.body, n)
    <2>1. Torn \in Records \cup {Torn}
      OBVIOUS
    <2>2. k \in Ledgers
      BY DEF Extends
    <2> QED
      BY <2>1, <2>2, LongerLedger
  <1>2. Len(l.body) \in Nat
    BY BodyTypes
  <1>3. \A n \in 1 .. Len(k.body) : Whole(k.body, n) => n \in 1 .. Len(l.body)
    BY <1>1, <1>2 DEF Whole
  <1>4. /\ \A base : Fits(base, l.body) => Fits(base, k.body)
        /\ \A c : Within(l.body, c) => Within(k.body, c)
    BY <1>1, <1>3 DEF Fits, Within
  <1>5. ASSUME NEW s \in Snapshots PROVE Loaded(s, k) = Loaded(s, l)
    <2>1. Loaded(s, l) \in Completions /\ Within(l.body, Loaded(s, l))
      BY MergeValue DEF Within
    <2>2. ASSUME NEW i \in Files,
                 \A n \in 1 .. Len(k.body) : Whole(k.body, n) => k.body[n].file # i
          PROVE  Loaded(s, l)[i] = s.base[i]
      <3>1. \A n \in 1 .. Len(l.body) : n \in 1 .. Len(k.body)
        BY <1>1, <1>2
      <3>2. \A n \in 1 .. Len(l.body) : Whole(l.body, n) => l.body[n].file # i
        BY <1>1, <2>2, <3>1
      <3> QED
        BY <3>2, MergeValue
    <2> QED
      BY <1>1, <1>4, <2>1, <2>2, MergeUnique
  <1> QED
    BY <1>1, <1>3, <1>4, <1>5

\* A whole entry adds its completion.
LEMMA RecordedLedger ==
  ASSUME NEW l \in Ledgers, Wellformed(l), \A n \in 1 .. Len(l.body) : Whole(l.body, n),
         NEW e \in Records, \A n \in 1 .. Len(l.body) : l.body[n].file # e.file,
         NEW k, Extends(k, l, e)
  PROVE  /\ Wellformed(k)
         /\ \A n \in 1 .. Len(k.body) : Whole(k.body, n)
         /\ \E n \in 1 .. Len(k.body) : k.body[n].file = e.file
         /\ \A n \in 1 .. Len(l.body) : k.body[n] = l.body[n] /\ n \in 1 .. Len(k.body)
         /\ \A base : Fits(base, l.body) /\ base[e.file] = None => Fits(base, k.body)
         /\ \A c : Within(l.body, c) /\ c[e.file] = e.digest => Within(k.body, c)
         /\ \A s \in Snapshots : Loaded(s, k) = [Loaded(s, l) EXCEPT ![e.file] = e.digest]
  <1>1. e # Torn /\ e.file \in Files /\ e.digest \in Digests
    BY Constants DEF Records
  <1>2. /\ k \in Ledgers /\ Wellformed(k)
        /\ Len(k.body) = Len(l.body) + 1
        /\ k.body[Len(l.body) + 1] = e
        /\ \A n \in 1 .. Len(l.body) : k.body[n] = l.body[n] /\ Whole(k.body, n)
    <2>1. e \in Records \cup {Torn}
      OBVIOUS
    <2>2. k \in Ledgers
      BY DEF Extends
    <2> QED
      BY <1>1, <2>1, <2>2, LongerLedger
  <1>3. Len(l.body) \in Nat
    BY BodyTypes
  <1>4. /\ \A n \in 1 .. Len(k.body) : n \in 1 .. Len(l.body) \/ n = Len(l.body) + 1
        /\ Len(l.body) + 1 \in 1 .. Len(k.body)
        /\ \A n \in 1 .. Len(l.body) : n \in 1 .. Len(k.body)
    BY <1>2, <1>3
  <1>5. \A n \in 1 .. Len(k.body) : Whole(k.body, n)
    BY <1>1, <1>2, <1>4 DEF Whole
  <1>6. /\ \A base : Fits(base, l.body) /\ base[e.file] = None => Fits(base, k.body)
        /\ \A c : Within(l.body, c) /\ c[e.file] = e.digest => Within(k.body, c)
    BY <1>2, <1>4 DEF Fits, Within
  <1>7. ASSUME NEW s \in Snapshots
        PROVE  Loaded(s, k) = [Loaded(s, l) EXCEPT ![e.file] = e.digest]
    <2> DEFINE c == [Loaded(s, l) EXCEPT ![e.file] = e.digest]
    <2>1. Loaded(s, l) \in Completions /\ Within(l.body, Loaded(s, l))
      BY MergeValue DEF Within
    <2>2. c \in Completions /\ c[e.file] = e.digest
          /\ \A i \in Files \ {e.file} : c[i] = Loaded(s, l)[i]
      BY <1>1, <2>1 DEF Completions
    <2> HIDE DEF c
    <2>3. Within(l.body, c)
      BY <2>1, <2>2, BodyTypes DEF Within
    <2>4. ASSUME NEW i \in Files,
                 \A n \in 1 .. Len(k.body) : Whole(k.body, n) => k.body[n].file # i
          PROVE  c[i] = s.base[i]
      <3>1. i # e.file
        BY <1>2, <1>4, <1>5, <2>4
      <3>2. \A n \in 1 .. Len(l.body) : Whole(l.body, n) => l.body[n].file # i
        BY <1>2, <1>4, <1>5, <2>4
      <3> QED
        BY <2>2, <3>1, <3>2, MergeValue
    <2>5. Loaded(s, k) = c
      BY <1>2, <1>6, <2>2, <2>3, <2>4, MergeUnique
    <2> QED
      BY <2>5 DEF c
  <1> QED
    BY <1>2, <1>4, <1>5, <1>6, <1>7

\* fsync
LEMMA SyncedLedger ==
  ASSUME NEW l \in Ledgers, Wellformed(l), \A n \in 1 .. Len(l.body) : Whole(l.body, n),
         NEW k \in Ledgers, k.binding = l.binding, k.body = l.body, k.synced = Len(l.body)
  PROVE  Wellformed(k) /\ \A s : Loaded(s, k) = Loaded(s, l)
  <1>1. Len(l.body) \in Nat
    BY BodyTypes
  <1>2. Wellformed(k)
    BY <1>1 DEF Wellformed
  <1> QED
    BY <1>2, NoFileIsNone DEF Loaded

\* A power loss leaves what fsync covered, and perhaps a torn entry.
LEMMA CutLedger ==
  ASSUME NEW l \in Ledgers, Wellformed(l), NEW tail \in {<<>>, <<Torn>>},
         l.synced < Len(l.body),
         NEW k \in Ledgers, k.binding = l.binding, k.synced = l.synced,
         k.body = SubSeq(l.body, 1, l.synced) \o tail
  PROVE  /\ Wellformed(k)
         /\ \A n \in 1 .. l.synced : k.body[n] = l.body[n] /\ n \in 1 .. Len(k.body)
                                     /\ n \in 1 .. Len(l.body)
         /\ \A n \in 1 .. Len(k.body) : Whole(k.body, n) => n \in 1 .. l.synced
  <1>1. l.body \in Seq(Records \cup {Torn}) /\ Len(l.body) \in Nat /\ l.synced \in Nat
    BY BodyTypes
  <1> DEFINE body == SubSeq(l.body, 1, l.synced) \o tail
  <1>2. k.body = body /\ k.synced = l.synced
    OBVIOUS
  <1>3. /\ SubSeq(l.body, 1, l.synced) \in Seq(Records \cup {Torn})
        /\ Len(SubSeq(l.body, 1, l.synced)) = l.synced
        /\ \A n \in 1 .. l.synced : SubSeq(l.body, 1, l.synced)[n] = l.body[n]
    BY <1>1
  <1>4. tail \in Seq(Records \cup {Torn}) /\ Len(tail) \in {0, 1} /\ (Len(tail) = 1 => tail[1] = Torn)
    <2>1. CASE tail = <<>>
      BY <2>1
    <2>2. CASE tail = <<Torn>>
      <3>1. <<Torn>> \in Seq(Records \cup {Torn}) /\ Len(<<Torn>>) = 1 /\ <<Torn>>[1] = Torn
        OBVIOUS
      <3> QED
        BY <2>2, <3>1
    <2> QED
      BY <2>1, <2>2
  <1>5. /\ body \in Seq(Records \cup {Torn})
        /\ Len(body) = l.synced + Len(tail)
        /\ \A n \in 1 .. l.synced : body[n] = l.body[n]
        /\ Len(tail) = 1 => body[l.synced + 1] = Torn
    <2> DEFINE head == SubSeq(l.body, 1, l.synced)
    <2>1. /\ head \in Seq(Records \cup {Torn}) /\ Len(head) = l.synced
          /\ \A n \in 1 .. l.synced : head[n] = l.body[n]
      BY <1>3
    <2> HIDE DEF head
    <2>2. /\ head \o tail \in Seq(Records \cup {Torn})
          /\ Len(head \o tail) = l.synced + Len(tail)
          /\ \A n \in 1 .. l.synced : (head \o tail)[n] = head[n]
      <3>1. \A n \in 1 .. l.synced : n \in 1 .. Len(head) + Len(tail) /\ n <= Len(head)
        BY <1>1, <1>4, <2>1
      <3> QED
        BY <1>1, <1>4, <2>1, <3>1, ConcatProperties
    <2>3. ASSUME Len(tail) = 1 PROVE (head \o tail)[l.synced + 1] = tail[1]
      <3>1. /\ l.synced + 1 \in 1 .. Len(head) + Len(tail) /\ ~(l.synced + 1 <= Len(head))
            /\ l.synced + 1 - Len(head) = 1
        BY <1>1, <2>1, <2>3
      <3>2. (head \o tail)[l.synced + 1] = tail[l.synced + 1 - Len(head)]
        BY <1>4, <2>1, <3>1, ConcatProperties
      <3> QED
        BY <3>1, <3>2
    <2> QED
      BY <1>4, <2>1, <2>2, <2>3 DEF head
  <1> HIDE DEF body
  <1>6. Len(body) \in Nat /\ l.synced <= Len(body)
        /\ \A n \in 1 .. Len(body) : n > l.synced => n = l.synced + 1 /\ n = Len(body)
                                                     /\ Len(tail) = 1
    <2>1. CASE Len(tail) = 0
      BY <1>1, <1>5, <2>1
    <2>2. CASE Len(tail) = 1
      BY <1>1, <1>5, <2>2
    <2> QED
      BY <1>4, <2>1, <2>2
  <1>7. \A n \in 1 .. Len(body) :
           n \in 1 .. l.synced \/ (n = Len(body) /\ n > l.synced /\ body[n] = Torn)
    BY <1>1, <1>5, <1>6
  <1>8. \A n \in 1 .. l.synced : n \in 1 .. Len(l.body) /\ Whole(l.body, n)
    BY <1>1 DEF Wellformed
  <1>9. \A n \in 1 .. l.synced : Whole(body, n) /\ n \in 1 .. Len(body)
    <2>1. \A n \in 1 .. l.synced : n \in 1 .. Len(body)
      BY <1>1, <1>6
    <2> QED
      BY <1>5, <1>8, <2>1 DEF Whole
  <1>10. Wellformed(k)
    <2>1. k.synced \in 0 .. Len(k.body)
      BY <1>1, <1>2, <1>6
    <2>2. \A n \in 1 .. Len(k.body) : ~Whole(k.body, n) => n = Len(k.body) /\ n > k.synced
      BY <1>2, <1>7, <1>9
    <2>3. \A n \in 1 .. Len(k.body) : Whole(k.body, n) => n \in 1 .. l.synced
      BY <1>2, <1>7 DEF Whole
    <2>4. \A n, m \in 1 .. Len(k.body) :
             Whole(k.body, n) /\ Whole(k.body, m) /\ k.body[n].file = k.body[m].file => n = m
      BY <1>2, <1>5, <1>8, <2>3 DEF Wellformed
    <2> QED
      BY <2>1, <2>2, <2>4 DEF Wellformed
  <1> QED
    BY <1>2, <1>5, <1>7, <1>8, <1>9, <1>10 DEF Whole

-----------------------------------------------------------------------------
(* Types. *)

LEMMA InitTypes == Init => TypeOK
  <1> SUFFICES ASSUME Init PROVE TypeOK
    OBVIOUS
  <1>1. snapshot = NoFile \/ (snapshot \in Snapshots /\ snapshot.base \in Completions)
    BY DEF Init, Snapshots
  <1>2. local \in [Files -> Digests \cup {None, Edited}]
    <2>1. \A i \in Files : (IF snapshot = NoFile THEN None ELSE snapshot.base[i])
                               \in Digests \cup {None, Edited}
      BY <1>1 DEF Completions
    <2> QED
      BY <2>1 DEF Init
  <1>3. landed \in [Files -> SUBSET Digests]
    <2>1. \A i \in Files : local[i] \in Digests \cup {None}
      BY <1>1 DEF Init, Completions
    <2>2. \A i \in Files : {local[i]} \ {None} \in SUBSET Digests
      BY <2>1
    <2> QED
      BY <2>2 DEF Init
  <1>4. 0 \in 0 .. MaxRuns
    BY Constants
  <1>5. /\ lock \in Procs \cup {NoProc} /\ runs \in 0 .. MaxRuns /\ pc \in [Procs -> Locations]
        /\ journal \in [Procs -> Completions] /\ durable \in [Procs -> Completions]
        /\ binding \in [Procs -> Bindings]
    BY <1>4, EmptyTypes DEF Init, Locations
  <1>6. /\ pending \in [Procs -> BOOLEAN] /\ fresh \in [Procs -> BOOLEAN]
        /\ poisoned \in [Procs -> BOOLEAN] /\ current \in [Procs -> Files \cup {None}]
        /\ acked \subseteq Files /\ seen \in Snapshots \cup {NoFile}
        /\ ledger \in Ledgers \cup {NoFile}
    BY DEF Init
  <1>7. {snapshot, fallback} \subseteq Snapshots \cup {NoFile}
    BY DEF Init
  <1> QED
    BY <1>2, <1>3, <1>5, <1>6, <1>7 DEF TypeOK

\* Everything a process holds in memory.
MemoryTypes ==
    /\ lock \in Procs \cup {NoProc} /\ pc \in [Procs -> Locations]
    /\ journal \in [Procs -> Completions] /\ durable \in [Procs -> Completions]
    /\ binding \in [Procs -> Bindings] /\ pending \in [Procs -> BOOLEAN]
    /\ fresh \in [Procs -> BOOLEAN] /\ poisoned \in [Procs -> BOOLEAN]
    /\ current \in [Procs -> Files \cup {None}]

DiskTypes ==
    /\ {snapshot, fallback} \subseteq Snapshots \cup {NoFile}
    /\ ledger \in Ledgers \cup {NoFile}
    /\ local \in [Files -> Digests \cup {None, Edited}]
    /\ landed \in [Files -> SUBSET Digests]
    /\ runs \in 0 .. MaxRuns
    /\ acked \subseteq Files
    /\ seen \in Snapshots \cup {NoFile}

LEMMA TypeParts == TypeOK <=> MemoryTypes /\ DiskTypes
  BY DEF TypeOK, MemoryTypes, DiskTypes

LEMMA TypePartsNext == TypeOK' <=> MemoryTypes' /\ DiskTypes'
  BY DEF TypeOK, MemoryTypes, DiskTypes

\* What a process that ended holds; the others hold what they held.
Idle(p) == pc[p] = "idle" /\ journal[p] = Empty /\ durable[p] = Empty

Alone(p) ==
    \A q \in Procs \ {p} :
        /\ pc'[q] = pc[q] /\ journal'[q] = journal[q] /\ durable'[q] = durable[q]
        /\ binding'[q] = binding[q] /\ pending'[q] = pending[q] /\ fresh'[q] = fresh[q]
        /\ poisoned'[q] = poisoned[q] /\ current'[q] = current[q]

LEMMA EndEffect ==
  ASSUME TypeOK, NEW p \in Procs, End(p)
  PROVE  MemoryTypes' /\ Idle(p)' /\ Alone(p) /\ lock' = NoProc
  BY EmptyTypes DEF End, Goto, TypeOK, MemoryTypes, Locations, Idle, Alone

LEMMA GotoTypes ==
  ASSUME TypeOK, NEW p \in Procs, NEW l \in Locations, Goto(p, l)
  PROVE  pc' \in [Procs -> Locations] /\ pc'[p] = l /\ \A q \in Procs \ {p} : pc'[q] = pc[q]
  BY DEF Goto, TypeOK

LEMMA OpenTypes ==
  ASSUME TypeOK, NEW p \in Procs, NEW resume \in BOOLEAN, Open(p, resume)
  PROVE  TypeOK' /\ Alone(p)
  <1>1. runs' \in 0 .. MaxRuns
    BY Constants DEF Open, TypeOK
  <1>2. DiskTypes'
    BY <1>1 DEF Open, disk, TypeOK, DiskTypes
  <1>3. MemoryTypes' /\ Alone(p)
    BY DEF Open, Goto, TypeOK, MemoryTypes, Locations, Alone
  <1> QED
    BY <1>2, <1>3, TypePartsNext

\* What a resume loads.
LEMMA LoadValue ==
  ASSUME TypeOK, LedgerOK, snapshot # NoFile
  PROVE  Loaded(snapshot, ledger) \in Completions /\ SnapshotBinding(snapshot) \in Bindings
  <1>1. snapshot \in Snapshots
    BY DEF TypeOK
  <1>2. CASE ledger = NoFile
    BY <1>1, <1>2 DEF Loaded, Snapshots, SnapshotBinding, Bindings
  <1>3. CASE ledger # NoFile
    <2>1. ledger \in Ledgers /\ Wellformed(ledger)
      BY <1>3 DEF TypeOK, LedgerOK
    <2> QED
      BY <1>1, <2>1, MergeValue DEF Snapshots, SnapshotBinding, Bindings
  <1> QED
    BY <1>2, <1>3

LEMMA LoadTypes ==
  ASSUME TypeOK, LedgerOK, NEW p \in Procs, Load(p) \/ Verify(p)
  PROVE  TypeOK' /\ Alone(p)
  <1>1. DiskTypes'
    BY DEF Load, Verify, disk, TypeOK, DiskTypes
  <1>2. CASE End(p)
    BY <1>1, <1>2, EndEffect, TypePartsNext
  <1>3. CASE Load(p) /\ ~End(p)
    <2>1. /\ snapshot # NoFile
          /\ journal' = [journal EXCEPT ![p] = Loaded(snapshot, ledger)]
          /\ durable' = [durable EXCEPT ![p] = Loaded(snapshot, ledger)]
          /\ binding' = [binding EXCEPT ![p] = SnapshotBinding(snapshot)]
          /\ pending' = [pending EXCEPT ![p] = ~snapshot.marked]
          /\ Goto(p, "verify")
          /\ UNCHANGED <<lock, fresh, poisoned, current>>
      BY <1>3 DEF Load, Loads
    <2>2. snapshot.marked \in BOOLEAN
      BY <2>1 DEF TypeOK, Snapshots
    <2>3. MemoryTypes' /\ Alone(p)
      BY <2>1, <2>2, LoadValue, GotoTypes DEF TypeOK, MemoryTypes, Locations, Alone
    <2> QED
      BY <1>1, <2>3, TypePartsNext
  <1>4. CASE Verify(p) /\ ~End(p)
    <2>1. Goto(p, "ledger") /\ UNCHANGED <<lock, memory>>
      BY <1>4 DEF Verify
    <2>2. MemoryTypes' /\ Alone(p)
      BY <2>1, GotoTypes DEF TypeOK, MemoryTypes, Locations, Alone, memory
    <2> QED
      BY <1>1, <2>2, TypePartsNext
  <1> QED
    BY <1>2, <1>3, <1>4

\* prepare_writer: what a new ledger holds.
Contents(p) == IF pending[p] THEN journal[p] ELSE durable[p]

Created(p, l) ==
    l = [binding |-> HeaderBinding(p), body |-> RecordsOf(Contents(p)),
         synced |-> Len(RecordsOf(Contents(p))), by |-> p]

\* The ways PublishLedger can end.
LedgerRefused(p) == End(p) /\ UNCHANGED <<ledger, fallback, acked>>

LedgerUnsynced(p) ==
    /\ ~(fresh[p] /\ ledger # NoFile)
    /\ Created(p, ledger')
    /\ End(p)
    /\ UNCHANGED <<fallback, acked>>

LedgerPublished(p) ==
    /\ ~(fresh[p] /\ ledger # NoFile)
    /\ Created(p, ledger')
    /\ Settle
    /\ binding' = [binding EXCEPT ![p] = HeaderBinding(p)]
    /\ durable' = [durable EXCEPT ![p] = Contents(p)]
    /\ Goto(p, IF pending[p] THEN "snapshot" ELSE "transfer")
    /\ acked' = IF pending[p] THEN acked ELSE acked \cup Done(journal[p])
    /\ UNCHANGED <<lock, journal, pending, fresh, poisoned, current>>

LEMMA LedgerOutcomes ==
  ASSUME TypeOK, NEW p \in Procs, PublishLedger(p)
  PROVE  /\ pc[p] = "ledger" /\ UNCHANGED <<snapshot, local, landed, runs, seen>>
         /\ LedgerRefused(p) \/ LedgerUnsynced(p) \/ LedgerPublished(p)
  <1>1. pc \in [Procs -> Locations]
    BY DEF TypeOK
  <1>2. End(p) => pc'[p] = "idle"
    BY <1>1 DEF End, Goto
  <1>3. ASSUME Goto(p, IF pending[p] THEN "snapshot" ELSE "transfer")
        PROVE  pc'[p] = IF pending[p] THEN "snapshot" ELSE "transfer"
    BY <1>1, <1>3 DEF Goto
  <1> QED
    BY <1>2, <1>3 DEF PublishLedger, LedgerRefused, LedgerUnsynced, LedgerPublished, Created,
                      Contents

LEMMA CreatedTypes ==
  ASSUME TypeOK, NEW p \in Procs, NEW l, Created(p, l)
  PROVE  /\ HeaderBinding(p) \in Bindings /\ Contents(p) \in Completions
         /\ l \in Ledgers
  <1>1. journal[p] \in Completions /\ durable[p] \in Completions /\ binding[p] \in Bindings
    BY DEF TypeOK
  <1>2. HeaderBinding(p) \in Bindings /\ Contents(p) \in Completions
    BY <1>1 DEF HeaderBinding, Contents, Bindings
  <1> QED
    BY <1>2, NewLedger DEF Created

LEMMA LedgerTypes ==
  ASSUME TypeOK, NEW p \in Procs, PublishLedger(p)
  PROVE  TypeOK' /\ Alone(p)
  <1>1. /\ UNCHANGED <<snapshot, local, landed, runs, seen>>
        /\ LedgerRefused(p) \/ LedgerUnsynced(p) \/ LedgerPublished(p)
    BY LedgerOutcomes
  <1>2. ledger' \in Ledgers \cup {NoFile}
    BY <1>1, CreatedTypes DEF LedgerRefused, LedgerUnsynced, LedgerPublished, TypeOK
  <1>3. fallback' \in Snapshots \cup {NoFile}
    BY <1>1 DEF LedgerRefused, LedgerUnsynced, LedgerPublished, Settle, TypeOK
  <1>4. acked' \subseteq Files
    BY <1>1 DEF LedgerRefused, LedgerUnsynced, LedgerPublished, TypeOK, Done
  <1>5. DiskTypes'
    BY <1>1, <1>2, <1>3, <1>4 DEF TypeOK, DiskTypes
  <1>6. CASE End(p)
    BY <1>5, <1>6, EndEffect, TypePartsNext
  <1>7. CASE LedgerPublished(p)
    <2>1. HeaderBinding(p) \in Bindings /\ Contents(p) \in Completions
      BY <1>7, CreatedTypes DEF LedgerPublished
    <2>2. MemoryTypes' /\ Alone(p)
      BY <1>7, <2>1, GotoTypes DEF LedgerPublished, TypeOK, MemoryTypes, Locations, Alone
    <2> QED
      BY <1>5, <2>2, TypePartsNext
  <1> QED
    BY <1>1, <1>6, <1>7 DEF LedgerRefused, LedgerUnsynced

\* The ways PublishSnapshot can end.
SnapshotRefused(p) == End(p) /\ UNCHANGED <<snapshot, fallback, acked>>

SnapshotUnsynced(p) ==
    /\ snapshot' = [marked |-> TRUE, old |-> FALSE, base |-> journal[p]]
    /\ End(p)
    /\ UNCHANGED <<fallback, acked>>

SnapshotPublished(p) ==
    /\ snapshot' = [marked |-> TRUE, old |-> FALSE, base |-> journal[p]]
    /\ fallback' = snapshot'
    /\ Goto(p, "transfer")
    /\ pending' = [pending EXCEPT ![p] = FALSE]
    /\ acked' = acked \cup Done(journal[p])
    /\ UNCHANGED <<lock, journal, durable, binding, fresh, poisoned, current>>

LEMMA SnapshotOutcomes ==
  ASSUME NEW p \in Procs, PublishSnapshot(p)
  PROVE  /\ pc[p] = "snapshot" /\ UNCHANGED <<ledger, local, landed, runs, seen>>
         /\ SnapshotRefused(p) \/ SnapshotUnsynced(p) \/ SnapshotPublished(p)
  BY DEF PublishSnapshot, SnapshotRefused, SnapshotUnsynced, SnapshotPublished

LEMMA SnapshotTypes ==
  ASSUME TypeOK, NEW p \in Procs, PublishSnapshot(p)
  PROVE  TypeOK' /\ Alone(p)
  <1>1. /\ UNCHANGED <<ledger, local, landed, runs, seen>>
        /\ SnapshotRefused(p) \/ SnapshotUnsynced(p) \/ SnapshotPublished(p)
    BY SnapshotOutcomes
  <1>2. [marked |-> TRUE, old |-> FALSE, base |-> journal[p]] \in Snapshots
    <2>1. journal[p] \in Completions
      BY DEF TypeOK
    <2> QED
      BY <2>1 DEF Snapshots
  <1>3. {snapshot', fallback'} \subseteq Snapshots \cup {NoFile}
    <2>1. snapshot' = snapshot \/ snapshot' \in Snapshots
      BY <1>1, <1>2 DEF SnapshotRefused, SnapshotUnsynced, SnapshotPublished
    <2>2. fallback' \in {fallback, snapshot'}
      BY <1>1 DEF SnapshotRefused, SnapshotUnsynced, SnapshotPublished
    <2> QED
      BY <2>1, <2>2 DEF TypeOK
  <1>4. acked' \subseteq Files
    BY <1>1 DEF SnapshotRefused, SnapshotUnsynced, SnapshotPublished, TypeOK, Done
  <1>5. DiskTypes'
    BY <1>1, <1>3, <1>4 DEF TypeOK, DiskTypes
  <1>6. CASE End(p)
    BY <1>5, <1>6, EndEffect, TypePartsNext
  <1>7. CASE SnapshotPublished(p)
    <2>1. MemoryTypes' /\ Alone(p)
      BY <1>7, GotoTypes DEF SnapshotPublished, TypeOK, MemoryTypes, Locations, Alone
    <2> QED
      BY <1>5, <2>1, TypePartsNext
  <1> QED
    BY <1>1, <1>6, <1>7 DEF SnapshotRefused, SnapshotUnsynced

LEMMA FileTypes ==
  ASSUME TypeOK, NEW p \in Procs, NEW i \in Files, NEW d \in Digests, PublishFile(p, i, d)
  PROVE  TypeOK' /\ Alone(p)
  <1>1. local' \in [Files -> Digests \cup {None, Edited}] /\ landed' \in [Files -> SUBSET Digests]
    BY DEF PublishFile, TypeOK
  <1>2. [journal[p] EXCEPT ![i] = d] \in Completions
    BY DEF TypeOK, Completions
  <1>3. journal' \in [Procs -> Completions] /\ \A q \in Procs \ {p} : journal'[q] = journal[q]
    BY <1>2 DEF PublishFile, TypeOK
  <1>4. /\ pc' \in [Procs -> Locations] /\ current' \in [Procs -> Files \cup {None}]
        /\ \A q \in Procs \ {p} : pc'[q] = pc[q] /\ current'[q] = current[q]
    BY DEF PublishFile, Goto, TypeOK, Locations
  <1> QED
    BY <1>1, <1>3, <1>4 DEF PublishFile, TypeOK, Alone

\* The ways an append can end.
Entry(p) == [file |-> current[p], digest |-> journal[p][current[p]]]

AppendedNothing(p) ==
    Back(p) /\ UNCHANGED ledger /\ (poisoned'[p] \/ UNCHANGED poisoned)

AppendedTorn(p) ==
    Usable(p) /\ Back(p) /\ Extends(ledger', ledger, Torn) /\ poisoned'[p]

AppendedEntry(p) ==
    /\ Usable(p) /\ Goto(p, "sync") /\ Extends(ledger', ledger, Entry(p)) /\ poisoned'[p]
    /\ UNCHANGED <<lock, journal, binding, pending, fresh, current>>

LEMMA AppendOutcomes ==
  ASSUME TypeOK, NEW p \in Procs, Append_(p), Recording(p)
  PROVE  /\ pc[p] = "append" /\ Entry(p) \in Records /\ ledger \in Ledgers
         /\ UNCHANGED <<snapshot, fallback, local, landed, runs, durable, acked, seen>>
         /\ poisoned' \in [Procs -> BOOLEAN]
         /\ \A q \in Procs \ {p} : poisoned'[q] = poisoned[q]
         /\ AppendedNothing(p) \/ AppendedTorn(p) \/ AppendedEntry(p)
  <1>1. /\ pc[p] = "append"
        /\ UNCHANGED <<snapshot, fallback, local, landed, runs, durable, acked, seen>>
    BY DEF Append_
  <1>2. ledger \in Ledgers /\ current[p] \in Files /\ journal[p][current[p]] # None
    BY <1>1 DEF Recording, Working, TypeOK
  <1>3. Entry(p) \in Records
    BY <1>2 DEF Entry, Records, TypeOK, Completions
  <1>4. ASSUME NEW e \in Records \cup {Torn}, NEW l, l = [ledger EXCEPT !.body = Append(@, e)]
        PROVE  Extends(l, ledger, e)
    <2>1. /\ l.body = Append(ledger.body, e) /\ l.binding = ledger.binding
          /\ l.synced = ledger.synced /\ l.by = ledger.by
      BY <1>2, <1>4 DEF Ledgers
    <2>2. Append(ledger.body, e) \in Seq(Records \cup {Torn})
      BY <1>2, BodyTypes
    <2>3. l \in Ledgers
      BY <1>2, <1>4, <2>1, <2>2 DEF Ledgers
    <2> QED
      BY <2>1, <2>3 DEF Extends
  <1>5. Extends([ledger EXCEPT !.body = Append(@, Torn)], ledger, Torn)
    BY <1>4
  <1>6. Extends([ledger EXCEPT !.body = Append(@, Entry(p))], ledger, Entry(p))
    BY <1>3, <1>4
  <1>7. /\ poisoned' \in [Procs -> BOOLEAN]
        /\ \A q \in Procs \ {p} : poisoned'[q] = poisoned[q]
        /\ Usable(p) => poisoned'[p]
        /\ ~Usable(p) => UNCHANGED poisoned
    BY DEF Append_, TypeOK
  <1>8. CASE Back(p) /\ UNCHANGED ledger
    BY <1>1, <1>2, <1>3, <1>7, <1>8 DEF AppendedNothing
  <1>9. CASE Usable(p) /\ Back(p) /\ ledger' = [ledger EXCEPT !.body = Append(@, Torn)]
    BY <1>1, <1>2, <1>3, <1>5, <1>7, <1>9 DEF AppendedTorn
  <1>10. CASE /\ Usable(p) /\ Goto(p, "sync")
              /\ ledger' = [ledger EXCEPT !.body = Append(@, Entry(p))]
              /\ UNCHANGED <<lock, journal, binding, pending, fresh, current>>
    BY <1>1, <1>2, <1>3, <1>6, <1>7, <1>10 DEF AppendedEntry
  <1> QED
    BY <1>8, <1>9, <1>10 DEF Append_, Entry

LEMMA BackTypes ==
  ASSUME TypeOK, NEW p \in Procs, Back(p)
  PROVE  /\ pc' \in [Procs -> Locations] /\ current' \in [Procs -> Files \cup {None}]
         /\ pc'[p] = "transfer" /\ \A q \in Procs \ {p} : pc'[q] = pc[q] /\ current'[q] = current[q]
         /\ UNCHANGED <<lock, journal, binding, pending, fresh>>
  BY GotoTypes DEF Back, Locations, TypeOK

LEMMA AppendTypes ==
  ASSUME TypeOK, NEW p \in Procs, Append_(p), Recording(p)
  PROVE  TypeOK' /\ Alone(p)
  <1>1. /\ UNCHANGED <<snapshot, fallback, local, landed, runs, durable, acked, seen>>
        /\ poisoned' \in [Procs -> BOOLEAN]
        /\ \A q \in Procs \ {p} : poisoned'[q] = poisoned[q]
        /\ AppendedNothing(p) \/ AppendedTorn(p) \/ AppendedEntry(p)
    BY AppendOutcomes
  <1>2. ledger' \in Ledgers \cup {NoFile}
    BY <1>1 DEF AppendedNothing, AppendedTorn, AppendedEntry, Extends, TypeOK
  <1>3. CASE Back(p)
    BY <1>1, <1>2, <1>3, BackTypes DEF TypeOK, Alone
  <1>4. CASE AppendedEntry(p)
    BY <1>1, <1>2, <1>4, GotoTypes DEF AppendedEntry, TypeOK, Alone, Locations
  <1> QED
    BY <1>1, <1>3, <1>4 DEF AppendedNothing, AppendedTorn

\* The ways an fsync can end.
SyncFails(p) == Back(p) /\ UNCHANGED <<ledger, fallback, durable, poisoned, acked>>

Synced(p) ==
    /\ Back(p) /\ Settle
    /\ ledger' \in Ledgers /\ ledger'.binding = ledger.binding /\ ledger'.body = ledger.body
    /\ ledger'.synced = Len(ledger.body)
    /\ durable' \in [Procs -> Completions]
    /\ durable'[p] = [durable[p] EXCEPT ![current[p]] = journal[p][current[p]]]
    /\ \A q \in Procs \ {p} : durable'[q] = durable[q]
    /\ poisoned' = [poisoned EXCEPT ![p] = FALSE]
    /\ acked' = acked \cup {current[p]}

LEMMA SyncOutcomes ==
  ASSUME TypeOK, NEW p \in Procs, Sync(p), Recording(p)
  PROVE  /\ pc[p] = "sync" /\ current[p] \in Files /\ ledger \in Ledgers
         /\ UNCHANGED <<snapshot, local, landed, runs, seen>>
         /\ SyncFails(p) \/ Synced(p)
  <1>1. pc[p] = "sync" /\ UNCHANGED <<snapshot, local, landed, runs, seen>> /\ Back(p)
    BY DEF Sync
  <1>2. ledger \in Ledgers /\ current[p] \in Files /\ journal[p][current[p]] # None
    BY <1>1 DEF Recording, Working, TypeOK
  <1>3. CASE UNCHANGED <<ledger, fallback, durable, poisoned, acked>>
    BY <1>1, <1>2, <1>3 DEF SyncFails
  <1>4. CASE ~UNCHANGED <<ledger, fallback, durable, poisoned, acked>>
    <2>1. /\ Settle /\ ledger' = [ledger EXCEPT !.synced = Len(ledger.body)]
          /\ durable' = [durable EXCEPT ![p][current[p]] = journal[p][current[p]]]
          /\ poisoned' = [poisoned EXCEPT ![p] = FALSE]
          /\ acked' = acked \cup {current[p]}
      BY <1>4 DEF Sync
    <2>2. Len(ledger.body) \in Nat
      BY <1>2, BodyTypes
    <2>3. /\ ledger' \in Ledgers /\ ledger'.binding = ledger.binding
          /\ ledger'.body = ledger.body /\ ledger'.synced = Len(ledger.body)
      BY <1>2, <2>1, <2>2 DEF Ledgers
    <2>4. [durable[p] EXCEPT ![current[p]] = journal[p][current[p]]] \in Completions
      BY <1>2 DEF TypeOK, Completions
    <2>5. /\ durable' \in [Procs -> Completions]
          /\ durable'[p] = [durable[p] EXCEPT ![current[p]] = journal[p][current[p]]]
          /\ \A q \in Procs \ {p} : durable'[q] = durable[q]
      BY <2>1, <2>4 DEF TypeOK
    <2> QED
      BY <1>1, <1>2, <2>1, <2>3, <2>5 DEF Synced
  <1> QED
    BY <1>3, <1>4

LEMMA SyncTypes ==
  ASSUME TypeOK, NEW p \in Procs, Sync(p), Recording(p)
  PROVE  TypeOK' /\ Alone(p)
  <1>1. /\ UNCHANGED <<snapshot, local, landed, runs, seen>> /\ current[p] \in Files
        /\ SyncFails(p) \/ Synced(p)
    BY SyncOutcomes
  <1>2. CASE SyncFails(p)
    BY <1>1, <1>2, BackTypes DEF SyncFails, TypeOK, Alone
  <1>3. CASE Synced(p)
    <2>1. fallback' \in Snapshots \cup {NoFile} /\ poisoned' \in [Procs -> BOOLEAN]
          /\ \A q \in Procs \ {p} : poisoned'[q] = poisoned[q]
      BY <1>3 DEF Synced, Settle, TypeOK
    <2> QED
      BY <1>1, <1>3, <2>1, BackTypes DEF Synced, TypeOK, Alone
  <1> QED
    BY <1>1, <1>2, <1>3

LEMMA StopTypes ==
  ASSUME TypeOK, NEW p \in Procs, Stop(p)
  PROVE  TypeOK' /\ Alone(p)
  <1>1. DiskTypes'
    BY DEF Stop, disk, TypeOK, DiskTypes
  <1> QED
    BY <1>1, EndEffect, TypePartsNext DEF Stop

\* A power loss keeps the ledger, or cuts it to what fsync covered.
Cut ==
    /\ ledger \in Ledgers /\ ledger.synced < Len(ledger.body)
    /\ ledger' \in Ledgers /\ ledger'.binding = ledger.binding /\ ledger'.synced = ledger.synced
    /\ \E tail \in {<<>>, <<Torn>>} :
          ledger'.body = SubSeq(ledger.body, 1, ledger.synced) \o tail

LEMMA PowerOutcomes ==
  ASSUME TypeOK, LedgerOK, PowerLoss
  PROVE  /\ UNCHANGED ledger \/ Cut
         /\ snapshot' \in {snapshot, fallback} /\ fallback' = snapshot' /\ seen' = NoFile
         /\ \A p \in Procs : Idle(p)'
         /\ UNCHANGED <<local, landed, runs, acked>>
  <1>1. ASSUME ledger' # ledger PROVE Cut
    <2>1. /\ ledger \in Ledgers /\ Wellformed(ledger) /\ ledger.synced < Len(ledger.body)
      BY <1>1 DEF PowerLoss, TypeOK, LedgerOK
    <2>2. PICK tail \in {<<>>, <<Torn>>} :
             ledger' = [ledger EXCEPT !.body = SubSeq(@, 1, ledger.synced) \o tail]
      BY <1>1 DEF PowerLoss
    <2>3. /\ ledger.body \in Seq(Records \cup {Torn}) /\ Len(ledger.body) \in Nat
          /\ ledger.synced \in Nat
      BY <2>1, BodyTypes
    <2>4. SubSeq(ledger.body, 1, ledger.synced) \in Seq(Records \cup {Torn})
      BY <2>1, <2>3
    <2>5. tail \in Seq(Records \cup {Torn})
      <3>1. <<Torn>> \in Seq(Records \cup {Torn}) /\ <<>> \in Seq(Records \cup {Torn})
        OBVIOUS
      <3> QED
        BY <3>1
    <2>6. SubSeq(ledger.body, 1, ledger.synced) \o tail \in Seq(Records \cup {Torn})
      BY <2>4, <2>5
    <2>7. /\ ledger'.body = SubSeq(ledger.body, 1, ledger.synced) \o tail
          /\ ledger'.binding = ledger.binding /\ ledger'.synced = ledger.synced
          /\ ledger'.by = ledger.by
      BY <2>1, <2>2 DEF Ledgers
    <2>8. ledger' \in Ledgers
      BY <2>1, <2>2, <2>6 DEF Ledgers
    <2> QED
      BY <2>1, <2>7, <2>8 DEF Cut
  <1> QED
    BY <1>1 DEF PowerLoss, Idle

LEMMA PowerTypes ==
  ASSUME TypeOK, LedgerOK, PowerLoss
  PROVE  TypeOK'
  <1>1. ledger' \in Ledgers \cup {NoFile}
    BY PowerOutcomes DEF Cut, TypeOK
  <1>2. DiskTypes'
    BY <1>1 DEF PowerLoss, TypeOK, DiskTypes
  <1>3. MemoryTypes'
    BY EmptyTypes DEF PowerLoss, MemoryTypes, Locations
  <1> QED
    BY <1>2, <1>3, TypePartsNext

Outside == ReadSnapshot \/ ReadLedger \/ (\E i \in Files : EditFile(i)) \/ UNCHANGED vars

LEMMA OutsideTypes ==
  ASSUME TypeOK, Outside
  PROVE  /\ TypeOK'
         /\ UNCHANGED <<snapshot, fallback, ledger, landed, lock, pc, memory, acked>>
         /\ seen' \in {seen, NoFile} \/ (seen' = snapshot /\ snapshot # NoFile)
  <1>1. CASE UNCHANGED vars
    BY <1>1 DEF vars, disk, memory, TypeOK
  <1>2. CASE ReadSnapshot \/ ReadLedger
    BY <1>2 DEF ReadSnapshot, ReadLedger, disk, memory, TypeOK
  <1>3. ASSUME NEW i \in Files, EditFile(i)
        PROVE  TypeOK' /\ UNCHANGED <<snapshot, fallback, ledger, landed, lock, pc, memory, acked,
                                      seen>>
    <2>1. local' \in [Files -> Digests \cup {None, Edited}]
      BY <1>3 DEF EditFile, TypeOK
    <2> QED
      BY <1>3, <2>1 DEF EditFile, memory, TypeOK
  <1> QED
    BY <1>1, <1>2, <1>3 DEF Outside

LEMMA StepTypes == TypeOK /\ LedgerOK /\ RunOK /\ [Next]_vars => TypeOK'
  <1> SUFFICES ASSUME TypeOK, LedgerOK, RunOK, [Next]_vars PROVE TypeOK'
    OBVIOUS
  <1>1. ASSUME NEW p \in Procs, Step(p) PROVE TypeOK'
    BY <1>1, OpenTypes, LoadTypes, LedgerTypes, SnapshotTypes, FileTypes, AppendTypes, SyncTypes,
       StopTypes DEF Step, RunOK, ProcOK
  <1>2. CASE PowerLoss
    BY <1>2, PowerTypes
  <1>3. CASE Outside
    BY <1>3, OutsideTypes
  <1> QED
    BY <1>1, <1>2, <1>3 DEF Next, Outside

-----------------------------------------------------------------------------
(* Small consequences of the invariant. *)

LEMMA ViewTypes ==
  ASSUME TypeOK
  PROVE  /\ \A s \in Views : s \in Snapshots /\ s # NoFile /\ s.base \in Completions
                             /\ s.marked \in BOOLEAN
         /\ NoFile \notin Snapshots
         /\ snapshot # NoFile => snapshot \in Views
         /\ fallback # NoFile => fallback \in Views
         /\ ledger # NoFile => ledger \in Ledgers
  BY NoFileIsNone DEF TypeOK, Views, Snapshots

\* Beside a running process all others are idle, and its steps leave them so.
LEMMA OthersIdle ==
  ASSUME TypeOK, RunOK, NEW p \in Procs, Step(p), Alone(p), NEW q \in Procs \ {p}
  PROVE  pc[q] = "idle" /\ ProcOK(q)'
  <1>1. lock = p \/ lock = NoProc
    BY DEF Step, RunOK, ProcOK, Locked, Open, Load, Verify, PublishLedger, PublishSnapshot, PublishFile,
           Append_, Sync, Stop
  <1>2. pc[q] = "idle"
    BY <1>1, Constants DEF RunOK, ProcOK, Locked
  <1>3. pc'[q] = "idle" /\ journal'[q] = Empty
    BY <1>2 DEF RunOK, ProcOK, Preparing, Alone
  <1> QED
    BY <1>2, <1>3 DEF ProcOK, Locked, Preparing, Recording, Working

\* A process that ended satisfies everything.
LEMMA EndedOK ==
  ASSUME NEW p \in Procs, Idle(p)'
  PROVE  ProcOK(p)'
  BY DEF Idle, ProcOK, Locked, Preparing, Recording, Working

\* A ledger beside an older snapshot adds nothing to it.
LEMMA UnmarkedLoads ==
  ASSUME TypeOK, LedgerOK, NothingAdded, snapshot # NoFile, ~snapshot.marked
  PROVE  Loaded(snapshot, ledger) = snapshot.base
  <1>1. CASE ledger = NoFile
    BY <1>1 DEF Loaded
  <1>2. CASE ledger # NoFile
    <2>1. ledger \in Ledgers /\ Wellformed(ledger) /\ snapshot \in Snapshots
          /\ snapshot.base \in Completions
      BY <1>2, ViewTypes DEF LedgerOK
    <2>2. Within(ledger.body, snapshot.base)
      BY <1>2 DEF NothingAdded
    <2> QED
      BY <2>1, <2>2, MergeUnique
  <1> QED
    BY <1>1, <1>2

\* What a resume loads has the snapshot's completions, and all that was
\* acknowledged.
LEMMA ResumeHas ==
  ASSUME TypeOK, LedgerOK, ViewsLoad, AckedSafe, snapshot # NoFile
  PROVE  /\ \A i \in Files : snapshot.base[i] \in {None, Loaded(snapshot, ledger)[i]}
         /\ acked \subseteq Done(Loaded(snapshot, ledger))
  <1>1. snapshot \in Snapshots /\ snapshot \in Views
    BY ViewTypes
  <1>2. \A i \in acked : fallback # NoFile /\ fallback.base = snapshot.base /\ i \in Files
    BY ViewTypes DEF AckedSafe, ViewsLoad, TypeOK
  <1>3. CASE ledger = NoFile
    BY <1>1, <1>2, <1>3 DEF Loaded, AckedSafe, Done
  <1>4. CASE ledger # NoFile
    <2>1. ledger \in Ledgers /\ Wellformed(ledger) /\ Fits(snapshot.base, ledger.body)
      BY <1>1, <1>4, ViewTypes DEF LedgerOK, ViewsLoad
    <2>2. /\ Within(ledger.body, Loaded(snapshot, ledger))
          /\ \A i \in Files : snapshot.base[i] \in {None, Loaded(snapshot, ledger)[i]}
      BY <1>1, <2>1, LoadedFits
    <2>3. ASSUME NEW i \in acked PROVE Loaded(snapshot, ledger)[i] # None
      <3>1. CASE fallback.base[i] # None
        BY <1>2, <2>2, <3>1
      <3>2. CASE \E n \in 1 .. ledger.synced : Whole(ledger.body, n) /\ ledger.body[n].file = i
        <4>1. PICK n \in 1 .. ledger.synced : Whole(ledger.body, n) /\ ledger.body[n].file = i
          BY <3>2
        <4>2. n \in 1 .. Len(ledger.body)
          BY <2>1, BodyTypes DEF Wellformed
        <4>3. ledger.body[n].digest # None
          BY <2>1, <4>1, <4>2, BodyTypes
        <4> QED
          BY <2>2, <4>1, <4>2, <4>3 DEF Within
      <3> QED
        BY <3>1, <3>2 DEF AckedSafe
    <2> QED
      BY <1>2, <2>2, <2>3 DEF Done
  <1> QED
    BY <1>3, <1>4

-----------------------------------------------------------------------------
(* Every step keeps the journal. *)

LEMMA DiskUntouched ==
  ASSUME Kept, UNCHANGED <<snapshot, fallback, ledger, acked, seen>>
  PROVE  Kept'
  BY DEF Kept, LedgerOK, ViewsLoad, Views, NothingAdded, AckedSafe

LEMMA OpenKept ==
  ASSUME Journal, NEW p \in Procs, NEW resume \in BOOLEAN, Open(p, resume)
  PROVE  Kept' /\ ProcOK(p)'
  <1>1. UNCHANGED <<snapshot, fallback, ledger, acked, seen, journal>>
        /\ pc[p] = "idle" /\ resume = (snapshot # NoFile) /\ lock' = p
    BY DEF Open, disk
  <1>2. /\ pc'[p] = IF resume THEN "load" ELSE "ledger"
        /\ fresh'[p] = ~resume /\ pending'[p] = ~resume
    BY DEF Open, Goto, Journal, TypeOK
  <1>3. journal[p] = Empty
    BY <1>1 DEF Journal, RunOK, ProcOK, Preparing
  <1>4. ProcOK(p)'
    BY <1>1, <1>2, <1>3 DEF ProcOK, Locked, Preparing, Recording, Working
  <1> QED
    BY <1>1, <1>4, DiskUntouched DEF Journal

LEMMA LoadKept ==
  ASSUME Journal, NEW p \in Procs, Load(p)
  PROVE  Kept' /\ ProcOK(p)'
  <1>1. UNCHANGED <<snapshot, fallback, ledger, acked, seen>> /\ pc[p] = "load"
    BY DEF Load, disk
  <1>2. ASSUME End(p) PROVE ProcOK(p)'
    BY <1>2, EndEffect, EndedOK DEF Journal
  <1>3. ASSUME ~End(p) PROVE ProcOK(p)'
    <2>1. /\ journal' = [journal EXCEPT ![p] = Loaded(snapshot, ledger)]
          /\ durable' = [durable EXCEPT ![p] = Loaded(snapshot, ledger)]
          /\ binding' = [binding EXCEPT ![p] = SnapshotBinding(snapshot)]
          /\ pending' = [pending EXCEPT ![p] = ~snapshot.marked]
          /\ Goto(p, "verify")
          /\ UNCHANGED <<lock, fresh, poisoned, current>>
      BY <1>3 DEF Load
    <2>2. /\ journal'[p] = Loaded(snapshot, ledger) /\ durable'[p] = journal'[p]
          /\ binding'[p] = SnapshotBinding(snapshot) /\ pending'[p] = ~snapshot.marked
          /\ pc'[p] = "verify"
      BY <2>1 DEF Goto, Journal, TypeOK
    <2>3. lock = p /\ snapshot # NoFile /\ ~fresh[p]
      BY <1>1 DEF Journal, RunOK, ProcOK, Locked, Preparing
    <2>4. Locked(p)' /\ Recording(p)'
      BY <2>1, <2>2, <2>3 DEF Locked, Recording, Working
    <2>5. Loaded(snapshot, ledger)' = Loaded(snapshot, ledger)
      BY <1>1 DEF Loaded, Merge
    <2>6. SnapshotBinding(snapshot)' = SnapshotBinding(snapshot)
      BY <1>1 DEF SnapshotBinding
    <2>7. Preparing(p)'
      BY <1>1, <2>1, <2>2, <2>3, <2>5, <2>6 DEF Preparing
    <2> QED
      BY <2>4, <2>7 DEF ProcOK
  <1> QED
    BY <1>1, <1>2, <1>3, DiskUntouched DEF Journal

LEMMA VerifyKept ==
  ASSUME Journal, NEW p \in Procs, Verify(p)
  PROVE  Kept' /\ ProcOK(p)'
  <1>1. UNCHANGED <<snapshot, fallback, ledger, acked, seen>> /\ pc[p] = "verify"
    BY DEF Verify, disk
  <1>2. ASSUME End(p) PROVE ProcOK(p)'
    BY <1>2, EndEffect, EndedOK DEF Journal
  <1>3. ASSUME ~End(p) PROVE ProcOK(p)'
    <2>1. pc'[p] = "ledger" /\ UNCHANGED <<lock, journal, durable, binding, pending, fresh>>
      BY <1>3 DEF Verify, Goto, Journal, TypeOK, memory
    <2>2. Locked(p)' /\ Recording(p)'
      BY <1>1, <2>1 DEF Journal, RunOK, ProcOK, Locked, Recording, Working
    <2>3. Preparing(p)
      BY DEF Journal, RunOK, ProcOK
    <2>4. Loaded(snapshot, ledger)' = Loaded(snapshot, ledger)
      BY <1>1 DEF Loaded, Merge
    <2>5. SnapshotBinding(snapshot)' = SnapshotBinding(snapshot)
      BY <1>1 DEF SnapshotBinding
    <2>6. Preparing(p)'
      BY <1>1, <2>1, <2>3, <2>4, <2>5 DEF Preparing
    <2> QED
      BY <2>2, <2>6 DEF ProcOK
  <1> QED
    BY <1>1, <1>2, <1>3, DiskUntouched DEF Journal

LEMMA StopKept ==
  ASSUME Journal, NEW p \in Procs, Stop(p)
  PROVE  Kept' /\ ProcOK(p)'
  BY EndEffect, EndedOK, DiskUntouched DEF Stop, Journal, disk

\* A ledger is created for a first snapshot, or replaced by one with the same
\* completions that fits the same snapshots.
LEMMA CreatedKept ==
  ASSUME Journal, NEW p \in Procs, pc[p] = "ledger", ~(fresh[p] /\ ledger # NoFile),
         Created(p, ledger'), fallback' \in {fallback, snapshot}, UNCHANGED <<snapshot, seen>>
  PROVE  /\ LedgerOK' /\ ViewsLoad' /\ NothingAdded'
         /\ ledger' # NoFile /\ ledger' \in Ledgers
         /\ pending[p] => ledger'.binding = [old |-> FALSE, base |-> journal[p]]
         /\ \A n \in 1 .. Len(ledger'.body) : Whole(ledger'.body, n)
         /\ Within(ledger'.body, journal[p])
         /\ \A i \in Done(journal[p]) :
               \E n \in 1 .. ledger'.synced : Whole(ledger'.body, n) /\ ledger'.body[n].file = i
         /\ acked \subseteq Done(journal[p])
         /\ snapshot # NoFile => /\ Loaded(snapshot, ledger') = journal[p]
                                 /\ \A i \in Files : snapshot.base[i] \in {None, journal[p][i]}
  <1> DEFINE c == Contents(p)
  <1>1. HeaderBinding(p) \in Bindings /\ c \in Completions /\ ledger' \in Ledgers
    BY CreatedTypes DEF Journal
  <1>2. ledger' # NoFile
    BY <1>1, NoFileIsNone
  <1>3. Preparing(p)
    BY DEF Journal, RunOK, ProcOK
  <1>4. c = journal[p]
    BY <1>3 DEF Contents, Preparing
  <1>5. /\ Wellformed(ledger') /\ ledger'.binding = HeaderBinding(p)
        /\ \A n \in 1 .. Len(ledger'.body) : Whole(ledger'.body, n)
        /\ Within(ledger'.body, c)
        /\ \A i \in Done(c) :
              \E n \in 1 .. ledger'.synced : Whole(ledger'.body, n) /\ ledger'.body[n].file = i
        /\ \A base : (\A i \in Files : base[i] \in {None, c[i]}) => Fits(base, ledger'.body)
        /\ \A s \in Snapshots :
              (\A i \in Files : s.base[i] \in {None, c[i]}) => Loaded(s, ledger') = c
    BY <1>1, NewLedger DEF Created
  <1>6. pending[p] => HeaderBinding(p) = [old |-> FALSE, base |-> journal[p]]
    BY DEF HeaderBinding
  <1>7. CASE snapshot = NoFile
    <2>1. Views = {} /\ fallback = NoFile
      BY <1>7 DEF Journal, Kept, ViewsLoad, Views
    <2>2. Views' = {} /\ fallback' = NoFile /\ acked = {}
      BY <1>7, <2>1 DEF Views, Journal, Kept, AckedSafe
    <2>3. LedgerOK' /\ ViewsLoad' /\ NothingAdded'
      BY <1>5, <1>7, <2>2 DEF LedgerOK, ViewsLoad, NothingAdded
    <2> QED
      BY <1>1, <1>2, <1>4, <1>5, <1>6, <1>7, <2>2, <2>3
  <1>8. CASE snapshot # NoFile
    <2>1. /\ ~fresh[p] /\ pending[p] = ~snapshot.marked /\ journal[p] = Loaded(snapshot, ledger)
          /\ binding[p] = SnapshotBinding(snapshot)
      BY <1>3, <1>8 DEF Preparing
    <2>2. \A i \in Files : snapshot.base[i] \in {None, c[i]}
      BY <1>4, <1>8, <2>1, ResumeHas DEF Journal, Kept
    <2>3. acked \subseteq Done(c)
      BY <1>4, <1>8, <2>1, ResumeHas DEF Journal, Kept
    <2>4. snapshot \in Snapshots /\ snapshot \in Views
      BY <1>8, ViewTypes DEF Journal
    <2>5. HeaderBinding(p) = [old |-> FALSE, base |-> snapshot.base]
      <3>1. CASE snapshot.marked
        BY <2>1, <2>4, <3>1 DEF HeaderBinding, SnapshotBinding, Journal, Kept, ViewsLoad, Snapshots
      <3>2. CASE ~snapshot.marked
        BY <1>8, <2>1, <3>2, UnmarkedLoads DEF HeaderBinding, Journal, Kept
      <3> QED
        BY <3>1, <3>2
    <2>6. Views' \subseteq Views
      BY DEF Views
    <2>7. ASSUME NEW s \in Views
          PROVE  /\ s.base = snapshot.base /\ (s.marked => ~s.old)
                 /\ Accepts(s, ledger'.binding) /\ Fits(s.base, ledger'.body)
      <3>1. s \in Snapshots /\ s.base = snapshot.base /\ (s.marked => ~s.old)
        BY ViewTypes DEF Journal, Kept, ViewsLoad
      <3>2. Accepts(s, ledger'.binding)
        BY <1>5, <2>5, <3>1 DEF Accepts, SnapshotBinding, Snapshots
      <3> QED
        BY <1>5, <2>2, <3>1, <3>2
    <2>8. ViewsLoad'
      BY <1>2, <1>8, <2>6, <2>7 DEF ViewsLoad, Accepts, SnapshotBinding, Fits, Whole
    <2>9. ASSUME NEW s \in {snapshot, fallback}, s # NoFile, ~s.marked
          PROVE  Within(ledger'.body, s.base)
      <3>1. s \in Snapshots /\ s.base = snapshot.base /\ s.base \in Completions
        BY <2>9, ViewTypes DEF Journal, Kept, ViewsLoad
      <3>2. c = s.base
        <4>1. CASE ledger = NoFile
          BY <1>4, <2>1, <3>1, <4>1 DEF Loaded
        <4>2. CASE ledger # NoFile
          <5>1. ledger \in Ledgers /\ Wellformed(ledger) /\ Within(ledger.body, s.base)
            BY <2>9, <4>2, ViewTypes DEF Journal, Kept, LedgerOK, NothingAdded
          <5>2. Loaded(snapshot, ledger) = s.base
            BY <2>4, <3>1, <5>1, MergeUnique
          <5> QED
            BY <1>4, <2>1, <5>2
        <4> QED
          BY <4>1, <4>2
      <3> QED
        BY <1>5, <3>2
    <2>10. NothingAdded'
      BY <2>9 DEF NothingAdded, Within, Whole
    <2>11. Loaded(snapshot, ledger') = c
      BY <1>5, <2>2, <2>4
    <2> QED
      BY <1>1, <1>2, <1>4, <1>5, <1>6, <2>2, <2>3, <2>8, <2>10, <2>11 DEF LedgerOK
  <1> QED
    BY <1>7, <1>8

LEMMA LedgerKept ==
  ASSUME OrderedMetadata, Journal, NEW p \in Procs, PublishLedger(p)
  PROVE  Kept' /\ ProcOK(p)'
  <1>1. /\ pc[p] = "ledger" /\ UNCHANGED <<snapshot, seen>>
        /\ LedgerRefused(p) \/ LedgerUnsynced(p) \/ LedgerPublished(p)
    BY LedgerOutcomes DEF Journal
  <1>2. ASSUME End(p) PROVE ProcOK(p)'
    BY <1>2, EndEffect, EndedOK DEF Journal
  <1>3. ASSUME LedgerRefused(p) PROVE Kept' /\ ProcOK(p)'
    BY <1>1, <1>2, <1>3, DiskUntouched DEF LedgerRefused, Journal
  <1>4. ASSUME ~(fresh[p] /\ ledger # NoFile), Created(p, ledger'),
               fallback' \in {fallback, snapshot}
        PROVE  /\ LedgerOK' /\ ViewsLoad' /\ NothingAdded'
               /\ ledger' # NoFile /\ ledger' \in Ledgers
               /\ pending[p] => ledger'.binding = [old |-> FALSE, base |-> journal[p]]
               /\ \A n \in 1 .. Len(ledger'.body) : Whole(ledger'.body, n)
               /\ Within(ledger'.body, journal[p])
               /\ \A i \in Done(journal[p]) :
                     \E n \in 1 .. ledger'.synced :
                        Whole(ledger'.body, n) /\ ledger'.body[n].file = i
               /\ acked \subseteq Done(journal[p])
               /\ snapshot # NoFile =>
                     /\ Loaded(snapshot, ledger') = journal[p]
                     /\ \A i \in Files : snapshot.base[i] \in {None, journal[p][i]}
    BY <1>1, <1>4, CreatedKept
  <1>5. \A i \in acked : fallback # NoFile /\ snapshot # NoFile
    BY DEF Journal, Kept, AckedSafe, ViewsLoad, Views
  <1>6. ASSUME LedgerUnsynced(p) PROVE Kept' /\ ProcOK(p)'
    <2>1. /\ ~(fresh[p] /\ ledger # NoFile) /\ Created(p, ledger') /\ End(p)
          /\ fallback' = fallback /\ acked' = acked
      BY <1>6 DEF LedgerUnsynced
    <2>2. AckedSafe'
      BY <1>4, <1>5, <2>1 DEF AckedSafe
    <2> QED
      BY <1>2, <1>4, <2>1, <2>2 DEF Kept
  <1>7. ASSUME LedgerPublished(p) PROVE Kept' /\ ProcOK(p)'
    <2>1. /\ ~(fresh[p] /\ ledger # NoFile) /\ Created(p, ledger') /\ fallback' = snapshot
          /\ acked' = IF pending[p] THEN acked ELSE acked \cup Done(journal[p])
          /\ pc'[p] = (IF pending[p] THEN "snapshot" ELSE "transfer")
          /\ UNCHANGED <<lock, journal, pending, fresh, poisoned, current>>
      BY <1>7 DEF LedgerPublished, Settle, Goto, Journal, TypeOK
    <2>2. /\ fresh[p] => snapshot = NoFile /\ journal[p] = Empty /\ pending[p]
          /\ ~fresh[p] => snapshot # NoFile /\ pending[p] = ~snapshot.marked
          /\ lock = p
      BY <1>1 DEF Journal, RunOK, ProcOK, Preparing, Locked
    <2>3. AckedSafe'
      <3>1. \A i \in acked' : fallback' # NoFile /\ i \in Done(journal[p])
        BY <1>4, <1>5, <2>1, <2>2
      <3> QED
        BY <1>4, <2>1, <3>1 DEF AckedSafe
    <2>4. Locked(p)'
      BY <2>1, <2>2 DEF Locked
    <2>5. ASSUME pending[p] PROVE Preparing(p)' /\ Recording(p)'
      <3>1. pc'[p] = "snapshot"
        BY <2>1, <2>5
      <3>2. snapshot # NoFile => journal[p] = Loaded(snapshot, ledger)'
        BY <1>1, <1>4, <2>1 DEF Loaded, Merge
      <3>3. Within(ledger.body, journal[p])' /\ \A n \in 1 .. Len(ledger'.body) : Whole(ledger.body, n)'
        BY <1>4, <2>1 DEF Within, Whole
      <3> QED
        BY <1>1, <1>4, <2>1, <2>2, <2>5, <3>1, <3>2, <3>3 DEF Preparing, Recording, Working
    <2>6. ASSUME ~pending[p] PROVE Preparing(p)' /\ Recording(p)'
      <3>1. pc'[p] = "transfer" /\ snapshot # NoFile /\ snapshot.marked
        BY <2>1, <2>2, <2>6 DEF Journal, TypeOK, Snapshots
      <3>2. Within(ledger.body, journal[p])' /\ \A n \in 1 .. Len(ledger'.body) : Whole(ledger.body, n)'
        BY <1>4, <2>1 DEF Within, Whole
      <3>3. Preparing(p)'
        BY <3>1 DEF Preparing
      <3> QED
        BY <1>1, <1>4, <2>1, <3>1, <3>2, <3>3 DEF Recording, Working
    <2> QED
      BY <1>4, <2>1, <2>3, <2>4, <2>5, <2>6 DEF Kept, ProcOK
  <1> QED
    BY <1>1, <1>3, <1>6, <1>7

LEMMA SnapshotKept ==
  ASSUME Journal, NEW p \in Procs, PublishSnapshot(p)
  PROVE  Kept' /\ ProcOK(p)'
  <1>1. /\ pc[p] = "snapshot" /\ UNCHANGED <<ledger, seen>>
        /\ SnapshotRefused(p) \/ SnapshotUnsynced(p) \/ SnapshotPublished(p)
    BY SnapshotOutcomes
  <1>2. ASSUME End(p) PROVE ProcOK(p)'
    BY <1>2, EndEffect, EndedOK DEF Journal
  <1>3. ASSUME SnapshotRefused(p) PROVE Kept' /\ ProcOK(p)'
    BY <1>1, <1>2, <1>3, DiskUntouched DEF SnapshotRefused, Journal
  <1> DEFINE new == [marked |-> TRUE, old |-> FALSE, base |-> journal[p]]
  <1>4. /\ pending[p] /\ ledger # NoFile /\ lock = p
        /\ ledger.binding = [old |-> FALSE, base |-> journal[p]]
        /\ \A n \in 1 .. Len(ledger.body) : Whole(ledger.body, n)
        /\ Within(ledger.body, journal[p])
        /\ IF fresh[p] THEN snapshot = NoFile
           ELSE /\ snapshot # NoFile /\ pending[p] = ~snapshot.marked
                /\ journal[p] = Loaded(snapshot, ledger)
    BY <1>1 DEF Journal, RunOK, ProcOK, Locked, Preparing
  <1>5. new \in Snapshots /\ new # NoFile /\ journal[p] \in Completions
    <2>1. journal[p] \in Completions
      BY DEF Journal, TypeOK
    <2>2. new \in Snapshots
      BY <2>1 DEF Snapshots
    <2> QED
      BY <2>1, <2>2, NoFileIsNone
  <1>6. \A s \in Views : s.base = journal[p] /\ snapshot # NoFile
    <2>1. CASE snapshot = NoFile
      BY <2>1 DEF Journal, Kept, ViewsLoad
    <2>2. CASE snapshot # NoFile
      <3>1. journal[p] = snapshot.base
        BY <1>4, <2>2, UnmarkedLoads DEF Journal, Kept
      <3> QED
        BY <2>2, <3>1 DEF Journal, Kept, ViewsLoad
    <2> QED
      BY <2>1, <2>2
  <1>7. acked \subseteq Done(journal[p])
    <2>1. CASE snapshot = NoFile
      BY <2>1 DEF Journal, Kept, ViewsLoad, Views, AckedSafe
    <2>2. CASE snapshot # NoFile
      BY <1>4, <2>2, ResumeHas DEF Journal, Kept
    <2> QED
      BY <2>1, <2>2
  <1>8. ASSUME snapshot' = new, fallback' \in {fallback, snapshot'}
        PROVE  LedgerOK' /\ ViewsLoad' /\ NothingAdded'
    <2>1. \A s \in Views' : s \in Views \/ s = new
      BY <1>1, <1>8 DEF Views
    <2>2. ASSUME NEW s \in Views
          PROVE  /\ s.base = new.base /\ (s.marked => ~s.old)
                 /\ Accepts(s, ledger.binding) /\ Fits(s.base, ledger.body)
      BY <1>4, <1>6 DEF Journal, Kept, ViewsLoad
    <2>3. /\ Accepts(new, ledger.binding) /\ Fits(new.base, ledger.body) /\ ~new.old
      BY <1>4 DEF Accepts, SnapshotBinding, Fits, Within
    <2>4. ViewsLoad'
      BY <1>1, <1>4, <1>5, <1>8, <2>1, <2>2, <2>3
         DEF ViewsLoad, Accepts, SnapshotBinding, Fits, Whole
    <2>5. \A s \in {snapshot', fallback'} : s # NoFile /\ ~s.marked => s = fallback
      BY <1>8
    <2>6. NothingAdded'
      BY <1>1, <2>5 DEF Journal, Kept, NothingAdded, Within, Whole
    <2>7. LedgerOK'
      BY <1>1 DEF Journal, Kept, LedgerOK, Wellformed, Whole
    <2> QED
      BY <2>4, <2>6, <2>7
  <1>9. ASSUME SnapshotUnsynced(p) PROVE Kept' /\ ProcOK(p)'
    <2>1. snapshot' = new /\ End(p) /\ UNCHANGED <<fallback, acked>>
      BY <1>9 DEF SnapshotUnsynced
    <2>2. AckedSafe'
      BY <1>1, <2>1 DEF Journal, Kept, AckedSafe, Whole
    <2> QED
      BY <1>2, <1>8, <2>1, <2>2 DEF Kept
  <1>10. ASSUME SnapshotPublished(p) PROVE Kept' /\ ProcOK(p)'
    <2>1. /\ snapshot' = new /\ fallback' = new /\ pc'[p] = "transfer"
          /\ acked' = acked \cup Done(journal[p])
          /\ UNCHANGED <<lock, journal, fresh, poisoned, current>>
      BY <1>10 DEF SnapshotPublished, Goto, Journal, TypeOK
    <2>2. AckedSafe'
      BY <1>5, <1>7, <2>1 DEF AckedSafe, Done
    <2>3. Locked(p)' /\ Preparing(p)'
      BY <1>4, <2>1 DEF Locked, Preparing
    <2>4. Recording(p)'
      BY <1>1, <1>4, <1>5, <2>1 DEF Recording, Working, Within, Whole
    <2> QED
      BY <1>8, <2>1, <2>2, <2>3, <2>4 DEF Kept, ProcOK
  <1> QED
    BY <1>1, <1>3, <1>9, <1>10

LEMMA FileKept ==
  ASSUME Journal, NEW p \in Procs, NEW i \in Files, NEW d \in Digests, PublishFile(p, i, d)
  PROVE  Kept' /\ ProcOK(p)'
  <1>1. /\ pc[p] = "transfer" /\ journal[p][i] = None
        /\ UNCHANGED <<snapshot, fallback, ledger, acked, seen, lock, fresh, pending, poisoned>>
    BY DEF PublishFile
  <1>2. Kept'
    BY <1>1, DiskUntouched DEF Journal
  <1>3. lock = p /\ Recording(p) /\ Working(p)
    BY <1>1 DEF Journal, RunOK, ProcOK, Locked, Working
  <1>4. ASSUME UNCHANGED <<pc, journal, current>> PROVE ProcOK(p)'
    BY <1>1, <1>3, <1>4 DEF ProcOK, Locked, Preparing, Recording, Working, Within, Whole
  <1>5. ASSUME /\ journal' = [journal EXCEPT ![p][i] = d]
               /\ current' = [current EXCEPT ![p] = i] /\ Goto(p, "append")
        PROVE  ProcOK(p)'
    <2>1. /\ pc'[p] = "append" /\ current'[p] = i /\ journal'[p] = [journal[p] EXCEPT ![i] = d]
      BY <1>5 DEF Goto, Journal, TypeOK
    <2>2. journal'[p][i] = d /\ \A j \in Files \ {i} : journal'[p][j] = journal[p][j]
      BY <2>1 DEF Journal, TypeOK, Completions
    <2>3. ledger \in Ledgers /\ ledger # NoFile
      BY <1>3 DEF Recording, Journal, TypeOK
    <2>4. \A n \in 1 .. Len(ledger.body) :
             Whole(ledger.body, n) => ledger.body[n].file \in Files \ {i}
      BY <1>1, <1>3, <2>3, BodyTypes DEF Recording, Within
    <2>5. Within(ledger.body, journal'[p])
      BY <1>3, <2>2, <2>4 DEF Recording, Within
    <2>6. d # None
      BY Constants
    <2>7. snapshot.base[i] = None
      BY <1>1, <1>3 DEF Recording
    <2>8. \A j \in Files : snapshot.base[j] \in {None, journal'[p][j]}
      BY <1>3, <2>2, <2>7 DEF Recording
    <2>9. Locked(p)' /\ Preparing(p)'
      BY <1>1, <1>3, <2>1 DEF Locked, Preparing
    <2>10. Recording(p)'
      BY <1>1, <1>3, <2>1, <2>2, <2>4, <2>5, <2>6, <2>7, <2>8
         DEF Recording, Working, Within, Whole
    <2> QED
      BY <2>9, <2>10 DEF ProcOK
  <1> QED
    BY <1>2, <1>4, <1>5 DEF PublishFile

LEMMA AppendKept ==
  ASSUME Journal, NEW p \in Procs, Append_(p)
  PROVE  Kept' /\ ProcOK(p)'
  <1>1. Recording(p) /\ TypeOK /\ LedgerOK
    BY DEF Journal, RunOK, ProcOK, Kept
  <1>2. /\ pc[p] = "append" /\ Entry(p) \in Records /\ ledger \in Ledgers
        /\ UNCHANGED <<snapshot, fallback, acked, seen>>
        /\ AppendedNothing(p) \/ AppendedTorn(p) \/ AppendedEntry(p)
    BY <1>1, AppendOutcomes
  <1>3. /\ lock = p /\ ledger # NoFile /\ snapshot # NoFile /\ snapshot.marked
        /\ fallback = snapshot /\ Wellformed(ledger)
        /\ Within(ledger.body, journal[p])
        /\ \A i \in Files : snapshot.base[i] \in {None, journal[p][i]}
        /\ ~poisoned[p] => \A n \in 1 .. Len(ledger.body) : Whole(ledger.body, n)
        /\ current[p] \in Files /\ journal[p][current[p]] # None
        /\ snapshot.base[current[p]] = None
        /\ \A n \in 1 .. Len(ledger.body) :
              Whole(ledger.body, n) => ledger.body[n].file # current[p]
    BY <1>1, <1>2 DEF Recording, Working, LedgerOK, Journal, RunOK, ProcOK, Locked
  <1>4. \A s \in Views : Fits(s.base, ledger.body) /\ s.base = snapshot.base
                         /\ Accepts(s, ledger.binding)
    BY <1>3 DEF Journal, Kept, ViewsLoad
  <1>5. ASSUME NEW e, Extends(ledger', ledger, e), Wellformed(ledger'),
               Fits(snapshot.base, ledger'.body),
               \A n \in 1 .. Len(ledger.body) : ledger'.body[n] = ledger.body[n]
        PROVE  Kept'
    <2>1. /\ ledger' # NoFile /\ ledger' \in Ledgers
          /\ ledger'.binding = ledger.binding /\ ledger'.synced = ledger.synced
      BY <1>5, NoFileIsNone DEF Extends
    <2>2. LedgerOK'
      BY <1>5 DEF LedgerOK, Wellformed, Whole
    <2>3. ViewsLoad'
      BY <1>2, <1>3, <1>4, <1>5, <2>1
         DEF Journal, Kept, ViewsLoad, Views, Accepts, SnapshotBinding, Fits, Whole
    <2>4. NothingAdded'
      BY <1>2, <1>3 DEF NothingAdded
    <2>5. \A n \in 1 .. ledger.synced : n \in 1 .. Len(ledger.body)
      BY <1>2, <1>3, BodyTypes DEF Wellformed
    <2>6. AckedSafe'
      BY <1>2, <1>5, <2>1, <2>5 DEF Journal, Kept, AckedSafe, Whole
    <2> QED
      BY <2>2, <2>3, <2>4, <2>6 DEF Kept
  <1>6. ASSUME Back(p) PROVE pc'[p] = "transfer" /\ lock' = p /\ journal' = journal
    BY <1>1, <1>3, <1>6, BackTypes
  <1>7. ASSUME AppendedNothing(p) PROVE Kept' /\ ProcOK(p)'
    <2>1. Kept'
      BY <1>2, <1>7, DiskUntouched DEF AppendedNothing, Journal
    <2>2. pc'[p] = "transfer" /\ lock' = p /\ journal' = journal /\ ledger' = ledger
          /\ (~poisoned'[p] => ~poisoned[p])
      BY <1>6, <1>7 DEF AppendedNothing
    <2>3. Recording(p)'
      BY <1>2, <1>3, <2>2 DEF Recording, Working, Within, Whole
    <2> QED
      BY <2>1, <2>2, <2>3 DEF ProcOK, Locked, Preparing
  <1>8. ASSUME AppendedTorn(p) PROVE Kept' /\ ProcOK(p)'
    <2>1. /\ \A n \in 1 .. Len(ledger.body) : Whole(ledger.body, n)
          /\ Extends(ledger', ledger, Torn) /\ poisoned'[p]
          /\ pc'[p] = "transfer" /\ lock' = p /\ journal' = journal
      BY <1>3, <1>6, <1>8 DEF AppendedTorn, Usable
    <2>2. /\ Wellformed(ledger')
          /\ \A base : Fits(base, ledger.body) => Fits(base, ledger'.body)
          /\ \A c : Within(ledger.body, c) => Within(ledger'.body, c)
          /\ \A n \in 1 .. Len(ledger.body) : ledger'.body[n] = ledger.body[n]
      BY <1>2, <1>3, <2>1, TornLedger
    <2>3. Fits(snapshot.base, ledger'.body)
      BY <1>3, <1>4, <2>2, ViewTypes DEF Journal
    <2>4. Kept'
      BY <1>5, <2>1, <2>2, <2>3
    <2>5. Within(ledger'.body, journal[p]) /\ ledger' # NoFile
      BY <1>3, <2>1, <2>2, NoFileIsNone DEF Extends
    <2>6. Recording(p)'
      BY <1>2, <1>3, <2>1, <2>5 DEF Recording, Working, Within, Whole
    <2> QED
      BY <2>1, <2>4, <2>6 DEF ProcOK, Locked, Preparing
  <1>9. ASSUME AppendedEntry(p) PROVE Kept' /\ ProcOK(p)'
    <2>1. /\ \A n \in 1 .. Len(ledger.body) : Whole(ledger.body, n)
          /\ Extends(ledger', ledger, Entry(p))
          /\ pc'[p] = "sync" /\ UNCHANGED <<lock, journal, current>>
      BY <1>1, <1>3, <1>9 DEF AppendedEntry, Usable, Goto, TypeOK
    <2>2. Entry(p).file = current[p] /\ Entry(p).digest = journal[p][current[p]]
      BY DEF Entry
    <2>3. /\ Wellformed(ledger')
          /\ \A n \in 1 .. Len(ledger'.body) : Whole(ledger'.body, n)
          /\ \E n \in 1 .. Len(ledger'.body) : ledger'.body[n].file = Entry(p).file
          /\ \A n \in 1 .. Len(ledger.body) : ledger'.body[n] = ledger.body[n]
          /\ \A base : Fits(base, ledger.body) /\ base[Entry(p).file] = None
                           => Fits(base, ledger'.body)
          /\ \A c : Within(ledger.body, c) /\ c[Entry(p).file] = Entry(p).digest
                           => Within(ledger'.body, c)
      <3>1. \A n \in 1 .. Len(ledger.body) : ledger.body[n].file # Entry(p).file
        BY <1>3, <2>1, <2>2
      <3> QED
        BY <1>2, <1>3, <2>1, <3>1, RecordedLedger
    <2>4. Fits(snapshot.base, ledger'.body)
      BY <1>1, <1>3, <1>4, <2>2, <2>3, ViewTypes
    <2>5. Kept'
      BY <1>5, <2>1, <2>3, <2>4
    <2>6. Within(ledger'.body, journal[p]) /\ ledger' # NoFile
      BY <1>3, <2>1, <2>2, <2>3, NoFileIsNone DEF Extends
    <2>7. Recording(p)'
      BY <1>2, <1>3, <2>1, <2>2, <2>3, <2>6 DEF Recording, Working, Within, Whole
    <2> QED
      BY <1>3, <2>1, <2>5, <2>7 DEF ProcOK, Locked, Preparing
  <1> QED
    BY <1>2, <1>7, <1>8, <1>9

LEMMA SyncKept ==
  ASSUME Journal, NEW p \in Procs, Sync(p)
  PROVE  Kept' /\ ProcOK(p)'
  <1>1. Recording(p) /\ TypeOK /\ LedgerOK
    BY DEF Journal, RunOK, ProcOK, Kept
  <1>2. /\ pc[p] = "sync" /\ current[p] \in Files /\ ledger \in Ledgers
        /\ UNCHANGED <<snapshot, seen>>
        /\ SyncFails(p) \/ Synced(p)
    BY <1>1, SyncOutcomes
  <1>3. /\ lock = p /\ ledger # NoFile /\ snapshot # NoFile /\ snapshot.marked
        /\ fallback = snapshot /\ Wellformed(ledger)
        /\ Within(ledger.body, journal[p])
        /\ \A i \in Files : snapshot.base[i] \in {None, journal[p][i]}
        /\ \A n \in 1 .. Len(ledger.body) : Whole(ledger.body, n)
        /\ \E n \in 1 .. Len(ledger.body) : ledger.body[n].file = current[p]
    BY <1>1, <1>2 DEF Recording, Working, LedgerOK, Journal, RunOK, ProcOK, Locked
  <1>4. pc'[p] = "transfer" /\ lock' = p /\ journal' = journal
    BY <1>1, <1>2, <1>3, BackTypes DEF SyncFails, Synced
  <1>5. ASSUME SyncFails(p) PROVE Kept' /\ ProcOK(p)'
    <2>1. Kept' /\ ledger' = ledger /\ fallback' = fallback
      BY <1>2, <1>5, DiskUntouched DEF SyncFails, Journal
    <2>2. Recording(p)'
      BY <1>2, <1>3, <1>4, <2>1 DEF Recording, Working, Within, Whole
    <2> QED
      BY <1>4, <2>1, <2>2 DEF ProcOK, Locked, Preparing
  <1>6. ASSUME Synced(p) PROVE Kept' /\ ProcOK(p)'
    <2>1. /\ fallback' = snapshot /\ ledger' \in Ledgers /\ ledger'.binding = ledger.binding
          /\ ledger'.body = ledger.body /\ ledger'.synced = Len(ledger.body)
          /\ acked' = acked \cup {current[p]}
      BY <1>3, <1>6 DEF Synced, Settle
    <2>2. Wellformed(ledger') /\ ledger' # NoFile
      BY <1>2, <1>3, <2>1, SyncedLedger, NoFileIsNone
    <2>3. LedgerOK'
      BY <2>2 DEF LedgerOK, Wellformed, Whole
    <2>4. ViewsLoad'
      BY <1>2, <1>3, <2>1, <2>2
         DEF Journal, Kept, ViewsLoad, Views, Accepts, SnapshotBinding, Fits, Whole
    <2>5. NothingAdded'
      BY <1>2, <1>3, <2>1 DEF NothingAdded
    <2>6. \A n \in 1 .. ledger.synced : n \in 1 .. ledger'.synced
      BY <1>2, <1>3, <2>1, BodyTypes DEF Wellformed
    <2>7. AckedSafe'
      BY <1>3, <2>1, <2>2, <2>6 DEF Journal, Kept, AckedSafe, Whole
    <2>8. Recording(p)'
      BY <1>2, <1>3, <1>4, <2>1, <2>2 DEF Recording, Working, Within, Whole
    <2> QED
      BY <1>4, <2>3, <2>4, <2>5, <2>7, <2>8 DEF Kept, ProcOK, Locked, Preparing
  <1> QED
    BY <1>2, <1>5, <1>6

LEMMA PowerKept ==
  ASSUME Journal, PowerLoss
  PROVE  Kept' /\ RunOK'
  <1>1. /\ UNCHANGED ledger \/ Cut
        /\ snapshot' \in {snapshot, fallback} /\ fallback' = snapshot' /\ seen' = NoFile
        /\ \A p \in Procs : Idle(p)'
        /\ acked' = acked
    BY PowerOutcomes DEF Journal, Kept
  <1>2. RunOK'
    BY <1>1, EndedOK DEF RunOK
  <1>3. Views' \subseteq {snapshot'} /\ Views' \subseteq Views
    BY <1>1 DEF Views
  <1>4. \A i \in acked : /\ snapshot' # NoFile
                         /\ fallback'.base[i] = fallback.base[i]
    BY <1>1 DEF Journal, Kept, AckedSafe, ViewsLoad, Views
  <1>5. CASE UNCHANGED ledger
    <2>1. LedgerOK' /\ NothingAdded'
      BY <1>1, <1>5 DEF Journal, Kept, LedgerOK, NothingAdded
    <2>2. ViewsLoad'
      BY <1>3, <1>5 DEF Journal, Kept, ViewsLoad, Views
    <2>3. AckedSafe'
      BY <1>1, <1>4, <1>5 DEF Journal, Kept, AckedSafe
    <2> QED
      BY <1>2, <2>1, <2>2, <2>3 DEF Kept
  <1>6. CASE Cut
    <2>1. ledger \in Ledgers /\ Wellformed(ledger) /\ ledger # NoFile /\ ledger' # NoFile
      BY <1>6, NoFileIsNone DEF Cut, Journal, Kept, LedgerOK
    <2>2. /\ ledger' \in Ledgers /\ Wellformed(ledger')
          /\ ledger'.binding = ledger.binding /\ ledger'.synced = ledger.synced
          /\ \A n \in 1 .. ledger.synced : /\ ledger'.body[n] = ledger.body[n]
                                           /\ n \in 1 .. Len(ledger.body)
          /\ \A n \in 1 .. Len(ledger'.body) : Whole(ledger'.body, n) => n \in 1 .. ledger.synced
      <3>1. PICK tail \in {<<>>, <<Torn>>} :
               ledger'.body = SubSeq(ledger.body, 1, ledger.synced) \o tail
        BY <1>6 DEF Cut
      <3>2. /\ ledger.synced < Len(ledger.body) /\ ledger' \in Ledgers
            /\ ledger'.binding = ledger.binding /\ ledger'.synced = ledger.synced
        BY <1>6 DEF Cut
      <3> QED
        BY <2>1, <3>1, <3>2, CutLedger
    <2>3. /\ \A base : Fits(base, ledger.body) => Fits(base, ledger'.body)
          /\ \A c : Within(ledger.body, c) => Within(ledger'.body, c)
      BY <2>2 DEF Fits, Within, Whole
    <2>4. LedgerOK'
      BY <2>2 DEF LedgerOK, Wellformed, Whole
    <2>5. ASSUME NEW s \in Views', NEW v, v = snapshot'
          PROVE  /\ s.base = v.base /\ (s.marked => ~s.old)
                 /\ Accepts(s, ledger'.binding) /\ Fits(s.base, ledger'.body)
      <3>1. s \in Views /\ s = v
        BY <1>3, <2>5
      <3> QED
        BY <2>1, <2>2, <2>3, <3>1 DEF Journal, Kept, ViewsLoad
    <2>6. ViewsLoad'
      <3>1. snapshot' = NoFile => Views' = {}
        BY <1>3 DEF Views
      <3> QED
        BY <2>1, <2>5, <3>1 DEF ViewsLoad, Accepts, SnapshotBinding, Fits, Whole
    <2>7. NothingAdded'
      BY <1>1, <2>1, <2>3 DEF Journal, Kept, NothingAdded, Within, Whole
    <2>8. AckedSafe'
      BY <1>1, <1>4, <2>1, <2>2 DEF Journal, Kept, AckedSafe, Whole
    <2> QED
      BY <1>2, <2>4, <2>6, <2>7, <2>8 DEF Kept
  <1> QED
    BY <1>1, <1>5, <1>6

LEMMA OutsideKept ==
  ASSUME Journal, Outside
  PROVE  Kept' /\ RunOK'
  <1>1. /\ UNCHANGED <<snapshot, fallback, ledger, lock, pc, memory, acked>>
        /\ seen' \in {seen, NoFile} \/ (seen' = snapshot /\ snapshot # NoFile)
    BY OutsideTypes DEF Journal
  <1>2. Views' \subseteq Views
    BY <1>1 DEF Views
  <1>3. Kept'
    BY <1>1, <1>2 DEF Journal, Kept, LedgerOK, ViewsLoad, NothingAdded, AckedSafe
  <1>4. RunOK'
    BY <1>1 DEF Journal, RunOK, ProcOK, Locked, Preparing, Recording, Working, memory, Loaded, Merge
  <1> QED
    BY <1>3, <1>4

LEMMA InitJournal == Init => Journal
  <1> SUFFICES ASSUME Init PROVE Journal
    OBVIOUS
  <1>1. TypeOK
    BY InitTypes
  <1>2. /\ ledger = NoFile /\ fallback = snapshot /\ seen = NoFile /\ acked = {}
        /\ snapshot # NoFile => ~snapshot.marked
        /\ \A p \in Procs : pc[p] = "idle" /\ journal[p] = Empty
    BY DEF Init
  <1>3. Views \subseteq {snapshot}
    BY <1>2 DEF Views
  <1>4. Kept
    BY <1>2, <1>3 DEF Kept, LedgerOK, ViewsLoad, Views, NothingAdded, AckedSafe
  <1>5. RunOK
    BY <1>2 DEF RunOK, ProcOK, Locked, Preparing, Recording, Working
  <1> QED
    BY <1>1, <1>4, <1>5 DEF Journal

LEMMA StepJournal ==
  ASSUME OrderedMetadata
  PROVE  Journal /\ [Next]_vars => Journal'
  <1> SUFFICES ASSUME Journal, [Next]_vars PROVE Journal'
    OBVIOUS
  <1>1. TypeOK'
    BY StepTypes DEF Journal, Kept
  <1>2. ASSUME NEW p \in Procs, Step(p) PROVE Kept' /\ RunOK'
    <2>1. Kept' /\ ProcOK(p)'
      BY <1>2, OpenKept, LoadKept, VerifyKept, LedgerKept, SnapshotKept, FileKept, AppendKept,
         SyncKept, StopKept DEF Step
    <2>2. Alone(p)
      BY <1>2, OpenTypes, LoadTypes, LedgerTypes, SnapshotTypes, FileTypes, AppendTypes, SyncTypes,
         StopTypes DEF Step, Journal, Kept, RunOK, ProcOK
    <2>3. \A q \in Procs \ {p} : ProcOK(q)'
      BY <1>2, <2>2, OthersIdle DEF Journal
    <2> QED
      BY <2>1, <2>3 DEF RunOK
  <1>3. CASE PowerLoss
    BY <1>1, <1>3, PowerKept DEF Journal
  <1>4. CASE Outside
    BY <1>1, <1>4, OutsideKept DEF Journal
  <1> QED
    BY <1>1, <1>2, <1>3, <1>4 DEF Next, Outside, Journal

\* The recovery journal is well formed, its files agree with each other and with
\* what the running download holds, and what was acknowledged stays: the facts
\* the theorems below rest on.  fsync must also commit earlier renames, as
\* journalled file systems do: State::save syncs the directory of each file it
\* publishes, but a power loss after a failed directory sync may otherwise bring
\* back a snapshot older than the records that follow.
THEOREM Invariant == OrderedMetadata => (Spec => []Journal)
  <1> SUFFICES ASSUME OrderedMetadata PROVE Spec => []Journal
    OBVIOUS
  <1>1. Init => Journal
    BY InitJournal
  <1>2. Journal /\ [Next]_vars => Journal'
    BY StepJournal
  <1> QED
    BY <1>1, <1>2, PTL DEF Spec

-----------------------------------------------------------------------------
(* What it means for the user. *)

LEMMA LoadsView ==
  ASSUME Journal, NEW s \in Views
  PROVE  /\ Loads(s, ledger) /\ Loads(snapshot, ledger)
         /\ Loaded(s, ledger) = Loaded(snapshot, ledger)
         /\ snapshot # NoFile
  <1>1. snapshot # NoFile /\ snapshot \in Views
    BY ViewTypes DEF Journal, Kept, ViewsLoad
  <1>2. ASSUME NEW v \in Views PROVE Loads(v, ledger)
    <2>1. v \in Snapshots /\ v # NoFile
      BY ViewTypes DEF Journal
    <2>2. CASE ledger = NoFile
      BY <2>1, <2>2 DEF Loads, Journal, Kept, ViewsLoad
    <2>3. CASE ledger # NoFile
      <3>1. /\ ledger \in Ledgers /\ Wellformed(ledger)
            /\ Accepts(v, ledger.binding) /\ Fits(v.base, ledger.body)
        BY <2>3, ViewTypes DEF Journal, Kept, LedgerOK, ViewsLoad
      <3> QED
        BY <2>1, <3>1, LoadsWhen
    <2> QED
      BY <2>2, <2>3
  <1>3. s.base = snapshot.base
    BY DEF Journal, Kept, ViewsLoad
  <1>4. Loaded(s, ledger) = Loaded(snapshot, ledger)
    BY <1>3 DEF Loaded, Merge
  <1> QED
    BY <1>1, <1>2, <1>4

\* A checkpoint that exists can be resumed, whatever step of whatever run was
\* the last one to happen (Checkpoint::load after State::save).
THEOREM ResumesAlways == OrderedMetadata => (Spec => []ResumeLoads)
  <1> SUFFICES ASSUME OrderedMetadata PROVE Spec => []ResumeLoads
    OBVIOUS
  <1>1. Journal => ResumeLoads
    BY ViewTypes, LoadsView DEF ResumeLoads, Journal
  <1>2. Spec => []Journal
    BY Invariant
  <1> QED
    BY <1>1, <1>2, PTL

\* The dry run, which reads the snapshot and later the ledger without the lock,
\* is never refused and misses no acknowledged completion (Checkpoint::read_only).
THEOREM ReadersAgree == OrderedMetadata => (Spec => []ReaderConsistent)
  <1> SUFFICES ASSUME OrderedMetadata PROVE Spec => []ReaderConsistent
    OBVIOUS
  <1>1. Journal => ReaderConsistent
    <2> SUFFICES ASSUME Journal, seen # NoFile
                 PROVE  /\ Loads(seen, ledger)
                        /\ \A i \in acked : Loaded(seen, ledger)[i] = Recoverable[i]
      BY DEF ReaderConsistent
    <2>1. seen \in Views
      BY DEF Views
    <2> QED
      BY <2>1, LoadsView DEF Recoverable
  <1>2. Spec => []Journal
    BY Invariant
  <1> QED
    BY <1>1, <1>2, PTL

\* When a record is being synced, the snapshot it belongs to is the one a power
\* loss would leave ("snapshot must be durably saved before completion records").
THEOREM SnapshotFirst == OrderedMetadata => (Spec => []SnapshotDurableBeforeRecords)
  <1> SUFFICES ASSUME OrderedMetadata PROVE Spec => []SnapshotDurableBeforeRecords
    OBVIOUS
  <1>1. Journal => SnapshotDurableBeforeRecords
    BY DEF Journal, RunOK, ProcOK, Recording, Working, SnapshotDurableBeforeRecords
  <1>2. Spec => []Journal
    BY Invariant
  <1> QED
    BY <1>1, <1>2, PTL

\* Every variable keeps its type.
THEOREM TypeCorrect == OrderedMetadata => (Spec => []TypeOK)
  <1> SUFFICES ASSUME OrderedMetadata PROVE Spec => []TypeOK
    OBVIOUS
  <1>1. Journal => TypeOK
    BY DEF Journal
  <1>2. Spec => []Journal
    BY Invariant
  <1> QED
    BY <1>1, <1>2, PTL

-----------------------------------------------------------------------------
(* What is credited was published. *)

\* What a resume recovers.
LEMMA RecoverableValue ==
  ASSUME Journal
  PROVE  /\ Recoverable = IF snapshot = NoFile THEN Empty ELSE Loaded(snapshot, ledger)
         /\ Recoverable \in Completions
         /\ acked \subseteq Done(Recoverable)
  <1>1. CASE snapshot = NoFile
    <2>1. acked = {}
      BY <1>1 DEF Journal, Kept, AckedSafe, ViewsLoad, Views
    <2> QED
      BY <1>1, <2>1, EmptyTypes DEF Recoverable, Loads
  <1>2. CASE snapshot # NoFile
    <2>1. Recoverable = Loaded(snapshot, ledger)
      BY <1>2, ViewTypes, LoadsView DEF Recoverable, Journal
    <2> QED
      BY <1>2, <2>1, LoadValue, ResumeHas DEF Journal, Kept
  <1> QED
    BY <1>1, <1>2

LEMMA LoadedLanded ==
  ASSUME Journal, Published, snapshot # NoFile
  PROVE  Landed(Loaded(snapshot, ledger))
  <1>1. CASE ledger = NoFile
    BY <1>1 DEF Loaded, Published
  <1>2. CASE ledger # NoFile
    <2>1. ledger \in Ledgers /\ Wellformed(ledger) /\ snapshot \in Snapshots
      BY <1>2, ViewTypes DEF Journal, Kept, LedgerOK
    <2>2. ASSUME NEW i \in Files, Loaded(snapshot, ledger)[i] # None
          PROVE  Loaded(snapshot, ledger)[i] \in landed[i]
      <3>1. CASE \E n \in 1 .. Len(ledger.body) : Whole(ledger.body, n) /\ ledger.body[n].file = i
        BY <1>2, <2>1, <3>1, MergeValue DEF Published, RecordsLanded
      <3>2. CASE \A n \in 1 .. Len(ledger.body) : Whole(ledger.body, n) => ledger.body[n].file # i
        BY <2>1, <2>2, <3>2, MergeValue DEF Published, Landed
      <3> QED
        BY <3>1, <3>2
    <2> QED
      BY <2>2 DEF Landed
  <1> QED
    BY <1>1, <1>2

LEMMA EmptyLanded == Landed(Empty)
  BY DEF Landed, Empty

LEMMA InitPublished == Init => Published
  <1> SUFFICES ASSUME Init PROVE Published
    OBVIOUS
  <1>1. /\ ledger = NoFile /\ fallback = snapshot
        /\ \A p \in Procs : journal[p] = Empty /\ durable[p] = Empty
    BY DEF Init
  <1>2. ASSUME snapshot # NoFile PROVE Landed(snapshot.base)
    <2>1. \A i \in Files : local[i] = snapshot.base[i] /\ landed[i] = {local[i]} \ {None}
      BY <1>2 DEF Init
    <2> QED
      BY <2>1 DEF Landed
  <1> QED
    BY <1>1, <1>2, EmptyLanded DEF Published, RecordsLanded

\* Records are appended or made from what the process holds.
LEMMA StepPublished ==
  ASSUME Journal, Published, NEW p \in Procs, Step(p)
  PROVE  Published'
  <1>1. Alone(p)
    BY OpenTypes, LoadTypes, LedgerTypes, SnapshotTypes, FileTypes, AppendTypes, SyncTypes,
       StopTypes DEF Step, Journal, Kept, RunOK, ProcOK
  <1>2. TypeOK /\ TypeOK'
    BY StepTypes DEF Journal, Kept, Next
  <1>3. ASSUME landed' = landed, Landed(journal'[p]), Landed(durable'[p]),
               snapshot' # snapshot => snapshot'.base = journal[p],
               fallback' \in {fallback, snapshot, snapshot'},
               RecordsLanded'
        PROVE  Published'
    <2>1. \A q \in Procs : Landed(journal'[q]) /\ Landed(durable'[q])
      BY <1>1, <1>3 DEF Published, Alone
    <2>2. \A s \in {snapshot', fallback'} : s # NoFile => Landed(s.base)
      BY <1>3 DEF Published
    <2> QED
      BY <1>3, <2>1, <2>2 DEF Published, Landed
  <1>4. Landed(journal[p]) /\ Landed(durable[p]) /\ RecordsLanded
    BY DEF Published
  <1>5. ASSUME End(p) PROVE Landed(journal'[p]) /\ Landed(durable'[p])
    BY <1>2, <1>5, EndEffect, EmptyLanded DEF Idle
  <1>6. ASSUME NEW resume \in BOOLEAN, Open(p, resume) PROVE Published'
    BY <1>3, <1>4, <1>6 DEF Open, disk, RecordsLanded
  <1>7. ASSUME Load(p) PROVE Published'
    <2>1. UNCHANGED <<snapshot, fallback, ledger, landed>>
      BY <1>7 DEF Load, disk
    <2>2. ASSUME ~End(p) PROVE Landed(journal'[p]) /\ Landed(durable'[p])
      <3>1. /\ snapshot # NoFile
            /\ journal'[p] = Loaded(snapshot, ledger) /\ durable'[p] = Loaded(snapshot, ledger)
        BY <1>2, <1>7, <2>2 DEF Load, Loads, TypeOK
      <3> QED
        BY <3>1, LoadedLanded
    <2> QED
      BY <1>3, <1>4, <1>5, <2>1, <2>2 DEF RecordsLanded
  <1>8. ASSUME Verify(p) \/ Stop(p) PROVE Published'
    BY <1>3, <1>4, <1>5, <1>8 DEF Verify, Stop, disk, memory, RecordsLanded
  <1>9. ASSUME PublishLedger(p) PROVE Published'
    <2>1. /\ UNCHANGED <<snapshot, landed>>
          /\ LedgerRefused(p) \/ LedgerUnsynced(p) \/ LedgerPublished(p)
      BY <1>2, <1>9, LedgerOutcomes
    <2>2. Contents(p) \in {journal[p], durable[p]} /\ Contents(p) \in Completions
      BY <1>2 DEF Contents, TypeOK
    <2>3. ASSUME Created(p, ledger') PROVE RecordsLanded'
      <3>1. HeaderBinding(p) \in Bindings /\ ledger' \in Ledgers
        BY <1>2, <2>3, CreatedTypes
      <3>2. Within(ledger'.body, Contents(p))
        BY <2>2, <2>3, <3>1, NewLedger DEF Created
      <3>3. ASSUME NEW n \in 1 .. Len(ledger'.body), Whole(ledger'.body, n)
            PROVE  ledger'.body[n].digest \in landed[ledger'.body[n].file]
        <4>1. ledger'.body[n].file \in Files /\ ledger'.body[n].digest # None
          BY <3>1, <3>3, BodyTypes
        <4>2. Landed(Contents(p)) /\ Contents(p)[ledger'.body[n].file] = ledger'.body[n].digest
          BY <1>4, <2>2, <3>2, <3>3 DEF Within
        <4> QED
          BY <4>1, <4>2 DEF Landed
      <3> QED
        BY <2>1, <3>3 DEF RecordsLanded, Whole
    <2>4. RecordsLanded'
      BY <1>4, <2>1, <2>3 DEF LedgerRefused, LedgerUnsynced, LedgerPublished, RecordsLanded
    <2>5. ASSUME LedgerPublished(p)
          PROVE  Landed(journal'[p]) /\ Landed(durable'[p]) /\ fallback' \in {fallback, snapshot}
      BY <1>2, <1>4, <2>2, <2>5 DEF LedgerPublished, Settle, TypeOK
    <2> QED
      BY <1>3, <1>5, <2>1, <2>4, <2>5 DEF LedgerRefused, LedgerUnsynced
  <1>10. ASSUME PublishSnapshot(p) PROVE Published'
    <2>1. /\ UNCHANGED <<ledger, landed>>
          /\ SnapshotRefused(p) \/ SnapshotUnsynced(p) \/ SnapshotPublished(p)
      BY <1>10, SnapshotOutcomes
    <2>2. /\ snapshot' # snapshot => snapshot'.base = journal[p]
          /\ fallback' \in {fallback, snapshot'}
          /\ Landed(journal'[p]) /\ Landed(durable'[p])
      BY <1>4, <1>5, <2>1 DEF SnapshotRefused, SnapshotUnsynced, SnapshotPublished
    <2> QED
      BY <1>3, <1>4, <2>1, <2>2 DEF RecordsLanded
  <1>11. ASSUME NEW i \in Files, NEW d \in Digests, PublishFile(p, i, d) PROVE Published'
    <2>1. /\ \A j \in Files : landed[j] \subseteq landed'[j]
          /\ d \in landed'[i]
          /\ UNCHANGED <<snapshot, fallback, ledger, durable>>
      BY <1>2, <1>11 DEF PublishFile, TypeOK
    <2>2. \A j \in Files : journal'[p][j] \in {journal[p][j]} \/ (j = i /\ journal'[p][j] = d)
      BY <1>2, <1>11 DEF PublishFile, TypeOK, Completions
    <2>3. ASSUME NEW c, Landed(c) PROVE \A j \in Files : c[j] # None => c[j] \in landed'[j]
      BY <2>1, <2>3 DEF Landed
    <2>4. \A j \in Files : journal'[p][j] # None => journal'[p][j] \in landed'[j]
      BY <1>4, <2>1, <2>2, <2>3
    <2>5. RecordsLanded'
      <3>1. ASSUME ledger # NoFile, NEW n \in 1 .. Len(ledger.body), Whole(ledger.body, n)
            PROVE  ledger.body[n].digest \in landed'[ledger.body[n].file]
        <4>1. ledger \in Ledgers
          BY <1>2, <3>1 DEF TypeOK
        <4>2. ledger.body[n].file \in Files
          BY <3>1, <4>1, BodyTypes
        <4> QED
          BY <1>4, <2>1, <3>1, <4>2 DEF RecordsLanded
      <3> QED
        BY <2>1, <3>1 DEF RecordsLanded, Whole
    <2>6. \A q \in Procs : \A j \in Files :
             /\ journal'[q][j] # None => journal'[q][j] \in landed'[j]
             /\ durable'[q][j] # None => durable'[q][j] \in landed'[j]
      BY <1>1, <2>1, <2>3, <2>4 DEF Published, Alone
    <2>7. \A s \in {snapshot, fallback} : s # NoFile =>
             \A j \in Files : s.base[j] # None => s.base[j] \in landed'[j]
      BY <2>3 DEF Published
    <2> QED
      BY <2>1, <2>5, <2>6, <2>7 DEF Published, Landed
  <1>12. ASSUME Append_(p) PROVE Published'
    <2>1. Recording(p)
      BY DEF Journal, RunOK, ProcOK
    <2>2. /\ pc[p] = "append" /\ Entry(p) \in Records /\ ledger \in Ledgers
          /\ UNCHANGED <<snapshot, fallback, landed, durable>>
          /\ AppendedNothing(p) \/ AppendedTorn(p) \/ AppendedEntry(p)
      BY <1>2, <1>12, <2>1, AppendOutcomes
    <2>3. journal' = journal
      BY <1>2, <2>2, BackTypes DEF AppendedNothing, AppendedTorn, AppendedEntry
    <2>4. ASSUME NEW e \in Records \cup {Torn}, Extends(ledger', ledger, e),
                 e # Torn => e.digest \in landed[e.file]
          PROVE  RecordsLanded'
      <3>1. /\ ledger.body \in Seq(Records \cup {Torn}) /\ Len(ledger.body) \in Nat
            /\ ledger'.body = Append(ledger.body, e) /\ ledger # NoFile
        BY <2>2, <2>4, BodyTypes, NoFileIsNone DEF Extends
      <3>2. \A n \in 1 .. Len(ledger'.body) :
               \/ n \in 1 .. Len(ledger.body) /\ ledger'.body[n] = ledger.body[n]
               \/ ledger'.body[n] = e
        BY <3>1
      <3> QED
        BY <1>4, <2>2, <2>4, <3>1, <3>2 DEF RecordsLanded, Whole
    <2>5. Entry(p).digest \in landed[Entry(p).file]
      <3>1. current[p] \in Files /\ journal[p][current[p]] # None
        BY <2>1, <2>2 DEF Recording, Working
      <3> QED
        BY <1>4, <3>1 DEF Entry, Landed
    <2>6. RecordsLanded'
      BY <1>4, <2>2, <2>4, <2>5 DEF AppendedNothing, AppendedTorn, AppendedEntry, RecordsLanded
    <2> QED
      BY <1>3, <1>4, <2>2, <2>3, <2>6
  <1>13. ASSUME Sync(p) PROVE Published'
    <2>1. Recording(p)
      BY DEF Journal, RunOK, ProcOK
    <2>2. /\ current[p] \in Files /\ ledger \in Ledgers
          /\ UNCHANGED <<snapshot, landed>>
          /\ SyncFails(p) \/ Synced(p)
      BY <1>2, <1>13, <2>1, SyncOutcomes
    <2>3. journal' = journal
      BY <1>2, <2>2, BackTypes DEF SyncFails, Synced
    <2>4. RecordsLanded'
      BY <1>4, <2>2, NoFileIsNone DEF SyncFails, Synced, RecordsLanded, Whole
    <2>5. Landed(durable'[p])
      <3>1. CASE SyncFails(p)
        BY <1>4, <3>1 DEF SyncFails
      <3>2. CASE Synced(p)
        <4>1. \A i \in Files : durable'[p][i] \in {durable[p][i], journal[p][i]}
          BY <1>2, <2>2, <3>2 DEF Synced, TypeOK, Completions
        <4> QED
          BY <1>4, <4>1 DEF Landed
      <3> QED
        BY <2>2, <3>1, <3>2
    <2>6. fallback' \in {fallback, snapshot}
      BY <2>2 DEF SyncFails, Synced, Settle
    <2> QED
      BY <1>3, <1>4, <2>2, <2>3, <2>4, <2>5, <2>6
  <1> QED
    BY <1>6, <1>7, <1>8, <1>9, <1>10, <1>11, <1>12, <1>13 DEF Step

LEMMA PowerPublished ==
  ASSUME Journal, Published, PowerLoss
  PROVE  Published'
  <1>1. /\ UNCHANGED ledger \/ Cut
        /\ snapshot' \in {snapshot, fallback} /\ fallback' = snapshot'
        /\ \A p \in Procs : Idle(p)'
        /\ landed' = landed
    BY PowerOutcomes DEF Journal, Kept
  <1>2. RecordsLanded'
    <2>1. CASE UNCHANGED ledger
      BY <1>1, <2>1 DEF Published, RecordsLanded
    <2>2. CASE Cut
      <3>1. ledger \in Ledgers /\ Wellformed(ledger) /\ ledger # NoFile
        BY <2>2, NoFileIsNone DEF Cut, Journal, Kept, LedgerOK
      <3>2. PICK tail \in {<<>>, <<Torn>>} :
               ledger'.body = SubSeq(ledger.body, 1, ledger.synced) \o tail
        BY <2>2 DEF Cut
      <3>3. /\ ledger.synced < Len(ledger.body) /\ ledger' \in Ledgers
            /\ ledger'.binding = ledger.binding /\ ledger'.synced = ledger.synced
        BY <2>2 DEF Cut
      <3>4. /\ \A n \in 1 .. ledger.synced : /\ ledger'.body[n] = ledger.body[n]
                                             /\ n \in 1 .. Len(ledger.body)
            /\ \A n \in 1 .. Len(ledger'.body) :
                  Whole(ledger'.body, n) => n \in 1 .. ledger.synced
        BY <3>1, <3>2, <3>3, CutLedger
      <3> QED
        BY <1>1, <3>1, <3>4 DEF Published, RecordsLanded, Whole
    <2> QED
      BY <1>1, <2>1, <2>2
  <1> QED
    BY <1>1, <1>2, EmptyLanded DEF Published, Idle, Landed

\* No resume credits a file with bytes the program did not publish there, after
\* whatever crash, torn record or power loss (finish_file publishes the file
\* before save_completion records it; read_record rejects a partial record).
THEOREM NeverCreditsUnpublished == OrderedMetadata => (Spec => []NoFalseCredit)
  <1> SUFFICES ASSUME OrderedMetadata PROVE Spec => []NoFalseCredit
    OBVIOUS
  <1>1. Init => Journal /\ Published
    BY InitJournal, InitPublished
  <1>2. Journal /\ Published /\ [Next]_vars => (Journal /\ Published)'
    <2> SUFFICES ASSUME Journal, Published, [Next]_vars PROVE Journal' /\ Published'
      OBVIOUS
    <2>1. Journal'
      BY StepJournal
    <2>2. CASE Outside
      <3>1. UNCHANGED <<snapshot, fallback, ledger, landed, journal, durable>>
        BY <2>2, OutsideTypes DEF Journal, memory
      <3> QED
        BY <2>1, <3>1 DEF Published, RecordsLanded, Landed
    <2> QED
      BY <2>1, <2>2, StepPublished, PowerPublished DEF Next, Outside
  <1>3. Journal /\ Published => NoFalseCredit
    <2> SUFFICES ASSUME Journal, Published PROVE Landed(Recoverable)
      BY DEF Landed, NoFalseCredit
    <2> QED
      BY RecoverableValue, LoadedLanded, EmptyLanded
  <1> QED
    BY <1>1, <1>2, <1>3, PTL DEF Spec

-----------------------------------------------------------------------------
(* The journal implements DurableCompletions. *)

\* A resume recovers what the two files hold.
Recovered ==
    /\ Recoverable = IF snapshot = NoFile THEN Empty ELSE Loaded(snapshot, ledger)
    /\ Recoverable \in Completions
    /\ acked \subseteq Done(Recoverable)
    /\ acked \subseteq Files

LEMMA RecoveredNow == Journal => Recovered
  BY RecoverableValue DEF Recovered, Journal, TypeOK

LEMMA RecoveredNext == Journal' => Recovered'
  BY RecoveredNow, PTL

\* A step that leaves what is recovered may acknowledge more of it.
LEMMA AcknowledgeStep ==
  ASSUME Journal, Journal', Recoverable' = Recoverable, acked \subseteq acked'
  PROVE  Promise!Next
  <1>1. acked' \in SUBSET Files /\ \A i \in acked' : Recoverable[i] # None
    BY RecoveredNext DEF Recovered, Done
  <1>2. acked' = acked \cup acked'
    OBVIOUS
  <1>3. Promise!Acknowledge(acked')
    BY <1>1, <1>2 DEF Promise!Acknowledge
  <1> QED
    BY <1>1, <1>3 DEF Promise!Next

\* The snapshot and the ledger are replaced by ones with the same completions.
LEMMA LedgerSame ==
  ASSUME Journal, Journal', NEW p \in Procs, PublishLedger(p)
  PROVE  Promise!Next
  <1>1. /\ pc[p] = "ledger" /\ UNCHANGED <<snapshot, seen>>
        /\ LedgerRefused(p) \/ LedgerUnsynced(p) \/ LedgerPublished(p)
    BY LedgerOutcomes DEF Journal
  <1>2. acked \subseteq acked'
    BY <1>1 DEF LedgerRefused, LedgerUnsynced, LedgerPublished
  <1>3. Recovered /\ Recovered'
    BY RecoveredNow, RecoveredNext
  <1>4. Recoverable' = Recoverable
    <2>1. CASE snapshot = NoFile
      BY <1>1, <1>3, <2>1 DEF Recovered
    <2>2. CASE snapshot # NoFile /\ ledger' = ledger
      BY <1>1, <1>3, <2>2 DEF Recovered
    <2>3. CASE snapshot # NoFile /\ ledger' # ledger
      <3>1. /\ ~(fresh[p] /\ ledger # NoFile) /\ Created(p, ledger')
            /\ fallback' \in {fallback, snapshot}
        BY <1>1, <2>3 DEF LedgerRefused, LedgerUnsynced, LedgerPublished, Settle
      <3>2. Loaded(snapshot, ledger') = journal[p]
        BY <1>1, <2>3, <3>1, CreatedKept
      <3>3. journal[p] = Loaded(snapshot, ledger)
        BY <1>1, <2>3 DEF Journal, RunOK, ProcOK, Preparing
      <3> QED
        BY <1>1, <1>3, <2>3, <3>2, <3>3 DEF Recovered
    <2> QED
      BY <2>1, <2>2, <2>3
  <1> QED
    BY <1>2, <1>4, AcknowledgeStep

LEMMA SnapshotSame ==
  ASSUME Journal, Journal', NEW p \in Procs, PublishSnapshot(p)
  PROVE  Promise!Next
  <1>1. /\ pc[p] = "snapshot" /\ UNCHANGED <<ledger, seen>>
        /\ SnapshotRefused(p) \/ SnapshotUnsynced(p) \/ SnapshotPublished(p)
    BY SnapshotOutcomes
  <1>2. acked \subseteq acked'
    BY <1>1 DEF SnapshotRefused, SnapshotUnsynced, SnapshotPublished
  <1>3. Recovered /\ Recovered'
    BY RecoveredNow, RecoveredNext
  <1>4. Recoverable' = Recoverable
    <2>1. CASE snapshot' = snapshot
      BY <1>1, <1>3, <2>1 DEF Recovered
    <2>2. CASE snapshot' # snapshot
      <3>1. snapshot' = [marked |-> TRUE, old |-> FALSE, base |-> journal[p]]
        BY <1>1, <2>2 DEF SnapshotRefused, SnapshotUnsynced, SnapshotPublished
      <3>2. /\ ledger # NoFile /\ pending[p] /\ Within(ledger.body, journal[p])
            /\ fresh[p] => snapshot = NoFile /\ journal[p] = Empty
            /\ ~fresh[p] => snapshot # NoFile /\ ~snapshot.marked
                            /\ journal[p] = Loaded(snapshot, ledger)
        BY <1>1 DEF Journal, RunOK, ProcOK, Preparing, TypeOK, Snapshots
      <3>3. /\ snapshot' \in Snapshots /\ snapshot' # NoFile /\ snapshot'.base = journal[p]
            /\ journal[p] \in Completions
        <4>1. journal[p] \in Completions
          BY DEF Journal, TypeOK
        <4>2. snapshot' \in Snapshots
          BY <3>1, <4>1 DEF Snapshots
        <4> QED
          BY <3>1, <4>1, <4>2, NoFileIsNone
      <3>4. Recoverable' = Loaded(snapshot', ledger)
        BY <1>1, <1>3, <3>3 DEF Recovered
      <3>5. ledger \in Ledgers /\ Wellformed(ledger)
        BY <3>2 DEF Journal, Kept, LedgerOK, TypeOK
      <3>6. Loaded(snapshot', ledger) = journal[p]
        BY <3>2, <3>3, <3>5, MergeUnique
      <3>7. Recoverable = journal[p]
        BY <1>3, <3>2 DEF Recovered
      <3> QED
        BY <3>4, <3>6, <3>7
    <2> QED
      BY <2>1, <2>2
  <1> QED
    BY <1>2, <1>4, AcknowledgeStep

\* A whole record credits its file, a torn one nothing.
LEMMA AppendCredits ==
  ASSUME Journal, Journal', NEW p \in Procs, Append_(p)
  PROVE  Promise!Next
  <1>1. Recording(p) /\ TypeOK /\ LedgerOK
    BY DEF Journal, RunOK, ProcOK, Kept
  <1>2. /\ pc[p] = "append" /\ Entry(p) \in Records /\ ledger \in Ledgers
        /\ UNCHANGED <<snapshot, fallback, acked, seen>>
        /\ AppendedNothing(p) \/ AppendedTorn(p) \/ AppendedEntry(p)
    BY <1>1, AppendOutcomes
  <1>3. /\ ledger # NoFile /\ snapshot \in Snapshots /\ snapshot # NoFile /\ Wellformed(ledger)
        /\ ~poisoned[p] => \A n \in 1 .. Len(ledger.body) : Whole(ledger.body, n)
        /\ current[p] \in Files
        /\ snapshot.base[current[p]] = None
        /\ \A n \in 1 .. Len(ledger.body) :
              Whole(ledger.body, n) => ledger.body[n].file # current[p]
    BY <1>1, <1>2 DEF Recording, Working, LedgerOK, TypeOK
  <1>4. Recovered /\ Recovered'
    BY RecoveredNow, RecoveredNext
  <1>5. Recoverable = Loaded(snapshot, ledger) /\ Recoverable' = Loaded(snapshot, ledger')
    BY <1>2, <1>3, <1>4 DEF Recovered
  <1>6. ASSUME AppendedNothing(p) PROVE Promise!Next
    BY <1>2, <1>5, <1>6, AcknowledgeStep DEF AppendedNothing
  <1>7. ASSUME AppendedTorn(p) PROVE Promise!Next
    <2>1. \A n \in 1 .. Len(ledger.body) : Whole(ledger.body, n)
      BY <1>3, <1>7 DEF AppendedTorn, Usable
    <2>2. Extends(ledger', ledger, Torn)
      BY <1>7 DEF AppendedTorn
    <2>3. Loaded(snapshot, ledger') = Loaded(snapshot, ledger)
      BY <1>2, <1>3, <2>1, <2>2, TornLedger
    <2> QED
      BY <1>2, <1>5, <2>3, AcknowledgeStep
  <1>8. ASSUME AppendedEntry(p) PROVE Promise!Next
    <2>1. \A n \in 1 .. Len(ledger.body) : Whole(ledger.body, n)
      BY <1>3, <1>8 DEF AppendedEntry, Usable
    <2>2. Extends(ledger', ledger, Entry(p))
      BY <1>8 DEF AppendedEntry
    <2>3. Entry(p).file = current[p] /\ Entry(p).digest \in Digests
      BY <1>2 DEF Entry, Records
    <2>4. \A n \in 1 .. Len(ledger.body) : ledger.body[n].file # Entry(p).file
      BY <1>3, <2>1, <2>3
    <2>5. Loaded(snapshot, ledger') =
             [Loaded(snapshot, ledger) EXCEPT ![Entry(p).file] = Entry(p).digest]
      BY <1>2, <1>3, <2>1, <2>2, <2>4, RecordedLedger
    <2>6. Recoverable[current[p]] = None
      BY <1>2, <1>3, <1>5, MergeValue
    <2>7. Promise!Credit(current[p], Entry(p).digest)
      BY <1>2, <1>5, <2>3, <2>5, <2>6 DEF Promise!Credit
    <2> QED
      BY <1>3, <2>3, <2>7 DEF Promise!Next
  <1> QED
    BY <1>2, <1>6, <1>7, <1>8

LEMMA SyncAcknowledges ==
  ASSUME Journal, Journal', NEW p \in Procs, Sync(p)
  PROVE  Promise!Next
  <1>1. Recording(p) /\ TypeOK
    BY DEF Journal, RunOK, ProcOK
  <1>2. /\ pc[p] = "sync" /\ ledger \in Ledgers /\ UNCHANGED <<snapshot, seen>>
        /\ SyncFails(p) \/ Synced(p)
    BY <1>1, SyncOutcomes
  <1>3. /\ ledger # NoFile /\ Wellformed(ledger)
        /\ \A n \in 1 .. Len(ledger.body) : Whole(ledger.body, n)
    BY <1>1, <1>2 DEF Recording, Working, Journal, Kept, LedgerOK
  <1>4. Recovered /\ Recovered'
    BY RecoveredNow, RecoveredNext
  <1>5. \A s : Loaded(s, ledger') = Loaded(s, ledger)
    BY <1>2, <1>3, SyncedLedger DEF SyncFails, Synced
  <1>6. Recoverable' = Recoverable
    BY <1>2, <1>4, <1>5 DEF Recovered
  <1>7. acked \subseteq acked'
    BY <1>2 DEF SyncFails, Synced
  <1> QED
    BY <1>6, <1>7, AcknowledgeStep

\* A power loss takes back only what was not acknowledged.
LEMMA PowerLoses ==
  ASSUME Journal, Journal', PowerLoss
  PROVE  Promise!Next
  <1>1. /\ UNCHANGED ledger \/ Cut
        /\ snapshot' \in {snapshot, fallback} /\ acked' = acked
    BY PowerOutcomes DEF Journal, Kept
  <1>2. Recovered /\ Recovered'
    BY RecoveredNow, RecoveredNext
  <1>3. ASSUME NEW i \in Files PROVE Recoverable'[i] \in {None, Recoverable[i]}
    <2>1. CASE snapshot' = NoFile
      BY <1>2, <2>1 DEF Recovered, Empty
    <2>2. CASE snapshot' # NoFile
      <3>1. /\ snapshot' \in Views /\ snapshot' \in Snapshots /\ snapshot # NoFile
            /\ snapshot \in Snapshots
            /\ snapshot'.base = snapshot.base
        BY <1>1, <2>2, ViewTypes DEF Journal, Kept, ViewsLoad, Views
      <3>2. Recoverable = Loaded(snapshot, ledger) /\ Recoverable' = Loaded(snapshot', ledger')
        BY <1>2, <2>2, <3>1 DEF Recovered
      <3>3. CASE UNCHANGED ledger
        <4>1. Loaded(snapshot', ledger) = Loaded(snapshot, ledger)
          BY <3>1 DEF Loaded, Merge
        <4> QED
          BY <3>2, <3>3, <4>1
      <3>4. CASE Cut
        <4>1. ledger \in Ledgers /\ Wellformed(ledger) /\ ledger # NoFile
          BY <3>4, NoFileIsNone DEF Cut, Journal, Kept, LedgerOK
        <4>2. PICK tail \in {<<>>, <<Torn>>} :
                 ledger'.body = SubSeq(ledger.body, 1, ledger.synced) \o tail
          BY <3>4 DEF Cut
        <4>3. /\ ledger.synced < Len(ledger.body) /\ ledger' \in Ledgers
              /\ ledger'.binding = ledger.binding /\ ledger'.synced = ledger.synced
          BY <3>4 DEF Cut
        <4>4. /\ Wellformed(ledger')
              /\ \A n \in 1 .. ledger.synced : /\ ledger'.body[n] = ledger.body[n]
                                               /\ n \in 1 .. Len(ledger.body)
              /\ \A n \in 1 .. Len(ledger'.body) :
                    Whole(ledger'.body, n) => n \in 1 .. ledger.synced
          BY <4>1, <4>2, <4>3, CutLedger
        <4>5. Fits(snapshot.base, ledger.body) /\ snapshot \in Views
          BY <3>1, <4>1, ViewTypes DEF Journal, Kept, ViewsLoad
        <4>6. /\ Within(ledger.body, Loaded(snapshot, ledger))
              /\ snapshot.base[i] \in {None, Loaded(snapshot, ledger)[i]}
          BY <3>1, <4>1, <4>5, LoadedFits
        <4>7. CASE \E n \in 1 .. Len(ledger'.body) :
                      Whole(ledger'.body, n) /\ ledger'.body[n].file = i
          <5>1. PICK n \in 1 .. Len(ledger'.body) :
                   Whole(ledger'.body, n) /\ ledger'.body[n].file = i
            BY <4>7
          <5>2. n \in 1 .. Len(ledger.body) /\ ledger.body[n] = ledger'.body[n]
            BY <4>4, <5>1
          <5>3. Loaded(snapshot', ledger')[i] = ledger'.body[n].digest
            BY <3>1, <4>3, <4>4, <5>1, MergeValue
          <5>4. Loaded(snapshot, ledger)[i] = ledger.body[n].digest
            BY <4>6, <5>1, <5>2 DEF Within, Whole
          <5> QED
            BY <3>2, <5>2, <5>3, <5>4
        <4>8. CASE \A n \in 1 .. Len(ledger'.body) :
                      Whole(ledger'.body, n) => ledger'.body[n].file # i
          <5>1. Loaded(snapshot', ledger')[i] = snapshot'.base[i]
            BY <3>1, <4>3, <4>4, <4>8, MergeValue
          <5> QED
            BY <3>1, <3>2, <4>6, <5>1
        <4> QED
          BY <4>7, <4>8
      <3> QED
        BY <1>1, <3>3, <3>4
    <2> QED
      BY <2>1, <2>2
  <1> DEFINE S == {i \in Files : Recoverable'[i] = None}
  <1>4. S \cap acked = {}
    BY <1>1, <1>2 DEF Recovered, Done
  <1>5. Recoverable' = [i \in Files |-> IF i \in S THEN None ELSE Recoverable[i]]
    <2>1. Recoverable' = [i \in Files |-> Recoverable'[i]]
      BY <1>2 DEF Recovered, Completions
    <2>2. \A i \in Files : Recoverable'[i] = IF i \in S THEN None ELSE Recoverable[i]
      BY <1>3
    <2> HIDE DEF S
    <2> QED
      BY <2>1, <2>2
  <1>6. Promise!Lose(S)
    BY <1>1, <1>4, <1>5 DEF Promise!Lose
  <1> QED
    BY <1>6 DEF Promise!Next

\* Whatever a step does to the files, a resume still recovers what was
\* acknowledged: every step credits a file, acknowledges, loses what nobody was
\* told of, or changes nothing of this (the journal implements
\* DurableCompletions).
THEOREM Implements == OrderedMetadata => (Spec => KeepsCompletions)
  <1> SUFFICES ASSUME OrderedMetadata PROVE Spec => KeepsCompletions
    OBVIOUS
  <1>1. Init => Promise!Init
    <2> SUFFICES ASSUME Init PROVE Promise!Init
      OBVIOUS
    <2>1. Recovered /\ acked = {}
      BY InitJournal, RecoveredNow DEF Init
    <2> QED
      BY <2>1 DEF Promise!Init, Recovered, Completions
  <1>2. Journal /\ Journal' /\ [Next]_vars => [Promise!Next]_<<Recoverable, acked>>
    <2> SUFFICES ASSUME Journal, Journal', [Next]_vars
                 PROVE  Promise!Next \/ UNCHANGED <<Recoverable, acked>>
      OBVIOUS
    <2>1. ASSUME UNCHANGED <<snapshot, ledger, acked>> PROVE UNCHANGED <<Recoverable, acked>>
      <3>1. Recovered /\ Recovered'
        BY RecoveredNow, RecoveredNext
      <3> QED
        BY <2>1, <3>1 DEF Recovered
    <2>2. ASSUME NEW p \in Procs, Step(p)
          PROVE  Promise!Next \/ UNCHANGED <<snapshot, ledger, acked>>
      <3>1. ASSUME NEW resume \in BOOLEAN, Open(p, resume)
            PROVE  UNCHANGED <<snapshot, ledger, acked>>
        BY <3>1 DEF Open, disk
      <3>2. ASSUME Load(p) \/ Verify(p) \/ Stop(p) PROVE UNCHANGED <<snapshot, ledger, acked>>
        BY <3>2 DEF Load, Verify, Stop, disk
      <3>3. ASSUME NEW i \in Files, NEW d \in Digests, PublishFile(p, i, d)
            PROVE  UNCHANGED <<snapshot, ledger, acked>>
        BY <3>3 DEF PublishFile
      <3> QED
        BY <2>2, <3>1, <3>2, <3>3, LedgerSame, SnapshotSame, AppendCredits, SyncAcknowledges
           DEF Step
    <2>3. CASE PowerLoss
      BY <2>3, PowerLoses
    <2>4. CASE Outside
      BY <2>1, <2>4, OutsideTypes DEF Journal
    <2> QED
      BY <2>1, <2>2, <2>3, <2>4 DEF Next, Outside
  <1>3. Spec => []Journal
    BY Invariant
  <1> QED
    BY <1>1, <1>2, <1>3, PTL DEF Spec, KeepsCompletions, Promise!Spec

=============================================================================
