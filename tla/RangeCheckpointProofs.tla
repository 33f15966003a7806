------------------------- MODULE RangeCheckpointProofs -------------------------
(* Proofs that RangeCheckpoint publishes the manifest's version only, keeps*)
(* what is stored, and announces what it leaves behind.                    *)
(*                                                                         *)
(* Where the manifest has a CRC64 the last check alone is enough.  Where   *)
(* it only pins an ETag nothing checks the file as a whole: then no        *)
(* foreign byte may get into it.  Whatever is received is the manifest's   *)
(* version, so every receipt that can be read names it, and a copied part  *)
(* agrees with its receipt.                                                *)
EXTENDS RangeCheckpoint, TLAPS

\* What the stored files can hold when only the ETag is pinned: parts may be
\* spoiled, receipts lost, but neither is of another version.
CleanDisk(parts, receipts) ==
    \A n \in Ranges :
        /\ parts[n] # "other"
        /\ receipts[n] \in {"absent", "garbled", "manifest"}

Assembling == pc = "assemble" => \A n \in 1..(cursor - 1) : n \in Ranges => output[n] = "manifest"

Whole == \A n \in Ranges : output[n] = "manifest"

EtagOnly ==
    /\ CleanDisk(part, receipt)
    /\ CleanDisk(flushed.part, flushed.receipt)
    /\ \A n \in Ranges :
          /\ task[n] \in {"publish", "receipt"} => received[n] = "manifest"
          /\ task[n] = "done" /\ ~checkpoint => output[n] = "manifest"
    /\ Assembling
    /\ pc = "verify" => Whole

Direct == ~checkpoint => \A n \in Ranges : task[n] \in {"todo", "transfer", "done"}

Sound ==
    /\ Direct
    /\ ~identity.crc => EtagOnly
    /\ pc \in {"staged", "save"} => Whole
    /\ PublishedIsManifest

IInv == TypeOK /\ Sound

-----------------------------------------------------------------------------
(* Types. *)

\* A staged part whose transfer has ended holds received bytes.
Staged == \A n \in Ranges : task[n] \in {"publish", "receipt"} => received[n] \in Bytes

Typed == TypeOK /\ Staged

LEMMA Cursors ==
    /\ 1 \in 1..(2 * N + 1)
    /\ \A c \in Ranges : c + 1 \in 1..(2 * N + 1)
    /\ \A c \in 1..(2 * N) : c + 1 \in 1..(2 * N + 1)
  BY SizesAssumption DEF Ranges

LEMMA Values ==
    /\ Versions \subseteq Bytes
    /\ Bytes \subseteq Stored /\ Bytes \subseteq Written /\ Bytes \subseteq Receipts
    /\ {"absent", "spoiled"} \subseteq Stored /\ {"absent", "garbled"} \subseteq Receipts
    /\ \A b \in Receipts : b \notin {"absent", "garbled"} => b \in Bytes
    /\ "damaged" \in Bytes /\ "manifest" \in Versions /\ "zeros" \in Written
    /\ "zeros" \notin Bytes
  BY DEF Versions, Bytes, Stored, Receipts, Written

LEMMA EmptyType == Empty \in [Ranges -> Written] /\ [n \in Ranges |-> "zeros"] = Empty
  BY Values DEF Empty

LEMMA InitTypes == Init => Typed
  <1> SUFFICES ASSUME Init PROVE Typed
    OBVIOUS
  <1>1. part \in [Ranges -> Stored] /\ receipt \in [Ranges -> Receipts]
    BY Values DEF Init
  <1>2. faults \in 0..MaxFaults
    BY SizesAssumption DEF Init
  <1> QED
    BY <1>1, <1>2, Values, EmptyType, Cursors DEF Init, Typed, TypeOK, Staged, Active

LEMMA ReturnTypes ==
  ASSUME NEW to, Return(to)
  PROVE  /\ pc' = to
         /\ task' \in [Ranges -> Active \cup {"todo", "done"}]
         /\ received' \in [Ranges -> Written]
         /\ output' \in [Ranges -> Written]
         /\ cursor' \in 1..(2 * N + 1)
         /\ Staged'
  BY EmptyType, Cursors DEF Return, Staged

LEMMA FaultTypes ==
  ASSUME TypeOK, Fault
  PROVE  faults' \in 0..MaxFaults
  BY SizesAssumption DEF TypeOK, Fault

LEMMA MoveTypes ==
  ASSUME TypeOK, NEW n \in Ranges, NEW from, NEW to \in Active \cup {"done"},
         Move(n, from, to)
  PROVE  /\ pc = "ranges"
         /\ task' \in [Ranges -> Active \cup {"todo", "done"}]
         /\ task[n] = from /\ task'[n] = to
         /\ \A m \in Ranges : m # n => task'[m] = task[m]
  BY DEF TypeOK, Move, Active

LEMMA ReceiveTypes ==
  ASSUME Typed, NEW n \in Ranges, NEW bytes \in Bytes, Receive(n, bytes)
  PROVE  /\ pc = "ranges"
         /\ task' \in [Ranges -> Active \cup {"todo", "done"}]
         /\ received' \in [Ranges -> Written]
         /\ output' \in [Ranges -> Written]
         /\ Staged'
  <1> USE Values DEF Typed, Staged, Receive
  <1>1. CASE checkpoint
    <2>1. /\ pc = "ranges"
          /\ task' \in [Ranges -> Active \cup {"todo", "done"}]
          /\ \A m \in Ranges : m # n => task'[m] = task[m]
      BY <1>1, MoveTypes DEF Active
    <2>2. received' = [received EXCEPT ![n] = bytes] /\ output' = output
      BY <1>1
    <2>3. Staged'
      <3> SUFFICES ASSUME NEW m \in Ranges, task'[m] \in {"publish", "receipt"}
                   PROVE  received'[m] \in Bytes
        OBVIOUS
      <3> QED
        BY <2>1, <2>2 DEF TypeOK
    <2> QED
      BY <2>1, <2>2, <2>3 DEF TypeOK
  <1>2. CASE ~checkpoint
    <2>1. Move(n, "transfer", "done")
      BY <1>2
    <2> QED
      BY <1>2, <2>1, MoveTypes DEF TypeOK, Active
  <1> QED
    BY <1>1, <1>2

LEMMA StepTypes == Typed /\ [Next]_vars => Typed'
  <1> SUFFICES ASSUME Typed, [Next]_vars PROVE Typed'
    OBVIOUS
  <1> USE DEF Typed, TypeOK, Staged, disk, file
  <1>1. ASSUME NEW n \in Ranges, Start(n) PROVE Typed'
    BY <1>1 DEF Start, Active
  <1>2. ASSUME NEW n \in Ranges, Restore(n) PROVE Typed'
    BY <1>2, MoveTypes DEF Restore, Active
  <1>3. ASSUME NEW n \in Ranges, DiscardPart(n) PROVE Typed'
    BY <1>3, MoveTypes, Values DEF DiscardPart, Active
  <1>4. ASSUME NEW n \in Ranges, DiscardReceipt(n) PROVE Typed'
    BY <1>4, MoveTypes, Values DEF DiscardReceipt, Active
  <1>5. ASSUME NEW n \in Ranges, Transfer(n) PROVE Typed'
    BY <1>5, ReceiveTypes, Values DEF Transfer
  <1>6. ASSUME NEW n \in Ranges, Refuse(n) PROVE Typed'
    BY <1>6, ReturnTypes DEF Refuse
  <1>7. ASSUME NEW n \in Ranges, PublishPart(n) PROVE Typed'
    BY <1>7, MoveTypes, Values DEF PublishPart, Active
  <1>8. ASSUME NEW n \in Ranges, PublishReceipt(n) PROVE Typed'
    BY <1>8, MoveTypes, Values DEF PublishReceipt, Active
  <1>9. ASSUME Gathered PROVE Typed'
    BY <1>9, Cursors DEF Gathered
  <1>10. ASSUME Assemble PROVE Typed'
    BY <1>10, Values, Cursors DEF Assemble, Paired, Intact
  <1>11. ASSUME Changed PROVE Typed'
    BY <1>11, ReturnTypes DEF Changed
  <1>12. ASSUME Missing PROVE Typed'
    BY <1>12, ReturnTypes, Values DEF Missing
  <1>13. ASSUME Assembled PROVE Typed'
    BY <1>13 DEF Assembled
  <1>14. ASSUME Verified PROVE Typed'
    BY <1>14 DEF Verified
  <1>15. ASSUME Invalid PROVE Typed'
    BY <1>15, ReturnTypes, Cursors DEF Invalid
  <1>16. ASSUME Clear PROVE Typed'
    BY <1>16, Values, Cursors DEF Clear, Clearing
  <1>17. ASSUME Cleared PROVE Typed'
    BY <1>17, ReturnTypes DEF Cleared, Clearing
  <1>18. ASSUME Publish PROVE Typed'
    BY <1>18 DEF Publish
  <1>19. ASSUME Save PROVE Typed'
    BY <1>19, ReturnTypes, Cursors DEF Save
  <1>20. ASSUME ClearFails PROVE Typed'
    BY <1>20, ReturnTypes, FaultTypes DEF ClearFails, Clearing
  <1>21. ASSUME DriverFails PROVE Typed'
    BY <1>21, ReturnTypes, FaultTypes DEF DriverFails
  <1>22. ASSUME Kill PROVE Typed'
    BY <1>22, ReturnTypes, FaultTypes DEF Kill
  <1>23. ASSUME PowerLoss PROVE Typed'
    BY <1>23, ReturnTypes, FaultTypes DEF PowerLoss
  <1>24. ASSUME ChangeSource PROVE Typed'
    BY <1>24 DEF ChangeSource
  <1>25. ASSUME NEW n \in Ranges, Garble(n) PROVE Typed'
    BY <1>25, ReceiveTypes, FaultTypes, Values DEF Garble
  <1>26. ASSUME NEW n \in Ranges, RangeFails(n) PROVE Typed'
    BY <1>26, ReturnTypes, FaultTypes DEF RangeFails
  <1>27. ASSUME NEW n \in Ranges, Tamper(n) PROVE Typed'
    <2>1. part' \in [Ranges -> Stored] /\ receipt' \in [Ranges -> Receipts]
      <3>1. CASE UNCHANGED receipt /\ \E p \in {"spoiled", "absent"} :
                                        part' = [part EXCEPT ![n] = p]
        BY <3>1, Values
      <3>2. CASE UNCHANGED part /\ \E r \in {"garbled", "absent"} :
                                     receipt' = [receipt EXCEPT ![n] = r]
        BY <3>2, Values
      <3> QED
        BY <1>27, <3>1, <3>2 DEF Tamper
    <2> QED
      BY <1>27, <2>1, FaultTypes DEF Tamper
  <1>28. ASSUME Open PROVE Typed'
    BY <1>28, EmptyType DEF Open
  <1>29. CASE UNCHANGED vars
    BY <1>29 DEF vars
  <1> QED
    BY <1>1, <1>2, <1>3, <1>4, <1>5, <1>6, <1>7, <1>8, <1>9, <1>10, <1>11, <1>12, <1>13, <1>14,
       <1>15, <1>16, <1>17, <1>18, <1>19, <1>20, <1>21, <1>22, <1>23, <1>24, <1>25, <1>26, <1>27, <1>28, <1>29
    DEF Next, Advance, Finish, Outside, Range

-----------------------------------------------------------------------------
(* Contents. *)

LEMMA InitSound == Init => Sound
  BY SizesAssumption
  DEF Init, Sound, Direct, EtagOnly, CleanDisk, Assembling, PublishedIsManifest

LEMMA ReturnSound ==
  ASSUME Sound, NEW to \in {"down", "ended"}, Return(to),
         ~identity.crc => CleanDisk(part', receipt') /\ CleanDisk(flushed.part', flushed.receipt'),
         UNCHANGED <<identity, checkpoint, published>>
  PROVE  Sound'
  BY DEF Return, Sound, Direct, EtagOnly, Assembling, PublishedIsManifest, CleanDisk

\* A range received with only the ETag pinned is the manifest's; it lands in
\* the received bytes of its task, or in the staged file.
LEMMA TransferSound ==
  ASSUME IInv, NEW n \in Ranges, Transfer(n)
  PROVE  Sound'
  <1>1. /\ pc = "ranges" /\ task[n] = "transfer" /\ pc' = "ranges"
        /\ UNCHANGED <<identity, checkpoint, source, part, receipt, flushed, published>>
        /\ ~identity.crc => source = "manifest"
        /\ n \in DOMAIN task /\ n \in DOMAIN received /\ n \in DOMAIN output
    BY HasIdentity DEF Transfer, Receive, Move, Accepted, IInv, TypeOK, disk, file
  <1>2. \A m \in Ranges : m # n => task'[m] = task[m] /\ received'[m] = received[m] /\ output'[m] = output[m]
    BY DEF Transfer, Receive, Move, IInv, TypeOK
  <1>3. /\ checkpoint => task'[n] = "publish" /\ received'[n] = source
        /\ ~checkpoint => task'[n] = "done" /\ output'[n] = source
    BY <1>1 DEF Transfer, Receive, Move
  <1>4. Direct'
    BY <1>1, <1>2, <1>3 DEF IInv, Sound, Direct
  <1>5. ASSUME ~identity.crc PROVE EtagOnly'
    <2>1. CleanDisk(part, receipt)' /\ CleanDisk(flushed.part, flushed.receipt)'
      BY <1>1, <1>5 DEF IInv, Sound, EtagOnly, CleanDisk
    <2>2. ASSUME NEW m \in Ranges
          PROVE  /\ task'[m] \in {"publish", "receipt"} => received'[m] = "manifest"
                 /\ task'[m] = "done" /\ ~checkpoint' => output'[m] = "manifest"
      <3>1. CASE m = n
        BY <1>1, <1>3, <1>5, <3>1
      <3>2. CASE m # n
        BY <1>1, <1>2, <1>5, <3>2 DEF IInv, Sound, EtagOnly
      <3> QED
        BY <3>1, <3>2
    <2>3. Assembling' /\ (pc' = "verify" => Whole')
      BY <1>1 DEF Assembling
    <2> QED
      BY <2>1, <2>2, <2>3 DEF EtagOnly
  <1>6. PublishedIsManifest' /\ (pc' \in {"staged", "save"} => Whole')
    BY <1>1 DEF IInv, Sound, PublishedIsManifest, Empty
  <1> QED
    BY <1>1, <1>4, <1>5, <1>6 DEF Sound

\* Either the CRC64 of the file was compared, or the ETag kept every other
\* version out of it.
LEMMA VerifiedSound ==
  ASSUME IInv, Verified
  PROVE  Sound'
  <1>1. /\ pc = "verify" /\ pc' = "staged"
        /\ UNCHANGED <<identity, checkpoint, part, receipt, flushed, task, received, output, published>>
    BY DEF Verified, disk, file
  <1>2. Whole
    BY <1>1 DEF Verified, VerifyFile, IInv, Sound, EtagOnly, Whole
  <1>3. Direct' /\ PublishedIsManifest' /\ Whole'
    BY <1>1, <1>2 DEF IInv, Sound, Direct, PublishedIsManifest, Empty, Whole
  <1>4. ~identity.crc => EtagOnly'
    BY <1>1 DEF IInv, Sound, EtagOnly, CleanDisk, Assembling
  <1> QED
    BY <1>1, <1>3, <1>4 DEF Sound

\* Most runs end with the stored files as they are.
LEMMA ReturnKeeps ==
  ASSUME IInv, NEW to \in {"down", "ended"}, Return(to),
         UNCHANGED <<identity, checkpoint, part, receipt, flushed, published>>
  PROVE  Sound'
  <1>1. ~identity.crc => CleanDisk(part', receipt') /\ CleanDisk(flushed.part', flushed.receipt')
    BY DEF IInv, Sound, EtagOnly, CleanDisk
  <1> QED
    BY <1>1, ReturnSound DEF IInv

\* An unpaired range only loses what is left of it.
LEMMA MissingSound ==
  ASSUME IInv, Missing
  PROVE  Sound'
  <1>1. ASSUME ~identity.crc
        PROVE  CleanDisk(part', receipt') /\ CleanDisk(flushed.part', flushed.receipt')
    BY <1>1 DEF Missing, IInv, TypeOK, Sound, EtagOnly, CleanDisk
  <1> QED
    BY <1>1, ReturnSound DEF IInv, Missing, file

\* A name is what it was at one of two moments, both of them clean.
LEMMA PowerLossSound ==
  ASSUME IInv, PowerLoss
  PROVE  Sound'
  <1>1. PICK lost \in SUBSET (Ranges \X {"part", "receipt"}) :
            /\ part' = [n \in Ranges |->
                   IF <<n, "part">> \in lost THEN flushed.part[n] ELSE part[n]]
            /\ receipt' = [n \in Ranges |->
                   IF <<n, "receipt">> \in lost THEN flushed.receipt[n] ELSE receipt[n]]
    BY DEF PowerLoss
  <1>2. ASSUME ~identity.crc PROVE CleanDisk(part', receipt')
    BY <1>1, <1>2 DEF IInv, Sound, EtagOnly, CleanDisk
  <1>3. flushed.part' = part' /\ flushed.receipt' = receipt'
    BY DEF PowerLoss
  <1>4. /\ Return("down")
        /\ UNCHANGED <<identity, checkpoint, published>>
    BY DEF PowerLoss, file
  <1>5. ~identity.crc => CleanDisk(part', receipt') /\ CleanDisk(flushed.part', flushed.receipt')
    BY <1>2, <1>3
  <1> QED
    BY <1>4, <1>5, ReturnSound DEF IInv

\* Tampering spoils or removes, it never makes a part of another version.
LEMMA TamperSound ==
  ASSUME IInv, NEW n \in Ranges, Tamper(n)
  PROVE  Sound'
  <1>1. /\ \A m \in Ranges : part'[m] \in {part[m], "spoiled", "absent"}
        /\ \A m \in Ranges : receipt'[m] \in {receipt[m], "garbled", "absent"}
    <2>1. CASE /\ part' \in {[part EXCEPT ![n] = p] : p \in {"spoiled", "absent"}}
               /\ receipt' = receipt
      BY <2>1 DEF IInv, TypeOK
    <2>2. CASE /\ receipt' \in {[receipt EXCEPT ![n] = r] : r \in {"garbled", "absent"}}
               /\ part' = part
      BY <2>2 DEF IInv, TypeOK
    <2> QED
      BY <2>1, <2>2 DEF Tamper
  <1>2. /\ flushed' = flushed /\ identity' = identity /\ checkpoint' = checkpoint
        /\ pc' = pc /\ task' = task /\ received' = received /\ output' = output
        /\ cursor' = cursor /\ published' = published
    BY DEF Tamper, file
  <1>3. CleanDisk(part, receipt) => CleanDisk(part', receipt')
    BY <1>1 DEF CleanDisk
  <1> QED
    BY <1>2, <1>3 DEF IInv, Sound, Direct, EtagOnly, CleanDisk, Assembling, Whole, PublishedIsManifest

LEMMA StepSound == IInv /\ [Next]_vars => Sound'
  <1> SUFFICES ASSUME IInv, [Next]_vars PROVE Sound'
    OBVIOUS
  <1> USE DEF IInv, TypeOK, Sound, Direct, EtagOnly, CleanDisk, Assembling,
          Whole, PublishedIsManifest, Ranges, disk, file
  <1>1. ASSUME NEW n \in Ranges, Start(n) PROVE Sound'
    BY <1>1 DEF Start
  <1>2. ASSUME NEW n \in Ranges, Restore(n) PROVE Sound'
    BY <1>2 DEF Restore, Move
  <1>3. ASSUME NEW n \in Ranges, DiscardPart(n) PROVE Sound'
    BY <1>3 DEF DiscardPart, Move
  <1>4. ASSUME NEW n \in Ranges, DiscardReceipt(n) PROVE Sound'
    BY <1>4 DEF DiscardReceipt, Move
  <1>5. ASSUME NEW n \in Ranges, Transfer(n) PROVE Sound'
    BY <1>5, TransferSound
  <1>6. ASSUME NEW n \in Ranges, Refuse(n) PROVE Sound'
    BY <1>6, ReturnKeeps DEF Refuse
  <1>7. ASSUME NEW n \in Ranges, PublishPart(n) PROVE Sound'
    BY <1>7 DEF PublishPart, Move
  <1>8. ASSUME NEW n \in Ranges, PublishReceipt(n) PROVE Sound'
    BY <1>8 DEF PublishReceipt, Move
  <1>9. ASSUME Gathered PROVE Sound'
    BY <1>9, SizesAssumption DEF Gathered, AllDone
  <1>10. ASSUME Assemble PROVE Sound'
    BY <1>10, SizesAssumption DEF Assemble, Paired, Intact
  <1>11. ASSUME Changed PROVE Sound'
    BY <1>11, ReturnKeeps DEF Changed
  <1>12. ASSUME Missing PROVE Sound'
    BY <1>12, MissingSound
  <1>13. ASSUME Assembled PROVE Sound'
    BY <1>13, SizesAssumption DEF Assembled
  <1>14. ASSUME Verified PROVE Sound'
    BY <1>14, VerifiedSound
  <1>15. ASSUME Invalid PROVE Sound'
    BY <1>15, ReturnSound DEF Invalid
  <1>16. ASSUME Clear PROVE Sound'
    BY <1>16 DEF Clear, Clearing
  <1>17. ASSUME Cleared PROVE Sound'
    BY <1>17, ReturnKeeps DEF Cleared
  <1>18. ASSUME Publish PROVE Sound'
    BY <1>18 DEF Publish
  <1>19. ASSUME Save PROVE Sound'
    BY <1>19, ReturnSound DEF Save
  <1>20. ASSUME ClearFails PROVE Sound'
    BY <1>20, ReturnKeeps DEF ClearFails
  <1>21. ASSUME DriverFails PROVE Sound'
    BY <1>21, ReturnKeeps DEF DriverFails
  <1>22. ASSUME Kill PROVE Sound'
    BY <1>22, ReturnKeeps DEF Kill
  <1>23. ASSUME PowerLoss PROVE Sound'
    BY <1>23, PowerLossSound
  <1>24. ASSUME ChangeSource PROVE Sound'
    BY <1>24 DEF ChangeSource
  <1>25. ASSUME NEW n \in Ranges, Garble(n) PROVE Sound'
    BY <1>25 DEF Garble, Receive, Move
  <1>26. ASSUME NEW n \in Ranges, RangeFails(n) PROVE Sound'
    BY <1>26, ReturnKeeps DEF RangeFails
  <1>27. ASSUME NEW n \in Ranges, Tamper(n) PROVE Sound'
    BY <1>27, TamperSound
  <1>28. ASSUME Open PROVE Sound'
    BY <1>28 DEF Open, Empty
  <1>29. CASE UNCHANGED vars
    BY <1>29 DEF vars
  <1> QED
    BY <1>1, <1>2, <1>3, <1>4, <1>5, <1>6, <1>7, <1>8, <1>9, <1>10, <1>11, <1>12, <1>13, <1>14,
       <1>15, <1>16, <1>17, <1>18, <1>19, <1>20, <1>21, <1>22, <1>23, <1>24, <1>25, <1>26, <1>27, <1>28, <1>29
    DEF Next, Advance, Finish, Outside, Range

-----------------------------------------------------------------------------
(* Stored work. *)

\* What a future may rely on: a range is discarded only when it cannot be
\* restored, and its names are free when it publishes.  Nothing but the
\* future itself adds to them.
Fresh ==
    \A n \in Ranges :
        /\ task[n] = "unpart" => ~Restorable(n)
        /\ task[n] = "unreceipt" => part[n] = "absent"
        /\ task[n] \in {"transfer", "publish"} /\ checkpoint =>
              part[n] = "absent" /\ receipt[n] = "absent"
        /\ task[n] = "receipt" => receipt[n] = "absent"

LEMMA StepDirect == TypeOK /\ Direct /\ [Next]_vars => Direct'
  <1> SUFFICES ASSUME TypeOK, Direct, [Next]_vars PROVE Direct'
    OBVIOUS
  <1> USE DEF TypeOK, Direct, disk, file
  <1>1. ASSUME NEW n \in Ranges, Start(n) PROVE Direct'
    BY <1>1 DEF Start
  <1>2. ASSUME NEW n \in Ranges, Restore(n) PROVE Direct'
    BY <1>2 DEF Restore, Move
  <1>3. ASSUME NEW n \in Ranges, DiscardPart(n) PROVE Direct'
    BY <1>3 DEF DiscardPart, Move
  <1>4. ASSUME NEW n \in Ranges, DiscardReceipt(n) PROVE Direct'
    BY <1>4 DEF DiscardReceipt, Move
  <1>5. ASSUME NEW n \in Ranges, Transfer(n) PROVE Direct'
    BY <1>5 DEF Transfer, Receive, Move
  <1>6. ASSUME NEW n \in Ranges, Refuse(n) PROVE Direct'
    BY <1>6 DEF Refuse, Return
  <1>7. ASSUME NEW n \in Ranges, PublishPart(n) PROVE Direct'
    BY <1>7 DEF PublishPart, Move
  <1>8. ASSUME NEW n \in Ranges, PublishReceipt(n) PROVE Direct'
    BY <1>8 DEF PublishReceipt, Move
  <1>9. ASSUME Gathered PROVE Direct'
    BY <1>9 DEF Gathered
  <1>10. ASSUME Assemble PROVE Direct'
    BY <1>10 DEF Assemble
  <1>11. ASSUME Changed PROVE Direct'
    BY <1>11 DEF Changed, Return
  <1>12. ASSUME Missing PROVE Direct'
    BY <1>12 DEF Missing, Return
  <1>13. ASSUME Assembled PROVE Direct'
    BY <1>13 DEF Assembled
  <1>14. ASSUME Verified PROVE Direct'
    BY <1>14 DEF Verified
  <1>15. ASSUME Invalid PROVE Direct'
    BY <1>15 DEF Invalid, Return
  <1>16. ASSUME Clear PROVE Direct'
    BY <1>16 DEF Clear
  <1>17. ASSUME Cleared PROVE Direct'
    BY <1>17 DEF Cleared, Return
  <1>18. ASSUME Publish PROVE Direct'
    BY <1>18 DEF Publish
  <1>19. ASSUME Save PROVE Direct'
    BY <1>19 DEF Save, Return
  <1>20. ASSUME ClearFails PROVE Direct'
    BY <1>20 DEF ClearFails, Return
  <1>21. ASSUME DriverFails PROVE Direct'
    BY <1>21 DEF DriverFails, Return
  <1>22. ASSUME Kill PROVE Direct'
    BY <1>22 DEF Kill, Return
  <1>23. ASSUME PowerLoss PROVE Direct'
    BY <1>23 DEF PowerLoss, Return
  <1>24. ASSUME ChangeSource PROVE Direct'
    BY <1>24 DEF ChangeSource
  <1>25. ASSUME NEW n \in Ranges, Garble(n) PROVE Direct'
    BY <1>25 DEF Garble, Receive, Move
  <1>26. ASSUME NEW n \in Ranges, RangeFails(n) PROVE Direct'
    BY <1>26 DEF RangeFails, Return
  <1>27. ASSUME NEW n \in Ranges, Tamper(n) PROVE Direct'
    BY <1>27 DEF Tamper
  <1>28. ASSUME Open PROVE Direct'
    BY <1>28 DEF Open
  <1>29. CASE UNCHANGED vars
    BY <1>29 DEF vars
  <1> QED
    BY <1>1, <1>2, <1>3, <1>4, <1>5, <1>6, <1>7, <1>8, <1>9, <1>10, <1>11, <1>12, <1>13, <1>14,
       <1>15, <1>16, <1>17, <1>18, <1>19, <1>20, <1>21, <1>22, <1>23, <1>24, <1>25, <1>26, <1>27, <1>28, <1>29
    DEF Next, Advance, Finish, Outside, Range

LEMMA ReturnFresh ==
  ASSUME NEW to, Return(to)
  PROVE  Fresh'
  BY DEF Return, Fresh

LEMMA StepFresh == TypeOK /\ Direct /\ Fresh /\ [Next]_vars => Fresh'
  <1> SUFFICES ASSUME TypeOK, Direct, Fresh, [Next]_vars PROVE Fresh'
    OBVIOUS
  <1> USE DEF TypeOK, Direct, Fresh, Restorable, Paired, disk, file
  <1>1. ASSUME NEW n \in Ranges, Start(n) PROVE Fresh'
    BY <1>1 DEF Start
  <1>2. ASSUME NEW n \in Ranges, Restore(n) PROVE Fresh'
    BY <1>2 DEF Restore, Move
  <1>3. ASSUME NEW n \in Ranges, DiscardPart(n) PROVE Fresh'
    BY <1>3 DEF DiscardPart, Move
  <1>4. ASSUME NEW n \in Ranges, DiscardReceipt(n) PROVE Fresh'
    BY <1>4 DEF DiscardReceipt, Move
  <1>5. ASSUME NEW n \in Ranges, Transfer(n) PROVE Fresh'
    BY <1>5 DEF Transfer, Receive, Move
  <1>6. ASSUME NEW n \in Ranges, Refuse(n) PROVE Fresh'
    BY <1>6, ReturnFresh DEF Refuse
  <1>7. ASSUME NEW n \in Ranges, PublishPart(n) PROVE Fresh'
    BY <1>7 DEF PublishPart, Move
  <1>8. ASSUME NEW n \in Ranges, PublishReceipt(n) PROVE Fresh'
    BY <1>8 DEF PublishReceipt, Move
  <1>9. ASSUME Gathered PROVE Fresh'
    BY <1>9 DEF Gathered
  <1>10. ASSUME Assemble PROVE Fresh'
    BY <1>10 DEF Assemble
  <1>11. ASSUME Changed PROVE Fresh'
    BY <1>11, ReturnFresh DEF Changed
  <1>12. ASSUME Missing PROVE Fresh'
    BY <1>12, ReturnFresh DEF Missing
  <1>13. ASSUME Assembled PROVE Fresh'
    BY <1>13 DEF Assembled
  <1>14. ASSUME Verified PROVE Fresh'
    BY <1>14 DEF Verified
  <1>15. ASSUME Invalid PROVE Fresh'
    BY <1>15, ReturnFresh DEF Invalid
  <1>16. ASSUME Clear PROVE Fresh'
    BY <1>16 DEF Clear
  <1>17. ASSUME Cleared PROVE Fresh'
    BY <1>17, ReturnFresh DEF Cleared
  <1>18. ASSUME Publish PROVE Fresh'
    BY <1>18 DEF Publish
  <1>19. ASSUME Save PROVE Fresh'
    BY <1>19, ReturnFresh DEF Save
  <1>20. ASSUME ClearFails PROVE Fresh'
    BY <1>20, ReturnFresh DEF ClearFails
  <1>21. ASSUME DriverFails PROVE Fresh'
    BY <1>21, ReturnFresh DEF DriverFails
  <1>22. ASSUME Kill PROVE Fresh'
    BY <1>22, ReturnFresh DEF Kill
  <1>23. ASSUME PowerLoss PROVE Fresh'
    BY <1>23, ReturnFresh DEF PowerLoss
  <1>24. ASSUME ChangeSource PROVE Fresh'
    BY <1>24 DEF ChangeSource
  <1>25. ASSUME NEW n \in Ranges, Garble(n) PROVE Fresh'
    BY <1>25 DEF Garble, Receive, Move
  <1>26. ASSUME NEW n \in Ranges, RangeFails(n) PROVE Fresh'
    BY <1>26, ReturnFresh DEF RangeFails
  <1>27. ASSUME NEW n \in Ranges, Tamper(n) PROVE Fresh'
    <2>1. \A m \in Ranges :
             \/ part'[m] = part[m] /\ receipt'[m] = receipt[m]
             \/ part[m] # "absent" /\ part'[m] \in {"spoiled", "absent"}
                   /\ receipt'[m] = receipt[m]
             \/ receipt[m] # "absent" /\ receipt'[m] \in {"garbled", "absent"}
                   /\ part'[m] = part[m]
      BY <1>27 DEF Tamper
    <2>2. task' = task /\ checkpoint' = checkpoint
      BY <1>27 DEF Tamper
    <2>3. \A m \in Ranges : receipt[m] # "spoiled"
      BY DEF Receipts, Bytes, Versions
    <2> QED
      BY <2>1, <2>2, <2>3
  <1>28. ASSUME Open PROVE Fresh'
    BY <1>28 DEF Open
  <1>29. CASE UNCHANGED vars
    BY <1>29 DEF vars
  <1> QED
    BY <1>1, <1>2, <1>3, <1>4, <1>5, <1>6, <1>7, <1>8, <1>9, <1>10, <1>11, <1>12, <1>13, <1>14,
       <1>15, <1>16, <1>17, <1>18, <1>19, <1>20, <1>21, <1>22, <1>23, <1>24, <1>25, <1>26, <1>27, <1>28, <1>29
    DEF Next, Advance, Finish, Outside, Range

Kept(n) ==
    Restorable(n) =>
        \/ part'[n] = part[n] /\ receipt'[n] = receipt[n]
        \/ pc \in {"invalidate", "cleanup"}
        \/ PowerLoss
        \/ Tamper(n)

LEMMA StepKeeps ==
  ASSUME TypeOK, Fresh, [Next]_vars, NEW m \in Ranges
  PROVE  Kept(m)
  <1> USE DEF TypeOK, Fresh, Kept, Restorable, Paired, disk, file
  <1>1. ASSUME NEW n \in Ranges, Start(n) PROVE Kept(m)
    BY <1>1 DEF Start
  <1>2. ASSUME NEW n \in Ranges, Restore(n) PROVE Kept(m)
    BY <1>2 DEF Restore
  <1>3. ASSUME NEW n \in Ranges, DiscardPart(n) PROVE Kept(m)
    BY <1>3 DEF DiscardPart, Move
  <1>4. ASSUME NEW n \in Ranges, DiscardReceipt(n) PROVE Kept(m)
    BY <1>4 DEF DiscardReceipt, Move
  <1>5. ASSUME NEW n \in Ranges, Transfer(n) PROVE Kept(m)
    BY <1>5 DEF Transfer
  <1>6. ASSUME NEW n \in Ranges, Refuse(n) PROVE Kept(m)
    BY <1>6 DEF Refuse
  <1>7. ASSUME NEW n \in Ranges, PublishPart(n) PROVE Kept(m)
    BY <1>7 DEF PublishPart, Move
  <1>8. ASSUME NEW n \in Ranges, PublishReceipt(n) PROVE Kept(m)
    BY <1>8 DEF PublishReceipt, Move
  <1>9. ASSUME Gathered PROVE Kept(m)
    BY <1>9 DEF Gathered
  <1>10. ASSUME Assemble PROVE Kept(m)
    BY <1>10 DEF Assemble
  <1>11. ASSUME Changed PROVE Kept(m)
    BY <1>11 DEF Changed
  <1>12. ASSUME Missing PROVE Kept(m)
    BY <1>12 DEF Missing
  <1>13. ASSUME Assembled PROVE Kept(m)
    BY <1>13 DEF Assembled
  <1>14. ASSUME Verified PROVE Kept(m)
    BY <1>14 DEF Verified
  <1>15. ASSUME Invalid PROVE Kept(m)
    BY <1>15 DEF Invalid
  <1>16. ASSUME Clear PROVE Kept(m)
    BY <1>16 DEF Clear, Clearing
  <1>17. ASSUME Cleared PROVE Kept(m)
    BY <1>17 DEF Cleared
  <1>18. ASSUME Publish PROVE Kept(m)
    BY <1>18 DEF Publish
  <1>19. ASSUME Save PROVE Kept(m)
    BY <1>19 DEF Save
  <1>20. ASSUME ClearFails PROVE Kept(m)
    BY <1>20 DEF ClearFails
  <1>21. ASSUME DriverFails PROVE Kept(m)
    BY <1>21 DEF DriverFails
  <1>22. ASSUME Kill PROVE Kept(m)
    BY <1>22 DEF Kill
  <1>23. ASSUME PowerLoss PROVE Kept(m)
    BY <1>23 DEF PowerLoss
  <1>24. ASSUME ChangeSource PROVE Kept(m)
    BY <1>24 DEF ChangeSource
  <1>25. ASSUME NEW n \in Ranges, Garble(n) PROVE Kept(m)
    BY <1>25 DEF Garble
  <1>26. ASSUME NEW n \in Ranges, RangeFails(n) PROVE Kept(m)
    BY <1>26 DEF RangeFails
  <1>27. ASSUME NEW n \in Ranges, Tamper(n) PROVE Kept(m)
    BY <1>27 DEF Tamper
  <1>28. ASSUME Open PROVE Kept(m)
    BY <1>28 DEF Open
  <1>29. CASE UNCHANGED vars
    BY <1>29 DEF vars
  <1> QED
    BY <1>1, <1>2, <1>3, <1>4, <1>5, <1>6, <1>7, <1>8, <1>9, <1>10, <1>11, <1>12, <1>13, <1>14,
       <1>15, <1>16, <1>17, <1>18, <1>19, <1>20, <1>21, <1>22, <1>23, <1>24, <1>25, <1>26, <1>27, <1>28, <1>29
    DEF Next, Advance, Finish, Outside, Range

-----------------------------------------------------------------------------
(* What a completed download leaves behind. *)

\* The names before the cursor are gone, and without a checkpoint directory
\* there never were any.
Swept ==
    /\ ~checkpoint => \A n \in Ranges : part[n] = "absent" /\ receipt[n] = "absent"
    /\ Clearing => \A n \in Ranges :
          /\ 2 * n - 1 < cursor => part[n] = "absent"
          /\ 2 * n < cursor => receipt[n] = "absent"
    /\ LeftoversWarned

LEMMA ClearSwept ==
  ASSUME TypeOK, Swept, Clear
  PROVE  Swept'
  <1> DEFINE r == (cursor + 1) \div 2
  <1>1. cursor \in 1..(2 * N) /\ cursor' = cursor + 1 /\ N \in Nat
    BY SizesAssumption DEF Clear
  <1>2. pc' = pc /\ checkpoint' = checkpoint /\ warned' = warned /\ Clearing /\ pc # "ended"
    BY DEF Clear, Clearing
  <1>3. CASE cursor % 2 = 1
    <2>1. part' = [part EXCEPT ![r] = "absent"] /\ receipt' = receipt
      BY <1>3 DEF Clear
    <2>2. cursor = 2 * r - 1
      BY <1>1, <1>3
    <2>3. \A n \in Ranges : part'[n] = IF n = r THEN "absent" ELSE part[n]
      BY <2>1 DEF TypeOK
    <2>4. \A n \in Ranges : /\ 2 * n - 1 < cursor' => n = r \/ 2 * n - 1 < cursor
                            /\ 2 * n < cursor' => 2 * n < cursor
      <3>1. r \in Nat
        BY <1>1
      <3> QED
        BY <1>1, <2>2, <3>1 DEF Ranges
    <2> QED
      BY <1>2, <2>1, <2>3, <2>4 DEF Swept, LeftoversWarned, Clearing
  <1>4. CASE cursor % 2 # 1
    <2>1. receipt' = [receipt EXCEPT ![r] = "absent"] /\ part' = part
      BY <1>4 DEF Clear
    <2>2. cursor = 2 * r
      BY <1>1, <1>4
    <2>3. \A n \in Ranges : receipt'[n] = IF n = r THEN "absent" ELSE receipt[n]
      BY <2>1 DEF TypeOK
    <2>4. \A n \in Ranges : /\ 2 * n - 1 < cursor' => 2 * n - 1 < cursor
                            /\ 2 * n < cursor' => n = r \/ 2 * n < cursor
      <3>1. r \in Nat
        BY <1>1
      <3> QED
        BY <1>1, <2>2, <3>1 DEF Ranges
    <2> QED
      BY <1>2, <2>1, <2>3, <2>4 DEF Swept, LeftoversWarned, Clearing
  <1> QED
    BY <1>3, <1>4

\* The clearing is through: the cursor has passed every name.
LEMMA ClearedSwept ==
  ASSUME TypeOK, Swept, Cleared
  PROVE  Swept'
  <1>1. \A n \in Ranges : 2 * n - 1 < 2 * N + 1 /\ 2 * n < 2 * N + 1
    BY SizesAssumption DEF Ranges
  <1>2. \A n \in Ranges : part[n] = "absent" /\ receipt[n] = "absent"
    BY <1>1 DEF Swept, Cleared
  <1> QED
    BY <1>2 DEF Swept, Cleared, LeftoversWarned, Clearing, disk

\* A clearing begins before the first name.
LEMMA BeginSwept == \A n \in Ranges : ~(2 * n - 1 < 1) /\ ~(2 * n < 1)
  BY DEF Ranges

LEMMA StepSwept == TypeOK /\ Direct /\ Swept /\ [Next]_vars => Swept'
  <1> SUFFICES ASSUME TypeOK, Direct, Swept, [Next]_vars PROVE Swept'
    OBVIOUS
  <1> USE DEF Swept, LeftoversWarned, Clearing, disk, file
  <1>1. ASSUME NEW n \in Ranges, Start(n) PROVE Swept'
    BY <1>1 DEF Start, CanStart
  <1>2. ASSUME NEW n \in Ranges, Restore(n) PROVE Swept'
    BY <1>2 DEF Restore, Move
  <1>3. ASSUME NEW n \in Ranges, DiscardPart(n) PROVE Swept'
    BY <1>3 DEF DiscardPart, Move, TypeOK
  <1>4. ASSUME NEW n \in Ranges, DiscardReceipt(n) PROVE Swept'
    BY <1>4 DEF DiscardReceipt, Move, TypeOK
  <1>5. ASSUME NEW n \in Ranges, Transfer(n) PROVE Swept'
    BY <1>5 DEF Transfer, Receive, Move
  <1>6. ASSUME NEW n \in Ranges, Refuse(n) PROVE Swept'
    BY <1>6 DEF Refuse, Return
  <1>7. ASSUME NEW n \in Ranges, PublishPart(n) PROVE Swept'
    BY <1>7 DEF PublishPart, Move, Direct, TypeOK
  <1>8. ASSUME NEW n \in Ranges, PublishReceipt(n) PROVE Swept'
    BY <1>8 DEF PublishReceipt, Move, Direct, TypeOK
  <1>9. ASSUME NEW n \in Ranges, Garble(n) PROVE Swept'
    BY <1>9 DEF Garble, Receive, Move
  <1>10. ASSUME NEW n \in Ranges, RangeFails(n) PROVE Swept'
    BY <1>10 DEF RangeFails, Return
  <1>11. ASSUME NEW n \in Ranges, Tamper(n) PROVE Swept'
    BY <1>11 DEF Tamper, TypeOK
  <1>12. ASSUME Open PROVE Swept'
    BY <1>12 DEF Open
  <1>13. ASSUME Gathered PROVE Swept'
    BY <1>13 DEF Gathered
  <1>14. ASSUME Assemble PROVE Swept'
    BY <1>14 DEF Assemble
  <1>15. ASSUME Changed PROVE Swept'
    BY <1>15 DEF Changed, Return
  <1>16. ASSUME Missing PROVE Swept'
    BY <1>16 DEF Missing, Return, TypeOK
  <1>17. ASSUME Assembled PROVE Swept'
    BY <1>17 DEF Assembled
  <1>18. ASSUME Verified PROVE Swept'
    BY <1>18 DEF Verified
  <1>19. ASSUME Invalid PROVE Swept'
    BY <1>19, BeginSwept DEF Invalid, Return
  <1>20. ASSUME Clear PROVE Swept'
    BY <1>20, ClearSwept
  <1>21. ASSUME Cleared PROVE Swept'
    BY <1>21, ClearedSwept
  <1>22. ASSUME Publish PROVE Swept'
    BY <1>22 DEF Publish
  <1>23. ASSUME Save PROVE Swept'
    BY <1>23, BeginSwept DEF Save, Return
  <1>24. ASSUME ClearFails PROVE Swept'
    BY <1>24 DEF ClearFails, Return
  <1>25. ASSUME DriverFails PROVE Swept'
    BY <1>25 DEF DriverFails, Return
  <1>26. ASSUME Kill PROVE Swept'
    BY <1>26 DEF Kill, Return
  <1>27. ASSUME PowerLoss PROVE Swept'
    BY <1>27 DEF PowerLoss, Return, TypeOK
  <1>28. ASSUME ChangeSource PROVE Swept'
    BY <1>28 DEF ChangeSource
  <1>29. CASE UNCHANGED vars
    BY <1>29 DEF vars
  <1> QED
    BY <1>1, <1>2, <1>3, <1>4, <1>5, <1>6, <1>7, <1>8, <1>9, <1>10, <1>11, <1>12, <1>13, <1>14,
       <1>15, <1>16, <1>17, <1>18, <1>19, <1>20, <1>21, <1>22, <1>23, <1>24, <1>25, <1>26, <1>27, <1>28, <1>29
    DEF Next, Advance, Finish, Outside, Range

-----------------------------------------------------------------------------
(* Theorems. *)

\* Every state has values of the declared kinds.
THEOREM TypeCorrect == Spec => []TypeOK
  <1>1. Typed => TypeOK
    BY DEF Typed
  <1> QED
    BY InitTypes, StepTypes, <1>1, PTL DEF Spec

\* A published file is the manifest's version throughout, for any number of
\* ranges, futures and faults, and whatever the manifest entry pins.
THEOREM PublishesManifest == Spec => []PublishedIsManifest
  <1>1. Init => Sound
    BY InitSound
  <1>2. TypeOK /\ Sound /\ [Next]_vars => Sound'
    BY StepSound DEF IInv
  <1>3. Sound => PublishedIsManifest
    BY DEF Sound
  <1> QED
    BY <1>1, <1>2, <1>3, TypeCorrect, PTL DEF Spec

\* No run, however it ends, costs a stored intact range, except by failed
\* verification, after completion, or through something outside.
THEOREM KeepsWork == Spec => WorkKept
  <1>1. Init => Fresh /\ Direct
    BY DEF Init, Fresh, Direct
  <1>2. TypeOK /\ Direct /\ Fresh /\ [Next]_vars => Direct' /\ Fresh'
    BY StepFresh, StepDirect
  <1>3. TypeOK /\ Fresh /\ [Next]_vars => [\A n \in Ranges : Kept(n)]_vars
    BY StepKeeps
  <1>4. [\A n \in Ranges : Kept(n)]_vars =>
            [\A n \in Ranges : Restorable(n) =>
                \/ part'[n] = part[n] /\ receipt'[n] = receipt[n]
                \/ pc \in {"invalidate", "cleanup"}
                \/ PowerLoss
                \/ Tamper(n)]_vars
    BY DEF Kept
  <1> QED
    BY <1>1, <1>2, <1>3, <1>4, TypeCorrect, PTL DEF Spec, WorkKept

\* A run that ends by itself has removed every stored range, or warns that it
\* could not: clear() and the driver's cleanup_warning.
THEOREM WarnsOfLeftovers == Spec => []LeftoversWarned
  <1>1. Init => Direct /\ Swept
    BY DEF Init, Direct, Swept, LeftoversWarned, Clearing
  <1>2. TypeOK /\ Direct /\ Swept /\ [Next]_vars => Direct' /\ Swept'
    BY StepDirect, StepSwept
  <1>3. Swept => LeftoversWarned
    BY DEF Swept
  <1> QED
    BY <1>1, <1>2, <1>3, TypeCorrect, PTL DEF Spec
=============================================================================
