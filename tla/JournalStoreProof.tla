--------------------------- MODULE JournalStoreProof ---------------------------
(***************************************************************************)
(* Theorems about JournalStore, for any number of processes and readers    *)
(* and any records: the file protocol keeps its invariants and implements  *)
(* the register of TransitionJournal.                                      *)
(***************************************************************************)
EXTENDS JournalStore, TransitionRecordProof

\* What a directory sync may do to the value of the journal.
Legal(u, v) ==
  \/ v = u
  \/ /\ u = None
     /\ v.generation = 1
     /\ v.phase = "Preparing"
     /\ v.rollback = None
  \/ u # None /\ v # None /\ validate_advance(u, v)
  \/ u # None /\ deletable(u.phase) /\ v = None

Good(r) == validate(r) /\ r.version = 3

\* A directory from which the journal can be opened, and to which it could get
\* in one legal step from the value u.
Sound(u, d) ==
  /\ d.canonical # None => d.canonical.synced /\ Good(d.canonical.record)
  /\ d.residue # None => delete_residue_inventory(d) /\ Good(d.residue.record)
  /\ Legal(u, Value(d))

Soundness ==
  /\ Sound(Value(synced), synced)
  /\ Sound(Value(synced), dir)
  /\ \A d \in disk : Sound(Value(synced), d)

\* The directory and its survivors at each step of a call.
TemporaryShape ==
  pc \in {"written", "flushed"} =>
    /\ next # None
    /\ Good(next)
    /\ Legal(Value(synced), next)
    /\ synced.residue = None
    /\ dir.canonical = synced.canonical
    /\ dir.temporary = [record |-> next, synced |-> pc = "flushed"]
    /\ \A d \in disk :
         d.canonical = synced.canonical /\ d.residue = None /\ d.temporary \in {None, dir.temporary}

DetachedShape ==
  pc = "detached" =>
    /\ dir.canonical = None /\ dir.temporary = None /\ dir.residue # None
    /\ Value(synced) # None
    /\ deletable(Value(synced).phase)
    /\ \A d \in disk \cup {dir} : Value(d) = Value(synced) /\ d.temporary = None

Shape ==
  /\ pc \in {"recovering", "cleaning", "ready", "displaced"} => disk = {dir} /\ synced = dir
  /\ pc \notin {"closed", "locked", "recovering", "detached"} => dir.residue = None
  /\ pc \in {"cleaned", "ready", "published", "unlinked", "discarded", "removed", "reattached"} => dir.temporary = None
  /\ TemporaryShape
  /\ DetachedShape

Readers ==
  \A q \in Reader :
    /\ reading[q] \in {"locked", "clean"} => holder = None
    /\ reading[q] = "clean" => dir = EmptyDirectory

IInv == TypeOK /\ Soundness /\ Shape /\ OldOrNew /\ Readers

-----------------------------------------------------------------------------
(* What a change of one directory does *)

\* Linking, syncing and unlinking the temporary leave the journal's value alone.
LEMMA LinkKeeps ==
  ASSUME NEW u, NEW d \in Directory, NEW r \in TransitionRecord, d.residue = None, Sound(u, d)
  PROVE  /\ LinkTemporary(d, r) \in Directory
         /\ Sound(u, LinkTemporary(d, r))
         /\ Value(LinkTemporary(d, r)) = Value(d)
         /\ LinkTemporary(d, r).canonical = d.canonical
         /\ LinkTemporary(d, r).residue = d.residue
         /\ LinkTemporary(d, r).temporary = [record |-> r, synced |-> FALSE]
BY Zenon DEF LinkTemporary, Directory, File, Sound, Value, delete_residue_inventory

LEMMA FlushKeeps ==
  ASSUME NEW u, NEW d \in Directory, Sound(u, d)
  PROVE  /\ FlushTemporary(d) \in Directory
         /\ Sound(u, FlushTemporary(d))
         /\ Value(FlushTemporary(d)) = Value(d)
         /\ FlushTemporary(d).canonical = d.canonical
         /\ FlushTemporary(d).residue = d.residue
         /\ d.temporary = None => FlushTemporary(d).temporary = None
         /\ d.temporary # None => FlushTemporary(d).temporary = [record |-> d.temporary.record, synced |-> TRUE]
BY Zenon, NoneAssumption DEF FlushTemporary, Directory, File, Sound, Value, delete_residue_inventory

LEMMA UnlinkTemporaryKeeps ==
  ASSUME NEW u, NEW d \in Directory, Sound(u, d)
  PROVE  /\ UnlinkTemporary(d) \in Directory
         /\ Sound(u, UnlinkTemporary(d))
         /\ Value(UnlinkTemporary(d)) = Value(d)
         /\ UnlinkTemporary(d).canonical = d.canonical
         /\ UnlinkTemporary(d).residue = d.residue
         /\ UnlinkTemporary(d).temporary = None
BY Zenon DEF UnlinkTemporary, Directory, File, Sound, Value, delete_residue_inventory

\* So do the renames between the canonical name and the deletion residue.
LEMMA DetachKeeps ==
  ASSUME NEW u, NEW d \in Directory, Sound(u, d), d.temporary = None,
         d.canonical # None => deletable(d.canonical.record.phase)
  PROVE  /\ DetachCanonical(d) \in Directory
         /\ Sound(u, DetachCanonical(d))
         /\ Value(DetachCanonical(d)) = Value(d)
         /\ DetachCanonical(d).temporary = None
         /\ d.canonical # None /\ d.residue = None =>
              DetachCanonical(d).canonical = None /\ DetachCanonical(d).residue # None
BY Zenon DEF DetachCanonical, Directory, File, Sound, Value, delete_residue_inventory, Good

LEMMA RestoreKeeps ==
  ASSUME NEW u, NEW d \in Directory, Sound(u, d)
  PROVE  /\ RestoreResidue(d) \in Directory
         /\ Sound(u, RestoreResidue(d))
         /\ Value(RestoreResidue(d)) = Value(d)
         /\ RestoreResidue(d).temporary = d.temporary
         /\ RestoreResidue(d).residue = None
BY Zenon DEF RestoreResidue, Directory, File, Sound, Value, delete_residue_inventory

\* Publishing changes the value to the record of a synced temporary.
LEMMA RenamePublishes ==
  ASSUME NEW u, NEW d \in Directory, Sound(u, d), NEW r \in TransitionRecord,
         d.residue = None, d.canonical = None, Good(r), Legal(u, r),
         d.temporary \in {None, [record |-> r, synced |-> TRUE]}
  PROVE  /\ RenameToCanonical(d) \in Directory
         /\ Sound(u, RenameToCanonical(d))
         /\ Value(RenameToCanonical(d)) \in {Value(d), r}
         /\ RenameToCanonical(d).residue = None
         /\ RenameToCanonical(d).temporary = None
         /\ d.temporary # None => Value(RenameToCanonical(d)) = r
<1>1. [record |-> r, synced |-> TRUE] \in File
  BY Zenon DEF File
<1>2. [record |-> r, synced |-> TRUE] # None
  BY Zenon, <1>1, AbsenceAssumption
<1>3. CASE d.temporary = None
  BY Zenon, <1>3 DEF RenameToCanonical, Value
<1>4. CASE d.temporary = [record |-> r, synced |-> TRUE]
  <2>1. RenameToCanonical(d) = [d EXCEPT !.canonical = d.temporary, !.temporary = None]
    BY Zenon, <1>2, <1>4 DEF RenameToCanonical
  <2>2. RenameToCanonical(d) \in Directory
    BY Zenon, <1>1, <1>4, <2>1 DEF Directory
  <2>3. /\ RenameToCanonical(d).canonical = [record |-> r, synced |-> TRUE]
        /\ RenameToCanonical(d).residue = None
        /\ RenameToCanonical(d).temporary = None
    BY Zenon, <1>4, <2>1 DEF Directory
  <2> HIDE DEF RenameToCanonical
  <2>4. Value(RenameToCanonical(d)) = r
    BY <1>2, <2>3 DEF Value
  <2> QED BY <1>2, <1>4, <2>2, <2>3, <2>4 DEF Sound
<1> QED BY Zenon, <1>3, <1>4

LEMMA ExchangePublishes ==
  ASSUME NEW u, NEW d \in Directory, Sound(u, d), NEW r \in TransitionRecord,
         d.residue = None, d.canonical # None, Good(r), Legal(u, r),
         d.temporary \in {None, [record |-> r, synced |-> TRUE]}
  PROVE  /\ ExchangeCanonical(d) \in Directory
         /\ Sound(u, ExchangeCanonical(d))
         /\ Value(ExchangeCanonical(d)) \in {Value(d), r}
         /\ ExchangeCanonical(d).residue = None
         /\ d.temporary # None => Value(ExchangeCanonical(d)) = r
<1>1. [record |-> r, synced |-> TRUE] \in File
  BY Zenon DEF File
<1>2. [record |-> r, synced |-> TRUE] # None
  BY Zenon, <1>1, AbsenceAssumption
<1>3. CASE d.temporary = None
  BY Zenon, <1>3 DEF ExchangeCanonical, Value
<1>4. CASE d.temporary = [record |-> r, synced |-> TRUE]
  <2>1. ExchangeCanonical(d) = [d EXCEPT !.canonical = d.temporary, !.temporary = d.canonical]
    BY Zenon, <1>2, <1>4 DEF ExchangeCanonical
  <2>2. ExchangeCanonical(d) \in Directory
    BY Zenon, <1>1, <1>4, <2>1 DEF Directory
  <2>3. /\ ExchangeCanonical(d).canonical = [record |-> r, synced |-> TRUE]
        /\ ExchangeCanonical(d).residue = None
        /\ ExchangeCanonical(d).temporary = d.canonical
    BY Zenon, <1>4, <2>1 DEF Directory
  <2> HIDE DEF ExchangeCanonical
  <2>4. Value(ExchangeCanonical(d)) = r
    BY <1>2, <2>3 DEF Value
  <2> QED BY <1>2, <1>4, <2>2, <2>3, <2>4 DEF Sound
<1> QED BY Zenon, <1>3, <1>4

\* Unlinking the residue of a terminal record deletes it.
LEMMA UnlinkResidueDeletes ==
  ASSUME NEW u, NEW d \in Directory, Sound(u, d), Value(d) = u, d.temporary = None,
         u # None, deletable(u.phase)
  PROVE  /\ UnlinkResidue(d) \in Directory
         /\ Sound(u, UnlinkResidue(d))
         /\ Value(UnlinkResidue(d)) \in {u, None}
         /\ UnlinkResidue(d).residue = None
         /\ UnlinkResidue(d).temporary = None
         /\ d.canonical = None => Value(UnlinkResidue(d)) = None
BY Zenon DEF UnlinkResidue, Directory, File, Sound, Value, Legal

-----------------------------------------------------------------------------
(* The invariant is inductive *)

\* A directory sync keeps the invariants about directories.
LEMMA SyncKeeps ==
  ASSUME TypeOK, Soundness, SyncDirectory
  PROVE  /\ dir' = dir /\ disk' = {dir} /\ synced' = dir
         /\ dir' \in Directory /\ disk' \subseteq Directory /\ synced' \in Directory
         /\ Soundness'
         /\ OldOrNew'
<1>1. dir' = dir /\ disk' = {dir} /\ synced' = dir
  BY Zenon DEF SyncDirectory
<1>2. Sound(Value(dir), dir)
  BY Zenon DEF Soundness, Sound, Legal
<1>3. Soundness'
  BY Zenon, <1>1, <1>2 DEF Soundness
<1>4. OldOrNew'
  BY Zenon, <1>1 DEF OldOrNew
<1> QED BY Zenon, <1>1, <1>3, <1>4 DEF TypeOK

\* The steps that only sync the directory.
SyncStep ==
  \/ OpenSynced
  \/ RestoreSynced
  \/ CleanupSynced
  \/ InitialSynced
  \/ UpdateFirstSynced
  \/ UpdateFinalSynced
  \/ CleanupTemporarySynced
  \/ DeleteSynced
  \/ finish_reconciled_delete_state

LEMMA SyncStepKeeps ==
  ASSUME IInv, SyncStep
  PROVE  IInv'
<1> USE DEF IInv
<1>1. SyncDirectory
  BY Zenon DEF SyncStep, OpenSynced, RestoreSynced, CleanupSynced, InitialSynced, UpdateFirstSynced,
         UpdateFinalSynced, CleanupTemporarySynced, DeleteSynced, finish_reconciled_delete_state
<1>2. /\ dir' = dir /\ disk' = {dir} /\ synced' = dir
      /\ dir' \in Directory /\ disk' \subseteq Directory /\ synced' \in Directory
      /\ Soundness'
      /\ OldOrNew'
  BY Zenon, <1>1, SyncKeeps
<1>3. /\ UNCHANGED reading
      /\ pc # "closed"
      /\ \/ UNCHANGED <<holder, next, known>> /\ pc' # "closed"
         \/ UNCHANGED holder /\ next' = None /\ known' = [known EXCEPT ![holder] = next] /\ pc' # "closed"
         \/ UNCHANGED known /\ next' = None /\ holder' = None /\ pc' = "closed"
      /\ \/ pc = "locked" /\ pc' = "recovering"
         \/ pc = "restored" /\ pc' = "cleaning"
         \/ pc = "cleaned" /\ pc' = "ready"
         \/ pc = "exchanged" /\ pc' = "displaced"
         \/ pc \in {"published", "unlinked", "removed"} /\ pc' = "ready"
         \/ pc \in {"discarded", "reattached"} /\ pc' = "closed"
  BY Zenon DEF SyncStep, OpenSynced, RestoreSynced, CleanupSynced, InitialSynced, UpdateFirstSynced,
         UpdateFinalSynced, CleanupTemporarySynced, DeleteSynced, finish_reconciled_delete_state,
         At, KeepCaller, Return, GiveUp
<1>4. TypeOK'
  BY Zenon, <1>2, <1>3 DEF TypeOK, Step
<1>5. Shape'
  BY Zenon, <1>2, <1>3 DEF Shape, TemporaryShape, DetachedShape
<1>6. Readers'
  BY Zenon, <1>2, <1>3 DEF Readers
<1> QED BY Zenon, <1>2, <1>4, <1>5, <1>6

\* The steps that leave the directory alone.
StillStep ==
  \/ \E p \in Proc : Open(p)
  \/ recover_interrupted_bound_delete /\ dir.residue = None
  \/ cleanup_stale_temporaries /\ dir.temporary = None
  \/ load
  \/ Drop

LEMMA StillStepKeeps ==
  ASSUME IInv, StillStep
  PROVE  IInv'
<1> USE DEF IInv
<1>1. UNCHANGED <<dir, disk, synced, reading>>
  BY Zenon DEF StillStep, Open, recover_interrupted_bound_delete, cleanup_stale_temporaries, load, Drop, GiveUp,
     KeepCaller
<1>2. Soundness' /\ OldOrNew'
  BY Zenon, <1>1 DEF Soundness, OldOrNew
<1>3. CASE \E p \in Proc : Open(p)
  <2>1. PICK p \in Proc : Open(p)
    BY Zenon, <1>3
  <2>2. TypeOK'
    BY Zenon, <1>1, <2>1, AbsenceAssumption DEF TypeOK, Open, Step
  <2>3. Shape'
    BY Zenon, <1>1, <2>1 DEF Shape, TemporaryShape, DetachedShape, Open
  <2>4. Readers'
    BY Zenon, <1>1, <2>1 DEF Readers, Open
  <2> QED BY Zenon, <1>2, <2>2, <2>3, <2>4
<1>4. CASE recover_interrupted_bound_delete /\ dir.residue = None
  <2>1. At("recovering", "cleaning") /\ KeepCaller
    BY Zenon, <1>4 DEF recover_interrupted_bound_delete
  <2>2. TypeOK'
    BY Zenon, <1>1, <2>1 DEF TypeOK, Step, At, KeepCaller
  <2>3. Shape'
    BY Zenon, <1>1, <1>4, <2>1 DEF Shape, TemporaryShape, DetachedShape, At
  <2>4. Readers'
    BY Zenon, <1>1, <2>1 DEF Readers, KeepCaller
  <2> QED BY Zenon, <1>2, <2>2, <2>3, <2>4
<1>5. CASE cleanup_stale_temporaries /\ dir.temporary = None
  <2>1. At("cleaning", "ready") /\ KeepCaller
    BY Zenon, <1>5 DEF cleanup_stale_temporaries
  <2>2. TypeOK'
    BY Zenon, <1>1, <2>1 DEF TypeOK, Step, At, KeepCaller
  <2>3. Shape'
    BY Zenon, <1>1, <1>5, <2>1 DEF Shape, TemporaryShape, DetachedShape, At
  <2>4. Readers'
    BY Zenon, <1>1, <2>1 DEF Readers, KeepCaller
  <2> QED BY Zenon, <1>2, <2>2, <2>3, <2>4
<1>6. CASE load
  <2>1. UNCHANGED <<holder, pc, next>> /\ known' = [known EXCEPT ![holder] = CanonicalRecord(dir)]
    BY Zenon, <1>6 DEF load
  <2>2. CanonicalRecord(dir) \in TransitionRecord \cup {None}
    BY Zenon DEF CanonicalRecord, TypeOK, Directory, File
  <2>3. TypeOK'
    BY Zenon, <1>1, <2>1, <2>2 DEF TypeOK
  <2>4. Shape'
    BY Zenon, <1>1, <2>1 DEF Shape, TemporaryShape, DetachedShape
  <2>5. Readers'
    BY Zenon, <1>1, <2>1 DEF Readers
  <2> QED BY Zenon, <1>2, <2>3, <2>4, <2>5
<1>7. CASE Drop
  <2>1. pc' = "closed" /\ holder' = None /\ next' = None /\ UNCHANGED known
    BY Zenon, <1>7 DEF Drop, GiveUp
  <2>2. TypeOK'
    BY Zenon, <1>1, <2>1 DEF TypeOK, Step
  <2>3. Shape'
    BY Zenon, <1>1, <2>1 DEF Shape, TemporaryShape, DetachedShape
  <2>4. Readers'
    BY Zenon, <1>1, <2>1 DEF Readers
  <2> QED BY Zenon, <1>2, <2>2, <2>3, <2>4
<1> QED BY Zenon, <1>3, <1>4, <1>5, <1>6, <1>7 DEF StillStep

\* Writing the temporary of a new record or of a legal successor.
LEMMA WriteKeeps ==
  ASSUME IInv, NEW record \in Record, create(record) \/ advance(record)
  PROVE  IInv'
<1> USE DEF IInv
<1>1. /\ pc = "ready" /\ pc' = "written" /\ next' = record
      /\ UNCHANGED <<holder, known, reading, synced>>
      /\ dir' = LinkTemporary(dir, record)
      /\ disk' = disk \cup {LinkTemporary(d, record) : d \in disk}
  BY Zenon DEF create, advance, WriteTemporary, Change
<1>2. disk = {dir} /\ synced = dir /\ dir.residue = None /\ dir.temporary = None /\ dir \in Directory
  BY Zenon, <1>1 DEF Shape, TypeOK
<1>3. record \in TransitionRecord /\ record # None
  BY Zenon, RecordAssumption, NoneAssumption
<1>4. Good(record)
  BY Zenon, RecordAssumption DEF create, advance, Good, validate_advance
<1>5. Legal(Value(synced), record)
  <2>1. CASE create(record)
    BY Zenon, <1>2, <2>1 DEF create, Legal, Value
  <2>2. CASE advance(record)
    <3>1. Value(synced) = known[holder] /\ Value(synced) # None
      BY Zenon, <1>2, <2>2, NoneAssumption DEF advance, Value, Directory, File
    <3> QED BY Zenon, <1>3, <2>2, <3>1 DEF advance, Legal
  <2> QED BY Zenon, <2>1, <2>2
<1>6. Sound(Value(synced), dir)
  BY Zenon DEF Soundness
<1>7. /\ dir' \in Directory
      /\ Sound(Value(synced), dir')
      /\ Value(dir') = Value(dir)
      /\ dir'.canonical = dir.canonical
      /\ dir'.residue = None
      /\ dir'.temporary = [record |-> record, synced |-> FALSE]
  BY Zenon, <1>1, <1>2, <1>3, <1>6, LinkKeeps
<1>8. disk' = {dir, dir'}
  BY Zenon, <1>1, <1>2
<1>9. TypeOK'
  BY Zenon, <1>1, <1>2, <1>3, <1>7, <1>8 DEF TypeOK, Step
<1>10. Soundness'
  BY Zenon, <1>1, <1>6, <1>7, <1>8 DEF Soundness
<1>11. Shape'
  BY Zenon, <1>1, <1>2, <1>3, <1>4, <1>5, <1>7, <1>8 DEF Shape, TemporaryShape, DetachedShape
<1>12. OldOrNew'
  BY Zenon, <1>1, <1>7, <1>8 DEF OldOrNew
<1>13. Readers'
  BY Zenon, <1>1 DEF Readers, TypeOK
<1> QED BY Zenon, <1>9, <1>10, <1>11, <1>12, <1>13

\* Syncing the temporary.
LEMMA FlushStepKeeps ==
  ASSUME IInv, TemporarySynced
  PROVE  IInv'
<1> USE DEF IInv
<1>1. /\ pc = "written" /\ pc' = "flushed"
      /\ UNCHANGED <<holder, next, known, reading, synced>>
      /\ dir' = FlushTemporary(dir)
      /\ disk' = {FlushTemporary(d) : d \in disk}
  BY Zenon DEF TemporarySynced, At, KeepCaller
<1>2. /\ next # None /\ Good(next) /\ Legal(Value(synced), next)
      /\ synced.residue = None
      /\ dir.canonical = synced.canonical /\ dir.residue = None
      /\ dir.temporary = [record |-> next, synced |-> FALSE]
      /\ \A d \in disk :
           d.canonical = synced.canonical /\ d.residue = None /\ d.temporary \in {None, dir.temporary}
  BY Zenon, <1>1 DEF Shape, TemporaryShape
<1>3. \A d \in disk \cup {dir} :
        /\ d \in Directory
        /\ Sound(Value(synced), d)
  BY Zenon DEF TypeOK, Soundness
<1>4. \A d \in disk \cup {dir} :
        /\ FlushTemporary(d) \in Directory
        /\ Sound(Value(synced), FlushTemporary(d))
        /\ Value(FlushTemporary(d)) = Value(d)
        /\ FlushTemporary(d).canonical = d.canonical
        /\ FlushTemporary(d).residue = d.residue
        /\ d.temporary = None => FlushTemporary(d).temporary = None
        /\ d.temporary # None => FlushTemporary(d).temporary = [record |-> d.temporary.record, synced |-> TRUE]
  BY Zenon, <1>3, FlushKeeps
<1>5. dir.temporary # None
  <2>1. next \in TransitionRecord
    BY Zenon, <1>2 DEF TypeOK
  <2>2. dir.temporary \in File
    BY <1>2, <2>1 DEF File
  <2> QED BY Zenon, <2>2, AbsenceAssumption
<1>6. TypeOK'
  BY Zenon, <1>1, <1>4 DEF TypeOK, Step
<1>7. Soundness'
  BY Zenon, <1>1, <1>4 DEF Soundness
<1>8. Shape'
  <2>1. dir'.temporary = [record |-> next, synced |-> TRUE]
    BY <1>1, <1>2, <1>4, <1>5
  <2>2. \A d \in disk' : d.canonical = synced.canonical /\ d.residue = None /\ d.temporary \in {None, dir'.temporary}
    <3> SUFFICES ASSUME NEW d \in disk
                 PROVE  /\ FlushTemporary(d).canonical = synced.canonical
                        /\ FlushTemporary(d).residue = None
                        /\ FlushTemporary(d).temporary \in {None, dir'.temporary}
      BY Zenon, <1>1
    <3>1. CASE d.temporary = None
      BY Zenon, <1>2, <1>4, <3>1
    <3>2. CASE d.temporary = dir.temporary
      BY <1>2, <1>4, <1>5, <2>1, <3>2
    <3> QED BY Zenon, <1>2, <3>1, <3>2
  <2>3. dir'.residue = None /\ dir'.canonical = synced.canonical
    BY Zenon, <1>1, <1>2, <1>4 DEF Shape
  <2> QED BY Zenon, <1>1, <1>2, <2>1, <2>2, <2>3 DEF Shape, TemporaryShape, DetachedShape
<1>9. OldOrNew'
  BY Zenon, <1>1, <1>4 DEF OldOrNew
<1>10. Readers'
  BY Zenon, <1>1 DEF Readers, TypeOK
<1> QED BY Zenon, <1>6, <1>7, <1>8, <1>9, <1>10

\* Unlinking a temporary: a stale one, a failed one or a displaced record.
LEMMA UnlinkStepKeeps ==
  ASSUME IInv, Change(UnlinkTemporary), KeepCaller,
         \/ pc = "cleaning" /\ pc' = "cleaned"
         \/ pc = "displaced" /\ pc' = "unlinked"
         \/ pc \in {"written", "flushed"} /\ pc' = "discarded"
  PROVE  IInv'
<1> USE DEF IInv
<1>1. /\ UNCHANGED <<holder, next, known, reading, synced>>
      /\ dir' = UnlinkTemporary(dir)
      /\ disk' = disk \cup {UnlinkTemporary(d) : d \in disk}
  BY Zenon DEF Change, KeepCaller
<1>2. \A d \in disk \cup {dir} :
        /\ d \in Directory
        /\ Sound(Value(synced), d)
  BY Zenon DEF TypeOK, Soundness
<1>3. \A d \in disk \cup {dir} :
        /\ UnlinkTemporary(d) \in Directory
        /\ Sound(Value(synced), UnlinkTemporary(d))
        /\ Value(UnlinkTemporary(d)) = Value(d)
        /\ UnlinkTemporary(d).residue = d.residue
        /\ UnlinkTemporary(d).temporary = None
  BY Zenon, <1>2, UnlinkTemporaryKeeps
<1>4. TypeOK'
  BY Zenon, <1>1, <1>3 DEF TypeOK, Step
<1>5. Soundness'
  BY Zenon, <1>1, <1>3 DEF Soundness
<1>6. Shape'
  BY Zenon, <1>1, <1>3 DEF Shape, TemporaryShape, DetachedShape
<1>7. OldOrNew'
  BY Zenon, <1>1, <1>3 DEF OldOrNew
<1>8. Readers'
  BY Zenon, <1>1 DEF Readers, TypeOK
<1> QED BY Zenon, <1>4, <1>5, <1>6, <1>7, <1>8

\* Publishing the temporary under the canonical name, new or exchanged.
LEMMA PublishStepKeeps ==
  ASSUME IInv, publish_initial \/ publish_update
  PROVE  IInv'
<1> USE DEF IInv
<1>1. /\ pc = "flushed"
      /\ UNCHANGED <<holder, next, known, reading, synced>>
  BY Zenon DEF publish_initial, publish_update, At, KeepCaller, Change
<1>2. /\ next \in TransitionRecord /\ Good(next) /\ Legal(Value(synced), next)
      /\ synced.residue = None
      /\ dir.canonical = synced.canonical /\ dir.residue = None
      /\ dir.temporary = [record |-> next, synced |-> TRUE] /\ dir.temporary # None
      /\ \A d \in disk :
           d.canonical = synced.canonical /\ d.residue = None /\ d.temporary \in {None, dir.temporary}
  <2>1. /\ next \in TransitionRecord
        /\ dir.temporary = [record |-> next, synced |-> TRUE]
    BY Zenon, <1>1 DEF Shape, TemporaryShape, TypeOK
  <2>2. dir.temporary \in File
    BY <2>1 DEF File
  <2> QED BY Zenon, <1>1, <2>1, <2>2, AbsenceAssumption DEF Shape, TemporaryShape
<1>3. \A d \in disk \cup {dir} :
        /\ d \in Directory
        /\ Sound(Value(synced), d)
        /\ Value(d) = Value(synced)
  BY Zenon, <1>2 DEF TypeOK, Soundness, Value
<1>4. CASE publish_initial
  <2>1. /\ pc' = "published"
        /\ dir.canonical = None
        /\ dir' = RenameToCanonical(dir)
        /\ disk' = disk \cup {RenameToCanonical(d) : d \in disk}
    BY Zenon, <1>4 DEF publish_initial, At, Change
  <2>2. \A d \in disk \cup {dir} :
          /\ RenameToCanonical(d) \in Directory
          /\ Sound(Value(synced), RenameToCanonical(d))
          /\ Value(RenameToCanonical(d)) \in {Value(d), next}
          /\ RenameToCanonical(d).residue = None
          /\ RenameToCanonical(d).temporary = None
          /\ d.temporary # None => Value(RenameToCanonical(d)) = next
    BY Zenon, <1>2, <1>3, <2>1, RenamePublishes
  <2>3. TypeOK'
    BY Zenon, <1>1, <2>1, <2>2 DEF TypeOK, Step
  <2>4. Soundness'
    BY Zenon, <1>1, <2>1, <2>2 DEF Soundness
  <2>5. Shape'
    BY Zenon, <1>1, <2>1, <2>2 DEF Shape, TemporaryShape, DetachedShape
  <2>6. OldOrNew'
    BY Zenon, <1>1, <1>2, <1>3, <2>1, <2>2 DEF OldOrNew
  <2>7. Readers'
    BY Zenon, <1>1 DEF Readers, TypeOK
  <2> QED BY Zenon, <2>3, <2>4, <2>5, <2>6, <2>7
<1>5. CASE publish_update
  <2>1. /\ pc' = "exchanged"
        /\ dir.canonical # None
        /\ dir' = ExchangeCanonical(dir)
        /\ disk' = disk \cup {ExchangeCanonical(d) : d \in disk}
    BY Zenon, <1>5 DEF publish_update, At, Change
  <2>2. \A d \in disk \cup {dir} :
          /\ ExchangeCanonical(d) \in Directory
          /\ Sound(Value(synced), ExchangeCanonical(d))
          /\ Value(ExchangeCanonical(d)) \in {Value(d), next}
          /\ ExchangeCanonical(d).residue = None
          /\ d.temporary # None => Value(ExchangeCanonical(d)) = next
    BY ZenonT(60), <1>2, <1>3, <2>1, ExchangePublishes
  <2>3. TypeOK'
    BY Zenon, <1>1, <2>1, <2>2 DEF TypeOK, Step
  <2>4. Soundness'
    BY Zenon, <1>1, <2>1, <2>2 DEF Soundness
  <2>5. Shape'
    BY Zenon, <1>1, <2>1, <2>2 DEF Shape, TemporaryShape, DetachedShape
  <2>6. OldOrNew'
    BY Zenon, <1>1, <1>2, <1>3, <2>1, <2>2 DEF OldOrNew
  <2>7. Readers'
    BY Zenon, <1>1 DEF Readers, TypeOK
  <2> QED BY Zenon, <2>3, <2>4, <2>5, <2>6, <2>7
<1> QED BY Zenon, <1>4, <1>5

\* Detaching a terminal record.
LEMMA DetachStepKeeps ==
  ASSUME IInv, DetachRecord
  PROVE  IInv'
<1> USE DEF IInv
<1>1. /\ pc = "ready" /\ pc' = "detached"
      /\ UNCHANGED <<holder, next, known, reading, synced>>
      /\ dir' = DetachCanonical(dir)
      /\ disk' = disk \cup {DetachCanonical(d) : d \in disk}
      /\ dir.canonical # None /\ dir.residue = None /\ dir.temporary = None
      /\ deletable(dir.canonical.record.phase)
  BY Zenon DEF DetachRecord, At, KeepCaller, Change
<1>2. disk = {dir} /\ synced = dir /\ dir \in Directory /\ Sound(Value(synced), dir)
  BY Zenon, <1>1 DEF Shape, TypeOK, Soundness
<1>3. /\ dir' \in Directory
      /\ Sound(Value(synced), dir')
      /\ Value(dir') = Value(dir)
      /\ dir'.temporary = None /\ dir'.canonical = None /\ dir'.residue # None
  BY Zenon, <1>1, <1>2, DetachKeeps
<1>4. disk' = {dir, dir'}
  BY Zenon, <1>1, <1>2
<1>5. Value(synced) # None /\ deletable(Value(synced).phase)
  BY Zenon, <1>1, <1>2, NoneAssumption DEF Value, Directory, File
<1>6. TypeOK'
  BY Zenon, <1>1, <1>2, <1>3, <1>4 DEF TypeOK, Step
<1>7. Soundness'
  BY Zenon, <1>1, <1>2, <1>3, <1>4 DEF Soundness
<1>8. Shape'
  BY Zenon, <1>1, <1>2, <1>3, <1>4, <1>5 DEF Shape, TemporaryShape, DetachedShape
<1>9. OldOrNew'
  BY Zenon, <1>1, <1>3, <1>4 DEF OldOrNew
<1>10. Readers'
  BY Zenon, <1>1 DEF Readers, TypeOK
<1> QED BY Zenon, <1>6, <1>7, <1>8, <1>9, <1>10

\* Unlinking the detached record.
LEMMA RemoveStepKeeps ==
  ASSUME IInv, UnlinkDetached
  PROVE  IInv'
<1> USE DEF IInv
<1>1. /\ pc = "detached" /\ pc' = "removed"
      /\ UNCHANGED <<holder, next, known, reading, synced>>
      /\ dir' = UnlinkResidue(dir)
      /\ disk' = disk \cup {UnlinkResidue(d) : d \in disk}
  BY Zenon DEF UnlinkDetached, At, KeepCaller, Change
<1>2. /\ dir.canonical = None
      /\ Value(synced) # None /\ deletable(Value(synced).phase)
      /\ \A d \in disk \cup {dir} :
           /\ d \in Directory /\ d.temporary = None
           /\ Sound(Value(synced), d)
           /\ Value(d) = Value(synced)
  BY Zenon, <1>1 DEF Shape, DetachedShape, TypeOK, Soundness
<1>3. \A d \in disk \cup {dir} :
        /\ UnlinkResidue(d) \in Directory
        /\ Sound(Value(synced), UnlinkResidue(d))
        /\ Value(UnlinkResidue(d)) \in {Value(synced), None}
        /\ UnlinkResidue(d).residue = None
        /\ UnlinkResidue(d).temporary = None
        /\ d.canonical = None => Value(UnlinkResidue(d)) = None
  BY Zenon, <1>2, UnlinkResidueDeletes
<1>4. TypeOK'
  BY Zenon, <1>1, <1>3 DEF TypeOK, Step
<1>5. Soundness'
  BY Zenon, <1>1, <1>3 DEF Soundness
<1>6. Shape'
  BY Zenon, <1>1, <1>3 DEF Shape, TemporaryShape, DetachedShape
<1>7. OldOrNew'
  BY Zenon, <1>1, <1>2, <1>3 DEF OldOrNew
<1>8. Readers'
  BY Zenon, <1>1 DEF Readers, TypeOK
<1> QED BY Zenon, <1>4, <1>5, <1>6, <1>7, <1>8

\* Putting the residue of a deletion back under the canonical name.
LEMMA RestoreStepKeeps ==
  ASSUME IInv, Change(RestoreResidue), KeepCaller,
         \/ pc = "recovering" /\ pc' = "restored"
         \/ pc = "detached" /\ pc' = "reattached"
  PROVE  IInv'
<1> USE DEF IInv
<1>1. /\ UNCHANGED <<holder, next, known, reading, synced>>
      /\ dir' = RestoreResidue(dir)
      /\ disk' = disk \cup {RestoreResidue(d) : d \in disk}
  BY Zenon DEF Change, KeepCaller
<1>2. \A d \in disk \cup {dir} :
        /\ d \in Directory
        /\ Sound(Value(synced), d)
  BY Zenon DEF TypeOK, Soundness
<1>3. \A d \in disk \cup {dir} :
        /\ RestoreResidue(d) \in Directory
        /\ Sound(Value(synced), RestoreResidue(d))
        /\ Value(RestoreResidue(d)) = Value(d)
        /\ RestoreResidue(d).temporary = d.temporary
        /\ RestoreResidue(d).residue = None
  BY Zenon, <1>2, RestoreKeeps
<1>4. TypeOK'
  BY Zenon, <1>1, <1>3 DEF TypeOK, Step
<1>5. Soundness'
  BY Zenon, <1>1, <1>3 DEF Soundness
<1>6. Shape'
  BY Zenon, <1>1, <1>3 DEF Shape, TemporaryShape, DetachedShape
<1>7. OldOrNew'
  BY Zenon, <1>1, <1>3 DEF OldOrNew
<1>8. Readers'
  BY Zenon, <1>1 DEF Readers, TypeOK
<1> QED BY Zenon, <1>4, <1>5, <1>6, <1>7, <1>8

\* The steps of a reader.
ReadStep == \E q \in Reader : LookUnlocked(q) \/ LockShared(q) \/ LookLocked(q) \/ StopReading(q)

LEMMA ReadStepKeeps ==
  ASSUME IInv, ReadStep
  PROVE  IInv'
<1> USE DEF IInv
<1>1. PICK q \in Reader : LookUnlocked(q) \/ LockShared(q) \/ LookLocked(q) \/ StopReading(q)
  BY Zenon DEF ReadStep
<1>2. UNCHANGED <<dir, disk, synced, holder, pc, next, known>>
  BY Zenon, <1>1 DEF LookUnlocked, LockShared, LookLocked, StopReading, Inspect, writing
<1>3. Soundness' /\ OldOrNew' /\ Shape'
  BY Zenon, <1>2 DEF Soundness, OldOrNew, Shape, TemporaryShape, DetachedShape
<1>4. PICK to \in {"none", "looked", "locked", "clean"} :
        /\ reading' = [reading EXCEPT ![q] = to]
        /\ to = "locked" => holder = None
        /\ to = "clean" => reading[q] = "locked" /\ dir = EmptyDirectory
  BY Zenon, <1>1 DEF LookUnlocked, LockShared, LookLocked, StopReading, Inspect
<1>5. TypeOK'
  BY Zenon, <1>2, <1>4 DEF TypeOK
<1>6. Readers'
  BY Zenon, <1>2, <1>4 DEF Readers, TypeOK
<1> QED BY Zenon, <1>3, <1>5, <1>6

\* Power loss leaves one of the survivors.
LEMMA PowerLossKeeps ==
  ASSUME IInv, PowerLoss
  PROVE  IInv'
<1> USE DEF IInv
<1>1. PICK d \in disk :
        /\ dir' = d /\ disk' = {d} /\ synced' = d
        /\ holder' = None /\ pc' = "closed" /\ next' = None
        /\ known' = [p \in Proc |-> None]
        /\ reading' = [q \in Reader |-> "none"]
  BY Zenon DEF PowerLoss
<1>2. d \in Directory /\ Sound(Value(d), d)
  BY Zenon DEF TypeOK, Soundness, Sound, Legal
<1>3. TypeOK'
  BY Zenon, <1>1, <1>2 DEF TypeOK, Step
<1>4. Soundness'
  BY Zenon, <1>1, <1>2 DEF Soundness
<1>5. Shape' /\ OldOrNew' /\ Readers'
  BY Zenon, <1>1 DEF Shape, TemporaryShape, DetachedShape, OldOrNew, Readers
<1> QED BY Zenon, <1>3, <1>4, <1>5

\* Every step is one of these.
LEMMA StepKinds ==
  ASSUME Next
  PROVE  \/ SyncStep
         \/ StillStep
         \/ \E record \in Record : create(record) \/ advance(record)
         \/ TemporarySynced
         \/ /\ Change(UnlinkTemporary) /\ KeepCaller
            /\ \/ pc = "cleaning" /\ pc' = "cleaned"
               \/ pc = "displaced" /\ pc' = "unlinked"
               \/ pc \in {"written", "flushed"} /\ pc' = "discarded"
         \/ publish_initial \/ publish_update
         \/ DetachRecord
         \/ UnlinkDetached
         \/ /\ Change(RestoreResidue) /\ KeepCaller
            /\ \/ pc = "recovering" /\ pc' = "restored"
               \/ pc = "detached" /\ pc' = "reattached"
         \/ ReadStep
         \/ PowerLoss
BY Zenon DEF Next, Opening, Publishing, Deleting, SyncStep, StillStep, ReadStep, At,
       recover_interrupted_bound_delete, cleanup_stale_temporaries, UnlinkDisplaced, cleanup_temporary,
       reconcile_private_unlink_failure

LEMMA Inductive == Spec => []IInv
<1>1. Init => IInv
  <2> SUFFICES ASSUME Init PROVE IInv
    BY Zenon
  <2>1. TypeOK
    BY DEF Init, TypeOK, EmptyDirectory, Directory, Step
  <2>2. Soundness
    BY DEF Init, EmptyDirectory, Soundness, Sound, Value, Legal
  <2>3. Shape /\ OldOrNew /\ Readers
    BY Zenon DEF Init, EmptyDirectory, Shape, TemporaryShape, DetachedShape, OldOrNew, Readers
  <2> QED BY Zenon, <2>1, <2>2, <2>3 DEF IInv
<1>2. IInv /\ [Next]_vars => IInv'
  <2> SUFFICES ASSUME IInv, [Next]_vars PROVE IInv'
    BY Zenon
  <2>1. CASE Next
    BY Zenon, <2>1, StepKinds, SyncStepKeeps, StillStepKeeps, WriteKeeps, FlushStepKeeps, UnlinkStepKeeps,
       PublishStepKeeps, DetachStepKeeps, RemoveStepKeeps, RestoreStepKeeps, ReadStepKeeps, PowerLossKeeps
  <2>2. CASE UNCHANGED vars
    BY Zenon, <2>2 DEF vars, IInv, TypeOK, Soundness, Shape, TemporaryShape, DetachedShape, OldOrNew, Readers
  <2> QED BY Zenon, <2>1, <2>2
<1> QED BY <1>1, <1>2, PTL DEF Spec

-----------------------------------------------------------------------------
(* Safety *)

\* Whatever power loss leaves under a name that is read back decodes, however
\* many processes wrote the journal before (publish_record_inode, store.rs).
THEOREM Whole == Spec => []SurvivorsAreWhole
<1>1. IInv => SurvivorsAreWhole
  BY Zenon DEF IInv, Soundness, Sound, SurvivorsAreWhole, delete_residue_inventory
<1> QED BY <1>1, Inductive, PTL

\* No crash or failure leaves entries that recover_interrupted_bound_delete refuses.
THEOREM Reopens == Spec => []OpenAdmits
<1>1. IInv => OpenAdmits
  BY Zenon DEF IInv, Soundness, Sound, OpenAdmits
<1> QED BY <1>1, Inductive, PTL

\* A failed publication or deletion leaves the old value or the new one.
THEOREM NoThirdValue == Spec => []OldOrNew
<1>1. IInv => OldOrNew
  BY Zenon DEF IInv
<1> QED BY <1>1, Inductive, PTL

\* A call that returned success is durable.
THEOREM Durable == Spec => []AcknowledgedIsDurable
<1>1. IInv => AcknowledgedIsDurable
  BY Zenon DEF IInv, Shape, AcknowledgedIsDurable
<1> QED BY <1>1, Inductive, PTL

\* An admitted read-only client never has a transition in sight.
THEOREM ReaderClean == Spec => []ReaderStaysClean
<1>1. IInv => ReaderStaysClean
  BY Zenon DEF IInv, Readers, ReaderStaysClean
<1> QED BY <1>1, Inductive, PTL

-----------------------------------------------------------------------------
(* The store implements the register *)

\* A record that create() accepts is one that preparing() returns.
LEMMA CreatedIsPrepared ==
  ASSUME NEW v \in TransitionRecord, Good(v), v.generation = 1, v.phase = "Preparing", v.rollback = None
  PROVE  v \in preparing(v.transition_id, v.operation, v.candidate_id, v.previous_id, v.previous_origin,
                         v.options.run_system_triggers, v.options.run_boot_sync)
<1>1. v.options \in TransitionOptions /\ v.options.archive_previous = (v.previous_origin = "ActiveState")
  BY Zenon DEF Good, validate, validate_relationships, TransitionRecord, TransitionOptions
<1>2. v.options = [archive_previous |-> v.previous_origin = "ActiveState",
                   run_system_triggers |-> v.options.run_system_triggers,
                   run_boot_sync |-> v.options.run_boot_sync]
  BY Zenon, <1>1 DEF TransitionOptions
<1>3. v.receipts = None
  BY DEF Good, validate, validate_boot_publication_receipts, layout_phase, ordinal, ForwardPhase
<1> DEFINE options == [archive_previous |-> v.previous_origin = "ActiveState",
                       run_system_triggers |-> v.options.run_system_triggers,
                       run_boot_sync |-> v.options.run_boot_sync]
           w == [version |-> 3, generation |-> 1, transition_id |-> v.transition_id, operation |-> v.operation,
                 phase |-> "Preparing", rollback |-> None, receipts |-> None,
                 candidate_id |-> v.candidate_id, previous_id |-> v.previous_id,
                 previous_origin |-> v.previous_origin, options |-> options]
<1>4. v.options = options
  BY Zenon, <1>2
<1> HIDE DEF options
<1>5. w \in TransitionRecord
  BY <1>4, GenerationAssumption DEF TransitionRecord, Phase, ForwardPhase
<1>6. v = w
  BY Zenon, <1>3, <1>4, <1>5, RecordExtensionality DEF Good
<1> USE DEF options
<1> QED BY Zenon, <1>6 DEF preparing, Good

\* The record contract that the register is stated with is the store's own.
LEMMA SameContract ==
  /\ Journal!Operation = Operation
  /\ Journal!PreviousOrigin = PreviousOrigin
  /\ Journal!RollbackObservations = RollbackObservations
  /\ Journal!RollbackActionOutcome = RollbackActionOutcome
  /\ \A p : Journal!deletable(p) = deletable(p)
  /\ \A id, op, c, q, o, s, b : Journal!preparing(id, op, c, q, o, s, b) = preparing(id, op, c, q, o, s, b)
  /\ \A r, id : Journal!forward_successor(r, id) = forward_successor(r, id)
  /\ \A r, pair : Journal!boot_sync_started_successor(r, pair) = boot_sync_started_successor(r, pair)
  /\ \A r, pair : Journal!boot_sync_complete_successor(r, pair) = boot_sync_complete_successor(r, pair)
  /\ \A r, obs : Journal!rollback_decision(r, obs) = rollback_decision(r, obs)
  /\ \A r, x : Journal!rollback_successor(r, x) = rollback_successor(r, x)
  /\ \A r : Journal!boot_repair_started_successor(r) = boot_repair_started_successor(r)
  /\ \A r, x : Journal!boot_repair_complete_successor(r, x) = boot_repair_complete_successor(r, x)
  /\ \A r : Journal!boot_repair_unverified_successor(r) = boot_repair_unverified_successor(r)
  /\ \A r : Journal!boot_repair_rollback_complete_successor(r) = boot_repair_rollback_complete_successor(r)
<1>1. /\ Journal!Operation = Operation
      /\ Journal!PreviousOrigin = PreviousOrigin
      /\ Journal!RollbackObservations = RollbackObservations
      /\ Journal!RollbackActionOutcome = RollbackActionOutcome
      /\ \A p : Journal!deletable(p) = deletable(p)
  BY Zenon DEF Operation, PreviousOrigin, InitialRollbackAction, RollbackObservations, RollbackActionOutcome,
     deletable, Journal!Operation, Journal!PreviousOrigin, Journal!InitialRollbackAction,
     Journal!RollbackObservations, Journal!RollbackActionOutcome, Journal!deletable
<1>2. \A r : Journal!validate(r) = validate(r)
  BY DEF validate, ForwardPhase, ordinal, rollback_allowed, validate_rollback_plan, required, resolved,
     Settled, rollback_actions, ordinary_actions_resolved, IntentPhase, DonePhase, candidate_disposition_for,
     previous_possible, usr_possible, fresh_possible, boot_possible, external_effects,
     runs_transaction_triggers, validate_rollback_phase, validate_boot_publication_receipts,
     validate_option_reachability, validate_candidate_layout, validate_relationships, layout_phase,
     Journal!validate, Journal!ForwardPhase, Journal!ordinal, Journal!rollback_allowed,
     Journal!validate_rollback_plan, Journal!required, Journal!resolved, Journal!Settled,
     Journal!rollback_actions, Journal!ordinary_actions_resolved, Journal!IntentPhase, Journal!DonePhase,
     Journal!candidate_disposition_for, Journal!previous_possible, Journal!usr_possible,
     Journal!fresh_possible, Journal!boot_possible, Journal!external_effects,
     Journal!runs_transaction_triggers, Journal!validate_rollback_phase,
     Journal!validate_boot_publication_receipts, Journal!validate_option_reachability,
     Journal!validate_candidate_layout, Journal!validate_relationships, Journal!layout_phase
<1>3. \A r : Journal!next_forward_phase(r) = next_forward_phase(r)
  BY Zenon DEF runs_transaction_triggers, next_forward_phase, after_archive, after_system,
     Journal!runs_transaction_triggers, Journal!next_forward_phase, Journal!after_archive,
     Journal!after_system
<1>4. \A plan, p : Journal!next_rollback_phase(plan, p) = next_rollback_phase(plan, p)
  BY Zenon DEF next_rollback_phase, next_pending_phase, Journal!next_rollback_phase, Journal!next_pending_phase
<1>5. \A r, n : Journal!Checked(r, n) = Checked(r, n)
  <2>1. /\ Journal!ForwardPhase = ForwardPhase
        /\ Journal!RollbackPhase = RollbackPhase
        /\ \A p : Journal!blocks_advance(p) = blocks_advance(p)
        /\ \A p : Journal!rollback_allowed(p) = rollback_allowed(p)
    BY Zenon DEF ForwardPhase, RollbackPhase, blocks_advance, rollback_allowed, ordinal, Journal!ForwardPhase,
       Journal!RollbackPhase, Journal!blocks_advance, Journal!rollback_allowed, Journal!ordinal
  <2>2. \A r, n : Journal!validate_rollback_plan_advance(r, n) = validate_rollback_plan_advance(r, n)
    BY Zenon DEF validate_rollback_plan_advance, rollback_actions, resolved, IntentPhase, DonePhase,
       Journal!validate_rollback_plan_advance, Journal!rollback_actions, Journal!resolved,
       Journal!IntentPhase, Journal!DonePhase
  <2>3. \A r, n : Journal!PhaseAdvance(r, n) = PhaseAdvance(r, n)
    BY <1>3, <1>4, <2>1, <2>2 DEF PhaseAdvance, Journal!PhaseAdvance
  <2>4. \A r, n : Journal!validate_advance(r, n) = validate_advance(r, n)
    BY <1>2, <2>1, <2>3 DEF validate_advance, Journal!validate_advance
  <2> QED BY Zenon, <2>4 DEF Checked, Journal!Checked
<1>6. /\ \A r : Journal!OpenIntent(r) = OpenIntent(r)
      /\ \A r, x : Journal!ResolvedPlan(r, x) = ResolvedPlan(r, x)
  BY Zenon DEF OpenIntent, IntentPhase, ResolvedPlan, Journal!OpenIntent, Journal!IntentPhase, Journal!ResolvedPlan
<1>7. \A id, op, c, q, o, s, b : Journal!preparing(id, op, c, q, o, s, b) = preparing(id, op, c, q, o, s, b)
  <2> TAKE id, op, c, q, o, s, b
  <2> DEFINE first == [version |-> 3, generation |-> 1, transition_id |-> id, operation |-> op,
                       phase |-> "Preparing", rollback |-> None, receipts |-> None, candidate_id |-> c,
                       previous_id |-> q, previous_origin |-> o,
                       options |-> [archive_previous |-> o = "ActiveState", run_system_triggers |-> s,
                                    run_boot_sync |-> b]]
  <2>1. preparing(id, op, c, q, o, s, b) = {r \in {first} : validate(r)}
    BY Zenon DEF preparing
  <2>2. Journal!preparing(id, op, c, q, o, s, b) = {r \in {first} : Journal!validate(r)}
    BY Zenon DEF Journal!preparing
  <2> HIDE DEF first
  <2> QED BY Zenon, <1>2, <2>1, <2>2
<1>8. /\ \A r, id : Journal!forward_successor(r, id) = forward_successor(r, id)
      /\ \A r, pair : Journal!boot_sync_started_successor(r, pair) = boot_sync_started_successor(r, pair)
      /\ \A r, pair : Journal!boot_sync_complete_successor(r, pair) = boot_sync_complete_successor(r, pair)
  BY Zenon, <1>3, <1>5 DEF forward_successor, boot_sync_started_successor, boot_sync_complete_successor,
     ForwardPhase, Journal!forward_successor, Journal!boot_sync_started_successor,
     Journal!boot_sync_complete_successor, Journal!ForwardPhase
<1>9. \A r, obs : Journal!rollback_decision(r, obs) = rollback_decision(r, obs)
  <2>1. /\ Journal!ForwardPhase = ForwardPhase
        /\ \A p : Journal!rollback_allowed(p) = rollback_allowed(p)
        /\ \A r, p : Journal!previous_possible(r, p) = previous_possible(r, p)
        /\ \A p : Journal!usr_possible(p) = usr_possible(p)
        /\ \A r, p : Journal!fresh_possible(r, p) = fresh_possible(r, p)
        /\ \A p : Journal!boot_possible(p) = boot_possible(p)
    BY Zenon DEF ForwardPhase, rollback_allowed, previous_possible, usr_possible, fresh_possible, boot_possible,
       ordinal, Journal!ForwardPhase, Journal!rollback_allowed, Journal!previous_possible,
       Journal!usr_possible, Journal!fresh_possible, Journal!boot_possible, Journal!ordinal
  <2>2. /\ \A r, p : Journal!candidate_disposition_for(r, p) = candidate_disposition_for(r, p)
        /\ \A o : Journal!observed_initial_action(o) = observed_initial_action(o)
        /\ \A r, p : Journal!external_effects(r, p) = external_effects(r, p)
    BY Zenon DEF candidate_disposition_for, observed_initial_action, external_effects, ordinal,
       runs_transaction_triggers, Journal!candidate_disposition_for, Journal!observed_initial_action,
       Journal!external_effects, Journal!ordinal, Journal!runs_transaction_triggers
  <2> TAKE r, obs
  <2> DEFINE ours == /\ r.phase \in ForwardPhase
                     /\ rollback_allowed(r.phase)
                     /\ obs.allocated_candidate_id # None => r.candidate_id = None
                     /\ obs.previous_archive # None <=> previous_possible(r, r.phase)
                     /\ obs.usr_exchange # None <=> usr_possible(r.phase)
                     /\ obs.fresh_db # None <=> fresh_possible(r, r.phase)
             theirs == /\ r.phase \in Journal!ForwardPhase
                       /\ Journal!rollback_allowed(r.phase)
                       /\ obs.allocated_candidate_id # None => r.candidate_id = None
                       /\ obs.previous_archive # None <=> Journal!previous_possible(r, r.phase)
                       /\ obs.usr_exchange # None <=> Journal!usr_possible(r.phase)
                       /\ obs.fresh_db # None <=> Journal!fresh_possible(r, r.phase)
             Decided(plan) == [r EXCEPT !.generation = @ + 1, !.phase = "RollbackDecided",
                                        !.candidate_id = IF r.candidate_id = None THEN obs.allocated_candidate_id ELSE @,
                                        !.rollback = plan]
             Plan(p, u, d, f, b, e) == [source |-> r.phase, previous_archive |-> p, usr_exchange |-> u,
                                        candidate |-> obs.candidate, disposition |-> d, fresh_db |-> f,
                                        boot |-> IF b THEN "PendingUnverifiable" ELSE "NotRequired",
                                        external_effects_may_remain |-> e]
             plan == Plan(observed_initial_action(obs.previous_archive), observed_initial_action(obs.usr_exchange),
                          candidate_disposition_for(r, r.phase), observed_initial_action(obs.fresh_db),
                          boot_possible(r.phase), external_effects(r, r.phase))
             copy == Plan(Journal!observed_initial_action(obs.previous_archive),
                          Journal!observed_initial_action(obs.usr_exchange),
                          Journal!candidate_disposition_for(r, r.phase),
                          Journal!observed_initial_action(obs.fresh_db),
                          Journal!boot_possible(r.phase), Journal!external_effects(r, r.phase))
  <2>3. rollback_decision(r, obs) = IF ours THEN Checked(r, Decided(plan)) ELSE {}
    BY Zenon DEF rollback_decision
  <2>4. Journal!rollback_decision(r, obs) = IF theirs THEN Journal!Checked(r, Decided(copy)) ELSE {}
    BY Zenon DEF Journal!rollback_decision
  <2>5. theirs <=> ours
    BY <2>1
  <2>6. copy = plan
    BY Zenon, <2>1, <2>2
  <2> HIDE DEF ours, theirs, plan, copy, Decided
  <2> QED BY Zenon, <1>5, <2>3, <2>4, <2>5, <2>6
<1>10. \A r, x : Journal!rollback_successor(r, x) = rollback_successor(r, x)
  BY Zenon, <1>4, <1>5, <1>6 DEF rollback_successor, Journal!rollback_successor
<1>11. \A r : Journal!boot_repair_started_successor(r) = boot_repair_started_successor(r)
  BY Zenon, <1>5 DEF boot_repair_started_successor, Journal!boot_repair_started_successor
<1>12. \A r, x : Journal!boot_repair_complete_successor(r, x) = boot_repair_complete_successor(r, x)
  BY <1>5 DEF boot_repair_complete_successor, Journal!boot_repair_complete_successor
<1>13. \A r : Journal!boot_repair_unverified_successor(r) = boot_repair_unverified_successor(r)
  BY <1>5 DEF boot_repair_unverified_successor, Journal!boot_repair_unverified_successor
<1>14. \A r : Journal!boot_repair_rollback_complete_successor(r) = boot_repair_rollback_complete_successor(r)
  BY Zenon, <1>5 DEF boot_repair_rollback_complete_successor, Journal!boot_repair_rollback_complete_successor
<1> QED BY Zenon, <1>1, <1>7, <1>8, <1>9, <1>10, <1>11, <1>12, <1>13, <1>14

\* A legal change of the value is a step of the register.
LEMMA LegalIsStep ==
  ASSUME IInv, synced' \in Directory, Legal(Value(synced), Value(synced')),
         Sound(Value(synced), synced')
  PROVE  [Journal!Next]_(Journal!vars)
<1> DEFINE u == Value(synced)
           v == Value(synced')
<1>1. Value(synced)' = v
  BY Zenon DEF Value
<1>2. /\ u \in TransitionRecord \cup {None}
      /\ v \in TransitionRecord \cup {None}
      /\ u # None => Good(u)
      /\ v # None => Good(v)
  BY Zenon DEF IInv, TypeOK, Soundness, Sound, Value, Directory, File
<1>3. CASE v = u
  BY Zenon, <1>1, <1>3 DEF Journal!vars
<1>4. CASE u = None /\ v # None /\ v.generation = 1 /\ v.phase = "Preparing" /\ v.rollback = None
  <2>1. v \in TransitionRecord /\ Good(v)
    BY Zenon, <1>2, <1>4
  <2>2. v \in preparing(v.transition_id, v.operation, v.candidate_id, v.previous_id, v.previous_origin,
                        v.options.run_system_triggers, v.options.run_boot_sync)
    BY Zenon, <1>4, <2>1, CreatedIsPrepared
  <2>3. /\ v.transition_id \in TransitionId /\ v.operation \in Operation
        /\ v.candidate_id \in StateId \cup {None} /\ v.previous_id \in StateId \cup {None}
        /\ v.previous_origin \in PreviousOrigin
        /\ v.options.run_system_triggers \in BOOLEAN /\ v.options.run_boot_sync \in BOOLEAN
    BY Zenon, <2>1 DEF TransitionRecord, TransitionOptions
  <2> HIDE DEF v, u
  <2>4. Journal!Create
    BY <1>1, <1>4, <2>2, <2>3, SameContract, ZenonT(60) DEF Journal!Create, u
  <2> QED BY Zenon, <2>4 DEF Journal!Next
<1>5. CASE u # None /\ v # None /\ validate_advance(u, v)
  <2>1. v \in Successors(u)
    BY Zenon, <1>2, <1>5, AdvanceIsConstructed DEF Good
  <2> HIDE DEF v, u
  <2>2. Journal!Advance
    BY <1>1, <1>5, <2>1, FromSuccessors, SameContract, Zenon DEF Journal!Advance, Journal!AdvanceForward,
       Journal!StartBootSync, Journal!CompleteBootSync, Journal!DecideRollback, Journal!AdvanceRollback,
       Journal!RepairBoot, u
  <2> QED BY Zenon, <2>2 DEF Journal!Next
<1>6. CASE u # None /\ deletable(u.phase) /\ v = None
  <2>1. Journal!Delete
    BY Zenon, <1>1, <1>6, SameContract DEF Journal!Delete
  <2> QED BY Zenon, <2>1 DEF Journal!Next
<1> QED BY Zenon, <1>3, <1>4, <1>5, <1>6 DEF Legal

\* The file protocol implements the register: whatever crashes, errors and
\* stale callers do, the durable value changes only by create, by an advance
\* that a constructor built and by the deletion of a terminal record.
THEOREM Implements == Spec => ImplementsJournal
<1>1. Init => Journal!Init
  BY DEF Init, Journal!Init, EmptyDirectory, Value
<1>2. IInv /\ [Next]_vars => [Journal!Next]_(Journal!vars)
  <2> SUFFICES ASSUME IInv, [Next]_vars PROVE [Journal!Next]_(Journal!vars)
    BY Zenon
  <2>1. CASE UNCHANGED synced
    BY Zenon, <2>1 DEF Journal!vars, Value
  <2>2. CASE SyncStep
    <3>1. synced' = dir
      BY Zenon, <2>2 DEF SyncStep, OpenSynced, RestoreSynced, CleanupSynced, InitialSynced, UpdateFirstSynced,
         UpdateFinalSynced, CleanupTemporarySynced, DeleteSynced, finish_reconciled_delete_state, SyncDirectory
    <3>2. synced' \in Directory /\ Sound(Value(synced), synced')
      BY Zenon, <3>1 DEF IInv, TypeOK, Soundness
    <3> QED BY Zenon, <3>2, LegalIsStep DEF Sound
  <2>3. CASE PowerLoss
    <3>1. synced' \in disk
      BY Zenon, <2>3 DEF PowerLoss
    <3>2. synced' \in Directory /\ Sound(Value(synced), synced')
      BY Zenon, <3>1 DEF IInv, TypeOK, Soundness
    <3> QED BY Zenon, <3>2, LegalIsStep DEF Sound
  <2>4. CASE Next
    <3>1. SyncStep \/ PowerLoss \/ UNCHANGED synced
      BY Zenon, <2>4, StepKinds DEF StillStep, Open, recover_interrupted_bound_delete, cleanup_stale_temporaries,
         load, Drop, create, advance, WriteTemporary, Change, TemporarySynced, publish_initial, publish_update,
         DetachRecord, UnlinkDetached, ReadStep, LookUnlocked, LockShared, LookLocked, StopReading, Inspect, writing
    <3> QED BY Zenon, <2>1, <2>2, <2>3, <3>1
  <2>5. CASE UNCHANGED vars
    BY Zenon, <2>1, <2>5 DEF vars
  <2> QED BY Zenon, <2>4, <2>5
<1> QED BY <1>1, <1>2, Inductive, PTL DEF Spec, ImplementsJournal, Journal!Spec
=============================================================================
