----------------------------- MODULE JournalStore -----------------------------
(***************************************************************************)
(* The file protocol of TransitionJournalStore in .cast/journal: how one   *)
(* canonical record is created, exchanged for its successor and deleted    *)
(* through temporary files, renames and directory syncs, under an          *)
(* exclusive lock, while processes die and power fails at any step.        *)
(*                                                                         *)
(* `dir` is the directory the kernel shows.  `disk` is the set of the      *)
(* directories that power loss can leave behind: each unlink or rename     *)
(* since the last directory sync is either there or not.  A file whose     *)
(* data was not synced before power loss cannot be decoded afterwards.     *)
(*                                                                         *)
(* A caller gives the store up after any error, so there is never more     *)
(* than one temporary and the next open removes it.  Writers that bypass   *)
(* the lock, which the inode comparisons of the code detect, are not       *)
(* modelled.                                                               *)
(***************************************************************************)
EXTENDS TransitionRecord

CONSTANTS Proc,    \* processes that open the journal to write it
          Reader,  \* read-only clients, which only look whether it is clean
          Record   \* the records that callers build

ASSUME RecordAssumption ==
  /\ Record \subseteq TransitionRecord
  /\ \A r \in Record : r.version = 3

File == [record : TransitionRecord, synced : BOOLEAN]

ASSUME AbsenceAssumption ==
  /\ None \notin Proc
  /\ None \notin File

VARIABLES dir,       \* the journal directory
          disk,      \* what power loss may leave of it
          synced,    \* the directory as it was last synced
          holder,    \* the process that holds the lock, or None
          pc,        \* where the holder's call is
          next,      \* the record that call publishes; None when it deletes
          known,     \* the record each process last read or wrote
          reading    \* how far each reader's inspection is

writing == <<dir, disk, synced, holder, pc, next, known>>

vars == <<dir, disk, synced, holder, pc, next, known, reading>>

Directory ==
  [canonical : File \cup {None}, temporary : File \cup {None}, residue : File \cup {None}]

Step ==
  {"closed", "locked", "recovering", "restored", "cleaning", "cleaned", "ready",
   "written", "flushed", "published", "exchanged", "displaced", "unlinked",
   "discarded", "detached", "removed", "reattached"}

TypeOK ==
  /\ dir \in Directory
  /\ disk \subseteq Directory
  /\ synced \in Directory
  /\ holder \in Proc \cup {None}
  /\ pc \in Step
  /\ next \in TransitionRecord \cup {None}
  /\ known \in [Proc -> TransitionRecord \cup {None}]
  /\ reading \in [Reader -> {"none", "looked", "locked", "clean"}]
  /\ holder = None <=> pc = "closed"

EmptyDirectory == [canonical |-> None, temporary |-> None, residue |-> None]

Init ==
  /\ dir = EmptyDirectory
  /\ disk = {EmptyDirectory}
  /\ synced = EmptyDirectory
  /\ holder = None
  /\ pc = "closed"
  /\ next = None
  /\ known = [p \in Proc |-> None]
  /\ reading = [q \in Reader |-> "none"]

-----------------------------------------------------------------------------
(* Changes of a directory.  One that was lost leaves the ones after it      *)
(* nothing to act on.                                                       *)

LinkTemporary(d, record) == [d EXCEPT !.temporary = [record |-> record, synced |-> FALSE]]

FlushTemporary(d) == IF d.temporary = None THEN d ELSE [d EXCEPT !.temporary.synced = TRUE]

UnlinkTemporary(d) == [d EXCEPT !.temporary = None]

\* renameat2(temporary, canonical, RENAME_NOREPLACE)
RenameToCanonical(d) ==
  IF d.temporary # None /\ d.canonical = None
  THEN [d EXCEPT !.canonical = d.temporary, !.temporary = None]
  ELSE d

\* renameat2(temporary, canonical, RENAME_EXCHANGE)
ExchangeCanonical(d) ==
  IF d.temporary # None /\ d.canonical # None
  THEN [d EXCEPT !.canonical = d.temporary, !.temporary = d.canonical]
  ELSE d

\* renameat2(canonical, private residue name, RENAME_NOREPLACE) and back.
DetachCanonical(d) ==
  IF d.canonical # None /\ d.residue = None
  THEN [d EXCEPT !.canonical = None, !.residue = d.canonical]
  ELSE d

RestoreResidue(d) ==
  IF d.residue # None /\ d.canonical = None
  THEN [d EXCEPT !.canonical = d.residue, !.residue = None]
  ELSE d

UnlinkResidue(d) == [d EXCEPT !.residue = None]

\* A change that the next directory sync makes durable.
Change(op(_)) ==
  /\ dir' = op(dir)
  /\ disk' = disk \cup {op(d) : d \in disk}
  /\ UNCHANGED synced

SyncDirectory ==
  /\ UNCHANGED dir
  /\ disk' = {dir}
  /\ synced' = dir

At(from, to) == pc = from /\ pc' = to

KeepCaller == UNCHANGED <<holder, next, known, reading>>

\* The holder's call succeeds, and it knows what the journal now holds.
Return ==
  /\ pc' = "ready"
  /\ known' = [known EXCEPT ![holder] = next]
  /\ next' = None
  /\ UNCHANGED <<holder, reading>>

\* The holder's call fails and the caller drops its store and with it the lock.
GiveUp ==
  /\ pc' = "closed"
  /\ holder' = None
  /\ next' = None
  /\ UNCHANGED <<known, reading>>

-----------------------------------------------------------------------------
(* Opening: the lock, then an interrupted deletion, then stale temporaries *)

\* open_and_lock waits for the lock, which readers share, and ends in a
\* directory sync.
Open(p) ==
  /\ holder = None
  /\ \A q \in Reader : reading[q] \notin {"locked", "clean"}
  /\ holder' = p
  /\ pc' = "locked"
  /\ UNCHANGED <<dir, disk, synced, next, known, reading>>

OpenSynced ==
  /\ At("locked", "recovering")
  /\ SyncDirectory
  /\ KeepCaller

\* The one inventory in which open restores the residue of a deletion: the
\* residue alone, whole, and terminal.  With any other open fails for good.
delete_residue_inventory(d) ==
  /\ d.canonical = None
  /\ d.temporary = None
  /\ d.residue.synced
  /\ validate(d.residue.record)
  /\ deletable(d.residue.record.phase)

recover_interrupted_bound_delete ==
  \/ /\ At("recovering", "restored")
     /\ dir.residue # None
     /\ delete_residue_inventory(dir)
     /\ Change(RestoreResidue)
     /\ KeepCaller
  \/ /\ At("recovering", "cleaning")
     /\ dir.residue = None
     /\ UNCHANGED <<dir, disk, synced>>
     /\ KeepCaller

RestoreSynced ==
  /\ At("restored", "cleaning")
  /\ SyncDirectory
  /\ KeepCaller

cleanup_stale_temporaries ==
  \/ /\ At("cleaning", "cleaned")
     /\ dir.temporary # None
     /\ Change(UnlinkTemporary)
     /\ KeepCaller
  \/ /\ At("cleaning", "ready")
     /\ dir.temporary = None
     /\ UNCHANGED <<dir, disk, synced>>
     /\ KeepCaller

CleanupSynced ==
  /\ At("cleaned", "ready")
  /\ SyncDirectory
  /\ KeepCaller

-----------------------------------------------------------------------------
(* Reading and publishing *)

\* The record that load() decodes; an error for a file that was torn.
CanonicalRecord(d) == IF d.canonical = None THEN None ELSE d.canonical.record

load ==
  /\ pc = "ready"
  /\ dir.canonical # None => dir.canonical.synced
  /\ known' = [known EXCEPT ![holder] = CanonicalRecord(dir)]
  /\ UNCHANGED <<dir, disk, synced, holder, pc, next, reading>>

\* create_temporary and write_all for the record to publish.
WriteTemporary(record) ==
  /\ pc' = "written"
  /\ next' = record
  /\ Change(LAMBDA d : LinkTemporary(d, record))
  /\ UNCHANGED <<holder, known, reading>>

create(record) ==
  /\ pc = "ready"
  /\ validate(record)
  /\ record.generation = 1
  /\ record.phase = "Preparing"
  /\ record.rollback = None
  /\ dir.canonical = None
  /\ WriteTemporary(record)

\* Mutant: the expected record is not compared with the stored one.
advance_blind(record) ==
  /\ pc = "ready"
  /\ dir.canonical # None
  /\ known[holder] # None
  /\ validate_advance(known[holder], record)
  /\ WriteTemporary(record)

\* The caller's expected record is compared with the stored one.
advance(record) ==
  /\ pc = "ready"
  /\ dir.canonical # None
  /\ dir.canonical.record = known[holder]
  /\ validate_advance(known[holder], record)
  /\ WriteTemporary(record)

\* Mutant: the record is renamed before its data is synced.
TemporarySynced_skipped ==
  /\ At("written", "flushed")
  /\ UNCHANGED <<dir, disk, synced>>
  /\ KeepCaller

TemporarySynced ==
  /\ At("written", "flushed")
  /\ dir' = FlushTemporary(dir)
  /\ disk' = {FlushTemporary(d) : d \in disk}
  /\ UNCHANGED synced
  /\ KeepCaller

publish_initial ==
  /\ At("flushed", "published")
  /\ dir.canonical = None
  /\ Change(RenameToCanonical)
  /\ KeepCaller

InitialSynced ==
  /\ pc = "published"
  /\ SyncDirectory
  /\ Return

\* Mutant: the old record is unlinked and the new one renamed in its place.
publish_update_unlinking ==
  /\ At("flushed", "exchanged")
  /\ dir.canonical # None
  /\ dir' = ExchangeCanonical(dir)
  /\ disk' = disk \cup {[d EXCEPT !.canonical = None] : d \in disk} \cup {ExchangeCanonical(d) : d \in disk}
  /\ UNCHANGED synced
  /\ KeepCaller

publish_update ==
  /\ At("flushed", "exchanged")
  /\ dir.canonical # None
  /\ Change(ExchangeCanonical)
  /\ KeepCaller

UpdateFirstSynced ==
  /\ At("exchanged", "displaced")
  /\ SyncDirectory
  /\ KeepCaller

UnlinkDisplaced ==
  /\ At("displaced", "unlinked")
  /\ Change(UnlinkTemporary)
  /\ KeepCaller

\* Mutant: the unlink of the displaced record is not synced.
UpdateFinalSynced_skipped ==
  /\ pc = "unlinked"
  /\ UNCHANGED <<dir, disk, synced>>
  /\ Return

UpdateFinalSynced ==
  /\ pc = "unlinked"
  /\ SyncDirectory
  /\ Return

\* Writing, syncing or renaming the temporary failed, or the deadline of
\* advance_record_binding_until passed before the exchange.
cleanup_temporary ==
  /\ pc \in {"written", "flushed"}
  /\ pc' = "discarded"
  /\ Change(UnlinkTemporary)
  /\ KeepCaller

CleanupTemporarySynced ==
  /\ pc = "discarded"
  /\ SyncDirectory
  /\ GiveUp

-----------------------------------------------------------------------------
(* Deleting a terminal record *)

\* Mutant: a record that is not terminal can be deleted.
DetachRecord_any ==
  /\ At("ready", "detached")
  /\ dir.canonical # None
  /\ dir.canonical.record = known[holder]
  /\ validate(known[holder])
  /\ Change(DetachCanonical)
  /\ KeepCaller

\* delete_record_binding: the canonical name is renamed to a private one ...
DetachRecord ==
  /\ At("ready", "detached")
  /\ dir.canonical # None
  /\ dir.canonical.record = known[holder]
  /\ validate(known[holder])
  /\ deletable(known[holder].phase)
  /\ dir.temporary = None
  /\ dir.residue = None
  /\ Change(DetachCanonical)
  /\ KeepCaller

\* ... the private name is unlinked, whatever the rename reported ...
UnlinkDetached ==
  /\ At("detached", "removed")
  /\ Change(UnlinkResidue)
  /\ KeepCaller

\* ... and the directory is synced.
DeleteSynced ==
  /\ pc = "removed"
  /\ SyncDirectory
  /\ Return

\* The unlink failed: the record is put back and the deletion is an error.
reconcile_private_unlink_failure ==
  /\ At("detached", "reattached")
  /\ Change(RestoreResidue)
  /\ KeepCaller

finish_reconciled_delete_state ==
  /\ pc = "reattached"
  /\ SyncDirectory
  /\ GiveUp

-----------------------------------------------------------------------------
(* Read-only clients: CleanReadOnlyJournal::inspect *)

Inspect(q, from, to) ==
  /\ reading[q] = from
  /\ reading' = [reading EXCEPT ![q] = to]
  /\ UNCHANGED writing

\* require_exact_clean_entries before the lock, which keeps a reader from
\* locking a journal in use ...
LookUnlocked(q) ==
  /\ dir = EmptyDirectory
  /\ Inspect(q, "none", "looked")

\* ... flock_shared_nonblocking ...
LockShared(q) ==
  /\ holder = None
  /\ Inspect(q, "looked", "locked")

\* ... and require_exact_clean_entries again.
LookLocked(q) ==
  /\ dir = EmptyDirectory
  /\ Inspect(q, "locked", "clean")

\* The inspection is refused, or the client closes.
StopReading(q) ==
  /\ reading[q] # "none"
  /\ Inspect(q, reading[q], "none")

-----------------------------------------------------------------------------
(* Failures *)

\* The holder closes the store, or a call fails with nothing cleaned up, or
\* the process dies.  It may come back with what it knew, which is then old.
Drop ==
  /\ holder # None
  /\ GiveUp
  /\ UNCHANGED <<dir, disk, synced>>

PowerLoss ==
  \E d \in disk :
    /\ dir' = d
    /\ disk' = {d}
    /\ synced' = d
    /\ holder' = None
    /\ pc' = "closed"
    /\ next' = None
    /\ known' = [p \in Proc |-> None]
    /\ reading' = [q \in Reader |-> "none"]

Opening ==
  \/ OpenSynced
  \/ recover_interrupted_bound_delete
  \/ RestoreSynced
  \/ cleanup_stale_temporaries
  \/ CleanupSynced

Publishing ==
  \/ TemporarySynced
  \/ publish_initial
  \/ InitialSynced
  \/ publish_update
  \/ UpdateFirstSynced
  \/ UnlinkDisplaced
  \/ UpdateFinalSynced
  \/ cleanup_temporary
  \/ CleanupTemporarySynced

Deleting ==
  \/ DetachRecord
  \/ UnlinkDetached
  \/ DeleteSynced
  \/ reconcile_private_unlink_failure
  \/ finish_reconciled_delete_state

Next ==
  \/ \E p \in Proc : Open(p)
  \/ Opening
  \/ load
  \/ \E record \in Record : create(record) \/ advance(record)
  \/ Publishing
  \/ Deleting
  \/ \E q \in Reader : LookUnlocked(q) \/ LockShared(q) \/ LookLocked(q) \/ StopReading(q)
  \/ Drop
  \/ PowerLoss

Spec == Init /\ [][Next]_vars

-----------------------------------------------------------------------------
(* Properties *)

\* Whatever power loss leaves under the canonical name or the deletion
\* residue can be decoded: the data of a record is synced (publish_record_inode)
\* before any rename gives it one of those names.
SurvivorsAreWhole ==
  \A d \in disk :
    /\ d.canonical # None => d.canonical.synced
    /\ d.residue # None => d.residue.synced

\* The next open can always proceed: no crash and no failed call, of a
\* deletion, of an update or of an earlier recovery, leaves a deletion residue
\* beside another entry, which recover_interrupted_bound_delete refuses.
OpenAdmits ==
  \A d \in disk \cup {dir} : d.residue # None => delete_residue_inventory(d)

\* The value of the journal in a directory, as the next writer will find it.
Value(d) ==
  IF d.canonical # None THEN d.canonical.record
  ELSE IF d.residue # None THEN d.residue.record
  ELSE None

\* After a failed call or a crash the journal holds the record it held before
\* or the one being published, never a third: this is what lets startup
\* reconcile by comparing with exactly those two.
OldOrNew ==
  \A d \in disk : Value(d) \in {Value(synced), Value(dir)}

\* What a call has acknowledged survives power loss: when the store is ready
\* nothing is left to sync, and no temporary or residue remains.
AcknowledgedIsDurable ==
  pc = "ready" =>
    /\ disk = {dir}
    /\ dir.temporary = None
    /\ dir.residue = None

\* A read-only client that was admitted keeps a journal without a transition
\* in sight for as long as it lives, although it looked before it had the lock.
ReaderStaysClean ==
  (\E q \in Reader : reading[q] = "clean") => dir = EmptyDirectory

Journal == INSTANCE TransitionJournal WITH journal <- Value(synced)

\* The file protocol implements the register of TransitionJournal: the value
\* at the last directory sync changes only by create, by one legal advance from
\* the record it holds and by the deletion of a terminal record, whoever
\* opened the journal in between and whatever that caller still remembers.
ImplementsJournal == Journal!Spec
=============================================================================
