--------------------------- MODULE StateArchives ----------------------------
(***************************************************************************)
(* Operations on archived states that run to their end in one process: the *)
(* removal of archived states and the repair of an archived state.  The    *)
(* parts of this module and the transition share the database, the boot    *)
(* volume and the disk, and a behaviour exercises one of them.             *)
(***************************************************************************)
EXTENDS StateTransitions, Sequences, SequencesExt, TLC

CONSTANTS
    s1, s2, s3,          \* model values
    PruneArchived,       \* ids of the archived states
    PruneActive,         \* the active state
    Created,             \* creation time of each state
    MaxRollback,         \* MAX_ROLLBACK_STATES
    MaxBatch,            \* MAX_ARCHIVED_STATE_PRUNE_BATCH
    MaxOutside           \* bound on the renames and database changes of others

VARIABLES
    at,          \* where the wrapper of each archived state is
    slot,        \* the archived states that have a private slot in the quarantine
    bootloader,  \* whether the head state ships bootloader files
    existing,    \* ArchiveBaseline: roots/<id> existed when the repair was prepared
    names,       \* the wrapper under each of the three names
    intact,      \* the candidate has the marker and the state id it was prepared with
    semantic,    \* journal, database and live tree are as they were
    outside,     \* the number of outside changes so far
    moved,       \* the renames of this repair that took effect
    r            \* the running repair: step, retries and the first error

StateVars == <<subject, ns, disk, rows, boot, t, last, at, slot, bootloader, op, existing, names, intact,
               semantic, outside, moved, r>>

-----------------------------------------------------------------------------
(***************************************************************************)
(* prune_states: archived states lose, in this order, their wrapper (moved *)
(* to a private slot of the quarantine), their boot entries, their rows    *)
(* and then their files.  A failure before the rows are gone moves the     *)
(* wrappers back, writes the boot entries again and retires the slots.     *)
(* No intent is recorded: a slot that is still named state-prune-* is the  *)
(* only trace of an interrupted prune, and every later start refuses it    *)
(* (audit_archived_state_prune_residue).                                   *)
(*                                                                         *)
(* Any call may fail, the process may die and power may fail between any   *)
(* two steps.  The boot manager is external: when it fails, any part of    *)
(* the new projection may be on the boot volume.                           *)
(***************************************************************************)
\* rows: the states in the state database
\* disk: wrapper and slot of each archived state at the last sync
\* boot: the states with an entry on the boot volume
\* last: how the last one ended and what the boot volume held before

ASSUME StatesAssumption ==
    /\ PruneArchived \subseteq Int /\ PruneActive \in Int \ PruneArchived
    /\ Created \in [PruneArchived \cup {PruneActive} -> Int]
    /\ MaxRollback \in Nat \ {0} /\ MaxBatch \in Nat \ {0}

Place == {"roots", "slot", "draining", "gone"}
PruneIdle == [step |-> "idle", batch |-> <<>>, i |-> 0, project |-> FALSE]

(* The entries of a projection: the head and the most recently created of the
   states that are not excluded, ties by id, after the pinned previous one. *)
select_rollback_state_ids_excluding(previous, candidates, excluded) ==
    LET pinned == {previous} \ (excluded \cup {None, PruneActive})
        others == candidates \ (excluded \cup pinned \cup {PruneActive})
        Newer(a, b) == Created[a] > Created[b] \/ (Created[a] = Created[b] /\ a > b)
    IN  pinned \cup {s \in others : Cardinality({o \in others : Newer(o, s)}) < MaxRollback - Cardinality(pinned)}

boot_state_is_eligible(s, excluded) == s \notin excluded /\ (s = PruneActive \/ at[s] = "roots")

Projection(previous, excluded) ==
    {s \in {PruneActive} \cup select_rollback_state_ids_excluding(previous, rows, excluded) : boot_state_is_eligible(s, excluded)}

PruneTypeOK ==
    /\ rows \subseteq PruneArchived \cup {PruneActive} /\ PruneActive \in rows
    /\ at \in [PruneArchived -> Place] /\ slot \subseteq PruneArchived
    /\ disk \in [PruneArchived -> [at : Place, slot : BOOLEAN]]
    /\ boot \subseteq PruneArchived \cup {PruneActive} /\ bootloader \in BOOLEAN
    /\ Range(op.batch) \subseteq PruneArchived /\ op.i \in 0..Len(op.batch) + 1 /\ op.project \in BOOLEAN

(* A system whose last activation wrote the boot volume: with its previous
   state pinned, or, when this head has no bootloader files, under an older head. *)
PruneInit ==
    /\ rows = PruneArchived \cup {PruneActive}
    /\ at = [s \in PruneArchived |-> "roots"] /\ slot = {}
    /\ disk = [s \in PruneArchived |-> [at |-> "roots", slot |-> FALSE]]
    /\ bootloader \in BOOLEAN
    /\ boot \in IF bootloader THEN {Projection(p, {}) : p \in PruneArchived \cup {None}} ELSE SUBSET rows
    /\ op = PruneIdle
    /\ last = [result |-> "none", boot |-> boot]

-----------------------------------------------------------------------------
Batch == Range(op.batch)
Now == op.batch[op.i]
PruneGoto(step, i) == op' = [op EXCEPT !.step = step, !.i = i]
PruneEndWith(result) == op' = PruneIdle /\ last' = [last EXCEPT !.result = result]
Synced(s) == disk' = [disk EXCEPT ![s] = [at |-> at[s], slot |-> s \in slot]]
QuarantineSynced(s) == disk' = [disk EXCEPT ![s].slot = s \in slot]
Ascending(S) == SetToSortSeq(S, <)

(* prune_states_inner: the states to remove, by list or all but the most
   recent; a list that names the active state is refused. *)
removal_ids(keep, include_newer) ==
    LET candidates == {s \in rows \ {PruneActive} : include_newer \/ s < PruneActive}
        limit == IF keep = 0 THEN 0 ELSE keep - 1
        Older(a, b) == Created[a] < Created[b] \/ (Created[a] = Created[b] /\ a < b)
    IN  {s \in candidates : Cardinality({o \in candidates : Older(o, s)}) < Cardinality(candidates) - limit}

PruneBegin(removals) ==
    /\ op = PruneIdle /\ slot = {}
    /\ removals # {} /\ removals \subseteq rows \ {PruneActive} /\ Cardinality(removals) <= MaxBatch
    /\ op' = [step |-> "prepare", batch |-> Ascending(removals), i |-> 1, project |-> FALSE]
    /\ last' = [result |-> "running", boot |-> boot]
    /\ UNCHANGED <<rows, at, slot, disk, boot, bootloader>>

(* prepare_one: the wrapper is authenticated under its name and a private slot
   is created, then synced. *)
prepare_one ==
    /\ op.step = "prepare" /\ op.i <= Len(op.batch)
    /\ at[Now] = "roots"
    /\ slot' = slot \cup {Now}
    /\ PruneGoto("prepare_sync", op.i)
    /\ UNCHANGED <<rows, at, disk, boot, bootloader, last>>

PrepareSync ==
    /\ op.step = "prepare_sync"
    /\ QuarantineSynced(Now)
    /\ PruneGoto("prepare", op.i + 1)
    /\ UNCHANGED <<rows, at, slot, boot, bootloader, last>>

(* The preparation fails: retire_prepared_reservations, newest first. *)
PrepareFails ==
    /\ op.step \in {"prepare", "prepare_sync"} /\ op.i <= Len(op.batch)
    /\ PruneGoto("retire", IF op.step = "prepare" THEN op.i - 1 ELSE op.i)
    /\ UNCHANGED <<rows, at, slot, disk, boot, bootloader, last>>

(* The active state is still the one that was captured. *)
revalidate_active_state ==
    /\ \/ op.step = "prepare" /\ op.i > Len(op.batch) /\ PruneGoto("detach", 1)
       \/ op.step = "detach" /\ op.i > Len(op.batch) /\ PruneGoto("boot", 0)
       \/ op.step = "projected" /\ PruneGoto("rows", 0)
    /\ UNCHANGED <<rows, at, slot, disk, boot, bootloader, last>>

(* detach_one: the wrapper moves from roots into its slot; then roots, slot
   and quarantine are synced. *)
detach_one ==
    /\ op.step = "detach" /\ op.i <= Len(op.batch)
    /\ at' = [at EXCEPT ![Now] = "slot"]
    /\ PruneGoto("detach_sync", op.i)
    /\ UNCHANGED <<rows, slot, disk, boot, bootloader, last>>

finish_detach_suffix ==
    /\ op.step = "detach_sync"
    /\ Synced(Now)
    /\ PruneGoto("detach", op.i + 1)
    /\ UNCHANGED <<rows, at, slot, boot, bootloader, last>>

(* A failed revalidation or detachment before the boot volume is touched. *)
restore_archives_before_boot_change ==
    /\ \/ op.step = "prepare" /\ op.i > Len(op.batch)
       \/ op.step \in {"detach", "detach_sync"}
    /\ PruneGoto("restore", Len(op.batch))
    /\ UNCHANGED <<rows, at, slot, disk, boot, bootloader, last>>

(* boot::synchronize_excluding: an exact projection without the batch. *)
synchronize_excluding ==
    /\ op.step = "boot"
    /\ boot' = Projection(None, Batch)
    /\ PruneGoto("projected", 0)
    /\ UNCHANGED <<rows, at, slot, disk, bootloader, last>>

(* A boot manager that failed may have written any part of the projection. *)
Between(old, new) == {b \in SUBSET (old \cup new) : old \cap new \subseteq b}

SynchronizeFails ==
    /\ op.step = "boot"
    /\ boot' \in Between(boot, Projection(None, Batch))
    /\ op' = [op EXCEPT !.step = "restore", !.i = Len(op.batch), !.project = TRUE]
    /\ UNCHANGED <<rows, at, slot, disk, bootloader, last>>

(* remove_database_rows: one transaction for the whole batch. *)
remove_database_rows ==
    /\ op.step = "rows"
    /\ rows' = rows \ Batch
    /\ PruneGoto("delete", 1)
    /\ UNCHANGED <<at, slot, disk, boot, bootloader, last>>

(* The active state changed after the projection, or the transaction was
   definitely not applied: wrappers and boot entries are restored. *)
restore_archives_and_boot_after_failure ==
    /\ op.step \in {"projected", "rows"}
    /\ op' = [op EXCEPT !.step = "restore", !.i = Len(op.batch), !.project = TRUE]
    /\ UNCHANGED <<rows, at, slot, disk, boot, bootloader, last>>

(* Any other failure around the transaction, applied or not, ends the prune
   with everything left in quarantine. *)
RowsUncertain ==
    /\ op.step = "rows"
    /\ rows' \in {rows, rows \ Batch}
    /\ PruneEndWith("stranded")
    /\ UNCHANGED <<at, slot, disk, boot, bootloader>>

-----------------------------------------------------------------------------
(* delete_one: the files of the wrapper are drained, the wrapper is removed
   and its slot retired, each change followed by a sync. *)
drain_directory ==
    /\ op.step = "delete" /\ op.i <= Len(op.batch) /\ at[Now] = "slot"
    /\ at' = [at EXCEPT ![Now] = "draining"]
    /\ UNCHANGED <<rows, slot, disk, boot, bootloader, op, last>>

unlink_private_node ==
    /\ op.step = "delete" /\ op.i <= Len(op.batch) /\ at[Now] = "draining"
    /\ at' = [at EXCEPT ![Now] = "gone"]
    /\ disk' = [disk EXCEPT ![Now].at = "gone"]
    /\ UNCHANGED <<rows, slot, boot, bootloader, op, last>>

RetireDeleted ==
    /\ op.step = "delete" /\ op.i <= Len(op.batch) /\ at[Now] = "gone"
    /\ slot' = slot \ {Now}
    /\ PruneGoto("delete_sync", op.i)
    /\ UNCHANGED <<rows, at, disk, boot, bootloader, last>>

DeleteSync ==
    /\ op.step = "delete_sync"
    /\ QuarantineSynced(Now)
    /\ PruneGoto("delete", op.i + 1)
    /\ UNCHANGED <<rows, at, slot, boot, bootloader, last>>

Pruned ==
    /\ op.step = "delete" /\ op.i > Len(op.batch)
    /\ PruneEndWith("pruned")
    /\ UNCHANGED <<rows, at, slot, disk, boot, bootloader>>

-----------------------------------------------------------------------------
(* restore_one, last state first; a wrapper that never moved is only synced. *)
restore_one ==
    /\ op.step = "restore" /\ op.i > 0
    /\ at' = [at EXCEPT ![Now] = "roots"]
    /\ PruneGoto("restore_sync", op.i)
    /\ UNCHANGED <<rows, slot, disk, boot, bootloader, last>>

\* Mutant: the parents are not synced after a wrapper moved back.
finish_restore_suffix_unsynced ==
    /\ op.step = "restore_sync"
    /\ PruneGoto("restore", op.i - 1)
    /\ UNCHANGED <<rows, at, slot, disk, boot, bootloader, last>>

finish_restore_suffix ==
    /\ op.step = "restore_sync"
    /\ Synced(Now)
    /\ PruneGoto("restore", op.i - 1)
    /\ UNCHANGED <<rows, at, slot, boot, bootloader, last>>

(* boot::synchronize with no pinned state: nothing is written when the head has
   no bootloader files. *)
prune_synchronize ==
    /\ op.step = "restore" /\ op.i = 0 /\ op.project
    /\ boot' = IF bootloader THEN Projection(None, {}) ELSE boot
    /\ op' = [op EXCEPT !.step = "retire", !.i = Len(op.batch), !.project = FALSE]
    /\ UNCHANGED <<rows, at, slot, disk, bootloader, last>>

RestoredUnprojected ==
    /\ op.step = "restore" /\ op.i = 0 /\ ~op.project
    /\ PruneGoto("retire", Len(op.batch))
    /\ UNCHANGED <<rows, at, slot, disk, boot, bootloader, last>>

(* A step of the restoration fails: the slots stay as evidence. *)
RestoreFails ==
    /\ op.step \in {"restore", "restore_sync"}
    /\ boot' \in IF op.step = "restore" /\ op.i = 0 /\ op.project /\ bootloader
                   THEN Between(boot, Projection(None, {})) ELSE {boot}
    /\ PruneEndWith("stranded")
    /\ UNCHANGED <<rows, at, slot, disk, bootloader>>

(* remove_exact_private_directory of an empty slot, last state first; one that
   fails or is not empty is skipped. *)
retire_reservation ==
    /\ op.step = "retire" /\ op.i > 0 /\ at[Now] = "roots"
    /\ slot' = slot \ {Now}
    /\ PruneGoto("retire_sync", op.i)
    /\ UNCHANGED <<rows, at, disk, boot, bootloader, last>>

RetireSync ==
    /\ op.step = "retire_sync"
    /\ QuarantineSynced(Now)
    /\ PruneGoto("retire", op.i - 1)
    /\ UNCHANGED <<rows, at, slot, boot, bootloader, last>>

RetireSkipped ==
    /\ op.step \in {"retire", "retire_sync"} /\ op.i > 0
    /\ PruneGoto("retire", op.i - 1)
    /\ UNCHANGED <<rows, at, slot, disk, boot, bootloader, last>>

Retired ==
    /\ op.step = "retire" /\ op.i = 0
    /\ PruneEndWith("failed")
    /\ UNCHANGED <<rows, at, slot, disk, boot, bootloader>>

-----------------------------------------------------------------------------
(* The process dies, or a deletion returns its error. *)
PruneKill ==
    /\ op # PruneIdle
    /\ PruneEndWith("stranded")
    /\ UNCHANGED <<rows, at, slot, disk, boot, bootloader>>

(* Power fails: each change that was not synced is kept or lost. *)
PrunePowerLoss ==
    /\ \E moved1, named \in SUBSET PruneArchived :
         /\ at' = [s \in PruneArchived |-> IF s \in moved1 THEN at[s] ELSE disk[s].at]
         /\ slot' = {s \in PruneArchived : IF s \in named THEN s \in slot ELSE disk[s].slot}
    /\ disk' = [s \in PruneArchived |-> [at |-> at'[s], slot |-> s \in slot']]
    /\ PruneEndWith("stranded")
    /\ UNCHANGED <<rows, boot, bootloader>>

PruneForward ==
    \/ prepare_one \/ PrepareSync \/ revalidate_active_state
    \/ detach_one \/ finish_detach_suffix \/ synchronize_excluding \/ remove_database_rows
    \/ drain_directory \/ unlink_private_node \/ RetireDeleted \/ DeleteSync \/ Pruned

Backward ==
    \/ PrepareFails \/ restore_archives_before_boot_change \/ SynchronizeFails
    \/ restore_archives_and_boot_after_failure \/ RowsUncertain
    \/ restore_one \/ finish_restore_suffix \/ prune_synchronize \/ RestoredUnprojected \/ RestoreFails
    \/ retire_reservation \/ RetireSync \/ RetireSkipped \/ Retired

PruneNext ==
    \/ \E removals \in SUBSET PruneArchived : PruneBegin(removals)
    \/ \E keep \in 0..Cardinality(rows), newer \in BOOLEAN : PruneBegin(removal_ids(keep, newer))
    \/ PruneForward \/ Backward \/ PruneKill \/ PrunePowerLoss

-----------------------------------------------------------------------------
Clean == op = PruneIdle /\ slot = {}

(* When nothing runs and no slot is left for startup to refuse, every state
   that has a row has its whole wrapper under its name and no other state has
   one: an interrupted or failed prune is invisible, complete or refused
   (prune_states_inner, audit_archived_state_prune_residue). *)
CleanIsConsistent == subject = "prune" =>
    (Clean => \A s \in PruneArchived : IF s \in rows THEN at[s] = "roots" ELSE at[s] = "gone")

(* No file of a wrapper is deleted while its state still has a row: until the
   transaction commits the prune can be undone (delete_detached). *)
DeletionFollowsCommit == subject = "prune" =>
    (\A s \in PruneArchived : at[s] \in {"draining", "gone"} => s \notin rows)

(* The boot menu offers no state without a row, at any time; and when nothing
   runs and nothing is refused, none without its tree: entries go before rows,
   wrappers come back before entries (synchronize_excluding). *)
BootEntriesAreBacked == subject = "prune" =>
    /\ boot \subseteq rows
    /\ Clean => \A s \in boot \ {PruneActive} : at[s] = "roots"

-----------------------------------------------------------------------------
(***************************************************************************)
(* The repair of an archived state that verify found damaged.  A new tree  *)
(* is built in the fixed staging wrapper, an empty replacement wrapper is  *)
(* reserved in the quarantine, the transaction triggers run, and then two  *)
(* renames publish: staging goes to roots/<id>, and the replacement takes  *)
(* the staging name while the damaged wrapper, if there was one, takes the *)
(* quarantine name.  A repair that fails earlier moves its wrapper to the  *)
(* quarantine name instead.                                                *)
(*                                                                         *)
(* Three wrappers (cand, prev, repl) stand under three names.  Each rename *)
(* is issued once per look at the names; what it did is read off the names *)
(* afterwards, never from its return value alone.  An error is plain (an   *)
(* I/O error, a changed database), uncertain (the names are not the ones   *)
(* expected) or unstable (the names could not be read consistently).       *)
(* Outside renames among the three names, which the code reconciles, are   *)
(* the action Outside.  No journal: a killed repair is not resumed.        *)
(***************************************************************************)
\* disk: the names a power failure may leave

env == <<existing, intact, semantic, outside>>

Places == {"canonical", "staging", "quarantine"}
Errors == {"plain", "uncertain", "unstable"}
Outcomes == {"NotApplied", "Applied", "Ambiguous"}
Ends == [what : {"Published", "Preparation", "CandidatePreserved", "none"}, outcome : {"none"}]
        \cup [what : {"PublicationIncomplete", "PreservationIncomplete"}, outcome : Outcomes]

RepairSteps == {"metadata", "identity", "reserve", "finish_preparation", "retire", "triggers", "publish", "look", "preflight", "preflight_failed",
          "rename", "observe", "retry", "adopt", "finish", "finish_failed", "semantic", "end"}

RepairTypeOK ==
    /\ names \in [Places -> {"none", "cand", "prev", "repl"}] /\ names \in disk
    /\ r.step \in RepairSteps /\ r.move \in {"publish", "cleanup", "preserve"} /\ r.retries \in 0..1
    /\ r.error \in Errors \cup {"none"} /\ r.end \in Ends /\ (r.step = "end") = (r.end.what # "none")
    /\ outside \in 0..MaxOutside /\ moved \subseteq {"publish", "cleanup", "preserve"}

At(c, s, q) == [canonical |-> c, staging |-> s, quarantine |-> q]
Old == IF existing THEN "prev" ELSE "none"

(* RepairLayout of the three names. *)
classify_snapshot ==
    CASE names = At(Old, "cand", "repl") -> "Initial"
      [] names = At("cand", Old, "repl") -> "CandidateCanonical"
      [] names = At("cand", "repl", Old) -> "Complete"
      [] names = At(Old, "repl", "cand") -> "Preserved"
      [] OTHER -> "mismatch"

(* layout(): two passes over the names that agree, or an unstable error. *)
layout == {classify_snapshot, "unstable"}

RepairInit ==
    /\ existing \in BOOLEAN
    /\ names = At(Old, "cand", "none") /\ disk = {names}
    /\ intact = TRUE /\ semantic = TRUE /\ outside = 0 /\ moved = {}
    /\ r = [step |-> "metadata", move |-> "publish", retries |-> 0, error |-> "none", sys |-> FALSE, forced |-> FALSE, prior |-> FALSE,
            first |-> FALSE, end |-> [what |-> "none", outcome |-> "none"]]

-----------------------------------------------------------------------------
RepairStill == UNCHANGED <<names, disk, moved>>
RepairGoto(step) == r' = [r EXCEPT !.step = step]
Incomplete(what, outcome) == r' = [r EXCEPT !.step = "end", !.end = [what |-> what, outcome |-> outcome]]
RepairEndWith(what) == Incomplete(what, "none")
RepairRename(new) == names' = new /\ disk' = disk \cup {new}
RepairSync == disk' = {names} /\ UNCHANGED <<names, moved>>
Exchange(a, b) == [names EXCEPT ![a] = names[b], ![b] = names[a]]
Reset(move, step) == r' = [r EXCEPT !.move = move, !.step = step, !.retries = 0, !.error = "none"]

(* failure(outcome, source): a publication that was not applied goes on to
   preserve the candidate; publication errors after an outside publication
   found by a failed preflight are Applied. *)
preserve_failed_archived_repair == Reset("preserve", "semantic")
Fail(outcome) ==
    IF r.move = "preserve" THEN Incomplete("PreservationIncomplete", IF r.forced THEN "Applied" ELSE outcome)
    ELSE IF r.forced THEN Incomplete("PublicationIncomplete", "Applied")
    ELSE IF outcome = "NotApplied" THEN preserve_failed_archived_repair
    ELSE Incomplete("PublicationIncomplete", outcome)

uncertain(e) == e \in {"uncertain", "unstable"}

(* require_candidate_boundary: semantics, names and candidate, semantics; the
   error of the names wins. *)
require_candidate_boundary(expected) ==
    {"uncertain", "unstable"} \cup
    IF classify_snapshot # expected THEN {} ELSE {"plain"} \cup (IF semantic /\ intact THEN {"ok"} ELSE {})

(* require_preserved_boundary: the candidate's contents are not looked at. *)
require_preserved_boundary ==
    {"uncertain", "unstable"} \cup
    IF classify_snapshot # "Preserved" THEN {} ELSE {"plain"} \cup (IF semantic THEN {"ok"} ELSE {})

require_opaque_namespace(expected) == {"uncertain", "unstable"} \cup (IF classify_snapshot = expected THEN {"ok"} ELSE {})

Before == [publish |-> "Initial", cleanup |-> "CandidateCanonical", preserve |-> "Initial"]
After == [publish |-> "CandidateCanonical", cleanup |-> "Complete", preserve |-> "Preserved"]
Exact == [publish |-> "NotApplied", cleanup |-> "Applied", preserve |-> "NotApplied"]

-----------------------------------------------------------------------------
(* repair_archived_state up to the retained identity: an error leaves the
   candidate in staging. *)
record_state_id ==
    /\ r.step = "metadata"
    /\ RepairGoto("identity") \/ RepairEndWith("Preparation")
    /\ RepairStill /\ UNCHANGED env

(* prepare_candidate: clean baseline, expected state not active, exact staged
   wrapper, marker and state id, roots/<id> classified. *)
repair_prepare_candidate ==
    /\ r.step = "identity"
    /\ (RepairGoto("reserve") /\ semantic) \/ RepairEndWith("Preparation")
    /\ RepairStill /\ UNCHANGED env

reserve_replacement ==
    /\ r.step = "reserve"
    /\ \/ RepairGoto("finish_preparation") /\ RepairRename([names EXCEPT !.quarantine = "repl"]) /\ UNCHANGED moved
       \/ RepairEndWith("Preparation") /\ RepairStill
    /\ UNCHANGED env

finish_preparation ==
    /\ r.step = "finish_preparation"
    /\ \/ "ok" \in require_candidate_boundary("Initial") /\ RepairGoto("triggers") /\ RepairSync
       \/ RepairGoto("retire") /\ RepairStill
    /\ UNCHANGED env

(* One rmdir of the empty reservation, reconciled by name and link count; a
   reservation that is not there any more is not looked for. *)
retire_failed_preparation_reservation ==
    /\ r.step = "retire"
    /\ RepairEndWith("Preparation")
    /\ \/ names.quarantine = "repl" /\ RepairRename([names EXCEPT !.quarantine = "none"]) /\ UNCHANGED moved
       \/ RepairStill
    /\ UNCHANGED env

(* Metadata, root links and the transaction triggers, which may change the
   candidate; the snapshot is verified between them and at the end. *)
repair_archived_state ==
    /\ r.step = "triggers"
    /\ intact' \in BOOLEAN /\ RepairStill /\ UNCHANGED <<existing, semantic, outside>>
    /\ \/ "ok" \in require_candidate_boundary("Initial")' /\ RepairGoto("publish")
       \/ preserve_failed_archived_repair

(* publish(): the snapshot once more. *)
publish ==
    /\ r.step = "publish"
    /\ \E b \in require_candidate_boundary("Initial") :
         IF b = "ok" THEN Reset("publish", "look") ELSE Fail(IF uncertain(b) THEN "Ambiguous" ELSE "NotApplied")
    /\ RepairStill /\ UNCHANGED env

-----------------------------------------------------------------------------
(* The loop of publish_over_existing, publish_missing, cleanup_existing,
   cleanup_missing and preserve_failed_candidate. *)

(* The head of the loop: nothing is done that the names show done. *)
Look ==
    /\ r.step = "look"
    /\ \E l \in layout :
         CASE l = Before[r.move] -> RepairGoto("preflight")
           [] r.move # "preserve" /\ l = "Complete" -> Reset("cleanup", "finish")
           [] r.move = "publish" /\ l = "CandidateCanonical" -> Reset("cleanup", "look")
           [] r.move = "preserve" /\ l = "Preserved" -> RepairGoto("finish")
           [] r.move = "preserve" /\ l \in {"CandidateCanonical", "Complete"} -> Fail("Applied")
           [] OTHER -> Fail("Ambiguous")
    /\ RepairStill /\ UNCHANGED env

(* preflight_publication and preflight_cleanup: everything is synced and the
   boundary proved again. preflight_preservation: names only. *)
preflight ==
    /\ r.step = "preflight"
    /\ \/ \E b \in IF r.move = "preserve" THEN require_opaque_namespace("Initial") ELSE require_candidate_boundary(Before[r.move]) :
            /\ r' = [r EXCEPT !.step = IF b = "ok" THEN "rename" ELSE "preflight_failed", !.error = IF b = "ok" THEN "none" ELSE b,
                              !.prior = @ \/ (r.move = "preserve" /\ ~semantic)]
            /\ RepairSync
       \/ r' = [r EXCEPT !.step = "preflight_failed", !.error = "plain", !.prior = @ \/ (r.move = "preserve" /\ ~semantic)] /\ RepairStill
    /\ UNCHANGED env

(* The names after a failed preflight decide what it means. *)
preflight_failed ==
    /\ r.step = "preflight_failed"
    /\ \E l \in layout :
         CASE l = Before[r.move] -> RepairGoto("retry")
           [] r.error = "unstable" \/ l \in {"unstable", "mismatch"} -> Fail("Ambiguous")
           [] r.move = "publish" /\ l \in {"CandidateCanonical", "Complete"} ->
                r' = [r EXCEPT !.move = "cleanup", !.retries = 0, !.forced = TRUE, !.error = "none", !.step = "look"]
           [] r.move = "cleanup" /\ l = "Complete" -> RepairGoto("adopt")
           [] r.move = "preserve" /\ l = "Preserved" -> r' = [r EXCEPT !.forced = TRUE, !.error = "none", !.step = "finish"]
           [] r.move = "preserve" /\ l \in {"CandidateCanonical", "Complete"} -> Fail("Applied")
           [] OTHER -> Fail("Ambiguous")
    /\ RepairStill /\ UNCHANGED env

(* A cleanup that someone else completed. *)
adopt ==
    /\ r.step = "adopt"
    /\ \E b \in require_candidate_boundary("Complete") :
         IF b = "ok" THEN Reset("cleanup", "finish") ELSE Fail(IF uncertain(b) THEN "Ambiguous" ELSE "Applied")
    /\ RepairStill /\ UNCHANGED env

(* authorize_candidate_retry, candidate_failure_after_reconciliation and their
   counterparts for preservation: with the names of before, one more turn. *)
authorize_candidate_retry ==
    /\ r.step = "retry"
    /\ \E b \in IF r.move = "preserve" THEN require_opaque_namespace("Initial") ELSE require_candidate_boundary(Before[r.move]) :
         LET doubtful == IF r.move = "preserve" THEN r.error = "unstable" ELSE uncertain(r.error)
         IN  IF doubtful \/ uncertain(b) THEN Fail("Ambiguous")
             ELSE IF b = "ok" /\ r.retries = 0 THEN r' = [r EXCEPT !.step = "look", !.retries = 1, !.error = "none"]
             ELSE Fail(Exact[r.move])
    /\ RepairStill /\ UNCHANGED env

(* One rename, which may fail. *)
Renames(move, target) ==
    /\ r.step = "rename" /\ r.move = move
    /\ \/ r' = [r EXCEPT !.step = "observe", !.sys = TRUE] /\ RepairRename(target) /\ moved' = moved \cup {move}
       \/ r' = [r EXCEPT !.step = "observe", !.sys = FALSE] /\ RepairStill
    /\ UNCHANGED env

RenameRefused(move) ==
    /\ r.step = "rename" /\ r.move = move
    /\ r' = [r EXCEPT !.step = "observe", !.sys = FALSE] /\ RepairStill
    /\ UNCHANGED env

Both(a, b) == names[a] # "none" /\ names[b] # "none"
Free(a, b) == names[a] # "none" /\ names[b] = "none"
MoveTo(a, b) == [names EXCEPT ![a] = "none", ![b] = names[a]]

publish_over_existing ==
    existing /\ IF Both("staging", "canonical") THEN Renames("publish", Exchange("staging", "canonical")) ELSE RenameRefused("publish")
publish_missing ==
    ~existing /\ IF Free("staging", "canonical") THEN Renames("publish", MoveTo("staging", "canonical")) ELSE RenameRefused("publish")
cleanup_existing ==
    existing /\ IF Both("staging", "quarantine") THEN Renames("cleanup", Exchange("staging", "quarantine")) ELSE RenameRefused("cleanup")
cleanup_missing ==
    ~existing /\ IF Free("quarantine", "staging") THEN Renames("cleanup", MoveTo("quarantine", "staging")) ELSE RenameRefused("cleanup")
preserve_failed_candidate ==
    IF Both("staging", "quarantine") THEN Renames("preserve", Exchange("staging", "quarantine")) ELSE RenameRefused("preserve")

(* The names after the rename: the old ones after a success mean that someone
   reversed it, and nothing is tried again. *)
observe ==
    /\ r.step = "observe"
    /\ \E l \in layout :
         CASE l = Before[r.move] -> IF r.sys THEN Fail("Ambiguous") ELSE r' = [r EXCEPT !.step = "retry", !.error = "plain"]
           [] l = "Complete" /\ r.move # "preserve" -> Reset("cleanup", "finish")
           [] l = After[r.move] -> IF r.move = "publish" THEN Reset("cleanup", "look") ELSE RepairGoto("finish")
           [] OTHER -> Fail("Ambiguous")
    /\ RepairStill /\ UNCHANGED env

-----------------------------------------------------------------------------
Done ==
    CASE r.forced -> Fail("Applied")
      [] r.move # "preserve" -> RepairEndWith("Published")
      [] r.prior -> Fail("Applied")
      [] OTHER -> RepairEndWith("CandidatePreserved")

(* finish_complete: syncs and the boundary of the finished repair. *)
finish_complete ==
    /\ r.step = "finish" /\ r.move = "cleanup"
    /\ \/ \E b \in require_candidate_boundary("Complete") :
            /\ RepairSync
            /\ IF b = "ok" THEN Done ELSE r' = [r EXCEPT !.step = "finish_failed", !.error = b]
       \/ r' = [r EXCEPT !.step = "finish_failed", !.error = "plain"] /\ RepairStill
    /\ UNCHANGED env

finish_preservation ==
    /\ r.step = "finish" /\ r.move = "preserve"
    /\ \/ \E b \in require_preserved_boundary :
            /\ RepairSync
            /\ IF b = "ok" THEN Done ELSE r' = [r EXCEPT !.step = "finish_failed", !.error = b]
       \/ r' = [r EXCEPT !.step = "finish_failed", !.error = "plain"] /\ RepairStill
    /\ UNCHANGED env

(* The syncs and the proof are tried twice; `first` is the retained error. *)
Bounded(boundary) ==
    /\ r.step = "finish_failed"
    /\ \E b \in boundary :
         CASE uncertain(b) \/ uncertain(r.error) -> Fail("Ambiguous")
           [] b = "plain" \/ (b = "ok" /\ r.first) -> Fail("Applied")
           [] OTHER -> r' = [r EXCEPT !.step = "finish", !.first = TRUE, !.error = "none"]
    /\ RepairStill /\ UNCHANGED env

finish_complete_bounded == r.move = "cleanup" /\ Bounded(require_candidate_boundary("Complete"))
finish_preservation_with_prior == r.move = "preserve" /\ Bounded(require_preserved_boundary)

(* preserve_failed_candidate records whether the semantics still hold. *)
require_semantic_snapshot ==
    /\ r.step = "semantic"
    /\ \E failed \in {~semantic, TRUE} : r' = [r EXCEPT !.step = "look", !.prior = failed]
    /\ RepairStill /\ UNCHANGED env

-----------------------------------------------------------------------------
(* Someone else renames among the three names or changes the database. *)
RepairOutside ==
    /\ outside < MaxOutside /\ r.step # "end" /\ outside' = outside + 1
    /\ \/ \E a, b \in Places : /\ a # b /\ (Both(a, b) \/ Free(a, b))
                               /\ RepairRename(Exchange(a, b)) /\ UNCHANGED semantic
       \/ semantic' = FALSE /\ UNCHANGED <<names, disk>>
    /\ UNCHANGED <<existing, intact, moved, r>>

Repair ==
    \/ record_state_id \/ repair_prepare_candidate \/ reserve_replacement \/ finish_preparation
    \/ retire_failed_preparation_reservation \/ repair_archived_state \/ publish
    \/ Look \/ preflight \/ preflight_failed \/ adopt \/ authorize_candidate_retry
    \/ publish_over_existing \/ publish_missing \/ cleanup_existing \/ cleanup_missing \/ preserve_failed_candidate
    \/ observe \/ finish_complete \/ finish_preservation \/ finish_complete_bounded \/ finish_preservation_with_prior
    \/ require_semantic_snapshot

-----------------------------------------------------------------------------
(* The outcome tells the truth: Published is a durable finished repair of the
   verified candidate with the fixed staging name free again, a preserved
   candidate is durably in the quarantine with the archive and the staging
   name as before the repair, and NotApplied, "exact reconciliation proves no
   requested wrapper move was applied", means that no rename of that part
   took effect. *)
OutcomeIsTrue == subject = "repair" =>
    /\ r.end.what = "Published" => classify_snapshot = "Complete" /\ disk = {names} /\ intact /\ semantic
    /\ r.end.what = "CandidatePreserved" => classify_snapshot = "Preserved" /\ disk = {names} /\ semantic /\ "publish" \notin moved
    /\ r.end.outcome = "NotApplied" => classify_snapshot = "Initial" /\ moved = {}

(* While nobody else renames, the archive of the state is never without a
   whole wrapper: in every surviving namespace roots/<id> holds the old
   wrapper or the candidate (repair publishes by one exchange). *)
ArchiveIsNeverEmpty == subject = "repair" =>
    (existing /\ outside = 0 => \A d \in disk : d.canonical \in {"prev", "cand"})

(* Nothing enters roots/<id> by the repair's own renames that is not the
   verified candidate under verified names: unless someone else acted in
   between, publication moves an intact candidate only, and a candidate once
   published is never taken back (it is sticky). *)
PublishesVerified ==
    [][subject = "repair" =>
       (names' # names /\ outside' = 0 =>
         /\ names'.canonical = "cand" => intact /\ semantic
         /\ names.canonical = "cand" => names'.canonical = "cand")]_StateVars

(* No rename is repeated once it took effect, even when somebody reverses it:
   a second one would move what that actor put there. *)
RenamesOnce == [][subject = "repair" => (r.step = "rename" /\ r.move \in moved => UNCHANGED names)]_StateVars

-----------------------------------------------------------------------------
(* A behaviour exercises one part, chosen at the start; the variables of the
   other parts are not in use. *)
StateInit ==
    /\ subject \in Subjects
    /\ \/ subject = "transition" /\ TransitionInit
          /\ at = None /\ slot = None /\ bootloader = None /\ op = None /\ existing = None /\ names = None /\ intact = None /\ semantic = None
          /\ outside = None /\ moved = None /\ r = None
       \/ subject = "prune" /\ PruneInit
          /\ ns = None /\ t = None /\ existing = None /\ names = None /\ intact = None /\ semantic = None /\ outside = None /\ moved = None
          /\ r = None
       \/ subject = "repair" /\ RepairInit
          /\ ns = None /\ rows = None /\ boot = None /\ t = None /\ last = None /\ at = None /\ slot = None /\ bootloader = None
          /\ op = None

TransitionOnly == subject = "transition" /\ UNCHANGED <<subject, at, slot, bootloader, op, existing, names, intact,
                                                        semantic, outside, moved, r>>
PruneOnly == subject = "prune" /\ UNCHANGED <<subject, ns, t, existing, names, intact, semantic, outside, moved, r>>
RepairOnly == subject = "repair" /\ UNCHANGED <<subject, ns, rows, boot, t, last, at, slot, bootloader, op>>
StateNext ==
    \/ TransitionOnly /\ TransitionNext
    \/ PruneOnly /\ PruneNext
    \/ RepairOnly /\ (Repair \/ RepairOutside)

StateTypeOK ==
    /\ subject = "transition" => TransitionTypeOK
    /\ subject = "prune" => PruneTypeOK
    /\ subject = "repair" => RepairTypeOK

-----------------------------------------------------------------------------
(* The instance that TLC checks. *)
MCArchived == {s1}
MCNew == {s3}

PruneMCArchived == {1, 2, 4}
MCActive == 3
MCCreated == (1 :> 1) @@ (2 :> 4) @@ (3 :> 3) @@ (4 :> 2)
MCMaxRollback == 2
MCMaxBatch == 2
=============================================================================
