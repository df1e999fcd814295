------------------------------ MODULE Activation ------------------------------
(***************************************************************************)
(* Activation of a state by crates/forge: the coordinator that exchanges   *)
(* the candidate tree with /usr one journaled step at a time, and the      *)
(* startup gate that settles whatever an interrupted transition left.      *)
(*                                                                         *)
(* One process at a time holds the journal, so the only concurrency is the *)
(* machine's: a process may die between any two steps (its effects stay),  *)
(* and power may fail (effects not yet synced may be lost).  The journal   *)
(* and the SQLite databases are durable when a step returns: JournalStore  *)
(* shows this of the journal.                                              *)
(*                                                                         *)
(* A startup entry takes at most the one step Route names and then ends.   *)
(* Steps that the startup gate and the live process of an active reblit    *)
(* share (the commit tail) are one action here too.                        *)
(***************************************************************************)
EXTENDS RecoveryAuthority

CONSTANTS Active,     \* the id of the state that is live at the start
          Archived,   \* the id of an archived state
          Fresh       \* the id the database gives to a new state

ASSUME StatesAssumption ==
  /\ {Active, Archived, Fresh} \subseteq StateId
  /\ Active # Archived /\ Active # Fresh /\ Archived # Fresh

VARIABLES journal,    \* the canonical record, or None
          fs,         \* the namespace as processes see it
          disk,       \* the namespace as it is after a power failure
          row,        \* the in-flight row of the state database, or None
          receipts,   \* the boot-publication receipts
          installed,  \* the receipts whose boot outputs are all on the boot volume
          leftover,   \* a wrapper named after the live tree remains in quarantine
          spent,      \* the transition ids used so far
          proc        \* what the one process is doing

vars == <<journal, fs, disk, row, receipts, installed, leftover, spent, proc>>

Mode == {"Down", "Clean", "Forward", "Startup"}

\* Within a step: nothing done yet, the effect is visible, the effect is durable.
Progress == {"Ready", "Effected", "Synced"}

TypeOK ==
  /\ journal \in TransitionRecord \cup {None}
  /\ fs \in Namespace
  /\ disk \in Namespace
  /\ row \in StateRow \cup {None}
  /\ receipts \in BootPublicationReceiptState
  /\ installed \subseteq TransitionId
  /\ leftover \in BOOLEAN
  /\ spent \subseteq TransitionId
  /\ proc \in [mode : Mode, at : Progress, outcome : RollbackActionOutcome \cup {None}]

Evidence == [fs |-> fs, row |-> row, receipts |-> receipts, leftover |-> leftover]

Down == [mode |-> "Down", at |-> "Ready", outcome |-> None]
Clean == [mode |-> "Clean", at |-> "Ready", outcome |-> None]
Forward == [mode |-> "Forward", at |-> "Ready", outcome |-> None]

Staged(root_abi, isolation_abi) ==
  [trees |-> PRE_EXCHANGE, root_abi |-> root_abi, isolation_abi |-> isolation_abi,
   wrapper |-> "Absent", target |-> "Absent"]

Init ==
  /\ journal = None
  /\ \E root_abi \in BOOLEAN : fs = Staged(root_abi, FALSE)
  /\ disk = fs
  /\ row = None
  /\ receipts = EmptyReceiptState
  /\ installed = {}
  /\ leftover = FALSE
  /\ spent = {}
  /\ proc = Clean

-----------------------------------------------------------------------------
(* Forward: the journal coordinator *)

\* The coordinator is between two steps of a record in this phase.
At(phase) == proc = Forward /\ journal # None /\ journal.phase = phase

\* The coordinator has made its effect in this phase durable.
Done(phase) == proc.mode = "Forward" /\ proc.at = "Synced" /\ journal # None /\ journal.phase = phase

Step(p, at) == [p EXCEPT !.at = at]

\* Advance the journal and go on.
Advance(records) ==
  /\ journal' \in records
  /\ proc' = Forward
  /\ UNCHANGED <<fs, disk, row, receipts, installed, leftover, spent>>

\* A visible change of the namespace that is not yet durable.
Effect(namespace) ==
  /\ fs' = namespace
  /\ proc' = Step(proc, "Effected")
  /\ UNCHANGED <<journal, disk, row, receipts, installed, leftover, spent>>

CandidateOf(operation) ==
  CASE operation = "NewState" -> None
    [] operation = "ActivateArchived" -> Archived
    [] operation = "ActiveReblit" -> Active

OriginOf(operation) == IF operation = "ActiveReblit" THEN "ActiveReblitCorrupt" ELSE "ActiveState"

\* The wrapper of a reblit that was rolled back keeps the live tree's token;
\* after a committed one the live tree is another.
LeavesWrapper == fs.trees = [candidate |-> "ActiveReblitWrapper", previous |-> "Live"]
Committed == fs.trees = [candidate |-> "Live", previous |-> "ActiveReblitWrapper"]

\* No journal, no in-flight row: the candidate is staged and durable, and the
\* first record is created.
begin_transition(id, operation, run_boot_sync) ==
  /\ proc = Clean
  /\ journal = None
  /\ row = None
  /\ id \notin spent
  /\ journal' \in preparing(id, operation, CandidateOf(operation), Active, OriginOf(operation), TRUE, run_boot_sync)
  /\ spent' = spent \cup {id}
  /\ fs' = Staged(fs.root_abi, fs.isolation_abi)
  /\ disk' = fs'
  /\ leftover' = (LeavesWrapper \/ (leftover /\ ~Committed))
  /\ proc' = Forward
  /\ UNCHANGED <<row, receipts, installed>>

begin_fresh_allocation ==
  /\ At("Preparing")
  /\ journal.operation = "NewState"
  /\ Advance(forward_successor(journal, None))

\* The row is inserted under the journaled intent, and its id is recorded next.
allocate_fresh_state ==
  /\ At("FreshStateAllocating")
  /\ row = None
  /\ row' = [id |-> Fresh, transition_id |-> journal.transition_id, provenance |-> FALSE]
  /\ UNCHANGED <<journal, fs, disk, receipts, installed, leftover, spent, proc>>

finish_fresh_allocation ==
  /\ At("FreshStateAllocating")
  /\ row # None
  /\ Advance(forward_successor(journal, row.id))

begin_candidate_prepare ==
  /\ At(IF journal # None /\ journal.operation = "NewState" THEN "FreshStateAllocated" ELSE "Preparing")
  /\ Advance(forward_successor(journal, None))

\* The provenance of the metadata is stored before the metadata is published.
insert_provenance ==
  /\ At("CandidatePrepareStarted")
  /\ journal.operation = "NewState"
  /\ ~row.provenance
  /\ row' = [row EXCEPT !.provenance = TRUE]
  /\ UNCHANGED <<journal, fs, disk, receipts, installed, leftover, spent, proc>>

\* Mutant: the metadata is published before its provenance is stored.
finish_candidate_prepare_early ==
  /\ At("CandidatePrepareStarted")
  /\ Advance(forward_successor(journal, None))

finish_candidate_prepare ==
  /\ At("CandidatePrepareStarted")
  /\ journal.operation = "NewState" => row.provenance
  /\ Advance(forward_successor(journal, None))

\* An active reblit reserves the wrapper for the tree it replaces, with a
\* restrictive mode at first.
reserve_for_transaction_triggers ==
  /\ At("CandidatePrepared")
  /\ journal.operation = "ActiveReblit"
  /\ fs.wrapper = "Absent"
  /\ Effect([fs EXCEPT !.wrapper = "Residue"])

finish_preparation ==
  /\ proc = Step(Forward, "Effected")
  /\ journal.phase = "CandidatePrepared"
  /\ fs.wrapper = "Residue"
  /\ fs' = [fs EXCEPT !.wrapper = "Empty"]
  /\ disk' = [disk EXCEPT !.wrapper = "Empty"]
  /\ proc' = Forward
  /\ UNCHANGED <<journal, row, receipts, installed, leftover, spent>>

\* Links that exist already are accepted; the isolation root is synced next.
publish_isolation_abi ==
  /\ At("CandidatePrepared")
  /\ runs_transaction_triggers(journal)
  /\ journal.operation = "ActiveReblit" => fs.wrapper = "Empty"
  /\ Effect([fs EXCEPT !.isolation_abi = TRUE])

MakeDurable(fields) == disk' = [f \in DOMAIN fs |-> IF f \in fields THEN fs[f] ELSE disk[f]]

\* The sync between an effect and the record of it: the directories that are
\* synced, as the fields they make durable.
Synchronize(phase, fields) ==
  /\ proc.at = "Effected"
  /\ journal.phase = phase
  /\ MakeDurable(fields)
  /\ proc' = Step(proc, "Synced")
  /\ UNCHANGED <<journal, fs, row, receipts, installed, leftover, spent>>

sync_isolation_abi == fs.wrapper # "Residue" /\ Synchronize("CandidatePrepared", {"isolation_abi"})

start_transaction_triggers ==
  /\ Done("CandidatePrepared")
  /\ Advance(forward_successor(journal, None))

finish_transaction_triggers ==
  /\ At("TransactionTriggersStarted")
  /\ Advance(forward_successor(journal, None))

persist_usr_exchange_intent ==
  /\ At(IF journal # None /\ runs_transaction_triggers(journal) THEN "TransactionTriggersComplete" ELSE "CandidatePrepared")
  /\ Advance(forward_successor(journal, None))

execute_usr_exchange ==
  /\ At("UsrExchangeIntent")
  /\ Effect([fs EXCEPT !.trees = POST_EXCHANGE])

\* Both parents of the exchange; the installation root holds the links too.
sync_exchange_parents == Synchronize("UsrExchangeIntent", {"trees", "root_abi"})

finish_exchange ==
  /\ Done("UsrExchangeIntent")
  /\ Advance(forward_successor(journal, None))

publish_root_abi ==
  /\ At("UsrExchanged")
  /\ Effect([fs EXCEPT !.root_abi = TRUE])

\* Forward and in a startup entry that normalizes the links.
sync_retained_root_abi == Synchronize("UsrExchanged", {"root_abi"})

finish_root_abi ==
  /\ Done("UsrExchanged")
  /\ Advance(forward_successor(journal, None))

\* An activation of an archived state ends here: its later phases are refused.
start_system_triggers ==
  /\ At("RootLinksComplete")
  /\ journal.operation # "ActivateArchived"
  /\ Advance(forward_successor(journal, None))

finish_system_triggers ==
  /\ At("SystemTriggersStarted")
  /\ Advance(forward_successor(journal, None))

begin_previous_archive ==
  /\ At("SystemTriggersComplete")
  /\ journal.operation = "NewState"
  /\ Advance(forward_successor(journal, None))

move_previous_tree ==
  /\ At("PreviousArchiveIntent")
  /\ Effect([fs EXCEPT !.trees = PREVIOUS_ARCHIVED])

sync_previous_move == Synchronize("PreviousArchiveIntent", {"trees"})

finish_previous_archive ==
  /\ Done("PreviousArchiveIntent")
  /\ Advance(forward_successor(journal, None))

commit_active_reblit_without_boot ==
  /\ At("SystemTriggersComplete")
  /\ journal.operation = "ActiveReblit"
  /\ ~journal.options.run_boot_sync
  /\ Advance(forward_successor(journal, None))

-----------------------------------------------------------------------------
(* Boot publication of an active reblit *)

\* The pending receipt is staged in the database before the journal names it.
stage_boot_receipt ==
  /\ At("SystemTriggersComplete")
  /\ journal.operation = "ActiveReblit"
  /\ journal.options.run_boot_sync
  /\ receipts.pending # journal.transition_id
  /\ receipts' \in stage_receipt(receipts, journal.transition_id)
  /\ UNCHANGED <<journal, fs, disk, row, installed, leftover, spent, proc>>

start_boot_sync ==
  /\ At("SystemTriggersComplete")
  /\ journal.operation = "ActiveReblit"
  /\ receipts.pending = journal.transition_id
  /\ Advance(boot_sync_started_successor(journal, receipt_pair_for(receipts, journal.transition_id)))

\* An output that replaces an older one keeps that one in a sidecar, so those
\* of the committed receipt stay on the volume.
attempt_immutable_boot_publication ==
  /\ At("BootSyncStarted")
  /\ is_exact_pending(receipts, journal.transition_id, journal.receipts)
  /\ installed' = installed \cup {journal.transition_id}
  /\ proc' = Step(proc, "Effected")
  /\ UNCHANGED <<journal, fs, disk, row, receipts, leftover, spent>>

promote_terminal_receipt ==
  /\ proc = Step(Forward, "Effected")
  /\ journal.phase = "BootSyncStarted"
  /\ receipts' \in promote_receipt(receipts, journal.transition_id, journal.receipts)
  /\ proc' = Forward
  /\ UNCHANGED <<journal, fs, disk, row, installed, leftover, spent>>

\* A startup entry takes the one step that Route names.
Enter(route) == proc = Down /\ journal # None /\ Route(journal, Evidence) = route

Startup(at, outcome) == [mode |-> "Startup", at |-> at, outcome |-> outcome]

\* Mutant: outputs are cleaned up before the receipt is promoted.
cleanup_promoted_outputs_early ==
  /\ journal # None /\ journal.phase = "BootSyncStarted"
  /\ Enter("CompleteBootSync") \/ proc = Forward
  /\ installed' = {journal.transition_id}
  /\ proc' = IF proc = Forward THEN Step(Forward, "Synced") ELSE Startup("Synced", None)
  /\ UNCHANGED <<journal, fs, disk, row, receipts, leftover, spent>>

\* The sidecars and stale outputs of earlier receipts go once the head names this one, in the
\* publishing process or, after a crash, in a startup entry.
cleanup_promoted_outputs ==
  /\ journal # None /\ journal.phase = "BootSyncStarted"
  /\ \/ Enter("CompleteBootSync")
     \/ proc = Forward /\ is_exact_promoted(receipts, journal.transition_id, journal.receipts)
  /\ installed' = {journal.transition_id}
  /\ proc' = IF proc = Forward THEN Step(Forward, "Synced") ELSE Startup("Synced", None)
  /\ UNCHANGED <<journal, fs, disk, row, receipts, leftover, spent>>

\* The journal is advanced: a startup entry ends, the live process goes on.
Persist(records) ==
  /\ journal' \in records
  /\ proc' = IF proc.mode = "Forward" THEN Forward ELSE Down
  /\ UNCHANGED <<fs, disk, row, receipts, installed, leftover, spent>>

persist_boot_sync_complete ==
  /\ proc.at = "Synced"
  /\ journal.phase = "BootSyncStarted"
  /\ Persist(boot_sync_complete_successor(journal, journal.receipts))

-----------------------------------------------------------------------------
(* The commit tail: the same authorities admit it live and at startup *)

Tail(route) == proc \in {Down, Forward} /\ journal # None /\ Route(journal, Evidence) = route

\* A visible effect of the tail or of a startup entry.
Began(outcome) == IF proc.mode = "Forward" THEN Step(Forward, "Effected") ELSE Startup("Effected", outcome)

persist_commit_decided ==
  /\ Tail("DecideCommit")
  /\ Persist(forward_successor(journal, None))

\* The replaced tree goes into the reserved wrapper, unless it is there already.
clean_up_commit ==
  /\ Tail("CleanUpCommit")
  /\ fs' = [fs EXCEPT !.trees = CompletedCommit(journal)]
  /\ proc' = Began(None)
  /\ UNCHANGED <<journal, disk, row, receipts, installed, leftover, spent>>

complete_commit_cleanup_durability == Synchronize("CommitDecided", {"trees"})

persist_commit_cleanup_complete ==
  /\ proc.at = "Synced"
  /\ journal.phase = "CommitDecided"
  /\ Persist(forward_successor(journal, None))

persist_complete ==
  /\ Tail("Complete")
  /\ Persist(forward_successor(journal, None))

\* The record is deleted, and startup is admitted clean.
DeleteRecord ==
  /\ journal' = None
  /\ proc' = Clean
  /\ UNCHANGED <<fs, disk, row, receipts, installed, leftover, spent>>

\* Mutant: the record is deleted before it says that the transition is complete.
finalize_complete_early ==
  /\ Tail("Complete")
  /\ DeleteRecord

finalize_complete ==
  /\ Tail("Finalize")
  /\ DeleteRecord

-----------------------------------------------------------------------------
(* Startup: rollback *)

\* An interrupted reservation is finished; the record stays pending.
recover_replacement_residue ==
  /\ Enter("RecoverResidue")
  /\ fs' = [fs EXCEPT !.wrapper = "Empty"]
  /\ disk' = [disk EXCEPT !.wrapper = "Empty"]
  /\ UNCHANGED <<journal, row, receipts, installed, leftover, spent, proc>>

\* Missing root links are published and synced, and the entry ends.
normalize_usr_exchanged_root_abi ==
  /\ Enter("NormalizeRootAbi")
  /\ fs' = [fs EXCEPT !.root_abi = TRUE]
  /\ proc' = Startup("Effected", None)
  /\ UNCHANGED <<journal, disk, row, receipts, installed, leftover, spent>>

end_normalization ==
  /\ proc = Startup("Synced", None)
  /\ journal.phase = "UsrExchanged"
  /\ proc' = Down
  /\ UNCHANGED <<journal, fs, disk, row, receipts, installed, leftover, spent>>

\* What is seen at these sources may not be durable yet.
DurabilityFirst == journal.phase = "UsrExchanged" \/ (journal.phase = "UsrExchangeIntent" /\ fs.trees = POST_EXCHANGE)

\* Mutant: the decision trusts what it sees.
persist_usr_rollback_decision_unsynced ==
  /\ Enter("DecideRollback")
  /\ journal' \in DecidedRecords(journal, Evidence)
  /\ proc' = Down
  /\ UNCHANGED <<fs, disk, row, receipts, installed, leftover, spent>>

\* Both rename parents, or the root with its links, are synced before the
\* decision that rests on them is recorded.
persist_usr_rollback_decision ==
  /\ Enter("DecideRollback")
  /\ MakeDurable(CASE ~DurabilityFirst -> {}
                   [] DurabilityFirst /\ journal.phase = "UsrExchanged" -> {"root_abi"}
                   [] OTHER -> {"trees", "root_abi"})
  /\ journal' \in DecidedRecords(journal, Evidence)
  /\ proc' = Down
  /\ UNCHANGED <<fs, row, receipts, installed, leftover, spent>>

persist_usr_rollback_resume_route ==
  /\ Enter("ResumeRollback")
  /\ Persist(rollback_successor(journal, None))

\* The trees are put where the record wants them, unless they are there already.
Restore(trees) ==
  /\ fs' = [fs EXCEPT !.trees = trees]
  /\ proc' = Began(IF fs.trees = trees THEN "AlreadySatisfied" ELSE "Applied")
  /\ UNCHANGED <<journal, row, receipts, installed, leftover, spent>>

reverse_exchange ==
  /\ Enter("ReverseExchange")
  /\ Restore(PRE_EXCHANGE)
  /\ UNCHANGED disk

complete_parent_durability == Synchronize("ReverseExchangeIntent", {"trees", "root_abi"})

persist_usr_rollback_reverse ==
  /\ proc.mode = "Startup" /\ proc.at = "Synced"
  /\ journal.phase = "ReverseExchangeIntent"
  /\ Persist(rollback_successor(journal, proc.outcome))

CandidatePlace(operation) ==
  CASE operation = "NewState" -> "TransitionQuarantine"
    [] operation = "ActivateArchived" -> "State"
    [] operation = "ActiveReblit" -> "ActiveReblitWrapper"

TargetMissing == journal.operation = "NewState" /\ fs.trees = PRE_EXCHANGE /\ fs.target # "Empty"

\* The quarantine directory is created, with a mode the umask may restrict.
create_candidate_target ==
  /\ Enter("PreserveCandidate")
  /\ TargetMissing /\ fs.target = "Absent"
  /\ \E mode \in {"Residue", "Empty"} : fs' = [fs EXCEPT !.target = mode]
  /\ UNCHANGED <<journal, disk, row, receipts, installed, leftover, spent, proc>>

normalize_candidate_target ==
  /\ Enter("PreserveCandidate")
  /\ TargetMissing /\ fs.target = "Residue"
  /\ fs' = [fs EXCEPT !.target = "Empty"]
  /\ disk' = [disk EXCEPT !.target = "Empty"]
  /\ UNCHANGED <<journal, row, receipts, installed, leftover, spent, proc>>

\* The candidate goes where its operation keeps it, after its target is durable.
Preserve(operation) ==
  /\ Enter("PreserveCandidate")
  /\ journal.operation = operation
  /\ ~TargetMissing
  /\ Restore([candidate |-> CandidatePlace(operation), previous |-> "Live"])
  /\ disk' = [disk EXCEPT !.target = fs.target]

preserve_new_state_candidate == Preserve("NewState")

preserve_archived_candidate == Preserve("ActivateArchived")

exchange_active_reblit_candidate == Preserve("ActiveReblit")

complete_post_move_durability ==
  journal # None /\ journal.operation = "NewState" /\ Synchronize("CandidatePreserveIntent", {"trees"})

complete_archived_post_move_durability ==
  journal # None /\ journal.operation = "ActivateArchived" /\ Synchronize("CandidatePreserveIntent", {"trees"})

complete_post_exchange_durability ==
  journal # None /\ journal.operation = "ActiveReblit" /\ Synchronize("CandidatePreserveIntent", {"trees"})

\* A preservation that is durable is recorded with its outcome.
RecordPreserved(operation) ==
  /\ proc.mode = "Startup" /\ proc.at = "Synced"
  /\ journal.phase = "CandidatePreserveIntent"
  /\ journal.operation = operation
  /\ Persist(rollback_successor(journal, proc.outcome))

persist_candidate_preserve == RecordPreserved("NewState")

persist_archived_candidate_preserve == RecordPreserved("ActivateArchived")

persist_active_reblit_candidate_preserve == RecordPreserved("ActiveReblit")

persist_fresh_db_invalidation_route ==
  /\ Enter("RouteInvalidation")
  /\ Persist(rollback_successor(journal, None))

invalidate_fresh_db ==
  /\ Enter("InvalidateFreshDb")
  /\ row' = None
  /\ proc' = Startup("Synced", IF row = None THEN "AlreadySatisfied" ELSE "Applied")
  /\ UNCHANGED <<journal, fs, disk, receipts, installed, leftover, spent>>

persist_fresh_db_invalidation ==
  /\ proc.mode = "Startup" /\ proc.at = "Synced"
  /\ journal.phase = "FreshDbInvalidationIntent"
  /\ Persist(rollback_successor(journal, proc.outcome))

\* The last edge of a rollback that owes nothing to the boot volume.
CompleteRollback(operation) ==
  /\ Enter("CompleteRollback")
  /\ journal.operation = operation
  /\ Persist(rollback_successor(journal, None))

persist_complete_route == CompleteRollback("NewState")

persist_activate_archived_complete_route == CompleteRollback("ActivateArchived")

persist_active_reblit_complete_route == CompleteRollback("ActiveReblit")

persist_boot_repair_required ==
  /\ Enter("RequireBootRepair")
  /\ Persist(rollback_successor(journal, None))

persist_boot_repair_started ==
  /\ Enter("StartBootRepair")
  /\ Persist(boot_repair_started_successor(journal))

persist_boot_repair_unverified ==
  /\ Enter("LeaveBootUnverified")
  /\ Persist(boot_repair_unverified_successor(journal))

\* Mutant: a new state's rollback ends with its candidate, like the others.
finalize_usr_rollback_early ==
  /\ \/ Enter("FinalizeRollback")
     \/ Enter("RouteInvalidation")
  /\ journal.operation = "NewState"
  /\ DeleteRecord

finalize_usr_rollback ==
  /\ Enter("FinalizeRollback")
  /\ journal.operation = "NewState"
  /\ DeleteRecord

finalize_usr_rollback_activate_archived ==
  /\ Enter("FinalizeRollback")
  /\ journal.operation = "ActivateArchived"
  /\ DeleteRecord

finalize_usr_rollback_active_reblit ==
  /\ Enter("FinalizeRollback")
  /\ journal.operation = "ActiveReblit"
  /\ DeleteRecord

\* No record and no row in flight.
admit_clean ==
  /\ proc = Down
  /\ journal = None
  /\ row = None
  /\ proc' = Clean
  /\ UNCHANGED <<journal, fs, disk, row, receipts, installed, leftover, spent>>

-----------------------------------------------------------------------------
(* Faults *)

\* The process ends: it is killed, or a step fails and it stops.
Kill ==
  /\ proc # Down
  /\ proc' = Down
  /\ UNCHANGED <<journal, fs, disk, row, receipts, installed, leftover, spent>>

\* Each change that was not yet synced survives or not.
PowerLoss ==
  /\ fs # disk
  /\ \E kept \in SUBSET {f \in DOMAIN fs : fs[f] # disk[f]} : fs' = [f \in DOMAIN fs |-> IF f \in kept THEN fs[f] ELSE disk[f]]
  /\ disk' = fs'
  /\ proc' = Down
  /\ UNCHANGED <<journal, row, receipts, installed, leftover, spent>>

Fault == Kill \/ PowerLoss

-----------------------------------------------------------------------------

\* The coordinator has no step for its record: it was refused, or it ends here.
ForwardRefused ==
  \/ journal.operation = "ActivateArchived" /\ journal.phase = "RootLinksComplete"
  \/ journal.phase = "PreviousArchived"
  \/ /\ journal.operation = "ActiveReblit"
     /\ journal.phase = "SystemTriggersComplete"
     /\ journal.options.run_boot_sync
     /\ stage_receipt(receipts, journal.transition_id) = {}
  \/ ordinal(journal.phase) > ordinal("BootSyncStarted") /\ Route(journal, Evidence) = "RecoveryPending"

halt ==
  /\ proc = Forward
  /\ ForwardRefused
  /\ proc' = Down
  /\ UNCHANGED <<journal, fs, disk, row, receipts, installed, leftover, spent>>

Begin ==
  \E id \in TransitionId, operation \in Operation, run_boot_sync \in BOOLEAN :
    begin_transition(id, operation, run_boot_sync)

ForwardStep ==
  \/ begin_fresh_allocation \/ allocate_fresh_state \/ finish_fresh_allocation
  \/ begin_candidate_prepare \/ insert_provenance \/ finish_candidate_prepare
  \/ reserve_for_transaction_triggers \/ finish_preparation
  \/ publish_isolation_abi \/ sync_isolation_abi
  \/ start_transaction_triggers \/ finish_transaction_triggers
  \/ persist_usr_exchange_intent \/ execute_usr_exchange \/ sync_exchange_parents \/ finish_exchange
  \/ publish_root_abi \/ finish_root_abi
  \/ start_system_triggers \/ finish_system_triggers
  \/ begin_previous_archive \/ move_previous_tree \/ sync_previous_move \/ finish_previous_archive
  \/ commit_active_reblit_without_boot
  \/ stage_boot_receipt \/ start_boot_sync
  \/ attempt_immutable_boot_publication \/ promote_terminal_receipt
  \/ halt

\* Steps of a startup entry, some of which the live process shares.
RecoveryStep ==
  \/ sync_retained_root_abi
  \/ cleanup_promoted_outputs \/ persist_boot_sync_complete
  \/ persist_commit_decided
  \/ clean_up_commit \/ complete_commit_cleanup_durability \/ persist_commit_cleanup_complete
  \/ persist_complete \/ finalize_complete
  \/ recover_replacement_residue
  \/ normalize_usr_exchanged_root_abi \/ end_normalization
  \/ persist_usr_rollback_decision \/ persist_usr_rollback_resume_route
  \/ reverse_exchange \/ complete_parent_durability \/ persist_usr_rollback_reverse
  \/ create_candidate_target \/ normalize_candidate_target
  \/ preserve_new_state_candidate \/ preserve_archived_candidate \/ exchange_active_reblit_candidate
  \/ complete_post_move_durability \/ complete_archived_post_move_durability
  \/ complete_post_exchange_durability
  \/ persist_candidate_preserve \/ persist_archived_candidate_preserve
  \/ persist_active_reblit_candidate_preserve
  \/ persist_fresh_db_invalidation_route \/ invalidate_fresh_db \/ persist_fresh_db_invalidation
  \/ persist_complete_route \/ persist_activate_archived_complete_route
  \/ persist_active_reblit_complete_route
  \/ persist_boot_repair_required \/ persist_boot_repair_started \/ persist_boot_repair_unverified
  \/ finalize_usr_rollback \/ finalize_usr_rollback_activate_archived
  \/ finalize_usr_rollback_active_reblit
  \/ admit_clean

Next == Begin \/ ForwardStep \/ RecoveryStep \/ Fault

Spec == Init /\ [][Next]_vars

\* A process that can take a step takes it, startup is entered again after
\* every refusal, and from some point on there are no more faults.
FairSpec == Spec /\ WF_vars(ForwardStep \/ RecoveryStep) /\ <>[][~Fault]_vars

-----------------------------------------------------------------------------
(* Properties *)

\* Whenever the process may die, and after every power failure, the namespace
\* and the database are what the record's phase calls for (the DB, namespace,
\* DB sandwich of startup reconciliation admits them), or a reservation was cut
\* short and its residue is recoverable.
EvidenceAdmits ==
  journal # None /\ ~leftover => EvidenceFits(journal, Evidence) \/ ResidueRecoverable(journal, Evidence)

\* A record never claims a tree position or a set of links that a power
\* failure could take back: it is written after the sync.
RecordedIsDurable ==
  journal # None =>
    /\ disk.trees \in expected_layouts(journal)
    /\ root_abi_must_be_complete(journal) => disk.root_abi
    /\ isolation_abi_must_be_complete(journal) => disk.isolation_abi

\* Once the receipt head has moved to a transition's publication that
\* transition is never rolled back.
PromotedNeverRolledBack ==
  journal # None /\ journal.rollback # None => receipts.committed # journal.transition_id

\* The boot outputs of the committed receipt are on the boot volume, whatever
\* the publication in flight has done so far.
CommittedIsBootable == receipts.committed # None => receipts.committed \in installed

\* A row in flight belongs to the transition in the journal, so a clean
\* startup never meets an orphan row.
RowIsOwned == row # None => journal # None /\ journal.transition_id = row.transition_id

Contract == INSTANCE TransitionJournal

\* Coordinator, startup gate and faults together only do to the journal what
\* the record contract allows.
KeepsContract == Contract!Spec

\* Startup has no step for these records.
Unsupported(r) ==
  \/ r.phase = "BootRepairUnverified"
  \/ r.operation = "NewState" /\ r.phase \in {"PreviousArchiveIntent", "PreviousRestoreIntent"}

\* What an earlier transition left keeps startup from this one: its wrapper in
\* quarantine (require_fixed_wrapper_layout), or a pending receipt that nothing
\* clears (active_reblit_boot_sync_staging.rs).
Obstructed(r) ==
  r.operation = "ActiveReblit" /\ (leftover \/ receipts.pending \notin {None, r.transition_id})

\* A transition that was journaled as far as the exchange is settled: the
\* record is deleted, or it is one that needs an operator.
ExchangeSettles ==
  (journal # None /\ ordinal(layout_phase(journal)) >= ordinal("UsrExchangeIntent"))
    ~> (journal = None \/ Unsupported(journal) \/ Obstructed(journal))

-----------------------------------------------------------------------------
(* What comments and documents say and the code does not do *)

\* previous_archive.rs: startup reconciliation completes or reverses an archive
\* whose intent is durable.
ArchiveIntentSettles ==
  (journal # None /\ journal.phase = "PreviousArchiveIntent")
    ~> (journal = None \/ journal.phase # "PreviousArchiveIntent")
=============================================================================
