------------------------ MODULE ActivationProof ------------------------
(***************************************************************************)
(* Theorems about Activation, for every set of states, transitions and     *)
(* generations: types are kept, and the database row and the boot receipts *)
(* stay with the transition they belong to.                                *)
(*                                                                         *)
(* The first part says what each step needs and leaves.  The steps are     *)
(* grouped by what they write: the record, the namespace, the row, the     *)
(* receipts or the process.  The invariants here and in                    *)
(* ActivationEvidenceProof are preserved group by group.                   *)
(***************************************************************************)
EXTENDS Activation, TransitionRecordProof

-----------------------------------------------------------------------------
(* The steps, by what they write *)

\* The journal is advanced along an ordinary forward edge.
ForwardWrite ==
  \/ begin_fresh_allocation \/ finish_fresh_allocation
  \/ begin_candidate_prepare \/ finish_candidate_prepare
  \/ start_transaction_triggers \/ finish_transaction_triggers
  \/ persist_usr_exchange_intent \/ finish_exchange \/ finish_root_abi
  \/ start_system_triggers \/ finish_system_triggers
  \/ begin_previous_archive \/ finish_previous_archive
  \/ commit_active_reblit_without_boot
  \/ persist_commit_decided \/ persist_commit_cleanup_complete \/ persist_complete

\* The journal is advanced along an ordinary rollback edge.
RollbackWrite ==
  \/ persist_usr_rollback_resume_route \/ persist_usr_rollback_reverse
  \/ persist_candidate_preserve \/ persist_archived_candidate_preserve
  \/ persist_active_reblit_candidate_preserve
  \/ persist_fresh_db_invalidation_route \/ persist_fresh_db_invalidation
  \/ persist_complete_route \/ persist_activate_archived_complete_route
  \/ persist_active_reblit_complete_route
  \/ persist_boot_repair_required

RepairWrite == persist_boot_repair_started \/ persist_boot_repair_unverified

Finalize ==
  \/ finalize_complete
  \/ finalize_usr_rollback \/ finalize_usr_rollback_activate_archived
  \/ finalize_usr_rollback_active_reblit

\* The namespace changes and the record stays.
NamespaceWrite ==
  \/ reserve_for_transaction_triggers \/ finish_preparation
  \/ publish_isolation_abi \/ execute_usr_exchange \/ publish_root_abi \/ move_previous_tree
  \/ clean_up_commit \/ recover_replacement_residue \/ normalize_usr_exchanged_root_abi
  \/ reverse_exchange \/ create_candidate_target \/ normalize_candidate_target
  \/ preserve_new_state_candidate \/ preserve_archived_candidate \/ exchange_active_reblit_candidate

\* What was changed is made durable.
Sync ==
  \/ sync_isolation_abi \/ sync_exchange_parents \/ sync_retained_root_abi \/ sync_previous_move
  \/ complete_commit_cleanup_durability \/ complete_parent_durability
  \/ complete_post_move_durability \/ complete_archived_post_move_durability
  \/ complete_post_exchange_durability

\* The row of the fresh state changes.
RowWrite == allocate_fresh_state \/ insert_provenance \/ invalidate_fresh_db

\* The receipts or the boot volume change.
BootWrite ==
  \/ stage_boot_receipt \/ attempt_immutable_boot_publication
  \/ promote_terminal_receipt \/ cleanup_promoted_outputs

\* Only the process changes.
Pause == halt \/ end_normalization \/ admit_clean \/ Kill

\* Every step is in one of the groups.
LEMMA Groups ==
  ASSUME Next
  PROVE  \/ Begin
         \/ ForwardWrite \/ start_boot_sync \/ persist_boot_sync_complete
         \/ persist_usr_rollback_decision \/ RollbackWrite \/ RepairWrite
         \/ Finalize \/ NamespaceWrite \/ Sync \/ RowWrite \/ BootWrite
         \/ Pause \/ PowerLoss
BY Zenon DEF Next, ForwardStep, RecoveryStep, Fault, ForwardWrite, RollbackWrite, RepairWrite, Finalize,
       NamespaceWrite, Sync, RowWrite, BootWrite, Pause

-----------------------------------------------------------------------------
(* What the startup gate admits *)

\* A record that may be deleted after a commit is complete, and no row is left.
LEMMA FinalizeRoute ==
  ASSUME NEW r, NEW e, Route(r, e) = "Finalize"
  PROVE  r.phase = "Complete" /\ r.operation = "ActiveReblit" /\ EvidenceFits(r, e)
BY Zenon DEF Route, ForwardSuffixRoute, RollbackRoute, CommitRouteIsExact

\* A record that may be deleted after a rollback has settled the fresh row.
LEMMA FinalizeRollbackRoute ==
  ASSUME NEW r, NEW e, Route(r, e) = "FinalizeRollback"
  PROVE  /\ r.phase = "RollbackComplete"
         /\ r.rollback # None
         /\ EvidenceFits(r, e)
         /\ rollback_finalization_plan_is_exact(r)
BY Zenon DEF Route, ForwardSuffixRoute, RollbackRoute, rollback_finalization_plan_is_exact

-----------------------------------------------------------------------------
(* The record contract, step by step *)

\* The record in the journal passed validate and has the version preparing() writes.
Sound == journal # None => validate(journal) /\ journal.version = 3

\* A process that is in the middle of a step has a record.
Busy == proc.at # "Ready" => journal # None

\* The record is followed by one that validate_advance accepts after it.
Extension ==
  /\ journal \in TransitionRecord
  /\ journal' \in TransitionRecord
  /\ validate_advance(journal, journal')

\* All that a step that writes a record leaves alone.
OnlyRecord == UNCHANGED <<fs, disk, row, receipts, installed, leftover, spent>>

\* A forward write is the contract's forward edge and changes nothing else.
LEMMA ForwardWrites ==
  ASSUME TypeOK, Busy, ForwardWrite
  PROVE  Extension /\ OnlyRecord /\ proc' \in {Forward, Down}
<1> SUFFICES /\ journal # None
             /\ \E allocated \in StateId \cup {None} : journal' \in forward_successor(journal, allocated)
             /\ OnlyRecord
             /\ proc' \in {Forward, Down}
  BY Zenon, ForwardConstructor DEF Extension, TypeOK
<1> USE DEF Advance, Persist, OnlyRecord
<1>1. CASE begin_fresh_allocation \/ begin_candidate_prepare \/ finish_candidate_prepare
  BY Zenon, <1>1 DEF begin_fresh_allocation, begin_candidate_prepare, finish_candidate_prepare, At
<1>2. CASE finish_fresh_allocation
  BY Zenon, <1>2 DEF finish_fresh_allocation, At, TypeOK, StateRow
<1>3. CASE start_transaction_triggers \/ finish_transaction_triggers \/ persist_usr_exchange_intent
  BY Zenon, <1>3 DEF start_transaction_triggers, finish_transaction_triggers, persist_usr_exchange_intent, At, Done
<1>4. CASE finish_exchange \/ finish_root_abi \/ start_system_triggers \/ finish_system_triggers
  BY Zenon, <1>4 DEF finish_exchange, finish_root_abi, start_system_triggers, finish_system_triggers, At, Done
<1>5. CASE begin_previous_archive \/ finish_previous_archive \/ commit_active_reblit_without_boot
  BY Zenon, <1>5 DEF begin_previous_archive, finish_previous_archive, commit_active_reblit_without_boot, At, Done
<1>6. CASE persist_commit_decided \/ persist_complete
  BY Zenon, <1>6 DEF persist_commit_decided, persist_complete, Tail
<1>7. CASE persist_commit_cleanup_complete
  BY Zenon, <1>7 DEF persist_commit_cleanup_complete, Busy
<1> QED BY Zenon, <1>1, <1>2, <1>3, <1>4, <1>5, <1>6, <1>7 DEF ForwardWrite

\* A rollback write is the contract's rollback edge.
LEMMA RollbackWrites ==
  ASSUME TypeOK, Busy, RollbackWrite
  PROVE  Extension /\ OnlyRecord /\ proc' \in {Forward, Down}
<1> SUFFICES /\ journal # None
             /\ \E outcome \in RollbackActionOutcome \cup {None} : journal' \in rollback_successor(journal, outcome)
             /\ OnlyRecord
             /\ proc' \in {Forward, Down}
  BY Zenon, RollbackConstructor DEF Extension, TypeOK
<1> USE DEF Persist, OnlyRecord
<1>1. CASE persist_usr_rollback_resume_route \/ persist_fresh_db_invalidation_route \/ persist_boot_repair_required
  BY Zenon, <1>1 DEF persist_usr_rollback_resume_route, persist_fresh_db_invalidation_route,
     persist_boot_repair_required, Enter
<1>2. CASE persist_usr_rollback_reverse \/ persist_fresh_db_invalidation
  BY Zenon, <1>2 DEF persist_usr_rollback_reverse, persist_fresh_db_invalidation, Busy, TypeOK
<1>3. ASSUME NEW operation, RecordPreserved(operation)
      PROVE  /\ journal # None
             /\ \E outcome \in RollbackActionOutcome \cup {None} : journal' \in rollback_successor(journal, outcome)
             /\ OnlyRecord
             /\ proc' \in {Forward, Down}
  BY Zenon, <1>3 DEF RecordPreserved, Busy, TypeOK
<1>4. ASSUME NEW operation, CompleteRollback(operation)
      PROVE  /\ journal # None
             /\ \E outcome \in RollbackActionOutcome \cup {None} : journal' \in rollback_successor(journal, outcome)
             /\ OnlyRecord
             /\ proc' \in {Forward, Down}
  BY Zenon, <1>4 DEF CompleteRollback, Enter
<1>5. CASE \E operation \in Operation : RecordPreserved(operation) \/ CompleteRollback(operation)
  BY Zenon, <1>3, <1>4, <1>5
<1> QED BY <1>1, <1>2, <1>5, Zenon
        DEF RollbackWrite, persist_candidate_preserve, persist_archived_candidate_preserve,
            persist_active_reblit_candidate_preserve, persist_complete_route,
            persist_activate_archived_complete_route, persist_active_reblit_complete_route, Operation

LEMMA RepairWrites ==
  ASSUME TypeOK, RepairWrite
  PROVE  Extension /\ OnlyRecord /\ proc' \in {Forward, Down}
<1>1. journal \in TransitionRecord
  BY Zenon DEF TypeOK, RepairWrite, persist_boot_repair_started, persist_boot_repair_unverified, Enter
<1>2. /\ journal' \in boot_repair_started_successor(journal) \/ journal' \in boot_repair_unverified_successor(journal)
      /\ OnlyRecord
      /\ proc' \in {Forward, Down}
  BY Zenon DEF RepairWrite, persist_boot_repair_started, persist_boot_repair_unverified, Persist, OnlyRecord
<1> QED BY Zenon, <1>1, <1>2, RepairConstructors DEF Extension

\* The pair that the journal names is the one staged in the database.
LEMMA StartBootWrites ==
  ASSUME TypeOK, start_boot_sync
  PROVE  /\ Extension /\ OnlyRecord /\ proc' = Forward
         /\ journal' \in boot_sync_started_successor(journal, [committed |-> receipts.committed, pending |-> journal.transition_id])
<1>1. journal # None /\ journal \in TransitionRecord
  BY Zenon DEF start_boot_sync, At, TypeOK
<1>2. journal.transition_id \in TransitionId
  BY Zenon, <1>1 DEF TransitionRecord
<1> DEFINE pair == [committed |-> receipts.committed, pending |-> journal.transition_id]
<1>3. pair \in ReceiptPair
  BY Zenon, <1>2, ReceiptPairAssumption DEF TypeOK, BootPublicationReceiptState
<1>4. receipt_pair_for(receipts, journal.transition_id) = pair
  BY Zenon DEF start_boot_sync, receipt_pair_for, PairAfter
<1>5. journal' \in boot_sync_started_successor(journal, pair) /\ OnlyRecord /\ proc' = Forward
  BY Zenon, <1>4 DEF start_boot_sync, Advance, OnlyRecord
<1> QED BY Zenon, <1>1, <1>3, <1>5, BootSyncConstructors DEF Extension

\* In BootSyncStarted the record names its pair.
LEMMA BootRecordHasPair ==
  ASSUME journal \in TransitionRecord, validate(journal), journal.version = 3,
         journal.phase = "BootSyncStarted"
  PROVE  journal.receipts \in ReceiptPair
<1>1. layout_phase(journal) = "BootSyncStarted"
  BY Zenon DEF layout_phase, ForwardPhase
<1>2. journal.options.run_boot_sync
  BY Zenon, <1>1 DEF validate, validate_option_reachability
<1>3. journal.receipts # None
  BY <1>1, <1>2 DEF validate, validate_boot_publication_receipts, ordinal
<1> QED BY Zenon, <1>3 DEF TransitionRecord

LEMMA CompleteBootWrites ==
  ASSUME TypeOK, Sound, Busy, persist_boot_sync_complete
  PROVE  Extension /\ OnlyRecord /\ proc' \in {Forward, Down}
<1>1. journal # None
  BY Zenon DEF persist_boot_sync_complete, Busy
<1>2. journal.receipts \in ReceiptPair
  BY Zenon, <1>1, BootRecordHasPair DEF TypeOK, Sound, persist_boot_sync_complete
<1>3. /\ journal' \in boot_sync_complete_successor(journal, journal.receipts)
      /\ OnlyRecord
      /\ proc' \in {Forward, Down}
  BY Zenon DEF persist_boot_sync_complete, Persist, OnlyRecord
<1> QED BY Zenon, <1>1, <1>2, <1>3, BootSyncConstructors DEF Extension, TypeOK

\* The plan is decided from what is observed of the trees.
LEMMA DecisionWrites ==
  ASSUME TypeOK, persist_usr_rollback_decision
  PROVE  /\ Extension
         /\ UNCHANGED <<fs, row, receipts, installed, leftover, spent>>
         /\ proc' = Down
<1>1. PICK usr \in UsrObservation(journal, fs.trees) :
        journal' \in rollback_decision(journal, rollback_observations(journal, usr))
  BY Zenon DEF persist_usr_rollback_decision, DecidedRecords, Evidence
<1>2. usr \in InitialRollbackAction
  BY Zenon DEF UsrObservation, InitialRollbackAction
<1>3. rollback_observations(journal, usr) \in RollbackObservations
  BY Zenon, <1>2 DEF rollback_observations, RollbackObservations, InitialRollbackAction
<1>4. journal \in TransitionRecord
  BY Zenon DEF persist_usr_rollback_decision, Enter, TypeOK
<1> QED BY Zenon, <1>1, <1>3, <1>4, DecisionConstructor DEF persist_usr_rollback_decision, Extension

\* The fresh row is gone when a record whose evidence fits is finalized.
LEMMA NoRowLeft ==
  ASSUME NEW r, NEW e, EvidenceFits(r, e), r.operation \in Operation,
         r.operation = "NewState" => rollback_finalization_plan_is_exact(r) /\ r.rollback # None
  PROVE  e.row = None
<1>1. database_ownership_evidence_compatible(r, e.row)
  BY Zenon DEF EvidenceFits, database_is_compatible
<1>2. CASE r.operation # "NewState"
  BY Zenon, <1>1, <1>2 DEF database_ownership_evidence_compatible, inspect_database
<1>3. CASE r.operation = "NewState"
  <2>1. r.candidate_id # None /\ resolved(r.rollback.fresh_db) /\ r.rollback # None
    BY Zenon, <1>3 DEF rollback_finalization_plan_is_exact
  <2>2. fresh_database_expectation(r) = {"Missing"}
    BY Zenon, <2>1 DEF fresh_database_expectation, resolved
  <2> QED BY Zenon, <1>1, <1>3, <2>1, <2>2 DEF database_ownership_evidence_compatible, inspect_database
<1> QED BY Zenon, <1>2, <1>3

\* A record is deleted in a phase that delete() accepts, and leaves no row.
LEMMA FinalizeWrites ==
  ASSUME TypeOK, Finalize
  PROVE  /\ journal \in TransitionRecord /\ deletable(journal.phase) /\ row = None
         /\ journal' = None /\ OnlyRecord /\ proc' = Clean
<1>1. journal \in TransitionRecord /\ journal.operation \in Operation
  <2>1. journal \in TransitionRecord
    BY Zenon DEF TypeOK, Finalize, finalize_complete, finalize_usr_rollback, finalize_usr_rollback_activate_archived,
           finalize_usr_rollback_active_reblit, Tail, Enter
  <2> QED BY Zenon, <2>1 DEF TransitionRecord
<1>2. journal' = None /\ OnlyRecord /\ proc' = Clean
  BY Zenon DEF Finalize, finalize_complete, finalize_usr_rollback, finalize_usr_rollback_activate_archived,
         finalize_usr_rollback_active_reblit, DeleteRecord, OnlyRecord
<1>3. Evidence.row = row
  BY Zenon DEF Evidence
<1>4. CASE finalize_complete
  <2>1. journal.phase = "Complete" /\ journal.operation = "ActiveReblit" /\ EvidenceFits(journal, Evidence)
    BY Zenon, <1>4, FinalizeRoute DEF finalize_complete, Tail
  <2>2. row = None
    BY Zenon, <1>1, <1>3, <2>1, NoRowLeft
  <2> QED BY Zenon, <1>1, <1>2, <2>1, <2>2 DEF deletable
<1>5. CASE Enter("FinalizeRollback")
  <2>1. /\ journal.phase = "RollbackComplete"
        /\ journal.rollback # None
        /\ EvidenceFits(journal, Evidence)
        /\ rollback_finalization_plan_is_exact(journal)
    BY Zenon, <1>5, FinalizeRollbackRoute DEF Enter
  <2>2. row = None
    BY Zenon, <1>1, <1>3, <2>1, NoRowLeft
  <2> QED BY Zenon, <1>1, <1>2, <2>1, <2>2 DEF deletable
<1> QED BY Zenon, <1>4, <1>5 DEF Finalize, finalize_usr_rollback, finalize_usr_rollback_activate_archived,
           finalize_usr_rollback_active_reblit

-----------------------------------------------------------------------------
(* The namespace *)

\* Each field of what a sync or a power failure leaves comes from one of two namespaces.
Mixed(a, b, fields) == [f \in DOMAIN a |-> IF f \in fields THEN a[f] ELSE b[f]]

LEMMA MixedIsTyped ==
  ASSUME NEW a \in Namespace, NEW b \in Namespace, NEW fields
  PROVE  /\ Mixed(a, b, fields) \in Namespace
         /\ Mixed(a, b, fields).trees = IF "trees" \in fields THEN a.trees ELSE b.trees
         /\ Mixed(a, b, fields).root_abi = IF "root_abi" \in fields THEN a.root_abi ELSE b.root_abi
         /\ Mixed(a, b, fields).isolation_abi =
              IF "isolation_abi" \in fields THEN a.isolation_abi ELSE b.isolation_abi
         /\ Mixed(a, b, fields).wrapper = IF "wrapper" \in fields THEN a.wrapper ELSE b.wrapper
         /\ Mixed(a, b, fields).target = IF "target" \in fields THEN a.target ELSE b.target
<1>1. DOMAIN a = {"trees", "root_abi", "isolation_abi", "wrapper", "target"}
  BY Zenon DEF Namespace
<1> QED BY Zenon, <1>1 DEF Mixed, Namespace

Process == [mode : Mode, at : Progress, outcome : RollbackActionOutcome \cup {None}]

\* A commit is cleaned up in its own phase only.
LEMMA CleanUpRoute ==
  ASSUME NEW r, NEW e, Route(r, e) = "CleanUpCommit"
  PROVE  r.phase = "CommitDecided" /\ r.operation = "ActiveReblit" /\ CommitRouteIsExact(r, e, 11)
BY Zenon DEF Route, ForwardSuffixRoute, RollbackRoute

\* The phases of the rollback authorities' routes.
LEMMA RollbackRoutes ==
  ASSUME NEW r, NEW e
  PROVE  /\ Route(r, e) = "ResumeRollback" =>
              r.phase \in {"RollbackDecided", "UsrRestored"} /\ r.rollback.candidate = "Pending"
         /\ Route(r, e) = "ReverseExchange" => r.phase = "ReverseExchangeIntent"
         /\ Route(r, e) = "PreserveCandidate" => r.phase = "CandidatePreserveIntent"
         /\ Route(r, e) = "RouteInvalidation" => r.phase = "CandidatePreserved"
         /\ Route(r, e) = "InvalidateFreshDb" => r.phase = "FreshDbInvalidationIntent" /\ r.operation = "NewState"
         /\ Route(r, e) = "CompleteRollback" => r.phase \in {"FreshDbInvalidated", "CandidatePreserved"}
         /\ Route(r, e) = "RequireBootRepair" => r.phase = "CandidatePreserved"
         /\ Route(r, e) = "RecoverResidue" => r.operation = "ActiveReblit" /\ layout_phase(r) = "CandidatePrepared"
         /\ Route(r, e) = "NormalizeRootAbi" => r.phase = "UsrExchanged"
<1>1. CASE Route(r, e) = RollbackRoute(r, e)
  BY Zenon, <1>1 DEF RollbackRoute, ResumeAdmitted, route_evidence_is_exact, reverse_plan_is_exact,
     candidate_preserve_plan_is_exact, fresh_db_invalidation_route_plan_is_exact,
     fresh_db_invalidation_plan_is_exact, CompleteRouteIsExact, rollback_complete_route_plan_is_exact,
     active_reblit_complete_route_plan_is_exact, activate_archived_complete_route_plan_is_exact,
     BootRepairAdmitted, pending_boot_repair_plan_is_exact
<1>2. CASE Route(r, e) = ForwardSuffixRoute(r, e)
  BY Zenon, <1>2 DEF ForwardSuffixRoute
<1>3. CASE ResidueRecoverable(r, e) /\ Route(r, e) = "RecoverResidue"
  BY Zenon, <1>3 DEF ResidueRecoverable
<1> QED BY Zenon, <1>1, <1>2, <1>3 DEF Route

\* What the effects of a process have in common.
LEMMA ProcessSteps ==
  ASSUME proc \in Process
  PROVE  /\ Down \in Process /\ Clean \in Process /\ Forward \in Process
         /\ \A at \in Progress : Step(proc, at) \in Process /\ Step(proc, at).mode = proc.mode /\ Step(proc, at).at = at
         /\ \A at \in Progress, outcome \in RollbackActionOutcome \cup {None} :
              /\ Startup(at, outcome) \in Process
              /\ Startup(at, outcome).mode = "Startup"
              /\ Startup(at, outcome).at = at
         /\ \A outcome \in RollbackActionOutcome \cup {None} : Began(outcome) \in Process /\ Began(outcome).at = "Effected"
         /\ Down.mode = "Down" /\ Down.at = "Ready"
         /\ Clean.mode = "Clean" /\ Clean.at = "Ready"
         /\ Forward.mode = "Forward" /\ Forward.at = "Ready"
BY Zenon DEF Process, Down, Clean, Forward, Step, Startup, Began, Mode, Progress, RollbackActionOutcome

\* The layouts that the steps install are layouts.
LEMMA LayoutsAreTyped ==
  /\ PRE_EXCHANGE \in LayoutAlternative
  /\ POST_EXCHANGE \in LayoutAlternative
  /\ PREVIOUS_ARCHIVED \in LayoutAlternative
  /\ \A r : CompletedCommit(r) \in LayoutAlternative
  /\ \A operation \in Operation : [candidate |-> CandidatePlace(operation), previous |-> "Live"] \in LayoutAlternative
BY Zenon DEF PRE_EXCHANGE, POST_EXCHANGE, PREVIOUS_ARCHIVED, CompletedCommit, CandidatePlace, Operation,
       LayoutAlternative, TreeLocation

\* One field of a namespace may be given any value of its type.
LEMMA FieldIsTyped ==
  ASSUME NEW ns \in Namespace
  PROVE  /\ \A t \in LayoutAlternative : [ns EXCEPT !.trees = t] \in Namespace
         /\ \A d \in Directory : [ns EXCEPT !.wrapper = d] \in Namespace /\ [ns EXCEPT !.target = d] \in Namespace
         /\ [ns EXCEPT !.root_abi = TRUE] \in Namespace
         /\ [ns EXCEPT !.isolation_abi = TRUE] \in Namespace
BY Zenon DEF Namespace

\* All that a step on the namespace leaves alone.
OnlyNamespace == UNCHANGED <<journal, row, receipts, installed, leftover, spent>>

\* The phases with an effect on the namespace.
SyncPhase == {"CandidatePrepared", "UsrExchanged", "UsrExchangeIntent", "ReverseExchangeIntent",
              "PreviousArchiveIntent", "CommitDecided", "CandidatePreserveIntent"}

\* A write of the namespace keeps it typed, and is in the middle of a step only
\* in one of these phases.
NamespaceKept ==
  /\ fs' \in Namespace /\ disk' \in Namespace /\ proc' \in Process
  /\ OnlyNamespace
  /\ proc'.at # "Ready" => proc'.at = "Effected" /\ journal # None /\ journal.phase \in SyncPhase

LEMMA EffectKeeps ==
  ASSUME TypeOK, NEW namespace \in Namespace, NEW phase \in SyncPhase, At(phase), Effect(namespace)
  PROVE  NamespaceKept
<1>1. proc \in Process /\ "Effected" \in Progress /\ disk \in Namespace
  BY Zenon DEF TypeOK, Process, Progress
<1>2. Step(proc, "Effected") \in Process /\ Step(proc, "Effected").at = "Effected"
  BY Zenon, <1>1, ProcessSteps
<1> QED BY Zenon, <1>1, <1>2 DEF Effect, At, NamespaceKept, OnlyNamespace

LEMMA RestoreKeeps ==
  ASSUME TypeOK, NEW trees \in LayoutAlternative, journal # None, journal.phase \in SyncPhase,
         Restore(trees), disk' \in Namespace
  PROVE  NamespaceKept
<1>1. proc \in Process /\ fs \in Namespace /\ {"Applied", "AlreadySatisfied"} \subseteq RollbackActionOutcome \cup {None}
  BY Zenon DEF TypeOK, Process, RollbackActionOutcome
<1>2. [fs EXCEPT !.trees = trees] \in Namespace
  BY Zenon, <1>1, FieldIsTyped
<1>3. \A outcome \in RollbackActionOutcome \cup {None} : Began(outcome) \in Process /\ Began(outcome).at = "Effected"
  BY Zenon, <1>1, ProcessSteps
<1>4. proc' \in Process /\ proc'.at = "Effected"
  BY Zenon, <1>1, <1>3 DEF Restore
<1> QED BY Zenon, <1>2, <1>4 DEF Restore, NamespaceKept, OnlyNamespace

LEMMA NamespaceWrites ==
  ASSUME TypeOK, Busy, NamespaceWrite
  PROVE  NamespaceKept
<1>0. /\ fs \in Namespace /\ disk \in Namespace /\ proc \in Process
      /\ fs.target \in Directory
      /\ "Absent" \in Directory /\ "Residue" \in Directory /\ "Empty" \in Directory
      /\ "Effected" \in Progress /\ None \in RollbackActionOutcome \cup {None}
  BY Zenon DEF TypeOK, Process, Directory, Namespace, Progress
<1>1. CASE reserve_for_transaction_triggers
  <2>1. [fs EXCEPT !.wrapper = "Residue"] \in Namespace
    BY Zenon, <1>0, FieldIsTyped
  <2> QED BY Zenon, <1>1, <2>1, EffectKeeps DEF reserve_for_transaction_triggers, SyncPhase
<1>2. CASE publish_isolation_abi
  <2>1. [fs EXCEPT !.isolation_abi = TRUE] \in Namespace
    BY Zenon, <1>0, FieldIsTyped
  <2> QED BY Zenon, <1>2, <2>1, EffectKeeps DEF publish_isolation_abi, SyncPhase
<1>3. CASE execute_usr_exchange
  <2>1. [fs EXCEPT !.trees = POST_EXCHANGE] \in Namespace
    BY Zenon, <1>0, FieldIsTyped, LayoutsAreTyped
  <2> QED BY Zenon, <1>3, <2>1, EffectKeeps DEF execute_usr_exchange, SyncPhase
<1>4. CASE publish_root_abi
  <2>1. [fs EXCEPT !.root_abi = TRUE] \in Namespace
    BY Zenon, <1>0, FieldIsTyped
  <2> QED BY Zenon, <1>4, <2>1, EffectKeeps DEF publish_root_abi, SyncPhase
<1>5. CASE move_previous_tree
  <2>1. [fs EXCEPT !.trees = PREVIOUS_ARCHIVED] \in Namespace
    BY Zenon, <1>0, FieldIsTyped, LayoutsAreTyped
  <2> QED BY Zenon, <1>5, <2>1, EffectKeeps DEF move_previous_tree, SyncPhase
<1>6. CASE finish_preparation
  <2>1. [fs EXCEPT !.wrapper = "Empty"] \in Namespace /\ [disk EXCEPT !.wrapper = "Empty"] \in Namespace
    BY Zenon, <1>0, FieldIsTyped
  <2> QED BY Zenon, <1>0, <1>6, <2>1, ProcessSteps DEF finish_preparation, NamespaceKept, OnlyNamespace
<1>7. CASE clean_up_commit
  <2>1. journal # None /\ journal.phase = "CommitDecided"
    BY Zenon, <1>7, CleanUpRoute DEF clean_up_commit, Tail
  <2>2. [fs EXCEPT !.trees = CompletedCommit(journal)] \in Namespace /\ Began(None) \in Process
    BY Zenon, <1>0, FieldIsTyped, LayoutsAreTyped, ProcessSteps
  <2> QED BY Zenon, <1>0, <1>7, <2>1, <2>2, ProcessSteps DEF clean_up_commit, NamespaceKept, OnlyNamespace, SyncPhase
<1>8. CASE recover_replacement_residue
  <2>1. [fs EXCEPT !.wrapper = "Empty"] \in Namespace /\ [disk EXCEPT !.wrapper = "Empty"] \in Namespace
    BY Zenon, <1>0, FieldIsTyped
  <2> QED BY Zenon, <1>0, <1>8, <2>1, ProcessSteps DEF recover_replacement_residue, Enter, NamespaceKept,
             OnlyNamespace
<1>9. CASE normalize_candidate_target
  <2>1. [fs EXCEPT !.target = "Empty"] \in Namespace /\ [disk EXCEPT !.target = "Empty"] \in Namespace
    BY Zenon, <1>0, FieldIsTyped
  <2> QED BY Zenon, <1>0, <1>9, <2>1, ProcessSteps DEF normalize_candidate_target, Enter, NamespaceKept, OnlyNamespace
<1>10. CASE create_candidate_target
  <2>1. \A mode \in {"Residue", "Empty"} : [fs EXCEPT !.target = mode] \in Namespace
    BY Zenon, <1>0, FieldIsTyped
  <2> QED BY ZenonT(60), <1>0, <1>10, <2>1, ProcessSteps DEF create_candidate_target, Enter, NamespaceKept,
             OnlyNamespace
<1>11. CASE normalize_usr_exchanged_root_abi
  <2>1. [fs EXCEPT !.root_abi = TRUE] \in Namespace /\ Startup("Effected", None) \in Process
    BY Zenon, <1>0, FieldIsTyped, ProcessSteps
  <2>2. journal.phase \in SyncPhase /\ journal # None
    BY Zenon, <1>11, RollbackRoutes DEF normalize_usr_exchanged_root_abi, Enter, SyncPhase
  <2> QED BY Zenon, <1>0, <1>11, <2>1, <2>2, ProcessSteps
          DEF normalize_usr_exchanged_root_abi, NamespaceKept, OnlyNamespace
<1>12. CASE reverse_exchange
  <2>1. journal.phase \in SyncPhase /\ journal # None
    BY Zenon, <1>12, RollbackRoutes DEF reverse_exchange, Enter, SyncPhase
  <2> QED BY Zenon, <1>0, <1>12, <2>1, RestoreKeeps, LayoutsAreTyped DEF reverse_exchange
<1>13. ASSUME NEW operation \in Operation, Preserve(operation)
       PROVE  NamespaceKept
  <2>1. [disk EXCEPT !.target = fs.target] \in Namespace
    BY Zenon, <1>0, FieldIsTyped
  <2>2. journal.phase \in SyncPhase /\ journal # None
    BY Zenon, <1>13, RollbackRoutes DEF Preserve, Enter, SyncPhase
  <2> QED BY Zenon, <1>13, <2>1, <2>2, RestoreKeeps, LayoutsAreTyped DEF Preserve
<1>14. CASE preserve_new_state_candidate \/ preserve_archived_candidate \/ exchange_active_reblit_candidate
  BY Zenon, <1>13, <1>14 DEF preserve_new_state_candidate, preserve_archived_candidate,
     exchange_active_reblit_candidate, Operation
<1> QED BY Zenon, <1>1, <1>2, <1>3, <1>4, <1>5, <1>6, <1>7, <1>8, <1>9, <1>10, <1>11, <1>12, <1>14 DEF NamespaceWrite

-----------------------------------------------------------------------------
(* The remaining steps *)

\* The fields that the sync of a phase makes durable.
SyncFields(phase) ==
  CASE phase = "CandidatePrepared" -> {"isolation_abi"}
    [] phase = "UsrExchanged" -> {"root_abi"}
    [] phase \in {"UsrExchangeIntent", "ReverseExchangeIntent"} -> {"trees", "root_abi"}
    [] phase \in {"PreviousArchiveIntent", "CommitDecided", "CandidatePreserveIntent"} -> {"trees"}

\* Each sync belongs to one phase.
LEMMA SyncWrites ==
  ASSUME TypeOK, Busy, Sync
  PROVE  /\ journal # None /\ journal.phase \in SyncPhase /\ proc.at = "Effected"
         /\ journal.phase = "CandidatePrepared" => fs.wrapper # "Residue"
         /\ disk' = Mixed(fs, disk, SyncFields(journal.phase))
         /\ disk' \in Namespace
         /\ proc' \in Process /\ proc'.at = "Synced"
         /\ UNCHANGED <<journal, fs, row, receipts, installed, leftover, spent>>
<1>1. /\ journal.phase \in SyncPhase
      /\ Synchronize(journal.phase, SyncFields(journal.phase))
      /\ journal.phase = "CandidatePrepared" => fs.wrapper # "Residue"
  <2>1. CASE sync_isolation_abi \/ sync_exchange_parents \/ sync_retained_root_abi \/ sync_previous_move
    BY Zenon, <2>1 DEF sync_isolation_abi, sync_exchange_parents, sync_retained_root_abi, sync_previous_move,
       Synchronize, SyncPhase, SyncFields
  <2>2. CASE complete_commit_cleanup_durability \/ complete_parent_durability
    BY Zenon, <2>2 DEF complete_commit_cleanup_durability, complete_parent_durability, Synchronize, SyncPhase,
       SyncFields
  <2>3. CASE \/ complete_post_move_durability \/ complete_archived_post_move_durability
             \/ complete_post_exchange_durability
    BY Zenon, <2>3 DEF complete_post_move_durability, complete_archived_post_move_durability,
       complete_post_exchange_durability, Synchronize, SyncPhase, SyncFields
  <2> QED BY Zenon, <2>1, <2>2, <2>3 DEF Sync
<1>2. disk' = Mixed(fs, disk, SyncFields(journal.phase))
  BY Zenon, <1>1 DEF Synchronize, MakeDurable, Mixed
<1>3. disk' \in Namespace
  BY Zenon, <1>2, MixedIsTyped DEF TypeOK
<1>4. proc \in Process /\ "Synced" \in Progress
  BY Zenon DEF TypeOK, Process, Progress
<1>5. proc' \in Process /\ proc'.at = "Synced"
  BY Zenon, <1>1, <1>4, ProcessSteps DEF Synchronize
<1> QED BY Zenon, <1>1, <1>2, <1>3, <1>5 DEF Synchronize, Busy

\* After a power failure every field has its visible or its durable value.
LEMMA PowerLossWrites ==
  ASSUME TypeOK, PowerLoss
  PROVE  /\ \E kept : fs' = Mixed(fs, disk, kept)
         /\ fs' \in Namespace /\ disk' = fs' /\ proc' = Down
         /\ UNCHANGED <<journal, row, receipts, installed, leftover, spent>>
<1>1. PICK kept : fs' = Mixed(fs, disk, kept)
  BY Zenon DEF PowerLoss, Mixed
<1>2. fs' \in Namespace
  BY Zenon, <1>1, MixedIsTyped DEF TypeOK
<1> QED BY Zenon, <1>1, <1>2 DEF PowerLoss

\* A pause changes the process only, which is then between two steps.
LEMMA PauseWrites ==
  ASSUME Pause
  PROVE  /\ proc' \in {Down, Clean}
         /\ UNCHANGED <<journal, fs, disk, row, receipts, installed, leftover, spent>>
BY Zenon DEF Pause, halt, end_normalization, admit_clean, Kill

\* A transition begins with a record of its own, and no row.
LEMMA BeginWrites ==
  ASSUME TypeOK, Begin
  PROVE  \E id \in TransitionId :
           /\ journal = None /\ row = None /\ id \notin spent
           /\ journal' \in TransitionRecord /\ validate(journal') /\ journal'.version = 3
           /\ journal'.transition_id = id /\ spent' = spent \cup {id}
           /\ journal'.phase = "Preparing" /\ journal'.rollback = None /\ journal'.generation = 1
           /\ fs' = Staged(fs.root_abi, fs.isolation_abi) /\ fs' \in Namespace /\ disk' = fs'
           /\ leftover' \in BOOLEAN
           /\ proc' = Forward
           /\ UNCHANGED <<row, receipts, installed>>
<1>1. PICK id \in TransitionId, operation \in Operation, run_boot_sync \in BOOLEAN :
        begin_transition(id, operation, run_boot_sync)
  BY Zenon DEF Begin
<1>2. /\ CandidateOf(operation) \in StateId \cup {None}
      /\ Active \in StateId \cup {None}
      /\ OriginOf(operation) \in PreviousOrigin
  BY Zenon, StatesAssumption DEF CandidateOf, OriginOf, Operation, PreviousOrigin
<1>3. journal' \in preparing(id, operation, CandidateOf(operation), Active, OriginOf(operation), TRUE, run_boot_sync)
  BY Zenon, <1>1 DEF begin_transition
<1>4. journal' \in TransitionRecord /\ validate(journal') /\ journal'.version = 3
  <2>1. \A candidate \in StateId \cup {None}, origin \in PreviousOrigin, sys \in BOOLEAN :
          \A n \in preparing(id, operation, candidate, Active, origin, sys, run_boot_sync) :
            n \in TransitionRecord /\ validate(n) /\ n.version = 3
    BY <1>2, PreparingConstructor
  <2> HIDE <1>1
  <2> QED BY Zenon, <1>2, <1>3, <2>1
<1>5. /\ journal'.transition_id = id /\ journal'.phase = "Preparing"
      /\ journal'.rollback = None /\ journal'.generation = 1
  BY <1>3 DEF preparing
<1>6. Staged(fs.root_abi, fs.isolation_abi) \in Namespace
  BY Zenon, LayoutsAreTyped DEF Staged, TypeOK, Namespace, Directory
<1>7. leftover' \in BOOLEAN
  BY Zenon, <1>1 DEF begin_transition
<1> QED BY Zenon, <1>1, <1>4, <1>5, <1>6, <1>7 DEF begin_transition

-----------------------------------------------------------------------------
(* The edges of the record, with what the writer knows *)

\* What is known before a forward write.
ForwardSource ==
  /\ journal.phase \in ForwardPhase \ {"PreviousArchived", "BootSyncStarted"}
  /\ journal'.phase = next_forward_phase(journal) /\ journal'.phase \in ForwardPhase
  /\ journal.phase = "FreshStateAllocating" => row # None /\ journal'.candidate_id = row.id
  /\ journal.phase # "FreshStateAllocating" => journal'.candidate_id = journal.candidate_id
  /\ journal.phase = "CandidatePrepareStarted" /\ journal.operation = "NewState" => row.provenance
  /\ journal.phase = "CandidatePrepared" /\ runs_transaction_triggers(journal) => proc.at = "Synced"
  /\ journal.phase \in {"UsrExchangeIntent", "UsrExchanged", "PreviousArchiveIntent", "CommitDecided"} =>
       proc.at = "Synced"
  /\ journal.phase = "RootLinksComplete" => journal.operation # "ActivateArchived"
  /\ journal.phase = "SystemTriggersComplete" => journal.operation \in {"NewState", "ActiveReblit"}

\* A forward successor is in the next phase, with the row's id if there is one.
LEMMA ForwardFields ==
  ASSUME NEW r \in TransitionRecord, NEW id, NEW n \in forward_successor(r, id)
  PROVE  /\ r.phase \in ForwardPhase
         /\ n.phase = next_forward_phase(r) /\ n.phase \in ForwardPhase
         /\ n.phase \notin {"BootSyncStarted", "BootSyncComplete"}
         /\ r.phase = "FreshStateAllocating" => n.candidate_id = id
         /\ r.phase # "FreshStateAllocating" => n.candidate_id = r.candidate_id
<1>1. n = [r EXCEPT !.generation = r.generation + 1,
                    !.phase = next_forward_phase(r),
                    !.candidate_id = IF r.phase = "FreshStateAllocating" THEN id ELSE r.candidate_id]
  BY Zenon DEF forward_successor, Checked
<1>2. r.phase \in ForwardPhase /\ next_forward_phase(r) \notin {None, "BootSyncStarted", "BootSyncComplete"}
  BY Zenon DEF forward_successor
<1>3. next_forward_phase(r) \in ForwardPhase
  BY ZenonT(60), <1>2 DEF next_forward_phase, after_archive, after_system, ForwardPhase
<1>4. /\ n.phase = next_forward_phase(r)
      /\ n.candidate_id = IF r.phase = "FreshStateAllocating" THEN id ELSE r.candidate_id
  BY Zenon, <1>1 DEF TransitionRecord
<1> QED BY Zenon, <1>2, <1>3, <1>4

\* The phases of the commit tail's routes.
LEMMA TailRoutes ==
  ASSUME NEW r, NEW e
  PROVE  /\ Route(r, e) = "DecideCommit" => r.phase = "BootSyncComplete" /\ r.operation = "ActiveReblit"
         /\ Route(r, e) = "Complete" => r.phase = "CommitCleanupComplete" /\ r.operation = "ActiveReblit"
         /\ Route(r, e) = "CompleteBootSync" =>
              /\ r.phase = "BootSyncStarted" /\ r.operation = "ActiveReblit"
              /\ is_exact_promoted(e.receipts, r.transition_id, r.receipts)
BY Zenon DEF Route, ForwardSuffixRoute, RollbackRoute, inspect_receipt_boundary

LEMMA ForwardSources ==
  ASSUME TypeOK, Sound, Busy, ForwardWrite
  PROVE  ForwardSource
<1>0. ASSUME NEW id, journal \in TransitionRecord, journal' \in forward_successor(journal, id)
      PROVE  /\ journal.phase \in ForwardPhase
             /\ journal'.phase = next_forward_phase(journal) /\ journal'.phase \in ForwardPhase
             /\ journal.phase = "FreshStateAllocating" => journal'.candidate_id = id
             /\ journal.phase # "FreshStateAllocating" => journal'.candidate_id = journal.candidate_id
  BY Zenon, <1>0, ForwardFields
<1>a. journal \in TransitionRecord
  BY Zenon, ForwardWrites DEF Extension
<1> USE DEF Advance, Persist, ForwardSource
<1>1. CASE begin_fresh_allocation \/ begin_candidate_prepare
  BY Zenon, <1>0, <1>a, <1>1 DEF begin_fresh_allocation, begin_candidate_prepare, At
<1>2. CASE finish_fresh_allocation
  BY Zenon, <1>0, <1>a, <1>2 DEF finish_fresh_allocation, At
<1>3. CASE finish_candidate_prepare
  BY Zenon, <1>0, <1>a, <1>3 DEF finish_candidate_prepare, At
<1>4. CASE start_transaction_triggers \/ finish_transaction_triggers \/ persist_usr_exchange_intent
  BY Zenon, <1>0, <1>a, <1>4 DEF start_transaction_triggers, finish_transaction_triggers,
     persist_usr_exchange_intent, At, Done
<1>5. CASE finish_exchange \/ finish_root_abi \/ start_system_triggers
  BY Zenon, <1>0, <1>a, <1>5 DEF finish_exchange, finish_root_abi, start_system_triggers, At, Done
<1>6. CASE finish_system_triggers \/ begin_previous_archive \/ finish_previous_archive
  BY Zenon, <1>0, <1>a, <1>6 DEF finish_system_triggers, begin_previous_archive, finish_previous_archive, At, Done
<1>7. CASE commit_active_reblit_without_boot
  BY Zenon, <1>0, <1>a, <1>7 DEF commit_active_reblit_without_boot, At
<1>8. CASE persist_commit_decided \/ persist_complete
  <2>1. journal.phase \in {"BootSyncComplete", "CommitCleanupComplete"}
    BY Zenon, <1>8, TailRoutes DEF persist_commit_decided, persist_complete, Tail
  <2> QED BY Zenon, <1>0, <1>a, <1>8, <2>1 DEF persist_commit_decided, persist_complete
<1>9. CASE persist_commit_cleanup_complete
  BY Zenon, <1>0, <1>a, <1>9 DEF persist_commit_cleanup_complete
<1> QED BY Zenon, <1>1, <1>2, <1>3, <1>4, <1>5, <1>6, <1>7, <1>8, <1>9 DEF ForwardWrite

\* What the plan says once an effect is recorded as undone.
LEMMA DonePlan ==
  ASSUME NEW phase, NEW plan, validate_rollback_phase(phase, plan)
  PROVE  /\ phase = "UsrRestored" => plan.previous_archive # "Pending" /\ plan.usr_exchange # "Pending"
         /\ phase = "CandidatePreserved" =>
              /\ plan.previous_archive # "Pending" /\ plan.usr_exchange # "Pending" /\ plan.candidate # "Pending"
         /\ phase = "FreshDbInvalidated" =>
              /\ plan.previous_archive # "Pending" /\ plan.usr_exchange # "Pending" /\ plan.candidate # "Pending"
              /\ resolved(plan.fresh_db)
<1>1. CASE phase = "UsrRestored"
  BY <1>1 DEF validate_rollback_phase, rollback_actions, IntentPhase, DonePhase, Settled, resolved, required
<1>2. CASE phase = "CandidatePreserved"
  BY <1>2 DEF validate_rollback_phase, rollback_actions, IntentPhase, DonePhase, Settled, resolved, required
<1>3. CASE phase = "FreshDbInvalidated"
  BY <1>3 DEF validate_rollback_phase, rollback_actions, IntentPhase, DonePhase, Settled, resolved, required
<1> QED BY Zenon, <1>1, <1>2, <1>3

\* The ladder as the startup gate climbs it: the restoring of an archived
\* predecessor and a completed boot repair are never recorded.
Ladder ==
  \/ /\ journal.phase = "RollbackDecided"
     /\ \/ journal'.phase = "PreviousRestoreIntent" /\ journal.rollback.previous_archive = "Pending"
        \/ /\ journal'.phase = "ReverseExchangeIntent"
           /\ journal.rollback.previous_archive # "Pending" /\ journal.rollback.usr_exchange = "Pending"
        \/ /\ journal'.phase = "CandidatePreserveIntent"
           /\ journal.rollback.previous_archive # "Pending" /\ journal.rollback.usr_exchange # "Pending"
           /\ journal.rollback.candidate = "Pending"
  \/ journal.phase = "ReverseExchangeIntent" /\ journal'.phase = "UsrRestored" /\ proc.at = "Synced"
  \/ journal.phase = "UsrRestored" /\ journal'.phase = "CandidatePreserveIntent"
  \/ journal.phase = "CandidatePreserveIntent" /\ journal'.phase = "CandidatePreserved" /\ proc.at = "Synced"
  \/ /\ journal.phase = "CandidatePreserved"
     /\ journal'.phase \in {"FreshDbInvalidationIntent", "BootRepairRequired", "RollbackComplete"}
  \/ journal.phase = "FreshDbInvalidationIntent" /\ journal'.phase = "FreshDbInvalidated" /\ proc.at = "Synced"
  \/ journal.phase = "FreshDbInvalidated" /\ journal'.phase \in {"BootRepairRequired", "RollbackComplete"}
  \/ journal.phase = "BootRepairRequired" /\ journal'.phase = "BootRepairStarted"
  \/ journal.phase = "BootRepairStarted" /\ journal'.phase = "BootRepairUnverified"

\* What is known before a rollback write: what the plan keeps, and the rung.
RollbackSource ==
  /\ journal.rollback # None /\ journal'.rollback # None
  /\ journal'.rollback.source = journal.rollback.source
  /\ journal'.rollback.disposition = journal.rollback.disposition
  /\ journal.phase # "FreshDbInvalidationIntent" => journal'.rollback.fresh_db = journal.rollback.fresh_db
  /\ Ladder

\* The next rung, from what the routes and the plan say.
LEMMA NextRung ==
  ASSUME NEW r \in TransitionRecord, validate(r), r.rollback # None,
         NEW outcome, NEW n \in rollback_successor(r, outcome)
  PROVE  /\ n.phase = next_rollback_phase(r.rollback, r.phase)
         /\ next_rollback_phase(r.rollback, r.phase) # None
         /\ validate_rollback_phase(r.phase, r.rollback)
BY Zenon DEF rollback_successor, Checked, validate, TransitionRecord

LEMMA RollbackSources ==
  ASSUME TypeOK, Sound, Busy, RollbackWrite \/ RepairWrite
  PROVE  RollbackSource
<1>1. Extension
  BY Zenon, RollbackWrites, RepairWrites
<1>2. /\ journal \in TransitionRecord /\ journal' \in TransitionRecord /\ validate_advance(journal, journal')
      /\ validate(journal) /\ journal # None
  BY Zenon, <1>1, NoneAssumption DEF Extension, validate_advance
<1>3. journal.phase \in RollbackPhase
  <2>1. CASE RepairWrite
    BY Zenon, <2>1 DEF RepairWrite, persist_boot_repair_started, persist_boot_repair_unverified, Persist,
       boot_repair_started_successor, boot_repair_unverified_successor, RollbackPhase
  <2>2. CASE RollbackWrite
    <3>1. journal.rollback # None
      BY Zenon, <2>2 DEF RollbackWrite, persist_usr_rollback_resume_route, persist_usr_rollback_reverse,
         persist_candidate_preserve, persist_archived_candidate_preserve, persist_active_reblit_candidate_preserve,
         persist_fresh_db_invalidation_route, persist_fresh_db_invalidation,
         persist_complete_route, persist_activate_archived_complete_route,
         persist_active_reblit_complete_route, persist_boot_repair_required,
         RecordPreserved, CompleteRollback, Persist, rollback_successor
    <3> QED BY Zenon, <1>2, <3>1 DEF validate, TransitionRecord, Phase
  <2> QED BY Zenon, <2>1, <2>2
<1>4. /\ journal.rollback # None /\ journal'.rollback # None
      /\ journal'.rollback.source = journal.rollback.source
      /\ journal'.rollback.disposition = journal.rollback.disposition
      /\ journal.phase # "FreshDbInvalidationIntent" => journal'.rollback.fresh_db = journal.rollback.fresh_db
  <2>1. /\ journal.rollback # None /\ journal'.phase \in RollbackPhase
        /\ validate_rollback_plan_advance(journal, journal')
    BY Zenon, <1>2, <1>3, RollbackEdge
  <2>2. journal'.rollback # None
    BY Zenon, <1>2, <2>1 DEF validate_advance, validate, ForwardPhase, RollbackPhase
  <2> QED BY <2>1, <2>2 DEF validate_rollback_plan_advance, rollback_actions, IntentPhase, DonePhase
<1>5. Ladder
  <2>1. CASE RepairWrite
    <3>1. \/ journal.phase = "BootRepairRequired" /\ journal'.phase = "BootRepairStarted"
          \/ journal.phase = "BootRepairStarted" /\ journal'.phase = "BootRepairUnverified"
      BY Zenon, <1>2, <2>1 DEF RepairWrite, persist_boot_repair_started, persist_boot_repair_unverified, Persist,
         boot_repair_started_successor, boot_repair_unverified_successor, Checked, TransitionRecord
    <3> QED BY Zenon, <3>1 DEF Ladder
  <2>2. ASSUME NEW outcome, journal' \in rollback_successor(journal, outcome)
        PROVE  /\ journal'.phase = next_rollback_phase(journal.rollback, journal.phase)
               /\ next_rollback_phase(journal.rollback, journal.phase) # None
               /\ validate_rollback_phase(journal.phase, journal.rollback)
    BY Zenon, <1>2, <1>4, <2>2, NextRung
  <2>3. CASE persist_usr_rollback_resume_route
    <3>1. journal.phase \in {"RollbackDecided", "UsrRestored"} /\ journal.rollback.candidate = "Pending"
      BY Zenon, <2>3, RollbackRoutes DEF persist_usr_rollback_resume_route, Enter
    <3>2. /\ journal'.phase = next_rollback_phase(journal.rollback, journal.phase)
          /\ validate_rollback_phase(journal.phase, journal.rollback)
      BY Zenon, <2>2, <2>3 DEF persist_usr_rollback_resume_route, Persist
    <3>3. journal'.phase = next_pending_phase(journal.rollback)
      BY Zenon, <3>1, <3>2 DEF next_rollback_phase
    <3>4. journal.phase = "UsrRestored" =>
            journal.rollback.previous_archive # "Pending" /\ journal.rollback.usr_exchange # "Pending"
      BY Zenon, <3>2, DonePlan
    <3> QED BY Zenon, <3>1, <3>3, <3>4 DEF next_pending_phase, Ladder
  <2>4. CASE persist_usr_rollback_reverse \/ persist_fresh_db_invalidation
    <3>1. /\ journal.phase \in {"ReverseExchangeIntent", "FreshDbInvalidationIntent"}
          /\ proc.at = "Synced"
          /\ journal'.phase = next_rollback_phase(journal.rollback, journal.phase)
      BY Zenon, <2>2, <2>4 DEF persist_usr_rollback_reverse, persist_fresh_db_invalidation, Persist
    <3> QED BY Zenon, <3>1 DEF next_rollback_phase, Ladder
  <2>5. ASSUME NEW operation, RecordPreserved(operation)
        PROVE  Ladder
    <3>1. /\ journal.phase = "CandidatePreserveIntent" /\ proc.at = "Synced"
          /\ journal'.phase = next_rollback_phase(journal.rollback, journal.phase)
      BY Zenon, <2>2, <2>5 DEF RecordPreserved, Persist
    <3> QED BY Zenon, <3>1 DEF next_rollback_phase, Ladder
  <2>6. ASSUME journal.phase \in {"CandidatePreserved", "FreshDbInvalidated"}, NEW outcome,
               journal' \in rollback_successor(journal, outcome)
        PROVE  Ladder
    <3>1. /\ journal'.phase = next_pending_phase(journal.rollback) /\ journal'.phase # None
          /\ validate_rollback_phase(journal.phase, journal.rollback)
      BY Zenon, <2>2, <2>6 DEF next_rollback_phase
    <3> QED BY ZenonT(60), <2>6, <3>1, DonePlan DEF next_pending_phase, Ladder, resolved
  <2>7. ASSUME NEW operation, CompleteRollback(operation)
        PROVE  Ladder
    BY Zenon, <2>6, <2>7, RollbackRoutes DEF CompleteRollback, Enter, Persist
  <2>8. CASE persist_fresh_db_invalidation_route \/ persist_boot_repair_required
    BY Zenon, <2>6, <2>8, RollbackRoutes DEF persist_fresh_db_invalidation_route, persist_boot_repair_required,
       Enter, Persist
  <2> QED BY Zenon, <2>1, <2>3, <2>4, <2>5, <2>7, <2>8
          DEF RollbackWrite, persist_candidate_preserve, persist_archived_candidate_preserve,
              persist_active_reblit_candidate_preserve, persist_complete_route,
              persist_activate_archived_complete_route, persist_active_reblit_complete_route
<1> QED BY Zenon, <1>4, <1>5 DEF RollbackSource

\* What the decision to roll back rests on.
LEMMA DecisionRoute ==
  ASSUME NEW r, NEW e, Route(r, e) = "DecideRollback"
  PROVE  /\ r.rollback = None /\ rollback_decision_source_is_supported(r) /\ EvidenceFits(r, e)
         /\ r.phase = "UsrExchanged" => e.fs.root_abi
         /\ r.operation = "ActiveReblit" /\ r.phase = "BootSyncStarted" =>
              inspect_receipt_boundary(r, e.receipts) = "Pending"
<1>1. Route(r, e) = RollbackRoute(r, e)
  BY Zenon DEF Route, ForwardSuffixRoute
<1>2. DecisionAdmitted(r, e) /\ (r.phase = "UsrExchanged" => e.fs.root_abi)
  BY Zenon, <1>1 DEF RollbackRoute
<1>3. r.operation = "ActiveReblit" => ForwardSuffixRoute(r, e) = "Unhandled"
  BY Zenon DEF Route, ForwardSuffixRoute
<1> QED BY Zenon, <1>2, <1>3 DEF DecisionAdmitted, ForwardSuffixRoute

\* The phases from which the startup gate decides to roll back.
DecisionPhase == {"UsrExchangeIntent", "UsrExchanged", "RootLinksComplete", "SystemTriggersStarted",
                  "SystemTriggersComplete", "PreviousArchived", "BootSyncStarted"}

\* What is known before the decision, and the plan it writes.
DecisionSource ==
  /\ journal.rollback = None /\ journal.phase \in DecisionPhase
  /\ EvidenceFits(journal, Evidence)
  /\ journal.phase = "UsrExchanged" => fs.root_abi
  /\ journal.phase = "BootSyncStarted" =>
       journal.operation = "ActiveReblit" /\ is_exact_pending(receipts, journal.transition_id, journal.receipts)
  /\ journal'.phase = "RollbackDecided" /\ journal'.rollback # None
  /\ journal'.candidate_id = journal.candidate_id
  /\ journal'.rollback.source = journal.phase
  /\ journal'.rollback.previous_archive = IF journal.phase = "PreviousArchived" THEN "Pending" ELSE "NotRequired"
  /\ journal'.rollback.usr_exchange \in UsrObservation(journal, fs.trees)
  /\ journal'.rollback.candidate = "Pending"
  /\ journal'.rollback.fresh_db = IF journal.operation = "NewState" THEN "Pending" ELSE "NotRequired"

\* The plan that rollback_decision writes for what was observed.
LEMMA DecisionFields ==
  ASSUME NEW r \in TransitionRecord, NEW usr \in InitialRollbackAction,
         NEW n \in rollback_decision(r, rollback_observations(r, usr))
  PROVE  /\ n.phase = "RollbackDecided"
         /\ n.candidate_id = r.candidate_id
         /\ n.rollback.source = r.phase
         /\ n.rollback.previous_archive = IF r.phase = "PreviousArchived" THEN "Pending" ELSE "NotRequired"
         /\ n.rollback.usr_exchange = usr
         /\ n.rollback.candidate = "Pending"
         /\ n.rollback.fresh_db = IF r.operation = "NewState" THEN "Pending" ELSE "NotRequired"
<1> DEFINE obs == rollback_observations(r, usr)
           plan == [source |-> r.phase,
                    previous_archive |-> observed_initial_action(obs.previous_archive),
                    usr_exchange |-> observed_initial_action(obs.usr_exchange),
                    candidate |-> obs.candidate,
                    disposition |-> candidate_disposition_for(r, r.phase),
                    fresh_db |-> observed_initial_action(obs.fresh_db),
                    boot |-> IF boot_possible(r.phase) THEN "PendingUnverifiable" ELSE "NotRequired",
                    external_effects_may_remain |-> external_effects(r, r.phase)]
<1>1. n = [r EXCEPT !.generation = r.generation + 1,
                    !.phase = "RollbackDecided",
                    !.candidate_id = IF r.candidate_id = None THEN obs.allocated_candidate_id ELSE r.candidate_id,
                    !.rollback = plan]
  BY Zenon DEF rollback_decision, Checked
<1>2. /\ n.phase = "RollbackDecided" /\ n.rollback = plan
      /\ n.candidate_id = IF r.candidate_id = None THEN obs.allocated_candidate_id ELSE r.candidate_id
  <2> HIDE DEF plan, obs
  <2> QED BY Zenon, <1>1 DEF TransitionRecord
<1>3. /\ obs.allocated_candidate_id = None /\ obs.candidate = "Pending" /\ obs.usr_exchange = usr
      /\ obs.previous_archive = IF r.phase = "PreviousArchived" THEN "Pending" ELSE None
      /\ obs.fresh_db = IF r.operation = "NewState" THEN "Pending" ELSE None
  BY Zenon DEF rollback_observations
<1>4. usr # None /\ "Pending" # None
  BY Zenon, NoneAssumption DEF InitialRollbackAction, RollbackAction
<1> HIDE DEF obs
<1> QED BY <1>2, <1>3, <1>4 DEF observed_initial_action

LEMMA DecisionSources ==
  ASSUME TypeOK, Sound, persist_usr_rollback_decision
  PROVE  DecisionSource
<1>1. /\ journal \in TransitionRecord /\ journal # None /\ validate(journal) /\ journal.version = 3
      /\ Route(journal, Evidence) = "DecideRollback"
  BY Zenon DEF persist_usr_rollback_decision, Enter, TypeOK, Sound
<1>2. /\ journal.rollback = None /\ rollback_decision_source_is_supported(journal)
      /\ EvidenceFits(journal, Evidence)
      /\ journal.phase = "UsrExchanged" => fs.root_abi
      /\ journal.operation = "ActiveReblit" /\ journal.phase = "BootSyncStarted" =>
           inspect_receipt_boundary(journal, receipts) = "Pending"
  <2>1. Evidence.fs = fs /\ Evidence.receipts = receipts
    BY Zenon DEF Evidence
  <2> QED BY Zenon, <1>1, <2>1, DecisionRoute
<1>3. /\ journal.phase \in DecisionPhase
      /\ journal.phase = "BootSyncStarted" => journal.operation = "ActiveReblit"
  BY Zenon, <1>2 DEF rollback_decision_source_is_supported, ExchangeSource, DecisionPhase
<1>4. journal.phase = "BootSyncStarted" => is_exact_pending(receipts, journal.transition_id, journal.receipts)
  <2>1. journal.phase = "BootSyncStarted" => journal.receipts # None
    BY Zenon, <1>1, BootRecordHasPair, NoneAssumption
  <2> QED BY Zenon, <1>2, <1>3, <2>1 DEF inspect_receipt_boundary
<1>5. PICK usr \in UsrObservation(journal, fs.trees) :
        journal' \in rollback_decision(journal, rollback_observations(journal, usr))
  BY Zenon DEF persist_usr_rollback_decision, DecidedRecords, Evidence
<1>6. usr \in InitialRollbackAction
  BY Zenon DEF UsrObservation, InitialRollbackAction
<1>7. /\ journal'.phase = "RollbackDecided"
      /\ journal'.candidate_id = journal.candidate_id
      /\ journal'.rollback.source = journal.phase
      /\ journal'.rollback.previous_archive = IF journal.phase = "PreviousArchived" THEN "Pending" ELSE "NotRequired"
      /\ journal'.rollback.usr_exchange = usr
      /\ journal'.rollback.candidate = "Pending"
      /\ journal'.rollback.fresh_db = IF journal.operation = "NewState" THEN "Pending" ELSE "NotRequired"
  BY ZenonT(60), <1>1, <1>5, <1>6, DecisionFields
<1>8. journal'.rollback # None
  BY Zenon, <1>7, DecisionWrites DEF Extension, validate_advance, validate, ForwardPhase
<1> QED BY Zenon, <1>2, <1>3, <1>4, <1>5, <1>7, <1>8 DEF DecisionSource

\* Before the decision is recorded, what it rests on is made durable.
LEMMA DecisionDisk ==
  ASSUME TypeOK, persist_usr_rollback_decision
  PROVE  /\ disk' \in Namespace
         /\ disk'.trees = IF journal.phase = "UsrExchangeIntent" /\ fs.trees = POST_EXCHANGE THEN fs.trees ELSE disk.trees
         /\ disk'.root_abi = IF DurabilityFirst THEN fs.root_abi ELSE disk.root_abi
         /\ disk'.isolation_abi = disk.isolation_abi
         /\ disk'.wrapper = disk.wrapper
         /\ disk'.target = disk.target
<1> DEFINE fields == CASE ~DurabilityFirst -> {}
                       [] DurabilityFirst /\ journal.phase = "UsrExchanged" -> {"root_abi"}
                       [] OTHER -> {"trees", "root_abi"}
<1>1. disk' = Mixed(fs, disk, fields)
  BY Zenon DEF persist_usr_rollback_decision, MakeDurable, Mixed
<1>2. /\ "trees" \in fields <=> journal.phase = "UsrExchangeIntent" /\ fs.trees = POST_EXCHANGE
      /\ "root_abi" \in fields <=> DurabilityFirst
      /\ "isolation_abi" \notin fields /\ "wrapper" \notin fields /\ "target" \notin fields
  BY Zenon DEF DurabilityFirst
<1> HIDE DEF fields
<1> QED BY <1>1, <1>2, MixedIsTyped DEF TypeOK

\* Every write of the record keeps what identifies the transition.
RecordWrite ==
  \/ ForwardWrite \/ start_boot_sync \/ persist_boot_sync_complete
  \/ persist_usr_rollback_decision \/ RollbackWrite \/ RepairWrite

LEMMA RecordWrites ==
  ASSUME TypeOK, Sound, Busy, RecordWrite
  PROVE  /\ Extension
         /\ UNCHANGED <<fs, row, receipts, installed, leftover, spent>>
         /\ disk' \in Namespace
         /\ ~persist_usr_rollback_decision => disk' = disk
         /\ proc' \in {Forward, Down}
         /\ journal # None /\ journal' # None
         /\ validate(journal') /\ journal'.version = 3
         /\ journal'.transition_id = journal.transition_id
         /\ journal'.operation = journal.operation
         /\ journal'.options = journal.options
         /\ journal'.previous_origin = journal.previous_origin
<1>1. /\ Extension
      /\ UNCHANGED <<fs, row, receipts, installed, leftover, spent>>
      /\ disk' \in Namespace
      /\ ~persist_usr_rollback_decision => disk' = disk
      /\ proc' \in {Forward, Down}
  <2>1. CASE persist_usr_rollback_decision
    BY Zenon, <2>1, DecisionWrites, DecisionDisk
  <2>2. CASE ~persist_usr_rollback_decision
    <3>1. Extension /\ OnlyRecord /\ proc' \in {Forward, Down}
      BY Zenon, <2>2, ForwardWrites, StartBootWrites, CompleteBootWrites, RollbackWrites, RepairWrites DEF RecordWrite
    <3> QED BY Zenon, <2>2, <3>1 DEF OnlyRecord, TypeOK
  <2> QED BY Zenon, <2>1, <2>2
<1>2. journal # None /\ journal' # None /\ validate_advance(journal, journal')
  BY Zenon, <1>1, NoneAssumption DEF Extension
<1> QED BY Zenon, <1>1, <1>2 DEF validate_advance, Sound

-----------------------------------------------------------------------------
(* Tables *)

\* A record with a forward phase has no plan, and its layout is that of the phase.
LEMMA ForwardRecords ==
  ASSUME NEW r \in TransitionRecord, validate(r)
  PROVE  /\ r.rollback = None <=> r.phase \in ForwardPhase
         /\ r.phase \in ForwardPhase => layout_phase(r) = r.phase
         /\ r.phase \notin ForwardPhase => layout_phase(r) = r.rollback.source
         /\ r.phase \notin ForwardPhase <=> r.phase \in RollbackPhase
BY ZenonT(60) DEF validate, layout_phase, TransitionRecord, Phase, ForwardPhase, RollbackPhase

\* Where the phases are in the forward order.
LEMMA Ordinals ==
  /\ ordinal("Preparing") = 0 /\ ordinal("FreshStateAllocating") = 1 /\ ordinal("FreshStateAllocated") = 2
  /\ ordinal("CandidatePrepareStarted") = 3 /\ ordinal("CandidatePrepared") = 4 /\ ordinal("TransactionTriggersStarted") = 5
  /\ ordinal("TransactionTriggersComplete") = 6 /\ ordinal("UsrExchangeIntent") = 7 /\ ordinal("UsrExchanged") = 8
  /\ ordinal("RootLinksComplete") = 9 /\ ordinal("SystemTriggersStarted") = 10 /\ ordinal("SystemTriggersComplete") = 11
  /\ ordinal("PreviousArchiveIntent") = 12 /\ ordinal("PreviousArchived") = 13 /\ ordinal("BootSyncStarted") = 14
  /\ ordinal("BootSyncComplete") = 15 /\ ordinal("CommitDecided") = 16 /\ ordinal("CommitCleanupComplete") = 17
  /\ ordinal("Complete") = 18
BY Zenon DEF ordinal

\* The forward edges.
LEMMA NextPhases ==
  ASSUME NEW r
  PROVE  /\ r.phase = "Preparing" => next_forward_phase(r) \in {"FreshStateAllocating", "CandidatePrepareStarted"}
         /\ r.phase = "FreshStateAllocating" => next_forward_phase(r) = "FreshStateAllocated"
         /\ r.phase = "FreshStateAllocated" => next_forward_phase(r) = "CandidatePrepareStarted"
         /\ r.phase = "CandidatePrepareStarted" => next_forward_phase(r) = "CandidatePrepared"
         /\ r.phase = "CandidatePrepared" => next_forward_phase(r) \in {"TransactionTriggersStarted", "UsrExchangeIntent"}
         /\ r.phase = "TransactionTriggersStarted" => next_forward_phase(r) = "TransactionTriggersComplete"
         /\ r.phase = "TransactionTriggersComplete" => next_forward_phase(r) = "UsrExchangeIntent"
         /\ r.phase = "UsrExchangeIntent" => next_forward_phase(r) = "UsrExchanged"
         /\ r.phase = "UsrExchanged" => next_forward_phase(r) = "RootLinksComplete"
         /\ r.phase = "RootLinksComplete" => next_forward_phase(r) \in {"SystemTriggersStarted", "PreviousArchiveIntent", "BootSyncStarted", "CommitDecided"}
         /\ r.phase = "SystemTriggersStarted" => next_forward_phase(r) = "SystemTriggersComplete"
         /\ r.phase = "SystemTriggersComplete" => next_forward_phase(r) \in {"PreviousArchiveIntent", "BootSyncStarted", "CommitDecided"}
         /\ r.phase = "PreviousArchiveIntent" => next_forward_phase(r) = "PreviousArchived"
         /\ r.phase = "PreviousArchived" => next_forward_phase(r) \in {"BootSyncStarted", "CommitDecided"}
         /\ r.phase = "BootSyncStarted" => next_forward_phase(r) = "BootSyncComplete"
         /\ r.phase = "BootSyncComplete" => next_forward_phase(r) = "CommitDecided"
         /\ r.phase = "CommitDecided" => next_forward_phase(r) = "CommitCleanupComplete"
         /\ r.phase = "CommitCleanupComplete" => next_forward_phase(r) = "Complete"
BY Zenon DEF next_forward_phase, after_archive, after_system

\* A forward edge goes up.
LEMMA ForwardEdges ==
  ASSUME NEW r, r.phase \in ForwardPhase, next_forward_phase(r) \in ForwardPhase
  PROVE  /\ r.phase # "Complete" /\ next_forward_phase(r) # "Preparing"
         /\ ordinal(next_forward_phase(r)) > ordinal(r.phase)
<1>1. r.phase # "Complete"
  BY Zenon, NoneAssumption DEF next_forward_phase, ForwardPhase, Phase
<1>2. CASE r.phase \in {"Preparing", "FreshStateAllocating", "FreshStateAllocated", "CandidatePrepareStarted"}
  BY <1>2, NextPhases, Ordinals
<1>3. CASE r.phase \in {"CandidatePrepared", "TransactionTriggersStarted", "TransactionTriggersComplete"}
  BY <1>3, NextPhases, Ordinals
<1>4. CASE r.phase \in {"UsrExchangeIntent", "UsrExchanged", "RootLinksComplete", "SystemTriggersStarted"}
  BY <1>4, NextPhases, Ordinals
<1>5. CASE r.phase \in {"SystemTriggersComplete", "PreviousArchiveIntent", "PreviousArchived", "BootSyncStarted"}
  BY <1>5, NextPhases, Ordinals
<1>6. CASE r.phase \in {"BootSyncComplete", "CommitDecided", "CommitCleanupComplete"}
  BY <1>6, NextPhases, Ordinals
<1> QED BY Zenon, <1>1, <1>2, <1>3, <1>4, <1>5, <1>6 DEF ForwardPhase

\* The provenance that each phase calls for.
LEMMA Provenances ==
  ASSUME NEW p \in ForwardPhase
  PROVE  /\ p \in {"Preparing", "FreshStateAllocating", "FreshStateAllocated"} => ForwardProvenance(p) = {FALSE}
         /\ p = "CandidatePrepareStarted" => ForwardProvenance(p) = BOOLEAN
         /\ p \notin {"Preparing", "FreshStateAllocating", "FreshStateAllocated", "CandidatePrepareStarted"} =>
              ForwardProvenance(p) = {TRUE}
<1>1. /\ ForwardProvenance("Preparing") = {FALSE}
      /\ ForwardProvenance("FreshStateAllocating") = {FALSE}
      /\ ForwardProvenance("FreshStateAllocated") = {FALSE}
      /\ ForwardProvenance("CandidatePrepareStarted") = BOOLEAN
      /\ ForwardProvenance("CandidatePrepared") = {TRUE}
      /\ ForwardProvenance("TransactionTriggersStarted") = {TRUE}
      /\ ForwardProvenance("TransactionTriggersComplete") = {TRUE}
      /\ ForwardProvenance("UsrExchangeIntent") = {TRUE}
      /\ ForwardProvenance("UsrExchanged") = {TRUE}
      /\ ForwardProvenance("RootLinksComplete") = {TRUE}
      /\ ForwardProvenance("SystemTriggersStarted") = {TRUE}
      /\ ForwardProvenance("SystemTriggersComplete") = {TRUE}
      /\ ForwardProvenance("PreviousArchiveIntent") = {TRUE}
      /\ ForwardProvenance("PreviousArchived") = {TRUE}
      /\ ForwardProvenance("BootSyncStarted") = {TRUE}
      /\ ForwardProvenance("BootSyncComplete") = {TRUE}
      /\ ForwardProvenance("CommitDecided") = {TRUE}
      /\ ForwardProvenance("CommitCleanupComplete") = {TRUE}
      /\ ForwardProvenance("Complete") = {TRUE}
  BY DEF ForwardProvenance, ordinal
<1> QED BY <1>1, Zenon DEF ForwardPhase


-----------------------------------------------------------------------------
(* The inductive invariant *)

\* The row in flight is there exactly while the record can own it, with the id
\* that the record knows and the provenance that the phase calls for.
RowIsFresh ==
  journal # None =>
    /\ journal.operation # "NewState" => row = None
    /\ journal.phase = "Preparing" => row = None
    /\ row # None =>
         /\ journal.candidate_id # None => row.id = journal.candidate_id
         /\ row.provenance \in ForwardProvenance(layout_phase(journal))
         /\ journal.rollback # None => ~resolved(journal.rollback.fresh_db)
    /\ row = None /\ journal.operation = "NewState" =>
         \/ journal.phase \in {"Preparing", "FreshStateAllocating"}
         \/ journal.phase = "FreshDbInvalidationIntent"
         \/ journal.rollback # None /\ resolved(journal.rollback.fresh_db)
    /\ journal.phase = "FreshDbInvalidationIntent" /\ proc.at # "Ready" => row = None

\* The head names stored bodies only, and every id in use is spent.
ReceiptHead ==
  /\ \A b \in receipts.bodies : b.transition_id \in spent
  /\ receipts.committed # None => HasBody(receipts, receipts.committed)
  /\ receipts.pending # None => HasBody(receipts, receipts.pending) /\ receipts.pending # receipts.committed
  /\ journal # None => journal.transition_id \in spent

\* Once the head names the transition, it is past the last point of return.
CommittedSuffix ==
  journal # None /\ receipts.committed = journal.transition_id =>
    journal.rollback = None /\ ordinal(journal.phase) >= ordinal("BootSyncStarted")

\* The publication is complete before its receipt is promoted.
Published ==
  (/\ proc.mode = "Forward" /\ proc.at = "Effected"
   /\ journal # None /\ journal.phase = "BootSyncStarted") => journal.transition_id \in installed

IInv ==
  /\ TypeOK /\ Sound /\ Busy
  /\ RowIsOwned /\ RowIsFresh
  /\ ReceiptHead /\ CommittedSuffix /\ Published /\ CommittedIsBootable

\* What a write of the row needs and leaves.
LEMMA RowWrites ==
  ASSUME TypeOK, Sound, RowIsOwned, RowIsFresh, RowWrite
  PROVE  /\ journal # None /\ journal.operation = "NewState"
         /\ UNCHANGED <<journal, fs, disk, receipts, installed, leftover, spent>>
         /\ row' \in StateRow \cup {None}
         /\ row' # None => row'.transition_id = journal.transition_id
         /\ proc' \in Process
         /\ proc'.at # "Ready" => proc'.at = "Synced" /\ journal.phase = "FreshDbInvalidationIntent"
         /\ \/ /\ journal.phase = "FreshStateAllocating"
               /\ row' # None /\ ~row'.provenance
            \/ journal.phase = "CandidatePrepareStarted" /\ row # None /\ row' # None /\ row'.id = row.id
            \/ journal.phase = "FreshDbInvalidationIntent" /\ row' = None
<1>0. /\ proc \in Process /\ journal \in TransitionRecord \cup {None} /\ row \in StateRow \cup {None}
      /\ Forward.at = "Ready"
      /\ \A outcome \in RollbackActionOutcome \cup {None} :
           Startup("Synced", outcome) \in Process /\ Startup("Synced", outcome).at = "Synced"
  BY ZenonT(60), ProcessSteps DEF TypeOK, Process, Progress
<1>1. CASE allocate_fresh_state
  <2>1. /\ journal \in TransitionRecord /\ journal # None /\ journal.phase = "FreshStateAllocating"
        /\ proc' = Forward /\ proc = Forward
        /\ row' = [id |-> Fresh, transition_id |-> journal.transition_id, provenance |-> FALSE]
        /\ UNCHANGED <<journal, fs, disk, receipts, installed, leftover, spent>>
    BY Zenon, <1>0, <1>1 DEF allocate_fresh_state, At
  <2>2. journal.operation = "NewState"
    BY Zenon, <2>1, ForwardRecords DEF Sound, ForwardPhase, validate, validate_option_reachability
  <2>3. row' \in StateRow
    BY Zenon, <2>1, StatesAssumption DEF StateRow, TransitionRecord
  <2>4. row'.transition_id = journal.transition_id /\ ~row'.provenance
    BY Zenon, <2>1
  <2> QED BY Zenon, <1>0, <2>1, <2>2, <2>3, <2>4, RowAssumption
<1>2. CASE insert_provenance
  <2>1. /\ journal \in TransitionRecord /\ journal # None /\ journal.phase = "CandidatePrepareStarted"
        /\ journal.operation = "NewState"
        /\ proc' = Forward /\ proc = Forward
        /\ row' = [row EXCEPT !.provenance = TRUE]
        /\ UNCHANGED <<journal, fs, disk, receipts, installed, leftover, spent>>
    BY Zenon, <1>0, <1>2 DEF insert_provenance, At
  <2>2. row # None
    BY Zenon, <2>1, ForwardRecords DEF Sound, ForwardPhase, RowIsFresh
  <2>3. row' \in StateRow /\ row'.id = row.id /\ row'.transition_id = row.transition_id
    BY Zenon, <1>0, <2>1, <2>2 DEF StateRow
  <2> QED BY Zenon, <1>0, <2>1, <2>2, <2>3, RowAssumption DEF RowIsOwned
<1>3. CASE invalidate_fresh_db
  <2>1. journal # None /\ journal.phase = "FreshDbInvalidationIntent" /\ journal.operation = "NewState"
    BY Zenon, <1>3, RollbackRoutes DEF invalidate_fresh_db, Enter
  <2>2. proc' \in Process /\ proc'.at = "Synced"
    BY Zenon, <1>0, <1>3 DEF invalidate_fresh_db, RollbackActionOutcome
  <2> QED BY Zenon, <1>3, <2>1, <2>2 DEF invalidate_fresh_db
<1> QED BY Zenon, <1>1, <1>2, <1>3 DEF RowWrite

\* A receipt is staged with its body, unless one is pending or was stored before.
LEMMA StagedReceipts ==
  ASSUME NEW s \in BootPublicationReceiptState, NEW id \in TransitionId, s.pending # id,
         NEW n \in stage_receipt(s, id)
  PROVE  /\ n \in BootPublicationReceiptState
         /\ s.pending = None /\ ~HasBody(s, id)
         /\ n.pending = id /\ n.committed = s.committed
         /\ n.bodies = s.bodies \cup {[transition_id |-> id, committed_predecessor |-> s.committed]}
<1> DEFINE body == [transition_id |-> id, committed_predecessor |-> s.committed]
<1>1. s.pending = None /\ ~HasBody(s, id) /\ n = [s EXCEPT !.pending = id, !.bodies = s.bodies \cup {body}]
  BY Zenon DEF stage_receipt
<1>2. body \in ReceiptBody
  BY Zenon DEF ReceiptBody, BootPublicationReceiptState
<1> HIDE DEF body
<1>3. /\ n.pending = id /\ n.committed = s.committed /\ n.bodies = s.bodies \cup {body}
      /\ n \in BootPublicationReceiptState
  BY Zenon, <1>1, <1>2 DEF BootPublicationReceiptState
<1> QED BY Zenon, <1>1, <1>3 DEF body

\* What the steps of a publication leave alone, and their types.
LEMMA BootWrites ==
  ASSUME TypeOK, Busy, BootWrite
  PROVE  /\ journal # None
         /\ UNCHANGED <<journal, fs, disk, row, leftover, spent>>
         /\ receipts' \in BootPublicationReceiptState /\ installed' \subseteq TransitionId
         /\ proc' \in Process
         /\ proc'.at # "Ready" => journal.phase = "BootSyncStarted"
<1>0. /\ proc \in Process /\ Forward.at = "Ready" /\ Forward \in Process
      /\ "Effected" \in Progress /\ "Synced" \in Progress /\ None \in RollbackActionOutcome \cup {None}
  BY Zenon, ProcessSteps DEF TypeOK, Process, Progress
<1>1. CASE stage_boot_receipt
  <2>1. /\ journal # None /\ proc = Forward /\ proc' = proc
        /\ UNCHANGED <<journal, fs, disk, row, installed, leftover, spent>>
        /\ receipts' \in stage_receipt(receipts, journal.transition_id)
        /\ journal.transition_id \in TransitionId /\ receipts.pending # journal.transition_id
    BY Zenon, <1>1 DEF stage_boot_receipt, At, TypeOK, TransitionRecord
  <2>2. receipts' \in BootPublicationReceiptState
    BY Zenon, <2>1, StagedReceipts DEF TypeOK
  <2> QED BY Zenon, <1>0, <2>1, <2>2 DEF TypeOK
<1>2. CASE attempt_immutable_boot_publication
  <2>1. /\ journal # None /\ journal.phase = "BootSyncStarted" /\ journal.transition_id \in TransitionId
        /\ UNCHANGED <<journal, fs, disk, row, receipts, leftover, spent>>
        /\ installed' = installed \cup {journal.transition_id} /\ proc' = Step(proc, "Effected")
    BY Zenon, <1>2 DEF attempt_immutable_boot_publication, At, TypeOK, TransitionRecord
  <2> QED BY Zenon, <1>0, <2>1, ProcessSteps DEF TypeOK
<1>3. CASE promote_terminal_receipt
  <2>1. /\ proc.at = "Effected" /\ proc' = Forward
        /\ UNCHANGED <<journal, fs, disk, row, installed, leftover, spent>>
        /\ receipts' \in promote_receipt(receipts, journal.transition_id, journal.receipts)
    BY Zenon, <1>0, <1>3, ProcessSteps DEF promote_terminal_receipt, Step, Forward
  <2>2. journal # None /\ journal.transition_id \in TransitionId
    BY Zenon, <2>1 DEF Busy, TypeOK, TransitionRecord
  <2>3. receipts' \in BootPublicationReceiptState
    BY Zenon, <2>1, <2>2 DEF promote_receipt, BootPublicationReceiptState, TypeOK
  <2> QED BY Zenon, <1>0, <2>1, <2>2, <2>3 DEF TypeOK
<1>4. CASE cleanup_promoted_outputs
  <2>1. /\ journal # None /\ journal.phase = "BootSyncStarted" /\ journal.transition_id \in TransitionId
        /\ UNCHANGED <<journal, fs, disk, row, receipts, leftover, spent>>
        /\ installed' = {journal.transition_id}
        /\ proc' = IF proc = Forward THEN Step(Forward, "Synced") ELSE Startup("Synced", None)
    BY Zenon, <1>4 DEF cleanup_promoted_outputs, TypeOK, TransitionRecord
  <2>2. proc' \in Process
    BY Zenon, <1>0, <2>1, ProcessSteps
  <2> QED BY Zenon, <2>1, <2>2 DEF TypeOK
<1> QED BY Zenon, <1>1, <1>2, <1>3, <1>4 DEF BootWrite

-----------------------------------------------------------------------------
(* Every step keeps the invariant, conjunct by conjunct *)

\* The part that the record, the process and the types make up.
LEMMA RecordStep ==
  ASSUME IInv, Next
  PROVE  TypeOK' /\ Sound' /\ Busy'
<1>0. TypeOK /\ Sound /\ Busy /\ RowIsOwned /\ RowIsFresh
  BY Zenon DEF IInv
<1>a. /\ Down \in Process /\ Clean \in Process /\ Forward \in Process
      /\ Down.at = "Ready" /\ Clean.at = "Ready" /\ Forward.at = "Ready"
  BY Zenon, <1>0, ProcessSteps DEF TypeOK, Process
<1> USE DEF Process
<1>1. CASE Begin
  <2>1. PICK id \in TransitionId :
          /\ journal' \in TransitionRecord /\ validate(journal') /\ journal'.version = 3
          /\ spent' = spent \cup {id} /\ fs' \in Namespace /\ disk' = fs'
          /\ leftover' \in BOOLEAN /\ proc' = Forward /\ UNCHANGED <<row, receipts, installed>>
    BY Zenon, <1>0, <1>1, BeginWrites
  <2> QED BY Zenon, <1>0, <1>a, <2>1 DEF TypeOK, Sound, Busy
<1>2. CASE RecordWrite
  <2>1. /\ journal' \in TransitionRecord /\ validate(journal') /\ journal'.version = 3
        /\ UNCHANGED <<fs, row, receipts, installed, leftover, spent>>
        /\ disk' \in Namespace /\ proc' \in {Forward, Down}
    BY Zenon, <1>0, <1>2, RecordWrites DEF Extension
  <2> QED BY Zenon, <1>0, <1>a, <2>1 DEF TypeOK, Sound, Busy
<1>3. CASE Finalize
  <2>1. journal' = None /\ OnlyRecord /\ proc' = Clean
    BY Zenon, <1>0, <1>3, FinalizeWrites
  <2> QED BY Zenon, <1>0, <1>a, <2>1 DEF TypeOK, Sound, Busy, OnlyRecord
<1>4. CASE NamespaceWrite
  <2>1. NamespaceKept
    BY Zenon, <1>0, <1>4, NamespaceWrites
  <2> QED BY Zenon, <1>0, <2>1 DEF NamespaceKept, OnlyNamespace, TypeOK, Sound, Busy
<1>5. CASE Sync
  BY Zenon, <1>0, <1>5, SyncWrites DEF TypeOK, Sound, Busy
<1>6. CASE RowWrite
  BY Zenon, <1>0, <1>6, RowWrites DEF TypeOK, Sound, Busy
<1>7. CASE BootWrite
  BY Zenon, <1>0, <1>7, BootWrites DEF TypeOK, Sound, Busy
<1>8. CASE Pause
  BY Zenon, <1>0, <1>a, <1>8, PauseWrites DEF TypeOK, Sound, Busy
<1>9. CASE PowerLoss
  BY Zenon, <1>0, <1>a, <1>9, PowerLossWrites DEF TypeOK, Sound, Busy
<1> QED BY Zenon, <1>1, <1>2, <1>3, <1>4, <1>5, <1>6, <1>7, <1>8, <1>9, Groups DEF RecordWrite

\* The row in flight stays with its transition.
LEMMA RowStep ==
  ASSUME IInv, Next
  PROVE  RowIsOwned' /\ RowIsFresh'
<1>0. /\ TypeOK /\ Sound /\ Busy /\ RowIsOwned /\ RowIsFresh
      /\ journal # None => journal \in TransitionRecord /\ validate(journal)
      /\ Down.at = "Ready" /\ Clean.at = "Ready" /\ Forward.at = "Ready"
  BY Zenon DEF IInv, TypeOK, Sound, Down, Clean, Forward
<1>1. CASE Begin
  <2>1. /\ row' = None /\ journal'.phase = "Preparing" /\ journal'.rollback = None /\ proc' = Forward
    BY Zenon, <1>0, <1>1, BeginWrites
  <2> QED BY Zenon, <1>0, <2>1 DEF RowIsOwned, RowIsFresh
<1>2. CASE RecordWrite
  <2>1. /\ journal # None /\ journal' # None
        /\ journal \in TransitionRecord /\ journal' \in TransitionRecord
        /\ validate(journal) /\ validate(journal')
        /\ journal'.transition_id = journal.transition_id /\ journal'.operation = journal.operation
        /\ row' = row /\ proc'.at = "Ready"
    BY Zenon, <1>0, <1>2, RecordWrites DEF Extension
  <2>2. RowIsOwned'
    BY Zenon, <1>0, <2>1 DEF RowIsOwned
  <2>3. CASE ForwardWrite
    <3>1. ForwardSource
      BY Zenon, <1>0, <2>3, ForwardSources
    <3>2. /\ journal.phase \in ForwardPhase /\ journal'.phase = next_forward_phase(journal)
          /\ layout_phase(journal) = journal.phase /\ layout_phase(journal') = journal'.phase
          /\ journal.rollback = None /\ journal'.rollback = None
      BY Zenon, <2>1, <3>1, ForwardRecords DEF ForwardSource
    <3>3. journal'.phase # "Preparing" /\ journal'.phase # "FreshDbInvalidationIntent"
      <4>1. journal'.phase \in ForwardPhase
        BY Zenon, <3>1 DEF ForwardSource
      <4>2. journal'.phase # "Preparing"
        BY Zenon, <3>2, <4>1, ForwardEdges
      <4> QED BY Zenon, <4>1, <4>2 DEF ForwardPhase
    <3>4. ASSUME row # None
          PROVE  /\ journal'.candidate_id # None => row.id = journal'.candidate_id
                 /\ row.provenance \in ForwardProvenance(journal'.phase)
      <4>1. /\ journal.operation = "NewState" /\ journal.phase # "Preparing"
            /\ journal.candidate_id # None => row.id = journal.candidate_id
            /\ row.provenance \in ForwardProvenance(journal.phase)
        BY Zenon, <1>0, <2>1, <3>2, <3>4 DEF RowIsFresh
      <4>2. row.provenance \in BOOLEAN
        BY Zenon, <1>0, <3>4 DEF TypeOK, StateRow
      <4>3. journal'.candidate_id # None => row.id = journal'.candidate_id
        BY Zenon, <3>1, <4>1 DEF ForwardSource
      <4>4. row.provenance \in ForwardProvenance(journal'.phase)
        <5>1. /\ journal.phase = "FreshStateAllocating" => journal'.phase = "FreshStateAllocated"
              /\ journal.phase = "FreshStateAllocated" => journal'.phase = "CandidatePrepareStarted"
              /\ journal.phase = "CandidatePrepareStarted" => journal'.phase = "CandidatePrepared"
              /\ ordinal(journal'.phase) > ordinal(journal.phase)
              /\ journal.phase \in ForwardPhase /\ journal'.phase \in ForwardPhase
          BY Zenon, <3>1, <3>2, ForwardEdges, NextPhases DEF ForwardSource
        <5>2. CASE journal.phase \in {"FreshStateAllocating", "FreshStateAllocated", "CandidatePrepareStarted"}
          BY ZenonT(60), <3>1, <4>1, <4>2, <5>1, <5>2, Provenances DEF ForwardSource
        <5>3. CASE journal.phase \notin {"FreshStateAllocating", "FreshStateAllocated", "CandidatePrepareStarted"}
          <6>1. ordinal(journal.phase) >= 4
            BY <4>1, <5>1, <5>3, Ordinals DEF ForwardPhase
          <6>2. journal'.phase \notin {"Preparing", "FreshStateAllocating", "FreshStateAllocated", "CandidatePrepareStarted"}
            BY <5>1, <6>1, Ordinals DEF ForwardPhase
          <6> QED BY Zenon, <4>1, <5>1, <5>3, <6>2, Provenances
        <5> QED BY Zenon, <5>2, <5>3
      <4> QED BY Zenon, <4>3, <4>4
    <3>5. ASSUME row = None, journal.operation = "NewState"
          PROVE  journal'.phase = "FreshStateAllocating"
      <4>1. journal.phase = "Preparing"
        BY Zenon, <1>0, <2>1, <3>1, <3>2, <3>5 DEF RowIsFresh, ForwardSource, ForwardPhase
      <4> QED BY Zenon, <3>2, <3>5, <4>1 DEF next_forward_phase
    <3>6. journal.operation # "NewState" => row = None
      BY Zenon, <1>0, <2>1 DEF RowIsFresh
    <3> QED BY Zenon, <2>1, <2>2, <3>2, <3>3, <3>4, <3>5, <3>6 DEF RowIsFresh
  <2>4. CASE start_boot_sync \/ persist_boot_sync_complete
    <3>1. \/ journal.phase = "SystemTriggersComplete" /\ journal'.phase = "BootSyncStarted"
          \/ journal.phase = "BootSyncStarted" /\ journal'.phase = "BootSyncComplete"
      BY Zenon, <1>0, <2>1, <2>4, StartBootWrites
         DEF start_boot_sync, At, boot_sync_started_successor, persist_boot_sync_complete, Persist,
             boot_sync_complete_successor, Checked, TransitionRecord
    <3>2. journal'.candidate_id = journal.candidate_id
      BY Zenon, <1>0, <1>2, <3>1, RecordWrites DEF Extension, validate_advance
    <3>3. /\ journal.rollback = None /\ journal'.rollback = None
          /\ layout_phase(journal) = journal.phase /\ layout_phase(journal') = journal'.phase
      BY Zenon, <2>1, <3>1, ForwardRecords DEF ForwardPhase
    <3>4. ForwardProvenance(journal'.phase) = ForwardProvenance(journal.phase)
      <4>1. /\ journal.phase \in ForwardPhase /\ journal'.phase \in ForwardPhase
            /\ journal.phase \notin {"Preparing", "FreshStateAllocating", "FreshStateAllocated", "CandidatePrepareStarted"}
            /\ journal'.phase \notin {"Preparing", "FreshStateAllocating", "FreshStateAllocated", "CandidatePrepareStarted"}
        BY Zenon, <3>1 DEF ForwardPhase
      <4>2. ForwardProvenance(journal.phase) = {TRUE} /\ ForwardProvenance(journal'.phase) = {TRUE}
        BY Zenon, <4>1, Provenances
      <4> QED BY Zenon, <4>2
    <3> QED BY Zenon, <1>0, <2>1, <2>2, <3>1, <3>2, <3>3, <3>4 DEF RowIsFresh
  <2>5. CASE persist_usr_rollback_decision
    <3>1. DecisionSource
      BY Zenon, <1>0, <2>5, DecisionSources
    <3>2. /\ journal.phase \in ForwardPhase /\ layout_phase(journal) = journal.phase
          /\ layout_phase(journal') = journal.phase
      BY Zenon, <2>1, <3>1, ForwardRecords DEF DecisionSource, RollbackPhase
    <3>3. ~resolved(journal'.rollback.fresh_db)
      BY Zenon, <3>1 DEF DecisionSource, resolved
    <3> QED BY Zenon, <1>0, <2>1, <2>2, <3>1, <3>2, <3>3 DEF RowIsFresh, DecisionSource, DecisionPhase
  <2>6. CASE RollbackWrite \/ RepairWrite
    <3>1. RollbackSource
      BY Zenon, <1>0, <2>6, RollbackSources
    <3>2. /\ journal.rollback # None /\ journal'.rollback # None
          /\ journal'.phase \notin {"Preparing", "FreshStateAllocating"}
          /\ journal.phase \notin {"Preparing", "FreshStateAllocating"}
          /\ layout_phase(journal') = layout_phase(journal)
      BY Zenon, <2>1, <3>1, ForwardRecords DEF RollbackSource, ForwardPhase
    <3>3. journal'.candidate_id = journal.candidate_id
      BY Zenon, <1>0, <1>2, <3>2, RecordWrites DEF Extension, validate_advance
    <3>4. CASE journal.phase # "FreshDbInvalidationIntent"
      <4>1. journal'.rollback.fresh_db = journal.rollback.fresh_db
        BY Zenon, <3>1, <3>4 DEF RollbackSource
      <4> QED BY Zenon, <1>0, <2>1, <2>2, <3>2, <3>3, <3>4, <4>1 DEF RowIsFresh
    <3>5. CASE journal.phase = "FreshDbInvalidationIntent"
      <4>1. journal'.phase = "FreshDbInvalidated" /\ proc.at = "Synced"
        BY Zenon, <3>1, <3>5 DEF RollbackSource, Ladder
      <4>2. row = None
        BY Zenon, <1>0, <2>1, <3>5, <4>1 DEF RowIsFresh
      <4>3. resolved(journal'.rollback.fresh_db)
        BY Zenon, <2>1, <3>2, <4>1, DonePlan DEF validate
      <4> QED BY Zenon, <2>1, <2>2, <3>2, <4>1, <4>2, <4>3 DEF RowIsFresh
    <3> QED BY Zenon, <3>4, <3>5
  <2> QED BY Zenon, <1>2, <2>3, <2>4, <2>5, <2>6 DEF RecordWrite
<1>3. CASE Finalize
  BY Zenon, <1>0, <1>3, FinalizeWrites DEF OnlyRecord, RowIsOwned, RowIsFresh
<1>4. CASE NamespaceWrite
  <2>1. NamespaceKept
    BY Zenon, <1>0, <1>4, NamespaceWrites
  <2> QED BY Zenon, <1>0, <2>1 DEF NamespaceKept, OnlyNamespace, SyncPhase, RowIsOwned, RowIsFresh
<1>5. CASE Sync
  <2>1. UNCHANGED <<journal, row>> /\ journal.phase \in SyncPhase
    BY Zenon, <1>0, <1>5, SyncWrites
  <2>2. journal.phase # "FreshDbInvalidationIntent"
    BY Zenon, <2>1 DEF SyncPhase
  <2> QED BY Zenon, <1>0, <2>1, <2>2 DEF RowIsOwned, RowIsFresh
<1>6. CASE RowWrite
  <2>1. /\ journal # None /\ journal' = journal /\ journal.operation = "NewState"
        /\ row' # None => row'.transition_id = journal.transition_id
        /\ proc'.at # "Ready" => proc'.at = "Synced" /\ journal.phase = "FreshDbInvalidationIntent"
        /\ \/ /\ journal.phase = "FreshStateAllocating"
              /\ row' # None /\ ~row'.provenance
           \/ journal.phase = "CandidatePrepareStarted" /\ row # None /\ row' # None /\ row'.id = row.id
           \/ journal.phase = "FreshDbInvalidationIntent" /\ row' = None
        /\ row' \in StateRow \cup {None}
    BY Zenon, <1>0, <1>6, RowWrites
  <2>2. journal.phase \in {"FreshStateAllocating", "CandidatePrepareStarted"} =>
          journal.rollback = None /\ layout_phase(journal) = journal.phase
    BY Zenon, <1>0, <2>1, ForwardRecords DEF ForwardPhase
  <2>3. journal.phase = "FreshStateAllocating" => journal.candidate_id = None
    BY Zenon, <1>0, <2>1, <2>2 DEF validate, validate_candidate_layout
  <2>4. row' # None => row'.provenance \in BOOLEAN
    BY Zenon, <2>1 DEF StateRow
  <2>5. CASE journal.phase = "FreshStateAllocating"
    <3>1. ForwardProvenance("FreshStateAllocating") = {FALSE}
      BY DEF ForwardProvenance, ordinal
    <3>2. row' # None /\ row'.provenance = FALSE
      BY Zenon, <2>1, <2>4, <2>5
    <3> QED BY Zenon, <2>1, <2>2, <2>3, <2>5, <3>1, <3>2 DEF RowIsOwned, RowIsFresh
  <2>6. CASE journal.phase = "CandidatePrepareStarted"
    <3>1. ForwardProvenance("CandidatePrepareStarted") = BOOLEAN
      BY DEF ForwardProvenance, ordinal
    <3> QED BY Zenon, <1>0, <2>1, <2>2, <2>4, <2>6, <3>1 DEF RowIsOwned, RowIsFresh
  <2>7. CASE journal.phase = "FreshDbInvalidationIntent"
    BY Zenon, <2>1, <2>7 DEF RowIsOwned, RowIsFresh
  <2> QED BY Zenon, <2>1, <2>5, <2>6, <2>7
<1>7. CASE BootWrite
  BY <1>0, <1>7, BootWrites DEF RowIsOwned, RowIsFresh
<1>8. CASE Pause
  BY <1>0, <1>8, PauseWrites DEF RowIsOwned, RowIsFresh
<1>9. CASE PowerLoss
  BY <1>0, <1>9, PowerLossWrites DEF RowIsOwned, RowIsFresh
<1> QED BY Zenon, <1>1, <1>2, <1>3, <1>4, <1>5, <1>6, <1>7, <1>8, <1>9, Groups DEF RecordWrite

\* What the steps of a publication do to the receipts and to the boot volume.
LEMMA BootEffects ==
  ASSUME IInv, BootWrite
  PROVE  \/ /\ receipts.pending = None /\ receipts'.pending = journal.transition_id
            /\ receipts'.committed = receipts.committed /\ receipts.committed # journal.transition_id
            /\ receipts'.bodies = receipts.bodies \cup
                 {[transition_id |-> journal.transition_id, committed_predecessor |-> receipts.committed]}
            /\ UNCHANGED <<installed, proc>> /\ proc.at = "Ready"
         \/ /\ installed' = installed \cup {journal.transition_id}
            /\ UNCHANGED receipts
         \/ /\ receipts'.committed = journal.transition_id /\ receipts'.pending = None
            /\ receipts'.bodies = receipts.bodies
            /\ HasBody(receipts, journal.transition_id)
            /\ journal.phase = "BootSyncStarted" /\ journal.transition_id \in installed
            /\ UNCHANGED installed /\ proc' = Forward
         \/ /\ installed' = {journal.transition_id} /\ receipts.committed = journal.transition_id
            /\ UNCHANGED receipts /\ proc'.at = "Synced"
<1>0. TypeOK /\ Sound /\ Busy /\ ReceiptHead /\ Published
  BY Zenon DEF IInv
<1>1. journal # None /\ journal.transition_id \in TransitionId /\ journal.transition_id # None
  BY Zenon, <1>0, BootWrites, NoneAssumption DEF TypeOK, TransitionRecord
<1>2. CASE stage_boot_receipt
  <2>1. /\ receipts.pending # journal.transition_id /\ receipts' \in stage_receipt(receipts, journal.transition_id)
        /\ UNCHANGED <<installed, proc>> /\ proc.at = "Ready"
    BY Zenon, <1>2 DEF stage_boot_receipt, At, Forward
  <2>2. /\ receipts.pending = None /\ ~HasBody(receipts, journal.transition_id)
        /\ receipts'.pending = journal.transition_id /\ receipts'.committed = receipts.committed
        /\ receipts'.bodies = receipts.bodies \cup
                 {[transition_id |-> journal.transition_id, committed_predecessor |-> receipts.committed]}
    BY <1>0, <1>1, <2>1, StagedReceipts DEF TypeOK
  <2>3. receipts.committed # journal.transition_id
    BY Zenon, <1>0, <1>1, <2>2 DEF ReceiptHead
  <2> QED BY Zenon, <2>1, <2>2, <2>3
<1>3. CASE attempt_immutable_boot_publication
  BY Zenon, <1>3 DEF attempt_immutable_boot_publication
<1>4. CASE promote_terminal_receipt
  <2>1. /\ proc = Step(Forward, "Effected") /\ journal.phase = "BootSyncStarted"
        /\ receipts' \in promote_receipt(receipts, journal.transition_id, journal.receipts)
        /\ UNCHANGED installed /\ proc' = Forward
    BY Zenon, <1>4 DEF promote_terminal_receipt
  <2>2. journal.transition_id \in installed
    BY Zenon, <1>0, <1>1, <2>1 DEF Published, Step, Forward
  <2>3. CASE is_exact_promoted(receipts, journal.transition_id, journal.receipts)
    <3>1. receipts' = receipts
      BY Zenon, <2>1, <2>3 DEF promote_receipt
    <3> QED BY Zenon, <2>1, <2>2, <2>3, <3>1 DEF is_exact_promoted, HasBody
  <2>4. CASE ~is_exact_promoted(receipts, journal.transition_id, journal.receipts)
    <3>1. /\ is_exact_pending(receipts, journal.transition_id, journal.receipts)
          /\ receipts' = [receipts EXCEPT !.committed = journal.transition_id, !.pending = None]
      BY Zenon, <2>1, <2>4 DEF promote_receipt
    <3>2. journal.receipts \in ReceiptPair
      BY Zenon, <1>0, <1>1, <2>1, BootRecordHasPair DEF TypeOK, Sound
    <3>3. receipts.pending = journal.transition_id
      BY Zenon, <3>1, <3>2, NoneAssumption DEF is_exact_pending, receipt_pair_for
    <3>4. HasBody(receipts, journal.transition_id)
      BY Zenon, <1>0, <1>1, <3>3 DEF ReceiptHead
    <3>5. receipts'.committed = journal.transition_id /\ receipts'.pending = None /\ receipts'.bodies = receipts.bodies
      BY Zenon, <1>0, <3>1 DEF TypeOK, BootPublicationReceiptState
    <3> QED BY Zenon, <2>1, <2>2, <3>4, <3>5
  <2> QED BY Zenon, <2>3, <2>4
<1>5. CASE cleanup_promoted_outputs
  <2>1. is_exact_promoted(receipts, journal.transition_id, journal.receipts)
    <3>1. Evidence.receipts = receipts
      BY Zenon DEF Evidence
    <3>2. \/ Route(journal, Evidence) = "CompleteBootSync"
          \/ is_exact_promoted(receipts, journal.transition_id, journal.receipts)
      BY Zenon, <1>5 DEF cleanup_promoted_outputs, Enter
    <3> QED BY Zenon, <3>1, <3>2, TailRoutes
  <2>2. installed' = {journal.transition_id} /\ UNCHANGED receipts /\ proc'.at = "Synced"
    BY Zenon, <1>5 DEF cleanup_promoted_outputs, Step, Forward, Startup
  <2> QED BY Zenon, <2>1, <2>2 DEF is_exact_promoted
<1> QED BY Zenon, <1>2, <1>3, <1>4, <1>5 DEF BootWrite

\* The receipts and the boot volume stay with the transition that is published.
LEMMA ReceiptStep ==
  ASSUME IInv, Next
  PROVE  ReceiptHead' /\ CommittedSuffix' /\ Published' /\ CommittedIsBootable'
<1>0. /\ TypeOK /\ Sound /\ Busy /\ RowIsOwned /\ RowIsFresh
      /\ ReceiptHead /\ CommittedSuffix /\ Published /\ CommittedIsBootable
      /\ journal # None => journal \in TransitionRecord /\ validate(journal)
      /\ journal # None => journal.transition_id \in TransitionId /\ journal.transition_id # None
      /\ Down.at = "Ready" /\ Clean.at = "Ready" /\ Forward.at = "Ready"
  BY Zenon, NoneAssumption DEF IInv, TypeOK, Sound, Down, Clean, Forward, TransitionRecord
<1>1. CASE Begin
  <2>1. PICK id \in TransitionId :
          /\ id \notin spent /\ spent' = spent \cup {id} /\ journal'.transition_id = id
          /\ proc' = Forward /\ UNCHANGED <<receipts, installed>>
    BY Zenon, <1>0, <1>1, BeginWrites
  <2>2. receipts.committed # id
    BY Zenon, <1>0, <2>1, NoneAssumption DEF ReceiptHead, HasBody
  <2>3. ReceiptHead'
    BY Zenon, <1>0, <2>1 DEF ReceiptHead, HasBody
  <2> QED BY Zenon, <1>0, <2>1, <2>2, <2>3 DEF CommittedSuffix, Published, CommittedIsBootable
<1>2. CASE RecordWrite
  <2>1. /\ journal # None /\ journal' # None
        /\ journal \in TransitionRecord /\ journal' \in TransitionRecord
        /\ validate(journal) /\ validate(journal')
        /\ journal'.transition_id = journal.transition_id
        /\ UNCHANGED <<receipts, installed, spent>> /\ proc'.at = "Ready"
    BY Zenon, <1>0, <1>2, RecordWrites DEF Extension
  <2>2. ReceiptHead' /\ Published' /\ CommittedIsBootable'
    BY Zenon, <1>0, <2>1 DEF ReceiptHead, HasBody, Published, CommittedIsBootable
  <2>3. ASSUME receipts.committed = journal.transition_id
        PROVE  journal'.rollback = None /\ ordinal(journal'.phase) >= ordinal("BootSyncStarted")
    <3>1. /\ journal.rollback = None /\ ordinal(journal.phase) >= ordinal("BootSyncStarted")
          /\ journal.phase \in ForwardPhase
      BY Zenon, <1>0, <2>1, <2>3, ForwardRecords DEF CommittedSuffix
    <3>2. journal.phase \in {"BootSyncStarted", "BootSyncComplete", "CommitDecided", "CommitCleanupComplete", "Complete"}
      BY <3>1, Ordinals DEF ForwardPhase
    <3>3. CASE ForwardWrite
      <4>1. ForwardSource
        BY Zenon, <1>0, <3>3, ForwardSources
      <4>2. journal'.phase \in {"CommitDecided", "CommitCleanupComplete", "Complete"}
        <5>1. /\ journal.phase \in ForwardPhase /\ journal.phase # "BootSyncStarted"
              /\ journal'.phase \in ForwardPhase /\ journal'.phase = next_forward_phase(journal)
          BY Zenon, <4>1 DEF ForwardSource
        <5>2. journal.phase # "Complete"
          BY Zenon, <5>1, ForwardEdges
        <5> QED BY Zenon, <3>2, <5>1, <5>2, NextPhases
      <4> QED BY <2>1, <4>2, ForwardRecords, Ordinals DEF ForwardPhase
    <3>4. CASE start_boot_sync
      BY Zenon, <3>2, <3>4 DEF start_boot_sync, At
    <3>5. CASE persist_boot_sync_complete
      <4>1. journal'.phase = "BootSyncComplete"
        BY Zenon, <2>1, <3>5 DEF persist_boot_sync_complete, Persist, boot_sync_complete_successor, Checked,
           TransitionRecord
      <4> QED BY <2>1, <4>1, ForwardRecords, Ordinals DEF ForwardPhase
    <3>6. CASE persist_usr_rollback_decision
      <4>1. journal.phase = "BootSyncStarted" /\ is_exact_pending(receipts, journal.transition_id, journal.receipts)
        BY Zenon, <1>0, <3>2, <3>6, DecisionSources DEF DecisionSource, DecisionPhase
      <4>2. journal.receipts \in ReceiptPair
        BY Zenon, <1>0, <2>1, <4>1, BootRecordHasPair DEF Sound
      <4>3. receipts.pending = journal.transition_id
        BY Zenon, <4>1, <4>2, NoneAssumption DEF is_exact_pending, receipt_pair_for
      <4> QED BY Zenon, <1>0, <2>1, <2>3, <4>3 DEF ReceiptHead
    <3>7. CASE RollbackWrite \/ RepairWrite
      BY Zenon, <1>0, <3>1, <3>7, RollbackSources DEF RollbackSource
    <3> QED BY Zenon, <1>2, <3>3, <3>4, <3>5, <3>6, <3>7 DEF RecordWrite
  <2> QED BY Zenon, <2>1, <2>2, <2>3 DEF CommittedSuffix
<1>3. CASE Finalize
  BY Zenon, <1>0, <1>3, FinalizeWrites DEF OnlyRecord, ReceiptHead, HasBody, CommittedSuffix, Published,
     CommittedIsBootable
<1>4. CASE NamespaceWrite
  <2>1. NamespaceKept
    BY Zenon, <1>0, <1>4, NamespaceWrites
  <2> QED BY Zenon, <1>0, <2>1 DEF NamespaceKept, OnlyNamespace, SyncPhase, ReceiptHead, HasBody, CommittedSuffix,
             Published, CommittedIsBootable
<1>5. CASE Sync
  BY Zenon, <1>0, <1>5, SyncWrites DEF SyncPhase, ReceiptHead, HasBody, CommittedSuffix, Published,
     CommittedIsBootable
<1>6. CASE RowWrite
  BY Zenon, <1>0, <1>6, RowWrites DEF ReceiptHead, HasBody, CommittedSuffix, Published, CommittedIsBootable
<1>7. CASE BootWrite
  <2>1. journal # None /\ UNCHANGED <<journal, spent>>
    BY Zenon, <1>0, <1>7, BootWrites
  <2>2. CASE /\ receipts.pending = None /\ receipts'.pending = journal.transition_id
             /\ receipts'.committed = receipts.committed /\ receipts.committed # journal.transition_id
             /\ receipts'.bodies = receipts.bodies \cup
                  {[transition_id |-> journal.transition_id, committed_predecessor |-> receipts.committed]}
             /\ UNCHANGED <<installed, proc>> /\ proc.at = "Ready"
    <3>1. \A id : HasBody(receipts, id) => HasBody(receipts', id)
      BY <2>2, Zenon DEF HasBody
    <3>2. HasBody(receipts', journal.transition_id)
      <4> DEFINE body == [transition_id |-> journal.transition_id, committed_predecessor |-> receipts.committed]
      <4>1. body \in receipts'.bodies
        BY Zenon, <2>2
      <4>2. body.transition_id = journal.transition_id
        BY Zenon
      <4> QED BY <4>1, <4>2, Zenon DEF HasBody
    <3>3. \A b \in receipts'.bodies : b.transition_id \in spent
      BY <1>0, <2>1, <2>2 DEF ReceiptHead
    <3>4. ReceiptHead'
      BY Zenon, <1>0, <2>1, <2>2, <3>1, <3>2, <3>3 DEF ReceiptHead
    <3> QED BY Zenon, <1>0, <2>1, <2>2, <3>4 DEF CommittedSuffix, Published, CommittedIsBootable
  <2>3. CASE installed' = installed \cup {journal.transition_id} /\ UNCHANGED receipts
    BY Zenon, <1>0, <2>1, <2>3 DEF ReceiptHead, HasBody, CommittedSuffix, Published, CommittedIsBootable
  <2>4. CASE /\ receipts'.committed = journal.transition_id /\ receipts'.pending = None
             /\ receipts'.bodies = receipts.bodies
             /\ HasBody(receipts, journal.transition_id)
             /\ journal.phase = "BootSyncStarted" /\ journal.transition_id \in installed
             /\ UNCHANGED installed /\ proc' = Forward
    <3>1. journal.rollback = None
      BY Zenon, <1>0, <2>1, <2>4, ForwardRecords DEF ForwardPhase
    <3>2. ReceiptHead'
      BY Zenon, <1>0, <2>1, <2>4 DEF ReceiptHead, HasBody
    <3>3. ordinal(journal.phase) >= ordinal("BootSyncStarted")
      BY <2>4, Ordinals
    <3>4. CommittedSuffix'
      BY Zenon, <2>1, <3>1, <3>3 DEF CommittedSuffix
    <3>5. Published'
      BY Zenon, <2>1, <2>4 DEF Published
    <3>6. CommittedIsBootable'
      BY Zenon, <2>4 DEF CommittedIsBootable
    <3> QED BY Zenon, <3>2, <3>4, <3>5, <3>6
  <2>5. CASE /\ installed' = {journal.transition_id} /\ receipts.committed = journal.transition_id
             /\ UNCHANGED receipts /\ proc'.at = "Synced"
    BY Zenon, <1>0, <2>1, <2>5 DEF ReceiptHead, HasBody, CommittedSuffix, Published, CommittedIsBootable
  <2> QED BY Zenon, <1>7, <2>2, <2>3, <2>4, <2>5, BootEffects
<1>8. CASE Pause
  BY Zenon, <1>0, <1>8, PauseWrites DEF ReceiptHead, HasBody, CommittedSuffix, Published, CommittedIsBootable
<1>9. CASE PowerLoss
  BY Zenon, <1>0, <1>9, PowerLossWrites DEF ReceiptHead, HasBody, CommittedSuffix, Published, CommittedIsBootable
<1> QED BY Zenon, <1>1, <1>2, <1>3, <1>4, <1>5, <1>6, <1>7, <1>8, <1>9, Groups DEF RecordWrite

-----------------------------------------------------------------------------
(* Theorems *)

\* The invariant holds in every reachable state.
LEMMA Inductive == Spec => []IInv
<1>1. Init => IInv
  <2> SUFFICES ASSUME Init PROVE IInv
    BY Zenon
  <2>1. /\ journal = None /\ row = None /\ receipts = EmptyReceiptState /\ installed = {}
        /\ leftover = FALSE /\ spent = {} /\ proc = Clean
    BY Zenon DEF Init
  <2>2. fs \in Namespace /\ disk \in Namespace
    BY LayoutsAreTyped DEF Init, Staged, Namespace, Directory
  <2>3. receipts \in BootPublicationReceiptState /\ proc \in Process
    BY Zenon, <2>1 DEF EmptyReceiptState, BootPublicationReceiptState, Clean, Process, Mode, Progress
  <2>4. TypeOK
    BY Zenon, <2>1, <2>2, <2>3 DEF TypeOK, Process
  <2> QED BY Zenon, <2>1, <2>4 DEF IInv, Sound, Busy, RowIsOwned, RowIsFresh, ReceiptHead, CommittedSuffix, Published,
             CommittedIsBootable, EmptyReceiptState, Clean
<1>2. IInv /\ [Next]_vars => IInv'
  <2>1. ASSUME IInv, Next PROVE IInv'
    BY Zenon, <2>1, RecordStep, RowStep, ReceiptStep DEF IInv
  <2>2. ASSUME IInv, UNCHANGED vars PROVE IInv'
    <3>1. TypeOK' /\ Sound' /\ Busy'
      BY Zenon, <2>2 DEF vars, IInv, TypeOK, Sound, Busy
    <3>2. RowIsOwned' /\ RowIsFresh'
      BY Zenon, <2>2 DEF vars, IInv, RowIsOwned, RowIsFresh
    <3>3. ReceiptHead' /\ CommittedSuffix' /\ Published' /\ CommittedIsBootable'
      BY Zenon, <2>2 DEF vars, IInv, ReceiptHead, HasBody, CommittedSuffix, Published, CommittedIsBootable
    <3> QED BY Zenon, <3>1, <3>2, <3>3 DEF IInv
  <2> QED BY Zenon, <2>1, <2>2
<1> QED BY <1>1, <1>2, PTL DEF Spec

\* Every variable keeps its type in every interleaving of coordinator, startup
\* gate and faults; the row written by insert_provenance is there when it writes.
THEOREM TypeCorrect == Spec => []TypeOK
<1>1. IInv => TypeOK
  BY Zenon DEF IInv
<1> QED BY <1>1, Inductive, PTL

\* The row in flight belongs to the transition in the journal: a clean startup
\* never meets an orphan row, however allocation and invalidation were cut.
THEOREM RowOwned == Spec => []RowIsOwned
<1>1. IInv => RowIsOwned
  BY Zenon DEF IInv
<1> QED BY <1>1, Inductive, PTL

\* Once the receipt head names a transition's publication the startup gate
\* never rolls that transition back.
THEOREM NeverRolledBack == Spec => []PromotedNeverRolledBack
<1>1. IInv => PromotedNeverRolledBack
  BY Zenon DEF IInv, CommittedSuffix, PromotedNeverRolledBack
<1> QED BY <1>1, Inductive, PTL

\* The outputs of the committed receipt are on the boot volume, at every point
\* at which the publication or the cleanup after it can be cut.
THEOREM Bootable == Spec => []CommittedIsBootable
<1>1. IInv => CommittedIsBootable
  BY Zenon DEF IInv
<1> QED BY <1>1, Inductive, PTL

-----------------------------------------------------------------------------
(* The journal contract *)

\* The record contract that KeepsContract is stated with is the coordinator's own.
LEMMA SameContract ==
  /\ Contract!Operation = Operation
  /\ Contract!PreviousOrigin = PreviousOrigin
  /\ Contract!RollbackObservations = RollbackObservations
  /\ Contract!RollbackActionOutcome = RollbackActionOutcome
  /\ \A p : Contract!deletable(p) = deletable(p)
  /\ \A id, op, c, q, o, s, b : Contract!preparing(id, op, c, q, o, s, b) = preparing(id, op, c, q, o, s, b)
  /\ \A r, id : Contract!forward_successor(r, id) = forward_successor(r, id)
  /\ \A r, pair : Contract!boot_sync_started_successor(r, pair) = boot_sync_started_successor(r, pair)
  /\ \A r, pair : Contract!boot_sync_complete_successor(r, pair) = boot_sync_complete_successor(r, pair)
  /\ \A r, obs : Contract!rollback_decision(r, obs) = rollback_decision(r, obs)
  /\ \A r, x : Contract!rollback_successor(r, x) = rollback_successor(r, x)
  /\ \A r : Contract!boot_repair_started_successor(r) = boot_repair_started_successor(r)
  /\ \A r, x : Contract!boot_repair_complete_successor(r, x) = boot_repair_complete_successor(r, x)
  /\ \A r : Contract!boot_repair_unverified_successor(r) = boot_repair_unverified_successor(r)
  /\ \A r : Contract!boot_repair_rollback_complete_successor(r) = boot_repair_rollback_complete_successor(r)
<1>1. /\ Contract!Operation = Operation
      /\ Contract!PreviousOrigin = PreviousOrigin
      /\ Contract!RollbackObservations = RollbackObservations
      /\ Contract!RollbackActionOutcome = RollbackActionOutcome
      /\ \A p : Contract!deletable(p) = deletable(p)
  BY Zenon DEF Operation, PreviousOrigin, InitialRollbackAction, RollbackObservations, RollbackActionOutcome,
     deletable, Contract!Operation, Contract!PreviousOrigin, Contract!InitialRollbackAction,
     Contract!RollbackObservations, Contract!RollbackActionOutcome, Contract!deletable
<1>2. \A r : Contract!validate(r) = validate(r)
  BY DEF validate, ForwardPhase, ordinal, rollback_allowed, validate_rollback_plan, required, resolved,
     Settled, rollback_actions, ordinary_actions_resolved, IntentPhase, DonePhase, candidate_disposition_for,
     previous_possible, usr_possible, fresh_possible, boot_possible, external_effects,
     runs_transaction_triggers, validate_rollback_phase, validate_boot_publication_receipts,
     validate_option_reachability, validate_candidate_layout, validate_relationships, layout_phase,
     Contract!validate, Contract!ForwardPhase, Contract!ordinal, Contract!rollback_allowed,
     Contract!validate_rollback_plan, Contract!required, Contract!resolved, Contract!Settled,
     Contract!rollback_actions, Contract!ordinary_actions_resolved, Contract!IntentPhase, Contract!DonePhase,
     Contract!candidate_disposition_for, Contract!previous_possible, Contract!usr_possible,
     Contract!fresh_possible, Contract!boot_possible, Contract!external_effects,
     Contract!runs_transaction_triggers, Contract!validate_rollback_phase,
     Contract!validate_boot_publication_receipts, Contract!validate_option_reachability,
     Contract!validate_candidate_layout, Contract!validate_relationships, Contract!layout_phase
<1>3. \A r : Contract!next_forward_phase(r) = next_forward_phase(r)
  BY Zenon DEF runs_transaction_triggers, next_forward_phase, after_archive, after_system,
     Contract!runs_transaction_triggers, Contract!next_forward_phase, Contract!after_archive,
     Contract!after_system
<1>4. \A plan, p : Contract!next_rollback_phase(plan, p) = next_rollback_phase(plan, p)
  BY Zenon DEF next_rollback_phase, next_pending_phase, Contract!next_rollback_phase, Contract!next_pending_phase
<1>5. \A r, n : Contract!Checked(r, n) = Checked(r, n)
  <2>1. /\ Contract!ForwardPhase = ForwardPhase
        /\ Contract!RollbackPhase = RollbackPhase
        /\ \A p : Contract!blocks_advance(p) = blocks_advance(p)
        /\ \A p : Contract!rollback_allowed(p) = rollback_allowed(p)
    BY Zenon DEF ForwardPhase, RollbackPhase, blocks_advance, rollback_allowed, ordinal, Contract!ForwardPhase,
       Contract!RollbackPhase, Contract!blocks_advance, Contract!rollback_allowed, Contract!ordinal
  <2>2. \A r, n : Contract!validate_rollback_plan_advance(r, n) = validate_rollback_plan_advance(r, n)
    BY Zenon DEF validate_rollback_plan_advance, rollback_actions, resolved, IntentPhase, DonePhase,
       Contract!validate_rollback_plan_advance, Contract!rollback_actions, Contract!resolved,
       Contract!IntentPhase, Contract!DonePhase
  <2>3. \A r, n : Contract!PhaseAdvance(r, n) = PhaseAdvance(r, n)
    BY <1>3, <1>4, <2>1, <2>2 DEF PhaseAdvance, Contract!PhaseAdvance
  <2>4. \A r, n : Contract!validate_advance(r, n) = validate_advance(r, n)
    BY <1>2, <2>1, <2>3 DEF validate_advance, Contract!validate_advance
  <2> QED BY Zenon, <2>4 DEF Checked, Contract!Checked
<1>6. /\ \A r : Contract!OpenIntent(r) = OpenIntent(r)
      /\ \A r, x : Contract!ResolvedPlan(r, x) = ResolvedPlan(r, x)
  BY Zenon DEF OpenIntent, IntentPhase, ResolvedPlan, Contract!OpenIntent, Contract!IntentPhase, Contract!ResolvedPlan
<1>7. \A id, op, c, q, o, s, b : Contract!preparing(id, op, c, q, o, s, b) = preparing(id, op, c, q, o, s, b)
  <2> TAKE id, op, c, q, o, s, b
  <2> DEFINE first == [version |-> 3, generation |-> 1, transition_id |-> id, operation |-> op,
                       phase |-> "Preparing", rollback |-> None, receipts |-> None, candidate_id |-> c,
                       previous_id |-> q, previous_origin |-> o,
                       options |-> [archive_previous |-> o = "ActiveState", run_system_triggers |-> s,
                                    run_boot_sync |-> b]]
  <2>1. preparing(id, op, c, q, o, s, b) = {r \in {first} : validate(r)}
    BY Zenon DEF preparing
  <2>2. Contract!preparing(id, op, c, q, o, s, b) = {r \in {first} : Contract!validate(r)}
    BY Zenon DEF Contract!preparing
  <2> HIDE DEF first
  <2> QED BY Zenon, <1>2, <2>1, <2>2
<1>8. /\ \A r, id : Contract!forward_successor(r, id) = forward_successor(r, id)
      /\ \A r, pair : Contract!boot_sync_started_successor(r, pair) = boot_sync_started_successor(r, pair)
      /\ \A r, pair : Contract!boot_sync_complete_successor(r, pair) = boot_sync_complete_successor(r, pair)
  BY ZenonT(60), <1>3, <1>5 DEF forward_successor, boot_sync_started_successor, boot_sync_complete_successor,
     ForwardPhase, Contract!forward_successor, Contract!boot_sync_started_successor,
     Contract!boot_sync_complete_successor, Contract!ForwardPhase
<1>9. \A r, obs : Contract!rollback_decision(r, obs) = rollback_decision(r, obs)
  <2>1. /\ Contract!ForwardPhase = ForwardPhase
        /\ \A p : Contract!rollback_allowed(p) = rollback_allowed(p)
        /\ \A r, p : Contract!previous_possible(r, p) = previous_possible(r, p)
        /\ \A p : Contract!usr_possible(p) = usr_possible(p)
        /\ \A r, p : Contract!fresh_possible(r, p) = fresh_possible(r, p)
        /\ \A p : Contract!boot_possible(p) = boot_possible(p)
    BY Zenon DEF ForwardPhase, rollback_allowed, previous_possible, usr_possible, fresh_possible, boot_possible,
       ordinal, Contract!ForwardPhase, Contract!rollback_allowed, Contract!previous_possible,
       Contract!usr_possible, Contract!fresh_possible, Contract!boot_possible, Contract!ordinal
  <2>2. /\ \A r, p : Contract!candidate_disposition_for(r, p) = candidate_disposition_for(r, p)
        /\ \A o : Contract!observed_initial_action(o) = observed_initial_action(o)
        /\ \A r, p : Contract!external_effects(r, p) = external_effects(r, p)
    BY Zenon DEF candidate_disposition_for, observed_initial_action, external_effects, ordinal,
       runs_transaction_triggers, Contract!candidate_disposition_for, Contract!observed_initial_action,
       Contract!external_effects, Contract!ordinal, Contract!runs_transaction_triggers
  <2> TAKE r, obs
  <2> DEFINE ours == /\ r.phase \in ForwardPhase
                     /\ rollback_allowed(r.phase)
                     /\ obs.allocated_candidate_id # None => r.candidate_id = None
                     /\ obs.previous_archive # None <=> previous_possible(r, r.phase)
                     /\ obs.usr_exchange # None <=> usr_possible(r.phase)
                     /\ obs.fresh_db # None <=> fresh_possible(r, r.phase)
             theirs == /\ r.phase \in Contract!ForwardPhase
                       /\ Contract!rollback_allowed(r.phase)
                       /\ obs.allocated_candidate_id # None => r.candidate_id = None
                       /\ obs.previous_archive # None <=> Contract!previous_possible(r, r.phase)
                       /\ obs.usr_exchange # None <=> Contract!usr_possible(r.phase)
                       /\ obs.fresh_db # None <=> Contract!fresh_possible(r, r.phase)
             Decided(plan) == [r EXCEPT !.generation = @ + 1, !.phase = "RollbackDecided",
                                        !.candidate_id = IF r.candidate_id = None THEN obs.allocated_candidate_id ELSE @,
                                        !.rollback = plan]
             Plan(p, u, d, f, b, e) == [source |-> r.phase, previous_archive |-> p, usr_exchange |-> u,
                                        candidate |-> obs.candidate, disposition |-> d, fresh_db |-> f,
                                        boot |-> IF b THEN "PendingUnverifiable" ELSE "NotRequired",
                                        external_effects_may_remain |-> e]
             plan == Plan(observed_initial_action(obs.previous_archive), observed_initial_action(obs.usr_exchange),
                          candidate_disposition_for(r, r.phase), observed_initial_action(obs.fresh_db),
                          boot_possible(r.phase), external_effects(r, r.phase))
             copy == Plan(Contract!observed_initial_action(obs.previous_archive),
                          Contract!observed_initial_action(obs.usr_exchange),
                          Contract!candidate_disposition_for(r, r.phase),
                          Contract!observed_initial_action(obs.fresh_db),
                          Contract!boot_possible(r.phase), Contract!external_effects(r, r.phase))
  <2>3. rollback_decision(r, obs) = IF ours THEN Checked(r, Decided(plan)) ELSE {}
    BY Zenon DEF rollback_decision
  <2>4. Contract!rollback_decision(r, obs) = IF theirs THEN Contract!Checked(r, Decided(copy)) ELSE {}
    BY Zenon DEF Contract!rollback_decision
  <2>5. theirs <=> ours
    BY <2>1
  <2>6. copy = plan
    BY Zenon, <2>1, <2>2
  <2> HIDE DEF ours, theirs, plan, copy, Decided
  <2> QED BY Zenon, <1>5, <2>3, <2>4, <2>5, <2>6
<1>10. \A r, x : Contract!rollback_successor(r, x) = rollback_successor(r, x)
  BY Zenon, <1>4, <1>5, <1>6 DEF rollback_successor, Contract!rollback_successor
<1>11. \A r : Contract!boot_repair_started_successor(r) = boot_repair_started_successor(r)
  BY Zenon, <1>5 DEF boot_repair_started_successor, Contract!boot_repair_started_successor
<1>12. \A r, x : Contract!boot_repair_complete_successor(r, x) = boot_repair_complete_successor(r, x)
  BY <1>5 DEF boot_repair_complete_successor, Contract!boot_repair_complete_successor
<1>13. \A r : Contract!boot_repair_unverified_successor(r) = boot_repair_unverified_successor(r)
  BY <1>5 DEF boot_repair_unverified_successor, Contract!boot_repair_unverified_successor
<1>14. \A r : Contract!boot_repair_rollback_complete_successor(r) = boot_repair_rollback_complete_successor(r)
  BY Zenon, <1>5 DEF boot_repair_rollback_complete_successor, Contract!boot_repair_rollback_complete_successor
<1> QED BY Zenon, <1>1, <1>7, <1>8, <1>9, <1>10, <1>11, <1>12, <1>13, <1>14

\* A transition begins with a record that preparing() returns.
LEMMA BeginIsCreate ==
  ASSUME TypeOK, Begin
  PROVE  Contract!Create
<1>1. journal = None
  BY Zenon, BeginWrites
<1>2. PICK id \in TransitionId, operation \in Operation, run_boot_sync \in BOOLEAN :
        journal' \in preparing(id, operation, CandidateOf(operation), Active, OriginOf(operation), TRUE, run_boot_sync)
  BY Zenon DEF Begin, begin_transition
<1>3. /\ CandidateOf(operation) \in StateId \cup {None}
      /\ Active \in StateId \cup {None}
      /\ OriginOf(operation) \in PreviousOrigin
  BY Zenon, StatesAssumption DEF CandidateOf, OriginOf, Operation, PreviousOrigin
<1>4. TRUE \in BOOLEAN
  BY Zenon
<1> QED BY <1>1, <1>2, <1>3, <1>4, SameContract, Zenon DEF Contract!Create

\* A write of the record is an advance that a constructor of successors.rs built.
LEMMA WriteIsAdvance ==
  ASSUME TypeOK, Sound, Busy, RecordWrite
  PROVE  Contract!Advance
<1>1. Extension /\ journal # None
  BY Zenon, RecordWrites
<1>2. journal' \in Successors(journal)
  BY Zenon, <1>1, AdvanceIsConstructed DEF Extension, Sound
<1> QED BY <1>1, <1>2, FromSuccessors, SameContract, Zenon
        DEF Contract!Advance, Contract!AdvanceForward, Contract!StartBootSync, Contract!CompleteBootSync,
            Contract!DecideRollback, Contract!AdvanceRollback, Contract!RepairBoot

\* A record is deleted only in a phase that delete() accepts.
LEMMA FinalizeIsDelete ==
  ASSUME TypeOK, Finalize
  PROVE  Contract!Delete
<1>1. journal \in TransitionRecord /\ deletable(journal.phase) /\ journal' = None
  BY Zenon, FinalizeWrites
<1>2. journal # None
  BY Zenon, <1>1, NoneAssumption
<1> QED BY Zenon, <1>1, <1>2, SameContract DEF Contract!Delete

\* Coordinator, startup gate and faults together only do to the journal what the
\* record contract allows: every create, advance and delete of transition_identity
\* and of startup_reconciliation is a step of the register, and no crash or
\* effect touches it.
THEOREM ContractKept == Spec => KeepsContract
<1>1. Init => Contract!Init
  BY Zenon DEF Init, Contract!Init
<1>2. IInv /\ [Next]_vars => [Contract!Next]_(Contract!vars)
  <2> SUFFICES ASSUME IInv, [Next]_vars PROVE [Contract!Next]_(Contract!vars)
    BY Zenon
  <2>0. TypeOK /\ Sound /\ Busy /\ RowIsOwned /\ RowIsFresh
    BY Zenon DEF IInv
  <2>1. CASE Begin
    BY Zenon, <2>0, <2>1, BeginIsCreate DEF Contract!Next
  <2>2. CASE RecordWrite
    BY Zenon, <2>0, <2>2, WriteIsAdvance DEF Contract!Next
  <2>3. CASE Finalize
    BY Zenon, <2>0, <2>3, FinalizeIsDelete DEF Contract!Next
  <2>4. CASE NamespaceWrite \/ Sync \/ RowWrite \/ BootWrite \/ Pause \/ PowerLoss
    <3>1. UNCHANGED journal
      BY Zenon, <2>0, <2>4, NamespaceWrites, SyncWrites, RowWrites, BootWrites, PauseWrites, PowerLossWrites
         DEF NamespaceKept, OnlyNamespace
    <3> QED BY Zenon, <3>1 DEF Contract!vars
  <2>5. CASE UNCHANGED vars
    BY Zenon, <2>5 DEF vars, Contract!vars
  <2> QED BY Zenon, <2>1, <2>2, <2>3, <2>4, <2>5, Groups DEF RecordWrite
<1> QED BY <1>1, <1>2, Inductive, PTL DEF Spec, KeepsContract, Contract!Spec
=============================================================================
