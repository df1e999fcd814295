-------------------------- MODULE ActivationEvidence --------------------------
(***************************************************************************)
(* What startup reconciliation of crates/forge accepts.  Before it touches *)
(* anything it compares the journal record with the namespace, the state   *)
(* database and the boot receipts, and each recovery authority accepts     *)
(* only records of one exact shape, generation number included.  This      *)
(* module holds these judgements; Activation is the state machine that     *)
(* acts on them.                                                           *)
(*                                                                         *)
(* The evidence e is a record                                              *)
(*   fs        the namespace below the installation root,                  *)
(*   row       the in-flight row of the state database, or None,           *)
(*   receipts  the boot-publication receipts,                              *)
(*   leftover  whether the quarantine holds a replacement wrapper that an  *)
(*             earlier reblit of the live tree left behind.                *)
(*                                                                         *)
(* Left out: runtime identities, .stateID markers and the parking of the   *)
(* previous state's slot.  Both trees are identified by their tokens.      *)
(***************************************************************************)
EXTENDS BootReceipts

\* Where a tree can be: State is the slot of its own state id.
TreeLocation == {"Live", "Staging", "State", "TransitionQuarantine", "ActiveReblitWrapper"}

LayoutAlternative == [candidate : TreeLocation, previous : TreeLocation]

\* An empty reserved directory: missing, created with an unfinished mode, or usable.
Directory == {"Absent", "Residue", "Empty"}

Namespace ==
  [trees : LayoutAlternative,
   root_abi : BOOLEAN,        \* the five merged-/usr links of the root
   isolation_abi : BOOLEAN,   \* the same links of the isolation root
   wrapper : Directory,       \* the replacement wrapper of an active reblit
   target : Directory]        \* the quarantine directory of this transition

StateRow == [id : StateId, transition_id : TransitionId, provenance : BOOLEAN]

\* Option::None is no row.
ASSUME RowAssumption == None \notin StateRow

PRE_EXCHANGE == [candidate |-> "Staging", previous |-> "Live"]
POST_EXCHANGE == [candidate |-> "Live", previous |-> "Staging"]
PREVIOUS_ARCHIVED == [candidate |-> "Live", previous |-> "State"]

-----------------------------------------------------------------------------
(* Namespace policy *)

usr_exchange_layout(trees) ==
  CASE trees = PRE_EXCHANGE -> "Pre"
    [] trees = POST_EXCHANGE -> "Post"
    [] OTHER -> None

\* For a rollback an archived predecessor also means that /usr was exchanged.
rollback_usr_exchange_layout(trees) ==
  IF trees = PREVIOUS_ARCHIVED THEN "Post" ELSE usr_exchange_layout(trees)

candidate_destination(r) ==
  CASE r.operation = "ActivateArchived" ->
         IF r.rollback.disposition = "Quarantine" THEN {"TransitionQuarantine"} ELSE {"State"}
    [] r.operation = "NewState" -> {"TransitionQuarantine"}
    [] r.operation = "ActiveReblit" -> {"TransitionQuarantine", "ActiveReblitWrapper"}

Preserved(r) == [candidate : candidate_destination(r), previous : {"Live"}]

\* An unmanaged or an empty previous tree is not modelled.
CompletedCommit(r) ==
  [candidate |-> "Live",
   previous |-> IF r.previous_origin = "ActiveState" THEN "State" ELSE "ActiveReblitWrapper"]

forward_layouts(r) ==
  CASE ordinal(r.phase) < ordinal("UsrExchangeIntent") -> {PRE_EXCHANGE}
    [] r.phase = "UsrExchangeIntent" -> {PRE_EXCHANGE, POST_EXCHANGE}
    [] r.phase \in {"UsrExchanged", "RootLinksComplete", "SystemTriggersStarted", "SystemTriggersComplete"} ->
         {POST_EXCHANGE}
    [] r.phase = "PreviousArchiveIntent" -> {POST_EXCHANGE, PREVIOUS_ARCHIVED}
    [] r.phase = "PreviousArchived" -> {PREVIOUS_ARCHIVED}
    [] r.phase \in {"BootSyncStarted", "BootSyncComplete"} ->
         {IF r.options.archive_previous THEN PREVIOUS_ARCHIVED ELSE POST_EXCHANGE}
    [] r.phase = "CommitDecided" ->
         {CompletedCommit(r)} \cup IF r.previous_origin = "ActiveState" THEN {} ELSE {POST_EXCHANGE}
    [] r.phase \in {"CommitCleanupComplete", "Complete"} -> {CompletedCommit(r)}

layout_at_rollback_decision(r) ==
  LET pending(action) == action = "Pending"
      previous == pending(r.rollback.previous_archive)
      usr == pending(r.rollback.usr_exchange)
      candidate == pending(r.rollback.candidate) IN
    CASE (previous /\ ~usr) \/ (usr /\ ~candidate) -> {}
      [] previous /\ usr /\ candidate -> {PREVIOUS_ARCHIVED}
      [] ~previous /\ usr /\ candidate -> {POST_EXCHANGE}
      [] ~previous /\ ~usr /\ candidate -> {PRE_EXCHANGE}
      [] ~previous /\ ~usr /\ ~candidate -> Preserved(r)

rollback_layouts(r) ==
  CASE r.phase = "RollbackDecided" -> layout_at_rollback_decision(r)
    [] r.phase = "PreviousRestoreIntent" -> {PREVIOUS_ARCHIVED, POST_EXCHANGE}
    [] r.phase = "PreviousRestoredToStaging" -> {POST_EXCHANGE}
    [] r.phase = "ReverseExchangeIntent" -> {POST_EXCHANGE, PRE_EXCHANGE}
    [] r.phase = "UsrRestored" -> {PRE_EXCHANGE}
    [] r.phase = "CandidatePreserveIntent" -> {PRE_EXCHANGE} \cup Preserved(r)
    [] OTHER -> Preserved(r)

expected_layouts(r) == IF r.rollback = None THEN forward_layouts(r) ELSE rollback_layouts(r)

\* How far the transition had come: the source phase once it is rolled back.
forward_ordinal(r) == ordinal(layout_phase(r))

root_abi_must_be_complete(r) ==
  \/ forward_ordinal(r) >= 9
  \/ r.rollback # None /\ forward_ordinal(r) >= 8 /\ r.phase = "RollbackComplete"

isolation_abi_must_be_complete(r) ==
  \/ runs_transaction_triggers(r) /\ forward_ordinal(r) >= 5
  \/ r.options.run_system_triggers /\ forward_ordinal(r) >= 10

active_reblit_reservation(r) ==
  CASE forward_ordinal(r) <= 3 -> "Absent"
    [] forward_ordinal(r) = 4 -> "Optional"
    [] forward_ordinal(r) >= 5 -> "Required"

\* The wrappers that carry the previous tree's token: this transition's and,
\* whatever its index, the one an earlier reblit left.
WrapperCount(e) == (IF e.fs.wrapper = "Absent" THEN 0 ELSE 1) + (IF e.leftover THEN 1 ELSE 0)

\* A wrapper counts only when capture can read it, and it must be the only one.
ReplacementWrapperFits(r, e) ==
  /\ e.fs.wrapper # "Residue"
  /\ IF "ActiveReblitWrapper" \in {e.fs.trees.candidate, e.fs.trees.previous}
     THEN active_reblit_reservation(r) # "Absent" /\ WrapperCount(e) = 1
     ELSE IF e.fs.trees.candidate = "TransitionQuarantine"
     THEN active_reblit_reservation(r) # "Required" /\ WrapperCount(e) = 0
     ELSE CASE active_reblit_reservation(r) = "Absent" -> WrapperCount(e) = 0
            [] active_reblit_reservation(r) = "Optional" ->
                 WrapperCount(e) = 0 \/ (WrapperCount(e) = 1 /\ ~e.leftover)
            [] active_reblit_reservation(r) = "Required" -> WrapperCount(e) = 1 /\ ~e.leftover

require_fixed_wrapper_layout(r, e) ==
  /\ e.fs.trees.candidate = "TransitionQuarantine" => e.fs.target = "Empty"
  /\ e.fs.target = "Residue" => r.operation = "NewState" /\ r.phase = "CandidatePreserveIntent"
  /\ r.operation = "ActiveReblit" => ReplacementWrapperFits(r, e)

assess_snapshot_layout(r, e) ==
  /\ e.fs.trees \in expected_layouts(r)
  /\ require_fixed_wrapper_layout(r, e)
  /\ root_abi_must_be_complete(r) => e.fs.root_abi
  /\ isolation_abi_must_be_complete(r) => e.fs.isolation_abi

-----------------------------------------------------------------------------
(* Database evidence *)

\* What the candidate's row says about this transition.
inspect_database(r, row) ==
  CASE r.operation # "NewState" -> IF row = None THEN "ExistingCandidate" ELSE "Conflict"
    [] r.operation = "NewState" /\ row = None ->
         IF r.candidate_id = None THEN "AllocationNotObserved" ELSE "Missing"
    [] r.operation = "NewState" /\ row # None ->
         IF row.transition_id # r.transition_id THEN "Conflict"
         ELSE IF r.candidate_id = None THEN "AllocationCommittedBehindJournal"
         ELSE IF r.candidate_id = row.id THEN "Matching" ELSE "Conflict"

fresh_database_expectation(r) ==
  IF r.rollback = None
  THEN CASE r.phase = "CommitDecided" -> {"Matching", "Cleared"}
         [] r.phase \in {"CommitCleanupComplete", "Complete"} -> {"Cleared"}
         [] OTHER -> {"Matching"}
  ELSE CASE r.rollback.fresh_db = "Pending" ->
              IF r.phase = "FreshDbInvalidationIntent" THEN {"Matching", "Missing"} ELSE {"Matching"}
         [] resolved(r.rollback.fresh_db) -> {"Missing"}
         [] r.rollback.fresh_db = "NotRequired" -> {"Matching"}

database_ownership_evidence_compatible(r, row) ==
  CASE inspect_database(r, row) = "AllocationNotObserved" ->
         \/ r.phase \in {"Preparing", "FreshStateAllocating"}
         \/ r.rollback # None /\ r.rollback.fresh_db \in {"NotRequired", "AlreadySatisfied"}
    [] inspect_database(r, row) = "AllocationCommittedBehindJournal" -> r.phase = "FreshStateAllocating"
    [] inspect_database(r, row) \in {"Matching", "Missing"} ->
         inspect_database(r, row) \in fresh_database_expectation(r)
    [] inspect_database(r, row) = "ExistingCandidate" -> TRUE
    [] inspect_database(r, row) = "Conflict" -> FALSE

\* The provenance of the candidate's metadata is written while it is prepared.
ForwardProvenance(phase) ==
  CASE ordinal(phase) <= ordinal("FreshStateAllocated") -> {FALSE}
    [] phase = "CandidatePrepareStarted" -> BOOLEAN
    [] ordinal(phase) >= ordinal("CandidatePrepared") -> {TRUE}

fresh_provenance_expectation(r) ==
  IF r.rollback # None /\ resolved(r.rollback.fresh_db) THEN {FALSE} ELSE ForwardProvenance(layout_phase(r))

metadata_provenance_evidence_compatible(r, row) ==
  row # None =>
    IF inspect_database(r, row) = "AllocationCommittedBehindJournal" THEN ~row.provenance
    ELSE row.provenance \in fresh_provenance_expectation(r)

database_is_compatible(r, row) ==
  database_ownership_evidence_compatible(r, row) /\ metadata_provenance_evidence_compatible(r, row)

\* The DB -> namespace -> DB sandwich with which every authority begins.
EvidenceFits(r, e) == database_is_compatible(r, e.row) /\ assess_snapshot_layout(r, e)
=============================================================================
