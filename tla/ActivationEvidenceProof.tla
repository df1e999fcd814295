------------------------ MODULE ActivationEvidenceProof ------------------------
(***************************************************************************)
(* What a record claims is durable, and what startup finds is what the     *)
(* record calls for, at every point at which the process or the machine    *)
(* can fail.  The invariants below say, field by field of the namespace,   *)
(* how far the visible and the durable state may be apart in each phase:   *)
(* first the positions of the trees, then the links, the wrappers and the  *)
(* targets.                                                                *)
(***************************************************************************)
EXTENDS ActivationProof

-----------------------------------------------------------------------------
(* How far transitions come *)

\* The records that the coordinator and the startup gate write: no restored
\* predecessor, no completed boot repair, no rollback before the exchange.
Reached ==
  journal # None =>
    /\ journal.options.run_system_triggers
    /\ journal.operation # "ActiveReblit" => journal.previous_origin = "ActiveState"
    /\ journal.phase \notin {"PreviousRestoredToStaging", "BootRepairComplete"}
    /\ journal.operation = "ActivateArchived" => forward_ordinal(journal) <= 9
    /\ forward_ordinal(journal) >= 14 => journal.operation = "ActiveReblit"
    /\ journal.rollback # None => forward_ordinal(journal) >= 7

\* A forward edge of the record, with what is durable before it is written.
ForwardRung ==
  \/ journal.phase = "Preparing" /\ journal'.phase \in {"FreshStateAllocating", "CandidatePrepareStarted"}
  \/ journal.phase = "FreshStateAllocating" /\ journal'.phase = "FreshStateAllocated"
  \/ journal.phase = "FreshStateAllocated" /\ journal'.phase = "CandidatePrepareStarted"
  \/ journal.phase = "CandidatePrepareStarted" /\ journal'.phase = "CandidatePrepared"
  \/ /\ journal.phase = "CandidatePrepared" /\ journal'.phase = "TransactionTriggersStarted"
     /\ runs_transaction_triggers(journal) /\ proc.at = "Synced"
  \/ /\ journal.phase = "CandidatePrepared" /\ journal'.phase = "UsrExchangeIntent"
     /\ ~runs_transaction_triggers(journal)
  \/ journal.phase = "TransactionTriggersStarted" /\ journal'.phase = "TransactionTriggersComplete"
  \/ journal.phase = "TransactionTriggersComplete" /\ journal'.phase = "UsrExchangeIntent"
  \/ journal.phase = "UsrExchangeIntent" /\ journal'.phase = "UsrExchanged" /\ proc.at = "Synced"
  \/ journal.phase = "UsrExchanged" /\ journal'.phase = "RootLinksComplete" /\ proc.at = "Synced"
  \/ /\ journal.phase = "RootLinksComplete" /\ journal'.phase = "SystemTriggersStarted"
     /\ journal.operation # "ActivateArchived"
  \/ journal.phase = "SystemTriggersStarted" /\ journal'.phase = "SystemTriggersComplete"
  \/ /\ journal.phase = "SystemTriggersComplete" /\ journal'.phase = "PreviousArchiveIntent"
     /\ journal.operation = "NewState"
  \/ /\ journal.phase = "SystemTriggersComplete" /\ journal'.phase \in {"BootSyncStarted", "CommitDecided"}
     /\ journal.operation = "ActiveReblit"
  \/ journal.phase = "PreviousArchiveIntent" /\ journal'.phase = "PreviousArchived" /\ proc.at = "Synced"
  \/ journal.phase = "BootSyncStarted" /\ journal'.phase = "BootSyncComplete"
  \/ journal.phase = "BootSyncComplete" /\ journal'.phase = "CommitDecided"
  \/ journal.phase = "CommitDecided" /\ journal'.phase = "CommitCleanupComplete" /\ proc.at = "Synced"
  \/ journal.phase = "CommitCleanupComplete" /\ journal'.phase = "Complete"

\* Which operations archive their predecessor.
LEMMA Archives ==
  ASSUME NEW r, validate(r), r.operation \in Operation,
         r.operation # "ActiveReblit" => r.previous_origin = "ActiveState"
  PROVE  /\ r.operation = "ActiveReblit" => ~r.options.archive_previous /\ r.previous_origin # "ActiveState"
         /\ r.operation # "ActiveReblit" => r.options.archive_previous
BY Zenon DEF validate, validate_relationships

\* The edges out of the phases in which the options decide.
LEMMA OptionEdges ==
  ASSUME NEW r, r.options.run_system_triggers
  PROVE  /\ r.phase = "CandidatePrepared" =>
              next_forward_phase(r) = IF runs_transaction_triggers(r) THEN "TransactionTriggersStarted" ELSE "UsrExchangeIntent"
         /\ r.phase = "RootLinksComplete" => next_forward_phase(r) = "SystemTriggersStarted"
         /\ r.phase = "SystemTriggersComplete" /\ r.options.archive_previous =>
              next_forward_phase(r) = "PreviousArchiveIntent"
         /\ r.phase = "SystemTriggersComplete" /\ ~r.options.archive_previous =>
              next_forward_phase(r) \in {"BootSyncStarted", "CommitDecided"}
BY Zenon DEF next_forward_phase, after_archive, after_system

\* A write of a record without a plan climbs one rung, or decides to roll back.
LEMMA ForwardRungs ==
  ASSUME TypeOK, Sound, Busy, Reached, ForwardWrite \/ start_boot_sync \/ persist_boot_sync_complete
  PROVE  journal.rollback = None /\ journal'.rollback = None /\ ForwardRung
<1>0. /\ journal # None /\ journal \in TransitionRecord /\ journal' \in TransitionRecord
      /\ validate(journal) /\ validate(journal')
      /\ journal.operation \in Operation
  <2>1. RecordWrite
    BY Zenon DEF RecordWrite
  <2>2. journal # None /\ journal' \in TransitionRecord /\ validate(journal')
    BY Zenon, <2>1, RecordWrites DEF Extension
  <2> QED BY Zenon, <2>2 DEF TypeOK, Sound, TransitionRecord
<1>1. CASE start_boot_sync
  <2>1. journal.phase = "SystemTriggersComplete" /\ journal.operation = "ActiveReblit"
    BY Zenon, <1>1 DEF start_boot_sync, At
  <2>2. journal'.phase = "BootSyncStarted"
    BY Zenon, <1>0, <1>1 DEF start_boot_sync, Advance, boot_sync_started_successor, Checked, TransitionRecord
  <2> QED BY Zenon, <1>0, <2>1, <2>2, ForwardRecords DEF ForwardRung, ForwardPhase
<1>2. CASE persist_boot_sync_complete
  <2>1. journal.phase = "BootSyncStarted"
    BY Zenon, <1>2 DEF persist_boot_sync_complete
  <2>2. journal'.phase = "BootSyncComplete"
    BY Zenon, <1>0, <1>2 DEF persist_boot_sync_complete, Persist, boot_sync_complete_successor, Checked,
       TransitionRecord
  <2> QED BY Zenon, <1>0, <2>1, <2>2, ForwardRecords DEF ForwardRung, ForwardPhase
<1>3. CASE ForwardWrite
  <2>1. ForwardSource
    BY Zenon, <1>3, ForwardSources
  <2>2. /\ journal.phase \in ForwardPhase \ {"PreviousArchived", "BootSyncStarted"}
        /\ journal'.phase \in ForwardPhase /\ journal'.phase = next_forward_phase(journal)
    BY Zenon, <2>1 DEF ForwardSource
  <2>3. journal.rollback = None /\ journal'.rollback = None
    BY Zenon, <1>0, <2>2, ForwardRecords
  <2>4. journal.phase # "Complete"
    BY Zenon, <2>2, ForwardEdges
  <2>5. CASE journal.phase \in {"CandidatePrepared", "RootLinksComplete", "SystemTriggersComplete"}
    <3>1. /\ journal.options.run_system_triggers
          /\ journal.operation = "ActiveReblit" => ~journal.options.archive_previous
          /\ journal.operation # "ActiveReblit" => journal.options.archive_previous
      BY Zenon, <1>0, Archives DEF Reached
    <3>2. CASE journal.phase = "CandidatePrepared"
      <4>1. journal'.phase = IF runs_transaction_triggers(journal) THEN "TransactionTriggersStarted" ELSE "UsrExchangeIntent"
        BY Zenon, <2>2, <3>1, <3>2, OptionEdges
      <4>2. runs_transaction_triggers(journal) => proc.at = "Synced"
        BY Zenon, <2>1, <3>2 DEF ForwardSource
      <4> QED BY <2>3, <3>2, <4>1, <4>2, Zenon DEF ForwardRung
    <3>3. CASE journal.phase = "RootLinksComplete"
      <4>1. journal'.phase = "SystemTriggersStarted" /\ journal.operation # "ActivateArchived"
        BY Zenon, <2>1, <2>2, <3>1, <3>3, OptionEdges DEF ForwardSource
      <4> QED BY <2>3, <3>3, <4>1, Zenon DEF ForwardRung
    <3>4. CASE journal.phase = "SystemTriggersComplete"
      <4>1. journal.operation \in {"NewState", "ActiveReblit"}
        BY Zenon, <2>1, <3>4 DEF ForwardSource
      <4>2. CASE journal.operation = "NewState"
        <5>1. journal'.phase = "PreviousArchiveIntent"
          BY Zenon, <2>2, <3>1, <3>4, <4>2, OptionEdges
        <5> QED BY <2>3, <3>4, <4>2, <5>1, Zenon DEF ForwardRung
      <4>3. CASE journal.operation = "ActiveReblit"
        <5>1. journal'.phase \in {"BootSyncStarted", "CommitDecided"}
          BY Zenon, <2>2, <3>1, <3>4, <4>3, OptionEdges
        <5> QED BY <2>3, <3>4, <4>3, <5>1, Zenon DEF ForwardRung
      <4> QED BY Zenon, <4>1, <4>2, <4>3
    <3> QED BY Zenon, <2>5, <3>2, <3>3, <3>4
  <2>6. CASE journal.phase \in {"Preparing", "FreshStateAllocating", "FreshStateAllocated", "CandidatePrepareStarted"}
    <3>1. \/ journal.phase = "Preparing" /\ journal'.phase \in {"FreshStateAllocating", "CandidatePrepareStarted"}
          \/ journal.phase = "FreshStateAllocating" /\ journal'.phase = "FreshStateAllocated"
          \/ journal.phase = "FreshStateAllocated" /\ journal'.phase = "CandidatePrepareStarted"
          \/ journal.phase = "CandidatePrepareStarted" /\ journal'.phase = "CandidatePrepared"
      BY Zenon, <2>2, <2>6, NextPhases
    <3> QED BY <2>3, <3>1, Zenon DEF ForwardRung
  <2>7. CASE journal.phase \in {"TransactionTriggersStarted", "TransactionTriggersComplete", "SystemTriggersStarted"}
    <3>1. \/ journal.phase = "TransactionTriggersStarted" /\ journal'.phase = "TransactionTriggersComplete"
          \/ journal.phase = "TransactionTriggersComplete" /\ journal'.phase = "UsrExchangeIntent"
          \/ journal.phase = "SystemTriggersStarted" /\ journal'.phase = "SystemTriggersComplete"
      BY Zenon, <2>2, <2>7, NextPhases
    <3> QED BY <2>3, <3>1, Zenon DEF ForwardRung
  <2>8. CASE journal.phase \in {"UsrExchangeIntent", "UsrExchanged", "PreviousArchiveIntent", "CommitDecided"}
    <3>1. proc.at = "Synced"
      BY Zenon, <2>1, <2>8 DEF ForwardSource
    <3>2. \/ journal.phase = "UsrExchangeIntent" /\ journal'.phase = "UsrExchanged"
          \/ journal.phase = "UsrExchanged" /\ journal'.phase = "RootLinksComplete"
          \/ journal.phase = "PreviousArchiveIntent" /\ journal'.phase = "PreviousArchived"
          \/ journal.phase = "CommitDecided" /\ journal'.phase = "CommitCleanupComplete"
      BY Zenon, <2>2, <2>8, NextPhases
    <3> QED BY <2>3, <3>1, <3>2, Zenon DEF ForwardRung
  <2>9. CASE journal.phase \in {"BootSyncComplete", "CommitCleanupComplete"}
    <3>1. \/ journal.phase = "BootSyncComplete" /\ journal'.phase = "CommitDecided"
          \/ journal.phase = "CommitCleanupComplete" /\ journal'.phase = "Complete"
      BY Zenon, <2>2, <2>9, NextPhases
    <3> QED BY <2>3, <3>1, Zenon DEF ForwardRung
  <2> QED BY Zenon, <2>2, <2>4, <2>5, <2>6, <2>7, <2>8, <2>9 DEF ForwardPhase
<1> QED BY Zenon, <1>1, <1>2, <1>3

\* How far the transition had come, phase by phase.
LEMMA Progresses ==
  ASSUME NEW r \in TransitionRecord, validate(r)
  PROVE  /\ r.rollback = None => forward_ordinal(r) = ordinal(r.phase)
         /\ r.rollback # None => forward_ordinal(r) = ordinal(r.rollback.source) /\ r.rollback.source \in ForwardPhase
BY Zenon, ForwardRecords DEF forward_ordinal, TransitionRecord, RollbackPlan

\* What is known of every write of the record.
LEMMA RecordEdges ==
  ASSUME TypeOK, Sound, Busy, Reached, RecordWrite
  PROVE  /\ journal # None /\ journal \in TransitionRecord /\ journal' \in TransitionRecord
         /\ validate(journal) /\ validate(journal')
         /\ journal'.operation = journal.operation /\ journal.operation \in Operation
         /\ journal'.options = journal.options
         /\ journal'.previous_origin = journal.previous_origin
         /\ fs' = fs /\ proc'.at = "Ready"
         /\ \/ /\ journal.rollback = None /\ journal'.rollback = None /\ ForwardRung /\ disk' = disk
               /\ forward_ordinal(journal) = ordinal(journal.phase)
               /\ forward_ordinal(journal') = ordinal(journal'.phase)
            \/ /\ persist_usr_rollback_decision /\ DecisionSource
               /\ forward_ordinal(journal) = ordinal(journal.phase)
               /\ forward_ordinal(journal') = forward_ordinal(journal)
            \/ /\ RollbackSource /\ disk' = disk
               /\ forward_ordinal(journal') = forward_ordinal(journal)
<1>1. /\ journal # None /\ journal \in TransitionRecord /\ journal' \in TransitionRecord
      /\ validate(journal) /\ validate(journal')
      /\ journal'.operation = journal.operation /\ journal.operation \in Operation
      /\ journal'.options = journal.options
      /\ journal'.previous_origin = journal.previous_origin
      /\ fs' = fs /\ proc'.at = "Ready"
      /\ ~persist_usr_rollback_decision => disk' = disk
  <2>1. /\ journal # None /\ journal' \in TransitionRecord /\ validate(journal')
        /\ journal'.operation = journal.operation /\ journal'.options = journal.options
        /\ journal'.previous_origin = journal.previous_origin
        /\ fs' = fs /\ proc' \in {Forward, Down}
        /\ ~persist_usr_rollback_decision => disk' = disk
    BY Zenon, RecordWrites DEF Extension
  <2> QED BY <2>1 DEF TypeOK, Sound, TransitionRecord, Forward, Down
<1>2. CASE ForwardWrite \/ start_boot_sync \/ persist_boot_sync_complete
  <2>1. journal.rollback = None /\ journal'.rollback = None /\ ForwardRung
    BY Zenon, <1>2, ForwardRungs
  <2>2. disk' = disk
    BY Zenon, <1>2, ForwardWrites, StartBootWrites, CompleteBootWrites DEF OnlyRecord
  <2> QED BY Zenon, <1>1, <2>1, <2>2, Progresses
<1>3. CASE persist_usr_rollback_decision
  <2>1. DecisionSource
    BY Zenon, <1>3, DecisionSources
  <2>2. journal.rollback = None /\ journal'.rollback # None /\ journal'.rollback.source = journal.phase
    BY Zenon, <2>1 DEF DecisionSource
  <2> QED BY Zenon, <1>1, <1>3, <2>1, <2>2, Progresses
<1>4. CASE RollbackWrite \/ RepairWrite
  <2>1. RollbackSource
    BY Zenon, <1>4, RollbackSources
  <2>2. journal.rollback # None /\ journal'.rollback # None /\ journal'.rollback.source = journal.rollback.source
    BY Zenon, <2>1 DEF RollbackSource
  <2>3. disk' = disk
    BY Zenon, <1>4, RollbackWrites, RepairWrites DEF OnlyRecord
  <2> QED BY Zenon, <1>1, <2>1, <2>2, <2>3, Progresses
<1> QED BY Zenon, <1>2, <1>3, <1>4 DEF RecordWrite

\* The steps that change neither the record nor the namespace are in the middle
\* of a step only in phases without an effect on the namespace.
Aside == RowWrite \/ BootWrite \/ Pause

LEMMA AsideKeeps ==
  ASSUME IInv, Aside
  PROVE  /\ UNCHANGED <<journal, fs, disk>>
         /\ proc'.at # "Ready" => journal # None /\ journal.phase \in {"BootSyncStarted", "FreshDbInvalidationIntent"}
<1>0. TypeOK /\ Sound /\ Busy /\ RowIsOwned /\ RowIsFresh /\ Down.at = "Ready" /\ Clean.at = "Ready"
  BY Zenon DEF IInv, Down, Clean
<1>1. CASE RowWrite
  BY Zenon, <1>0, <1>1, RowWrites
<1>2. CASE BootWrite
  BY Zenon, <1>0, <1>2, BootWrites
<1>3. CASE Pause
  BY Zenon, <1>0, <1>3, PauseWrites
<1> QED BY Zenon, <1>1, <1>2, <1>3 DEF Aside

\* The groups of steps as the invariants of the namespace tell them apart.
LEMMA Steps ==
  ASSUME Next
  PROVE  Begin \/ RecordWrite \/ Finalize \/ NamespaceWrite \/ Sync \/ Aside \/ PowerLoss
BY Zenon, Groups DEF RecordWrite, Aside

\* Reached is kept by every step.
LEMMA ReachedStep ==
  ASSUME IInv, Reached, Next
  PROVE  Reached'
<1>0. TypeOK /\ Sound /\ Busy
  BY Zenon DEF IInv
<1>1. CASE Begin
  <2>1. PICK id \in TransitionId, operation \in Operation, run_boot_sync \in BOOLEAN :
          begin_transition(id, operation, run_boot_sync)
    BY Zenon, <1>1 DEF Begin
  <2>2. journal' \in preparing(id, operation, CandidateOf(operation), Active, OriginOf(operation), TRUE, run_boot_sync)
    BY Zenon, <2>1 DEF begin_transition
  <2>3. /\ journal'.options.run_system_triggers /\ journal'.phase = "Preparing" /\ journal'.rollback = None
        /\ journal'.operation # "ActiveReblit" => journal'.previous_origin = "ActiveState"
    BY <2>2 DEF preparing, OriginOf
  <2>4. journal' \in TransitionRecord /\ validate(journal')
    BY Zenon, <1>0, <1>1, BeginWrites
  <2>5. forward_ordinal(journal') = 0
    BY Zenon, <2>3, <2>4, Progresses, Ordinals
  <2> QED BY <2>3, <2>5 DEF Reached
<1>2. CASE RecordWrite
  <2>1. /\ journal # None
        /\ journal'.operation = journal.operation /\ journal'.options = journal.options
        /\ journal'.previous_origin = journal.previous_origin
    BY Zenon, <1>0, <1>2, RecordEdges
  <2>2. CASE /\ journal.rollback = None /\ journal'.rollback = None /\ ForwardRung
             /\ forward_ordinal(journal) = ordinal(journal.phase)
             /\ forward_ordinal(journal') = ordinal(journal'.phase)
    <3>1. /\ journal'.operation = "ActivateArchived" => ordinal(journal'.phase) <= 9
          /\ ordinal(journal'.phase) >= 14 => journal'.operation = "ActiveReblit"
      BY <2>1, <2>2, Ordinals DEF Reached, ForwardRung
    <3>2. journal'.phase \notin {"PreviousRestoredToStaging", "BootRepairComplete"}
      BY Zenon, <2>2 DEF ForwardRung
    <3> QED BY Zenon, <2>1, <2>2, <3>1, <3>2 DEF Reached
  <2>3. CASE /\ DecisionSource
             /\ forward_ordinal(journal) = ordinal(journal.phase)
             /\ forward_ordinal(journal') = forward_ordinal(journal)
    <3>1. journal.phase \in DecisionPhase /\ journal'.phase = "RollbackDecided"
      BY Zenon, <2>3 DEF DecisionSource
    <3>2. ordinal(journal.phase) >= 7
      BY <3>1, Ordinals DEF DecisionPhase
    <3> QED BY Zenon, <2>1, <2>3, <3>1, <3>2 DEF Reached
  <2>4. CASE RollbackSource /\ forward_ordinal(journal') = forward_ordinal(journal)
    <3>1. journal.rollback # None /\ journal'.phase \notin {"PreviousRestoredToStaging", "BootRepairComplete"}
      BY Zenon, <2>4 DEF RollbackSource, Ladder
    <3> QED BY Zenon, <2>1, <2>4, <3>1 DEF Reached
  <2> QED BY Zenon, <1>0, <1>2, <2>2, <2>3, <2>4, RecordEdges
<1>3. CASE Finalize
  BY Zenon, <1>0, <1>3, FinalizeWrites DEF Reached
<1>4. CASE NamespaceWrite \/ Sync \/ Aside \/ PowerLoss
  <2>1. UNCHANGED journal
    BY Zenon, <1>0, <1>4, NamespaceWrites, SyncWrites, AsideKeeps, PowerLossWrites DEF NamespaceKept, OnlyNamespace
  <2> QED BY Zenon, <2>1 DEF Reached
<1> QED BY Zenon, <1>1, <1>2, <1>3, <1>4, Steps

-----------------------------------------------------------------------------
(* What the steps do to each field of the namespace *)

\* Where the effect of a phase puts the trees.
Aim(r) ==
  CASE r.phase = "UsrExchangeIntent" -> POST_EXCHANGE
    [] r.phase = "PreviousArchiveIntent" -> PREVIOUS_ARCHIVED
    [] r.phase = "CommitDecided" -> CompletedCommit(r)
    [] r.phase = "ReverseExchangeIntent" -> PRE_EXCHANGE
    [] r.phase = "CandidatePreserveIntent" -> [candidate |-> CandidatePlace(r.operation), previous |-> "Live"]

\* The phases whose effect moves trees.
Moves(r) == r.phase \in {"UsrExchangeIntent", "PreviousArchiveIntent", "CommitDecided",
                         "ReverseExchangeIntent", "CandidatePreserveIntent"}

LEMMA Aims ==
  ASSUME NEW r
  PROVE  /\ r.phase = "UsrExchangeIntent" => Aim(r) = POST_EXCHANGE
         /\ r.phase = "PreviousArchiveIntent" => Aim(r) = PREVIOUS_ARCHIVED
         /\ r.phase = "CommitDecided" => Aim(r) = CompletedCommit(r)
         /\ r.phase = "ReverseExchangeIntent" => Aim(r) = PRE_EXCHANGE
         /\ r.phase = "CandidatePreserveIntent" =>
              Aim(r) = [candidate |-> CandidatePlace(r.operation), previous |-> "Live"]
BY Zenon DEF Aim

TreesMoved ==
  /\ disk'.trees = disk.trees
  /\ \/ fs'.trees = fs.trees /\ (Moves(journal) => proc'.at = "Ready")
     \/ Moves(journal) /\ fs'.trees = Aim(journal)

RootLinked ==
  /\ disk'.root_abi = disk.root_abi
  /\ fs.root_abi => fs'.root_abi
  /\ journal.phase = "UsrExchanged" => fs'.root_abi

IsolationLinked ==
  /\ disk'.isolation_abi = disk.isolation_abi
  /\ fs.isolation_abi => fs'.isolation_abi
  /\ journal.phase = "CandidatePrepared" /\ proc'.at # "Ready" => fs'.wrapper = "Residue" \/ fs'.isolation_abi

WrapperReserved ==
  \/ /\ fs'.wrapper = fs.wrapper /\ disk'.wrapper = disk.wrapper
     /\ journal.phase = "CandidatePrepared" /\ journal.operation = "ActiveReblit" /\ proc'.at # "Ready" =>
          fs.wrapper = "Empty"
  \/ journal.phase = "CandidatePrepared" /\ fs'.wrapper = "Residue" /\ disk'.wrapper = disk.wrapper
  \/ /\ layout_phase(journal) = "CandidatePrepared" /\ proc'.at = "Ready"
     /\ fs'.wrapper = "Empty" /\ disk'.wrapper = "Empty"

TargetMade ==
  \/ /\ fs'.target = fs.target /\ disk'.target = disk.target
     /\ journal.phase # "CandidatePreserveIntent" \/ fs'.trees = fs.trees
  \/ /\ journal.phase = "CandidatePreserveIntent" /\ journal.operation = "NewState"
     /\ fs'.trees = fs.trees /\ fs.trees = PRE_EXCHANGE /\ fs.target # "Empty"
     /\ \/ fs'.target \in {"Residue", "Empty"} /\ disk'.target = disk.target
        \/ fs'.target = "Empty" /\ disk'.target = "Empty"
  \/ /\ journal.phase = "CandidatePreserveIntent"
     /\ fs'.target = fs.target /\ disk'.target = fs.target
     /\ journal.operation = "NewState" => fs.trees # PRE_EXCHANGE \/ fs.target = "Empty"

\* One field is replaced and the others stay.
LEMMA FieldChanges ==
  ASSUME NEW ns \in Namespace, NEW v
  PROVE  /\ [ns EXCEPT !.trees = v].trees = v
         /\ [ns EXCEPT !.trees = v].root_abi = ns.root_abi
         /\ [ns EXCEPT !.trees = v].isolation_abi = ns.isolation_abi
         /\ [ns EXCEPT !.trees = v].wrapper = ns.wrapper
         /\ [ns EXCEPT !.trees = v].target = ns.target
         /\ [ns EXCEPT !.wrapper = v].trees = ns.trees
         /\ [ns EXCEPT !.wrapper = v].root_abi = ns.root_abi
         /\ [ns EXCEPT !.wrapper = v].isolation_abi = ns.isolation_abi
         /\ [ns EXCEPT !.wrapper = v].wrapper = v
         /\ [ns EXCEPT !.wrapper = v].target = ns.target
         /\ [ns EXCEPT !.target = v].trees = ns.trees
         /\ [ns EXCEPT !.target = v].root_abi = ns.root_abi
         /\ [ns EXCEPT !.target = v].isolation_abi = ns.isolation_abi
         /\ [ns EXCEPT !.target = v].wrapper = ns.wrapper
         /\ [ns EXCEPT !.target = v].target = v
BY Zenon DEF Namespace

LEMMA LinkChanges ==
  ASSUME NEW ns \in Namespace
  PROVE  /\ [ns EXCEPT !.root_abi = TRUE].trees = ns.trees
         /\ [ns EXCEPT !.root_abi = TRUE].root_abi
         /\ [ns EXCEPT !.root_abi = TRUE].isolation_abi = ns.isolation_abi
         /\ [ns EXCEPT !.root_abi = TRUE].wrapper = ns.wrapper
         /\ [ns EXCEPT !.root_abi = TRUE].target = ns.target
         /\ [ns EXCEPT !.isolation_abi = TRUE].trees = ns.trees
         /\ [ns EXCEPT !.isolation_abi = TRUE].root_abi = ns.root_abi
         /\ [ns EXCEPT !.isolation_abi = TRUE].isolation_abi
         /\ [ns EXCEPT !.isolation_abi = TRUE].wrapper = ns.wrapper
         /\ [ns EXCEPT !.isolation_abi = TRUE].target = ns.target
BY Zenon DEF Namespace

\* A change of the trees that is the effect of its phase.
LEMMA TreeEffect ==
  ASSUME TypeOK, Moves(journal), fs' = [fs EXCEPT !.trees = Aim(journal)], disk' = disk,
         journal.phase # "CandidatePreserveIntent"
  PROVE  TreesMoved /\ RootLinked /\ IsolationLinked /\ WrapperReserved /\ TargetMade
<1>1. /\ fs'.trees = Aim(journal) /\ fs'.root_abi = fs.root_abi /\ fs'.isolation_abi = fs.isolation_abi
      /\ fs'.wrapper = fs.wrapper /\ fs'.target = fs.target
  BY FieldChanges DEF TypeOK
<1>2. journal.phase # "UsrExchanged" /\ journal.phase # "CandidatePrepared"
  BY Zenon DEF Moves
<1> QED BY Zenon, <1>1, <1>2 DEF TreesMoved, RootLinked, IsolationLinked, WrapperReserved, TargetMade

\* A change of another field, by a step of a phase that moves no trees.
LEMMA LinkEffect ==
  ASSUME TypeOK, disk' = disk, ~Moves(journal),
         \/ /\ fs' = [fs EXCEPT !.root_abi = TRUE]
            /\ journal.phase # "CandidatePrepared"
         \/ /\ fs' = [fs EXCEPT !.isolation_abi = TRUE]
            /\ journal.phase # "UsrExchanged"
            /\ journal.operation = "ActiveReblit" => fs.wrapper = "Empty"
  PROVE  TreesMoved /\ RootLinked /\ IsolationLinked /\ WrapperReserved /\ TargetMade
<1>1. journal.phase # "CandidatePreserveIntent"
  BY Zenon DEF Moves
<1>2. CASE fs' = [fs EXCEPT !.root_abi = TRUE] /\ journal.phase # "CandidatePrepared"
  <2>1. /\ fs'.trees = fs.trees /\ fs'.root_abi /\ fs'.isolation_abi = fs.isolation_abi
        /\ fs'.wrapper = fs.wrapper /\ fs'.target = fs.target
    BY Zenon, <1>2, LinkChanges DEF TypeOK
  <2> QED BY Zenon, <1>1, <1>2, <2>1 DEF TreesMoved, RootLinked, IsolationLinked, WrapperReserved, TargetMade
<1>3. CASE /\ fs' = [fs EXCEPT !.isolation_abi = TRUE] /\ journal.phase # "UsrExchanged"
           /\ journal.operation = "ActiveReblit" => fs.wrapper = "Empty"
  <2>1. /\ fs'.trees = fs.trees /\ fs'.root_abi = fs.root_abi /\ fs'.isolation_abi
        /\ fs'.wrapper = fs.wrapper /\ fs'.target = fs.target
    BY Zenon, <1>3, LinkChanges DEF TypeOK
  <2> QED BY Zenon, <1>1, <1>3, <2>1 DEF TreesMoved, RootLinked, IsolationLinked, WrapperReserved, TargetMade
<1> QED BY Zenon, <1>2, <1>3

\* An interrupted reservation is finished.
LEMMA WrapperEffect ==
  ASSUME TypeOK, layout_phase(journal) = "CandidatePrepared", journal.phase # "UsrExchanged", proc'.at = "Ready",
         fs' = [fs EXCEPT !.wrapper = "Empty"], disk' = [disk EXCEPT !.wrapper = "Empty"]
  PROVE  TreesMoved /\ RootLinked /\ IsolationLinked /\ WrapperReserved /\ TargetMade
<1>1. /\ fs'.trees = fs.trees /\ fs'.root_abi = fs.root_abi /\ fs'.isolation_abi = fs.isolation_abi
      /\ fs'.wrapper = "Empty" /\ fs'.target = fs.target
      /\ disk'.trees = disk.trees /\ disk'.root_abi = disk.root_abi /\ disk'.isolation_abi = disk.isolation_abi
      /\ disk'.wrapper = "Empty" /\ disk'.target = disk.target
  BY FieldChanges DEF TypeOK
<1> QED BY Zenon, <1>1 DEF TreesMoved, RootLinked, IsolationLinked, WrapperReserved, TargetMade

\* The phase in which a route of the startup gate is taken has its own layout.
LEMMA NamespaceEffects ==
  ASSUME TypeOK, Sound, Busy, NamespaceWrite
  PROVE  TreesMoved /\ RootLinked /\ IsolationLinked /\ WrapperReserved /\ TargetMade
<1>0. /\ fs \in Namespace /\ disk \in Namespace
      /\ Forward.at = "Ready" /\ Down.at = "Ready" /\ Step(Forward, "Effected").at = "Effected"
  BY Zenon DEF TypeOK, Forward, Down, Step
<1>1. CASE reserve_for_transaction_triggers
  <2>1. journal.phase = "CandidatePrepared" /\ fs' = [fs EXCEPT !.wrapper = "Residue"] /\ disk' = disk
    BY Zenon, <1>1 DEF reserve_for_transaction_triggers, At, Effect
  <2>2. /\ fs'.trees = fs.trees /\ fs'.root_abi = fs.root_abi /\ fs'.isolation_abi = fs.isolation_abi
        /\ fs'.wrapper = "Residue" /\ fs'.target = fs.target
    BY <1>0, <2>1, FieldChanges
  <2> QED BY Zenon, <2>1, <2>2 DEF TreesMoved, Moves, RootLinked, IsolationLinked, WrapperReserved, TargetMade
<1>2. CASE finish_preparation
  <2>1. /\ journal.phase = "CandidatePrepared" /\ proc'.at = "Ready"
        /\ fs' = [fs EXCEPT !.wrapper = "Empty"] /\ disk' = [disk EXCEPT !.wrapper = "Empty"]
    BY Zenon, <1>0, <1>2 DEF finish_preparation
  <2>2. layout_phase(journal) = "CandidatePrepared"
    BY Zenon, <2>1 DEF layout_phase, ForwardPhase
  <2> QED BY Zenon, <2>1, <2>2, WrapperEffect
<1>3. CASE publish_isolation_abi
  <2>1. /\ journal.phase = "CandidatePrepared" /\ fs' = [fs EXCEPT !.isolation_abi = TRUE] /\ disk' = disk
        /\ journal.operation = "ActiveReblit" => fs.wrapper = "Empty"
    BY Zenon, <1>3 DEF publish_isolation_abi, At, Effect
  <2>2. ~Moves(journal) /\ journal.phase # "UsrExchanged"
    BY Zenon, <2>1 DEF Moves
  <2> QED BY Zenon, <2>1, <2>2, LinkEffect
<1>4. CASE execute_usr_exchange
  <2>1. journal.phase = "UsrExchangeIntent" /\ fs' = [fs EXCEPT !.trees = POST_EXCHANGE] /\ disk' = disk
    BY Zenon, <1>4 DEF execute_usr_exchange, At, Effect
  <2>2. Aim(journal) = POST_EXCHANGE /\ Moves(journal) /\ journal.phase # "CandidatePreserveIntent"
    BY Zenon, <2>1, Aims DEF Moves
  <2> QED BY Zenon, <2>1, <2>2, TreeEffect
<1>5. CASE publish_root_abi
  <2>1. journal.phase = "UsrExchanged" /\ fs' = [fs EXCEPT !.root_abi = TRUE] /\ disk' = disk
    BY Zenon, <1>5 DEF publish_root_abi, At, Effect
  <2>2. ~Moves(journal) /\ journal.phase # "CandidatePrepared"
    BY Zenon, <2>1 DEF Moves
  <2> QED BY Zenon, <2>1, <2>2, LinkEffect
<1>6. CASE move_previous_tree
  <2>1. journal.phase = "PreviousArchiveIntent" /\ fs' = [fs EXCEPT !.trees = PREVIOUS_ARCHIVED] /\ disk' = disk
    BY Zenon, <1>6 DEF move_previous_tree, At, Effect
  <2>2. Aim(journal) = PREVIOUS_ARCHIVED /\ Moves(journal) /\ journal.phase # "CandidatePreserveIntent"
    BY Zenon, <2>1, Aims DEF Moves
  <2> QED BY Zenon, <2>1, <2>2, TreeEffect
<1>7. CASE clean_up_commit
  <2>1. journal.phase = "CommitDecided" /\ fs' = [fs EXCEPT !.trees = CompletedCommit(journal)] /\ disk' = disk
    BY Zenon, <1>7, CleanUpRoute DEF clean_up_commit, Tail
  <2>2. Aim(journal) = CompletedCommit(journal) /\ Moves(journal) /\ journal.phase # "CandidatePreserveIntent"
    BY Zenon, <2>1, Aims DEF Moves
  <2> QED BY Zenon, <2>1, <2>2, TreeEffect
<1>8. CASE recover_replacement_residue
  <2>1. /\ layout_phase(journal) = "CandidatePrepared" /\ proc'.at = "Ready"
        /\ fs' = [fs EXCEPT !.wrapper = "Empty"] /\ disk' = [disk EXCEPT !.wrapper = "Empty"]
    BY Zenon, <1>0, <1>8, RollbackRoutes DEF recover_replacement_residue, Enter
  <2>2. journal.phase # "UsrExchanged"
    BY Zenon, <2>1 DEF layout_phase, ForwardPhase
  <2> QED BY Zenon, <2>1, <2>2, WrapperEffect
<1>9. CASE normalize_usr_exchanged_root_abi
  <2>1. journal.phase = "UsrExchanged" /\ fs' = [fs EXCEPT !.root_abi = TRUE] /\ disk' = disk
    BY Zenon, <1>9, RollbackRoutes DEF normalize_usr_exchanged_root_abi, Enter
  <2>2. ~Moves(journal) /\ journal.phase # "CandidatePrepared"
    BY Zenon, <2>1 DEF Moves
  <2> QED BY Zenon, <2>1, <2>2, LinkEffect
<1>10. CASE reverse_exchange
  <2>1. journal.phase = "ReverseExchangeIntent" /\ fs' = [fs EXCEPT !.trees = PRE_EXCHANGE] /\ disk' = disk
    BY Zenon, <1>10, RollbackRoutes DEF reverse_exchange, Enter, Restore
  <2>2. Aim(journal) = PRE_EXCHANGE /\ Moves(journal) /\ journal.phase # "CandidatePreserveIntent"
    BY Zenon, <2>1, Aims DEF Moves
  <2> QED BY Zenon, <2>1, <2>2, TreeEffect
<1>11. CASE create_candidate_target \/ normalize_candidate_target
  <2>1. /\ journal.phase = "CandidatePreserveIntent" /\ journal.operation = "NewState"
        /\ fs.trees = PRE_EXCHANGE /\ fs.target # "Empty" /\ proc'.at = "Ready"
    BY <1>0, <1>11, RollbackRoutes DEF create_candidate_target, normalize_candidate_target, Enter, TargetMissing
  <2>2. \/ /\ \E mode \in {"Residue", "Empty"} : fs' = [fs EXCEPT !.target = mode]
           /\ disk' = disk
        \/ fs' = [fs EXCEPT !.target = "Empty"] /\ disk' = [disk EXCEPT !.target = "Empty"]
    BY Zenon, <1>11 DEF create_candidate_target, normalize_candidate_target
  <2>3. /\ fs'.trees = fs.trees /\ fs'.root_abi = fs.root_abi /\ fs'.isolation_abi = fs.isolation_abi
        /\ fs'.wrapper = fs.wrapper
        /\ disk'.trees = disk.trees /\ disk'.root_abi = disk.root_abi /\ disk'.isolation_abi = disk.isolation_abi
        /\ disk'.wrapper = disk.wrapper
        /\ \/ fs'.target \in {"Residue", "Empty"} /\ disk'.target = disk.target
           \/ fs'.target = "Empty" /\ disk'.target = "Empty"
    <3>1. CASE fs' = [fs EXCEPT !.target = "Empty"] /\ disk' = [disk EXCEPT !.target = "Empty"]
      BY <1>0, <3>1, FieldChanges
    <3>2. ASSUME NEW mode \in {"Residue", "Empty"}, fs' = [fs EXCEPT !.target = mode], disk' = disk
          PROVE  /\ fs'.trees = fs.trees /\ fs'.root_abi = fs.root_abi /\ fs'.isolation_abi = fs.isolation_abi
                 /\ fs'.wrapper = fs.wrapper /\ fs'.target = mode
      BY <1>0, <3>2, FieldChanges
    <3> QED BY Zenon, <2>2, <3>1, <3>2
  <2> QED BY Zenon, <2>1, <2>3 DEF TreesMoved, RootLinked, IsolationLinked, WrapperReserved, TargetMade
<1>12. ASSUME NEW operation \in Operation, Preserve(operation)
       PROVE  TreesMoved /\ RootLinked /\ IsolationLinked /\ WrapperReserved /\ TargetMade
  <2>1. /\ journal.phase = "CandidatePreserveIntent" /\ journal.operation = operation
        /\ fs' = [fs EXCEPT !.trees = [candidate |-> CandidatePlace(operation), previous |-> "Live"]]
        /\ disk' = [disk EXCEPT !.target = fs.target]
        /\ operation = "NewState" => fs.trees # PRE_EXCHANGE \/ fs.target = "Empty"
    BY Zenon, <1>12, RollbackRoutes DEF Preserve, Enter, Restore, TargetMissing
  <2>2. Aim(journal) = [candidate |-> CandidatePlace(operation), previous |-> "Live"] /\ Moves(journal)
    BY Zenon, <2>1, Aims DEF Moves
  <2>3. /\ fs'.trees = Aim(journal) /\ fs'.root_abi = fs.root_abi /\ fs'.isolation_abi = fs.isolation_abi
        /\ fs'.wrapper = fs.wrapper /\ fs'.target = fs.target
        /\ disk'.trees = disk.trees /\ disk'.root_abi = disk.root_abi /\ disk'.isolation_abi = disk.isolation_abi
        /\ disk'.wrapper = disk.wrapper /\ disk'.target = fs.target
    BY <1>0, <2>1, <2>2, FieldChanges
  <2> QED BY Zenon, <2>1, <2>2, <2>3 DEF TreesMoved, RootLinked, IsolationLinked, WrapperReserved, TargetMade
<1>13. CASE preserve_new_state_candidate \/ preserve_archived_candidate \/ exchange_active_reblit_candidate
  BY Zenon, <1>12, <1>13 DEF preserve_new_state_candidate, preserve_archived_candidate,
     exchange_active_reblit_candidate, Operation
<1> QED BY Zenon, <1>1, <1>2, <1>3, <1>4, <1>5, <1>6, <1>7, <1>8, <1>9, <1>10, <1>11, <1>13 DEF NamespaceWrite

\* What a sync makes durable.
LEMMA SyncEffects ==
  ASSUME TypeOK, Busy, Sync
  PROVE  /\ journal # None /\ proc.at = "Effected" /\ proc'.at = "Synced" /\ UNCHANGED <<journal, fs>>
         /\ journal.phase = "CandidatePrepared" => fs.wrapper # "Residue"
         /\ disk'.trees = IF Moves(journal) THEN fs.trees ELSE disk.trees
         /\ disk'.root_abi = IF journal.phase \in {"UsrExchanged", "UsrExchangeIntent", "ReverseExchangeIntent"}
                             THEN fs.root_abi ELSE disk.root_abi
         /\ disk'.isolation_abi = IF journal.phase = "CandidatePrepared" THEN fs.isolation_abi ELSE disk.isolation_abi
         /\ disk'.wrapper = disk.wrapper
         /\ disk'.target = disk.target
<1> DEFINE fields == SyncFields(journal.phase)
<1>1. /\ journal # None /\ proc.at = "Effected" /\ proc'.at = "Synced" /\ UNCHANGED <<journal, fs>>
      /\ journal.phase = "CandidatePrepared" => fs.wrapper # "Residue"
      /\ journal.phase \in SyncPhase /\ disk' = Mixed(fs, disk, fields)
  BY Zenon, SyncWrites
<1>2. /\ "trees" \in fields <=> Moves(journal)
      /\ "root_abi" \in fields <=> journal.phase \in {"UsrExchanged", "UsrExchangeIntent", "ReverseExchangeIntent"}
      /\ "isolation_abi" \in fields <=> journal.phase = "CandidatePrepared"
      /\ "wrapper" \notin fields /\ "target" \notin fields
  BY Zenon, <1>1 DEF SyncFields, SyncPhase, Moves
<1> HIDE DEF fields
<1> QED BY <1>1, <1>2, MixedIsTyped DEF TypeOK

\* What a power failure leaves.
LEMMA PowerLossEffects ==
  ASSUME TypeOK, PowerLoss
  PROVE  /\ journal' = journal /\ disk' = fs' /\ proc'.at = "Ready"
         /\ fs'.trees \in {fs.trees, disk.trees}
         /\ fs.root_abi /\ disk.root_abi => fs'.root_abi
         /\ fs.isolation_abi /\ disk.isolation_abi => fs'.isolation_abi
         /\ fs'.wrapper \in {fs.wrapper, disk.wrapper}
         /\ fs'.target \in {fs.target, disk.target}
<1>1. PICK kept : fs' = Mixed(fs, disk, kept)
  BY Zenon, PowerLossWrites
<1>2. journal' = journal /\ disk' = fs' /\ proc'.at = "Ready"
  BY PowerLossWrites DEF Down
<1> QED BY <1>1, <1>2, MixedIsTyped DEF TypeOK

\* What a transition begins with.
LEMMA BeginEffects ==
  ASSUME TypeOK, Begin
  PROVE  /\ journal' \in TransitionRecord /\ validate(journal')
         /\ journal'.phase = "Preparing" /\ journal'.rollback = None /\ forward_ordinal(journal') = 0
         /\ disk' = fs' /\ proc'.at = "Ready"
         /\ fs'.trees = PRE_EXCHANGE /\ fs'.wrapper = "Absent" /\ fs'.target = "Absent"
<1>1. /\ journal' \in TransitionRecord /\ validate(journal')
      /\ journal'.phase = "Preparing" /\ journal'.rollback = None
      /\ fs' = Staged(fs.root_abi, fs.isolation_abi) /\ disk' = fs' /\ proc' = Forward
  BY Zenon, BeginWrites
<1>2. forward_ordinal(journal') = 0
  BY Zenon, <1>1, Progresses, Ordinals
<1> QED BY Zenon, <1>1, <1>2 DEF Staged, Forward

-----------------------------------------------------------------------------
(* The trees *)

\* Both trees are where the record's phase allows, the effect of a phase has put
\* them where it aims before the process goes on, and an exchange that is durable
\* is visible.
TreesFit ==
  journal # None =>
    /\ fs.trees \in expected_layouts(journal) /\ disk.trees \in expected_layouts(journal)
    /\ Moves(journal) =>
         /\ proc.at # "Ready" => fs.trees = Aim(journal)
         /\ proc.at = "Synced" => disk.trees = Aim(journal)
    /\ journal.phase = "UsrExchangeIntent" /\ disk.trees = POST_EXCHANGE => fs.trees = POST_EXCHANGE

LEMMA LayoutsDiffer ==
  /\ PRE_EXCHANGE # POST_EXCHANGE /\ PRE_EXCHANGE # PREVIOUS_ARCHIVED /\ POST_EXCHANGE # PREVIOUS_ARCHIVED
BY Zenon DEF PRE_EXCHANGE, POST_EXCHANGE, PREVIOUS_ARCHIVED

\* Where the trees may be, phase by phase.
LEMMA ForwardLayouts ==
  ASSUME NEW r
  PROVE  /\ r.phase \in {"Preparing", "FreshStateAllocating", "FreshStateAllocated", "CandidatePrepareStarted",
                         "CandidatePrepared", "TransactionTriggersStarted", "TransactionTriggersComplete"} =>
              forward_layouts(r) = {PRE_EXCHANGE}
         /\ r.phase = "UsrExchangeIntent" => forward_layouts(r) = {PRE_EXCHANGE, POST_EXCHANGE}
         /\ r.phase \in {"UsrExchanged", "RootLinksComplete", "SystemTriggersStarted", "SystemTriggersComplete"} =>
              forward_layouts(r) = {POST_EXCHANGE}
         /\ r.phase = "PreviousArchiveIntent" => forward_layouts(r) = {POST_EXCHANGE, PREVIOUS_ARCHIVED}
         /\ r.phase = "PreviousArchived" => forward_layouts(r) = {PREVIOUS_ARCHIVED}
         /\ r.phase \in {"BootSyncStarted", "BootSyncComplete"} =>
              forward_layouts(r) = {IF r.options.archive_previous THEN PREVIOUS_ARCHIVED ELSE POST_EXCHANGE}
         /\ r.phase = "CommitDecided" =>
              /\ CompletedCommit(r) \in forward_layouts(r)
              /\ r.previous_origin # "ActiveState" => forward_layouts(r) = {CompletedCommit(r), POST_EXCHANGE}
         /\ r.phase \in {"CommitCleanupComplete", "Complete"} => forward_layouts(r) = {CompletedCommit(r)}
<1>1. /\ /\ ordinal(r.phase) < ordinal("UsrExchangeIntent")
         /\ r.phase \in {"Preparing", "FreshStateAllocating", "FreshStateAllocated", "CandidatePrepareStarted",
                         "CandidatePrepared", "TransactionTriggersStarted", "TransactionTriggersComplete"}
         => forward_layouts(r) = {PRE_EXCHANGE}
      /\ ~(ordinal(r.phase) < ordinal("UsrExchangeIntent")) =>
           /\ r.phase = "UsrExchangeIntent" => forward_layouts(r) = {PRE_EXCHANGE, POST_EXCHANGE}
           /\ r.phase \in {"UsrExchanged", "RootLinksComplete", "SystemTriggersStarted", "SystemTriggersComplete"} =>
                forward_layouts(r) = {POST_EXCHANGE}
           /\ r.phase = "PreviousArchiveIntent" => forward_layouts(r) = {POST_EXCHANGE, PREVIOUS_ARCHIVED}
           /\ r.phase = "PreviousArchived" => forward_layouts(r) = {PREVIOUS_ARCHIVED}
           /\ r.phase \in {"BootSyncStarted", "BootSyncComplete"} =>
                forward_layouts(r) = {IF r.options.archive_previous THEN PREVIOUS_ARCHIVED ELSE POST_EXCHANGE}
           /\ r.phase = "CommitDecided" =>
                forward_layouts(r) =
                  {CompletedCommit(r)} \cup IF r.previous_origin = "ActiveState" THEN {} ELSE {POST_EXCHANGE}
           /\ r.phase \in {"CommitCleanupComplete", "Complete"} => forward_layouts(r) = {CompletedCommit(r)}
  <2>1. ASSUME ordinal(r.phase) < ordinal("UsrExchangeIntent"),
               r.phase \in {"Preparing", "FreshStateAllocating", "FreshStateAllocated", "CandidatePrepareStarted",
                            "CandidatePrepared", "TransactionTriggersStarted", "TransactionTriggersComplete"}
        PROVE  forward_layouts(r) = {PRE_EXCHANGE}
    BY <2>1, Zenon DEF forward_layouts
  <2>2. ASSUME ~(ordinal(r.phase) < ordinal("UsrExchangeIntent")), r.phase = "UsrExchangeIntent"
        PROVE  forward_layouts(r) = {PRE_EXCHANGE, POST_EXCHANGE}
    BY <2>2, Zenon DEF forward_layouts
  <2>3. ASSUME ~(ordinal(r.phase) < ordinal("UsrExchangeIntent")),
               r.phase \in {"UsrExchanged", "RootLinksComplete", "SystemTriggersStarted", "SystemTriggersComplete"}
        PROVE  forward_layouts(r) = {POST_EXCHANGE}
    BY <2>3, Zenon DEF forward_layouts
  <2>4. ASSUME ~(ordinal(r.phase) < ordinal("UsrExchangeIntent")), r.phase = "PreviousArchiveIntent"
        PROVE  forward_layouts(r) = {POST_EXCHANGE, PREVIOUS_ARCHIVED}
    BY <2>4, Zenon DEF forward_layouts
  <2>5. ASSUME ~(ordinal(r.phase) < ordinal("UsrExchangeIntent")), r.phase = "PreviousArchived"
        PROVE  forward_layouts(r) = {PREVIOUS_ARCHIVED}
    BY <2>5, Zenon DEF forward_layouts
  <2>6. ASSUME ~(ordinal(r.phase) < ordinal("UsrExchangeIntent")), r.phase \in {"BootSyncStarted", "BootSyncComplete"}
        PROVE  forward_layouts(r) = {IF r.options.archive_previous THEN PREVIOUS_ARCHIVED ELSE POST_EXCHANGE}
    BY <2>6, Zenon DEF forward_layouts
  <2>7. ASSUME ~(ordinal(r.phase) < ordinal("UsrExchangeIntent")), r.phase = "CommitDecided"
        PROVE  forward_layouts(r) =
                 {CompletedCommit(r)} \cup IF r.previous_origin = "ActiveState" THEN {} ELSE {POST_EXCHANGE}
    BY <2>7, Zenon DEF forward_layouts
  <2>8. ASSUME ~(ordinal(r.phase) < ordinal("UsrExchangeIntent")), r.phase \in {"CommitCleanupComplete", "Complete"}
        PROVE  forward_layouts(r) = {CompletedCommit(r)}
    BY <2>8, Zenon DEF forward_layouts
  <2> QED BY Zenon, <2>1, <2>2, <2>3, <2>4, <2>5, <2>6, <2>7, <2>8
<1>2. r.phase \in {"Preparing", "FreshStateAllocating", "FreshStateAllocated", "CandidatePrepareStarted",
                   "CandidatePrepared", "TransactionTriggersStarted", "TransactionTriggersComplete"} =>
        ordinal(r.phase) < ordinal("UsrExchangeIntent")
  BY Ordinals
<1>3. r.phase \in {"UsrExchangeIntent", "UsrExchanged", "RootLinksComplete", "SystemTriggersStarted",
                   "SystemTriggersComplete", "PreviousArchiveIntent", "PreviousArchived", "BootSyncStarted",
                   "BootSyncComplete", "CommitDecided", "CommitCleanupComplete", "Complete"} =>
        ~(ordinal(r.phase) < ordinal("UsrExchangeIntent"))
  BY Ordinals
<1>4. r.phase = "CommitDecided" =>
        /\ CompletedCommit(r) \in forward_layouts(r)
        /\ r.previous_origin # "ActiveState" => forward_layouts(r) = {CompletedCommit(r), POST_EXCHANGE}
  BY Zenon, <1>1, <1>3
<1> QED BY <1>1, <1>2, <1>3, <1>4, Zenon

\* A decision whose candidate is still to be preserved names one layout.
LEMMA DecisionLayouts ==
  ASSUME NEW r, r.rollback.candidate = "Pending"
  PROVE  /\ r.rollback.previous_archive = "Pending" /\ r.rollback.usr_exchange = "Pending" =>
              layout_at_rollback_decision(r) = {PREVIOUS_ARCHIVED}
         /\ r.rollback.previous_archive = "Pending" /\ r.rollback.usr_exchange # "Pending" =>
              layout_at_rollback_decision(r) = {}
         /\ r.rollback.previous_archive # "Pending" /\ r.rollback.usr_exchange = "Pending" =>
              layout_at_rollback_decision(r) = {POST_EXCHANGE}
         /\ r.rollback.previous_archive # "Pending" /\ r.rollback.usr_exchange # "Pending" =>
              layout_at_rollback_decision(r) = {PRE_EXCHANGE}
BY Zenon DEF layout_at_rollback_decision

LEMMA DecidedTrees ==
  ASSUME NEW r, NEW t, t \in layout_at_rollback_decision(r)
  PROVE  /\ r.rollback.previous_archive = "Pending" => t = PREVIOUS_ARCHIVED
         /\ r.rollback.previous_archive # "Pending" /\ r.rollback.usr_exchange = "Pending" => t = POST_EXCHANGE
         /\ r.rollback.previous_archive # "Pending" /\ r.rollback.usr_exchange # "Pending" /\ r.rollback.candidate = "Pending" =>
              t = PRE_EXCHANGE
<1>1. CASE r.rollback.candidate = "Pending"
  BY <1>1, DecisionLayouts
<1>2. ASSUME r.rollback.candidate # "Pending", r.rollback.previous_archive = "Pending"
      PROVE  FALSE
  <2>1. layout_at_rollback_decision(r) = {}
    BY <1>2, Zenon DEF layout_at_rollback_decision
  <2> QED BY Zenon, <2>1
<1>3. ASSUME r.rollback.candidate # "Pending", r.rollback.usr_exchange = "Pending"
      PROVE  FALSE
  <2>1. layout_at_rollback_decision(r) = {}
    BY <1>3, Zenon DEF layout_at_rollback_decision
  <2> QED BY Zenon, <2>1
<1> QED BY Zenon, <1>1, <1>2, <1>3

LEMMA RollbackLayouts ==
  ASSUME NEW r
  PROVE  /\ r.phase = "RollbackDecided" => rollback_layouts(r) = layout_at_rollback_decision(r)
         /\ r.phase = "PreviousRestoreIntent" => rollback_layouts(r) = {PREVIOUS_ARCHIVED, POST_EXCHANGE}
         /\ r.phase = "ReverseExchangeIntent" => rollback_layouts(r) = {POST_EXCHANGE, PRE_EXCHANGE}
         /\ r.phase = "UsrRestored" => rollback_layouts(r) = {PRE_EXCHANGE}
         /\ r.phase = "CandidatePreserveIntent" => rollback_layouts(r) = {PRE_EXCHANGE} \cup Preserved(r)
         /\ r.phase \in {"CandidatePreserved", "FreshDbInvalidationIntent", "FreshDbInvalidated", "BootRepairRequired",
                         "BootRepairStarted", "BootRepairUnverified", "RollbackComplete"} =>
              rollback_layouts(r) = Preserved(r)
BY Zenon DEF rollback_layouts

\* The candidate is preserved where the plan's disposition puts it.
LEMMA PlaceIsPreserved ==
  ASSUME NEW r \in TransitionRecord, validate(r), r.rollback # None,
         r.operation = "ActivateArchived" => forward_ordinal(r) <= 9
  PROVE  [candidate |-> CandidatePlace(r.operation), previous |-> "Live"] \in Preserved(r)
<1>1. r.operation \in Operation
  BY Zenon DEF TransitionRecord
<1>2. r.operation = "NewState" => CandidatePlace(r.operation) \in candidate_destination(r)
  BY Zenon DEF CandidatePlace, candidate_destination
<1>3. r.operation = "ActiveReblit" => CandidatePlace(r.operation) \in candidate_destination(r)
  BY Zenon DEF CandidatePlace, candidate_destination
<1>4. ASSUME r.operation = "ActivateArchived"
      PROVE  CandidatePlace(r.operation) \in candidate_destination(r)
  <2>1. r.rollback.source # "SystemTriggersStarted"
    BY <1>4, Progresses, Ordinals
  <2>2. r.rollback.disposition = "Rearchive"
    BY Zenon, <1>4, <2>1 DEF validate, validate_rollback_plan, candidate_disposition_for
  <2>3. candidate_destination(r) = {"State"}
    BY Zenon, <1>4, <2>2 DEF candidate_destination
  <2> QED BY Zenon, <1>4, <2>3 DEF CandidatePlace
<1>5. CandidatePlace(r.operation) \in candidate_destination(r)
  BY Zenon, <1>1, <1>2, <1>3, <1>4 DEF Operation
<1> QED BY Zenon, <1>5 DEF Preserved

LEMMA AimFits ==
  ASSUME NEW r \in TransitionRecord, validate(r), Moves(r),
         r.operation = "ActivateArchived" => forward_ordinal(r) <= 9
  PROVE  Aim(r) \in expected_layouts(r)
<1>1. CASE r.phase \in {"UsrExchangeIntent", "PreviousArchiveIntent", "CommitDecided"}
  <2>1. expected_layouts(r) = forward_layouts(r)
    BY Zenon, <1>1, ForwardRecords DEF expected_layouts, ForwardPhase
  <2> QED BY <1>1, <2>1, Aims, ForwardLayouts
<1>2. CASE r.phase \in {"ReverseExchangeIntent", "CandidatePreserveIntent"}
  <2>1. expected_layouts(r) = rollback_layouts(r) /\ r.rollback # None
    BY Zenon, <1>2, ForwardRecords DEF expected_layouts, ForwardPhase
  <2> QED BY <1>2, <2>1, Aims, RollbackLayouts, PlaceIsPreserved
<1> QED BY Zenon, <1>1, <1>2 DEF Moves

\* A tree position that a phase allows, and that its effect has settled, is
\* allowed after a forward edge.
LEMMA ForwardRungFits ==
  ASSUME TypeOK, Sound, Reached, journal # None, ForwardRung, journal.rollback = None, journal'.rollback = None,
         journal'.options = journal.options, journal'.previous_origin = journal.previous_origin,
         NEW t, t \in expected_layouts(journal), Moves(journal) /\ proc.at = "Synced" => t = Aim(journal)
  PROVE  /\ t \in expected_layouts(journal')
         /\ journal'.phase = "UsrExchangeIntent" => t = PRE_EXCHANGE
<1>1. /\ expected_layouts(journal) = forward_layouts(journal)
      /\ expected_layouts(journal') = forward_layouts(journal')
  BY Zenon DEF expected_layouts
<1>2. CompletedCommit(journal') = CompletedCommit(journal)
  BY Zenon DEF CompletedCommit
<1>3. CASE journal.phase \in {"Preparing", "FreshStateAllocating", "FreshStateAllocated", "CandidatePrepareStarted",
                              "CandidatePrepared", "TransactionTriggersStarted", "TransactionTriggersComplete"}
  <2>1. t = PRE_EXCHANGE
    BY Zenon, <1>1, <1>3, ForwardLayouts
  <2>2. journal'.phase \in {"FreshStateAllocating", "FreshStateAllocated", "CandidatePrepareStarted",
                            "CandidatePrepared", "TransactionTriggersStarted", "TransactionTriggersComplete"}
          \cup {"UsrExchangeIntent"}
    BY Zenon, <1>3 DEF ForwardRung
  <2>3. PRE_EXCHANGE \in forward_layouts(journal')
    BY Zenon, <2>2, ForwardLayouts
  <2> QED BY Zenon, <1>1, <2>1, <2>3
<1>4. CASE journal.phase = "UsrExchangeIntent"
  <2>1. journal'.phase = "UsrExchanged" /\ proc.at = "Synced"
    BY Zenon, <1>4 DEF ForwardRung
  <2>2. t = POST_EXCHANGE
    BY Zenon, <1>4, <2>1, Aims DEF Moves
  <2> QED BY <1>1, <2>1, <2>2, ForwardLayouts
<1>5. CASE journal.phase \in {"UsrExchanged", "RootLinksComplete", "SystemTriggersStarted"}
  <2>1. journal'.phase \in {"RootLinksComplete", "SystemTriggersStarted", "SystemTriggersComplete"}
    BY Zenon, <1>5 DEF ForwardRung
  <2> QED BY Zenon, <1>1, <1>5, <2>1, ForwardLayouts
<1>6. CASE journal.phase \in {"SystemTriggersComplete", "BootSyncStarted", "BootSyncComplete"}
  <2>1. \/ journal'.phase = "PreviousArchiveIntent" /\ journal.phase = "SystemTriggersComplete"
        \/ /\ journal'.phase \in {"BootSyncStarted", "BootSyncComplete", "CommitDecided"}
           /\ journal.phase = "SystemTriggersComplete" => journal.operation = "ActiveReblit"
    BY Zenon, <1>6 DEF ForwardRung
  <2>2. journal \in TransitionRecord /\ validate(journal) /\ journal.operation \in Operation
    BY Zenon DEF TypeOK, Sound, TransitionRecord
  <2>3. journal.phase # "SystemTriggersComplete" => journal.operation = "ActiveReblit"
    <3>1. journal.phase # "SystemTriggersComplete" => forward_ordinal(journal) >= 14
      BY <1>6, <2>2, Progresses, Ordinals
    <3> QED BY Zenon, <3>1 DEF Reached
  <2>4. journal.operation = "ActiveReblit" => ~journal.options.archive_previous /\ journal.previous_origin # "ActiveState"
    BY Zenon, <2>2, Archives DEF Reached
  <2>5. t = POST_EXCHANGE
    BY <1>1, <1>6, <2>3, <2>4, ForwardLayouts
  <2>6. CASE journal'.phase = "PreviousArchiveIntent"
    BY <1>1, <2>5, <2>6, ForwardLayouts
  <2>7. CASE journal'.phase \in {"BootSyncStarted", "BootSyncComplete", "CommitDecided"}
    <3>1. journal.operation = "ActiveReblit"
      BY Zenon, <2>1, <2>3, <2>7
    <3>2. ~journal'.options.archive_previous /\ journal'.previous_origin # "ActiveState"
      BY Zenon, <2>4, <3>1
    <3> QED BY <1>1, <2>5, <2>7, <3>2, ForwardLayouts
  <2> QED BY Zenon, <2>1, <2>6, <2>7
<1>7. CASE journal.phase = "PreviousArchiveIntent"
  <2>1. journal'.phase = "PreviousArchived" /\ proc.at = "Synced"
    BY Zenon, <1>7 DEF ForwardRung
  <2>2. t = PREVIOUS_ARCHIVED
    BY Zenon, <1>7, <2>1, Aims DEF Moves
  <2> QED BY ZenonT(60), <1>1, <2>1, <2>2, ForwardLayouts
<1>8. CASE journal.phase = "CommitDecided"
  <2>1. journal'.phase = "CommitCleanupComplete" /\ proc.at = "Synced"
    BY Zenon, <1>8 DEF ForwardRung
  <2>2. t = CompletedCommit(journal)
    BY Zenon, <1>8, <2>1, Aims DEF Moves
  <2> QED BY <1>1, <1>2, <2>1, <2>2, ForwardLayouts
<1>9. CASE journal.phase = "CommitCleanupComplete"
  <2>1. journal'.phase = "Complete"
    BY Zenon, <1>9 DEF ForwardRung
  <2> QED BY ZenonT(60), <1>1, <1>2, <1>9, <2>1, ForwardLayouts
<1>10. journal.phase \in ForwardPhase /\ journal.phase # "PreviousArchived" /\ journal.phase # "Complete"
  BY Zenon DEF ForwardRung, ForwardPhase
<1> QED BY Zenon, <1>3, <1>4, <1>5, <1>6, <1>7, <1>8, <1>9, <1>10 DEF ForwardPhase

\* The same on the rollback ladder.
LEMMA LadderFits ==
  ASSUME TypeOK, Sound, Reached, journal # None, RollbackSource, journal'.operation = journal.operation,
         NEW t, t \in expected_layouts(journal), Moves(journal) /\ proc.at = "Synced" => t = Aim(journal)
  PROVE  t \in expected_layouts(journal')
<1>0. journal \in TransitionRecord /\ validate(journal)
  BY Zenon DEF TypeOK, Sound
<1>1. /\ journal.rollback # None /\ Ladder
      /\ expected_layouts(journal) = rollback_layouts(journal)
      /\ expected_layouts(journal') = rollback_layouts(journal')
      /\ journal'.rollback.disposition = journal.rollback.disposition
  BY Zenon DEF RollbackSource, expected_layouts
<1>2. Preserved(journal') = Preserved(journal)
  BY Zenon, <1>1 DEF Preserved, candidate_destination
<1>3. CASE journal.phase = "RollbackDecided"
  <2>1. \/ journal'.phase = "PreviousRestoreIntent" /\ journal.rollback.previous_archive = "Pending"
        \/ /\ journal'.phase = "ReverseExchangeIntent"
           /\ journal.rollback.previous_archive # "Pending" /\ journal.rollback.usr_exchange = "Pending"
        \/ /\ journal'.phase = "CandidatePreserveIntent"
           /\ journal.rollback.previous_archive # "Pending" /\ journal.rollback.usr_exchange # "Pending"
           /\ journal.rollback.candidate = "Pending"
    BY Zenon, <1>1, <1>3 DEF Ladder
  <2>2. t \in layout_at_rollback_decision(journal)
    BY Zenon, <1>1, <1>3, RollbackLayouts
  <2>3. /\ journal.rollback.previous_archive = "Pending" => t = PREVIOUS_ARCHIVED
        /\ journal.rollback.previous_archive # "Pending" /\ journal.rollback.usr_exchange = "Pending" =>
             t = POST_EXCHANGE
        /\ journal.rollback.previous_archive # "Pending" =>
             (journal.rollback.usr_exchange # "Pending" /\ journal.rollback.candidate = "Pending" => t = PRE_EXCHANGE)
    BY Zenon, <2>2, DecidedTrees
  <2> QED BY <1>1, <2>1, <2>3, RollbackLayouts
<1>4. CASE journal.phase = "ReverseExchangeIntent"
  <2>1. journal'.phase = "UsrRestored" /\ proc.at = "Synced"
    BY Zenon, <1>1, <1>4 DEF Ladder
  <2>2. t = PRE_EXCHANGE
    BY Zenon, <1>4, <2>1, Aims DEF Moves
  <2> QED BY Zenon, <1>1, <2>1, <2>2, RollbackLayouts
<1>5. CASE journal.phase = "UsrRestored"
  <2>1. journal'.phase = "CandidatePreserveIntent"
    BY Zenon, <1>1, <1>5 DEF Ladder
  <2> QED BY Zenon, <1>1, <1>5, <2>1, RollbackLayouts
<1>6. CASE journal.phase = "CandidatePreserveIntent"
  <2>1. journal'.phase = "CandidatePreserved" /\ proc.at = "Synced"
    BY Zenon, <1>1, <1>6 DEF Ladder
  <2>2. t = [candidate |-> CandidatePlace(journal.operation), previous |-> "Live"]
    BY Zenon, <1>6, <2>1, Aims DEF Moves
  <2>3. t \in Preserved(journal)
    BY Zenon, <1>0, <1>1, <2>2, PlaceIsPreserved DEF Reached
  <2> QED BY Zenon, <1>1, <1>2, <2>1, <2>3, RollbackLayouts
<1>7. CASE journal.phase \in {"CandidatePreserved", "FreshDbInvalidationIntent", "FreshDbInvalidated",
                              "BootRepairRequired", "BootRepairStarted"}
  <2>1. journal'.phase \in {"FreshDbInvalidationIntent", "FreshDbInvalidated", "BootRepairRequired",
                            "BootRepairStarted", "BootRepairUnverified", "RollbackComplete"}
    BY Zenon, <1>1, <1>7 DEF Ladder
  <2> QED BY Zenon, <1>1, <1>2, <1>7, <2>1, RollbackLayouts
<1> QED BY Zenon, <1>1, <1>3, <1>4, <1>5, <1>6, <1>7 DEF Ladder

\* The decision records the layout that is visible, and that is durable by then.
LEMMA DecisionFits ==
  ASSUME TypeOK, Sound, Reached, TreesFit, journal # None, persist_usr_rollback_decision, DecisionSource
  PROVE  fs.trees \in expected_layouts(journal') /\ disk'.trees \in expected_layouts(journal')
<1>0. journal \in TransitionRecord /\ validate(journal) /\ journal.operation \in Operation
  BY Zenon DEF TypeOK, Sound, TransitionRecord
<1>1. /\ fs.trees \in forward_layouts(journal) /\ disk.trees \in forward_layouts(journal)
      /\ journal.phase = "UsrExchangeIntent" /\ disk.trees = POST_EXCHANGE => fs.trees = POST_EXCHANGE
  BY Zenon DEF TreesFit, DecisionSource, expected_layouts
<1>2. expected_layouts(journal') = layout_at_rollback_decision(journal')
  BY Zenon, RollbackLayouts DEF DecisionSource, expected_layouts
<1>3. disk'.trees = IF journal.phase = "UsrExchangeIntent" /\ fs.trees = POST_EXCHANGE THEN fs.trees ELSE disk.trees
  BY Zenon, DecisionDisk
<1>4. /\ journal'.rollback.candidate = "Pending"
      /\ journal'.rollback.previous_archive = IF journal.phase = "PreviousArchived" THEN "Pending" ELSE "NotRequired"
      /\ journal'.rollback.usr_exchange \in UsrObservation(journal, fs.trees)
  BY Zenon DEF DecisionSource
<1>5. /\ fs.trees \in {POST_EXCHANGE, PREVIOUS_ARCHIVED} => journal'.rollback.usr_exchange = "Pending"
      /\ fs.trees = PRE_EXCHANGE => journal'.rollback.usr_exchange # "Pending"
  BY Zenon, <1>4, LayoutsDiffer DEF UsrObservation, rollback_usr_exchange_layout, usr_exchange_layout
<1>6. CASE journal.phase = "UsrExchangeIntent"
  <2>1. \/ fs.trees = POST_EXCHANGE /\ disk'.trees = POST_EXCHANGE
        \/ fs.trees = PRE_EXCHANGE /\ disk'.trees = PRE_EXCHANGE
    BY Zenon, <1>1, <1>3, <1>6, ForwardLayouts, LayoutsDiffer
  <2> QED BY Zenon, <1>2, <1>4, <1>5, <1>6, <2>1, DecisionLayouts
<1>7. CASE journal.phase \in {"UsrExchanged", "RootLinksComplete", "SystemTriggersStarted", "SystemTriggersComplete"}
  <2>1. fs.trees = POST_EXCHANGE /\ disk'.trees = POST_EXCHANGE
    BY ZenonT(60), <1>1, <1>3, <1>7, ForwardLayouts
  <2> QED BY Zenon, <1>2, <1>4, <1>5, <1>7, <2>1, DecisionLayouts
<1>8. CASE journal.phase = "PreviousArchived"
  <2>1. fs.trees = PREVIOUS_ARCHIVED /\ disk'.trees = PREVIOUS_ARCHIVED
    BY ZenonT(60), <1>1, <1>3, <1>8, ForwardLayouts
  <2> QED BY Zenon, <1>2, <1>4, <1>5, <1>8, <2>1, DecisionLayouts
<1>9. CASE journal.phase = "BootSyncStarted"
  <2>1. ~journal.options.archive_previous
    BY Zenon, <1>0, <1>9, Archives DEF DecisionSource, Reached
  <2>2. fs.trees = POST_EXCHANGE /\ disk'.trees = POST_EXCHANGE
    BY ZenonT(60), <1>1, <1>3, <1>9, <2>1, ForwardLayouts
  <2> QED BY Zenon, <1>2, <1>4, <1>5, <1>9, <2>2, DecisionLayouts
<1> QED BY Zenon, <1>6, <1>7, <1>8, <1>9 DEF DecisionSource, DecisionPhase

LEMMA TreesStep ==
  ASSUME IInv, Reached, TreesFit, Next
  PROVE  TreesFit'
<1>0. TypeOK /\ Sound /\ Busy
  BY Zenon DEF IInv
<1>1. CASE Begin
  <2>1. /\ journal'.phase = "Preparing" /\ journal'.rollback = None
        /\ disk' = fs' /\ fs'.trees = PRE_EXCHANGE
    BY Zenon, <1>0, <1>1, BeginEffects
  <2>2. expected_layouts(journal') = {PRE_EXCHANGE}
    BY Zenon, <2>1, ForwardLayouts DEF expected_layouts
  <2>3. ~Moves(journal') /\ journal'.phase # "UsrExchangeIntent"
    BY Zenon, <2>1 DEF Moves
  <2> QED BY Zenon, <2>1, <2>2, <2>3 DEF TreesFit
<1>2. CASE RecordWrite
  <2>1. /\ journal # None /\ fs' = fs /\ proc'.at = "Ready"
        /\ journal'.operation = journal.operation /\ journal'.options = journal.options
        /\ journal'.previous_origin = journal.previous_origin
    BY Zenon, <1>0, <1>2, RecordEdges
  <2>2. /\ fs.trees \in expected_layouts(journal) /\ disk.trees \in expected_layouts(journal)
        /\ Moves(journal) /\ proc.at = "Synced" => fs.trees = Aim(journal) /\ disk.trees = Aim(journal)
    BY Zenon, <2>1 DEF TreesFit
  <2>3. SUFFICES /\ fs.trees \in expected_layouts(journal') /\ disk'.trees \in expected_layouts(journal')
                 /\ journal'.phase = "UsrExchangeIntent" => disk'.trees = PRE_EXCHANGE
    BY Zenon, <2>1, LayoutsDiffer DEF TreesFit
  <2>4. CASE journal.rollback = None /\ journal'.rollback = None /\ ForwardRung /\ disk' = disk
    BY Zenon, <1>0, <2>1, <2>2, <2>4, ForwardRungFits
  <2>5. CASE persist_usr_rollback_decision /\ DecisionSource
    BY Zenon, <1>0, <2>1, <2>5, DecisionFits DEF DecisionSource
  <2>6. CASE RollbackSource /\ disk' = disk
    <3>1. journal'.phase # "UsrExchangeIntent"
      BY Zenon, <2>6 DEF RollbackSource, Ladder
    <3> QED BY Zenon, <1>0, <2>1, <2>2, <2>6, <3>1, LadderFits
  <2> QED BY Zenon, <1>0, <1>2, <2>4, <2>5, <2>6, RecordEdges
<1>3. CASE Finalize
  BY Zenon, <1>0, <1>3, FinalizeWrites DEF TreesFit
<1>4. CASE NamespaceWrite
  <2>1. journal' = journal /\ (proc'.at # "Ready" => proc'.at = "Effected")
    BY Zenon, <1>0, <1>4, NamespaceWrites DEF NamespaceKept, OnlyNamespace
  <2>2. SUFFICES ASSUME journal # None PROVE TreesFit'
    BY Zenon, <2>1 DEF TreesFit
  <2>3. TreesMoved
    BY Zenon, <1>0, <1>4, NamespaceEffects
  <2>4. CASE disk'.trees = disk.trees /\ fs'.trees = fs.trees /\ (Moves(journal) => proc'.at = "Ready")
    BY Zenon, <2>1, <2>2, <2>4 DEF TreesFit
  <2>5. CASE disk'.trees = disk.trees /\ Moves(journal) /\ fs'.trees = Aim(journal)
    <3>1. Aim(journal) \in expected_layouts(journal)
      BY Zenon, <1>0, <2>2, <2>5, AimFits DEF TypeOK, Sound, Reached
    <3>2. journal.phase = "UsrExchangeIntent" => fs'.trees = POST_EXCHANGE
      BY Zenon, <2>5, Aims
    <3> QED BY Zenon, <2>1, <2>2, <2>5, <3>1, <3>2 DEF TreesFit
  <2> QED BY Zenon, <2>3, <2>4, <2>5 DEF TreesMoved
<1>5. CASE Sync
  <2>1. /\ journal # None /\ proc.at = "Effected" /\ UNCHANGED <<journal, fs>>
        /\ disk'.trees = IF Moves(journal) THEN fs.trees ELSE disk.trees
    BY Zenon, <1>0, <1>5, SyncEffects
  <2> QED BY Zenon, <2>1 DEF TreesFit, Moves
<1>6. CASE Aside
  <2>1. /\ UNCHANGED <<journal, fs, disk>>
        /\ proc'.at # "Ready" => journal.phase \in {"BootSyncStarted", "FreshDbInvalidationIntent"}
    BY Zenon, <1>6, AsideKeeps
  <2>2. proc'.at # "Ready" => ~Moves(journal)
    BY Zenon, <2>1 DEF Moves
  <2> QED BY Zenon, <2>1, <2>2 DEF TreesFit
<1>7. CASE PowerLoss
  <2>1. journal' = journal /\ disk' = fs' /\ proc'.at = "Ready" /\ fs'.trees \in {fs.trees, disk.trees}
    BY Zenon, <1>0, <1>7, PowerLossEffects
  <2> QED BY Zenon, <2>1 DEF TreesFit
<1> QED BY Zenon, <1>1, <1>2, <1>3, <1>4, <1>5, <1>6, <1>7, Steps


-----------------------------------------------------------------------------
(* The links of the root *)

\* The merged-/usr links are complete and durable once the record says so, and
\* before the record says so when the process has made them.
RootLinksFit ==
  journal # None =>
    /\ forward_ordinal(journal) >= 9 \/ (journal.rollback # None /\ forward_ordinal(journal) >= 8) =>
         fs.root_abi /\ disk.root_abi
    /\ journal.phase = "UsrExchanged" =>
         /\ proc.at # "Ready" => fs.root_abi
         /\ proc.at = "Synced" => disk.root_abi

\* A forward edge climbs into a range of phases only from its boundary.
LEMMA RungOrdinals ==
  ASSUME ForwardRung
  PROVE  /\ ordinal(journal'.phase) >= 9 =>
              ordinal(journal.phase) >= 9 \/ (journal.phase = "UsrExchanged" /\ proc.at = "Synced")
         /\ ordinal(journal'.phase) >= 5 =>
              ordinal(journal.phase) >= 5
                \/ (journal.phase = "CandidatePrepared" /\ (runs_transaction_triggers(journal) => proc.at = "Synced"))
         /\ ordinal(journal'.phase) = 4 => ordinal(journal.phase) <= 3
         /\ ordinal(journal'.phase) <= 3 => ordinal(journal.phase) <= 3
BY Ordinals DEF ForwardRung

LEMMA OrdinalsAreNumbers ==
  ASSUME NEW r \in TransitionRecord, validate(r)
  PROVE  /\ forward_ordinal(r) \in 0..18
         /\ forward_ordinal(r) = 4 => layout_phase(r) = "CandidatePrepared"
         /\ r.phase = "CandidatePrepared" => forward_ordinal(r) = 4
         /\ layout_phase(r) = "CandidatePrepared" => forward_ordinal(r) = 4
         /\ r.phase = "UsrExchanged" => forward_ordinal(r) = 8
<1>1. layout_phase(r) \in ForwardPhase
  BY Zenon, ForwardRecords, Progresses
<1>2. \A p \in ForwardPhase : ordinal(p) \in 0..18 /\ (ordinal(p) = 4 => p = "CandidatePrepared")
  BY Ordinals DEF ForwardPhase
<1>3. forward_ordinal(r) = ordinal(layout_phase(r))
  BY Zenon DEF forward_ordinal
<1>4. r.phase \in ForwardPhase => layout_phase(r) = r.phase
  BY Zenon, ForwardRecords
<1>5. r.phase \in {"CandidatePrepared", "UsrExchanged"} => layout_phase(r) = r.phase
  BY Zenon, <1>4 DEF ForwardPhase
<1> QED BY ZenonT(60), <1>1, <1>2, <1>3, <1>5, Ordinals

LEMMA RootLinksStep ==
  ASSUME IInv, Reached, RootLinksFit, Next
  PROVE  RootLinksFit'
<1>0. TypeOK /\ Sound /\ Busy
  BY Zenon DEF IInv
<1>1. CASE Begin
  <2>1. journal'.phase = "Preparing" /\ journal'.rollback = None /\ forward_ordinal(journal') = 0
    BY Zenon, <1>0, <1>1, BeginEffects
  <2> QED BY <2>1 DEF RootLinksFit
<1>2. CASE RecordWrite
  <2>1. journal # None /\ fs' = fs /\ proc'.at = "Ready"
    BY Zenon, <1>0, <1>2, RecordEdges
  <2>2. SUFFICES ASSUME forward_ordinal(journal') >= 9 \/ (journal'.rollback # None /\ forward_ordinal(journal') >= 8)
                 PROVE  fs.root_abi /\ disk'.root_abi
    BY Zenon, <2>1 DEF RootLinksFit
  <2>3. CASE /\ journal'.rollback = None /\ ForwardRung /\ disk' = disk
             /\ forward_ordinal(journal) = ordinal(journal.phase)
             /\ forward_ordinal(journal') = ordinal(journal'.phase)
    <3>1. forward_ordinal(journal) >= 9 \/ (journal.phase = "UsrExchanged" /\ proc.at = "Synced")
      BY Zenon, <2>2, <2>3, RungOrdinals
    <3> QED BY Zenon, <2>1, <2>3, <3>1 DEF RootLinksFit
  <2>4. CASE /\ persist_usr_rollback_decision /\ DecisionSource
             /\ forward_ordinal(journal) = ordinal(journal.phase)
             /\ forward_ordinal(journal') = forward_ordinal(journal)
    <3>1. disk'.root_abi = IF DurabilityFirst THEN fs.root_abi ELSE disk.root_abi
      BY Zenon, <1>0, <2>4, DecisionDisk
    <3>2. CASE journal.phase = "UsrExchanged"
      BY Zenon, <2>4, <3>1, <3>2 DEF DecisionSource, DurabilityFirst
    <3>3. CASE journal.phase # "UsrExchanged"
      <4>1. journal.phase \in DecisionPhase /\ (ordinal(journal.phase) >= 9 \/ ordinal(journal.phase) >= 8)
        BY Zenon, <2>2, <2>4 DEF DecisionSource
      <4>2. ordinal(journal.phase) >= 9
        BY <3>3, <4>1, Ordinals DEF DecisionPhase
      <4>3. forward_ordinal(journal) >= 9
        BY Zenon, <2>4, <4>2
      <4>4. fs.root_abi /\ disk.root_abi
        BY Zenon, <2>1, <4>3 DEF RootLinksFit
      <4> QED BY Zenon, <3>1, <4>4
    <3> QED BY Zenon, <3>2, <3>3
  <2>5. CASE RollbackSource /\ disk' = disk /\ forward_ordinal(journal') = forward_ordinal(journal)
    BY Zenon, <2>1, <2>2, <2>5 DEF RollbackSource, RootLinksFit
  <2> QED BY Zenon, <1>0, <1>2, <2>3, <2>4, <2>5, RecordEdges
<1>3. CASE Finalize
  BY Zenon, <1>0, <1>3, FinalizeWrites DEF RootLinksFit
<1>4. CASE NamespaceWrite
  <2>1. journal' = journal /\ (proc'.at # "Ready" => proc'.at = "Effected")
    BY Zenon, <1>0, <1>4, NamespaceWrites DEF NamespaceKept, OnlyNamespace
  <2>2. RootLinked
    BY Zenon, <1>0, <1>4, NamespaceEffects
  <2> QED BY Zenon, <2>1, <2>2 DEF RootLinksFit, RootLinked
<1>5. CASE Sync
  <2>1. /\ journal # None /\ proc.at = "Effected" /\ UNCHANGED <<journal, fs>>
        /\ disk'.root_abi = IF journal.phase \in {"UsrExchanged", "UsrExchangeIntent", "ReverseExchangeIntent"}
                            THEN fs.root_abi ELSE disk.root_abi
    BY Zenon, <1>0, <1>5, SyncEffects
  <2> QED BY Zenon, <2>1 DEF RootLinksFit
<1>6. CASE Aside
  <2>1. /\ UNCHANGED <<journal, fs, disk>>
        /\ proc'.at # "Ready" => journal.phase \in {"BootSyncStarted", "FreshDbInvalidationIntent"}
    BY Zenon, <1>6, AsideKeeps
  <2> QED BY Zenon, <2>1 DEF RootLinksFit
<1>7. CASE PowerLoss
  <2>1. /\ journal' = journal /\ disk' = fs' /\ proc'.at = "Ready"
        /\ fs.root_abi /\ disk.root_abi => fs'.root_abi
    BY Zenon, <1>0, <1>7, PowerLossEffects
  <2> QED BY Zenon, <2>1 DEF RootLinksFit
<1> QED BY Zenon, <1>1, <1>2, <1>3, <1>4, <1>5, <1>6, <1>7, Steps

-----------------------------------------------------------------------------
(* The links of the isolation root *)

\* The same for the isolation root of the transaction triggers.
IsolationFits ==
  journal # None /\ runs_transaction_triggers(journal) =>
    /\ forward_ordinal(journal) >= 5 => fs.isolation_abi /\ disk.isolation_abi
    /\ journal.phase = "CandidatePrepared" =>
         /\ proc.at = "Effected" => fs.wrapper = "Residue" \/ fs.isolation_abi
         /\ proc.at = "Synced" => fs.isolation_abi /\ disk.isolation_abi

LEMMA IsolationStep ==
  ASSUME IInv, Reached, IsolationFits, Next
  PROVE  IsolationFits'
<1>0. TypeOK /\ Sound /\ Busy /\ (proc.at \in {"Ready", "Effected", "Synced"})
  BY Zenon DEF IInv, TypeOK, Progress
<1>1. CASE Begin
  <2>1. journal'.phase = "Preparing" /\ forward_ordinal(journal') = 0
    BY Zenon, <1>0, <1>1, BeginEffects
  <2> QED BY <2>1 DEF IsolationFits
<1>2. CASE RecordWrite
  <2>1. /\ journal # None /\ fs' = fs /\ proc'.at = "Ready"
        /\ journal'.operation = journal.operation /\ journal'.options = journal.options
    BY Zenon, <1>0, <1>2, RecordEdges
  <2>2. runs_transaction_triggers(journal') <=> runs_transaction_triggers(journal)
    BY Zenon, <2>1 DEF runs_transaction_triggers
  <2>3. SUFFICES ASSUME runs_transaction_triggers(journal), forward_ordinal(journal') >= 5
                 PROVE  fs.isolation_abi /\ disk'.isolation_abi
    BY Zenon, <2>1, <2>2 DEF IsolationFits
  <2>4. CASE /\ ForwardRung /\ disk' = disk
             /\ forward_ordinal(journal) = ordinal(journal.phase)
             /\ forward_ordinal(journal') = ordinal(journal'.phase)
    <3>1. forward_ordinal(journal) >= 5 \/ (journal.phase = "CandidatePrepared" /\ proc.at = "Synced")
      BY Zenon, <2>3, <2>4, RungOrdinals
    <3> QED BY Zenon, <2>1, <2>3, <2>4, <3>1 DEF IsolationFits
  <2>5. CASE persist_usr_rollback_decision /\ forward_ordinal(journal') = forward_ordinal(journal)
    <3>1. disk'.isolation_abi = disk.isolation_abi
      BY Zenon, <1>0, <2>5, DecisionDisk
    <3> QED BY Zenon, <2>1, <2>3, <2>5, <3>1 DEF IsolationFits
  <2>6. CASE RollbackSource /\ disk' = disk /\ forward_ordinal(journal') = forward_ordinal(journal)
    BY Zenon, <2>1, <2>3, <2>6 DEF IsolationFits
  <2> QED BY Zenon, <1>0, <1>2, <2>4, <2>5, <2>6, RecordEdges
<1>3. CASE Finalize
  BY Zenon, <1>0, <1>3, FinalizeWrites DEF IsolationFits
<1>4. CASE NamespaceWrite
  <2>1. journal' = journal /\ (proc'.at # "Ready" => proc'.at = "Effected")
    BY Zenon, <1>0, <1>4, NamespaceWrites DEF NamespaceKept, OnlyNamespace
  <2>2. IsolationLinked
    BY Zenon, <1>0, <1>4, NamespaceEffects
  <2> QED BY Zenon, <2>1, <2>2 DEF IsolationFits, IsolationLinked
<1>5. CASE Sync
  <2>1. /\ journal # None /\ proc.at = "Effected" /\ proc'.at = "Synced" /\ UNCHANGED <<journal, fs>>
        /\ journal.phase = "CandidatePrepared" => fs.wrapper # "Residue"
        /\ disk'.isolation_abi = IF journal.phase = "CandidatePrepared" THEN fs.isolation_abi ELSE disk.isolation_abi
    BY Zenon, <1>0, <1>5, SyncEffects
  <2>2. CASE journal.phase = "CandidatePrepared"
    BY Zenon, <2>1, <2>2 DEF IsolationFits
  <2>3. CASE journal.phase # "CandidatePrepared"
    BY Zenon, <2>1, <2>3 DEF IsolationFits
  <2> QED BY Zenon, <2>2, <2>3
<1>6. CASE Aside
  <2>1. /\ UNCHANGED <<journal, fs, disk>>
        /\ proc'.at # "Ready" => journal.phase \in {"BootSyncStarted", "FreshDbInvalidationIntent"}
    BY Zenon, <1>6, AsideKeeps
  <2> QED BY Zenon, <2>1 DEF IsolationFits
<1>7. CASE PowerLoss
  <2>1. /\ journal' = journal /\ disk' = fs' /\ proc'.at = "Ready"
        /\ fs.isolation_abi /\ disk.isolation_abi => fs'.isolation_abi
    BY Zenon, <1>0, <1>7, PowerLossEffects
  <2> QED BY Zenon, <2>1 DEF IsolationFits
<1> QED BY Zenon, <1>1, <1>2, <1>3, <1>4, <1>5, <1>6, <1>7, Steps

-----------------------------------------------------------------------------
(* The replacement wrapper *)

\* The wrapper of a reblit is reserved while the candidate is prepared, and is
\* there, and durable, from then on.
WrapperFits ==
  journal # None /\ journal.operation = "ActiveReblit" =>
    /\ forward_ordinal(journal) <= 3 => fs.wrapper = "Absent" /\ disk.wrapper = "Absent"
    /\ forward_ordinal(journal) = 4 => fs.wrapper \in {"Residue", disk.wrapper}
    /\ forward_ordinal(journal) >= 5 => fs.wrapper = "Empty" /\ disk.wrapper = "Empty"
    /\ journal.phase = "CandidatePrepared" =>
         /\ proc.at = "Effected" => fs.wrapper \in {"Residue", "Empty"}
         /\ proc.at = "Synced" => fs.wrapper = "Empty"

LEMMA WrapperStep ==
  ASSUME IInv, Reached, WrapperFits, Next
  PROVE  WrapperFits'
<1>0. TypeOK /\ Sound /\ Busy
  BY Zenon DEF IInv
<1>1. CASE Begin
  <2>1. /\ journal'.phase = "Preparing" /\ forward_ordinal(journal') = 0
        /\ disk' = fs' /\ fs'.wrapper = "Absent"
    BY Zenon, <1>0, <1>1, BeginEffects
  <2> QED BY <2>1 DEF WrapperFits
<1>2. CASE RecordWrite
  <2>1. /\ journal # None /\ fs' = fs /\ proc'.at = "Ready"
        /\ journal'.operation = journal.operation /\ journal'.options = journal.options
        /\ journal \in TransitionRecord /\ validate(journal)
        /\ journal' \in TransitionRecord /\ validate(journal')
    BY Zenon, <1>0, <1>2, RecordEdges
  <2>2. SUFFICES ASSUME journal.operation = "ActiveReblit"
                 PROVE  /\ forward_ordinal(journal') <= 3 => fs.wrapper = "Absent" /\ disk'.wrapper = "Absent"
                        /\ forward_ordinal(journal') = 4 => fs.wrapper \in {"Residue", disk'.wrapper}
                        /\ forward_ordinal(journal') >= 5 => fs.wrapper = "Empty" /\ disk'.wrapper = "Empty"
    BY Zenon, <2>1 DEF WrapperFits
  <2>3. disk'.wrapper = disk.wrapper
    BY Zenon, <1>0, <1>2, DecisionDisk, RecordWrites
  <2>4. CASE /\ ForwardRung
             /\ forward_ordinal(journal) = ordinal(journal.phase)
             /\ forward_ordinal(journal') = ordinal(journal'.phase)
    <3>1. runs_transaction_triggers(journal)
      BY Zenon, <2>2 DEF runs_transaction_triggers
    <3>2. /\ forward_ordinal(journal') >= 5 =>
               forward_ordinal(journal) >= 5 \/ (journal.phase = "CandidatePrepared" /\ proc.at = "Synced")
          /\ forward_ordinal(journal') <= 4 => forward_ordinal(journal) <= 3
      <4>1. forward_ordinal(journal') \in 0..18
        BY Zenon, <2>1, OrdinalsAreNumbers
      <4> QED BY <2>4, <3>1, <4>1, RungOrdinals
    <3>3. journal.phase = "CandidatePrepared" => forward_ordinal(journal) = 4
      BY Zenon, <2>1, OrdinalsAreNumbers
    <3>4. forward_ordinal(journal') \in 0..18
      BY Zenon, <2>1, OrdinalsAreNumbers
    <3> QED BY <2>1, <2>2, <2>3, <3>2, <3>3, <3>4 DEF WrapperFits
  <2>5. CASE forward_ordinal(journal') = forward_ordinal(journal)
    BY Zenon, <2>1, <2>2, <2>3, <2>5 DEF WrapperFits
  <2> QED BY Zenon, <1>0, <1>2, <2>4, <2>5, RecordEdges
<1>3. CASE Finalize
  BY Zenon, <1>0, <1>3, FinalizeWrites DEF WrapperFits
<1>4. CASE NamespaceWrite
  <2>1. journal' = journal /\ (proc'.at # "Ready" => proc'.at = "Effected")
    BY Zenon, <1>0, <1>4, NamespaceWrites DEF NamespaceKept, OnlyNamespace
  <2>2. SUFFICES ASSUME journal # None, journal.operation = "ActiveReblit"
                 PROVE  WrapperFits'
    BY Zenon, <2>1 DEF WrapperFits
  <2>3. /\ journal.phase = "CandidatePrepared" => forward_ordinal(journal) = 4
        /\ layout_phase(journal) = "CandidatePrepared" => forward_ordinal(journal) = 4
    BY Zenon, <1>0, <2>2, OrdinalsAreNumbers DEF TypeOK, Sound
  <2>4. WrapperReserved
    BY Zenon, <1>0, <1>4, NamespaceEffects
  <2>5. CASE /\ fs'.wrapper = fs.wrapper /\ disk'.wrapper = disk.wrapper
             /\ journal.phase = "CandidatePrepared" /\ proc'.at # "Ready" => fs.wrapper = "Empty"
    BY Zenon, <2>1, <2>2, <2>5 DEF WrapperFits
  <2>6. CASE journal.phase = "CandidatePrepared" /\ fs'.wrapper = "Residue" /\ disk'.wrapper = disk.wrapper
    BY <2>1, <2>2, <2>3, <2>6 DEF WrapperFits
  <2>7. CASE /\ layout_phase(journal) = "CandidatePrepared" /\ proc'.at = "Ready"
             /\ fs'.wrapper = "Empty" /\ disk'.wrapper = "Empty"
    BY <2>1, <2>2, <2>3, <2>7 DEF WrapperFits
  <2> QED BY Zenon, <2>2, <2>4, <2>5, <2>6, <2>7 DEF WrapperReserved
<1>5. CASE Sync
  <2>1. /\ journal # None /\ proc.at = "Effected" /\ proc'.at = "Synced" /\ UNCHANGED <<journal, fs>>
        /\ journal.phase = "CandidatePrepared" => fs.wrapper # "Residue"
        /\ disk'.wrapper = disk.wrapper
    BY Zenon, <1>0, <1>5, SyncEffects
  <2> QED BY Zenon, <2>1 DEF WrapperFits
<1>6. CASE Aside
  <2>1. /\ UNCHANGED <<journal, fs, disk>>
        /\ proc'.at # "Ready" => journal.phase \in {"BootSyncStarted", "FreshDbInvalidationIntent"}
    BY Zenon, <1>6, AsideKeeps
  <2> QED BY Zenon, <2>1 DEF WrapperFits
<1>7. CASE PowerLoss
  <2>1. /\ journal' = journal /\ disk' = fs' /\ proc'.at = "Ready"
        /\ fs'.wrapper \in {fs.wrapper, disk.wrapper}
    BY Zenon, <1>0, <1>7, PowerLossEffects
  <2> QED BY Zenon, <2>1 DEF WrapperFits
<1> QED BY Zenon, <1>1, <1>2, <1>3, <1>4, <1>5, <1>6, <1>7, Steps

-----------------------------------------------------------------------------
(* The quarantine directory *)

\* A candidate is in quarantine only when its directory is finished and durable,
\* and an unfinished directory is met only while the candidate is preserved.
TargetFits ==
  journal # None =>
    \A n \in {fs, disk} :
      /\ n.trees.candidate = "TransitionQuarantine" =>
           journal.operation = "NewState" /\ fs.target = "Empty" /\ disk.target = "Empty"
      /\ n.target = "Residue" => journal.operation = "NewState" /\ journal.phase = "CandidatePreserveIntent"

\* Where the candidate is once a phase has moved it.
LEMMA AimsCandidate ==
  ASSUME NEW r, Moves(r), r.operation \in Operation
  PROVE  /\ r.phase # "CandidatePreserveIntent" => Aim(r).candidate # "TransitionQuarantine"
         /\ r.phase = "CandidatePreserveIntent" =>
              (Aim(r).candidate = "TransitionQuarantine" <=> r.operation = "NewState")
<1>1. CASE r.phase = "CandidatePreserveIntent"
  <2>1. Aim(r).candidate = CandidatePlace(r.operation)
    BY <1>1, Aims
  <2> QED BY Zenon, <1>1, <2>1 DEF CandidatePlace, Operation
<1>2. CASE r.phase # "CandidatePreserveIntent"
  <2>1. Aim(r) \in {POST_EXCHANGE, PREVIOUS_ARCHIVED, PRE_EXCHANGE, CompletedCommit(r)}
    BY Zenon, <1>2, Aims DEF Moves
  <2> QED BY <1>2, <2>1 DEF POST_EXCHANGE, PREVIOUS_ARCHIVED, PRE_EXCHANGE, CompletedCommit
<1> QED BY Zenon, <1>1, <1>2

\* No record is written while an unfinished directory is there.
LEMMA NoResidueRecorded ==
  ASSUME IInv, Reached, TreesFit, TargetFits, RecordWrite
  PROVE  fs.target # "Residue" /\ disk.target # "Residue"
<1>0. /\ TypeOK /\ Sound /\ Busy
      /\ journal # None /\ journal.operation \in Operation
  <2>1. TypeOK /\ Sound /\ Busy
    BY Zenon DEF IInv
  <2> QED BY Zenon, <2>1, RecordEdges
<1>1. SUFFICES ASSUME journal.phase = "CandidatePreserveIntent", journal.operation = "NewState"
               PROVE  fs.target = "Empty" /\ disk.target = "Empty"
  BY Zenon, <1>0 DEF TargetFits
<1>2. Moves(journal) /\ proc.at = "Synced"
  <2>1. ~ForwardRung /\ ~DecisionSource
    BY Zenon, <1>1 DEF ForwardRung, DecisionSource, DecisionPhase
  <2>2. Ladder
    BY Zenon, <1>0, <2>1, RecordEdges DEF RollbackSource
  <2> QED BY Zenon, <1>1, <2>2 DEF Ladder, Moves
<1>3. fs.trees = Aim(journal)
  BY Zenon, <1>0, <1>2 DEF TreesFit
<1>4. fs.trees.candidate = "TransitionQuarantine"
  BY Zenon, <1>0, <1>1, <1>2, <1>3, AimsCandidate
<1> QED BY Zenon, <1>0, <1>4 DEF TargetFits

LEMMA TargetStep ==
  ASSUME IInv, Reached, TreesFit, TargetFits, Next
  PROVE  TargetFits'
<1>0. TypeOK /\ Sound /\ Busy
  BY Zenon DEF IInv
<1>1. CASE Begin
  <2>1. disk' = fs' /\ fs'.trees = PRE_EXCHANGE /\ fs'.target = "Absent"
    BY Zenon, <1>0, <1>1, BeginEffects
  <2> QED BY <2>1 DEF TargetFits, PRE_EXCHANGE
<1>2. CASE RecordWrite
  <2>1. journal # None /\ fs' = fs /\ journal'.operation = journal.operation
    BY Zenon, <1>0, <1>2, RecordEdges
  <2>2. disk'.target = disk.target /\ disk'.trees \in {fs.trees, disk.trees}
    BY Zenon, <1>0, <1>2, DecisionDisk, RecordWrites
  <2>3. fs.target # "Residue" /\ disk.target # "Residue"
    BY Zenon, <1>2, NoResidueRecorded
  <2> QED BY Zenon, <2>1, <2>2, <2>3 DEF TargetFits
<1>3. CASE Finalize
  BY Zenon, <1>0, <1>3, FinalizeWrites DEF TargetFits
<1>4. CASE NamespaceWrite
  <2>1. journal' = journal
    BY Zenon, <1>0, <1>4, NamespaceWrites DEF NamespaceKept, OnlyNamespace
  <2>2. SUFFICES ASSUME journal # None
                 PROVE  TargetFits'
    BY Zenon, <2>1 DEF TargetFits
  <2>3. journal.operation \in Operation
    BY Zenon, <1>0, <2>2 DEF TypeOK, TransitionRecord
  <2>4. /\ disk'.trees = disk.trees
        /\ fs'.trees = fs.trees \/ (Moves(journal) /\ fs'.trees = Aim(journal))
    BY Zenon, <1>0, <1>4, NamespaceEffects DEF TreesMoved
  <2>5. TargetMade
    BY Zenon, <1>0, <1>4, NamespaceEffects
  <2>6. /\ fs.trees.candidate = "TransitionQuarantine" \/ disk.trees.candidate = "TransitionQuarantine" =>
             journal.operation = "NewState" /\ fs.target = "Empty" /\ disk.target = "Empty"
        /\ fs.target = "Residue" \/ disk.target = "Residue" =>
             journal.operation = "NewState" /\ journal.phase = "CandidatePreserveIntent"
    BY Zenon, <2>2 DEF TargetFits
  <2>7. SUFFICES
          /\ fs'.trees.candidate = "TransitionQuarantine" \/ disk.trees.candidate = "TransitionQuarantine" =>
               journal.operation = "NewState" /\ fs'.target = "Empty" /\ disk'.target = "Empty"
          /\ fs'.target = "Residue" \/ disk'.target = "Residue" =>
               journal.operation = "NewState" /\ journal.phase = "CandidatePreserveIntent"
    BY Zenon, <2>1, <2>4 DEF TargetFits
  <2>8. CASE /\ fs'.target = fs.target /\ disk'.target = disk.target
             /\ journal.phase # "CandidatePreserveIntent" \/ fs'.trees = fs.trees
    <3>1. fs'.trees = fs.trees \/ fs'.trees.candidate # "TransitionQuarantine"
      BY Zenon, <2>3, <2>4, <2>8, AimsCandidate
    <3> QED BY Zenon, <2>6, <2>8, <3>1
  <2>9. CASE /\ journal.phase = "CandidatePreserveIntent" /\ journal.operation = "NewState"
             /\ fs'.trees = fs.trees /\ fs.trees = PRE_EXCHANGE /\ fs.target # "Empty"
    <3>1. fs'.trees.candidate # "TransitionQuarantine" /\ disk.trees.candidate # "TransitionQuarantine"
      BY Zenon, <2>6, <2>9 DEF PRE_EXCHANGE
    <3> QED BY Zenon, <2>9, <3>1
  <2>10. CASE /\ journal.phase = "CandidatePreserveIntent"
              /\ fs'.target = fs.target /\ disk'.target = fs.target
              /\ journal.operation = "NewState" => fs.trees # PRE_EXCHANGE \/ fs.target = "Empty"
    <3>1. journal.operation = "NewState" => fs.target = "Empty"
      <4>1. SUFFICES ASSUME journal.operation = "NewState", fs.trees # PRE_EXCHANGE
                     PROVE  fs.trees.candidate = "TransitionQuarantine"
        BY Zenon, <2>6, <2>10
      <4>2. journal.rollback # None
        BY Zenon, <1>0, <2>2, <2>10, ForwardRecords DEF TypeOK, Sound, ForwardPhase
      <4>3. fs.trees \in {PRE_EXCHANGE} \cup Preserved(journal)
        BY Zenon, <2>2, <2>10, <4>2, RollbackLayouts DEF TreesFit, expected_layouts
      <4>4. candidate_destination(journal) = {"TransitionQuarantine"}
        BY Zenon, <4>1 DEF candidate_destination
      <4> QED BY Zenon, <4>1, <4>3, <4>4 DEF Preserved
    <3>2. CASE journal.operation = "NewState"
      BY Zenon, <2>10, <3>1, <3>2
    <3>3. CASE journal.operation # "NewState"
      <4>1. fs'.trees.candidate # "TransitionQuarantine" /\ disk.trees.candidate # "TransitionQuarantine"
        BY Zenon, <2>3, <2>4, <2>6, <2>10, <3>3, AimsCandidate
      <4>2. fs.target # "Residue"
        BY Zenon, <2>6, <3>3
      <4> QED BY Zenon, <2>10, <4>1, <4>2
    <3> QED BY Zenon, <3>2, <3>3
  <2> QED BY Zenon, <2>5, <2>8, <2>9, <2>10 DEF TargetMade
<1>5. CASE Sync
  <2>1. /\ journal # None /\ UNCHANGED <<journal, fs>>
        /\ disk'.trees \in {fs.trees, disk.trees}
        /\ disk'.target = disk.target
    BY Zenon, <1>0, <1>5, SyncEffects
  <2> QED BY Zenon, <2>1 DEF TargetFits
<1>6. CASE Aside
  <2>1. UNCHANGED <<journal, fs, disk>>
    BY Zenon, <1>6, AsideKeeps
  <2> QED BY Zenon, <2>1 DEF TargetFits
<1>7. CASE PowerLoss
  <2>1. /\ journal' = journal /\ disk' = fs'
        /\ fs'.trees \in {fs.trees, disk.trees} /\ fs'.target \in {fs.target, disk.target}
    BY Zenon, <1>0, <1>7, PowerLossEffects
  <2> QED BY Zenon, <2>1 DEF TargetFits
<1> QED BY Zenon, <1>1, <1>2, <1>3, <1>4, <1>5, <1>6, <1>7, Steps

-----------------------------------------------------------------------------
(* The theorems *)

Fits == Reached /\ TreesFit /\ RootLinksFit /\ IsolationFits /\ WrapperFits /\ TargetFits

\* The phases before the exchange leave the trees where they were.
LEMMA TreesBeforeExchange ==
  ASSUME TypeOK, Sound, Reached, TreesFit, journal # None, fs.trees # PRE_EXCHANGE
  PROVE  forward_ordinal(journal) >= 7
<1>1. journal \in TransitionRecord /\ validate(journal)
  BY Zenon DEF TypeOK, Sound
<1>2. CASE journal.rollback # None
  BY Zenon, <1>2 DEF Reached
<1>3. CASE journal.rollback = None
  <2>1. fs.trees \in forward_layouts(journal)
    BY Zenon, <1>3 DEF TreesFit, expected_layouts
  <2>2. journal.phase \notin {"Preparing", "FreshStateAllocating", "FreshStateAllocated", "CandidatePrepareStarted",
                              "CandidatePrepared", "TransactionTriggersStarted", "TransactionTriggersComplete"}
    BY Zenon, <2>1, ForwardLayouts
  <2>3. journal.phase \in ForwardPhase /\ forward_ordinal(journal) = ordinal(journal.phase)
    BY Zenon, <1>1, <1>3, ForwardRecords, Progresses
  <2>4. ordinal(journal.phase) >= 7
    BY <2>2, <2>3, Ordinals DEF ForwardPhase
  <2> QED BY Zenon, <2>3, <2>4
<1> QED BY Zenon, <1>2, <1>3

\* Which links the record calls for.
LEMMA LinksFit ==
  ASSUME IInv, Fits, journal # None
  PROVE  /\ root_abi_must_be_complete(journal) => fs.root_abi /\ disk.root_abi
         /\ isolation_abi_must_be_complete(journal) => fs.isolation_abi /\ disk.isolation_abi
<1>1. journal \in TransitionRecord /\ validate(journal) /\ journal.operation \in Operation
  BY Zenon DEF Fits, IInv, TypeOK, Sound, TransitionRecord
<1>2. forward_ordinal(journal) \in 0..18
  BY Zenon, <1>1, OrdinalsAreNumbers
<1>3. root_abi_must_be_complete(journal) => fs.root_abi /\ disk.root_abi
  BY Zenon DEF Fits, RootLinksFit, root_abi_must_be_complete
<1>4. forward_ordinal(journal) >= 10 => runs_transaction_triggers(journal)
  BY <1>1, <1>2 DEF Fits, Reached, runs_transaction_triggers, Operation
<1>5. isolation_abi_must_be_complete(journal) => runs_transaction_triggers(journal) /\ forward_ordinal(journal) >= 5
  BY <1>2, <1>4 DEF isolation_abi_must_be_complete
<1> QED BY Zenon, <1>3, <1>5 DEF Fits, IsolationFits

\* The row is the one that the record expects.
LEMMA DatabaseFits ==
  ASSUME IInv, Reached, journal # None
  PROVE  database_is_compatible(journal, row)
<1>0. /\ journal \in TransitionRecord /\ validate(journal) /\ journal.operation \in Operation
      /\ RowIsOwned /\ RowIsFresh
  BY Zenon DEF IInv, TypeOK, Sound, TransitionRecord
<1>1. CASE journal.operation # "NewState"
  <2>1. row = None
    BY Zenon, <1>0, <1>1 DEF RowIsFresh
  <2>2. inspect_database(journal, row) = "ExistingCandidate"
    BY Zenon, <1>1, <2>1 DEF inspect_database
  <2>3. database_ownership_evidence_compatible(journal, row)
    BY Zenon, <2>2 DEF database_ownership_evidence_compatible
  <2> QED BY Zenon, <2>1, <2>3 DEF database_is_compatible, metadata_provenance_evidence_compatible
<1>2. CASE journal.operation = "NewState"
  <2>1. journal.candidate_id = None <=> journal.phase \in {"Preparing", "FreshStateAllocating"}
    <3>1. CASE journal.rollback = None
      <4>1. layout_phase(journal) = journal.phase
        BY Zenon, <1>0, <3>1, ForwardRecords
      <4> QED BY Zenon, <1>0, <1>2, <3>1, <4>1 DEF validate, validate_candidate_layout
    <3>2. CASE journal.rollback # None
      <4>1. layout_phase(journal) = journal.rollback.source /\ journal.phase \notin ForwardPhase
        BY Zenon, <1>0, <3>2, ForwardRecords
      <4>2. forward_ordinal(journal) >= 7
        BY Zenon, <3>2 DEF Reached
      <4>3. layout_phase(journal) \notin {"Preparing", "FreshStateAllocating"}
        BY <4>2, Ordinals DEF forward_ordinal
      <4>4. journal.candidate_id # None
        BY Zenon, <1>0, <1>2, <4>3 DEF validate, validate_candidate_layout
      <4> QED BY Zenon, <4>1, <4>4 DEF ForwardPhase
    <3> QED BY Zenon, <3>1, <3>2
  <2>2. CASE row = None
    <3>1. CASE journal.candidate_id = None
      <4>1. inspect_database(journal, row) = "AllocationNotObserved"
        BY Zenon, <1>2, <2>2, <3>1 DEF inspect_database
      <4>2. database_ownership_evidence_compatible(journal, row)
        BY Zenon, <2>1, <3>1, <4>1 DEF database_ownership_evidence_compatible
      <4> QED BY Zenon, <2>2, <4>2 DEF database_is_compatible, metadata_provenance_evidence_compatible
    <3>2. CASE journal.candidate_id # None
      <4>1. inspect_database(journal, row) = "Missing"
        BY Zenon, <1>2, <2>2, <3>2 DEF inspect_database
      <4>2. \/ journal.phase = "FreshDbInvalidationIntent"
            \/ journal.rollback # None /\ resolved(journal.rollback.fresh_db)
        BY Zenon, <1>0, <1>2, <2>1, <2>2, <3>2 DEF RowIsFresh
      <4>3. CASE journal.rollback # None /\ resolved(journal.rollback.fresh_db)
        <5>1. fresh_database_expectation(journal) = {"Missing"}
          BY Zenon, <4>3 DEF fresh_database_expectation, resolved
        <5> QED BY Zenon, <2>2, <4>1, <5>1 DEF database_is_compatible, metadata_provenance_evidence_compatible,
                 database_ownership_evidence_compatible
      <4>4. CASE journal.phase = "FreshDbInvalidationIntent"
        <5>1. journal.rollback # None
          BY Zenon, <1>0, <4>4, ForwardRecords DEF ForwardPhase
        <5>2. journal.rollback.fresh_db = "Pending"
          BY <1>0, <4>4, <5>1 DEF validate, validate_rollback_phase, rollback_actions, IntentPhase, DonePhase
        <5>3. "Missing" \in fresh_database_expectation(journal)
          BY Zenon, <4>4, <5>1, <5>2 DEF fresh_database_expectation, resolved
        <5> QED BY Zenon, <2>2, <4>1, <5>3 DEF database_is_compatible, metadata_provenance_evidence_compatible,
                 database_ownership_evidence_compatible
      <4> QED BY Zenon, <4>2, <4>3, <4>4
    <3> QED BY Zenon, <3>1, <3>2
  <2>3. CASE row # None
    <3>1. /\ row.transition_id = journal.transition_id
          /\ journal.phase # "Preparing"
          /\ journal.candidate_id # None => row.id = journal.candidate_id
          /\ row.provenance \in ForwardProvenance(layout_phase(journal))
          /\ journal.rollback # None => ~resolved(journal.rollback.fresh_db)
      BY Zenon, <1>0, <2>3 DEF RowIsOwned, RowIsFresh
    <3>2. CASE journal.candidate_id = None
      <4>1. inspect_database(journal, row) = "AllocationCommittedBehindJournal"
        BY Zenon, <1>2, <2>3, <3>1, <3>2 DEF inspect_database
      <4>2. journal.phase = "FreshStateAllocating"
        BY Zenon, <2>1, <3>1, <3>2
      <4>3. database_ownership_evidence_compatible(journal, row)
        BY Zenon, <4>1, <4>2 DEF database_ownership_evidence_compatible
      <4>4. layout_phase(journal) = "FreshStateAllocating" /\ "FreshStateAllocating" \in ForwardPhase
        BY Zenon, <1>0, <4>2 DEF layout_phase, ForwardPhase
      <4>5. ~row.provenance
        BY Zenon, <3>1, <4>4, Provenances
      <4> QED BY Zenon, <4>1, <4>3, <4>5 DEF database_is_compatible, metadata_provenance_evidence_compatible
    <3>3. CASE journal.candidate_id # None
      <4>1. inspect_database(journal, row) = "Matching"
        BY Zenon, <1>2, <2>3, <3>1, <3>3 DEF inspect_database
      <4>2. "Matching" \in fresh_database_expectation(journal)
        <5>1. CASE journal.rollback = None
          <6>1. journal.phase \notin {"CommitDecided", "CommitCleanupComplete", "Complete"}
            BY <1>0, <1>2, <5>1, Progresses, Ordinals DEF Reached
          <6> QED BY Zenon, <5>1, <6>1 DEF fresh_database_expectation
        <5>2. CASE journal.rollback # None
          <6>1. journal.rollback.fresh_db \in {"Pending", "NotRequired"}
            BY Zenon, <1>0, <3>1, <5>2 DEF TransitionRecord, RollbackPlan, RollbackAction, resolved
          <6> QED BY Zenon, <5>2, <6>1 DEF fresh_database_expectation, resolved
        <5> QED BY Zenon, <5>1, <5>2
      <4>3. database_ownership_evidence_compatible(journal, row)
        BY Zenon, <4>1, <4>2 DEF database_ownership_evidence_compatible
      <4>4. row.provenance \in fresh_provenance_expectation(journal)
        BY Zenon, <3>1 DEF fresh_provenance_expectation
      <4> QED BY Zenon, <4>1, <4>3, <4>4 DEF database_is_compatible, metadata_provenance_evidence_compatible
    <3> QED BY Zenon, <3>2, <3>3
  <2> QED BY Zenon, <2>2, <2>3
<1> QED BY Zenon, <1>1, <1>2

\* The reservation of a reblit is the one that the record expects.
LEMMA ReservationFits ==
  ASSUME IInv, Fits, journal # None, journal.operation = "ActiveReblit", fs.wrapper # "Residue", ~leftover
  PROVE  ReplacementWrapperFits(journal, Evidence)
<1>0. /\ journal \in TransitionRecord /\ validate(journal) /\ TypeOK /\ Sound
      /\ Reached /\ TreesFit /\ WrapperFits /\ TargetFits
  BY Zenon DEF Fits, IInv, TypeOK, Sound
<1>1. Evidence.fs = fs /\ Evidence.leftover = leftover
  BY Zenon DEF Evidence
<1>2. forward_ordinal(journal) \in 0..18
  BY Zenon, <1>0, OrdinalsAreNumbers
<1>3. WrapperCount(Evidence) = IF fs.wrapper = "Absent" THEN 0 ELSE 1
  BY <1>1 DEF WrapperCount
<1>4. /\ forward_ordinal(journal) <= 3 => active_reblit_reservation(journal) = "Absent"
      /\ forward_ordinal(journal) = 4 => active_reblit_reservation(journal) = "Optional"
      /\ forward_ordinal(journal) >= 5 => active_reblit_reservation(journal) = "Required"
  BY <1>2 DEF active_reblit_reservation
<1>5. /\ forward_ordinal(journal) <= 3 => WrapperCount(Evidence) = 0
      /\ forward_ordinal(journal) >= 5 => WrapperCount(Evidence) = 1
  BY Zenon, <1>0, <1>3 DEF WrapperFits
<1>6. WrapperCount(Evidence) \in {0, 1}
  BY Zenon, <1>3
<1>7. fs.trees.candidate # "TransitionQuarantine"
  BY Zenon, <1>0 DEF TargetFits
<1>8. CASE "ActiveReblitWrapper" \in {fs.trees.candidate, fs.trees.previous}
  <2>1. fs.trees # PRE_EXCHANGE
    BY <1>8 DEF PRE_EXCHANGE
  <2>2. forward_ordinal(journal) >= 7
    BY Zenon, <1>0, <2>1, TreesBeforeExchange
  <2>3. active_reblit_reservation(journal) = "Required" /\ WrapperCount(Evidence) = 1
    BY <1>2, <1>4, <1>5, <2>2
  <2> QED BY Zenon, <1>1, <1>8, <2>3 DEF ReplacementWrapperFits
<1>9. CASE "ActiveReblitWrapper" \notin {fs.trees.candidate, fs.trees.previous}
  <2>1. CASE forward_ordinal(journal) <= 3
    BY Zenon, <1>1, <1>4, <1>5, <1>7, <1>9, <2>1 DEF ReplacementWrapperFits
  <2>2. CASE forward_ordinal(journal) = 4
    BY Zenon, <1>1, <1>4, <1>6, <1>7, <1>9, <2>2 DEF ReplacementWrapperFits
  <2>3. CASE forward_ordinal(journal) >= 5
    BY Zenon, <1>1, <1>4, <1>5, <1>7, <1>9, <2>3 DEF ReplacementWrapperFits
  <2> QED BY <1>2, <2>1, <2>2, <2>3
<1> QED BY Zenon, <1>8, <1>9

\* The invariants of the namespace, on top of the inductive invariant of
\* ActivationProof.
LEMMA NamespaceInductive == Spec => []Fits
<1>1. Init => Fits
  <2>1. Init => journal = None
    BY Zenon DEF Init
  <2> QED BY Zenon, <2>1 DEF Fits, Reached, TreesFit, RootLinksFit, IsolationFits, WrapperFits, TargetFits
<1>2. IInv /\ Fits /\ [Next]_vars => Fits'
  <2>1. ASSUME IInv, Fits, Next PROVE Fits'
    BY Zenon, <2>1, ReachedStep, TreesStep, RootLinksStep, IsolationStep, WrapperStep, TargetStep DEF Fits
  <2>2. ASSUME Fits, UNCHANGED vars PROVE Fits'
    <3>1. UNCHANGED <<journal, fs, disk, proc>>
      BY Zenon, <2>2 DEF vars
    <3>2. Reached' /\ TreesFit' /\ RootLinksFit'
      BY Zenon, <2>2, <3>1 DEF Fits, Reached, TreesFit, RootLinksFit
    <3>3. IsolationFits' /\ WrapperFits' /\ TargetFits'
      BY Zenon, <2>2, <3>1 DEF Fits, IsolationFits, WrapperFits, TargetFits
    <3> QED BY Zenon, <3>2, <3>3 DEF Fits
  <2> QED BY Zenon, <2>1, <2>2
<1> QED BY <1>1, <1>2, Inductive, PTL DEF Spec

\* A record never claims a tree position or a set of links that a power failure
\* could take back: the coordinator and the recovery authorities advance the
\* journal only after the sync of what the next phase rests on.
THEOREM Recorded == Spec => []RecordedIsDurable
<1>1. IInv /\ Fits => RecordedIsDurable
  BY Zenon, LinksFit DEF Fits, TreesFit, RecordedIsDurable
<1> QED BY <1>1, Inductive, NamespaceInductive, PTL

\* Wherever the process or the machine fails, the namespace and the database
\* are what the record's phase calls for, so startup reconciliation admits them,
\* or the wrapper of an interrupted reservation is there to be recovered.
THEOREM Admitted == Spec => []EvidenceAdmits
<1>1. ASSUME IInv, Fits PROVE EvidenceAdmits
  <2>1. SUFFICES ASSUME journal # None, ~leftover
                 PROVE  EvidenceFits(journal, Evidence) \/ ResidueRecoverable(journal, Evidence)
    BY Zenon DEF EvidenceAdmits
  <2>2. Evidence.fs = fs /\ Evidence.row = row /\ Evidence.leftover = leftover
    BY Zenon DEF Evidence
  <2>3. journal \in TransitionRecord /\ validate(journal)
    BY Zenon, <1>1, <2>1 DEF IInv, TypeOK, Sound
  <2>4. CASE journal.operation = "ActiveReblit" /\ fs.wrapper = "Residue"
    <3>1. forward_ordinal(journal) \in 0..18
      BY Zenon, <2>3, OrdinalsAreNumbers
    <3>2. forward_ordinal(journal) = 4
      BY <1>1, <2>1, <2>4, <3>1 DEF Fits, WrapperFits
    <3>3. layout_phase(journal) = "CandidatePrepared"
      BY Zenon, <2>3, <3>2, OrdinalsAreNumbers
    <3> QED BY Zenon, <2>1, <2>2, <2>4, <3>3 DEF ResidueRecoverable
  <2>5. CASE journal.operation # "ActiveReblit" \/ fs.wrapper # "Residue"
    <3>1. database_is_compatible(journal, Evidence.row)
      BY Zenon, <1>1, <2>1, <2>2, DatabaseFits DEF Fits
    <3>2. journal.operation = "ActiveReblit" => ReplacementWrapperFits(journal, Evidence)
      BY Zenon, <1>1, <2>1, <2>5, ReservationFits
    <3>3. require_fixed_wrapper_layout(journal, Evidence)
      BY Zenon, <1>1, <2>1, <2>2, <3>2 DEF Fits, TargetFits, require_fixed_wrapper_layout
    <3>4. assess_snapshot_layout(journal, Evidence)
      BY Zenon, <1>1, <2>1, <2>2, <3>3, LinksFit DEF Fits, TreesFit, assess_snapshot_layout
    <3> QED BY Zenon, <3>1, <3>4 DEF EvidenceFits
  <2> QED BY Zenon, <2>4, <2>5
<1> QED BY <1>1, Inductive, NamespaceInductive, PTL
=============================================================================
