--------------------------- MODULE TransitionRecord ---------------------------
(***************************************************************************)
(* The record contract of the transition journal of crates/forge: which    *)
(* records are well formed, which record may follow which, and the typed   *)
(* constructors through which every caller obtains a successor.            *)
(*                                                                         *)
(* A constructor of the code returns a record or an error.  Here it is the *)
(* set of the records it can return: a singleton, or {} for the error.     *)
(*                                                                         *)
(* Left out of the record: the format string, the creation epoch, the tree *)
(* tokens, the runtime identities and the quarantine name.  They are       *)
(* written once and compared for equality only; candidate.origin is a      *)
(* function of the operation.  candidate{action, disposition} is flattened *)
(* into the plan, and boot_publication_receipts is called receipts.        *)
(***************************************************************************)
EXTENDS Naturals

CONSTANTS StateId,        \* database ids of states: positive i32
          TransitionId,   \* transition ids
          ReceiptPair,    \* pairs of boot-publication receipt fingerprints
          MaxGeneration,  \* u64::MAX, where checked_add(1) fails
          None            \* Option::None

ASSUME StateIdAssumption == StateId \subseteq Nat \ {0}
ASSUME GenerationAssumption == MaxGeneration \in Nat \ {0}

Operation == {"NewState", "ActivateArchived", "ActiveReblit"}

PreviousOrigin == {"ActiveState", "ActiveReblitCorrupt", "SynthesizedEmpty", "Unmanaged"}

ForwardPhase ==
  {"Preparing", "FreshStateAllocating", "FreshStateAllocated",
   "CandidatePrepareStarted", "CandidatePrepared",
   "TransactionTriggersStarted", "TransactionTriggersComplete",
   "UsrExchangeIntent", "UsrExchanged", "RootLinksComplete",
   "SystemTriggersStarted", "SystemTriggersComplete",
   "PreviousArchiveIntent", "PreviousArchived",
   "BootSyncStarted", "BootSyncComplete",
   "CommitDecided", "CommitCleanupComplete", "Complete"}

RollbackPhase ==
  {"RollbackDecided", "PreviousRestoreIntent", "PreviousRestoredToStaging",
   "ReverseExchangeIntent", "UsrRestored",
   "CandidatePreserveIntent", "CandidatePreserved",
   "FreshDbInvalidationIntent", "FreshDbInvalidated",
   "BootRepairRequired", "BootRepairStarted", "BootRepairComplete",
   "BootRepairUnverified", "RollbackComplete"}

Phase == ForwardPhase \cup RollbackPhase

RollbackAction == {"NotRequired", "Pending", "Applied", "AlreadySatisfied"}

BootRollback == {"NotRequired", "PendingUnverifiable", "Applied", "AlreadySatisfied", "Unverified"}

AbortDisposition == {"Rearchive", "Quarantine"}

RollbackPlan ==
  [source : ForwardPhase,
   previous_archive : RollbackAction,
   usr_exchange : RollbackAction,
   candidate : RollbackAction,
   disposition : AbortDisposition,
   fresh_db : RollbackAction,
   boot : BootRollback,
   external_effects_may_remain : BOOLEAN]

TransitionOptions ==
  [archive_previous : BOOLEAN, run_system_triggers : BOOLEAN, run_boot_sync : BOOLEAN]

TransitionRecord ==
  [version : 1..3,
   generation : 1..MaxGeneration,
   transition_id : TransitionId,
   operation : Operation,
   phase : Phase,
   rollback : RollbackPlan \cup {None},
   receipts : ReceiptPair \cup {None},
   candidate_id : StateId \cup {None},
   previous_id : StateId \cup {None},
   previous_origin : PreviousOrigin,
   options : TransitionOptions]

\* Option::None is none of the values an Option field may hold, and no record.
ASSUME NoneAssumption ==
  /\ None \notin Phase
  /\ None \notin RollbackAction
  /\ None \notin StateId
  /\ None \notin TransitionId
  /\ None \notin ReceiptPair
  /\ None \notin RollbackPlan
  /\ None \notin TransitionRecord

-----------------------------------------------------------------------------
(* Phases *)

ordinal(p) ==
  CASE p = "Preparing" -> 0
    [] p = "FreshStateAllocating" -> 1
    [] p = "FreshStateAllocated" -> 2
    [] p = "CandidatePrepareStarted" -> 3
    [] p = "CandidatePrepared" -> 4
    [] p = "TransactionTriggersStarted" -> 5
    [] p = "TransactionTriggersComplete" -> 6
    [] p = "UsrExchangeIntent" -> 7
    [] p = "UsrExchanged" -> 8
    [] p = "RootLinksComplete" -> 9
    [] p = "SystemTriggersStarted" -> 10
    [] p = "SystemTriggersComplete" -> 11
    [] p = "PreviousArchiveIntent" -> 12
    [] p = "PreviousArchived" -> 13
    [] p = "BootSyncStarted" -> 14
    [] p = "BootSyncComplete" -> 15
    [] p = "CommitDecided" -> 16
    [] p = "CommitCleanupComplete" -> 17
    [] p = "Complete" -> 18

blocks_advance(p) == p \in {"Complete", "BootRepairUnverified", "RollbackComplete"}

deletable(p) == p \in {"Complete", "RollbackComplete"}

\* Mutant: a rollback may still be decided once boot publication is complete.
rollback_allowed_after_boot(source) == ordinal(source) < ordinal("CommitDecided")

rollback_allowed(source) == ordinal(source) < ordinal("CommitDecided") /\ source # "BootSyncComplete"

runs_transaction_triggers(r) == r.operation \in {"NewState", "ActiveReblit"}

after_archive(r) == IF r.options.run_boot_sync THEN "BootSyncStarted" ELSE "CommitDecided"

after_system(r) == IF r.options.archive_previous THEN "PreviousArchiveIntent" ELSE after_archive(r)

\* The forward phase after r.phase; None after Complete.
next_forward_phase(r) ==
  CASE r.phase = "Preparing" ->
         IF r.operation = "NewState" THEN "FreshStateAllocating" ELSE "CandidatePrepareStarted"
    [] r.phase = "FreshStateAllocating" -> "FreshStateAllocated"
    [] r.phase = "FreshStateAllocated" -> "CandidatePrepareStarted"
    [] r.phase = "CandidatePrepareStarted" -> "CandidatePrepared"
    [] r.phase = "CandidatePrepared" ->
         IF runs_transaction_triggers(r) THEN "TransactionTriggersStarted" ELSE "UsrExchangeIntent"
    [] r.phase = "TransactionTriggersStarted" -> "TransactionTriggersComplete"
    [] r.phase = "TransactionTriggersComplete" -> "UsrExchangeIntent"
    [] r.phase = "UsrExchangeIntent" -> "UsrExchanged"
    [] r.phase = "UsrExchanged" -> "RootLinksComplete"
    [] r.phase = "RootLinksComplete" ->
         IF r.options.run_system_triggers THEN "SystemTriggersStarted" ELSE after_system(r)
    [] r.phase = "SystemTriggersStarted" -> "SystemTriggersComplete"
    [] r.phase = "SystemTriggersComplete" -> after_system(r)
    [] r.phase = "PreviousArchiveIntent" -> "PreviousArchived"
    [] r.phase = "PreviousArchived" -> after_archive(r)
    [] r.phase = "BootSyncStarted" -> "BootSyncComplete"
    [] r.phase = "BootSyncComplete" -> "CommitDecided"
    [] r.phase = "CommitDecided" -> "CommitCleanupComplete"
    [] r.phase = "CommitCleanupComplete" -> "Complete"
    [] r.phase = "Complete" -> None

-----------------------------------------------------------------------------
(* Rollback plans *)

required(action) == action # "NotRequired"

resolved(action) == action \in {"Applied", "AlreadySatisfied"}

\* The four ordinary effects in the order in which rollback undoes them.
rollback_actions(plan) == <<plan.previous_archive, plan.usr_exchange, plan.candidate, plan.fresh_db>>

Settled(action) == ~required(action) \/ resolved(action)

ordinary_actions_resolved(plan) == \A i \in 1..4 : Settled(rollback_actions(plan)[i])

IntentPhase == <<"PreviousRestoreIntent", "ReverseExchangeIntent",
                 "CandidatePreserveIntent", "FreshDbInvalidationIntent">>

DonePhase == <<"PreviousRestoredToStaging", "UsrRestored", "CandidatePreserved", "FreshDbInvalidated">>

candidate_disposition_for(r, source) ==
  IF r.operation = "ActivateArchived" /\ source # "SystemTriggersStarted"
  THEN "Rearchive" ELSE "Quarantine"

\* Which effects a rollback from this source can have to undo.
previous_possible(r, source) == r.options.archive_previous /\ ordinal(source) >= ordinal("PreviousArchiveIntent")

usr_possible(source) == ordinal(source) >= ordinal("UsrExchangeIntent")

\* Mutant: the row counts only once the candidate is being prepared.
fresh_possible_late(r, source) == r.operation = "NewState" /\ ordinal(source) > ordinal("FreshStateAllocated")

fresh_possible(r, source) == r.operation = "NewState" /\ ordinal(source) >= ordinal("FreshStateAllocating")

boot_possible(source) == source = "BootSyncStarted"

external_effects(r, source) ==
  \/ runs_transaction_triggers(r) /\ ordinal(source) >= ordinal("TransactionTriggersStarted")
  \/ r.options.run_system_triggers /\ ordinal(source) >= ordinal("SystemTriggersStarted")
  \/ source = "BootSyncStarted"

validate_rollback_plan(r) ==
  LET plan == r.rollback IN
    /\ required(plan.previous_archive) <=> previous_possible(r, plan.source)
    /\ required(plan.usr_exchange) <=> usr_possible(plan.source)
    /\ required(plan.candidate)
    /\ required(plan.fresh_db) <=> fresh_possible(r, plan.source)
    /\ boot_possible(plan.source) <=> plan.boot # "NotRequired"
    /\ plan.disposition = candidate_disposition_for(r, plan.source)
    /\ plan.external_effects_may_remain <=> external_effects(r, plan.source)

\* A phase of the rollback ladder agrees with what its plan says is done.
validate_rollback_phase(phase, plan) ==
  LET action == rollback_actions(plan) IN
    CASE phase = "RollbackDecided" ->
           /\ \A i \in 1..4 : action[i] # "Applied"
           /\ plan.boot \in {"NotRequired", "PendingUnverifiable"}
      [] phase \in {"BootRepairRequired", "BootRepairStarted"} ->
           ordinary_actions_resolved(plan) /\ plan.boot = "PendingUnverifiable"
      [] phase = "BootRepairComplete" ->
           ordinary_actions_resolved(plan) /\ plan.boot \in {"Applied", "AlreadySatisfied"}
      [] phase = "BootRepairUnverified" ->
           ordinary_actions_resolved(plan) /\ plan.boot = "Unverified"
      [] phase = "RollbackComplete" ->
           ordinary_actions_resolved(plan) /\ plan.boot \in {"NotRequired", "Applied", "AlreadySatisfied"}
      [] OTHER ->
           \E current \in 1..4 :
             /\ phase \in {IntentPhase[current], DonePhase[current]}
             /\ \A i \in 1..(current - 1) : Settled(action[i])
             /\ IF phase = DonePhase[current] THEN resolved(action[current]) ELSE action[current] = "Pending"
             /\ \A i \in (current + 1)..4 : action[i] # "Applied"
             /\ plan.boot \in {"NotRequired", "PendingUnverifiable"}

\* Mutant: the candidate is preserved before /usr is restored.
next_pending_phase_swapped(plan) ==
  IF plan.previous_archive = "Pending" THEN "PreviousRestoreIntent"
  ELSE IF plan.candidate = "Pending" THEN "CandidatePreserveIntent"
  ELSE IF plan.usr_exchange = "Pending" THEN "ReverseExchangeIntent"
  ELSE IF plan.fresh_db = "Pending" THEN "FreshDbInvalidationIntent"
  ELSE IF plan.boot = "PendingUnverifiable" THEN "BootRepairRequired"
  ELSE IF plan.boot = "NotRequired" THEN "RollbackComplete"
  ELSE None

\* The phase the ladder continues with once no intent is open.
next_pending_phase(plan) ==
  IF plan.previous_archive = "Pending" THEN "PreviousRestoreIntent"
  ELSE IF plan.usr_exchange = "Pending" THEN "ReverseExchangeIntent"
  ELSE IF plan.candidate = "Pending" THEN "CandidatePreserveIntent"
  ELSE IF plan.fresh_db = "Pending" THEN "FreshDbInvalidationIntent"
  ELSE IF plan.boot = "PendingUnverifiable" THEN "BootRepairRequired"
  ELSE IF plan.boot = "NotRequired" THEN "RollbackComplete"
  ELSE None

next_rollback_phase(plan, current) ==
  CASE current = "PreviousRestoreIntent" -> "PreviousRestoredToStaging"
    [] current = "ReverseExchangeIntent" -> "UsrRestored"
    [] current = "CandidatePreserveIntent" -> "CandidatePreserved"
    [] current = "FreshDbInvalidationIntent" -> "FreshDbInvalidated"
    [] current = "BootRepairRequired" -> "BootRepairStarted"
    [] current = "BootRepairStarted" -> "BootRepairUnverified"
    [] current = "BootRepairComplete" -> "RollbackComplete"
    [] current \in {"RollbackDecided", "PreviousRestoredToStaging", "UsrRestored",
                    "CandidatePreserved", "FreshDbInvalidated"} -> next_pending_phase(plan)
    [] OTHER -> None

-----------------------------------------------------------------------------
(* Validation of one record *)

validate_boot_publication_receipts(r, layout_phase) ==
  IF r.version \in {1, 2} THEN r.receipts = None
  ELSE r.receipts # None <=> r.options.run_boot_sync /\ ordinal(layout_phase) >= ordinal("BootSyncStarted")

validate_option_reachability(r, phase) ==
  /\ phase \in {"FreshStateAllocating", "FreshStateAllocated"} => r.operation = "NewState"
  /\ phase \in {"TransactionTriggersStarted", "TransactionTriggersComplete"} => runs_transaction_triggers(r)
  /\ phase \in {"SystemTriggersStarted", "SystemTriggersComplete"} => r.options.run_system_triggers
  /\ phase \in {"PreviousArchiveIntent", "PreviousArchived"} => r.options.archive_previous
  /\ phase \in {"BootSyncStarted", "BootSyncComplete"} => r.options.run_boot_sync

\* When the candidate's database id is known.  An allocation observed absent is
\* AlreadySatisfied with no id; an observed row keeps its id even once removed.
validate_candidate_layout(r, phase) ==
  IF r.operation # "NewState" THEN r.candidate_id # None
  ELSE IF phase = "FreshStateAllocating" /\ r.rollback # None
  THEN \/ r.rollback.fresh_db = "AlreadySatisfied"
       \/ r.candidate_id # None <=> r.rollback.fresh_db \in {"Pending", "Applied"}
  ELSE r.candidate_id # None <=> phase \notin {"Preparing", "FreshStateAllocating"}

validate_relationships(r) ==
  /\ r.options.archive_previous <=> r.previous_origin = "ActiveState"
  /\ r.operation = "ActiveReblit" =>
       /\ r.previous_origin = "ActiveReblitCorrupt"
       /\ r.previous_id # None
       /\ r.candidate_id = r.previous_id
  /\ r.operation = "ActivateArchived" =>
       /\ r.previous_origin = "ActiveState"
       /\ r.previous_id # None
       /\ r.candidate_id # None
       /\ r.candidate_id # r.previous_id
  /\ r.operation = "NewState" =>
       /\ r.previous_origin # "ActiveReblitCorrupt"
       /\ r.previous_id # None <=> r.previous_origin = "ActiveState"
       /\ r.candidate_id # None => r.candidate_id # r.previous_id

layout_phase(r) == IF r.phase \in ForwardPhase THEN r.phase ELSE r.rollback.source

validate(r) ==
  /\ r.version \in 1..3
  /\ r.generation # 0
  /\ r.version = 1 =>
       /\ r.phase # "BootRepairComplete"
       /\ r.rollback # None => r.rollback.boot \notin {"Applied", "AlreadySatisfied"}
  /\ r.rollback = None <=> r.phase \in ForwardPhase
  /\ r.rollback # None => rollback_allowed(r.rollback.source)
  /\ validate_boot_publication_receipts(r, layout_phase(r))
  /\ validate_option_reachability(r, layout_phase(r))
  /\ validate_candidate_layout(r, layout_phase(r))
  /\ validate_relationships(r)
  /\ r.rollback # None =>
       validate_rollback_plan(r) /\ validate_rollback_phase(r.phase, r.rollback)

-----------------------------------------------------------------------------
(* Validation of a step from one record to the next *)

validate_rollback_plan_advance(r, n) ==
  LET before == rollback_actions(r.rollback)
      after == rollback_actions(n.rollback) IN
    /\ r.rollback.source = n.rollback.source
    /\ r.rollback.disposition = n.rollback.disposition
    /\ r.rollback.external_effects_may_remain = n.rollback.external_effects_may_remain
    /\ \A i \in 1..4 :
         IF r.phase = IntentPhase[i] /\ n.phase = DonePhase[i]
         THEN before[i] = "Pending" /\ resolved(after[i])
         ELSE before[i] = after[i]
    /\ \/ r.rollback.boot = n.rollback.boot
       \/ /\ r.phase = "BootRepairStarted"
          /\ r.rollback.boot = "PendingUnverifiable"
          /\ \/ n.phase = "BootRepairUnverified" /\ n.rollback.boot = "Unverified"
             \/ n.phase = "BootRepairComplete" /\ n.rollback.boot \in {"Applied", "AlreadySatisfied"}

\* The edge of the phase graph, and for a rollback edge the change of the plan.
PhaseAdvance(r, n) ==
  \/ /\ r.phase \in ForwardPhase
     /\ n.phase \in ForwardPhase
     /\ n.phase = next_forward_phase(r)
  \/ /\ r.phase \in ForwardPhase
     /\ n.phase = "RollbackDecided"
     /\ rollback_allowed(r.phase)
     /\ n.rollback.source = r.phase
  \/ /\ r.phase \in RollbackPhase
     /\ n.phase \in RollbackPhase
     /\ \/ <<r.phase, n.phase>> = <<"BootRepairStarted", "BootRepairComplete">>
        \/ n.phase = next_rollback_phase(r.rollback, r.phase)
     /\ validate_rollback_plan_advance(r, n)

validate_advance(r, n) ==
  /\ validate(n)
  /\ validate(r)
  /\ ~blocks_advance(r.phase)
  /\ r.generation < MaxGeneration
  /\ n.generation = r.generation + 1
  /\ n.transition_id = r.transition_id
  /\ \/ n.receipts = r.receipts
     \/ r.version = 3 /\ r.receipts = None /\ n.receipts # None /\ n.phase = "BootSyncStarted"
  /\ n.version = r.version
  /\ n.operation = r.operation
  /\ n.previous_id = r.previous_id
  /\ n.previous_origin = r.previous_origin
  /\ n.options = r.options
  /\ PhaseAdvance(r, n)
  /\ \/ n.candidate_id = r.candidate_id
     \/ /\ r.phase = "FreshStateAllocating"
        /\ r.candidate_id = None
        /\ n.candidate_id # None
        /\ \/ n.phase = "FreshStateAllocated"
           \/ n.phase = "RollbackDecided" /\ n.rollback.fresh_db = "Pending"

-----------------------------------------------------------------------------
(* Constructors *)

\* `next` if it passes validate_advance, the error otherwise.
Checked(r, next) == {n \in {next} : validate_advance(r, n)}

\* The record of generation 1 that create() stores.
preparing(transition_id, operation, candidate_id, previous_id, previous_origin, run_system_triggers, run_boot_sync) ==
  {r \in {[version |-> 3,
           generation |-> 1,
           transition_id |-> transition_id,
           operation |-> operation,
           phase |-> "Preparing",
           rollback |-> None,
           receipts |-> None,
           candidate_id |-> candidate_id,
           previous_id |-> previous_id,
           previous_origin |-> previous_origin,
           options |-> [archive_previous |-> previous_origin = "ActiveState",
                        run_system_triggers |-> run_system_triggers,
                        run_boot_sync |-> run_boot_sync]]} : validate(r)}

\* An ordinary forward edge.  allocated is the id of the row that
\* FreshStateAllocating inserted, and None on every other edge.
forward_successor(r, allocated) ==
  IF /\ r.phase \in ForwardPhase
     /\ next_forward_phase(r) \notin {None, "BootSyncStarted", "BootSyncComplete"}
     /\ allocated # None => r.phase = "FreshStateAllocating"
  THEN Checked(r, [r EXCEPT !.generation = @ + 1,
                            !.phase = next_forward_phase(r),
                            !.candidate_id = IF r.phase = "FreshStateAllocating" THEN allocated ELSE @])
  ELSE {}

boot_sync_started_successor(r, receipts) ==
  IF r.version = 3 /\ r.phase \in ForwardPhase /\ next_forward_phase(r) = "BootSyncStarted"
  THEN Checked(r, [r EXCEPT !.generation = @ + 1, !.phase = "BootSyncStarted", !.receipts = receipts])
  ELSE {}

boot_sync_complete_successor(r, expected_pair) ==
  IF r.version = 3 /\ r.phase = "BootSyncStarted" /\ r.receipts = expected_pair
  THEN Checked(r, [r EXCEPT !.generation = @ + 1, !.phase = "BootSyncComplete"])
  ELSE {}

InitialRollbackAction == {"Pending", "AlreadySatisfied"}

RollbackObservations ==
  [allocated_candidate_id : StateId \cup {None},
   previous_archive : InitialRollbackAction \cup {None},
   usr_exchange : InitialRollbackAction \cup {None},
   candidate : InitialRollbackAction,
   fresh_db : InitialRollbackAction \cup {None}]

observed_initial_action(observation) == IF observation = None THEN "NotRequired" ELSE observation

\* RollbackDecided: the plan that undoes what the source phase can have done.
\* An observation is given exactly for the effects that are possible.
rollback_decision(r, obs) ==
  IF /\ r.phase \in ForwardPhase
     /\ rollback_allowed(r.phase)
     /\ obs.allocated_candidate_id # None => r.candidate_id = None
     /\ obs.previous_archive # None <=> previous_possible(r, r.phase)
     /\ obs.usr_exchange # None <=> usr_possible(r.phase)
     /\ obs.fresh_db # None <=> fresh_possible(r, r.phase)
  THEN Checked(r, [r EXCEPT
         !.generation = @ + 1,
         !.phase = "RollbackDecided",
         !.candidate_id = IF r.candidate_id = None THEN obs.allocated_candidate_id ELSE @,
         !.rollback = [source |-> r.phase,
                       previous_archive |-> observed_initial_action(obs.previous_archive),
                       usr_exchange |-> observed_initial_action(obs.usr_exchange),
                       candidate |-> obs.candidate,
                       disposition |-> candidate_disposition_for(r, r.phase),
                       fresh_db |-> observed_initial_action(obs.fresh_db),
                       boot |-> IF boot_possible(r.phase) THEN "PendingUnverifiable" ELSE "NotRequired",
                       external_effects_may_remain |-> external_effects(r, r.phase)]])
  ELSE {}

RollbackActionOutcome == {"Applied", "AlreadySatisfied"}

\* The plan with the effect of r's open intent resolved by this outcome.
ResolvedPlan(r, outcome) ==
  CASE r.phase = "PreviousRestoreIntent" -> [r.rollback EXCEPT !.previous_archive = outcome]
    [] r.phase = "ReverseExchangeIntent" -> [r.rollback EXCEPT !.usr_exchange = outcome]
    [] r.phase = "CandidatePreserveIntent" -> [r.rollback EXCEPT !.candidate = outcome]
    [] r.phase = "FreshDbInvalidationIntent" -> [r.rollback EXCEPT !.fresh_db = outcome]

OpenIntent(r) == \E i \in 1..4 : r.phase = IntentPhase[i]

\* An ordinary rollback edge: outcome is given exactly when it completes an intent.
rollback_successor(r, outcome) ==
  IF /\ r.phase \notin {"BootRepairRequired", "BootRepairStarted", "BootRepairComplete"}
     /\ r.rollback # None
     /\ next_rollback_phase(r.rollback, r.phase) # None
     /\ outcome # None <=> OpenIntent(r)
  THEN Checked(r, [r EXCEPT !.generation = @ + 1,
                            !.phase = next_rollback_phase(r.rollback, r.phase),
                            !.rollback = IF OpenIntent(r) THEN ResolvedPlan(r, outcome) ELSE @])
  ELSE {}

boot_repair_started_successor(r) ==
  IF r.phase = "BootRepairRequired"
  THEN Checked(r, [r EXCEPT !.generation = @ + 1, !.phase = "BootRepairStarted"])
  ELSE {}

boot_repair_complete_successor(r, outcome) ==
  IF r.phase = "BootRepairStarted"
  THEN Checked(r, [r EXCEPT !.generation = @ + 1, !.phase = "BootRepairComplete", !.rollback.boot = outcome])
  ELSE {}

boot_repair_unverified_successor(r) ==
  IF r.phase = "BootRepairStarted"
  THEN Checked(r, [r EXCEPT !.generation = @ + 1, !.phase = "BootRepairUnverified", !.rollback.boot = "Unverified"])
  ELSE {}

boot_repair_rollback_complete_successor(r) ==
  IF r.phase = "BootRepairComplete"
  THEN Checked(r, [r EXCEPT !.generation = @ + 1, !.phase = "RollbackComplete"])
  ELSE {}

\* The records the constructors can return for r, and all of them together.
ForwardSuccessors(r) == UNION {forward_successor(r, id) : id \in StateId \cup {None}}

BootSyncSuccessors(r) ==
  UNION {boot_sync_started_successor(r, pair) \cup boot_sync_complete_successor(r, pair) : pair \in ReceiptPair}

DecisionSuccessors(r) == UNION {rollback_decision(r, obs) : obs \in RollbackObservations}

RollbackSuccessors(r) == UNION {rollback_successor(r, outcome) : outcome \in RollbackActionOutcome \cup {None}}

RepairOutcomes(r) == UNION {boot_repair_complete_successor(r, outcome) : outcome \in RollbackActionOutcome}

Successors(r) ==
  ForwardSuccessors(r) \cup BootSyncSuccessors(r) \cup DecisionSuccessors(r) \cup RollbackSuccessors(r)
    \cup RepairOutcomes(r) \cup boot_repair_started_successor(r)
    \cup boot_repair_unverified_successor(r) \cup boot_repair_rollback_complete_successor(r)

-----------------------------------------------------------------------------
(* The direction in which startup may resume a durable record *)

recovery_disposition(phase) ==
  CASE phase \in ForwardPhase /\ ordinal(phase) < ordinal("BootSyncComplete") -> "BeginRollback"
    [] phase \in {"BootSyncComplete", "CommitDecided", "CommitCleanupComplete", "Complete"} -> "RollForward"
    [] phase = "BootRepairUnverified" -> "ManualBootRepair"
    [] phase = "RollbackComplete" -> "FinalizeRollback"
    [] OTHER -> "ResumeRollback"
=============================================================================
