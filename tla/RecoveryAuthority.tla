--------------------------- MODULE RecoveryAuthority ---------------------------
(***************************************************************************)
(* The recovery authorities of startup reconciliation and the order in     *)
(* which the startup gate asks them.  Each one accepts a record of one     *)
(* exact shape whose evidence fits; where the code spells out generation   *)
(* numbers they are spelled out here.                                      *)
(*                                                                         *)
(* Route(r, e) is the one step the gate takes for record r under evidence  *)
(* e, "RecoveryPending" when no authority admits it: the record then stays *)
(* as it is and startup refuses to go on.                                  *)
(***************************************************************************)
EXTENDS ActivationEvidence

\* The sources from which the exchange itself is rolled back, in any generation.
ExchangeSource == {"UsrExchangeIntent", "UsrExchanged", "RootLinksComplete"}

boot_source(r) == r.operation = "ActiveReblit" /\ r.rollback.source = "BootSyncStarted"

\* The parts of a plan that depend on the operation alone.
BootIsExact(r) == r.rollback.boot = IF boot_source(r) THEN "PendingUnverifiable" ELSE "NotRequired"

FreshIsPending(r) == r.rollback.fresh_db = IF r.operation = "NewState" THEN "Pending" ELSE "NotRequired"

DispositionIsExact(r) ==
  r.rollback.disposition = IF r.operation = "ActivateArchived" THEN "Rearchive" ELSE "Quarantine"

ExternalEffectsAreExact(r) == r.rollback.external_effects_may_remain <=> r.operation # "ActivateArchived"

\* A plan in which /usr and the candidate are settled and nothing was archived.
BothTreesRestored(r) ==
  /\ r.rollback.previous_archive = "NotRequired"
  /\ resolved(r.rollback.usr_exchange)
  /\ resolved(r.rollback.candidate)
  /\ DispositionIsExact(r)
  /\ ExternalEffectsAreExact(r)

same_nonempty_candidate_and_previous(r) == r.candidate_id # None /\ r.candidate_id = r.previous_id

-----------------------------------------------------------------------------
(* Beginning a rollback *)

rollback_decision_source_is_supported(r) ==
  \/ r.phase \in ExchangeSource
  \/ <<r.operation, r.phase, r.generation>> \in
       {<<"NewState", "SystemTriggersStarted", 11>>, <<"NewState", "SystemTriggersComplete", 12>>,
        <<"NewState", "PreviousArchived", 14>>,
        <<"ActiveReblit", "SystemTriggersStarted", 9>>, <<"ActiveReblit", "SystemTriggersComplete", 10>>}
  \/ r.operation = "ActiveReblit" /\ r.phase = "BootSyncStarted"

\* An exchange that did not happen needs no undoing; a layout that does not
\* say whether it happened gives no observation.
UsrObservation(r, trees) ==
  CASE rollback_usr_exchange_layout(trees) = "Post" -> {"Pending"}
    [] rollback_usr_exchange_layout(trees) = "Pre" /\ r.phase = "UsrExchangeIntent" -> {"AlreadySatisfied"}
    [] OTHER -> {}

rollback_observations(r, usr_exchange) ==
  [allocated_candidate_id |-> None,
   previous_archive |-> IF r.phase = "PreviousArchived" THEN "Pending" ELSE None,
   usr_exchange |-> usr_exchange,
   candidate |-> "Pending",
   fresh_db |-> IF r.operation = "NewState" THEN "Pending" ELSE None]

\* The RollbackDecided record for what is seen now.
DecidedRecords(r, e) ==
  UNION {rollback_decision(r, rollback_observations(r, usr)) : usr \in UsrObservation(r, e.fs.trees)}

DecisionAdmitted(r, e) ==
  r.rollback = None /\ rollback_decision_source_is_supported(r) /\ EvidenceFits(r, e) /\ DecidedRecords(r, e) # {}

-----------------------------------------------------------------------------
(* Resuming a rollback *)

is_usr_exchange_rollback_source(r) ==
  \/ r.rollback.source \in ExchangeSource
  \/ <<r.operation, r.phase, r.rollback.source, r.generation>> \in
       {<<"NewState", "RollbackDecided", "SystemTriggersStarted", 12>>,
        <<"NewState", "RollbackDecided", "SystemTriggersComplete", 13>>,
        <<"NewState", "RollbackDecided", "PreviousArchived", 15>>,
        <<"NewState", "UsrRestored", "SystemTriggersStarted", 14>>,
        <<"NewState", "UsrRestored", "SystemTriggersComplete", 15>>,
        <<"ActiveReblit", "RollbackDecided", "SystemTriggersStarted", 10>>,
        <<"ActiveReblit", "RollbackDecided", "SystemTriggersComplete", 11>>,
        <<"ActiveReblit", "UsrRestored", "SystemTriggersStarted", 12>>,
        <<"ActiveReblit", "UsrRestored", "SystemTriggersComplete", 13>>}
  \/ boot_source(r)

route_evidence_is_exact(r, layout) ==
  /\ r.rollback.previous_archive \in IF r.operation = "NewState" THEN {"NotRequired", "Pending"} ELSE {"NotRequired"}
  /\ r.rollback.candidate = "Pending"
  /\ BootIsExact(r)
  /\ FreshIsPending(r)
  /\ DispositionIsExact(r)
  /\ ExternalEffectsAreExact(r)
  /\ \/ /\ r.phase = "RollbackDecided"
        /\ <<r.rollback.usr_exchange, layout>> \in {<<"Pending", "Post">>, <<"AlreadySatisfied", "Pre">>}
     \/ r.phase = "UsrRestored" /\ resolved(r.rollback.usr_exchange) /\ layout = "Pre"

ResumeAdmitted(r, e) ==
  /\ r.phase \in {"RollbackDecided", "UsrRestored"}
  /\ is_usr_exchange_rollback_source(r)
  /\ EvidenceFits(r, e)
  /\ route_evidence_is_exact(r, rollback_usr_exchange_layout(e.fs.trees))

reverse_plan_is_exact(r) ==
  /\ r.phase = "ReverseExchangeIntent"
  /\ \/ r.rollback.source \in ExchangeSource
     \/ <<r.operation, r.rollback.source, r.generation>> \in
          {<<"NewState", "SystemTriggersStarted", 13>>, <<"NewState", "SystemTriggersComplete", 14>>,
           <<"ActiveReblit", "SystemTriggersStarted", 11>>, <<"ActiveReblit", "SystemTriggersComplete", 12>>}
     \/ boot_source(r)
  /\ r.rollback.previous_archive = "NotRequired"
  /\ r.rollback.usr_exchange = "Pending"
  /\ r.rollback.candidate = "Pending"
  /\ BootIsExact(r)
  /\ FreshIsPending(r)
  /\ DispositionIsExact(r)
  /\ ExternalEffectsAreExact(r)

\* Mutant: the literal of the latest reblit source is one generation behind.
candidate_preserve_plan_is_exact_stale(r) ==
  /\ r.phase = "CandidatePreserveIntent"
  /\ \/ r.rollback.source \in ExchangeSource
     \/ <<r.operation, r.rollback.source, r.generation>> \in
          {<<"NewState", "SystemTriggersStarted", 15>>, <<"NewState", "SystemTriggersComplete", 16>>,
           <<"ActiveReblit", "SystemTriggersStarted", 13>>, <<"ActiveReblit", "SystemTriggersComplete", 13>>}
     \/ boot_source(r)
  /\ r.rollback.previous_archive = "NotRequired"
  /\ resolved(r.rollback.usr_exchange)

candidate_preserve_plan_is_exact(r) ==
  /\ r.phase = "CandidatePreserveIntent"
  /\ \/ r.rollback.source \in ExchangeSource
     \/ <<r.operation, r.rollback.source, r.generation>> \in
          {<<"NewState", "SystemTriggersStarted", 15>>, <<"NewState", "SystemTriggersComplete", 16>>,
           <<"ActiveReblit", "SystemTriggersStarted", 13>>, <<"ActiveReblit", "SystemTriggersComplete", 14>>}
     \/ boot_source(r)
  /\ r.rollback.previous_archive = "NotRequired"
  /\ resolved(r.rollback.usr_exchange)
  /\ r.rollback.candidate = "Pending"
  /\ BootIsExact(r)
  /\ FreshIsPending(r)
  /\ DispositionIsExact(r)
  /\ ExternalEffectsAreExact(r)

\* NewState: the row of the fresh state is removed once the candidate is preserved.
fresh_db_invalidation_route_plan_is_exact(r) ==
  /\ r.operation = "NewState"
  /\ r.phase = "CandidatePreserved"
  /\ \/ r.rollback.source \in ExchangeSource
     \/ <<r.rollback.source, r.generation>> \in {<<"SystemTriggersStarted", 16>>, <<"SystemTriggersComplete", 17>>}
  /\ BothTreesRestored(r)
  /\ r.rollback.fresh_db = "Pending"
  /\ r.rollback.boot = "NotRequired"

fresh_db_invalidation_plan_is_exact(r) ==
  /\ r.operation = "NewState"
  /\ r.phase = "FreshDbInvalidationIntent"
  /\ r.candidate_id # None
  /\ \/ r.rollback.source \in ExchangeSource
     \/ <<r.rollback.source, r.generation>> \in {<<"SystemTriggersStarted", 17>>, <<"SystemTriggersComplete", 18>>}
  /\ BothTreesRestored(r)
  /\ r.rollback.fresh_db = "Pending"
  /\ r.rollback.boot = "NotRequired"

rollback_complete_route_plan_is_exact(r) ==
  /\ r.operation = "NewState"
  /\ r.phase = "FreshDbInvalidated"
  /\ r.candidate_id # None
  /\ \/ r.rollback.source \in ExchangeSource
     \/ <<r.rollback.source, r.generation>> \in {<<"SystemTriggersStarted", 18>>, <<"SystemTriggersComplete", 19>>}
  /\ BothTreesRestored(r)
  /\ resolved(r.rollback.fresh_db)
  /\ r.rollback.boot = "NotRequired"

active_reblit_complete_route_plan_is_exact(r) ==
  /\ r.operation = "ActiveReblit"
  /\ r.phase = "CandidatePreserved"
  /\ same_nonempty_candidate_and_previous(r)
  /\ \/ r.rollback.source \in ExchangeSource
     \/ <<r.rollback.source, r.generation>> \in {<<"SystemTriggersStarted", 14>>, <<"SystemTriggersComplete", 15>>}
  /\ BothTreesRestored(r)
  /\ r.rollback.fresh_db = "NotRequired"
  /\ r.rollback.boot = "NotRequired"

activate_archived_complete_route_plan_is_exact(r) ==
  /\ r.operation = "ActivateArchived"
  /\ r.phase = "CandidatePreserved"
  /\ r.previous_origin = "ActiveState"
  /\ r.candidate_id # None /\ r.previous_id # None /\ r.candidate_id # r.previous_id
  /\ r.rollback.source \in ExchangeSource
  /\ BothTreesRestored(r)
  /\ r.rollback.fresh_db = "NotRequired"
  /\ r.rollback.boot = "NotRequired"

\* The one edge to RollbackComplete of each operation.
CompleteRouteIsExact(r) ==
  \/ rollback_complete_route_plan_is_exact(r)
  \/ active_reblit_complete_route_plan_is_exact(r)
  \/ activate_archived_complete_route_plan_is_exact(r)

\* The generation in which each operation ends a rollback from each source.
FinalGeneration ==
  {<<"NewState", "RootLinksComplete", 18>>, <<"NewState", "SystemTriggersStarted", 19>>,
   <<"NewState", "SystemTriggersComplete", 20>>,
   <<"ActiveReblit", "RootLinksComplete", 14>>, <<"ActiveReblit", "SystemTriggersStarted", 15>>,
   <<"ActiveReblit", "SystemTriggersComplete", 16>>,
   <<"ActivateArchived", "RootLinksComplete", 12>>}

rollback_finalization_plan_is_exact(r) ==
  /\ r.phase = "RollbackComplete"
  /\ r.candidate_id # None
  /\ r.operation = "ActiveReblit" => r.candidate_id = r.previous_id
  /\ r.operation = "ActivateArchived" => r.previous_id # None /\ r.candidate_id # r.previous_id
  /\ \/ r.rollback.source \in {"UsrExchangeIntent", "UsrExchanged"}
     \/ <<r.operation, r.rollback.source, r.generation>> \in FinalGeneration
  /\ BothTreesRestored(r)
  /\ IF r.operation = "NewState" THEN resolved(r.rollback.fresh_db) ELSE r.rollback.fresh_db = "NotRequired"
  /\ r.rollback.boot = "NotRequired"

\* ActiveReblit from BootSyncStarted: what boot publication did is not known.
pending_boot_repair_plan_is_exact(r, phase) ==
  /\ r.operation = "ActiveReblit"
  /\ r.phase = phase
  /\ same_nonempty_candidate_and_previous(r)
  /\ r.rollback.source = "BootSyncStarted"
  /\ BothTreesRestored(r)
  /\ r.rollback.fresh_db = "NotRequired"
  /\ r.rollback.boot = "PendingUnverifiable"

\* The receipts still name this publication as pending; a record without a
\* pair, from before receipts were journaled, is admitted when none is pending.
ReceiptsCorrelate(r, receipts) ==
  IF r.receipts = None THEN receipts.pending = None
  ELSE receipt_pair_for(receipts, r.transition_id) = r.receipts

BootRepairAdmitted(r, e, phase) == pending_boot_repair_plan_is_exact(r, phase) /\ EvidenceFits(r, e)

-----------------------------------------------------------------------------
(* Finishing a commit: ActiveReblit only *)

\* The route of a record in the commit tail: its receipt was promoted, or it
\* never published one and nothing is pending in its place.
CommitRouteIsExact(r, e, no_boot_generation) ==
  /\ r.operation = "ActiveReblit"
  /\ r.rollback = None
  /\ same_nonempty_candidate_and_previous(r)
  /\ \/ /\ r.options.run_boot_sync
        /\ r.receipts # None
        /\ is_exact_promoted(e.receipts, r.transition_id, r.receipts)
     \/ /\ ~r.options.run_boot_sync
        /\ r.receipts = None
        /\ r.generation = no_boot_generation
        /\ r.options.run_system_triggers
        /\ ~r.options.archive_previous
        /\ load_current_chain_is_exact(e.receipts)
        /\ e.receipts.committed # r.transition_id
  /\ EvidenceFits(r, e)

\* Mutant: a stored receipt is taken for a pending one whether or not it was promoted.
inspect_receipt_boundary_blind(r, receipts) ==
  IF r.receipts = None \/ HasBody(receipts, r.transition_id) THEN "Pending" ELSE "Mismatch"

\* The receipt boundary of BootSyncStarted: once the head has moved to this
\* publication the transition can only be completed.
inspect_receipt_boundary(r, receipts) ==
  CASE r.receipts = None -> "Pending"
    [] r.receipts # None /\ is_exact_promoted(receipts, r.transition_id, r.receipts) -> "Promoted"
    [] r.receipts # None /\ is_exact_pending(receipts, r.transition_id, r.receipts) -> "Pending"
    [] OTHER -> "Mismatch"

boot_sync_complete_plan_is_exact(r) ==
  /\ r.operation = "ActiveReblit"
  /\ r.phase = "BootSyncComplete"
  /\ r.generation = 12
  /\ r.options = [archive_previous |-> FALSE, run_system_triggers |-> TRUE, run_boot_sync |-> TRUE]
  /\ r.rollback = None
  /\ same_nonempty_candidate_and_previous(r)
  /\ r.receipts # None

-----------------------------------------------------------------------------
(* The startup gate *)

\* A restrictive wrapper left by an interrupted reservation is repaired first.
ResidueRecoverable(r, e) ==
  /\ r.operation = "ActiveReblit"
  /\ layout_phase(r) = "CandidatePrepared"
  /\ e.fs.wrapper = "Residue"
  /\ ~e.leftover

\* The five dispatchers of an ActiveReblit that has begun boot publication or
\* has decided to commit.  They come first: none of these records reaches the
\* rollback authorities unless its publication is still pending.
ForwardSuffixRoute(r, e) ==
  CASE r.phase = "BootSyncStarted" ->
         CASE inspect_receipt_boundary(r, e.receipts) = "Pending" -> "Unhandled"
           [] inspect_receipt_boundary(r, e.receipts) = "Promoted" ->
                IF EvidenceFits(r, e) THEN "CompleteBootSync" ELSE "RecoveryPending"
           [] OTHER -> "RecoveryPending"
    [] r.phase = "BootSyncComplete" ->
         IF /\ boot_sync_complete_plan_is_exact(r)
            /\ is_exact_promoted(e.receipts, r.transition_id, r.receipts)
            /\ EvidenceFits(r, e)
         THEN "DecideCommit" ELSE "RecoveryPending"
    [] r.phase = "CommitDecided" -> IF CommitRouteIsExact(r, e, 11) THEN "CleanUpCommit" ELSE "RecoveryPending"
    [] r.phase = "CommitCleanupComplete" ->
         IF CommitRouteIsExact(r, e, 12) THEN "Complete" ELSE "RecoveryPending"
    [] r.phase = "Complete" -> IF CommitRouteIsExact(r, e, 13) THEN "Finalize" ELSE "RecoveryPending"
    [] OTHER -> "Unhandled"

\* The rollback authorities in the order of CleanSystemStartup::enter.
RollbackRoute(r, e) ==
  CASE r.phase = "UsrExchanged" /\ ~EvidenceFits(r, e) -> "RecoveryPending"
    [] r.phase = "UsrExchanged" /\ EvidenceFits(r, e) /\ ~e.fs.root_abi -> "NormalizeRootAbi"
    [] DecisionAdmitted(r, e) /\ (r.phase = "UsrExchanged" => e.fs.root_abi) -> "DecideRollback"
    [] ResumeAdmitted(r, e) -> "ResumeRollback"
    [] r.rollback # None /\ reverse_plan_is_exact(r) /\ EvidenceFits(r, e) -> "ReverseExchange"
    [] r.rollback # None /\ candidate_preserve_plan_is_exact(r) /\ EvidenceFits(r, e) -> "PreserveCandidate"
    [] r.rollback # None /\ fresh_db_invalidation_route_plan_is_exact(r) /\ EvidenceFits(r, e) -> "RouteInvalidation"
    [] r.rollback # None /\ fresh_db_invalidation_plan_is_exact(r) /\ EvidenceFits(r, e) -> "InvalidateFreshDb"
    [] r.rollback # None /\ CompleteRouteIsExact(r) /\ EvidenceFits(r, e) -> "CompleteRollback"
    [] r.rollback # None /\ BootRepairAdmitted(r, e, "CandidatePreserved") /\ ReceiptsCorrelate(r, e.receipts) ->
         "RequireBootRepair"
    [] r.rollback # None /\ BootRepairAdmitted(r, e, "BootRepairRequired") -> "StartBootRepair"
    [] r.rollback # None /\ BootRepairAdmitted(r, e, "BootRepairStarted") -> "LeaveBootUnverified"
    [] r.rollback # None /\ rollback_finalization_plan_is_exact(r) /\ EvidenceFits(r, e) -> "FinalizeRollback"
    [] OTHER -> "RecoveryPending"

Route(r, e) ==
  IF r.operation = "ActiveReblit" /\ ForwardSuffixRoute(r, e) # "Unhandled" THEN ForwardSuffixRoute(r, e)
  ELSE IF ResidueRecoverable(r, e) THEN "RecoverResidue"
  ELSE RollbackRoute(r, e)
=============================================================================
