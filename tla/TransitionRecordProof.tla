------------------------ MODULE TransitionRecordProof ------------------------
(***************************************************************************)
(* What the constructors of TransitionRecord return, and that validation   *)
(* accepts exactly what they build, for every set of states, transitions   *)
(* and receipts and every bound on the generation.                         *)
(***************************************************************************)
EXTENDS TransitionRecord, TLAPS

-----------------------------------------------------------------------------
(* What the constructors return *)

\* The ordinary forward constructor keeps a record typed and returns only what
\* validate_advance accepts.
LEMMA ForwardConstructor ==
  ASSUME NEW r \in TransitionRecord, NEW id \in StateId \cup {None}, NEW n \in forward_successor(r, id)
  PROVE  n \in TransitionRecord /\ validate_advance(r, n)
<1>1. validate_advance(r, n)
  BY DEF forward_successor, Checked
<1>2. n = [r EXCEPT !.generation = r.generation + 1,
                    !.phase = next_forward_phase(r),
                    !.candidate_id = IF r.phase = "FreshStateAllocating" THEN id ELSE r.candidate_id]
  BY DEF forward_successor, Checked
<1>3. r.phase \in ForwardPhase /\ next_forward_phase(r) # None
  BY DEF forward_successor
<1>4. next_forward_phase(r) \in Phase
  BY <1>3 DEF next_forward_phase, after_archive, after_system, Phase, ForwardPhase
<1>5. r.generation + 1 \in 1..MaxGeneration
  BY <1>1, GenerationAssumption DEF validate_advance, TransitionRecord
<1>6. n \in TransitionRecord
  BY ZenonT(60), <1>2, <1>4, <1>5 DEF TransitionRecord
<1> QED BY <1>1, <1>6

\* So do the two constructors of boot publication.
LEMMA BootSyncConstructors ==
  ASSUME NEW r \in TransitionRecord, NEW pair \in ReceiptPair, NEW n,
         n \in boot_sync_started_successor(r, pair) \cup boot_sync_complete_successor(r, pair)
  PROVE  n \in TransitionRecord /\ validate_advance(r, n)
<1>1. PICK p \in Phase, q \in ReceiptPair \cup {None} :
        /\ validate_advance(r, n)
        /\ n = [r EXCEPT !.generation = r.generation + 1, !.phase = p, !.receipts = q]
  <2>1. CASE n \in boot_sync_started_successor(r, pair)
    <3>1. "BootSyncStarted" \in Phase
      BY DEF Phase, ForwardPhase
    <3> QED BY Zenon, <2>1, <3>1 DEF boot_sync_started_successor, Checked
  <2>2. CASE n \in boot_sync_complete_successor(r, pair)
    <3>1. "BootSyncComplete" \in Phase
      BY DEF Phase, ForwardPhase
    <3>2. n = [r EXCEPT !.generation = r.generation + 1, !.phase = "BootSyncComplete", !.receipts = r.receipts]
      BY Zenon, <2>2 DEF boot_sync_complete_successor, Checked, TransitionRecord
    <3>3. validate_advance(r, n) /\ r.receipts \in ReceiptPair \cup {None}
      BY <2>2 DEF boot_sync_complete_successor, Checked, TransitionRecord
    <3> QED BY Zenon, <3>1, <3>2, <3>3
  <2> QED BY Zenon, <2>1, <2>2
<1>2. r.generation + 1 \in 1..MaxGeneration
  BY <1>1, GenerationAssumption DEF validate_advance, TransitionRecord
<1> QED BY Zenon, <1>1, <1>2 DEF TransitionRecord

\* The decision to roll back builds a typed plan.
LEMMA DecisionConstructor ==
  ASSUME NEW r \in TransitionRecord, NEW obs \in RollbackObservations, NEW n,
         n \in rollback_decision(r, obs)
  PROVE  n \in TransitionRecord /\ validate_advance(r, n)
<1> DEFINE plan == [source |-> r.phase,
                    previous_archive |-> observed_initial_action(obs.previous_archive),
                    usr_exchange |-> observed_initial_action(obs.usr_exchange),
                    candidate |-> obs.candidate,
                    disposition |-> candidate_disposition_for(r, r.phase),
                    fresh_db |-> observed_initial_action(obs.fresh_db),
                    boot |-> IF boot_possible(r.phase) THEN "PendingUnverifiable" ELSE "NotRequired",
                    external_effects_may_remain |-> external_effects(r, r.phase)]
           id == IF r.candidate_id = None THEN obs.allocated_candidate_id ELSE r.candidate_id
<1>1. validate_advance(r, n) /\ r.phase \in ForwardPhase
  BY DEF rollback_decision, Checked
<1>2. n = [r EXCEPT !.generation = r.generation + 1, !.phase = "RollbackDecided",
                    !.candidate_id = id, !.rollback = plan]
  BY DEF rollback_decision, Checked
<1>3. r.generation + 1 \in 1..MaxGeneration
  BY <1>1, GenerationAssumption DEF validate_advance, TransitionRecord
<1>4. plan \in RollbackPlan
  <2>1. /\ observed_initial_action(obs.previous_archive) \in RollbackAction
        /\ observed_initial_action(obs.usr_exchange) \in RollbackAction
        /\ observed_initial_action(obs.fresh_db) \in RollbackAction
        /\ obs.candidate \in RollbackAction
    BY DEF observed_initial_action, RollbackObservations, InitialRollbackAction, RollbackAction
  <2>2. candidate_disposition_for(r, r.phase) \in AbortDisposition
    BY DEF candidate_disposition_for, AbortDisposition
  <2>3. external_effects(r, r.phase) \in BOOLEAN
    BY DEF external_effects
  <2> QED BY <1>1, <2>1, <2>2, <2>3 DEF RollbackPlan, BootRollback
<1>5. id \in StateId \cup {None}
  BY DEF RollbackObservations, TransitionRecord
<1> HIDE DEF plan, id
<1>6. n \in TransitionRecord
  BY Zenon, <1>2, <1>3, <1>4, <1>5 DEF TransitionRecord, Phase, RollbackPhase
<1> QED BY <1>1, <1>6

\* An ordinary rollback edge keeps the record typed.
LEMMA RollbackConstructor ==
  ASSUME NEW r \in TransitionRecord, NEW outcome \in RollbackActionOutcome \cup {None}, NEW n,
         n \in rollback_successor(r, outcome)
  PROVE  n \in TransitionRecord /\ validate_advance(r, n)
<1> DEFINE plan == IF OpenIntent(r) THEN ResolvedPlan(r, outcome) ELSE r.rollback
           p == next_rollback_phase(r.rollback, r.phase)
<1>1. /\ validate_advance(r, n)
      /\ r.rollback # None
      /\ p # None
      /\ OpenIntent(r) => outcome # None
  BY DEF rollback_successor, Checked
<1>2. n = [r EXCEPT !.generation = r.generation + 1, !.phase = p, !.rollback = plan]
  BY DEF rollback_successor, Checked
<1>3. r.generation + 1 \in 1..MaxGeneration
  BY <1>1, GenerationAssumption DEF validate_advance, TransitionRecord
<1>4. r.rollback \in RollbackPlan
  BY <1>1 DEF TransitionRecord
<1>5. plan \in RollbackPlan
  <2>1. CASE ~OpenIntent(r)
    BY <2>1, <1>4
  <2>2. CASE OpenIntent(r)
    <3>1. outcome \in RollbackAction
      BY <1>1, <2>2 DEF RollbackActionOutcome, RollbackAction
    <3>2. r.phase \in {"PreviousRestoreIntent", "ReverseExchangeIntent",
                       "CandidatePreserveIntent", "FreshDbInvalidationIntent"}
      BY <2>2 DEF OpenIntent, IntentPhase
    <3> QED BY <2>2, <3>1, <3>2, <1>4 DEF ResolvedPlan, RollbackPlan
  <2> QED BY <2>1, <2>2
<1>6. p \in Phase
  BY <1>1 DEF next_rollback_phase, next_pending_phase, Phase, RollbackPhase
<1> HIDE DEF plan, p
<1>7. n \in TransitionRecord
  BY Zenon, <1>2, <1>3, <1>5, <1>6 DEF TransitionRecord
<1> QED BY <1>1, <1>7

\* A boot-repair edge keeps the record typed.
LEMMA RepairConstructors ==
  ASSUME NEW r \in TransitionRecord, NEW n,
         \/ n \in boot_repair_started_successor(r)
         \/ \E outcome \in RollbackActionOutcome : n \in boot_repair_complete_successor(r, outcome)
         \/ n \in boot_repair_unverified_successor(r)
         \/ n \in boot_repair_rollback_complete_successor(r)
  PROVE  n \in TransitionRecord /\ validate_advance(r, n)
<1>1. PICK boot \in BootRollback, p \in Phase :
        /\ validate_advance(r, n)
        /\ \/ n = [r EXCEPT !.generation = r.generation + 1, !.phase = p]
           \/ /\ r.phase = "BootRepairStarted"
              /\ n = [r EXCEPT !.generation = r.generation + 1, !.phase = p, !.rollback.boot = boot]
  <2>1. CASE n \in boot_repair_started_successor(r)
    <3>1. "BootRepairStarted" \in Phase /\ "Applied" \in BootRollback
      BY DEF Phase, RollbackPhase, BootRollback
    <3> QED BY Zenon, <2>1, <3>1 DEF boot_repair_started_successor, Checked
  <2>2. CASE n \in boot_repair_unverified_successor(r)
    <3>1. "BootRepairUnverified" \in Phase /\ "Unverified" \in BootRollback
      BY DEF Phase, RollbackPhase, BootRollback
    <3> QED BY Zenon, <2>2, <3>1 DEF boot_repair_unverified_successor, Checked
  <2>3. CASE n \in boot_repair_rollback_complete_successor(r)
    <3>1. "RollbackComplete" \in Phase /\ "Applied" \in BootRollback
      BY DEF Phase, RollbackPhase, BootRollback
    <3> QED BY Zenon, <2>3, <3>1 DEF boot_repair_rollback_complete_successor, Checked
  <2>4. CASE \E outcome \in RollbackActionOutcome : n \in boot_repair_complete_successor(r, outcome)
    <3>1. PICK outcome \in RollbackActionOutcome : n \in boot_repair_complete_successor(r, outcome)
      BY <2>4
    <3>2. "BootRepairComplete" \in Phase /\ outcome \in BootRollback
      BY DEF Phase, RollbackPhase, BootRollback, RollbackActionOutcome
    <3> QED BY Zenon, <3>1, <3>2 DEF boot_repair_complete_successor, Checked
  <2> QED BY Zenon, <2>1, <2>2, <2>3, <2>4
<1>2. r.generation + 1 \in 1..MaxGeneration
  BY <1>1, GenerationAssumption DEF validate_advance, TransitionRecord
<1>3. r.phase = "BootRepairStarted" => r.rollback \in RollbackPlan
  BY <1>1 DEF validate_advance, validate, TransitionRecord, ForwardPhase
<1>4. n \in TransitionRecord
  <2>1. CASE n = [r EXCEPT !.generation = r.generation + 1, !.phase = p]
    BY Zenon, <1>2, <2>1 DEF TransitionRecord
  <2>2. CASE /\ r.phase = "BootRepairStarted"
             /\ n = [r EXCEPT !.generation = r.generation + 1, !.phase = p, !.rollback.boot = boot]
    <3>1. [r.rollback EXCEPT !.boot = boot] \in RollbackPlan
      BY <1>3, <2>2 DEF RollbackPlan
    <3>2. n = [r EXCEPT !.generation = r.generation + 1, !.phase = p,
                        !.rollback = [r.rollback EXCEPT !.boot = boot]]
      BY <2>2 DEF TransitionRecord
    <3> QED BY Zenon, <1>2, <3>1, <3>2 DEF TransitionRecord
  <2> QED BY <1>1, <2>1, <2>2
<1> QED BY <1>1, <1>4

\* The first record of a transition is typed and valid.
LEMMA PreparingConstructor ==
  ASSUME NEW id \in TransitionId, NEW operation \in Operation,
         NEW candidate_id \in StateId \cup {None}, NEW previous_id \in StateId \cup {None},
         NEW previous_origin \in PreviousOrigin, NEW sys \in BOOLEAN, NEW boot \in BOOLEAN,
         NEW n \in preparing(id, operation, candidate_id, previous_id, previous_origin, sys, boot)
  PROVE  n \in TransitionRecord /\ validate(n) /\ n.version = 3
<1> DEFINE options == [archive_previous |-> previous_origin = "ActiveState",
                       run_system_triggers |-> sys, run_boot_sync |-> boot]
<1>1. options \in TransitionOptions
  BY DEF TransitionOptions
<1>2. /\ n = [version |-> 3, generation |-> 1, transition_id |-> id, operation |-> operation,
              phase |-> "Preparing", rollback |-> None, receipts |-> None,
              candidate_id |-> candidate_id, previous_id |-> previous_id,
              previous_origin |-> previous_origin, options |-> options]
      /\ validate(n)
  BY DEF preparing
<1>3. 1 \in 1..MaxGeneration /\ 3 \in 1..3 /\ "Preparing" \in Phase
  BY GenerationAssumption DEF Phase, ForwardPhase
<1> HIDE DEF options
<1> QED BY <1>1, <1>2, <1>3 DEF TransitionRecord

-----------------------------------------------------------------------------
(* Validation accepts exactly what the constructors build *)

\* Records with equal fields are equal.
LEMMA RecordExtensionality ==
  ASSUME NEW a \in TransitionRecord, NEW b \in TransitionRecord,
         a.version = b.version, a.generation = b.generation, a.transition_id = b.transition_id,
         a.operation = b.operation, a.phase = b.phase, a.rollback = b.rollback,
         a.receipts = b.receipts, a.candidate_id = b.candidate_id, a.previous_id = b.previous_id,
         a.previous_origin = b.previous_origin, a.options = b.options
  PROVE  a = b
BY DEF TransitionRecord

\* Plans with equal fields are equal.
LEMMA PlanExtensionality ==
  ASSUME NEW a \in RollbackPlan, NEW b \in RollbackPlan,
         a.source = b.source, a.previous_archive = b.previous_archive,
         a.usr_exchange = b.usr_exchange, a.candidate = b.candidate,
         a.disposition = b.disposition, a.fresh_db = b.fresh_db, a.boot = b.boot,
         a.external_effects_may_remain = b.external_effects_may_remain
  PROVE  a = b
BY DEF RollbackPlan

\* Every constructor contributes to Successors.
LEMMA InSuccessors ==
  ASSUME NEW r, NEW n,
         \/ \E id \in StateId \cup {None} : n \in forward_successor(r, id)
         \/ \E pair \in ReceiptPair : n \in boot_sync_started_successor(r, pair)
         \/ \E pair \in ReceiptPair : n \in boot_sync_complete_successor(r, pair)
         \/ \E obs \in RollbackObservations : n \in rollback_decision(r, obs)
         \/ \E outcome \in RollbackActionOutcome \cup {None} : n \in rollback_successor(r, outcome)
         \/ \E outcome \in RollbackActionOutcome : n \in boot_repair_complete_successor(r, outcome)
         \/ n \in boot_repair_started_successor(r)
         \/ n \in boot_repair_unverified_successor(r)
         \/ n \in boot_repair_rollback_complete_successor(r)
  PROVE  n \in Successors(r)
<1>1. ASSUME NEW id \in StateId \cup {None}, n \in forward_successor(r, id) PROVE n \in Successors(r)
  <2>1. n \in ForwardSuccessors(r)
    BY <1>1, Zenon DEF ForwardSuccessors
  <2> QED BY <2>1 DEF Successors
<1>2. ASSUME NEW pair \in ReceiptPair, n \in boot_sync_started_successor(r, pair) PROVE n \in Successors(r)
  <2>1. n \in BootSyncSuccessors(r)
    BY <1>2, Zenon DEF BootSyncSuccessors
  <2> QED BY <2>1 DEF Successors
<1>3. ASSUME NEW pair \in ReceiptPair, n \in boot_sync_complete_successor(r, pair) PROVE n \in Successors(r)
  <2>1. n \in BootSyncSuccessors(r)
    BY <1>3, Zenon DEF BootSyncSuccessors
  <2> QED BY <2>1 DEF Successors
<1>4. ASSUME NEW obs \in RollbackObservations, n \in rollback_decision(r, obs) PROVE n \in Successors(r)
  <2>1. n \in DecisionSuccessors(r)
    BY <1>4, Zenon DEF DecisionSuccessors
  <2> QED BY <2>1 DEF Successors
<1>5. ASSUME NEW outcome \in RollbackActionOutcome \cup {None}, n \in rollback_successor(r, outcome)
      PROVE  n \in Successors(r)
  <2>1. n \in RollbackSuccessors(r)
    BY <1>5, Zenon DEF RollbackSuccessors
  <2> QED BY <2>1 DEF Successors
<1>6. ASSUME NEW outcome \in RollbackActionOutcome, n \in boot_repair_complete_successor(r, outcome)
      PROVE  n \in Successors(r)
  <2>1. n \in RepairOutcomes(r)
    BY <1>6, Zenon DEF RepairOutcomes
  <2> QED BY <2>1 DEF Successors
<1>7. CASE n \in boot_repair_started_successor(r)
  BY <1>7 DEF Successors
<1>8. CASE n \in boot_repair_unverified_successor(r)
  BY <1>8 DEF Successors
<1>9. CASE n \in boot_repair_rollback_complete_successor(r)
  BY <1>9 DEF Successors
<1> QED BY <1>1, <1>2, <1>3, <1>4, <1>5, <1>6, <1>7, <1>8, <1>9

\* A forward edge that validate_advance accepts is the one forward_successor or
\* a boot-publication constructor builds.
LEMMA ForwardConstructed ==
  ASSUME NEW r \in TransitionRecord, NEW n \in TransitionRecord, r.version = 3,
         validate_advance(r, n), n.phase \in ForwardPhase
  PROVE  n \in Successors(r)
<1>1. /\ validate(r) /\ validate(n)
      /\ n.generation = r.generation + 1
      /\ r.phase \in ForwardPhase
      /\ n.phase = next_forward_phase(r)
  BY DEF validate_advance, PhaseAdvance, ForwardPhase, RollbackPhase
<1>2. r.rollback = None /\ n.rollback = None
  BY <1>1 DEF validate
<1>3. n.phase \in Phase /\ n.phase # None
  BY NoneAssumption DEF TransitionRecord
<1>4. \A m \in TransitionRecord :
        (/\ m.generation = r.generation + 1 /\ m.phase = n.phase
         /\ m.receipts = n.receipts /\ m.candidate_id = n.candidate_id
         /\ m.rollback = None /\ m.version = r.version /\ m.transition_id = r.transition_id
         /\ m.operation = r.operation /\ m.previous_id = r.previous_id
         /\ m.previous_origin = r.previous_origin /\ m.options = r.options) => m = n
  BY <1>1, <1>2, RecordExtensionality DEF validate_advance
<1>5. r.generation + 1 \in 1..MaxGeneration
  BY <1>1 DEF TransitionRecord
<1>6. CASE n.phase \notin {"BootSyncStarted", "BootSyncComplete"}
  <2> DEFINE id == IF r.phase = "FreshStateAllocating" THEN n.candidate_id ELSE None
             m == [r EXCEPT !.generation = @ + 1, !.phase = next_forward_phase(r),
                            !.candidate_id = IF r.phase = "FreshStateAllocating" THEN id ELSE @]
  <2>1. n.receipts = r.receipts
    BY <1>6 DEF validate_advance
  <2>2. n.candidate_id = IF r.phase = "FreshStateAllocating" THEN id ELSE r.candidate_id
    BY <1>1 DEF validate_advance
  <2>3. id \in StateId \cup {None}
    BY DEF TransitionRecord
  <2>4. id # None => r.phase = "FreshStateAllocating"
    OBVIOUS
  <2> HIDE DEF id
  <2>5. m \in TransitionRecord
    BY ZenonT(60), <1>1, <1>3, <1>5, <2>3 DEF TransitionRecord
  <2>6. /\ m.generation = r.generation + 1 /\ m.phase = n.phase
        /\ m.receipts = n.receipts /\ m.candidate_id = n.candidate_id
        /\ m.rollback = None /\ m.version = r.version /\ m.transition_id = r.transition_id
        /\ m.operation = r.operation /\ m.previous_id = r.previous_id
        /\ m.previous_origin = r.previous_origin /\ m.options = r.options
    BY <1>1, <1>2, <2>1, <2>2 DEF TransitionRecord
  <2>7. n = m
    BY Zenon, <1>4, <2>5, <2>6
  <2>8. n \in forward_successor(r, id)
    BY <1>1, <1>3, <1>6, <2>4, <2>7 DEF forward_successor, Checked
  <2> QED BY <2>3, <2>8, InSuccessors
<1>7. CASE n.phase = "BootSyncStarted"
  <2> DEFINE m == [r EXCEPT !.generation = @ + 1, !.phase = "BootSyncStarted", !.receipts = n.receipts]
  <2>1. n.receipts \in ReceiptPair
    <3>1. n.receipts # None <=> n.options.run_boot_sync /\ ordinal("BootSyncStarted") >= ordinal("BootSyncStarted")
      BY <1>1, <1>7 DEF validate, validate_boot_publication_receipts, layout_phase, validate_advance, ForwardPhase
    <3>2. n.options.run_boot_sync
      BY <1>1, <1>7 DEF validate, validate_option_reachability, layout_phase, ForwardPhase
    <3>3. ordinal("BootSyncStarted") = 14
      BY DEF ordinal
    <3> QED BY <3>1, <3>2, <3>3 DEF TransitionRecord
  <2>2. n.candidate_id = r.candidate_id
    BY <1>1, <1>7 DEF validate_advance
  <2>3. m \in TransitionRecord
    BY Zenon, <1>5, <2>1 DEF TransitionRecord, Phase, ForwardPhase
  <2>4. n = m
    BY Zenon, <1>2, <1>4, <1>7, <2>2, <2>3 DEF TransitionRecord
  <2>5. n \in boot_sync_started_successor(r, n.receipts)
    BY <1>1, <1>7, <2>4 DEF boot_sync_started_successor, Checked
  <2> QED BY <2>1, <2>5, InSuccessors
<1>8. CASE n.phase = "BootSyncComplete"
  <2> DEFINE m == [r EXCEPT !.generation = @ + 1, !.phase = "BootSyncComplete"]
  <2>1. r.phase = "BootSyncStarted"
    BY <1>1, <1>3, <1>8, NoneAssumption DEF next_forward_phase, after_archive, after_system, ForwardPhase, Phase
  <2>2. r.receipts \in ReceiptPair
    <3>1. r.receipts # None <=> r.options.run_boot_sync /\ ordinal("BootSyncStarted") >= ordinal("BootSyncStarted")
      BY <1>1, <2>1 DEF validate, validate_boot_publication_receipts, layout_phase
    <3>2. r.options.run_boot_sync
      BY <1>1, <2>1 DEF validate, validate_option_reachability, layout_phase
    <3>3. ordinal("BootSyncStarted") = 14
      BY DEF ordinal
    <3> QED BY <3>1, <3>2, <3>3 DEF TransitionRecord
  <2>3. n.candidate_id = r.candidate_id /\ n.receipts = r.receipts
    BY <1>8, <2>1 DEF validate_advance
  <2>4. m \in TransitionRecord
    BY Zenon, <1>5 DEF TransitionRecord, Phase, ForwardPhase
  <2>5. n = m
    BY Zenon, <1>2, <1>4, <1>8, <2>3, <2>4 DEF TransitionRecord
  <2>6. n \in boot_sync_complete_successor(r, r.receipts)
    BY <1>1, <2>1, <2>5 DEF boot_sync_complete_successor, Checked
  <2> QED BY <2>2, <2>6, InSuccessors
<1> QED BY <1>6, <1>7, <1>8

\* A decision to roll back that validate_advance accepts has the plan
\* rollback_decision builds from some observations.
LEMMA DecisionConstructed ==
  ASSUME NEW r \in TransitionRecord, NEW n \in TransitionRecord,
         validate_advance(r, n), r.phase \in ForwardPhase, n.phase \in RollbackPhase
  PROVE  n \in Successors(r)
<1> DEFINE plan == n.rollback
           Observed(action) == IF action = "NotRequired" THEN None ELSE action
           obs == [allocated_candidate_id |-> IF r.candidate_id = None THEN n.candidate_id ELSE None,
                   previous_archive |-> Observed(plan.previous_archive),
                   usr_exchange |-> Observed(plan.usr_exchange),
                   candidate |-> plan.candidate,
                   fresh_db |-> Observed(plan.fresh_db)]
           built == [source |-> r.phase,
                     previous_archive |-> observed_initial_action(obs.previous_archive),
                     usr_exchange |-> observed_initial_action(obs.usr_exchange),
                     candidate |-> obs.candidate,
                     disposition |-> candidate_disposition_for(r, r.phase),
                     fresh_db |-> observed_initial_action(obs.fresh_db),
                     boot |-> IF boot_possible(r.phase) THEN "PendingUnverifiable" ELSE "NotRequired",
                     external_effects_may_remain |-> external_effects(r, r.phase)]
           m == [r EXCEPT !.generation = @ + 1, !.phase = "RollbackDecided",
                          !.candidate_id = IF r.candidate_id = None THEN obs.allocated_candidate_id ELSE @,
                          !.rollback = built]
<1>1. /\ validate(r) /\ validate(n)
      /\ n.generation = r.generation + 1
      /\ n.phase = "RollbackDecided"
      /\ rollback_allowed(r.phase)
      /\ plan.source = r.phase
      /\ n.receipts = r.receipts
  BY DEF validate_advance, PhaseAdvance, ForwardPhase, RollbackPhase
<1>2. plan # None /\ plan \in RollbackPlan
  BY <1>1 DEF validate, ForwardPhase, TransitionRecord
<1>3. /\ plan.previous_archive \in {"NotRequired", "Pending", "AlreadySatisfied"}
      /\ plan.usr_exchange \in {"NotRequired", "Pending", "AlreadySatisfied"}
      /\ plan.candidate \in {"NotRequired", "Pending", "AlreadySatisfied"}
      /\ plan.fresh_db \in {"NotRequired", "Pending", "AlreadySatisfied"}
      /\ plan.boot \in {"NotRequired", "PendingUnverifiable"}
  <2>1. validate_rollback_phase("RollbackDecided", plan)
    BY <1>1, <1>2 DEF validate
  <2>2. /\ \A i \in 1..4 : rollback_actions(plan)[i] # "Applied"
        /\ plan.boot \in {"NotRequired", "PendingUnverifiable"}
    BY <2>1 DEF validate_rollback_phase
  <2>3. /\ plan.previous_archive # "Applied" /\ plan.usr_exchange # "Applied"
        /\ plan.candidate # "Applied" /\ plan.fresh_db # "Applied"
    BY <2>2 DEF rollback_actions
  <2> QED BY <1>2, <2>2, <2>3 DEF RollbackPlan, RollbackAction
<1>4. /\ required(plan.previous_archive) <=> previous_possible(n, r.phase)
      /\ required(plan.usr_exchange) <=> usr_possible(r.phase)
      /\ required(plan.candidate)
      /\ required(plan.fresh_db) <=> fresh_possible(n, r.phase)
      /\ boot_possible(r.phase) <=> plan.boot # "NotRequired"
      /\ plan.disposition = candidate_disposition_for(n, r.phase)
      /\ plan.external_effects_may_remain <=> external_effects(n, r.phase)
  BY <1>1, <1>2 DEF validate, validate_rollback_plan
<1>5. /\ previous_possible(n, r.phase) <=> previous_possible(r, r.phase)
      /\ fresh_possible(n, r.phase) <=> fresh_possible(r, r.phase)
      /\ candidate_disposition_for(n, r.phase) = candidate_disposition_for(r, r.phase)
      /\ external_effects(n, r.phase) <=> external_effects(r, r.phase)
  BY DEF validate_advance, previous_possible, fresh_possible, candidate_disposition_for,
         external_effects, runs_transaction_triggers
<1>6. /\ obs.previous_archive # None <=> previous_possible(r, r.phase)
      /\ obs.usr_exchange # None <=> usr_possible(r.phase)
      /\ obs.fresh_db # None <=> fresh_possible(r, r.phase)
  BY <1>3, <1>4, <1>5, NoneAssumption DEF required, RollbackAction
<1>7. obs \in RollbackObservations
  BY <1>3, <1>4 DEF RollbackObservations, InitialRollbackAction, TransitionRecord, required
<1>8. /\ observed_initial_action(obs.previous_archive) = plan.previous_archive
      /\ observed_initial_action(obs.usr_exchange) = plan.usr_exchange
      /\ observed_initial_action(obs.fresh_db) = plan.fresh_db
  BY <1>3, NoneAssumption DEF observed_initial_action, RollbackAction
<1>9. built = plan
  <2>1. /\ built.source = plan.source
        /\ built.previous_archive = plan.previous_archive
        /\ built.usr_exchange = plan.usr_exchange
        /\ built.candidate = plan.candidate
        /\ built.fresh_db = plan.fresh_db
    BY Zenon, <1>1, <1>8
  <2>2. /\ built.disposition = plan.disposition
        /\ built.boot = plan.boot
    BY <1>3, <1>4, <1>5
  <2>3. external_effects(r, r.phase) = plan.external_effects_may_remain
    <3>1. external_effects(r, r.phase) \in BOOLEAN /\ plan.external_effects_may_remain \in BOOLEAN
      BY <1>2 DEF external_effects, RollbackPlan
    <3> QED BY <1>4, <1>5, <3>1
  <2>4. built \in RollbackPlan
    BY Zenon, <1>2, <2>1, <2>2, <2>3 DEF RollbackPlan
  <2> QED BY Zenon, <1>2, <2>1, <2>2, <2>3, <2>4, PlanExtensionality
<1>10. n.candidate_id = IF r.candidate_id = None THEN obs.allocated_candidate_id ELSE r.candidate_id
  BY Zenon DEF validate_advance
<1> HIDE DEF built, obs
<1>11. n = m
  <2>1. m \in TransitionRecord
    BY ZenonT(60), <1>1, <1>2, <1>9, <1>10 DEF TransitionRecord
  <2>2. /\ m.generation = n.generation /\ m.phase = n.phase /\ m.rollback = n.rollback
        /\ m.candidate_id = n.candidate_id /\ m.receipts = n.receipts
    BY <1>1, <1>9, <1>10 DEF TransitionRecord
  <2>3. /\ m.version = n.version /\ m.transition_id = n.transition_id
        /\ m.operation = n.operation /\ m.previous_id = n.previous_id
        /\ m.previous_origin = n.previous_origin /\ m.options = n.options
    BY DEF TransitionRecord, validate_advance
  <2> QED BY Zenon, <2>1, <2>2, <2>3, RecordExtensionality
<1>12. obs.allocated_candidate_id # None => r.candidate_id = None
  BY Zenon DEF obs
<1>13. n \in rollback_decision(r, obs)
  BY <1>1, <1>6, <1>11, <1>12 DEF rollback_decision, Checked, built
<1> QED BY <1>7, <1>13, InSuccessors

\* A record whose successor changes phase and plan only is that successor.
LEMMA RollbackEdge ==
  ASSUME NEW r \in TransitionRecord, NEW n \in TransitionRecord,
         validate_advance(r, n), r.phase \in RollbackPhase
  PROVE  /\ n.phase \in RollbackPhase
         /\ r.rollback \in RollbackPlan /\ n.rollback \in RollbackPlan
         /\ r.rollback # None
         /\ validate_rollback_plan_advance(r, n)
         /\ n = [r EXCEPT !.generation = r.generation + 1, !.phase = n.phase, !.rollback = n.rollback]
<1>1. /\ n.phase \in RollbackPhase
      /\ validate_rollback_plan_advance(r, n)
      /\ validate(r) /\ validate(n)
  BY DEF validate_advance, PhaseAdvance, ForwardPhase, RollbackPhase
<1>2. r.rollback # None /\ n.rollback # None
  BY <1>1 DEF validate, ForwardPhase, RollbackPhase
<1>3. r.rollback \in RollbackPlan /\ n.rollback \in RollbackPlan
  BY <1>2 DEF TransitionRecord
<1>4. n.candidate_id = r.candidate_id /\ n.receipts = r.receipts
  BY <1>1 DEF validate_advance, RollbackPhase
<1> DEFINE m == [r EXCEPT !.generation = r.generation + 1, !.phase = n.phase, !.rollback = n.rollback]
<1>5. m \in TransitionRecord
  BY Zenon DEF TransitionRecord, validate_advance
<1>6. /\ m.generation = n.generation /\ m.phase = n.phase /\ m.rollback = n.rollback
      /\ m.candidate_id = n.candidate_id /\ m.receipts = n.receipts
  BY <1>4 DEF TransitionRecord, validate_advance
<1>7. /\ m.version = n.version /\ m.transition_id = n.transition_id
      /\ m.operation = n.operation /\ m.previous_id = n.previous_id
      /\ m.previous_origin = n.previous_origin /\ m.options = n.options
  BY DEF TransitionRecord, validate_advance
<1>8. n = m
  BY Zenon, <1>5, <1>6, <1>7, RecordExtensionality
<1> QED BY <1>1, <1>2, <1>3, <1>8

\* A rollback edge that validate_advance accepts is one rollback_successor or a
\* boot-repair constructor builds.
LEMMA RollbackConstructed ==
  ASSUME NEW r \in TransitionRecord, NEW n \in TransitionRecord,
         validate_advance(r, n), r.phase \in RollbackPhase
  PROVE  n \in Successors(r)
<1> DEFINE before == r.rollback
           after == n.rollback
<1>1. /\ n.phase \in RollbackPhase
      /\ before \in RollbackPlan /\ after \in RollbackPlan
      /\ before # None
      /\ n = [r EXCEPT !.generation = r.generation + 1, !.phase = n.phase, !.rollback = after]
  BY Zenon, RollbackEdge
<1>2. /\ before.source = after.source
      /\ before.disposition = after.disposition
      /\ before.external_effects_may_remain = after.external_effects_may_remain
      /\ \A i \in 1..4 :
           IF r.phase = IntentPhase[i] /\ n.phase = DonePhase[i]
           THEN rollback_actions(before)[i] = "Pending" /\ resolved(rollback_actions(after)[i])
           ELSE rollback_actions(before)[i] = rollback_actions(after)[i]
      /\ before.boot = after.boot \/ r.phase = "BootRepairStarted"
  BY ZenonT(60), RollbackEdge DEF validate_rollback_plan_advance
<1>3. /\ IF r.phase = "PreviousRestoreIntent" /\ n.phase = "PreviousRestoredToStaging"
         THEN resolved(after.previous_archive) ELSE before.previous_archive = after.previous_archive
      /\ IF r.phase = "ReverseExchangeIntent" /\ n.phase = "UsrRestored"
         THEN resolved(after.usr_exchange) ELSE before.usr_exchange = after.usr_exchange
      /\ IF r.phase = "CandidatePreserveIntent" /\ n.phase = "CandidatePreserved"
         THEN resolved(after.candidate) ELSE before.candidate = after.candidate
      /\ IF r.phase = "FreshDbInvalidationIntent" /\ n.phase = "FreshDbInvalidated"
         THEN resolved(after.fresh_db) ELSE before.fresh_db = after.fresh_db
  <2>1. /\ 1 \in 1..4 /\ 2 \in 1..4 /\ 3 \in 1..4 /\ 4 \in 1..4
    OBVIOUS
  <2> QED BY <1>2, <2>1 DEF IntentPhase, DonePhase, rollback_actions
<1>4. \/ r.phase = "BootRepairStarted" /\ n.phase = "BootRepairComplete"
      \/ n.phase = next_rollback_phase(before, r.phase)
  BY DEF validate_advance, PhaseAdvance, ForwardPhase, RollbackPhase
<1>5. /\ ~blocks_advance(r.phase) /\ validate(n)
      /\ validate_rollback_phase(n.phase, after)
  BY <1>1, NoneAssumption DEF validate_advance, validate
<1>6. n.phase # None
  BY <1>1, NoneAssumption DEF Phase
<1>7. CASE r.phase \notin {"BootRepairRequired", "BootRepairStarted", "BootRepairComplete"}
  <2>1. n.phase = next_rollback_phase(before, r.phase)
    BY <1>4, <1>7
  <2> DEFINE outcome == CASE r.phase = "PreviousRestoreIntent" -> after.previous_archive
                          [] r.phase = "ReverseExchangeIntent" -> after.usr_exchange
                          [] r.phase = "CandidatePreserveIntent" -> after.candidate
                          [] r.phase = "FreshDbInvalidationIntent" -> after.fresh_db
                          [] OTHER -> None
  <2>2. OpenIntent(r) <=> r.phase \in {"PreviousRestoreIntent", "ReverseExchangeIntent",
                                       "CandidatePreserveIntent", "FreshDbInvalidationIntent"}
    BY DEF OpenIntent, IntentPhase
  <2>3. CASE OpenIntent(r)
    <3>1. outcome \in RollbackActionOutcome
      BY <1>3, <2>1, <2>2, <2>3 DEF next_rollback_phase, RollbackActionOutcome, resolved
    <3>2. outcome # None
      BY <3>1, NoneAssumption DEF RollbackActionOutcome, RollbackAction
    <3>3. after = ResolvedPlan(r, outcome)
      <4>1. ResolvedPlan(r, outcome) \in RollbackPlan
        BY <1>1, <2>2, <2>3, <3>1 DEF ResolvedPlan, RollbackPlan, RollbackActionOutcome, RollbackAction
      <4>2. /\ ResolvedPlan(r, outcome).previous_archive = after.previous_archive
            /\ ResolvedPlan(r, outcome).usr_exchange = after.usr_exchange
            /\ ResolvedPlan(r, outcome).candidate = after.candidate
            /\ ResolvedPlan(r, outcome).fresh_db = after.fresh_db
        BY <1>1, <1>3, <2>2, <2>3 DEF ResolvedPlan, RollbackPlan
      <4>3. /\ ResolvedPlan(r, outcome).source = after.source
            /\ ResolvedPlan(r, outcome).disposition = after.disposition
            /\ ResolvedPlan(r, outcome).boot = after.boot
            /\ ResolvedPlan(r, outcome).external_effects_may_remain = after.external_effects_may_remain
        BY <1>1, <1>2, <2>2, <2>3 DEF ResolvedPlan, RollbackPlan
      <4> QED BY <1>1, <4>1, <4>2, <4>3, PlanExtensionality
    <3> HIDE DEF outcome
    <3>4. n \in rollback_successor(r, outcome)
      BY <1>1, <1>6, <1>7, <2>1, <2>3, <3>2, <3>3 DEF rollback_successor, Checked
    <3> QED BY <3>1, <3>4, InSuccessors
  <2>4. CASE ~OpenIntent(r)
    <3>1. after = before
      BY <1>1, <1>2, <1>3, <1>7, <2>2, <2>4, PlanExtensionality
    <3>2. n \in rollback_successor(r, None)
      BY <1>1, <1>6, <1>7, <2>1, <2>4, <3>1 DEF rollback_successor, Checked
    <3> QED BY <3>2, InSuccessors
  <2> QED BY <2>3, <2>4
<1>8. CASE r.phase \in {"BootRepairRequired", "BootRepairComplete"}
  <2>1. after = before
    BY <1>1, <1>2, <1>3, <1>8, PlanExtensionality
  <2>2. n = [r EXCEPT !.generation = r.generation + 1, !.phase = n.phase]
    BY Zenon, <1>1, <2>1 DEF TransitionRecord
  <2>3. n.phase = IF r.phase = "BootRepairRequired" THEN "BootRepairStarted" ELSE "RollbackComplete"
    BY <1>4, <1>8 DEF next_rollback_phase
  <2>4. n \in boot_repair_started_successor(r) \cup boot_repair_rollback_complete_successor(r)
    BY Zenon, <1>8, <2>2, <2>3 DEF boot_repair_started_successor, boot_repair_rollback_complete_successor, Checked
  <2> QED BY <2>4, InSuccessors
<1>9. CASE r.phase = "BootRepairStarted"
  <2>1. after = [before EXCEPT !.boot = after.boot]
    <3>1. [before EXCEPT !.boot = after.boot] \in RollbackPlan
      BY <1>1 DEF RollbackPlan
    <3>2. /\ before.previous_archive = after.previous_archive /\ before.usr_exchange = after.usr_exchange
          /\ before.candidate = after.candidate /\ before.fresh_db = after.fresh_db
      BY <1>3, <1>9
    <3> QED BY <1>1, <1>2, <3>1, <3>2, PlanExtensionality DEF RollbackPlan
  <2>2. n = [r EXCEPT !.generation = r.generation + 1, !.phase = n.phase, !.rollback.boot = after.boot]
    <3>1. n = [r EXCEPT !.generation = r.generation + 1, !.phase = n.phase,
                        !.rollback = [before EXCEPT !.boot = after.boot]]
      BY Zenon, <1>1, <2>1
    <3> QED BY <3>1 DEF TransitionRecord
  <2>3. \/ n.phase = "BootRepairComplete" /\ after.boot \in RollbackActionOutcome
        \/ n.phase = "BootRepairUnverified" /\ after.boot = "Unverified"
    BY <1>4, <1>5, <1>9 DEF next_rollback_phase, validate_rollback_phase, RollbackActionOutcome
  <2>4. CASE n.phase = "BootRepairComplete"
    <3>1. n \in boot_repair_complete_successor(r, after.boot)
      BY <1>9, <2>2, <2>4 DEF boot_repair_complete_successor, Checked
    <3> QED BY <2>3, <2>4, <3>1, InSuccessors
  <2>5. CASE n.phase = "BootRepairUnverified"
    <3>1. n \in boot_repair_unverified_successor(r)
      BY Zenon, <1>9, <2>2, <2>3, <2>5 DEF boot_repair_unverified_successor, Checked
    <3> QED BY <3>1, InSuccessors
  <2> QED BY <2>3, <2>4, <2>5
<1> QED BY <1>7, <1>8, <1>9

\* validate_advance (validation.rs) accepts a successor of a version-3 record only
\* if some constructor of successors.rs builds exactly that record.
THEOREM AdvanceIsConstructed ==
  ASSUME NEW r \in TransitionRecord, NEW n \in TransitionRecord, r.version = 3, validate_advance(r, n)
  PROVE  n \in Successors(r)
<1>1. /\ r.phase \in ForwardPhase \/ r.phase \in RollbackPhase
      /\ n.phase \in ForwardPhase \/ n.phase \in RollbackPhase
  BY DEF TransitionRecord, Phase
<1> QED BY <1>1, ForwardConstructed, DecisionConstructed, RollbackConstructed

\* Whatever a constructor returns is a typed record.
LEMMA SuccessorsAreTyped ==
  ASSUME NEW r \in TransitionRecord, NEW n \in Successors(r)
  PROVE  n \in TransitionRecord
<1>1. CASE n \in ForwardSuccessors(r)
  <2>1. PICK id \in StateId \cup {None} : n \in forward_successor(r, id)
    BY <1>1, Zenon DEF ForwardSuccessors
  <2> QED BY <2>1, ForwardConstructor
<1>2. CASE n \in BootSyncSuccessors(r)
  <2>1. PICK pair \in ReceiptPair :
          n \in boot_sync_started_successor(r, pair) \cup boot_sync_complete_successor(r, pair)
    BY <1>2, Zenon DEF BootSyncSuccessors
  <2> QED BY <2>1, BootSyncConstructors
<1>3. CASE n \in DecisionSuccessors(r)
  <2>1. PICK obs \in RollbackObservations : n \in rollback_decision(r, obs)
    BY <1>3, Zenon DEF DecisionSuccessors
  <2> QED BY <2>1, DecisionConstructor
<1>4. CASE n \in RollbackSuccessors(r)
  <2>1. PICK outcome \in RollbackActionOutcome \cup {None} : n \in rollback_successor(r, outcome)
    BY <1>4, Zenon DEF RollbackSuccessors
  <2> QED BY <2>1, RollbackConstructor
<1>5. CASE n \in RepairOutcomes(r)
  <2>1. PICK outcome \in RollbackActionOutcome : n \in boot_repair_complete_successor(r, outcome)
    BY <1>5, Zenon DEF RepairOutcomes
  <2> QED BY <2>1, RepairConstructors
<1>6. CASE \/ n \in boot_repair_started_successor(r)
           \/ n \in boot_repair_unverified_successor(r)
           \/ n \in boot_repair_rollback_complete_successor(r)
  BY <1>6, RepairConstructors
<1> QED BY <1>1, <1>2, <1>3, <1>4, <1>5, <1>6 DEF Successors


\* What a constructor can return, seen from the outside.
LEMMA FromSuccessors ==
  ASSUME NEW r, NEW n \in Successors(r)
  PROVE  \/ \E id \in StateId \cup {None} : n \in forward_successor(r, id)
         \/ \E pair \in ReceiptPair : n \in boot_sync_started_successor(r, pair)
         \/ \E pair \in ReceiptPair : n \in boot_sync_complete_successor(r, pair)
         \/ \E obs \in RollbackObservations : n \in rollback_decision(r, obs)
         \/ \E outcome \in RollbackActionOutcome \cup {None} : n \in rollback_successor(r, outcome)
         \/ n \in boot_repair_started_successor(r)
         \/ \E outcome \in RollbackActionOutcome : n \in boot_repair_complete_successor(r, outcome)
         \/ n \in boot_repair_unverified_successor(r)
         \/ n \in boot_repair_rollback_complete_successor(r)
<1>1. CASE n \in ForwardSuccessors(r)
  BY <1>1, Zenon DEF ForwardSuccessors
<1>2. CASE n \in BootSyncSuccessors(r)
  BY <1>2, Zenon DEF BootSyncSuccessors
<1>3. CASE n \in DecisionSuccessors(r)
  BY <1>3, Zenon DEF DecisionSuccessors
<1>4. CASE n \in RollbackSuccessors(r)
  BY <1>4, Zenon DEF RollbackSuccessors
<1>5. CASE n \in RepairOutcomes(r)
  BY <1>5, Zenon DEF RepairOutcomes
<1> QED BY <1>1, <1>2, <1>3, <1>4, <1>5, Zenon DEF Successors
=============================================================================
