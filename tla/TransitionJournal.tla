-------------------------- MODULE TransitionJournal --------------------------
(***************************************************************************)
(* The transition journal as its callers see it: one register that is      *)
(* absent or holds one record, created, advanced through a constructor of  *)
(* TransitionRecord, and deleted.  JournalStore shows that the file        *)
(* protocol of crates/forge implements this register.                      *)
(***************************************************************************)
EXTENDS TransitionRecord

VARIABLE journal   \* None, or the one canonical record

vars == <<journal>>

TypeOK == journal \in TransitionRecord \cup {None}

Init == journal = None

\* TransitionJournalStore::create of a record made by preparing().
Create ==
  /\ journal = None
  /\ \E id \in TransitionId, operation \in Operation,
        candidate_id \in StateId \cup {None}, previous_id \in StateId \cup {None},
        previous_origin \in PreviousOrigin, sys \in BOOLEAN, boot \in BOOLEAN :
       journal' \in preparing(id, operation, candidate_id, previous_id, previous_origin, sys, boot)

\* A forward effect became durable and its phase is recorded.
AdvanceForward ==
  /\ journal # None
  /\ \E allocated \in StateId \cup {None} : journal' \in forward_successor(journal, allocated)

StartBootSync ==
  /\ journal # None
  /\ \E pair \in ReceiptPair : journal' \in boot_sync_started_successor(journal, pair)

CompleteBootSync ==
  /\ journal # None
  /\ \E pair \in ReceiptPair : journal' \in boot_sync_complete_successor(journal, pair)

DecideRollback ==
  /\ journal # None
  /\ \E obs \in RollbackObservations : journal' \in rollback_decision(journal, obs)

AdvanceRollback ==
  /\ journal # None
  /\ \E outcome \in RollbackActionOutcome \cup {None} : journal' \in rollback_successor(journal, outcome)

RepairBoot ==
  /\ journal # None
  /\ \/ journal' \in boot_repair_started_successor(journal)
     \/ \E outcome \in RollbackActionOutcome : journal' \in boot_repair_complete_successor(journal, outcome)
     \/ journal' \in boot_repair_unverified_successor(journal)
     \/ journal' \in boot_repair_rollback_complete_successor(journal)

\* delete() refuses every record that is not terminal.
Delete ==
  /\ journal # None
  /\ deletable(journal.phase)
  /\ journal' = None

Advance ==
  \/ AdvanceForward
  \/ StartBootSync
  \/ CompleteBootSync
  \/ DecideRollback
  \/ AdvanceRollback
  \/ RepairBoot

Next == Create \/ Advance \/ Delete

Spec == Init /\ [][Next]_vars

-----------------------------------------------------------------------------
(* Properties *)

\* Startup is never handed a record it cannot resume: in the direction that
\* recovery_disposition (recovery.rs) names, a constructor (successors.rs)
\* returns a record that passes validate_advance (validation.rs).  Only the
\* record of an unverified boot repair is meant to be stuck, and it is.
RecoveryRouteExists ==
  journal # None =>
    LET disposition == recovery_disposition(journal.phase) IN
      CASE disposition = "BeginRollback" ->
             \E obs \in RollbackObservations : rollback_decision(journal, obs) # {}
        [] disposition = "ResumeRollback" ->
             \E n \in Successors(journal) : n.rollback # None
        [] disposition = "RollForward" ->
             deletable(journal.phase) \/ \E n \in Successors(journal) : n.rollback = None
        [] disposition = "FinalizeRollback" -> deletable(journal.phase)
        [] disposition = "ManualBootRepair" -> Successors(journal) = {} /\ ~deletable(journal.phase)

\* The records that differ from n in one part of the rollback plan.
PerturbedPlan(n) ==
  {[n EXCEPT !.rollback.previous_archive = a] : a \in RollbackAction}
    \cup {[n EXCEPT !.rollback.usr_exchange = a] : a \in RollbackAction}
    \cup {[n EXCEPT !.rollback.candidate = a] : a \in RollbackAction}
    \cup {[n EXCEPT !.rollback.fresh_db = a] : a \in RollbackAction}
    \cup {[n EXCEPT !.rollback.source = p] : p \in ForwardPhase}
    \cup {[n EXCEPT !.rollback.disposition = d] : d \in AbortDisposition}
    \cup {[n EXCEPT !.rollback.boot = b] : b \in BootRollback}
    \cup {[n EXCEPT !.rollback.external_effects_may_remain = e] : e \in BOOLEAN}

\* The records that differ from n in one mutable part.
Perturbed(n) ==
  {[n EXCEPT !.phase = p] : p \in Phase}
    \cup {[n EXCEPT !.receipts = pair] : pair \in ReceiptPair \cup {None}}
    \cup {[n EXCEPT !.candidate_id = id] : id \in StateId \cup {None}}
    \cup IF n.rollback = None THEN {} ELSE PerturbedPlan(n)

\* What validate_advance lets through is what the constructors build, and no
\* more.  A failed advance is resolved at the next startup by comparing the
\* stored record with the predecessor and with the one successor that was
\* built: a record that is accepted without having been built would pass for a
\* step nobody took.  Checked for r itself and for every successor of r, each
\* changed in one part.
SoleSuccessor ==
  journal # None =>
    LET built == Successors(journal) IN
      \A s \in built \cup {[journal EXCEPT !.generation = @ + 1]} :
        \A n \in Perturbed(s) : validate_advance(journal, n) => n \in built

Committed(r) == r.phase \in {"BootSyncComplete", "CommitDecided", "CommitCleanupComplete", "Complete"}

\* Once the boot loader points at the candidate (BootSyncComplete) the
\* transition only rolls forward: rollback_allowed (validation.rs) refuses
\* every later decision to roll it back.
CommitIsFinal ==
  [][journal # None /\ journal' # None /\ Committed(journal) => Committed(journal')]_vars

\* The row that NewState inserted into the state database is never forgotten:
\* a rollback that knows its id can complete only with the row accounted for.
FreshRowNotForgotten ==
  (journal # None /\ journal.operation = "NewState" /\ journal.phase = "RollbackComplete"
     /\ journal.candidate_id # None) => resolved(journal.rollback.fresh_db)
=============================================================================
