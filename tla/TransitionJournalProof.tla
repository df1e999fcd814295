------------------------ MODULE TransitionJournalProof ------------------------
(***************************************************************************)
(* Theorems about TransitionJournal, for every set of states, transitions  *)
(* and receipts and every bound on the generation.                         *)
(***************************************************************************)
EXTENDS TransitionJournal, TransitionRecordProof

\* Every stored record passed validate: create() and advance() refuse others.
Valid == journal # None => validate(journal)

\* Every step of the journal that changes a record is one validate_advance accepts.
LEMMA AdvanceIsChecked ==
  ASSUME TypeOK, Advance
  PROVE  /\ journal \in TransitionRecord
         /\ journal' \in TransitionRecord
         /\ validate_advance(journal, journal')
<1>1. journal \in TransitionRecord
  BY DEF TypeOK, Advance, AdvanceForward, StartBootSync, CompleteBootSync, DecideRollback, AdvanceRollback, RepairBoot
<1>2. CASE AdvanceForward
  BY <1>1, <1>2, ForwardConstructor DEF AdvanceForward
<1>3. CASE StartBootSync
  BY <1>1, <1>3, BootSyncConstructors DEF StartBootSync
<1>4. CASE CompleteBootSync
  BY <1>1, <1>4, BootSyncConstructors DEF CompleteBootSync
<1>5. CASE DecideRollback
  BY <1>1, <1>5, DecisionConstructor DEF DecideRollback
<1>6. CASE AdvanceRollback
  BY <1>1, <1>6, RollbackConstructor DEF AdvanceRollback
<1>7. CASE RepairBoot
  BY <1>1, <1>7, RepairConstructors DEF RepairBoot
<1> QED BY <1>2, <1>3, <1>4, <1>5, <1>6, <1>7 DEF Advance

-----------------------------------------------------------------------------
(* Safety *)

\* The inductive invariant: the stored record is typed, valid and of version 3,
\* the one version preparing() writes.
IInv == TypeOK /\ Valid /\ (journal # None => journal.version = 3)

LEMMA Inductive == Spec => []IInv
<1>1. Init => IInv
  BY DEF Init, IInv, TypeOK, Valid
<1>2. IInv /\ [Next]_vars => IInv'
  <2> SUFFICES ASSUME IInv, [Next]_vars PROVE IInv'
    OBVIOUS
  <2> USE DEF IInv
  <2>1. CASE Create
    BY <2>1, PreparingConstructor DEF Create, TypeOK, Valid
  <2>2. CASE Advance
    <3>1. journal' \in TransitionRecord /\ validate_advance(journal, journal') /\ journal \in TransitionRecord
      BY <2>2, AdvanceIsChecked
    <3>2. validate(journal') /\ journal'.version = journal.version
      BY <3>1 DEF validate_advance
    <3> QED BY <3>1, <3>2, NoneAssumption DEF TypeOK, Valid
  <2>3. CASE Delete
    BY <2>3 DEF Delete, TypeOK, Valid
  <2>4. CASE UNCHANGED vars
    BY <2>4 DEF vars, TypeOK, Valid
  <2> QED BY <2>1, <2>2, <2>3, <2>4 DEF Next
<1> QED BY <1>1, <1>2, PTL DEF Spec

\* The journal only ever holds a record of the declared shape, whatever create,
\* advance and delete did before (TransitionRecord, model.rs).
THEOREM TypeCorrect == Spec => []TypeOK
<1>1. IInv => TypeOK
  BY DEF IInv
<1> QED BY <1>1, Inductive, PTL

\* No rollback is decided for a transition whose boot publication is complete.
THEOREM CommitFinal == Spec => CommitIsFinal
<1>1. IInv /\ [Next]_vars =>
        [journal # None /\ journal' # None /\ Committed(journal) => Committed(journal')]_vars
  <2> SUFFICES ASSUME IInv, [Next]_vars, journal # None, journal' # None, Committed(journal), ~UNCHANGED vars
               PROVE  Committed(journal')
    OBVIOUS
  <2>1. Advance
    BY DEF Next, Create, Delete
  <2>2. validate_advance(journal, journal')
    BY <2>1, AdvanceIsChecked DEF IInv
  <2>3. PhaseAdvance(journal, journal') /\ ~blocks_advance(journal.phase)
    BY <2>2 DEF validate_advance
  <2>4. journal.phase \in ForwardPhase /\ ~rollback_allowed(journal.phase)
    BY DEF Committed, rollback_allowed, ordinal, ForwardPhase
  <2>5. journal'.phase = next_forward_phase(journal)
    BY <2>3, <2>4 DEF PhaseAdvance, ForwardPhase, RollbackPhase
  <2> QED BY <2>3, <2>5 DEF Committed, next_forward_phase, blocks_advance
<1> QED BY <1>1, Inductive, PTL DEF Spec, CommitIsFinal

\* A completed rollback has accounted for the row that NewState inserted.
THEOREM FreshRow == Spec => []FreshRowNotForgotten
<1>1. IInv => FreshRowNotForgotten
  <2> SUFFICES ASSUME IInv, journal # None, journal.operation = "NewState",
                      journal.phase = "RollbackComplete", journal.candidate_id # None
               PROVE  resolved(journal.rollback.fresh_db)
    BY DEF FreshRowNotForgotten
  <2>1. journal \in TransitionRecord /\ validate(journal)
    BY DEF IInv, TypeOK, Valid
  <2>2. journal.rollback # None
    BY <2>1 DEF validate, ForwardPhase
  <2>3. journal.rollback \in RollbackPlan
    BY <2>1, <2>2 DEF TransitionRecord
  <2>4. Settled(journal.rollback.fresh_db)
    BY <2>1, <2>2 DEF validate, validate_rollback_phase, ordinary_actions_resolved, rollback_actions
  <2>5. required(journal.rollback.fresh_db)
    <3>1. validate_candidate_layout(journal, journal.rollback.source)
      BY <2>1 DEF validate, layout_phase, ForwardPhase
    <3>2. required(journal.rollback.fresh_db) <=> fresh_possible(journal, journal.rollback.source)
      BY <2>1, <2>2 DEF validate, validate_rollback_plan
    <3>3. journal.rollback.source # "Preparing"
      BY <3>1 DEF validate_candidate_layout
    <3> QED BY <2>3, <3>2, <3>3 DEF fresh_possible, RollbackPlan, ForwardPhase, ordinal
  <2> QED BY <2>4, <2>5 DEF Settled
<1> QED BY <1>1, Inductive, PTL

-----------------------------------------------------------------------------
(* Near misses *)

\* Changing one part of a typed record leaves it typed.
LEMMA PerturbedIsTyped ==
  ASSUME NEW r \in TransitionRecord, NEW n \in Perturbed(r)
  PROVE  n \in TransitionRecord
<1>1. CASE \E p \in Phase : n = [r EXCEPT !.phase = p]
  BY <1>1 DEF TransitionRecord
<1>2. CASE \E pair \in ReceiptPair \cup {None} : n = [r EXCEPT !.receipts = pair]
  BY <1>2 DEF TransitionRecord
<1>3. CASE \E id \in StateId \cup {None} : n = [r EXCEPT !.candidate_id = id]
  BY <1>3 DEF TransitionRecord
<1>4. CASE /\ r.rollback # None
           /\ n \in PerturbedPlan(r)
  <2>1. r.rollback \in RollbackPlan
    BY <1>4 DEF TransitionRecord
  <2>2. PICK plan \in RollbackPlan : n = [r EXCEPT !.rollback = plan]
    <3>1. CASE \E a \in RollbackAction : n = [r EXCEPT !.rollback.previous_archive = a]
      <4>1. PICK a \in RollbackAction : n = [r EXCEPT !.rollback = [r.rollback EXCEPT !.previous_archive = a]]
        BY <3>1 DEF TransitionRecord
      <4> QED BY Zenon, <2>1, <4>1 DEF RollbackPlan
    <3>2. CASE \E a \in RollbackAction : n = [r EXCEPT !.rollback.usr_exchange = a]
      <4>1. PICK a \in RollbackAction : n = [r EXCEPT !.rollback = [r.rollback EXCEPT !.usr_exchange = a]]
        BY <3>2 DEF TransitionRecord
      <4> QED BY Zenon, <2>1, <4>1 DEF RollbackPlan
    <3>3. CASE \E a \in RollbackAction : n = [r EXCEPT !.rollback.candidate = a]
      <4>1. PICK a \in RollbackAction : n = [r EXCEPT !.rollback = [r.rollback EXCEPT !.candidate = a]]
        BY <3>3 DEF TransitionRecord
      <4> QED BY Zenon, <2>1, <4>1 DEF RollbackPlan
    <3>4. CASE \E a \in RollbackAction : n = [r EXCEPT !.rollback.fresh_db = a]
      <4>1. PICK a \in RollbackAction : n = [r EXCEPT !.rollback = [r.rollback EXCEPT !.fresh_db = a]]
        BY <3>4 DEF TransitionRecord
      <4> QED BY Zenon, <2>1, <4>1 DEF RollbackPlan
    <3>5. CASE \E p \in ForwardPhase : n = [r EXCEPT !.rollback.source = p]
      <4>1. PICK p \in ForwardPhase : n = [r EXCEPT !.rollback = [r.rollback EXCEPT !.source = p]]
        BY <3>5 DEF TransitionRecord
      <4> QED BY Zenon, <2>1, <4>1 DEF RollbackPlan
    <3>6. CASE \E d \in AbortDisposition : n = [r EXCEPT !.rollback.disposition = d]
      <4>1. PICK d \in AbortDisposition : n = [r EXCEPT !.rollback = [r.rollback EXCEPT !.disposition = d]]
        BY <3>6 DEF TransitionRecord
      <4> QED BY Zenon, <2>1, <4>1 DEF RollbackPlan
    <3>7. CASE \E b \in BootRollback : n = [r EXCEPT !.rollback.boot = b]
      <4>1. PICK b \in BootRollback : n = [r EXCEPT !.rollback = [r.rollback EXCEPT !.boot = b]]
        BY <3>7 DEF TransitionRecord
      <4> QED BY Zenon, <2>1, <4>1 DEF RollbackPlan
    <3>8. CASE \E e \in BOOLEAN : n = [r EXCEPT !.rollback.external_effects_may_remain = e]
      <4>1. PICK e \in BOOLEAN : n = [r EXCEPT !.rollback = [r.rollback EXCEPT !.external_effects_may_remain = e]]
        BY <3>8 DEF TransitionRecord
      <4> QED BY Zenon, <2>1, <4>1 DEF RollbackPlan
    <3> QED BY <1>4, <3>1, <3>2, <3>3, <3>4, <3>5, <3>6, <3>7, <3>8 DEF PerturbedPlan
  <2> QED BY <2>2 DEF TransitionRecord
<1> QED BY <1>1, <1>2, <1>3, <1>4 DEF Perturbed

\* What startup may find where a successor was being written is the predecessor
\* or the one record that was built: validate_advance accepts no near miss.
THEOREM NoNearMiss == Spec => []SoleSuccessor
<1>1. IInv => SoleSuccessor
  <2> SUFFICES ASSUME IInv, journal # None,
                      NEW s \in Successors(journal) \cup {[journal EXCEPT !.generation = @ + 1]},
                      NEW n \in Perturbed(s), validate_advance(journal, n)
               PROVE  n \in Successors(journal)
    BY Zenon DEF SoleSuccessor
  <2>1. journal \in TransitionRecord /\ journal.version = 3
    BY DEF IInv, TypeOK
  <2>2. s \in TransitionRecord
    <3>1. CASE s \in Successors(journal)
      BY <2>1, <3>1, SuccessorsAreTyped
    <3>2. CASE s = [journal EXCEPT !.generation = @ + 1]
      BY <2>1, <3>2, GenerationAssumption DEF TransitionRecord, validate_advance
    <3> QED BY <3>1, <3>2
  <2> QED BY <2>1, <2>2, PerturbedIsTyped, AdvanceIsConstructed
<1> QED BY <1>1, Inductive, PTL
=============================================================================
