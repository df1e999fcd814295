-------------------------- MODULE TransitionsProof --------------------------
(***************************************************************************)
(* The stateful transition of install, remove and activate, for every set  *)
(* of states: whatever step is interrupted, by an error, a kill or a power *)
(* failure, the live tree belongs to a state the database knows, no state  *)
(* loses its tree or has it under two names, and an end that is reported   *)
(* as complete is complete.                                                *)
(***************************************************************************)
EXTENDS States, TransitionSteps, FiniteSetTheorems

(* The run starts a transition from a namespace in which every tree has its
   place. *)
LEMMA InvStarts ==
  Init => IInv
<1> SUFFICES ASSUME Init, subject = "transition" PROVE TransitionInv
  BY Zenon DEF IInv
<1>1. TransitionInit
  BY Zenon DEF Init, StateInit, StartupInit
<1> QED
  BY ZenonT(60), <1>1, TransitionStarts

(* Only steps of the transition change what the transition is about. *)
LEMMA SubjectStays ==
  ASSUME [Next]_vars
  PROVE  /\ subject' = subject
         /\ subject = "transition" => TransitionNext \/ UNCHANGED <<ns, disk, rows, boot, t, last>>
<1>1. CASE UNCHANGED vars
  BY <1>1, Zenon DEF vars, StateOwn
<1>2. CASE StateNext
  BY <1>2, Zenon DEF StateNext, TransitionOnly, PruneOnly, RepairOnly
<1>3. CASE StartupNext
  BY <1>3, Zenon DEF StartupNext, EffectOnly, ParentsOnly
<1> QED
  BY <1>1, <1>2, <1>3, Zenon DEF Next

(* Every step of the run keeps the invariant. *)
LEMMA InvStays ==
  ASSUME IInv, [Next]_vars
  PROVE  IInv'
<1> SUFFICES ASSUME subject' = "transition" PROVE TransitionInv'
  BY Zenon DEF IInv
<1>1. subject = "transition" /\ TransitionInv /\ (TransitionNext \/ UNCHANGED <<ns, disk, rows, boot, t, last>>)
  BY Zenon, SubjectStays DEF IInv
<1>2. CASE TransitionNext
  BY ZenonT(60), <1>1, <1>2, TransitionStep
<1>3. CASE UNCHANGED <<ns, disk, rows, boot, t, last>>
  BY ZenonT(60), <1>1, <1>3, StillInv
<1> QED
  BY ZenonT(60), <1>1, <1>2, <1>3

(* At every instant of a transition, whatever step fails or is cut off, the
   facts of the table hold of the namespaces that may survive
   (stateful_transition.rs). *)
THEOREM TransitionInvariant ==
  Spec => []IInv
<1>1. Init => IInv
  BY Zenon, InvStarts
<1>2. IInv /\ [Next]_vars => IInv'
  BY Zenon, InvStays
<1> QED
  BY <1>1, <1>2, PTL DEF Spec

-----------------------------------------------------------------------------
(* In a namespace where every tree has one place, no tree has two names. *)
LEMMA NamedOnce ==
  ASSUME NEW d, OnePlace(d), NEW s \in States
  PROVE  Cardinality(Names(d, s)) <= 1
<1>1. \A e, f \in Names(d, s) : e = f
  <2> SUFFICES ASSUME NEW e \in Names(d, s), NEW f \in Names(d, s) PROVE e = f
    BY Zenon
  <2>1. /\ d.live = s => d.staging.usr # s /\ s \notin d.quarantine /\ ~Slotted(d, s)
        /\ d.staging.usr = s => s \notin d.quarantine /\ ~Slotted(d, s)
        /\ s \in d.quarantine => ~Slotted(d, s)
    BY Zenon DEF OnePlace
  <2>2. \/ e = <<"slot", s>> /\ Slotted(d, s)
        \/ e = <<"live", s>> /\ d.live = s
        \/ e = <<"staging", s>> /\ d.staging.usr = s
        \/ e = <<"quarantine", s>> /\ s \in d.quarantine
    BY WhereNamed, Zenon
  <2>3. \/ f = <<"slot", s>> /\ Slotted(d, s)
        \/ f = <<"live", s>> /\ d.live = s
        \/ f = <<"staging", s>> /\ d.staging.usr = s
        \/ f = <<"quarantine", s>> /\ s \in d.quarantine
    BY WhereNamed, Zenon
  <2> QED
    BY <2>1, <2>2, <2>3
<1>2. CASE Names(d, s) = {}
  BY <1>2, FS_EmptySet
<1>3. CASE Names(d, s) # {}
  <2>1. PICK e : Names(d, s) = {e}
    BY Zenon, <1>1, <1>3
  <2> QED
    BY <2>1, FS_Singleton
<1> QED
  BY ZenonT(60), <1>2, <1>3

(* The invariant says what the run checks of a transition. *)
LEMMA TreesAreKept ==
  ASSUME IInv
  PROVE  TransitionsKeepStates
<1> SUFFICES ASSUME subject = "transition" PROVE TransitionsKeepStates
  BY Zenon DEF TransitionsKeepStates, LiveHasRow, EndIsWhole, OneTreeEach
<1>1. Safe /\ EndIsWhole
  BY Zenon DEF IInv, TransitionInv
<1>2. LiveHasRow
  BY <1>1, Zenon DEF Safe, NamespaceOK, Known, LiveHasRow
<1>3. OneTreeEach
  <2> SUFFICES ASSUME NEW d \in disk, NEW s \in rows
      PROVE  /\ Cardinality(Names(d, s)) <= 1
             /\ s \notin New \/ d.live = s \/ ns.live = s => Names(d, s) # {}
    BY Zenon DEF OneTreeEach
  <2>1. s \in States /\ NamespaceOK(d)
    BY ZenonT(60), <1>1 DEF Safe
  <2>2. Cardinality(Names(d, s)) <= 1
    BY <2>1, NamedOnce, Zenon DEF NamespaceOK
  <2>3. CASE s \notin New \/ d.live = s
    <3>1. Held(d, s)
      BY <2>1, <2>3, Zenon DEF NamespaceOK, Known, Held
    <3> QED
      BY <2>1, <2>2, <3>1, HeldIsNamed, Zenon
  <2>4. CASE ns.live = s
    <3>1. Held(d, s)
      BY ZenonT(60), <1>1, <2>1, <2>4, Wraps DEF Safe, HeldAll
    <3> QED
      BY <2>1, <2>2, <3>1, HeldIsNamed, Zenon
  <2> QED
    BY <2>2, <2>3, <2>4, Zenon
<1> QED
  BY <1>1, <1>2, <1>3, Zenon DEF TransitionsKeepStates

(* For every set of states: the live tree always belongs to a state with a row,
   no state has its tree under two names and none that was installed loses it,
   and a transition reported as committed, restored or preserved is that, on
   disk (commit_stateful_staging and its recovery). *)
THEOREM KeepsStates ==
  Spec => []TransitionsKeepStates
<1>1. IInv => TransitionsKeepStates
  BY ZenonT(60), TreesAreKept
<1> QED
  BY <1>1, TransitionInvariant, PTL

-----------------------------------------------------------------------------
(* The row of a state goes only when its tree is in the quarantine in every
   namespace that a power failure may leave: recover_failed_candidate never
   deletes the only correlation of a tree that is not preserved. *)
THEOREM RowsGoLast ==
  Spec => RowGoesLast
<1> DEFINE Kept1 == subject = "transition" => (\A s \in rows \ rows' : \A d \in disk' : s \in d.quarantine)
<1>1. IInv /\ [Next]_vars => [Kept1]_TransitionVars
  <2> SUFFICES ASSUME IInv, [Next]_vars, subject = "transition", NEW s \in rows \ rows', NEW d \in disk'
      PROVE  s \in d.quarantine
    BY Zenon
  <2>1. TransitionInv /\ TransitionNext
    BY Zenon, SubjectStays DEF IInv
  <2>2. t.step = "invalidate" /\ rows' = rows \ {t.cand} /\ disk' = {ns}
    BY ZenonT(60), <2>1, RowsStay
  <2>3. t.cand \in ns.quarantine
    BY ZenonT(60), <2>1, <2>2, NowRunning DEF Table, Isolated
  <2> QED
    BY ZenonT(60), <2>2, <2>3
<1> QED
  BY <1>1, TransitionInvariant, PTL DEF Spec, RowGoesLast
=============================================================================
