------------------------------- MODULE States -------------------------------
(***************************************************************************)
(* A run over the transitions of states and their recovery at startup: a   *)
(* behaviour exercises one part of one of the modules.                     *)
(***************************************************************************)
EXTENDS StateArchives, Recovery

StateOwn == <<ns, disk, rows, boot, t, last, at, slot, bootloader, existing, names, intact, semantic, outside,
              moved, r>>
StartupOwn == <<journal, startup_ns, startup_disk, unsynced, row, origins, p, report, spent, family, node,
                clock>>
vars == <<subject, op, StateOwn, StartupOwn>>

StateAbsent ==
    /\ ns = None /\ disk = None /\ rows = None /\ boot = None /\ t = None /\ last = None /\ at = None
    /\ slot = None /\ bootloader = None /\ existing = None /\ names = None /\ intact = None
    /\ semantic = None /\ outside = None /\ moved = None /\ r = None
StartupAbsent ==
    /\ journal = None /\ startup_ns = None /\ startup_disk = None /\ unsynced = None /\ row = None
    /\ origins = None /\ p = None /\ report = None /\ spent = None /\ family = None /\ node = None
    /\ clock = None

Init ==
    \/ StateInit /\ StartupAbsent
    \/ StartupInit /\ StateAbsent

Next ==
    \/ StateNext /\ UNCHANGED <<StartupOwn>>
    \/ StartupNext /\ UNCHANGED <<StateOwn>>

Spec == Init /\ [][Next]_vars
        /\ WF_StateVars(TransitionOnly /\ (Forward \/ Recovery))
        /\ WF_StartupVars(EffectOnly /\ Startup)

-----------------------------------------------------------------------------
(* Properties *)

\* At every instant of a transition and after every crash the live tree is one
\* the database knows, each state has one tree, and an end that is reported is
\* whole (stateful_transition.rs).
TransitionsKeepStates == LiveHasRow /\ EndIsWhole /\ OneTreeEach

\* A prune or a repair leaves rows, wrappers and boot entries that agree; no
\* file goes before its row, and a repaired archive is never empty
\* (prune_states_inner, synchronize_excluding, archived repair).
ArchivesStayWhole ==
    /\ StateTypeOK
    /\ CleanIsConsistent /\ DeletionFollowsCommit /\ BootEntriesAreBacked /\ OutcomeIsTrue /\ ArchiveIsNeverEmpty

\* What the journal says of an effect of startup recovery is on disk, was done
\* by the startup it names, on the names and directories that were witnessed
\* (the effects of startup_reconciliation and their parents' durability).
RecoveryIsBacked ==
    /\ StartupTypeOK
    /\ OriginIsTrue /\ AdvanceIsBacked /\ CandidateIsFindable /\ ReportIsTrue /\ ActsOnWitnessed
    /\ AppliedIsTheCall /\ DurableIsOnDisk /\ TargetIsAnchored /\ UndisturbedIsNeverRefused

\* No step takes back what is done: a row goes after its tree is in quarantine,
\* a verified repair stays, no rename is repeated, and no startup exchanges /usr
\* or the wrappers a second time.
NoStepGoesBack == RowGoesLast /\ PublishesVerified /\ RenamesOnce /\ NeverUndone

\* Every transition that is not killed ends, and startups repeated often enough
\* finish what was interrupted.
TransitionsSettle == EveryTransitionEnds /\ EveryTransitionFinishes
=============================================================================
