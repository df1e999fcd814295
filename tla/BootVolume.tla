----------------------------- MODULE BootVolume -----------------------------
(***************************************************************************)
(* A run over the plan of the boot volume and its publication: a behaviour *)
(* exercises one part of one of the modules.                               *)
(***************************************************************************)
EXTENDS BootPublication, BootPlanning

PublicationOwn == <<vol, maybe, dir, db, jrn, base, touched, there, used, operation, journal, receipt, boot,
                    displaced, mount, tree, p, report, late, spent, child, safe, content, stamp, unsynced,
                    moves, faults, seen>>
PlanningOwn == <<in, step, work, outcome, sdb, ldb, pool, held, outside, at, shape, os, info, read,
                 planning_touched>>
vars == <<subject, op, PublicationOwn, PlanningOwn>>

PublicationAbsent ==
    /\ vol = None /\ maybe = None /\ dir = None /\ db = None /\ jrn = None /\ base = None /\ touched = None
    /\ there = None /\ used = None /\ operation = None /\ journal = None /\ receipt = None /\ boot = None
    /\ displaced = None /\ mount = None /\ tree = None /\ p = None /\ report = None /\ late = None
    /\ spent = None /\ child = None /\ safe = None /\ content = None /\ stamp = None /\ unsynced = None
    /\ moves = None /\ faults = None /\ seen = None
PlanningAbsent ==
    /\ in = None /\ step = None /\ work = None /\ outcome = None /\ sdb = None /\ ldb = None /\ pool = None
    /\ held = None /\ outside = None /\ at = None /\ shape = None /\ os = None /\ info = None
    /\ read = None /\ planning_touched = None

Init ==
    \/ PublicationInit /\ PlanningAbsent
    \/ PlanningInit /\ PublicationAbsent

Next ==
    \/ PublicationNext /\ UNCHANGED <<PlanningOwn>>
    \/ PlanningNext /\ UNCHANGED <<PublicationOwn>>

Spec == Init /\ [][Next]_vars
        /\ WF_PublicationVars(FilesOnly /\ (Publish \/ Clean))
        /\ WF_PublicationVars(FilesOnly /\ Startup)
        /\ WF_PublicationVars(CommitOnly /\ Step)

-----------------------------------------------------------------------------
(* Properties *)

\* Foreign files, the predecessor of every output and the order of payload and
\* entry survive each power failure of a publication; receipt, record and
\* displaced bytes agree; what is assessed or retained of a leaf was so
\* (publication, commit and leaf of client/boot).
PublicationIsKept ==
    /\ PublicationTypeOK
    /\ ForeignSurvives /\ CanonicalIsWhole /\ PredecessorKept /\ EntryAfterPayload
    /\ ReceiptMatchesRecord /\ OldBytesKept /\ ReportIsTrue
    /\ AssessmentWasTrue /\ RetainedWasNamed /\ CreatedIsDurable

\* Every planned entry boots its own state without an alias on the volume, from
\* inputs and roots the databases and names held together at one moment (the
\* plan, the inputs and the roots of client/boot).
PlansAreTrue ==
    /\ PlanningTypeOK
    /\ EntriesBoot /\ NoAliases /\ RefusesConflicts /\ OptionsAreItsOwn
    /\ PlanIsOfItsStates /\ ReadyIsCurrent /\ NotApplicableWasTrue /\ SnapshotsAreGenuine
    /\ HistoryIsKept /\ RootsWereTogether /\ SchemasAreTheirOwn /\ NameIsKept

\* A receipt is promoted over durable outputs only, the publication completes
\* without residue, and the commit is decided on exact outputs.
PublicationIsOrdered == PromotedIsDurable /\ CompleteIsClean /\ DecidedOnExactOutputs

\* A promoted attempt is finished by the process or by later startups, and the
\* chain of a reblit's end returns whatever fails.
PublicationSettles == RestartConverges /\ EveryChainReturns
=============================================================================
