------------------------------- MODULE Trees --------------------------------
(***************************************************************************)
(* A run over the trees a client builds and what it reads of those that are*)
(* there: a behaviour exercises one part of one of the modules.            *)
(***************************************************************************)
EXTENDS CandidateTree, FrozenTrees, Inspection

CandidateOwn == <<ns, disk, file, synced, stale, task, promised, faults, node, clock, walk, ghost, spent, lib,
                  private, names, changes, together, at, durable, true>>
FrozenOwn == <<lock, dest, destDisk, parent, made, tree, frozen_synced, widened, gone, p, frozen_spent, inode,
               frozen_changes, exact, parentAt, name, dir, pool, asset, frozen_file, worker, frozen_faults,
               named, rows, nodes, map>>
InspectOwn == <<inspect_node, held, outside, inspect_ns, inspect_disk, record, inspect_faults, seen,
                inspect_names, data, changed, source, moves, limits, usage, passes>>
vars == <<subject, op, CandidateOwn, FrozenOwn, InspectOwn>>

CandidateAbsent ==
    /\ ns = None /\ disk = None /\ file = None /\ synced = None /\ stale = None /\ task = None
    /\ promised = None /\ faults = None /\ node = None /\ clock = None /\ walk = None /\ ghost = None
    /\ spent = None /\ lib = None /\ private = None /\ names = None /\ changes = None /\ together = None
    /\ at = None /\ durable = None /\ true = None
FrozenAbsent ==
    /\ lock = None /\ dest = None /\ destDisk = None /\ parent = None /\ made = None /\ tree = None
    /\ frozen_synced = None /\ widened = None /\ gone = None /\ p = None /\ frozen_spent = None
    /\ inode = None /\ frozen_changes = None /\ exact = None /\ parentAt = None /\ name = None
    /\ dir = None /\ pool = None /\ asset = None /\ frozen_file = None /\ worker = None
    /\ frozen_faults = None /\ named = None /\ rows = None /\ nodes = None /\ map = None
InspectAbsent ==
    /\ inspect_node = None /\ held = None /\ outside = None /\ inspect_ns = None /\ inspect_disk = None
    /\ record = None /\ inspect_faults = None /\ seen = None /\ inspect_names = None /\ data = None
    /\ changed = None /\ source = None /\ moves = None /\ limits = None /\ usage = None /\ passes = None

Init ==
    \/ CandidateInit /\ FrozenAbsent /\ InspectAbsent
    \/ FrozenInit /\ CandidateAbsent /\ InspectAbsent
    \/ InspectInit /\ CandidateAbsent /\ FrozenAbsent

Next ==
    \/ CandidateNext /\ UNCHANGED <<FrozenOwn, InspectOwn>>
    \/ FrozenNext /\ UNCHANGED <<CandidateOwn, InspectOwn>>
    \/ InspectNext /\ UNCHANGED <<CandidateOwn, FrozenOwn>>

Spec == Init /\ [][Next]_vars

-----------------------------------------------------------------------------
(* Properties *)

\* The marker of a tree is permanent and never torn, its second link is durable
\* where it is used, and no interruption strands a tree (tree_marker).
MarkersArePermanent ==
    CandidateTypeOK /\ TokenIsPermanent /\ NeverTorn /\ AuthorizedLinkIsDurable /\ NeverStranded

\* What is sealed, decorated or named of a candidate was true of its tree at one
\* moment of the last check and survives a power loss (the candidate's inventory,
\* its metadata and its state ID).
CandidatesAreProved ==
    /\ SealedWasTheTree /\ SealedIsDurable /\ MarkedTreeIsTheSealedOne
    /\ ProofIsDurable /\ ProofWasTrue
    /\ OutcomeIsDurable /\ OutcomeWasTrue

\* A frozen tree is planned, built, filled and published as the layouts declare
\* it, and refused only for a conflict of theirs (frozen_vfs, blit_frozen_root,
\* seal_frozen_directory, copy_asset).
FrozenTreesAreDeclared ==
    /\ FrozenTypeOK
    /\ PublishedIsSealed /\ ProvedIsDeclared
    /\ FilledWasNamed /\ CopiesAreDeclared /\ FailureLeavesWholeFiles
    /\ PlanIsDeclared /\ RefusedIffConflict /\ StatefulIsDeclared

\* No step takes over a name of others or deletes what it did not choose; an
\* error leaves nothing of its own and a success is on disk.
StepsKeepTrees == ForeignIsKept /\ CanonicalIsKept /\ ErrorIsClean /\ OnlyChosenIsDeleted /\ SuccessIsDurable

\* A policy, a namespace or a volume that is accepted was so at one moment,
\* every listing is complete or refused, and the ledgers of an observation
\* agree and return to zero (host policy, namespace capture, boot namespace).
InspectionsWereTrue ==
    /\ InspectTypeOK
    /\ AcceptedIsStable /\ QuietIsExact /\ AcceptedIsUnambiguous /\ CaptureIsOneMoment /\ CompletedIsDurable
    /\ LedgersAgree /\ StatesWereTrue /\ AllReturned /\ CompleteOrRefused /\ LimitsCompose
=============================================================================
