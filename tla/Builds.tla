------------------------------- MODULE Builds -------------------------------
(***************************************************************************)
(* A run over the sources, packages and containers of a build: a behaviour *)
(* exercises one part of one of the modules.                               *)
(***************************************************************************)
EXTENDS GitSources, PackageCollection, Container

GitOwn == <<remote, mirror, marker, disk, lock, ops, faults, kills, tree, at, quarantined, synced, outside,
            shown, other>>
CollectionOwn == <<name, node, parent, collection_disk, witness, collection_ops, changes, collection_faults,
                   collection_shown, root, collection_tree, first, before, staged, reference, bundle, output,
                   attempts, collection_kills, touched, dir, stage, slot, sink, sealedAs>>
ContainerOwn == <<inputs, sup, child, leaf, sock, mask, sigint, unready, spent, container_root, groups, held,
                  since, ghost>>
vars == <<subject, op, GitOwn, CollectionOwn, ContainerOwn>>

GitAbsent ==
    /\ remote = None /\ mirror = None /\ marker = None /\ disk = None /\ lock = None /\ ops = None
    /\ faults = None /\ kills = None /\ tree = None /\ at = None /\ quarantined = None /\ synced = None
    /\ outside = None /\ shown = None /\ other = None
CollectionAbsent ==
    /\ name = None /\ node = None /\ parent = None /\ collection_disk = None /\ witness = None
    /\ collection_ops = None /\ changes = None /\ collection_faults = None /\ collection_shown = None
    /\ root = None /\ collection_tree = None /\ first = None /\ before = None /\ staged = None
    /\ reference = None /\ bundle = None /\ output = None /\ attempts = None /\ collection_kills = None
    /\ touched = None /\ dir = None /\ stage = None /\ slot = None /\ sink = None /\ sealedAs = None
ContainerAbsent ==
    /\ inputs = None /\ sup = None /\ child = None /\ leaf = None /\ sock = None /\ mask = None
    /\ sigint = None /\ unready = None /\ spent = None /\ container_root = None /\ groups = None
    /\ held = None /\ since = None /\ ghost = None

Init ==
    \/ GitInit /\ CollectionAbsent /\ ContainerAbsent
    \/ CollectionInit /\ GitAbsent /\ ContainerAbsent
    \/ ContainerInit /\ GitAbsent /\ CollectionAbsent

Next ==
    \/ GitNext /\ UNCHANGED <<CollectionOwn, ContainerOwn>>
    \/ CollectionNext /\ UNCHANGED <<GitOwn, ContainerOwn>>
    \/ ContainerNext /\ UNCHANGED <<GitOwn, CollectionOwn>>

Spec == Init /\ [][Next]_vars
        /\ WF_GitVars(CheckoutOnly /\ CheckoutStep /\ UNCHANGED <<outside, other>> /\ Watch)
        /\ WF_ContainerVars(ActivationOnly /\ SupervisorStep /\ ContainerNoFault)
        /\ WF_ContainerVars(ActivationOnly /\ ChildProcess /\ ContainerNoFault)

-----------------------------------------------------------------------------
(* Properties *)

\* A torn mirror is marked, a resolved branch is fresh, and a shared checkout was
\* exact and is on disk or was moved away (git.rs, share_with_parent).
SourcesAreExact ==
    GitTypeOK /\ TornIsMarked /\ ResolvedIsFresh /\ SharedWasExact /\ RejectedIsMovedAway


\* A payload runs only confined, a returning activation accounts for its child,
\* its leaf and the caller's signals, and a leaf is handed out limited and
\* removed only by its maker (enter, run_internal, create_leaf).
ContainersAreConfined ==
    /\ ContainerTypeOK
    /\ PayloadConfined /\ ChildAccounted /\ LeafAccounted /\ CallerStateRestored /\ SuccessMeansDone
    /\ OrphanWasUnready /\ HandedOutLimited /\ OnlyOwnRemoved /\ AdmissionReservesSlot

\* A revision is answered from a whole mirror only, no step takes away what
\* others put under a name, and a leaf stays in somebody's hands.
StepsKeepOthers == StoredIsWhole /\ OthersKept /\ CollectionOthersKept /\ SinkOthersKept /\ LeafInHand

\* Every activation of a container ends, and an undisturbed checkout is shared.
BuildsEnd == EveryRunReturns /\ UndisturbedIsShared
=============================================================================
