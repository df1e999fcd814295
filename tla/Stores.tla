------------------------------- MODULE Stores -------------------------------
(***************************************************************************)
(* A run over the stores of an installation: a behaviour exercises one part*)
(* of one of the modules.                                                  *)
(***************************************************************************)
EXTENDS Storage, Declarations

StorageOwn == <<repo, states, active, downloads, layout, install, assets, unsynced, damaged, damage, entry,
                disk, content, lock, pc, fd, attempt, rot, db, used, added, moves, faults, image, conn,
                writes, reads>>
DeclarationOwn == <<dir, declaration_disk, files, late, ops, declaration_faults, changes, crashes, allowed,
                    last, tree, declaration_row, file, drifts>>
vars == <<subject, op, StorageOwn, DeclarationOwn>>

StorageAbsent ==
    /\ repo = None /\ states = None /\ active = None /\ downloads = None /\ layout = None /\ install = None
    /\ assets = None /\ unsynced = None /\ damaged = None /\ damage = None /\ entry = None /\ disk = None
    /\ content = None /\ lock = None /\ pc = None /\ fd = None /\ attempt = None /\ rot = None /\ db = None
    /\ used = None /\ added = None /\ moves = None /\ faults = None /\ image = None /\ conn = None
    /\ writes = None /\ reads = None
DeclarationAbsent ==
    /\ dir = None /\ declaration_disk = None /\ files = None /\ late = None /\ ops = None
    /\ declaration_faults = None /\ changes = None /\ crashes = None /\ allowed = None /\ last = None
    /\ tree = None /\ declaration_row = None /\ file = None /\ drifts = None

Init ==
    \/ StorageInit /\ DeclarationAbsent
    \/ DeclarationInit /\ StorageAbsent

Next ==
    \/ StorageNext /\ UNCHANGED <<DeclarationOwn>>
    \/ DeclarationNext /\ UNCHANGED <<StorageOwn>>

Spec == Init /\ [][Next]_vars

-----------------------------------------------------------------------------
(* Properties *)

\* The packages of every recorded state are stored, a published download stays
\* under its name and no ended task holds the directory (cache_packages,
\* prune_states, publish_download_entry_async, DirectoryLock); a row has all its
\* selections and the outcome of a removal is true (db/state); a migrated row
\* leads to its whole blob and resolves to its own tree (declaration_migration.rs).
RecordsAreTrue ==
    /\ RecordedStatesAreStored /\ PublishedStays /\ LockIsReleased
    /\ RowsAreWhole /\ NotAppliedIsTrue /\ DoneIsTrue
    /\ RowHasBlob /\ ResolvesItsOwnTree /\ CollectsOnlyResidue

\* A bounded read returns one state of its tables whole or refuses it for a
\* limit it really exceeds, leaving the connection clean (db/read_only.rs,
\* layout/raw_query.rs, state/frozen_boot_input.rs).
ReadsAreWhole == StorageTypeOK /\ NeverTruncated /\ LimitIsReal /\ ConnectionIsClean

\* A declaration is under one name, old or new after every crash, and durable
\* when a save returned; an undisturbed retry works (the generated slot).
DeclarationsAreKept == DeclarationTypeOK /\ OneDeclaration /\ SavedIsDurable /\ OldOrNew /\ RetryWorks

\* A collection that ends is complete, only authentic bytes are unpacked, a
\* removal takes its whole batch, and no step takes an authored file or replaces
\* a committed migration.
StepsKeepStores == CollectionIsComplete /\ UnpackedIsAuthentic /\ WholeBatch /\ AuthoredKept /\ NoReplace
=============================================================================
