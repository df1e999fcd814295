------------------------------ MODULE Storage -------------------------------
(***************************************************************************)
(* What the installation stores: packages in the content-addressed store    *)
(* and their collection, downloads in the shared cache, the rows of the     *)
(* state database, and reads of the database within limits.                 *)
(***************************************************************************)
EXTENDS Parts, FiniteSets, Naturals, TLC, Sequences

CONSTANTS
    Package,             \* package ids
    Asset,               \* content hashes of regular files
    Files,               \* the assets the layout of a package names
    MaxDamage,           \* bound on the corruptions and power losses of a behaviour
    MaxStates,           \* bound on the recorded states
    p1, p2, x, y,        \* model values
    Task,                \* the concurrent fetches of one package
    Outside,             \* inodes that an earlier run or a copy by hand put there
    MaxAttempts,         \* MAX_PUBLICATION_ATTEMPTS
    MaxRot,              \* bound on the corruptions and copies of a behaviour
    f1, f2, f3, o1, o2,  \* model values
    MaxId, Transitions, Packages, Texts, MaxMoves, MaxFaults,
    Threads, Kinds, Tables, MaxRows, MaxBytes, MaxReadsFaults, MaxWrites, MaxReads

VARIABLES
    repo,        \* the packages of the active repositories
    states,      \* the selections of the states in the state database
    active,      \* the selection of the active state
    downloads,   \* the packages whose stone is in the download cache
    layout,      \* the packages with rows in the layout database
    install,     \* the packages with a row in the install database
    assets,      \* what the asset store holds under each hash
    unsynced,    \* assets whose name has not reached the disk
    damaged,     \* assets that corruption or a power loss hit, until published again
    damage,      \* the number of those events so far
    entry,       \* the inode under the name in the cache directory
    disk,        \* the inodes the name can have after a power loss
    content,     \* "good" or "bad" of every inode
    lock,        \* the task that holds the flock of the directory
    pc,          \* the step of each task
    fd,          \* the inode each task has open
    attempt,     \* publication attempts of each task
    rot,
    db,          \* rows, selections, provenance, and the AUTOINCREMENT counter
    used,        \* transition identifiers handed out, each once
    added,       \* per identifier the row it was added with (ghost)
    moves, faults,
    image,       \* the tables of the image, read once
    conn,        \* the connection: holder, transaction, handler, poison
    writes, reads

StorageVars == <<subject, repo, states, active, downloads, layout, install, assets, unsynced, damaged, damage, op,
                 entry, disk, content, lock, pc, fd, attempt, rot, db, used, added, moves, faults, image, conn,
                 writes, reads>>

-----------------------------------------------------------------------------
(***************************************************************************)
(* The package store of an installation and the operations that fill and   *)
(* empty it: install, sync and remove (through Client::cache_packages and  *)
(* Client::new_state), materialize_frozen_root, verify, prune_states and   *)
(* prune_cache.  A package is stored in four places that no transaction    *)
(* spans: its download, its assets, its layout rows and its install row.   *)
(*                                                                         *)
(* The installation lock admits one process, and the coordinator mutex one *)
(* operation of it, so the operations are sequential; what interleaves     *)
(* with their steps is an error return or a kill (Stop), a power loss that *)
(* drops names never synced (PowerLoss) and bit rot (Corrupt).             *)
(***************************************************************************)

ASSUME FilesAssumption == Files \in [Package -> SUBSET Asset]
ASSUME BoundsAssumption == MaxDamage \in Nat /\ MaxStates \in Nat

store == <<downloads, layout, install, assets, unsynced>>

Content == {"absent", "good", "bad"}

Idle == [step |-> "idle", pkgs |-> {}, todo |-> {}, pending |-> None, sel |-> None]

Hashes(pkgs) == UNION {Files[p] : p \in pkgs}
Present == {a \in Asset : assets[a] # "absent"}

StoreTypeOK ==
    /\ repo \subseteq Package /\ states \subseteq SUBSET Package /\ active \in states
    /\ downloads \subseteq Package /\ layout \subseteq Package /\ install \subseteq Package
    /\ assets \in [Asset -> Content] /\ unsynced \subseteq Asset /\ damaged \subseteq Asset
    /\ damage \in 0..MaxDamage
    /\ op.pkgs \subseteq Package /\ op.todo \subseteq Asset /\ op.pending \in Asset \cup {None}

(* A fresh installation: its only state selects nothing. *)
StoreInit ==
    /\ repo \in SUBSET Package
    /\ states = {{}} /\ active = {}
    /\ downloads = {} /\ layout = {} /\ install = {}
    /\ assets = [a \in Asset |-> "absent"] /\ unsynced = {} /\ damaged = {} /\ damage = 0
    /\ op = Idle

Begin(step, pkgs, todo, sel) ==
    op' = [step |-> step, pkgs |-> pkgs, todo |-> todo, pending |-> None, sel |-> sel]

Room == Cardinality(states) < MaxStates

-----------------------------------------------------------------------------
(* The commands that reach cache_packages or new_state. *)

(* install_resolved: the resolved packages that are not installed are cached
   and selected beside the previous selections; none missing, nothing to do. *)
install_resolved(missing) ==
    /\ op = Idle /\ Room
    /\ missing # {} /\ missing \cap active = {}
    /\ Begin("fetch", missing, {}, active \cup missing)
    /\ UNCHANGED <<repo, states, active, store, damaged, damage>>

(* sync: the finalized selection replaces the active one; only the packages
   that are not installed are cached, possibly none. *)
sync(finalized) ==
    /\ op = Idle /\ Room
    /\ finalized # active
    /\ finalized \subseteq repo \cup active
    /\ Begin("fetch", finalized \ active, {}, finalized)
    /\ UNCHANGED <<repo, states, active, store, damaged, damage>>

(* remove: a part of the active selection is recorded; nothing is cached. *)
remove(finalized) ==
    /\ op = Idle /\ Room
    /\ finalized \subseteq active /\ finalized # active
    /\ Begin("record", {}, {}, finalized)
    /\ UNCHANGED <<repo, states, active, store, damaged, damage>>

(* materialize_frozen_root: repository packages are cached for a frozen root
   and no state is recorded. *)
materialize_frozen_root(pkgs) ==
    /\ op = Idle
    /\ pkgs # {} /\ pkgs \subseteq repo
    /\ Begin("fetch", pkgs, {}, None)
    /\ UNCHANGED <<repo, states, active, store, damaged, damage>>

-----------------------------------------------------------------------------
(* Client::cache_packages. *)

(* cache::fetch of every package: an authentic cached stone or a download. *)
Fetch ==
    /\ op.step = "fetch"
    /\ downloads' = downloads \cup op.pkgs
    /\ op' = [op EXCEPT !.step = "unpack", !.todo = Hashes(op.pkgs)]
    /\ UNCHANGED <<repo, states, active, layout, install, assets, unsynced, damaged, damage>>

(* unpack, one index entry: an authentic asset is left as it is. *)
SkipAuthentic(a) ==
    /\ op.step = "unpack" /\ op.pending = None
    /\ a \in op.todo /\ assets[a] = "good"
    /\ op' = [op EXCEPT !.todo = @ \ {a}]
    /\ UNCHANGED <<repo, states, active, store, damaged, damage>>

(* publish_asset_entry: an entry that does not authenticate is unlinked, the
   staged copy is renamed to the name. *)
PublishAsset(a) ==
    /\ op.step = "unpack" /\ op.pending = None
    /\ a \in op.todo /\ assets[a] # "good"
    /\ assets' = [assets EXCEPT ![a] = "good"]
    /\ unsynced' = unsynced \cup {a}
    /\ op' = [op EXCEPT !.todo = @ \ {a}, !.pending = a]
    /\ UNCHANGED <<repo, states, active, downloads, layout, install, damaged, damage>>

(* publish_asset_entry: after the rename the directory is synced and the entry
   authenticated once more. *)
SyncAsset ==
    /\ op.pending # None /\ assets[op.pending] = "good"
    /\ unsynced' = unsynced \ {op.pending} /\ damaged' = damaged \ {op.pending}
    /\ op' = [op EXCEPT !.pending = None]
    /\ UNCHANGED <<repo, states, active, downloads, layout, install, assets, damage>>

(* PublicationGuard: the sync or the last authentication fails, the guard
   unlinks the name it published and the command returns the error. *)
RollBackPublication ==
    /\ op.pending # None
    /\ assets' = [assets EXCEPT ![op.pending] = "absent"]
    /\ unsynced' = unsynced \ {op.pending}
    /\ op' = Idle
    /\ UNCHANGED <<repo, states, active, downloads, layout, install, damaged, damage>>

(* ingest_stone_layouts: one exclusive transaction replaces the layout rows of
   the whole batch. *)
ingest_stone_layouts ==
    /\ op.step = "unpack" /\ op.todo = {} /\ op.pending = None
    /\ layout' = layout \cup op.pkgs
    /\ op' = [op EXCEPT !.step = "install_rows"]
    /\ UNCHANGED <<repo, states, active, downloads, install, assets, unsynced, damaged, damage>>

(* install_db.batch_add, the last write of cache_packages. *)
AddInstallRows ==
    /\ op.step = "install_rows"
    /\ install' = install \cup op.pkgs
    /\ op' = IF op.sel = None THEN Idle ELSE [op EXCEPT !.step = "record"]
    /\ UNCHANGED <<repo, states, active, downloads, layout, assets, unsynced, damaged, damage>>

(* Client::new_state, as one step: the state row is added and activated; an
   activation that fails may leave the row. *)
new_state ==
    /\ op.step = "record"
    /\ states' = states \cup {op.sel} /\ active' \in {active, op.sel}
    /\ op' = Idle
    /\ UNCHANGED <<repo, store, damaged, damage>>

-----------------------------------------------------------------------------
(* Garbage collection. *)

(* prune_states: rows of archived states are gone; what only they selected is
   unreferenced_removed_packages. *)
\* Mutant: what a retained state still selects is not held back.
unreferenced_removed_packages_all(removed) == UNION removed

unreferenced_removed_packages(removed) == (UNION removed) \ UNION (states \ removed)

prune_states(removed) ==
    /\ op = Idle
    /\ removed # {} /\ removed \subseteq states \ {active}
    /\ states' = states \ removed
    /\ Begin("gc_install", unreferenced_removed_packages(removed), {}, None)
    /\ UNCHANGED <<repo, active, store, damaged, damage>>

(* prune_package_databases removes the install rows before the layout rows. *)
GcInstallRows ==
    /\ op.step = "gc_install"
    /\ install' = install \ op.pkgs
    /\ op' = [op EXCEPT !.step = "gc_layout"]
    /\ UNCHANGED <<repo, states, active, downloads, layout, assets, unsynced, damaged, damage>>

GcLayoutRows ==
    /\ op.step = "gc_layout"
    /\ layout' = layout \ op.pkgs
    /\ op' = [op EXCEPT !.step = "gc_downloads"]
    /\ UNCHANGED <<repo, states, active, downloads, install, assets, unsynced, damaged, damage>>

(* prune_cache keeps what a state selects or a repository offers; it removes
   the layout rows before the install rows. *)
packages_to_keep == (UNION states) \cup repo

prune_cache ==
    /\ op = Idle
    /\ layout' = layout \cap packages_to_keep
    /\ Begin("cache_install", packages_to_keep, {}, None)
    /\ UNCHANGED <<repo, states, active, downloads, install, assets, unsynced, damaged, damage>>

CacheInstallRows ==
    /\ op.step = "cache_install"
    /\ install' = install \cap op.pkgs
    /\ op' = [op EXCEPT !.step = "gc_downloads"]
    /\ UNCHANGED <<repo, states, active, downloads, layout, assets, unsynced, damaged, damage>>

(* remove_orphaned_files over the downloads, then over the assets: the hashes
   on disk that no row names. *)
RemoveOrphanedDownloads ==
    /\ op.step = "gc_downloads"
    /\ downloads' = downloads \cap install
    /\ op' = [op EXCEPT !.step = "gc_assets", !.todo = Present \ Hashes(layout)]
    /\ UNCHANGED <<repo, states, active, layout, install, assets, unsynced, damaged, damage>>

remove_orphaned_file(a) ==
    /\ op.step = "gc_assets" /\ a \in op.todo
    /\ assets' = [assets EXCEPT ![a] = "absent"]
    /\ unsynced' = unsynced \ {a}
    /\ op' = [op EXCEPT !.todo = @ \ {a}]
    /\ UNCHANGED <<repo, states, active, downloads, layout, install, damaged, damage>>

GcDone ==
    /\ op.step = "gc_assets" /\ op.todo = {}
    /\ op' = Idle
    /\ UNCHANGED <<repo, states, active, store, damaged, damage>>

-----------------------------------------------------------------------------
(* verify: assets that a layout row names and that are missing or corrupt, and
   the packages whose layouts name them. *)
issues == {a \in Hashes(layout) : assets[a] # "good"}
issue_packages == {p \in layout : Files[p] \cap issues # {}}

(* Every issue package needs its install row, or verify returns its error
   before it changes anything; corrupt files are then removed. *)
verify ==
    /\ op = Idle /\ issues # {}
    /\ issue_packages \subseteq install
    /\ Begin("verify", issue_packages, {a \in issues : assets[a] = "bad"}, None)
    /\ UNCHANGED <<repo, states, active, store, damaged, damage>>

RemoveCorrupt(a) ==
    /\ op.step = "verify" /\ a \in op.todo
    /\ assets' = [assets EXCEPT ![a] = "absent"]
    /\ unsynced' = unsynced \ {a}
    /\ op' = [op EXCEPT !.todo = @ \ {a}]
    /\ UNCHANGED <<repo, states, active, downloads, layout, install, damaged, damage>>

(* With no corrupt file left verify caches the issue packages again. *)
ReinstallPackages ==
    /\ op.step = "verify" /\ op.todo = {}
    /\ op' = [op EXCEPT !.step = "fetch"]
    /\ UNCHANGED <<repo, states, active, store, damaged, damage>>

-----------------------------------------------------------------------------
(* The environment. *)

(* An error return, a declined download or a kill between two steps. *)
Stop ==
    /\ op # Idle
    /\ op' = Idle
    /\ UNCHANGED <<repo, states, active, store, damaged, damage>>

PowerLoss ==
    /\ damage < MaxDamage
    /\ \E dropped \in SUBSET unsynced :
         /\ assets' = [a \in Asset |-> IF a \in dropped THEN "absent" ELSE assets[a]]
         /\ damaged' = damaged \cup dropped
    /\ unsynced' = {}
    /\ damage' = damage + 1
    /\ op' = Idle
    /\ UNCHANGED <<repo, states, active, downloads, layout, install>>

Corrupt(a) ==
    /\ damage < MaxDamage
    /\ assets[a] = "good"
    /\ assets' = [assets EXCEPT ![a] = "bad"]
    /\ damaged' = damaged \cup {a} /\ damage' = damage + 1
    /\ UNCHANGED <<repo, states, active, downloads, layout, install, unsynced, op>>

(* A repository refresh offers another set of packages. *)
RefreshRepositories ==
    /\ op = Idle
    /\ repo' \in SUBSET Package
    /\ UNCHANGED <<states, active, store, damaged, damage, op>>

CacheStep ==
    \/ Fetch \/ SyncAsset \/ RollBackPublication
    \/ ingest_stone_layouts \/ AddInstallRows \/ new_state
    \/ \E a \in Asset : SkipAuthentic(a) \/ PublishAsset(a)

GcStep ==
    \/ GcInstallRows \/ GcLayoutRows \/ CacheInstallRows
    \/ RemoveOrphanedDownloads \/ GcDone
    \/ \E a \in Asset : remove_orphaned_file(a)

VerifyStep == ReinstallPackages \/ \E a \in Asset : RemoveCorrupt(a)

StoreNext ==
    \/ \E S \in SUBSET repo : install_resolved(S) \/ materialize_frozen_root(S)
    \/ \E S \in SUBSET Package : sync(S) \/ remove(S)
    \/ \E R \in SUBSET states : prune_states(R)
    \/ prune_cache \/ verify
    \/ CacheStep \/ GcStep \/ VerifyStep
    \/ Stop \/ PowerLoss \/ RefreshRepositories
    \/ \E a \in Asset : Corrupt(a)

-----------------------------------------------------------------------------
(* Properties. *)

(* The packages a recorded state selects have their layout rows, their install
   row and every asset, except assets that corruption or a power loss took
   since they were published: no order of caching, recording and collecting,
   stopped anywhere, loses what a state needs (cache_packages, prune_states,
   prune_cache). *)
RecordedStatesAreStored == subject = "store" =>
    (\A p \in UNION states :
        /\ p \in layout /\ p \in install
        /\ \A a \in Files[p] : assets[a] = "good" \/ a \in damaged)

(* A collection that runs to its end leaves no asset and no download that no
   row names (prune_states and prune_cache, remove_orphaned_files). *)
CollectionIsComplete ==
    [][subject = "store" =>
       (GcDone => Present \subseteq Hashes(layout) /\ downloads \subseteq install)]_StorageVars

-----------------------------------------------------------------------------
(***************************************************************************)
(* One entry of the download cache, and the tasks of cache_packages that   *)
(* want it at the same time: cache::fetch authenticates what is there,     *)
(* downloads into a private stage otherwise and publishes the stage under  *)
(* the lock of the directory; Download::unpack reads the descriptor that   *)
(* fetch returned, which by then may have lost its name.  Assets are       *)
(* published by the same protocol (publish_asset_entry).                   *)
(*                                                                         *)
(* An inode is named after the task that staged it; Outside are the inodes *)
(* of earlier runs, whole or damaged.  Tasks may fail at any call, the     *)
(* content of a published inode may rot, and somebody may copy an entry    *)
(* into the cache while no task looks.                                     *)
(***************************************************************************)

ASSUME AttemptsAssumption == MaxAttempts \in Nat \ {0} /\ MaxRot \in Nat

(* The stages of this run are new files, and None is no inode. *)
ASSUME InodesAssumption == Task \cap Outside = {} /\ None \notin Task \cup Outside

Inode == Task \cup Outside
Steps == {"look", "hash", "reopen", "download", "lock", "check", "rename", "sync", "final",
          "rollback", "fetched", "published", "unpacking", "unpacked", "failed"}

CacheTypeOK ==
    /\ entry \in Inode \cup {None} /\ disk \subseteq Inode \cup {None} /\ entry \in disk
    /\ content \in [Inode -> {"good", "bad"}]
    /\ lock \in Task \cup {None}
    /\ pc \in [Task -> Steps] /\ fd \in [Task -> Inode \cup {None}]
    /\ attempt \in [Task -> 0..MaxAttempts] /\ rot \in 0..MaxRot

CacheInit ==
    /\ entry \in Outside \cup {None} /\ disk = {entry}
    /\ content \in {c \in [Inode -> {"good", "bad"}] : \A t \in Task : c[t] = "good"}
    /\ lock = None
    /\ pc = [t \in Task |-> "look"] /\ fd = [t \in Task |-> None]
    /\ attempt = [t \in Task |-> 0] /\ rot = 0

Goto(t, step) == pc' = [pc EXCEPT ![t] = step]

(* nlink of an inode: its stage name before the rename, the entry after it. *)
Linked(i) == entry = i \/ (i \in Task /\ pc[i] \in {"lock", "check", "rename"})

(* authenticate_sha256_file: a regular file with one link and the content that
   the package's hash names. *)
Authentic(i) == Linked(i) /\ content[i] = "good"

-----------------------------------------------------------------------------
(* fetch: authenticate the cached entry without the lock. *)

(* open_regular of the entry; a missing one is downloaded. *)
Look(t) ==
    /\ pc[t] = "look"
    /\ fd' = [fd EXCEPT ![t] = entry]
    /\ Goto(t, IF entry = None THEN "download" ELSE "hash")
    /\ UNCHANGED <<entry, disk, content, lock, attempt, rot>>

(* The digest of the open file and its metadata before and after. *)
Hash(t) ==
    /\ pc[t] = "hash"
    /\ Goto(t, IF Authentic(fd[t]) THEN "reopen" ELSE "download")
    /\ UNCHANGED <<entry, disk, content, lock, fd, attempt, rot>>

(* The name is opened again and must lead to the same inode. *)
Reopen(t) ==
    /\ pc[t] = "reopen"
    /\ Goto(t, IF entry = fd[t] THEN "fetched" ELSE "download")
    /\ UNCHANGED <<entry, disk, content, lock, fd, attempt, rot>>

(* The stone is downloaded into a private stage, authenticated and synced. *)
Download(t) ==
    /\ pc[t] = "download"
    /\ fd' = [fd EXCEPT ![t] = t]
    /\ Goto(t, "lock")
    /\ UNCHANGED <<entry, disk, content, lock, attempt, rot>>

-----------------------------------------------------------------------------
(* publish_download_entry_async. *)

lock_directory(t) ==
    /\ pc[t] = "lock" /\ lock = None
    /\ lock' = t
    /\ Goto(t, "check")
    /\ UNCHANGED <<entry, disk, content, fd, attempt, rot>>

(* The wait for the lock ends after PUBLICATION_LOCK_TIMEOUT. *)
LockTimeout(t) ==
    /\ pc[t] = "lock" /\ lock # None
    /\ Goto(t, "failed")
    /\ UNCHANGED <<entry, disk, content, lock, fd, attempt, rot>>

(* One attempt: an authentic entry wins and is returned, an invalid one is
   unlinked; the stage must still authenticate. *)
CheckEntry(t) ==
    /\ pc[t] = "check" /\ attempt[t] < MaxAttempts
    /\ IF entry # None /\ Authentic(entry)
         THEN /\ fd' = [fd EXCEPT ![t] = entry] /\ Goto(t, "fetched") /\ lock' = None
              /\ UNCHANGED <<entry, disk>>
         ELSE /\ entry' = None /\ disk' = disk \cup {None}
              /\ IF Authentic(t) THEN Goto(t, "rename") /\ UNCHANGED lock
                                 ELSE Goto(t, "failed") /\ lock' = None
              /\ UNCHANGED fd
    /\ attempt' = [attempt EXCEPT ![t] = @ + 1]
    /\ UNCHANGED <<content, rot>>

(* renameat2 with RENAME_NOREPLACE; an entry in the way starts the next attempt. *)
rename_noreplace(t) ==
    /\ pc[t] = "rename"
    /\ IF entry = None THEN entry' = t /\ disk' = disk \cup {t} /\ Goto(t, "sync")
                       ELSE Goto(t, "check") /\ UNCHANGED <<entry, disk>>
    /\ UNCHANGED <<content, lock, fd, attempt, rot>>

NotConverged(t) ==
    /\ pc[t] = "check" /\ attempt[t] = MaxAttempts
    /\ lock' = None /\ Goto(t, "failed")
    /\ UNCHANGED <<entry, disk, content, fd, attempt, rot>>

SyncDirectory(t) ==
    /\ pc[t] = "sync"
    /\ disk' = {entry}
    /\ Goto(t, "final")
    /\ UNCHANGED <<entry, content, lock, fd, attempt, rot>>

(* The published entry is authenticated again and must be the staged inode;
   the guard is disarmed and the lock released. *)
Finish(t) ==
    /\ pc[t] = "final"
    /\ IF entry = t /\ Authentic(t) THEN Goto(t, "published") /\ lock' = None
                                    ELSE Goto(t, "rollback") /\ UNCHANGED lock
    /\ UNCHANGED <<entry, disk, content, fd, attempt, rot>>

(* PublishedEntryGuard::drop: unlink the name if it still leads to the inode
   this task published, and sync; then the lock is released. *)
RollBack(t) ==
    /\ pc[t] = "rollback"
    /\ IF entry = t THEN entry' = None /\ disk' \in {{None}, disk \cup {None}}
                    ELSE UNCHANGED <<entry, disk>>
    /\ lock' = None /\ Goto(t, "failed")
    /\ UNCHANGED <<content, fd, attempt, rot>>

(* Any call may fail: before the rename the private stage is removed, after it
   the guard is armed. *)
Fail(t) ==
    /\ pc[t] \in {"download", "lock", "check", "rename", "sync", "final"}
    /\ IF pc[t] \in {"sync", "final"}
         THEN Goto(t, "rollback") /\ UNCHANGED lock
         ELSE Goto(t, "failed") /\ lock' = IF lock = t THEN None ELSE lock
    /\ UNCHANGED <<entry, disk, content, fd, attempt, rot>>

-----------------------------------------------------------------------------
(* Download::unpack: the descriptor is authenticated before its payloads are
   read and again after every asset was published. *)

UnpackStart(t) ==
    /\ pc[t] \in {"fetched", "published"}
    /\ Goto(t, IF Authentic(fd[t]) THEN "unpacking" ELSE "failed")
    /\ UNCHANGED <<entry, disk, content, lock, fd, attempt, rot>>

UnpackEnd(t) ==
    /\ pc[t] = "unpacking"
    /\ Goto(t, IF Authentic(fd[t]) THEN "unpacked" ELSE "failed")
    /\ UNCHANGED <<entry, disk, content, lock, fd, attempt, rot>>

(* Bit rot of the published file. *)
Rot ==
    /\ rot < MaxRot
    /\ entry # None /\ content[entry] = "good"
    /\ content' = [content EXCEPT ![entry] = "bad"]
    /\ rot' = rot + 1
    /\ UNCHANGED <<entry, disk, lock, pc, fd, attempt>>

(* Somebody copies an entry into the cache by hand, whole or cut short; the
   loop of publish_download_entry_async is written for this. *)
Copy ==
    /\ rot < MaxRot
    /\ entry = None
    /\ entry' \in {i \in Outside : \A t \in Task : fd[t] # i}
    /\ disk' = disk \cup {entry'}
    /\ rot' = rot + 1
    /\ UNCHANGED <<content, lock, pc, fd, attempt>>

(* All tasks have ended; the process goes on elsewhere. *)
Done == (\A t \in Task : pc[t] \in {"unpacked", "failed"}) /\ UNCHANGED StorageVars

Proceed(t) ==
    \/ Look(t) \/ Hash(t) \/ Reopen(t) \/ Download(t)
    \/ lock_directory(t) \/ LockTimeout(t) \/ CheckEntry(t) \/ rename_noreplace(t) \/ NotConverged(t)
    \/ SyncDirectory(t) \/ Finish(t) \/ RollBack(t)
    \/ UnpackStart(t) \/ UnpackEnd(t)

CacheNext == (\E t \in Task : Proceed(t) \/ Fail(t)) \/ Rot \/ Copy \/ Done

-----------------------------------------------------------------------------
(* A download that a task published stays the entry, on disk too, whatever the
   other tasks do, unless its content rots: neither the removal of an invalid
   entry nor the rollback of a failed publication takes it away
   (publish_download_entry_async, PublishedEntryGuard). *)
PublishedStays == subject = "cache" =>
    (\A t \in Task : pc[t] = "published" /\ content[t] = "good" => entry = t /\ disk = {t})

(* A package that was unpacked was read from the whole content that its hash
   names, even when another task removed the entry in between
   (Download::unpack, authenticate_sha256_file_sync). *)
UnpackedIsAuthentic ==
    [][subject = "cache" =>
       (\A t \in Task : pc'[t] = "unpacked" /\ pc[t] # "unpacked" => content[fd[t]] = "good" /\ entry = fd[t])]_StorageVars

(* The lock of the directory is held by a task that is publishing, and a task
   that ended, in any way, does not hold it (DirectoryLock::drop). *)
LockIsReleased == subject = "cache" =>
    (lock # None => pc[lock] \in {"check", "rename", "sync", "final", "rollback"})

-----------------------------------------------------------------------------
(***************************************************************************)
(* The rows of the state database (forge/src/db/state/mod.rs,              *)
(* metadata_provenance.rs) and the two removals that must know whether     *)
(* they happened: of a batch of archived states                            *)
(* (exact_archived_removal.rs) and of a fresh state whose transition is    *)
(* rolled back (exact_fresh_transition_removal.rs).                        *)
(*                                                                         *)
(* Every operation is one exclusive transaction, or a few of them with     *)
(* nothing held in between: other threads of the process, or a person with *)
(* a database tool, commit their own transactions there.  A transaction    *)
(* that reports a database error was rolled back or had committed; only an *)
(* error of the closure proves the roll back.                              *)
(***************************************************************************)

ASSUME MaxIdAssumption == MaxId \in Nat

Ids == 1..MaxId

Empty == [row |-> [i \in Ids |-> None], sel |-> [i \in Ids |-> {}], prov |-> [i \in Ids |-> None], next |-> 1]

RowsIdle == [kind |-> "idle", ids |-> {}, want |-> [i \in Ids |-> None], trans |-> None, step |-> "none",
         attempt |-> "none", mine |-> {}, gone |-> FALSE, outcome |-> "none"]

RowsInit ==
    /\ db = Empty
    /\ used = {}
    /\ added = [i \in Ids |-> None]
    /\ op = RowsIdle
    /\ moves = 0 /\ faults = 0

Free == op.step \in {"none", "ended"}

Ends(outcome) == [op EXCEPT !.step = "ended", !.outcome = outcome]

(***************************************************************************)
(* Single transactions                                                     *)
(***************************************************************************)
\* A state as load_selected_state reads it, with the row's transition.
load_selected_state(i) ==
    IF db.row[i] = None THEN None
    ELSE [text |-> db.row[i].text, sel |-> db.sel[i]]

\* Deleting state rows; selections and provenance go with them (the explicit
\* deletes and the cascading keys of the schema).
Deleted(d, S) ==
    [d EXCEPT !.row = [i \in Ids |-> IF i \in S THEN None ELSE d.row[i]],
              !.sel = [i \in Ids |-> IF i \in S THEN {} ELSE d.sel[i]],
              !.prov = [i \in Ids |-> IF i \in S THEN None ELSE d.prov[i]]]

\* The state row and all chunks of its selections in one transaction; the
\* identifier is never handed out again.
add_inner(t, text, S, fails) ==
    LET i == db.next
    IN IF fails THEN UNCHANGED <<db, added>>
       ELSE /\ db' = [db EXCEPT !.row[i] = [trans |-> t, text |-> text], !.sel[i] = S, !.next = i + 1]
            /\ added' = [added EXCEPT ![i] = [text |-> text, sel |-> S]]

\* Adding a state: with the correlation of a new transition, or archived.
Add ==
    /\ moves < MaxMoves /\ db.next <= MaxId
    /\ \E t \in (Transitions \ used) \cup {None}, text \in Texts, S \in SUBSET Packages :
          \/ add_inner(t, text, S, FALSE) /\ used' = used \cup ({t} \ {None}) /\ UNCHANGED faults
          \/ /\ faults < MaxFaults /\ faults' = faults + 1
             /\ add_inner(t, text, S, TRUE) /\ UNCHANGED used
    /\ moves' = moves + 1
    /\ UNCHANGED op

transition_ownership(i, t) ==
    CASE db.row[i] = None -> "missing"
      [] db.row[i] # None /\ db.row[i].trans = None -> "cleared"
      [] db.row[i] # None /\ db.row[i].trans = t -> "matching"
      [] OTHER -> "foreign"

InFlight == {i \in Ids : db.row[i] # None /\ db.row[i].trans # None}

\* At most one row may carry a transition; two are an error of their own.
audit_in_flight_transition ==
    CASE InFlight = {} -> <<"none", None>>
      [] Cardinality(InFlight) = 1 -> <<"one", CHOOSE i \in InFlight : TRUE>>
      [] OTHER -> <<"multiple", None>>

\* insert_metadata_provenance_row, for a state its transition still owns.
insert_fresh_metadata_provenance ==
    /\ moves < MaxMoves
    /\ \E i \in Ids, t \in Transitions, p \in Texts :
          /\ transition_ownership(i, t) = "matching" /\ db.prov[i] = None
          /\ db' = [db EXCEPT !.prov[i] = p]
    /\ moves' = moves + 1
    /\ UNCHANGED <<used, added, op, faults>>

\* One row with this state and this transition, or nothing happens.
clear_transition_if_matches(i, t) ==
    /\ db.row[i] # None /\ db.row[i].trans = t
    /\ db' = [db EXCEPT !.row[i].trans = None]

\* Delete by state and transition, then the provenance; exactly one row.
remove_transition_if_matches(i, t) ==
    /\ db.row[i] # None /\ db.row[i].trans = t
    /\ db' = Deleted(db, {i})

\* The removal a person orders by hand.
batch_remove(S) == db' = Deleted(db, S)

\* A database tool changes the text of a row (external).
Edit(i) ==
    /\ db.row[i] # None
    /\ \E text \in Texts \ {db.row[i].text} : db' = [db EXCEPT !.row[i].text = text]

\* The other threads; transition identifiers they act on are ones handed out.
Others ==
    /\ moves < MaxMoves
    /\ \/ \E i \in Ids, t \in used : clear_transition_if_matches(i, t) \/ remove_transition_if_matches(i, t)
       \/ \E i \in Ids : db.row[i] # None /\ batch_remove({i})
       \/ \E i \in Ids : Edit(i)
    /\ moves' = moves + 1
    /\ UNCHANGED <<used, added, op, faults>>

(***************************************************************************)
(* remove_exact_archived                                                   *)
(***************************************************************************)
\* The caller's snapshot of the batch (ghost: `mine' what this call removed).
SnapshotBatch ==
    /\ Free
    /\ \E S \in SUBSET {i \in Ids : db.row[i] # None} :
          /\ S # {} /\ Cardinality(S) <= 2
          /\ op' = [RowsIdle EXCEPT !.kind = "archived", !.ids = S, !.step = "attempt",
                                !.want = [i \in Ids |-> IF i \in S THEN load_selected_state(i) ELSE None]]
    /\ UNCHANGED <<db, used, added, moves, faults>>

\* The state row the closure refuses, if any: gone or changed, or in flight.
Refused(i) == IF db.row[i] = None THEN "changed"
              ELSE IF db.row[i].trans # None THEN "transition"
              ELSE IF load_selected_state(i) # op.want[i] THEN "changed" ELSE "fine"

\* The attempt: every row of the batch is the snapshot's and clean, and is
\* deleted with its provenance; one refusal rolls all of it back.
remove_exact_archived ==
    /\ op.kind = "archived" /\ op.step = "attempt"
    /\ LET all == \A i \in op.ids : Refused(i) = "fine"
       IN \/ /\ ~all /\ UNCHANGED <<db, faults>>
             /\ op' = Ends("not_applied")
          \/ /\ all /\ db' = Deleted(db, op.ids) /\ UNCHANGED faults
             /\ op' = [Ends("ok") EXCEPT !.mine = op.ids, !.gone = TRUE]
          \/ /\ faults < MaxFaults /\ faults' = faults + 1 /\ UNCHANGED db
             /\ op' = [op EXCEPT !.step = "observe"]
          \/ /\ faults < MaxFaults /\ faults' = faults + 1
             /\ all /\ db' = Deleted(db, op.ids)
             /\ op' = [op EXCEPT !.step = "observe", !.mine = op.ids]
    /\ UNCHANGED <<used, added, moves>>

\* After a database error the batch is observed in one fresh transaction.
observe_exact_archived_batch ==
    LET sees(i) == IF db.row[i] = None THEN "missing"
                   ELSE IF db.row[i].trans # None \/ load_selected_state(i) # op.want[i] THEN "changed" ELSE "exact"
        seen == {sees(i) : i \in op.ids}
    IN /\ op.kind = "archived" /\ op.step = "observe"
       /\ \/ /\ op' = CASE seen = {"missing"} -> [Ends("ok") EXCEPT !.gone = TRUE]
                        [] seen = {"exact"} -> Ends("not_applied")
                        [] OTHER -> Ends("ambiguous")
             /\ UNCHANGED faults
          \/ faults < MaxFaults /\ faults' = faults + 1 /\ op' = Ends("ambiguous")
       /\ UNCHANGED <<db, used, added, moves>>

(***************************************************************************)
(* remove_exact_fresh_transition                                           *)
(***************************************************************************)
\* What the inspection finds of a state and its transition: the joint
\* absence, the complete preimage, or an asymmetry that is an error.
inspect_exact_fresh_transition(i, t) ==
    LET foreign == InFlight \ {i}
    IN IF foreign # {} THEN <<"error", None>>
       ELSE IF db.row[i] = None
            THEN IF db.sel[i] = {} /\ db.prov[i] = None THEN <<"absent", None>> ELSE <<"error", None>>
            ELSE IF db.row[i].trans # t \/ db.prov[i] = None THEN <<"error", None>>
            ELSE <<"present", [state |-> load_selected_state(i), prov |-> db.prov[i]]>>

\* The caller's preimage.
SnapshotFresh ==
    /\ Free
    /\ \E i \in Ids, t \in used :
          LET found == inspect_exact_fresh_transition(i, t)
          IN /\ found[1] = "present"
             /\ op' = [RowsIdle EXCEPT !.kind = "fresh", !.ids = {i}, !.trans = t, !.step = "attempt",
                                   !.want = [j \in Ids |-> IF j = i THEN found[2] ELSE None]]
    /\ UNCHANGED <<db, used, added, moves, faults>>

\* The attempt: the same preimage in the same transaction as the deletes, whose
\* counts must be exact.
remove_exact_fresh_transition_once ==
    LET i == CHOOSE j \in op.ids : TRUE
        found == inspect_exact_fresh_transition(i, op.trans)
        same == found = <<"present", op.want[i]>>
    IN /\ op.kind = "fresh" /\ op.step = "attempt"
       /\ \/ /\ ~same /\ UNCHANGED <<db, faults>>
             /\ op' = [op EXCEPT !.step = "reconcile", !.attempt = "rolled_back"]
          \/ /\ same /\ db' = Deleted(db, {i}) /\ UNCHANGED faults
             /\ op' = [op EXCEPT !.step = "reconcile", !.attempt = "ok", !.mine = {i}]
          \/ /\ faults < MaxFaults /\ faults' = faults + 1 /\ UNCHANGED db
             /\ op' = [op EXCEPT !.step = "reconcile", !.attempt = "uncertain"]
          \/ /\ faults < MaxFaults /\ faults' = faults + 1
             /\ same /\ db' = Deleted(db, {i})
             /\ op' = [op EXCEPT !.step = "reconcile", !.attempt = "uncertain", !.mine = {i}]
       /\ UNCHANGED <<used, added, moves>>

\* What the fresh inspection together with the attempt's report proves.
Reconciled(found) ==
    CASE found[1] = "absent" /\ op.attempt = "ok" -> "absence"
      [] found[1] = "absent" /\ op.attempt = "rolled_back" -> "not_applied"
      [] found[1] = "present" /\ op.attempt = "rolled_back" /\ found[2] = op.want[CHOOSE j \in op.ids : TRUE] -> "not_applied"
      [] OTHER -> "ambiguous"

remove_exact_fresh_transition ==
    /\ op.kind = "fresh" /\ op.step = "reconcile"
    /\ \/ /\ LET found == inspect_exact_fresh_transition(CHOOSE j \in op.ids : TRUE, op.trans)
             IN op' = [Ends(Reconciled(found)) EXCEPT !.gone = found[1] = "absent"]
          /\ UNCHANGED faults
       \/ faults < MaxFaults /\ faults' = faults + 1 /\ op' = Ends("ambiguous")
    /\ UNCHANGED <<db, used, added, moves>>

Forget == op.step = "ended" /\ op' = RowsIdle /\ UNCHANGED <<db, used, added, moves, faults>>

RowsNext ==
    \/ Add \/ insert_fresh_metadata_provenance \/ Others
    \/ SnapshotBatch \/ remove_exact_archived \/ observe_exact_archived_batch
    \/ SnapshotFresh \/ remove_exact_fresh_transition_once \/ remove_exact_fresh_transition
    \/ Forget

\* Rows, their parts and the operation have their shapes.
RowsTypeOK ==
    /\ db.row \in [Ids -> {None} \cup [trans : Transitions \cup {None}, text : Texts]]
    /\ db.sel \in [Ids -> SUBSET Packages]
    /\ db.prov \in [Ids -> {None} \cup Texts]
    /\ op.outcome \in {"none", "ok", "absence", "not_applied", "ambiguous"}
    /\ audit_in_flight_transition[1] = "one" => transition_ownership(audit_in_flight_transition[2], None) = "foreign"

\* A removal reported as not applied removed nothing, ever: the caller keeps
\* the tree it would otherwise delete (outcome, rolled_back_or_not_started).
NotAppliedIsTrue == subject = "rows" => (op.outcome = "not_applied" => op.mine = {})

\* A removal reported done left none of its rows behind when it looked, and a
\* fresh removal reports the absence only when this very call committed it.
DoneIsTrue == subject = "rows" =>
    /\ op.outcome = "ok" => op.gone /\ op.mine \in {{}, op.ids}
    /\ op.outcome = "absence" => op.gone /\ op.mine = op.ids

\* Every row in the database has exactly the selections it was added with,
\* though they are inserted in chunks (add_inner).
RowsAreWhole == subject = "rows" => (\A i \in Ids : db.row[i] # None => db.sel[i] = added[i].sel)

\* A removal of archived states never takes a row that is in flight, and takes
\* the whole batch or nothing of it (remove_exact_archived).
WholeBatch ==
    [][subject = "rows" =>
       ((op.kind = "archived" /\ op.step = "attempt" /\ op'.step # "attempt")
          => LET taken == {i \in Ids : db.row[i] # None /\ db'.row[i] = None}
             IN taken \in {{}, op.ids} /\ taken \cap InFlight = {})]_StorageVars

-----------------------------------------------------------------------------
(***************************************************************************)
(* Bounded reads of the databases: of the private in-memory image a        *)
(* read-only client works on (forge/src/db/read_only.rs, read_only/        *)
(* admission.rs, state/read_only.rs, meta/read_only.rs,                    *)
(* layout/read_only.rs) and of the live layout and state databases         *)
(* (layout/raw_query.rs, state/frozen_boot_input.rs).                      *)
(*                                                                         *)
(* A read is a list of statements inside one transaction of a connection   *)
(* that threads share under a mutex.  A statement asks for one row more    *)
(* than its limit, and some reads measure all rows before they read any.   *)
(* Rows are their sizes; a row of size 0 cannot be decoded.  A statement   *)
(* may be interrupted by the progress callback or fail, a roll back may    *)
(* fail and leave the transaction open, and the closure may panic.         *)
(***************************************************************************)
\* db: the live tables
\* op: per thread the read under way

ReadsIdle == [kind |-> None, step |-> "idle", todo |-> <<>>, at |-> 1, n |-> 0, bytes |-> 0,
         view |-> None, out |-> <<>>, limit |-> "none", outcome |-> "none"]

ReadsInit ==
    /\ db \in Tables[subject]
    /\ image = db
    /\ conn = [holder |-> None, tx |-> FALSE, view |-> None, armed |-> None, poisoned |-> FALSE, broken |-> FALSE]
    /\ op = [t \in Threads[subject] |-> ReadsIdle]
    /\ faults = 0 /\ writes = 0 /\ reads = 0

(***************************************************************************)
(* The reads: their statements                                             *)
(***************************************************************************)
\* A statement of a table: `one' looks up a key, `measure' adds up lengths,
\* `read' decodes, `numbers' reads
\* values of a fixed size; `fresh' says that its limits count from zero.
One(tab) == [tab |-> tab, pass |-> "one", fresh |-> TRUE]
Measure(tab, fresh) == [tab |-> tab, pass |-> "measure", fresh |-> fresh]
Rows(tab, fresh) == [tab |-> tab, pass |-> "read", fresh |-> fresh]
Numbers(tab) == [tab |-> tab, pass |-> "numbers", fresh |-> TRUE]

\* The identifiers of all states.
list_ids == <<Numbers("a")>>

\* A state: its row, then its selections.
state_get == <<One("key"), Rows("a", TRUE)>>

\* The metadata of a package: its row, then each kind of relation.
meta_get == <<One("key"), Rows("a", TRUE), Rows("b", TRUE)>>

\* The layouts of some packages, chunk by chunk under one limit.
selected == <<Rows("a", TRUE), Rows("b", FALSE)>>

\* The migration ledger of a database.
verify_migration_set == <<Numbers("a")>>

\* The rows that carry a transition: none or one.
reads_audit_in_flight_transition == <<One("key")>>

\* The live layouts: all chunks are measured before any of them is read.
query_two_pass == <<Measure("a", TRUE), Measure("b", FALSE), Rows("a", TRUE), Rows("b", FALSE)>>

\* A state for boot planning: lengths of its text, the row, lengths of its
\* selections, the selections.
load_bounded_state == <<Measure("key", TRUE), One("key"), Measure("a", TRUE), Rows("a", TRUE)>>

Statements(kind) ==
    CASE kind = "list_ids" -> list_ids
      [] kind = "state_get" -> state_get
      [] kind = "meta_get" -> meta_get
      [] kind = "selected" -> selected
      [] kind = "verify_migration_set" -> verify_migration_set
      [] kind = "audit_in_flight_transition" -> reads_audit_in_flight_transition
      [] kind = "query_two_pass" -> query_two_pass
      [] kind = "load_bounded_state" -> load_bounded_state

Live(kind) == kind \in {"query_two_pass", "load_bounded_state"}

ReadsEnds(t, outcome) == [op EXCEPT ![t].step = "ended", ![t].outcome = outcome]

(***************************************************************************)
(* The connection                                                          *)
(***************************************************************************)
\* A thread takes the connection, waiting for at most its deadline; a mutex a
\* panic has poisoned and a connection marked poisoned refuse it.
lock_raw_until(t, kind) ==
    /\ op[t].step \in {"idle", "ended"} /\ reads < MaxReads[subject]
    /\ reads' = reads + 1
    /\ \/ /\ conn.broken
          /\ op' = [op EXCEPT ![t] = [ReadsIdle EXCEPT !.kind = kind, !.step = "ended", !.outcome = "lock_poisoned"]]
          /\ UNCHANGED conn
       \/ /\ ~conn.broken /\ conn.holder # None /\ ~Live(kind)
          /\ op' = [op EXCEPT ![t] = [ReadsIdle EXCEPT !.kind = kind, !.step = "ended", !.outcome = "deadline"]]
          /\ UNCHANGED conn
       \/ /\ ~conn.broken /\ conn.holder = None /\ conn.poisoned
          /\ op' = [op EXCEPT ![t] = [ReadsIdle EXCEPT !.kind = kind, !.step = "ended", !.outcome = "poisoned"]]
          /\ UNCHANGED conn
       \/ /\ ~conn.broken /\ conn.holder = None /\ ~conn.poisoned
          /\ op' = [op EXCEPT ![t] = [ReadsIdle EXCEPT !.kind = kind, !.step = "begin", !.todo = Statements(kind)]]
          /\ conn' = [conn EXCEPT !.holder = t, !.armed = t]
    /\ UNCHANGED <<db, image, faults, writes>>

MayFail == faults < MaxReadsFaults[subject] /\ faults' = faults + 1
NoFault == UNCHANGED faults

\* BEGIN, refused by a transaction that is still open.  The view is the image,
\* or what the database holds when the first statement runs.
begin(t) ==
    /\ op[t].step = "begin" /\ conn.holder = t
    /\ \/ /\ NoFault /\ ~conn.tx
          /\ conn' = [conn EXCEPT !.tx = TRUE, !.view = IF Live(op[t].kind) THEN None ELSE image]
          /\ op' = [op EXCEPT ![t].step = "run"]
       \/ /\ (conn.tx /\ NoFault) \/ MayFail
          /\ conn' = [conn EXCEPT !.armed = None]
          /\ op' = [op EXCEPT ![t].step = "failure", ![t].outcome = "begin"]
    /\ UNCHANGED <<db, image, writes, reads>>

Statement(t) == Head(op[t].todo)

View(t) == IF conn.view = None THEN db ELSE conn.view

\* A statement's last row has been read: the next one starts.
NextStatement(t) ==
    LET left == Tail(op[t].todo)
    IN [op EXCEPT ![t].todo = left, ![t].at = 1,
                  ![t].n = IF left # <<>> /\ ~Head(left).fresh THEN @ ELSE 0,
                  ![t].bytes = IF left # <<>> /\ ~Head(left).fresh THEN @ ELSE 0]

Stops(t, outcome) == [op EXCEPT ![t].step = "failure", ![t].outcome = outcome]

\* The LIMIT of a statement after n rows: one more than may be accepted.
Limit(n) == (MaxRows - n) + 1

\* A key is looked up: absent ends the read, two rows are refused.
look_up(t) ==
    LET rows == View(t)[Statement(t).tab]
    IN /\ Statement(t).pass = "one"
       /\ op' = CASE Len(rows) = 0 -> [op EXCEPT ![t].todo = <<>>, ![t].out = <<"absent">>]
                  [] Len(rows) > 1 -> Stops(t, "policy")
                  [] OTHER -> IF rows[1] = 0 THEN Stops(t, "policy")
                              ELSE [NextStatement(t) EXCEPT ![t].out = Append(@, rows[1])]

\* Mutant: the limit is tested before the row is counted.
row_late(t) ==
    LET s == Statement(t)
        rows == View(t)[s.tab]
        o == op[t]
        size == rows[o.at]
        room == Limit(o.n - (o.at - 1))
    IN /\ s.pass # "one"
       /\ op' = IF o.at > Len(rows) \/ o.at > room THEN NextStatement(t)
                ELSE IF o.n > MaxRows THEN Stops(t, "row_limit")
                ELSE IF s.pass # "numbers" /\ o.bytes + size > MaxBytes THEN Stops(t, "byte_limit")
                ELSE IF s.pass # "measure" /\ size = 0 THEN Stops(t, "policy")
                ELSE [op EXCEPT ![t].at = @ + 1, ![t].n = @ + 1,
                                ![t].bytes = IF s.pass = "numbers" THEN @ ELSE @ + size,
                                ![t].out = IF s.pass = "measure" THEN @ ELSE Append(@, size)]

\* One row of a statement, or its end: the limits first, then the decoding.
row(t) ==
    LET s == Statement(t)
        rows == View(t)[s.tab]
        o == op[t]
        size == rows[o.at]
        room == Limit(o.n - (o.at - 1))
    IN /\ s.pass # "one"
       /\ op' = IF o.at > Len(rows) \/ o.at > room THEN NextStatement(t)
                ELSE IF o.n + 1 > MaxRows THEN Stops(t, "row_limit")
                ELSE IF s.pass # "numbers" /\ o.bytes + size > MaxBytes THEN Stops(t, "byte_limit")
                ELSE IF s.pass # "measure" /\ size = 0 THEN Stops(t, "policy")
                ELSE [op EXCEPT ![t].at = @ + 1, ![t].n = @ + 1,
                                ![t].bytes = IF s.pass = "numbers" THEN @ ELSE @ + size,
                                ![t].out = IF s.pass = "measure" THEN @ ELSE Append(@, size)]

\* A transaction keeps what its first statement saw.
Snapshot(t) == View(t)

\* A step of the statements: a row, a fault of the database or an interrupt,
\* the checkpoint that cancels the read, or a panic, which poisons the mutex (a
\* live read rolls back first).
run(t) ==
    /\ op[t].step = "run" /\ conn.holder = t /\ op[t].todo # <<>>
    /\ \/ /\ look_up(t) \/ row(t)
          /\ conn' = [conn EXCEPT !.view = Snapshot(t)]
          /\ NoFault
       \/ /\ MayFail
          /\ \E why \in {"database", "interrupted"} :
                op' = Stops(t, IF why = "interrupted" /\ Live(op[t].kind) THEN "cancelled" ELSE why)
          /\ UNCHANGED conn
       \/ /\ MayFail
          /\ op' = ReadsEnds(t, "panic")
          /\ conn' = [conn EXCEPT !.holder = None, !.broken = TRUE, !.tx = ~Live(op[t].kind)]
    /\ UNCHANGED <<db, image, writes, reads>>

\* COMMIT after the last statement; the handler is cleared with it.
commit(t) ==
    /\ op[t].step = "run" /\ conn.holder = t /\ op[t].todo = <<>>
    /\ \/ /\ NoFault
          /\ op' = [ReadsEnds(t, "complete") EXCEPT ![t].view = View(t)]
          /\ conn' = [conn EXCEPT !.tx = FALSE, !.view = None, !.armed = None, !.holder = None]
       \/ /\ MayFail
          /\ op' = Stops(t, "database")
          /\ UNCHANGED conn
    /\ UNCHANGED <<db, image, writes, reads>>

\* A failed read rolls back; a transaction that stays open poisons the
\* connection of the image (the live one is refused at its next BEGIN).
transaction_failure(t) ==
    /\ op[t].step = "failure" /\ conn.holder = t
    /\ \/ /\ NoFault
          /\ op' = [op EXCEPT ![t].step = "ended", ![t].view = View(t)]
          /\ conn' = [conn EXCEPT !.tx = FALSE, !.view = None, !.armed = None, !.holder = None]
       \/ /\ MayFail /\ conn.tx
          /\ op' = [op EXCEPT ![t].step = "ended", ![t].outcome = "transaction_poisoned"]
          /\ conn' = [conn EXCEPT !.armed = None, !.holder = None, !.poisoned = ~Live(op[t].kind)]
    /\ UNCHANGED <<db, image, writes, reads>>

\* Another connection commits; what an open snapshot sees does not change.
Write ==
    /\ writes < MaxWrites[subject]
    /\ writes' = writes + 1
    /\ \E new \in Tables[subject] : new # db /\ db' = new
    /\ UNCHANGED <<image, conn, op, faults, reads>>

ReadsNext ==
    \/ \E t \in Threads[subject] : \/ \E kind \in Kinds[subject] : lock_raw_until(t, kind)
                                   \/ begin(t) \/ run(t) \/ commit(t) \/ transaction_failure(t)
    \/ Write

(***************************************************************************)
(* What a read should answer, from the definition of the tables            *)
(***************************************************************************)
Total(rows) == LET sum[k \in 0..Len(rows)] == IF k = 0 THEN 0 ELSE sum[k - 1] + rows[k] IN sum[Len(rows)]

Fits(kind, rows) ==
    /\ Len(rows) <= MaxRows
    /\ kind \in {"list_ids", "verify_migration_set"} \/ Total(rows) <= MaxBytes

Decodes(rows) == \A k \in 1..Len(rows) : rows[k] # 0

\* The rows a kind reads under one limit.
Groups(kind, v) ==
    CASE kind \in {"list_ids", "verify_migration_set", "state_get", "load_bounded_state"} -> <<v["a"]>>
      [] kind = "meta_get" -> <<v["a"], v["b"]>>
      [] kind \in {"selected", "query_two_pass"} -> <<v["a"] \o v["b"]>>
      [] kind = "audit_in_flight_transition" -> <<>>

Flat(seqs) == LET cat[k \in 0..Len(seqs)] == IF k = 0 THEN <<>> ELSE cat[k - 1] \o seqs[k] IN cat[Len(seqs)]

Keyed(kind) == kind \in {"state_get", "meta_get", "load_bounded_state", "audit_in_flight_transition"}

\* The holder, the limits and the outcomes have their shapes.
ReadsTypeOK ==
    /\ conn.holder \in Threads[subject] \cup {None} /\ conn.armed \in Threads[subject] \cup {None}
    /\ \A t \in Threads[subject] : op[t].n <= MaxRows /\ op[t].bytes <= MaxBytes

\* A read that completes has every row its tables held in one state of the
\* database, never a prefix of them and never rows of two states; and it
\* completes only within its limits (step loops of list_ids, get, selected,
\* query_two_pass, load_bounded_selections).
NeverTruncated == subject \in {"reads", "livereads"} =>
    (\A t \in Threads[subject] :
        LET o == op[t] IN
        o.outcome = "complete" =>
            LET key == IF Keyed(o.kind) THEN o.view["key"] ELSE <<>>
                groups == Groups(o.kind, o.view)
            IN IF Keyed(o.kind) /\ key = <<>> THEN o.out = <<"absent">>
               ELSE /\ o.out = key \o Flat(groups)
                    /\ \A g \in 1..Len(groups) : Fits(o.kind, groups[g]) /\ Decodes(groups[g]))

\* A read refuses for a limit only when its tables exceed one.
LimitIsReal == subject = "reads" =>
    (\A t \in Threads[subject] :
        LET o == op[t] IN
        (o.step = "ended" /\ o.outcome \in {"row_limit", "byte_limit"}) =>
            \/ \E g \in 1..Len(Groups(o.kind, o.view)) : ~Fits(o.kind, Groups(o.kind, o.view)[g])
            \/ o.kind = "load_bounded_state" /\ ~Fits(o.kind, o.view["key"]))

\* No read starts inside a transaction another one left behind, and no progress
\* callback of an ended read is left armed: whoever finds the connection free
\* and usable finds it clean (transaction_failure, clear_progress).
ConnectionIsClean == subject = "sharedreads" =>
    /\ (conn.holder = None /\ ~conn.broken) => conn.armed = None
    /\ \A t \in Threads[subject] : (op[t].step = "begin" /\ ~Live(op[t].kind)) => ~conn.tx

-----------------------------------------------------------------------------
(* A behaviour exercises one part, chosen at the start; the variables of the
   other parts are not in use. *)
StorageInit ==
    /\ subject \in Subjects
    /\ \/ subject = "store" /\ StoreInit
          /\ entry = None /\ disk = None /\ content = None /\ lock = None /\ pc = None /\ fd = None /\ attempt = None /\ rot = None
          /\ db = None /\ used = None /\ added = None /\ moves = None /\ faults = None /\ image = None /\ conn = None /\ writes = None
          /\ reads = None
       \/ subject = "cache" /\ CacheInit
          /\ repo = None /\ states = None /\ active = None /\ downloads = None /\ layout = None /\ install = None /\ assets = None /\ unsynced = None
          /\ damaged = None /\ damage = None /\ op = None /\ db = None /\ used = None /\ added = None /\ moves = None /\ faults = None
          /\ image = None /\ conn = None /\ writes = None /\ reads = None
       \/ subject = "rows" /\ RowsInit
          /\ repo = None /\ states = None /\ active = None /\ downloads = None /\ layout = None /\ install = None /\ assets = None /\ unsynced = None
          /\ damaged = None /\ damage = None /\ entry = None /\ disk = None /\ content = None /\ lock = None /\ pc = None /\ fd = None
          /\ attempt = None /\ rot = None /\ image = None /\ conn = None /\ writes = None /\ reads = None
       \/ subject \in {"reads", "sharedreads", "livereads"} /\ ReadsInit
          /\ repo = None /\ states = None /\ active = None /\ downloads = None /\ layout = None /\ install = None /\ assets = None /\ unsynced = None
          /\ damaged = None /\ damage = None /\ entry = None /\ disk = None /\ content = None /\ lock = None /\ pc = None /\ fd = None
          /\ attempt = None /\ rot = None /\ used = None /\ added = None /\ moves = None

StoreOnly == subject = "store" /\ UNCHANGED <<subject, entry, disk, content, lock, pc, fd, attempt, rot, db, used,
                                              added, moves, faults, image, conn, writes, reads>>
CacheOnly == subject = "cache" /\ UNCHANGED <<subject, repo, states, active, downloads, layout, install, assets,
                                              unsynced, damaged, damage, op, db, used, added, moves, faults, image,
                                              conn, writes, reads>>
RowsOnly == subject = "rows" /\ UNCHANGED <<subject, repo, states, active, downloads, layout, install, assets,
                                            unsynced, damaged, damage, entry, disk, content, lock, pc, fd, attempt,
                                            rot, image, conn, writes, reads>>
ReadsOnly == subject \in {"reads", "sharedreads", "livereads"} /\ UNCHANGED <<subject, repo, states, active,
                                                                              downloads, layout, install, assets,
                                                                              unsynced, damaged, damage, entry,
                                                                              disk, content, lock, pc, fd, attempt,
                                                                              rot, used, added, moves>>
StorageNext ==
    \/ StoreOnly /\ StoreNext
    \/ CacheOnly /\ CacheNext
    \/ RowsOnly /\ RowsNext
    \/ ReadsOnly /\ ReadsNext

StorageTypeOK ==
    /\ subject = "store" => StoreTypeOK
    /\ subject = "cache" => CacheTypeOK
    /\ subject = "rows" => RowsTypeOK
    /\ subject \in {"reads", "sharedreads", "livereads"} => ReadsTypeOK

-----------------------------------------------------------------------------
(* The instance that TLC checks. *)
MCPackage == {p1, p2}
MCAsset == {x, y}
MCFiles == (p1 :> {x}) @@ (p2 :> {x, y})
MCMaxDamage == 2
MCMaxStates == 3

MCTwoTasks == {f1, f2}
MCMaxAttempts == 2
MCMaxRot == 2
MCOutside == {o1, o2}

Sizes == 0..2
Short(n) == UNION {[1..k -> Sizes] : k \in 0..n}

\* All tables of up to three rows with at most one key, and two equal keys.
MCTables == {[key |-> k, a |-> x1, b |-> y1] : k \in {<<>>, <<1>>, <<1, 1>>}, x1 \in Short(3), y1 \in Short(1)}

\* A few tables, for interleavings.
FewTables == {[key |-> <<1>>, a |-> x1, b |-> y1] : x1 \in {<<1>>, <<1, 1>>, <<2, 1, 1>>}, y1 \in {<<>>, <<1>>}}

ImageKinds == {"list_ids", "state_get", "meta_get", "selected", "verify_migration_set", "audit_in_flight_transition"}
SharedKinds == {"list_ids", "meta_get"}
LiveKinds == {"query_two_pass", "load_bounded_state"}
AllKinds == ImageKinds \cup LiveKinds
ReadsThreads == [reads |-> {"t1"}, sharedreads |-> {"t1", "t2"}, livereads |-> {"t1"}]
ReadsKinds == [reads |-> AllKinds, sharedreads |-> SharedKinds, livereads |-> LiveKinds]
ReadsTables == [reads |-> MCTables, sharedreads |-> FewTables, livereads |-> FewTables]
ReadsMaxFaults == [reads |-> 0, sharedreads |-> 2, livereads |-> 1]
ReadsMaxWrites == [reads |-> 0, sharedreads |-> 0, livereads |-> 2]
ReadsMaxReads == [reads |-> 1, sharedreads |-> 3, livereads |-> 2]
=============================================================================
