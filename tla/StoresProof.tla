----------------------------- MODULE StoresProof -----------------------------
(***************************************************************************)
(* The stores of an installation keep what they promise, for any packages, *)
(* assets, tasks, rows and bounds.  A behaviour of Stores exercises one    *)
(* part; each part has an inductive invariant of its own, and the steps of *)
(* the other parts are ruled out by the subject, which never changes.      *)
(***************************************************************************)
EXTENDS Stores, TLAPS

-----------------------------------------------------------------------------
(* The package store. *)

StoreOp ==
    [step : {"idle", "fetch", "unpack", "install_rows", "record", "gc_install", "gc_layout", "cache_install",
             "gc_downloads", "gc_assets", "verify"},
     pkgs : SUBSET Package, todo : SUBSET Asset, pending : Asset \cup {None}, sel : (SUBSET Package) \cup {None}]

StoreShape ==
    /\ repo \subseteq Package /\ states \subseteq SUBSET Package /\ active \in states
    /\ downloads \subseteq Package /\ layout \subseteq Package /\ install \subseteq Package
    /\ assets \in [Asset -> Content] /\ unsynced \subseteq Asset /\ damaged \subseteq Asset
    /\ damage \in 0..MaxDamage
    /\ op \in StoreOp

\* The asset authenticates, or something took it since it was published.
Safe(a) == assets[a] = "good" \/ a \in damaged

Stored(p) == p \in layout /\ p \in install /\ \A a \in Files[p] : Safe(a)

\* What the steps of an operation have established so far.
OpBacked ==
    /\ op.sel # None => op.sel \subseteq active \cup op.pkgs
    /\ op.pending # None => op.step = "unpack" /\ \A p \in UNION states : op.pending \in Files[p] => op.pending \in damaged
    /\ op.step = "unpack" => \A p \in op.pkgs : \A a \in Files[p] : a \in op.todo \/ Safe(a)
    /\ op.step = "install_rows" => op.pkgs \subseteq layout /\ \A p \in op.pkgs : \A a \in Files[p] : Safe(a)
    /\ op.step = "record" => op.sel \in SUBSET Package /\ op.sel \subseteq active \cup op.pkgs /\ \A p \in op.pkgs : Stored(p)
    /\ op.step \in {"gc_install", "gc_layout"} => \A p \in op.pkgs : p \notin UNION states
    /\ op.step = "cache_install" => UNION states \subseteq op.pkgs
    /\ op.step = "verify" => op.todo \subseteq damaged

\* What is left for a collection to remove.
Collecting ==
    op.step = "gc_assets" =>
        /\ downloads \subseteq install
        /\ \A p \in layout : \A a \in Files[p] : a \notin op.todo
        /\ \A a \in Asset : assets[a] # "absent" => a \in op.todo \/ \E p \in layout : a \in Files[p]

StoreIInv ==
    /\ StoreShape
    /\ \A p \in UNION states : Stored(p)
    /\ \A a \in Asset : assets[a] = "bad" => a \in damaged
    /\ OpBacked
    /\ Collecting

StoreInv == subject = "store" => StoreIInv

-----------------------------------------------------------------------------
(* The download cache. *)

Publishing == {"check", "rename", "sync", "final", "rollback"}

\* The steps of a task whose stage has been the entry.
Renamed == {"sync", "final", "rollback", "published", "failed", "unpacking", "unpacked"}

CacheIInv ==
    /\ CacheTypeOK
    /\ \A t \in Task : pc[t] \in Publishing <=> lock = t
    /\ \A t \in Task : pc[t] \in {"sync", "final", "rollback"} => entry = t
    /\ \A t \in Task : pc[t] = "final" => disk = {t}
    /\ \A t \in Task : pc[t] = "published" /\ content[t] = "good" => entry = t /\ disk = {t}
    /\ \A t \in Task : entry = t => pc[t] \in Renamed
    /\ \A t, u \in Task : fd[t] = u /\ u # t => pc[u] \in Renamed

CacheInv == subject = "cache" => CacheIInv

-----------------------------------------------------------------------------
(* The rows of the state database. *)

RowsDb ==
    [row : [Ids -> {None} \cup [trans : Transitions \cup {None}, text : Texts]], sel : [Ids -> SUBSET Packages],
     prov : [Ids -> {None} \cup Texts], next : Nat]

\* The fields of a removal; what it wants is compared, never computed with.
RowsOp ==
    /\ op = [kind |-> op.kind, ids |-> op.ids, want |-> op.want, trans |-> op.trans, step |-> op.step,
             attempt |-> op.attempt, mine |-> op.mine, gone |-> op.gone, outcome |-> op.outcome]
    /\ op.step \in {"none", "attempt", "observe", "reconcile", "ended"}

\* What a removal took and what it can still learn about it.
RemovalIsKnown ==
    /\ op.step # "ended" => op.outcome = "none"
    /\ op.step \in {"attempt", "observe"} => op.ids # {} /\ \A i \in op.ids : i \in Ids /\ i < db.next
    /\ op.step = "attempt" => op.mine = {}
    /\ op.step = "observe" => op.mine \in {{}, op.ids} /\ \A i \in op.mine : db.row[i] = None
    /\ op.kind = "fresh" => \E i \in Ids : op.ids = {i}
    /\ op.step = "reconcile" => /\ op.kind = "fresh"
                                /\ op.attempt = "rolled_back" => op.mine = {}
                                /\ op.attempt = "ok" => op.mine = op.ids

RowsIInv ==
    /\ db \in RowsDb
    /\ \A i \in Ids : i >= db.next => db.row[i] = None
    /\ \A i \in Ids : db.row[i] # None => db.sel[i] = added[i].sel
    /\ added \in [Ids -> {None} \cup [text : Texts, sel : SUBSET Packages]]
    /\ RowsOp /\ RemovalIsKnown
    /\ op.outcome = "not_applied" => op.mine = {}
    /\ op.outcome = "ok" => op.gone /\ op.mine \in {{}, op.ids}
    /\ op.outcome = "absence" => op.gone /\ op.mine = op.ids

RowsInv == subject = "rows" => RowsIInv

-----------------------------------------------------------------------------
(* The migration of declarations. *)

Row == [marker : {0, 1}, original : Sources, blob : Sources]

Request == [source : Sources, marker : {0, 1}]

Answer ==
    {"none", "mismatch", "committed", "already", "row_mismatch", "not_ready", "finalized", "pruned", "unmigrated",
     "marker_drift", "source_drift", "blob_error", "model"}

MigrationOp ==
    [kind : {"idle", "migrate", "resolve", "prune", "finalize"}, state : States \cup {None},
     step : {"none", "create", "write", "sync_directory", "commit", "referenced", "remove", "ended"},
     keep : SUBSET Sources, left : SUBSET Sources, removed : SUBSET Sources, answer : Answer,
     value : Request \cup Sources \cup {None}]

MigrationShape ==
    /\ tree \in [States -> Request]
    /\ declaration_row \in [States -> {None} \cup Row]
    /\ file \in [Sources -> {"absent", "partial", "full"}]
    /\ op \in MigrationOp

BlobsAreWhole ==
    \A s \in States : declaration_row[s] # None =>
        declaration_row[s].blob = declaration_row[s].original /\ file[declaration_row[s].blob] = "full"

MigrateIsBacked ==
    op.kind = "migrate" =>
        /\ op.state \in States /\ op.value \in Request
        /\ op.step \in {"sync_directory", "commit"} => file[op.value.source] = "full"

FinalizeIsBacked ==
    op.kind = "finalize" =>
        /\ (op.step \in {"referenced", "remove"} \/ op.removed # {}) => \A s \in States : declaration_row[s] # None
        /\ op.step = "remove" => \A s \in States : declaration_row[s].blob \notin op.left

ResolveIsTrue ==
    op.kind = "resolve" =>
        /\ op.step = "ended" /\ op.state \in States
        /\ op.answer \in {"unmigrated", "model"} =>
              op.value = tree[op.state].source /\ (op.answer = "unmigrated" <=> declaration_row[op.state] = None)

MigrationIInv == MigrationShape /\ BlobsAreWhole /\ MigrateIsBacked /\ FinalizeIsBacked /\ ResolveIsTrue

MigrationInv == subject = "migration" => MigrationIInv


-----------------------------------------------------------------------------
(* The store: one step per operation. *)

\* No operation runs: nothing is in progress that the stores must back.
LEMMA IdleBacksNothing ==
    ASSUME op = Idle
    PROVE  op \in StoreOp /\ OpBacked /\ Collecting
<1>1. op \in StoreOp  BY Zenon DEF Idle, StoreOp
<1>2. OpBacked  BY Zenon DEF Idle, OpBacked
<1>3. Collecting  BY Zenon DEF Idle, Collecting
<1> QED BY Zenon, <1>1, <1>2, <1>3

\* An operation that ends leaves the idle record, which claims nothing (Idle).
LEMMA IdleBacksNothingNext ==
    ASSUME op' = Idle
    PROVE  (op \in StoreOp /\ OpBacked /\ Collecting)'
<1>1. (op \in StoreOp)'  BY Zenon DEF Idle, StoreOp
<1>2. OpBacked'  BY Zenon DEF Idle, OpBacked
<1>3. Collecting'  BY Zenon DEF Idle, Collecting
<1> QED BY Zenon, <1>1, <1>2, <1>3

\* A fresh installation satisfies the invariant (StoreInit).
LEMMA StoreStarts ==
    ASSUME StoreInit
    PROVE  StoreIInv
<1>1. op \in StoreOp /\ OpBacked /\ Collecting  BY Zenon, IdleBacksNothing DEF StoreInit
<1>2. StoreShape  BY <1>1, BoundsAssumption DEF StoreInit, StoreShape, Content
<1>3. UNION states = {}  BY Zenon DEF StoreInit
<1>4. \A a \in Asset : assets[a] # "bad"  BY Zenon DEF StoreInit
<1> QED BY Zenon, <1>1, <1>2, <1>3, <1>4 DEF StoreIInv

\* Starting a command changes no store (install_resolved, sync, remove,
\* materialize_frozen_root, verify).
LEMMA StoreBegins ==
    ASSUME StoreIInv,
           \/ \E S \in SUBSET repo : install_resolved(S) \/ materialize_frozen_root(S)
           \/ \E S \in SUBSET Package : sync(S) \/ remove(S)
           \/ verify
    PROVE  StoreIInv'
<1> USE FilesAssumption DEF StoreIInv
<1>1. ASSUME NEW S \in SUBSET repo, install_resolved(S)  PROVE StoreIInv'
  BY ZenonT(60), <1>1 DEF install_resolved, Begin, store, StoreShape, StoreOp, Idle, OpBacked, Collecting, Stored,
     Safe
<1>2. ASSUME NEW S \in SUBSET repo, materialize_frozen_root(S)  PROVE StoreIInv'
  BY Zenon, <1>2 DEF materialize_frozen_root, Begin, store, StoreShape, StoreOp, Idle, OpBacked, Collecting,
     Stored, Safe
<1>3. ASSUME NEW S \in SUBSET Package, sync(S)  PROVE StoreIInv'
  BY Zenon, <1>3 DEF sync, Begin, store, StoreShape, StoreOp, Idle, OpBacked, Collecting, Stored, Safe
<1>4. ASSUME NEW S \in SUBSET Package, remove(S)  PROVE StoreIInv'
  BY Zenon, <1>4 DEF remove, Begin, store, StoreShape, StoreOp, Idle, OpBacked, Collecting, Stored, Safe
<1>5. ASSUME verify  PROVE StoreIInv'
  BY <1>5 DEF verify, issues, issue_packages, Hashes, Begin, store, StoreShape, StoreOp, Idle, OpBacked,
     Collecting, Stored, Safe
<1> QED BY Zenon, <1>1, <1>2, <1>3, <1>4, <1>5

\* Caching and recording: a package is stored in all its places before a state
\* selects it (Client::cache_packages, Client::new_state).
LEMMA StoreCaches ==
    ASSUME StoreIInv, CacheStep
    PROVE  StoreIInv'
<1> USE FilesAssumption DEF StoreIInv, StoreShape, StoreOp, OpBacked, Collecting, Stored, Safe
<1>1. ASSUME Fetch  PROVE StoreIInv'
  <2>1. \A p \in op.pkgs : \A a \in Files[p] : a \in Hashes(op.pkgs)  BY DEF Hashes
  <2>2. Hashes(op.pkgs) \subseteq Asset  BY DEF Hashes
  <2> QED BY Zenon, <1>1, <2>1, <2>2 DEF Fetch
<1>2. ASSUME SyncAsset  PROVE StoreIInv'
  BY Zenon, <1>2 DEF SyncAsset
<1>3. ASSUME RollBackPublication  PROVE StoreIInv'
  <2>1. (op \in StoreOp /\ OpBacked /\ Collecting)'  BY Zenon, <1>3, IdleBacksNothingNext DEF RollBackPublication
  <2>2. op.pending \in Asset /\ \A p \in UNION states : op.pending \in Files[p] => op.pending \in damaged
    BY Zenon, <1>3 DEF RollBackPublication
  <2>3. assets' \in [Asset -> Content] /\ assets'[op.pending] = "absent" /\ \A a \in Asset \ {op.pending} : assets'[a] = assets[a]
    BY Zenon, <1>3, <2>2 DEF RollBackPublication, Content
  <2>4. (\A p \in UNION states : Stored(p))'  BY <1>3, <2>2, <2>3 DEF RollBackPublication
  <2> HIDE DEF StoreOp, OpBacked, Collecting, Stored
  <2> QED BY Zenon, <1>3, <2>1, <2>2, <2>3, <2>4 DEF RollBackPublication
<1>4. ASSUME ingest_stone_layouts  PROVE StoreIInv'
  BY Zenon, <1>4 DEF ingest_stone_layouts
<1>5. ASSUME AddInstallRows  PROVE StoreIInv'
  BY Zenon, <1>5 DEF AddInstallRows, Idle
<1>6. ASSUME new_state  PROVE StoreIInv'
  <2>1. (op \in StoreOp /\ OpBacked /\ Collecting)'  BY Zenon, <1>6, IdleBacksNothingNext DEF new_state
  <2>2. \A p \in op.sel : Stored(p)  BY Zenon, <1>6 DEF new_state
  <2>3. (\A p \in UNION states : Stored(p))'  BY <1>6, <2>2 DEF new_state, store
  <2>4. StoreShape'  BY Zenon, <1>6, <2>1 DEF new_state, store
  <2> HIDE DEF StoreShape, StoreOp, OpBacked, Collecting, Stored
  <2> QED BY Zenon, <1>6, <2>1, <2>3, <2>4 DEF new_state, store
<1>7. ASSUME NEW a \in Asset, SkipAuthentic(a)  PROVE StoreIInv'
  BY Zenon, <1>7 DEF SkipAuthentic, store
<1>8. ASSUME NEW a \in Asset, PublishAsset(a)  PROVE StoreIInv'
  BY ZenonT(60), <1>8 DEF PublishAsset, Content
<1> QED BY Zenon, <1>1, <1>2, <1>3, <1>4, <1>5, <1>6, <1>7, <1>8 DEF CacheStep

\* Collections take nothing a recorded state selects (prune_states, prune_cache,
\* remove_orphaned_files).
LEMMA StoreCollects ==
    ASSUME StoreIInv,
           (\E R \in SUBSET states : prune_states(R)) \/ prune_cache \/ GcStep
    PROVE  StoreIInv'
<1> USE FilesAssumption DEF StoreIInv, StoreShape, StoreOp, OpBacked, Collecting, Stored, Safe
<1>1. ASSUME NEW R \in SUBSET states, prune_states(R)  PROVE StoreIInv'
  <2>0. states' = states \ R /\ op'.pkgs = (UNION R) \ UNION (states \ R)
    BY Zenon, <1>1 DEF prune_states, unreferenced_removed_packages, Begin
  <2>1. UNION states' \subseteq UNION states /\ \A p \in op'.pkgs : p \notin UNION states'
    <3> HIDE DEF StoreIInv
    <3> QED BY Zenon, <2>0
  <2>2. (\A p \in UNION states : Stored(p))'  BY Zenon, <1>1, <2>1 DEF prune_states, store
  <2>3. op' \in StoreOp /\ op'.step = "gc_install" /\ op'.sel = None /\ op'.pending = None
    BY Zenon, <1>1 DEF prune_states, unreferenced_removed_packages, Begin
  <2>4. StoreShape'  BY Zenon, <1>1, <2>3 DEF prune_states, store
  <2>5. OpBacked' /\ Collecting'  BY Zenon, <2>1, <2>3
  <2> HIDE DEF StoreShape, StoreOp, OpBacked, Collecting, Stored
  <2> QED BY Zenon, <1>1, <2>2, <2>4, <2>5 DEF prune_states, store
<1>2. ASSUME prune_cache  PROVE StoreIInv'
  <2>0. UNION states \subseteq Package
    <3>1. repo \subseteq Package /\ states \subseteq SUBSET Package  BY Zenon
    <3> HIDE DEF StoreIInv
    <3> QED BY Zenon, <3>1
  <2>1. packages_to_keep \in SUBSET Package /\ UNION states \subseteq packages_to_keep
    BY Zenon, <2>0 DEF packages_to_keep
  <2>2. op' \in StoreOp /\ op'.step = "cache_install" /\ op'.pkgs = packages_to_keep /\ op'.sel = None /\ op'.pending = None
    BY Zenon, <1>2, <2>1 DEF prune_cache, Begin
  <2>3. (\A p \in UNION states : Stored(p))'  BY Zenon, <1>2, <2>1 DEF prune_cache
  <2>4. StoreShape'  BY Zenon, <1>2, <2>2 DEF prune_cache
  <2>5. OpBacked' /\ Collecting'  BY Zenon, <1>2, <2>1, <2>2 DEF prune_cache
  <2> HIDE DEF StoreShape, StoreOp, OpBacked, Collecting, Stored
  <2> QED BY Zenon, <1>2, <2>3, <2>4, <2>5 DEF prune_cache
<1>3. ASSUME GcInstallRows  PROVE StoreIInv'
  BY Zenon, <1>3 DEF GcInstallRows
<1>4. ASSUME GcLayoutRows  PROVE StoreIInv'
  BY Zenon, <1>4 DEF GcLayoutRows
<1>5. ASSUME CacheInstallRows  PROVE StoreIInv'
  BY Zenon, <1>5 DEF CacheInstallRows
<1>6. ASSUME RemoveOrphanedDownloads  PROVE StoreIInv'
  <2> DEFINE left == Present \ Hashes(layout)
  <2>1. left \subseteq Asset /\ \A p \in layout : \A a \in Files[p] : a \notin left  BY DEF Present, Hashes
  <2>2. \A a \in Asset : assets[a] # "absent" => a \in left \/ \E p \in layout : a \in Files[p]
    BY DEF Present, Hashes
  <2> HIDE DEF left
  <2>3. op' = [op EXCEPT !.step = "gc_assets", !.todo = left]  BY Zenon, <1>6 DEF RemoveOrphanedDownloads, left
  <2>4. op' \in StoreOp /\ op'.step = "gc_assets" /\ op'.todo = left /\ op'.pending = op.pending /\ op'.sel = op.sel /\ op'.pkgs = op.pkgs
    BY Zenon, <2>1, <2>3
  <2>5. StoreShape' /\ Collecting'  BY Zenon, <1>6, <2>1, <2>2, <2>4 DEF RemoveOrphanedDownloads
  <2>6. OpBacked'  BY Zenon, <1>6, <2>4 DEF RemoveOrphanedDownloads
  <2>7. (\A p \in UNION states : Stored(p))'  BY Zenon, <1>6 DEF RemoveOrphanedDownloads
  <2> HIDE DEF StoreShape, StoreOp, OpBacked, Collecting, Stored
  <2> QED BY Zenon, <1>6, <2>5, <2>6, <2>7 DEF RemoveOrphanedDownloads
<1>7. ASSUME GcDone  PROVE StoreIInv'
  <2>1. (op \in StoreOp /\ OpBacked /\ Collecting)'  BY Zenon, <1>7, IdleBacksNothingNext DEF GcDone
  <2> HIDE DEF StoreOp, OpBacked, Collecting
  <2> QED BY Zenon, <1>7, <2>1 DEF GcDone, store
<1>8. ASSUME NEW a \in Asset, remove_orphaned_file(a)  PROVE StoreIInv'
  BY <1>8 DEF remove_orphaned_file, Content
<1> QED BY Zenon, <1>1, <1>2, <1>3, <1>4, <1>5, <1>6, <1>7, <1>8 DEF GcStep

\* The repair of corrupt assets and what happens to the store from outside.
LEMMA StoreSuffers ==
    ASSUME StoreIInv,
           VerifyStep \/ Stop \/ PowerLoss \/ RefreshRepositories \/ \E a \in Asset : Corrupt(a)
    PROVE  StoreIInv'
<1> USE FilesAssumption, BoundsAssumption DEF StoreIInv, StoreShape, StoreOp, OpBacked, Collecting, Stored, Safe
<1>1. ASSUME ReinstallPackages  PROVE StoreIInv'
  BY Zenon, <1>1 DEF ReinstallPackages, store
<1>2. ASSUME NEW a \in Asset, RemoveCorrupt(a)  PROVE StoreIInv'
  BY <1>2 DEF RemoveCorrupt, Content
<1>3. ASSUME Stop  PROVE StoreIInv'
  <2>1. (op \in StoreOp /\ OpBacked /\ Collecting)'  BY Zenon, <1>3, IdleBacksNothingNext DEF Stop
  <2> HIDE DEF StoreOp, OpBacked, Collecting
  <2> QED BY Zenon, <1>3, <2>1 DEF Stop, store
<1>4. ASSUME PowerLoss  PROVE StoreIInv'
  <2>1. (op \in StoreOp /\ OpBacked /\ Collecting)'  BY Zenon, <1>4, IdleBacksNothingNext DEF PowerLoss
  <2>2. PICK dropped \in SUBSET unsynced : assets' = [a \in Asset |-> IF a \in dropped THEN "absent" ELSE assets[a]]
                                         /\ damaged' = damaged \cup dropped
    BY Zenon, <1>4 DEF PowerLoss
  <2>3. assets' \in [Asset -> Content]  BY Zenon, <2>2 DEF Content
  <2>4. \A a \in Asset : (Safe(a) => Safe(a)') /\ (assets'[a] = "bad" => a \in damaged')  BY Zenon, <2>2
  <2> HIDE DEF StoreOp, OpBacked, Collecting, Safe
  <2>5. (\A p \in UNION states : Stored(p))'  BY Zenon, <1>4, <2>4 DEF PowerLoss
  <2> QED BY <1>4, <2>1, <2>2, <2>3, <2>4, <2>5 DEF PowerLoss
<1>5. ASSUME RefreshRepositories  PROVE StoreIInv'
  BY Zenon, <1>5 DEF RefreshRepositories, store
<1>6. ASSUME NEW a \in Asset, Corrupt(a)  PROVE StoreIInv'
  BY <1>6 DEF Corrupt, Content
<1> QED BY Zenon, <1>1, <1>2, <1>3, <1>4, <1>5, <1>6 DEF VerifyStep

-----------------------------------------------------------------------------
(* The cache: one step per call of a task. *)

\* The cache of an earlier run satisfies the invariant (CacheInit).
LEMMA CacheStarts ==
    ASSUME CacheInit
    PROVE  CacheIInv
BY InodesAssumption, AttemptsAssumption DEF CacheInit, CacheIInv, CacheTypeOK, Inode, Steps, Publishing, Renamed

\* A task looks at the entry and downloads a stage of its own (cache::fetch).
LEMMA CacheFetches ==
    ASSUME CacheIInv, NEW t \in Task,
           Look(t) \/ Hash(t) \/ Reopen(t) \/ Download(t)
    PROVE  CacheIInv'
<1> USE InodesAssumption, AttemptsAssumption DEF CacheIInv, CacheTypeOK, Inode, Steps, Publishing, Renamed, Goto
<1>1. CASE Look(t)  BY <1>1 DEF Look
<1>2. CASE Hash(t)  BY ZenonT(60), <1>2 DEF Hash
<1>3. CASE Reopen(t)  BY ZenonT(60), <1>3 DEF Reopen
<1>4. CASE Download(t)  BY <1>4 DEF Download
<1> QED BY Zenon, <1>1, <1>2, <1>3, <1>4

\* Under the lock of the directory the stage becomes the entry
\* (publish_download_entry_async).
LEMMA CachePublishes ==
    ASSUME CacheIInv, NEW t \in Task,
           lock_directory(t) \/ LockTimeout(t) \/ CheckEntry(t) \/ rename_noreplace(t) \/ NotConverged(t) \/ SyncDirectory(t)
    PROVE  CacheIInv'
<1> USE InodesAssumption, AttemptsAssumption DEF CacheIInv, CacheTypeOK, Inode, Steps, Publishing, Renamed, Goto
<1>1. CASE lock_directory(t)  BY ZenonT(60), <1>1 DEF lock_directory
<1>2. CASE LockTimeout(t)  BY <1>2 DEF LockTimeout
<1>3. CASE CheckEntry(t)  BY <1>3 DEF CheckEntry, Authentic, Linked
<1>4. CASE rename_noreplace(t)  BY <1>4 DEF rename_noreplace
<1>5. CASE NotConverged(t)  BY <1>5 DEF NotConverged
<1>6. CASE SyncDirectory(t)  BY ZenonT(60), <1>6 DEF SyncDirectory
<1> QED BY Zenon, <1>1, <1>2, <1>3, <1>4, <1>5, <1>6

\* The end of a publication, its rollback, the reader of the descriptor, and
\* what happens to the file from outside.
LEMMA CacheEnds ==
    ASSUME CacheIInv,
           (\E t \in Task : Finish(t) \/ RollBack(t) \/ Fail(t) \/ UnpackStart(t) \/ UnpackEnd(t)) \/ Rot \/ Copy
    PROVE  CacheIInv'
<1> USE InodesAssumption, AttemptsAssumption DEF CacheIInv, CacheTypeOK, Inode, Steps, Publishing, Renamed, Goto
<1>1. ASSUME NEW t \in Task, Finish(t)  PROVE CacheIInv'  BY <1>1 DEF Finish, Authentic, Linked
<1>2. ASSUME NEW t \in Task, RollBack(t)  PROVE CacheIInv'  BY <1>2 DEF RollBack
<1>3. ASSUME NEW t \in Task, Fail(t)  PROVE CacheIInv'  BY <1>3 DEF Fail
<1>4. ASSUME NEW t \in Task, UnpackStart(t)  PROVE CacheIInv'  BY ZenonT(60), <1>4 DEF UnpackStart
<1>5. ASSUME NEW t \in Task, UnpackEnd(t)  PROVE CacheIInv'  BY ZenonT(60), <1>5 DEF UnpackEnd
<1>6. ASSUME Rot  PROVE CacheIInv'  BY <1>6 DEF Rot
<1>7. ASSUME Copy  PROVE CacheIInv'  BY <1>7 DEF Copy
<1> QED BY Zenon, <1>1, <1>2, <1>3, <1>4, <1>5, <1>6, <1>7

-----------------------------------------------------------------------------
(* The rows: one step per transaction. *)

\* The empty database satisfies the invariant (RowsInit).
LEMMA RowsStart ==
    ASSUME RowsInit
    PROVE  RowsIInv
BY Zenon, MaxIdAssumption DEF RowsInit, RowsIInv, RowsDb, Ids, Empty, RowsIdle, RowsOp, RemovalIsKnown

\* Deleting rows deletes their parts and nothing else (Deleted).
LEMMA DeletedRows ==
    ASSUME NEW d \in RowsDb, NEW S \in SUBSET Ids
    PROVE  /\ Deleted(d, S) \in RowsDb
           /\ Deleted(d, S).next = d.next
           /\ \A i \in Ids : Deleted(d, S).row[i] = IF i \in S THEN None ELSE d.row[i]
           /\ \A i \in Ids \ S : Deleted(d, S).sel[i] = d.sel[i]
BY Zenon DEF Deleted, RowsDb

\* A database with fewer of the same rows keeps the invariant while the
\* removal under way keeps its account.
LEMMA RowsShrink ==
    ASSUME RowsIInv, NEW S \in SUBSET Ids, db' = Deleted(db, S), UNCHANGED <<added, op>>
    PROVE  RowsIInv'
<1>1. db \in RowsDb  BY Zenon DEF RowsIInv
<1>2. /\ db' \in RowsDb /\ db'.next = db.next
      /\ \A i \in Ids : db'.row[i] = IF i \in S THEN None ELSE db.row[i]
      /\ \A i \in Ids \ S : db'.sel[i] = db.sel[i]
  BY <1>1, DeletedRows
<1> QED BY <1>2 DEF RowsIInv, RowsOp, RemovalIsKnown

\* Rows are added with an identifier that was never handed out (add_inner).
LEMMA RowsAdd ==
    ASSUME RowsIInv, Add
    PROVE  RowsIInv'
<1>1. PICK t \in (Transitions \ used) \cup {None}, text \in Texts, S \in SUBSET Packages :
          add_inner(t, text, S, FALSE) \/ add_inner(t, text, S, TRUE)
  BY Zenon DEF Add
<1>2. db.next <= MaxId /\ op' = op  BY Zenon DEF Add
<1>3. CASE UNCHANGED <<db, added>>  BY Zenon, <1>2, <1>3 DEF RowsIInv, RowsOp, RemovalIsKnown
<1>4. CASE /\ db' = [db EXCEPT !.row[db.next] = [trans |-> t, text |-> text], !.sel[db.next] = S, !.next = db.next + 1]
           /\ added' = [added EXCEPT ![db.next] = [text |-> text, sel |-> S]]
  <2>1. db \in RowsDb /\ db.next \in Nat  BY Zenon DEF RowsIInv, RowsDb
  <2> DEFINE n == db.next
             r == [trans |-> t, text |-> text]
  <2>2. /\ db'.next = n + 1
        /\ db'.row = [db.row EXCEPT ![n] = r] /\ db'.sel = [db.sel EXCEPT ![n] = S] /\ db'.prov = db.prov
        /\ db' = [row |-> db'.row, sel |-> db'.sel, prov |-> db'.prov, next |-> db'.next]
    BY Zenon, <1>4, <2>1 DEF RowsDb
  <2>3. r \in [trans : Transitions \cup {None}, text : Texts]  BY Zenon
  <2> HIDE DEF n, r
  <2>4. n \in Nat /\ n = db.next  BY Zenon, <2>1 DEF n
  <2>5. db' \in RowsDb  BY <2>1, <2>2, <2>3, <2>4 DEF RowsDb
  <2>6. \A i \in Ids : i # n => db'.row[i] = db.row[i] /\ db'.sel[i] = db.sel[i] /\ added'[i] = added[i]
    BY ZenonT(60), <1>4, <2>1, <2>2, <2>4 DEF RowsDb, RowsIInv
  <2>7. n \in Ids => db'.sel[n] = S /\ added'[n].sel = S
    BY ZenonT(60), <1>4, <2>1, <2>2, <2>4 DEF RowsDb, RowsIInv
  <2>8. added' \in [Ids -> {None} \cup [text : Texts, sel : SUBSET Packages]]
    BY Zenon, <1>4 DEF RowsIInv
  <2> QED BY <1>2, <2>1, <2>2, <2>4, <2>5, <2>6, <2>7, <2>8, MaxIdAssumption DEF RowsIInv, RowsOp, RemovalIsKnown, Ids
<1> QED BY Zenon, <1>1, <1>3, <1>4 DEF add_inner

\* The transactions of other threads (insert_fresh_metadata_provenance,
\* clear_transition_if_matches, remove_transition_if_matches, batch_remove).
LEMMA RowsOthers ==
    ASSUME RowsIInv, insert_fresh_metadata_provenance \/ Others
    PROVE  RowsIInv'
<1>1. CASE insert_fresh_metadata_provenance
  <2>1. PICK i \in Ids, p \in Texts : db' = [db EXCEPT !.prov[i] = p]
    BY Zenon, <1>1 DEF insert_fresh_metadata_provenance
  <2>2. db' \in RowsDb /\ db'.row = db.row /\ db'.sel = db.sel /\ db'.next = db.next
    BY Zenon, <2>1 DEF RowsIInv, RowsDb
  <2> QED BY <1>1, <2>2 DEF insert_fresh_metadata_provenance, RowsIInv, RowsOp, RemovalIsKnown
<1>2. ASSUME NEW i \in Ids, db.row[i] # None, NEW r \in [trans : Transitions \cup {None}, text : Texts],
             db' = [db EXCEPT !.row[i] = r], UNCHANGED <<added, op>>
      PROVE  RowsIInv'
  <2>1. /\ db' \in RowsDb /\ db'.sel = db.sel /\ db'.next = db.next
        /\ \A j \in Ids : j # i => db'.row[j] = db.row[j]
    BY Zenon, <1>2 DEF RowsIInv, RowsDb
  <2> QED BY <1>2, <2>1 DEF RowsIInv, RowsOp, RemovalIsKnown
<1>3. CASE Others
  <2>1. UNCHANGED <<added, op>>  BY Zenon, <1>3 DEF Others
  <2>2. ASSUME NEW i \in Ids, NEW t \in used, clear_transition_if_matches(i, t)  PROVE RowsIInv'
    <3>1. db.row[i] # None /\ db' = [db EXCEPT !.row[i] = [db.row[i] EXCEPT !.trans = None]]
      BY Zenon, <2>2 DEF clear_transition_if_matches
    <3>2. [db.row[i] EXCEPT !.trans = None] \in [trans : Transitions \cup {None}, text : Texts]
      BY <3>1 DEF RowsIInv, RowsDb
    <3> QED BY Zenon, <1>2, <2>1, <3>1, <3>2
  <2>3. ASSUME NEW i \in Ids, NEW t \in used, remove_transition_if_matches(i, t)  PROVE RowsIInv'
    BY Zenon, <2>1, <2>3, RowsShrink DEF remove_transition_if_matches
  <2>4. ASSUME NEW i \in Ids, batch_remove({i})  PROVE RowsIInv'
    BY Zenon, <2>1, <2>4, RowsShrink DEF batch_remove
  <2>5. ASSUME NEW i \in Ids, Edit(i)  PROVE RowsIInv'
    <3>1. PICK text \in Texts : db' = [db EXCEPT !.row[i] = [db.row[i] EXCEPT !.text = text]]  BY Zenon, <2>5 DEF Edit
    <3>2. db.row[i] # None  BY Zenon, <2>5 DEF Edit
    <3>3. [db.row[i] EXCEPT !.text = text] \in [trans : Transitions \cup {None}, text : Texts]
      BY <3>2 DEF RowsIInv, RowsDb
    <3> QED BY Zenon, <1>2, <2>1, <3>1, <3>2, <3>3
  <2> QED BY Zenon, <1>3, <2>2, <2>3, <2>4, <2>5 DEF Others
<1> QED BY Zenon, <1>1, <1>3

\* The one element of a singleton (the state of a fresh removal).
LEMMA OnlyElement == \A i : (CHOOSE j \in {i} : TRUE) = i
BY Zenon

\* The caller's snapshots: the rows exist, so their identifiers were handed out
\* (remove_exact_archived, remove_exact_fresh_transition).
LEMMA RowsSnapshot ==
    ASSUME RowsIInv, SnapshotBatch \/ SnapshotFresh \/ Forget
    PROVE  RowsIInv'
<1>1. CASE SnapshotBatch
  <2>1. PICK S \in SUBSET {i \in Ids : db.row[i] # None} :
          /\ S # {}
          /\ op' = [RowsIdle EXCEPT !.kind = "archived", !.ids = S, !.step = "attempt",
                          !.want = [i \in Ids |-> IF i \in S THEN load_selected_state(i) ELSE None]]
    BY Zenon, <1>1 DEF SnapshotBatch
  <2>2. \A i \in S : i \in Ids /\ i < db.next  BY MaxIdAssumption DEF RowsIInv, RowsDb, Ids
  <2>3. /\ op'.kind = "archived" /\ op'.ids = S /\ op'.step = "attempt" /\ op'.mine = {} /\ op'.outcome = "none"
        /\ RowsOp'
    BY Zenon, <2>1 DEF RowsIdle, RowsOp
  <2> QED BY Zenon, <1>1, <2>1, <2>2, <2>3 DEF SnapshotBatch, RowsIInv, RemovalIsKnown
<1>2. CASE SnapshotFresh
  <2>1. PICK i \in Ids, t \in used :
          /\ inspect_exact_fresh_transition(i, t)[1] = "present"
          /\ op' = [RowsIdle EXCEPT !.kind = "fresh", !.ids = {i}, !.trans = t, !.step = "attempt",
                          !.want = [j \in Ids |-> IF j = i THEN inspect_exact_fresh_transition(i, t)[2] ELSE None]]
    BY Zenon, <1>2 DEF SnapshotFresh
  <2>2. db.row[i] # None  BY Zenon, <2>1 DEF inspect_exact_fresh_transition
  <2>3. i < db.next  BY <2>2, MaxIdAssumption DEF RowsIInv, RowsDb, Ids
  <2>4. /\ op'.kind = "fresh" /\ op'.ids = {i} /\ op'.step = "attempt" /\ op'.mine = {} /\ op'.outcome = "none"
        /\ RowsOp'
    BY Zenon, <2>1 DEF RowsIdle, RowsOp
  <2> QED BY Zenon, <1>2, <2>3, <2>4 DEF SnapshotFresh, RowsIInv, RemovalIsKnown
<1>3. CASE Forget
  <2>1. RowsOp' /\ RemovalIsKnown'  BY Zenon, <1>3 DEF Forget, RowsIdle, RowsOp, RemovalIsKnown
  <2>2. op'.outcome = "none"  BY Zenon, <1>3 DEF Forget, RowsIdle
  <2> QED BY Zenon, <1>3, <2>1, <2>2 DEF Forget, RowsIInv
<1> QED BY Zenon, <1>1, <1>2, <1>3

\* The removal of a batch: what it reports is what it did (remove_exact_archived,
\* observe_exact_archived_batch).
LEMMA RowsArchived ==
    ASSUME RowsIInv, remove_exact_archived \/ observe_exact_archived_batch
    PROVE  RowsIInv'
<1>1. CASE remove_exact_archived
  <2>1. op.step = "attempt" /\ op.kind = "archived" /\ op.ids \subseteq Ids /\ op.mine = {} /\ op.ids # {} /\ db \in RowsDb
    BY Zenon, <1>1 DEF remove_exact_archived, RowsIInv, RemovalIsKnown
  <2>2. CASE UNCHANGED db /\ op' = Ends("not_applied")
    <3>1. RowsOp' /\ op'.step = "ended" /\ op'.mine = {} /\ op'.outcome = "not_applied" /\ op'.kind = "archived"
      BY Zenon, <2>1, <2>2 DEF Ends, RowsIInv, RowsOp
    <3> QED BY Zenon, <1>1, <2>2, <3>1 DEF remove_exact_archived, RowsIInv, RemovalIsKnown
  <2>3. CASE db' = Deleted(db, op.ids) /\ op' = [Ends("ok") EXCEPT !.mine = op.ids, !.gone = TRUE]
    <3>1. RowsOp' /\ op'.step = "ended" /\ op'.mine = op.ids /\ op'.ids = op.ids /\ op'.gone /\ op'.outcome = "ok" /\ op'.kind = "archived"
      BY Zenon, <2>1, <2>3 DEF Ends, RowsIInv, RowsOp
    <3> QED BY <1>1, <2>1, <2>3, <3>1, DeletedRows DEF remove_exact_archived, RowsIInv, RemovalIsKnown
  <2>4. CASE UNCHANGED db /\ op' = [op EXCEPT !.step = "observe"]
    <3>1. RowsOp' /\ op'.step = "observe" /\ op'.mine = {} /\ op'.ids = op.ids /\ op'.outcome = op.outcome /\ op'.kind = "archived"
      BY Zenon, <2>1, <2>4 DEF RowsIInv, RowsOp
    <3> QED BY Zenon, <1>1, <2>1, <2>4, <3>1 DEF remove_exact_archived, RowsIInv, RemovalIsKnown
  <2>5. CASE db' = Deleted(db, op.ids) /\ op' = [op EXCEPT !.step = "observe", !.mine = op.ids]
    <3>1. RowsOp' /\ op'.step = "observe" /\ op'.mine = op.ids /\ op'.ids = op.ids /\ op'.outcome = op.outcome /\ op'.kind = "archived"
      BY Zenon, <2>1, <2>5 DEF RowsIInv, RowsOp
    <3>2. \A i \in op.ids : db'.row[i] = None  BY Zenon, <2>1, <2>5, DeletedRows
    <3> QED BY <1>1, <2>1, <2>5, <3>1, <3>2, DeletedRows DEF remove_exact_archived, RowsIInv, RemovalIsKnown
  <2> QED BY Zenon, <1>1, <2>2, <2>3, <2>4, <2>5 DEF remove_exact_archived
<1>2. CASE observe_exact_archived_batch
  <2> DEFINE sees(i) == IF db.row[i] = None THEN "missing"
                        ELSE IF db.row[i].trans # None \/ load_selected_state(i) # op.want[i] THEN "changed" ELSE "exact"
             seen == {sees(i) : i \in op.ids}
  <2>1. /\ op.step = "observe" /\ op.kind = "archived" /\ op.ids # {} /\ op.outcome = "none"
        /\ op.mine \in {{}, op.ids} /\ \A i \in op.mine : db.row[i] = None
    BY Zenon, <1>2 DEF observe_exact_archived_batch, RowsIInv, RemovalIsKnown
  <2>2. ASSUME seen = {"exact"}  PROVE op.mine = {}
    <3>1. PICK i \in op.ids : TRUE  BY Zenon, <2>1
    <3>2. sees(i) = "exact"  BY Zenon, <2>2, <3>1
    <3>3. db.row[i] # None  BY Zenon, <3>2
    <3> QED BY Zenon, <2>1, <3>1, <3>3
  <2>3. \/ op' = [Ends("ok") EXCEPT !.gone = TRUE]
        \/ seen = {"exact"} /\ op' = Ends("not_applied")
        \/ op' = Ends("ambiguous")
    BY Zenon, <1>2 DEF observe_exact_archived_batch
  <2> HIDE DEF seen
  <2>4. /\ RowsOp' /\ op'.step = "ended" /\ op'.kind = "archived" /\ op'.ids = op.ids /\ op'.mine = op.mine
        /\ \/ op'.outcome = "ok" /\ op'.gone
           \/ op'.outcome = "not_applied" /\ op.mine = {}
           \/ op'.outcome = "ambiguous"
    BY Zenon, <2>1, <2>2, <2>3 DEF Ends, RowsIInv, RowsOp
  <2> QED BY Zenon, <1>2, <2>1, <2>4 DEF observe_exact_archived_batch, RowsIInv, RemovalIsKnown
<1> QED BY Zenon, <1>1, <1>2

\* The removal of a fresh state: an absence is reported only with its own commit
\* (remove_exact_fresh_transition).
LEMMA RowsFresh ==
    ASSUME RowsIInv, remove_exact_fresh_transition_once \/ remove_exact_fresh_transition
    PROVE  RowsIInv'
<1> DEFINE i == CHOOSE j \in op.ids : TRUE
<1>1. CASE remove_exact_fresh_transition_once
  <2>1. op.step = "attempt" /\ op.kind = "fresh" /\ op.mine = {} /\ op.outcome = "none" /\ db \in RowsDb
    BY Zenon, <1>1 DEF remove_exact_fresh_transition_once, RowsIInv, RemovalIsKnown
  <2>2. op.ids = {i} /\ i \in Ids  BY Zenon, <2>1, OnlyElement DEF RowsIInv, RemovalIsKnown
  <2>3. \E a \in {"rolled_back", "ok", "uncertain"} :
          \/ UNCHANGED db /\ a # "ok" /\ op' = [op EXCEPT !.step = "reconcile", !.attempt = a]
          \/ db' = Deleted(db, {i}) /\ a # "rolled_back" /\ op' = [op EXCEPT !.step = "reconcile", !.attempt = a, !.mine = {i}]
    BY Zenon, <1>1 DEF remove_exact_fresh_transition_once
  <2> HIDE DEF i
  <2>4. PICK a \in {"rolled_back", "ok", "uncertain"} :
          \/ UNCHANGED db /\ a # "ok" /\ op' = [op EXCEPT !.step = "reconcile", !.attempt = a]
          \/ db' = Deleted(db, {i}) /\ a # "rolled_back" /\ op' = [op EXCEPT !.step = "reconcile", !.attempt = a, !.mine = {i}]
    BY Zenon, <2>3
  <2>5. /\ RowsOp' /\ op'.step = "reconcile" /\ op'.kind = "fresh" /\ op'.ids = op.ids /\ op'.outcome = "none" /\ op'.attempt = a
        /\ a = "rolled_back" => op'.mine = {}
        /\ a = "ok" => op'.mine = op.ids
    BY ZenonT(60), <2>1, <2>2, <2>4 DEF RowsIInv, RowsOp
  <2>6. CASE UNCHANGED db
    BY ZenonT(60), <1>1, <2>2, <2>5, <2>6 DEF remove_exact_fresh_transition_once, RowsIInv, RemovalIsKnown
  <2>7. CASE db' = Deleted(db, {i})
    BY <1>1, <2>1, <2>2, <2>5, <2>7, DeletedRows DEF remove_exact_fresh_transition_once, RowsIInv, RemovalIsKnown
  <2> QED BY Zenon, <2>4, <2>6, <2>7
<1>2. CASE remove_exact_fresh_transition
  <2> DEFINE found == inspect_exact_fresh_transition(i, op.trans)
  <2>1. /\ op.step = "reconcile" /\ op.kind = "fresh" /\ op.outcome = "none"
        /\ op.attempt = "rolled_back" => op.mine = {}
        /\ op.attempt = "ok" => op.mine = op.ids
    BY Zenon, <1>2 DEF remove_exact_fresh_transition, RowsIInv, RemovalIsKnown
  <2>2. \/ op' = [Ends(Reconciled(found)) EXCEPT !.gone = found[1] = "absent"]
        \/ op' = Ends("ambiguous")
    BY Zenon, <1>2 DEF remove_exact_fresh_transition
  <2>3. \/ Reconciled(found) = "absence" /\ found[1] = "absent" /\ op.attempt = "ok"
        \/ Reconciled(found) = "not_applied" /\ op.attempt = "rolled_back"
        \/ Reconciled(found) = "ambiguous"
    <3> HIDE DEF found
    <3> QED BY Zenon DEF Reconciled
  <2> HIDE DEF found
  <2>4. /\ RowsOp' /\ op'.step = "ended" /\ op'.kind = "fresh" /\ op'.ids = op.ids /\ op'.mine = op.mine
        /\ \/ op'.outcome = "absence" /\ op'.gone /\ op.mine = op.ids
           \/ op'.outcome = "not_applied" /\ op.mine = {}
           \/ op'.outcome = "ambiguous"
    BY Zenon, <2>1, <2>2, <2>3 DEF Ends, RowsIInv, RowsOp
  <2> QED BY Zenon, <1>2, <2>1, <2>4 DEF remove_exact_fresh_transition, RowsIInv, RemovalIsKnown
<1> QED BY Zenon, <1>1, <1>2

-----------------------------------------------------------------------------
(* The migration: one step per call. *)

\* A new operation has nothing on its account.
LEMMA StartIsPlain ==
    ASSUME NEW s \in States \cup {None}, NEW kind \in {"migrate", "resolve", "prune", "finalize"},
           NEW step \in {"create", "referenced", "ended"}
    PROVE  LET o == MigrationStart(kind, s, step)
           IN o \in MigrationOp /\ o.kind = kind /\ o.state = s /\ o.step = step /\ o.left = {} /\ o.removed = {}
BY Zenon DEF MigrationStart, MigrationIdle, MigrationOp, Answer

\* The catalogue starts empty (MigrationInit).
LEMMA MigrationStarts ==
    ASSUME MigrationInit
    PROVE  MigrationIInv
<1>1. MigrationShape  BY Zenon DEF MigrationInit, MigrationShape, MigrationOp, Answer, MigrationIdle, Request
<1>2. BlobsAreWhole  BY Zenon DEF MigrationInit, BlobsAreWhole
<1>3. op.kind = "idle"  BY Zenon DEF MigrationInit, MigrationIdle
<1> QED BY Zenon, <1>1, <1>2, <1>3 DEF MigrationIInv, MigrateIsBacked, FinalizeIsBacked, ResolveIsTrue

\* An operation starts, or ends at once with its answer.
LEMMA MigrationOpens ==
    ASSUME MigrationIInv, NEW s \in States,
           migrate_state_system_declaration(s) \/ resolve_migrated_system_snapshot(s) \/ delete_declaration_migrations(s)
    PROVE  MigrationIInv'
<1> USE DEF MigrationIInv
<1>1. CASE migrate_state_system_declaration(s)
  <2>1. op'.kind = "migrate" /\ op'.state = s /\ op'.step = "create" /\ op'.left = {} /\ op'.removed = {} /\ op'.value = tree[s]
    BY Zenon, <1>1 DEF migrate_state_system_declaration, migrate_declaration, MigrationStart, MigrationIdle,
       MigrationOp, Answer
  <2>2. op' \in MigrationOp
    <3> DEFINE o == MigrationStart("migrate", s, "create")
    <3>1. o \in MigrationOp  BY ZenonT(60), StartIsPlain
    <3>2. op' = [o EXCEPT !.value = tree[s]] /\ tree[s] \in Request
      BY Zenon, <1>1 DEF migrate_state_system_declaration, migrate_declaration, MigrationShape
    <3> HIDE DEF o
    <3> QED BY Zenon, <3>1, <3>2 DEF MigrationOp
  <2>3. UNCHANGED <<tree, declaration_row, file>>  BY Zenon, <1>1 DEF migrate_state_system_declaration
  <2>4. MigrationShape'  BY Zenon, <2>1, <2>2, <2>3 DEF MigrationShape, MigrationOp, Answer
  <2>5. BlobsAreWhole'  BY Zenon, <2>3 DEF BlobsAreWhole
  <2>6. MigrateIsBacked'  BY Zenon, <2>1 DEF MigrateIsBacked, MigrationShape, MigrationOp, Answer
  <2> QED BY Zenon, <2>1, <2>4, <2>5, <2>6 DEF FinalizeIsBacked, ResolveIsTrue
<1>2. CASE resolve_migrated_system_snapshot(s)
  <2> DEFINE found == resolve_migrated_blob_revalidated(s)
             value == IF found[1] = "unmigrated" THEN tree[s].source ELSE found[2]
             row1 == declaration_row[s]
  <2>1. op' = [MigrationStart("resolve", s, "ended") EXCEPT !.answer = found[1], !.value = value]
    BY Zenon, <1>2 DEF resolve_migrated_system_snapshot
  <2>2. \/ row1 = None /\ found = <<"unmigrated", None>>
        \/ found \in {<<"marker_drift", None>>, <<"source_drift", None>>, <<"blob_error", None>>}
        \/ row1 # None /\ row1.original = tree[s].source /\ found = <<"model", row1.blob>>
    BY Zenon DEF resolve_migrated_blob_revalidated
  <2> HIDE DEF found
  <2>3. \/ row1 = None /\ found[1] = "unmigrated" /\ value = tree[s].source
        \/ found[1] \in {"marker_drift", "source_drift", "blob_error"}
        \/ row1 # None /\ found[1] = "model" /\ value = row1.blob /\ row1.original = tree[s].source
    BY <2>2
  <2> HIDE DEF value
  <2>4. /\ op'.kind = "resolve" /\ op'.state = s /\ op'.step = "ended" /\ op'.left = {} /\ op'.removed = {}
        /\ op'.answer = found[1] /\ op'.value = value
    BY Zenon, <2>1 DEF MigrationStart, MigrationIdle, MigrationOp, Answer
  <2>5. op' \in MigrationOp
    <3> DEFINE o == MigrationStart("resolve", s, "ended")
    <3>1. o \in MigrationOp  BY Zenon, StartIsPlain
    <3>2. found[1] \in Answer  BY Zenon, <2>3 DEF Answer
    <3>3. value \in Sources \cup {None}  BY <2>2 DEF value, MigrationShape, Row, Request
    <3> HIDE DEF o
    <3>4. op' = [o EXCEPT !.answer = found[1], !.value = value]  BY Zenon, <2>1 DEF o
    <3> QED BY Zenon, <3>1, <3>2, <3>3, <3>4 DEF MigrationOp
  <2>6. UNCHANGED <<tree, declaration_row, file>>  BY Zenon, <1>2 DEF resolve_migrated_system_snapshot
  <2>7. MigrationShape'  BY Zenon, <2>4, <2>5, <2>6 DEF MigrationShape, MigrationOp, Answer
  <2>8. BlobsAreWhole'  BY Zenon, <2>6 DEF BlobsAreWhole
  <2>9. ResolveIsTrue'  BY Zenon, <2>3, <2>4, <2>6 DEF ResolveIsTrue, BlobsAreWhole
  <2> QED BY Zenon, <2>4, <2>7, <2>8, <2>9 DEF MigrateIsBacked, FinalizeIsBacked
<1>3. CASE delete_declaration_migrations(s)
  <2>1. op'.kind = "prune" /\ op'.left = {} /\ op'.removed = {}
    BY Zenon, <1>3 DEF delete_declaration_migrations, MigrationStart, MigrationIdle, MigrationOp, Answer
  <2>2. op' \in MigrationOp
    BY Zenon, <1>3 DEF delete_declaration_migrations, MigrationStart, MigrationIdle, MigrationOp, Answer
  <2>3. declaration_row' = [declaration_row EXCEPT ![s] = None] /\ UNCHANGED <<tree, file>>
    BY Zenon, <1>3 DEF delete_declaration_migrations
  <2>4. MigrationShape'  BY Zenon, <2>1, <2>2, <2>3 DEF MigrationShape, MigrationOp, Answer
  <2>5. BlobsAreWhole'  BY Zenon, <2>3 DEF BlobsAreWhole, MigrationShape, MigrationOp, Answer
  <2> QED BY Zenon, <2>1, <2>4, <2>5 DEF MigrateIsBacked, FinalizeIsBacked, ResolveIsTrue
<1> QED BY Zenon, <1>1, <1>2, <1>3

\* The blob is whole before its row is committed (create, write, sync_directory,
\* commit_declaration_migration).
LEMMA MigrationWrites ==
    ASSUME MigrationIInv, create \/ write \/ sync_directory \/ commit_declaration_migration
    PROVE  MigrationIInv'
<1> USE SourcesAssumption DEF MigrationIInv
<1> DEFINE b == op.value.source
<1>1. op.kind = "migrate" /\ op.state \in States /\ op.value \in Request /\ b \in Sources
  BY Zenon DEF create, write, sync_directory, commit_declaration_migration, MigrateIsBacked, Request
<1>2. UNCHANGED tree  BY Zenon DEF create, write, sync_directory, commit_declaration_migration
<1> HIDE DEF b
<1>3. ASSUME op'.kind = "migrate" /\ op'.state = op.state /\ op'.value = op.value,
             op'.step \in {"sync_directory", "commit"} => file'[b] = "full"
      PROVE  MigrateIsBacked' /\ FinalizeIsBacked' /\ ResolveIsTrue'
  BY Zenon, <1>1, <1>3 DEF MigrateIsBacked, FinalizeIsBacked, ResolveIsTrue, b
<1>4. CASE create
  <2>1. UNCHANGED declaration_row  BY Zenon, <1>4 DEF create
  <2>2. CASE file[b] = "absent" /\ file' = [file EXCEPT ![b] = "partial"] /\ op' = [op EXCEPT !.step = "write"]
    <3>1. op'.kind = "migrate" /\ op'.state = op.state /\ op'.value = op.value /\ op'.step = "write"
      BY Zenon, <1>1, <2>2 DEF MigrationShape, MigrationOp, Answer
    <3>2. MigrationShape'  BY Zenon, <1>1, <1>2, <2>1, <2>2 DEF MigrationShape, MigrationOp, Answer
    <3>3. BlobsAreWhole'  BY Zenon, <1>1, <2>1, <2>2 DEF BlobsAreWhole, MigrationShape, MigrationOp, Answer, Row
    <3> QED BY Zenon, <1>3, <3>1, <3>2, <3>3
  <2>3. CASE UNCHANGED file /\ ((op' = [op EXCEPT !.step = "commit"] /\ read(b) = b) \/ op' = Ended("mismatch"))
    <3>1. /\ op'.kind = "migrate" /\ op'.state = op.state /\ op'.value = op.value
          /\ op'.step = "ended" \/ (op'.step = "commit" /\ read(b) = b)
      BY ZenonT(60), <1>1, <2>3 DEF MigrationShape, MigrationOp, Answer, Ended
    <3>2. read(b) = b => file'[b] = "full"  BY Zenon, <1>1, <2>3 DEF read
    <3>3. MigrationShape'  BY ZenonT(60), <1>2, <2>1, <2>3 DEF MigrationShape, MigrationOp, Answer, Ended
    <3>4. BlobsAreWhole'  BY Zenon, <2>1, <2>3 DEF BlobsAreWhole
    <3>5. op'.step \in {"sync_directory", "commit"} => file'[b] = "full"  BY Zenon, <3>1, <3>2
    <3> QED BY Zenon, <1>3, <3>1, <3>3, <3>4, <3>5
  <2> QED BY Zenon, <1>4, <2>2, <2>3 DEF create, b
<1>5. CASE write
  <2>1. file' = [file EXCEPT ![b] = "full"] /\ UNCHANGED declaration_row /\ op' = [op EXCEPT !.step = "sync_directory"]
    BY Zenon, <1>5 DEF write, b
  <2>2. op'.kind = "migrate" /\ op'.state = op.state /\ op'.value = op.value
    BY Zenon, <1>1, <2>1 DEF MigrationShape, MigrationOp, Answer
  <2>3. MigrationShape' /\ file'[b] = "full"  BY Zenon, <1>1, <1>2, <2>1 DEF MigrationShape, MigrationOp, Answer
  <2>4. BlobsAreWhole'  BY Zenon, <1>1, <2>1 DEF BlobsAreWhole, MigrationShape, MigrationOp, Answer, Row
  <2> QED BY Zenon, <1>3, <2>2, <2>3, <2>4
<1>6. CASE sync_directory
  <2>1. UNCHANGED <<file, declaration_row>> /\ op' = [op EXCEPT !.step = "commit"] /\ op.step = "sync_directory"
    BY Zenon, <1>6 DEF sync_directory
  <2>2. op'.kind = "migrate" /\ op'.state = op.state /\ op'.value = op.value
    BY Zenon, <1>1, <2>1 DEF MigrationShape, MigrationOp, Answer
  <2>3. MigrationShape'  BY Zenon, <1>2, <2>1 DEF MigrationShape, MigrationOp, Answer
  <2>4. file'[b] = "full"  BY Zenon, <1>1, <2>1 DEF MigrateIsBacked, b
  <2>5. BlobsAreWhole'  BY Zenon, <2>1 DEF BlobsAreWhole
  <2> QED BY Zenon, <1>3, <2>2, <2>3, <2>4, <2>5
<1>7. CASE commit_declaration_migration
  <2> DEFINE new == [marker |-> op.value.marker, original |-> op.value.source, blob |-> op.value.source]
  <2>1. /\ declaration_row' = declaration_row \/ declaration_row' = [declaration_row EXCEPT ![op.state] = new]
        /\ UNCHANGED file /\ op.step = "commit"
    BY Zenon, <1>7 DEF commit_declaration_migration
  <2>2. PICK answer \in Answer : op' = Ended(answer)  BY Zenon, <1>7 DEF commit_declaration_migration, Answer
  <2>3. op'.kind = "migrate" /\ op'.state = op.state /\ op'.value = op.value /\ op'.step = "ended"
    BY Zenon, <1>1, <2>2 DEF MigrationShape, MigrationOp, Answer, Ended
  <2>4. new \in Row /\ new.blob = new.original /\ file[new.blob] = "full"
    BY Zenon, <1>1, <2>1 DEF Row, MigrateIsBacked, Request
  <2> HIDE DEF new
  <2>5. MigrationShape'
    <3>1. op' \in MigrationOp  BY Zenon, <2>2 DEF MigrationShape, MigrationOp, Ended
    <3> QED BY Zenon, <1>1, <1>2, <2>1, <2>4, <3>1 DEF MigrationShape
  <2>6. BlobsAreWhole'  BY <1>1, <2>1, <2>4 DEF BlobsAreWhole, MigrationShape, MigrationOp, Answer
  <2> QED BY Zenon, <1>3, <2>3, <2>5, <2>6
<1> QED BY Zenon, <1>4, <1>5, <1>6, <1>7

\* A finalization removes blobs of no row (finalize_declaration_migration,
\* collect_unreferenced_blobs).
LEMMA MigrationFinalizes ==
    ASSUME MigrationIInv, finalize_declaration_migration \/ collect_unreferenced_blobs \/ remove_declaration
    PROVE  MigrationIInv'
<1> USE DEF MigrationIInv
<1>1. UNCHANGED <<tree, declaration_row>>
  BY Zenon DEF finalize_declaration_migration, collect_unreferenced_blobs, remove_declaration
<1>2. ASSUME op'.kind = "finalize", FinalizeIsBacked', BlobsAreWhole', MigrationShape'  PROVE MigrationIInv'
  BY Zenon, <1>2 DEF MigrateIsBacked, ResolveIsTrue
<1>3. CASE finalize_declaration_migration
  <2>1. UNCHANGED file  BY Zenon, <1>3 DEF finalize_declaration_migration
  <2>2. /\ op'.kind = "finalize" /\ op'.left = {} /\ op'.removed = {}
        /\ op'.step = "ended" \/ (op'.step = "referenced" /\ verify_migration_readiness(States))
        /\ op' \in MigrationOp
    <3>1. CASE op' = MigrationStart("finalize", None, "referenced") /\ verify_migration_readiness(States)
      BY Zenon, <3>1 DEF MigrationStart, MigrationIdle, MigrationOp, Answer
    <3>2. CASE op' = [MigrationStart("finalize", None, "ended") EXCEPT !.answer = "not_ready"]
      BY Zenon, <3>2 DEF MigrationStart, MigrationIdle, MigrationOp, Answer
    <3> QED BY Zenon, <1>3, <3>1, <3>2 DEF finalize_declaration_migration
  <2>3. FinalizeIsBacked'  BY Zenon, <1>1, <2>2 DEF FinalizeIsBacked, verify_migration_readiness
  <2>4. MigrationShape'  BY Zenon, <1>1, <2>1, <2>2 DEF MigrationShape, MigrationOp, Answer
  <2>5. BlobsAreWhole'  BY Zenon, <1>1, <2>1 DEF BlobsAreWhole
  <2> QED BY Zenon, <1>2, <2>2, <2>3, <2>4, <2>5
<1>4. CASE collect_unreferenced_blobs
  <2> DEFINE keep == referenced_migration_blobs
             left == {b \in Sources : file[b] # "absent"} \ keep
  <2>1. op.kind = "finalize" /\ op.step = "referenced" /\ UNCHANGED file /\ op' = [op EXCEPT !.step = "remove", !.keep = keep, !.left = left]
    BY Zenon, <1>4 DEF collect_unreferenced_blobs
  <2>0. keep \subseteq Sources  BY DEF referenced_migration_blobs, MigrationShape, Row
  <2>2. left \subseteq Sources /\ \A s \in States : declaration_row[s] # None => declaration_row[s].blob \notin left
    BY Zenon DEF referenced_migration_blobs
  <2> HIDE DEF keep, left
  <2>3. op'.kind = "finalize" /\ op'.step = "remove" /\ op'.left = left /\ op'.removed = op.removed
    BY Zenon, <2>1 DEF MigrationShape, MigrationOp, Answer
  <2>4. \A s \in States : declaration_row[s] # None  BY Zenon, <2>1 DEF FinalizeIsBacked
  <2>5. FinalizeIsBacked'  BY Zenon, <1>1, <2>2, <2>3, <2>4 DEF FinalizeIsBacked
  <2>6. MigrationShape'
    <3>1. op' \in MigrationOp  BY Zenon, <2>0, <2>1, <2>2 DEF MigrationShape, MigrationOp
    <3> QED BY Zenon, <1>1, <2>1, <3>1 DEF MigrationShape
  <2>7. BlobsAreWhole'  BY Zenon, <1>1, <2>1 DEF BlobsAreWhole
  <2> QED BY Zenon, <1>2, <2>3, <2>5, <2>6, <2>7
<1>5. CASE remove_declaration
  <2>1. op.kind = "finalize" /\ op.step = "remove"  BY Zenon, <1>5 DEF remove_declaration
  <2>2. \A s \in States : declaration_row[s] # None /\ declaration_row[s].blob \notin op.left
    BY Zenon, <2>1 DEF FinalizeIsBacked
  <2>3. ASSUME NEW b \in op.left, file' = [file EXCEPT ![b] = "absent"],
               op' = [op EXCEPT !.left = @ \ {b}, !.removed = @ \cup {b}]
        PROVE  MigrationIInv'
    <3>1. op'.kind = "finalize" /\ op'.step = "remove" /\ op'.left = op.left \ {b}
      BY Zenon, <2>1, <2>3 DEF MigrationShape, MigrationOp, Answer
    <3>2. FinalizeIsBacked'  BY Zenon, <1>1, <2>2, <3>1 DEF FinalizeIsBacked
    <3>3. MigrationShape'  BY Zenon, <1>1, <2>3 DEF MigrationShape, MigrationOp, Answer
    <3>4. BlobsAreWhole'  BY ZenonT(60), <1>1, <2>2, <2>3 DEF BlobsAreWhole, MigrationShape, MigrationOp, Answer, Row
    <3> QED BY Zenon, <1>2, <3>1, <3>2, <3>3, <3>4
  <2>4. ASSUME op' = Ended("finalized"), UNCHANGED file  PROVE MigrationIInv'
    <3>1. op'.kind = "finalize" /\ op'.step = "ended"
      BY Zenon, <2>1, <2>4 DEF Ended, MigrationShape, MigrationOp, Answer
    <3>2. FinalizeIsBacked'  BY Zenon, <1>1, <2>2, <3>1 DEF FinalizeIsBacked
    <3>3. MigrationShape'  BY Zenon, <1>1, <2>4 DEF MigrationShape, MigrationOp, Answer, Ended
    <3>4. BlobsAreWhole'  BY Zenon, <1>1, <2>4 DEF BlobsAreWhole
    <3> QED BY Zenon, <1>2, <3>1, <3>2, <3>3, <3>4
  <2> QED BY Zenon, <1>5, <2>3, <2>4 DEF remove_declaration
<1> QED BY Zenon, <1>3, <1>4, <1>5

\* Trees drift and processes are killed.
LEMMA MigrationSuffers ==
    ASSUME MigrationIInv, Drift \/ MigrationKill
    PROVE  MigrationIInv'
<1> USE DEF MigrationIInv
<1>1. UNCHANGED <<declaration_row, file>>  BY Zenon DEF Drift, MigrationKill
<1>2. BlobsAreWhole'  BY Zenon, <1>1 DEF BlobsAreWhole
<1>3. tree' \in [States -> Request]
  BY Zenon DEF Drift, MigrationKill, MigrationShape, Request
<1>4. CASE op' = MigrationIdle
  <2>1. op'.kind = "idle"  BY Zenon, <1>4 DEF MigrationIdle
  <2>2. MigrationShape'  BY Zenon, <1>1, <1>3, <1>4 DEF MigrationShape, MigrationOp, Answer, MigrationIdle
  <2> QED BY Zenon, <1>2, <2>1, <2>2 DEF MigrateIsBacked, FinalizeIsBacked, ResolveIsTrue
<1>5. CASE op' = op /\ op.step # "ended"
  <2>1. MigrationShape'  BY <1>1, <1>3, <1>5 DEF MigrationShape, MigrationOp, Answer
  <2>2. MigrateIsBacked' /\ FinalizeIsBacked' /\ ResolveIsTrue'
    BY Zenon, <1>1, <1>5 DEF MigrateIsBacked, FinalizeIsBacked, ResolveIsTrue
  <2> QED BY Zenon, <1>2, <2>1, <2>2
<1> QED BY Zenon, <1>4, <1>5 DEF Drift, MigrationKill, MigrationFree

-----------------------------------------------------------------------------
(* All parts together. *)

StoresIInv == StoreInv /\ CacheInv /\ RowsInv /\ MigrationInv

\* Every store starts within its invariant: the empty stores, the cache of an
\* earlier run, the empty database and the declarations on disk.
LEMMA StoresStart ==
    ASSUME Init
    PROVE  StoresIInv
<1>1. ASSUME subject = "store"  PROVE StoreIInv
  BY Zenon, <1>1, StoreStarts DEF Init, StorageInit, DeclarationInit
<1>2. ASSUME subject = "cache"  PROVE CacheIInv
  BY Zenon, <1>2, CacheStarts DEF Init, StorageInit, DeclarationInit
<1>3. ASSUME subject = "rows"  PROVE RowsIInv
  BY Zenon, <1>3, RowsStart DEF Init, StorageInit, DeclarationInit
<1>4. ASSUME subject = "migration"  PROVE MigrationIInv
  BY Zenon, <1>4, MigrationStarts DEF Init, StorageInit, DeclarationInit
<1> QED BY Zenon, <1>1, <1>2, <1>3, <1>4 DEF StoresIInv, StoreInv, CacheInv, RowsInv, MigrationInv

\* A step is a step of the part the behaviour exercises.
LEMMA OwnStep ==
    ASSUME Next
    PROVE  /\ subject' = subject
           /\ subject = "store" => StoreNext
           /\ subject = "cache" => CacheNext
           /\ subject = "rows" => RowsNext
           /\ subject = "migration" => MigrationNext
<1>1. CASE StorageNext
  BY Zenon, <1>1 DEF StorageNext, StoreOnly, CacheOnly, RowsOnly, ReadsOnly
<1>2. CASE DeclarationNext
  BY Zenon, <1>2 DEF DeclarationNext, SlotOnly, MigrationOnly
<1> QED BY Zenon, <1>1, <1>2 DEF Next

\* No step of a store, of another thread or from outside leads out of it.
LEMMA StoresStep ==
    ASSUME StoresIInv, [Next]_vars
    PROVE  StoresIInv'
<1> USE DEF StoresIInv, StoreInv, CacheInv, RowsInv, MigrationInv
<1>1. CASE UNCHANGED vars
  <2>1. UNCHANGED <<subject, op>> /\ UNCHANGED StorageOwn /\ UNCHANGED DeclarationOwn  BY Zenon, <1>1 DEF vars
  <2>2. StoreIInv => StoreIInv'
    BY Zenon, <2>1 DEF StorageOwn, StoreIInv, StoreShape, OpBacked, Collecting, Stored, Safe
  <2>3. CacheIInv => CacheIInv'
    BY Zenon, <2>1 DEF StorageOwn, CacheIInv, CacheTypeOK
  <2>4. RowsIInv => RowsIInv'
    BY Zenon, <2>1 DEF StorageOwn, RowsIInv, RowsOp, RemovalIsKnown
  <2>5. MigrationIInv => MigrationIInv'
    BY Zenon, <2>1 DEF DeclarationOwn, MigrationIInv, MigrationShape, BlobsAreWhole, MigrateIsBacked,
       FinalizeIsBacked, ResolveIsTrue
  <2> QED BY Zenon, <2>1, <2>2, <2>3, <2>4, <2>5
<1>2. CASE Next
  <2>1. subject' = subject  BY Zenon, <1>2, OwnStep
  <2>2. ASSUME subject = "store"  PROVE StoreIInv'
    <3>1. StoreNext /\ StoreIInv  BY Zenon, <1>2, <2>2, OwnStep
    <3> HIDE DEF StoreInv, StoresIInv
    <3> QED BY Zenon, <3>1, StoreBegins, StoreCaches, StoreCollects, StoreSuffers DEF StoreNext
  <2>3. ASSUME subject = "cache"  PROVE CacheIInv'
    <3>1. CacheNext /\ CacheIInv  BY Zenon, <1>2, <2>3, OwnStep
    <3> HIDE DEF CacheInv, StoresIInv
    <3>2. ASSUME NEW t \in Task, Proceed(t)  PROVE CacheIInv'
      BY Zenon, <3>1, <3>2, CacheFetches, CachePublishes, CacheEnds DEF Proceed
    <3>3. CASE Done  BY Zenon, <3>1, <3>3 DEF Done, StorageVars, CacheIInv, CacheTypeOK
    <3> QED BY Zenon, <3>1, <3>2, <3>3, CacheEnds DEF CacheNext
  <2>4. ASSUME subject = "rows"  PROVE RowsIInv'
    <3>1. RowsNext /\ RowsIInv  BY Zenon, <1>2, <2>4, OwnStep
    <3> HIDE DEF RowsInv, StoresIInv
    <3> QED BY Zenon, <3>1, RowsAdd, RowsOthers, RowsSnapshot, RowsArchived, RowsFresh DEF RowsNext
  <2>5. ASSUME subject = "migration"  PROVE MigrationIInv'
    <3>1. MigrationNext /\ MigrationIInv  BY Zenon, <1>2, <2>5, OwnStep
    <3> HIDE DEF MigrationInv, StoresIInv
    <3>2. CASE DeclarationDone
      BY Zenon, <3>1, <3>2 DEF DeclarationDone, DeclarationVars, MigrationIInv, MigrationShape, BlobsAreWhole,
         MigrateIsBacked,
         FinalizeIsBacked, ResolveIsTrue
    <3> QED BY Zenon, <3>1, <3>2, MigrationOpens, MigrationWrites, MigrationFinalizes, MigrationSuffers
               DEF MigrationNext
  <2> QED BY Zenon, <2>1, <2>2, <2>3, <2>4, <2>5
<1> QED BY Zenon, <1>1, <1>2

\* The inductive invariant of the four parts.
THEOREM StoresInvariant == Spec => []StoresIInv
BY StoresStart, StoresStep, PTL DEF Spec

\* What the databases record is stored and true: no order of caching, recording
\* and collecting, stopped anywhere, loses a package that a state selects; no
\* task takes a published download away or keeps the lock; rows are whole and
\* removals report what they did; a committed migration leads to its whole blob.
THEOREM RecordsTrue == Spec => []RecordsAreTrue
<1>1. StoresIInv => RecordsAreTrue
  <2> SUFFICES ASSUME StoresIInv PROVE RecordsAreTrue
    BY Zenon
  <2>1. RecordedStatesAreStored
    BY Zenon DEF StoresIInv, StoreInv, StoreIInv, RecordedStatesAreStored, Stored, Safe
  <2>2. PublishedStays
    BY Zenon DEF StoresIInv, CacheInv, CacheIInv, PublishedStays
  <2>3. LockIsReleased
    BY Zenon DEF StoresIInv, CacheInv, CacheIInv, CacheTypeOK, LockIsReleased, Publishing
  <2>4. RowsAreWhole /\ NotAppliedIsTrue /\ DoneIsTrue
    BY Zenon DEF StoresIInv, RowsInv, RowsIInv, RowsAreWhole, NotAppliedIsTrue, DoneIsTrue
  <2>5. RowHasBlob
    BY Zenon DEF StoresIInv, MigrationInv, MigrationIInv, BlobsAreWhole, RowHasBlob
  <2>6. ResolvesItsOwnTree
    BY Zenon DEF StoresIInv, MigrationInv, MigrationIInv, ResolveIsTrue, ResolvesItsOwnTree
  <2>7. CollectsOnlyResidue
    BY Zenon DEF StoresIInv, MigrationInv, MigrationIInv, BlobsAreWhole, FinalizeIsBacked, CollectsOnlyResidue
  <2> QED BY Zenon, <2>1, <2>2, <2>3, <2>4, <2>5, <2>6, <2>7 DEF RecordsAreTrue
<1> QED BY <1>1, StoresInvariant, PTL

\* A collection that runs to its end leaves nothing that no row names
\* (remove_orphaned_files).
THEOREM CollectionComplete == Spec => CollectionIsComplete
<1>1. StoresIInv => (subject = "store" => (GcDone => Present \subseteq Hashes(layout) /\ downloads \subseteq install))
  BY Zenon DEF StoresIInv, StoreInv, StoreIInv, Collecting, GcDone, Present, Hashes
<1> QED BY <1>1, StoresInvariant, PTL DEF CollectionIsComplete

\* Only authentic bytes under the entry's name are unpacked (Download::unpack).
THEOREM UnpackedAuthentic == Spec => UnpackedIsAuthentic
<1> DEFINE A == subject = "cache" =>
              \A t \in Task : pc'[t] = "unpacked" /\ pc[t] # "unpacked" => content[fd[t]] = "good" /\ entry = fd[t]
<1>1. ASSUME StoresIInv, [Next]_vars  PROVE A
  <2> SUFFICES ASSUME subject = "cache", NEW t \in Task, pc'[t] = "unpacked", pc[t] # "unpacked"
               PROVE  content[fd[t]] = "good" /\ entry = fd[t]
    BY Zenon
  <2>1. CacheIInv  BY Zenon, <1>1 DEF StoresIInv, CacheInv
  <2>2. CacheNext  BY Zenon, <1>1, OwnStep DEF vars, StorageOwn
  <2> HIDE <1>1
  <2>3. PICK u \in Task : Proceed(u) \/ Fail(u)
    BY Zenon, <2>2 DEF CacheNext, Rot, Copy, Done, StorageVars
  <2>4. pc' = [pc EXCEPT ![u] = pc'[u]] /\ pc \in [Task -> Steps]
    BY Zenon, <2>1, <2>3 DEF Proceed, Fail, Goto, Look, Hash, Reopen, Download, lock_directory, LockTimeout,
       CheckEntry,
       rename_noreplace, NotConverged, SyncDirectory, Finish, RollBack, UnpackStart, UnpackEnd, CacheIInv, CacheTypeOK
  <2>5. t = u  BY Zenon, <2>4
  <2>6. UnpackEnd(t)
    BY Zenon, <2>1, <2>3, <2>4, <2>5 DEF Proceed, Fail, Goto, Look, Hash, Reopen, Download, lock_directory,
       LockTimeout, CheckEntry,
       rename_noreplace, NotConverged, SyncDirectory, Finish, RollBack, UnpackStart, CacheIInv, CacheTypeOK
  <2>7. pc[t] = "unpacking" /\ Authentic(fd[t])
    BY Zenon, <2>4, <2>6 DEF UnpackEnd, Goto
  <2> QED BY Zenon, <2>1, <2>7 DEF Authentic, Linked, CacheIInv, Renamed
<1> QED BY <1>1, StoresInvariant, PTL DEF Spec, UnpackedIsAuthentic

\* A removal of archived states takes its whole batch or nothing, and no row in
\* flight (remove_exact_archived).
THEOREM BatchWhole == Spec => WholeBatch
<1> DEFINE taken == {i \in Ids : db.row[i] # None /\ db'.row[i] = None}
           A == subject = "rows" =>
              ((op.kind = "archived" /\ op.step = "attempt" /\ op'.step # "attempt")
                 => taken \in {{}, op.ids} /\ taken \cap InFlight = {})
<1>1. ASSUME StoresIInv, [Next]_vars  PROVE A
  <2> SUFFICES ASSUME subject = "rows", op.kind = "archived", op.step = "attempt", op'.step # "attempt"
               PROVE  taken \in {{}, op.ids} /\ taken \cap InFlight = {}
    BY Zenon
  <2>1. RowsIInv  BY Zenon, <1>1 DEF StoresIInv, RowsInv
  <2>2. RowsNext  BY Zenon, <1>1, OwnStep DEF vars
  <2> HIDE <1>1
  <2>3. remove_exact_archived
    BY Zenon, <2>2 DEF RowsNext, Add, insert_fresh_metadata_provenance, Others, SnapshotBatch, SnapshotFresh, Free,
       Forget,
       observe_exact_archived_batch, remove_exact_fresh_transition_once, remove_exact_fresh_transition
  <2>4. CASE db' = db
    <3>1. taken = {}  BY Zenon, <2>4
    <3> QED BY Zenon, <3>1
  <2>5. CASE db' = Deleted(db, op.ids) /\ \A i \in op.ids : Refused(i) = "fine"
    <3>1. db \in RowsDb /\ op.ids \subseteq Ids  BY Zenon, <2>1 DEF RowsIInv, RemovalIsKnown
    <3>2. \A i \in Ids : db'.row[i] = IF i \in op.ids THEN None ELSE db.row[i]  BY <2>5, <3>1, DeletedRows
    <3>3. \A i \in op.ids : db.row[i] # None /\ db.row[i].trans = None  BY Zenon, <2>5 DEF Refused
    <3>4. taken = op.ids  BY Zenon, <3>1, <3>2, <3>3
    <3>5. op.ids \cap InFlight = {}  BY Zenon, <3>3 DEF InFlight
    <3> HIDE DEF taken
    <3> QED BY Zenon, <3>4, <3>5
  <2> QED BY Zenon, <2>3, <2>4, <2>5 DEF remove_exact_archived
<1> QED BY <1>1, StoresInvariant, PTL DEF Spec, WholeBatch

\* A committed migration is never replaced (commit_declaration_migration).
THEOREM NeverReplaced == Spec => NoReplace
<1> DEFINE A == subject = "migration" =>
              \A s \in States : (declaration_row[s] # None /\ declaration_row'[s] # declaration_row[s]) => declaration_row'[s] = None
<1>1. ASSUME StoresIInv, [Next]_vars  PROVE A
  <2> SUFFICES ASSUME subject = "migration", declaration_row' # declaration_row  PROVE A
    BY Zenon
  <2>1. MigrationShape  BY Zenon, <1>1 DEF StoresIInv, MigrationInv, MigrationIInv
  <2>2. MigrationNext  BY Zenon, <1>1, OwnStep DEF vars, DeclarationOwn
  <2> HIDE <1>1
  <2>3. commit_declaration_migration \/ \E s \in States : delete_declaration_migrations(s)
    BY Zenon, <2>2 DEF MigrationNext, migrate_state_system_declaration, resolve_migrated_system_snapshot, create,
       write,
       sync_directory, finalize_declaration_migration, collect_unreferenced_blobs, remove_declaration, Drift,
       MigrationKill, DeclarationDone, DeclarationVars
  <2>4. CASE commit_declaration_migration
    <3>1. \E new : declaration_row' = [declaration_row EXCEPT ![op.state] = new] /\ declaration_row[op.state] = None
      BY Zenon, <2>4 DEF commit_declaration_migration
    <3> QED BY Zenon, <2>1, <3>1 DEF MigrationShape
  <2>5. ASSUME NEW s \in States, delete_declaration_migrations(s)  PROVE A
    <3>1. declaration_row' = [declaration_row EXCEPT ![s] = None]  BY Zenon, <2>5 DEF delete_declaration_migrations
    <3> QED BY Zenon, <2>1, <3>1 DEF MigrationShape
  <2> QED BY Zenon, <2>3, <2>4, <2>5
<1> QED BY <1>1, StoresInvariant, PTL DEF Spec, NoReplace
=============================================================================
